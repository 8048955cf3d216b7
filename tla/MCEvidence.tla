------------------------------ MODULE MCEvidence ------------------------------
(***************************************************************************)
(* One destination for keys and one for evidence, so that commands that    *)
(* run at the same time compete for them; two keys; a report that replays, *)
(* one that does not and one that is not eligible; times from 0 to 3 that  *)
(* meet at every bound of issue, expiry, validity and lifetime.            *)
(***************************************************************************)
EXTENDS Evidence, TLC

CONSTANTS c1, c2, c3, k1, k2, good, false, partial

ThreeCommands == {c1, c2, c3}
TwoKeys == {k1, k2}
AllReports == {good, false, partial}
EligibleReports == {good, false}
TornData == [kind |-> "torn"]
FilePaths == {"report", "key", "evidence", "policy"}

Statement(k, audience, until, report) ==
    [issuer |-> "team", audience |-> audience, keyid |-> k,
     issued_at |-> 1, expires_at |-> until, report |-> report]
SomePayloads ==
    {Statement(k1, "audit", 3, good), Statement(k1, "audit", 3, false), Statement(k1, "test", 3, good),
     Statement(k2, "audit", 3, good)}

SomeInvocations ==
    {[kind |-> "keygen", output |-> "key"],
     [kind |-> "sign", first |-> "report", second |-> "key", output |-> "evidence",
      issuer |-> "team", audience |-> "audit", issued_at |-> 1, expires_at |-> 3]}
    \cup
    {[kind |-> "verify", first |-> "evidence", second |-> "policy", issuer |-> "team",
      audience |-> "audit", now |-> t, max_lifetime |-> l] : t \in 1 .. 3, l \in 1 .. 2}

Entry(status) ==
    [issuer |-> "team", audiences |-> {"audit"}, not_before |-> 1, not_after |-> 3, status |-> status]
Policy(keys) == [kind |-> "policy", keys |-> keys]
TrustsFirst == Policy(k1 :> Entry("active"))
RevokedFirst == Policy(k1 :> Entry("revoked") @@ k2 :> Entry("active"))

Report(r) == [kind |-> "report", report |-> r]
Others ==
    {[path |-> "report", data |-> Report(false)], [path |-> "report", data |-> Report(partial)],
     [path |-> "policy", data |-> RevokedFirst]}
AtFirst ==
    {[path |-> "report", data |-> Report(good), by |-> None],
     [path |-> "policy", data |-> TrustsFirst, by |-> None]}

CommandSymmetry == Permutations(ThreeCommands)
=============================================================================
