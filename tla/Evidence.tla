------------------------------- MODULE Evidence -------------------------------
(***************************************************************************)
(* Authenticated evidence (foresee/evidence_cli.py, evidence_workflow.py,  *)
(* evidence_auth.py, evidence_format.py): commands that make keys, sign    *)
(* reports once they replay, and verify envelopes against a trust policy,  *)
(* over files that others create, replace and remove meanwhile.            *)
(*                                                                         *)
(* A signature is the key and the payload it was made over: that nobody    *)
(* else makes it is what the external library promises.  Fingerprints are  *)
(* their keys, checksums and encodings what they are computed from.  Of a  *)
(* report it matters whether it is eligible (_report) and whether it       *)
(* replays; that a replay under limits may fail for want of time or memory *)
(* is a choice.  Key and policy are read at once, as the bounded read of a *)
(* small file is.                                                          *)
(***************************************************************************)
EXTENDS FilePublication, Integers, FiniteSets

CONSTANTS
    Keys, Reports,
    Eligible, Reproducible,   \* reports
    Payloads,                 \* statements that occur
    Invocations,              \* command lines
    Given,                    \* paths and what others may put there
    InitialFiles,
    MaxOutside                \* bound: what others do, crashes included

Killed == -9

ASSUME EvidenceAssumption ==
    /\ Reproducible \subseteq Eligible /\ Eligible \subseteq Reports
    /\ \A p \in Payloads : p.issued_at \in Int /\ p.expires_at \in Int /\ p.keyid \in Keys
    /\ \A i \in Invocations :
          /\ i.kind \in {"keygen", "sign", "verify"}
          /\ i.kind = "sign" => i.issued_at \in Int /\ i.expires_at \in Int
          /\ i.kind = "verify" => i.now \in Int /\ i.max_lifetime \in Int
    /\ Torn.kind # "envelope" /\ \A f \in Given \cup InitialFiles : f.data.kind # "envelope"
    /\ \A f \in InitialFiles : f.by = None
    /\ None \notin Commands \cup {0, 1, Killed}
    /\ MaxOutside \in Nat

VARIABLES
    pc,         \* where each command is
    args,       \* its command line
    first,      \* the data of the first file it read
    second,     \* of the second one
    output,     \* what it publishes
    exit,       \* its exit status, or None
    generated,  \* keys made so far
    endorsed,   \* history: all signatures ever made
    accepted,   \* history: the verifications that were satisfied
    outside     \* history: what others did so far

command == <<pc, args, first, second, output, exit>>
history == <<generated, endorsed, accepted, outside>>
vars == <<disk, command, history>>

Stages == {"start", "first", "second", "prepare", "replay", "authenticate",
           "create", "sync", "link", "unlink", "failed", "exited"}
Running(c) == pc[c] \notin {"start", "exited"}

KeyFile(k) == [kind |-> "key", key |-> k]
Envelope(payload, keyid, signature) ==
    [kind |-> "envelope", payload |-> payload, keyid |-> keyid, signature |-> signature]
Signature(k, payload) == [key |-> k, over |-> payload]

Init ==
    /\ files = InitialFiles
    /\ temp = [c \in Commands |-> None]
    /\ synced = [c \in Commands |-> FALSE]
    /\ pc = [c \in Commands |-> "start"]
    /\ args = [c \in Commands |-> None]
    /\ first = [c \in Commands |-> None]
    /\ second = [c \in Commands |-> None]
    /\ output = [c \in Commands |-> None]
    /\ exit = [c \in Commands |-> None]
    /\ generated = {}
    /\ endorsed = {}
    /\ accepted = {}
    /\ outside = 0

GoTo(c, stage) == pc' = [pc EXCEPT ![c] = stage]
Exit(c, status) == GoTo(c, "exited") /\ exit' = [exit EXCEPT ![c] = status]

-----------------------------------------------------------------------------
(* Starting a command.  generate_key draws a key nobody has.               *)
StartKeygen(c, i, k) ==
    /\ pc[c] = "start" /\ i.kind = "keygen"
    /\ k \notin generated
    /\ args' = [args EXCEPT ![c] = i]
    /\ generated' = generated \cup {k}
    /\ output' = [output EXCEPT ![c] = KeyFile(k)]
    /\ GoTo(c, "create")
    /\ UNCHANGED <<disk, first, second, exit, endorsed, accepted, outside>>

StartReading(c, i) ==
    /\ pc[c] = "start" /\ i.kind \in {"sign", "verify"}
    /\ args' = [args EXCEPT ![c] = i]
    /\ GoTo(c, "first")
    /\ UNCHANGED <<disk, first, second, output, exit, history>>

(* Any error before something is written: exit status 1.                   *)
Fail(c) ==
    /\ Exit(c, 1)
    /\ UNCHANGED <<disk, args, first, second, output, history>>

(* read_bounded of the report or the envelope, then of key or policy.      *)
ReadFirst(c) ==
    /\ pc[c] = "first"
    /\ \/ /\ \E f \in files : /\ f.path = args[c].first
                             /\ first' = [first EXCEPT ![c] = f.data]
          /\ GoTo(c, "second")
          /\ UNCHANGED <<disk, args, second, output, exit, history>>
       \/ Free(args[c].first) /\ Fail(c)

(* load_key wants a key with a single name; a policy may have two.         *)
Acceptable(c, f) ==
    /\ f.path = args[c].second
    /\ args[c].kind = "sign" => f.data.kind = "key" /\ ~HasTwoNames(f)

ReadSecond(c) ==
    /\ pc[c] = "second"
    /\ \/ /\ \E f \in files : /\ Acceptable(c, f)
                             /\ second' = [second EXCEPT ![c] = f.data]
          /\ GoTo(c, IF args[c].kind = "sign" THEN "prepare" ELSE "authenticate")
          /\ UNCHANGED <<disk, args, first, output, exit, history>>
       \/ (\A f \in files : ~Acceptable(c, f)) /\ Fail(c)

-----------------------------------------------------------------------------
(* _report: of the supported version, complete, and not redacted.          *)
Complete(report) == report \in Eligible

(* _statement: what a well-formed statement is.                            *)
IsStatement(payload) ==
    /\ payload.issued_at < payload.expires_at
    /\ Complete(payload.report)

(* The statement prepare_statement makes of a command line.                *)
Prepared(c) ==
    [issuer |-> args[c].issuer, audience |-> args[c].audience, keyid |-> second[c].key,
     issued_at |-> args[c].issued_at, expires_at |-> args[c].expires_at,
     report |-> first[c].report]

Prepare(c) ==
    /\ pc[c] = "prepare"
    /\ \/ /\ first[c].kind = "report" /\ IsStatement(Prepared(c))
          /\ GoTo(c, "replay")
          /\ UNCHANGED <<disk, args, first, second, output, exit, history>>
       \/ ~(first[c].kind = "report" /\ IsStatement(Prepared(c))) /\ Fail(c)

(* replay_bounded: success only if the worker says so of these very bytes. *)
(* (Mutant: an unfinished replay counts.)                                  *)
Optimistic(report) == BOOLEAN
Replays(report) == IF report \in Reproducible THEN BOOLEAN ELSE {FALSE}

(* sign_statement follows a replay that succeeded.                         *)
Sign(c) ==
    /\ pc[c] = "replay" /\ args[c].kind = "sign"
    /\ TRUE \in Replays(first[c].report)
    /\ LET signature == Signature(second[c].key, Prepared(c)) IN
       /\ endorsed' = endorsed \cup {signature}
       /\ output' = [output EXCEPT ![c] = Envelope(Prepared(c), second[c].key, signature)]
    /\ GoTo(c, "create")
    /\ UNCHANGED <<disk, args, first, second, exit, generated, accepted, outside>>

ReplayFails(c) ==
    /\ pc[c] = "replay" /\ args[c].kind = "sign"
    /\ FALSE \in Replays(first[c].report)
    /\ Fail(c)

-----------------------------------------------------------------------------
(* inspect_envelope: structure and checksums.                              *)
Inspectable(e) == e.kind = "envelope" /\ IsStatement(e.payload) /\ e.keyid = e.payload.keyid

(* authenticate_envelope: a trusted key for this issuer and audience, ...  *)
Trusted(p, entry, i) ==
    /\ entry.status = "active"
    /\ p.issuer = i.issuer /\ entry.issuer = i.issuer
    /\ p.audience = i.audience /\ i.audience \in entry.audiences

(* ... valid at issue, until expiry, and now, for no longer than allowed.  *)
(* (Mutants: the instant of expiry still counts; a life without limit.)    *)
StillValid(expiry, now) == now <= expiry
Expires(expiry, now) == now < expiry
NoLimit(p, i) == TRUE
ShortEnough(p, i) == p.expires_at - p.issued_at <= i.max_lifetime

Timely(p, entry, i) ==
    /\ entry.not_before <= p.issued_at /\ p.issued_at < p.expires_at
    /\ p.expires_at <= entry.not_after
    /\ entry.not_before <= i.now /\ Expires(entry.not_after, i.now)
    /\ p.issued_at <= i.now /\ Expires(p.expires_at, i.now)
    /\ ShortEnough(p, i)

(* ... and the signature over this payload.  (Mutant: of that key only.)   *)
SignedByKey(e) == e.signature.key = e.payload.keyid
Signed(e) == e.signature = Signature(e.payload.keyid, e.payload)

IsPolicy(data) == data.kind = "policy"

Authentic(e, policy, i) ==
    /\ IsPolicy(policy)
    /\ Inspectable(e)
    /\ LET p == e.payload IN
       /\ p.keyid \in DOMAIN policy.keys
       /\ Trusted(p, policy.keys[p.keyid], i)
       /\ Timely(p, policy.keys[p.keyid], i)
    /\ Signed(e)

Authenticate(c) ==
    /\ pc[c] = "authenticate"
    /\ \/ /\ Authentic(first[c], second[c], args[c])
          /\ GoTo(c, "replay")
          /\ UNCHANGED <<disk, args, first, second, output, exit, history>>
       \/ ~Authentic(first[c], second[c], args[c]) /\ Fail(c)

(* The report that was authenticated is replayed.                          *)
Verified(c) == first[c].payload

Verify(c) ==
    /\ pc[c] = "replay" /\ args[c].kind = "verify"
    /\ \E reproduced \in Replays(Verified(c).report) :
          /\ Exit(c, IF reproduced THEN 0 ELSE 2)
          /\ accepted' = IF reproduced
                         THEN accepted \cup {[payload |-> Verified(c), by |-> args[c]]}
                         ELSE accepted
    /\ UNCHANGED <<disk, args, first, second, output, generated, endorsed, outside>>

-----------------------------------------------------------------------------
(* write_new, for the key or the envelope.                                 *)
Publish(c) ==
    /\ \/ pc[c] = "create" /\ Create(c, output[c]) /\ GoTo(c, "sync")
       \/ pc[c] = "sync" /\ Sync(c) /\ GoTo(c, "link")
       \/ pc[c] = "link" /\ Link(c, args[c].output) /\ GoTo(c, "unlink")
    /\ UNCHANGED <<args, first, second, output, exit, history>>

Finish(c) ==
    /\ pc[c] = "unlink"
    /\ Unlink(c)
    /\ Exit(c, 0)
    /\ UNCHANGED <<args, first, second, output, history>>

(* No temporary file can be made: there is nothing to remove.              *)
CreateFails(c) == pc[c] = "create" /\ Fail(c)

(* A full disk, a destination that exists, a file system without links.    *)
WriteFails(c) ==
    /\ pc[c] \in {"sync", "link"}
    /\ GoTo(c, "failed")
    /\ UNCHANGED <<disk, args, first, second, output, exit, history>>

(* The finally clause.  (Mutant: without it.)                              *)
KeepTemporary(c) == UNCHANGED disk
CleanUp(c) == Unlink(c)

GiveUp(c) ==
    /\ pc[c] = "failed"
    /\ CleanUp(c)
    /\ Exit(c, 1)
    /\ UNCHANGED <<args, first, second, output, history>>

-----------------------------------------------------------------------------
Step(c) ==
    \/ \E i \in Invocations : StartReading(c, i) \/ \E k \in Keys : StartKeygen(c, i, k)
    \/ ReadFirst(c) \/ ReadSecond(c)
    \/ Prepare(c) \/ Sign(c) \/ ReplayFails(c)
    \/ Authenticate(c) \/ Verify(c)
    \/ Publish(c) \/ Finish(c)
    \/ CreateFails(c) \/ WriteFails(c) \/ GiveUp(c)

Disturb == outside < MaxOutside /\ outside' = outside + 1

(* Killed at once, or interrupted with the finally clause run.             *)
Kill(c) ==
    /\ Running(c)
    /\ UNCHANGED disk \/ Unlink(c)
    /\ Exit(c, Killed)
    /\ Disturb
    /\ UNCHANGED <<args, first, second, output, generated, endorsed, accepted>>

PowerLoss ==
    /\ LosePower
    /\ Disturb
    /\ pc' = [c \in Commands |-> IF Running(c) THEN "exited" ELSE pc[c]]
    /\ exit' = [c \in Commands |-> IF Running(c) THEN Killed ELSE exit[c]]
    /\ UNCHANGED <<args, first, second, output, generated, endorsed, accepted>>

(* Others place reports, policies, and envelopes put together from any     *)
(* payload and any signature there is.                                     *)
Presented(p) ==
    {Envelope(q, k, s) : q \in {r \in Payloads : \E i \in Invocations : i.kind = "verify" /\ i.first = p},
                         k \in Keys, s \in endorsed}

Meddle(p) ==
    /\ \/ Remove(p)
       \/ \E data \in {g.data : g \in {h \in Given : h.path = p}} \cup Presented(p) : Put(p, data)
    /\ Disturb
    /\ UNCHANGED <<command, generated, endorsed, accepted>>

(* A holder of a key signs a statement without replaying its report:       *)
(* sign_statement on its own.                                              *)
Endorse(payload) ==
    /\ IsStatement(payload)
    /\ endorsed' = endorsed \cup {Signature(payload.keyid, payload)}
    /\ Disturb
    /\ UNCHANGED <<disk, command, generated, accepted>>

Next ==
    \/ \E c \in Commands : Step(c) \/ Kill(c)
    \/ PowerLoss
    \/ \E p \in Paths : Meddle(p)
    \/ \E payload \in Payloads : Endorse(payload)

Spec == Init /\ [][Next]_vars
-----------------------------------------------------------------------------
(* What a satisfied verification stands for: somebody holding the key      *)
(* signed these very claims about this very report, and the report         *)
(* replays.  And evidence wears out: of one statement, no two satisfied    *)
(* verifications are further apart than the lifetime either allows, nor is *)
(* any at or past its expiry, whatever policies they used.                 *)
SatisfiedMeansEndorsed ==
    \A a \in accepted :
        /\ Signature(a.payload.keyid, a.payload) \in endorsed
        /\ a.payload.report \in Reproducible
        /\ a.payload.audience = a.by.audience /\ a.payload.issuer = a.by.issuer
        /\ a.by.now < a.payload.expires_at
        /\ \A b \in accepted : a.payload = b.payload =>
              b.by.now - a.by.now < a.by.max_lifetime

(* An exit status tells the truth about the file system: a command that    *)
(* reports success has published what it made, whole, and one that reports *)
(* failure has published nothing; neither leaves a temporary file.  A file *)
(* that a command did publish, killed or not, is what it meant to, even    *)
(* after a loss of power, and an envelope only of a report that replays.   *)
Published(c) == {f \in files : f.by = c}

ExitsTellTheTruth ==
    \A c \in Commands :
        /\ exit[c] = 1 => Published(c) = {} /\ temp[c] = None
        /\ exit[c] = 0 => temp[c] = None
        /\ exit[c] = 0 /\ outside = 0 /\ output[c] # None =>
              Published(c) # {}
        /\ \A f \in Published(c) :
              /\ f.path = args[c].output /\ f.data = output[c]
              /\ output[c].kind = "envelope" => output[c].payload.report \in Reproducible

(* No command ever replaces or removes what is at a path.                  *)
NothingIsOverwritten ==
    [][outside' = outside => files \subseteq files']_vars
=============================================================================
