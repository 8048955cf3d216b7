--------------------------- MODULE EvidenceProofs ---------------------------
(***************************************************************************)
(* TLAPS proofs about Evidence, for any commands, keys, reports, policies  *)
(* and files: what a satisfied verification stands for, that exit statuses *)
(* tell the truth and that nothing is overwritten.  That signatures are    *)
(* not forged is what the model assumes of the external library.           *)
(***************************************************************************)
EXTENDS Evidence, TLAPS

Domains ==
    /\ pc \in [Commands -> Stages]
    /\ DOMAIN args = Commands /\ DOMAIN first = Commands /\ DOMAIN second = Commands
    /\ DOMAIN output = Commands /\ DOMAIN exit = Commands
    /\ DOMAIN temp = Commands /\ synced \in [Commands -> BOOLEAN]
    /\ outside \in Nat

(* An envelope carries a signature somebody made, and times.               *)
Honest(data) ==
    data.kind = "envelope" =>
        /\ data.signature \in endorsed
        /\ data.payload.issued_at \in Int /\ data.payload.expires_at \in Int

Writing == {"sync", "link"}

HonestOf(c) ==
    /\ pc[c] = "create" => Honest(output[c])
    /\ pc[c] \in Writing => Honest(temp[c])
    /\ pc[c] \in {"second", "prepare", "authenticate", "replay"} => Honest(first[c])

HonestFiles == \A f \in files : Honest(f.data)

(* A command works on its command line.                                    *)
ArgsOf(c) ==
    /\ pc[c] \in Stages \ {"start", "exited"} => args[c] \in Invocations
    /\ pc[c] \in {"first", "second"} => args[c].kind \in {"sign", "verify"}
    /\ pc[c] = "prepare" => args[c].kind = "sign"
    /\ pc[c] = "authenticate" => args[c].kind = "verify"
    /\ pc[c] = "replay" /\ args[c].kind = "verify" => Authentic(first[c], second[c], args[c])

(* What a verification was satisfied of.                                   *)
AcceptedOf(a) ==
    /\ Signature(a.payload.keyid, a.payload) \in endorsed
    /\ a.payload.report \in Reproducible
    /\ a.payload.audience = a.by.audience /\ a.payload.issuer = a.by.issuer
    /\ a.payload.issued_at \in Int /\ a.payload.expires_at \in Int
    /\ a.by.now \in Int /\ a.by.max_lifetime \in Int
    /\ a.payload.issued_at <= a.by.now /\ a.by.now < a.payload.expires_at
    /\ a.payload.expires_at - a.payload.issued_at <= a.by.max_lifetime

AuthenticInv ==
    /\ HonestFiles
    /\ \A c \in Commands : HonestOf(c) /\ ArgsOf(c)
    /\ \A a \in accepted : AcceptedOf(a)

(* How far a publication is.                                               *)
Early == {"start", "first", "second", "prepare", "replay", "authenticate"}

Whole(c) == output[c].kind = "envelope" => output[c].payload.report \in Reproducible

PublicationOf(c) ==
    /\ pc[c] \in Early => output[c] = None
    /\ pc[c] \in Early \cup {"create"} => temp[c] = None
    /\ pc[c] \in Early \cup {"create", "sync", "link", "failed"} =>
          exit[c] = None /\ Published(c) = {}
    /\ pc[c] \in {"create", "sync", "link"} => Whole(c)
    /\ pc[c] \in Writing => temp[c] = output[c]
    /\ pc[c] = "link" => synced[c]
    /\ pc[c] = "unlink" => exit[c] = None /\ (outside = 0 => Published(c) # {})
    /\ exit[c] = 1 => Published(c) = {} /\ temp[c] = None
    /\ exit[c] = 0 => temp[c] = None
    /\ exit[c] = 0 /\ outside = 0 /\ output[c] # None => Published(c) # {}
    /\ \A f \in Published(c) : /\ f.path = args[c].output /\ f.data = output[c]
                               /\ synced[c] /\ Whole(c)

Publishers == \A f \in files : f.by \in Commands \cup {None}

IInv ==
    /\ Domains
    /\ AuthenticInv
    /\ Publishers
    /\ \A c \in Commands : PublicationOf(c)

-----------------------------------------------------------------------------
(* Domains.                                                                *)
LEMMA DomainsPreserved ==
    ASSUME Domains, Next
    PROVE  Domains'
<1> USE DEF Domains, Stages, GoTo, Exit, disk, command, history, Disturb
<1>1. ASSUME NEW c \in Commands, Step(c) PROVE Domains'
  <2>1. CASE \E i \in Invocations : StartReading(c, i) \/ \E k \in Keys : StartKeygen(c, i, k)
    BY <2>1 DEF StartReading, StartKeygen
  <2>2. CASE ReadFirst(c) \/ ReadSecond(c)
    BY <2>2 DEF ReadFirst, ReadSecond, Fail
  <2>3. CASE Prepare(c) \/ Authenticate(c) \/ ReplayFails(c) \/ CreateFails(c)
    BY <2>3 DEF Prepare, Authenticate, ReplayFails, CreateFails, Fail
  <2>4. CASE Sign(c) \/ Verify(c)
    BY <2>4 DEF Sign, Verify
  <2>5. CASE Publish(c)
    BY <2>5 DEF Publish, Create, Sync, Link, Flushed
  <2>6. CASE Finish(c) \/ WriteFails(c) \/ GiveUp(c)
    BY <2>6 DEF Finish, WriteFails, GiveUp, CleanUp, Unlink
  <2> QED
    BY <1>1, <2>1, <2>2, <2>3, <2>4, <2>5, <2>6, Zenon DEF Step
<1>2. ASSUME NEW c \in Commands, Kill(c) PROVE Domains'
    BY <1>2 DEF Kill, Unlink
<1>3. CASE PowerLoss
  <2>1. pc' \in [Commands -> Stages] /\ DOMAIN exit' = Commands
    BY <1>3 DEF PowerLoss
  <2>2. DOMAIN temp' = Commands /\ synced' \in [Commands -> BOOLEAN]
    BY <1>3 DEF PowerLoss, LosePower
  <2> QED
    BY <1>3, <2>1, <2>2 DEF PowerLoss
<1>4. ASSUME NEW p \in Paths, Meddle(p) PROVE Domains'
    BY <1>4 DEF Meddle, Remove, Put
<1>5. ASSUME NEW payload \in Payloads, Endorse(payload) PROVE Domains'
    BY <1>5 DEF Endorse
<1> QED
    BY <1>1, <1>2, <1>3, <1>4, <1>5, Zenon DEF Next

-----------------------------------------------------------------------------
(* Signatures.                                                             *)
LEMMA HonestStays ==
    ASSUME NEW data, Honest(data), endorsed \subseteq endorsed'
    PROVE  Honest(data)'
BY DEF Honest

LEMMA AcceptedStays ==
    ASSUME NEW a, AcceptedOf(a), endorsed \subseteq endorsed'
    PROVE  AcceptedOf(a)'
BY DEF AcceptedOf

(* A command that does not move keeps what it has read.                    *)
LEMMA OthersStay ==
    ASSUME NEW d \in Commands, HonestOf(d), ArgsOf(d), endorsed \subseteq endorsed',
           pc'[d] = pc[d], args'[d] = args[d], first'[d] = first[d], second'[d] = second[d],
           output'[d] = output[d], temp'[d] = temp[d]
    PROVE  HonestOf(d)' /\ ArgsOf(d)'
<1>1. HonestOf(d)'
    BY DEF HonestOf, Honest
<1>2. ArgsOf(d)'
    BY DEF ArgsOf
<1> QED
    BY <1>1, <1>2

(* A command that has ended, or waits for nothing but its end.             *)
LEMMA EndedStays ==
    ASSUME NEW d \in Commands, Domains, ArgsOf(d), pc[d] \notin {"start", "exited"},
           args'[d] = args[d], pc'[d] \in {"failed", "unlink", "exited"}
    PROVE  HonestOf(d)' /\ ArgsOf(d)'
BY DEF Domains, HonestOf, ArgsOf, Writing, Stages

(* Nothing but the files and one command moves.                            *)
Only(c) ==
    \A d \in Commands \ {c} :
        /\ pc'[d] = pc[d] /\ args'[d] = args[d] /\ first'[d] = first[d] /\ second'[d] = second[d]
        /\ output'[d] = output[d] /\ temp'[d] = temp[d]

LEMMA OneMoves ==
    ASSUME AuthenticInv, NEW c \in Commands, Only(c), endorsed \subseteq endorsed',
           \A f \in files' : f \in files \/ Honest(f.data)', accepted' = accepted,
           HonestOf(c)', ArgsOf(c)'
    PROVE  AuthenticInv'
<1>1. HonestFiles'
    BY HonestStays DEF AuthenticInv, HonestFiles
<1>2. ASSUME NEW d \in Commands PROVE HonestOf(d)' /\ ArgsOf(d)'
  <2>1. CASE d = c
    BY <2>1
  <2>2. CASE d # c
    BY <2>2, OthersStay DEF Only, AuthenticInv
  <2> QED
    BY <2>1, <2>2
<1>3. \A a \in accepted' : AcceptedOf(a)'
    BY AcceptedStays DEF AuthenticInv
<1> QED
    BY <1>1, <1>2, <1>3 DEF AuthenticInv

LEMMA FailKeepsAuthentic ==
    ASSUME Domains, AuthenticInv, NEW c \in Commands, Fail(c), pc[c] \notin {"start", "exited"}
    PROVE  AuthenticInv'
<1> USE DEF Domains, Fail, GoTo, Exit, disk, history
<1>1. Only(c) /\ endorsed' = endorsed /\ files' = files /\ accepted' = accepted
    BY DEF Only
<1>2. HonestOf(c)' /\ ArgsOf(c)'
    BY EndedStays DEF AuthenticInv
<1> QED
    BY <1>1, <1>2, OneMoves

LEMMA StepKeepsAuthentic ==
    ASSUME Domains, AuthenticInv, NEW c \in Commands, Step(c)
    PROVE  AuthenticInv'
<1> USE DEF Domains, GoTo, Exit, disk, history
<1>0. HonestOf(c) /\ ArgsOf(c) /\ HonestFiles
    BY DEF AuthenticInv
<1>1. ASSUME NEW i \in Invocations, StartReading(c, i) PROVE AuthenticInv'
  <2>1. Only(c) /\ endorsed' = endorsed /\ files' = files /\ accepted' = accepted
    BY <1>1 DEF StartReading, Only
  <2>2. pc'[c] = "first" /\ args'[c] = i /\ i.kind \in {"sign", "verify"}
    BY <1>1 DEF StartReading
  <2>3. HonestOf(c)' /\ ArgsOf(c)'
    BY <2>2 DEF HonestOf, ArgsOf, Writing
  <2> QED
    BY <2>1, <2>3, OneMoves
<1>2. ASSUME NEW i \in Invocations, NEW k \in Keys, StartKeygen(c, i, k) PROVE AuthenticInv'
  <2>1. Only(c) /\ endorsed' = endorsed /\ files' = files /\ accepted' = accepted
    BY <1>2 DEF StartKeygen, Only
  <2>2. pc'[c] = "create" /\ args'[c] = i /\ output'[c] = KeyFile(k)
    BY <1>2 DEF StartKeygen
  <2>3. HonestOf(c)' /\ ArgsOf(c)'
    BY <2>2 DEF HonestOf, Honest, KeyFile, ArgsOf, Writing
  <2> QED
    BY <2>1, <2>3, OneMoves
<1>3. CASE ReadFirst(c)
  <2>1. ASSUME NEW f \in files, first' = [first EXCEPT ![c] = f.data], pc[c] = "first",
               pc' = [pc EXCEPT ![c] = "second"],
               UNCHANGED <<disk, args, second, output, exit, history>>
        PROVE  AuthenticInv'
    <3>1. Only(c) /\ endorsed' = endorsed /\ files' = files /\ accepted' = accepted
      BY <2>1 DEF Only
    <3>2. pc'[c] = "second" /\ args'[c] = args[c] /\ first'[c] = f.data
      BY <2>1
    <3>3. Honest(f.data)'
      BY <1>0, <3>1, HonestStays DEF HonestFiles
    <3>4. HonestOf(c)' /\ ArgsOf(c)'
      BY <1>0, <2>1, <3>2, <3>3 DEF HonestOf, ArgsOf, Writing, Stages
    <3> QED
      BY <3>1, <3>4, OneMoves
  <2>2. CASE Fail(c) /\ pc[c] = "first"
    BY <2>2, FailKeepsAuthentic
  <2> QED
    BY <1>3, <2>1, <2>2, Zenon DEF ReadFirst, GoTo
<1>4. CASE ReadSecond(c)
  <2>1. CASE Fail(c) /\ pc[c] = "second"
    BY <2>1, FailKeepsAuthentic
  <2>2. CASE ~Fail(c)
    <3>1. /\ pc[c] = "second" /\ args'[c] = args[c] /\ first'[c] = first[c]
          /\ pc'[c] = IF args[c].kind = "sign" THEN "prepare" ELSE "authenticate"
      BY <1>4, <2>2 DEF ReadSecond
    <3>2. Only(c) /\ endorsed' = endorsed /\ files' = files /\ accepted' = accepted
      BY <1>4, <2>2 DEF ReadSecond, Only
    <3>3. HonestOf(c)'
      BY <1>0, <3>1, <3>2 DEF HonestOf, Honest, Writing
    <3>4. ArgsOf(c)'
      BY <1>0, <3>1 DEF ArgsOf
    <3> QED
      BY <3>2, <3>3, <3>4, OneMoves
  <2> QED
    BY <1>4, <2>1, <2>2 DEF ReadSecond
<1>5. CASE Prepare(c)
  <2>1. CASE Fail(c) /\ pc[c] = "prepare"
    BY <2>1, FailKeepsAuthentic
  <2>2. CASE ~Fail(c)
    <3>1. /\ pc[c] = "prepare" /\ pc'[c] = "replay" /\ args'[c] = args[c]
          /\ first'[c] = first[c]
      BY <1>5, <2>2 DEF Prepare
    <3>2. Only(c) /\ endorsed' = endorsed /\ files' = files /\ accepted' = accepted
      BY <1>5, <2>2 DEF Prepare, Only
    <3>3. HonestOf(c)'
      BY <1>0, <3>1, <3>2 DEF HonestOf, Honest, Writing
    <3>4. ArgsOf(c)'
      BY <1>0, <3>1 DEF ArgsOf, Stages
    <3> QED
      BY <3>2, <3>3, <3>4, OneMoves
  <2> QED
    BY <1>5, <2>1, <2>2 DEF Prepare
<1>6. CASE Authenticate(c)
  <2>1. CASE Fail(c) /\ pc[c] = "authenticate"
    BY <2>1, FailKeepsAuthentic
  <2>2. CASE ~Fail(c)
    <3>1. /\ pc[c] = "authenticate" /\ pc'[c] = "replay" /\ args'[c] = args[c]
          /\ first'[c] = first[c] /\ second'[c] = second[c]
          /\ Authentic(first[c], second[c], args[c])
      BY <1>6, <2>2 DEF Authenticate
    <3>2. Only(c) /\ endorsed' = endorsed /\ files' = files /\ accepted' = accepted
      BY <1>6, <2>2 DEF Authenticate, Only
    <3>3. HonestOf(c)'
      BY <1>0, <3>1, <3>2 DEF HonestOf, Honest, Writing
    <3>4. ArgsOf(c)'
      BY <1>0, <3>1 DEF ArgsOf, Stages
    <3> QED
      BY <3>2, <3>3, <3>4, OneMoves
  <2> QED
    BY <1>6, <2>1, <2>2 DEF Authenticate
<1>7. CASE Sign(c)
  <2> DEFINE payload == Prepared(c)
             signature == Signature(second[c].key, payload)
  <2>1. PICK made : made = Envelope(payload, second[c].key, signature)
    OBVIOUS
  <2>2. /\ output' = [output EXCEPT ![c] = made] /\ endorsed' = endorsed \cup {signature}
        /\ pc[c] = "replay" /\ args[c].kind = "sign" /\ pc' = [pc EXCEPT ![c] = "create"]
        /\ UNCHANGED <<disk, args, first, second, exit, generated, accepted, outside>>
    BY <1>7, <2>1 DEF Sign
  <2>3. made.signature \in endorsed'
    BY <2>1, <2>2 DEF Envelope
  <2>4. made.payload.issued_at \in Int /\ made.payload.expires_at \in Int
    BY <1>0, <2>1, <2>2, EvidenceAssumption DEF Envelope, Prepared, ArgsOf, Stages
  <2>5. Honest(made)'
    BY <2>3, <2>4 DEF Honest
  <2>6. Only(c) /\ endorsed \subseteq endorsed' /\ files' = files /\ accepted' = accepted
    BY <2>2 DEF Only
  <2>7. pc'[c] = "create" /\ output'[c] = made /\ args'[c] = args[c] /\ args[c] \in Invocations
    BY <1>0, <2>2 DEF ArgsOf, Stages
  <2>8. HonestOf(c)' /\ ArgsOf(c)'
    BY <2>5, <2>7 DEF HonestOf, ArgsOf, Writing
  <2> QED
    BY <2>6, <2>8, OneMoves
<1>8. CASE ReplayFails(c) \/ CreateFails(c)
    BY <1>8, FailKeepsAuthentic DEF ReplayFails, CreateFails
<1>9. CASE Verify(c)
  <2>1. PICK reproduced \in Replays(first[c].payload.report) :
           /\ pc' = [pc EXCEPT ![c] = "exited"]
           /\ accepted' = IF reproduced THEN accepted \cup {[payload |-> first[c].payload, by |-> args[c]]}
                          ELSE accepted
    BY <1>9 DEF Verify, Verified
  <2>2. /\ pc[c] = "replay" /\ args[c].kind = "verify"
        /\ UNCHANGED <<disk, args, first, second, output, generated, endorsed, outside>>
    BY <1>9 DEF Verify
  <2>3. PICK a : a = [payload |-> first[c].payload, by |-> args[c]]
    OBVIOUS
  <2>4. Authentic(first[c], second[c], args[c]) /\ Honest(first[c]) /\ args[c] \in Invocations
    BY <1>0, <2>2 DEF ArgsOf, HonestOf, Stages
  <2>5. first[c].signature \in endorsed /\ first[c].payload.issued_at \in Int
        /\ first[c].payload.expires_at \in Int
    BY <2>4 DEF Authentic, Inspectable, Honest
  <2>6. reproduced = TRUE => first[c].payload.report \in Reproducible
    BY <2>1 DEF Replays
  <2>7. /\ first[c].signature = Signature(first[c].payload.keyid, first[c].payload)
        /\ first[c].payload.audience = args[c].audience /\ first[c].payload.issuer = args[c].issuer
        /\ first[c].payload.issued_at <= args[c].now /\ args[c].now < first[c].payload.expires_at
        /\ first[c].payload.expires_at - first[c].payload.issued_at <= args[c].max_lifetime
    BY <2>4 DEF Authentic, Signed, Trusted, Timely, Expires, ShortEnough
  <2>8. args[c].now \in Int /\ args[c].max_lifetime \in Int
    BY <2>2, <2>4, EvidenceAssumption
  <2>9. a.payload = first[c].payload /\ a.by = args[c]
    BY <2>3
  <2>10. a.payload.report \in Reproducible => AcceptedOf(a)
    BY <2>5, <2>7, <2>8, <2>9 DEF AcceptedOf
  <2>11. \A b \in accepted' : AcceptedOf(b)
    <3>1. CASE reproduced = TRUE
      BY <2>1, <2>3, <2>6, <2>9, <2>10, <3>1 DEF AuthenticInv
    <3>2. CASE reproduced = FALSE
      BY <2>1, <3>2 DEF AuthenticInv
    <3> QED
      BY <2>1, <3>1, <3>2 DEF Replays
  <2>12. \A b \in accepted' : AcceptedOf(b)'
    BY <2>2, <2>11 DEF AcceptedOf
  <2>13. ASSUME NEW d \in Commands PROVE HonestOf(d)' /\ ArgsOf(d)'
    <3>1. CASE d = c
      BY <1>0, <2>1, <2>2, <3>1, EndedStays
    <3>2. CASE d # c
      BY <2>1, <2>2, <3>2, OthersStay DEF AuthenticInv
    <3> QED
      BY <3>1, <3>2
  <2>14. HonestFiles'
    BY <1>0, <2>2 DEF HonestFiles, Honest
  <2> QED
    BY <2>12, <2>13, <2>14 DEF AuthenticInv
<1>10. CASE Publish(c)
  <2>1. /\ endorsed' = endorsed /\ accepted' = accepted /\ args' = args /\ output' = output
        /\ first' = first /\ second' = second
    BY <1>10 DEF Publish
  <2>2. args[c] \in Invocations
    BY <1>0, <1>10 DEF Publish, ArgsOf, Stages
  <2>3. CASE pc[c] = "create" /\ Create(c, output[c]) /\ pc' = [pc EXCEPT ![c] = "sync"]
    <3>1. Only(c) /\ files' = files
      BY <2>1, <2>3 DEF Only, Create
    <3>2. temp'[c] = output[c] /\ pc'[c] = "sync" /\ Honest(output[c])
      BY <1>0, <2>3 DEF Create, HonestOf
    <3>3. HonestOf(c)' /\ ArgsOf(c)'
      BY <2>1, <2>2, <3>2 DEF HonestOf, Honest, ArgsOf, Writing
    <3> QED
      BY <2>1, <3>1, <3>3, OneMoves
  <2>4. CASE pc[c] = "sync" /\ Sync(c) /\ pc' = [pc EXCEPT ![c] = "link"]
    <3>1. Only(c) /\ files' = files
      BY <2>1, <2>4 DEF Only, Sync
    <3>2. temp'[c] = temp[c] /\ pc'[c] = "link" /\ Honest(temp[c])
      BY <1>0, <2>4 DEF Sync, HonestOf, Writing
    <3>3. HonestOf(c)' /\ ArgsOf(c)'
      BY <2>1, <2>2, <3>2 DEF HonestOf, Honest, ArgsOf, Writing
    <3> QED
      BY <2>1, <3>1, <3>3, OneMoves
  <2>5. CASE pc[c] = "link" /\ Link(c, args[c].output) /\ pc' = [pc EXCEPT ![c] = "unlink"]
    <3>1. PICK new : new = [path |-> args[c].output, data |-> temp[c], by |-> c]
      OBVIOUS
    <3>2. files' \subseteq files \cup {new} /\ Only(c)
      BY <2>1, <2>5, <3>1 DEF Link, Only
    <3>3. new.data = temp[c] /\ Honest(temp[c])
      BY <1>0, <2>5, <3>1 DEF HonestOf, Writing
    <3>4. Honest(new.data)'
      BY <2>1, <3>3, HonestStays
    <3>5. HonestOf(c)' /\ ArgsOf(c)'
      BY <1>0, <2>1, <2>5, EndedStays
    <3> QED
      BY <2>1, <3>2, <3>4, <3>5, OneMoves
  <2> QED
    BY <1>10, <2>3, <2>4, <2>5, Zenon DEF Publish, GoTo
<1>11. CASE Finish(c) \/ WriteFails(c) \/ GiveUp(c)
  <2>1. /\ endorsed' = endorsed /\ accepted' = accepted /\ args' = args /\ output' = output
        /\ first' = first /\ second' = second /\ files' = files
        /\ pc[c] \in {"unlink", "sync", "link", "failed"} /\ pc'[c] \in {"exited", "failed"}
    BY <1>11 DEF Finish, WriteFails, GiveUp, CleanUp, Unlink
  <2>2. Only(c)
    BY <1>11, <2>1 DEF Only, Finish, WriteFails, GiveUp, CleanUp, Unlink
  <2>3. HonestOf(c)' /\ ArgsOf(c)'
    BY <1>0, <2>1, EndedStays
  <2> QED
    BY <2>1, <2>2, <2>3, OneMoves
<1> QED
    BY <1>1, <1>2, <1>3, <1>4, <1>5, <1>6, <1>7, <1>8, <1>9, <1>10, <1>11, Zenon DEF Step

LEMMA OutsideKeepsAuthentic ==
    ASSUME Domains, AuthenticInv,
           \/ \E c \in Commands : Kill(c)
           \/ PowerLoss
           \/ \E p \in Paths : Meddle(p)
           \/ \E payload \in Payloads : Endorse(payload)
    PROVE  AuthenticInv'
<1> USE DEF Domains, disk, command
<1>0. /\ endorsed \subseteq endorsed' /\ accepted' = accepted
      /\ UNCHANGED <<args, first, second, output>>
    BY DEF Kill, PowerLoss, Meddle, Endorse
<1>1. \A f \in files' : Honest(f.data)'
  <2>1. CASE files' \subseteq files
    BY <1>0, <2>1, HonestStays DEF AuthenticInv, HonestFiles
  <2>2. CASE LosePower
    <3>1. SUFFICES ASSUME NEW f \in files' PROVE Honest(f.data)'
      OBVIOUS
    <3>2. PICK g \in files : f = AfterPowerLoss(g)
      BY <2>2 DEF LosePower
    <3>3. f.data \in {g.data, Torn}
      BY <3>2 DEF AfterPowerLoss
    <3>4. Honest(g.data)'
      BY <1>0, HonestStays DEF AuthenticInv, HonestFiles
    <3>5. Honest(Torn)'
      BY EvidenceAssumption DEF Honest
    <3> QED
      BY <3>3, <3>4, <3>5
  <2>3. ASSUME NEW p \in Paths, NEW data, Put(p, data),
               data \in {g.data : g \in {h \in Given : h.path = p}} \cup Presented(p),
               endorsed' = endorsed
        PROVE  \A f \in files' : Honest(f.data)'
    <3>1. Honest(data)
      <4>1. CASE data \in {g.data : g \in {h \in Given : h.path = p}}
        BY <4>1, EvidenceAssumption DEF Honest
      <4>2. CASE data \in Presented(p)
        <5>1. PICK q \in Payloads, k \in Keys, s \in endorsed : data = Envelope(q, k, s)
          BY <4>2 DEF Presented
        <5> QED
          BY <5>1, EvidenceAssumption DEF Honest, Envelope
      <4> QED
        BY <2>3, <4>1, <4>2
    <3>2. PICK new : new = [path |-> p, data |-> data, by |-> None]
      OBVIOUS
    <3>3. new.data = data /\ files' \subseteq files \cup {new}
      BY <2>3, <3>2 DEF Put, Without
    <3>4. SUFFICES ASSUME NEW f \in files' PROVE Honest(f.data)'
      OBVIOUS
    <3>5. Honest(f.data)
      BY <3>1, <3>3 DEF AuthenticInv, HonestFiles
    <3> QED
      BY <2>3, <3>5, HonestStays
  <2>4. CASE \E c \in Commands : Kill(c)
    BY <2>1, <2>4 DEF Kill, Unlink
  <2>5. CASE PowerLoss
    BY <2>2, <2>5 DEF PowerLoss
  <2>6. ASSUME NEW p \in Paths, Meddle(p) PROVE \A f \in files' : Honest(f.data)'
    <3>1. endorsed' = endorsed
      BY <2>6 DEF Meddle
    <3>2. CASE Remove(p)
      BY <2>1, <3>2 DEF Remove, Without
    <3>3. ASSUME NEW data \in {g.data : g \in {h \in Given : h.path = p}} \cup Presented(p), Put(p, data)
          PROVE  \A f \in files' : Honest(f.data)'
      BY <2>3, <3>1, <3>3
    <3> QED
      BY <2>6, <3>2, <3>3, Zenon DEF Meddle
  <2>7. ASSUME NEW payload \in Payloads, Endorse(payload) PROVE \A f \in files' : Honest(f.data)'
    BY <2>1, <2>7 DEF Endorse
  <2> QED
    BY <2>4, <2>5, <2>6, <2>7
<1>2. ASSUME NEW d \in Commands PROVE HonestOf(d)' /\ ArgsOf(d)'
  <2>0. HonestOf(d) /\ ArgsOf(d)
    BY DEF AuthenticInv
  <2>1. CASE pc'[d] = pc[d] /\ temp'[d] = temp[d]
    BY <1>0, <2>0, <2>1, OthersStay
  <2>2. CASE pc'[d] = "exited" /\ pc[d] \notin {"start", "exited"}
    BY <1>0, <2>0, <2>2, EndedStays
  <2>3. CASE pc'[d] = pc[d] /\ pc[d] \in {"start", "exited"}
    BY <2>3 DEF HonestOf, ArgsOf, Writing
  <2>4. ASSUME NEW c \in Commands, Kill(c) PROVE HonestOf(d)' /\ ArgsOf(d)'
    BY <2>1, <2>2, <2>4 DEF Kill, Exit, GoTo, Running, Unlink
  <2>5. CASE PowerLoss
    BY <2>2, <2>3, <2>5 DEF PowerLoss, Running
  <2>6. ASSUME NEW p \in Paths, Meddle(p) PROVE HonestOf(d)' /\ ArgsOf(d)'
    BY <2>1, <2>6 DEF Meddle, Remove, Put
  <2>7. ASSUME NEW payload \in Payloads, Endorse(payload) PROVE HonestOf(d)' /\ ArgsOf(d)'
    BY <2>1, <2>7 DEF Endorse
  <2> QED
    BY <2>4, <2>5, <2>6, <2>7
<1>3. \A a \in accepted' : AcceptedOf(a)'
    BY <1>0, AcceptedStays DEF AuthenticInv
<1> QED
    BY <1>1, <1>2, <1>3 DEF AuthenticInv, HonestFiles

-----------------------------------------------------------------------------
(* Publications.                                                           *)
Kept(d) ==
    /\ pc'[d] = pc[d] /\ args'[d] = args[d] /\ output'[d] = output[d] /\ exit'[d] = exit[d]
    /\ temp'[d] = temp[d] /\ synced'[d] = synced[d]

LEMMA KeptStays ==
    ASSUME NEW d \in Commands, PublicationOf(d), Kept(d),
           Published(d)' \subseteq Published(d),
           (outside' = outside /\ Published(d)' = Published(d)) \/ outside' # 0
    PROVE  PublicationOf(d)'
<1>1. Whole(d)' <=> Whole(d)
    BY DEF Kept, Whole
<1>2. Published(d)' = Published(d) \/ outside' # 0
    OBVIOUS
<1>3. \A f \in Published(d)' : /\ f.path = args'[d].output /\ f.data = output'[d]
                               /\ synced'[d] /\ Whole(d)'
    BY <1>1 DEF Kept, PublicationOf
<1>4. Published(d) = {} => Published(d)' = {}
    OBVIOUS
<1>5. outside' = 0 /\ Published(d) # {} => Published(d)' # {}
    OBVIOUS
<1>6. outside' = 0 => outside = 0
    OBVIOUS
<1> QED
    BY <1>1, <1>3, <1>4, <1>5, <1>6 DEF Kept, PublicationOf

(* A command that is over: by itself, with what it has to show for it.     *)
LEMMA OverStays ==
    ASSUME Domains, NEW c \in Commands, PublicationOf(c), pc[c] \notin {"start", "exited"},
           pc'[c] = "exited", args'[c] = args[c], output'[c] = output[c],
           synced'[c] = synced[c], Published(c)' = Published(c), outside' = outside,
           \/ exit'[c] = 1 /\ Published(c) = {} /\ temp'[c] = None
           \/ exit'[c] = 0 /\ temp'[c] = None /\ (outside = 0 /\ output[c] # None => Published(c) # {})
    PROVE  PublicationOf(c)'
<1>1. Whole(c)' <=> Whole(c)
    BY DEF Whole
<1> QED
    BY <1>1 DEF PublicationOf, Early, Writing

LEMMA FailKeepsPublication ==
    ASSUME Domains, NEW c \in Commands, PublicationOf(c), Fail(c),
           pc[c] \in (Early \cup {"create"}) \ {"start"}
    PROVE  PublicationOf(c)'
<1>1. /\ pc'[c] = "exited" /\ exit'[c] = 1 /\ UNCHANGED <<files, temp, synced, args, output, outside>>
    BY DEF Fail, Exit, GoTo, disk, history, Domains
<1>2. Published(c)' = Published(c)
    BY <1>1 DEF Published
<1>3. Published(c) = {} /\ temp[c] = None
    BY DEF PublicationOf
<1> QED
    BY <1>1, <1>2, <1>3, OverStays DEF Early

LEMMA StepKeepsPublication ==
    ASSUME Domains, Publishers, NEW c \in Commands, PublicationOf(c), ArgsOf(c), Step(c)
    PROVE  PublicationOf(c)'
<1> USE EvidenceAssumption DEF Domains, GoTo, Exit, disk, history
<1> DEFINE Moved == /\ files' = files /\ temp' = temp /\ synced' = synced /\ outside' = outside
                    /\ exit' = exit
<1>0. files' = files => Published(c)' = Published(c)
    BY DEF Published
<1>1. ASSUME NEW i \in Invocations, StartReading(c, i) PROVE PublicationOf(c)'
  <2>1. Moved /\ output' = output /\ pc'[c] = "first" /\ pc[c] = "start"
    BY <1>1 DEF StartReading
  <2> QED
    BY <1>0, <2>1 DEF PublicationOf, Early, Writing
<1>2. ASSUME NEW i \in Invocations, NEW k \in Keys, StartKeygen(c, i, k) PROVE PublicationOf(c)'
  <2>1. Moved /\ output'[c] = KeyFile(k) /\ pc'[c] = "create" /\ pc[c] = "start"
    BY <1>2 DEF StartKeygen
  <2>2. Whole(c)'
    BY <2>1 DEF Whole, KeyFile
  <2>3. exit[c] = None /\ Published(c) = {} /\ temp[c] = None
    BY <2>1 DEF PublicationOf, Early
  <2> QED
    BY <1>0, <2>1, <2>2, <2>3 DEF PublicationOf, Early, Writing
<1>3. CASE ReadFirst(c) \/ ReadSecond(c) \/ Prepare(c) \/ Authenticate(c)
  <2>1. pc[c] \in Early \ {"start"}
    BY <1>3 DEF ReadFirst, ReadSecond, Prepare, Authenticate, Early
  <2>2. CASE Fail(c)
    BY <2>1, <2>2, FailKeepsPublication DEF Early
  <2>3. CASE ~Fail(c)
    <3>1. Moved /\ output' = output /\ pc'[c] \in Early
      BY <1>3, <2>3 DEF ReadFirst, ReadSecond, Prepare, Authenticate, Early
    <3> QED
      BY <1>0, <2>1, <3>1 DEF PublicationOf, Early, Writing
  <2> QED
    BY <2>2, <2>3
<1>4. CASE Sign(c)
  <2>1. Moved /\ pc'[c] = "create" /\ pc[c] = "replay" /\ first[c].report \in Reproducible
    BY <1>4 DEF Sign, Replays
  <2>2. PICK made : made = Envelope(Prepared(c), second[c].key, Signature(second[c].key, Prepared(c)))
    OBVIOUS
  <2>3. output'[c] = made
    BY <1>4, <2>2 DEF Sign
  <2>4. made.payload.report = first[c].report
    BY <2>2 DEF Envelope, Prepared
  <2>5. Whole(c)'
    BY <2>1, <2>3, <2>4 DEF Whole
  <2>6. exit[c] = None /\ Published(c) = {} /\ temp[c] = None
    BY <2>1 DEF PublicationOf, Early
  <2> QED
    BY <1>0, <2>1, <2>5, <2>6 DEF PublicationOf, Early, Writing
<1>5. CASE ReplayFails(c) \/ CreateFails(c)
    BY <1>5, FailKeepsPublication DEF ReplayFails, CreateFails, Early
<1>6. CASE Verify(c)
  <2>1. /\ pc'[c] = "exited" /\ pc[c] = "replay" /\ exit'[c] \in {0, 2}
        /\ UNCHANGED <<files, temp, synced, args, output, outside>>
    BY <1>6 DEF Verify
  <2>2. output[c] = None /\ Published(c) = {} /\ temp[c] = None
    BY <2>1 DEF PublicationOf, Early
  <2> QED
    BY <1>0, <2>1, <2>2 DEF PublicationOf, Early, Writing
<1>7. CASE Publish(c)
  <2>1. args' = args /\ output' = output /\ exit' = exit /\ outside' = outside
    BY <1>7 DEF Publish
  <2>2. Whole(c)' <=> Whole(c)
    BY <2>1 DEF Whole
  <2>3. CASE pc[c] = "create" /\ Create(c, output[c]) /\ pc' = [pc EXCEPT ![c] = "sync"]
    <3>1. temp'[c] = output[c] /\ files' = files /\ pc'[c] = "sync"
      BY <2>3 DEF Create
    <3> QED
      BY <1>0, <2>1, <2>2, <2>3, <3>1 DEF PublicationOf, Early, Writing
  <2>4. CASE pc[c] = "sync" /\ Sync(c) /\ pc' = [pc EXCEPT ![c] = "link"]
    <3>1. synced'[c] /\ temp' = temp /\ files' = files /\ pc'[c] = "link"
      BY <2>4 DEF Sync, Flushed
    <3> QED
      BY <1>0, <2>1, <2>2, <2>4, <3>1 DEF PublicationOf, Early, Writing
  <2>5. CASE pc[c] = "link" /\ Link(c, args[c].output) /\ pc' = [pc EXCEPT ![c] = "unlink"]
    <3>1. PICK new : new = [path |-> args[c].output, data |-> temp[c], by |-> c]
      OBVIOUS
    <3>2. new.path = args[c].output /\ new.data = temp[c] /\ new.by = c
      BY <3>1
    <3>3. new \in files' /\ files' \subseteq files \cup {new}
      BY <2>5, <3>1 DEF Link
    <3>4. Published(c) = {} /\ temp[c] = output[c] /\ exit[c] = None /\ synced[c] /\ Whole(c)
      BY <2>5 DEF PublicationOf, Writing
    <3>5. Published(c)' = {new}
      BY <3>2, <3>3, <3>4 DEF Published
    <3>6. synced' = synced /\ pc'[c] = "unlink"
      BY <2>5 DEF Link
    <3> QED
      BY <2>1, <2>2, <3>2, <3>4, <3>5, <3>6 DEF PublicationOf, Early, Writing
  <2> QED
    BY <1>7, <2>3, <2>4, <2>5, Zenon DEF Publish, GoTo
<1>8. CASE Finish(c)
  <2>1. /\ pc[c] = "unlink" /\ pc'[c] = "exited" /\ exit'[c] = 0 /\ temp'[c] = None
        /\ UNCHANGED <<files, synced, args, output, outside>>
    BY <1>8 DEF Finish, Unlink
  <2>2. outside = 0 => Published(c) # {}
    BY <2>1 DEF PublicationOf
  <2> QED
    BY <1>0, <2>1, <2>2, OverStays
<1>9. CASE WriteFails(c)
  <2>1. /\ pc[c] \in {"sync", "link"} /\ pc'[c] = "failed"
        /\ UNCHANGED <<files, temp, synced, args, output, exit, outside>>
    BY <1>9 DEF WriteFails
  <2> QED
    BY <1>0, <2>1 DEF PublicationOf, Early, Writing
<1>10. CASE GiveUp(c)
  <2>1. /\ pc[c] = "failed" /\ pc'[c] = "exited" /\ exit'[c] = 1 /\ temp'[c] = None
        /\ UNCHANGED <<files, synced, args, output, outside>>
    BY <1>10 DEF GiveUp, CleanUp, Unlink
  <2>2. Published(c) = {}
    BY <2>1 DEF PublicationOf
  <2> QED
    BY <1>0, <2>1, <2>2, OverStays
<1> QED
    BY <1>1, <1>2, <1>3, <1>4, <1>5, <1>6, <1>7, <1>8, <1>9, <1>10, Zenon DEF Step

(* A step touches the files in one place only, and only if it is free.     *)
LEMMA StepFiles ==
    ASSUME Domains, NEW c \in Commands, Step(c)
    PROVE  /\ outside' = outside
           /\ files \subseteq files'
           /\ \A f \in files' : f \in files \/ f.by = c
           /\ \A d \in Commands \ {c} : Kept(d)
<1> USE DEF Domains, GoTo, Exit, disk, history, Kept
<1>1. CASE Fail(c)
    BY <1>1 DEF Fail
<1>2. CASE \E i \in Invocations : StartReading(c, i) \/ \E k \in Keys : StartKeygen(c, i, k)
    BY <1>2 DEF StartReading, StartKeygen
<1>3. CASE ReadFirst(c) \/ ReadSecond(c) \/ Prepare(c) \/ Authenticate(c)
    BY <1>1, <1>3 DEF ReadFirst, ReadSecond, Prepare, Authenticate
<1>4. CASE Sign(c) \/ Verify(c)
    BY <1>4 DEF Sign, Verify
<1>5. CASE ReplayFails(c) \/ CreateFails(c)
    BY <1>1, <1>5 DEF ReplayFails, CreateFails
<1>6. CASE Finish(c) \/ WriteFails(c) \/ GiveUp(c)
    BY <1>6 DEF Finish, WriteFails, GiveUp, CleanUp, Unlink
<1>7. CASE Publish(c)
  <2>1. UNCHANGED <<args, output, exit, outside>>
    BY <1>7 DEF Publish
  <2>2. \A d \in Commands \ {c} : Kept(d)
    BY <1>7, <2>1 DEF Publish, Create, Sync, Link
  <2>3. CASE files' = files
    BY <2>1, <2>2, <2>3
  <2>4. CASE Link(c, args[c].output)
    <3>1. PICK new : new = [path |-> args[c].output, data |-> temp[c], by |-> c]
      OBVIOUS
    <3>2. new.by = c /\ files' = {f \in files : f.path # args[c].output} \cup {new}
      BY <2>4, <3>1 DEF Link
    <3>3. files' = files \cup {new}
      BY <2>4, <3>2 DEF Link, Free
    <3> QED
      BY <2>1, <2>2, <3>2, <3>3
  <2> QED
    BY <1>7, <2>3, <2>4 DEF Publish, Create, Sync
<1> QED
    BY <1>2, <1>3, <1>4, <1>5, <1>6, <1>7, Zenon DEF Step

LEMMA PublicationsPreserved ==
    ASSUME IInv, Next
    PROVE  Publishers' /\ \A d \in Commands : PublicationOf(d)'
<1> USE EvidenceAssumption
<1>0. Domains /\ Publishers /\ \A d \in Commands : PublicationOf(d) /\ ArgsOf(d)
    BY DEF IInv, AuthenticInv
<1>1. ASSUME NEW c \in Commands, Step(c)
      PROVE  Publishers' /\ \A d \in Commands : PublicationOf(d)'
  <2>1. Publishers'
    BY <1>0, <1>1, StepFiles DEF Publishers
  <2>2. PublicationOf(c)'
    BY <1>0, <1>1, StepKeepsPublication
  <2>3. ASSUME NEW d \in Commands \ {c} PROVE PublicationOf(d)'
    <3>1. Published(d)' = Published(d)
      BY <1>0, <1>1, StepFiles DEF Published
    <3>2. outside' = outside /\ Kept(d)
      BY <1>0, <1>1, StepFiles
    <3> QED
      BY <1>0, <3>1, <3>2, KeptStays
  <2> QED
    BY <2>1, <2>2, <2>3
<1>2. ASSUME NEW c \in Commands, Kill(c)
      PROVE  Publishers' /\ \A d \in Commands : PublicationOf(d)'
  <2>1. /\ files' = files /\ synced' = synced /\ args' = args /\ output' = output
        /\ pc' = [pc EXCEPT ![c] = "exited"] /\ exit' = [exit EXCEPT ![c] = Killed]
        /\ temp' = temp \/ temp' = [temp EXCEPT ![c] = None]
        /\ outside' = outside + 1 /\ pc[c] \notin {"start", "exited"}
    BY <1>2 DEF Kill, disk, Unlink, Exit, GoTo, Disturb, Running
  <2>2. ASSUME NEW d \in Commands PROVE PublicationOf(d)'
    <3>1. Published(d)' = Published(d) /\ outside' # 0
      BY <1>0, <2>1 DEF Published, Domains
    <3>2. CASE d # c
      <4>1. Kept(d)
        BY <1>0, <2>1, <3>2 DEF Kept, Domains
      <4> QED
        BY <1>0, <3>1, <4>1, KeptStays
    <3>3. CASE d = c
      <4>1. pc'[d] = "exited" /\ exit'[d] = Killed /\ (Whole(d)' <=> Whole(d))
        BY <1>0, <2>1, <3>3 DEF Domains, Whole
      <4> QED
        BY <1>0, <2>1, <3>1, <4>1 DEF PublicationOf, Early, Writing, Killed
    <3> QED
      BY <3>2, <3>3
  <2> QED
    BY <1>0, <2>1, <2>2 DEF Publishers
<1>3. CASE PowerLoss
  <2>1. /\ synced' = synced /\ args' = args /\ output' = output /\ outside' = outside + 1
        /\ \A d \in Commands :
              /\ pc'[d] = IF Running(d) THEN "exited" ELSE pc[d]
              /\ exit'[d] = IF Running(d) THEN Killed ELSE exit[d]
              /\ temp'[d] = IF temp[d] # None /\ ~synced[d] THEN Torn ELSE temp[d]
        /\ \A f \in files' : \E g \in files : f = AfterPowerLoss(g)
    BY <1>3 DEF PowerLoss, LosePower, Disturb
  <2>2. \A f \in files' : \E g \in files :
           f.path = g.path /\ f.by = g.by /\ (synced[g.by] => f.data = g.data)
    <3> SUFFICES ASSUME NEW f \in files'
                 PROVE  \E g \in files :
                           f.path = g.path /\ f.by = g.by /\ (synced[g.by] => f.data = g.data)
      OBVIOUS
    <3>1. PICK g \in files : f = AfterPowerLoss(g)
      BY <2>1
    <3> QED
      BY <3>1 DEF AfterPowerLoss
  <2>3. Publishers'
    <3> SUFFICES ASSUME NEW f \in files' PROVE f.by \in Commands \cup {None}
      BY DEF Publishers
    <3>1. PICK g \in files : f.by = g.by
      BY <2>2
    <3> QED
      BY <1>0, <3>1 DEF Publishers
  <2>4. ASSUME NEW d \in Commands PROVE PublicationOf(d)'
    <3>1. outside' # 0 /\ (Whole(d)' <=> Whole(d))
      BY <1>0, <2>1 DEF Domains, Whole
    <3>2. \A f \in Published(d)' : /\ f.path = args'[d].output /\ f.data = output'[d]
                                   /\ synced'[d] /\ Whole(d)'
      <4> SUFFICES ASSUME NEW f \in Published(d)'
                   PROVE  f.path = args'[d].output /\ f.data = output'[d] /\ synced'[d] /\ Whole(d)'
        OBVIOUS
      <4>1. f \in files' /\ f.by = d
        BY DEF Published
      <4>2. PICK g \in files : f.path = g.path /\ f.by = g.by /\ (synced[g.by] => f.data = g.data)
        BY <2>2, <4>1
      <4>3. g \in Published(d)
        BY <4>1, <4>2 DEF Published
      <4>4. g.path = args[d].output /\ g.data = output[d] /\ synced[d] /\ Whole(d)
        BY <1>0, <4>3 DEF PublicationOf
      <4> QED
        BY <2>1, <3>1, <4>1, <4>2, <4>4
    <3>3. Published(d) = {} => Published(d)' = {}
      <4> SUFFICES ASSUME NEW f \in Published(d)' PROVE Published(d) # {}
        OBVIOUS
      <4>1. f \in files' /\ f.by = d
        BY DEF Published
      <4>2. PICK g \in files : f.by = g.by
        BY <2>2, <4>1
      <4> QED
        BY <4>1, <4>2 DEF Published
    <3>4. CASE Running(d)
      BY <2>1, <3>1, <3>2, <3>4 DEF PublicationOf, Early, Writing, Killed
    <3>5. CASE ~Running(d)
      <4>1. pc'[d] = pc[d] /\ exit'[d] = exit[d] /\ pc[d] \in {"start", "exited"}
        BY <2>1, <3>5 DEF Running
      <4>2. temp[d] = None => temp'[d] = None
        BY <2>1
      <4> QED
        BY <1>0, <2>1, <3>1, <3>2, <3>3, <4>1, <4>2 DEF PublicationOf, Early, Writing
    <3> QED
      BY <3>4, <3>5
  <2> QED
    BY <2>3, <2>4
<1>4. ASSUME NEW p \in Paths, Meddle(p)
      PROVE  Publishers' /\ \A d \in Commands : PublicationOf(d)'
  <2>1. /\ UNCHANGED <<pc, args, output, exit, temp, synced>> /\ outside' = outside + 1
        /\ \A f \in files' : f \in files \/ f.by = None
    <3>1. CASE Remove(p)
      BY <1>4, <3>1 DEF Meddle, Remove, Without, command, Disturb
    <3>2. ASSUME NEW data, Put(p, data) PROVE /\ UNCHANGED <<temp, synced>>
                                               /\ \A f \in files' : f \in files \/ f.by = None
      <4>1. PICK new : new = [path |-> p, data |-> data, by |-> None]
        OBVIOUS
      <4>2. new.by = None /\ files' \subseteq files \cup {new}
        BY <3>2, <4>1 DEF Put, Without
      <4> QED
        BY <3>2, <4>2 DEF Put
    <3>3. UNCHANGED <<pc, args, output, exit>> /\ outside' = outside + 1
      BY <1>4 DEF Meddle, command, Disturb
    <3> QED
      BY <1>4, <3>1, <3>2, <3>3 DEF Meddle
  <2>2. ASSUME NEW d \in Commands PROVE PublicationOf(d)'
    <3>1. Published(d)' \subseteq Published(d)
      BY <2>1 DEF Published
    <3>2. Kept(d) /\ outside' # 0
      BY <1>0, <2>1 DEF Kept, Domains
    <3> QED
      BY <1>0, <3>1, <3>2, KeptStays
  <2> QED
    BY <1>0, <2>1, <2>2 DEF Publishers
<1>5. ASSUME NEW payload \in Payloads, Endorse(payload)
      PROVE  Publishers' /\ \A d \in Commands : PublicationOf(d)'
  <2>1. UNCHANGED <<disk, command>> /\ outside' = outside + 1
    BY <1>5 DEF Endorse, Disturb
  <2>2. ASSUME NEW d \in Commands PROVE PublicationOf(d)'
    <3>1. Published(d)' = Published(d) /\ Kept(d) /\ outside' # 0
      BY <1>0, <2>1 DEF Published, Kept, Domains, disk, command
    <3> QED
      BY <1>0, <3>1, KeptStays
  <2> QED
    BY <1>0, <2>1, <2>2 DEF Publishers, disk
<1> QED
    BY <1>1, <1>2, <1>3, <1>4, <1>5, Zenon DEF Next

-----------------------------------------------------------------------------
(* The specification.                                                      *)
LEMMA Initially == Init => IInv
<1> SUFFICES ASSUME Init PROVE IInv
    OBVIOUS
<1> USE EvidenceAssumption DEF Init
<1>1. Domains
    BY DEF Domains, Stages
<1>2. HonestFiles
    BY DEF HonestFiles, Honest
<1>3. AuthenticInv
    BY <1>2 DEF AuthenticInv, HonestOf, ArgsOf, Writing, Stages
<1>4. Publishers /\ \A c \in Commands : Published(c) = {}
    BY DEF Publishers, Published
<1>5. \A c \in Commands : PublicationOf(c)
    BY <1>4 DEF PublicationOf, Early, Writing
<1> QED
    BY <1>1, <1>3, <1>4, <1>5 DEF IInv

LEMMA Stuttering ==
    ASSUME IInv, UNCHANGED vars
    PROVE  IInv'
<1> USE DEF vars, disk, command, history
<1>1. Domains'
    BY DEF IInv, Domains
<1>2. AuthenticInv'
    BY DEF IInv, AuthenticInv, HonestFiles, Honest, HonestOf, ArgsOf, AcceptedOf
<1>3. Publishers' /\ \A c \in Commands : PublicationOf(c)'
    BY DEF IInv, Publishers, PublicationOf, Published, Whole
<1> QED
    BY <1>1, <1>2, <1>3 DEF IInv

(* The inductive invariant: signatures in envelopes were made, what a      *)
(* verification has established so far, and how far publications are.      *)
THEOREM Invariance == Spec => []IInv
<1>1. ASSUME IInv, Next PROVE IInv'
  <2>1. Domains'
    BY <1>1, DomainsPreserved DEF IInv
  <2>2. AuthenticInv'
    BY <1>1, StepKeepsAuthentic, OutsideKeepsAuthentic, Zenon DEF IInv, Next
  <2> QED
    BY <1>1, <2>1, <2>2, PublicationsPreserved DEF IInv
<1> QED
    BY <1>1, Initially, Stuttering, PTL DEF Spec

(* A satisfied verification stands for a signature over these claims and a *)
(* report that replays, and evidence wears out, for any keys, policies,    *)
(* times and files others put in the way.                                  *)
THEOREM SatisfiedEndorsed == Spec => []SatisfiedMeansEndorsed
<1>1. ASSUME IInv PROVE SatisfiedMeansEndorsed
  <2>1. \A a \in accepted : AcceptedOf(a)
    BY <1>1 DEF IInv, AuthenticInv
  <2> SUFFICES ASSUME NEW a \in accepted
               PROVE  /\ Signature(a.payload.keyid, a.payload) \in endorsed
                      /\ a.payload.report \in Reproducible
                      /\ a.payload.audience = a.by.audience /\ a.payload.issuer = a.by.issuer
                      /\ a.by.now < a.payload.expires_at
                      /\ \A b \in accepted : a.payload = b.payload =>
                            b.by.now - a.by.now < a.by.max_lifetime
    BY DEF SatisfiedMeansEndorsed
  <2>2. ASSUME NEW b \in accepted, a.payload = b.payload
        PROVE  b.by.now - a.by.now < a.by.max_lifetime
    BY <2>1, <2>2 DEF AcceptedOf
  <2> QED
    BY <2>1, <2>2 DEF AcceptedOf
<1> QED
    BY <1>1, Invariance, PTL

(* Exit statuses tell the truth about what was published, after crashes    *)
(* and losses of power too, for any number of commands on any paths.       *)
THEOREM ExitsTruthful == Spec => []ExitsTellTheTruth
<1>1. ASSUME IInv PROVE ExitsTellTheTruth
    BY <1>1 DEF IInv, PublicationOf, ExitsTellTheTruth, Whole
<1> QED
    BY <1>1, Invariance, PTL

(* No command replaces or removes what is at a path.                       *)
THEOREM NothingOverwritten == Spec => NothingIsOverwritten
<1>1. ASSUME IInv, [Next]_vars, outside' = outside PROVE files \subseteq files'
  <2>1. CASE UNCHANGED vars
    BY <2>1 DEF vars, disk
  <2>2. ASSUME NEW c \in Commands, Step(c) PROVE files \subseteq files'
    BY <1>1, <2>2, StepFiles DEF IInv
  <2>3. CASE \/ \E c \in Commands : Kill(c)
             \/ PowerLoss
             \/ \E p \in Paths : Meddle(p)
             \/ \E payload \in Payloads : Endorse(payload)
    <3>1. outside' = outside + 1
      BY <2>3 DEF Kill, PowerLoss, Meddle, Endorse, Disturb
    <3> QED
      BY <1>1, <3>1 DEF IInv, Domains
  <2> QED
    BY <1>1, <2>1, <2>2, <2>3, Zenon DEF Next
<1> QED
    BY <1>1, Invariance, PTL DEF Spec, NothingIsOverwritten
=============================================================================
