------------------------------ MODULE ExchangeProofs ------------------------------
(***************************************************************************)
(* TLAPS proofs about the two users of the process transport.              *)
(*                                                                         *)
(* ModelCalls, for any number of threads and providers, any budgets,       *)
(* prices, sizes and requests: what is billed for what was asked was       *)
(* reserved, budgets hold, answers are whole and nothing of an exchange    *)
(* outlives it.                                                            *)
(*                                                                         *)
(* BoundedReplay, for any limits asked for and any inherited, any maximum, *)
(* depth and report, and any number of callers: only a confined worker     *)
(* reads, the guard bounds what the parser meets, and a reproduced         *)
(* decision is one that such a worker reproduced.                          *)
(***************************************************************************)
EXTENDS ModelCallsInvariants, BoundedReplay, FiniteSetTheorems, TLAPS

-----------------------------------------------------------------------------
(* Exchanges.                                                              *)
Happens(c) ==
    \/ \E most \in Nat : Start(c, most)
    \/ Forget(c)
    \/ DeadlinePasses(c)
    \/ ExchangeStep(c) \/ ExchangeFails(c)
    \/ Write(c) \/ StartHelper(c) \/ HelperEnds(c) \/ CloseOutput(c)
    \/ \E badly \in BOOLEAN : CommandExits(c, badly)

(* A step of an exchange or its command: the calls see none of it.         *)
Outside ==
    /\ UNCHANGED <<provider, transport, tokens, worker, service>>
    /\ \A c \in Callers : stage'[c] = "idle" <=> stage[c] = "idle"

LEMMA ChunkType ==
    ASSUME ExchangeTypeOK, NEW c \in Callers, got[c] <= written[c], got[c] <= limit[c]
    PROVE  /\ Chunk(c) \in Nat
           /\ got[c] + Chunk(c) <= written[c]
           /\ Chunk(c) = 0 => got[c] = written[c]
BY ExchangeAssumption DEF ExchangeTypeOK, Chunk, Least, Room

LEMMA ExchangeTypePreserved ==
    ASSUME ExchangeTypeOK, ExchangeInv, NEW c \in Callers, Happens(c)
    PROVE  ExchangeTypeOK'
<1> USE DEF ExchangeTypeOK, command
<1>1. CASE \E most \in Nat : Start(c, most)
    BY <1>1 DEF Start, MoveTo, ExchangeStages, Exchanging
<1>2. CASE Forget(c)
    BY <1>2 DEF Forget, MoveTo, ExchangeStages, Exchanging
<1>3. CASE DeadlinePasses(c)
    BY <1>3 DEF DeadlinePasses
<1>4. CASE Launch(c) \/ LaunchFails(c)
    BY <1>4 DEF Launch, LaunchFails, End, MoveTo, ExchangeStages, Exchanging
<1>5. CASE ReadChunk(c)
  <2>1. Chunk(c) \in Nat
    BY <1>5, ChunkType DEF ReadChunk, ReadOn, ExchangeInv, ExchangeOf
  <2> QED
    BY <1>5, <2>1 DEF ReadChunk, ReadOn, End, MoveTo, ExchangeStages, Exchanging
<1>6. CASE ReadNothing(c) \/ TimeOut(c) \/ SystemError(c) \/ CommandEnded(c)
    BY <1>6 DEF ReadNothing, TimeOut, SystemError, CommandEnded, GiveUp, End, MoveTo,
                ExchangeStages, Exchanging
<1>7. CASE Kill(c)
  <2>1. PICK ended \in BOOLEAN : failed' = [failed EXCEPT ![c] = ended]
    BY <1>7, (failed[c] \/ running[c]) \in BOOLEAN, Zenon DEF Kill
  <2>2. failed' \in [Callers -> BOOLEAN]
    BY <2>1
  <2> QED
    BY <1>7, <2>2 DEF Kill, Survivors, MoveTo, ExchangeStages, Exchanging
<1>8. CASE Write(c) \/ StartHelper(c) \/ HelperEnds(c) \/ CloseOutput(c)
  <2>1. CASE Write(c)
    BY <2>1 DEF Write
  <2>2. CASE StartHelper(c)
    BY <2>2 DEF StartHelper
  <2>3. CASE HelperEnds(c) \/ CloseOutput(c)
    BY <2>3 DEF HelperEnds, CloseOutput
  <2> QED
    BY <1>8, <2>1, <2>2, <2>3
<1>9. CASE \E badly \in BOOLEAN : CommandExits(c, badly)
    BY <1>9 DEF CommandExits
<1> QED
    BY <1>1, <1>2, <1>3, <1>4, <1>5, <1>6, <1>7, <1>8, <1>9 DEF Happens, ExchangeStep, ExchangeFails

LEMMA ExchangePreserved ==
    ASSUME ExchangeTypeOK, ExchangeInv, NEW c \in Callers, Happens(c)
    PROVE  ExchangeInv'
<1> SUFFICES ASSUME NEW d \in Callers
             PROVE  ExchangeOf(d)'
    BY DEF ExchangeInv
<1>0. ExchangeOf(c) /\ ExchangeOf(d)
    BY DEF ExchangeInv
<1> USE <1>0 DEF ExchangeTypeOK, ExchangeOf, AtEnd, command
<1>1. CASE \E most \in Nat : Start(c, most)
    BY <1>1 DEF Start, MoveTo
<1>2. CASE Forget(c)
    BY <1>2 DEF Forget, MoveTo
<1>3. CASE DeadlinePasses(c)
    BY <1>3 DEF DeadlinePasses
<1>4. CASE Launch(c) \/ LaunchFails(c)
    BY <1>4, ExchangeAssumption DEF Launch, LaunchFails, End, MoveTo
<1>5. CASE ReadChunk(c)
  <2>1. Chunk(c) \in Nat /\ got[c] + Chunk(c) <= written[c]
    BY <1>5, ChunkType DEF ReadChunk, ReadOn
  <2> QED
    BY <1>5, <2>1 DEF ReadChunk, ReadOn, End, MoveTo
<1>6. CASE ReadNothing(c)
  <2>1. got[c] = written[c]
    BY <1>6, ChunkType DEF ReadNothing, ReadOn
  <2> QED
    BY <1>6, <2>1 DEF ReadNothing, ReadOn, Readable, MoveTo
<1>7. CASE TimeOut(c) \/ SystemError(c)
    BY <1>7 DEF TimeOut, SystemError, Late, GiveUp, End, MoveTo
<1>8. CASE CommandEnded(c)
    BY <1>8 DEF CommandEnded, End, MoveTo
<1>9. CASE Kill(c)
    BY <1>9 DEF Kill, Survivors, MoveTo
<1>10. CASE Write(c) \/ StartHelper(c) \/ HelperEnds(c) \/ CloseOutput(c)
    BY <1>10 DEF Write, StartHelper, HelperEnds, CloseOutput
<1>11. CASE \E badly \in BOOLEAN : CommandExits(c, badly)
    BY <1>11 DEF CommandExits
<1> QED
    BY <1>1, <1>2, <1>3, <1>4, <1>5, <1>6, <1>7, <1>8, <1>9, <1>10, <1>11
       DEF Happens, ExchangeStep, ExchangeFails

LEMMA ExchangeUnchanged ==
    ASSUME ExchangeTypeOK, ExchangeInv, UNCHANGED exchange
    PROVE  ExchangeTypeOK' /\ ExchangeInv'
BY DEF ExchangeTypeOK, ExchangeInv, ExchangeOf, AtEnd, exchange, command

LEMMA ExchangeNext ==
    ASSUME [Next]_vars
    PROVE  UNCHANGED exchange \/ \E c \in Callers : Happens(c)
<1> USE CallsAssumption DEF Happens
<1>1. CASE UNCHANGED vars
    BY <1>1 DEF vars
<1>2. CASE Bill
    BY <1>2 DEF Bill
<1>3. ASSUME NEW t \in Callers, NEW p \in Providers, Propose(t, p) \/ Busy(t, p)
      PROVE  UNCHANGED exchange
    BY <1>3 DEF Propose, Busy
<1>4. ASSUME NEW t \in Callers, Step(t)
      PROVE  UNCHANGED exchange \/ Happens(t)
  <2>1. CASE CheckCalls(t) \/ CallLimit(t) \/ EnterLedger(t) \/ SpendLimit(t)
    BY <2>1 DEF CheckCalls, CallLimit, EnterLedger, SpendLimit
  <2>2. CASE CountCall(t)
    BY <2>2 DEF CountCall
  <2>3. CASE Reserve(t)
    BY <2>3, ResponseLimit + Envelope \in Nat DEF Reserve
  <2>4. CASE Run(t) \/ Deliver(t)
    BY <2>4 DEF Run, Deliver, Accept, Fail, Conclude
  <2> QED
    BY <1>4, <2>1, <2>2, <2>3, <2>4 DEF Step
<1>5. ASSUME NEW t \in Callers, Environment(t)
      PROVE  UNCHANGED exchange \/ Happens(t)
    BY <1>5 DEF Environment, Refuse, CountTokens, Generate, Receive, WorkerFails, WorkerSpeaks,
                WorkerCrashes, CommandMoves, RunFails, Clock
<1> QED
    BY <1>1, <1>2, <1>3, <1>4, <1>5 DEF Next

-----------------------------------------------------------------------------
(* Prices.                                                                 *)
LEMMA Scaled ==
    ASSUME NEW m \in Nat, NEW n \in Nat, NEW price \in Nat, m <= n
    PROVE  m * price \in Nat /\ m * price <= n * price
OBVIOUS

LEMMA ReservationCovers ==
    /\ Numerator \in Nat /\ Reservation \in Nat
    /\ Numerator <= 1000000 * Reservation
<1>1. Numerator \in Nat
  <2>1. MaxInput * InputPrice \in Nat /\ MaxOutput * OutputPrice \in Nat
    BY CallsAssumption, Scaled
  <2> QED
    BY <2>1 DEF Numerator
<1> QED
    BY <1>1 DEF Reservation

(* What a generation costs is what was asked for and the excess.           *)
LEMMA Within ==
    ASSUME NEW n \in Nat, NEW most \in Nat, NEW all \in Nat, most <= all, NEW price \in Nat
    PROVE  n * price <= all * price + Above(n, most) * price
<1>0. Above(n, most) \in Nat
    BY DEF Above
<1>1. PICK above \in Nat : above = Above(n, most)
    BY <1>0
<1>2. n <= all + above
    BY <1>1 DEF Above
<1>3. n * price <= (all + above) * price
    BY <1>2, Scaled
<1>4. (all + above) * price = all * price + above * price
    OBVIOUS
<1> QED
    BY <1>1, <1>3, <1>4

LEMMA CostsAreCovered ==
    ASSUME NEW g \in [job : Nat, counted : 0 .. MaxInput, input : Nat, output : Nat]
    PROVE  /\ Cost(g.input, g.output) \in Nat /\ Excess(g) \in Nat
           /\ Cost(g.input, g.output) <= Numerator + Excess(g)
<1>1. PICK more \in Nat, extra \in Nat :
         more = Above(g.input, g.counted) /\ extra = Above(g.output, MaxOutput)
    BY CallsAssumption DEF Above
<1>2. /\ g.input * InputPrice <= MaxInput * InputPrice + more * InputPrice
      /\ g.output * OutputPrice <= MaxOutput * OutputPrice + extra * OutputPrice
    BY <1>1, CallsAssumption, Within
<1>3. /\ g.input * InputPrice \in Nat /\ MaxInput * InputPrice \in Nat
      /\ more * InputPrice \in Nat
      /\ g.output * OutputPrice \in Nat /\ MaxOutput * OutputPrice \in Nat
      /\ extra * OutputPrice \in Nat
    BY CallsAssumption, Scaled
<1>4. Excess(g) = more * InputPrice + extra * OutputPrice
    BY <1>1 DEF Excess, Cost
<1> QED
    BY <1>2, <1>3, <1>4 DEF Cost, Numerator

-----------------------------------------------------------------------------
(* The actions, grouped by what they change besides an exchange.           *)
LEMMA NextCases ==
    ASSUME TypeOK, [Next]_vars
    PROVE  \/ \E t \in Callers, p \in Providers : Propose(t, p) \/ Busy(t, p)
           \/ \E t \in Callers : \/ Refuse(t) \/ CallLimit(t) \/ SpendLimit(t)
                                \/ CheckCalls(t) \/ CountCall(t)
                                \/ EnterLedger(t) \/ Reserve(t)
                                \/ CountTokens(t) \/ Generate(t) \/ Receive(t) \/ WorkerFails(t)
                                \/ Deliver(t)
           \/ Bill
           \/ Outside
<1> USE DEF TypeOK, ExchangeTypeOK, MoveTo
<1>1. CASE UNCHANGED vars
    BY <1>1 DEF vars, exchange, Outside
<1>2. ASSUME NEW t \in Callers, Run(t) \/ RunFails(t)
      PROVE  Outside
  <2>1. /\ stage[t] # "idle"
        /\ \E s \in {"reading", "waiting", "killing", "done"} : MoveTo(t, s) \/ UNCHANGED stage
    BY <1>2 DEF Run, RunFails, ExchangeStep, ExchangeFails, Launch, LaunchFails, ReadChunk, ReadOn, ReadNothing, TimeOut, Late,
                SystemError, CommandEnded, GiveUp, Kill, End
  <2>2. \A c \in Callers : stage'[c] = "idle" <=> stage[c] = "idle"
    BY <2>1
  <2> QED
    BY <1>2, <2>2 DEF Run, RunFails, Outside
<1>3. ASSUME NEW t \in Callers, WorkerSpeaks(t) \/ WorkerCrashes(t) \/ CommandMoves(t) \/ Clock(t)
      PROVE  Outside
  <2>1. UNCHANGED stage
    BY <1>3 DEF WorkerSpeaks, WorkerCrashes, CommandMoves, Clock, Write, StartHelper, HelperEnds,
                CloseOutput, CommandExits, DeadlinePasses
  <2> QED
    BY <1>3, <2>1 DEF WorkerSpeaks, WorkerCrashes, CommandMoves, Clock, Outside
<1> QED
    BY <1>1, <1>2, <1>3 DEF Next, Step, Environment

LEMMA LeaveTypes ==
    ASSUME TypeOK, NEW t \in Callers, NEW given \in {"plans", "failure"}, Leave(t, given)
    PROVE  /\ verdict' \in [Callers -> {None, "plans", "failure"}]
           /\ lock' \in [Providers -> Callers \cup {None}]
           /\ using' \in [Callers -> Providers \cup {None}]
           /\ tokens' \in [Callers -> Nat]
           /\ at' \in [Callers -> CallStages]
BY DEF TypeOK, Leave, At, CallStages

LEMMA TypePreserved ==
    ASSUME IInv, [Next]_vars
    PROVE  TypeOK'
<1>1. ExchangeTypeOK'
    BY ExchangeNext, ExchangeUnchanged, ExchangeTypePreserved DEF IInv, TypeOK
<1> USE <1>1 DEF TypeOK, IInv, CallStages, WorkerStages, At, Worker
<1>2. ASSUME NEW t \in Callers, NEW p \in Providers, Propose(t, p) \/ Busy(t, p)
      PROVE  TypeOK'
  <2>1. CASE Propose(t, p)
    BY <2>1, CallsAssumption DEF Propose, transport, service
  <2>2. CASE Busy(t, p)
    BY <2>2 DEF Busy, transport, service
  <2> QED
    BY <1>2, <2>1, <2>2
<1>3. ASSUME NEW t \in Callers, Refuse(t) \/ CallLimit(t) \/ SpendLimit(t)
      PROVE  TypeOK'
  <2>1. Leave(t, "failure")
    BY <1>3 DEF Refuse, CallLimit, SpendLimit
  <2>2. UNCHANGED <<calls, transport, worker, service>>
    BY <1>3 DEF Refuse, CallLimit, SpendLimit
  <2> QED
    BY <2>1, <2>2, LeaveTypes DEF transport, service
<1>4. ASSUME NEW t \in Callers, CheckCalls(t) \/ EnterLedger(t)
      PROVE  TypeOK'
    BY <1>4 DEF CheckCalls, EnterLedger, transport, service
<1>5. ASSUME NEW t \in Callers, CountCall(t)
      PROVE  TypeOK'
  <2>1. using[t] \in Providers /\ calls[using[t]] + 1 \in 0 .. MaxCalls
    BY <1>5, CallsAssumption DEF CountCall, CallInv, CallOf
  <2>2. calls' \in [Providers -> 0 .. MaxCalls]
    BY <1>5, <2>1 DEF CountCall
  <2>3. at' \in [Callers -> CallStages]
    BY <1>5 DEF CountCall
  <2> QED
    BY <1>5, <2>2, <2>3 DEF CountCall, transport, service
<1>6. ASSUME NEW t \in Callers, Reserve(t)
      PROVE  TypeOK'
  <2>1. reserved + Reservation \in 0 .. MaxReserved
    BY <1>6, ReservationCovers, CallsAssumption DEF Reserve, CallInv, CallOf
  <2>2. /\ jobs' \in Nat /\ 0 .. jobs \subseteq 0 .. jobs' /\ 1 .. jobs \subseteq 1 .. jobs'
        /\ jobs + 1 \in 0 .. jobs'
    BY <1>6 DEF Reserve
  <2>3. job' \in [Callers -> 0 .. jobs']
    BY <1>6, <2>2 DEF Reserve
  <2>4. accepted' \subseteq [job : 1 .. jobs', counted : 0 .. MaxInput, input : Nat, output : Nat]
    BY <1>6, <2>2 DEF Reserve, service
  <2>5. settled' \subseteq 1 .. jobs'
    BY <1>6, <2>2 DEF Reserve, service
  <2> QED
    BY <1>6, <2>1, <2>2, <2>3, <2>4, <2>5 DEF Reserve, service
<1>7. ASSUME NEW t \in Callers, CountTokens(t) \/ Receive(t) \/ WorkerFails(t)
      PROVE  TypeOK'
    BY <1>7 DEF CountTokens, Receive, WorkerFails, provider, transport, service
<1>8. ASSUME NEW t \in Callers, Generate(t)
      PROVE  TypeOK'
  <2>1. job[t] \in 1 .. jobs /\ tokens[t] \in 0 .. MaxInput
    BY <1>8, CallsAssumption DEF Generate, Working, WorkerInv, WorkerOf
  <2>2. PICK use \in Uses :
           accepted' = accepted \cup {[job |-> job[t], counted |-> tokens[t],
                                      input |-> use.input, output |-> use.output]}
    BY <1>8 DEF Generate
  <2>3. use.input \in Nat /\ use.output \in Nat
    BY CallsAssumption
  <2> QED
    BY <1>8, <2>1, <2>2, <2>3 DEF Generate, provider, transport
<1>9. ASSUME NEW t \in Callers, Deliver(t)
      PROVE  TypeOK'
  <2>1. PICK given \in {"plans", "failure"} : Conclude(t, given)
    BY <1>9 DEF Deliver, Accept, Fail
  <2>2. Leave(t, given) /\ UNCHANGED <<calls, reserved, ledger, jobs, service>>
    BY <2>1 DEF Conclude, Kept
  <2>3. job' \in [Callers -> 0 .. jobs] /\ worker' \in [Callers -> WorkerStages]
    BY <2>1 DEF Conclude
  <2> QED
    BY <2>2, <2>3, LeaveTypes DEF service
<1>10. ASSUME Bill
       PROVE  TypeOK'
  <2>1. PICK g \in accepted :
           /\ settled' = settled \cup {g.job}
           /\ billed' = billed + Cost(g.input, g.output)
           /\ excess' = excess + Excess(g)
           /\ UNCHANGED accepted
    BY <1>10 DEF Bill
  <2>2. /\ g.job \in 1 .. jobs
        /\ g \in [job : Nat, counted : 0 .. MaxInput, input : Nat, output : Nat]
    OBVIOUS
  <2>3. billed' \in Nat /\ excess' \in Nat
    BY <2>1, <2>2, CostsAreCovered
  <2> QED
    BY <1>10, <2>1, <2>2, <2>3 DEF Bill, provider, transport
<1>11. ASSUME Outside
       PROVE  TypeOK'
    BY <1>11 DEF Outside, provider, transport, service
<1> QED
    BY NextCases, <1>2, <1>3, <1>4, <1>5, <1>6, <1>7, <1>8, <1>9, <1>10, <1>11

-----------------------------------------------------------------------------
(* Locks and counters.                                                     *)
LEMMA CallPreserved ==
    ASSUME IInv, [Next]_vars
    PROVE  CallInv'
<1> SUFFICES ASSUME NEW u \in Callers
             PROVE  CallOf(u)'
    BY DEF CallInv
<1>0. CallOf(u) /\ \A t \in Callers : CallOf(t)
    BY DEF IInv, CallInv
<1> USE <1>0, ExchangeAssumption, CallsAssumption
    DEF TypeOK, ExchangeTypeOK, IInv, CallOf, CallStages, At, OfWorker
<1>2. ASSUME NEW t \in Callers, NEW p \in Providers, Propose(t, p)
      PROVE  CallOf(u)'
    BY <1>2 DEF Propose, LockFree, transport, exchange
<1>3. ASSUME NEW t \in Callers, NEW p \in Providers, Busy(t, p)
      PROVE  CallOf(u)'
    BY <1>3 DEF Busy, transport, exchange
<1>4. ASSUME NEW t \in Callers, Refuse(t) \/ CallLimit(t) \/ SpendLimit(t)
      PROVE  CallOf(u)'
  <2>1. Leave(t, "failure") /\ UNCHANGED <<exchange, calls, transport>> /\ at[t] \in {"locked", "ledger"}
    BY <1>4 DEF Refuse, CallLimit, SpendLimit
  <2> QED
    BY <2>1 DEF Leave, transport, exchange
<1>5. ASSUME NEW t \in Callers, CheckCalls(t)
      PROVE  CallOf(u)'
    BY <1>5 DEF CheckCalls, MayCall, transport, exchange
<1>6. ASSUME NEW t \in Callers, CountCall(t)
      PROVE  CallOf(u)'
  <2>1. CASE u = t
    BY <1>6, <2>1 DEF CountCall, Start, MoveTo, transport, exchange
  <2>2. CASE u # t
    BY <1>6, <2>2 DEF CountCall, Start, MoveTo, transport, exchange
  <2> QED
    BY <2>1, <2>2
<1>7. ASSUME NEW t \in Callers, EnterLedger(t)
      PROVE  CallOf(u)'
    BY <1>7 DEF EnterLedger, LedgerFree, exchange
<1>8. ASSUME NEW t \in Callers, Reserve(t)
      PROVE  CallOf(u)'
    BY <1>8 DEF Reserve, Start, MoveTo
<1>9. ASSUME NEW t \in Callers, CountTokens(t) \/ Generate(t) \/ Receive(t) \/ WorkerFails(t)
      PROVE  CallOf(u)'
    BY <1>9 DEF CountTokens, Generate, Receive, WorkerFails, provider, transport, exchange
<1>10. ASSUME NEW t \in Callers, Deliver(t)
       PROVE  CallOf(u)'
  <2>1. PICK given \in {"plans", "failure"} : Conclude(t, given)
    BY <1>10 DEF Deliver, Accept, Fail
  <2> QED
    BY <2>1 DEF Conclude, Leave, Kept, Forget, MoveTo
<1>11. CASE Bill
    BY <1>11 DEF Bill, provider, transport, exchange
<1>12. CASE Outside
    BY <1>12 DEF Outside, provider, transport
<1> QED
    BY NextCases, <1>2, <1>3, <1>4, <1>5, <1>6, <1>7, <1>8, <1>9, <1>10, <1>11, <1>12

-----------------------------------------------------------------------------
(* Workers, jobs and the service.                                          *)
LEMMA WorkerPreserved ==
    ASSUME IInv, [Next]_vars
    PROVE  WorkerInv'
<1>0. /\ \A t \in Callers : WorkerOf(t) /\ CallOf(t)
      /\ \A t, u \in Callers : job[t] = job[u] /\ job[t] # 0 => t = u
    BY DEF IInv, WorkerInv, CallInv
<1> USE <1>0, ExchangeAssumption, CallsAssumption
    DEF TypeOK, IInv, CallStages, WorkerStages, At, OfWorker, WorkerOf
<1>2. ASSUME NEW t \in Callers, NEW p \in Providers, Propose(t, p)
      PROVE  WorkerInv'
    BY <1>2 DEF Propose, CallOf, WorkerInv, transport, service
<1>3. ASSUME NEW t \in Callers, NEW p \in Providers, Busy(t, p)
      PROVE  WorkerInv'
    BY <1>3 DEF Busy, WorkerInv, transport, service
<1>4. ASSUME NEW t \in Callers, Refuse(t) \/ CallLimit(t) \/ SpendLimit(t)
      PROVE  WorkerInv'
  <2>1. /\ Leave(t, "failure") /\ UNCHANGED <<transport, worker, service>>
        /\ at[t] \in {"locked", "ledger"}
    BY <1>4 DEF Refuse, CallLimit, SpendLimit
  <2> QED
    BY <2>1 DEF Leave, WorkerInv, transport, service
<1>5. ASSUME NEW t \in Callers, CheckCalls(t)
      PROVE  WorkerInv'
    BY <1>5 DEF CheckCalls, WorkerInv, transport, service
<1>6. ASSUME NEW t \in Callers, CountCall(t)
      PROVE  WorkerInv'
    BY <1>6 DEF CountCall, WorkerInv, transport, service
<1>7. ASSUME NEW t \in Callers, EnterLedger(t)
      PROVE  WorkerInv'
    BY <1>7 DEF EnterLedger, WorkerInv, service
<1>8. ASSUME NEW t \in Callers, Reserve(t)
      PROVE  WorkerInv'
  <2>1. /\ \A u \in Callers : job[u] # jobs + 1
        /\ \A g \in accepted : g.job # jobs + 1
        /\ jobs + 1 # 0
    OBVIOUS
  <2>2. /\ job' = [job EXCEPT ![t] = jobs + 1] /\ worker' = [worker EXCEPT ![t] = "started"]
        /\ at' = [at EXCEPT ![t] = "exchange"] /\ using[t] \in Metered
        /\ UNCHANGED <<using, tokens, accepted>>
    BY <1>8 DEF Reserve, CallOf, service
  <2>3. ASSUME NEW u \in Callers
        PROVE  WorkerOf(u)'
    <3>1. CASE u = t
      BY <2>1, <2>2, <3>1
    <3>2. CASE u # t
      BY <2>2, <3>2
    <3> QED
      BY <3>1, <3>2
  <2>4. \A v, u \in Callers : job'[v] = job'[u] /\ job'[v] # 0 => v = u
    BY <2>1, <2>2
  <2> QED
    BY <2>3, <2>4 DEF WorkerInv
<1>9. ASSUME NEW t \in Callers, CountTokens(t) \/ Receive(t) \/ WorkerFails(t)
      PROVE  WorkerInv'
  <2>1. PICK s \in {"counted", "proposed", "refused"} :
           /\ Worker(t, s)
           /\ s = "counted" => worker[t] = "started" /\ Affordable(tokens[t])
           /\ s = "proposed" => \E g \in accepted : g.job = job[t] /\ WithinCaps(g)
           /\ worker[t] # "none"
    BY <1>9 DEF CountTokens, Receive, WorkerFails, Working
  <2>2. UNCHANGED <<at, using, job, tokens, accepted>>
    BY <1>9 DEF CountTokens, Receive, WorkerFails, provider, transport, service
  <2> QED
    BY <2>1, <2>2 DEF Worker, Affordable, WorkerInv
<1>10. ASSUME NEW t \in Callers, Generate(t)
       PROVE  WorkerInv'
  <2>1. PICK sent \in [job : {job[t]}, counted : {tokens[t]}, input : Nat, output : Nat] :
           /\ worker[t] = "counted" /\ worker' = [worker EXCEPT ![t] = "sent"]
           /\ accepted' = accepted \cup {sent}
           /\ UNCHANGED <<at, using, job, tokens>>
    BY <1>10 DEF Generate, Working, Worker, provider, transport
  <2>2. ASSUME NEW u \in Callers
        PROVE  WorkerOf(u)'
    <3>1. CASE u = t
      <4>1. \E g \in accepted' : g.job = job'[t]
        BY <2>1
      <4>2. /\ worker'[t] = "sent" /\ job'[t] # 0
            /\ at'[t] = "exchange" /\ using'[t] \in Metered
        BY <2>1
      <4> QED
        BY <3>1, <4>1, <4>2
    <3>2. CASE u # t
      BY <2>1, <3>2
    <3> QED
      BY <3>1, <3>2
  <2> QED
    BY <2>1, <2>2 DEF WorkerInv
<1>11. ASSUME NEW t \in Callers, Deliver(t)
       PROVE  WorkerInv'
  <2>1. PICK given \in {"plans", "failure"} : Conclude(t, given)
    BY <1>11 DEF Deliver, Accept, Fail
  <2> QED
    BY <2>1 DEF Conclude, Leave, WorkerInv, service
<1>12. CASE Bill
  <2>1. UNCHANGED <<at, using, job, tokens, worker, accepted>>
    BY <1>12 DEF Bill, provider, transport
  <2> QED
    BY <2>1 DEF WorkerInv
<1>13. CASE Outside
    BY <1>13 DEF Outside, provider, transport, service, WorkerInv
<1> QED
    BY NextCases, <1>2, <1>3, <1>4, <1>5, <1>6, <1>7, <1>8, <1>9, <1>10, <1>11, <1>12, <1>13

LEMMA BillPreserved ==
    ASSUME IInv, [Next]_vars
    PROVE  BillInv'
<1> USE DEF IInv, BillInv
<1>1. ASSUME NEW t \in Callers, Reserve(t)
      PROVE  BillInv'
  <2>1. Reservation * (jobs + 1) = Reservation * jobs + Reservation
    BY ReservationCovers DEF TypeOK
  <2> QED
    BY <1>1, <2>1 DEF Reserve, service
<1>2. ASSUME NEW t \in Callers, Generate(t)
      PROVE  BillInv'
  <2>1. PICK sent :
           /\ sent.job = job[t] /\ accepted' = accepted \cup {sent}
           /\ UNCHANGED <<settled, billed, excess, reserved, jobs>>
    BY <1>2 DEF Generate, transport
  <2>2. \A g \in accepted : g.job # job[t]
    BY <1>2 DEF Generate, Working, WorkerInv, WorkerOf
  <2> QED
    BY <2>1, <2>2
<1>3. CASE Bill
  <2>1. PICK g \in accepted :
           /\ g.job \notin settled
           /\ settled' = settled \cup {g.job}
           /\ billed' = billed + Cost(g.input, g.output)
           /\ excess' = excess + Excess(g)
           /\ UNCHANGED <<reserved, jobs, accepted>>
    BY <1>3 DEF Bill, transport
  <2>2. g \in [job : Nat, counted : 0 .. MaxInput, input : Nat, output : Nat]
    BY DEF TypeOK
  <2>3. IsFiniteSet(settled)
    <3>1. IsFiniteSet(1 .. jobs) /\ settled \in SUBSET (1 .. jobs)
      BY FS_Interval DEF TypeOK
    <3> QED
      BY <3>1, FS_Subset
  <2>4. /\ Cardinality(settled') = Cardinality(settled) + 1
        /\ Cardinality(settled) \in Nat
    BY <2>1, <2>3, FS_AddElement, FS_CardinalityType
  <2>5. Numerator * Cardinality(settled') = Numerator * Cardinality(settled) + Numerator
    BY <2>4, ReservationCovers
  <2>6. /\ Cost(g.input, g.output) \in Nat /\ Excess(g) \in Nat
        /\ Cost(g.input, g.output) <= Numerator + Excess(g)
    BY <2>2, CostsAreCovered
  <2>7. /\ billed \in Nat /\ excess \in Nat /\ Numerator * Cardinality(settled) \in Nat
        /\ billed <= Numerator * Cardinality(settled) + excess
    BY <2>4, ReservationCovers DEF TypeOK
  <2>8. billed' <= Numerator * Cardinality(settled') + excess'
    BY <2>1, <2>5, <2>6, <2>7, ReservationCovers
  <2> QED
    BY <2>1, <2>8
<1>4. UNCHANGED <<reserved, jobs, service>> => BillInv'
    BY DEF service
<1>5. ASSUME ~Bill, \A t \in Callers : ~Reserve(t) /\ ~Generate(t)
      PROVE  UNCHANGED <<reserved, jobs, service>>
    BY <1>5, NextCases
       DEF Propose, Busy, Refuse, CallLimit, SpendLimit, CheckCalls, CountCall, EnterLedger,
           CountTokens, Receive, WorkerFails, Deliver, Accept, Fail, Conclude, Kept, Outside,
           transport
<1> QED
    BY <1>1, <1>2, <1>3, <1>4, <1>5

-----------------------------------------------------------------------------
(* The whole invariant.                                                    *)
THEOREM Invariance == Spec => []IInv
<1>1. Init => IInv
  <2> SUFFICES ASSUME Init
               PROVE  IInv
    OBVIOUS
  <2>1. TypeOK
    BY CallsAssumption
       DEF Init, ExchangeInit, TypeOK, ExchangeTypeOK, ExchangeStages, CallStages, WorkerStages
  <2>2. ExchangeInv
    BY ExchangeAssumption DEF Init, ExchangeInit, ExchangeInv, ExchangeOf, AtEnd
  <2>3. CallInv /\ WorkerInv
    BY DEF Init, ExchangeInit, CallInv, CallOf, WorkerInv, WorkerOf
  <2>4. BillInv
    <3>1. Cardinality({}) = 0
      BY FS_EmptySet
    <3>2. Reservation * 0 = 0 /\ Numerator * 0 = 0
      BY ReservationCovers
    <3> QED
      BY <3>1, <3>2 DEF Init, BillInv
  <2> QED
    BY <2>1, <2>2, <2>3, <2>4 DEF IInv
<1>2. IInv /\ [Next]_vars => IInv'
  <2> SUFFICES ASSUME IInv, [Next]_vars
               PROVE  IInv'
    OBVIOUS
  <2>1. TypeOK'
    BY TypePreserved
  <2>2. ExchangeInv'
    BY ExchangeNext, ExchangeUnchanged, ExchangePreserved DEF IInv, TypeOK
  <2> QED
    BY <2>1, <2>2, CallPreserved, WorkerPreserved, BillPreserved DEF IInv
<1> QED
    BY <1>1, <1>2, PTL DEF Spec

(* Every state keeps the types of its variables.                           *)
THEOREM TypeCorrect == Spec => []TypeOK
<1>1. IInv => TypeOK
    BY DEF IInv
<1> QED
    BY <1>1, Invariance, PTL

(* BilledIsReserved: the bills of the service exceed what was reserved     *)
(* only by tokens nobody asked for, and the reservations never their       *)
(* limit, for any prices, budgets, threads and providers and whatever the  *)
(* generations use.                                                        *)
THEOREM BillsAreReserved == Spec => []BilledIsReserved
<1>1. IInv => BilledIsReserved
  <2> SUFFICES ASSUME IInv
               PROVE  BilledIsReserved
    OBVIOUS
  <2>1. Cardinality(settled) \in Nat /\ Cardinality(settled) <= jobs
    <3>1. jobs \in Nat /\ settled \in SUBSET (1 .. jobs)
      BY DEF IInv, TypeOK
    <3>2. /\ IsFiniteSet(1 .. jobs)
          /\ Cardinality(1 .. jobs) = IF 1 > jobs THEN 0 ELSE jobs - 1 + 1
      <4>1. 1 \in Int /\ jobs \in Int
        BY <3>1
      <4> QED
        BY <4>1, FS_Interval, Zenon
    <3>3. Cardinality(1 .. jobs) = jobs
      BY <3>1, <3>2
    <3> QED
      BY <3>1, <3>2, <3>3, FS_Subset, FS_CardinalityType
  <2>2. /\ Numerator * Cardinality(settled) <= Numerator * jobs
        /\ Numerator * jobs <= (1000000 * Reservation) * jobs
    <3>1. Cardinality(settled) * Numerator <= jobs * Numerator
      BY <2>1, Scaled, ReservationCovers DEF IInv, TypeOK
    <3>2. Numerator * jobs <= (1000000 * Reservation) * jobs
      BY Scaled, ReservationCovers DEF IInv, TypeOK
    <3> QED
      BY <2>1, <3>1, <3>2, ReservationCovers DEF IInv, TypeOK
  <2>3. (1000000 * Reservation) * jobs = 1000000 * reserved
    BY ReservationCovers DEF IInv, TypeOK, BillInv
  <2>4. billed <= 1000000 * reserved + excess
    BY <2>1, <2>2, <2>3, ReservationCovers DEF IInv, TypeOK, BillInv
  <2> QED
    BY <2>4, CallsAssumption DEF BilledIsReserved, IInv, TypeOK
<1> QED
    BY <1>1, Invariance, PTL

(* CallsWithinBudget: whichever threads share a provider.                  *)
THEOREM BudgetsHold == Spec => []CallsWithinBudget
<1>1. IInv => CallsWithinBudget
    BY CallsAssumption DEF IInv, TypeOK, CallsWithinBudget
<1> QED
    BY <1>1, Invariance, PTL

(* AnswersAreWhole: no exchange returns a part of what its command wrote,  *)
(* for any sizes of limit, read and pipe.                                  *)
THEOREM WholeAnswers == Spec => []AnswersAreWhole
<1>1. IInv => AnswersAreWhole
    BY DEF IInv, ExchangeInv, ExchangeOf, AtEnd, AnswersAreWhole
<1> QED
    BY <1>1, Invariance, PTL

(* NothingLeftBehind: an exchange that is over has no process running.     *)
THEOREM ProcessesEnd == Spec => []NothingLeftBehind
<1>1. IInv => NothingLeftBehind
    BY DEF IInv, ExchangeInv, ExchangeOf, NothingLeftBehind
<1> QED
    BY <1>1, Invariance, PTL

(* PlansAreEarned: plans come only from a whole answer in time, and from a *)
(* worker only after its generation was reserved and sent.                 *)
THEOREM PlansEarned == Spec => PlansAreEarned
<1> DEFINE Earned(t) ==
        verdict'[t] = "plans" /\ verdict[t] # "plans" =>
            /\ got[t] = written[t] /\ got[t] <= limit[t]
            /\ ~failed[t] /\ ~expired[t]
            /\ OfWorker(t) =>
                  \E g \in accepted :
                      g.job = job[t] /\ g.input <= MaxInput /\ g.output <= MaxOutput
<1>1. ASSUME IInv, [Next]_vars, NEW t \in Callers
      PROVE  Earned(t)
  <2>1. verdict'[t] = "plans" /\ verdict[t] # "plans" => Accept(t)
    <3>1. ASSUME NEW u \in Callers, NEW v, Leave(u, v)
          PROVE  verdict'[t] = IF u = t THEN v ELSE verdict[t]
      <4>1. verdict' = [verdict EXCEPT ![u] = v] /\ DOMAIN verdict = Callers
        BY <3>1, <1>1 DEF Leave, IInv, TypeOK
      <4> QED
        BY <4>1, <1>1
    <3>2. /\ \A u \in Callers : Leave(u, "failure") => verdict'[t] = verdict[t] \/ verdict'[t] = "failure"
          /\ \A u \in Callers : Leave(u, "plans") => u = t \/ verdict'[t] = verdict[t]
      BY <3>1
    <3>3. ASSUME NEW u \in Callers, NEW p \in Providers, Propose(u, p) \/ Busy(u, p)
          PROVE  verdict'[t] \in {verdict[t], None, "failure"}
      <4>1. /\ \/ verdict' = [verdict EXCEPT ![u] = None]
               \/ verdict' = [verdict EXCEPT ![u] = "failure"]
            /\ DOMAIN verdict = Callers
        BY <3>3, <1>1 DEF Propose, Busy, IInv, TypeOK
      <4> QED
        BY <4>1, <1>1
    <3>4. ASSUME NEW u \in Callers, Refuse(u) \/ CallLimit(u) \/ SpendLimit(u)
          PROVE  verdict'[t] \in {verdict[t], None, "failure"}
      BY <3>4, <3>2 DEF Refuse, CallLimit, SpendLimit
    <3>5. ASSUME NEW u \in Callers, CheckCalls(u) \/ CountCall(u) \/ EnterLedger(u) \/ Reserve(u)
          PROVE  verdict' = verdict
      BY <3>5 DEF CheckCalls, CountCall, EnterLedger, Reserve
    <3>6. ASSUME NEW u \in Callers, CountTokens(u) \/ Generate(u) \/ Receive(u) \/ WorkerFails(u)
          PROVE  verdict' = verdict
      BY <3>6 DEF CountTokens, Generate, Receive, WorkerFails, provider
    <3>7. ASSUME NEW u \in Callers, Deliver(u)
          PROVE  (u = t /\ Accept(t)) \/ verdict'[t] \in {verdict[t], None, "failure"}
      BY <3>7, <3>2 DEF Deliver, Accept, Fail, Conclude
    <3>8. Bill \/ Outside => verdict' = verdict
      BY DEF Bill, Outside, provider
    <3>9. None # "plans"
      BY CallsAssumption
    <3>10. CASE \E u \in Callers, p \in Providers : Propose(u, p) \/ Busy(u, p)
      BY <3>10, <3>3, <3>9
    <3>11. CASE \E u \in Callers : Deliver(u)
      BY <3>11, <3>7, <3>9
    <3> QED
      BY <1>1, <3>4, <3>5, <3>6, <3>8, <3>10, <3>11, NextCases, <3>9 DEF IInv
  <2>2. Accept(t) => Earned(t)
    BY <1>1 DEF IInv, ExchangeInv, ExchangeOf, AtEnd, WorkerInv, WorkerOf, Accept, Valid, WithinCaps
  <2> QED
    BY <2>1, <2>2
<1>2. IInv /\ [Next]_vars => [\A t \in Callers : Earned(t)]_vars
    BY <1>1
<1> QED
    BY <1>2, Invariance, PTL DEF Spec, PlansAreEarned

-----------------------------------------------------------------------------
(* Bounded replay.                                                         *)

Guards == [depth : Int, quoted : BOOLEAN, escaped : BOOLEAN, refused : BOOLEAN]
Parsers == [nesting : Int, deepest : Int, string : BOOLEAN, skip : BOOLEAN, rejected : BOOLEAN]
ReplayerStages == {"none", "limiting", "reading", "answering"}

ReplayTypeOK ==
    /\ stage \in [Callers -> ExchangeStages]
    /\ limit \in [Callers -> Int] /\ got \in [Callers -> Int] /\ written \in [Callers -> Int]
    /\ outcome \in [Callers -> {None, "answer", "failure"}]
    /\ running \in [Callers -> BOOLEAN] /\ failed \in [Callers -> BOOLEAN]
    /\ size \in [Callers -> Nat]
    /\ result \in [Callers -> {None, "input_limit", "unsupported_platform", "worker_failed",
                                "worker_protocol"} \cup Answers]
    /\ replayer \in [Callers -> ReplayerStages]
    /\ inherited \in [Callers -> Environments]
    /\ limits \in [Callers -> [Kinds -> LimitPairs]]
    /\ set \in [Callers -> 0 .. 3]
    /\ guard \in [Callers -> Guards]
    /\ parser \in [Callers -> Parsers]
    /\ read \in [Callers -> Nat]
    /\ answer \in [Callers -> Answers \cup {None}]

(* A process runs only while it is attended to, and fails or does not.     *)
ProcessOf(c) ==
    /\ stage[c] \in {"idle", "starting", "done"} => ~running[c]
    /\ stage[c] \in {"idle", "starting"} => replayer[c] = "none" /\ outcome[c] = None
    /\ outcome[c] = "answer" => ~running[c] /\ ~failed[c]
    /\ stage[c] \in {"killing", "done"} => outcome[c] # None

(* Limits are replaced one by one, in their order, and all before reading. *)
Tight(c, k) ==
    \A n \in {limits[c][k].soft, limits[c][k].hard} :
        /\ NoLooser(n, Asked[k])
        /\ NoLooser(n, inherited[c][k].soft) /\ NoLooser(n, inherited[c][k].hard)

LimitsOf(c) ==
    /\ \A i \in 1 .. 3 : IF i <= set[c] THEN Tight(c, Order[i])
                         ELSE limits[c][Order[i]] = inherited[c][Order[i]]
    /\ replayer[c] = "reading" \/ read[c] > 0 => set[c] = 3

(* Guard and parser agree on strings, escapes and depth, as long as the    *)
(* parser has not given up.                                                *)
InStep(g, p) ==
    /\ ~p.rejected => /\ g.quoted = p.string /\ g.escaped = p.skip
                      /\ g.depth = p.nesting
                      /\ p.skip => p.string
                      /\ g.depth <= MaxDepth \/ g.refused
    /\ ~g.refused => p.deepest <= MaxDepth

(* An answer stays what the whole report made it.                          *)
AnswerOf(c) ==
    answer[c] = "reproduced" =>
        /\ replayer[c] = "answering"
        /\ read[c] = size[c] /\ size[c] <= Maximum
        /\ set[c] = 3
        /\ Reproducible(c)

VerdictOf(c) ==
    result[c] = "reproduced" =>
        /\ stage[c] = "done" /\ outcome[c] = "answer"
        /\ got[c] = AnswerSize
        /\ answer[c] = "reproduced"

Fitting(c) == stage[c] # "idle" => size[c] <= Maximum

ReplayIInv ==
    /\ ReplayTypeOK
    /\ \A c \in Callers :
          /\ ProcessOf(c) /\ Fitting(c)
          /\ LimitsOf(c) /\ InStep(guard[c], parser[c])
          /\ AnswerOf(c) /\ VerdictOf(c)

-----------------------------------------------------------------------------
(* The operators.                                                          *)

(* A byte keeps guard and parser in step.                                  *)
LEMMA ByteInStep ==
    ASSUME NEW g \in Guards, NEW p \in Parsers, NEW b \in Bytes, InStep(g, p), ~p.rejected
    PROVE  /\ Guarded(g, b) \in Guards
           /\ Parsed(p, b) \in Parsers
           /\ InStep(Guarded(g, b), Parsed(p, b))
<1> USE ReplayAssumption DEF Guards, Parsers
<1>1. Turn(b) \in Int /\ (b = "quote" \/ b = "backslash" => Turn(b) = 0)
    BY DEF Bytes, Turn
<1>2. Guarded(g, b) \in Guards
  <2>1. (IF g.quoted THEN g.depth ELSE g.depth + Turn(b)) \in Int
    BY <1>1
  <2>2. (IF b = "quote" /\ ~g.escaped THEN ~g.quoted ELSE g.quoted) \in BOOLEAN
    BY Zenon
  <2>3. Escapes(g, b) \in BOOLEAN
    BY Zenon DEF Escapes
  <2>4. \A x : (g.refused \/ x > MaxDepth) \in BOOLEAN
    BY Zenon
  <2> QED
    BY <2>1, <2>2, <2>3, <2>4, Zenon DEF Guarded
<1>3. Guarded(g, b).depth = (IF g.quoted THEN g.depth ELSE g.depth + Turn(b))
    BY DEF Guarded
<1>4. Guarded(g, b).quoted <=> (IF b = "quote" /\ ~g.escaped THEN ~g.quoted ELSE g.quoted)
    BY DEF Guarded
<1>5. Guarded(g, b).escaped <=> (g.quoted /\ ~g.escaped /\ b = "backslash")
    BY DEF Guarded, Escapes
<1>6. Guarded(g, b).refused <=> g.refused \/ Guarded(g, b).depth > MaxDepth
    BY DEF Guarded
<1>7. CASE p.string
  <2>1. Parsed(p, b) = InString(p, b) /\ InString(p, b) \in Parsers
    BY <1>7 DEF Parsed, InString
  <2>2. /\ InString(p, b).nesting = p.nesting /\ InString(p, b).deepest = p.deepest
        /\ InString(p, b).string <=> (b # "quote" \/ p.skip)
        /\ InString(p, b).skip <=> (b = "backslash" /\ ~p.skip)
    BY DEF InString
  <2> QED
    BY <1>1, <1>2, <1>3, <1>4, <1>5, <1>6, <1>7, <2>1, <2>2 DEF InStep
<1>8. CASE ~p.string
  <2>1. Parsed(p, b) = OutOfString(p, b) /\ OutOfString(p, b) \in Parsers
    BY <1>1, <1>8 DEF Parsed, OutOfString
  <2>2. LET nesting == p.nesting + Turn(b) IN
        /\ OutOfString(p, b).nesting = nesting
        /\ OutOfString(p, b).deepest = (IF nesting > p.deepest THEN nesting ELSE p.deepest)
        /\ OutOfString(p, b).string <=> (b = "quote")
        /\ ~OutOfString(p, b).skip
        /\ OutOfString(p, b).rejected <=> (b = "backslash" \/ nesting < 0)
    BY DEF OutOfString
  <2> QED
    BY <1>1, <1>2, <1>3, <1>4, <1>5, <1>6, <1>8, <2>1, <2>2 DEF InStep
<1> QED
    BY <1>7, <1>8

(* A text the guard has refused, or the parser given up, stays so.         *)
LEMMA ByteAfterwards ==
    ASSUME NEW g \in Guards, NEW p \in Parsers, NEW b \in Bytes, InStep(g, p),
           NEW q \in Parsers, q.rejected, q.deepest = p.deepest
    PROVE  Guarded(g, b) \in Guards /\ InStep(Guarded(g, b), q)
BY ReplayAssumption DEF Guards, Parsers, InStep, Guarded, Escapes, Bytes, Turn

(* The limit that is set is no looser than the one asked for and those     *)
(* inherited, infinite ones included.                                      *)
LEMMA LeastLimit ==
    ASSUME NEW asked \in Nat, NEW found \in LimitPairs
    PROVE  /\ Value(asked, found) \in Nat
           /\ NoLooser(Value(asked, found), asked)
           /\ NoLooser(Value(asked, found), found.soft)
           /\ NoLooser(Value(asked, found), found.hard)
<1> DEFINE candidates == {asked} \cup {n \in {found.soft, found.hard} : Finite(n)}
           IsLeast(n) == n \in candidates /\ \A m \in candidates : n <= m
<1>1. candidates \subseteq Nat
    BY DEF LimitPairs, Bounds, Finite, Infinity
<1>2. \E n \in candidates : \A m \in candidates : n <= m
  <2>1. candidates \subseteq {asked, found.soft, found.hard}
    OBVIOUS
  <2>2. asked \in candidates
    OBVIOUS
  <2> QED
    BY <1>1, <2>1, <2>2
<1>3. /\ Value(asked, found) \in candidates
      /\ \A m \in candidates : Value(asked, found) <= m
    BY <1>2 DEF Value
<1>4. /\ asked \in candidates
      /\ found.soft # Infinity => found.soft \in candidates
      /\ found.hard # Infinity => found.hard \in candidates
    BY DEF Finite
<1> QED
    BY <1>1, <1>3, <1>4 DEF NoLooser, Infinity

-----------------------------------------------------------------------------
(* The exchange moves, or its command does: the calls see none of it.      *)
Moves(c) ==
    /\ \/ ReadChunk(c) \/ ReadNothing(c) \/ TimeOut(c) \/ CommandEnded(c) \/ Kill(c)
       \/ LaunchFails(c) \/ SystemError(c) \/ DeadlinePasses(c)
       \/ Write(c) \/ \E badly \in BOOLEAN : CommandExits(c, badly)
    /\ UNCHANGED <<replaying, replayJob>>

LEMMA ChunkEffect ==
    ASSUME ReplayTypeOK, NEW c \in Callers, ReadChunk(c)
    PROVE  /\ stage[c] = "reading"
           /\ \E n \in Int : got' = [got EXCEPT ![c] = n]
           /\ \/ /\ stage' = [stage EXCEPT ![c] = "killing"]
                 /\ outcome' = [outcome EXCEPT ![c] = "failure"]
              \/ stage' = stage /\ outcome' = outcome
           /\ UNCHANGED <<limit, running, written, failed>>
<1>1. Chunk(c) \in Int
    BY ExchangeAssumption DEF Chunk, Least, Room, ReplayTypeOK
<1>2. got[c] + Chunk(c) \in Int
    BY <1>1 DEF ReplayTypeOK
<1>3. got' = [got EXCEPT ![c] = got[c] + Chunk(c)]
    BY Zenon DEF ReadChunk
<1>4. \E n \in Int : got' = [got EXCEPT ![c] = n]
    BY <1>2, <1>3
<1> QED
    BY <1>4 DEF ReadChunk, ReadOn, End, MoveTo, command

LEMMA MovesKeepTypes ==
    ASSUME ReplayTypeOK, NEW c \in Callers, Moves(c)
    PROVE  ReplayTypeOK'
<1>1. UNCHANGED <<size, result, replayer, inherited, limits, set, guard, parser, read, answer>>
    BY DEF Moves, replaying, replayJob
<1> USE DEF ReplayTypeOK, command, ExchangeStages, Exchanging
<1>2. CASE ReadChunk(c)
    BY <1>1, <1>2, ChunkEffect
<1>3. CASE ReadNothing(c) \/ TimeOut(c) \/ CommandEnded(c) \/ LaunchFails(c) \/ SystemError(c)
    BY <1>1, <1>3 DEF ReadNothing, TimeOut, CommandEnded, LaunchFails, SystemError, GiveUp, End, MoveTo
<1>4. CASE Kill(c)
  <2>1. PICK ended \in BOOLEAN : failed' = [failed EXCEPT ![c] = ended]
    BY <1>4, (failed[c] \/ running[c]) \in BOOLEAN, Zenon DEF Kill
  <2>2. failed' \in [Callers -> BOOLEAN]
    BY <2>1
  <2>3. /\ stage' = [stage EXCEPT ![c] = "done"]
        /\ running' = [running EXCEPT ![c] = FALSE]
        /\ UNCHANGED <<limit, got, outcome, written>>
    BY <1>4, Zenon DEF Kill, MoveTo
  <2> QED
    BY <1>1, <2>2, <2>3
<1>5. CASE DeadlinePasses(c) \/ Write(c)
    BY <1>1, <1>5 DEF DeadlinePasses, Write
<1>6. CASE \E badly \in BOOLEAN : CommandExits(c, badly)
    BY <1>1, <1>6 DEF CommandExits
<1> QED
    BY <1>2, <1>3, <1>4, <1>5, <1>6 DEF Moves

LEMMA MovesKeepInv ==
    ASSUME ReplayIInv, NEW c \in Callers, Moves(c)
    PROVE  ReplayIInv'
<1>1. ReplayTypeOK' /\ ReplayTypeOK
    BY MovesKeepTypes DEF ReplayIInv
<1>2. UNCHANGED <<size, result, replayer, inherited, limits, set, guard, parser, read, answer>>
    BY DEF Moves, replaying, replayJob
<1> SUFFICES ASSUME NEW d \in Callers
             PROVE  /\ ProcessOf(d)' /\ Fitting(d)'
                    /\ LimitsOf(d)' /\ InStep(guard[d], parser[d])'
                    /\ AnswerOf(d)' /\ VerdictOf(d)'
    BY <1>1 DEF ReplayIInv
<1>3. /\ ProcessOf(d) /\ Fitting(d)
      /\ LimitsOf(d) /\ InStep(guard[d], parser[d])
      /\ AnswerOf(d) /\ VerdictOf(d)
    BY DEF ReplayIInv
<1>4. LimitsOf(d)' /\ InStep(guard[d], parser[d])' /\ AnswerOf(d)'
    BY <1>2, <1>3 DEF LimitsOf, Tight, InStep, AnswerOf, Reproducible
<1>5. ProcessOf(d)' /\ Fitting(d)' /\ VerdictOf(d)'
  <2> USE <1>1, <1>2, <1>3 DEF ReplayTypeOK, ProcessOf, Fitting, VerdictOf, command
  <2>1. CASE ReadChunk(c)
    <3>1. stage[c] = "reading" /\ UNCHANGED running /\ UNCHANGED failed
      BY <2>1, ChunkEffect
    <3>2. PICK n \in Int : got' = [got EXCEPT ![c] = n]
      BY <2>1, ChunkEffect
    <3>3. CASE stage' = stage /\ outcome' = outcome
      BY <3>1, <3>2, <3>3
    <3>4. CASE /\ stage' = [stage EXCEPT ![c] = "killing"]
               /\ outcome' = [outcome EXCEPT ![c] = "failure"]
      BY <3>1, <3>2, <3>4, ExchangeAssumption
    <3> QED
      BY <2>1, <3>3, <3>4, ChunkEffect
  <2>2. CASE ReadNothing(c) \/ TimeOut(c) \/ SystemError(c)
    BY <2>2, ExchangeAssumption DEF ReadNothing, ReadOn, TimeOut, Late, SystemError, GiveUp, End, MoveTo
  <2>3. CASE CommandEnded(c)
    BY <2>3, ExchangeAssumption DEF CommandEnded, End, MoveTo
  <2>4. CASE LaunchFails(c)
    BY <2>4, ExchangeAssumption DEF LaunchFails, End, MoveTo
  <2>5. CASE Kill(c)
    <3>1. /\ stage[c] = "killing"
          /\ stage' = [stage EXCEPT ![c] = "done"]
          /\ running' = [running EXCEPT ![c] = FALSE]
          /\ UNCHANGED <<got, outcome>>
      BY <2>5, Zenon DEF Kill, MoveTo
    <3>2. PICK ended \in BOOLEAN : failed' = [failed EXCEPT ![c] = ended]
                                  /\ ended = (failed[c] \/ running[c])
      BY <2>5, (failed[c] \/ running[c]) \in BOOLEAN, Zenon DEF Kill
    <3>3. outcome[d] = "answer" => ~failed'[d]
      <4>1. CASE d = c
        BY <3>2, <4>1
      <4>2. CASE d # c
        BY <3>2, <4>2
      <4> QED
        BY <4>1, <4>2
    <3> QED
      BY <3>1, <3>3
  <2>6. CASE DeadlinePasses(c) \/ Write(c)
    BY <2>6 DEF DeadlinePasses, Write
  <2>7. CASE \E badly \in BOOLEAN : CommandExits(c, badly)
    BY <2>7 DEF CommandExits
  <2> QED
    BY <2>1, <2>2, <2>3, <2>4, <2>5, <2>6, <2>7 DEF Moves
<1> QED
    BY <1>4, <1>5

-----------------------------------------------------------------------------
(* The call, and its return.                                               *)
LEMMA CallsKeepInv ==
    ASSUME ReplayIInv, NEW c \in Callers,
           \/ \E n \in 0 .. Longest : Replay(c, n)
           \/ Unsupported(c) \/ StartWorker(c) \/ ReadResponse(c)
    PROVE  ReplayIInv'
<1> USE ReplayAssumption, ExchangeAssumption
        DEF ReplayIInv, ReplayTypeOK, command, exchange, replayJob, replaying, ExchangeStages, Exchanging
<1>1. ASSUME NEW n \in 0 .. Longest, Replay(c, n) PROVE ReplayIInv'
  <2> DEFINE m == 128
  <2>1. CASE Fits(n)
    <3>1. /\ size' = [size EXCEPT ![c] = n] /\ limit' = [limit EXCEPT ![c] = m]
          /\ stage' = [stage EXCEPT ![c] = "starting"]
          /\ UNCHANGED <<got, written, outcome, running, failed, result, replayJob>>
          /\ stage[c] = "idle" /\ n <= Maximum /\ n \in Nat
      BY <1>1, <2>1 DEF Replay, Start, MoveTo, Fits
    <3>2. ReplayTypeOK'
      BY <3>1
    <3> SUFFICES ASSUME NEW d \in Callers
                 PROVE  /\ ProcessOf(d)' /\ Fitting(d)' /\ LimitsOf(d)' /\ InStep(guard[d], parser[d])'
                        /\ AnswerOf(d)' /\ VerdictOf(d)'
      BY <3>2
    <3>3. /\ LimitsOf(d)' /\ InStep(guard[d], parser[d])'
      BY <3>1 DEF LimitsOf, Tight, InStep
    <3>4. AnswerOf(d)'
      BY <3>1 DEF AnswerOf, ProcessOf, Reproducible
    <3> QED
      BY <3>1, <3>3, <3>4 DEF ProcessOf, Fitting, VerdictOf
  <2>2. CASE ~Fits(n)
    <3>1. /\ size' = [size EXCEPT ![c] = n] /\ result' = [result EXCEPT ![c] = "input_limit"]
          /\ UNCHANGED <<exchange, replayJob>> /\ n \in Nat /\ stage[c] = "idle"
      BY <1>1, <2>2 DEF Replay, Give
    <3>2. ReplayTypeOK'
      BY <3>1
    <3> SUFFICES ASSUME NEW d \in Callers
                 PROVE  /\ ProcessOf(d)' /\ Fitting(d)' /\ LimitsOf(d)' /\ InStep(guard[d], parser[d])'
                        /\ AnswerOf(d)' /\ VerdictOf(d)'
      BY <3>2
    <3>3. /\ LimitsOf(d)' /\ InStep(guard[d], parser[d])'
      BY <3>1 DEF LimitsOf, Tight, InStep
    <3>4. AnswerOf(d)'
      BY <3>1 DEF AnswerOf, ProcessOf, Reproducible
    <3> QED
      BY <3>1, <3>3, <3>4 DEF ProcessOf, Fitting, VerdictOf
  <2> QED
    BY <2>1, <2>2
<1>2. CASE Unsupported(c)
  <2>1. /\ result' = [result EXCEPT ![c] = "unsupported_platform"]
        /\ UNCHANGED <<exchange, size, replayJob>>
    BY <1>2 DEF Unsupported, Give
  <2>2. ReplayTypeOK'
    BY <2>1
  <2> QED
    BY <2>1, <2>2 DEF ProcessOf, Fitting, LimitsOf, Tight, InStep, AnswerOf, VerdictOf, Reproducible
<1>3. CASE StartWorker(c)
  <2>1. /\ stage[c] = "starting" /\ stage' = [stage EXCEPT ![c] = "reading"]
        /\ running' = [running EXCEPT ![c] = TRUE]
        /\ replayer' = [replayer EXCEPT ![c] = "limiting"]
        /\ UNCHANGED <<limit, got, outcome, written, failed, size, result,
                       inherited, limits, set, guard, parser, read, answer>>
    BY <1>3 DEF StartWorker, Launch, MoveTo, Replayer
  <2>2. ReplayTypeOK'
    BY <2>1 DEF ReplayerStages
  <2> SUFFICES ASSUME NEW d \in Callers
               PROVE  /\ ProcessOf(d)' /\ Fitting(d)' /\ LimitsOf(d)' /\ InStep(guard[d], parser[d])'
                      /\ AnswerOf(d)' /\ VerdictOf(d)'
    BY <2>2
  <2>3. LimitsOf(d)' /\ InStep(guard[d], parser[d])'
    BY <2>1 DEF LimitsOf, Tight, InStep
  <2>4. AnswerOf(d)'
    BY <2>1 DEF AnswerOf, ProcessOf, Reproducible
  <2>5. ProcessOf(d)' /\ Fitting(d)' /\ VerdictOf(d)'
    BY <2>1 DEF ProcessOf, Fitting, VerdictOf
  <2> QED
    BY <2>3, <2>4, <2>5
<1>4. CASE ReadResponse(c)
  <2>1. PICK v : /\ result' = [result EXCEPT ![c] = v] /\ v = Meaning(c)
    BY <1>4, Zenon DEF ReadResponse, Give
  <2>2. stage[c] = "done" /\ UNCHANGED <<exchange, size, replayJob>>
    BY <1>4 DEF ReadResponse
  <2>3. v \in {None, "worker_failed", "worker_protocol"} \cup Answers
    BY <2>1 DEF Meaning
  <2>4. ReplayTypeOK'
    BY <2>1, <2>2, <2>3
  <2>5. v = "reproduced" => outcome[c] = "answer" /\ got[c] = AnswerSize /\ answer[c] = "reproduced"
    BY <2>1, <2>2 DEF Meaning, ProcessOf
  <2> QED
    BY <2>1, <2>2, <2>4, <2>5 DEF ProcessOf, Fitting, LimitsOf, Tight, InStep, AnswerOf, VerdictOf, Reproducible
<1> QED
    BY <1>1, <1>2, <1>3, <1>4

LEMMA ReturnKeepsInv ==
    ASSUME ReplayIInv, NEW c \in Callers, Return(c)
    PROVE  ReplayIInv'
<1> USE ReplayAssumption, ExchangeAssumption
        DEF ReplayIInv, ReplayTypeOK, command, exchange, replayJob, replaying, ExchangeStages, Exchanging
<1>1. /\ result' = [result EXCEPT ![c] = None] /\ size' = [size EXCEPT ![c] = 0]
      /\ replayer' = [replayer EXCEPT ![c] = "none"] /\ set' = [set EXCEPT ![c] = 0]
      /\ guard' = [guard EXCEPT ![c] = Unread] /\ parser' = [parser EXCEPT ![c] = Beginning]
      /\ read' = [read EXCEPT ![c] = 0] /\ answer' = [answer EXCEPT ![c] = None]
    BY DEF Return, Give, Replayer
<1>2. PICK e \in Environments : /\ inherited' = [inherited EXCEPT ![c] = e]
                                /\ limits' = [limits EXCEPT ![c] = e]
    BY DEF Return
<1>3. \/ /\ stage[c] = "done" /\ stage' = [stage EXCEPT ![c] = "idle"]
         /\ limit' = [limit EXCEPT ![c] = 0] /\ got' = [got EXCEPT ![c] = 0]
         /\ outcome' = [outcome EXCEPT ![c] = None] /\ written' = [written EXCEPT ![c] = 0]
         /\ failed' = [failed EXCEPT ![c] = FALSE] /\ running' = running
      \/ stage[c] # "done" /\ UNCHANGED exchange
    BY DEF Return, Forget, MoveTo
<1>4. ReplayTypeOK'
  <2>1. Unread \in Guards /\ Beginning \in Parsers /\ e \in [Kinds -> LimitPairs]
    BY DEF Unread, Beginning, Guards, Parsers
  <2>2. /\ size' \in [Callers -> Nat] /\ result' \in [Callers -> {None, "input_limit",
              "unsupported_platform", "worker_failed", "worker_protocol"} \cup Answers]
        /\ replayer' \in [Callers -> ReplayerStages] /\ set' \in [Callers -> 0 .. 3]
        /\ guard' \in [Callers -> Guards] /\ parser' \in [Callers -> Parsers]
        /\ read' \in [Callers -> Nat] /\ answer' \in [Callers -> Answers \cup {None}]
    BY <1>1, <2>1 DEF ReplayerStages
  <2>3. /\ inherited' \in [Callers -> Environments] /\ limits' \in [Callers -> [Kinds -> LimitPairs]]
    BY <1>2, <2>1
  <2>4. /\ stage' \in [Callers -> ExchangeStages] /\ limit' \in [Callers -> Int]
        /\ got' \in [Callers -> Int] /\ written' \in [Callers -> Int]
        /\ outcome' \in [Callers -> {None, "answer", "failure"}]
        /\ running' \in [Callers -> BOOLEAN] /\ failed' \in [Callers -> BOOLEAN]
    <3>1. CASE UNCHANGED exchange
      BY <3>1
    <3>2. CASE /\ stage' = [stage EXCEPT ![c] = "idle"]
               /\ limit' = [limit EXCEPT ![c] = 0] /\ got' = [got EXCEPT ![c] = 0]
               /\ outcome' = [outcome EXCEPT ![c] = None] /\ written' = [written EXCEPT ![c] = 0]
               /\ failed' = [failed EXCEPT ![c] = FALSE] /\ running' = running
      BY <3>2
    <3> QED
      BY <1>3, <3>1, <3>2
  <2> QED
    BY <2>2, <2>3, <2>4
<1> SUFFICES ASSUME NEW d \in Callers
             PROVE  /\ ProcessOf(d)' /\ Fitting(d)' /\ LimitsOf(d)' /\ InStep(guard[d], parser[d])'
                    /\ AnswerOf(d)' /\ VerdictOf(d)'
    BY <1>4
<1>5. CASE d = c
  <2>1. LimitsOf(d)'
    BY <1>1, <1>2, <1>5 DEF LimitsOf
  <2>2. InStep(guard[d], parser[d])'
    BY <1>1, <1>5 DEF InStep, Unread, Beginning
  <2>3. AnswerOf(d)' /\ VerdictOf(d)'
    BY <1>1, <1>5 DEF AnswerOf, VerdictOf
  <2>4. ProcessOf(d)' /\ Fitting(d)'
    BY <1>1, <1>3, <1>5 DEF ProcessOf, Fitting
  <2> QED
    BY <2>1, <2>2, <2>3, <2>4
<1>6. CASE d # c
  <2>1. LimitsOf(d)'
    BY <1>1, <1>2, <1>6 DEF LimitsOf, Tight
  <2>2. InStep(guard[d], parser[d])'
    BY <1>1, <1>6 DEF InStep
  <2>3. AnswerOf(d)'
    BY <1>1, <1>6 DEF AnswerOf, Reproducible
  <2>4. ProcessOf(d)' /\ Fitting(d)' /\ VerdictOf(d)'
    BY <1>1, <1>3, <1>6 DEF ProcessOf, Fitting, VerdictOf
  <2> QED
    BY <2>1, <2>2, <2>3, <2>4
<1> QED
    BY <1>5, <1>6

-----------------------------------------------------------------------------
(* The worker.                                                             *)
LEMMA LimitKeepsInv ==
    ASSUME ReplayIInv, NEW c \in Callers, NEW obeyed \in BOOLEAN, Limit(c, obeyed)
    PROVE  ReplayIInv'
<1> USE ReplayAssumption DEF ReplayIInv, ReplayTypeOK, exchange, command, replaying
<1>0. PICK kind : kind = Order[set[c] + 1]
    OBVIOUS
<1> DEFINE value == Value(Asked[kind], limits[c][kind])
<1>1. /\ replayer[c] = "limiting" /\ set[c] \in 0 .. 2
      /\ UNCHANGED <<exchange, replaying, inherited, guard, parser, read>>
    BY DEF Limit, AtWork, Order
<1>2. CASE answer' = [answer EXCEPT ![c] = "limits_unavailable"] /\
           replayer' = [replayer EXCEPT ![c] = "answering"] /\ UNCHANGED <<limits, set>>
  <2>1. ReplayTypeOK'
    BY <1>1, <1>2 DEF ReplayerStages, Answers
  <2> SUFFICES ASSUME NEW d \in Callers
               PROVE  /\ ProcessOf(d)' /\ Fitting(d)' /\ LimitsOf(d)' /\ InStep(guard[d], parser[d])'
                      /\ AnswerOf(d)' /\ VerdictOf(d)'
    BY <2>1
  <2>2. replayer[d] # "answering" => answer[d] # "reproduced"
    BY DEF AnswerOf
  <2>3. ProcessOf(d)' /\ Fitting(d)'
    BY <1>1, <1>2 DEF ProcessOf, Fitting, Limit, AtWork
  <2>4. LimitsOf(d)' /\ InStep(guard[d], parser[d])'
    BY <1>1, <1>2 DEF LimitsOf, Tight, InStep
  <2>5. AnswerOf(d)' /\ VerdictOf(d)'
    BY <1>1, <1>2, <2>2 DEF AnswerOf, VerdictOf, Reproducible
  <2> QED
    BY <2>3, <2>4, <2>5
<1>3. CASE /\ limits' = [limits EXCEPT ![c] = [@ EXCEPT ![kind] = [soft |-> value, hard |-> value]]]
           /\ set' = [set EXCEPT ![c] = @ + 1]
           /\ UNCHANGED <<replayer, answer>>
  <2>1. kind \in Kinds /\ (\A i \in 1 .. 3 : Order[i] = kind <=> i = set[c] + 1)
    BY <1>0, <1>1 DEF Order, Kinds
  <2>2. limits[c] \in [Kinds -> LimitPairs] /\ inherited[c] \in [Kinds -> LimitPairs]
    OBVIOUS
  <2>3. limits[c][kind] \in LimitPairs /\ Asked[kind] \in Nat
    BY <2>1, <2>2
  <2>4. /\ value \in Nat /\ NoLooser(value, Asked[kind])
        /\ NoLooser(value, limits[c][kind].soft) /\ NoLooser(value, limits[c][kind].hard)
    BY <2>3, LeastLimit
  <2>5. PICK pair : pair = [soft |-> value, hard |-> value]
    OBVIOUS
  <2>6. pair \in LimitPairs /\ pair.soft = value /\ pair.hard = value
    BY <2>4, <2>5 DEF LimitPairs, Bounds
  <2> HIDE DEF value
  <2>7. limits' = [limits EXCEPT ![c] = [limits[c] EXCEPT ![kind] = pair]]
    BY <1>3, <2>5
  <2>8. PICK found \in [Kinds -> LimitPairs] : /\ found = [limits[c] EXCEPT ![kind] = pair]
                                               /\ limits' = [limits EXCEPT ![c] = found]
    BY <2>1, <2>2, <2>6, <2>7
  <2>9. ReplayTypeOK'
    BY <1>1, <1>3, <2>8
  <2> SUFFICES ASSUME NEW d \in Callers
               PROVE  /\ ProcessOf(d)' /\ Fitting(d)' /\ LimitsOf(d)' /\ InStep(guard[d], parser[d])'
                      /\ AnswerOf(d)' /\ VerdictOf(d)'
    BY <2>9
  <2>10. replayer[d] # "answering" => answer[d] # "reproduced"
    BY DEF AnswerOf
  <2>11. ProcessOf(d)' /\ Fitting(d)' /\ VerdictOf(d)' /\ InStep(guard[d], parser[d])'
    BY <1>1, <1>3 DEF ProcessOf, Fitting, VerdictOf, InStep
  <2>12. CASE d = c
    <3>1. \A i \in 1 .. 3 : i = set[c] + 1 \/ limits'[c][Order[i]] = limits[c][Order[i]]
      BY <2>1, <2>2, <2>8 DEF Order, Kinds
    <3>2. limits'[c][kind] = pair
      BY <2>1, <2>2, <2>8
    <3>3. limits[c][kind] = inherited[c][kind]
      BY <1>1, <2>1 DEF LimitsOf
    <3>4. Tight(c, kind)'
      BY <1>1, <2>4, <2>6, <3>2, <3>3 DEF Tight
    <3>5. ASSUME NEW i \in 1 .. 3, i = set[c] + 1 PROVE Tight(c, Order[i])'
      BY <2>1, <3>4, <3>5
    <3>6. ASSUME NEW i \in 1 .. 3, i < set[c] + 1 PROVE Tight(c, Order[i])'
      <4>1. Tight(c, Order[i])
        BY <1>1, <3>6 DEF LimitsOf
      <4> QED
        BY <1>1, <1>3, <3>1, <3>6, <4>1 DEF Tight
    <3>7. ASSUME NEW i \in 1 .. 3, i > set[c] + 1
          PROVE limits'[c][Order[i]] = inherited'[c][Order[i]]
      BY <1>1, <3>1, <3>7 DEF LimitsOf
    <3>8. set'[c] = set[c] + 1
      BY <1>3
    <3>9. ~(replayer[c] = "reading" \/ read[c] > 0)
      BY <1>1 DEF LimitsOf
    <3>10. LimitsOf(c)'
      BY <1>1, <1>3, <3>5, <3>6, <3>7, <3>8, <3>9 DEF LimitsOf
    <3>11. AnswerOf(c)'
      BY <1>1, <1>3, <2>10, <2>12 DEF AnswerOf
    <3> QED
      BY <2>11, <2>12, <3>10, <3>11
  <2>13. CASE d # c
    <3>1. limits'[d] = limits[d] /\ set'[d] = set[d]
      BY <1>3, <2>8, <2>13
    <3> QED
      BY <1>1, <1>3, <2>11, <3>1 DEF LimitsOf, Tight, AnswerOf, Reproducible
  <2> QED
    BY <2>12, <2>13
<1> QED
    BY <1>0, <1>2, <1>3, Zenon DEF Limit, Answer, Replayer

LEMMA WorkKeepsInv ==
    ASSUME ReplayIInv, NEW c \in Callers,
           \/ Import(c) \/ OutOfMemory(c)
           \/ \E reproduced \in BOOLEAN : Judge(c, reproduced)
    PROVE  ReplayIInv'
<1> USE DEF ReplayIInv, ReplayTypeOK, exchange, command, replaying
<1>1. UNCHANGED <<exchange, replaying, inherited, limits, set, guard, parser, read>>
    BY DEF Import, OutOfMemory, Judge
<1>2. \/ /\ replayer[c] = "limiting" /\ set[c] = 3 /\ replayer' = [replayer EXCEPT ![c] = "reading"]
         /\ answer' = answer
      \/ /\ replayer[c] = "reading" /\ replayer' = [replayer EXCEPT ![c] = "answering"]
         /\ \E text \in Answers :
               /\ answer' = [answer EXCEPT ![c] = text]
               /\ text = "reproduced" => /\ read[c] = size[c] \/ read[c] > Maximum
                                         /\ Reproducible(c)
    BY DEF Import, OutOfMemory, Judge, AtWork, Replayer, Answer, Answers, Limited, Order
<1>3. running[c]
    BY DEF Import, OutOfMemory, Judge, AtWork
<1>4. ReplayTypeOK'
  <2>1. replayer' \in [Callers -> ReplayerStages]
    BY <1>2 DEF ReplayerStages
  <2>2. answer' \in [Callers -> Answers \cup {None}]
    BY <1>2
  <2> QED
    BY <1>1, <2>1, <2>2
<1> SUFFICES ASSUME NEW d \in Callers
             PROVE  /\ ProcessOf(d)' /\ Fitting(d)' /\ LimitsOf(d)' /\ InStep(guard[d], parser[d])'
                    /\ AnswerOf(d)' /\ VerdictOf(d)'
    BY <1>4
<1>5. replayer[d] # "answering" => answer[d] # "reproduced"
    BY DEF AnswerOf
<1>6. ProcessOf(d)' /\ Fitting(d)'
    BY <1>1, <1>2, <1>3 DEF ProcessOf, Fitting
<1>7. LimitsOf(d)' /\ InStep(guard[d], parser[d])'
    BY <1>1, <1>2 DEF LimitsOf, Tight, InStep
<1>8. AnswerOf(d)' /\ VerdictOf(d)'
  <2>1. CASE d = c
    <3>1. size[c] <= Maximum /\ stage[c] # "done"
      BY <1>3, ReplayAssumption DEF ProcessOf, Fitting
    <3>2. set[c] = 3
      BY <1>2 DEF LimitsOf
    <3>3. Reproducible(c) => read[c] <= Maximum
      BY DEF Reproducible
    <3>4. Reproducible(c)' <=> Reproducible(c)
      BY <1>1 DEF Reproducible
    <3>5. read[c] \in Nat /\ Maximum \in Nat
      BY ReplayAssumption
    <3>6. AnswerOf(c)'
      BY <1>1, <1>2, <1>5, <2>1, <3>1, <3>2, <3>3, <3>4, <3>5 DEF AnswerOf
    <3> QED
      BY <1>1, <2>1, <3>1, <3>6 DEF VerdictOf
  <2>2. CASE d # c
    BY <1>1, <1>2, <2>2 DEF AnswerOf, VerdictOf, Reproducible
  <2> QED
    BY <2>1, <2>2
<1> QED
    BY <1>6, <1>7, <1>8

LEMMA ReadKeepsInv ==
    ASSUME ReplayIInv, NEW c \in Callers, NEW b \in Bytes, NEW malformed \in BOOLEAN,
           ReadByte(c, b, malformed)
    PROVE  ReplayIInv'
<1> USE DEF ReplayIInv, ReplayTypeOK, exchange, command, replaying
<1>1. /\ replayer[c] = "reading" /\ running[c]
      /\ read' = [read EXCEPT ![c] = @ + 1]
      /\ guard' = [guard EXCEPT ![c] = Guarded(guard[c], b)]
      /\ UNCHANGED <<exchange, replaying, replayer, inherited, limits, set, answer>>
    BY DEF ReadByte, AtWork
<1>2. InStep(guard[c], parser[c]) /\ guard[c] \in Guards /\ parser[c] \in Parsers
    OBVIOUS
<1>3. PICK q : /\ parser' = [parser EXCEPT ![c] = q]
               /\ q = IF parser[c].rejected THEN parser[c]
                      ELSE IF malformed THEN [parser[c] EXCEPT !.rejected = TRUE]
                      ELSE Parsed(parser[c], b)
    BY Zenon DEF ReadByte
<1>4. PICK g : g = Guarded(guard[c], b) /\ guard' = [guard EXCEPT ![c] = g]
    BY <1>1
<1>5. g \in Guards /\ q \in Parsers /\ InStep(g, q)
  <2>1. CASE parser[c].rejected
    BY <1>2, <1>3, <1>4, <2>1, ByteAfterwards
  <2>2. CASE ~parser[c].rejected /\ malformed
    <3>1. q \in Parsers /\ q.rejected /\ q.deepest = parser[c].deepest
      BY <1>2, <1>3, <2>2 DEF Parsers
    <3> QED
      BY <1>2, <1>4, <3>1, ByteAfterwards
  <2>3. CASE ~parser[c].rejected /\ ~malformed
    BY <1>2, <1>3, <1>4, <2>3, ByteInStep
  <2> QED
    BY <2>1, <2>2, <2>3
<1>6. ReplayTypeOK'
  <2>1. guard' \in [Callers -> Guards] /\ parser' \in [Callers -> Parsers]
    BY <1>3, <1>4, <1>5
  <2>2. read' \in [Callers -> Nat]
    BY <1>1
  <2> QED
    BY <1>1, <2>1, <2>2
<1> SUFFICES ASSUME NEW d \in Callers
             PROVE  /\ ProcessOf(d)' /\ Fitting(d)' /\ LimitsOf(d)' /\ InStep(guard[d], parser[d])'
                    /\ AnswerOf(d)' /\ VerdictOf(d)'
    BY <1>6
<1>7. ProcessOf(d)' /\ Fitting(d)' /\ VerdictOf(d)'
    BY <1>1 DEF ProcessOf, Fitting, VerdictOf
<1>8. LimitsOf(d)'
    BY <1>1 DEF LimitsOf, Tight
<1>9. InStep(guard'[d], parser'[d])
  <2>1. CASE d = c
    BY <1>3, <1>4, <1>5, <2>1
  <2>2. CASE d # c
    <3>1. guard'[d] = guard[d] /\ parser'[d] = parser[d]
      BY <1>3, <1>4, <2>2
    <3> QED
      BY <3>1
  <2> QED
    BY <2>1, <2>2
<1>10. AnswerOf(d)'
  <2>1. CASE d = c
    BY <1>1, <2>1 DEF AnswerOf
  <2>2. CASE d # c
    BY <1>1, <1>3, <1>4, <2>2 DEF AnswerOf, Reproducible
  <2> QED
    BY <2>1, <2>2
<1> QED
    BY <1>7, <1>8, <1>9, <1>10

-----------------------------------------------------------------------------
(* The specification.                                                      *)
LEMMA Initially == ReplayInit => ReplayIInv
<1> SUFFICES ASSUME ReplayInit PROVE ReplayIInv
    OBVIOUS
<1> USE ReplayAssumption, ExchangeAssumption DEF ReplayInit, ExchangeInit
<1>1. Unread \in Guards /\ Beginning \in Parsers
    BY DEF Unread, Beginning, Guards, Parsers
<1>2. limits \in [Callers -> [Kinds -> LimitPairs]]
    OBVIOUS
<1>3. ReplayTypeOK
    BY <1>1, <1>2 DEF ReplayTypeOK, ExchangeStages, ReplayerStages
<1> SUFFICES ASSUME NEW c \in Callers
             PROVE  /\ ProcessOf(c) /\ Fitting(c) /\ LimitsOf(c) /\ InStep(guard[c], parser[c])
                    /\ AnswerOf(c) /\ VerdictOf(c)
    BY <1>3 DEF ReplayIInv
<1>4. InStep(guard[c], parser[c])
  <2>1. guard[c] = Unread /\ parser[c] = Beginning
    OBVIOUS
  <2>2. /\ Unread.quoted = FALSE /\ Unread.escaped = FALSE /\ Unread.depth = 0
        /\ Beginning.string = FALSE /\ Beginning.skip = FALSE /\ Beginning.nesting = 0 /\ Beginning.deepest = 0
    BY DEF Unread, Beginning
  <2>3. 0 <= MaxDepth
    OBVIOUS
  <2> HIDE ReplayAssumption, ExchangeAssumption DEF ReplayInit, ExchangeInit
  <2>4. InStep(Unread, Beginning)
    BY <2>2, <2>3 DEF InStep
  <2> QED
    BY <2>1, <2>4, Zenon
<1> QED
    BY <1>4 DEF ProcessOf, Fitting, LimitsOf, AnswerOf, VerdictOf

LEMMA Stuttering ==
    ASSUME ReplayIInv, UNCHANGED replayVars
    PROVE  ReplayIInv'
BY DEF ReplayIInv, ReplayTypeOK, replayVars, exchange, command, replaying, replayJob,
       ProcessOf, Fitting, LimitsOf, Tight, InStep, AnswerOf, VerdictOf, Reproducible

(* The inductive invariant: what runs when, how far the limits are, that   *)
(* guard and parser are in step, and what answer and verdict stand for.    *)
THEOREM ReplayInvariance == ReplaySpec => []ReplayIInv
<1>1. ASSUME ReplayIInv, ReplayNext PROVE ReplayIInv'
  <2>1. PICK c \in Callers :
        \/ \E n \in 0 .. Longest : Replay(c, n)
        \/ Unsupported(c) \/ StartWorker(c) \/ Transport(c) \/ ReadResponse(c) \/ Return(c)
        \/ \E obeyed \in BOOLEAN : Limit(c, obeyed)
        \/ Import(c)
        \/ \E b \in Bytes, malformed \in BOOLEAN : ReadByte(c, b, malformed)
        \/ \E reproduced \in BOOLEAN : Judge(c, reproduced)
        \/ OutOfMemory(c) \/ Speak(c) \/ Finish(c) \/ Die(c)
    BY <1>1, Zenon DEF ReplayNext
  <2>2. CASE Transport(c) \/ Speak(c) \/ Finish(c) \/ Die(c)
    <3>1. Moves(c)
      BY <2>2, Zenon DEF Transport, Speak, Finish, Die, Moves, ExchangeFails
    <3> QED
      BY <1>1, <3>1, MovesKeepInv
  <2>3. CASE (\E n \in 0 .. Longest : Replay(c, n)) \/ Unsupported(c) \/ StartWorker(c) \/ ReadResponse(c)
    BY <1>1, <2>3, CallsKeepInv, Zenon
  <2>4. CASE Return(c)
    BY <1>1, <2>4, ReturnKeepsInv
  <2>5. CASE \E obeyed \in BOOLEAN : Limit(c, obeyed)
    BY <1>1, <2>5, LimitKeepsInv, Zenon
  <2>6. CASE Import(c) \/ OutOfMemory(c) \/ \E reproduced \in BOOLEAN : Judge(c, reproduced)
    BY <1>1, <2>6, WorkKeepsInv, Zenon
  <2>7. CASE \E b \in Bytes, malformed \in BOOLEAN : ReadByte(c, b, malformed)
    BY <1>1, <2>7, ReadKeepsInv, Zenon
  <2> QED
    BY <2>1, <2>2, <2>3, <2>4, <2>5, <2>6, <2>7
<1> QED
    BY <1>1, Initially, Stuttering, PTL DEF ReplaySpec

(* Not a byte of a report is read before every limit is in force, no       *)
(* looser than asked for and no looser than inherited, for any limits.     *)
THEOREM ReadersConfined == ReplaySpec => []ReadersAreConfined
<1>1. ASSUME ReplayIInv PROVE ReadersAreConfined
  <2> SUFFICES ASSUME NEW c \in Callers, read[c] > 0 \/ replayer[c] = "reading"
               PROVE  Confined(c)
    BY DEF ReadersAreConfined
  <2>1. \A i \in 1 .. 3 : Tight(c, Order[i])
    BY <1>1 DEF ReplayIInv, LimitsOf
  <2>2. \A k \in Kinds : \E i \in 1 .. 3 : k = Order[i]
    BY DEF Kinds, Order
  <2> QED
    BY <2>1, <2>2 DEF Confined, Tight
<1> QED
    BY <1>1, ReplayInvariance, PTL

(* The parser is never taken deeper than the limit by a text the guard     *)
(* lets pass, and a reproduced decision is a confined worker's whole and   *)
(* successful answer about the whole report, for any report and limits.    *)
THEOREM SuccessEarned == ReplaySpec => []SuccessIsEarned
<1>1. ASSUME ReplayIInv PROVE SuccessIsEarned
  <2> SUFFICES ASSUME NEW c \in Callers
               PROVE  /\ NestingIsBounded(c)
                      /\ result[c] = "reproduced" =>
                            /\ Confined(c)
                            /\ read[c] = size[c] /\ size[c] <= Maximum
                            /\ Reproducible(c)
                            /\ got[c] = AnswerSize /\ ~failed[c]
    BY DEF SuccessIsEarned
  <2>1. NestingIsBounded(c)
    BY <1>1 DEF ReplayIInv, InStep, NestingIsBounded
  <2>2. set[c] = 3 => Confined(c)
    <3>1. set[c] = 3 => \A i \in 1 .. 3 : Tight(c, Order[i])
      BY <1>1 DEF ReplayIInv, LimitsOf
    <3>2. \A k \in Kinds : \E i \in 1 .. 3 : k = Order[i]
      BY DEF Kinds, Order
    <3> QED
      BY <3>1, <3>2 DEF Confined, Tight
  <2> QED
    BY <1>1, <2>1, <2>2 DEF ReplayIInv, AnswerOf, VerdictOf, ProcessOf
<1> QED
    BY <1>1, ReplayInvariance, PTL
=============================================================================
