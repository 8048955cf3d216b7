------------------------------ MODULE ModelCalls ------------------------------
(***************************************************************************)
(* Calls of a model: threads share bounded providers                       *)
(* (foresee/model_provider.py); metered providers share one OpenAI         *)
(* transport, whose ledger reserves the price of a call before it starts a *)
(* worker (foresee/openai_provider.py); the worker counts the tokens of    *)
(* the request and then asks for a generation (foresee/openai_worker.py);  *)
(* the service, external, bills what it accepted even if nobody waits for  *)
(* the answer, and may use more tokens than it counted or was asked for.   *)
(* The other providers run a command of their user's.                      *)
(*                                                                         *)
(* Error codes are one failure, and of an answer the model keeps whether   *)
(* it is a proposal: the digests and shapes that validation compares are   *)
(* a choice of its outcome.  A billed amount is counted in the price       *)
(* unit's millionth, a reservation in the price unit.                      *)
(***************************************************************************)
EXTENDS ProcessExchange, FiniteSets

CONSTANTS
    Providers, Metered,        \* the second a subset of the first
    MaxCalls,                  \* ProposalBudget.max_calls
    ResponseLimit, Envelope,   \* max_response_bytes; the worker's 4096 more
    MaxInput, MaxOutput,       \* OpenAIConfig, in tokens
    InputPrice, OutputPrice,   \* per million tokens
    MaxReserved,
    Requests,                  \* the input tokens that requests may have
    Uses                       \* the tokens a generation may report in the end

ASSUME CallsAssumption ==
    /\ Metered \subseteq Providers /\ None \notin Providers \cup {"plans"}
    /\ MaxCalls \in Nat \ {0}
    /\ ResponseLimit \in Nat \ {0} /\ Envelope \in Nat
    /\ MaxInput \in Nat \ {0} /\ MaxOutput \in Nat \ {0}
    /\ InputPrice \in Nat \ {0} /\ OutputPrice \in Nat \ {0}
    /\ MaxReserved \in Nat \ {0}
    /\ Requests \subseteq Nat
    /\ Uses \subseteq [input : Nat, output : Nat]

VARIABLES
    at,          \* where each thread is in propose
    using,       \* the provider it calls
    verdict,     \* what its last propose gave it: "plans", "failure", None
    calls,       \* _calls of each provider
    lock,        \* _lock of each provider: the thread holding it, or None
    reserved,    \* _reserved of the transport
    ledger,      \* _lock of the transport
    jobs,        \* history: reservations made so far
    job,         \* the one a thread's worker runs on
    tokens,      \* the input tokens of a thread's request
    worker,      \* where the worker is
    accepted,    \* the generations of the service
    settled,     \* history: jobs billed
    billed,      \* history: the amount billed
    excess       \* history: how much of it was for tokens nobody asked for

provider == <<at, using, verdict, calls, lock>>
transport == <<reserved, ledger, jobs, job>>
service == <<accepted, settled, billed, excess>>
vars == <<exchange, provider, transport, tokens, worker, service>>

CallStages == {"idle", "locked", "counting", "ledger", "reserving", "exchange"}
WorkerStages == {"none", "started", "counted", "sent", "proposed", "refused"}
OfWorker(t) == using[t] \in Metered

Init ==
    /\ ExchangeInit
    /\ at = [t \in Callers |-> "idle"]
    /\ using = [t \in Callers |-> None]
    /\ verdict = [t \in Callers |-> None]
    /\ calls = [p \in Providers |-> 0]
    /\ lock = [p \in Providers |-> None]
    /\ reserved = 0
    /\ ledger = None
    /\ jobs = 0
    /\ job = [t \in Callers |-> 0]
    /\ tokens = [t \in Callers |-> 0]
    /\ worker = [t \in Callers |-> "none"]
    /\ accepted = {}
    /\ settled = {}
    /\ billed = 0
    /\ excess = 0

At(t, s) == at' = [at EXCEPT ![t] = s]

-----------------------------------------------------------------------------
(* propose: the lock is tried, not awaited.  (Mutant: no lock.)            *)
Unlocked(p) == TRUE
LockFree(p) == lock[p] = None

Propose(t, p) ==
    /\ at[t] = "idle"
    /\ LockFree(p)
    /\ lock' = [lock EXCEPT ![p] = t]
    /\ using' = [using EXCEPT ![t] = p]
    /\ verdict' = [verdict EXCEPT ![t] = None]
    /\ \E n \in Requests : tokens' = [tokens EXCEPT ![t] = n]
    /\ At(t, "locked")
    /\ UNCHANGED <<exchange, calls, transport, worker, service>>

Busy(t, p) ==
    /\ at[t] = "idle"
    /\ ~LockFree(p)
    /\ verdict' = [verdict EXCEPT ![t] = "failure"]
    /\ UNCHANGED <<exchange, at, using, calls, lock, transport, tokens, worker, service>>

(* The finally clause of propose.                                          *)
Leave(t, result) ==
    /\ verdict' = [verdict EXCEPT ![t] = result]
    /\ lock' = [lock EXCEPT ![using[t]] = None]
    /\ using' = [using EXCEPT ![t] = None]
    /\ tokens' = [tokens EXCEPT ![t] = 0]
    /\ At(t, "idle")

(* An invalid or oversized request.                                        *)
Refuse(t) ==
    /\ at[t] = "locked"
    /\ Leave(t, "failure")
    /\ UNCHANGED <<exchange, calls, transport, worker, service>>

(* `_calls >= max_calls'.                                                  *)
MayCall(p) == calls[p] < MaxCalls

CheckCalls(t) ==
    /\ at[t] = "locked"
    /\ MayCall(using[t])
    /\ At(t, "counting")
    /\ UNCHANGED <<exchange, using, verdict, calls, lock, transport, tokens, worker, service>>

CallLimit(t) ==
    /\ at[t] = "locked"
    /\ ~MayCall(using[t])
    /\ Leave(t, "failure")
    /\ UNCHANGED <<exchange, calls, transport, worker, service>>

CountCall(t) ==
    /\ at[t] = "counting"
    /\ calls' = [calls EXCEPT ![using[t]] = @ + 1]
    /\ IF OfWorker(t)
       THEN At(t, "ledger") /\ UNCHANGED exchange
       ELSE At(t, "exchange") /\ Start(t, ResponseLimit)
    /\ UNCHANGED <<using, verdict, lock, transport, tokens, worker, service>>

-----------------------------------------------------------------------------
(* OpenAITransport.exchange.  The reservation rounds up.  (Mutant: down.)  *)
Numerator == MaxInput * InputPrice + MaxOutput * OutputPrice
RoundedDown == Numerator \div 1000000
Reservation == (Numerator + 999999) \div 1000000

(* As a mutant, the ledger's lock is left out.                             *)
NoLedgerLock == TRUE
LedgerFree == ledger = None

EnterLedger(t) ==
    /\ at[t] = "ledger"
    /\ LedgerFree
    /\ ledger' = t
    /\ reserved + Reservation <= MaxReserved
    /\ At(t, "reserving")
    /\ UNCHANGED <<exchange, using, verdict, calls, lock, reserved, jobs, job, tokens, worker, service>>

(* `spend_limit'; the ledger's lock is taken and left.                     *)
SpendLimit(t) ==
    /\ at[t] = "ledger"
    /\ LedgerFree
    /\ reserved + Reservation > MaxReserved
    /\ Leave(t, "failure")
    /\ UNCHANGED <<exchange, calls, transport, worker, service>>

Reserve(t) ==
    /\ at[t] = "reserving"
    /\ reserved' = reserved + Reservation
    /\ ledger' = None
    /\ jobs' = jobs + 1
    /\ job' = [job EXCEPT ![t] = jobs + 1]
    /\ worker' = [worker EXCEPT ![t] = "started"]
    /\ At(t, "exchange")
    /\ Start(t, ResponseLimit + Envelope)
    /\ UNCHANGED <<using, verdict, calls, lock, tokens, service>>

-----------------------------------------------------------------------------
(* The worker, while its process runs: one request for a count, then one   *)
(* for the generation.                                                     *)
Working(t, s) == running[t] /\ OfWorker(t) /\ worker[t] = s
Worker(t, s) == worker' = [worker EXCEPT ![t] = s]

(* `input_token_limit'; as a mutant, left out.                             *)
AnyInput(n) == TRUE
Affordable(n) == n <= MaxInput

CountTokens(t) ==
    /\ Working(t, "started")
    /\ Worker(t, IF Affordable(tokens[t]) THEN "counted" ELSE "refused")
    /\ UNCHANGED <<exchange, provider, transport, tokens, service>>

(* The service receives the request for a generation.  The worker asked    *)
(* for MaxOutput tokens at most after it had the input counted; what the   *)
(* generation uses is the service's affair.                                *)
Generate(t) ==
    /\ Working(t, "counted")
    /\ Worker(t, "sent")
    /\ \E use \in Uses :
          accepted' = accepted \cup {[job |-> job[t], counted |-> tokens[t],
                                     input |-> use.input, output |-> use.output]}
    /\ UNCHANGED <<exchange, provider, transport, tokens, settled, billed, excess>>

(* `usage_limit': a result that used more than configured is refused.  As  *)
(* a mutant, it is taken.                                                  *)
AnyUse(g) == TRUE
WithinCaps(g) == g.input <= MaxInput /\ g.output <= MaxOutput

Receive(t) ==
    /\ Working(t, "sent")
    /\ \E g \in accepted :
          g.job = job[t] /\ Worker(t, IF WithinCaps(g) THEN "proposed" ELSE "refused")
    /\ UNCHANGED <<exchange, provider, transport, tokens, service>>

(* No key, an HTTP error, a refusal, a deadline of the worker's own, a     *)
(* generation the service never saw or cannot deliver.                     *)
WorkerFails(t) ==
    /\ \E s \in {"started", "counted", "sent"} : Working(t, s)
    /\ Worker(t, "refused")
    /\ UNCHANGED <<exchange, provider, transport, tokens, service>>

(* It writes what it has to say, then ends; or it crashes.                 *)
WorkerSpeaks(t) ==
    /\ \E s \in {"proposed", "refused"} : Working(t, s)
    /\ Write(t) \/ (written[t] > 0 /\ CommandExits(t, FALSE))
    /\ UNCHANGED <<provider, transport, tokens, worker, service>>

WorkerCrashes(t) ==
    /\ OfWorker(t)
    /\ CommandExits(t, TRUE)
    /\ UNCHANGED <<provider, transport, tokens, worker, service>>

(* A command of the user's.                                                *)
CommandMoves(t) ==
    /\ at[t] = "exchange" /\ ~OfWorker(t)
    /\ \/ Write(t) \/ StartHelper(t) \/ HelperEnds(t) \/ CloseOutput(t)
       \/ \E badly \in BOOLEAN : CommandExits(t, badly)
    /\ UNCHANGED <<provider, transport, tokens, worker, service>>

(* The service bills a generation for what it used, sooner or later and    *)
(* once, whatever has become of the worker or of the result.  Part of it   *)
(* may be for more input than it counted or more output than it was asked  *)
(* for.                                                                    *)
Cost(input, output) == input * InputPrice + output * OutputPrice
Above(n, most) == IF n > most THEN n - most ELSE 0
Excess(g) == Cost(Above(g.input, g.counted), Above(g.output, MaxOutput))

Bill ==
    /\ \E g \in accepted :
          /\ g.job \notin settled
          /\ settled' = settled \cup {g.job}
          /\ billed' = billed + Cost(g.input, g.output)
          /\ excess' = excess + Excess(g)
    /\ UNCHANGED <<exchange, provider, transport, tokens, worker, accepted>>

-----------------------------------------------------------------------------
Run(t) ==
    /\ at[t] = "exchange"
    /\ ExchangeStep(t)
    /\ UNCHANGED <<provider, transport, tokens, worker, service>>

RunFails(t) ==
    /\ at[t] = "exchange"
    /\ ExchangeFails(t)
    /\ UNCHANGED <<provider, transport, tokens, worker, service>>

Clock(t) ==
    /\ DeadlinePasses(t)
    /\ UNCHANGED <<provider, transport, tokens, worker, service>>

(* The reservation of a call that failed stays.  (Mutant: refunded.)       *)
Refunded(t) == IF OfWorker(t) /\ outcome[t] = "failure" THEN reserved - Reservation ELSE reserved
Kept(t) == reserved

(* The end of propose.  Only an answer in time that passes validation      *)
(* becomes plans, and a worker's only if it is a proposal; any answer may  *)
(* fail validation.  (Mutant: a worker's error passes for a proposal.)     *)
AnyEnvelope(t) == TRUE
Valid(t) == OfWorker(t) => worker[t] = "proposed"

Conclude(t, result) ==
    /\ at[t] = "exchange" /\ stage[t] = "done"
    /\ Leave(t, result)
    /\ Forget(t)
    /\ reserved' = Kept(t)
    /\ job' = [job EXCEPT ![t] = 0]
    /\ worker' = [worker EXCEPT ![t] = "none"]
    /\ UNCHANGED <<calls, ledger, jobs, service>>

Accept(t) ==
    /\ outcome[t] = "answer" /\ ~expired[t]
    /\ Valid(t)
    /\ Conclude(t, "plans")

Fail(t) == Conclude(t, "failure")
Deliver(t) == Accept(t) \/ Fail(t)

-----------------------------------------------------------------------------
Step(t) ==
    \/ CheckCalls(t) \/ CallLimit(t) \/ CountCall(t)
    \/ EnterLedger(t) \/ SpendLimit(t) \/ Reserve(t)
    \/ Run(t)
    \/ Deliver(t)

Environment(t) ==
    \/ Refuse(t)
    \/ CountTokens(t) \/ Generate(t) \/ Receive(t) \/ WorkerFails(t)
    \/ WorkerSpeaks(t) \/ WorkerCrashes(t) \/ CommandMoves(t)
    \/ RunFails(t) \/ Clock(t)

Next ==
    \/ \E t \in Callers : \/ \E p \in Providers : Propose(t, p) \/ Busy(t, p)
                          \/ Step(t) \/ Environment(t)
    \/ Bill

Spec == Init /\ [][Next]_vars

(* A thread inside propose goes on, and time passes.  Nothing is assumed   *)
(* of the command, the worker and the service, nor that anything fails.    *)
FairSpec ==
    Spec /\ \A t \in Callers : WF_vars(Step(t)) /\ WF_vars(Clock(t))
-----------------------------------------------------------------------------
TypeOK ==
    /\ ExchangeTypeOK
    /\ at \in [Callers -> CallStages]
    /\ using \in [Callers -> Providers \cup {None}]
    /\ verdict \in [Callers -> {None, "plans", "failure"}]
    /\ calls \in [Providers -> 0 .. MaxCalls]
    /\ lock \in [Providers -> Callers \cup {None}]
    /\ reserved \in 0 .. MaxReserved
    /\ ledger \in Callers \cup {None}
    /\ jobs \in Nat
    /\ job \in [Callers -> 0 .. jobs]
    /\ tokens \in [Callers -> Nat]
    /\ worker \in [Callers -> WorkerStages]
    /\ accepted \subseteq [job : 1 .. jobs, counted : 0 .. MaxInput, input : Nat, output : Nat]
    /\ settled \subseteq 1 .. jobs
    /\ billed \in Nat /\ excess \in Nat

(* Whatever is billed was reserved first, and the reservations stay within *)
(* the user's limit: with threads racing for the last reservation, workers *)
(* killed after their request went out, bills that arrive long afterwards, *)
(* and prices that do not divide evenly.  Only what the service used       *)
(* beyond its own count of the input and the output it was asked for may   *)
(* come on top, which no reservation can prevent.                          *)
BilledIsReserved ==
    /\ billed <= 1000000 * reserved + excess
    /\ reserved <= MaxReserved

(* A provider never makes more calls than its budget, failed ones          *)
(* included, although checking the budget and counting the call are two    *)
(* steps that its threads could interleave.                                *)
CallsWithinBudget ==
    \A p \in Providers : calls[p] <= MaxCalls

(* Plans come only from a whole answer in time: of a command that ended    *)
(* with success, and of a worker whose generation was reserved, sent and   *)
(* used no more tokens than configured.                                    *)
PlansAreEarned ==
    [][\A t \in Callers : verdict'[t] = "plans" /\ verdict[t] # "plans" =>
          /\ got[t] = written[t] /\ got[t] <= limit[t]
          /\ ~failed[t] /\ ~expired[t]
          /\ OfWorker(t) =>
                \E g \in accepted :
                    g.job = job[t] /\ g.input <= MaxInput /\ g.output <= MaxOutput]_vars

(* Every propose returns, whatever the command does.                       *)
ProposalsReturn == \A t \in Callers : at[t] # "idle" ~> at[t] = "idle"
=============================================================================
