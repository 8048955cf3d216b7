------------------------ MODULE ModelCallsInvariants ------------------------
(***************************************************************************)
(* The inductive invariant of ModelCalls: what the stages of an exchange   *)
(* know of its command, and what locks, counters, workers and the service  *)
(* know of each other.                                                     *)
(***************************************************************************)
EXTENDS ModelCalls

(* One exchange and its command.                                           *)
ExchangeOf(c) ==
    /\ stage[c] \in {"idle", "starting"} =>
          got[c] = 0 /\ written[c] = 0 /\ ~failed[c]
    /\ stage[c] \in {"idle", "starting", "reading", "waiting"} => outcome[c] = None
    /\ stage[c] \in {"idle", "starting", "done"} =>
          ~running[c] /\ ~helpers[c] /\ ~open[c]
    /\ open[c] => running[c]
    /\ running[c] => ~failed[c]
    /\ got[c] <= written[c]
    /\ stage[c] \in {"reading", "waiting"} => got[c] <= limit[c]
    /\ stage[c] = "waiting" => AtEnd(c)
    /\ outcome[c] = "answer" =>
          AtEnd(c) /\ got[c] <= limit[c] /\ ~failed[c] /\ ~running[c]

ExchangeInv == \A c \in Callers : ExchangeOf(c)

(* A thread inside propose holds its provider's lock; it counts a call     *)
(* while there is one left and reserves while there is room.               *)
CallOf(t) ==
    /\ at[t] = "idle" <=> using[t] = None
    /\ at[t] = "exchange" <=> stage[t] # "idle"
    /\ at[t] # "idle" => using[t] \in Providers /\ lock[using[t]] = t
    /\ at[t] = "counting" => calls[using[t]] < MaxCalls
    /\ at[t] \in {"ledger", "reserving"} => OfWorker(t)
    /\ at[t] = "reserving" => ledger = t /\ reserved + Reservation <= MaxReserved

CallInv == \A t \in Callers : CallOf(t)

(* A worker runs on a reservation of its own, and the service has its      *)
(* request exactly if the worker has sent it; what it proposes used no     *)
(* more tokens than configured.                                            *)
WorkerOf(t) ==
    /\ worker[t] # "none" <=> job[t] # 0
    /\ worker[t] # "none" <=> at[t] = "exchange" /\ OfWorker(t)
    /\ worker[t] = "counted" => tokens[t] <= MaxInput
    /\ worker[t] \in {"started", "counted"} => \A g \in accepted : g.job # job[t]
    /\ worker[t] = "sent" => \E g \in accepted : g.job = job[t]
    /\ worker[t] = "proposed" => \E g \in accepted : g.job = job[t] /\ WithinCaps(g)

WorkerInv ==
    /\ \A t \in Callers : WorkerOf(t)
    /\ \A t, u \in Callers : job[t] = job[u] /\ job[t] # 0 => t = u

(* Each job is billed at most once, and above its reservation only for     *)
(* what nobody asked for.                                                  *)
BillInv ==
    /\ \A g, h \in accepted : g.job = h.job => g = h
    /\ reserved = Reservation * jobs
    /\ billed <= Numerator * Cardinality(settled) + excess

IInv == TypeOK /\ ExchangeInv /\ CallInv /\ WorkerInv /\ BillInv
=============================================================================
