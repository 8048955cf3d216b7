--------------------------- MODULE ProcessExchange ---------------------------
(***************************************************************************)
(* ProcessTransport.exchange (foresee/model_provider.py): a caller runs a  *)
(* command in a session of its own, reads its output up to a limit and a   *)
(* deadline, and kills the whole group at the end.  The command, external, *)
(* writes what it likes, starts helpers that keep its output open, closes  *)
(* its output, never ends, or ends with success or failure.                *)
(*                                                                         *)
(* Actions for a module that composes exchanges with their callers.        *)
(* Output is counted in units; the request arrives as a file and plays no  *)
(* part.  Helpers that leave the session, and process numbers reused while *)
(* an exchange ends, are out of the contract and of the model.             *)
(***************************************************************************)
EXTENDS Integers

CONSTANTS
    None,
    Callers,       \* threads that run exchanges
    ReadSize,      \* most units one os.read takes (65536 in the code)
    PipeSize,      \* units the pipe holds
    MaxWritten     \* bound: no command writes more units

ASSUME ExchangeAssumption ==
    /\ None \notin Callers \cup {"answer", "failure"}
    /\ ReadSize \in Nat \ {0} /\ PipeSize \in Nat \ {0} /\ MaxWritten \in Nat

VARIABLES
    stage,      \* where each exchange is
    limit,      \* its max_response_bytes
    got,        \* len(output)
    expired,    \* its deadline has passed
    outcome,    \* what it returns: "answer", "failure", or None so far
    running,    \* the command runs
    helpers,    \* processes it started hold its output open
    open,       \* the command itself holds its output open
    written,    \* units written to the pipe
    failed      \* the command ended with a nonzero status or a signal

command == <<running, helpers, open, written, failed>>
exchange == <<stage, limit, got, expired, outcome, command>>

Exchanging == {"starting", "reading", "waiting", "killing"}
ExchangeStages == {"idle", "done"} \cup Exchanging

ExchangeInit ==
    /\ stage = [c \in Callers |-> "idle"]
    /\ limit = [c \in Callers |-> 0]
    /\ got = [c \in Callers |-> 0]
    /\ expired = [c \in Callers |-> FALSE]
    /\ outcome = [c \in Callers |-> None]
    /\ running = [c \in Callers |-> FALSE]
    /\ helpers = [c \in Callers |-> FALSE]
    /\ open = [c \in Callers |-> FALSE]
    /\ written = [c \in Callers |-> 0]
    /\ failed = [c \in Callers |-> FALSE]

Least(m, n) == IF m <= n THEN m ELSE n
MoveTo(c, s) == stage' = [stage EXCEPT ![c] = s]
End(c, result, s) == outcome' = [outcome EXCEPT ![c] = result] /\ MoveTo(c, s)

-----------------------------------------------------------------------------
(* The call, its return to the caller, and the clock.                      *)
Start(c, most) ==
    /\ stage[c] = "idle"
    /\ limit' = [limit EXCEPT ![c] = most]
    /\ MoveTo(c, "starting")
    /\ UNCHANGED <<got, expired, outcome, command>>

Forget(c) ==
    /\ stage[c] = "done"
    /\ MoveTo(c, "idle")
    /\ limit' = [limit EXCEPT ![c] = 0]
    /\ got' = [got EXCEPT ![c] = 0]
    /\ expired' = [expired EXCEPT ![c] = FALSE]
    /\ outcome' = [outcome EXCEPT ![c] = None]
    /\ written' = [written EXCEPT ![c] = 0]
    /\ failed' = [failed EXCEPT ![c] = FALSE]
    /\ UNCHANGED <<running, helpers, open>>

(* Only where the code looks at the clock next; passing earlier is the same. *)
DeadlinePasses(c) ==
    /\ stage[c] \in {"reading", "waiting", "done"}
    /\ ~expired[c]
    /\ expired' = [expired EXCEPT ![c] = TRUE]
    /\ UNCHANGED <<stage, limit, got, outcome, command>>

-----------------------------------------------------------------------------
Launch(c) ==
    /\ stage[c] = "starting"
    /\ running' = [running EXCEPT ![c] = TRUE]
    /\ open' = [open EXCEPT ![c] = TRUE]
    /\ MoveTo(c, "reading")
    /\ UNCHANGED <<limit, got, expired, outcome, helpers, written, failed>>

(* Popen raises before the try: there is nothing to kill.                  *)
LaunchFails(c) ==
    /\ stage[c] = "starting"
    /\ End(c, "failure", "done")
    /\ UNCHANGED <<limit, got, expired, command>>

GiveUp(c) ==
    /\ End(c, "failure", "killing")
    /\ UNCHANGED <<limit, got, expired, command>>

(* The output has ended: all is read and nobody can write any more.        *)
AtEnd(c) == got[c] = written[c] /\ ~open[c] /\ ~helpers[c]
Readable(c) == got[c] < written[c] \/ AtEnd(c)

(* How much is asked for: one unit over the limit tells an answer that     *)
(* fits from one that does not.  (Mutant: exactly the limit.)              *)
RoomToLimit(c) == limit[c] - got[c]
Room(c) == limit[c] + 1 - got[c]
Chunk(c) == Least(Least(ReadSize, Room(c)), written[c] - got[c])

(* One turn of the loop in which the selector reports the pipe in time.    *)
ReadOn(c) ==
    /\ stage[c] = "reading"
    /\ ~expired[c]
    /\ Readable(c)

ReadChunk(c) ==
    /\ ReadOn(c)
    /\ Chunk(c) > 0
    /\ got' = [got EXCEPT ![c] = @ + Chunk(c)]
    /\ IF got[c] + Chunk(c) > limit[c]
       THEN End(c, "failure", "killing")
       ELSE UNCHANGED <<outcome, stage>>
    /\ UNCHANGED <<limit, expired, command>>

ReadNothing(c) ==
    /\ ReadOn(c)
    /\ Chunk(c) = 0
    /\ MoveTo(c, "waiting")
    /\ UNCHANGED <<limit, got, expired, outcome, command>>

(* The deadline in the loop, before process.wait and in it.  (Mutant: wait *)
(* for the command without one.)                                           *)
LateReading(c) == stage[c] = "reading" /\ expired[c]
Late(c) == stage[c] \in {"reading", "waiting"} /\ expired[c]

TimeOut(c) == Late(c) /\ GiveUp(c)

(* OSError of select, read or wait.                                        *)
SystemError(c) == stage[c] \in {"reading", "waiting"} /\ GiveUp(c)

CommandEnded(c) ==
    /\ stage[c] = "waiting"
    /\ ~running[c]
    /\ ~Late(c)
    /\ End(c, IF failed[c] THEN "failure" ELSE "answer", "killing")
    /\ UNCHANGED <<limit, got, expired, command>>

(* The finally clause: SIGKILL to the group, then reap.  (Mutant: to the   *)
(* command only.)                                                          *)
CommandOnly(c) == helpers[c]
Survivors(c) == FALSE

Kill(c) ==
    /\ stage[c] = "killing"
    /\ running' = [running EXCEPT ![c] = FALSE]
    /\ open' = [open EXCEPT ![c] = FALSE]
    /\ helpers' = [helpers EXCEPT ![c] = Survivors(c)]
    /\ failed' = [failed EXCEPT ![c] = @ \/ running[c]]
    /\ MoveTo(c, "done")
    /\ UNCHANGED <<limit, got, expired, outcome, written>>

(* What an exchange does by itself, and what may befall it.                *)
ExchangeStep(c) ==
    \/ Launch(c) \/ ReadChunk(c) \/ ReadNothing(c)
    \/ TimeOut(c) \/ CommandEnded(c) \/ Kill(c)

ExchangeFails(c) == LaunchFails(c) \/ SystemError(c)

-----------------------------------------------------------------------------
(* The command.                                                            *)
Write(c) ==
    /\ open[c] \/ helpers[c]
    /\ written[c] - got[c] < PipeSize
    /\ written[c] < MaxWritten
    /\ written' = [written EXCEPT ![c] = @ + 1]
    /\ UNCHANGED <<stage, limit, got, expired, outcome, running, helpers, open, failed>>

StartHelper(c) ==
    /\ running[c] /\ open[c] /\ ~helpers[c]
    /\ helpers' = [helpers EXCEPT ![c] = TRUE]
    /\ UNCHANGED <<stage, limit, got, expired, outcome, running, open, written, failed>>

HelperEnds(c) ==
    /\ helpers[c]
    /\ helpers' = [helpers EXCEPT ![c] = FALSE]
    /\ UNCHANGED <<stage, limit, got, expired, outcome, running, open, written, failed>>

CloseOutput(c) ==
    /\ open[c]
    /\ open' = [open EXCEPT ![c] = FALSE]
    /\ UNCHANGED <<stage, limit, got, expired, outcome, running, helpers, written, failed>>

CommandExits(c, badly) ==
    /\ running[c]
    /\ running' = [running EXCEPT ![c] = FALSE]
    /\ open' = [open EXCEPT ![c] = FALSE]
    /\ failed' = [failed EXCEPT ![c] = badly]
    /\ UNCHANGED <<stage, limit, got, expired, outcome, helpers, written>>

-----------------------------------------------------------------------------
ExchangeTypeOK ==
    /\ stage \in [Callers -> ExchangeStages]
    /\ limit \in [Callers -> Nat]
    /\ got \in [Callers -> Nat]
    /\ written \in [Callers -> Nat]
    /\ outcome \in [Callers -> {None, "answer", "failure"}]
    /\ expired \in [Callers -> BOOLEAN]
    /\ running \in [Callers -> BOOLEAN]
    /\ helpers \in [Callers -> BOOLEAN]
    /\ open \in [Callers -> BOOLEAN]
    /\ failed \in [Callers -> BOOLEAN]

(* An answer is all that a command which ended with success has written:   *)
(* never a beginning of it, however the output was cut into chunks and     *)
(* whoever else still held the pipe, and never more than the limit.        *)
AnswersAreWhole ==
    \A c \in Callers : outcome[c] = "answer" =>
        /\ got[c] = written[c] /\ got[c] <= limit[c]
        /\ ~failed[c]
        /\ ~open[c] /\ ~helpers[c]

(* Whatever way an exchange ends, no process of its session outlives it.   *)
NothingLeftBehind ==
    \A c \in Callers : stage[c] \in {"idle", "starting", "done"} =>
        ~running[c] /\ ~helpers[c] /\ ~open[c]
=============================================================================
