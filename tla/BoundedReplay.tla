----------------------------- MODULE BoundedReplay -----------------------------
(***************************************************************************)
(* replay_bounded (foresee/bounded_replay.py) sends the bytes of a report  *)
(* to a worker (foresee/replay_worker.py), which limits itself before it   *)
(* imports the interpreter, reads the bytes, guards their nesting          *)
(* (evidence_format._json), parses and replays them.  The exchange with    *)
(* the worker is the process transport's.                                  *)
(*                                                                         *)
(* Bytes are read one at a time, and of a byte it matters what it is to    *)
(* the guard and to the JSON parser, external, which may also reject the   *)
(* text for reasons of its own.  The code guards all bytes before it       *)
(* parses any: here both advance together, and what the parser has met     *)
(* counts if the guard lets the whole text pass.  Arguments of the worker  *)
(* are those of a valid ReplayBudget.                                      *)
(***************************************************************************)
EXTENDS ProcessExchange, Sequences

CONSTANTS
    Asked,          \* the limit asked for, for each of Kinds
    Environments,   \* limits a worker may inherit: soft and hard, by kind
    Maximum,        \* max_report_bytes
    MaxDepth,       \* of the nesting guard
    AnswerSize,     \* units of an answer of the worker
    Longest         \* bound: no report is longer

Kinds == {"core", "memory", "cpu"}
Infinity == -1      \* RLIM_INFINITY, as Python has it
Bounds == Nat \cup {Infinity}
LimitPairs == [soft : Bounds, hard : Bounds]

ASSUME ReplayAssumption ==
    /\ Asked \in [Kinds -> Nat]
    /\ Environments \subseteq [Kinds -> LimitPairs]
    /\ Maximum \in Nat \ {0} /\ MaxDepth \in Nat /\ Longest \in Nat
    /\ AnswerSize \in Nat \ {0}
    /\ None # "reproduced"

VARIABLES
    size,       \* len(report)
    result,     \* what replay_bounded gives: None so far
    replayer,   \* where the worker is
    inherited,  \* the limits it found
    limits,     \* those in force, each the same soft and hard once set
    set,        \* how many of the kinds it has limited
    guard,      \* the locals of _json's loop
    parser,     \* where the JSON parser is in the same text
    read,       \* bytes read of the report
    answer      \* the response

replaying == <<size, result>>
replayJob == <<replayer, inherited, limits, set, guard, parser, read, answer>>
replayVars == <<exchange, replaying, replayJob>>

Answers == {"reproduced", "invalid_report", "resource_limit", "limits_unavailable"}
Order == <<"core", "memory", "cpu">>
Unread == [depth |-> 0, quoted |-> FALSE, escaped |-> FALSE, refused |-> FALSE]
Beginning == [nesting |-> 0, deepest |-> 0, string |-> FALSE, skip |-> FALSE, rejected |-> FALSE]

ReplayInit ==
    /\ ExchangeInit
    /\ size = [c \in Callers |-> 0]
    /\ result = [c \in Callers |-> None]
    /\ replayer = [c \in Callers |-> "none"]
    /\ inherited \in [Callers -> Environments]
    /\ limits = inherited
    /\ set = [c \in Callers |-> 0]
    /\ guard = [c \in Callers |-> Unread]
    /\ parser = [c \in Callers |-> Beginning]
    /\ read = [c \in Callers |-> 0]
    /\ answer = [c \in Callers |-> None]

Replayer(c, s) == replayer' = [replayer EXCEPT ![c] = s]
Give(c, v) == result' = [result EXCEPT ![c] = v]

-----------------------------------------------------------------------------
(* replay_bounded: what is refused before there is a worker.               *)
Fits(n) == n <= Maximum

Replay(c, n) ==
    /\ stage[c] = "idle" /\ result[c] = None
    /\ size' = [size EXCEPT ![c] = n]
    /\ IF Fits(n)
       THEN Start(c, 128) /\ UNCHANGED result
       ELSE Give(c, "input_limit") /\ UNCHANGED exchange
    /\ UNCHANGED replayJob

Unsupported(c) ==
    /\ stage[c] = "idle" /\ result[c] = None   \* and the report fits
    /\ Give(c, "unsupported_platform")
    /\ UNCHANGED <<exchange, size, replayJob>>

(* The worker starts, with the limits of whoever started it.               *)
StartWorker(c) ==
    /\ Launch(c)
    /\ Replayer(c, "limiting")
    /\ UNCHANGED <<replaying, inherited, limits, set, guard, parser, read, answer>>

(* The response decides; the names of the transport's failures are one.    *)
Meaning(c) ==
    IF outcome[c] = "failure" THEN "worker_failed"
    ELSE IF got[c] = AnswerSize THEN answer[c] ELSE "worker_protocol"

ReadResponse(c) ==
    /\ stage[c] = "done" /\ result[c] = None
    /\ Give(c, Meaning(c))
    /\ UNCHANGED <<exchange, size, replayJob>>

(* The caller has its result, and may replay again.                        *)
Return(c) ==
    /\ result[c] # None
    /\ IF stage[c] = "done" THEN Forget(c) ELSE UNCHANGED exchange
    /\ Give(c, None)
    /\ size' = [size EXCEPT ![c] = 0]
    /\ Replayer(c, "none")
    /\ \E e \in Environments : /\ inherited' = [inherited EXCEPT ![c] = e]
                               /\ limits' = [limits EXCEPT ![c] = e]
    /\ set' = [set EXCEPT ![c] = 0]
    /\ guard' = [guard EXCEPT ![c] = Unread]
    /\ parser' = [parser EXCEPT ![c] = Beginning]
    /\ read' = [read EXCEPT ![c] = 0]
    /\ answer' = [answer EXCEPT ![c] = None]

-----------------------------------------------------------------------------
(* The worker, while its process runs.                                     *)
AtWork(c, s) == running[c] /\ replayer[c] = s

Answer(c, text) ==
    /\ Replayer(c, "answering")
    /\ answer' = [answer EXCEPT ![c] = text]

(* The least of the limit asked for and those inherited.  (Mutant: with    *)
(* RLIM_INFINITY among them, which is less than any other.)                *)
EvenInfinite(n) == TRUE
Finite(n) == n # Infinity

Value(asked, found) ==
    LET candidates == {asked} \cup {n \in {found.soft, found.hard} : Finite(n)}
    IN  CHOOSE n \in candidates : \A m \in candidates : n <= m

(* setrlimit: a hard limit may not be raised.                              *)
Permitted(value, found) ==
    found.hard = Infinity \/ (value # Infinity /\ value <= found.hard)

(* One kind: obeyed, or the system does something else.                    *)
Limit(c, obeyed) ==
    /\ AtWork(c, "limiting") /\ set[c] < Len(Order)
    /\ LET kind == Order[set[c] + 1]
           value == Value(Asked[kind], limits[c][kind])
       IN  IF obeyed /\ Permitted(value, limits[c][kind])
           THEN /\ limits' = [limits EXCEPT ![c] = [@ EXCEPT ![kind] = [soft |-> value, hard |-> value]]]
                /\ set' = [set EXCEPT ![c] = @ + 1]
                /\ UNCHANGED <<replayer, answer>>
           ELSE Answer(c, "limits_unavailable") /\ UNCHANGED <<limits, set>>
    /\ UNCHANGED <<exchange, replaying, inherited, guard, parser, read>>

(* Then the imports; as a mutant, before the limits are complete.          *)
SoonEnough(c) == set[c] >= Len(Order) - 1
Limited(c) == set[c] = Len(Order)

Import(c) ==
    /\ AtWork(c, "limiting") /\ Limited(c)
    /\ Replayer(c, "reading")
    /\ UNCHANGED <<exchange, replaying, inherited, limits, set, guard, parser, read, answer>>

-----------------------------------------------------------------------------
(* The nesting guard of _json.  (Mutant: it does not know escapes.)        *)
Bytes == {"open", "close", "quote", "backslash", "other"}

NoEscapes(g, b) == FALSE
Escapes(g, b) == g.quoted /\ ~g.escaped /\ b = "backslash"

Turn(b) == CASE b = "open" -> 1 [] b = "close" -> -1 [] OTHER -> 0

Guarded(g, b) ==
    LET depth == IF g.quoted THEN g.depth ELSE g.depth + Turn(b) IN
    [depth |-> depth,
     quoted |-> IF b = "quote" /\ ~g.escaped THEN ~g.quoted ELSE g.quoted,
     escaped |-> Escapes(g, b),
     refused |-> g.refused \/ depth > MaxDepth]

(* A JSON parser: strings with escapes, and values that nest.              *)
InString(p, b) ==
    [nesting |-> p.nesting, deepest |-> p.deepest,
     string |-> b # "quote" \/ p.skip,
     skip |-> b = "backslash" /\ ~p.skip,
     rejected |-> FALSE]

OutOfString(p, b) ==
    LET nesting == p.nesting + Turn(b) IN
    [nesting |-> nesting,
     deepest |-> IF nesting > p.deepest THEN nesting ELSE p.deepest,
     string |-> b = "quote",
     skip |-> FALSE,
     rejected |-> b = "backslash" \/ nesting < 0]

Parsed(p, b) == IF p.string THEN InString(p, b) ELSE OutOfString(p, b)

(* The next byte of the report, of which at most one over the maximum.     *)
ReadByte(c, b, malformed) ==
    /\ AtWork(c, "reading")
    /\ read[c] < size[c] /\ read[c] <= Maximum
    /\ read' = [read EXCEPT ![c] = @ + 1]
    /\ guard' = [guard EXCEPT ![c] = Guarded(@, b)]
    /\ parser' = [parser EXCEPT ![c] =
           IF @.rejected THEN @ ELSE IF malformed THEN [@ EXCEPT !.rejected = TRUE] ELSE Parsed(@, b)]
    /\ UNCHANGED <<exchange, replaying, replayer, inherited, limits, set, answer>>

(* The whole report: refused, malformed, or parsed and then checked and    *)
(* replayed, which succeeds or fails.                                      *)
Reproducible(c) ==
    /\ read[c] <= Maximum
    /\ ~guard[c].refused /\ ~parser[c].rejected
    /\ parser[c].nesting = 0 /\ ~parser[c].string

Judge(c, reproduced) ==
    /\ AtWork(c, "reading")
    /\ read[c] = size[c] \/ read[c] > Maximum
    /\ reproduced => Reproducible(c)
    /\ Answer(c, IF reproduced THEN "reproduced" ELSE "invalid_report")
    /\ UNCHANGED <<exchange, replaying, inherited, limits, set, guard, parser, read>>

OutOfMemory(c) ==
    /\ AtWork(c, "reading")
    /\ Answer(c, "resource_limit")
    /\ UNCHANGED <<exchange, replaying, inherited, limits, set, guard, parser, read>>

(* Its answer, which it may not get out in full, and its end; or it is     *)
(* killed at any moment, by a limit too.                                   *)
Speak(c) ==
    /\ AtWork(c, "answering")
    /\ written[c] < AnswerSize /\ Write(c)
    /\ UNCHANGED <<replaying, replayJob>>

Finish(c) ==
    /\ AtWork(c, "answering")
    /\ written[c] = AnswerSize /\ CommandExits(c, FALSE)
    /\ UNCHANGED <<replaying, replayJob>>

Die(c) == CommandExits(c, TRUE) /\ UNCHANGED <<replaying, replayJob>>

-----------------------------------------------------------------------------
Transport(c) ==
    /\ \/ ReadChunk(c) \/ ReadNothing(c) \/ TimeOut(c) \/ CommandEnded(c) \/ Kill(c)
       \/ ExchangeFails(c) \/ (result[c] = None /\ DeadlinePasses(c))
    /\ UNCHANGED <<replaying, replayJob>>

ReplayNext ==
    \E c \in Callers :
        \/ \E n \in 0 .. Longest : Replay(c, n)
        \/ Unsupported(c) \/ StartWorker(c) \/ Transport(c) \/ ReadResponse(c) \/ Return(c)
        \/ \E obeyed \in BOOLEAN : Limit(c, obeyed)
        \/ Import(c)
        \/ \E b \in Bytes, malformed \in BOOLEAN : ReadByte(c, b, malformed)
        \/ \E reproduced \in BOOLEAN : Judge(c, reproduced)
        \/ OutOfMemory(c) \/ Speak(c) \/ Finish(c) \/ Die(c)

ReplaySpec == ReplayInit /\ [][ReplayNext]_replayVars
-----------------------------------------------------------------------------
(* Not a byte of a report is read by a worker that is not confined: each   *)
(* limit is in force, soft and hard, no looser than asked for and no       *)
(* looser than what the worker was given.                                  *)
NoLooser(n, than) == than = Infinity \/ (n # Infinity /\ n <= than)

Confined(c) ==
    \A k \in Kinds : \A n \in {limits[c][k].soft, limits[c][k].hard} :
        /\ NoLooser(n, Asked[k])
        /\ NoLooser(n, inherited[c][k].soft) /\ NoLooser(n, inherited[c][k].hard)

ReadersAreConfined ==
    \A c \in Callers : read[c] > 0 \/ replayer[c] = "reading" => Confined(c)

(* A text the guard lets pass never takes the parser deeper than the       *)
(* limit, whatever brackets its strings hold, however they are escaped and *)
(* wherever the parser gives up.  The caller is told that a decision was   *)
(* reproduced only of a report within the maximum that such a parser read  *)
(* to its end, and only in the whole answer of a worker that ended well.   *)
NestingIsBounded(c) == ~guard[c].refused => parser[c].deepest <= MaxDepth

SuccessIsEarned ==
    \A c \in Callers :
        /\ NestingIsBounded(c)
        /\ result[c] = "reproduced" =>
              /\ Confined(c)
              /\ read[c] = size[c] /\ size[c] <= Maximum
              /\ Reproducible(c)
              /\ got[c] = AnswerSize /\ ~failed[c]
=============================================================================
