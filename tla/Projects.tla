------------------------------ MODULE Projects -------------------------------
(***************************************************************************)
(* The commands of foresee/cli.py on one directory: a project (init, run,  *)
(* reconcile, inspect, replay; foresee/project.py) or the workspace of     *)
(* `demo'.  Each process runs one command; they interleave, may be killed  *)
(* or find the disk full at any step, and the user edits files meanwhile.  *)
(*                                                                         *)
(* Writing a file takes two steps: it is emptied, then it gets its         *)
(* content.  A process's name stands for the identifier of its run.  The   *)
(* interpreter is cut down to one decision with at most one commit: its    *)
(* details, and those of reconciliation, are in Decision and Recovery.     *)
(***************************************************************************)
EXTENDS Naturals, Sequences, FiniteSets

CONSTANTS
    Processes,        \* processes, each with a command of its own
    MaxEdits          \* bound: changes by the user

ASSUME ProjectsAssumption == {"", "torn", "run-report"} \cap Processes = {}

VARIABLES
    kind,             \* what the directory is: "project" or "workspace"
    made,             \* whether the project's directory exists
    files,            \* content of the input files: "", "torn", "bad", or good
    catalog,          \* the target database
    journal,          \* the journal
    reports,          \* each report's name: "", "torn", or the run it tells of
    proc,             \* processes: command, progress and result
    edits             \* changes the user made

vars == <<kind, made, files, catalog, journal, reports, proc, edits>>

Inputs == {"config", "source", "plans"}
Good == {"some", "none"}             \* `none': an empty list of candidates
Incomplete == {"provider_error", "commit_unresolved"}

(* The steps of each command: init_project, run_project, main.             *)
PlansFirst ==                                        \* mutant
    <<"make directory", "empty config", "write config", "empty source", "write source",
      "empty plans", "write plans", "create tables", "identify", "count rows", "seed", "exit">>
InitSteps ==
    <<"make directory", "empty config", "write config", "empty source", "write source",
      "create tables", "identify", "count rows", "seed", "empty plans", "write plans", "exit">>
SaveFirst ==                                         \* mutant
    <<"read config", "read source", "read plans", "open target", "open journal", "start", "decide",
      "prepare", "commit", "record", "empty report", "write report", "complete", "exit">>
RunSteps ==
    <<"read config", "read source", "read plans", "open target", "open journal", "start", "decide",
      "prepare", "commit", "record", "complete", "empty report", "write report", "exit">>
DemoSteps ==
    <<"create tables", "identify", "open journal", "count rows", "seed", "start", "decide",
      "prepare", "commit", "record", "complete", "empty report", "write report", "exit">>
Inits == {"init", "init demo"}
Order(command) ==
    CASE command \in Inits -> InitSteps
      [] command = "run" -> RunSteps
      [] command = "demo" -> DemoSteps
      [] command = "reconcile" -> <<"list runs", "settle", "exit">>
      [] OTHER -> <<"read report">>
Emptying == [config |-> "empty config", source |-> "empty source", plans |-> "empty plans"]
Writing == [config |-> "write config", source |-> "write source", plans |-> "write plans"]
Reading == [config |-> "read config", source |-> "read source", plans |-> "read plans"]

Running(p) == proc[p].command # "" /\ proc[p].exit = ""
At(p, step) == Running(p) /\ Order(proc[p].command)[proc[p].at] = step
Place(p, step) == CHOOSE i \in DOMAIN Order(proc[p].command) : Order(proc[p].command)[i] = step
ReportOf(p) == IF proc[p].command = "demo" THEN "run-report" ELSE p

Init ==
    /\ kind \in {"project", "workspace"}
    /\ made = FALSE
    /\ files = [f \in Inputs |-> ""]
    /\ catalog = [tables |-> FALSE, identified |-> FALSE, rows |-> FALSE, revision |-> 0,
                  removed |-> FALSE, receipts |-> [p \in Processes |-> ""]]
    /\ journal = [tables |-> FALSE, state |-> [p \in Processes |-> ""],
                  operation |-> [p \in Processes |-> ""], outcome |-> [p \in Processes |-> ""]]
    /\ reports = [r \in Processes \cup {"run-report"} |-> ""]
    /\ proc = [p \in Processes |->
                  [command |-> "", at |-> 1, base |-> 0, plans |-> "", outcome |-> "", todo |-> {},
                   unresolved |-> FALSE, exit |-> ""]]
    /\ edits = 0

Same(unchanged) == UNCHANGED <<kind, edits, unchanged>>
Step(p) == proc' = [proc EXCEPT ![p] = [@ EXCEPT !.at = proc[p].at + 1]]
Exit(p, code) ==
    proc' = [proc EXCEPT ![p] = [@ EXCEPT !.exit = code, !.at = 1, !.base = 0, !.plans = ""]]
GoOn(p, holds) == IF holds THEN Step(p) ELSE Exit(p, "1")
-----------------------------------------------------------------------------
Launch(p, command, about) ==
    /\ proc[p].command = ""
    /\ proc' = [proc EXCEPT ![p] = [@ EXCEPT !.command = command, !.todo = about]]
    /\ Same(<<made, files, catalog, journal, reports>>)

(* mkdir(exist_ok=False): a directory that exists is an error.             *)
MakeAnyway(p) ==                                     \* mutant
    /\ At(p, "make directory")
    /\ Step(p)
    /\ made' = TRUE
    /\ Same(<<files, catalog, journal, reports>>)
MakeDirectory(p) ==
    /\ At(p, "make directory")
    /\ GoOn(p, ~made)
    /\ made' = TRUE
    /\ Same(<<files, catalog, journal, reports>>)

(* Path.write_text.  The candidates of a new project match its sample rows.*)
Content(p, file) == IF file = "plans" /\ proc[p].command = "init" THEN "none" ELSE "some"
WriteFile(p, file) ==
    /\ \/ At(p, Emptying[file]) /\ files' = [files EXCEPT ![file] = "torn"]
       \/ At(p, Writing[file]) /\ files' = [files EXCEPT ![file] = Content(p, file)]
    /\ Step(p)
    /\ Same(<<made, catalog, journal, reports>>)

(* Catalog.__init__ with existing=False: each statement that creates       *)
(* something commits by itself, and the identity comes last.               *)
Create(p) ==
    /\ \/ At(p, "create tables") /\ catalog' = [catalog EXCEPT !.tables = TRUE]
       \/ At(p, "identify") /\ catalog' = [catalog EXCEPT !.identified = TRUE]
    /\ Step(p)
    /\ Same(<<made, files, journal, reports>>)

(* Catalog.seed, which init only calls for sample data: rows that another  *)
(* process inserted after they were counted are an error.                  *)
CountRows(p) ==
    /\ At(p, "count rows")
    /\ LET steps == IF catalog.rows \/ proc[p].command = "init" THEN 2 ELSE 1
       IN  proc' = [proc EXCEPT ![p] = [@ EXCEPT !.at = proc[p].at + steps]]
    /\ Same(<<made, files, catalog, journal, reports>>)
Seed(p) ==
    /\ At(p, "seed")
    /\ GoOn(p, ~catalog.rows)
    /\ catalog' = [catalog EXCEPT !.rows = TRUE]
    /\ Same(<<made, files, journal, reports>>)

(* run_project reads its inputs one after the other, checks each, and only *)
(* then opens the target, which must be complete.                          *)
ReadInput(p) ==
    /\ \E file \in Inputs :
          /\ At(p, Reading[file])
          /\ IF files[file] \notin Good THEN Exit(p, "1")
             ELSE proc' = [proc EXCEPT ![p] = [@ EXCEPT !.at = proc[p].at + 1, !.plans = files[file]]]
    /\ Same(<<made, files, catalog, journal, reports>>)
OpenTarget(p) ==
    /\ At(p, "open target")
    /\ GoOn(p, catalog.tables /\ catalog.identified)
    /\ Same(<<made, files, catalog, journal, reports>>)

OpenJournal(p) ==
    /\ At(p, "open journal")
    /\ journal' = [journal EXCEPT !.tables = TRUE]
    /\ Step(p)
    /\ Same(<<made, files, catalog, reports>>)
Start(p) ==
    /\ At(p, "start")
    /\ journal' = [journal EXCEPT !.state = [@ EXCEPT ![p] = "started"]]
    /\ Step(p)
    /\ Same(<<made, files, catalog, reports>>)

(* The decision up to its commit: a plan is selected, or there is none to  *)
(* select, or a provider fails.                                            *)
Stops(p, outcome, step) ==
    proc' = [proc EXCEPT ![p] = [@ EXCEPT !.outcome = outcome, !.at = Place(p, step)]]
Decide(p) ==
    /\ At(p, "decide")
    /\ \/ /\ catalog.rows /\ proc[p].plans # "none"
          /\ proc' = [proc EXCEPT ![p] = [@ EXCEPT !.at = proc[p].at + 1, !.base = catalog.revision]]
       \/ ~(catalog.rows /\ proc[p].plans # "none") /\ Stops(p, "no_eligible_candidate", "complete")
       \/ Stops(p, "provider_error", "complete")
    /\ Same(<<made, files, catalog, journal, reports>>)
Prepare(p) ==
    /\ At(p, "prepare")
    /\ journal' = [journal EXCEPT !.state = [@ EXCEPT ![p] = "prepared"],
                                  !.operation = [@ EXCEPT ![p] = "prepared"]]
    /\ Step(p)
    /\ Same(<<made, files, catalog, reports>>)

(* Catalog.commit, one transaction; it may also raise, before or after.    *)
Commit(p) ==
    /\ At(p, "commit")
    /\ LET status == IF proc[p].base = catalog.revision THEN "applied" ELSE "stale"
           done == [catalog EXCEPT !.receipts = [@ EXCEPT ![p] = status],
                                   !.revision = @ + (IF status = "applied" THEN 1 ELSE 0)]
       IN  \/ catalog' = done /\ proc' = [proc EXCEPT ![p] = [@ EXCEPT !.at = proc[p].at + 1, !.outcome = status]]
           \/ catalog' \in {catalog, done} /\ Stops(p, "commit_unresolved", "empty report")
    /\ Same(<<made, files, journal, reports>>)
Record(p) ==
    /\ At(p, "record")
    /\ journal' = [journal EXCEPT !.operation = [@ EXCEPT ![p] = proc[p].outcome]]
    /\ Step(p)
    /\ Same(<<made, files, catalog, reports>>)
Complete(p) ==
    /\ At(p, "complete")
    /\ journal' = [journal EXCEPT !.state = [@ EXCEPT ![p] = "completed"],
                                  !.outcome = [@ EXCEPT ![p] = proc[p].outcome]]
    /\ Step(p)
    /\ Same(<<made, files, catalog, reports>>)

(* save_report.  What two writers of one file leave may be of neither.     *)
Shared(p) ==
    \/ reports[ReportOf(p)] # "torn"
    \/ \E q \in Processes \ {p} : At(q, "write report") /\ ReportOf(q) = ReportOf(p)
SaveReport(p) ==
    /\ \/ At(p, "empty report") /\ reports' = [reports EXCEPT ![ReportOf(p)] = "torn"]
       \/ /\ At(p, "write report")
          /\ \/ reports' = [reports EXCEPT ![ReportOf(p)] = p]
             \/ Shared(p) /\ reports' = [reports EXCEPT ![ReportOf(p)] = "torn"]
    /\ Step(p)
    /\ Same(<<made, files, catalog, journal>>)

(* The exit code of a command that got to its end.                         *)
AlwaysZero(p) == "0"                                 \* mutant
Code(p) ==
    CASE proc[p].command = "run" -> IF proc[p].outcome = "applied" THEN "0" ELSE "2"
      [] proc[p].command = "reconcile" -> IF proc[p].unresolved THEN "2" ELSE "0"
      [] proc[p].command \notin {"run", "reconcile"} -> "0"
Finish(p) ==
    /\ At(p, "exit")
    /\ Exit(p, Code(p))
    /\ Same(<<made, files, catalog, journal, reports>>)

(* reconcile: the runs of the journal, which must have some, one by one.   *)
Known == {r \in Processes : journal.state[r] # ""}
ListRuns(p) ==
    /\ At(p, "list runs")
    /\ IF Known = {} THEN Exit(p, "1")
       ELSE LET rows == {<<r, journal.state[r]>> : r \in Known}
            IN  proc' = [proc EXCEPT ![p] = [@ EXCEPT !.at = proc[p].at + 1, !.todo = rows]]
    /\ Same(<<made, files, catalog, journal, reports>>)
Found(r) ==
    CASE journal.operation[r] = "" -> ""
      [] journal.operation[r] # "" /\ catalog.receipts[r] # "" -> catalog.receipts[r]
      [] OTHER -> "unresolved"
Settle(p) ==
    /\ At(p, "settle")
    /\ \E row \in proc[p].todo :
          LET r == row[1]
              state == IF row[2] = "completed" /\ Found(r) # "unresolved" THEN "completed"
                       ELSE IF Found(r) \notin {"", "unresolved"} THEN "reconciled"
                       ELSE "unresolved"
              open == proc[p].unresolved \/ state = "unresolved"
              at == IF proc[p].todo = {row} THEN proc[p].at + 1 ELSE proc[p].at
          IN  /\ journal' = [journal EXCEPT !.operation = [@ EXCEPT ![r] = Found(r)],
                                            !.state = [@ EXCEPT ![r] = state]]
              /\ proc' = [proc EXCEPT ![p] = [@ EXCEPT !.todo = proc[p].todo \ {row},
                                                       !.unresolved = open,
                                                       !.at = at]]
    /\ Same(<<made, files, catalog, reports>>)

(* inspect wants an intact report, replay also one of a complete run.      *)
ReadReport(p) ==
    /\ At(p, "read report")
    /\ \E name \in proc[p].todo :
          LET run == reports[name] IN
          Exit(p, IF run \in {"", "torn"} THEN "1"
                  ELSE IF proc[p].command = "replay" /\ proc[run].outcome \in Incomplete THEN "1"
                  ELSE "0")
    /\ Same(<<made, files, catalog, journal, reports>>)

(* The process is killed, or a write fails, which is an error like others. *)
End(p) ==
    /\ Running(p)
    /\ Exit(p, "1")
    /\ Same(<<made, files, catalog, journal, reports>>)
-----------------------------------------------------------------------------
(* The user edits an input of a project that is not just being made,       *)
(* writes rows with SQL, or removes the database while nothing runs.       *)
Edited == edits < MaxEdits /\ edits' = edits + 1 /\ UNCHANGED <<kind, made, journal, reports, proc>>
EditInput ==
    /\ Edited /\ made
    /\ \A p \in Processes : Running(p) => proc[p].command \notin Inits
    /\ \E file \in Inputs, content \in {"bad", "some"} : files' = [files EXCEPT ![file] = content]
    /\ UNCHANGED catalog
LoadRows ==
    /\ Edited /\ catalog.identified
    /\ catalog' = [catalog EXCEPT !.rows = TRUE, !.revision = @ + 1]
    /\ UNCHANGED files
RemoveCatalog ==
    /\ Edited /\ catalog.tables /\ \A p \in Processes : ~Running(p)
    /\ catalog' = [catalog EXCEPT !.tables = FALSE, !.identified = FALSE, !.rows = FALSE,
                                  !.removed = TRUE, !.receipts = [p \in Processes |-> ""]]
    /\ UNCHANGED files

Commands == IF kind = "project" THEN {"init", "init demo", "run"} ELSE {"demo"}
Next ==
    \/ \E p \in Processes :
          \/ \E command \in Commands : Launch(p, command, {})
          \/ journal.tables /\ Launch(p, "reconcile", {})
          \/ \E command \in {"inspect", "replay"}, name \in DOMAIN reports :
                reports[name] # "" /\ Launch(p, command, {name})
          \/ MakeDirectory(p) \/ Create(p) \/ CountRows(p) \/ Seed(p)
          \/ \E file \in Inputs : WriteFile(p, file)
          \/ ReadInput(p) \/ OpenTarget(p) \/ OpenJournal(p)
          \/ Start(p) \/ Decide(p) \/ Prepare(p) \/ Commit(p) \/ Record(p) \/ Complete(p)
          \/ SaveReport(p) \/ Finish(p)
          \/ ListRuns(p) \/ Settle(p) \/ ReadReport(p)
          \/ End(p)
    \/ EditInput \/ LoadRows \/ RemoveCatalog
Spec == Init /\ [][Next]_vars
-----------------------------------------------------------------------------
(* The journal has a run's outcome or, if nobody knows how its commit      *)
(* ended, its operation.                                                   *)
Told(p) ==
    IF proc[p].outcome = "commit_unresolved"
    THEN journal.outcome[p] = "" /\ journal.operation[p] # ""
    ELSE journal.outcome[p] = proc[p].outcome /\ proc[p].outcome # ""

(* What an exit code promises, whatever else runs, is killed or loses its  *)
(* files.  0 of `init': until the user changes something, the project it   *)
(* was asked for is there.  0 of `run': an applied receipt, a completed    *)
(* run and an intact report; 2: an intact report of another outcome.  0 of *)
(* `demo', which says nothing of the outcome: a run the journal tells of,  *)
(* with its receipt.  0 of `inspect' in a project: the intact report of    *)
(* that run; of `replay': of a complete one.  (What the codes of           *)
(* `reconcile' mean is settled in Recovery.)                               *)
Ended(p, commands, code) == proc[p].command \in commands /\ proc[p].exit = code
AsMade(p) ==
    /\ \A f \in Inputs : files[f] = Content(p, f)
    /\ catalog.identified
    /\ proc[p].command = "init demo" => catalog.rows
ReceiptKept(p) == catalog.removed \/ catalog.receipts[p] = "applied"
ExitsMean ==
    \A p \in Processes :
        /\ Ended(p, Inits, "0") /\ edits = 0 => AsMade(p)
        /\ Ended(p, {"run"}, "0") => ReceiptKept(p) /\ journal.outcome[p] = "applied" /\ reports[p] = p
        /\ Ended(p, {"run"}, "2") => reports[p] = p /\ proc[p].outcome # "applied"
        /\ Ended(p, {"demo"}, "0") => Told(p) /\ (proc[p].outcome = "applied" => ReceiptKept(p))
        /\ Ended(p, {"inspect", "replay"}, "0") =>
              \A r \in proc[p].todo \cap Processes :
                  /\ reports[r] = r /\ proc[r].outcome # ""
                  /\ proc[p].command = "replay" => proc[r].outcome \notin Incomplete

(* A run works on a finished project or not at all: while the user has not *)
(* touched it, whoever got past the inputs finds everything `init' makes,  *)
(* sample rows that its candidates are for included; and whoever is in the *)
(* journal has a target with an identity, and `demo' its rows.             *)
FinishedProjectsOnly ==
    \A p \in Processes :
        edits = 0 =>
            /\ proc[p].command = "run" /\ Running(p) /\ proc[p].at >= Place(p, "open target") =>
                  /\ catalog.identified
                  /\ proc[p].plans = "some" => catalog.rows
                  /\ \A f \in Inputs : files[f] \in Good
            /\ journal.state[p] # "" =>
                  catalog.identified /\ (proc[p].command = "demo" => catalog.rows)

(* A report that is intact tells what the journal has for its run.         *)
ReportsTellTheRun ==
    \A name \in DOMAIN reports : reports[name] \in Processes => Told(reports[name])

(* Only the user changes an input file that has its content.  (The report  *)
(* of `demo' has one name for all its runs, and each empties it.)          *)
FilesAreKept ==
    [][edits' = edits => \A f \in Inputs : files[f] \notin {"", "torn"} => files'[f] = files[f]]_vars
=============================================================================
