---------------------------- MODULE ProjectsProofs ----------------------------
(***************************************************************************)
(* What the commands on one directory promise, for any number of processes *)
(* and any changes by the user.                                            *)
(*                                                                         *)
(* The invariant has four parts beside the types: who may be making the    *)
(* project and how far its files are (Making); what is in the target by    *)
(* then, as long as the user left it alone (Equipped); what the journal,   *)
(* the reports and the receipts say of a run at each of its steps and when *)
(* it ended (ToldOf, Reported, Exited); and that a reconciliation only     *)
(* settles runs of the journal (Listed).                                   *)
(***************************************************************************)
EXTENDS Projects, TLAPS

Deciders == {"run", "demo"}
Readers == {"inspect", "replay"}
Names == Processes \cup {"run-report"}
Outcomes == {"", "no_eligible_candidate", "provider_error", "applied", "stale", "commit_unresolved"}
Statuses == {"", "started", "prepared", "completed", "reconciled", "unresolved"}

Steps(command) ==
    IF command \in Inits THEN 12
    ELSE IF command \in Deciders THEN 14
    ELSE IF command = "reconcile" THEN 3 ELSE 1

Commanded == {"", "init", "init demo", "run", "demo", "reconcile", "inspect", "replay"}
Process ==
    [command : Commanded, at : Nat, base : Nat, plans : {"", "some", "none"}, outcome : Outcomes,
     todo : SUBSET (Names \cup (Processes \X Statuses)), unresolved : BOOLEAN, exit : {"", "0", "1", "2"}]
ProcessTyped(p) ==
    /\ proc[p] \in Process
    /\ proc[p].at \in 1 .. Steps(proc[p].command)
    /\ proc[p].command = "" => proc[p].at = 1 /\ proc[p].exit = ""
FilesTyped == files \in [Inputs -> {"", "torn", "bad", "some", "none"}]
CatalogTyped ==
    catalog \in [tables : BOOLEAN, identified : BOOLEAN, rows : BOOLEAN, revision : Nat,
                 removed : BOOLEAN, receipts : [Processes -> {"", "applied", "stale"}]]
JournalTyped ==
    journal \in [tables : BOOLEAN, state : [Processes -> Statuses],
                 operation : [Processes -> {"", "prepared", "applied", "stale", "unresolved"}],
                 outcome : [Processes -> Outcomes]]
ReportsTyped == reports \in [Names -> {"", "torn"} \cup Processes]

Typed ==
    /\ FilesTyped /\ CatalogTyped /\ JournalTyped /\ ReportsTyped
    /\ DOMAIN proc = Processes
    /\ made \in BOOLEAN /\ edits \in Nat
    /\ \A p \in Processes : ProcessTyped(p)

(* One process at most makes the project, and the files are as far as it.  *)
Maker(p) == Running(p) /\ proc[p].command \in Inits /\ proc[p].at > 1
Written(f, at, empty) ==
    /\ at <= empty => files[f] = ""
    /\ at = empty + 1 => files[f] = "torn"
Making ==
    /\ made = FALSE => /\ \A f \in Inputs : files[f] = ""
                       /\ \A p \in Processes : ~Maker(p)
    /\ \A p, q \in Processes : Maker(p) /\ Maker(q) => p = q
    /\ \A p \in Processes :
          Maker(p) => /\ Written("config", proc[p].at, 2)
                      /\ Written("source", proc[p].at, 4)
                      /\ Written("plans", proc[p].at, 10)

(* What is there at which step, until the user changes something.          *)
EquippedFor(p) ==
    LET r == proc[p] IN
    /\ Maker(p) => /\ r.at > 7 => catalog.identified = TRUE
                   /\ r.at > 9 /\ r.command = "init demo" => catalog.rows = TRUE
    /\ Running(p) /\ r.command = "run" =>
          /\ r.at > 1 => files["config"] \in Good
          /\ r.at > 2 => files["source"] \in Good
          /\ r.at > 3 => files["plans"] \in Good /\ (r.plans = "some" => catalog.rows = TRUE)
    /\ Running(p) /\ r.command = "demo" =>
          /\ r.at > 2 => catalog.identified = TRUE
          /\ r.at > 5 => catalog.rows = TRUE
    /\ journal.state[p] # "" =>
          catalog.identified = TRUE /\ (r.command = "demo" => catalog.rows = TRUE)
Equipped ==
    edits = 0 =>
        /\ files["plans"] # "" => catalog.identified = TRUE
        /\ files["plans"] = "some" => catalog.rows = TRUE
        /\ \A p \in Processes : EquippedFor(p)

(* What is told of a run.                                                  *)
Deciding(p) == Running(p) /\ proc[p].command \in Deciders
ToldOf(p) ==
    LET r == proc[p] IN
    /\ r.command = "" => journal.outcome[p] = "" /\ journal.state[p] = ""
    /\ Deciding(p) =>
          /\ r.at <= 11 => journal.outcome[p] = ""
          /\ r.at \in {9, 10} => journal.operation[p] # ""
          /\ r.at = 10 => r.outcome \in {"applied", "stale"}
          /\ r.at = 11 => r.outcome \notin {"", "commit_unresolved"}
          /\ r.at >= 12 => Told(p)
          /\ r.command = "run" /\ r.at = 13 => reports[p] = "torn"
          /\ r.command = "run" /\ r.at = 14 => reports[p] = p
    /\ r.outcome = "applied" => catalog.removed = TRUE \/ catalog.receipts[p] = "applied"
Reported ==
    \A name \in Names : \A p \in Processes :
        reports[name] = p =>
            /\ Told(p) /\ proc[p].command \in Deciders
            /\ Running(p) => proc[p].at = 14
            /\ name \in Processes => name = p
Exited(p) ==
    LET r == proc[p] IN
    /\ r.command = "run" /\ r.exit = "0" => reports[p] = p /\ r.outcome = "applied"
    /\ r.command = "run" /\ r.exit = "2" => reports[p] = p /\ r.outcome # "applied"
    /\ r.command = "demo" /\ r.exit = "0" => Told(p)
    /\ r.command \in Readers =>
          /\ \E name \in Names : r.todo = {name}
          /\ r.exit = "0" => \A name \in r.todo \cap Processes :
                                 /\ reports[name] = name
                                 /\ r.command = "replay" => proc[name].outcome \notin Incomplete

Listed(p) ==
    proc[p].command = "reconcile" =>
        \A row \in proc[p].todo : row[1] \in Processes /\ journal.state[row[1]] # ""

IInv ==
    /\ Typed /\ Making /\ Equipped /\ Reported
    /\ \A p \in Processes : ToldOf(p) /\ Exited(p) /\ Listed(p)
-----------------------------------------------------------------------------
(* Where each step is.                                                     *)
ReconcileSteps == <<"list runs", "settle", "exit">>
ReportSteps == <<"read report">>

LEMMA InitOrder ==
    /\ DOMAIN InitSteps = 1 .. 12
    /\ InitSteps[1] = "make directory" /\ InitSteps[2] = "empty config" /\ InitSteps[3] = "write config"
    /\ InitSteps[4] = "empty source" /\ InitSteps[5] = "write source" /\ InitSteps[6] = "create tables"
    /\ InitSteps[7] = "identify" /\ InitSteps[8] = "count rows" /\ InitSteps[9] = "seed"
    /\ InitSteps[10] = "empty plans" /\ InitSteps[11] = "write plans" /\ InitSteps[12] = "exit"
BY DEF InitSteps

LEMMA RunOrder ==
    /\ DOMAIN RunSteps = 1 .. 14
    /\ RunSteps[1] = "read config" /\ RunSteps[2] = "read source" /\ RunSteps[3] = "read plans"
    /\ RunSteps[4] = "open target" /\ RunSteps[5] = "open journal" /\ RunSteps[6] = "start"
    /\ RunSteps[7] = "decide" /\ RunSteps[8] = "prepare" /\ RunSteps[9] = "commit"
    /\ RunSteps[10] = "record" /\ RunSteps[11] = "complete" /\ RunSteps[12] = "empty report"
    /\ RunSteps[13] = "write report" /\ RunSteps[14] = "exit"
BY DEF RunSteps

LEMMA DemoOrder ==
    /\ DOMAIN DemoSteps = 1 .. 14
    /\ DemoSteps[1] = "create tables" /\ DemoSteps[2] = "identify" /\ DemoSteps[3] = "open journal"
    /\ DemoSteps[4] = "count rows" /\ DemoSteps[5] = "seed" /\ DemoSteps[6] = "start"
    /\ DemoSteps[7] = "decide" /\ DemoSteps[8] = "prepare" /\ DemoSteps[9] = "commit"
    /\ DemoSteps[10] = "record" /\ DemoSteps[11] = "complete" /\ DemoSteps[12] = "empty report"
    /\ DemoSteps[13] = "write report" /\ DemoSteps[14] = "exit"
BY DEF DemoSteps

LEMMA UpTo12 ==
    \A i \in 1 .. 12 :
        i = 1 \/ i = 2 \/ i = 3 \/ i = 4 \/ i = 5 \/ i = 6 \/ i = 7
        \/ i = 8 \/ i = 9 \/ i = 10 \/ i = 11 \/ i = 12
OBVIOUS

LEMMA UpTo14 ==
    \A i \in 1 .. 14 :
        i = 1 \/ i = 2 \/ i = 3 \/ i = 4 \/ i = 5 \/ i = 6 \/ i = 7
        \/ i = 8 \/ i = 9 \/ i = 10 \/ i = 11 \/ i = 12 \/ i = 13 \/ i = 14
OBVIOUS

(* The command and the position of a process at a step.                    *)
IsAt(p, step) ==
    /\ step = "make directory" =>
          proc[p].command \in Inits /\ proc[p].at = 1
    /\ step = "empty config" =>
          proc[p].command \in Inits /\ proc[p].at = 2
    /\ step = "write config" =>
          proc[p].command \in Inits /\ proc[p].at = 3
    /\ step = "empty source" =>
          proc[p].command \in Inits /\ proc[p].at = 4
    /\ step = "write source" =>
          proc[p].command \in Inits /\ proc[p].at = 5
    /\ step = "create tables" =>
          (proc[p].command \in Inits /\ proc[p].at = 6) \/ (proc[p].command = "demo" /\ proc[p].at = 1)
    /\ step = "identify" =>
          (proc[p].command \in Inits /\ proc[p].at = 7) \/ (proc[p].command = "demo" /\ proc[p].at = 2)
    /\ step = "count rows" =>
          (proc[p].command \in Inits /\ proc[p].at = 8) \/ (proc[p].command = "demo" /\ proc[p].at = 4)
    /\ step = "seed" =>
          (proc[p].command \in Inits /\ proc[p].at = 9) \/ (proc[p].command = "demo" /\ proc[p].at = 5)
    /\ step = "empty plans" =>
          proc[p].command \in Inits /\ proc[p].at = 10
    /\ step = "write plans" =>
          proc[p].command \in Inits /\ proc[p].at = 11
    /\ step = "exit" =>
          (proc[p].command \in Inits /\ proc[p].at = 12) \/ (proc[p].command \in Deciders /\ proc[p].at = 14) \/ (proc[p].command = "reconcile" /\ proc[p].at = 3)
    /\ step = "read config" =>
          proc[p].command = "run" /\ proc[p].at = 1
    /\ step = "read source" =>
          proc[p].command = "run" /\ proc[p].at = 2
    /\ step = "read plans" =>
          proc[p].command = "run" /\ proc[p].at = 3
    /\ step = "open target" =>
          proc[p].command = "run" /\ proc[p].at = 4
    /\ step = "open journal" =>
          (proc[p].command = "run" /\ proc[p].at = 5) \/ (proc[p].command = "demo" /\ proc[p].at = 3)
    /\ step = "start" =>
          proc[p].command \in Deciders /\ proc[p].at = 6
    /\ step = "decide" =>
          proc[p].command \in Deciders /\ proc[p].at = 7
    /\ step = "prepare" =>
          proc[p].command \in Deciders /\ proc[p].at = 8
    /\ step = "commit" =>
          proc[p].command \in Deciders /\ proc[p].at = 9
    /\ step = "record" =>
          proc[p].command \in Deciders /\ proc[p].at = 10
    /\ step = "complete" =>
          proc[p].command \in Deciders /\ proc[p].at = 11
    /\ step = "empty report" =>
          proc[p].command \in Deciders /\ proc[p].at = 12
    /\ step = "write report" =>
          proc[p].command \in Deciders /\ proc[p].at = 13
    /\ step = "list runs" =>
          proc[p].command = "reconcile" /\ proc[p].at = 1
    /\ step = "settle" =>
          proc[p].command = "reconcile" /\ proc[p].at = 2
    /\ step = "read report" =>
          proc[p].command \in {"inspect", "replay"} /\ proc[p].at = 1

LEMMA Orders ==
    ASSUME NEW command
    PROVE  /\ command \in Inits => Order(command) = InitSteps /\ Steps(command) = 12
           /\ command = "run" => Order(command) = RunSteps /\ Steps(command) = 14
           /\ command = "demo" => Order(command) = DemoSteps /\ Steps(command) = 14
           /\ command = "reconcile" => Order(command) = ReconcileSteps /\ Steps(command) = 3
           /\ command \in {"inspect", "replay"} => Order(command) = ReportSteps /\ Steps(command) = 1
<1>1. ASSUME command \in Inits PROVE Order(command) = InitSteps /\ Steps(command) = 12
  BY <1>1 DEF Order, Steps, Inits
<1>2. ASSUME command = "run" PROVE Order(command) = RunSteps /\ Steps(command) = 14
  BY <1>2 DEF Order, Steps, Inits, Deciders
<1>3. ASSUME command = "demo" PROVE Order(command) = DemoSteps /\ Steps(command) = 14
  BY <1>3 DEF Order, Steps, Inits, Deciders
<1>4. ASSUME command = "reconcile"
      PROVE  Order(command) = ReconcileSteps /\ Steps(command) = 3
  BY <1>4 DEF Order, Steps, Inits, Deciders, ReconcileSteps
<1>5. ASSUME command \in {"inspect", "replay"}
      PROVE  Order(command) = ReportSteps /\ Steps(command) = 1
  BY <1>5 DEF Order, Steps, Inits, Deciders, ReportSteps
<1> QED
  BY <1>1, <1>2, <1>3, <1>4, <1>5

LEMMA Places ==
    ASSUME Typed, NEW p \in Processes, NEW step, At(p, step)
    PROVE  IsAt(p, step)
<1>1. PICK command, at, order : command = proc[p].command /\ at = proc[p].at /\ order = Order(command)
  OBVIOUS
<1>2. /\ command \in {"init", "init demo", "run", "demo", "reconcile", "inspect", "replay"}
      /\ at \in 1 .. Steps(command) /\ order[at] = step
  BY <1>1 DEF At, Running, Typed, ProcessTyped, Process, Commanded
<1>3. CASE command \in Inits
  <2>1. InitSteps[at] = step /\ at \in 1 .. 12
    BY <1>1, <1>2, <1>3, Orders
  <2> QED
    BY <1>1, <1>3, <2>1, UpTo12, InitOrder DEF IsAt
<1>4. CASE command = "run"
  <2>1. RunSteps[at] = step /\ at \in 1 .. 14
    BY <1>1, <1>2, <1>4, Orders
  <2> QED
    BY <1>1, <1>4, <2>1, UpTo14, RunOrder DEF IsAt, Deciders
<1>5. CASE command = "demo"
  <2>1. DemoSteps[at] = step /\ at \in 1 .. 14
    BY <1>1, <1>2, <1>5, Orders
  <2> QED
    BY <1>1, <1>5, <2>1, UpTo14, DemoOrder DEF IsAt, Deciders
<1>6. CASE command = "reconcile"
  <2>1. ReconcileSteps[at] = step /\ at \in 1 .. 3
    BY <1>1, <1>2, <1>6, Orders
  <2>2. at = 1 \/ at = 2 \/ at = 3
    BY <2>1
  <2> QED
    <3>1. step = IF at = 1 THEN "list runs" ELSE IF at = 2 THEN "settle" ELSE "exit"
      <4>1. ReconcileSteps[1] = "list runs" /\ ReconcileSteps[2] = "settle" /\ ReconcileSteps[3] = "exit"
        BY DEF ReconcileSteps
      <4> QED
        BY <2>1, <2>2, <4>1
    <3> QED
      BY <1>1, <1>6, <2>2, <3>1 DEF IsAt
<1>7. CASE command \in {"inspect", "replay"}
  <2>1. order = ReportSteps /\ Steps(command) = 1
    BY <1>1, <1>7, Orders
  <2>2. at = 1
    <3>1. at \in 1 .. 1
      BY <1>2, <2>1
    <3> QED
      BY <3>1
  <2> QED
    <3>1. ReportSteps[1] = "read report"
      BY DEF ReportSteps
    <3>2. step = "read report"
      BY <1>2, <2>1, <2>2, <3>1
    <3> QED
      BY <1>1, <1>7, <2>2, <3>2 DEF IsAt
<1> QED
  BY <1>2, <1>3, <1>4, <1>5, <1>6, <1>7 DEF Inits

(* The places that a decision jumps to.                                    *)
LEMMA Jumps ==
    ASSUME NEW p \in Processes, proc[p].command \in Deciders
    PROVE  Place(p, "complete") = 11 /\ Place(p, "empty report") = 12
<1>1. PICK order : order = Order(proc[p].command)
  OBVIOUS
<1>2. order = RunSteps \/ order = DemoSteps
  BY <1>1, Orders DEF Deciders
<1>3. /\ 11 \in DOMAIN order /\ order[11] = "complete"
      /\ 12 \in DOMAIN order /\ order[12] = "empty report"
      /\ DOMAIN order \subseteq 1 .. 14
  <2>1. /\ 11 \in DOMAIN RunSteps /\ RunSteps[11] = "complete"
        /\ 12 \in DOMAIN RunSteps /\ RunSteps[12] = "empty report"
        /\ DOMAIN RunSteps \subseteq 1 .. 14
    BY DEF RunSteps
  <2>2. /\ 11 \in DOMAIN DemoSteps /\ DemoSteps[11] = "complete"
        /\ 12 \in DOMAIN DemoSteps /\ DemoSteps[12] = "empty report"
        /\ DOMAIN DemoSteps \subseteq 1 .. 14
    BY DEF DemoSteps
  <2> QED
    BY <1>2, <2>1, <2>2
<1>4. \A i \in 1 .. 14 : order[i] = "complete" => i = 11
  <2>1. \A i \in 1 .. 14 : RunSteps[i] = "complete" => i = 11
    BY RunOrder, UpTo14
  <2>2. \A i \in 1 .. 14 : DemoSteps[i] = "complete" => i = 11
    BY DemoOrder, UpTo14
  <2> QED
    BY <1>2, <2>1, <2>2
<1>5. \A i \in 1 .. 14 : order[i] = "empty report" => i = 12
  <2>1. \A i \in 1 .. 14 : RunSteps[i] = "empty report" => i = 12
    BY RunOrder, UpTo14
  <2>2. \A i \in 1 .. 14 : DemoSteps[i] = "empty report" => i = 12
    BY DemoOrder, UpTo14
  <2> QED
    BY <1>2, <2>1, <2>2
<1>6. (CHOOSE i \in DOMAIN order : order[i] = "complete") = 11
  BY <1>3, <1>4
<1>7. (CHOOSE i \in DOMAIN order : order[i] = "empty report") = 12
  BY <1>3, <1>5
<1> QED
  BY <1>1, <1>6, <1>7 DEF Place
-----------------------------------------------------------------------------
(* What a step makes of its process.                                       *)
Changed(p) ==
    /\ DOMAIN proc' = Processes
    /\ \A q \in Processes \ {p} : proc'[q] = proc[q]
Becomes(p, command, at, plans, outcome, todo, exit) ==
    /\ Changed(p) /\ ProcessTyped(p)'
    /\ proc'[p].command = command /\ proc'[p].at = at /\ proc'[p].plans = plans
    /\ proc'[p].outcome = outcome /\ proc'[p].todo = todo /\ proc'[p].exit = exit

LEMMA Became ==
    ASSUME Typed, NEW p \in Processes, NEW r \in Process,
           r.at \in 1 .. Steps(r.command), r.command = "" => r.at = 1 /\ r.exit = "",
           proc' = [proc EXCEPT ![p] = r]
    PROVE  Becomes(p, r.command, r.at, r.plans, r.outcome, r.todo, r.exit)
<1>1. Changed(p) /\ proc'[p] = r
  BY DEF Changed, Typed
<1> QED
  BY <1>1 DEF Becomes, ProcessTyped

LEMMA Stepped ==
    ASSUME Typed, NEW p \in Processes, Step(p), proc[p].at < Steps(proc[p].command)
    PROVE  Becomes(p, proc[p].command, proc[p].at + 1, proc[p].plans, proc[p].outcome, proc[p].todo, proc[p].exit)
<1>1. PICK r : r = proc[p]
  OBVIOUS
<1>2. PICK at : at = r.at + 1
  OBVIOUS
<1>3. PICK n : n = Steps(r.command)
  OBVIOUS
<1>4. r \in Process /\ r.at \in Nat /\ n \in Nat /\ r.at \in 1 .. n /\ r.at < n
  <2>1. r \in Process /\ r.at \in 1 .. n
    BY <1>1, <1>3 DEF Typed, ProcessTyped
  <2>2. Steps(r.command) \in Nat
    BY DEF Steps
  <2> QED
    BY <1>1, <1>3, <2>1, <2>2
<1>5. at \in Nat /\ at \in 1 .. n
  BY <1>2, <1>4
<1>6. r.command # ""
  <2>1. r.command = "" => n = 1
    BY <1>3 DEF Steps, Inits, Deciders
  <2>2. n # 1
    BY <1>4
  <2> QED
    BY <2>1, <2>2
<1>7. PICK t : t = [r EXCEPT !.at = at]
  OBVIOUS
<1>8. /\ t \in Process /\ t.at = at /\ t.command = r.command /\ t.plans = r.plans
      /\ t.outcome = r.outcome /\ t.todo = r.todo /\ t.exit = r.exit
  BY <1>4, <1>5, <1>7 DEF Process
<1>9. proc' = [proc EXCEPT ![p] = t]
  BY <1>1, <1>2, <1>7 DEF Step
<1>10. t.at \in 1 .. Steps(t.command)
  BY <1>3, <1>5, <1>8
<1>11. Becomes(p, t.command, t.at, t.plans, t.outcome, t.todo, t.exit)
  BY <1>6, <1>8, <1>9, <1>10, Became
<1> QED
  BY <1>1, <1>2, <1>8, <1>11

LEMMA Left ==
    ASSUME Typed, NEW p \in Processes, Running(p), NEW code \in {"0", "1", "2"}, Exit(p, code)
    PROVE  Becomes(p, proc[p].command, 1, "", proc[p].outcome, proc[p].todo, code)
<1>1. PICK r : r = proc[p]
  OBVIOUS
<1>2. r \in Process
  BY <1>1 DEF Typed, ProcessTyped
<1>3. PICK t : t = [r EXCEPT !.exit = code, !.at = 1, !.base = 0, !.plans = ""]
  OBVIOUS
<1>4. /\ t \in Process /\ t.at = 1 /\ t.command = r.command /\ t.plans = ""
      /\ t.outcome = r.outcome /\ t.todo = r.todo /\ t.exit = code
  BY <1>2, <1>3 DEF Process
<1>5. 1 \in 1 .. Steps(t.command)
  BY DEF Steps
<1>6. proc' = [proc EXCEPT ![p] = t]
  BY <1>1, <1>3 DEF Exit, Typed
<1>7. t.command # ""
  BY <1>1, <1>4 DEF Running
<1>8. Becomes(p, t.command, t.at, t.plans, t.outcome, t.todo, t.exit)
  BY <1>4, <1>5, <1>6, <1>7, Became
<1> QED
  BY <1>1, <1>4, <1>8
-----------------------------------------------------------------------------
(* What a step of p leaves of the invariant, for the others and for what   *)
(* the step does not concern.                                              *)
(* The target only gains, the journal only grows, and what is in them of   *)
(* other runs stays.                                                       *)
CatalogGrows(p) ==
    /\ CatalogTyped'
    /\ catalog.identified = TRUE => catalog'.identified = TRUE
    /\ catalog.rows = TRUE => catalog'.rows = TRUE
    /\ catalog.removed = TRUE => catalog'.removed = TRUE
    /\ \A q \in Processes \ {p} : catalog'.receipts[q] = catalog.receipts[q]
JournalGrows(p) ==
    /\ JournalTyped'
    /\ \A q \in Processes : journal.state[q] # "" => journal'.state[q] # ""
    /\ \A q \in Processes : journal.operation[q] # "" => journal'.operation[q] # ""
    /\ \A q \in Processes \ {p} :
          /\ journal'.state[q] # "" => journal.state[q] # ""
          /\ journal'.outcome[q] = journal.outcome[q]
Reporting(p) == \E name \in Names : reports[name] = p

LEMMA MakingKept ==
    ASSUME Making, NEW p \in Processes, Changed(p), made' = made, files' = files,
           Maker(p)' => Maker(p) /\ proc[p].at \in 6 .. 10 /\ proc'[p].at \in 6 .. 10
    PROVE  Making'
<1>1. \A q \in Processes : q # p => (Maker(q)' <=> Maker(q)) /\ proc'[q] = proc[q]
  BY DEF Changed, Maker, Running
<1>2. \A q \in Processes : Maker(q)' => Maker(q)
  BY <1>1
<1>3. made' = FALSE => /\ \A f \in Inputs : files'[f] = ""
                       /\ \A q \in Processes : ~Maker(q)'
  BY <1>2 DEF Making
<1>4. \A q, r \in Processes : Maker(q)' /\ Maker(r)' => q = r
  BY <1>2 DEF Making
<1>5. ASSUME NEW q \in Processes, Maker(q)'
      PROVE  /\ Written("config", proc[q].at, 2)'
             /\ Written("source", proc[q].at, 4)'
             /\ Written("plans", proc[q].at, 10)'
  <2>1. CASE q # p
    BY <1>1, <1>5, <2>1 DEF Making, Written
  <2>2. CASE q = p
    <3>1. PICK at, next : at = proc[p].at /\ next = proc'[p].at
      OBVIOUS
    <3>2. Maker(p) /\ at \in 6 .. 10 /\ next \in 6 .. 10
      BY <1>5, <2>2, <3>1
    <3>3. at <= 10 /\ ~(next <= 2) /\ ~(next = 2 + 1) /\ ~(next <= 4) /\ ~(next = 4 + 1) /\ ~(next = 10 + 1)
      BY <3>2
    <3>4. files["plans"] = ""
      BY <3>1, <3>2, <3>3 DEF Making, Written
    <3> QED
      BY <2>2, <3>1, <3>3, <3>4 DEF Written
  <2> QED
    BY <2>1, <2>2
<1> QED
  BY <1>3, <1>4, <1>5 DEF Making

LEMMA EquippedKept ==
    ASSUME Equipped, NEW p \in Processes, Changed(p), edits' = edits, files' = files,
           CatalogGrows(p), JournalGrows(p), edits = 0 => EquippedFor(p)'
    PROVE  Equipped'
<1> SUFFICES ASSUME edits = 0 PROVE Equipped'
  BY DEF Equipped
<1>1. /\ files["plans"] # "" => catalog.identified = TRUE
      /\ files["plans"] = "some" => catalog.rows = TRUE
      /\ \A q \in Processes : EquippedFor(q)
  BY DEF Equipped
<1>2. ASSUME NEW q \in Processes, q # p PROVE EquippedFor(q)'
  <2>1. EquippedFor(q) /\ proc'[q] = proc[q] /\ (Maker(q)' <=> Maker(q)) /\ (Running(q)' <=> Running(q))
    BY <1>1, <1>2 DEF Changed, Maker, Running
  <2> QED
    BY <1>2, <2>1 DEF EquippedFor, CatalogGrows, JournalGrows
<1> QED
  BY <1>1, <1>2 DEF Equipped, CatalogGrows

LEMMA ToldKept ==
    ASSUME Typed, NEW p \in Processes, Changed(p), CatalogGrows(p), JournalGrows(p),
           NEW q \in Processes, q # p, ToldOf(q), reports'[q] = reports[q]
    PROVE  ToldOf(q)'
<1>1. proc'[q] = proc[q] /\ (Deciding(q)' <=> Deciding(q))
  BY DEF Changed, Deciding, Running
<1>2. Told(q) => Told(q)'
  BY <1>1 DEF Told, JournalGrows
<1> QED
  BY <1>1, <1>2 DEF ToldOf, CatalogGrows, JournalGrows

LEMMA ReportedKept ==
    ASSUME Reported, NEW p \in Processes, Changed(p), JournalGrows(p), reports' = reports,
           Reporting(p) => /\ proc'[p].command = proc[p].command /\ proc'[p].outcome = proc[p].outcome
                           /\ journal'.outcome[p] = journal.outcome[p] /\ ~Running(p)'
    PROVE  Reported'
<1> SUFFICES ASSUME NEW name \in Names, NEW q \in Processes, reports[name] = q
             PROVE  /\ Told(q)' /\ proc'[q].command \in Deciders
                    /\ Running(q)' => proc'[q].at = 14
                    /\ name \in Processes => name = q
  BY DEF Reported
<1>1. /\ Told(q) /\ proc[q].command \in Deciders
      /\ Running(q) => proc[q].at = 14
      /\ name \in Processes => name = q
  BY DEF Reported
<1>2. CASE q # p
  <2>1. proc'[q] = proc[q] /\ (Running(q)' <=> Running(q)) /\ journal'.outcome[q] = journal.outcome[q]
    BY <1>2 DEF Changed, Running, JournalGrows
  <2> QED
    BY <1>1, <2>1 DEF Told, JournalGrows
<1>3. CASE q = p
  <2>1. /\ proc'[q].command = proc[q].command /\ proc'[q].outcome = proc[q].outcome
        /\ journal'.outcome[q] = journal.outcome[q] /\ ~Running(q)'
    BY <1>3 DEF Reporting
  <2> QED
    BY <1>1, <2>1 DEF Told, JournalGrows
<1> QED
  BY <1>2, <1>3

LEMMA ExitedKept ==
    ASSUME NEW p \in Processes, Changed(p), JournalGrows(p), NEW q \in Processes, q # p, Exited(q),
           \A r \in Processes : reports[r] = r => reports'[r] = r /\ proc'[r].outcome = proc[r].outcome
    PROVE  Exited(q)'
<1>1. proc'[q] = proc[q]
  BY DEF Changed
<1>2. Told(q) => Told(q)'
  BY <1>1 DEF Told, JournalGrows
<1> QED
  BY <1>1, <1>2 DEF Exited

LEMMA ListedKept ==
    ASSUME NEW p \in Processes, Changed(p), JournalGrows(p), NEW q \in Processes, q # p, Listed(q)
    PROVE  Listed(q)'
<1>1. proc'[q] = proc[q]
  BY DEF Changed
<1> QED
  BY <1>1 DEF Listed, JournalGrows

(* A step of p that leaves the reports alone; then one that leaves the     *)
(* files alone too.                                                        *)
LEMMA Rest ==
    ASSUME IInv, NEW p \in Processes, Changed(p), ProcessTyped(p)',
           made' \in BOOLEAN, FilesTyped', edits' = edits, reports' = reports,
           CatalogGrows(p), JournalGrows(p), Making', Equipped',
           Reporting(p) => /\ proc'[p].command = proc[p].command /\ proc'[p].outcome = proc[p].outcome
                           /\ journal'.outcome[p] = journal.outcome[p] /\ ~Running(p)',
           ToldOf(p)', Exited(p)', Listed(p)'
    PROVE  IInv'
<1>1. Typed'
  <2>1. \A q \in Processes \ {p} : proc'[q] = proc[q]
    BY DEF Changed
  <2>2. \A q \in Processes \ {p} : ProcessTyped(q)'
    BY <2>1 DEF IInv, Typed, ProcessTyped
  <2> QED
    BY <2>2 DEF IInv, Typed, Changed, CatalogGrows, JournalGrows, ReportsTyped
<1>2. Reported'
  BY ReportedKept DEF IInv
<1>3. \A r \in Processes : reports[r] = r => reports'[r] = r /\ proc'[r].outcome = proc[r].outcome
  BY DEF Reporting, Changed, Names
<1>4. ASSUME NEW q \in Processes, q # p PROVE ToldOf(q)' /\ Exited(q)' /\ Listed(q)'
  <2>1. ToldOf(q)'
    BY <1>4, ToldKept DEF IInv
  <2>2. Exited(q)'
    BY <1>3, <1>4, ExitedKept DEF IInv
  <2>3. Listed(q)'
    BY <1>4, ListedKept DEF IInv
  <2> QED
    BY <2>1, <2>2, <2>3
<1> QED
  BY <1>1, <1>2, <1>4 DEF IInv

LEMMA Frame ==
    ASSUME IInv, NEW p \in Processes, Changed(p), ProcessTyped(p)',
           made' = made, files' = files, edits' = edits, reports' = reports,
           CatalogGrows(p), JournalGrows(p),
           Maker(p)' => Maker(p) /\ proc[p].at \in 6 .. 10 /\ proc'[p].at \in 6 .. 10,
           Reporting(p) => /\ proc'[p].command = proc[p].command /\ proc'[p].outcome = proc[p].outcome
                           /\ journal'.outcome[p] = journal.outcome[p] /\ ~Running(p)',
           edits = 0 => EquippedFor(p)',
           ToldOf(p)', Exited(p)', Listed(p)'
    PROVE  IInv'
<1>1. Making'
  BY MakingKept DEF IInv
<1>2. Equipped'
  BY EquippedKept DEF IInv
<1>3. made' \in BOOLEAN /\ FilesTyped'
  BY DEF IInv, Typed, FilesTyped
<1> QED
  BY <1>1, <1>2, <1>3, Rest

LEMMA Still ==
    ASSUME IInv, NEW p \in Processes
    PROVE  /\ catalog' = catalog => CatalogGrows(p)
           /\ journal' = journal => JournalGrows(p)
BY DEF IInv, Typed, CatalogGrows, JournalGrows, CatalogTyped, JournalTyped

(* Only a run or demo that is at its exit or past it has a report.         *)
LEMMA NotReporting ==
    ASSUME IInv, NEW p \in Processes, Reporting(p)
    PROVE  proc[p].command \in Deciders /\ (Running(p) => proc[p].at = 14)
BY DEF IInv, Reported, Reporting

(* A process that ends, with an error or not.                              *)
LEMMA Leaves ==
    ASSUME IInv, NEW p \in Processes, Running(p), NEW code \in {"0", "1", "2"}, Exit(p, code),
           UNCHANGED <<made, files, edits, reports, catalog, journal>>, Exited(p)'
    PROVE  IInv'
<1>1. Becomes(p, proc[p].command, 1, "", proc[p].outcome, proc[p].todo, code)
  BY Left DEF IInv
<1>2. ~Running(p)' /\ proc[p].command # ""
  BY <1>1 DEF Becomes, Running
<1>3. ToldOf(p)'
  BY <1>1, <1>2 DEF IInv, ToldOf, Becomes, Deciding
<1>4. Listed(p)'
  BY <1>1 DEF IInv, Listed, Becomes
<1>5. edits = 0 => EquippedFor(p)'
  BY <1>1, <1>2 DEF IInv, Equipped, EquippedFor, Becomes, Maker
<1>6. ~Maker(p)'
  BY <1>2 DEF Maker
<1>7. CatalogGrows(p) /\ JournalGrows(p)
  BY Still
<1> QED
  BY <1>1, <1>2, <1>3, <1>4, <1>5, <1>6, <1>7, Frame DEF Becomes

LEMMA Fails ==
    ASSUME IInv, NEW p \in Processes, Running(p), Exit(p, "1"),
           UNCHANGED <<made, files, edits, reports, catalog, journal>>
    PROVE  IInv'
<1>1. Becomes(p, proc[p].command, 1, "", proc[p].outcome, proc[p].todo, "1")
  BY Left DEF IInv
<1>2. Exited(p)'
  BY <1>1 DEF IInv, Exited, Becomes
<1> QED
  BY <1>2, Leaves
(* What the invariant says of one process.                                 *)
LEMMA Facts ==
    ASSUME IInv, NEW p \in Processes
    PROVE  /\ Typed /\ ProcessTyped(p) /\ proc[p].at \in Nat
           /\ ToldOf(p) /\ Exited(p) /\ Listed(p) /\ (edits = 0 => EquippedFor(p))
BY DEF IInv, Typed, Equipped, ProcessTyped, Process

(* A step within a command.                                                *)
Goes(p) ==
    /\ Changed(p) /\ ProcessTyped(p)'
    /\ proc'[p].command = proc[p].command /\ proc'[p].exit = "" /\ proc[p].exit = ""
    /\ Running(p) /\ Running(p)'

LEMMA Walked ==
    ASSUME IInv, NEW p \in Processes, Running(p), Step(p), proc[p].at < Steps(proc[p].command)
    PROVE  /\ Goes(p) /\ proc'[p].at = proc[p].at + 1 /\ proc'[p].plans = proc[p].plans
           /\ proc'[p].outcome = proc[p].outcome /\ proc'[p].todo = proc[p].todo
BY Stepped, Facts DEF Running, Becomes, Goes

LEMMA Advances ==
    ASSUME IInv, NEW p \in Processes, Goes(p),
           proc[p].command \in Deciders => proc[p].at # 14,
           UNCHANGED <<made, files, edits, reports>>, CatalogGrows(p), JournalGrows(p),
           Maker(p)' => Maker(p) /\ proc[p].at \in 6 .. 10 /\ proc'[p].at \in 6 .. 10,
           edits = 0 => EquippedFor(p)',
           ToldOf(p)', proc[p].command \notin Readers, Listed(p)'
    PROVE  IInv'
<1>1. ~Reporting(p)
  BY NotReporting DEF Goes
<1>2. Exited(p)'
  BY DEF Exited, Goes
<1> QED
  BY <1>1, <1>2, Frame DEF Goes

(* A step before anything is prepared.                                     *)
LEMMA Early ==
    ASSUME IInv, NEW p \in Processes, Goes(p), NEW command, NEW at \in Nat, NEW next \in Nat,
           command \in Inits \/ command \in Deciders,
           proc[p].command = command, proc[p].at = at, proc'[p].at = next,
           proc'[p].outcome = proc[p].outcome,
           command \in Inits => at \in 6 .. 10 /\ next \in 6 .. 10,
           command \in Deciders => at <= 8 /\ next <= 8,
           UNCHANGED <<made, files, edits, reports>>, CatalogGrows(p), JournalGrows(p),
           catalog'.receipts[p] = catalog.receipts[p], journal'.outcome[p] = journal.outcome[p],
           edits = 0 => EquippedFor(p)'
    PROVE  IInv'
<1>1. /\ Running(p) /\ Running(p)' /\ proc'[p].command = command
  BY DEF Goes
<1>2. ToldOf(p)'
  <2>1. proc[p].outcome = "applied" => catalog'.removed = TRUE \/ catalog'.receipts[p] = "applied"
    BY Facts DEF ToldOf, CatalogGrows
  <2>2. command # ""
    BY DEF Inits, Deciders
  <2>3. CASE command \in Inits
    <3>1. ~Deciding(p)'
      BY <1>1, <2>3 DEF Deciding, Inits, Deciders
    <3> QED
      BY <1>1, <2>1, <2>2, <3>1 DEF ToldOf
  <2>4. CASE command \in Deciders
    <3>1. at <= 11 /\ next <= 8
      BY <2>4
    <3>2. journal.outcome[p] = ""
      BY <1>1, <2>4, <3>1, Facts DEF ToldOf, Deciding
    <3>3. next \notin {9, 10} /\ next # 10 /\ next # 11 /\ ~(next >= 12) /\ next # 13 /\ next # 14
      BY <3>1
    <3> QED
      BY <1>1, <2>1, <2>2, <3>2, <3>3 DEF ToldOf
  <2> QED
    BY <2>3, <2>4
<1>3. command \notin Readers /\ command # "reconcile"
  BY DEF Inits, Deciders, Readers
<1>4. Listed(p)'
  BY <1>1, <1>3 DEF Listed
<1>5. Maker(p)' => Maker(p) /\ proc[p].at \in 6 .. 10 /\ proc'[p].at \in 6 .. 10
  BY <1>1 DEF Maker
<1>6. proc[p].command \in Deciders => proc[p].at # 14
  OBVIOUS
<1> QED
  BY <1>2, <1>3, <1>4, <1>5, <1>6, Advances
LEMMA InitsEarly ==
    ASSUME IInv, NEW p \in Processes, Goes(p), proc'[p].outcome = proc[p].outcome,
           proc[p].command \in Inits, proc[p].at \in 6 .. 10, proc'[p].at \in 6 .. 10,
           UNCHANGED <<made, files, edits, reports>>, CatalogGrows(p), JournalGrows(p),
           catalog'.receipts[p] = catalog.receipts[p], journal'.outcome[p] = journal.outcome[p],
           edits = 0 => EquippedFor(p)'
    PROVE  IInv'
<1>1. PICK command : command = proc[p].command
  OBVIOUS
<1>2. PICK at \in Nat : at = proc[p].at
  OBVIOUS
<1>3. PICK next \in Nat : next = proc'[p].at
  OBVIOUS
<1>4. command \in Inits /\ command \notin Deciders
  BY <1>1 DEF Inits, Deciders
<1>5. at \in 6 .. 10 /\ next \in 6 .. 10
  BY <1>2, <1>3
<1> QED
  BY <1>1, <1>2, <1>3, <1>4, <1>5, Early

LEMMA DecidersEarly ==
    ASSUME IInv, NEW p \in Processes, Goes(p), proc'[p].outcome = proc[p].outcome,
           proc[p].command \in Deciders, proc[p].at \in 1 .. 8, proc'[p].at \in 1 .. 8,
           UNCHANGED <<made, files, edits, reports>>, CatalogGrows(p), JournalGrows(p),
           catalog'.receipts[p] = catalog.receipts[p], journal'.outcome[p] = journal.outcome[p],
           edits = 0 => EquippedFor(p)'
    PROVE  IInv'
<1>1. PICK command : command = proc[p].command
  OBVIOUS
<1>2. PICK at \in Nat : at = proc[p].at
  OBVIOUS
<1>3. PICK next \in Nat : next = proc'[p].at
  OBVIOUS
<1>4. command \in Deciders /\ command \notin Inits
  BY <1>1 DEF Inits, Deciders
<1>5. at <= 8 /\ next <= 8
  BY <1>2, <1>3
<1> QED
  BY <1>1, <1>2, <1>3, <1>4, <1>5, Early

LEMMA InitWalks ==
    ASSUME IInv, NEW p \in Processes, Running(p), Step(p), proc[p].command \in Inits, proc[p].at \in 1 .. 11
    PROVE  /\ Goes(p) /\ proc'[p].at = proc[p].at + 1 /\ proc'[p].plans = proc[p].plans
           /\ proc'[p].outcome = proc[p].outcome /\ proc'[p].todo = proc[p].todo
<1>1. Steps(proc[p].command) = 12
  BY Orders
<1> QED
  BY <1>1, Walked

LEMMA DeciderWalks ==
    ASSUME IInv, NEW p \in Processes, Running(p), Step(p), proc[p].command \in Deciders, proc[p].at \in 1 .. 13
    PROVE  /\ Goes(p) /\ proc'[p].at = proc[p].at + 1 /\ proc'[p].plans = proc[p].plans
           /\ proc'[p].outcome = proc[p].outcome /\ proc'[p].todo = proc[p].todo
<1>1. Steps(proc[p].command) = 14
  BY Orders DEF Deciders
<1> QED
  BY <1>1, Walked

(* A run past its inputs, or a demo past its seed, stays equipped.         *)
LEMMA DeciderEquipped ==
    ASSUME IInv, edits = 0, NEW p \in Processes, Goes(p),
           (proc[p].command = "run" /\ proc[p].at > 3) \/ (proc[p].command = "demo" /\ proc[p].at > 5),
           proc'[p].plans = proc[p].plans, files' = files, CatalogGrows(p)
    PROVE  EquippedFor(p)'
<1>1. PICK at \in Nat : at = proc[p].at
  BY Facts
<1>2. ~Maker(p)' /\ Running(p) /\ proc'[p].command = proc[p].command
  BY DEF Goes, Maker, Inits
<1>3. EquippedFor(p)
  BY Facts
<1>4. CASE proc[p].command = "run" /\ proc[p].at > 3
  <2>1. at > 1 /\ at > 2 /\ at > 3
    BY <1>1, <1>4
  <2>2. /\ files["config"] \in Good /\ files["source"] \in Good /\ files["plans"] \in Good
        /\ proc[p].plans = "some" => catalog.rows = TRUE
    BY <1>1, <1>2, <1>3, <1>4, <2>1 DEF EquippedFor
  <2>3. files["plans"] # ""
    BY <2>2 DEF Good
  <2>4. catalog'.identified = TRUE /\ (proc[p].plans = "some" => catalog'.rows = TRUE)
    BY <2>2, <2>3 DEF IInv, Equipped, CatalogGrows
  <2>5. proc'[p].command = "run"
    BY <1>2, <1>4
  <2> QED
    BY <1>2, <2>2, <2>4, <2>5 DEF EquippedFor
<1>5. CASE proc[p].command = "demo" /\ proc[p].at > 5
  <2>1. at > 2 /\ at > 5
    BY <1>1, <1>5
  <2>2. catalog'.identified = TRUE /\ catalog'.rows = TRUE
    BY <1>1, <1>2, <1>3, <1>5, <2>1 DEF EquippedFor, CatalogGrows
  <2>3. proc'[p].command = "demo"
    BY <1>2, <1>5
  <2> QED
    BY <1>2, <2>2, <2>3 DEF EquippedFor
<1> QED
  BY <1>4, <1>5

LEMMA MakerEquipped ==
    ASSUME IInv, edits = 0, NEW p \in Processes, Goes(p), proc[p].command \in Inits,
           CatalogGrows(p), journal' = journal,
           proc'[p].at > 7 => catalog'.identified = TRUE,
           proc'[p].at > 9 /\ proc[p].command = "init demo" => catalog'.rows = TRUE
    PROVE  EquippedFor(p)'
<1>1. /\ proc'[p].command = proc[p].command
      /\ proc[p].command # "run" /\ proc[p].command # "demo"
  BY DEF Goes, Inits
<1>2. EquippedFor(p)
  BY Facts
<1> QED
  BY <1>1, <1>2 DEF EquippedFor, CatalogGrows

LEMMA DemoEquipped ==
    ASSUME IInv, edits = 0, NEW p \in Processes, Goes(p), proc[p].command = "demo", CatalogGrows(p), journal'.state = journal.state,
           proc'[p].at > 2 => catalog'.identified = TRUE,
           proc'[p].at > 5 => catalog'.rows = TRUE
    PROVE  EquippedFor(p)'
<1>1. proc'[p].command = "demo" /\ ~Maker(p)'
  BY DEF Goes, Inits, Maker
<1>2. EquippedFor(p)
  BY Facts
<1> QED
  BY <1>1, <1>2 DEF EquippedFor, CatalogGrows

LEMMA CreateStep == ASSUME IInv, NEW p \in Processes, Create(p) PROVE IInv'
<1>1. At(p, "create tables") \/ At(p, "identify")
  BY DEF Create
<1>2. Running(p) /\ UNCHANGED <<made, files, journal, reports, edits>> /\ Step(p)
  BY <1>1 DEF At, Create, Same
<1>3. /\ CatalogTyped' /\ catalog'.rows = catalog.rows /\ catalog'.removed = catalog.removed
      /\ catalog'.receipts = catalog.receipts
      /\ catalog.identified = TRUE => catalog'.identified = TRUE
      /\ At(p, "identify") => catalog'.identified = TRUE
  <2>1. CASE At(p, "create tables") /\ catalog' = [catalog EXCEPT !.tables = TRUE]
    <3>1. ~At(p, "identify")
      BY <2>1 DEF At
    <3> QED
      BY <2>1, <3>1, Facts DEF Typed, CatalogTyped
  <2>2. CASE At(p, "identify") /\ catalog' = [catalog EXCEPT !.identified = TRUE]
    BY <2>2, Facts DEF Typed, CatalogTyped
  <2> QED
    BY <2>1, <2>2 DEF Create
<1>4. CatalogGrows(p) /\ JournalGrows(p)
  BY <1>2, <1>3, Still DEF CatalogGrows
<1>5. proc[p].at = 2 \/ proc[p].at = 7 => catalog'.identified = TRUE
  <2>1. CASE At(p, "identify")
    BY <1>3, <2>1
  <2>2. CASE At(p, "create tables")
    <3>1. (proc[p].command \in Inits /\ proc[p].at = 6) \/ (proc[p].command = "demo" /\ proc[p].at = 1)
      BY <2>2, Places, Facts DEF IsAt
    <3> QED
      BY <3>1
  <2> QED
    BY <1>1, <2>1, <2>2
<1>6. CASE proc[p].command \in Inits /\ proc[p].at = 6
  <2>1. Goes(p) /\ proc'[p].at = 7 /\ proc'[p].outcome = proc[p].outcome
    BY <1>2, <1>6, InitWalks
  <2>2. edits = 0 => EquippedFor(p)'
    <3>1. ~(proc'[p].at > 7) /\ ~(proc'[p].at > 9)
      BY <2>1
    <3> QED
      BY <1>2, <1>4, <1>6, <2>1, <3>1, MakerEquipped
  <2> QED
    BY <1>2, <1>3, <1>4, <1>6, <2>1, <2>2, InitsEarly
<1>7. CASE proc[p].command \in Inits /\ proc[p].at = 7
  <2>1. Goes(p) /\ proc'[p].at = 8 /\ proc'[p].outcome = proc[p].outcome
    BY <1>2, <1>7, InitWalks
  <2>2. edits = 0 => EquippedFor(p)'
    <3>1. ~(proc'[p].at > 9)
      BY <2>1
    <3> QED
      BY <1>2, <1>4, <1>5, <1>7, <2>1, <3>1, MakerEquipped
  <2> QED
    BY <1>2, <1>3, <1>4, <1>7, <2>1, <2>2, InitsEarly
<1>8. CASE proc[p].command = "demo" /\ proc[p].at = 1
  <2>1. Goes(p) /\ proc'[p].at = 2 /\ proc'[p].outcome = proc[p].outcome
    BY <1>2, <1>8, DeciderWalks DEF Deciders
  <2>2. edits = 0 => EquippedFor(p)'
    <3>1. ~(proc'[p].at > 2) /\ ~(proc'[p].at > 5)
      BY <2>1
    <3> QED
      BY <1>2, <1>4, <1>8, <2>1, <3>1, DemoEquipped
  <2>3. "demo" \in Deciders /\ "demo" \notin Inits
    BY DEF Deciders, Inits
  <2> QED
    BY <1>2, <1>3, <1>4, <1>8, <2>1, <2>2, <2>3, DecidersEarly
<1>9. CASE proc[p].command = "demo" /\ proc[p].at = 2
  <2>1. Goes(p) /\ proc'[p].at = 3 /\ proc'[p].outcome = proc[p].outcome
    BY <1>2, <1>9, DeciderWalks DEF Deciders
  <2>2. edits = 0 => EquippedFor(p)'
    <3>1. ~(proc'[p].at > 5)
      BY <2>1
    <3> QED
      BY <1>2, <1>4, <1>5, <1>9, <2>1, <3>1, DemoEquipped
  <2>3. "demo" \in Deciders /\ "demo" \notin Inits
    BY DEF Deciders, Inits
  <2> QED
    BY <1>2, <1>3, <1>4, <1>9, <2>1, <2>2, <2>3, DecidersEarly
<1>10. \/ proc[p].command \in Inits /\ (proc[p].at = 6 \/ proc[p].at = 7)
       \/ proc[p].command = "demo" /\ (proc[p].at = 1 \/ proc[p].at = 2)
  <2>1. Typed
    BY Facts
  <2>2. CASE At(p, "create tables")
    BY <2>1, <2>2, Places DEF IsAt
  <2>3. CASE At(p, "identify")
    BY <2>1, <2>3, Places DEF IsAt
  <2> QED
    BY <1>1, <2>2, <2>3
<1> QED
  BY <1>6, <1>7, <1>8, <1>9, <1>10
LEMMA Updated ==
    ASSUME IInv, NEW p \in Processes, Running(p), NEW r \in Process,
           r.command = proc[p].command, r.exit = "", r.at \in 1 .. Steps(r.command),
           proc' = [proc EXCEPT ![p] = r]
    PROVE  /\ Goes(p) /\ proc'[p].at = r.at /\ proc'[p].plans = r.plans
           /\ proc'[p].outcome = r.outcome /\ proc'[p].todo = r.todo
<1>1. Becomes(p, r.command, r.at, r.plans, r.outcome, r.todo, r.exit)
  BY Became, Facts DEF Running
<1> QED
  BY <1>1 DEF Running, Becomes, Goes

LEMMA Moved ==
    ASSUME IInv, NEW p \in Processes, Running(p), NEW at \in Nat,
           at \in 1 .. Steps(proc[p].command),
           proc' = [proc EXCEPT ![p] = [@ EXCEPT !.at = at]]
    PROVE  /\ Goes(p) /\ proc'[p].at = at /\ proc'[p].plans = proc[p].plans
           /\ proc'[p].outcome = proc[p].outcome /\ proc'[p].todo = proc[p].todo
<1>1. PICK r : r = proc[p]
  OBVIOUS
<1>2. r \in Process /\ r.exit = ""
  BY <1>1, Facts DEF ProcessTyped, Running
<1>3. PICK t : t = [r EXCEPT !.at = at]
  OBVIOUS
<1>4. /\ t \in Process /\ t.at = at /\ t.command = r.command /\ t.plans = r.plans
      /\ t.outcome = r.outcome /\ t.todo = r.todo /\ t.exit = ""
  BY <1>2, <1>3 DEF Process
<1>5. proc' = [proc EXCEPT ![p] = t] /\ t.at \in 1 .. Steps(t.command)
  BY <1>1, <1>3, <1>4, Facts DEF Typed
<1> QED
  BY <1>1, <1>4, <1>5, Updated

(* Where there is an identity.                                             *)
LEMMA MakerHas ==
    ASSUME IInv, edits = 0, NEW p \in Processes, Running(p), proc[p].command \in Inits, proc[p].at > 7
    PROVE  catalog.identified = TRUE
<1>1. PICK at \in Nat : at = proc[p].at
  BY Facts
<1>2. at > 1 /\ at > 7
  BY <1>1
<1>3. Maker(p)
  BY <1>1, <1>2 DEF Maker
<1> QED
  BY <1>1, <1>2, <1>3, Facts DEF EquippedFor

LEMMA DemoHas ==
    ASSUME IInv, edits = 0, NEW p \in Processes, Running(p), proc[p].command = "demo", proc[p].at > 2
    PROVE  catalog.identified = TRUE
BY Facts DEF EquippedFor

LEMMA CountRowsStep == ASSUME IInv, NEW p \in Processes, CountRows(p) PROVE IInv'
<1>1. /\ Running(p) /\ UNCHANGED <<made, files, catalog, journal, reports, edits>>
      /\ catalog.rows \in BOOLEAN
  BY Facts DEF At, CountRows, Same, Typed, CatalogTyped
<1>2. CatalogGrows(p) /\ JournalGrows(p)
  BY <1>1, Still
<1>3. \/ proc[p].command \in Inits /\ proc[p].at = 8
      \/ proc[p].command = "demo" /\ proc[p].at = 4
  BY Places, Facts DEF CountRows, IsAt
<1>4. EquippedFor(p) \/ edits # 0
  BY Facts
<1>5. PICK steps \in Nat :
         /\ proc' = [proc EXCEPT ![p] = [@ EXCEPT !.at = proc[p].at + steps]]
         /\ steps = 1 \/ (steps = 2 /\ (catalog.rows = TRUE \/ proc[p].command = "init"))
  <2>1. CASE catalog.rows \/ proc[p].command = "init"
    <3>1. proc' = [proc EXCEPT ![p] = [@ EXCEPT !.at = proc[p].at + 2]]
      BY <2>1 DEF CountRows
    <3>2. catalog.rows = TRUE \/ proc[p].command = "init"
      BY <1>1, <2>1
    <3> WITNESS 2 \in Nat
    <3> QED
      BY <3>1, <3>2
  <2>2. CASE ~(catalog.rows \/ proc[p].command = "init")
    <3>1. proc' = [proc EXCEPT ![p] = [@ EXCEPT !.at = proc[p].at + 1]]
      BY <2>2 DEF CountRows
    <3> WITNESS 1 \in Nat
    <3> QED
      BY <3>1
  <2> QED
    BY <2>1, <2>2
<1>6. CASE proc[p].command \in Inits /\ proc[p].at = 8
  <2>1. PICK at \in Nat : at = proc[p].at + steps
    BY <1>5, <1>6
  <2>2. at = 9 \/ (at = 10 /\ (catalog.rows = TRUE \/ proc[p].command = "init"))
    BY <1>5, <1>6, <2>1
  <2>3. at \in 1 .. 12 /\ at \in 6 .. 10 /\ at <= 10
    BY <2>2
  <2>4. Steps(proc[p].command) = 12
    BY <1>6, Orders
  <2>5. Goes(p) /\ proc'[p].at = at /\ proc'[p].outcome = proc[p].outcome
    BY <1>1, <1>5, <2>1, <2>3, <2>4, Moved
  <2>6. ASSUME edits = 0 PROVE EquippedFor(p)'
    <3>1. catalog.identified = TRUE
      <4>1. proc[p].at > 7
        BY <1>6
      <4> QED
        BY <1>1, <1>6, <2>6, <4>1, MakerHas
    <3>2. at > 9 /\ proc[p].command = "init demo" => catalog.rows = TRUE
      <4>1. CASE at = 9
        <5>1. ~(at > 9)
          BY <4>1
        <5> QED
          BY <5>1
      <4>2. CASE at = 10 /\ (catalog.rows = TRUE \/ proc[p].command = "init")
        BY <4>2
      <4> QED
        BY <2>2, <4>1, <4>2
    <3> QED
      BY <1>1, <1>2, <1>6, <2>5, <2>6, <3>1, <3>2, MakerEquipped
  <2> QED
    BY <1>1, <1>2, <1>6, <2>3, <2>5, <2>6, InitsEarly
<1>7. CASE proc[p].command = "demo" /\ proc[p].at = 4
  <2>1. PICK at \in Nat : at = proc[p].at + steps
    BY <1>5, <1>7
  <2>2. at = 5 \/ (at = 6 /\ catalog.rows = TRUE)
    BY <1>5, <1>7, <2>1
  <2>3. at \in 1 .. 14 /\ at \in 1 .. 8
    BY <2>2
  <2>4. Steps(proc[p].command) = 14 /\ proc[p].command \in Deciders
    BY <1>7, Orders DEF Deciders
  <2>5. Goes(p) /\ proc'[p].at = at /\ proc'[p].outcome = proc[p].outcome
    BY <1>1, <1>5, <2>1, <2>3, <2>4, Moved
  <2>6. ASSUME edits = 0 PROVE EquippedFor(p)'
    <3>1. catalog.identified = TRUE
      <4>1. proc[p].at > 2
        BY <1>7
      <4> QED
        BY <1>1, <1>7, <2>6, <4>1, DemoHas
    <3>2. at > 5 => catalog.rows = TRUE
      BY <2>2
    <3> QED
      BY <1>1, <1>2, <1>7, <2>5, <2>6, <3>1, <3>2, DemoEquipped
  <2> QED
    BY <1>1, <1>2, <1>7, <2>3, <2>4, <2>5, <2>6, DecidersEarly
<1> QED
  BY <1>3, <1>6, <1>7

LEMMA SeedStep == ASSUME IInv, NEW p \in Processes, Seed(p) PROVE IInv'
<1>1. Running(p) /\ UNCHANGED <<made, files, journal, reports, edits>> /\ catalog.rows \in BOOLEAN
  BY Facts DEF At, Seed, Same, Typed, CatalogTyped
<1>2. /\ CatalogTyped' /\ catalog'.rows = TRUE /\ catalog'.removed = catalog.removed
      /\ catalog'.receipts = catalog.receipts /\ catalog'.identified = catalog.identified
  BY Facts DEF Seed, Typed, CatalogTyped
<1>3. CatalogGrows(p) /\ JournalGrows(p)
  BY <1>1, <1>2, Still DEF CatalogGrows
<1>4. \/ proc[p].command \in Inits /\ proc[p].at = 9
      \/ proc[p].command = "demo" /\ proc[p].at = 5
  BY Places, Facts DEF Seed, IsAt
<1>5. CASE catalog.rows = TRUE
  <2>1. Exit(p, "1")
    BY <1>5 DEF Seed, GoOn
  <2>2. catalog' = catalog
    BY <1>5, Facts DEF Seed, Typed, CatalogTyped
  <2> QED
    BY <1>1, <2>1, <2>2, Fails
<1>6. CASE catalog.rows = FALSE /\ proc[p].command \in Inits /\ proc[p].at = 9
  <2>1. Step(p)
    BY <1>6 DEF Seed, GoOn
  <2>2. Goes(p) /\ proc'[p].at = 10 /\ proc'[p].outcome = proc[p].outcome
    BY <1>1, <1>6, <2>1, InitWalks
  <2>3. ASSUME edits = 0 PROVE EquippedFor(p)'
    <3>1. catalog'.identified = TRUE
      <4>1. proc[p].at > 7
        BY <1>6
      <4> QED
        BY <1>1, <1>2, <1>6, <2>3, <4>1, MakerHas
    <3> QED
      BY <1>1, <1>2, <1>3, <1>6, <2>2, <2>3, <3>1, MakerEquipped
  <2> QED
    BY <1>1, <1>2, <1>3, <1>6, <2>2, <2>3, InitsEarly
<1>7. CASE catalog.rows = FALSE /\ proc[p].command = "demo" /\ proc[p].at = 5
  <2>1. Step(p) /\ proc[p].command \in Deciders
    BY <1>7 DEF Seed, GoOn, Deciders
  <2>2. Goes(p) /\ proc'[p].at = 6 /\ proc'[p].outcome = proc[p].outcome
    BY <1>1, <1>7, <2>1, DeciderWalks
  <2>3. ASSUME edits = 0 PROVE EquippedFor(p)'
    <3>1. catalog'.identified = TRUE
      <4>1. proc[p].at > 2
        BY <1>7
      <4> QED
        BY <1>1, <1>2, <1>7, <2>3, <4>1, DemoHas
    <3> QED
      BY <1>1, <1>2, <1>3, <1>7, <2>2, <2>3, <3>1, DemoEquipped
  <2> QED
    BY <1>1, <1>2, <1>3, <1>7, <2>1, <2>2, <2>3, DecidersEarly
<1> QED
  BY <1>1, <1>4, <1>5, <1>6, <1>7
(* A run that is still reading.                                            *)
LEMMA ReaderEquipped ==
    ASSUME IInv, edits = 0, NEW p \in Processes, Goes(p), proc[p].command = "run",
           files' = files, CatalogGrows(p), journal'.state = journal.state,
           proc'[p].at > 1 => files["config"] \in Good,
           proc'[p].at > 2 => files["source"] \in Good,
           proc'[p].at > 3 => files["plans"] \in Good /\ (proc'[p].plans = "some" => catalog.rows = TRUE)
    PROVE  EquippedFor(p)'
<1>1. proc'[p].command = "run" /\ ~Maker(p)'
  BY DEF Goes, Inits, Maker
<1>2. EquippedFor(p)
  BY Facts
<1> QED
  BY <1>1, <1>2 DEF EquippedFor, CatalogGrows

LEMMA InputsRead ==
    ASSUME IInv, edits = 0, NEW p \in Processes, Running(p), proc[p].command = "run"
    PROVE  /\ proc[p].at > 1 => files["config"] \in Good
           /\ proc[p].at > 2 => files["source"] \in Good
BY Facts DEF EquippedFor

LEMMA Reads ==
    ASSUME IInv, NEW p \in Processes, Running(p), proc[p].command \in Deciders,
           proc[p].at \in 1 .. 3, NEW content, content \in Good,
           proc' = [proc EXCEPT ![p] = [@ EXCEPT !.at = proc[p].at + 1, !.plans = content]]
    PROVE  /\ Goes(p) /\ proc'[p].at = proc[p].at + 1 /\ proc'[p].plans = content
           /\ proc'[p].outcome = proc[p].outcome
<1>1. PICK r : r = proc[p]
  OBVIOUS
<1>2. PICK at \in Nat : at = r.at + 1
  BY <1>1
<1>3. PICK t : t = [r EXCEPT !.at = at, !.plans = content]
  OBVIOUS
<1>4. proc' = [proc EXCEPT ![p] = t]
  BY <1>1, <1>2, <1>3
<1>5. r \in Process /\ r.exit = ""
  BY <1>1, Facts DEF ProcessTyped, Running
<1>6. /\ t.at = at /\ t.command = r.command /\ t.plans = content
      /\ t.outcome = r.outcome /\ t.exit = ""
  BY <1>3, <1>5 DEF Process
<1>7. t \in Process
  <2>1. content \in {"", "some", "none"}
    BY DEF Good
  <2> QED
    BY <1>3, <1>5, <2>1 DEF Process
<1>8. Steps(t.command) = 14
  BY <1>1, <1>6, Orders DEF Deciders
<1>9. at \in 1 .. 14
  BY <1>1, <1>2
<1>10. t.at \in 1 .. Steps(t.command)
  BY <1>6, <1>8, <1>9
<1>11. /\ Goes(p) /\ proc'[p].at = t.at /\ proc'[p].plans = t.plans
       /\ proc'[p].outcome = t.outcome
  <2>1. t.command = proc[p].command /\ t.exit = ""
    BY <1>1, <1>6
  <2> QED
    BY <1>4, <1>7, <1>10, <2>1, Updated
<1> QED
  BY <1>1, <1>2, <1>6, <1>11

LEMMA ReadInputStep == ASSUME IInv, NEW p \in Processes, ReadInput(p) PROVE IInv'
<1>1. UNCHANGED <<made, files, catalog, journal, reports, edits>>
  BY DEF ReadInput, Same
<1>2. CatalogGrows(p) /\ JournalGrows(p)
  BY <1>1, Still
<1>3. PICK file \in Inputs :
         /\ At(p, Reading[file])
         /\ IF files[file] \notin Good THEN Exit(p, "1")
            ELSE proc' = [proc EXCEPT ![p] = [@ EXCEPT !.at = proc[p].at + 1, !.plans = files[file]]]
  BY DEF ReadInput
<1>4. Running(p)
  BY <1>3 DEF At
<1>5. CASE files[file] \notin Good
  BY <1>1, <1>3, <1>4, <1>5, Fails
<1>6. CASE files[file] \in Good
  <2>1. PICK r, content : r = proc[p] /\ content = files[file]
    OBVIOUS
  <2>8. /\ r.command = "run"
        /\ \/ file = "config" /\ r.at = 1
           \/ file = "source" /\ r.at = 2
           \/ file = "plans" /\ r.at = 3
    <3>1. Typed
      BY Facts
    <3>2. CASE file = "config"
      <4>1. At(p, "read config")
        BY <1>3, <3>2 DEF Reading
      <4> QED
        BY <2>1, <3>1, <3>2, <4>1, Places DEF IsAt
    <3>3. CASE file = "source"
      <4>1. At(p, "read source")
        BY <1>3, <3>3 DEF Reading
      <4> QED
        BY <2>1, <3>1, <3>3, <4>1, Places DEF IsAt
    <3>4. CASE file = "plans"
      <4>1. At(p, "read plans")
        BY <1>3, <3>4 DEF Reading
      <4> QED
        BY <2>1, <3>1, <3>4, <4>1, Places DEF IsAt
    <3> QED
      BY <3>2, <3>3, <3>4 DEF Inputs
  <2>9. r.at = 1 \/ r.at = 2 \/ r.at = 3
    BY <2>8
  <2>10. proc[p].command \in Deciders /\ proc[p].at \in 1 .. 3
    BY <2>1, <2>8, <2>9 DEF Deciders
  <2>11. /\ Goes(p) /\ proc'[p].at = proc[p].at + 1 /\ proc'[p].plans = content
         /\ proc'[p].outcome = proc[p].outcome
    BY <1>3, <1>4, <1>6, <2>1, <2>10, Reads
  <2>12. ASSUME edits = 0 PROVE EquippedFor(p)'
    <3>1. proc[p].command = "run"
      BY <2>1, <2>8
    <3>2. CASE file = "config" /\ r.at = 1
      <4>1. proc'[p].at = 2 /\ ~(proc'[p].at > 2) /\ ~(proc'[p].at > 3)
        BY <2>1, <2>11, <3>2
      <4>2. files["config"] \in Good
        BY <1>6, <3>2
      <4> QED
        BY <1>1, <1>2, <2>11, <2>12, <3>1, <4>1, <4>2, ReaderEquipped
    <3>3. CASE file = "source" /\ r.at = 2
      <4>1. proc'[p].at = 3 /\ ~(proc'[p].at > 3) /\ proc[p].at > 1
        BY <2>1, <2>11, <3>3
      <4>2. files["config"] \in Good /\ files["source"] \in Good
        BY <1>4, <1>6, <2>1, <2>12, <3>1, <3>3, <4>1, InputsRead
      <4> QED
        BY <1>1, <1>2, <2>11, <2>12, <3>1, <4>1, <4>2, ReaderEquipped
    <3>4. CASE file = "plans" /\ r.at = 3
      <4>1. proc[p].at > 1 /\ proc[p].at > 2
        BY <2>1, <3>4
      <4>2. files["config"] \in Good /\ files["source"] \in Good /\ files["plans"] \in Good
        BY <1>4, <1>6, <2>1, <2>12, <3>1, <3>4, <4>1, InputsRead
      <4>3. content = "some" => catalog.rows = TRUE
        BY <2>1, <2>12, <3>4 DEF IInv, Equipped
      <4> QED
        BY <1>1, <1>2, <2>11, <2>12, <3>1, <4>2, <4>3, ReaderEquipped
    <3> QED
      BY <2>8, <3>2, <3>3, <3>4
  <2>13. proc[p].at \in 1 .. 8 /\ proc'[p].at \in 1 .. 8 /\ proc[p].command \in Deciders
    BY <2>10, <2>11
  <2> QED
    BY <1>1, <1>2, <2>11, <2>12, <2>13, DecidersEarly
<1> QED
  BY <1>5, <1>6
LEMMA OpenTargetStep == ASSUME IInv, NEW p \in Processes, OpenTarget(p) PROVE IInv'
<1>1. Running(p) /\ UNCHANGED <<made, files, catalog, journal, reports, edits>>
  BY DEF At, OpenTarget, Same
<1>2. CatalogGrows(p) /\ JournalGrows(p)
  BY <1>1, Still
<1>3. proc[p].command = "run" /\ proc[p].at = 4
  BY Places, Facts DEF OpenTarget, IsAt
<1>4. CASE Exit(p, "1")
  BY <1>1, <1>4, Fails
<1>5. CASE Step(p)
  <2>1. proc[p].command \in Deciders /\ proc[p].at \in 1 .. 13
    BY <1>3 DEF Deciders
  <2>2. /\ Goes(p) /\ proc'[p].at = proc[p].at + 1 /\ proc'[p].outcome = proc[p].outcome
        /\ proc'[p].plans = proc[p].plans
    BY <1>1, <1>5, <2>1, DeciderWalks
  <2>3. proc[p].at \in 1 .. 8 /\ proc'[p].at \in 1 .. 8 /\ proc[p].at > 3
    BY <1>3, <2>2
  <2>4. edits = 0 => EquippedFor(p)'
    BY <1>1, <1>2, <1>3, <2>2, <2>3, DeciderEquipped
  <2> QED
    BY <1>1, <1>2, <2>1, <2>2, <2>3, <2>4, DecidersEarly
<1> QED
  BY <1>4, <1>5 DEF OpenTarget, GoOn

LEMMA OpenJournalStep == ASSUME IInv, NEW p \in Processes, OpenJournal(p) PROVE IInv'
<1>1. Running(p) /\ UNCHANGED <<made, files, catalog, reports, edits>> /\ Step(p)
  BY DEF At, OpenJournal, Same
<1>2. /\ JournalTyped' /\ journal'.state = journal.state
      /\ journal'.operation = journal.operation /\ journal'.outcome = journal.outcome
  BY Facts DEF OpenJournal, Typed, JournalTyped
<1>3. CatalogGrows(p) /\ JournalGrows(p)
  BY <1>1, <1>2, Still DEF JournalGrows
<1>4. \/ proc[p].command = "run" /\ proc[p].at = 5
      \/ proc[p].command = "demo" /\ proc[p].at = 3
  BY Places, Facts DEF OpenJournal, IsAt
<1>5. proc[p].command \in Deciders /\ proc[p].at \in 1 .. 13
  BY <1>4 DEF Deciders
<1>6. /\ Goes(p) /\ proc'[p].at = proc[p].at + 1 /\ proc'[p].outcome = proc[p].outcome
      /\ proc'[p].plans = proc[p].plans
  BY <1>1, <1>5, DeciderWalks
<1>7. proc[p].at \in 1 .. 8 /\ proc'[p].at \in 1 .. 8
  BY <1>4, <1>6
<1>8. ASSUME edits = 0 PROVE EquippedFor(p)'
  <2>1. CASE proc[p].command = "run" /\ proc[p].at = 5
    <3>1. proc[p].at > 3
      BY <2>1
    <3> QED
      BY <1>1, <1>3, <1>6, <1>8, <2>1, <3>1, DeciderEquipped
  <2>2. CASE proc[p].command = "demo" /\ proc[p].at = 3
    <3>1. proc[p].at > 2 /\ ~(proc'[p].at > 5)
      BY <1>6, <2>2
    <3>2. catalog.identified = TRUE
      BY <1>1, <1>8, <2>2, <3>1, DemoHas
    <3> QED
      BY <1>1, <1>2, <1>3, <1>6, <1>8, <2>2, <3>1, <3>2, DemoEquipped
  <2> QED
    BY <1>4, <2>1, <2>2
<1> QED
  BY <1>1, <1>2, <1>3, <1>5, <1>6, <1>7, <1>8, DecidersEarly

LEMMA StartStep == ASSUME IInv, NEW p \in Processes, Start(p) PROVE IInv'
<1>1. Running(p) /\ UNCHANGED <<made, files, catalog, reports, edits>> /\ Step(p)
  BY DEF At, Start, Same
<1>2. PICK state : state = [journal.state EXCEPT ![p] = "started"]
  OBVIOUS
<1>3. /\ state \in [Processes -> Statuses] /\ state[p] # ""
      /\ \A q \in Processes \ {p} : state[q] = journal.state[q]
  BY <1>2, Facts DEF Typed, JournalTyped, Statuses
<1>4. journal' = [journal EXCEPT !.state = state]
  BY <1>2 DEF Start
<1>5. /\ JournalTyped' /\ journal'.state = state
      /\ journal'.operation = journal.operation /\ journal'.outcome = journal.outcome
  BY <1>3, <1>4, Facts DEF Typed, JournalTyped
<1>6. CatalogGrows(p) /\ JournalGrows(p)
  BY <1>1, <1>3, <1>5, Still DEF JournalGrows
<1>7. proc[p].command \in Deciders /\ proc[p].at = 6
  BY Places, Facts DEF Start, IsAt
<1>8. proc[p].at \in 1 .. 13
  BY <1>7
<1>9. /\ Goes(p) /\ proc'[p].at = proc[p].at + 1 /\ proc'[p].outcome = proc[p].outcome
      /\ proc'[p].plans = proc[p].plans
  BY <1>1, <1>7, <1>8, DeciderWalks
<1>10. proc[p].at \in 1 .. 8 /\ proc'[p].at \in 1 .. 8 /\ proc[p].at > 3 /\ proc[p].at > 5
  BY <1>7, <1>9
<1>11. edits = 0 => EquippedFor(p)'
  BY <1>1, <1>6, <1>7, <1>9, <1>10, DeciderEquipped DEF Deciders
<1> QED
  BY <1>1, <1>5, <1>6, <1>7, <1>9, <1>10, <1>11, DecidersEarly
(* A step of the decision, between the start and the report.               *)
LEMMA Later ==
    ASSUME IInv, NEW p \in Processes, Goes(p), proc[p].command \in Deciders, proc[p].at \in 6 .. 11,
           proc'[p].plans = proc[p].plans, UNCHANGED <<made, files, edits, reports>>,
           CatalogGrows(p), JournalGrows(p), ToldOf(p)'
    PROVE  IInv'
<1>1. proc[p].at > 3 /\ proc[p].at > 5 /\ proc[p].at # 14
  OBVIOUS
<1>2. edits = 0 => EquippedFor(p)'
  BY <1>1, DeciderEquipped DEF Deciders
<1>3. ~Maker(p)' /\ proc[p].command \notin Readers /\ Listed(p)'
  BY DEF Maker, Goes, Inits, Deciders, Readers, Listed
<1> QED
  BY <1>1, <1>2, <1>3, Advances

LEMMA PrepareStep == ASSUME IInv, NEW p \in Processes, Prepare(p) PROVE IInv'
<1>1. Running(p) /\ UNCHANGED <<made, files, catalog, reports, edits>> /\ Step(p)
  BY DEF At, Prepare, Same
<1>2. PICK state : state = [journal.state EXCEPT ![p] = "prepared"]
  OBVIOUS
<1>3. PICK operation : operation = [journal.operation EXCEPT ![p] = "prepared"]
  OBVIOUS
<1>4. /\ state \in [Processes -> Statuses] /\ state[p] # ""
      /\ \A q \in Processes \ {p} : state[q] = journal.state[q]
  BY <1>2, Facts DEF Typed, JournalTyped, Statuses
<1>5. /\ operation \in [Processes -> {"", "prepared", "applied", "stale", "unresolved"}]
      /\ operation[p] # ""
      /\ \A q \in Processes \ {p} : operation[q] = journal.operation[q]
  BY <1>3, Facts DEF Typed, JournalTyped
<1>6. journal' = [journal EXCEPT !.state = state, !.operation = operation]
  BY <1>2, <1>3 DEF Prepare
<1>7. /\ JournalTyped' /\ journal'.state = state
      /\ journal'.operation = operation /\ journal'.outcome = journal.outcome
  BY <1>4, <1>5, <1>6, Facts DEF Typed, JournalTyped
<1>8. CatalogGrows(p) /\ JournalGrows(p)
  BY <1>1, <1>4, <1>5, <1>7, Still DEF JournalGrows
<1>9. proc[p].command \in Deciders /\ proc[p].at = 8
  BY Places, Facts DEF Prepare, IsAt
<1>10. proc[p].at \in 1 .. 13 /\ proc[p].at \in 6 .. 11 /\ proc[p].at <= 11
  BY <1>9
<1>11. /\ Goes(p) /\ proc'[p].at = proc[p].at + 1 /\ proc'[p].outcome = proc[p].outcome
       /\ proc'[p].plans = proc[p].plans
  BY <1>1, <1>9, <1>10, DeciderWalks
<1>12. ToldOf(p)'
  <2>1. journal.outcome[p] = "" /\ (proc[p].outcome = "applied" => catalog.removed = TRUE \/ catalog.receipts[p] = "applied")
    BY <1>1, <1>9, <1>10, Facts DEF ToldOf, Deciding
  <2>2. PICK next : next = proc'[p].at
    OBVIOUS
  <2>3. next # 10 /\ next # 11 /\ ~(next >= 12) /\ next # 13 /\ next # 14
    BY <1>9, <1>11, <2>2
  <2>4. proc'[p].command # ""
    BY <1>11 DEF Goes, Running
  <2> QED
    BY <1>1, <1>5, <1>7, <1>11, <2>1, <2>2, <2>3, <2>4 DEF ToldOf
<1> QED
  BY <1>1, <1>8, <1>9, <1>10, <1>11, <1>12, Later

LEMMA RecordStep == ASSUME IInv, NEW p \in Processes, Record(p) PROVE IInv'
<1>1. Running(p) /\ UNCHANGED <<made, files, catalog, reports, edits>> /\ Step(p)
  BY DEF At, Record, Same
<1>2. proc[p].command \in Deciders /\ proc[p].at = 10
  BY Places, Facts DEF Record, IsAt
<1>3. proc[p].at \in 1 .. 13 /\ proc[p].at \in 6 .. 11 /\ proc[p].at <= 11
  BY <1>2
<1>4. /\ journal.outcome[p] = "" /\ proc[p].outcome \in {"applied", "stale"}
      /\ proc[p].outcome = "applied" => catalog.removed = TRUE \/ catalog.receipts[p] = "applied"
  BY <1>1, <1>2, <1>3, Facts DEF ToldOf, Deciding
<1>5. PICK operation : operation = [journal.operation EXCEPT ![p] = proc[p].outcome]
  OBVIOUS
<1>6. /\ operation \in [Processes -> {"", "prepared", "applied", "stale", "unresolved"}]
      /\ operation[p] # ""
      /\ \A q \in Processes \ {p} : operation[q] = journal.operation[q]
  BY <1>4, <1>5, Facts DEF Typed, JournalTyped
<1>7. journal' = [journal EXCEPT !.operation = operation]
  BY <1>5 DEF Record
<1>8. /\ JournalTyped' /\ journal'.state = journal.state
      /\ journal'.operation = operation /\ journal'.outcome = journal.outcome
  BY <1>6, <1>7, Facts DEF Typed, JournalTyped
<1>9. CatalogGrows(p) /\ JournalGrows(p)
  BY <1>1, <1>6, <1>8, Still DEF JournalGrows
<1>10. /\ Goes(p) /\ proc'[p].at = proc[p].at + 1 /\ proc'[p].outcome = proc[p].outcome
       /\ proc'[p].plans = proc[p].plans
  BY <1>1, <1>2, <1>3, DeciderWalks
<1>11. ToldOf(p)'
  <2>1. proc[p].outcome \notin {"", "commit_unresolved"}
    BY <1>4
  <2>2. PICK next : next = proc'[p].at
    OBVIOUS
  <2>3. next # 9 /\ next # 10 /\ ~(next >= 12) /\ next # 13 /\ next # 14
    BY <1>2, <1>10, <2>2
  <2>4. proc'[p].command # ""
    BY <1>10 DEF Goes, Running
  <2> QED
    BY <1>1, <1>4, <1>8, <1>10, <2>1, <2>2, <2>3, <2>4 DEF ToldOf
<1> QED
  BY <1>1, <1>2, <1>3, <1>9, <1>10, <1>11, Later

LEMMA CompleteStep == ASSUME IInv, NEW p \in Processes, Complete(p) PROVE IInv'
<1>1. Running(p) /\ UNCHANGED <<made, files, catalog, reports, edits>> /\ Step(p)
  BY DEF At, Complete, Same
<1>2. proc[p].command \in Deciders /\ proc[p].at = 11
  BY Places, Facts DEF Complete, IsAt
<1>3. proc[p].at \in 1 .. 13 /\ proc[p].at \in 6 .. 11 /\ proc[p].at <= 11
  BY <1>2
<1>4. /\ proc[p].outcome \notin {"", "commit_unresolved"}
      /\ proc[p].outcome = "applied" => catalog.removed = TRUE \/ catalog.receipts[p] = "applied"
  BY <1>1, <1>2, <1>3, Facts DEF ToldOf, Deciding
<1>5. PICK outcome : outcome = [journal.outcome EXCEPT ![p] = proc[p].outcome]
  OBVIOUS
<1>6. PICK state : state = [journal.state EXCEPT ![p] = "completed"]
  OBVIOUS
<1>7. /\ state \in [Processes -> Statuses] /\ state[p] # ""
      /\ \A q \in Processes \ {p} : state[q] = journal.state[q]
  BY <1>6, Facts DEF Typed, JournalTyped, Statuses
<1>8. /\ outcome \in [Processes -> Outcomes] /\ outcome[p] = proc[p].outcome
      /\ \A q \in Processes \ {p} : outcome[q] = journal.outcome[q]
  <2>1. proc[p].outcome \in Outcomes
    BY Facts DEF ProcessTyped, Process
  <2> QED
    BY <1>5, <2>1, Facts DEF Typed, JournalTyped
<1>9. journal' = [journal EXCEPT !.state = state, !.outcome = outcome]
  BY <1>5, <1>6 DEF Complete
<1>10. /\ JournalTyped' /\ journal'.state = state
       /\ journal'.operation = journal.operation /\ journal'.outcome = outcome
  BY <1>7, <1>8, <1>9, Facts DEF Typed, JournalTyped
<1>11. CatalogGrows(p) /\ JournalGrows(p)
  BY <1>1, <1>7, <1>8, <1>10, Still DEF JournalGrows
<1>12. /\ Goes(p) /\ proc'[p].at = proc[p].at + 1 /\ proc'[p].outcome = proc[p].outcome
       /\ proc'[p].plans = proc[p].plans
  BY <1>1, <1>2, <1>3, DeciderWalks
<1>13. ToldOf(p)'
  <2>1. PICK next : next = proc'[p].at
    OBVIOUS
  <2>2. next # 9 /\ next # 10 /\ ~(next <= 11) /\ next # 11 /\ next # 13 /\ next # 14
    BY <1>2, <1>12, <2>1
  <2>3. Told(p)'
    BY <1>4, <1>8, <1>10, <1>12 DEF Told
  <2> QED
    BY <1>1, <1>2, <1>4, <1>12, <2>1, <2>2, <2>3 DEF ToldOf, Goes, Running
<1> QED
  BY <1>1, <1>2, <1>3, <1>11, <1>12, <1>13, Later
LEMMA Stopped ==
    ASSUME IInv, NEW p \in Processes, Running(p), proc[p].command \in Deciders,
           NEW outcome, outcome \in Outcomes, NEW step, Stops(p, outcome, step),
           Place(p, step) \in 1 .. 14
    PROVE  /\ Goes(p) /\ proc'[p].at = Place(p, step) /\ proc'[p].plans = proc[p].plans
           /\ proc'[p].outcome = outcome
<1>1. PICK r, at : r = proc[p] /\ at = Place(p, step)
  OBVIOUS
<1>2. PICK t : t = [r EXCEPT !.outcome = outcome, !.at = at]
  OBVIOUS
<1>3. proc' = [proc EXCEPT ![p] = t]
  BY <1>1, <1>2 DEF Stops
<1>4. r \in Process /\ r.exit = "" /\ at \in 1 .. 14 /\ at \in Nat
  <2>1. at \in 1 .. 14
    BY <1>1
  <2>2. r \in Process /\ r.exit = ""
    BY <1>1, Facts DEF ProcessTyped, Running
  <2>3. at \in Nat
    BY <2>1
  <2> QED
    BY <2>1, <2>2, <2>3
<1>5. /\ t.at = at /\ t.command = r.command /\ t.plans = r.plans
      /\ t.outcome = outcome /\ t.exit = "" /\ t \in Process
  BY <1>2, <1>4 DEF Process
<1>6. Steps(t.command) = 14
  BY <1>1, <1>5, Orders DEF Deciders
<1>7. t.at \in 1 .. Steps(t.command)
  BY <1>4, <1>5, <1>6
<1>8. t.command = proc[p].command /\ t.exit = ""
  BY <1>1, <1>5
<1>9. /\ Goes(p) /\ proc'[p].at = t.at /\ proc'[p].plans = t.plans
      /\ proc'[p].outcome = t.outcome
  BY <1>3, <1>5, <1>7, <1>8, Updated
<1> QED
  BY <1>1, <1>5, <1>9

LEMMA DecideStep == ASSUME IInv, NEW p \in Processes, Decide(p) PROVE IInv'
<1>1. Running(p) /\ UNCHANGED <<made, files, catalog, journal, reports, edits>>
  BY DEF At, Decide, Same
<1>2. CatalogGrows(p) /\ JournalGrows(p)
  BY <1>1, Still
<1>3. proc[p].command \in Deciders /\ proc[p].at = 7
  BY Places, Facts DEF Decide, IsAt
<1>4. proc[p].at \in 6 .. 11 /\ proc[p].at \in 1 .. 8 /\ proc[p].at <= 11 /\ proc[p].at > 3 /\ proc[p].at > 5
  BY <1>3
<1>5. journal.outcome[p] = ""
  BY <1>1, <1>3, <1>4, Facts DEF ToldOf, Deciding
<1>6. CASE proc' = [proc EXCEPT ![p] = [@ EXCEPT !.at = proc[p].at + 1, !.base = catalog.revision]]
  <2>1. PICK r, base : r = proc[p] /\ base = catalog.revision
    OBVIOUS
  <2>2. PICK at \in Nat : at = r.at + 1 /\ at = 8
    BY <1>3, <2>1
  <2>3. PICK t : t = [r EXCEPT !.at = at, !.base = base]
    OBVIOUS
  <2>4. proc' = [proc EXCEPT ![p] = t]
    BY <1>6, <2>1, <2>2, <2>3
  <2>5. r \in Process /\ r.exit = "" /\ base \in Nat
    BY <1>1, <2>1, Facts DEF ProcessTyped, Running, Typed, CatalogTyped
  <2>6. /\ t.at = at /\ t.command = r.command /\ t.plans = r.plans
        /\ t.outcome = r.outcome /\ t.exit = "" /\ t \in Process
    BY <2>3, <2>5 DEF Process
  <2>7. Steps(t.command) = 14
    BY <1>3, <2>1, <2>6, Orders DEF Deciders
  <2>8. t.at \in 1 .. Steps(t.command) /\ t.command = proc[p].command
    <3>1. t.at \in 1 .. 14
      <4>1. t.at = at
        BY <2>6
      <4> QED
        BY <2>2, <4>1
    <3>2. t.command = proc[p].command
      BY <2>1, <2>6
    <3> QED
      BY <2>7, <3>1, <3>2
  <2>9. /\ Goes(p) /\ proc'[p].at = t.at /\ proc'[p].plans = t.plans
        /\ proc'[p].outcome = t.outcome
    BY <1>1, <2>4, <2>6, <2>8, Updated
  <2>10. /\ proc'[p].at \in 1 .. 8 /\ proc'[p].plans = proc[p].plans
         /\ proc'[p].outcome = proc[p].outcome
    <3>1. proc'[p].at = at
      BY <2>6, <2>9
    <3>2. proc'[p].at \in 1 .. 8
      BY <2>2, <3>1
    <3> QED
      BY <2>1, <2>6, <2>9, <3>2
  <2>11. edits = 0 => EquippedFor(p)'
    BY <1>1, <1>2, <1>3, <1>4, <2>9, <2>10, DeciderEquipped DEF Deciders
  <2> QED
    BY <1>1, <1>2, <1>3, <1>4, <2>9, <2>10, <2>11, DecidersEarly
<1>7. ASSUME NEW outcome, outcome \in Outcomes, Stops(p, outcome, "complete"),
             outcome # "", outcome # "commit_unresolved", outcome # "applied"
      PROVE  IInv'
  <2>1. PICK step : step = "complete"
    OBVIOUS
  <2>2. Place(p, step) = 11 /\ Stops(p, outcome, step)
    BY <1>3, <1>7, <2>1, Jumps
  <2>3. /\ Goes(p) /\ proc'[p].at = 11 /\ proc'[p].plans = proc[p].plans
        /\ proc'[p].outcome = outcome
    <3>1. Place(p, step) \in 1 .. 14
      BY <2>2
    <3>2. outcome \in Outcomes
      BY <1>7
    <3> QED
      BY <1>1, <1>3, <2>2, <3>1, <3>2, Stopped
  <2>4. ToldOf(p)'
    <3>1. PICK next : next = proc'[p].at
      OBVIOUS
    <3>2. next # 9 /\ next # 10 /\ ~(next >= 12) /\ next # 13 /\ next # 14
      BY <2>3, <3>1
    <3>3. proc'[p].command # ""
      BY <2>3 DEF Goes, Running
    <3> QED
      BY <1>1, <1>5, <1>7, <2>3, <3>1, <3>2, <3>3 DEF ToldOf
  <2> QED
    BY <1>1, <1>2, <1>3, <1>4, <2>3, <2>4, Later
<1>8. CASE Stops(p, "no_eligible_candidate", "complete")
  BY <1>7, <1>8 DEF Outcomes
<1>9. CASE Stops(p, "provider_error", "complete")
  BY <1>7, <1>9 DEF Outcomes
<1> QED
  BY <1>6, <1>8, <1>9 DEF Decide

LEMMA CommitStep == ASSUME IInv, NEW p \in Processes, Commit(p) PROVE IInv'
<1>1. Running(p) /\ UNCHANGED <<made, files, journal, reports, edits>>
  BY DEF At, Commit, Same
<1>2. proc[p].command \in Deciders /\ proc[p].at = 9
  BY Places, Facts DEF Commit, IsAt
<1>3. proc[p].at \in 6 .. 11 /\ proc[p].at <= 11
  BY <1>2
<1>4. /\ journal.outcome[p] = "" /\ journal.operation[p] # ""
      /\ proc[p].outcome = "applied" => catalog.removed = TRUE \/ catalog.receipts[p] = "applied"
  BY <1>1, <1>2, <1>3, Facts DEF ToldOf, Deciding
<1>5. PICK status : status = IF proc[p].base = catalog.revision THEN "applied" ELSE "stale"
  OBVIOUS
<1>6. PICK receipts : receipts = [catalog.receipts EXCEPT ![p] = status]
  OBVIOUS
<1>7. PICK revision : revision = catalog.revision + (IF status = "applied" THEN 1 ELSE 0)
  OBVIOUS
<1>8. PICK done : done = [catalog EXCEPT !.receipts = receipts, !.revision = revision]
  OBVIOUS
<1>9. \/ /\ catalog' = done
         /\ proc' = [proc EXCEPT ![p] = [@ EXCEPT !.at = proc[p].at + 1, !.outcome = status]]
      \/ catalog' \in {catalog, done} /\ Stops(p, "commit_unresolved", "empty report")
  BY <1>5, <1>6, <1>7, <1>8, Facts DEF Commit, Typed, CatalogTyped
<1>10. status = "applied" \/ status = "stale"
  BY <1>5
<1>11. /\ receipts \in [Processes -> {"", "applied", "stale"}] /\ receipts[p] = status
       /\ \A q \in Processes \ {p} : receipts[q] = catalog.receipts[q]
  BY <1>6, <1>10, Facts DEF Typed, CatalogTyped
<1>12. revision \in Nat
  <2>1. catalog.revision \in Nat
    BY Facts DEF Typed, CatalogTyped
  <2>2. PICK before \in Nat : before = catalog.revision
    BY <2>1
  <2>3. revision = before + 1 \/ revision = before + 0
    BY <1>7, <2>2
  <2> QED
    BY <2>2, <2>3
<1>13. ASSUME catalog' = done
       PROVE  CatalogGrows(p) /\ catalog'.receipts = receipts /\ catalog'.removed = catalog.removed
  BY <1>8, <1>11, <1>12, <1>13, Facts DEF Typed, CatalogTyped, CatalogGrows
<1>14. CatalogGrows(p) /\ JournalGrows(p)
  BY <1>1, <1>9, <1>13, Still
<1>15. CASE /\ catalog' = done
            /\ proc' = [proc EXCEPT ![p] = [@ EXCEPT !.at = proc[p].at + 1, !.outcome = status]]
  <2>1. PICK r : r = proc[p]
    OBVIOUS
  <2>2. PICK at \in Nat : at = r.at + 1 /\ at = 10
    BY <1>2, <2>1
  <2>3. PICK t : t = [r EXCEPT !.at = at, !.outcome = status]
    OBVIOUS
  <2>4. proc' = [proc EXCEPT ![p] = t]
    BY <1>15, <2>1, <2>2, <2>3
  <2>5. r \in Process /\ r.exit = "" /\ status \in Outcomes
    BY <1>1, <1>10, <2>1, Facts DEF ProcessTyped, Running, Outcomes
  <2>6. /\ t.at = at /\ t.command = r.command /\ t.plans = r.plans
        /\ t.outcome = status /\ t.exit = "" /\ t \in Process
    BY <2>3, <2>5 DEF Process
  <2>7. Steps(t.command) = 14
    BY <1>2, <2>1, <2>6, Orders DEF Deciders
  <2>8. t.at \in 1 .. Steps(t.command) /\ t.command = proc[p].command
    <3>1. t.at \in 1 .. 14
      <4>1. t.at = at
        BY <2>6
      <4> QED
        BY <2>2, <4>1
    <3>2. t.command = proc[p].command
      BY <2>1, <2>6
    <3> QED
      BY <2>7, <3>1, <3>2
  <2>9. /\ Goes(p) /\ proc'[p].at = t.at /\ proc'[p].plans = t.plans
        /\ proc'[p].outcome = t.outcome
    BY <1>1, <2>4, <2>6, <2>8, Updated
  <2>10. proc'[p].at = 10 /\ proc'[p].plans = proc[p].plans /\ proc'[p].outcome = status
    BY <2>1, <2>2, <2>6, <2>9
  <2>11. catalog'.receipts[p] = status
    BY <1>11, <1>13, <1>15
  <2>12. ToldOf(p)'
    <3>1. PICK next : next = proc'[p].at
      OBVIOUS
    <3>2. next # 9 /\ next # 11 /\ ~(next >= 12) /\ next # 13 /\ next # 14
      BY <2>10, <3>1
    <3>3. proc'[p].command # ""
      BY <2>9 DEF Goes, Running
    <3> QED
      BY <1>1, <1>4, <1>10, <2>10, <2>11, <3>1, <3>2, <3>3 DEF ToldOf
  <2> QED
    BY <1>1, <1>2, <1>3, <1>14, <2>9, <2>10, <2>12, Later
<1>16. CASE Stops(p, "commit_unresolved", "empty report")
  <2>1. PICK outcome, step : outcome = "commit_unresolved" /\ step = "empty report"
    OBVIOUS
  <2>2. Place(p, step) = 12
    BY <1>2, <2>1, Jumps
  <2>3. Place(p, step) \in 1 .. 14
    BY <2>2
  <2>4. Stops(p, outcome, step) /\ outcome \in Outcomes
    BY <1>16, <2>1 DEF Outcomes
  <2>5. /\ Goes(p) /\ proc'[p].at = 12 /\ proc'[p].plans = proc[p].plans
        /\ proc'[p].outcome = "commit_unresolved"
    BY <1>1, <1>2, <2>1, <2>2, <2>3, <2>4, Stopped
  <2>6. Told(p)'
    BY <1>1, <1>4, <2>5 DEF Told
  <2>7. ToldOf(p)'
    <3>1. PICK next : next = proc'[p].at
      OBVIOUS
    <3>2. next # 9 /\ next # 10 /\ ~(next <= 11) /\ next # 11 /\ next # 13 /\ next # 14
      BY <2>5, <3>1
    <3>3. proc'[p].command # ""
      BY <2>5 DEF Goes, Running
    <3> QED
      BY <2>5, <2>6, <3>1, <3>2, <3>3 DEF ToldOf
  <2> QED
    BY <1>1, <1>2, <1>3, <1>14, <2>5, <2>7, Later
<1> QED
  BY <1>9, <1>15, <1>16
(* Two runs never write one report: only `demo' has no report of its own.  *)
LEMMA ReportNames ==
    ASSUME NEW p \in Processes, proc[p].command \in Deciders
    PROVE  /\ ReportOf(p) \in Names
           /\ proc[p].command = "run" => ReportOf(p) = p
           /\ ReportOf(p) \in Processes => ReportOf(p) = p
           /\ \A q \in Processes : q # p => ReportOf(p) # q
<1>1. "run-report" \notin Processes
  BY ProjectsAssumption
<1>2. CASE proc[p].command = "demo"
  <2>1. ReportOf(p) = "run-report"
    BY <1>2 DEF ReportOf
  <2> QED
    BY <1>1, <1>2, <2>1 DEF Names
<1>3. CASE proc[p].command # "demo"
  <2>1. ReportOf(p) = p
    BY <1>3 DEF ReportOf
  <2> QED
    BY <2>1 DEF Names
<1> QED
  BY <1>2, <1>3

LEMMA SaveReportStep == ASSUME IInv, NEW p \in Processes, SaveReport(p) PROVE IInv'
<1>1. Running(p) /\ UNCHANGED <<made, files, catalog, journal, edits>> /\ Step(p)
  BY DEF At, SaveReport, Same
<1>2. proc[p].command \in Deciders /\ (proc[p].at = 12 \/ proc[p].at = 13)
  BY Places, Facts DEF SaveReport, IsAt
<1>3. proc[p].at \in 1 .. 13 /\ proc[p].at >= 12 /\ proc[p].at > 3 /\ proc[p].at > 5 /\ proc[p].at # 14
  BY <1>2
<1>4. /\ Goes(p) /\ proc'[p].at = proc[p].at + 1 /\ proc'[p].outcome = proc[p].outcome
      /\ proc'[p].plans = proc[p].plans
  BY <1>1, <1>2, <1>3, DeciderWalks
<1>5. PICK name : name = ReportOf(p)
  OBVIOUS
<1>6. /\ name \in Names /\ (proc[p].command = "run" => name = p) /\ (name \in Processes => name = p)
      /\ \A q \in Processes : q # p => name # q
  BY <1>2, <1>5, ReportNames
<1>7. Told(p) /\ (proc[p].outcome = "applied" => catalog.removed = TRUE \/ catalog.receipts[p] = "applied")
  BY <1>1, <1>2, <1>3, Facts DEF ToldOf, Deciding
<1>8. CatalogGrows(p) /\ JournalGrows(p)
  BY <1>1, Still
<1>9. proc[p].command = "run" /\ proc[p].at = 13 => ~Shared(p)
  <2>1. SUFFICES ASSUME proc[p].command = "run", proc[p].at = 13 PROVE ~Shared(p)
    OBVIOUS
  <2>2. reports[p] = "torn"
    BY <1>1, <1>2, <2>1, Facts DEF ToldOf, Deciding
  <2>3. ASSUME NEW q \in Processes \ {p}, At(q, "write report") PROVE ReportOf(q) # ReportOf(p)
    <3>1. proc[q].command \in Deciders
      BY <2>3, Places, Facts DEF IsAt
    <3> QED
      BY <1>5, <1>6, <2>1, <3>1, ReportNames
  <2> QED
    BY <1>5, <1>6, <2>1, <2>2, <2>3 DEF Shared
<1>10. PICK content :
          /\ reports' = [reports EXCEPT ![name] = content]
          /\ content = "torn" \/ (content = p /\ proc[p].at = 13)
          /\ proc[p].command = "run" /\ proc[p].at = 13 => content = p
  <2>1. CASE At(p, "empty report") /\ reports' = [reports EXCEPT ![ReportOf(p)] = "torn"]
    <3>1. proc[p].at = 12
      BY <2>1, Places, Facts DEF IsAt
    <3>2. proc[p].at # 13
      BY <3>1
    <3> QED
      BY <1>5, <2>1, <3>2
  <2>2. CASE At(p, "write report") /\ reports' = [reports EXCEPT ![ReportOf(p)] = p]
    <3>1. proc[p].at = 13
      BY <2>2, Places, Facts DEF IsAt
    <3> QED
      BY <1>5, <2>2, <3>1
  <2>3. CASE At(p, "write report") /\ Shared(p) /\ reports' = [reports EXCEPT ![ReportOf(p)] = "torn"]
    <3>1. proc[p].at = 13
      BY <2>3, Places, Facts DEF IsAt
    <3> QED
      BY <1>5, <1>9, <2>3, <3>1
  <2> QED
    BY <2>1, <2>2, <2>3 DEF SaveReport
<1>11. /\ reports' \in [Names -> {"", "torn"} \cup Processes] /\ reports'[name] = content
       /\ \A other \in Names : other # name => reports'[other] = reports[other]
  BY <1>6, <1>10, Facts DEF Typed, ReportsTyped
<1>12. ~Reporting(p)
  BY <1>1, <1>3, NotReporting
<1>13. Typed'
  <2>1. Changed(p) /\ ProcessTyped(p)'
    BY <1>4 DEF Goes
  <2>2. \A q \in Processes : q # p => ProcessTyped(q)'
    BY <2>1, Facts DEF Changed, ProcessTyped
  <2> QED
    BY <1>1, <1>8, <1>11, <2>1, <2>2, Facts DEF Typed, Changed, CatalogGrows, JournalGrows, ReportsTyped, FilesTyped
<1>14. ~Maker(p)' /\ proc[p].command \notin Readers /\ proc[p].command # "reconcile"
  BY <1>2, <1>4 DEF Goes, Maker, Inits, Deciders, Readers
<1>15. Making'
  BY <1>1, <1>4, <1>14, MakingKept DEF IInv, Goes
<1>16. Equipped'
  <2>1. edits = 0 => EquippedFor(p)'
    BY <1>1, <1>2, <1>3, <1>4, <1>8, DeciderEquipped DEF Deciders
  <2> QED
    BY <1>1, <1>4, <1>8, <2>1, EquippedKept DEF IInv, Goes
<1>17. Told(p)' /\ proc'[p].command = proc[p].command /\ proc'[p].command # ""
  BY <1>1, <1>4, <1>7 DEF Told, Goes, Running
<1>18. Reported'
  <2> SUFFICES ASSUME NEW other \in Names, NEW q \in Processes, reports'[other] = q
               PROVE  /\ Told(q)' /\ proc'[q].command \in Deciders
                      /\ Running(q)' => proc'[q].at = 14
                      /\ other \in Processes => other = q
    BY DEF Reported
  <2>1. CASE other = name
    <3>1. q # "torn"
      BY ProjectsAssumption
    <3>2. q = p /\ proc[p].at = 13
      BY <1>10, <1>11, <2>1, <3>1
    <3>3. proc'[p].at = 14
      BY <1>4, <3>2
    <3> QED
      BY <1>2, <1>6, <1>17, <2>1, <3>2, <3>3
  <2>2. CASE other # name
    <3>1. reports[other] = q
      BY <1>11, <2>2
    <3>2. q # p
      BY <1>12, <3>1 DEF Reporting
    <3>3. proc'[q] = proc[q] /\ (Running(q)' <=> Running(q)) /\ (Told(q) => Told(q)')
      BY <1>1, <1>4, <3>2 DEF Goes, Changed, Running, Told
    <3> QED
      BY <3>1, <3>3 DEF IInv, Reported
  <2> QED
    BY <2>1, <2>2
<1>19. ASSUME NEW q \in Processes PROVE ToldOf(q)' /\ Exited(q)' /\ Listed(q)'
  <2>1. CASE q # p
    <3>1. reports'[q] = reports[q]
      BY <1>6, <1>11, <2>1 DEF Names
    <3>2. \A r \in Processes : reports[r] = r => reports'[r] = r /\ proc'[r].outcome = proc[r].outcome
      <4> SUFFICES ASSUME NEW r \in Processes, reports[r] = r
                   PROVE  reports'[r] = r /\ proc'[r].outcome = proc[r].outcome
        OBVIOUS
      <4>1. r # p
        BY <1>12 DEF Reporting, Names
      <4>2. reports'[r] = reports[r]
        BY <1>6, <1>11, <4>1 DEF Names
      <4> QED
        BY <1>4, <4>1, <4>2 DEF Goes, Changed
    <3>3. ToldOf(q)'
      BY <1>4, <1>8, <2>1, <3>1, Facts, ToldKept DEF Goes
    <3>4. Exited(q)'
      BY <1>4, <1>8, <2>1, <3>2, Facts, ExitedKept DEF Goes
    <3>5. Listed(q)'
      BY <1>4, <1>8, <2>1, Facts, ListedKept DEF Goes
    <3> QED
      BY <3>3, <3>4, <3>5
  <2>2. CASE q = p
    <3>1. PICK next : next = proc'[p].at
      OBVIOUS
    <3>2. next = 13 \/ next = 14
      BY <1>2, <1>4, <3>1
    <3>3. next # 9 /\ next # 10 /\ ~(next <= 11) /\ next # 11
      BY <3>2
    <3>4. proc[p].command = "run" /\ next = 13 => reports'[p] = "torn"
      <4>1. next = 13 => proc[p].at # 13
        BY <1>4, <3>1
      <4> QED
        BY <1>6, <1>10, <1>11, <4>1
    <3>5. proc[p].command = "run" /\ next = 14 => reports'[p] = p
      <4>1. next = 14 => proc[p].at = 13
        BY <1>2, <1>4, <3>1
      <4> QED
        BY <1>6, <1>10, <1>11, <4>1
    <3>6. ToldOf(p)'
      BY <1>1, <1>4, <1>7, <1>17, <3>1, <3>3, <3>4, <3>5 DEF ToldOf
    <3>7. Exited(p)' /\ Listed(p)'
      BY <1>4, <1>14 DEF Exited, Listed, Goes
    <3> QED
      BY <2>2, <3>6, <3>7
  <2> QED
    BY <2>1, <2>2
<1> QED
  BY <1>13, <1>15, <1>16, <1>18, <1>19 DEF IInv
LEMMA FinishStep == ASSUME IInv, NEW p \in Processes, Finish(p) PROVE IInv'
<1>1. Running(p) /\ UNCHANGED <<made, files, catalog, journal, reports, edits>> /\ Exit(p, Code(p))
  BY DEF At, Finish, Same
<1>2. \/ proc[p].command \in Inits /\ proc[p].at = 12
      \/ proc[p].command \in Deciders /\ proc[p].at = 14
      \/ proc[p].command = "reconcile" /\ proc[p].at = 3
  BY Places, Facts DEF Finish, IsAt
<1>3. ASSUME NEW code, code \in {"0", "1", "2"}, Code(p) = code
      PROVE  /\ Changed(p) /\ proc'[p].command = proc[p].command /\ proc'[p].exit = code
             /\ proc'[p].outcome = proc[p].outcome
  BY <1>1, <1>3, Left, Facts DEF Becomes
<1>4. CASE proc[p].command = "run"
  <2>1. reports[p] = p
    <3>1. proc[p].command \in Deciders /\ proc[p].at = 14
      BY <1>2, <1>4 DEF Inits
    <3>2. proc[p].at = 14
      BY <3>1
    <3> QED
      BY <1>1, <1>4, <3>1, <3>2, Facts DEF ToldOf, Deciding
  <2>2. CASE proc[p].outcome = "applied"
    <3>1. Code(p) = "0"
      BY <1>4, <2>2 DEF Code
    <3>2. proc'[p].command = "run" /\ proc'[p].exit = "0" /\ proc'[p].outcome = "applied"
      BY <1>3, <1>4, <2>2, <3>1
    <3>3. Exited(p)'
      BY <1>1, <2>1, <3>2 DEF Exited, Readers
    <3> QED
      BY <1>1, <3>1, <3>3, Leaves
  <2>3. CASE proc[p].outcome # "applied"
    <3>1. Code(p) = "2"
      BY <1>4, <2>3 DEF Code
    <3>2. proc'[p].command = "run" /\ proc'[p].exit = "2" /\ proc'[p].outcome # "applied"
      BY <1>3, <1>4, <2>3, <3>1
    <3>3. Exited(p)'
      BY <1>1, <2>1, <3>2 DEF Exited, Readers
    <3> QED
      BY <1>1, <3>1, <3>3, Leaves
  <2> QED
    BY <2>2, <2>3
<1>5. CASE proc[p].command = "demo"
  <2>1. Told(p)
    <3>1. proc[p].at = 14 /\ proc[p].at >= 12
      BY <1>2, <1>5 DEF Inits
    <3> QED
      BY <1>1, <1>5, <3>1, Facts DEF ToldOf, Deciding, Deciders
  <2>2. Code(p) = "0"
    BY <1>5 DEF Code
  <2>3. /\ proc'[p].command = "demo" /\ proc'[p].outcome = proc[p].outcome
    BY <1>3, <1>5, <2>2
  <2>4. Told(p)'
    BY <1>1, <2>1, <2>3 DEF Told
  <2>5. Exited(p)'
    BY <2>3, <2>4 DEF Exited, Readers
  <2> QED
    BY <1>1, <2>2, <2>5, Leaves
<1>6. CASE proc[p].command # "run" /\ proc[p].command # "demo"
  <2>1. Code(p) = "0" \/ Code(p) = "2"
    BY <1>6 DEF Code
  <2>2. proc'[p].command = proc[p].command
    BY <1>3, <2>1
  <2>3. proc[p].command \notin Readers
    BY <1>2 DEF Inits, Deciders, Readers
  <2>4. Exited(p)'
    BY <1>6, <2>2, <2>3 DEF Exited
  <2> QED
    BY <1>1, <2>1, <2>4, Leaves
<1> QED
  BY <1>4, <1>5, <1>6

LEMMA EndStep == ASSUME IInv, NEW p \in Processes, End(p) PROVE IInv'
BY Fails DEF End, Same

(* An intact report that is its run's own is found complete.               *)
LEMMA ReadReportStep == ASSUME IInv, NEW p \in Processes, ReadReport(p) PROVE IInv'
<1>1. Running(p) /\ UNCHANGED <<made, files, catalog, journal, reports, edits>>
  BY DEF At, ReadReport, Same
<1>2. proc[p].command \in Readers
  BY Places, Facts DEF ReadReport, IsAt, Readers
<1>3. PICK name \in proc[p].todo :
         \/ Exit(p, "1")
         \/ /\ Exit(p, "0") /\ reports[name] # "" /\ reports[name] # "torn"
            /\ proc[p].command = "replay" => proc[reports[name]].outcome \notin Incomplete
  BY DEF ReadReport
<1>4. CASE Exit(p, "1")
  BY <1>1, <1>4, Fails
<1>5. CASE /\ Exit(p, "0") /\ reports[name] # "" /\ reports[name] # "torn"
           /\ proc[p].command = "replay" => proc[reports[name]].outcome \notin Incomplete
  <2>1. /\ Changed(p) /\ proc'[p].command = proc[p].command /\ proc'[p].todo = proc[p].todo
    BY <1>1, <1>5, Left, Facts DEF Becomes
  <2>2. /\ \E other \in Names : proc[p].todo = {other}
        /\ \A r \in proc[p].todo \cap Processes :
              /\ reports[r] = r
              /\ proc[p].command = "replay" => proc'[r].outcome \notin Incomplete
    <3>1. PICK other \in Names : proc[p].todo = {other}
      BY <1>2, Facts DEF Exited
    <3>2. name = other
      BY <3>1
    <3> SUFFICES ASSUME NEW r \in Processes, r = name
                 PROVE  /\ reports[r] = r
                        /\ proc[p].command = "replay" => proc'[r].outcome \notin Incomplete
      BY <3>1, <3>2
    <3>3. r \in Names
      BY DEF Names
    <3>4. reports[r] \in Processes
      BY <1>5, <3>3, Facts DEF Typed, ReportsTyped
    <3>5. reports[r] = r /\ proc[r].command \in Deciders
      BY <3>3, <3>4 DEF IInv, Reported
    <3>6. r # p
      BY <1>2, <3>5 DEF Deciders, Readers
    <3>7. proc'[r] = proc[r]
      BY <2>1, <3>6 DEF Changed
    <3> QED
      BY <1>5, <3>5, <3>7
  <2>3. Exited(p)'
    <3>1. proc[p].command # "run" /\ proc[p].command # "demo"
      BY <1>2 DEF Readers
    <3> QED
      BY <1>1, <2>1, <2>2, <3>1 DEF Exited
  <2> QED
    BY <1>1, <1>5, <2>3, Leaves
<1> QED
  BY <1>3, <1>4, <1>5
(* A step of a reconciliation: no run begins or ends by it, and what is    *)
(* found out of an operation is never that there was none.                 *)
LEMMA Reconciles ==
    ASSUME IInv, NEW p \in Processes, Goes(p), proc[p].command = "reconcile",
           proc'[p].outcome = proc[p].outcome,
           UNCHANGED <<made, files, edits, reports, catalog>>, JournalGrows(p),
           journal'.outcome[p] = journal.outcome[p],
           journal'.state[p] # "" => journal.state[p] # "", Listed(p)'
    PROVE  IInv'
<1>1. /\ proc'[p].command = "reconcile" /\ "reconcile" \notin Inits /\ "reconcile" \notin Deciders
      /\ "reconcile" \notin Readers /\ CatalogGrows(p) /\ JournalGrows(p)
  BY Still DEF Goes, Inits, Deciders, Readers
<1>2. ~Maker(p)' /\ ~Deciding(p)'
  BY <1>1 DEF Maker, Deciding
<1>3. ToldOf(p)'
  BY <1>1, <1>2, Facts DEF ToldOf
<1>4. edits = 0 => EquippedFor(p)'
  BY <1>1, <1>2, Facts DEF EquippedFor
<1> QED
  BY <1>1, <1>2, <1>3, <1>4, Advances

LEMMA ListRunsStep == ASSUME IInv, NEW p \in Processes, ListRuns(p) PROVE IInv'
<1>1. Running(p) /\ UNCHANGED <<made, files, catalog, journal, reports, edits>>
  BY DEF At, ListRuns, Same
<1>2. proc[p].command = "reconcile" /\ proc[p].at = 1
  BY Places, Facts DEF ListRuns, IsAt
<1>3. CASE Known = {}
  <2>1. Exit(p, "1")
    BY <1>3 DEF ListRuns
  <2> QED
    BY <1>1, <2>1, Fails
<1>4. CASE Known # {}
  <2>1. PICK rows : rows = {<<r, journal.state[r]>> : r \in Known}
    OBVIOUS
  <2>2. proc' = [proc EXCEPT ![p] = [@ EXCEPT !.at = proc[p].at + 1, !.todo = rows]]
    BY <1>4, <2>1 DEF ListRuns
  <2>3. \A row \in rows : row \in Processes \X Statuses /\ row[1] \in Processes /\ journal.state[row[1]] # ""
    <3> SUFFICES ASSUME NEW row \in rows
                 PROVE  row \in Processes \X Statuses /\ row[1] \in Processes /\ journal.state[row[1]] # ""
      OBVIOUS
    <3>1. PICK q \in Known : row = <<q, journal.state[q]>>
      BY <2>1
    <3>2. q \in Processes /\ journal.state[q] # ""
      BY <3>1 DEF Known
    <3>3. journal.state[q] \in Statuses
      BY <3>2, Facts DEF Typed, JournalTyped
    <3>4. row[1] = q
      BY <3>1
    <3> QED
      BY <3>1, <3>2, <3>3, <3>4
  <2>4. PICK r : r = proc[p]
    OBVIOUS
  <2>5. PICK at \in Nat : at = r.at + 1 /\ at = 2
    BY <1>2, <2>4
  <2>6. PICK t : t = [r EXCEPT !.at = at, !.todo = rows]
    OBVIOUS
  <2>7. proc' = [proc EXCEPT ![p] = t]
    BY <2>2, <2>4, <2>5, <2>6
  <2>8. r \in Process /\ r.exit = "" /\ rows \in SUBSET (Names \cup (Processes \X Statuses))
    BY <1>1, <2>3, <2>4, Facts DEF ProcessTyped, Running
  <2>9. /\ t.at = at /\ t.command = r.command /\ t.plans = r.plans
        /\ t.outcome = r.outcome /\ t.todo = rows /\ t.exit = "" /\ t \in Process
    BY <2>6, <2>8 DEF Process
  <2>10. Steps(t.command) = 3
    BY <1>2, <2>4, <2>9, Orders
  <2>11. t.at \in 1 .. Steps(t.command)
    <3>1. t.at = at
      BY <2>9
    <3>2. t.at \in 1 .. 3
      BY <2>5, <3>1
    <3> QED
      BY <2>10, <3>2
  <2>12. t.command = proc[p].command
    BY <2>4, <2>9
  <2>13. /\ Goes(p) /\ proc'[p].outcome = t.outcome /\ proc'[p].todo = t.todo
    BY <1>1, <2>7, <2>9, <2>11, <2>12, Updated
  <2>14. Listed(p)'
    BY <1>1, <2>3, <2>9, <2>13 DEF Listed
  <2>15. proc'[p].outcome = proc[p].outcome
    BY <2>4, <2>9, <2>13
  <2>16. JournalGrows(p)
    BY <1>1, Still
  <2> QED
    BY <1>1, <1>2, <2>13, <2>14, <2>15, <2>16, Reconciles
<1> QED
  BY <1>3, <1>4

LEMMA SettleStep == ASSUME IInv, NEW p \in Processes, Settle(p) PROVE IInv'
<1>1. Running(p) /\ UNCHANGED <<made, files, catalog, reports, edits>>
  BY DEF At, Settle, Same
<1>2. proc[p].command = "reconcile" /\ proc[p].at = 2
  BY Places, Facts DEF Settle, IsAt
<1>3. PICK row \in proc[p].todo :
       LET state == IF row[2] = "completed" /\ Found(row[1]) # "unresolved" THEN "completed"
                    ELSE IF Found(row[1]) \notin {"", "unresolved"} THEN "reconciled"
                    ELSE "unresolved"
       IN  /\ journal' = [journal EXCEPT !.operation = [@ EXCEPT ![row[1]] = Found(row[1])],
                                         !.state = [@ EXCEPT ![row[1]] = state]]
           /\ proc' = [proc EXCEPT ![p] =
                  [@ EXCEPT !.todo = proc[p].todo \ {row},
                            !.unresolved = (proc[p].unresolved \/ state = "unresolved"),
                            !.at = IF proc[p].todo = {row} THEN proc[p].at + 1 ELSE proc[p].at]]
  BY DEF Settle
<1>4. PICK r, found : r = row[1] /\ found = Found(r)
  OBVIOUS
<1>5. PICK state : state = IF row[2] = "completed" /\ found # "unresolved" THEN "completed"
                             ELSE IF found \notin {"", "unresolved"} THEN "reconciled"
                             ELSE "unresolved"
  OBVIOUS
<1>6. PICK open, at : /\ open = (proc[p].unresolved \/ state = "unresolved")
                        /\ at = IF proc[p].todo = {row} THEN proc[p].at + 1 ELSE proc[p].at
  OBVIOUS
<1>7. /\ r = row[1] /\ found = Found(r)
      /\ state = "completed" \/ state = "reconciled" \/ state = "unresolved"
      /\ open = (proc[p].unresolved \/ state = "unresolved")
      /\ at = IF proc[p].todo = {row} THEN proc[p].at + 1 ELSE proc[p].at
      /\ journal' = [journal EXCEPT !.operation = [@ EXCEPT ![r] = found],
                                       !.state = [@ EXCEPT ![r] = state]]
         /\ proc' = [proc EXCEPT ![p] = [@ EXCEPT !.todo = proc[p].todo \ {row},
                                                  !.unresolved = open, !.at = at]]
  BY <1>3, <1>4, <1>5, <1>6
<1>8. r \in Processes /\ journal.state[r] # ""
  BY <1>2, <1>7, Facts DEF Listed
<1>9. /\ found = "" \/ found = "applied" \/ found = "stale" \/ found = "unresolved"
      /\ journal.operation[r] # "" => found # ""
  <2>1. catalog.receipts[r] \in {"", "applied", "stale"}
    BY <1>8, Facts DEF Typed, CatalogTyped
  <2> QED
    BY <1>7, <2>1 DEF Found
<1>10. PICK operation : operation = [journal.operation EXCEPT ![r] = found]
  OBVIOUS
<1>11. PICK states : states = [journal.state EXCEPT ![r] = state]
  OBVIOUS
<1>12. /\ states \in [Processes -> Statuses]
      /\ \A q \in Processes : states[q] # "" <=> journal.state[q] # ""
  BY <1>7, <1>8, <1>11, Facts DEF Typed, JournalTyped, Statuses
<1>13. /\ operation \in [Processes -> {"", "prepared", "applied", "stale", "unresolved"}]
      /\ \A q \in Processes : journal.operation[q] # "" => operation[q] # ""
  BY <1>8, <1>9, <1>10, Facts DEF Typed, JournalTyped
<1>14. journal' = [journal EXCEPT !.operation = operation, !.state = states]
  BY <1>7, <1>10, <1>11
<1>15. /\ JournalTyped' /\ journal'.state = states
       /\ journal'.operation = operation /\ journal'.outcome = journal.outcome
  BY <1>12, <1>13, <1>14, Facts DEF Typed, JournalTyped
<1>16. JournalGrows(p)
  BY <1>12, <1>13, <1>15 DEF JournalGrows
<1>17. PICK s, todo : s = proc[p] /\ todo = proc[p].todo \ {row}
  OBVIOUS
<1>18. PICK t : t = [s EXCEPT !.todo = todo, !.unresolved = open, !.at = at]
  OBVIOUS
<1>19. proc' = [proc EXCEPT ![p] = t]
  BY <1>7, <1>17, <1>18
<1>20. /\ s \in Process /\ s.exit = "" /\ todo \subseteq s.todo
  BY <1>1, <1>17, Facts DEF ProcessTyped, Running
<1>21. at = 2 \/ at = 3
  BY <1>2, <1>7
<1>22. open \in BOOLEAN
  <2>1. proc[p].unresolved \in BOOLEAN
    BY Facts DEF ProcessTyped, Process
  <2> QED
    BY <1>7, <2>1
<1>23. at \in 1 .. 3 /\ at \in Nat
  BY <1>21
<1>24. todo \in SUBSET (Names \cup (Processes \X Statuses))
  BY <1>20 DEF Process
<1>25. /\ t.at = at /\ t.command = s.command /\ t.outcome = s.outcome /\ t.todo = todo
       /\ t.exit = "" /\ t \in Process
  BY <1>18, <1>20, <1>22, <1>23, <1>24 DEF Process
<1>26. Steps(t.command) = 3
  BY <1>2, <1>17, <1>25, Orders
<1>27. t.at \in 1 .. Steps(t.command) /\ t.command = proc[p].command
  BY <1>17, <1>23, <1>25, <1>26
<1>28. Goes(p) /\ proc'[p].outcome = t.outcome /\ proc'[p].todo = t.todo
  BY <1>1, <1>19, <1>25, <1>27, Updated
<1>29. Listed(p)'
  BY <1>2, <1>12, <1>15, <1>17, <1>20, <1>25, <1>28, Facts DEF Listed
<1>30. proc'[p].outcome = proc[p].outcome
  BY <1>17, <1>25, <1>28
<1>31. journal'.state[p] # "" => journal.state[p] # ""
  BY <1>12, <1>15
<1> QED
  BY <1>1, <1>2, <1>15, <1>16, <1>28, <1>29, <1>30, <1>31, Reconciles

Launchable(command, about) ==
    /\ command \in Commanded /\ command # "" /\ about \subseteq Names
    /\ command \in Readers => \E name \in Names : about = {name}
    /\ command = "reconcile" => about = {}

LEMMA OneStep == ASSUME NEW command PROVE 1 \in 1 .. Steps(command)
BY DEF Steps

LEMMA LaunchStep ==
    ASSUME IInv, NEW p \in Processes, NEW command, NEW about, Launchable(command, about),
           Launch(p, command, about)
    PROVE  IInv'
<1>1. proc[p].command = "" /\ UNCHANGED <<made, files, catalog, journal, reports, edits>>
  BY DEF Launch, Same
<1>2. PICK r : r = proc[p]
  OBVIOUS
<1>3. PICK t : t = [r EXCEPT !.command = command, !.todo = about]
  OBVIOUS
<1>4. proc' = [proc EXCEPT ![p] = t]
  BY <1>2, <1>3 DEF Launch
<1>5. r \in Process /\ r.at = 1 /\ r.command = "" /\ r.exit = ""
  BY <1>1, <1>2, Facts DEF ProcessTyped
<1>6. command \in Commanded /\ command # "" /\ about \in SUBSET (Names \cup (Processes \X Statuses))
  BY DEF Launchable
<1>7. /\ t.at = 1 /\ t.command = command /\ t.plans = r.plans
      /\ t.outcome = r.outcome /\ t.todo = about /\ t.exit = "" /\ t \in Process
  BY <1>3, <1>5, <1>6 DEF Process
<1>8. t.at \in 1 .. Steps(t.command)
  <2>1. 1 \in 1 .. Steps(t.command)
    BY OneStep
  <2> QED
    BY <1>7, <2>1
<1>9. Becomes(p, t.command, t.at, t.plans, t.outcome, t.todo, t.exit)
  BY <1>4, <1>7, <1>8, <1>6, Became, Facts
<1>10. /\ Changed(p) /\ ProcessTyped(p)' /\ proc'[p].command = command /\ proc'[p].at = 1
      /\ proc'[p].todo = about /\ proc'[p].outcome = proc[p].outcome /\ proc'[p].exit = "" /\ command # ""
  BY <1>2, <1>7, <1>9, <1>6 DEF Becomes
<1>11. CatalogGrows(p) /\ JournalGrows(p)
  BY <1>1, Still
<1>12. /\ journal.outcome[p] = "" /\ journal.state[p] = ""
       /\ proc[p].outcome = "applied" => catalog.removed = TRUE \/ catalog.receipts[p] = "applied"
  BY <1>1, Facts DEF ToldOf
<1>13. ~Reporting(p)
  BY <1>1, NotReporting DEF Deciders
<1>14. PICK next : next = proc'[p].at
  OBVIOUS
<1>15. /\ ~(next > 1) /\ ~(next > 2) /\ ~(next > 3) /\ ~(next > 5)
        /\ next # 9 /\ next # 10 /\ next # 11 /\ ~(next >= 12) /\ next # 13 /\ next # 14
  <2>1. next = 1
    BY <1>10, <1>14
  <2> QED
    BY <2>1
<1>16. ~Maker(p)'
  BY <1>14, <1>15 DEF Maker
<1>17. ToldOf(p)'
  BY <1>1, <1>10, <1>12, <1>14, <1>15 DEF ToldOf
<1>18. EquippedFor(p)'
  BY <1>1, <1>10, <1>12, <1>16, <1>14, <1>15 DEF EquippedFor
<1>19. Listed(p)'
  BY <1>10 DEF Listed, Launchable
<1>20. Exited(p)'
  BY <1>10 DEF Exited, Launchable, Readers
<1> QED
  BY <1>1, <1>10, <1>11, <1>13, <1>16, <1>17, <1>18, <1>19, <1>20, Frame
(* Making the project.                                                     *)
LEMMA MakerRest ==
    ASSUME IInv, NEW p \in Processes, Goes(p), proc[p].command \in Inits,
           proc'[p].outcome = proc[p].outcome, made' \in BOOLEAN, FilesTyped',
           UNCHANGED <<catalog, journal, reports, edits>>, Making', Equipped'
    PROVE  IInv'
<1>1. /\ proc'[p].command = proc[p].command /\ Running(p) /\ proc[p].command # ""
      /\ proc[p].command \notin Deciders /\ proc[p].command \notin Readers /\ proc[p].command # "reconcile"
      /\ proc[p].command # "run" /\ proc[p].command # "demo"
  BY DEF Goes, Inits, Deciders, Readers
<1>2. CatalogGrows(p) /\ JournalGrows(p)
  BY Still
<1>3. ToldOf(p)'
  BY <1>1, Facts DEF ToldOf, Deciding
<1>4. Exited(p)' /\ Listed(p)'
  BY <1>1 DEF Exited, Listed
<1>5. ~Reporting(p)
  BY <1>1, NotReporting
<1> QED
  BY <1>2, <1>3, <1>4, <1>5, Rest DEF Goes

LEMMA MakeDirectoryStep == ASSUME IInv, NEW p \in Processes, MakeDirectory(p) PROVE IInv'
<1>1. /\ Running(p) /\ UNCHANGED <<files, catalog, journal, reports, edits>> /\ made' = TRUE
      /\ GoOn(p, ~made)
  BY DEF At, MakeDirectory, Same
<1>2. proc[p].command \in Inits /\ proc[p].at = 1
  BY Places, Facts DEF MakeDirectory, IsAt
<1>3. CASE made = TRUE
  <2>1. Exit(p, "1")
    BY <1>1, <1>3 DEF GoOn
  <2> QED
    BY <1>1, <1>3, <2>1, Fails
<1>4. CASE made = FALSE
  <2>1. Step(p)
    BY <1>1, <1>4 DEF GoOn
  <2>2. proc[p].at \in 1 .. 11
    BY <1>2
  <2>3. Goes(p) /\ proc'[p].at = proc[p].at + 1 /\ proc'[p].outcome = proc[p].outcome
    BY <1>1, <1>2, <2>1, <2>2, InitWalks
  <2>4. PICK next : next = proc'[p].at
    OBVIOUS
  <2>5. next = 2
    BY <1>2, <2>3, <2>4
  <2>6. Making'
    <3>1. (\A f \in Inputs : files[f] = "") /\ \A q \in Processes : ~Maker(q)
      BY <1>4 DEF IInv, Making
    <3>2. \A q \in Processes : q # p => ~Maker(q)'
      BY <2>3, <3>1 DEF Goes, Changed, Maker, Running
    <3>3. /\ ~(next = 2 + 1) /\ ~(next = 4 + 1) /\ ~(next = 10 + 1)
      BY <2>5
    <3>4. Written("config", proc[p].at, 2)' /\ Written("source", proc[p].at, 4)' /\ Written("plans", proc[p].at, 10)'
      BY <1>1, <2>4, <3>1, <3>3 DEF Written, Inputs
    <3> QED
      BY <1>1, <3>2, <3>4 DEF Making
  <2>7. CatalogGrows(p) /\ JournalGrows(p)
    BY <1>1, Still
  <2>8. edits = 0 => EquippedFor(p)'
    <3>1. ~(next > 7) /\ ~(next > 9)
      BY <2>5
    <3> QED
      BY <1>1, <1>2, <2>3, <2>4, <2>7, <3>1, MakerEquipped
  <2>9. Equipped'
    BY <1>1, <2>3, <2>7, <2>8, EquippedKept DEF IInv, Goes
  <2>10. FilesTyped'
    BY <1>1, Facts DEF Typed, FilesTyped
  <2> QED
    BY <1>1, <1>2, <2>3, <2>6, <2>9, <2>10, MakerRest
<1> QED
  BY <1>3, <1>4, Facts DEF Typed

(* Where each file is written, and that it has no content before.          *)
LEMMA Writes ==
    ASSUME IInv, NEW p \in Processes, NEW file \in Inputs, WriteFile(p, file)
    PROVE  /\ Running(p) /\ proc[p].command \in Inits /\ proc[p].at \in 2 .. 11
           /\ files[file] \in {"", "torn"}
           /\ \E content :
                 /\ content \in {"torn", "some", "none"}
                 /\ files' = [files EXCEPT ![file] = content]
                 /\ \/ /\ content = "torn"
                       /\ file = "config" => proc[p].at = 2
                       /\ file = "source" => proc[p].at = 4
                       /\ file = "plans" => proc[p].at = 10
                    \/ /\ content = Content(p, file)
                       /\ file = "config" => proc[p].at = 3
                       /\ file = "source" => proc[p].at = 5
                       /\ file = "plans" => proc[p].at = 11
<1>1. file = "config" \/ file = "source" \/ file = "plans"
  BY DEF Inputs
<1>2. CASE At(p, Emptying[file]) /\ files' = [files EXCEPT ![file] = "torn"]
  <2>1. /\ proc[p].command \in Inits
        /\ file = "config" => proc[p].at = 2
        /\ file = "source" => proc[p].at = 4
        /\ file = "plans" => proc[p].at = 10
    <3>1. Typed
      BY Facts
    <3>2. CASE file = "config"
      <4>1. At(p, "empty config")
        BY <1>2, <3>2 DEF Emptying
      <4> QED
        BY <3>1, <3>2, <4>1, Places DEF IsAt
    <3>3. CASE file = "source"
      <4>1. At(p, "empty source")
        BY <1>2, <3>3 DEF Emptying
      <4> QED
        BY <3>1, <3>3, <4>1, Places DEF IsAt
    <3>4. CASE file = "plans"
      <4>1. At(p, "empty plans")
        BY <1>2, <3>4 DEF Emptying
      <4> QED
        BY <3>1, <3>4, <4>1, Places DEF IsAt
    <3> QED
      BY <1>1, <3>2, <3>3, <3>4
  <2>2. proc[p].at = 2 \/ proc[p].at = 4 \/ proc[p].at = 10
    BY <1>1, <2>1
  <2>3. Running(p)
    BY <1>2 DEF At
  <2>4. proc[p].at \in 2 .. 11 /\ proc[p].at > 1
    BY <2>2
  <2>5. /\ Written("config", proc[p].at, 2) /\ Written("source", proc[p].at, 4)
        /\ Written("plans", proc[p].at, 10)
    BY <2>1, <2>3, <2>4 DEF IInv, Making, Maker
  <2>6. files[file] = ""
    <3>1. CASE file = "config"
      <4>1. proc[p].at <= 2
        BY <2>1, <3>1
      <4> QED
        BY <2>5, <3>1, <4>1 DEF Written
    <3>2. CASE file = "source"
      <4>1. proc[p].at <= 4
        BY <2>1, <3>2
      <4> QED
        BY <2>5, <3>2, <4>1 DEF Written
    <3>3. CASE file = "plans"
      <4>1. proc[p].at <= 10
        BY <2>1, <3>3
      <4> QED
        BY <2>5, <3>3, <4>1 DEF Written
    <3> QED
      BY <1>1, <3>1, <3>2, <3>3
  <2> QED
    BY <1>2, <2>1, <2>3, <2>4, <2>6
<1>3. CASE At(p, Writing[file]) /\ files' = [files EXCEPT ![file] = Content(p, file)]
  <2>1. /\ proc[p].command \in Inits
        /\ file = "config" => proc[p].at = 3
        /\ file = "source" => proc[p].at = 5
        /\ file = "plans" => proc[p].at = 11
    <3>1. Typed
      BY Facts
    <3>2. CASE file = "config"
      <4>1. At(p, "write config")
        BY <1>3, <3>2 DEF Writing
      <4> QED
        BY <3>1, <3>2, <4>1, Places DEF IsAt
    <3>3. CASE file = "source"
      <4>1. At(p, "write source")
        BY <1>3, <3>3 DEF Writing
      <4> QED
        BY <3>1, <3>3, <4>1, Places DEF IsAt
    <3>4. CASE file = "plans"
      <4>1. At(p, "write plans")
        BY <1>3, <3>4 DEF Writing
      <4> QED
        BY <3>1, <3>4, <4>1, Places DEF IsAt
    <3> QED
      BY <1>1, <3>2, <3>3, <3>4
  <2>2. proc[p].at = 3 \/ proc[p].at = 5 \/ proc[p].at = 11
    BY <1>1, <2>1
  <2>3. Running(p)
    BY <1>3 DEF At
  <2>4. proc[p].at \in 2 .. 11 /\ proc[p].at > 1
    BY <2>2
  <2>5. /\ Written("config", proc[p].at, 2) /\ Written("source", proc[p].at, 4)
        /\ Written("plans", proc[p].at, 10)
    BY <2>1, <2>3, <2>4 DEF IInv, Making, Maker
  <2>6. files[file] = "torn"
    <3>1. CASE file = "config"
      <4>1. proc[p].at = 2 + 1
        BY <2>1, <3>1
      <4> QED
        BY <2>5, <3>1, <4>1 DEF Written
    <3>2. CASE file = "source"
      <4>1. proc[p].at = 4 + 1
        BY <2>1, <3>2
      <4> QED
        BY <2>5, <3>2, <4>1 DEF Written
    <3>3. CASE file = "plans"
      <4>1. proc[p].at = 10 + 1
        BY <2>1, <3>3
      <4> QED
        BY <2>5, <3>3, <4>1 DEF Written
    <3> QED
      BY <1>1, <3>1, <3>2, <3>3
  <2>7. Content(p, file) \in {"torn", "some", "none"}
    BY DEF Content
  <2> QED
    BY <1>3, <2>1, <2>3, <2>4, <2>6, <2>7
<1> QED
  BY <1>2, <1>3 DEF WriteFile
(* What a write leaves of the progress of the files.                       *)
LEMMA Next1 ==
    ASSUME NEW at \in Nat, NEW empty \in Nat
    PROVE  /\ at >= empty => ~(at + 1 <= empty)
           /\ at + 1 = empty + 1 => at = empty
           /\ at + 1 <= empty => at <= empty
OBVIOUS

LEMMA StillWritten ==
    ASSUME FilesTyped, NEW file \in Inputs, NEW content, NEW f \in Inputs,
           files' = [files EXCEPT ![file] = content],
           NEW at \in Nat, NEW empty \in Nat, Written(f, at, empty),
           f = file => at >= empty /\ (at = empty => content = "torn"),
           f # file => at # empty
    PROVE  /\ at + 1 <= empty => files'[f] = ""
           /\ at + 1 = empty + 1 => files'[f] = "torn"
<1>1. CASE f = file
  <2>1. at >= empty /\ (at = empty => content = "torn")
    BY <1>1
  <2>2. files'[f] = content
    BY <1>1 DEF FilesTyped
  <2>3. ~(at + 1 <= empty) /\ (at + 1 = empty + 1 => at = empty)
    BY <2>1, Next1
  <2> QED
    BY <2>1, <2>2, <2>3
<1>2. CASE f # file
  <2>1. files'[f] = files[f]
    BY <1>2 DEF FilesTyped
  <2>2. at # empty
    BY <1>2
  <2>3. (at + 1 <= empty => at <= empty) /\ (at + 1 = empty + 1 => at = empty)
    BY Next1
  <2> QED
    BY <2>1, <2>2, <2>3 DEF Written
<1> QED
  BY <1>1, <1>2

LEMMA WriteFileStep ==
    ASSUME IInv, NEW p \in Processes, NEW file \in Inputs, WriteFile(p, file)
    PROVE  IInv'
<1>1. UNCHANGED <<made, catalog, journal, reports, edits>> /\ Step(p)
  BY DEF WriteFile, Same
<1>2. /\ Running(p) /\ proc[p].command \in Inits /\ proc[p].at \in 2 .. 11
      /\ files[file] \in {"", "torn"}
  BY Writes
<1>3. PICK content :
          /\ content \in {"torn", "some", "none"}
          /\ files' = [files EXCEPT ![file] = content]
          /\ \/ /\ content = "torn"
                /\ file = "config" => proc[p].at = 2
                /\ file = "source" => proc[p].at = 4
                /\ file = "plans" => proc[p].at = 10
             \/ /\ content = Content(p, file)
                /\ file = "config" => proc[p].at = 3
                /\ file = "source" => proc[p].at = 5
                /\ file = "plans" => proc[p].at = 11
  BY Writes
<1>4. proc[p].at \in 1 .. 11 /\ proc[p].at > 1
  <2>1. proc[p].at \in 2 .. 11
    BY <1>2
  <2> QED
    BY <2>1
<1>5. Goes(p) /\ proc'[p].at = proc[p].at + 1 /\ proc'[p].outcome = proc[p].outcome
  BY <1>1, <1>2, <1>4, InitWalks
<1>6. FilesTyped /\ FilesTyped' /\ files'[file] = content
      /\ \A f \in Inputs : f # file => files'[f] = files[f]
  <2>1. FilesTyped
    BY Facts DEF Typed
  <2> QED
    BY <1>3, <2>1 DEF FilesTyped
<1>7. Maker(p)
  BY <1>2, <1>4 DEF Maker
<1>8. Making'
  <2>1. PICK at \in Nat : at = proc[p].at
    BY Facts
  <2>2. Written("config", at, 2) /\ Written("source", at, 4) /\ Written("plans", at, 10)
    BY <1>7, <2>1 DEF IInv, Making
  <2>3. /\ file = "config" => at >= 2 /\ (at = 2 => content = "torn") /\ at # 4 /\ at # 10
        /\ file = "source" => at >= 4 /\ (at = 4 => content = "torn") /\ at # 2 /\ at # 10
        /\ file = "plans" => at >= 10 /\ (at = 10 => content = "torn") /\ at # 2 /\ at # 4
    <3>1. CASE file = "config"
      <4>1. (at = 2 /\ content = "torn") \/ at = 3
        BY <1>3, <2>1, <3>1
      <4> QED
        BY <3>1, <4>1
    <3>2. CASE file = "source"
      <4>1. (at = 4 /\ content = "torn") \/ at = 5
        BY <1>3, <2>1, <3>2
      <4> QED
        BY <3>2, <4>1
    <3>3. CASE file = "plans"
      <4>1. (at = 10 /\ content = "torn") \/ at = 11
        BY <1>3, <2>1, <3>3
      <4> QED
        BY <3>3, <4>1
    <3> QED
      BY <3>1, <3>2, <3>3 DEF Inputs
  <2>4. /\ at + 1 <= 2 => files'["config"] = ""
        /\ at + 1 = 2 + 1 => files'["config"] = "torn"
    <3>1. CASE file = "config"
      <4>1. at >= 2 /\ (at = 2 => content = "torn") /\ files'["config"] = content
        BY <1>6, <2>3, <3>1
      <4>2. ~(at + 1 <= 2) /\ (at + 1 = 2 + 1 => at = 2)
        BY <4>1
      <4> QED
        BY <4>1, <4>2
    <3>2. CASE file # "config"
      <4>1. at # 2 /\ files'["config"] = files["config"]
        BY <1>6, <2>3, <3>2 DEF Inputs
      <4>2. (at + 1 <= 2 => at <= 2) /\ ~(at + 1 = 2 + 1)
        BY <4>1
      <4> QED
        BY <2>2, <4>1, <4>2 DEF Written
    <3> QED
      BY <3>1, <3>2
  <2>5. /\ at + 1 <= 4 => files'["source"] = ""
        /\ at + 1 = 4 + 1 => files'["source"] = "torn"
    BY <1>3, <1>6, <2>2, <2>3, StillWritten DEF Inputs
  <2>6. /\ at + 1 <= 10 => files'["plans"] = ""
        /\ at + 1 = 10 + 1 => files'["plans"] = "torn"
    BY <1>3, <1>6, <2>2, <2>3, StillWritten DEF Inputs
  <2>7. \A q \in Processes : q # p => ~Maker(q)'
    BY <1>5, <1>7 DEF IInv, Making, Goes, Changed, Maker, Running
  <2>8. made' # FALSE
    BY <1>1, <1>7 DEF IInv, Making
  <2>9. Written("config", proc[p].at, 2)' /\ Written("source", proc[p].at, 4)' /\ Written("plans", proc[p].at, 10)'
    BY <1>5, <2>1, <2>4, <2>5, <2>6 DEF Written
  <2> QED
    BY <2>7, <2>8, <2>9 DEF Making
<1>9. Equipped'
  <2> SUFFICES ASSUME edits = 0
               PROVE  /\ files'["plans"] # "" => catalog.identified = TRUE
                      /\ files'["plans"] = "some" => catalog.rows = TRUE
                      /\ \A q \in Processes : EquippedFor(q)'
    BY <1>1 DEF Equipped
  <2>1. EquippedFor(p) /\ CatalogGrows(p) /\ JournalGrows(p)
    BY <1>1, Facts, Still
  <2>2. file = "plans" => proc[p].at > 7 /\ proc[p].at > 9
    <3>1. file = "plans" => proc[p].at = 10 \/ proc[p].at = 11
      BY <1>3
    <3> QED
      BY <3>1
  <2>3. file # "plans" => ~(proc'[p].at > 7) /\ ~(proc'[p].at > 9)
    <3>1. file # "plans" => \/ proc[p].at = 2 \/ proc[p].at = 3
                           \/ proc[p].at = 4 \/ proc[p].at = 5
      BY <1>3 DEF Inputs
    <3> QED
      BY <1>5, <3>1
  <2>4. file = "plans" => catalog.identified = TRUE
    BY <1>2, <2>2, MakerHas
  <2>5. file = "plans" /\ proc[p].command = "init demo" => catalog.rows = TRUE
    BY <1>7, <2>1, <2>2 DEF EquippedFor
  <2>6. file = "plans" /\ content = "some" => proc[p].command = "init demo"
    BY <1>2, <1>3 DEF Content, Inits
  <2>7. files'["plans"] # "" => catalog.identified = TRUE
    BY <1>6, <2>4 DEF IInv, Equipped, Inputs
  <2>8. files'["plans"] = "some" => catalog.rows = TRUE
    BY <1>6, <2>5, <2>6 DEF IInv, Equipped, Inputs
  <2>9. EquippedFor(p)'
    <3>1. proc'[p].at > 7 => catalog'.identified = TRUE
      BY <1>1, <2>3, <2>4
    <3>2. proc'[p].at > 9 /\ proc[p].command = "init demo" => catalog'.rows = TRUE
      BY <1>1, <2>3, <2>5
    <3> QED
      BY <1>1, <1>2, <1>5, <2>1, <3>1, <3>2, MakerEquipped
  <2>10. ASSUME NEW q \in Processes, q # p PROVE EquippedFor(q)'
    <3>1. EquippedFor(q) /\ proc'[q] = proc[q] /\ (Maker(q)' <=> Maker(q)) /\ (Running(q)' <=> Running(q))
      BY <1>5, <2>10, Facts DEF Goes, Changed, Maker, Running
    <3>2. \A f \in Inputs : files[f] \in Good => files'[f] \in Good
      BY <1>2, <1>6 DEF Good
    <3> QED
      BY <1>1, <3>1, <3>2 DEF EquippedFor, Inputs
  <2> QED
    BY <2>7, <2>8, <2>9, <2>10
<1> QED
  BY <1>1, <1>2, <1>5, <1>6, <1>8, <1>9, MakerRest, Facts DEF Typed
(* What the user changes concerns no step and no run: only whether the     *)
(* target is still what the commands made of it.                           *)
LEMMA ByUser ==
    ASSUME IInv, Edited, FilesTyped', CatalogTyped', Making',
           catalog.removed = TRUE => catalog'.removed = TRUE,
           catalog'.removed = TRUE \/ catalog'.receipts = catalog.receipts
    PROVE  IInv'
<1>1. UNCHANGED <<made, journal, reports, proc>> /\ edits' = edits + 1
  BY DEF Edited
<1>2. edits \in Nat /\ Typed
  BY DEF IInv, Typed
<1>3. edits' \in Nat /\ edits' # 0
  BY <1>1, <1>2
<1>4. Equipped'
  BY <1>3 DEF Equipped
<1>5. \A p \in Processes : ProcessTyped(p)'
  BY <1>1, <1>2 DEF Typed, ProcessTyped
<1>6. Typed'
  BY <1>1, <1>2, <1>3, <1>5 DEF Typed, JournalTyped, ReportsTyped
<1>7. \A p \in Processes : (Running(p)' <=> Running(p)) /\ (Told(p)' <=> Told(p))
  BY <1>1 DEF Running, Told
<1>8. Reported'
  BY <1>1, <1>7 DEF IInv, Reported
<1>9. ASSUME NEW p \in Processes PROVE ToldOf(p)' /\ Exited(p)' /\ Listed(p)'
  <2>1. ToldOf(p) /\ Exited(p) /\ Listed(p)
    BY Facts
  <2>2. Exited(p)' /\ Listed(p)'
    BY <1>1, <1>7, <2>1 DEF Exited, Listed
  <2>3. Deciding(p)' <=> Deciding(p)
    BY <1>1, <1>7 DEF Deciding
  <2>4. ToldOf(p)'
    BY <1>1, <1>7, <2>1, <2>3 DEF ToldOf
  <2> QED
    BY <2>2, <2>4
<1> QED
  BY <1>4, <1>6, <1>8, <1>9 DEF IInv

LEMMA EditInputStep == ASSUME IInv, EditInput PROVE IInv'
<1>1. Edited /\ made = TRUE /\ catalog' = catalog /\ UNCHANGED <<made, proc>>
  BY DEF EditInput, Edited, IInv, Typed
<1>2. FilesTyped'
  <2>1. PICK file \in Inputs, content \in {"bad", "some"} : files' = [files EXCEPT ![file] = content]
    BY DEF EditInput
  <2> QED
    BY <2>1 DEF IInv, Typed, FilesTyped
<1>3. \A p \in Processes : ~Maker(p)'
  BY <1>1 DEF EditInput, Maker, Running
<1>4. Making'
  BY <1>1, <1>3 DEF Making
<1>5. CatalogTyped'
  BY <1>1 DEF IInv, Typed, CatalogTyped
<1> QED
  BY <1>1, <1>2, <1>4, <1>5, ByUser

LEMMA OnCatalog ==
    ASSUME IInv, Edited, files' = files, CatalogTyped',
           catalog.removed = TRUE => catalog'.removed = TRUE,
           catalog'.removed = TRUE \/ catalog'.receipts = catalog.receipts
    PROVE  IInv'
<1>1. UNCHANGED <<made, files, proc>>
  BY DEF Edited
<1>2. \A p \in Processes : Maker(p)' <=> Maker(p)
  BY <1>1 DEF Maker, Running
<1>3. Making'
  BY <1>1, <1>2 DEF IInv, Making, Written
<1>4. FilesTyped'
  BY <1>1 DEF IInv, Typed, FilesTyped
<1> QED
  BY <1>3, <1>4, ByUser

LEMMA LoadRowsStep == ASSUME IInv, LoadRows PROVE IInv'
<1>1. CatalogTyped' /\ catalog'.removed = catalog.removed /\ catalog'.receipts = catalog.receipts
  <2>1. PICK revision \in Nat : revision = catalog.revision + 1
    <3>1. catalog.revision \in Nat
      BY DEF IInv, Typed, CatalogTyped
    <3> QED
      BY <3>1
  <2>2. catalog' = [catalog EXCEPT !.rows = TRUE, !.revision = revision]
    BY <2>1 DEF LoadRows, IInv, Typed, CatalogTyped
  <2> QED
    BY <2>2 DEF IInv, Typed, CatalogTyped
<1> QED
  BY <1>1, OnCatalog DEF LoadRows

LEMMA RemoveCatalogStep == ASSUME IInv, RemoveCatalog PROVE IInv'
<1>1. PICK receipts : receipts = [p \in Processes |-> ""]
  OBVIOUS
<1>2. receipts \in [Processes -> {"", "applied", "stale"}]
  BY <1>1
<1>3. catalog' = [catalog EXCEPT !.tables = FALSE, !.identified = FALSE, !.rows = FALSE,
                                 !.removed = TRUE, !.receipts = receipts]
  BY <1>1 DEF RemoveCatalog
<1>4. CatalogTyped' /\ catalog'.removed = TRUE
  BY <1>2, <1>3 DEF IInv, Typed, CatalogTyped
<1> QED
  BY <1>4, OnCatalog DEF RemoveCatalog
-----------------------------------------------------------------------------
LEMMA Initially == Init => IInv
<1> SUFFICES ASSUME Init PROVE IInv
  OBVIOUS
<1>1. /\ made = FALSE /\ edits = 0 /\ files = [f \in Inputs |-> ""]
      /\ reports = [r \in Names |-> ""]
  BY DEF Init, Names
<1>2. \A p \in Processes : /\ proc[p].command = "" /\ proc[p].at = 1 /\ proc[p].exit = ""
                           /\ proc[p].outcome = "" /\ proc[p].todo = {}
                           /\ proc[p] \in Process
  BY DEF Init, Process, Commanded, Outcomes
<1>3. DOMAIN proc = Processes
  BY DEF Init
<1>4. /\ CatalogTyped
      /\ JournalTyped /\ \A p \in Processes : journal.state[p] = "" /\ journal.outcome[p] = ""
  BY DEF Init, CatalogTyped, JournalTyped, Statuses, Outcomes
<1>5. \A p \in Processes : ~Running(p)
  BY <1>2 DEF Running
<1>6. \A p \in Processes : ProcessTyped(p)
  BY <1>2, OneStep DEF ProcessTyped
<1>7. Typed
  BY <1>1, <1>3, <1>4, <1>6 DEF Typed, FilesTyped, ReportsTyped
<1>8. Making
  BY <1>1, <1>5 DEF Making, Maker
<1>9. Equipped
  BY <1>1, <1>4, <1>5 DEF Equipped, EquippedFor, Maker, Inputs
<1>10. Reported
  <2>1. "" \notin Processes
    BY ProjectsAssumption
  <2> QED
    BY <1>1, <2>1 DEF Reported
<1>11. ASSUME NEW p \in Processes PROVE ToldOf(p) /\ Exited(p) /\ Listed(p)
  <2>1. ToldOf(p)
    BY <1>2, <1>4, <1>5 DEF ToldOf, Deciding
  <2>2. Exited(p)
    BY <1>2 DEF Exited, Readers
  <2>3. Listed(p)
    BY <1>2 DEF Listed
  <2> QED
    BY <2>1, <2>2, <2>3
<1> QED
  BY <1>7, <1>8, <1>9, <1>10, <1>11 DEF IInv
LEMMA Launches ==
    ASSUME NEW command, NEW about, about \subseteq Names,
           \/ command \in Commands /\ about = {}
           \/ command = "reconcile" /\ about = {}
           \/ command \in {"inspect", "replay"} /\ \E name \in Names : about = {name}
    PROVE  Launchable(command, about)
BY DEF Launchable, Commands, Commanded, Readers

LEMMA StepKept == ASSUME IInv, [Next]_vars PROVE IInv'
<1>1. ASSUME NEW p \in Processes, NEW command \in Commands, Launch(p, command, {}) PROVE IInv'
  BY <1>1, Launches, LaunchStep
<1>2. ASSUME NEW p \in Processes, Launch(p, "reconcile", {}) PROVE IInv'
  <2>1. PICK command : command = "reconcile"
    OBVIOUS
  <2>2. Launchable(command, {}) /\ Launch(p, command, {})
    BY <1>2, <2>1, Launches
  <2> QED
    BY <2>2, LaunchStep
<1>3. ASSUME NEW p \in Processes, NEW command \in {"inspect", "replay"}, NEW name \in DOMAIN reports,
             Launch(p, command, {name})
      PROVE  IInv'
  <2>1. name \in Names
    BY <1>3 DEF IInv, Typed, ReportsTyped
  <2>2. Launchable(command, {name})
    BY <1>3, <2>1, Launches
  <2> QED
    BY <1>3, <2>2, LaunchStep
<1>4. ASSUME NEW p \in Processes,
             \/ MakeDirectory(p) \/ Create(p) \/ CountRows(p) \/ Seed(p)
             \/ \E file \in Inputs : WriteFile(p, file)
             \/ ReadInput(p) \/ OpenTarget(p) \/ OpenJournal(p)
      PROVE  IInv'
  BY <1>4, MakeDirectoryStep, CreateStep, CountRowsStep, SeedStep, WriteFileStep, ReadInputStep,
     OpenTargetStep, OpenJournalStep
<1>5. ASSUME NEW p \in Processes,
             \/ Start(p) \/ Decide(p) \/ Prepare(p) \/ Commit(p) \/ Record(p) \/ Complete(p)
             \/ SaveReport(p) \/ Finish(p)
      PROVE  IInv'
  BY <1>5, StartStep, DecideStep, PrepareStep, CommitStep, RecordStep, CompleteStep,
     SaveReportStep, FinishStep
<1>6. ASSUME NEW p \in Processes, ListRuns(p) \/ Settle(p) \/ ReadReport(p) \/ End(p)
      PROVE  IInv'
  BY <1>6, ListRunsStep, SettleStep, ReadReportStep, EndStep
<1>7. ASSUME EditInput \/ LoadRows \/ RemoveCatalog PROVE IInv'
  BY <1>7, EditInputStep, LoadRowsStep, RemoveCatalogStep
<1>8. CASE UNCHANGED vars
  <2>1. UNCHANGED <<kind, made, files, catalog, journal, reports, proc, edits>>
    BY <1>8 DEF vars
  <2>2. \A p \in Processes : /\ Running(p)' <=> Running(p)
                             /\ Maker(p)' <=> Maker(p)
                             /\ Deciding(p)' <=> Deciding(p)
                             /\ Told(p)' <=> Told(p)
                             /\ ProcessTyped(p)' <=> ProcessTyped(p)
    BY <2>1 DEF Running, Maker, Deciding, Told, ProcessTyped
  <2>3. Typed'
    BY <2>1, <2>2 DEF IInv, Typed, FilesTyped, CatalogTyped, JournalTyped, ReportsTyped
  <2>4. Making'
    BY <2>1, <2>2 DEF IInv, Making, Written
  <2>5. \A p \in Processes : EquippedFor(p)' <=> EquippedFor(p)
    <3> SUFFICES ASSUME NEW p \in Processes PROVE EquippedFor(p)' <=> EquippedFor(p)
      OBVIOUS
    <3>1. (Running(p)' <=> Running(p)) /\ (Maker(p)' <=> Maker(p))
      BY <2>2
    <3> QED
      BY <2>1, <3>1 DEF EquippedFor
  <2>6. Equipped'
    BY <2>1, <2>5 DEF IInv, Equipped
  <2>7. Reported'
    BY <2>1, <2>2 DEF IInv, Reported
  <2>8. \A p \in Processes : ToldOf(p)' /\ Exited(p)' /\ Listed(p)'
    <3> SUFFICES ASSUME NEW p \in Processes PROVE ToldOf(p)' /\ Exited(p)' /\ Listed(p)'
      OBVIOUS
    <3>1. (Deciding(p)' <=> Deciding(p)) /\ (Told(p)' <=> Told(p))
      BY <2>2
    <3>2. ToldOf(p) /\ Exited(p) /\ Listed(p)
      BY Facts
    <3>3. ToldOf(p)'
      BY <2>1, <3>1, <3>2 DEF ToldOf
    <3> QED
      BY <2>1, <3>1, <3>2, <3>3 DEF Exited, Listed
  <2> QED
    BY <2>3, <2>4, <2>6, <2>7, <2>8 DEF IInv
<1> QED
  BY <1>1, <1>2, <1>3, <1>4, <1>5, <1>6, <1>7, <1>8 DEF Next

(* All of the invariant, at every step of every process and the user.      *)
THEOREM Inductive == Spec => []IInv
<1>1. Init => IInv
  BY Initially
<1>2. IInv /\ [Next]_vars => IInv'
  BY StepKept
<1> QED
  BY <1>1, <1>2, PTL DEF Spec
-----------------------------------------------------------------------------
(* Every intact report is the report of a run with an outcome, and the     *)
(* journal has that outcome, or none if the commit's result is unknown.    *)
THEOREM ReportsTellTheirRun == Spec => []ReportsTellTheRun
<1>1. IInv => ReportsTellTheRun
  <2> SUFFICES ASSUME IInv, NEW name \in DOMAIN reports, reports[name] \in Processes
               PROVE  Told(reports[name])
    BY DEF ReportsTellTheRun
  <2>1. name \in Names
    BY DEF IInv, Typed, ReportsTyped
  <2> QED
    BY <2>1 DEF IInv, Reported
<1> QED
  BY <1>1, Inductive, PTL

LEMMA PastInputs ==
    ASSUME NEW p \in Processes, proc[p].command = "run" PROVE Place(p, "open target") = 4
<1>1. PICK order : order = Order(proc[p].command)
  OBVIOUS
<1>2. order = RunSteps
  BY <1>1, Orders
<1>3. 4 \in DOMAIN order /\ order[4] = "open target" /\ DOMAIN order \subseteq 1 .. 14
  <2>1. 4 \in DOMAIN RunSteps /\ RunSteps[4] = "open target" /\ DOMAIN RunSteps \subseteq 1 .. 14
    BY DEF RunSteps
  <2> QED
    BY <1>2, <2>1
<1>4. \A i \in 1 .. 14 : order[i] = "open target" => i = 4
  <2>1. \A i \in 1 .. 14 : RunSteps[i] = "open target" => i = 4
    BY UpTo14, RunOrder
  <2> QED
    BY <1>2, <2>1
<1>5. Place(p, "open target") = CHOOSE i \in DOMAIN order : order[i] = "open target"
  BY <1>1 DEF Place
<1> QED
  BY <1>3, <1>4, <1>5

(* As long as the user changes nothing, a run that got past its inputs     *)
(* finds a project whose making was finished, and only runs with a target, *)
(* for `demo' one with rows, are in the journal.                           *)
THEOREM RunsFindFinishedProjects == Spec => []FinishedProjectsOnly
<1>1. IInv => FinishedProjectsOnly
  <2> SUFFICES ASSUME IInv, NEW p \in Processes, edits = 0
               PROVE  /\ proc[p].command = "run" /\ Running(p) /\ proc[p].at >= Place(p, "open target") =>
                            /\ catalog.identified
                            /\ proc[p].plans = "some" => catalog.rows
                            /\ \A f \in Inputs : files[f] \in Good
                      /\ journal.state[p] # "" =>
                            catalog.identified /\ (proc[p].command = "demo" => catalog.rows)
    BY DEF FinishedProjectsOnly
  <2>1. EquippedFor(p)
    BY Facts
  <2>2. ASSUME proc[p].command = "run", Running(p), proc[p].at >= Place(p, "open target")
        PROVE  /\ catalog.identified
               /\ proc[p].plans = "some" => catalog.rows
               /\ \A f \in Inputs : files[f] \in Good
    <3>1. PICK at \in Nat : at = proc[p].at
      BY Facts
    <3>2. at >= 4
      BY <2>2, <3>1, PastInputs
    <3>3. at > 1 /\ at > 2 /\ at > 3
      BY <3>2
    <3>4. /\ files["config"] \in Good /\ files["source"] \in Good /\ files["plans"] \in Good
          /\ proc[p].plans = "some" => catalog.rows = TRUE
      BY <2>1, <2>2, <3>1, <3>3 DEF EquippedFor
    <3>5. files["plans"] # ""
      BY <3>4 DEF Good
    <3>6. catalog.identified = TRUE
      BY <3>5 DEF IInv, Equipped
    <3> QED
      BY <3>4, <3>6 DEF Inputs
  <2> QED
    BY <2>1, <2>2 DEF EquippedFor
<1> QED
  BY <1>1, Inductive, PTL

(* Only the process that is making the project writes an input file, and   *)
(* only what it has just emptied.                                          *)
Filled(f) == files[f] \notin {"", "torn"}
LEMMA FilesStay ==
    ASSUME IInv, [Next]_vars, edits' = edits
    PROVE  \A f \in Inputs : Filled(f) => files'[f] = files[f]
<1>1. ASSUME NEW p \in Processes, NEW file \in Inputs, WriteFile(p, file)
      PROVE  \A f \in Inputs : Filled(f) => files'[f] = files[f]
  <2>1. files[file] \in {"", "torn"}
    BY <1>1, Writes
  <2>2. PICK content : files' = [files EXCEPT ![file] = content]
    BY <1>1 DEF WriteFile
  <2>3. \A f \in Inputs : f # file => files'[f] = files[f]
    BY <2>2 DEF IInv, Typed, FilesTyped
  <2> QED
    BY <2>1, <2>3 DEF Filled
<1>2. ~EditInput
  <2>1. edits \in Nat
    BY DEF IInv, Typed
  <2> QED
    BY <2>1 DEF EditInput, Edited
<1>3. ASSUME NEW p \in Processes,
             \/ \E command \in Commands : Launch(p, command, {})
             \/ journal.tables /\ Launch(p, "reconcile", {})
             \/ \E command \in {"inspect", "replay"}, name \in DOMAIN reports :
                   reports[name] # "" /\ Launch(p, command, {name})
             \/ MakeDirectory(p) \/ Create(p) \/ CountRows(p) \/ Seed(p)
             \/ ReadInput(p) \/ OpenTarget(p) \/ OpenJournal(p)
             \/ Start(p) \/ Decide(p) \/ Prepare(p) \/ Commit(p) \/ Record(p) \/ Complete(p)
             \/ SaveReport(p) \/ Finish(p)
             \/ ListRuns(p) \/ Settle(p) \/ ReadReport(p)
             \/ End(p)
      PROVE  files' = files
  BY <1>3 DEF Same, Launch, MakeDirectory, Create, CountRows, Seed, ReadInput, OpenTarget,
              OpenJournal, Start, Decide, Prepare, Commit, Record, Complete, SaveReport, Finish,
              ListRuns, Settle, ReadReport, End
<1>4. LoadRows \/ RemoveCatalog \/ UNCHANGED vars => files' = files
  BY DEF LoadRows, RemoveCatalog, vars
<1> QED
  BY <1>1, <1>2, <1>3, <1>4 DEF Next

(* Only the user takes from the target.                                    *)
LEMMA TargetStays ==
    ASSUME IInv, [Next]_vars, edits' = edits
    PROVE  /\ catalog.identified => catalog'.identified
           /\ catalog.rows => catalog'.rows
<1>1. ASSUME NEW p \in Processes, Create(p) \/ Seed(p) \/ Commit(p)
      PROVE  /\ catalog.identified => catalog'.identified
             /\ catalog.rows => catalog'.rows
  <2>1. CatalogTyped
    BY DEF IInv, Typed
  <2> QED
    BY <1>1, <2>1 DEF Create, Seed, Commit, CatalogTyped
<1>2. ~EditInput /\ ~LoadRows /\ ~RemoveCatalog
  <2>1. edits \in Nat
    BY DEF IInv, Typed
  <2> QED
    BY <2>1 DEF EditInput, LoadRows, RemoveCatalog, Edited
<1>3. ASSUME NEW p \in Processes,
             \/ \E command \in Commands : Launch(p, command, {})
             \/ journal.tables /\ Launch(p, "reconcile", {})
             \/ \E command \in {"inspect", "replay"}, name \in DOMAIN reports :
                   reports[name] # "" /\ Launch(p, command, {name})
             \/ MakeDirectory(p) \/ CountRows(p)
             \/ \E file \in Inputs : WriteFile(p, file)
             \/ ReadInput(p) \/ OpenTarget(p) \/ OpenJournal(p)
             \/ Start(p) \/ Decide(p) \/ Prepare(p) \/ Record(p) \/ Complete(p)
             \/ SaveReport(p) \/ Finish(p)
             \/ ListRuns(p) \/ Settle(p) \/ ReadReport(p)
             \/ End(p)
      PROVE  catalog' = catalog
  BY <1>3 DEF Same, Launch, MakeDirectory, CountRows, WriteFile, ReadInput, OpenTarget,
              OpenJournal, Start, Decide, Prepare, Record, Complete, SaveReport, Finish,
              ListRuns, Settle, ReadReport, End
<1>4. UNCHANGED vars => catalog' = catalog
  BY DEF vars
<1> QED
  BY <1>1, <1>2, <1>3, <1>4 DEF Next

(* Whatever the processes do, an input file that has its content keeps it. *)
THEOREM CommandsKeepFiles == Spec => FilesAreKept
<1>1. IInv /\ [Next]_vars =>
          [edits' = edits => \A f \in Inputs : files[f] \notin {"", "torn"} => files'[f] = files[f]]_vars
  BY FilesStay DEF Filled
<1> QED
  BY <1>1, Inductive, PTL DEF Spec, FilesAreKept
-----------------------------------------------------------------------------
(* What a project's maker has made at each of its steps and when it ended, *)
(* as long as the user left it alone.                                      *)
MadeSoFar(p) ==
    /\ Maker(p) => /\ proc[p].at > 3 => files["config"] = Content(p, "config")
                   /\ proc[p].at > 5 => files["source"] = Content(p, "source")
                   /\ proc[p].at > 11 => files["plans"] = Content(p, "plans")
    /\ Ended(p, Inits, "0") => AsMade(p)
MadeInv == edits = 0 => \A p \in Processes : MadeSoFar(p)

(* What is there stays there.                                              *)
Spared ==
    /\ \A f \in Inputs : Filled(f) => files'[f] = files[f]
    /\ catalog.identified => catalog'.identified
    /\ catalog.rows => catalog'.rows

LEMMA Contents ==
    ASSUME NEW p, NEW f
    PROVE  /\ Content(p, f) \notin {"", "torn"}
           /\ proc'[p].command = proc[p].command => Content(p, f)' = Content(p, f)
BY DEF Content

(* The claims on a process whose own state has not come further.           *)
LEMMA MadeStays ==
    ASSUME Spared, NEW p \in Processes, MadeSoFar(p), proc'[p].command = proc[p].command,
           Maker(p)' => /\ Maker(p)
                        /\ proc'[p].at > 3 => proc[p].at > 3
                        /\ proc'[p].at > 5 => proc[p].at > 5
                        /\ proc'[p].at > 11 => proc[p].at > 11,
           proc'[p].exit = "0" => proc[p].exit = "0"
    PROVE  MadeSoFar(p)'
<1>1. \A f \in Inputs : files[f] = Content(p, f) => files'[f] = Content(p, f)'
  BY Contents DEF Spared, Filled
<1>2. Ended(p, Inits, "0")' => AsMade(p)'
  <2> SUFFICES ASSUME Ended(p, Inits, "0")' PROVE AsMade(p)'
    OBVIOUS
  <2>1. Ended(p, Inits, "0")
    BY DEF Ended
  <2>2. AsMade(p)
    BY <2>1 DEF MadeSoFar
  <2> QED
    BY <1>1, <2>2 DEF AsMade, Spared
<1>3. Maker(p)' => /\ proc'[p].at > 3 => files'["config"] = Content(p, "config")'
                   /\ proc'[p].at > 5 => files'["source"] = Content(p, "source")'
                   /\ proc'[p].at > 11 => files'["plans"] = Content(p, "plans")'
  BY <1>1 DEF MadeSoFar, Inputs
<1> QED
  BY <1>2, <1>3 DEF MadeSoFar

(* A process that makes no project.                                        *)
LEMMA MakesNothing ==
    ASSUME NEW p \in Processes, proc'[p].command \notin Inits
    PROVE  MadeSoFar(p)'
BY DEF MadeSoFar, Maker, Ended

(* A step of p concerns p.                                                 *)
Own(p) == \A q \in Processes \ {p} : proc'[q] = proc[q]
Goes1(p) ==
    /\ Own(p) /\ proc'[p].command = proc[p].command
    /\ proc'[p].exit = proc[p].exit \/ proc'[p].exit = "1"

LEMMA OwnStep == ASSUME IInv, NEW p \in Processes, Step(p) PROVE Goes1(p)
<1>1. proc[p] \in Process /\ DOMAIN proc = Processes
  BY Facts DEF Typed, ProcessTyped
<1> QED
  BY <1>1 DEF Step, Goes1, Own, Process

LEMMA OwnExit ==
    ASSUME IInv, NEW p \in Processes, NEW code, Exit(p, code)
    PROVE  /\ Own(p) /\ proc'[p].command = proc[p].command /\ proc'[p].exit = code
           /\ code = "1" => Goes1(p)
<1>1. proc[p] \in Process /\ DOMAIN proc = Processes
  BY Facts DEF Typed, ProcessTyped
<1>2. Own(p) /\ proc'[p].command = proc[p].command /\ proc'[p].exit = code
  BY <1>1 DEF Exit, Own, Process
<1> QED
  BY <1>2 DEF Goes1

LEMMA OwnGoOn == ASSUME IInv, NEW p \in Processes, NEW holds, GoOn(p, holds) PROVE Goes1(p)
<1>1. CASE holds
  BY <1>1, OwnStep DEF GoOn
<1>2. CASE ~holds
  BY <1>2, OwnExit DEF GoOn
<1> QED
  BY <1>1, <1>2

(* Who makes nothing: runs, reconciliations and readers.                   *)
LEMMA OthersOwn ==
    ASSUME IInv, NEW p \in Processes,
           \/ ReadInput(p) \/ OpenTarget(p) \/ OpenJournal(p)
           \/ Start(p) \/ Decide(p) \/ Prepare(p) \/ Commit(p) \/ Record(p) \/ Complete(p)
           \/ SaveReport(p) \/ ListRuns(p) \/ Settle(p) \/ ReadReport(p)
    PROVE  Own(p) /\ proc'[p].command = proc[p].command /\ proc[p].command \notin Inits
<1>1. proc[p] \in Process /\ DOMAIN proc = Processes /\ Typed
  BY Facts DEF Typed, ProcessTyped
<1>2. CASE ReadInput(p)
  <2>1. proc[p].command \notin Inits
    <3>1. PICK file \in Inputs : At(p, Reading[file])
      BY <1>2 DEF ReadInput
    <3>2. file = "config" \/ file = "source" \/ file = "plans"
      BY DEF Inputs
    <3>3. proc[p].command = "run"
      <4>1. CASE file = "config"
        <5>1. At(p, "read config")
          BY <3>1, <4>1 DEF Reading
        <5> QED
          BY <1>1, <5>1, Places DEF IsAt
      <4>2. CASE file = "source"
        <5>1. At(p, "read source")
          BY <3>1, <4>2 DEF Reading
        <5> QED
          BY <1>1, <5>1, Places DEF IsAt
      <4>3. CASE file = "plans"
        <5>1. At(p, "read plans")
          BY <3>1, <4>3 DEF Reading
        <5> QED
          BY <1>1, <5>1, Places DEF IsAt
      <4> QED
        BY <3>2, <4>1, <4>2, <4>3
    <3> QED
      BY <3>3 DEF Inits
  <2>2. PICK file \in Inputs :
          IF files[file] \notin Good THEN Exit(p, "1")
          ELSE proc' = [proc EXCEPT ![p] = [@ EXCEPT !.at = proc[p].at + 1, !.plans = files[file]]]
    BY <1>2 DEF ReadInput
  <2>3. CASE files[file] \notin Good
    BY <2>1, <2>2, <2>3, OwnExit DEF Goes1
  <2>4. CASE files[file] \in Good
    <3>1. PICK r, content : r = proc[p] /\ content = files[file]
      OBVIOUS
    <3>2. PICK t : t = [r EXCEPT !.at = r.at + 1, !.plans = content]
      OBVIOUS
    <3>3. proc' = [proc EXCEPT ![p] = t]
      BY <2>2, <2>4, <3>1, <3>2
    <3>4. t.command = r.command
      BY <1>1, <3>1, <3>2 DEF Process
    <3> QED
      BY <1>1, <2>1, <3>1, <3>3, <3>4 DEF Own
  <2> QED
    BY <2>3, <2>4
<1>3. CASE OpenTarget(p)
  <2>1. proc[p].command \notin Inits
    BY <1>1, <1>3, Places DEF OpenTarget, IsAt, Inits
  <2> QED
    BY <1>3, <2>1, OwnGoOn DEF OpenTarget, Goes1
<1>4. CASE OpenJournal(p) \/ Start(p) \/ Prepare(p) \/ Record(p) \/ Complete(p)
  <2>1. Step(p)
    BY <1>4 DEF OpenJournal, Start, Prepare, Record, Complete
  <2>2. CASE OpenJournal(p)
    BY <1>1, <2>1, <2>2, OwnStep, Places DEF OpenJournal, IsAt, Inits, Goes1
  <2>3. CASE Start(p) \/ Prepare(p) \/ Record(p) \/ Complete(p)
    BY <1>1, <2>1, <2>3, OwnStep, Places DEF Start, Prepare, Record, Complete, IsAt, Inits, Deciders, Goes1
  <2> QED
    BY <1>4, <2>2, <2>3
<1>5. CASE Decide(p)
  <2>1. proc[p].command \notin Inits
    BY <1>1, <1>5, Places DEF Decide, IsAt, Inits, Deciders
  <2>2. Own(p) /\ proc'[p].command = proc[p].command
    BY <1>1, <1>5 DEF Decide, Stops, Own, Process
  <2> QED
    BY <2>1, <2>2
<1>6. CASE Commit(p)
  <2>1. proc[p].command \notin Inits
    BY <1>1, <1>6, Places DEF Commit, IsAt, Inits, Deciders
  <2>2. Own(p) /\ proc'[p].command = proc[p].command
    BY <1>1, <1>6 DEF Commit, Stops, Own, Process
  <2> QED
    BY <2>1, <2>2
<1>7. CASE SaveReport(p)
  <2>1. proc[p].command \notin Inits
    BY <1>1, <1>7, Places DEF SaveReport, IsAt, Inits, Deciders
  <2>2. Step(p)
    BY <1>7 DEF SaveReport
  <2> QED
    BY <2>1, <2>2, OwnStep DEF Goes1
<1>8. CASE ListRuns(p)
  <2>1. proc[p].command \notin Inits
    BY <1>1, <1>8, Places DEF ListRuns, IsAt, Inits
  <2>2. CASE Exit(p, "1")
    BY <2>1, <2>2, OwnExit
  <2>3. CASE ~Exit(p, "1")
    BY <1>1, <1>8, <2>1, <2>3 DEF ListRuns, Own, Process
  <2> QED
    BY <2>2, <2>3
<1>9. CASE Settle(p)
  <2>1. proc[p].command \notin Inits
    BY <1>1, <1>9, Places DEF Settle, IsAt, Inits
  <2>2. proc[p].command \in Commanded /\ \E t : proc' = [proc EXCEPT ![p] = t] /\ t.command = proc[p].command
    <3>1. PICK r : r = proc[p] /\ r \in Process
      BY <1>1
    <3>2. PICK row \in proc[p].todo :
             LET state == IF row[2] = "completed" /\ Found(row[1]) # "unresolved" THEN "completed"
                          ELSE IF Found(row[1]) \notin {"", "unresolved"} THEN "reconciled"
                          ELSE "unresolved"
             IN  proc' = [proc EXCEPT ![p] =
                    [@ EXCEPT !.todo = proc[p].todo \ {row},
                              !.unresolved = (proc[p].unresolved \/ state = "unresolved"),
                              !.at = IF proc[p].todo = {row} THEN proc[p].at + 1 ELSE proc[p].at]]
      BY <1>9 DEF Settle
    <3>3. PICK state : state = IF row[2] = "completed" /\ Found(row[1]) # "unresolved" THEN "completed"
                               ELSE IF Found(row[1]) \notin {"", "unresolved"} THEN "reconciled"
                               ELSE "unresolved"
      OBVIOUS
    <3>4. PICK at : at = IF proc[p].todo = {row} THEN proc[p].at + 1 ELSE proc[p].at
      OBVIOUS
    <3>5. PICK t : t = [r EXCEPT !.todo = r.todo \ {row},
                                 !.unresolved = (r.unresolved \/ state = "unresolved"), !.at = at]
      OBVIOUS
    <3>6. t.command = r.command
      BY <3>1, <3>5 DEF Process
    <3>7. proc' = [proc EXCEPT ![p] = t]
      BY <3>1, <3>2, <3>3, <3>4, <3>5
    <3> QED
      BY <3>1, <3>6, <3>7 DEF Process
  <2> QED
    BY <1>1, <2>1, <2>2 DEF Own
<1>10. CASE ReadReport(p)
  <2>1. proc[p].command \notin Inits
    BY <1>1, <1>10, Places DEF ReadReport, IsAt, Inits
  <2>2. \E code : Exit(p, code)
    BY <1>10 DEF ReadReport
  <2> QED
    BY <2>1, <2>2, OwnExit
<1> QED
  BY <1>2, <1>3, <1>4, <1>5, <1>6, <1>7, <1>8, <1>9, <1>10

(* A process at its beginning, or that failed.                             *)
LEMMA NothingYet ==
    ASSUME NEW p \in Processes, NEW at \in 1 .. 3, proc'[p].at = at, proc'[p].exit # "0"
    PROVE  MadeSoFar(p)'
<1>1. ~(at > 3) /\ ~(at > 5) /\ ~(at > 11)
  OBVIOUS
<1> QED
  BY <1>1 DEF MadeSoFar, Ended

LEMMA FailsToMake ==
    ASSUME IInv, NEW p \in Processes, Exit(p, "1") PROVE Own(p) /\ MadeSoFar(p)'
<1>1. Own(p) /\ proc'[p].exit = "1"
  BY OwnExit
<1>2. proc'[p].at = 1
  BY Facts DEF Exit, Typed, ProcessTyped, Process
<1>3. 1 \in 1 .. 3
  OBVIOUS
<1> QED
  BY <1>1, <1>2, <1>3, NothingYet

(* The steps of a maker between its source and its candidates.             *)
LEMMA MakesMiddle ==
    ASSUME IInv, Spared, NEW p \in Processes, MadeSoFar(p), Running(p), proc[p].command \in Inits,
           NEW at \in 6 .. 9, NEW next \in 7 .. 10, proc[p].at = at, proc'[p].at = next,
           Own(p), proc'[p].command = proc[p].command, proc'[p].exit = proc[p].exit
    PROVE  MadeSoFar(p)'
<1>1. at > 1 /\ at > 3 /\ at > 5 /\ ~(next > 11)
  OBVIOUS
<1>2. Maker(p)
  BY <1>1 DEF Maker
<1> QED
  BY <1>1, <1>2, MadeStays

LEMMA MiddleSteps ==
    ASSUME IInv, Spared, NEW p \in Processes, MadeSoFar(p), Create(p) \/ CountRows(p) \/ Seed(p)
    PROVE  Own(p) /\ MadeSoFar(p)'
<1>1. proc[p] \in Process /\ DOMAIN proc = Processes /\ Typed /\ Running(p)
  BY Facts DEF Typed, ProcessTyped, Create, CountRows, Seed, At
<1>2. \/ proc[p].command = "demo"
      \/ proc[p].command \in Inits /\ (Create(p) => proc[p].at \in {6, 7})
                                   /\ (CountRows(p) => proc[p].at = 8) /\ (Seed(p) => proc[p].at = 9)
  BY <1>1, Places DEF Create, CountRows, Seed, IsAt, Inits
<1>3. \/ Exit(p, "1")
      \/ /\ Own(p) /\ proc'[p].command = proc[p].command /\ proc'[p].exit = proc[p].exit
         /\ \/ proc'[p].at = proc[p].at + 1
            \/ CountRows(p) /\ proc'[p].at = proc[p].at + 2
  <2>1. CASE Create(p)
    BY <1>1, <2>1 DEF Create, Step, Own, Process
  <2>2. CASE CountRows(p)
    <3>1. PICK steps \in {1, 2} : proc' = [proc EXCEPT ![p] = [@ EXCEPT !.at = proc[p].at + steps]]
      BY <2>2 DEF CountRows
    <3> QED
      BY <1>1, <2>2, <3>1 DEF Own, Process
  <2>3. CASE Seed(p)
    BY <1>1, <2>3 DEF Seed, GoOn, Step, Own, Process
  <2> QED
    BY <2>1, <2>2, <2>3
<1>4. CASE Exit(p, "1")
  BY <1>4, FailsToMake
<1>5. CASE ~Exit(p, "1") /\ proc[p].command \notin Inits
  BY <1>3, <1>5, MakesNothing
<1>6. CASE ~Exit(p, "1") /\ proc[p].command \in Inits
  <2>1. proc[p].command # "demo"
    BY <1>6 DEF Inits
  <2>2. PICK at, next : at = proc[p].at /\ next = proc'[p].at
    OBVIOUS
  <2>3. \/ at \in {6, 7, 9} /\ next = at + 1
        \/ at = 8 /\ next \in {9, 10}
    BY <1>2, <1>3, <1>6, <2>1, <2>2
  <2>4. at \in 6 .. 9 /\ next \in 7 .. 10
    BY <2>3
  <2> QED
    BY <1>1, <1>3, <1>6, <2>2, <2>4, MakesMiddle
<1> QED
  BY <1>4, <1>5, <1>6

LEMMA WritingMakes ==
    ASSUME IInv, Spared, NEW p \in Processes, MadeSoFar(p), NEW file \in Inputs, WriteFile(p, file)
    PROVE  Own(p) /\ MadeSoFar(p)'
<1>1. Running(p) /\ proc[p].command \in Inits /\ proc[p].at \in 2 .. 11 /\ Step(p)
  BY Writes DEF WriteFile
<1>2. PICK content :
         /\ content \in {"torn", "some", "none"}
         /\ files' = [files EXCEPT ![file] = content]
         /\ \/ /\ content = "torn"
               /\ file = "config" => proc[p].at = 2
               /\ file = "source" => proc[p].at = 4
               /\ file = "plans" => proc[p].at = 10
            \/ /\ content = Content(p, file)
               /\ file = "config" => proc[p].at = 3
               /\ file = "source" => proc[p].at = 5
               /\ file = "plans" => proc[p].at = 11
  BY Writes
<1>3. PICK at \in Nat : at = proc[p].at
  BY Facts
<1>4. PICK next : next = at + 1
  OBVIOUS
<1>5. /\ proc'[p].command = proc[p].command /\ proc'[p].exit = proc[p].exit /\ proc'[p].at = next
      /\ Own(p)
  BY <1>3, <1>4, Facts DEF WriteFile, Step, Own, Typed, ProcessTyped, Process
<1>6. proc[p].exit = "" /\ Maker(p)
  <2>1. proc[p].at > 1
    BY <1>1
  <2> QED
    BY <1>1, <2>1 DEF Maker, Running
<1>7. \A f \in Inputs : files[f] = Content(p, f) => files'[f] = Content(p, f)
  BY Contents DEF Spared, Filled
<1>8. files'[file] = content
  BY <1>2, Facts DEF Typed, FilesTyped
<1>9. /\ at = 3 => file = "config" /\ content = Content(p, file)
      /\ at = 5 => file = "source" /\ content = Content(p, file)
      /\ at = 11 => file = "plans" /\ content = Content(p, file)
  BY <1>2, <1>3 DEF Inputs
<1>10. /\ next > 3 => at > 3 \/ at = 3
       /\ next > 5 => at > 5 \/ at = 5
       /\ next > 11 => at > 11 \/ at = 11
  BY <1>4
<1>11. /\ next > 3 => files'["config"] = Content(p, "config")
       /\ next > 5 => files'["source"] = Content(p, "source")
       /\ next > 11 => files'["plans"] = Content(p, "plans")
  BY <1>3, <1>6, <1>7, <1>8, <1>9, <1>10 DEF MadeSoFar, Inputs
<1>12. \A f : Content(p, f)' = Content(p, f)
  BY <1>5, Contents
<1> QED
  BY <1>5, <1>6, <1>11, <1>12 DEF MadeSoFar, Ended

LEMMA MakingEnds ==
    ASSUME IInv, edits = 0, NEW p \in Processes, MadeSoFar(p), Finish(p)
    PROVE  Own(p) /\ MadeSoFar(p)'
<1>1. Running(p) /\ UNCHANGED <<files, catalog>> /\ Exit(p, Code(p))
  BY DEF At, Finish, Same
<1>2. Own(p) /\ proc'[p].command = proc[p].command
  BY <1>1, OwnExit
<1>3. CASE proc[p].command \notin Inits
  BY <1>2, <1>3, MakesNothing
<1>4. CASE proc[p].command \in Inits
  <2>1. proc[p].at = 12
    BY <1>4, Places, Facts DEF Finish, IsAt, Inits, Deciders
  <2>2. PICK at : at = proc[p].at
    OBVIOUS
  <2>3. at > 1 /\ at > 3 /\ at > 5 /\ at > 7 /\ at > 9 /\ at > 11
    BY <2>1, <2>2
  <2>4. Maker(p)
    BY <1>1, <1>4, <2>2, <2>3 DEF Maker
  <2>5. \A f \in Inputs : files[f] = Content(p, f)
    BY <2>2, <2>3, <2>4 DEF MadeSoFar, Inputs
  <2>6. catalog.identified = TRUE /\ (proc[p].command = "init demo" => catalog.rows = TRUE)
    BY <2>2, <2>3, <2>4, Facts DEF EquippedFor
  <2>7. \A f : Content(p, f)' = Content(p, f)
    BY <1>2, Contents
  <2>8. AsMade(p)'
    BY <1>1, <1>2, <2>5, <2>6, <2>7 DEF AsMade
  <2>9. proc'[p].at = 1
    BY <1>1, Facts DEF Exit, Typed, ProcessTyped, Process
  <2>10. ~Maker(p)'
    BY <2>9 DEF Maker
  <2> QED
    BY <1>2, <2>8, <2>10 DEF MadeSoFar
<1> QED
  BY <1>3, <1>4

LEMMA DirectoryMade ==
    ASSUME IInv, NEW p \in Processes, MakeDirectory(p) PROVE Own(p) /\ MadeSoFar(p)'
<1>1. GoOn(p, ~made) /\ Running(p)
  BY DEF MakeDirectory, At
<1>2. CASE made
  BY <1>1, <1>2, FailsToMake DEF GoOn
<1>3. CASE ~made
  <2>1. Step(p)
    BY <1>1, <1>3 DEF GoOn
  <2>2. proc[p].at = 1
    BY Places, Facts DEF MakeDirectory, IsAt
  <2>3. Own(p) /\ proc'[p].at = 1 + 1 /\ proc'[p].exit = proc[p].exit
    BY <2>1, <2>2, Facts DEF Step, Own, Typed, ProcessTyped, Process
  <2>4. proc'[p].exit # "0"
    BY <1>1, <2>3 DEF Running
  <2>5. 1 + 1 \in 1 .. 3
    OBVIOUS
  <2> QED
    BY <2>3, <2>4, <2>5, NothingYet
<1> QED
  BY <1>2, <1>3

LEMMA LaunchMakesNothing ==
    ASSUME IInv, NEW p \in Processes, NEW command, NEW about, Launch(p, command, about)
    PROVE  Own(p) /\ MadeSoFar(p)'
<1>1. proc[p].command = ""
  BY DEF Launch
<1>2. proc[p].at = 1 /\ proc[p].exit = ""
  BY <1>1, Facts DEF ProcessTyped
<1>3. Own(p) /\ proc'[p].at = 1 /\ proc'[p].exit = ""
  BY <1>2, Facts DEF Launch, Own, Typed, ProcessTyped, Process
<1>4. 1 \in 1 .. 3
  OBVIOUS
<1> QED
  BY <1>3, <1>4, NothingYet

LEMMA MadeKept == ASSUME IInv, MadeInv, [Next]_vars PROVE MadeInv'
<1> SUFFICES ASSUME edits' = 0, NEW q \in Processes PROVE MadeSoFar(q)'
  BY DEF MadeInv
<1>1. edits = 0 /\ ~EditInput /\ ~LoadRows /\ ~RemoveCatalog
  <2>1. edits \in Nat
    BY DEF IInv, Typed
  <2>2. ~EditInput /\ ~LoadRows /\ ~RemoveCatalog
    BY <2>1 DEF EditInput, LoadRows, RemoveCatalog, Edited
  <2>3. edits' = edits
    BY <2>2 DEF Next, vars, Same, Launch, MakeDirectory, Create, CountRows, Seed, WriteFile, ReadInput,
                OpenTarget, OpenJournal, Start, Decide, Prepare, Commit, Record, Complete, SaveReport,
                Finish, ListRuns, Settle, ReadReport, End
  <2> QED
    BY <2>2, <2>3
<1>2. Spared
  BY <1>1, FilesStay, TargetStays DEF Spared
<1>3. MadeSoFar(q)
  BY <1>1 DEF MadeInv
<1>4. ASSUME proc'[q] = proc[q] PROVE MadeSoFar(q)'
  <2>1. Maker(q)' => Maker(q)
    BY <1>4 DEF Maker, Running
  <2> QED
    BY <1>2, <1>3, <1>4, <2>1, MadeStays
<1>5. ASSUME NEW p \in Processes, Own(p), MadeSoFar(p)' PROVE MadeSoFar(q)'
  BY <1>4, <1>5 DEF Own
<1>6. ASSUME NEW p \in Processes, NEW command, NEW about, Launch(p, command, about) PROVE MadeSoFar(q)'
  BY <1>5, <1>6, LaunchMakesNothing
<1>7. ASSUME NEW p \in Processes,
             \/ ReadInput(p) \/ OpenTarget(p) \/ OpenJournal(p)
             \/ Start(p) \/ Decide(p) \/ Prepare(p) \/ Commit(p) \/ Record(p) \/ Complete(p)
             \/ SaveReport(p) \/ ListRuns(p) \/ Settle(p) \/ ReadReport(p)
      PROVE  MadeSoFar(q)'
  <2>1. Own(p) /\ proc'[p].command = proc[p].command /\ proc[p].command \notin Inits
    BY <1>7, OthersOwn
  <2> QED
    BY <1>5, <2>1, MakesNothing
<1>8. ASSUME NEW p \in Processes,
             \/ MakeDirectory(p) \/ Create(p) \/ CountRows(p) \/ Seed(p)
             \/ \E file \in Inputs : WriteFile(p, file)
             \/ Finish(p) \/ End(p)
      PROVE  MadeSoFar(q)'
  <2>1. MadeSoFar(p)
    BY <1>1 DEF MadeInv
  <2>2. Own(p) /\ MadeSoFar(p)'
    BY <1>1, <1>2, <1>8, <2>1, DirectoryMade, MiddleSteps, WritingMakes, MakingEnds, FailsToMake DEF End
  <2> QED
    BY <1>5, <2>2
<1>9. CASE UNCHANGED vars
  BY <1>4, <1>9 DEF vars
<1> QED
  BY <1>1, <1>6, <1>7, <1>8, <1>9 DEF Next

LEMMA ProjectsAsMade == Spec => []MadeInv
<1>1. Init => MadeInv
  <2> SUFFICES ASSUME Init, NEW p \in Processes PROVE MadeSoFar(p)
    BY DEF MadeInv
  <2>1. proc[p].command = "" /\ proc[p].exit = ""
    BY DEF Init
  <2> QED
    BY <2>1 DEF MadeSoFar, Maker, Running, Ended
<1>2. IInv /\ MadeInv /\ [Next]_vars => MadeInv'
  BY MadeKept
<1> QED
  BY <1>1, <1>2, Inductive, PTL DEF Spec

(* What exit codes promise, whatever else runs, is killed or is edited: 0  *)
(* of `init' the project it was asked for, 0 of `run' a committed,         *)
(* journaled and reported plan, 2 a reported run of another outcome, 0 of  *)
(* `demo' a run the journal tells of, 0 of `inspect' and `replay' in a     *)
(* project a report of that run, for `replay' a complete one.              *)
THEOREM ExitCodesMean == Spec => []ExitsMean
<1>1. IInv /\ MadeInv => ExitsMean
  <2> SUFFICES ASSUME IInv, MadeInv, NEW p \in Processes
               PROVE  /\ Ended(p, Inits, "0") /\ edits = 0 => AsMade(p)
                      /\ Ended(p, {"run"}, "0") =>
                            ReceiptKept(p) /\ journal.outcome[p] = "applied" /\ reports[p] = p
                      /\ Ended(p, {"run"}, "2") => reports[p] = p /\ proc[p].outcome # "applied"
                      /\ Ended(p, {"demo"}, "0") => Told(p) /\ (proc[p].outcome = "applied" => ReceiptKept(p))
                      /\ Ended(p, {"inspect", "replay"}, "0") =>
                            \A r \in proc[p].todo \cap Processes :
                                /\ reports[r] = r /\ proc[r].outcome # ""
                                /\ proc[p].command = "replay" => proc[r].outcome \notin Incomplete
    BY DEF ExitsMean
  <2>1. ToldOf(p) /\ Exited(p)
    BY Facts
  <2>2. \A r \in Processes : reports[r] = r => Told(r)
    BY DEF IInv, Reported, Names
  <2>3. Ended(p, Inits, "0") /\ edits = 0 => AsMade(p)
    BY DEF MadeInv, MadeSoFar
  <2>4. proc[p].outcome = "applied" => ReceiptKept(p)
    BY <2>1 DEF ToldOf, ReceiptKept
  <2>5. ASSUME Ended(p, {"run"}, "0")
        PROVE  ReceiptKept(p) /\ journal.outcome[p] = "applied" /\ reports[p] = p
    <3>1. reports[p] = p /\ proc[p].outcome = "applied"
      BY <2>1, <2>5 DEF Exited, Ended
    <3>2. journal.outcome[p] = "applied"
      BY <2>2, <3>1 DEF Told
    <3> QED
      BY <2>4, <3>1, <3>2
  <2>6. Ended(p, {"run"}, "2") => reports[p] = p /\ proc[p].outcome # "applied"
    BY <2>1 DEF Exited, Ended
  <2>7. Ended(p, {"demo"}, "0") => Told(p)
    BY <2>1 DEF Exited, Ended
  <2>8. ASSUME Ended(p, {"inspect", "replay"}, "0"), NEW r \in proc[p].todo \cap Processes
        PROVE  /\ reports[r] = r /\ proc[r].outcome # ""
               /\ proc[p].command = "replay" => proc[r].outcome \notin Incomplete
    <3>1. reports[r] = r /\ (proc[p].command = "replay" => proc[r].outcome \notin Incomplete)
      BY <2>1, <2>8 DEF Exited, Ended, Readers
    <3>2. proc[r].outcome # ""
      BY <2>2, <3>1 DEF Told
    <3> QED
      BY <3>1, <3>2
  <2> QED
    BY <2>3, <2>4, <2>5, <2>6, <2>7, <2>8
<1> QED
  BY <1>1, Inductive, ProjectsAsMade, PTL
=============================================================================
