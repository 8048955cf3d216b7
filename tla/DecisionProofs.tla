---------------------------- MODULE DecisionProofs ----------------------------
(***************************************************************************)
(* What a decision promises, for any program, any candidates of a model,   *)
(* any catalog and any number of events of evidence.                       *)
(***************************************************************************)
EXTENDS DecisionInvariants, FiniteSetTheorems, NaturalsInduction, TLAPS

(* Lists of anything.                                                      *)
LEMMA ListFacts ==
    ASSUME NEW s, IsList(s)
    PROVE  Len(s) \in Nat /\ DOMAIN s = 1 .. Len(s)
BY DEF IsList

LEMMA AppendFacts ==
    ASSUME NEW s, IsList(s), NEW x
    PROVE  /\ IsList(Append(s, x))
           /\ Len(Append(s, x)) = Len(s) + 1
           /\ DOMAIN Append(s, x) = 1 .. Len(s) + 1
           /\ Append(s, x)[Len(s) + 1] = x
           /\ \A i \in 1 .. Len(s) : Append(s, x)[i] = s[i]
<1>1. PICK S : S = ToSet(s) \cup {x}
  OBVIOUS
<1>2. s \in Seq(S) /\ x \in S
  <2>1. Len(s) \in Nat /\ s \in [1 .. Len(s) -> ToSet(s)]
    BY DEF IsList
  <2> QED
    BY <1>1, <2>1
<1>3. /\ Append(s, x) \in Seq(S)
      /\ Len(Append(s, x)) = Len(s) + 1
      /\ DOMAIN Append(s, x) = 1 .. Len(s) + 1
      /\ Append(s, x)[Len(s) + 1] = x
      /\ \A i \in 1 .. Len(s) : Append(s, x)[i] = s[i]
  BY <1>2
<1>4. IsList(Append(s, x))
  BY <1>3 DEF IsList, ToSet
<1> QED
  BY <1>3, <1>4

LEMMA EmptyList == IsList(<<>>) /\ Len(<<>>) = 0
BY DEF IsList

-----------------------------------------------------------------------------
(* Machines, and what each operation makes of one that has not ended.      *)
IsMachine(m) ==
    m = [pc |-> m.pc, env |-> m.env, trials |-> m.trials, selections |-> m.selections,
         exploration |-> m.exploration, selection |-> m.selection, events |-> m.events,
         outcome |-> m.outcome, failure |-> m.failure, budget |-> m.budget,
         recorded |-> m.recorded]
Sound(m) ==
    /\ IsMachine(m)
    /\ IsList(m.events) /\ IsList(m.trials) /\ IsList(m.selections)
    /\ m.outcome = None \/ m.failure = None
Live(m) == Sound(m) /\ m.budget # None

LEMMA MachineFacts ==
    ASSUME NEW budget, NEW recorded
    PROVE  LET m == Machine(budget, recorded) IN
           /\ Sound(m) /\ m.budget = budget /\ m.pc = 1
           /\ m.env = <<>> /\ m.events = <<>> /\ m.trials = <<>> /\ m.selections = <<>>
           /\ m.outcome = None /\ m.failure = None
BY EmptyList DEF Machine, Sound, IsMachine

(* The machine keeps its place: it has ended, or only its registries and   *)
(* summaries have changed.                                                 *)
Stays(m, r) == r.pc = m.pc /\ r.env = m.env
Halts(m, r) ==
    /\ Live(r) /\ Stays(m, r) /\ Ended(r)
    /\ r.events = m.events /\ r.trials = m.trials /\ r.selections = m.selections
(* The statement has the value v.                                          *)
Moves(m, s, v, r) ==
    /\ Live(r)
    /\ \/ /\ s.kind = "let" /\ r.pc = m.pc + 1 /\ r.env = Assign(m.env, s.name, v)
          /\ r.outcome = None /\ r.failure = None
       \/ /\ s.kind # "let" /\ Stays(m, r)
          /\ (r.outcome = None /\ r.failure = "internal") \/ (r.outcome = v.is /\ r.failure = None)
Adds(m, r, event) == r.events = Append(m.events, event)

LEMMA FinishFacts ==
    ASSUME NEW m, Live(m), NEW s, NEW v
    PROVE  LET r == Finish(m, s, v) IN
           /\ r.events = m.events /\ r.trials = m.trials /\ r.selections = m.selections
           /\ Ended(m) => r = m
           /\ ~Ended(m) => Moves(m, s, v, r)
<1> DEFINE r == Finish(m, s, v)
<1>1. CASE Ended(m)
  BY <1>1 DEF Finish
<1>2. CASE ~Ended(m) /\ s.kind = "let"
  <2>1. r = [m EXCEPT !.env = Assign(m.env, s.name, v), !.pc = m.pc + 1]
    BY <1>2 DEF Finish
  <2>2. IsMachine(m)
    BY DEF Live, Sound
  <2>3. /\ IsMachine(r) /\ r.pc = m.pc + 1 /\ r.env = Assign(m.env, s.name, v)
        /\ r.events = m.events /\ r.trials = m.trials /\ r.selections = m.selections
        /\ r.outcome = m.outcome /\ r.failure = m.failure /\ r.budget = m.budget
    BY <2>1, <2>2 DEF IsMachine
  <2> QED
    BY <1>2, <2>3 DEF Moves, Live, Sound, Ended
<1>3. CASE ~Ended(m) /\ s.kind # "let"
  <2>1. r = [m EXCEPT !.outcome = v.is] \/ r = [m EXCEPT !.failure = "internal"]
    BY <1>3 DEF Finish, Fail
  <2>2. IsMachine(m) /\ m.outcome = None /\ m.failure = None
    BY <1>3 DEF Live, Sound, Ended
  <2>3. /\ IsMachine(r) /\ r.pc = m.pc /\ r.env = m.env
        /\ r.events = m.events /\ r.trials = m.trials /\ r.selections = m.selections
        /\ r.budget = m.budget
    <3>1. CASE r = [m EXCEPT !.outcome = v.is]
      BY <2>2, <3>1 DEF IsMachine
    <3>2. CASE r = [m EXCEPT !.failure = "internal"]
      BY <2>2, <3>2 DEF IsMachine
    <3> QED
      BY <2>1, <3>1, <3>2
  <2>4. (r.outcome = None /\ r.failure = "internal") \/ (r.outcome = v.is /\ r.failure = None)
    <3>1. CASE r = [m EXCEPT !.outcome = v.is]
      BY <2>2, <3>1 DEF IsMachine
    <3>2. CASE r = [m EXCEPT !.failure = "internal"]
      BY <2>2, <3>2 DEF IsMachine
    <3> QED
      BY <2>1, <3>1, <3>2
  <2> QED
    BY <1>3, <2>3, <2>4 DEF Moves, Live, Sound, Ended, Stays
<1> QED
  BY <1>1, <1>2, <1>3

LEMMA StopFacts ==
    ASSUME NEW m, Live(m), ~Ended(m), NEW status \in Statuses
    PROVE  LET r == Stop(m, status) IN
           Halts(m, r) /\ r.outcome # None /\ r.outcome.status = status /\ r.failure = None
<1> DEFINE r == Stop(m, status)
           end == Outcome(status, None, None)
<1>1. IsMachine(m) /\ m.failure = None
  BY DEF Live, Sound, Ended
<1>2. r = [m EXCEPT !.outcome = end]
  BY DEF Stop
<1>3. /\ IsMachine(r) /\ r.outcome = end /\ r.failure = None
      /\ r.pc = m.pc /\ r.env = m.env /\ r.budget = m.budget
      /\ r.events = m.events /\ r.trials = m.trials /\ r.selections = m.selections
  BY <1>1, <1>2 DEF IsMachine
<1>4. end \in Outcomes /\ end.status = status
  BY DEF Outcomes, Outcome
<1>5. end # None
  BY <1>4, PlanAssumption
<1> QED
  BY <1>3, <1>4, <1>5 DEF Halts, Live, Sound, Stays, Ended

LEMMA FailFacts ==
    ASSUME NEW m, Live(m), ~Ended(m), NEW r, r \in {Fail(m), Raise(m)}
    PROVE  Halts(m, r) /\ r.outcome = None /\ r.failure # None
<1>1. IsMachine(m) /\ m.outcome = None
  BY DEF Live, Sound, Ended
<1>2. PICK why \in {"internal", "adapter"} : r = [m EXCEPT !.failure = why]
  BY DEF Fail, Raise
<1>3. why # None
  BY PlanAssumption
<1>4. /\ IsMachine(r) /\ r.outcome = None /\ r.failure = why
      /\ r.pc = m.pc /\ r.env = m.env /\ r.budget = m.budget
      /\ r.events = m.events /\ r.trials = m.trials /\ r.selections = m.selections
  BY <1>1, <1>2 DEF IsMachine
<1> QED
  BY <1>3, <1>4 DEF Halts, Live, Sound, Stays, Ended

(* Observing either fits, or stops the run for want of room.               *)
LEMMA ObserveFacts ==
    ASSUME NEW m, Live(m), ~Ended(m), NEW kind, NEW data
    PROVE  LET r == Observe(m, kind, data) IN
           \/ ~Fits(m) /\ r = Stop(m, "evidence_limit")
           \/ /\ Fits(m) /\ Live(r) /\ ~Ended(r) /\ Stays(m, r)
              /\ Adds(m, r, [kind |-> kind, data |-> data])
              /\ r.trials = m.trials /\ r.selections = m.selections
<1> DEFINE r == Observe(m, kind, data)
           event == [kind |-> kind, data |-> data]
<1>1. IsMachine(m) /\ m.failure = None /\ m.outcome = None /\ m.budget # None
  BY DEF Live, Sound, Ended
<1>2. CASE ~Fits(m)
  BY <1>1, <1>2 DEF Observe
<1>3. CASE Fits(m)
  <2>1. r = [m EXCEPT !.events = Append(m.events, event)]
    BY <1>1, <1>3 DEF Observe
  <2>2. /\ IsMachine(r) /\ r.outcome = None /\ r.failure = None
        /\ r.pc = m.pc /\ r.env = m.env /\ r.budget = m.budget
        /\ r.events = Append(m.events, event) /\ r.trials = m.trials /\ r.selections = m.selections
    BY <1>1, <2>1 DEF IsMachine
  <2>3. IsList(Append(m.events, event))
    BY AppendFacts DEF Live, Sound
  <2> QED
    BY <1>3, <2>2, <2>3 DEF Live, Sound, Ended, Stays, Adds
<1> QED
  BY <1>2, <1>3

LEMMA ObserveAndFinish ==
    ASSUME NEW m, Live(m), ~Ended(m), NEW kind, NEW data, NEW s, NEW v
    PROVE  LET r == Finish(Observe(m, kind, data), s, v) IN
           /\ r.trials = m.trials /\ r.selections = m.selections
           /\ \/ ~Fits(m) /\ Halts(m, r)
              \/ Fits(m) /\ Moves(m, s, v, r) /\ Adds(m, r, [kind |-> kind, data |-> data])
<1> DEFINE o == Observe(m, kind, data)
           r == Finish(o, s, v)
<1>1. CASE ~Fits(m) /\ o = Stop(m, "evidence_limit")
  <2>1. "evidence_limit" \in Statuses
    BY DEF Statuses
  <2>2. Halts(m, Stop(m, "evidence_limit"))
    BY <2>1, StopFacts
  <2>3. Halts(m, o)
    BY <1>1, <2>2
  <2>4. r = o
    BY <2>3, FinishFacts DEF Halts
  <2> QED
    BY <1>1, <2>3, <2>4 DEF Halts
<1>2. CASE /\ Fits(m) /\ Live(o) /\ ~Ended(o) /\ Stays(m, o)
           /\ Adds(m, o, [kind |-> kind, data |-> data])
           /\ o.trials = m.trials /\ o.selections = m.selections
  <2>1. /\ Moves(o, s, v, r)
        /\ r.events = o.events /\ r.trials = o.trials /\ r.selections = o.selections
    BY <1>2, FinishFacts
  <2> QED
    BY <1>2, <2>1 DEF Moves, Stays, Adds
<1> QED
  BY <1>1, <1>2, ObserveFacts

LEMMA PureStep ==
    ASSUME NEW m, Live(m), ~Ended(m), NEW s
    PROVE  LET r == ExecPure(m, s)
               v == PureValue(m.env, None, s.value)
           IN  \/ Halts(m, r)
               \/ /\ Moves(m, s, v, r) /\ v.kind # "error"
                  /\ r.events = m.events /\ r.trials = m.trials /\ r.selections = m.selections
<1> DEFINE v == PureValue(m.env, None, s.value)
<1>1. CASE v.kind = "error"
  BY <1>1, FailFacts DEF ExecPure
<1>2. CASE v.kind # "error"
  BY <1>2, FinishFacts DEF ExecPure
<1> QED
  BY <1>1, <1>2

(* What `explore' and `select' do to a machine before and after observing. *)
LEMMA Summarized ==
    ASSUME NEW m, Live(m), ~Ended(m), NEW x, NEW r,
           r \in {[m EXCEPT !.exploration = x], [m EXCEPT !.selection = x]}
    PROVE  /\ Live(r) /\ ~Ended(r) /\ Stays(m, r) /\ (Fits(r) <=> Fits(m))
           /\ r.events = m.events /\ r.trials = m.trials /\ r.selections = m.selections
<1>1. IsMachine(m) /\ m.failure = None /\ m.outcome = None
  BY DEF Live, Sound, Ended
<1>2. /\ IsMachine(r) /\ r.outcome = None /\ r.failure = None /\ r.budget = m.budget
      /\ r.pc = m.pc /\ r.env = m.env
      /\ r.events = m.events /\ r.trials = m.trials /\ r.selections = m.selections
  <2>1. CASE r = [m EXCEPT !.exploration = x]
    BY <1>1, <2>1 DEF IsMachine
  <2>2. CASE r = [m EXCEPT !.selection = x]
    BY <1>1, <2>2 DEF IsMachine
  <2> QED
    BY <2>1, <2>2
<1> QED
  BY <1>2 DEF Live, Sound, Ended, Stays, Fits

LEMMA Issued ==
    ASSUME NEW m, Live(m), ~Ended(m), NEW x
    PROVE  /\ LET r == [m EXCEPT !.trials = Append(m.trials, x)] IN
              /\ Live(r) /\ ~Ended(r) /\ Stays(m, r)
              /\ r.events = m.events /\ r.trials = Append(m.trials, x) /\ r.selections = m.selections
           /\ LET r == [m EXCEPT !.selections = Append(m.selections, x)] IN
              /\ Live(r) /\ ~Ended(r) /\ Stays(m, r)
              /\ r.events = m.events /\ r.trials = m.trials /\ r.selections = Append(m.selections, x)
<1>1. IsMachine(m) /\ m.failure = None /\ m.outcome = None
  BY DEF Live, Sound, Ended
<1>2. IsList(Append(m.trials, x)) /\ IsList(Append(m.selections, x))
  BY AppendFacts DEF Live, Sound
<1>3. ASSUME NEW r, r = [m EXCEPT !.trials = Append(m.trials, x)]
      PROVE  /\ Live(r) /\ ~Ended(r) /\ Stays(m, r)
             /\ r.events = m.events /\ r.trials = Append(m.trials, x) /\ r.selections = m.selections
  <2>1. /\ IsMachine(r) /\ r.outcome = None /\ r.failure = None
        /\ r.pc = m.pc /\ r.env = m.env /\ r.budget = m.budget
        /\ r.events = m.events /\ r.trials = Append(m.trials, x) /\ r.selections = m.selections
    BY <1>1, <1>3 DEF IsMachine
  <2> QED
    BY <1>2, <2>1 DEF Live, Sound, Ended, Stays
<1>4. ASSUME NEW r, r = [m EXCEPT !.selections = Append(m.selections, x)]
      PROVE  /\ Live(r) /\ ~Ended(r) /\ Stays(m, r)
             /\ r.events = m.events /\ r.trials = m.trials /\ r.selections = Append(m.selections, x)
  <2>1. /\ IsMachine(r) /\ r.outcome = None /\ r.failure = None
        /\ r.pc = m.pc /\ r.env = m.env /\ r.budget = m.budget
        /\ r.events = m.events /\ r.trials = m.trials /\ r.selections = Append(m.selections, x)
    BY <1>1, <1>4 DEF IsMachine
  <2> QED
    BY <1>2, <2>1 DEF Live, Sound, Ended, Stays
<1> QED
  BY <1>3, <1>4

(* `explore' registers the trials of its plans, if it does not end the run.*)
TrialsOf(m, e) ==
    [i \in DOMAIN m.env[e.plans].is |->
        Trial(m.env, e, m.env[e.base].is, m.env[e.plans].is[i])]
Explores(m, s, r) ==
    LET e == s.value IN
    /\ {e.plans, e.base} \subseteq DOMAIN m.env
    /\ m.env[e.plans].kind = "plans" /\ WellFormed(m.env[e.plans].is)
    /\ m.env[e.plans].is # <<>> => IsState(m.env, e.base)
    /\ Moves(m, s, Value("trials", Len(m.trials) + 1), r)
    /\ Adds(m, r, [kind |-> "exploration", data |-> Summary(TrialsOf(m, e))])
    /\ r.trials = Append(m.trials, TrialsOf(m, e)) /\ r.selections = m.selections

LEMMA ExploreStep ==
    ASSUME NEW m, Live(m), ~Ended(m), NEW s
    PROVE  Halts(m, ExecExplore(m, s)) \/ Explores(m, s, ExecExplore(m, s))
<1> DEFINE e == s.value
           r == ExecExplore(m, s)
           plans == m.env[e.plans].is
           trials == TrialsOf(m, e)
           before == [m EXCEPT !.exploration = Summary(trials)]
           explored == Observe(before, "exploration", Summary(trials))
           issued == [explored EXCEPT !.trials = Append(explored.trials, trials)]
<1>1. CASE r \in {Fail(m), Stop(m, "invalid_plans")}
  <2>1. "invalid_plans" \in Statuses
    BY DEF Statuses
  <2> QED
    BY <1>1, <2>1, FailFacts, StopFacts
<1>2. CASE /\ {e.plans, e.base} \subseteq DOMAIN m.env
           /\ Has(m.env, e.plans, {"plans"}) /\ WellFormed(plans)
           /\ plans # <<>> => IsState(m.env, e.base)
           /\ r = IF Ended(explored) THEN explored
                  ELSE Finish(issued, s, Value("trials", Len(issued.trials)))
  <2>1. /\ Live(before) /\ ~Ended(before) /\ Stays(m, before) /\ (Fits(before) <=> Fits(m))
        /\ before.events = m.events /\ before.trials = m.trials /\ before.selections = m.selections
    BY Summarized
  <2>2. CASE explored = Stop(before, "evidence_limit")
    <3>1. "evidence_limit" \in Statuses
      BY DEF Statuses
    <3>2. Halts(before, Stop(before, "evidence_limit"))
      BY <2>1, <3>1, StopFacts
    <3>3. Halts(before, explored)
      BY <2>2, <3>2
    <3>4. Ended(explored)
      BY <3>3 DEF Halts
    <3> HIDE DEF explored, before, issued
    <3> QED
      BY <1>2, <2>1, <3>3, <3>4 DEF Halts, Stays
  <2>3. CASE /\ Live(explored) /\ ~Ended(explored) /\ Stays(before, explored)
             /\ Adds(before, explored, [kind |-> "exploration", data |-> Summary(trials)])
             /\ explored.trials = before.trials /\ explored.selections = before.selections
    <3> HIDE DEF explored, before, trials
    <3>1. /\ Live(issued) /\ ~Ended(issued) /\ Stays(explored, issued)
          /\ issued.events = explored.events /\ issued.selections = explored.selections
          /\ issued.trials = Append(explored.trials, trials)
      BY <2>3, Issued
    <3>2. Len(issued.trials) = Len(m.trials) + 1
      BY <2>1, <2>3, <3>1, AppendFacts DEF Live, Sound
    <3> HIDE DEF issued
    <3>3. r = Finish(issued, s, Value("trials", Len(m.trials) + 1))
      BY <1>2, <2>3, <3>2
    <3>4. /\ Moves(issued, s, Value("trials", Len(m.trials) + 1), r)
          /\ r.events = issued.events /\ r.trials = issued.trials /\ r.selections = issued.selections
      BY <3>1, <3>3, FinishFacts
    <3>5. Moves(m, s, Value("trials", Len(m.trials) + 1), r)
      BY <2>1, <2>3, <3>1, <3>4 DEF Moves, Stays
    <3>6. r.trials = Append(m.trials, trials) /\ r.selections = m.selections
      BY <2>1, <2>3, <3>1, <3>4
    <3>7. Adds(m, r, [kind |-> "exploration", data |-> Summary(trials)])
      BY <2>1, <2>3, <3>1, <3>4 DEF Adds
    <3> QED
      BY <1>2, <3>5, <3>6, <3>7 DEF Explores, Has, trials
  <2> QED
    BY <2>1, <2>2, <2>3, ObserveFacts
<1>3. ~({e.plans, e.base} \subseteq DOMAIN m.env) => r = Fail(m)
  BY DEF ExecExplore
<1>4. /\ {e.plans, e.base} \subseteq DOMAIN m.env
      /\ ~Has(m.env, e.plans, {"plans"}) \/ ~WellFormed(plans)
      => r = Stop(m, "invalid_plans")
  BY DEF ExecExplore
<1>5. /\ {e.plans, e.base} \subseteq DOMAIN m.env
      /\ Has(m.env, e.plans, {"plans"}) /\ WellFormed(plans)
      /\ plans # <<>> /\ ~IsState(m.env, e.base)
      => r = Fail(m)
  BY DEF ExecExplore
<1>6. /\ {e.plans, e.base} \subseteq DOMAIN m.env
      /\ Has(m.env, e.plans, {"plans"}) /\ WellFormed(plans)
      /\ plans # <<>> => IsState(m.env, e.base)
      => r = IF Ended(explored) THEN explored
             ELSE Finish(issued, s, Value("trials", Len(issued.trials)))
  BY DEF ExecExplore, TrialsOf
<1> HIDE DEF r, e, plans, trials, before, explored, issued
<1> QED
  BY <1>1, <1>2, <1>3, <1>4, <1>5, <1>6

(* `select' registers the best eligible trial of its exploration.          *)
Chooses(m, e) == Chosen(m.trials[m.env[e.trials].is], e.metric)
Issue(m, e) ==
    [payload |-> [plan |-> Chooses(m, e).plan, base |-> Chooses(m, e).base,
                  metric |-> e.metric, score |-> Chooses(m, e).metrics[e.metric]],
     spent |-> FALSE]
Selects(m, s, r) ==
    LET e == s.value
        trials == m.trials[m.env[e.trials].is]
    IN
    /\ Has(m.env, e.trials, {"trials"})
    /\ Eligible(trials) # {}
    /\ \A trial \in Eligible(trials) : e.metric \in DOMAIN trial.metrics
    /\ Moves(m, s, Value("selected", Len(m.selections) + 1), r)
    /\ \E data : Adds(m, r, [kind |-> "selection", data |-> data])
    /\ r.selections = Append(m.selections, Issue(m, e)) /\ r.trials = m.trials

LEMMA SelectStep ==
    ASSUME NEW m, Live(m), ~Ended(m), NEW s
    PROVE  Halts(m, ExecSelect(m, s)) \/ Selects(m, s, ExecSelect(m, s))
<1> DEFINE e == s.value
           r == ExecSelect(m, s)
           trials == m.trials[m.env[e.trials].is]
           chosen == Chosen(trials, e.metric)
           payload == [plan |-> chosen.plan, base |-> chosen.base,
                       metric |-> e.metric, score |-> chosen.metrics[e.metric]]
           selection == [plan |-> chosen.plan, metric |-> e.metric, score |-> payload.score]
           token == [payload |-> payload, spent |-> FALSE]
           before == [m EXCEPT !.selection = selection]
           selected == Observe(before, "selection", selection)
           issued == [selected EXCEPT !.selections = Append(selected.selections, token)]
           kept == /\ Has(m.env, e.trials, {"trials"}) /\ Eligible(trials) # {}
                   /\ \A trial \in Eligible(trials) : e.metric \in DOMAIN trial.metrics
<1>1. CASE r \in {Fail(m), Stop(m, "no_eligible_candidate")}
  <2>1. "no_eligible_candidate" \in Statuses
    BY DEF Statuses
  <2> QED
    BY <1>1, <2>1, FailFacts, StopFacts
<1>2. CASE /\ kept
           /\ r = IF Ended(selected) THEN selected
                  ELSE Finish(issued, s, Value("selected", Len(issued.selections)))
  <2>1. /\ Live(before) /\ ~Ended(before) /\ Stays(m, before) /\ (Fits(before) <=> Fits(m))
        /\ before.events = m.events /\ before.trials = m.trials /\ before.selections = m.selections
    BY Summarized
  <2>2. CASE selected = Stop(before, "evidence_limit")
    <3>1. "evidence_limit" \in Statuses
      BY DEF Statuses
    <3>2. Halts(before, Stop(before, "evidence_limit"))
      BY <2>1, <3>1, StopFacts
    <3>3. Halts(before, selected)
      BY <2>2, <3>2
    <3>4. Ended(selected)
      BY <3>3 DEF Halts
    <3> HIDE DEF selected, before, issued
    <3> QED
      BY <1>2, <2>1, <3>3, <3>4 DEF Halts, Stays
  <2>3. CASE /\ Live(selected) /\ ~Ended(selected) /\ Stays(before, selected)
             /\ Adds(before, selected, [kind |-> "selection", data |-> selection])
             /\ selected.trials = before.trials /\ selected.selections = before.selections
    <3> HIDE DEF selected, before, token, selection
    <3>1. /\ Live(issued) /\ ~Ended(issued) /\ Stays(selected, issued)
          /\ issued.events = selected.events /\ issued.trials = selected.trials
          /\ issued.selections = Append(selected.selections, token)
      BY <2>3, Issued
    <3>2. Len(issued.selections) = Len(m.selections) + 1
      BY <2>1, <2>3, <3>1, AppendFacts DEF Live, Sound
    <3> HIDE DEF issued
    <3>3. r = Finish(issued, s, Value("selected", Len(m.selections) + 1))
      BY <1>2, <2>3, <3>2
    <3>4. /\ Moves(issued, s, Value("selected", Len(m.selections) + 1), r)
          /\ r.events = issued.events /\ r.trials = issued.trials /\ r.selections = issued.selections
      BY <3>1, <3>3, FinishFacts
    <3>5. Moves(m, s, Value("selected", Len(m.selections) + 1), r)
      BY <2>1, <2>3, <3>1, <3>4 DEF Moves, Stays
    <3>6. r.selections = Append(m.selections, token) /\ r.trials = m.trials
      BY <2>1, <2>3, <3>1, <3>4
    <3>7. Adds(m, r, [kind |-> "selection", data |-> selection])
      BY <2>1, <2>3, <3>1, <3>4 DEF Adds
    <3>8. Issue(m, e) = token
      BY DEF Issue, Chooses, token
    <3> QED
      BY <1>2, <3>5, <3>6, <3>7, <3>8 DEF Selects
  <2>4. \/ selected = Stop(before, "evidence_limit")
        \/ /\ Live(selected) /\ ~Ended(selected) /\ Stays(before, selected)
           /\ Adds(before, selected, [kind |-> "selection", data |-> selection])
           /\ selected.trials = before.trials /\ selected.selections = before.selections
    <3> HIDE DEF before, selection
    <3> QED
      BY <2>1, ObserveFacts
  <2> HIDE DEF before, selection, selected, r
  <2> QED
    BY <2>2, <2>3, <2>4 DEF r
<1>3. ~Has(m.env, e.trials, {"trials"}) => r = Fail(m)
  BY DEF ExecSelect
<1>4. Has(m.env, e.trials, {"trials"}) /\ Eligible(trials) = {} => r = Stop(m, "no_eligible_candidate")
  BY DEF ExecSelect
<1>5. /\ Has(m.env, e.trials, {"trials"}) /\ Eligible(trials) # {}
      /\ \E trial \in Eligible(trials) : e.metric \notin DOMAIN trial.metrics
      => r = Fail(m)
  BY DEF ExecSelect
<1>6. kept => r = IF Ended(selected) THEN selected
                  ELSE Finish(issued, s, Value("selected", Len(issued.selections)))
  BY DEF ExecSelect
<1> QED
  <2> HIDE DEF r, before, selected, issued
  <2> QED
    BY <1>1, <1>2, <1>3, <1>4, <1>5, <1>6

(* `commit' spends its token, and nothing else.                            *)
SpentBy(m, r, t) ==
    /\ Len(r.selections) = Len(m.selections)
    /\ \A i \in 1 .. Len(m.selections) :
          /\ r.selections[i].payload = m.selections[i].payload
          /\ r.selections[i].spent = TRUE <=> (m.selections[i].spent = TRUE \/ i = t)
LEMMA SpentRecord ==
    ASSUME NEW x, NEW i, NEW t, NEW r,
           r = [payload |-> x.payload, spent |-> x.spent \/ i = t]
    PROVE  r.payload = x.payload /\ (r.spent = TRUE <=> (x.spent = TRUE \/ i = t))
OBVIOUS

LEMMA SpendFacts ==
    ASSUME NEW m, Live(m), ~Ended(m), NEW e
    PROVE  LET r == Spend(m, e) IN
           /\ Live(r) /\ ~Ended(r) /\ Stays(m, r) /\ (Fits(r) <=> Fits(m))
           /\ r.events = m.events /\ r.trials = m.trials
           /\ SpentBy(m, r, Token(m, e))
<1> DEFINE Entry(i) == [payload |-> m.selections[i].payload,
                        spent |-> m.selections[i].spent \/ i = Token(m, e)]
           after == [i \in DOMAIN m.selections |-> Entry(i)]
           r == Spend(m, e)
<1>1. IsMachine(m) /\ m.failure = None /\ m.outcome = None /\ IsList(m.selections)
  BY DEF Live, Sound, Ended
<1>2. DOMAIN m.selections = 1 .. Len(m.selections) /\ Len(m.selections) \in Nat
  BY <1>1, ListFacts
<1>3. r = [m EXCEPT !.selections = after]
  BY DEF Spend
<1>4. /\ DOMAIN after = 1 .. Len(m.selections)
      /\ \A i \in 1 .. Len(m.selections) : after[i] = Entry(i)
  BY <1>2
<1> HIDE DEF Entry
<1>5. after \in Seq(ToSet(after)) /\ Len(after) = Len(m.selections)
  <2>1. after \in [1 .. Len(m.selections) -> ToSet(after)]
    BY <1>2, <1>4 DEF ToSet
  <2> QED
    BY <1>2, <2>1
<1> HIDE DEF after
<1>6. /\ IsMachine(r) /\ r.outcome = None /\ r.failure = None /\ r.budget = m.budget
      /\ r.pc = m.pc /\ r.env = m.env
      /\ r.events = m.events /\ r.trials = m.trials /\ r.selections = after
  BY <1>1, <1>3 DEF IsMachine
<1>7. IsList(after)
  BY <1>5 DEF IsList
<1>8. \A i \in 1 .. Len(m.selections) :
         /\ after[i].payload = m.selections[i].payload
         /\ after[i].spent = TRUE <=> (m.selections[i].spent = TRUE \/ i = Token(m, e))
  <2>1. SUFFICES ASSUME NEW i \in 1 .. Len(m.selections)
                 PROVE  /\ after[i].payload = m.selections[i].payload
                        /\ after[i].spent = TRUE <=> (m.selections[i].spent = TRUE \/ i = Token(m, e))
    OBVIOUS
  <2>2. PICK x, t, a : x = m.selections[i] /\ t = Token(m, e) /\ a = after[i]
    OBVIOUS
  <2>3. a = [payload |-> x.payload, spent |-> x.spent \/ i = t]
    BY <1>4, <2>2 DEF Entry
  <2>4. a.payload = x.payload /\ (a.spent = TRUE <=> (x.spent = TRUE \/ i = t))
    BY <2>3, SpentRecord
  <2> QED
    BY <2>2, <2>4
<1> HIDE DEF r
<1>9. SpentBy(m, r, Token(m, e))
  BY <1>5, <1>6, <1>8 DEF SpentBy
<1> QED
  BY <1>6, <1>7, <1>9 DEF Live, Sound, Ended, Stays, Fits, r

-----------------------------------------------------------------------------
(* The events of a run, and which calls of the adapter they tell.          *)
LEMMA Finite ==
    ASSUME NEW events, IsList(events)
    PROVE  IsFiniteSet(Commits(events)) /\ Commits(events) \subseteq 1 .. Len(events)
<1>1. Commits(events) \subseteq 1 .. Len(events) /\ Len(events) \in Nat
  BY ListFacts DEF Commits
<1>2. IsFiniteSet(1 .. Len(events))
  BY <1>1, FS_Interval
<1> QED
  BY <1>1, <1>2, FS_Subset

LEMMA BeforeFacts ==
    ASSUME NEW events, IsList(events), NEW i \in Commits(events)
    PROVE  Before(Commits(events), i) \in 1 .. Cardinality(Commits(events))
<1> DEFINE told == Commits(events)
           upto == {j \in told : j <= i}
<1>1. IsFiniteSet(told) /\ i \in Nat
  BY Finite, ListFacts
<1>2. upto \subseteq told /\ i \in upto
  BY <1>1
<1>3. /\ IsFiniteSet(upto) /\ Cardinality(upto) \in Nat /\ Cardinality(told) \in Nat
      /\ Cardinality(upto) <= Cardinality(told)
  BY <1>1, <1>2, FS_Subset, FS_CardinalityType
<1>4. Cardinality(upto) # 0
  BY <1>2, <1>3, FS_EmptySet
<1> QED
  BY <1>3, <1>4 DEF Before

LEMMA OtherEvents ==
    ASSUME NEW events, IsList(events), NEW event, event.kind # "commit", TellsAll(events)
    PROVE  TellsAll(Append(events, event))
<1> DEFINE told == Commits(events)
           n == Len(events)
<1>1. /\ n \in Nat /\ DOMAIN events = 1 .. n
      /\ DOMAIN Append(events, event) = 1 .. n + 1
      /\ Append(events, event)[n + 1] = event
      /\ \A i \in 1 .. n : Append(events, event)[i] = events[i]
  BY AppendFacts, ListFacts
<1>2. Commits(Append(events, event)) = told
  BY <1>1 DEF Commits
<1>3. told \subseteq 1 .. n
  BY Finite
<1> QED
  BY <1>1, <1>2, <1>3 DEF TellsAll

TellsThe(events, made) ==
    LET told == Commits(events) IN
    /\ Cardinality(told) = Len(made)
    /\ \A i \in told : events[i].data.payload = made[Before(told, i)].payload

LEMMA CommitTold ==
    ASSUME NEW events, IsList(events), NEW event, event.kind = "commit", IsList(calls),
           TellsAll(events), NEW call, calls' = Append(calls, call),
           event.data.payload = call.payload
    PROVE  TellsThe(Append(events, event), calls')
<1> DEFINE old == Commits(events)
           n == Len(events)
           told == Commits(Append(events, event))
<1>1. /\ n \in Nat /\ DOMAIN events = 1 .. n
      /\ DOMAIN Append(events, event) = 1 .. n + 1
      /\ Append(events, event)[n + 1] = event
      /\ \A i \in 1 .. n : Append(events, event)[i] = events[i]
  BY AppendFacts, ListFacts
<1>2. told = old \cup {n + 1} /\ n + 1 \notin old
  BY <1>1 DEF Commits
<1>3. IsFiniteSet(old) /\ old \subseteq 1 .. n
  BY Finite
<1>4. Cardinality(told) = Cardinality(old) + 1
  BY <1>2, <1>3, FS_AddElement
<1>5. /\ Len(calls) \in Nat /\ Len(calls') = Len(calls) + 1
      /\ calls'[Len(calls) + 1] = call
      /\ \A i \in 1 .. Len(calls) : calls'[i] = calls[i]
  BY AppendFacts, ListFacts
<1>6. Cardinality(old) = Len(calls) /\ \A i \in old : events[i].data.payload = calls[Before(old, i)].payload
  BY DEF TellsAll
<1>7. ASSUME NEW i \in told
      PROVE  Append(events, event)[i].data.payload = calls'[Before(told, i)].payload
  <2>1. CASE i \in old
    <3>1. {j \in told : j <= i} = {j \in old : j <= i}
      BY <1>1, <1>2, <1>3, <2>1
    <3>2. Before(told, i) = Before(old, i)
      BY <3>1 DEF Before
    <3>3. Before(old, i) \in 1 .. Len(calls)
      BY <1>6, <2>1, BeforeFacts
    <3>4. calls'[Before(old, i)] = calls[Before(old, i)]
      BY <1>5, <3>3
    <3>5. Append(events, event)[i] = events[i]
      BY <1>1, <1>3, <2>1
    <3> HIDE DEF told, old
    <3> QED
      BY <1>6, <2>1, <3>2, <3>4, <3>5
  <2>2. CASE i = n + 1
    <3>1. {j \in told : j <= i} = told
      BY <1>1, <1>2, <1>3, <2>2
    <3>2. Before(told, i) = Len(calls) + 1
      BY <1>4, <1>6, <3>1 DEF Before
    <3> HIDE DEF told
    <3> QED
      BY <1>1, <1>5, <2>2, <3>2
  <2> QED
    BY <1>2, <2>1, <2>2
<1> QED
  BY <1>4, <1>5, <1>6, <1>7 DEF TellsThe

-----------------------------------------------------------------------------
(* The invariant of a run.  A program that is being written has not run.   *)
Program ==
    /\ setting \in Settings
    /\ IsList(source)
    /\ \A i \in 1 .. Len(source) :
          source[i].kind = IF declared # None /\ i = Len(source) THEN "return" ELSE "let"
    /\ declared = None => live = Machine(0, None) /\ calls = <<>> /\ report = None
    /\ declared # None => live.pc \in 1 .. Len(source)

(* A name stands for a selection the machine has issued, and whatever      *)
(* reached the adapter is spent.                                           *)
Holds(m) ==
    \A n \in DOMAIN m.env : m.env[n].kind = "selected" => m.env[n].is \in 1 .. Len(m.selections)
SpentCalls(m) ==
    \A i \in DOMAIN calls :
        calls[i].token \in 1 .. Len(m.selections) /\ m.selections[calls[i].token].spent = TRUE
Tokens == Holds(live) /\ SpentCalls(live) /\ SelectionsAreSpentOnce

(* The events tell of every call, unless the run says that they do not.    *)
Telling(m) == m.failure = None /\ (m.outcome # None => m.outcome.status \notin Incomplete)
Told == Telling(live) => TellsAll(live.events)
Saved ==
    /\ damage \in Nat
    /\ report # None =>
          /\ live.outcome # None
          /\ damage = 0 =>
                /\ report.events = live.events
                /\ report.complete = TRUE => live.outcome.status \notin Incomplete

RunInv == Program /\ Live(live) /\ IsList(calls) /\ Tokens /\ Told /\ Saved

(* The machine goes on or stays where it is.                               *)
LEMMA ProgramStep ==
    ASSUME Program, Live(live), Running, UNCHANGED program, report' = report,
           Stays(live, live') \/ (Current.kind = "let" /\ live'.pc = live.pc + 1)
    PROVE  Program'
<1>1. declared # None /\ declared' = declared /\ source' = source
  BY DEF Running, program
<1>2. Len(source) \in Nat /\ live.pc \in 1 .. Len(source)
  BY <1>1, ListFacts DEF Program
<1>3. live'.pc \in 1 .. Len(source)
  <2>1. CASE Stays(live, live')
    BY <1>2, <2>1 DEF Stays
  <2>2. CASE Current.kind = "let" /\ live'.pc = live.pc + 1
    <3>1. live.pc # Len(source)
      BY <1>1, <1>2, <2>2 DEF Program, Current
    <3> QED
      BY <1>2, <2>2, <3>1
  <2> QED
    BY <2>1, <2>2
<1> QED
  BY <1>1, <1>3 DEF Program, program

LEMMA SavedStep ==
    ASSUME Saved, Running, UNCHANGED saved
    PROVE  Saved' /\ report = None
<1>1. live.outcome = None
  BY DEF Running, Ended
<1>2. report = None /\ report' = None /\ damage' = damage
  BY <1>1 DEF Saved, saved
<1> QED
  BY <1>2 DEF Saved

Grows(m, r) ==
    /\ Len(m.selections) <= Len(r.selections)
    /\ \A i \in 1 .. Len(m.selections) : r.selections[i] = m.selections[i]

(* A step that does not call the adapter.                                  *)
Quiet(m, s, r) ==
    \/ Halts(m, r)
    \/ /\ \E v : /\ Moves(m, s, v, r)
                 /\ v.kind = "selected" => v.is \in 1 .. Len(r.selections)
       /\ Grows(m, r)
       /\ r.events = m.events \/ \E event : event.kind # "commit" /\ Adds(m, r, event)

LEMMA QuietStep ==
    ASSUME RunInv, Running, UNCHANGED <<program, calls, saved>>,
           Quiet(live, Current, live')
    PROVE  RunInv'
<1> USE DEF RunInv
<1>1. /\ UNCHANGED program /\ calls' = calls /\ report' = report /\ UNCHANGED saved
      /\ Live(live) /\ live.outcome = None /\ live.failure = None
  BY DEF saved, Running, Ended
<1>2. Live(live')
  BY DEF Quiet, Halts, Moves
<1>3. Stays(live, live') \/ (Current.kind = "let" /\ live'.pc = live.pc + 1)
  BY DEF Quiet, Halts, Moves
<1>4. Program'
  BY <1>1, <1>3, ProgramStep
<1>5. Saved'
  BY <1>1, SavedStep
<1>6. /\ IsList(live.selections) /\ IsList(live.events)
      /\ Len(live.selections) \in Nat
  BY ListFacts DEF Live, Sound
<1>7. TellsAll(live.events)
  BY <1>1 DEF Told, Telling
<1>8. Told'
  <2>1. CASE live'.events = live.events
    BY <1>1, <1>7, <2>1 DEF Told, TellsAll
  <2>2. CASE \E event : event.kind # "commit" /\ Adds(live, live', event)
    <3>1. PICK event : event.kind # "commit" /\ Adds(live, live', event)
      BY <2>2
    <3>2. TellsAll(live'.events)
      BY <1>6, <1>7, <3>1, OtherEvents DEF Adds
    <3> QED
      BY <1>1, <3>2 DEF Told, TellsAll
  <2> QED
    BY <2>1, <2>2 DEF Quiet, Halts
<1>9. /\ Len(live'.selections) \in Nat
      /\ Len(live.selections) <= Len(live'.selections)
      /\ \A i \in 1 .. Len(live.selections) : live'.selections[i] = live.selections[i]
  <2>1. Len(live'.selections) \in Nat
    BY <1>2, ListFacts DEF Live, Sound
  <2>2. CASE live'.selections = live.selections
    BY <1>6, <2>2
  <2>3. CASE Grows(live, live')
    BY <2>1, <2>3 DEF Grows
  <2> QED
    BY <2>1, <2>2, <2>3 DEF Quiet, Halts
<1>10. SpentCalls(live)'
  BY <1>1, <1>6, <1>9 DEF Tokens, SpentCalls
<1>11. Holds(live)'
  <2>1. CASE live'.env = live.env
    BY <1>6, <1>9, <2>1 DEF Tokens, Holds
  <2>2. CASE \E v : /\ live'.env = Assign(live.env, Current.name, v)
                    /\ v.kind = "selected" => v.is \in 1 .. Len(live'.selections)
    <3>1. PICK v : /\ live'.env = Assign(live.env, Current.name, v)
                   /\ v.kind = "selected" => v.is \in 1 .. Len(live'.selections)
      BY <2>2
    <3>2. SUFFICES ASSUME NEW n \in DOMAIN live'.env, live'.env[n].kind = "selected"
                   PROVE  live'.env[n].is \in 1 .. Len(live'.selections)
      BY DEF Holds
    <3>3. CASE n = Current.name
      BY <3>1, <3>2, <3>3 DEF Assign
    <3>4. CASE n # Current.name
      <4>1. n \in DOMAIN live.env /\ live'.env[n] = live.env[n]
        BY <3>1, <3>4 DEF Assign
      <4>2. live.env[n].is \in 1 .. Len(live.selections)
        BY <3>2, <4>1 DEF Tokens, Holds
      <4> QED
        BY <1>6, <1>9, <4>1, <4>2
    <3> QED
      BY <3>3, <3>4
  <2> QED
    BY <2>1, <2>2 DEF Quiet, Halts, Moves, Stays
<1>12. SelectionsAreSpentOnce'
  BY <1>1 DEF Tokens, SelectionsAreSpentOnce
<1> QED
  BY <1>1, <1>2, <1>4, <1>5, <1>8, <1>10, <1>11, <1>12 DEF Tokens

LEMMA PureKinds ==
    ASSUME NEW env, NEW e, e.op \in {"var", "call", "simulate"},
           PureValue(env, None, e).kind = "selected"
    PROVE  e.op = "var" /\ e.name \in DOMAIN env /\ PureValue(env, None, e) = env[e.name]
<1> DEFINE v == PureValue(env, None, e)
<1>0. v.kind = "selected"
  OBVIOUS
<1> HIDE DEF v
<1>1. ASSUME NEW why, v = Raised(why) PROVE FALSE
  BY <1>0, <1>1 DEF Raised, Value
<1>2. CASE e.op = "var"
  <2>1. v = IF e.name \in DOMAIN env THEN env[e.name] ELSE Raised("internal")
    BY <1>2 DEF v, PureValue, BranchForbidden
  <2>2. e.name \in DOMAIN env /\ v = env[e.name]
    BY <1>1, <2>1
  <2> QED
    BY <1>2, <2>2 DEF v
<1>3. CASE e.op = "simulate"
  <2>1. v = Raised("internal")
    BY <1>3 DEF v, PureValue, SimulateValue
  <2> QED
    BY <1>1, <2>1
<1>4. CASE e.op = "call"
  <2>1. v = CallValue(env, e)
    BY <1>4 DEF v, PureValue, BranchForbidden
  <2>2. CASE e.method \notin Methods
    <3>1. v = Raised("internal")
      BY <2>1, <2>2 DEF CallValue
    <3> QED
      BY <1>1, <3>1
  <2>3. CASE e.method \in Methods
    <3>1. Result[e.method] \in {"int", "bool"}
      BY <2>3 DEF Result
    <3>2. v.kind = Result[e.method] \/ v = Raised("internal")
      BY <2>1, <2>3 DEF CallValue, Value
    <3> QED
      BY <1>0, <1>1, <3>1, <3>2
  <2> QED
    BY <2>2, <2>3
<1> QED
  BY <1>2, <1>3, <1>4 DEF v

LEMMA PureQuiet ==
    ASSUME RunInv, Running, Current.value.op \in {"var", "call", "simulate"},
           live' = ExecPure(live, Current)
    PROVE  Quiet(live, Current, live')
<1> DEFINE v == PureValue(live.env, None, Current.value)
<1>1. Live(live) /\ ~Ended(live) /\ Holds(live)
  BY DEF RunInv, Running, Tokens
<1>2. CASE Halts(live, live')
  BY <1>2 DEF Quiet
<1>3. CASE /\ Moves(live, Current, v, live')
           /\ live'.events = live.events /\ live'.trials = live.trials
           /\ live'.selections = live.selections
  <2>1. v.kind = "selected" => v.is \in 1 .. Len(live'.selections)
    BY <1>1, <1>3, PureKinds DEF Holds
  <2>2. Grows(live, live')
    BY <1>1, <1>3, ListFacts DEF Grows, Live, Sound
  <2> HIDE DEF v
  <2> QED
    BY <1>3, <2>1, <2>2 DEF Quiet
<1> QED
  BY <1>1, <1>2, <1>3, PureStep

LEMMA ExploreQuiet ==
    ASSUME RunInv, Running, live' = ExecExplore(live, Current)
    PROVE  Quiet(live, Current, live')
<1>1. Live(live) /\ ~Ended(live)
  BY DEF RunInv, Running
<1>2. CASE Halts(live, live')
  BY <1>2 DEF Quiet
<1>3. CASE Explores(live, Current, live')
  <2>1. PICK v : v = Value("trials", Len(live.trials) + 1)
    OBVIOUS
  <2>2. Moves(live, Current, v, live') /\ v.kind # "selected"
    BY <1>3, <2>1 DEF Explores, Value
  <2>3. PICK event : event = [kind |-> "exploration", data |-> Summary(TrialsOf(live, Current.value))]
    OBVIOUS
  <2>4. event.kind # "commit" /\ Adds(live, live', event)
    BY <1>3, <2>3 DEF Explores
  <2>5. Grows(live, live')
    BY <1>1, <1>3, ListFacts DEF Grows, Live, Sound, Explores
  <2> QED
    BY <2>2, <2>4, <2>5 DEF Quiet
<1> QED
  BY <1>1, <1>2, <1>3, ExploreStep

LEMMA SelectQuiet ==
    ASSUME RunInv, Running, live' = ExecSelect(live, Current)
    PROVE  Quiet(live, Current, live')
<1>1. Live(live) /\ ~Ended(live) /\ IsList(live.selections)
  BY DEF RunInv, Running, Live, Sound
<1>2. CASE Halts(live, live')
  BY <1>2 DEF Quiet
<1>3. CASE Selects(live, Current, live')
  <2>1. live'.selections = Append(live.selections, Issue(live, Current.value))
    BY <1>3 DEF Selects
  <2>2. /\ Len(live.selections) \in Nat /\ Len(live'.selections) = Len(live.selections) + 1
        /\ Grows(live, live')
    BY <1>1, <2>1, AppendFacts, ListFacts DEF Grows
  <2>3. PICK v : v = Value("selected", Len(live.selections) + 1)
    OBVIOUS
  <2>4. v.is \in 1 .. Len(live'.selections)
    BY <2>2, <2>3 DEF Value
  <2>5. Moves(live, Current, v, live')
    BY <1>3, <2>3 DEF Selects
  <2>6. PICK data : Adds(live, live', [kind |-> "selection", data |-> data])
    BY <1>3 DEF Selects
  <2>7. PICK event : event = [kind |-> "selection", data |-> data]
    OBVIOUS
  <2>8. event.kind # "commit" /\ Adds(live, live', event)
    BY <2>6, <2>7
  <2> QED
    BY <2>2, <2>4, <2>5, <2>8 DEF Quiet
<1> QED
  BY <1>1, <1>2, <1>3, SelectStep

LEMMA ObserveQuiet ==
    ASSUME RunInv, Running, NEW kind, kind # "commit", NEW data, NEW v, v.kind # "selected",
           live' = Finish(Observe(live, kind, data), Current, v)
    PROVE  Quiet(live, Current, live')
<1>1. Live(live) /\ ~Ended(live)
  BY DEF RunInv, Running
<1>2. CASE Halts(live, live')
  BY <1>2 DEF Quiet
<1>3. CASE /\ Moves(live, Current, v, live') /\ Adds(live, live', [kind |-> kind, data |-> data])
           /\ live'.selections = live.selections
  <2>1. Grows(live, live')
    BY <1>1, <1>3, ListFacts DEF Grows, Live, Sound
  <2> QED
    BY <1>3, <2>1 DEF Quiet
<1> QED
  BY <1>1, <1>2, <1>3, ObserveAndFinish

(* A commit spends its token; what it then makes of the machine keeps that.*)
Calls(r) == Live(r) /\ SpentBy(live, r, Token(live, Current.value))

LEMMA TokenFacts ==
    ASSUME RunInv, Committable(live, Current.value)
    PROVE  /\ Token(live, Current.value) \in 1 .. Len(live.selections)
           /\ live.selections[Token(live, Current.value)].spent # TRUE
BY DEF RunInv, Tokens, Holds, Committable, Has, Token

LEMMA CallsKeep ==
    ASSUME RunInv, Calls(live'), live'.env = live.env \/ (\E v : v.kind = "outcome" /\ live'.env = Assign(live.env, Current.name, v))
    PROVE  Holds(live)' /\ (calls' = calls => SpentCalls(live)')
<1>1. Len(live.selections) \in Nat /\ Len(live'.selections) = Len(live.selections)
  BY ListFacts DEF RunInv, Live, Sound, Calls, SpentBy
<1>2. Holds(live) /\ SpentCalls(live)
  BY DEF RunInv, Tokens
<1>3. Holds(live)'
  <2>1. CASE live'.env = live.env
    BY <1>1, <1>2, <2>1 DEF Holds
  <2>2. CASE \E v : v.kind = "outcome" /\ live'.env = Assign(live.env, Current.name, v)
    <3>1. PICK v : v.kind = "outcome" /\ live'.env = Assign(live.env, Current.name, v)
      BY <2>2
    <3>2. SUFFICES ASSUME NEW n \in DOMAIN live'.env, live'.env[n].kind = "selected"
                   PROVE  live'.env[n].is \in 1 .. Len(live'.selections)
      BY DEF Holds
    <3>3. n # Current.name
      BY <3>1, <3>2 DEF Assign
    <3>4. n \in DOMAIN live.env /\ live'.env[n] = live.env[n]
      BY <3>1, <3>2, <3>3 DEF Assign
    <3> QED
      BY <1>1, <1>2, <3>2, <3>4 DEF Holds
  <2> QED
    BY <2>1, <2>2
<1>4. ASSUME calls' = calls PROVE SpentCalls(live)'
  <2>1. SUFFICES ASSUME NEW i \in DOMAIN calls
                 PROVE  /\ calls[i].token \in 1 .. Len(live'.selections)
                        /\ live'.selections[calls[i].token].spent = TRUE
    BY <1>4 DEF SpentCalls
  <2>2. /\ calls[i].token \in 1 .. Len(live.selections)
        /\ live.selections[calls[i].token].spent = TRUE
    BY <1>2 DEF SpentCalls
  <2> QED
    BY <1>1, <2>2 DEF Calls, SpentBy
<1> QED
  BY <1>3, <1>4

LEMMA NoRoomStep == ASSUME RunInv, NoRoomForCommit PROVE RunInv'
<1> DEFINE spent == Spend(live, Current.value)
<1>1. /\ Running /\ UNCHANGED program /\ calls' = calls /\ report' = report /\ UNCHANGED saved
      /\ Live(live) /\ ~Ended(live) /\ live' = Stop(spent, "evidence_limit")
      /\ live.outcome = None /\ live.failure = None
  BY DEF NoRoomForCommit, RunInv, saved, At, Running, Ended, Spent
<1>2. /\ Live(spent) /\ ~Ended(spent) /\ Stays(live, spent)
      /\ spent.events = live.events
  BY <1>1, SpendFacts
<1>3. PICK status \in Statuses : status = "evidence_limit"
  BY DEF Statuses
<1>4. Halts(spent, live') /\ live'.outcome # None /\ live'.outcome.status = status
  BY <1>1, <1>2, <1>3, StopFacts
<1>5. Calls(live')
  <2>1. live'.selections = spent.selections /\ Live(live')
    BY <1>4 DEF Halts
  <2>2. SpentBy(live, spent, Token(live, Current.value))
    BY <1>1, SpendFacts
  <2> HIDE DEF spent
  <2> QED
    BY <2>1, <2>2 DEF Calls, SpentBy
<1>6. live'.env = live.env /\ Stays(live, live') /\ live'.events = live.events
  BY <1>2, <1>4 DEF Halts, Stays
<1>7. Program' /\ Saved'
  BY <1>1, <1>6, ProgramStep, SavedStep DEF RunInv
<1>8. Told'
  <2>1. ~Telling(live')
    BY <1>3, <1>4 DEF Telling, Incomplete
  <2> QED
    BY <2>1 DEF Told, Telling
<1>9. Tokens'
  BY <1>1, <1>5, <1>6, CallsKeep DEF RunInv, Tokens, SelectionsAreSpentOnce
<1> QED
  BY <1>1, <1>5, <1>7, <1>8, <1>9 DEF RunInv, Calls

(* The adapter is called.                                                  *)
LEMMA CalledStep ==
    ASSUME RunInv, Calling, Called, UNCHANGED <<program, saved>>, Calls(live'),
           live'.env = live.env \/ (\E v : v.kind = "outcome" /\ live'.env = Assign(live.env, Current.name, v)),
           Stays(live, live') \/ (Current.kind = "let" /\ live'.pc = live.pc + 1),
           \/ ~Telling(live')
           \/ \E event : /\ event.kind = "commit" /\ event.data.payload = Payload
                         /\ live'.events = Append(live.events, event)
    PROVE  RunInv'
<1> DEFINE t == Token(live, Current.value)
           call == [token |-> t, payload |-> Payload]
<1>1. /\ Running /\ UNCHANGED program /\ calls' = Append(calls, call) /\ UNCHANGED saved
      /\ report' = report /\ Live(live) /\ Live(live') /\ IsList(calls)
      /\ live.outcome = None /\ live.failure = None /\ Committable(live, Current.value)
  BY DEF Calling, RunInv, saved, At, Running, Ended, Called, Calls
<1>2. Program' /\ Saved'
  BY <1>1, ProgramStep, SavedStep DEF RunInv
<1>3. /\ Len(calls) \in Nat /\ DOMAIN calls = 1 .. Len(calls)
      /\ IsList(calls') /\ DOMAIN calls' = 1 .. Len(calls) + 1
      /\ calls'[Len(calls) + 1] = call
      /\ \A i \in 1 .. Len(calls) : calls'[i] = calls[i]
  BY <1>1, AppendFacts, ListFacts
<1>4. t \in 1 .. Len(live.selections) /\ live.selections[t].spent # TRUE
  BY <1>1, TokenFacts
<1>5. /\ Len(live'.selections) = Len(live.selections)
      /\ \A i \in 1 .. Len(live.selections) :
            live'.selections[i].spent = TRUE <=> (live.selections[i].spent = TRUE \/ i = t)
  BY DEF Calls, SpentBy
<1>6. \A i \in 1 .. Len(calls) :
         /\ calls[i].token \in 1 .. Len(live.selections)
         /\ live.selections[calls[i].token].spent = TRUE
  BY <1>3 DEF RunInv, Tokens, SpentCalls
<1> HIDE DEF t
<1>7. \A i \in 1 .. Len(calls) : calls[i].token # t
  BY <1>4, <1>6
<1>8. SelectionsAreSpentOnce'
  <2>1. SUFFICES ASSUME NEW i \in 1 .. Len(calls) + 1, NEW j \in 1 .. Len(calls) + 1,
                        calls'[i].token = calls'[j].token
                 PROVE  i = j
    BY <1>3 DEF SelectionsAreSpentOnce
  <2>2. call.token = t
    OBVIOUS
  <2> HIDE DEF call
  <2>3. CASE i \in 1 .. Len(calls) /\ j \in 1 .. Len(calls)
    BY <1>3, <2>1, <2>3 DEF RunInv, Tokens, SelectionsAreSpentOnce
  <2>4. CASE i = Len(calls) + 1 /\ j \in 1 .. Len(calls)
    BY <1>3, <1>7, <2>1, <2>2, <2>4
  <2>5. CASE i \in 1 .. Len(calls) /\ j = Len(calls) + 1
    BY <1>3, <1>7, <2>1, <2>2, <2>5
  <2> QED
    BY <1>3, <2>3, <2>4, <2>5
<1>9. SpentCalls(live)'
  <2>1. SUFFICES ASSUME NEW i \in 1 .. Len(calls) + 1
                 PROVE  /\ calls'[i].token \in 1 .. Len(live'.selections)
                        /\ live'.selections[calls'[i].token].spent = TRUE
    BY <1>3 DEF SpentCalls
  <2>2. call.token = t
    OBVIOUS
  <2> HIDE DEF call
  <2>3. CASE i \in 1 .. Len(calls)
    BY <1>3, <1>5, <1>6, <2>3
  <2>4. CASE i = Len(calls) + 1
    BY <1>3, <1>4, <1>5, <2>2, <2>4
  <2>5. i \in 1 .. Len(calls) \/ i = Len(calls) + 1
    BY <1>3
  <2> QED
    BY <2>3, <2>4, <2>5
<1>10. Holds(live)'
  BY CallsKeep
<1>11. Told'
  <2>1. CASE ~Telling(live')
    BY <2>1 DEF Told, Telling
  <2>2. CASE \E event : /\ event.kind = "commit" /\ event.data.payload = Payload
                        /\ live'.events = Append(live.events, event)
    <3>1. PICK event : /\ event.kind = "commit" /\ event.data.payload = Payload
                       /\ live'.events = Append(live.events, event)
      BY <2>2
    <3>2. TellsAll(live.events) /\ IsList(live.events)
      BY <1>1 DEF RunInv, Told, Telling, Live, Sound
    <3>3. event.data.payload = call.payload
      BY <3>1
    <3> HIDE DEF call
    <3>4. TellsThe(Append(live.events, event), calls')
      BY <1>1, <3>1, <3>2, <3>3, CommitTold
    <3>5. TellsAll(live.events)'
      BY <3>1, <3>4 DEF TellsAll, TellsThe
    <3> QED
      BY <3>5 DEF Told
  <2> QED
    BY <2>1, <2>2
<1> QED
  BY <1>1, <1>2, <1>3, <1>8, <1>9, <1>10, <1>11 DEF RunInv, Tokens

LEMMA AnswerStep ==
    ASSUME RunInv, Calling, Called, UNCHANGED <<program, saved>>,
           NEW status, NEW revision, Answer(status, revision)
    PROVE  RunInv'
<1> DEFINE spent == Spend(live, Current.value)
           data == [payload |-> Payload, operation |-> OperationId,
                    outcome |-> Outcome(status, Identity(Payload, OperationId), revision)]
           event == [kind |-> "commit", data |-> data]
           v == Value("outcome", data.outcome)
<1>1. Live(live) /\ ~Ended(live) /\ Fits(live)
  BY DEF Calling, At, Running, RunInv
<1>2. /\ Live(spent) /\ ~Ended(spent) /\ Stays(live, spent) /\ Fits(spent)
      /\ spent.events = live.events /\ SpentBy(live, spent, Token(live, Current.value))
  BY <1>1, SpendFacts
<1>3. live' = Finish(Observe(spent, "commit", data), Current, v)
  BY DEF Answer, ExecCommit, Spent
<1> HIDE DEF spent, data
<1>4. /\ Moves(spent, Current, v, live') /\ Adds(spent, live', event)
      /\ live'.selections = spent.selections
  BY <1>2, <1>3, ObserveAndFinish
<1>5. Calls(live')
  BY <1>2, <1>4 DEF Calls, SpentBy, Moves
<1>6. v.kind = "outcome"
  BY DEF Value
<1>7. event.kind = "commit" /\ event.data.payload = Payload
  BY DEF data
<1> HIDE DEF v, event
<1>8. live'.env = live.env \/ live'.env = Assign(live.env, Current.name, v)
  BY <1>2, <1>4 DEF Moves, Stays
<1>9. Stays(live, live') \/ (Current.kind = "let" /\ live'.pc = live.pc + 1)
  BY <1>2, <1>4 DEF Moves, Stays
<1>10. live'.events = Append(live.events, event)
  BY <1>2, <1>4 DEF Adds
<1> QED
  BY <1>5, <1>6, <1>7, <1>8, <1>9, <1>10, CalledStep

LEMMA AdapterErrorStep ==
    ASSUME RunInv, Calling, Called, UNCHANGED <<program, saved>>, AdapterError
    PROVE  RunInv'
<1> DEFINE spent == Spend(live, Current.value)
<1>1. Live(live) /\ ~Ended(live)
  BY DEF Calling, At, Running, RunInv
<1>2. /\ Live(spent) /\ ~Ended(spent) /\ Stays(live, spent)
      /\ spent.events = live.events /\ SpentBy(live, spent, Token(live, Current.value))
  BY <1>1, SpendFacts
<1>3. live' = Stop(spent, "commit_unresolved") \/ live' = Raise(spent)
  BY DEF AdapterError, Spent
<1> HIDE DEF spent
<1>4. PICK status \in Statuses : status = "commit_unresolved"
  BY DEF Statuses
<1>5. /\ Halts(spent, live') /\ ~Telling(live')
  <2>1. CASE live' = Stop(spent, status)
    <3>1. Halts(spent, live') /\ live'.outcome # None /\ live'.outcome.status = status
      BY <1>2, <2>1, StopFacts
    <3> QED
      BY <1>4, <3>1 DEF Telling, Incomplete
  <2>2. CASE live' = Raise(spent)
    BY <1>2, <2>2, FailFacts DEF Telling
  <2> QED
    BY <1>3, <1>4, <2>1, <2>2
<1>6. Calls(live')
  BY <1>2, <1>5 DEF Calls, SpentBy, Halts
<1>7. Stays(live, live')
  BY <1>2, <1>5 DEF Halts, Stays
<1> QED
  BY <1>5, <1>6, <1>7, CalledStep DEF Stays

LEMMA CommitStep == ASSUME RunInv, Commit PROVE RunInv'
<1>1. CASE RefuseToken
  <2>1. Running /\ UNCHANGED <<program, calls, saved>> /\ live' = Fail(live) /\ Live(live) /\ ~Ended(live)
    BY <1>1 DEF RefuseToken, At, Running, RunInv
  <2>2. Quiet(live, Current, live')
    BY <2>1, FailFacts DEF Quiet
  <2> QED
    BY <2>1, <2>2, QuietStep
<1>2. CASE NoRoomForCommit
  BY <1>2, NoRoomStep
<1>3. CASE CommitAgain
  BY <1>3, AnswerStep DEF CommitAgain
<1>4. CASE CommitStale
  BY <1>4, AnswerStep DEF CommitStale
<1>5. CASE CommitApplies
  BY <1>5, AnswerStep DEF CommitApplies
<1>6. CASE CommitRaises
  BY <1>6, AdapterErrorStep DEF CommitRaises
<1>7. CASE CommitAppliesThenRaises
  BY <1>7, AdapterErrorStep DEF CommitAppliesThenRaises
<1> QED
  BY <1>1, <1>2, <1>3, <1>4, <1>5, <1>6, <1>7 DEF Commit

LEMMA RunStep ==
    ASSUME RunInv, ReadSnapshot \/ Propose \/ ProviderFails \/ Compute
    PROVE  RunInv'
<1>1. Running /\ UNCHANGED <<program, calls, saved>> /\ Live(live) /\ ~Ended(live)
  BY DEF ReadSnapshot, Propose, ProviderFails, Compute, At, Running, RunInv
<1>2. CASE ReadSnapshot
  <2>1. PICK v : v = Value("snapshot", catalog)
    OBVIOUS
  <2>2. PICK kind : kind = "snapshot"
    OBVIOUS
  <2>3. live' = Finish(Observe(live, kind, catalog), Current, v)
    BY <1>2, <2>1, <2>2 DEF ReadSnapshot, ExecSnapshot
  <2>4. kind # "commit" /\ v.kind # "selected"
    BY <2>1, <2>2 DEF Value
  <2> QED
    BY <1>1, <2>3, <2>4, ObserveQuiet, QuietStep
<1>3. CASE Propose
  <2>1. PICK plans : live' = IF ProposalArguments(live, Current.value)
                             THEN ExecPropose(live, Current, plans)
                             ELSE Fail(live)
    BY <1>3 DEF Propose
  <2>2. CASE live' = Fail(live)
    BY <1>1, <2>2, FailFacts, QuietStep DEF Quiet
  <2>3. CASE live' = ExecPropose(live, Current, plans)
    <3>1. PICK v : v = Value("plans", plans)
      OBVIOUS
    <3>2. PICK kind : kind = "proposal"
      OBVIOUS
    <3>3. \E data : live' = Finish(Observe(live, kind, data), Current, v)
      BY <2>3, <3>1, <3>2 DEF ExecPropose
    <3>4. kind # "commit" /\ v.kind # "selected"
      BY <3>1, <3>2 DEF Value
    <3> QED
      BY <1>1, <3>3, <3>4, ObserveQuiet, QuietStep
  <2> QED
    BY <2>1, <2>2, <2>3
<1>4. CASE ProviderFails
  <2>1. PICK status \in Statuses : status = "provider_error"
    BY DEF Statuses
  <2>2. live' = Stop(live, status)
    BY <1>4, <2>1 DEF ProviderFails
  <2> QED
    BY <1>1, <2>2, StopFacts, QuietStep DEF Quiet
<1>5. CASE Compute
  <2>1. CASE At("explore") /\ live' = ExecExplore(live, Current)
    BY <1>1, <2>1, ExploreQuiet, QuietStep
  <2>2. CASE At("select") /\ live' = ExecSelect(live, Current)
    BY <1>1, <2>2, SelectQuiet, QuietStep
  <2>3. CASE /\ At("var") \/ At("call") \/ At("simulate")
             /\ live' = ExecPure(live, Current)
    <3>1. Current.value.op \in {"var", "call", "simulate"}
      BY <2>3 DEF At
    <3> QED
      BY <1>1, <2>3, <3>1, PureQuiet, QuietStep
  <2> QED
    BY <1>5, <2>1, <2>2, <2>3 DEF Compute
<1> QED
  BY <1>2, <1>3, <1>4, <1>5

LEMMA WriteStep == ASSUME RunInv, WriteLet \/ WriteReturn PROVE RunInv'
<1>1. declared = None /\ live = Machine(0, None) /\ calls = <<>> /\ report = None /\ IsList(source)
  BY DEF WriteLet, WriteReturn, RunInv, Program
<1>2. calls' = calls /\ report' = report /\ UNCHANGED saved
  BY DEF WriteLet, WriteReturn, saved
<1>3. ASSUME NEW s, source' = Append(source, s)
      PROVE  /\ IsList(source') /\ Len(source') = Len(source) + 1 /\ Len(source) \in Nat
             /\ source'[Len(source) + 1] = s
             /\ \A i \in 1 .. Len(source) : source'[i] = source[i] /\ source[i].kind = "let"
  <2>1. \A i \in 1 .. Len(source) : source[i].kind = "let"
    BY <1>1 DEF RunInv, Program
  <2> QED
    BY <1>1, <1>3, <2>1, AppendFacts, ListFacts
<1>4. PICK budget : live' = Machine(budget, None) /\ budget # None
  <2>1. setting.budgets \subseteq Nat /\ 0 \in Nat
    BY DecisionAssumption DEF RunInv, Program
  <2> QED
    BY <1>1, <2>1, PlanAssumption DEF WriteLet, WriteReturn
<1>5. /\ Live(live') /\ live'.events = <<>> /\ live'.pc = 1
       /\ live'.env = <<>> /\ live'.selections = <<>>
  <2>1. PICK m : m = Machine(budget, None)
    OBVIOUS
  <2>2. /\ Sound(m) /\ m.budget # None /\ m.events = <<>> /\ m.pc = 1
        /\ m.env = <<>> /\ m.selections = <<>>
    BY <1>4, <2>1, MachineFacts
  <2> QED
    BY <1>4, <2>1, <2>2 DEF Live
<1>6. Tokens'
  BY <1>1, <1>2, <1>5 DEF Tokens, Holds, SpentCalls, SelectionsAreSpentOnce
<1>7. Saved'
  BY <1>1, <1>2 DEF RunInv, Saved, saved
<1>8. Told'
  <2>1. Commits(<<>>) = {} /\ Cardinality({}) = 0 /\ Len(calls') = 0
    BY <1>1, <1>2, FS_EmptySet, EmptyList DEF Commits
  <2> QED
    BY <1>5, <2>1 DEF Told, TellsAll
<1>9. Program'
  <2>1. CASE WriteLet
    <3>1. PICK s : source' = Append(source, s) /\ s.kind = "let"
      BY <2>1 DEF WriteLet
    <3>2. declared' = None /\ live' = Machine(0, None)
      BY <1>1, <2>1 DEF WriteLet
    <3> QED
      BY <1>1, <1>2, <1>3, <2>1, <3>1, <3>2 DEF Program, WriteLet, RunInv
  <2>2. CASE WriteReturn
    <3>1. PICK e \in Writable, effects \in setting.effects, room \in setting.budgets :
             /\ source' = Append(source, [kind |-> "return", value |-> e])
             /\ declared' = effects
      BY <2>2 DEF WriteReturn
    <3>2. PICK s : source' = Append(source, s) /\ s.kind = "return" /\ declared' = effects
      BY <3>1
    <3>3. declared' # None
      BY <3>2, DecisionAssumption DEF RunInv, Program
    <3> QED
      BY <1>1, <1>2, <1>3, <1>5, <2>2, <3>2, <3>3 DEF Program, WriteReturn, RunInv
  <2> QED
    BY <2>1, <2>2
<1> QED
  BY <1>1, <1>2, <1>5, <1>6, <1>7, <1>8, <1>9 DEF RunInv
LEMMA SaveStep ==
    ASSUME RunInv, OutsideWrite \/ Save \/ Damage \/ Replay \/ ReplayStep \/ ReplayEnds
    PROVE  RunInv'
<1>1. UNCHANGED <<program, live, calls>>
  BY DEF OutsideWrite, Save, Damage, Replay, ReplayStep, ReplayEnds
<1>2. Live(live') /\ IsList(calls') /\ Tokens' /\ Told'
  BY <1>1 DEF RunInv, Tokens, Holds, SpentCalls, SelectionsAreSpentOnce, Told, TellsAll
<1>3. Program'
  <2>1. declared = None => report = None /\ live.outcome = None
    BY MachineFacts DEF RunInv, Program
  <2>2. declared = None => report' = None
    <3>1. CASE OutsideWrite \/ Save
      BY <2>1, <3>1 DEF OutsideWrite, Running, Save
    <3>2. CASE Damage \/ Replay \/ ReplayStep \/ ReplayEnds
      BY <2>1, <3>2 DEF Damage, Replay, ReplayStep, ReplayEnds
    <3> QED
      BY <3>1, <3>2
  <2> QED
    BY <1>1, <2>2 DEF RunInv, Program, program
<1>4. Saved'
  <2>1. CASE OutsideWrite \/ Replay \/ ReplayStep \/ ReplayEnds
    <3>1. report' = report /\ damage' = damage
      BY <2>1 DEF OutsideWrite, Replay, ReplayStep, ReplayEnds, saved
    <3> QED
      BY <1>1, <3>1 DEF RunInv, Saved
  <2>2. CASE Save
    <3>1. live.outcome # None /\ damage' = damage /\ report' = Report(live, live.events)
      BY <2>2 DEF Save
    <3>2. report'.events = live.events
      BY <3>1 DEF Report
    <3>3. report'.complete = (live.outcome.status \notin Incomplete)
      BY <3>1 DEF Report
    <3> QED
      BY <1>1, <3>1, <3>2, <3>3 DEF RunInv, Saved
  <2>3. CASE Damage
    <3>1. report # None /\ damage' = damage + 1
      BY <2>3 DEF Damage
    <3> QED
      BY <1>1, <3>1 DEF RunInv, Saved
  <2> QED
    BY <2>1, <2>2, <2>3
<1> QED
  BY <1>2, <1>3, <1>4 DEF RunInv

LEMMA Begins == Init => RunInv
<1> SUFFICES ASSUME Init PROVE RunInv
  OBVIOUS
<1>1. PICK m : m = live
  OBVIOUS
<1>2. /\ Live(m) /\ m.events = <<>> /\ m.pc = 1
      /\ m.env = <<>> /\ m.selections = <<>>
  <2>1. 0 # None
    BY PlanAssumption
  <2> QED
    BY <1>1, <2>1, MachineFacts DEF Init, Live
<1>3. Commits(<<>>) = {} /\ Cardinality({}) = 0
  BY FS_EmptySet DEF Commits
<1>4. Live(live) /\ IsList(calls)
  BY <1>1, <1>2, EmptyList DEF Init
<1>5. Program
  BY EmptyList DEF Init, Program
<1>6. Tokens
  BY <1>1, <1>2 DEF Init, Tokens, Holds, SpentCalls, SelectionsAreSpentOnce
<1>7. Told
  BY <1>1, <1>2, <1>3, EmptyList DEF Init, Told, TellsAll
<1>8. Saved
  BY DEF Init, Saved
<1> QED
  BY <1>4, <1>5, <1>6, <1>7, <1>8 DEF RunInv

LEMMA Kept == RunInv /\ [Next]_vars => RunInv'
<1> SUFFICES ASSUME RunInv, [Next]_vars PROVE RunInv'
  OBVIOUS
<1>1. CASE UNCHANGED vars
  BY <1>1 DEF vars, RunInv, Program, Tokens, Holds, SpentCalls, SelectionsAreSpentOnce,
              Told, TellsAll, Saved
<1>2. CASE WriteLet \/ WriteReturn
  BY <1>2, WriteStep
<1>3. CASE ReadSnapshot \/ Propose \/ ProviderFails \/ Compute
  BY <1>3, RunStep
<1>4. CASE Commit
  BY <1>4, CommitStep
<1>5. CASE OutsideWrite \/ Save \/ Damage \/ Replay \/ ReplayStep \/ ReplayEnds
  BY <1>5, SaveStep
<1> QED
  BY <1>1, <1>2, <1>3, <1>4, <1>5 DEF Next

-----------------------------------------------------------------------------
(* The invariant holds throughout: of programs no checker has seen as of   *)
(* the accepted ones, whatever a model answers, others write and fails.    *)
THEOREM Inductive == Spec => []RunInv
  BY Begins, Kept, PTL DEF Spec

(* A selection reaches the adapter at most once (Runtime.eval_expr,        *)
(* commit): the token is spent before the adapter is called, and no        *)
(* statement issues it again.                                              *)
THEOREM TokensAreSpentOnce == Spec => []SelectionsAreSpentOnce
<1>1. RunInv => SelectionsAreSpentOnce
  BY DEF RunInv, Tokens
<1> QED
  BY <1>1, Inductive, PTL

(* A complete report tells of every call of the adapter, in their order    *)
(* (Runtime.observe and report).                                           *)
THEOREM ReportsTellAllCalls == Spec => []CompleteReportsTellAll
<1>1. RunInv => CompleteReportsTellAll
  <2>1. SUFFICES ASSUME RunInv, report # None, report.complete, damage = 0
                 PROVE  TellsAll(report.events)
    BY DEF CompleteReportsTellAll
  <2>2. live.outcome # None /\ report.events = live.events /\ live.outcome.status \notin Incomplete
    BY <2>1 DEF RunInv, Saved
  <2>3. live.failure = None
    BY <2>1, <2>2 DEF RunInv, Live, Sound
  <2> QED
    BY <2>1, <2>2, <2>3 DEF RunInv, Told, Telling
<1> QED
  BY <1>1, Inductive, PTL
-----------------------------------------------------------------------------
(* Programs the checker accepts.  What follows needs induction over lists  *)
(* of statements: a set that contains zero and is closed under successors  *)
(* up to n contains all numbers up to n.                                   *)
LEMMA Climbs ==
    ASSUME NEW n \in Nat, NEW S, 0 \in S, \A i \in 0 .. n - 1 : i \in S => i + 1 \in S
    PROVE  \A i \in 0 .. n : i \in S
<1>1. SUFFICES ASSUME NEW k \in 0 .. n, k \notin S PROVE FALSE
  OBVIOUS
<1> DEFINE T == {i \in 0 .. n : i \notin S}
<1>2. T \subseteq Nat /\ T # {}
  BY <1>1
<1>3. PICK R : IsWellFoundedOn(R, Nat) /\ R = {ss \in Nat \X Nat : ss[1] < ss[2]}
  BY NatLessThanWellFounded DEF OpToRel
<1> HIDE DEF T
<1>4. PICK i \in T : \A j \in T : <<j, i>> \notin R
  BY <1>2, <1>3, WFMin
<1>5. \A j \in T : ~(j < i)
  BY <1>2, <1>3, <1>4
<1>6. i \in 0 .. n /\ i \notin S
  BY <1>4 DEF T
<1>7. i # 0 /\ i - 1 \in 0 .. n - 1
  BY <1>6
<1>8. i - 1 \in 0 .. n /\ i - 1 < i
  BY <1>6, <1>7
<1>9. i - 1 \in S
  BY <1>5, <1>8 DEF T
<1>10. (i - 1) + 1 = i
  BY <1>6
<1> QED
  BY <1>6, <1>7, <1>9, <1>10

LEMMA ConcatFacts ==
    ASSUME NEW s, IsList(s), NEW t, IsList(t)
    PROVE  IsList(s \o t) /\ ToSet(s \o t) = ToSet(s) \cup ToSet(t)
<1>1. /\ Len(s) \in Nat /\ DOMAIN s = 1 .. Len(s)
      /\ Len(t) \in Nat /\ DOMAIN t = 1 .. Len(t)
  BY ListFacts
<1>2. PICK S : S = ToSet(s) \cup ToSet(t)
  OBVIOUS
<1>3. s \in Seq(S) /\ t \in Seq(S)
  <2>1. s \in [1 .. Len(s) -> ToSet(s)] /\ t \in [1 .. Len(t) -> ToSet(t)]
    BY DEF IsList
  <2> QED
    BY <1>1, <1>2, <2>1
<1>4. /\ s \o t \in Seq(S) /\ Len(s \o t) = Len(s) + Len(t)
      /\ \A i \in 1 .. Len(s) + Len(t) :
            (s \o t)[i] = IF i <= Len(s) THEN s[i] ELSE t[i - Len(s)]
  BY <1>3
<1>5. DOMAIN (s \o t) = 1 .. Len(s) + Len(t)
  BY <1>4
<1>6. \A i \in 1 .. Len(s) : (s \o t)[i] = s[i] /\ i \in DOMAIN (s \o t)
  BY <1>1, <1>4, <1>5
<1>7. \A i \in 1 .. Len(t) : (s \o t)[Len(s) + i] = t[i] /\ Len(s) + i \in DOMAIN (s \o t)
  BY <1>1, <1>4, <1>5
<1>8. ToSet(s) \subseteq ToSet(s \o t)
  BY <1>1, <1>6 DEF ToSet
<1>9. ToSet(t) \subseteq ToSet(s \o t)
  BY <1>1, <1>7 DEF ToSet
<1>10. ToSet(s \o t) \subseteq S
  BY <1>4, <1>5 DEF ToSet
<1>11. IsList(s \o t)
  <2>1. PICK u : u = s \o t
    OBVIOUS
  <2>2. u \in Seq(S) /\ Len(u) \in Nat
    BY <1>1, <1>4, <2>1
  <2>3. IsList(u)
    BY <2>2 DEF IsList, ToSet
  <2> QED
    BY <2>1, <2>3
<1> QED
  BY <1>2, <1>8, <1>9, <1>10, <1>11

LEMMA FlagFacts ==
    ASSUME NEW code, NEW reported
    PROVE  IsList(Flag(code, reported)) /\ (reported => code \in ToSet(Flag(code, reported)))
<1>1. IsList(<<code>>) /\ code \in ToSet(<<code>>)
  BY DEF IsList, ToSet
<1> QED
  BY <1>1, EmptyList DEF Flag

(* Concatenating a list of lists, one after the other.                     *)
Joins(lists, f, k) ==
    f = [i \in 1 .. k |-> IF i = 1 THEN lists[i] ELSE f[i - 1] \o lists[i]]
LEMMA JoinMore ==
    ASSUME NEW lists, NEW k \in Nat \ {0}, NEW f, Joins(lists, f, k), NEW x, x = f[k] \o lists[k + 1]
    PROVE  \E g : Joins(lists, g, k + 1) /\ g[k + 1] = x
<1>1. PICK g : g = [i \in 1 .. k + 1 |-> IF i = k + 1 THEN x ELSE f[i]]
  OBVIOUS
<1>2. \A i \in 1 .. k : g[i] = f[i]
  BY <1>1
<1>3. g[k + 1] = x /\ g[k] = f[k]
  <2>1. k + 1 \in 1 .. k + 1 /\ k \in 1 .. k
    OBVIOUS
  <2> QED
    BY <1>1, <1>2, <2>1
<1>4. \A i \in 1 .. k : f[i] = IF i = 1 THEN lists[i] ELSE f[i - 1] \o lists[i]
  BY DEF Joins
<1>5. ASSUME NEW i \in 1 .. k + 1
      PROVE  g[i] = IF i = 1 THEN lists[i] ELSE g[i - 1] \o lists[i]
  <2>1. CASE i = k + 1
    <3>1. i # 1 /\ i - 1 = k
      BY <2>1
    <3> QED
      BY <1>3, <2>1, <3>1
  <2>2. CASE i # k + 1 /\ i # 1
    <3>1. i \in 1 .. k /\ i - 1 \in 1 .. k
      BY <2>2
    <3> QED
      BY <1>2, <1>4, <2>2, <3>1
  <2>3. CASE i # k + 1 /\ i = 1
    <3>1. i \in 1 .. k
      BY <2>3
    <3> QED
      BY <1>2, <1>4, <2>3, <3>1
  <2> QED
    BY <2>1, <2>2, <2>3
<1>6. g = [i \in 1 .. k + 1 |-> g[i]]
  BY <1>1
<1>7. Joins(lists, g, k + 1)
  BY <1>5, <1>6 DEF Joins
<1> QED
  BY <1>3, <1>7

LEMMA JoinAll ==
    ASSUME NEW lists, NEW n \in Nat \ {0}
    PROVE  \E f : Joins(lists, f, n)
<1> DEFINE S == {k \in 0 .. n : k = 0 \/ \E f : Joins(lists, f, k)}
<1>1. 0 \in S
  OBVIOUS
<1>2. ASSUME NEW k \in 0 .. n - 1, k \in S PROVE k + 1 \in S
  <2>1. k + 1 \in 0 .. n /\ k \in Nat
    OBVIOUS
  <2>2. CASE k = 0
    <3>1. PICK f : f = [i \in 1 .. 1 |-> lists[1]]
      OBVIOUS
    <3>2. f = [i \in 1 .. 1 |-> IF i = 1 THEN lists[i] ELSE f[i - 1] \o lists[i]]
      BY <3>1
    <3>3. \E g : Joins(lists, g, 1)
      BY <3>2 DEF Joins
    <3>4. k + 1 = 1
      BY <2>2
    <3> QED
      BY <2>1, <3>3, <3>4
  <2>3. CASE k # 0
    <3>1. PICK f : Joins(lists, f, k)
      BY <1>2, <2>3
    <3>2. PICK x : x = f[k] \o lists[k + 1]
      OBVIOUS
    <3>3. \E g : Joins(lists, g, k + 1)
      BY <2>1, <2>3, <3>1, <3>2, JoinMore
    <3> QED
      BY <2>1, <3>3
  <2> QED
    BY <2>2, <2>3
<1>3. \A i \in 0 .. n : i \in S
  <2> HIDE DEF S
  <2> QED
    BY <1>1, <1>2, Climbs
<1> QED
  BY <1>3

Collected(lists, k) == UNION {ToSet(lists[i]) : i \in 1 .. k}
LEMMA FlattenFacts ==
    ASSUME NEW lists, IsList(lists), \A i \in DOMAIN lists : IsList(lists[i])
    PROVE  /\ IsList(FlattenSeq(lists))
           /\ \A x : x \in ToSet(FlattenSeq(lists)) <=> \E i \in DOMAIN lists : x \in ToSet(lists[i])
<1> DEFINE n == Len(lists)
<1>1. n \in Nat /\ DOMAIN lists = 1 .. n
  BY ListFacts
<1>2. ASSUME IsList(FlattenSeq(lists)), ToSet(FlattenSeq(lists)) = Collected(lists, n)
      PROVE  \A x : x \in ToSet(FlattenSeq(lists)) <=> \E i \in DOMAIN lists : x \in ToSet(lists[i])
  BY <1>1, <1>2 DEF Collected
<1>3. CASE n = 0
  <2>1. FlattenSeq(lists) = lists /\ DOMAIN lists = {}
    BY <1>1, <1>3 DEF FlattenSeq
  <2> QED
    BY <2>1 DEF ToSet
<1>4. CASE n # 0
  <2>1. PICK h : h = CHOOSE f : Joins(lists, f, n)
    OBVIOUS
  <2>2. Joins(lists, h, n)
    BY <1>1, <1>4, <2>1, JoinAll
  <2>3. FlattenSeq(lists) = h[n]
    BY <1>4, <2>1 DEF FlattenSeq, Joins
  <2> DEFINE S == {k \in 0 .. n : k = 0 \/ (IsList(h[k]) /\ ToSet(h[k]) = Collected(lists, k))}
  <2>4. 0 \in S
    BY <1>1
  <2>5. ASSUME NEW k \in 0 .. n - 1, k \in S PROVE k + 1 \in S
    <3>1. k + 1 \in 1 .. n /\ k + 1 \in 0 .. n
      BY <1>1
    <3>2. h[k + 1] = IF k + 1 = 1 THEN lists[k + 1] ELSE h[(k + 1) - 1] \o lists[k + 1]
      BY <2>2, <3>1 DEF Joins
    <3>3. CASE k = 0
      <4>1. h[k + 1] = lists[k + 1]
        BY <3>2, <3>3
      <4>2. Collected(lists, k + 1) = ToSet(lists[k + 1])
        BY <3>3 DEF Collected
      <4> QED
        BY <1>1, <3>1, <4>1, <4>2
    <3>4. CASE k # 0
      <4>1. k + 1 # 1 /\ (k + 1) - 1 = k
        BY <1>1, <3>4
      <4>2. h[k + 1] = h[k] \o lists[k + 1]
        BY <3>2, <4>1
      <4>3. IsList(h[k]) /\ IsList(lists[k + 1]) /\ ToSet(h[k]) = Collected(lists, k)
        BY <1>1, <2>5, <3>1, <3>4
      <4>4. Collected(lists, k + 1) = Collected(lists, k) \cup ToSet(lists[k + 1])
        <5>1. \A i : i \in 1 .. k + 1 <=> (i \in 1 .. k \/ i = k + 1)
          BY <1>1
        <5> QED
          BY <5>1 DEF Collected
      <4>5. IsList(h[k + 1]) /\ ToSet(h[k + 1]) = Collected(lists, k + 1)
        BY <4>2, <4>3, <4>4, ConcatFacts
      <4> QED
        BY <3>1, <4>5
    <3> QED
      BY <3>3, <3>4
  <2>6. \A i \in 0 .. n : i \in S
    <3> HIDE DEF S, n
    <3> QED
      BY <1>1, <2>4, <2>5, Climbs
  <2>7. IsList(h[n]) /\ ToSet(h[n]) = Collected(lists, n)
    BY <1>1, <1>4, <2>6
  <2> QED
    BY <1>2, <2>3, <2>7
<1> QED
  BY <1>3, <1>4
-----------------------------------------------------------------------------
(* What the checker remembers while it goes on.                            *)
IsChecker(c) ==
    /\ c = [env |-> c.env, used |-> c.used, snapshots |-> c.snapshots,
            selections |-> c.selections, consumed |-> c.consumed,
            diagnostics |-> c.diagnostics, types |-> c.types]
    /\ IsList(c.diagnostics)
    /\ c.snapshots \in Nat /\ c.selections \in Nat
    /\ IsFiniteSet(c.used)
Extends(c, d) ==
    /\ IsChecker(d)
    /\ ToSet(c.diagnostics) \subseteq ToSet(d.diagnostics)
    /\ c.used \subseteq d.used /\ c.consumed \subseteq d.consumed
    /\ c.snapshots <= d.snapshots

LEMMA ExtendsFurther ==
    ASSUME NEW b, IsChecker(b), NEW c, Extends(b, c), NEW d, Extends(c, d)
    PROVE  Extends(b, d)
<1>1. b.snapshots \in Nat /\ c.snapshots \in Nat /\ d.snapshots \in Nat
  BY DEF Extends, IsChecker
<1>2. b.snapshots <= d.snapshots
  BY <1>1 DEF Extends
<1> QED
  BY <1>2 DEF Extends

LEMMA ReportedFacts ==
    ASSUME NEW c, IsChecker(c), NEW codes, IsList(codes)
    PROVE  LET d == Reported(c, codes) IN
           /\ Extends(c, d) /\ d.env = c.env /\ d.used = c.used /\ d.snapshots = c.snapshots
           /\ d.selections = c.selections /\ d.consumed = c.consumed
           /\ ToSet(codes) \subseteq ToSet(d.diagnostics)
<1>1. PICK told : told = c.diagnostics \o codes
  OBVIOUS
<1>2. IsList(told) /\ ToSet(told) = ToSet(c.diagnostics) \cup ToSet(codes)
  BY <1>1, ConcatFacts DEF IsChecker
<1>3. PICK d : d = [c EXCEPT !.diagnostics = told]
  OBVIOUS
<1>4. Reported(c, codes) = d
  BY <1>1, <1>3 DEF Reported
<1>5. /\ d = [env |-> d.env, used |-> d.used, snapshots |-> d.snapshots,
              selections |-> d.selections, consumed |-> d.consumed,
              diagnostics |-> d.diagnostics, types |-> d.types]
      /\ d.diagnostics = told /\ d.env = c.env /\ d.used = c.used /\ d.snapshots = c.snapshots
      /\ d.selections = c.selections /\ d.consumed = c.consumed
  BY <1>3 DEF IsChecker
<1>6. c.snapshots <= d.snapshots /\ d.snapshots \in Nat
  BY <1>5 DEF IsChecker
<1> QED
  BY <1>2, <1>4, <1>5, <1>6 DEF Extends, IsChecker

(* The expressions the checker may meet.                                   *)
Worded(e) == e.op \in Operations /\ (e.op = "call" => IsList(e.args))

Readable(c, name) == name \in DOMAIN c.env /\ c.env[name].selection \notin c.consumed
LEMMA ReadFacts ==
    ASSUME NEW c, NEW name
    PROVE  /\ IsList(ReadErrors(c, name))
           /\ name \notin DOMAIN c.env => "F3004" \in ToSet(ReadErrors(c, name))
           /\ ToSet(ReadErrors(c, name)) = {} => Readable(c, name)
<1>1. PICK a : a = Flag("F3004", name \notin DOMAIN c.env)
  OBVIOUS
<1>2. PICK b : b = Flag("F3400", Lookup(c, name).selection \in c.consumed)
  OBVIOUS
<1>3. /\ IsList(a) /\ (name \notin DOMAIN c.env => "F3004" \in ToSet(a))
      /\ IsList(b) /\ (Lookup(c, name).selection \in c.consumed => "F3400" \in ToSet(b))
  BY <1>1, <1>2, FlagFacts
<1>4. ReadErrors(c, name) = a \o b
  BY <1>1, <1>2 DEF ReadErrors
<1>5. IsList(a \o b) /\ ToSet(a \o b) = ToSet(a) \cup ToSet(b)
  BY <1>3, ConcatFacts
<1> QED
  BY <1>3, <1>4, <1>5 DEF Readable, Lookup

LEMMA FiveLists ==
    ASSUME NEW a, NEW b, NEW c, NEW d, NEW e,
           IsList(a), IsList(b), IsList(c), IsList(d), IsList(e)
    PROVE  /\ IsList((((a \o b) \o c) \o d) \o e)
           /\ ToSet((((a \o b) \o c) \o d) \o e)
                = ToSet(a) \cup ToSet(b) \cup ToSet(c) \cup ToSet(d) \cup ToSet(e)
<1>1. PICK x : x = a \o b
  OBVIOUS
<1>2. PICK y : y = x \o c
  OBVIOUS
<1>3. PICK z : z = y \o d
  OBVIOUS
<1>4. IsList(x) /\ ToSet(x) = ToSet(a) \cup ToSet(b)
  BY <1>1, ConcatFacts
<1>5. IsList(y) /\ ToSet(y) = ToSet(x) \cup ToSet(c)
  BY <1>2, <1>4, ConcatFacts
<1>6. IsList(z) /\ ToSet(z) = ToSet(y) \cup ToSet(d)
  BY <1>3, <1>5, ConcatFacts
<1>7. IsList(z \o e) /\ ToSet(z \o e) = ToSet(z) \cup ToSet(e)
  BY <1>6, ConcatFacts
<1> QED
  BY <1>1, <1>2, <1>3, <1>4, <1>5, <1>6, <1>7

LEMMA ProposeFacts ==
    ASSUME NEW c, NEW e
    PROVE  /\ IsList(ProposeErrors(c, e))
           /\ e.model # Planner => "F3006" \in ToSet(ProposeErrors(c, e))
           /\ e.base \notin DOMAIN c.env => "F3004" \in ToSet(ProposeErrors(c, e))
           /\ ToSet(ProposeErrors(c, e)) = {} =>
                 /\ Readable(c, e.base) /\ Lookup(c, e.base).kind = "snapshot"
                 /\ e.limit \in 1 .. 4
<1>1. PICK a : a = Flag("F3006", e.model # Planner)
  OBVIOUS
<1>2. PICK b : b = ReadErrors(c, e.base)
  OBVIOUS
<1>3. PICK d : d = Flag("F3206", Lookup(c, e.base).kind # "snapshot")
  OBVIOUS
<1>4. PICK f : f = Flag("F3208", e.type # "Patch")
  OBVIOUS
<1>5. PICK g : g = Flag("F3208", e.limit \notin 1..4)
  OBVIOUS
<1>6. IsList(a) /\ IsList(b) /\ IsList(d) /\ IsList(f) /\ IsList(g)
  BY <1>1, <1>2, <1>3, <1>4, <1>5, FlagFacts, ReadFacts
<1>7. ProposeErrors(c, e) = (((a \o b) \o d) \o f) \o g
  BY <1>1, <1>2, <1>3, <1>4, <1>5 DEF ProposeErrors
<1>8. /\ IsList((((a \o b) \o d) \o f) \o g)
      /\ ToSet(a) \cup ToSet(b) \cup ToSet(d) \cup ToSet(f) \cup ToSet(g)
           = ToSet((((a \o b) \o d) \o f) \o g)
  BY <1>6, FiveLists
<1>9. e.model # Planner => "F3006" \in ToSet(a)
  BY <1>1, FlagFacts
<1>10. e.base \notin DOMAIN c.env => "F3004" \in ToSet(b)
  BY <1>2, ReadFacts
<1>11. /\ ToSet(b) = {} => Readable(c, e.base)
       /\ ToSet(d) = {} => Lookup(c, e.base).kind = "snapshot"
       /\ ToSet(g) = {} => e.limit \in 1 .. 4
  <2>1. ToSet(b) = {} => Readable(c, e.base)
    BY <1>2, ReadFacts
  <2>2. ToSet(d) = {} => Lookup(c, e.base).kind = "snapshot"
    BY <1>3, FlagFacts
  <2>3. ToSet(g) = {} => e.limit \in 1 .. 4
    BY <1>5, FlagFacts
  <2> QED
    BY <2>1, <2>2, <2>3
<1> QED
  BY <1>7, <1>8, <1>9, <1>10, <1>11

LEMMA ExploreFacts ==
    ASSUME NEW c, NEW e
    PROVE  /\ IsList(ExploreErrors(c, e))
           /\ {e.plans, e.base} \subseteq DOMAIN c.env \/ "F3004" \in ToSet(ExploreErrors(c, e))
           /\ \/ Explorable(Lookup(c, e.plans), Lookup(c, e.base))
              \/ "F3101" \in ToSet(ExploreErrors(c, e))
           /\ \/ SameOrigin(Lookup(c, e.plans), Lookup(c, e.base))
              \/ "F3301" \in ToSet(ExploreErrors(c, e))
           /\ ToSet(ExploreErrors(c, e)) = {} =>
                 /\ SimulatesOnce(e.body)
                 /\ Readable(c, e.plans) /\ Readable(c, e.base)
<1>1. PICK a : a = Flag("F3401", ~SimulatesOnce(e.body))
  OBVIOUS
<1>2. PICK b : b = ReadErrors(c, e.plans)
  OBVIOUS
<1>3. PICK d : d = ReadErrors(c, e.base)
  OBVIOUS
<1>4. PICK f : f = Flag("F3101", ~Explorable(Lookup(c, e.plans), Lookup(c, e.base)))
  OBVIOUS
<1>5. PICK g : g = Flag("F3301", ~SameOrigin(Lookup(c, e.plans), Lookup(c, e.base)))
  OBVIOUS
<1>6. PICK h : h = Flag("F3204", Item \in DOMAIN c.env)
  OBVIOUS
<1>7. IsList(a) /\ IsList(b) /\ IsList(d) /\ IsList(f) /\ IsList(g) /\ IsList(h)
  BY <1>1, <1>2, <1>3, <1>4, <1>5, <1>6, FlagFacts, ReadFacts
<1>8. PICK first : first = (((a \o b) \o d) \o f) \o g
  OBVIOUS
<1>9. ExploreErrors(c, e) = first \o h
  BY <1>1, <1>2, <1>3, <1>4, <1>5, <1>6, <1>8 DEF ExploreErrors
<1>10. IsList(first) /\ ToSet(first) = ToSet(a) \cup ToSet(b) \cup ToSet(d) \cup ToSet(f) \cup ToSet(g)
  BY <1>7, <1>8, FiveLists
<1>11. IsList(first \o h) /\ ToSet(first) \subseteq ToSet(first \o h)
  BY <1>7, <1>10, ConcatFacts
<1>12. {e.plans, e.base} \subseteq DOMAIN c.env \/ "F3004" \in ToSet(b) \cup ToSet(d)
  BY <1>2, <1>3, ReadFacts
<1>13. Explorable(Lookup(c, e.plans), Lookup(c, e.base)) \/ "F3101" \in ToSet(f)
  BY <1>4, FlagFacts
<1>14. SameOrigin(Lookup(c, e.plans), Lookup(c, e.base)) \/ "F3301" \in ToSet(g)
  BY <1>5, FlagFacts
<1>15. /\ ToSet(a) = {} => SimulatesOnce(e.body)
       /\ ToSet(b) = {} => Readable(c, e.plans)
       /\ ToSet(d) = {} => Readable(c, e.base)
  <2>1. ToSet(a) = {} => SimulatesOnce(e.body)
    BY <1>1, FlagFacts
  <2> QED
    BY <1>2, <1>3, <2>1, ReadFacts
<1> QED
  BY <1>15, <1>9, <1>10, <1>11, <1>12, <1>13, <1>14

LEMMA SimulateFacts ==
    ASSUME NEW c, NEW e, NEW branch
    PROVE  /\ IsList(SimulateErrors(c, e, branch))
           /\ ToSet(SimulateErrors(c, e, branch)) = {} =>
                 /\ branch # NoBranch /\ e.method = "apply"
                 /\ Readable(c, e.plan) /\ Lookup(c, e.plan).kind = "plan"
<1>1. PICK a : a = Flag("F3103", branch = NoBranch)
  OBVIOUS
<1>2. PICK b : b = Flag("F3104", branch # NoBranch /\ e.resource # branch.resource)
  OBVIOUS
<1>3. PICK d : d = Flag("F3210", e.method # "apply" \/ e.resource # Catalog)
  OBVIOUS
<1>4. PICK f : f = ReadErrors(c, e.plan)
  OBVIOUS
<1>5. PICK g : g = Flag("F3206", Lookup(c, e.plan).kind # "plan")
  OBVIOUS
<1>6. PICK h : h = Flag("F3301", branch # NoBranch /\ ~SameOrigin(Lookup(c, e.plan), branch.base))
  OBVIOUS
<1>7. IsList(a) /\ IsList(b) /\ IsList(d) /\ IsList(f) /\ IsList(g) /\ IsList(h)
  BY <1>1, <1>2, <1>3, <1>4, <1>5, <1>6, FlagFacts, ReadFacts
<1>8. SimulateErrors(c, e, branch) = ((((a \o b) \o d) \o f) \o g) \o h
  BY <1>1, <1>2, <1>3, <1>4, <1>5, <1>6 DEF SimulateErrors
<1>9. PICK first : first = (((a \o b) \o d) \o f) \o g
  OBVIOUS
<1>10. IsList(first) /\ ToSet(first) = ToSet(a) \cup ToSet(b) \cup ToSet(d) \cup ToSet(f) \cup ToSet(g)
  BY <1>7, <1>9, FiveLists
<1>11. IsList(first \o h) /\ ToSet(first) \subseteq ToSet(first \o h)
  BY <1>7, <1>10, ConcatFacts
<1>12. /\ ToSet(a) = {} => branch # NoBranch
       /\ ToSet(d) = {} => e.method = "apply"
       /\ ToSet(f) = {} => Readable(c, e.plan)
       /\ ToSet(g) = {} => Lookup(c, e.plan).kind = "plan"
  <2>1. ToSet(a) = {} => branch # NoBranch
    BY <1>1, FlagFacts
  <2>2. ToSet(d) = {} => e.method = "apply"
    BY <1>3, FlagFacts
  <2>3. ToSet(f) = {} => Readable(c, e.plan)
    BY <1>4, ReadFacts
  <2>4. ToSet(g) = {} => Lookup(c, e.plan).kind = "plan"
    BY <1>5, FlagFacts
  <2> QED
    BY <2>1, <2>2, <2>3, <2>4
<1> QED
  BY <1>8, <1>9, <1>10, <1>11, <1>12

LEMMA CallFacts ==
    ASSUME NEW c, NEW e, IsList(e.args), NEW branch
    PROVE  /\ IsList(CallErrors(c, e, branch))
           /\ ToSet(CallErrors(c, e, branch)) = {} =>
                 /\ Offered(e) /\ Len(e.args) = Arity[e.method]
                 /\ \A i \in DOMAIN e.args :
                       Readable(c, e.args[i]) /\ Lookup(c, e.args[i]).kind \in States
<1> DEFINE args == [i \in DOMAIN e.args |-> Lookup(c, e.args[i])]
           reads == [i \in DOMAIN args |-> ReadErrors(c, e.args[i])]
           origins == [i \in DOMAIN args |-> ArgumentErrors(c, e, branch, args[i])]
<1>1. /\ DOMAIN reads = 1 .. Len(e.args) /\ DOMAIN origins = 1 .. Len(e.args)
      /\ Len(e.args) \in Nat
  BY ListFacts
<1>2. ASSUME NEW list, DOMAIN list = 1 .. Len(e.args), list = [i \in DOMAIN list |-> list[i]]
      PROVE  IsList(list)
  BY <1>1, <1>2 DEF IsList, ToSet
<1>3. IsList(reads) /\ IsList(origins)
  BY <1>1, <1>2
<1>4. \A i \in DOMAIN reads : IsList(reads[i])
  BY ReadFacts
<1>5. \A i \in DOMAIN origins : IsList(origins[i])
  <2>1. ASSUME NEW arg PROVE IsList(ArgumentErrors(c, e, branch, arg))
    BY FlagFacts, ConcatFacts DEF ArgumentErrors
  <2> QED
    BY <2>1
<1>6. /\ IsList(FlattenSeq(reads)) /\ IsList(FlattenSeq(origins))
      /\ ToSet(FlattenSeq(reads)) = {} => \A i \in DOMAIN reads : ToSet(reads[i]) = {}
  <2> HIDE DEF reads, origins
  <2> QED
    BY <1>3, <1>4, <1>5, FlattenFacts
<1>7. ToSet(FlattenSeq(reads)) = {} => \A i \in DOMAIN e.args : Readable(c, e.args[i])
  <2>1. \A i \in DOMAIN e.args : i \in DOMAIN reads /\ reads[i] = ReadErrors(c, e.args[i])
    OBVIOUS
  <2> HIDE DEF reads
  <2> QED
    BY <1>6, <2>1, ReadFacts
<1>8. CASE Offered(e)
  <2> DEFINE unfit == \/ Len(e.args) # Arity[e.method]
                      \/ \E i \in DOMAIN args : ~Accepts(States, args[i])
  <2>1. PICK f : f = Flag("F3206", unfit)
    OBVIOUS
  <2>2. CallErrors(c, e, branch) = (FlattenSeq(reads) \o f) \o FlattenSeq(origins)
    BY <1>8, <2>1 DEF CallErrors
  <2>3. ~unfit => /\ Len(e.args) = Arity[e.method]
                  /\ \A i \in DOMAIN e.args : Lookup(c, e.args[i]).kind \in States
    BY DEF Accepts
  <2> HIDE DEF reads, origins, unfit
  <2>4. IsList(f) /\ (unfit => "F3206" \in ToSet(f))
    BY <2>1, FlagFacts
  <2>5. PICK x : x = FlattenSeq(reads) \o f
    OBVIOUS
  <2>6. IsList(x) /\ ToSet(x) = ToSet(FlattenSeq(reads)) \cup ToSet(f)
    BY <1>6, <2>4, <2>5, ConcatFacts
  <2>7. PICK y : y = x \o FlattenSeq(origins)
    OBVIOUS
  <2>8. IsList(y) /\ ToSet(x) \subseteq ToSet(y)
    BY <1>6, <2>6, <2>7, ConcatFacts
  <2>9. CallErrors(c, e, branch) = y
    BY <2>2, <2>5, <2>7
  <2> QED
    BY <1>8, <1>7, <2>3, <2>4, <2>6, <2>8, <2>9
<1>9. CASE ~Offered(e)
  <2>1. CallErrors(c, e, branch) = <<"F3210">>
    BY <1>9 DEF CallErrors
  <2>2. 1 \in DOMAIN <<"F3210">>
    OBVIOUS
  <2> QED
    BY <2>1, <2>2 DEF IsList, ToSet
<1> QED
  BY <1>8, <1>9

LEMMA SelectFacts ==
    ASSUME NEW c, NEW e
    PROVE  /\ IsList(SelectErrors(c, e))
           /\ ToSet(SelectErrors(c, e)) = {} =>
                 /\ Readable(c, e.trials) /\ Lookup(c, e.trials).kind = "trials"
                 /\ e.metric \in ToSet(Lookup(c, e.trials).metrics)
<1>1. PICK a : a = ReadErrors(c, e.trials)
  OBVIOUS
<1>2. PICK trials : trials = Lookup(c, e.trials)
  OBVIOUS
<1>3. PICK b : b = Flag("F3105", trials.kind # "trials")
  OBVIOUS
<1>4. PICK d : d = Flag("F3106", trials.kind = "trials" /\ e.metric \notin ToSet(trials.metrics))
  OBVIOUS
<1>5. IsList(a) /\ IsList(b) /\ IsList(d)
  BY <1>1, <1>3, <1>4, FlagFacts, ReadFacts
<1>6. PICK x : x = a \o b
  OBVIOUS
<1>7. IsList(x) /\ ToSet(x) = ToSet(a) \cup ToSet(b)
  BY <1>5, <1>6, ConcatFacts
<1>8. IsList(x \o d) /\ ToSet(x \o d) = ToSet(x) \cup ToSet(d)
  BY <1>5, <1>7, ConcatFacts
<1>9. SelectErrors(c, e) = x \o d
  BY <1>1, <1>2, <1>3, <1>4, <1>6 DEF SelectErrors
<1>10. ToSet(a) = {} => Readable(c, e.trials)
  BY <1>1, ReadFacts
<1>11. ToSet(b) = {} => trials.kind = "trials"
  BY <1>3, FlagFacts
<1>12. ToSet(d) = {} => (trials.kind = "trials" => e.metric \in ToSet(trials.metrics))
  BY <1>4, FlagFacts
<1> QED
  BY <1>2, <1>7, <1>8, <1>9, <1>10, <1>11, <1>12

LEMMA CommitFacts ==
    ASSUME NEW c, NEW e, NEW branch
    PROVE  /\ IsList(CommitErrors(c, e, branch))
           /\ ToSet(CommitErrors(c, e, branch)) = {} =>
                 /\ Readable(c, e.selected) /\ Lookup(c, e.selected).kind = "selected"
                 /\ Lookup(c, e.selected).resource = e.resource
<1>1. PICK a : a = Flag("F3102", branch # NoBranch)
  OBVIOUS
<1>2. PICK b : b = ReadErrors(c, e.selected)
  OBVIOUS
<1>3. PICK selected : selected = Lookup(c, e.selected)
  OBVIOUS
<1>4. PICK d : d = Flag("F3107", selected.kind # "selected" \/ selected.resource # e.resource)
  OBVIOUS
<1>5. IsList(a) /\ IsList(b) /\ IsList(d)
  BY <1>1, <1>2, <1>4, FlagFacts, ReadFacts
<1>6. PICK x : x = a \o b
  OBVIOUS
<1>7. IsList(x) /\ ToSet(x) = ToSet(a) \cup ToSet(b)
  BY <1>5, <1>6, ConcatFacts
<1>8. IsList(x \o d) /\ ToSet(x \o d) = ToSet(x) \cup ToSet(d)
  BY <1>5, <1>7, ConcatFacts
<1>9. CommitErrors(c, e, branch) = x \o d
  BY <1>1, <1>2, <1>3, <1>4, <1>6 DEF CommitErrors
<1>10. ToSet(b) = {} => Readable(c, e.selected)
  BY <1>2, ReadFacts
<1>11. ToSet(d) = {} => (selected.kind = "selected" /\ selected.resource = e.resource)
  BY <1>4, FlagFacts
<1> QED
  BY <1>3, <1>7, <1>8, <1>9, <1>10, <1>11

(* What it means that nothing is reported of an expression.                *)
Correct(c, e, branch) ==
    /\ branch # NoBranch => e.op \notin BranchForbidden
    /\ e.op = "var" => Readable(c, e.name)
    /\ e.op = "snapshot" => e.resource = Catalog
    /\ e.op = "propose" =>
          /\ Readable(c, e.base) /\ Lookup(c, e.base).kind = "snapshot"
          /\ e.limit \in 1 .. 4
    /\ e.op = "explore" =>
          /\ SimulatesOnce(e.body)
          /\ Readable(c, e.plans) /\ Readable(c, e.base)
          /\ Explorable(Lookup(c, e.plans), Lookup(c, e.base))
    /\ e.op = "simulate" =>
          /\ branch # NoBranch /\ e.method = "apply"
          /\ Readable(c, e.plan) /\ Lookup(c, e.plan).kind = "plan"
    /\ e.op = "call" =>
          /\ Offered(e) /\ Len(e.args) = Arity[e.method]
          /\ \A i \in DOMAIN e.args :
                Readable(c, e.args[i]) /\ Lookup(c, e.args[i]).kind \in States
    /\ e.op = "select" =>
          /\ Readable(c, e.trials) /\ Lookup(c, e.trials).kind = "trials"
          /\ e.metric \in ToSet(Lookup(c, e.trials).metrics)
    /\ e.op = "commit" =>
          /\ Readable(c, e.selected) /\ Lookup(c, e.selected).kind = "selected"
          /\ Lookup(c, e.selected).resource = e.resource
(* An expression at the top that is reported like this is not accepted.    *)
Flagged(c, e, code) ==
    \/ code = "F3004" /\ e.op = "var" /\ e.name \notin DOMAIN c.env
    \/ code = "F3005" /\ e.op = "snapshot" /\ e.resource # Catalog
    \/ code = "F3006" /\ e.op = "propose" /\ e.model # Planner
    \/ code = "F3004" /\ e.op = "propose" /\ e.base \notin DOMAIN c.env
    \/ code = "F3004" /\ e.op = "explore" /\ ~({e.plans, e.base} \subseteq DOMAIN c.env)
    \/ code = "F3101" /\ e.op = "explore" /\ ~Explorable(Lookup(c, e.plans), Lookup(c, e.base))
    \/ code = "F3301" /\ e.op = "explore" /\ ~SameOrigin(Lookup(c, e.plans), Lookup(c, e.base))

LEMMA ErrorsFacts ==
    ASSUME NEW c, NEW e, Worded(e), NEW branch
    PROVE  /\ IsList(ErrorsOf(c, e, branch))
           /\ \A code : Flagged(c, e, code) => code \in ToSet(ErrorsOf(c, e, branch))
           /\ ToSet(ErrorsOf(c, e, branch)) = {} => Correct(c, e, branch)
<1> DEFINE allowed == branch # NoBranch => e.op \notin BranchForbidden
<1>1. ASSUME NEW errors, IsList(errors), ErrorsOf(c, e, branch) = ForbiddenErrors(e, branch) \o errors,
             \A code : Flagged(c, e, code) => code \in ToSet(errors),
             ToSet(errors) = {} => (allowed => Correct(c, e, branch))
      PROVE  /\ IsList(ErrorsOf(c, e, branch))
             /\ \A code : Flagged(c, e, code) => code \in ToSet(ErrorsOf(c, e, branch))
             /\ ToSet(ErrorsOf(c, e, branch)) = {} => Correct(c, e, branch)
  <2>1. PICK code : code = IF e.op = "commit" THEN "F3102" ELSE "F3207"
    OBVIOUS
  <2>2. PICK forbidden : forbidden = ForbiddenErrors(e, branch)
    OBVIOUS
  <2>3. forbidden = Flag(code, branch # NoBranch /\ e.op \in BranchForbidden)
    BY <2>1, <2>2 DEF ForbiddenErrors
  <2>4. IsList(forbidden) /\ (~allowed => code \in ToSet(forbidden))
    BY <2>3, FlagFacts
  <2>5. /\ IsList(forbidden \o errors)
        /\ ToSet(forbidden \o errors) = ToSet(forbidden) \cup ToSet(errors)
    BY <1>1, <2>4, ConcatFacts
  <2> QED
    BY <1>1, <2>2, <2>4, <2>5
<1>2. CASE e.op = "var"
  <2>1. ErrorsOf(c, e, branch) = ForbiddenErrors(e, branch) \o ReadErrors(c, e.name)
    BY <1>2 DEF ErrorsOf
  <2>2. \A code : Flagged(c, e, code) => code \in ToSet(ReadErrors(c, e.name))
    BY <1>2, ReadFacts DEF Flagged
  <2>3. ToSet(ReadErrors(c, e.name)) = {} => (allowed => Correct(c, e, branch))
    BY <1>2, ReadFacts DEF Correct
  <2> HIDE DEF allowed
  <2> QED
    BY <1>1, <2>1, <2>2, <2>3, ReadFacts
<1>3. CASE e.op = "snapshot"
  <2>1. PICK errors : errors = Flag("F3005", e.resource # Catalog)
    OBVIOUS
  <2>2. ErrorsOf(c, e, branch) = ForbiddenErrors(e, branch) \o errors
    BY <1>3, <2>1 DEF ErrorsOf
  <2>3. e.resource # Catalog => "F3005" \in ToSet(errors)
    BY <2>1, FlagFacts
  <2>4. \A code : Flagged(c, e, code) => code \in ToSet(errors)
    BY <1>3, <2>3 DEF Flagged
  <2>5. ToSet(errors) = {} => (allowed => Correct(c, e, branch))
    BY <1>3, <2>3 DEF Correct
  <2> HIDE DEF allowed
  <2> QED
    BY <1>1, <2>1, <2>2, <2>4, <2>5, FlagFacts
<1>4. CASE e.op = "propose"
  <2>1. ErrorsOf(c, e, branch) = ForbiddenErrors(e, branch) \o ProposeErrors(c, e)
    BY <1>4 DEF ErrorsOf
  <2>2. \A code : Flagged(c, e, code) => code \in ToSet(ProposeErrors(c, e))
    BY <1>4, ProposeFacts DEF Flagged
  <2>3. ToSet(ProposeErrors(c, e)) = {} => (allowed => Correct(c, e, branch))
    BY <1>4, ProposeFacts DEF Correct
  <2> HIDE DEF allowed
  <2> QED
    BY <1>1, <2>1, <2>2, <2>3, ProposeFacts
<1>5. CASE e.op = "explore"
  <2>1. ErrorsOf(c, e, branch) = ForbiddenErrors(e, branch) \o ExploreErrors(c, e)
    BY <1>5 DEF ErrorsOf
  <2>2. \A code : Flagged(c, e, code) => code \in ToSet(ExploreErrors(c, e))
    BY <1>5, ExploreFacts DEF Flagged
  <2>3. ToSet(ExploreErrors(c, e)) = {} => (allowed => Correct(c, e, branch))
    <3>1. ToSet(ExploreErrors(c, e)) = {} => Explorable(Lookup(c, e.plans), Lookup(c, e.base))
      BY ExploreFacts
    <3>2. ToSet(ExploreErrors(c, e)) = {} =>
             SimulatesOnce(e.body) /\ Readable(c, e.plans) /\ Readable(c, e.base)
      BY ExploreFacts
    <3> QED
      BY <1>5, <3>1, <3>2 DEF Correct
  <2> HIDE DEF allowed
  <2> QED
    BY <1>1, <2>1, <2>2, <2>3, ExploreFacts
<1>6. CASE e.op = "simulate"
  <2>1. ErrorsOf(c, e, branch) = ForbiddenErrors(e, branch) \o SimulateErrors(c, e, branch)
    BY <1>6 DEF ErrorsOf
  <2>2. \A code : ~Flagged(c, e, code)
    BY <1>6 DEF Flagged
  <2>3. ToSet(SimulateErrors(c, e, branch)) = {} => (allowed => Correct(c, e, branch))
    BY <1>6, SimulateFacts DEF Correct
  <2> HIDE DEF allowed
  <2> QED
    BY <1>1, <2>1, <2>2, <2>3, SimulateFacts
<1>7. CASE e.op = "call"
  <2>1. ErrorsOf(c, e, branch) = ForbiddenErrors(e, branch) \o CallErrors(c, e, branch)
    BY <1>7 DEF ErrorsOf
  <2>2. \A code : ~Flagged(c, e, code)
    BY <1>7 DEF Flagged
  <2>3. IsList(e.args)
    BY <1>7 DEF Worded
  <2>4. ToSet(CallErrors(c, e, branch)) = {} => (allowed => Correct(c, e, branch))
    BY <1>7, <2>3, CallFacts DEF Correct
  <2> HIDE DEF allowed
  <2> QED
    BY <1>1, <2>1, <2>2, <2>3, <2>4, CallFacts
<1>8. CASE e.op = "select"
  <2>1. ErrorsOf(c, e, branch) = ForbiddenErrors(e, branch) \o SelectErrors(c, e)
    BY <1>8 DEF ErrorsOf
  <2>2. \A code : ~Flagged(c, e, code)
    BY <1>8 DEF Flagged
  <2>3. ToSet(SelectErrors(c, e)) = {} => (allowed => Correct(c, e, branch))
    BY <1>8, SelectFacts DEF Correct
  <2> HIDE DEF allowed
  <2> QED
    BY <1>1, <2>1, <2>2, <2>3, SelectFacts
<1>9. CASE e.op = "commit"
  <2>1. ErrorsOf(c, e, branch) = ForbiddenErrors(e, branch) \o CommitErrors(c, e, branch)
    BY <1>9 DEF ErrorsOf
  <2>2. \A code : ~Flagged(c, e, code)
    BY <1>9 DEF Flagged
  <2>3. ToSet(CommitErrors(c, e, branch)) = {} => (allowed => Correct(c, e, branch))
    BY <1>9, CommitFacts DEF Correct
  <2> HIDE DEF allowed
  <2> QED
    BY <1>1, <2>1, <2>2, <2>3, CommitFacts
<1> QED
  BY <1>2, <1>3, <1>4, <1>5, <1>6, <1>7, <1>8, <1>9 DEF Worded, Operations

LEMMA EnteredFacts ==
    ASSUME NEW c, IsChecker(c), NEW s, NEW branch
    PROVE  LET d == Entered(c, s, branch) IN
           /\ Extends(c, d) /\ d.env = c.env /\ d.used = c.used /\ d.snapshots = c.snapshots
           /\ d.selections = c.selections /\ d.consumed = c.consumed
           /\ s.kind = "let" /\ s.name \in DOMAIN c.env => "F3003" \in ToSet(d.diagnostics)
<1>1. PICK a : a = Flag("F3204", s.kind = "let" /\ s.name \in Reserved)
  OBVIOUS
<1>2. PICK b : b = Flag("F3003", s.kind = "let" /\ s.name \in DOMAIN c.env)
  OBVIOUS
<1>3. PICK f : f = Flag("F3100", s.kind \in {"check", "measure"} /\ branch = NoBranch)
  OBVIOUS
<1>4. IsList(a) /\ IsList(b) /\ IsList(f)
  BY <1>1, <1>2, <1>3, FlagFacts
<1>5. PICK codes : codes = (a \o b) \o f
  OBVIOUS
<1>6. IsList(codes) /\ ToSet(b) \subseteq ToSet(codes)
  <2>1. IsList(a \o b) /\ ToSet(a \o b) = ToSet(a) \cup ToSet(b)
    BY <1>4, ConcatFacts
  <2> QED
    BY <1>4, <1>5, <2>1, ConcatFacts
<1>7. Entered(c, s, branch) = Reported(c, codes)
  BY <1>1, <1>2, <1>3, <1>5 DEF Entered
<1>8. s.kind = "let" /\ s.name \in DOMAIN c.env => "F3003" \in ToSet(b)
  BY <1>2, FlagFacts
<1> QED
  BY <1>6, <1>7, <1>8, ReportedFacts

LEMMA VisitedFacts ==
    ASSUME NEW c, IsChecker(c), NEW e, Worded(e), NEW branch
    PROVE  LET d == Visited(c, e, branch) IN
           /\ Extends(c, d) /\ d.env = c.env
           /\ EffectOf(c, e) \subseteq d.used /\ Consumes(c, e) \subseteq d.consumed
           /\ e.op = "snapshot" => d.snapshots = c.snapshots + 1
           /\ ToSet(ErrorsOf(c, e, branch)) \subseteq ToSet(d.diagnostics)
           /\ \A code : Flagged(c, e, code) => code \in ToSet(d.diagnostics)
<1>1. PICK told : told = c.diagnostics \o ErrorsOf(c, e, branch)
  OBVIOUS
<1>2. /\ IsList(told) /\ ToSet(told) = ToSet(c.diagnostics) \cup ToSet(ErrorsOf(c, e, branch))
  BY <1>1, ErrorsFacts, ConcatFacts DEF IsChecker
<1>3. PICK used : used = c.used \cup EffectOf(c, e)
  OBVIOUS
<1>4. PICK n : n = IF e.op = "snapshot" THEN c.snapshots + 1 ELSE c.snapshots
  OBVIOUS
<1>5. n \in Nat /\ c.snapshots <= n
  BY <1>4 DEF IsChecker
<1>6. IsFiniteSet(used)
  <2>1. PICK effects : effects = EffectOf(c, e)
    OBVIOUS
  <2>2. effects = {} \/ \E effect : effects = {effect}
    BY <2>1 DEF EffectOf
  <2>3. IsFiniteSet(effects)
    BY <2>2, FS_EmptySet, FS_Singleton
  <2> QED
    BY <1>3, <2>1, <2>3, FS_Union DEF IsChecker
<1>7. PICK selections : selections = IF e.op = "select" THEN c.selections + 1 ELSE c.selections
  OBVIOUS
<1>8. selections \in Nat
  BY <1>7 DEF IsChecker
<1>9. PICK consumed : consumed = c.consumed \cup Consumes(c, e)
  OBVIOUS
<1>10. PICK types :
         Visited(c, e, branch) =
           [c EXCEPT !.diagnostics = told, !.used = used, !.snapshots = n,
                     !.selections = selections, !.consumed = consumed, !.types = types]
  BY <1>1, <1>3, <1>4, <1>7, <1>9 DEF Visited
<1>11. PICK d : d = [c EXCEPT !.diagnostics = told, !.used = used, !.snapshots = n,
                             !.selections = selections, !.consumed = consumed, !.types = types]
  OBVIOUS
<1>12. /\ d = [env |-> d.env, used |-> d.used, snapshots |-> d.snapshots,
              selections |-> d.selections, consumed |-> d.consumed,
              diagnostics |-> d.diagnostics, types |-> d.types]
      /\ d.diagnostics = told /\ d.env = c.env /\ d.used = used /\ d.snapshots = n
      /\ d.selections = selections /\ d.consumed = consumed
  BY <1>11 DEF IsChecker
<1>13. Extends(c, d)
  BY <1>2, <1>3, <1>5, <1>12, <1>6, <1>8, <1>9 DEF Extends, IsChecker
<1>14. \A code : Flagged(c, e, code) => code \in ToSet(d.diagnostics)
  BY <1>2, <1>12, ErrorsFacts
<1>15. ToSet(ErrorsOf(c, e, branch)) \subseteq ToSet(d.diagnostics)
  BY <1>2, <1>12
<1> QED
  BY <1>3, <1>4, <1>10, <1>11, <1>12, <1>13, <1>14, <1>9, <1>15

LEMMA SettledFacts ==
    ASSUME NEW c, IsChecker(c), NEW s, s.kind \in Kinds, NEW type, NEW branch
    PROVE  LET d == Settled(c, s, type, branch) IN
           /\ Extends(c, d) /\ d.used = c.used /\ d.snapshots = c.snapshots
           /\ d.env = IF s.kind = "let" THEN Bind(c.env, s.name, type) ELSE c.env
<1>1. ASSUME NEW b, IsChecker(b), ToSet(b.diagnostics) = ToSet(c.diagnostics),
             b.used = c.used, b.snapshots = c.snapshots, b.consumed = c.consumed,
             NEW codes, IsList(codes),
             Settled(c, s, type, branch) = Reported(b, codes),
             b.env = IF s.kind = "let" THEN Bind(c.env, s.name, type) ELSE c.env
      PROVE  LET d == Settled(c, s, type, branch) IN
             /\ Extends(c, d) /\ d.used = c.used /\ d.snapshots = c.snapshots
             /\ d.env = IF s.kind = "let" THEN Bind(c.env, s.name, type) ELSE c.env
  BY <1>1, ReportedFacts DEF Extends
<1>2. CASE s.kind = "let"
  <2>1. PICK b : b = [c EXCEPT !.env = Bind(c.env, s.name, type)]
    OBVIOUS
  <2>2. PICK codes : codes = Flag("F3300", "annotation" \in DOMAIN s /\ ~Describes(s.annotation, type))
    OBVIOUS
  <2>3. Settled(c, s, type, branch) = Reported(b, codes)
    BY <1>2, <2>1, <2>2 DEF Settled
  <2>4. /\ IsChecker(b) /\ b.diagnostics = c.diagnostics /\ b.used = c.used
        /\ b.snapshots = c.snapshots /\ b.consumed = c.consumed /\ b.env = Bind(c.env, s.name, type)
    BY <2>1 DEF IsChecker
  <2>5. IsList(codes)
    BY <2>2, FlagFacts
  <2> QED
    BY <1>1, <1>2, <2>3, <2>4, <2>5
<1>3. CASE s.kind = "return"
  <2>1. PICK codes : codes = Flag("F3203", branch # NoBranch \/ type.kind # "outcome")
    OBVIOUS
  <2>2. Settled(c, s, type, branch) = Reported(c, codes)
    BY <1>3, <2>1 DEF Settled
  <2> QED
    BY <1>1, <1>3, <2>1, <2>2, FlagFacts
<1>4. CASE s.kind = "check"
  <2>1. PICK codes : codes = Flag("F3205", type.kind # "bool")
    OBVIOUS
  <2>2. Settled(c, s, type, branch) = Reported(c, codes)
    BY <1>4, <2>1 DEF Settled
  <2> QED
    BY <1>1, <1>4, <2>1, <2>2, FlagFacts
<1>5. CASE s.kind = "measure"
  <2>1. PICK codes : codes = Flag("F3205", type.kind # "int" \/ s.type # "Int")
    OBVIOUS
  <2>2. Settled(c, s, type, branch) = Reported(c, codes)
    BY <1>5, <2>1 DEF Settled
  <2> QED
    BY <1>1, <1>5, <2>1, <2>2, FlagFacts
<1> QED
  BY <1>2, <1>3, <1>4, <1>5 DEF Kinds
(* A statement, whatever the body of its exploration adds.                 *)
Checked(c, s, branch, d) ==
    /\ Extends(c, d)
    /\ \E b :
          /\ b.env = c.env /\ b.snapshots = c.snapshots
          /\ d.env = IF s.kind = "let"
                     THEN Bind(c.env, s.name, TypeOf(b, s.value, branch))
                     ELSE c.env
          /\ EffectOf(b, s.value) \subseteq d.used
          /\ \A code : Flagged(b, s.value, code) => code \in ToSet(d.diagnostics)
    /\ s.value.op = "snapshot" => c.snapshots + 1 <= d.snapshots
    /\ s.kind = "let" /\ s.name \in DOMAIN c.env => "F3003" \in ToSet(d.diagnostics)

LEMMA StatementFacts ==
    ASSUME NEW c, IsChecker(c), NEW s, s.kind \in Kinds, Worded(s.value), NEW branch,
           NEW explored, Extends(Visited(Entered(c, s, branch), s.value, branch), explored),
           explored.env = c.env
    PROVE  Checked(c, s, branch,
                   Settled(explored, s, TypeOf(Entered(c, s, branch), s.value, branch), branch))
<1>1. PICK b : b = Entered(c, s, branch)
  OBVIOUS
<1>2. /\ Extends(c, b) /\ b.env = c.env /\ b.used = c.used /\ b.snapshots = c.snapshots
      /\ s.kind = "let" /\ s.name \in DOMAIN c.env => "F3003" \in ToSet(b.diagnostics)
  BY <1>1, EnteredFacts
<1>3. PICK v : v = Visited(b, s.value, branch)
  OBVIOUS
<1>4. /\ Extends(b, v) /\ v.env = b.env /\ EffectOf(b, s.value) \subseteq v.used
      /\ s.value.op = "snapshot" => v.snapshots = b.snapshots + 1
      /\ \A code : Flagged(b, s.value, code) => code \in ToSet(v.diagnostics)
  <2>1. IsChecker(b)
    BY <1>2 DEF Extends
  <2> QED
    BY <1>3, <2>1, VisitedFacts
<1>5. Extends(v, explored)
  BY <1>1, <1>3
<1>6. PICK type : type = TypeOf(b, s.value, branch)
  OBVIOUS
<1>7. PICK d : d = Settled(explored, s, type, branch)
  OBVIOUS
<1>8. /\ Extends(explored, d) /\ d.used = explored.used /\ d.snapshots = explored.snapshots
      /\ d.env = IF s.kind = "let" THEN Bind(explored.env, s.name, type) ELSE explored.env
  <2>1. IsChecker(explored)
    BY <1>5 DEF Extends
  <2> QED
    BY <1>7, <2>1, SettledFacts
<1>9. Extends(v, d) /\ Extends(b, d) /\ Extends(c, d)
  <2>1. IsChecker(b) /\ IsChecker(v)
    BY <1>2, <1>4 DEF Extends
  <2>2. Extends(v, d)
    BY <1>5, <1>8, <2>1, ExtendsFurther
  <2>3. Extends(b, d)
    BY <1>4, <2>1, <2>2, ExtendsFurther
  <2> QED
    BY <1>2, <2>2, <2>3, ExtendsFurther
<1>10. EffectOf(b, s.value) \subseteq d.used
  BY <1>4, <1>9 DEF Extends
<1>11. \A code : Flagged(b, s.value, code) => code \in ToSet(d.diagnostics)
  BY <1>4, <1>9 DEF Extends
<1>12. s.kind = "let" /\ s.name \in DOMAIN c.env => "F3003" \in ToSet(d.diagnostics)
  BY <1>2, <1>9 DEF Extends
<1>13. s.value.op = "snapshot" => c.snapshots + 1 <= d.snapshots
  BY <1>2, <1>4, <1>9 DEF Extends
<1>14. d.env = IF s.kind = "let" THEN Bind(c.env, s.name, type) ELSE c.env
  BY <1>8
<1>15. Checked(c, s, branch, d)
  BY <1>2, <1>6, <1>9, <1>10, <1>11, <1>12, <1>13, <1>14 DEF Checked
<1> QED
  BY <1>1, <1>6, <1>7, <1>15

(* A chain of checkers, each of which extends the one before it.           *)
LEMMA ChainExtends ==
    ASSUME NEW n \in Nat, NEW f, IsChecker(f[0]),
           \A i \in 0 .. n - 1 : IsChecker(f[i]) => Extends(f[i], f[i + 1])
    PROVE  Extends(f[0], f[n])
<1> DEFINE S == {k \in 0 .. n : Extends(f[0], f[k])}
<1>1. 0 \in S
  BY DEF Extends, IsChecker
<1>2. ASSUME NEW k \in 0 .. n - 1, k \in S PROVE k + 1 \in S
  <2>1. Extends(f[0], f[k]) /\ IsChecker(f[k])
    BY <1>2 DEF Extends
  <2>2. Extends(f[k], f[k + 1])
    BY <2>1
  <2>3. Extends(f[0], f[k + 1])
    BY <2>1, <2>2, ExtendsFurther
  <2> QED
    BY <2>3
<1>3. \A i \in 0 .. n : i \in S
  <2> HIDE DEF S
  <2> QED
    BY <1>1, <1>2, Climbs
<1> QED
  BY <1>3

(* A list grows at its end.                                                *)
UpTo(g, k) == g = [i \in 0 .. k |-> g[i]]

(* A statement of a body extends the checker too.                          *)
LEMMA InnerStatementFacts ==
    ASSUME NEW c, IsChecker(c), NEW s, s.kind \in Kinds, Worded(s.value), NEW branch
    PROVE  Extends(c, InnerStatement(c, s, branch))
<1>1. PICK v : v = Visited(Entered(c, s, branch), s.value, branch)
  OBVIOUS
<1>2. Extends(v, v) /\ v.env = c.env
  <2>1. PICK b : b = Entered(c, s, branch)
    OBVIOUS
  <2>2. IsChecker(b) /\ b.env = c.env
    BY <2>1, EnteredFacts DEF Extends
  <2>3. IsChecker(v) /\ v.env = b.env
    BY <1>1, <2>1, <2>2, VisitedFacts DEF Extends
  <2> QED
    BY <2>2, <2>3 DEF Extends, IsChecker
<1>3. InnerStatement(c, s, branch) = Settled(v, s, TypeOf(Entered(c, s, branch), s.value, branch), branch)
  BY <1>1 DEF InnerStatement, StatementWith
<1>4. Checked(c, s, branch, InnerStatement(c, s, branch))
  BY <1>1, <1>2, <1>3, StatementFacts
<1> QED
  BY <1>4 DEF Checked

(* The checkers within a body: before it and after each of its statements. *)
BodyBranch(c, e) == Branch(ExploredResource(c, e), Lookup(c, e.base))
Within(c, e) ==
    [c EXCEPT !.env = Bind(@, Item, Binding("plan", BodyBranch(c, e).resource, <<>>,
                                            Lookup(c, e.base).lineage, None))]
Twice(e, i) ==
    Flag("F3209", e.body[i].kind = "measure" /\ e.body[i].name \in Measured(e.body, i))
InnerNext(c, e, d, i) == Reported(InnerStatement(d, e.body[i], BodyBranch(c, e)), Twice(e, i))
InnerRun(c, e, f, k) ==
    f = [i \in 0 .. k |-> IF i = 0 THEN Within(c, e) ELSE InnerNext(c, e, f[i - 1], i)]

LEMMA InnerRuns ==
    ASSUME NEW c, NEW e, NEW n \in Nat
    PROVE  \E f : InnerRun(c, e, f, n)
<1> DEFINE S == {k \in 0 .. n : \E f : InnerRun(c, e, f, k)}
<1>1. 0 \in S
  <2>1. PICK f : f = [i \in 0 .. 0 |-> Within(c, e)]
    OBVIOUS
  <2>2. f = [i \in 0 .. 0 |-> IF i = 0 THEN Within(c, e) ELSE InnerNext(c, e, f[i - 1], i)]
    BY <2>1
  <2> QED
    BY <2>2 DEF InnerRun
<1>2. ASSUME NEW k \in 0 .. n - 1, k \in S PROVE k + 1 \in S
  <2>1. PICK f : InnerRun(c, e, f, k)
    BY <1>2
  <2>2. PICK x : x = InnerNext(c, e, f[k], k + 1)
    OBVIOUS
  <2>3. k \in Nat
    OBVIOUS
  <2>4. PICK g : g = [i \in 0 .. k + 1 |-> IF i = k + 1 THEN x ELSE f[i]]
    OBVIOUS
  <2>5. UpTo(g, k + 1) /\ (\A i \in 0 .. k : g[i] = f[i]) /\ g[k + 1] = x
    <3>1. UpTo(g, k + 1)
      BY <2>4 DEF UpTo
    <3>2. g[k + 1] = x
      BY <2>3, <2>4
    <3>3. \A i \in 0 .. k : i # k + 1 /\ i \in 0 .. k + 1
      BY <2>3
    <3>4. \A i \in 0 .. k : g[i] = f[i]
      BY <2>4, <3>3
    <3> QED
      BY <3>1, <3>2, <3>4
  <2>6. ASSUME NEW i \in 0 .. k + 1
        PROVE  g[i] = IF i = 0 THEN Within(c, e) ELSE InnerNext(c, e, g[i - 1], i)
    <3>1. CASE i = k + 1
      <4>1. i # 0 /\ i - 1 = k /\ k \in 0 .. k
        BY <3>1
      <4>2. g[k] = f[k]
        BY <2>5, <4>1
      <4> QED
        BY <2>2, <2>5, <3>1, <4>1, <4>2
    <3>2. CASE i # k + 1
      <4>1. i \in 0 .. k /\ (i # 0 => i - 1 \in 0 .. k)
        BY <3>2
      <4>2. g[i] = f[i] /\ (i # 0 => g[i - 1] = f[i - 1])
        BY <2>5, <4>1
      <4>3. f[i] = IF i = 0 THEN Within(c, e) ELSE InnerNext(c, e, f[i - 1], i)
        BY <2>1, <4>1 DEF InnerRun
      <4> QED
        BY <4>2, <4>3
    <3> QED
      BY <3>1, <3>2
  <2>7. InnerRun(c, e, g, k + 1)
    BY <2>5, <2>6 DEF InnerRun, UpTo
  <2> QED
    BY <2>7
<1>3. \A i \in 0 .. n : i \in S
  <2> HIDE DEF S
  <2> QED
    BY <1>1, <1>2, Climbs
<1> QED
  BY <1>3

LEMMA InnerBodyFacts ==
    ASSUME NEW c, IsChecker(c), NEW e, Parsed(e.body)
    PROVE  Extends(c, InnerBody(c, e)) /\ InnerBody(c, e).env = c.env
<1> DEFINE n == Len(e.body)
<1>1. n \in Nat /\ DOMAIN e.body = 1 .. n
  BY ListFacts DEF Parsed
<1>2. PICK h : h = CHOOSE f : InnerRun(c, e, f, n)
  OBVIOUS
<1>3. InnerRun(c, e, h, n)
  BY <1>1, <1>2, InnerRuns
<1>4. InnerBody(c, e) = [h[n] EXCEPT !.env = c.env]
  BY <1>2 DEF InnerBody, BodyWith, InnerRun, InnerNext, Within, BodyBranch, Twice
<1>5. h[0] = Within(c, e)
  BY <1>1, <1>3 DEF InnerRun
<1>6. Extends(c, h[0]) /\ IsChecker(h[0])
  <2>1. PICK env : h[0] = [c EXCEPT !.env = env]
    BY <1>5 DEF Within
  <2> QED
    BY <2>1 DEF Extends, IsChecker
<1>7. ASSUME NEW i \in 0 .. n - 1, IsChecker(h[i]) PROVE Extends(h[i], h[i + 1])
  <2>1. i + 1 \in 1 .. n /\ i + 1 \in 0 .. n /\ i + 1 # 0 /\ (i + 1) - 1 = i
    BY <1>1
  <2>2. h[i + 1] = InnerNext(c, e, h[i], i + 1)
    BY <1>3, <2>1 DEF InnerRun
  <2>3. PICK s : s = e.body[i + 1]
    OBVIOUS
  <2>4. s.kind \in Kinds /\ Worded(s.value)
    BY <1>1, <2>1, <2>3 DEF Parsed, Worded
  <2>5. PICK d : d = InnerStatement(h[i], s, BodyBranch(c, e))
    OBVIOUS
  <2>6. Extends(h[i], d) /\ IsChecker(d)
    BY <1>7, <2>4, <2>5, InnerStatementFacts DEF Extends
  <2>7. PICK codes : codes = Twice(e, i + 1)
    OBVIOUS
  <2>8. IsList(codes)
    BY <2>7, FlagFacts DEF Twice
  <2>9. h[i + 1] = Reported(d, codes)
    BY <2>2, <2>3, <2>5, <2>7 DEF InnerNext
  <2>10. Extends(d, h[i + 1])
    BY <2>6, <2>8, <2>9, ReportedFacts
  <2> QED
    BY <1>7, <2>6, <2>10, ExtendsFurther
<1>8. Extends(h[0], h[n])
  <2> HIDE DEF n
  <2> QED
    BY <1>1, <1>6, <1>7, ChainExtends
<1>9. Extends(c, h[n])
  BY <1>6, <1>8, ExtendsFurther
<1> HIDE DEF n
<1>10. PICK d, env : d = h[n] /\ env = c.env
  OBVIOUS
<1>11. InnerBody(c, e) = [d EXCEPT !.env = env]
  BY <1>4, <1>10 DEF n
<1>12. Extends(c, d)
  BY <1>9, <1>10
<1> QED
  BY <1>10, <1>11, <1>12 DEF Extends, IsChecker

(* One level further out, where statements may explore.                    *)
LEMMA BranchStatementFacts ==
    ASSUME NEW c, IsChecker(c), NEW s, s.kind \in Kinds, Worded(s.value), NEW branch,
           s.value.op = "explore" => Parsed(s.value.body)
    PROVE  Extends(c, BranchStatement(c, s, branch))
<1>1. PICK v : v = Visited(Entered(c, s, branch), s.value, branch)
  OBVIOUS
<1>2. IsChecker(v) /\ v.env = c.env
  <2>1. PICK b : b = Entered(c, s, branch)
    OBVIOUS
  <2>2. IsChecker(b) /\ b.env = c.env
    BY <2>1, EnteredFacts DEF Extends
  <2>3. IsChecker(v) /\ v.env = b.env
    BY <1>1, <2>1, <2>2, VisitedFacts DEF Extends
  <2> QED
    BY <2>2, <2>3
<1>3. PICK x : x = IF s.value.op = "explore" THEN InnerBody(v, s.value) ELSE v
  OBVIOUS
<1>4. Extends(v, x) /\ x.env = c.env
  <2>1. CASE s.value.op = "explore"
    BY <1>2, <1>3, <2>1, InnerBodyFacts
  <2>2. CASE s.value.op # "explore"
    BY <1>2, <1>3, <2>2 DEF Extends, IsChecker
  <2> QED
    BY <2>1, <2>2
<1>5. BranchStatement(c, s, branch) = Settled(x, s, TypeOf(Entered(c, s, branch), s.value, branch), branch)
  BY <1>1, <1>3 DEF BranchStatement, StatementWith
<1>6. Checked(c, s, branch, BranchStatement(c, s, branch))
  BY <1>1, <1>4, <1>5, StatementFacts
<1> QED
  BY <1>6 DEF Checked

BranchNext(c, e, d, i) == Reported(BranchStatement(d, e.body[i], BodyBranch(c, e)), Twice(e, i))
BranchRun(c, e, f, k) ==
    f = [i \in 0 .. k |-> IF i = 0 THEN Within(c, e) ELSE BranchNext(c, e, f[i - 1], i)]

LEMMA BranchRuns ==
    ASSUME NEW c, NEW e, NEW n \in Nat
    PROVE  \E f : BranchRun(c, e, f, n)
<1> DEFINE S == {k \in 0 .. n : \E f : BranchRun(c, e, f, k)}
<1>1. 0 \in S
  <2>1. PICK f : f = [i \in 0 .. 0 |-> Within(c, e)]
    OBVIOUS
  <2>2. f = [i \in 0 .. 0 |-> IF i = 0 THEN Within(c, e) ELSE BranchNext(c, e, f[i - 1], i)]
    BY <2>1
  <2> QED
    BY <2>2 DEF BranchRun
<1>2. ASSUME NEW k \in 0 .. n - 1, k \in S PROVE k + 1 \in S
  <2>1. PICK f : BranchRun(c, e, f, k)
    BY <1>2
  <2>2. PICK x : x = BranchNext(c, e, f[k], k + 1)
    OBVIOUS
  <2>3. k \in Nat
    OBVIOUS
  <2>4. PICK g : g = [i \in 0 .. k + 1 |-> IF i = k + 1 THEN x ELSE f[i]]
    OBVIOUS
  <2>5. UpTo(g, k + 1) /\ (\A i \in 0 .. k : g[i] = f[i]) /\ g[k + 1] = x
    <3>1. UpTo(g, k + 1)
      BY <2>4 DEF UpTo
    <3>2. g[k + 1] = x
      BY <2>3, <2>4
    <3>3. \A i \in 0 .. k : i # k + 1 /\ i \in 0 .. k + 1
      BY <2>3
    <3>4. \A i \in 0 .. k : g[i] = f[i]
      BY <2>4, <3>3
    <3> QED
      BY <3>1, <3>2, <3>4
  <2>6. ASSUME NEW i \in 0 .. k + 1
        PROVE  g[i] = IF i = 0 THEN Within(c, e) ELSE BranchNext(c, e, g[i - 1], i)
    <3>1. CASE i = k + 1
      <4>1. i # 0 /\ i - 1 = k /\ k \in 0 .. k
        BY <3>1
      <4>2. g[k] = f[k]
        BY <2>5, <4>1
      <4> QED
        BY <2>2, <2>5, <3>1, <4>1, <4>2
    <3>2. CASE i # k + 1
      <4>1. i \in 0 .. k /\ (i # 0 => i - 1 \in 0 .. k)
        BY <3>2
      <4>2. g[i] = f[i] /\ (i # 0 => g[i - 1] = f[i - 1])
        BY <2>5, <4>1
      <4>3. f[i] = IF i = 0 THEN Within(c, e) ELSE BranchNext(c, e, f[i - 1], i)
        BY <2>1, <4>1 DEF BranchRun
      <4> QED
        BY <4>2, <4>3
    <3> QED
      BY <3>1, <3>2
  <2>7. BranchRun(c, e, g, k + 1)
    BY <2>5, <2>6 DEF BranchRun, UpTo
  <2> QED
    BY <2>7
<1>3. \A i \in 0 .. n : i \in S
  <2> HIDE DEF S
  <2> QED
    BY <1>1, <1>2, Climbs
<1> QED
  BY <1>3

LEMMA CheckBodyFacts ==
    ASSUME NEW c, IsChecker(c), NEW e, e.body \in Bodies
    PROVE  Extends(c, CheckBody(c, e)) /\ CheckBody(c, e).env = c.env
<1> DEFINE n == Len(e.body)
<1>1. n \in Nat /\ DOMAIN e.body = 1 .. n
  BY ListFacts, BodiesAssumption DEF Nesting, Flat, Parsed
<1>2. PICK h : h = CHOOSE f : BranchRun(c, e, f, n)
  OBVIOUS
<1>3. BranchRun(c, e, h, n)
  BY <1>1, <1>2, BranchRuns
<1>4. CheckBody(c, e) = [h[n] EXCEPT !.env = c.env]
  BY <1>2 DEF CheckBody, BodyWith, BranchRun, BranchNext, Within, BodyBranch, Twice
<1>5. h[0] = Within(c, e)
  BY <1>1, <1>3 DEF BranchRun
<1>6. Extends(c, h[0]) /\ IsChecker(h[0])
  <2>1. PICK env : h[0] = [c EXCEPT !.env = env]
    BY <1>5 DEF Within
  <2> QED
    BY <2>1 DEF Extends, IsChecker
<1>7. ASSUME NEW i \in 0 .. n - 1, IsChecker(h[i]) PROVE Extends(h[i], h[i + 1])
  <2>1. i + 1 \in 1 .. n /\ i + 1 \in 0 .. n /\ i + 1 # 0 /\ (i + 1) - 1 = i
    BY <1>1
  <2>2. h[i + 1] = BranchNext(c, e, h[i], i + 1)
    BY <1>3, <2>1 DEF BranchRun
  <2>3. PICK s : s = e.body[i + 1]
    OBVIOUS
  <2>4. /\ s.kind \in Kinds /\ Worded(s.value)
        /\ s.value.op = "explore" => Parsed(s.value.body)
    BY <1>1, <2>1, <2>3, BodiesAssumption DEF Nesting, Flat, Parsed, Worded
  <2>5. PICK d : d = BranchStatement(h[i], s, BodyBranch(c, e))
    OBVIOUS
  <2>6. Extends(h[i], d) /\ IsChecker(d)
    BY <1>7, <2>4, <2>5, BranchStatementFacts DEF Extends
  <2>7. PICK codes : codes = Twice(e, i + 1)
    OBVIOUS
  <2>8. IsList(codes)
    BY <2>7, FlagFacts DEF Twice
  <2>9. h[i + 1] = Reported(d, codes)
    BY <2>2, <2>3, <2>5, <2>7 DEF BranchNext
  <2>10. Extends(d, h[i + 1])
    BY <2>6, <2>8, <2>9, ReportedFacts
  <2> QED
    BY <1>7, <2>6, <2>10, ExtendsFurther
<1>8. Extends(h[0], h[n])
  <2> HIDE DEF n
  <2> QED
    BY <1>1, <1>6, <1>7, ChainExtends
<1>9. Extends(c, h[n])
  BY <1>6, <1>8, ExtendsFurther
<1> HIDE DEF n
<1>10. PICK d, env : d = h[n] /\ env = c.env
  OBVIOUS
<1>11. CheckBody(c, e) = [d EXCEPT !.env = env]
  BY <1>4, <1>10 DEF n
<1>12. Extends(c, d)
  BY <1>9, <1>10
<1> QED
  BY <1>10, <1>11, <1>12 DEF Extends, IsChecker

LEMMA CheckStatementFacts ==
    ASSUME NEW c, IsChecker(c), NEW s, s.kind \in Kinds, Worded(s.value),
           s.value.op = "explore" => s.value.body \in Bodies
    PROVE  Checked(c, s, NoBranch, CheckStatement(c, s))
<1>1. PICK v : v = Visited(Entered(c, s, NoBranch), s.value, NoBranch)
  OBVIOUS
<1>2. IsChecker(v) /\ v.env = c.env
  <2>1. PICK b : b = Entered(c, s, NoBranch)
    OBVIOUS
  <2>2. IsChecker(b) /\ b.env = c.env
    BY <2>1, EnteredFacts DEF Extends
  <2>3. IsChecker(v) /\ v.env = b.env
    BY <1>1, <2>1, <2>2, VisitedFacts DEF Extends
  <2> QED
    BY <2>2, <2>3
<1>3. PICK x : x = IF s.value.op = "explore" THEN CheckBody(v, s.value) ELSE v
  OBVIOUS
<1>4. Extends(v, x) /\ x.env = c.env
  <2>1. CASE s.value.op = "explore"
    BY <1>2, <1>3, <2>1, CheckBodyFacts
  <2>2. CASE s.value.op # "explore"
    BY <1>2, <1>3, <2>2 DEF Extends, IsChecker
  <2> QED
    BY <2>1, <2>2
<1>5. CheckStatement(c, s)
        = Settled(x, s, TypeOf(Entered(c, s, NoBranch), s.value, NoBranch), NoBranch)
  BY <1>1, <1>3 DEF CheckStatement, StatementWith
<1> QED
  BY <1>1, <1>4, <1>5, StatementFacts

(* The checker knows, of every name, the snapshot it descends from, and    *)
(* that a snapshot is one of the catalog.                                  *)
Placed(c, binding) ==
    /\ binding.lineage \in {None} \cup 1 .. c.snapshots
    /\ binding.kind = "snapshot" => binding.resource = Catalog
Scoped(c) == \A n \in DOMAIN c.env : Placed(c, c.env[n])

(* What the interpreter does when it evaluates an expression.              *)
Needs(e) ==
    CASE e.op = "snapshot" -> {<<"Snapshot", Catalog>>}
      [] e.op = "propose" -> {<<"Infer", Planner>>}
      [] e.op = "explore" -> {<<"Explore", Catalog>>}
      [] e.op = "commit" /\ e.resource = Catalog -> {<<"Commit", Catalog>>}
      [] OTHER -> {}

(* What the checker knows of a statement it has accepted.                  *)
SameLineage(c, m, n) ==
    m \in DOMAIN c.env /\ n \in DOMAIN c.env /\ c.env[m].lineage = c.env[n].lineage
Vetted(c, s) ==
    LET e == s.value IN
    /\ Worded(e) /\ (e.op = "explore" => e.body \in Bodies)
    /\ Needs(e) \subseteq c.used
    /\ s.kind = "let" => s.name \in DOMAIN c.env
    /\ s.kind = "let" /\ e.op = "var" => SameLineage(c, s.name, e.name)
    /\ s.kind = "let" /\ e.op = "propose" => SameLineage(c, s.name, e.base)
    /\ e.op = "explore" => SameLineage(c, e.plans, e.base)
Admits(c, s, d) ==
    /\ Extends(c, d) /\ Scoped(d) /\ Vetted(d, s)
    /\ s.kind # "let" => d.env = c.env
    /\ s.kind = "let" =>
          /\ s.name \notin DOMAIN c.env
          /\ DOMAIN d.env = DOMAIN c.env \cup {s.name}
          /\ \A n \in DOMAIN c.env : d.env[n] = c.env[n]
          /\ s.value.op = "snapshot" =>
                \A n \in DOMAIN c.env : d.env[n].lineage # d.env[s.name].lineage

LEMMA LookupFacts ==
    ASSUME NEW c, Scoped(c), NEW name
    PROVE  Placed(c, Lookup(c, name))
BY DEF Scoped, Placed, Lookup, Scalar, Binding

LEMMA TypeFacts ==
    ASSUME NEW c, c.snapshots \in Nat, Scoped(c), NEW e, e.op \in Operations,
           e.op = "snapshot" => e.resource = Catalog
    PROVE  LET type == TypeOf(c, e, NoBranch) IN
           /\ type.lineage \in {None} \cup 1 .. c.snapshots + 1
           /\ e.op # "snapshot" => type.lineage \in {None} \cup 1 .. c.snapshots
           /\ e.op = "snapshot" => type.lineage = c.snapshots + 1
           /\ type.kind = "snapshot" => type.resource = Catalog
<1> DEFINE type == TypeOf(c, e, NoBranch)
<1>1. c.snapshots \in Nat
  OBVIOUS
<1>2. CASE e.op = "snapshot"
  <2>1. type = Binding("snapshot", e.resource, <<>>, c.snapshots + 1, None)
    BY <1>2 DEF TypeOf
  <2> QED
    BY <1>1, <1>2, <2>1 DEF Binding
<1>3. CASE e.op = "var"
  <2>1. type = Lookup(c, e.name)
    BY <1>3 DEF TypeOf
  <2> QED
    BY <1>1, <1>3, <2>1, LookupFacts DEF Placed
<1>4. CASE e.op = "call"
  <2>1. PICK kind : type = Scalar(kind) /\ kind = IF Offered(e) THEN Result[e.method] ELSE "error"
    BY <1>4 DEF TypeOf
  <2>2. kind \in {"int", "bool", "error"}
    BY <2>1 DEF Result, Offered
  <2> QED
    BY <1>1, <1>4, <2>1, <2>2 DEF Scalar, Binding
<1>5. CASE e.op \in {"propose", "explore", "simulate", "select", "commit"}
  <2>1. \E kind \in {"plans", "trials", "simulated", "selected", "outcome"} :
           \E name, resource, metrics, selection :
              \/ type = Binding(kind, resource, metrics, Lookup(c, name).lineage, selection)
              \/ type = Binding(kind, resource, metrics, None, selection)
    <3>1. CASE e.op = "propose"
      BY <3>1 DEF TypeOf
    <3>2. CASE e.op = "explore"
      BY <3>2 DEF TypeOf
    <3>3. CASE e.op = "simulate"
      BY <3>3 DEF TypeOf
    <3>4. CASE e.op = "select"
      BY <3>4 DEF TypeOf
    <3>5. CASE e.op = "commit"
      BY <3>5 DEF TypeOf
    <3> QED
      BY <1>5, <3>1, <3>2, <3>3, <3>4, <3>5
  <2>2. PICK kind, name, lineage :
           /\ kind \in {"plans", "trials", "simulated", "selected", "outcome"}
           /\ type.kind = kind /\ type.lineage = lineage
           /\ lineage \in {None, Lookup(c, name).lineage}
    BY <2>1 DEF Binding
  <2>3. lineage \in {None} \cup 1 .. c.snapshots
    BY <2>2, LookupFacts DEF Placed
  <2> QED
    BY <1>1, <1>5, <2>2, <2>3
<1> QED
  BY <1>2, <1>3, <1>4, <1>5 DEF Operations

LEMMA AdmitFacts ==
    ASSUME NEW c, IsChecker(c), Scoped(c), NEW s, s.kind \in {"let", "return"}, Worded(s.value),
           s.value.op = "explore" => s.value.body \in Bodies,
           NEW d, d = CheckStatement(c, s), ToSet(d.diagnostics) \cap Essential = {}
    PROVE  Admits(c, s, d)
<1> DEFINE e == s.value
<1>1. Checked(c, s, NoBranch, d)
  BY CheckStatementFacts DEF Kinds
<1>2. PICK b : /\ b.env = c.env /\ b.snapshots = c.snapshots
               /\ d.env = IF s.kind = "let"
                          THEN Bind(c.env, s.name, TypeOf(b, e, NoBranch))
                          ELSE c.env
               /\ EffectOf(b, e) \subseteq d.used
               /\ \A code : Flagged(b, e, code) => code \in ToSet(d.diagnostics)
  BY <1>1 DEF Checked
<1>3. \A n : Lookup(b, n) = Lookup(c, n)
  BY <1>2 DEF Lookup
<1>4. \A code \in Essential : ~Flagged(b, e, code)
  BY <1>2
<1>5. /\ e.op = "var" => e.name \in DOMAIN c.env
      /\ e.op = "snapshot" => e.resource = Catalog
      /\ e.op = "propose" => e.model = Planner /\ e.base \in DOMAIN c.env
      /\ e.op = "explore" =>
            /\ {e.plans, e.base} \subseteq DOMAIN c.env
            /\ Explorable(Lookup(c, e.plans), Lookup(c, e.base))
            /\ SameOrigin(Lookup(c, e.plans), Lookup(c, e.base))
  <2>1. {"F3004", "F3005", "F3006", "F3101", "F3301"} \subseteq Essential
    BY DEF Essential
  <2>2. e.op = "var" => e.name \in DOMAIN c.env
    BY <1>2, <1>4, <2>1 DEF Flagged
  <2>3. e.op = "snapshot" => e.resource = Catalog
    BY <1>4, <2>1 DEF Flagged
  <2>4. e.op = "propose" => e.model = Planner /\ e.base \in DOMAIN c.env
    BY <1>2, <1>4, <2>1 DEF Flagged
  <2>5. e.op = "explore" => {e.plans, e.base} \subseteq DOMAIN c.env
    BY <1>2, <1>4, <2>1 DEF Flagged
  <2>6. e.op = "explore" => Explorable(Lookup(b, e.plans), Lookup(b, e.base))
    BY <1>4, <2>1 DEF Flagged
  <2>7. e.op = "explore" => SameOrigin(Lookup(b, e.plans), Lookup(b, e.base))
    BY <1>4, <2>1 DEF Flagged
  <2> QED
    BY <1>3, <2>2, <2>3, <2>4, <2>5, <2>6, <2>7
<1>6. Extends(c, d) /\ c.snapshots <= d.snapshots /\ c.snapshots \in Nat /\ d.snapshots \in Nat
  BY <1>1 DEF Checked, Extends, IsChecker
<1>7. e.op = "snapshot" => c.snapshots + 1 <= d.snapshots
  BY <1>1 DEF Checked
<1>8. s.kind = "let" => s.name \notin DOMAIN c.env
  BY <1>1 DEF Checked, Essential
<1>9. PICK type : type = TypeOf(b, e, NoBranch)
  OBVIOUS
<1>10. /\ s.kind # "let" => d.env = c.env
       /\ s.kind = "let" => /\ DOMAIN d.env = DOMAIN c.env \cup {s.name}
                            /\ \A n \in DOMAIN c.env : d.env[n] = c.env[n]
                            /\ d.env[s.name] = type
  BY <1>2, <1>8, <1>9 DEF Bind
<1>11. Scoped(d) /\ (s.kind = "let" /\ e.op = "snapshot" =>
                        \A n \in DOMAIN c.env : d.env[n].lineage # d.env[s.name].lineage)
  <2>1. /\ type.lineage \in {None} \cup 1 .. c.snapshots + 1
        /\ e.op # "snapshot" => type.lineage \in {None} \cup 1 .. c.snapshots
        /\ e.op = "snapshot" => type.lineage = c.snapshots + 1
        /\ type.kind = "snapshot" => type.resource = Catalog
    BY <1>2, <1>5, <1>6, <1>9, TypeFacts DEF Worded, Scoped, Placed
  <2>2. type.lineage \in {None} \cup 1 .. d.snapshots
    <3>1. CASE e.op = "snapshot"
      BY <1>6, <1>7, <2>1, <3>1
    <3>2. CASE e.op # "snapshot"
      BY <1>6, <2>1, <3>2
    <3> QED
      BY <3>1, <3>2
  <2>3. Placed(d, type)
    BY <2>1, <2>2 DEF Placed
  <2>4. \A n \in DOMAIN c.env : c.env[n].lineage \in {None} \cup 1 .. c.snapshots
    BY DEF Scoped, Placed
  <2>5. \A n \in DOMAIN c.env : Placed(d, c.env[n])
    <3>1. ASSUME NEW n \in DOMAIN c.env PROVE c.env[n].lineage \in {None} \cup 1 .. d.snapshots
      BY <1>6, <2>4
    <3> QED
      BY <3>1 DEF Scoped, Placed
  <2>6. Scoped(d)
    BY <1>10, <2>3, <2>5 DEF Scoped
  <2>7. ASSUME e.op = "snapshot", NEW n \in DOMAIN c.env PROVE c.env[n].lineage # type.lineage
    BY <1>6, <2>1, <2>4, <2>7, PlanAssumption
  <2> QED
    BY <1>10, <2>6, <2>7
<1>12. Needs(e) \subseteq d.used
  <2>1. CASE e.op = "snapshot"
    BY <1>2, <1>5, <2>1 DEF Needs, EffectOf
  <2>2. CASE e.op = "propose"
    BY <1>2, <1>5, <2>2 DEF Needs, EffectOf
  <2>3. CASE e.op = "explore"
    <3>1. ExploredResource(b, e) = Lookup(c, e.base).resource
      BY <1>3, <1>5, <2>3 DEF ExploredResource
    <3>2. Lookup(c, e.base).resource = Catalog
      BY <1>5, <2>3, LookupFacts DEF Placed, Explorable
    <3>3. EffectOf(b, e) = {<<"Explore", Catalog>>}
      BY <2>3, <3>1, <3>2 DEF EffectOf
    <3> QED
      BY <1>2, <2>3, <3>3 DEF Needs
  <2>4. CASE e.op = "commit"
    BY <1>2, <2>4 DEF Needs, EffectOf
  <2>5. CASE e.op \notin {"snapshot", "propose", "explore", "commit"}
    BY <2>5 DEF Needs
  <2> QED
    BY <2>1, <2>2, <2>3, <2>4, <2>5
<1>13. s.kind = "let" /\ e.op = "var" => SameLineage(d, s.name, e.name)
  BY <1>2, <1>5, <1>9, <1>10 DEF TypeOf, Lookup, SameLineage
<1>14. s.kind = "let" /\ e.op = "propose" => SameLineage(d, s.name, e.base)
  BY <1>2, <1>5, <1>9, <1>10 DEF TypeOf, Lookup, SameLineage, Binding
<1>15. e.op = "explore" => SameLineage(d, e.plans, e.base)
  <2>1. ASSUME e.op = "explore" PROVE SameLineage(d, e.plans, e.base)
    <3>1. c.env[e.plans].lineage = c.env[e.base].lineage
      BY <1>5, <2>1 DEF SameOrigin, Lookup
    <3>2. \A n \in DOMAIN c.env : n \in DOMAIN d.env /\ d.env[n] = c.env[n]
      BY <1>10
    <3> QED
      BY <1>5, <2>1, <3>1, <3>2 DEF SameLineage
  <2> QED
    BY <2>1
<1> QED
  BY <1>6, <1>8, <1>10, <1>11, <1>12, <1>13, <1>14, <1>15 DEF Admits, Vetted

LEMMA EachFacts ==
    ASSUME NEW code, NEW set, IsFiniteSet(set)
    PROVE  IsList(Each(code, set)) /\ (set # {} => code \in ToSet(Each(code, set)))
<1>1. PICK n : n = Cardinality(set)
  OBVIOUS
<1>2. n \in Nat /\ (n = 0 <=> set = {})
  BY <1>1, FS_CardinalityType, FS_EmptySet
<1>3. PICK f : f = [i \in 1 .. n |-> code]
  OBVIOUS
<1>4. IsList(f) /\ (n # 0 => 1 \in DOMAIN f /\ f[1] = code)
  BY <1>2, <1>3 DEF IsList, ToSet
<1>5. n # 0 => code \in ToSet(f)
  BY <1>4 DEF ToSet
<1> QED
  BY <1>1, <1>2, <1>3, <1>4, <1>5 DEF Each

LEMMA CheckEffectsFacts ==
    ASSUME NEW c, IsChecker(c), NEW effects, effects \subseteq Effects
    PROVE  LET d == CheckEffects(c, effects) IN
           /\ Extends(c, d) /\ d.env = c.env /\ d.used = c.used /\ d.snapshots = c.snapshots
           /\ c.used \subseteq effects \/ "F3001" \in ToSet(d.diagnostics)
<1>1. UnknownTargets(effects) = {}
  <2>1. \A effect \in Effects : effect[2] \in {Catalog, Planner}
    BY DEF Effects, TargetOf
  <2> QED
    BY <2>1 DEF UnknownTargets
<1>2. IsFiniteSet(Undeclared(c, effects)) /\ IsFiniteSet(UnknownTargets(effects))
  BY <1>1, FS_Subset, FS_EmptySet DEF Undeclared, IsChecker
<1>3. PICK a, b : a = Each("F3001", Undeclared(c, effects)) /\ b = Each("F3002", UnknownTargets(effects))
  OBVIOUS
<1>4. /\ IsList(a) /\ IsList(b)
      /\ Undeclared(c, effects) # {} => "F3001" \in ToSet(a)
  BY <1>2, <1>3, EachFacts
<1>5. PICK codes : codes = a \o b
  OBVIOUS
<1>6. IsList(codes) /\ ToSet(a) \subseteq ToSet(codes)
  BY <1>4, <1>5, ConcatFacts
<1>7. CheckEffects(c, effects) = Reported(c, codes)
  BY <1>3, <1>5 DEF CheckEffects
<1>8. Undeclared(c, effects) = {} => c.used \subseteq effects
  BY DEF Undeclared
<1> QED
  BY <1>4, <1>6, <1>7, <1>8, ReportedFacts

-----------------------------------------------------------------------------
(* The invariant of a program that has been accepted so far.               *)
Binds(i) == source[i].kind = "let"
Apart(i, j) ==
    /\ source[i].name # source[j].name
    /\ source[i].value.op = "snapshot" =>
          checker.env[source[j].name].lineage # checker.env[source[i].name].lineage
Accepted ==
    /\ IsChecker(checker) /\ Scoped(checker) /\ Acceptable(checker)
    /\ \A i \in 1 .. Len(source) : Vetted(checker, source[i])
    /\ \A i, j \in 1 .. Len(source) : j < i /\ Binds(i) /\ Binds(j) => Apart(i, j)
    /\ declared # None => checker.used \subseteq declared

(* What is written are expressions the checker may meet.                   *)
LEMMA WritableFacts ==
    ASSUME NEW e \in Writable
    PROVE  Worded(e) /\ (e.op = "explore" => e.body \in Bodies)
<1>1. PICK op \in Operations : e \in Expressions(op, NamesInUse)
  BY DEF Writable
<1>2. CASE op = "call"
  <2>1. PICK m \in Methods \cup Foreign :
           e \in [op : {"call"}, target : Mentioned, method : {m}, args : [1 .. Arity[m] -> NamesInUse]]
    BY <1>1, <1>2 DEF Expressions, CallExpr
  <2>2. e.op = "call" /\ e.args \in [1 .. Arity[m] -> NamesInUse]
    BY <2>1
  <2>3. Arity[m] \in Nat
    BY DEF Arity
  <2>4. IsList(e.args)
    BY <2>2, <2>3 DEF IsList, ToSet
  <2> QED
    BY <2>2, <2>4 DEF Worded, Operations
<1>3. CASE op = "explore"
  BY <1>1, <1>3 DEF Expressions, ExploreExpr, Worded, Operations
<1>4. CASE op \in {"snapshot", "propose", "simulate", "select", "commit", "var"}
  <2>1. CASE op = "snapshot"
    BY <1>1, <2>1 DEF Expressions, SnapshotExpr, Worded, Operations
  <2>2. CASE op = "propose"
    BY <1>1, <2>2 DEF Expressions, ProposeExpr, Worded, Operations
  <2>3. CASE op = "simulate"
    BY <1>1, <2>3 DEF Expressions, SimulateExpr, Worded, Operations
  <2>4. CASE op = "select"
    BY <1>1, <2>4 DEF Expressions, SelectExpr, Worded, Operations
  <2>5. CASE op = "commit"
    BY <1>1, <2>5 DEF Expressions, CommitExpr, Worded, Operations
  <2>6. CASE op = "var"
    BY <1>1, <2>6 DEF Expressions, VarExpr, Worded, Operations
  <2> QED
    BY <1>4, <2>1, <2>2, <2>3, <2>4, <2>5, <2>6
<1> QED
  BY <1>1, <1>2, <1>3, <1>4 DEF Operations

(* Accepting one more statement.                                           *)
LEMMA VettedFurther ==
    ASSUME NEW c, NEW d, NEW s, Vetted(c, s), Extends(c, d),
           \A n \in DOMAIN c.env : n \in DOMAIN d.env /\ d.env[n] = c.env[n]
    PROVE  Vetted(d, s)
<1>1. \A m, n : SameLineage(c, m, n) => SameLineage(d, m, n)
  BY DEF SameLineage
<1> QED
  BY <1>1 DEF Vetted, Extends

LEMMA AcceptOne ==
    ASSUME Accepted, IsList(source), NEW s, source' = Append(source, s),
           NEW d, Admits(checker, s, d), Extends(d, checker'),
           checker'.env = d.env, checker'.snapshots = d.snapshots,
           Acceptable(checker)', declared' # None => checker'.used \subseteq declared'
    PROVE  Accepted'
<1> DEFINE n == Len(source)
<1>1. /\ n \in Nat /\ Len(source') = n + 1
      /\ source'[n + 1] = s
      /\ \A i \in 1 .. n : source'[i] = source[i]
  BY AppendFacts, ListFacts
<1>2. /\ IsChecker(checker') /\ Scoped(checker')
  BY DEF Extends, Admits, Scoped, Placed
<1>3. \A m \in DOMAIN checker.env : m \in DOMAIN checker'.env /\ checker'.env[m] = checker.env[m]
  <2>1. CASE s.kind = "let"
    BY <2>1 DEF Admits
  <2>2. CASE s.kind # "let"
    BY <2>2 DEF Admits
  <2> QED
    BY <2>1, <2>2
<1>4. Extends(checker, checker')
  BY ExtendsFurther DEF Accepted, Admits
<1>5. Vetted(checker', s)
  <2>1. \A m \in DOMAIN d.env : m \in DOMAIN checker'.env /\ checker'.env[m] = d.env[m]
    OBVIOUS
  <2> QED
    BY <2>1, VettedFurther DEF Admits
<1>6. \A i \in 1 .. n + 1 : Vetted(checker', source'[i])
  <2>1. \A i \in 1 .. n : Vetted(checker', source[i])
    BY <1>3, <1>4, VettedFurther DEF Accepted
  <2>2. \A i \in 1 .. n + 1 : i # n + 1 => i \in 1 .. n
    BY <1>1
  <2> QED
    BY <1>1, <1>5, <2>1, <2>2
<1>7. ASSUME NEW i \in 1 .. n + 1, NEW j \in 1 .. n + 1, j < i, Binds(i)', Binds(j)'
      PROVE  Apart(i, j)'
  <2>1. j \in 1 .. n /\ source'[j] = source[j]
    BY <1>1, <1>7
  <2>2. source[j].kind = "let" /\ source[j].name \in DOMAIN checker.env
    BY <1>7, <2>1 DEF Binds, Accepted, Vetted
  <2>3. checker'.env[source[j].name] = checker.env[source[j].name]
    BY <1>3, <2>2
  <2>4. CASE i = n + 1
    <3>1. source'[i] = s /\ s.kind = "let"
      BY <1>1, <1>7, <2>4 DEF Binds
    <3>2. s.name # source[j].name
      BY <2>2, <3>1 DEF Admits
    <3>3. s.value.op = "snapshot" =>
             checker'.env[source[j].name].lineage # checker'.env[s.name].lineage
      BY <2>2, <3>1 DEF Admits
    <3> QED
      BY <2>1, <3>1, <3>2, <3>3 DEF Apart
  <2>5. CASE i # n + 1
    <3>1. i \in 1 .. n /\ source'[i] = source[i]
      BY <1>1, <2>5
    <3>2. source[i].kind = "let" /\ source[i].name \in DOMAIN checker.env
      BY <1>7, <3>1 DEF Binds, Accepted, Vetted
    <3>3. checker'.env[source[i].name] = checker.env[source[i].name]
      BY <1>3, <3>2
    <3>4. Apart(i, j)
      BY <1>7, <2>1, <2>2, <3>1, <3>2 DEF Accepted, Binds
    <3> QED
      BY <2>1, <2>3, <3>1, <3>3, <3>4 DEF Apart
  <2> QED
    BY <2>4, <2>5
<1> HIDE DEF n
<1> QED
  BY <1>1, <1>2, <1>6, <1>7 DEF Accepted

LEMMA WriteAccepts ==
    ASSUME Program, Accepted, WriteLet \/ WriteReturn
    PROVE  Accepted'
<1>1. IsList(source) /\ IsChecker(checker) /\ Scoped(checker) /\ setting' = setting /\ setting \in Settings
  BY DEF Program, Accepted, WriteLet, WriteReturn
<1>2. ToSet(checker'.diagnostics) \cap Essential = {}
  <2>1. ToSet(checker'.diagnostics) \subseteq setting.waived
    BY <1>1 DEF WriteLet, WriteReturn, Acceptable
  <2> QED
    BY <1>1, <2>1, DecisionAssumption
<1>3. CASE WriteLet
  <2>1. PICK e \in Writable, name \in {1, NextName} :
           /\ source' = Append(source, [kind |-> "let", name |-> name, value |-> e])
           /\ checker' = CheckStatement(checker, [kind |-> "let", name |-> name, value |-> e])
    BY <1>3 DEF WriteLet
  <2>2. PICK s : s = [kind |-> "let", name |-> name, value |-> e]
    OBVIOUS
  <2>3. s.kind = "let" /\ s.value = e
    BY <2>2
  <2>4. Admits(checker, s, checker')
    BY <1>1, <1>2, <2>1, <2>2, <2>3, WritableFacts, AdmitFacts
  <2>5. Extends(checker', checker')
    BY <2>4 DEF Admits, Extends, IsChecker
  <2>6. declared' = None /\ Acceptable(checker)'
    BY <1>1, <1>3 DEF WriteLet, Acceptable
  <2> QED
    BY <1>1, <2>1, <2>2, <2>4, <2>5, <2>6, AcceptOne
<1>4. CASE WriteReturn
  <2>1. PICK e \in Writable, effects \in setting.effects :
           /\ source' = Append(source, [kind |-> "return", value |-> e])
           /\ checker' = CheckEffects(CheckStatement(checker, [kind |-> "return", value |-> e]), effects)
           /\ declared' = effects
    BY <1>4 DEF WriteReturn
  <2>2. PICK s : s = [kind |-> "return", value |-> e]
    OBVIOUS
  <2>3. s.kind = "return" /\ s.value = e
    BY <2>2
  <2>4. PICK d : d = CheckStatement(checker, s)
    OBVIOUS
  <2>5. IsChecker(d)
    BY <1>1, <2>3, <2>4, WritableFacts, CheckStatementFacts DEF Kinds, Checked, Extends
  <2>6. effects \subseteq Effects
    BY <1>1, DecisionAssumption
  <2>7. checker' = CheckEffects(d, effects)
    BY <2>1, <2>2, <2>4
  <2>8. /\ Extends(d, checker') /\ checker'.env = d.env /\ checker'.used = d.used
        /\ checker'.snapshots = d.snapshots
        /\ d.used \subseteq effects \/ "F3001" \in ToSet(checker'.diagnostics)
    BY <2>5, <2>6, <2>7, CheckEffectsFacts
  <2>9. ToSet(d.diagnostics) \cap Essential = {}
    BY <1>2, <2>8 DEF Extends
  <2>10. Admits(checker, s, d)
    BY <1>1, <2>3, <2>4, <2>9, WritableFacts, AdmitFacts
  <2>11. checker'.used \subseteq declared'
    BY <1>2, <2>1, <2>8 DEF Essential
  <2>12. Acceptable(checker)'
    BY <1>1, <1>4 DEF WriteReturn, Acceptable
  <2> QED
    BY <1>1, <2>1, <2>2, <2>8, <2>10, <2>11, <2>12, AcceptOne
<1> QED
  BY <1>3, <1>4

LEMMA AcceptedFromTheStart == ASSUME Init PROVE Accepted
<1>1. PICK c : c = NewChecker
  OBVIOUS
<1>2. /\ IsChecker(c) /\ c.diagnostics = <<>> /\ c.env = <<>> /\ c.used = {}
  BY <1>1, EmptyList, FS_EmptySet DEF NewChecker, IsChecker
<1>3. Scoped(c) /\ Acceptable(c)
  BY <1>2 DEF Scoped, Acceptable, ToSet
<1>4. source = <<>> /\ Len(source) = 0 /\ declared = None /\ checker = c
  BY <1>1, EmptyList DEF Init
<1> QED
  BY <1>2, <1>3, <1>4 DEF Accepted

LEMMA AcceptedAfter ==
    ASSUME Program, Accepted, [Next]_vars
    PROVE  Accepted'
<1>1. CASE WriteLet \/ WriteReturn
  BY <1>1, WriteAccepts
<1>2. CASE UNCHANGED program
  BY <1>2 DEF Accepted, Acceptable, Binds, Apart, program
<1>3. ASSUME ReadSnapshot \/ Propose \/ ProviderFails \/ Compute \/ Commit \/ OutsideWrite
             \/ Save \/ Damage \/ Replay \/ ReplayStep \/ ReplayEnds \/ UNCHANGED vars
      PROVE  UNCHANGED program
  BY <1>3 DEF ReadSnapshot, Propose, ProviderFails, Compute, Commit, OutsideWrite,
       Save, Damage, Replay, ReplayStep, ReplayEnds, RefuseToken, NoRoomForCommit,
       CommitAgain, CommitStale, CommitApplies, CommitRaises, CommitAppliesThenRaises,
       vars, program
<1> QED
  BY <1>1, <1>2, <1>3 DEF Next

-----------------------------------------------------------------------------
(* What a step of the run makes of the machine: it rests where it is, or   *)
(* the current statement takes a value.                                    *)
SamePayloads(m, r) ==
    /\ Len(r.selections) = Len(m.selections)
    /\ \A i \in 1 .. Len(m.selections) : r.selections[i].payload = m.selections[i].payload
Rests(m, r) ==
    /\ Stays(m, r) /\ r.events = m.events /\ r.trials = m.trials /\ SamePayloads(m, r)
Reads(m, s, r) ==
    /\ s.value.op = "snapshot"
    /\ Moves(m, s, Value("snapshot", catalog), r)
    /\ Adds(m, r, [kind |-> "snapshot", data |-> catalog])
    /\ r.trials = m.trials /\ SamePayloads(m, r)
Proposal(m, e, plans) == [base |-> m.env[e.base].is, limit |-> e.limit, plans |-> plans]
Proposes(m, s, r) ==
    /\ s.value.op = "propose" /\ IsState(m.env, s.value.base)
    /\ \E plans \in setting.proposals :
          /\ Moves(m, s, Value("plans", plans), r)
          /\ Adds(m, r, [kind |-> "proposal", data |-> Proposal(m, s.value, plans)])
    /\ r.trials = m.trials /\ SamePayloads(m, r)
Computes(m, s, r) ==
    LET v == PureValue(m.env, None, s.value) IN
    /\ s.value.op \in {"var", "call", "simulate"} /\ v.kind # "error"
    /\ Moves(m, s, v, r)
    /\ r.events = m.events /\ r.trials = m.trials /\ SamePayloads(m, r)
Settles(m, s, r) ==
    /\ s.value.op = "commit" /\ s.value.resource = Catalog
    /\ \E v : v.kind = "outcome" /\ Moves(m, s, v, r)
    /\ \E event : event.kind = "commit" /\ Adds(m, r, event)
    /\ r.trials = m.trials /\ SamePayloads(m, r)
Steps(m, s, r) ==
    \/ Rests(m, r)
    \/ Reads(m, s, r)
    \/ Proposes(m, s, r)
    \/ s.value.op = "explore" /\ Explores(m, s, r)
    \/ s.value.op = "select" /\ Selects(m, s, r)
    \/ Computes(m, s, r)
    \/ Settles(m, s, r)
MayCall ==
    \/ calls' = calls
    \/ At("commit") /\ Committable(live, Current.value) /\ Called

LEMMA HaltsRests == ASSUME NEW m, NEW r, Halts(m, r) PROVE Rests(m, r)
BY DEF Halts, Rests, SamePayloads

LEMMA CommitSteps ==
    ASSUME RunInv, Commit
    PROVE  /\ Running /\ UNCHANGED program /\ MayCall
           /\ Steps(live, Current, live')
<1> DEFINE s == Current
           spent == Spend(live, Current.value)
<1>1. Running /\ At("commit") /\ UNCHANGED program /\ Live(live) /\ ~Ended(live)
  BY DEF Commit, RefuseToken, NoRoomForCommit, CommitAgain, CommitStale, CommitApplies,
         CommitRaises, CommitAppliesThenRaises, Calling, At, RunInv, Running
<1>2. MayCall
  BY DEF MayCall, Commit, RefuseToken, NoRoomForCommit, CommitAgain, CommitStale, CommitApplies,
         CommitRaises, CommitAppliesThenRaises, Calling
<1>3. /\ Live(spent) /\ ~Ended(spent) /\ Stays(live, spent) /\ (Fits(spent) <=> Fits(live))
      /\ spent.events = live.events /\ spent.trials = live.trials /\ SamePayloads(live, spent)
  BY <1>1, SpendFacts DEF SpentBy, SamePayloads
<1> HIDE DEF spent
<1>4. ASSUME Halts(spent, live') PROVE Rests(live, live')
  BY <1>3, <1>4 DEF Halts, Rests, Stays, SamePayloads
<1>5. CASE RefuseToken
  BY <1>1, <1>5, <1>2, FailFacts, HaltsRests DEF RefuseToken, Steps
<1>6. CASE NoRoomForCommit
  <2>1. PICK status \in Statuses : status = "evidence_limit"
    BY DEF Statuses
  <2>2. live' = Stop(spent, status)
    BY <1>6, <2>1 DEF NoRoomForCommit, Spent, spent
  <2> QED
    BY <1>1, <1>2, <1>3, <1>4, <2>2, StopFacts DEF Steps
<1>7. CASE Calling /\ AdapterError
  <2>1. PICK status \in Statuses : status = "commit_unresolved"
    BY DEF Statuses
  <2>2. live' = Stop(spent, status) \/ live' = Raise(spent)
    BY <1>7, <2>1 DEF AdapterError, Spent, spent
  <2>3. Halts(spent, live')
    BY <1>3, <2>2, StopFacts, FailFacts
  <2> QED
    BY <1>1, <1>2, <1>4, <2>3 DEF Steps
<1>8. ASSUME Calling, NEW status, NEW revision, Answer(status, revision)
      PROVE  Settles(live, s, live')
  <2>1. PICK outcome : live' = ExecCommit(spent, Current, Payload, OperationId, outcome)
    BY <1>8 DEF Answer, Spent, spent
  <2>2. PICK data, v : /\ live' = Finish(Observe(spent, "commit", data), Current, v)
                       /\ v = Value("outcome", outcome)
    BY <2>1 DEF ExecCommit
  <2>3. PICK kind : kind = "commit"
    OBVIOUS
  <2>4. Fits(spent)
    BY <1>3, <1>8 DEF Calling
  <2>5. /\ live'.trials = spent.trials /\ live'.selections = spent.selections
        /\ Moves(spent, s, v, live')
        /\ Adds(spent, live', [kind |-> kind, data |-> data])
    BY <1>3, <2>2, <2>3, <2>4, ObserveAndFinish
  <2>6. v.kind = "outcome"
    BY <2>2 DEF Value
  <2>7. Moves(live, s, v, live')
    BY <1>3, <2>5 DEF Moves, Stays
  <2>8. \E event : event.kind = "commit" /\ Adds(live, live', event)
    <3>1. PICK event : event = [kind |-> kind, data |-> data]
      OBVIOUS
    <3> QED
      BY <1>3, <2>3, <2>5, <3>1 DEF Adds
  <2>9. s.value.op = "commit" /\ s.value.resource = Catalog
    BY <1>1, <1>8 DEF At, Calling, Committable
  <2> QED
    BY <1>3, <2>5, <2>6, <2>7, <2>8, <2>9 DEF Settles, SamePayloads
<1>9. CASE CommitAgain \/ CommitStale \/ CommitApplies
  BY <1>1, <1>2, <1>8, <1>9 DEF CommitAgain, CommitStale, CommitApplies, Steps
<1> QED
  BY <1>5, <1>6, <1>7, <1>9 DEF Commit, CommitRaises, CommitAppliesThenRaises

LEMMA RunSteps ==
    ASSUME RunInv, ReadSnapshot \/ Propose \/ ProviderFails \/ Compute
    PROVE  /\ Running /\ UNCHANGED program /\ calls' = calls
           /\ Steps(live, Current, live')
<1> DEFINE s == Current
<1>1. Running /\ UNCHANGED <<program, calls>> /\ Live(live) /\ ~Ended(live)
  BY DEF ReadSnapshot, Propose, ProviderFails, Compute, At, Running, RunInv
<1>2. ASSUME Halts(live, live') PROVE Steps(live, s, live')
  BY <1>2, HaltsRests DEF Steps
<1>3. live'.selections = live.selections => SamePayloads(live, live')
  BY DEF SamePayloads
<1>4. CASE ReadSnapshot
  <2>1. PICK v, kind : v = Value("snapshot", catalog) /\ kind = "snapshot"
    OBVIOUS
  <2>2. live' = Finish(Observe(live, kind, catalog), s, v) /\ s.value.op = "snapshot"
    BY <1>4, <2>1 DEF ReadSnapshot, ExecSnapshot, At
  <2>3. /\ live'.trials = live.trials /\ live'.selections = live.selections
        /\ \/ Halts(live, live')
           \/ Moves(live, s, v, live') /\ Adds(live, live', [kind |-> kind, data |-> catalog])
    BY <1>1, <2>2, ObserveAndFinish
  <2> QED
    BY <1>1, <1>2, <1>3, <2>1, <2>2, <2>3 DEF Steps, Reads
<1>5. CASE Propose
  <2>1. PICK plans \in setting.proposals :
           live' = IF ProposalArguments(live, s.value)
                   THEN ExecPropose(live, s, plans)
                   ELSE Fail(live)
    BY <1>5 DEF Propose
  <2>2. CASE live' = Fail(live)
    BY <1>1, <1>2, <2>2, FailFacts
  <2>3. CASE live' = ExecPropose(live, s, plans) /\ IsState(live.env, s.value.base)
    <3>1. PICK v, kind : v = Value("plans", plans) /\ kind = "proposal"
      OBVIOUS
    <3>2. PICK data : data = Proposal(live, s.value, plans)
      OBVIOUS
    <3>3. live' = Finish(Observe(live, kind, data), s, v)
      BY <2>3, <3>1, <3>2 DEF ExecPropose, Proposal
    <3>4. /\ live'.trials = live.trials /\ live'.selections = live.selections
          /\ \/ Halts(live, live')
             \/ Moves(live, s, v, live') /\ Adds(live, live', [kind |-> kind, data |-> data])
      BY <1>1, <3>3, ObserveAndFinish
    <3>5. s.value.op = "propose"
      BY <1>5 DEF Propose, At
    <3> QED
      BY <1>1, <1>2, <1>3, <2>3, <3>1, <3>2, <3>4, <3>5 DEF Steps, Proposes
  <2> QED
    BY <2>1, <2>2, <2>3 DEF ProposalArguments
<1>6. CASE ProviderFails
  <2>1. PICK status \in Statuses : status = "provider_error"
    BY DEF Statuses
  <2>2. live' = Stop(live, status)
    BY <1>6, <2>1 DEF ProviderFails
  <2> QED
    BY <1>1, <1>2, <2>2, StopFacts
<1>7. CASE Compute
  <2>1. CASE At("explore") /\ live' = ExecExplore(live, s)
    BY <1>1, <1>2, <2>1, ExploreStep DEF Steps, At
  <2>2. CASE At("select") /\ live' = ExecSelect(live, s)
    BY <1>1, <1>2, <2>2, SelectStep DEF Steps, At
  <2>3. CASE /\ At("var") \/ At("call") \/ At("simulate")
             /\ live' = ExecPure(live, s)
    <3>1. s.value.op \in {"var", "call", "simulate"}
      BY <2>3 DEF At
    <3> QED
      BY <1>1, <1>2, <1>3, <2>3, <3>1, PureStep DEF Steps, Computes
  <2> QED
    BY <1>7, <2>1, <2>2, <2>3 DEF Compute
<1> QED
  BY <1>1, <1>4, <1>5, <1>6, <1>7

(* Statements that have been accepted and are being run.                   *)
LEMMA CurrentFacts ==
    ASSUME RunInv, Accepted, Running
    PROVE  /\ live.pc \in 1 .. Len(source) /\ Current = source[live.pc]
           /\ Vetted(checker, Current) /\ Needs(Current.value) \subseteq declared
BY DEF RunInv, Program, Running, Current, Accepted, Vetted

LEMMA EffectsStep ==
    ASSUME RunInv, Accepted, OnlyDeclaredEffects, Running, UNCHANGED program, MayCall,
           Steps(live, Current, live')
    PROVE  OnlyDeclaredEffects'
<1> DEFINE s == Current
<1>1. declared' = declared /\ Needs(s.value) \subseteq declared
  BY CurrentFacts DEF program
<1>2. IsList(live.events)
  BY DEF RunInv, Live, Sound
<1>3. \A i \in DOMAIN live.events : EffectNamed[live.events[i].kind] \subseteq declared
  BY DEF OnlyDeclaredEffects
<1>4. ASSUME NEW event, Adds(live, live', event), EffectNamed[event.kind] \subseteq Needs(s.value)
      PROVE  \A i \in DOMAIN live'.events : EffectNamed[live'.events[i].kind] \subseteq declared
  <2>1. /\ DOMAIN live'.events = 1 .. Len(live.events) + 1
        /\ live'.events[Len(live.events) + 1] = event
        /\ \A i \in 1 .. Len(live.events) : live'.events[i] = live.events[i]
        /\ DOMAIN live.events = 1 .. Len(live.events) /\ Len(live.events) \in Nat
    BY <1>2, <1>4, AppendFacts, ListFacts DEF Adds
  <2>2. \A i \in 1 .. Len(live.events) + 1 : i = Len(live.events) + 1 \/ i \in 1 .. Len(live.events)
    BY <2>1
  <2> QED
    BY <1>1, <1>3, <1>4, <2>1, <2>2
<1>5. ASSUME live'.events = live.events
      PROVE  \A i \in DOMAIN live'.events : EffectNamed[live'.events[i].kind] \subseteq declared
  BY <1>3, <1>5
<1>6. /\ EffectNamed["snapshot"] = {<<"Snapshot", Catalog>>}
      /\ EffectNamed["proposal"] = {<<"Infer", Planner>>}
      /\ EffectNamed["exploration"] = {<<"Explore", Catalog>>}
      /\ EffectNamed["selection"] = {}
      /\ EffectNamed["commit"] = {<<"Commit", Catalog>>}
  BY DEF EffectNamed, EventKinds
<1>7. \A i \in DOMAIN live'.events : EffectNamed[live'.events[i].kind] \subseteq declared
  <2>1. CASE Rests(live, live') \/ Computes(live, s, live')
    BY <1>5, <2>1 DEF Rests, Computes
  <2>2. CASE Reads(live, s, live')
    BY <1>4, <1>6, <2>2 DEF Reads, Needs
  <2>3. CASE Proposes(live, s, live')
    BY <1>4, <1>6, <2>3 DEF Proposes, Needs
  <2>4. CASE s.value.op = "explore" /\ Explores(live, s, live')
    BY <1>4, <1>6, <2>4 DEF Explores, Needs
  <2>5. CASE s.value.op = "select" /\ Selects(live, s, live')
    BY <1>4, <1>6, <2>5 DEF Selects, Needs
  <2>6. CASE Settles(live, s, live')
    BY <1>4, <1>6, <2>6 DEF Settles, Needs
  <2> QED
    BY <2>1, <2>2, <2>3, <2>4, <2>5, <2>6 DEF Steps
<1>8. calls' # <<>> => <<"Commit", Catalog>> \in declared
  <2>1. CASE calls' = calls
    BY <2>1 DEF OnlyDeclaredEffects
  <2>2. CASE At("commit") /\ Committable(live, s.value)
    BY <1>1, <2>2 DEF At, Committable, Needs
  <2> QED
    BY <2>1, <2>2 DEF MayCall
<1> QED
  BY <1>1, <1>7, <1>8 DEF OnlyDeclaredEffects

LEMMA EffectsKept ==
    RunInv /\ Accepted /\ OnlyDeclaredEffects /\ [Next]_vars => OnlyDeclaredEffects'
<1> SUFFICES ASSUME RunInv, Accepted, OnlyDeclaredEffects, [Next]_vars PROVE OnlyDeclaredEffects'
  OBVIOUS
<1>1. CASE WriteLet \/ WriteReturn
  <2>1. declared = None /\ calls' = calls
    BY <1>1 DEF WriteLet, WriteReturn
  <2>2. calls = <<>>
    BY <2>1 DEF RunInv, Program
  <2>3. live'.events = <<>>
    <3>1. \A budget : Machine(budget, None).events = <<>>
      BY MachineFacts
    <3>2. \E budget : live' = Machine(budget, None)
      BY <1>1, <2>1 DEF WriteLet, WriteReturn, RunInv, Program
    <3> QED
      BY <3>1, <3>2
  <2> QED
    BY <2>1, <2>2, <2>3 DEF OnlyDeclaredEffects
<1>2. CASE ReadSnapshot \/ Propose \/ ProviderFails \/ Compute
  BY <1>2, RunSteps, EffectsStep DEF MayCall
<1>3. CASE Commit
  BY <1>3, CommitSteps, EffectsStep
<1>4. CASE OutsideWrite \/ Save \/ Damage \/ Replay \/ ReplayStep \/ ReplayEnds \/ UNCHANGED vars
  <2>1. live' = live /\ calls' = calls /\ declared' = declared
    BY <1>4 DEF OutsideWrite, Save, Damage, Replay, ReplayStep, ReplayEnds, vars, program
  <2> QED
    BY <2>1 DEF OnlyDeclaredEffects
<1> QED
  BY <1>1, <1>2, <1>3, <1>4 DEF Next

LEMMA AcceptedKept == RunInv /\ Accepted /\ [Next]_vars => Accepted'
BY AcceptedAfter DEF RunInv

(* The checker has kept track of whatever is being run (Checker.check).    *)
THEOREM AcceptedThroughout == Spec => []Accepted
<1>1. Init => Accepted
  BY AcceptedFromTheStart
<1> QED
  BY <1>1, AcceptedKept, Inductive, PTL DEF Spec

(* A run does nothing its decision does not declare, of the effects the    *)
(* checker finds in the source (infer_expr, check_effects): no event of an *)
(* undeclared effect, no call of the adapter without Commit.               *)
THEOREM EffectsAreDeclared == Spec => []OnlyDeclaredEffects
<1>1. Init => OnlyDeclaredEffects
  <2>1. Init => live.events = <<>> /\ calls = <<>>
    BY MachineFacts DEF Init
  <2> QED
    BY <2>1 DEF OnlyDeclaredEffects
<1> QED
  BY <1>1, EffectsKept, Inductive, AcceptedThroughout, PTL DEF Spec
-----------------------------------------------------------------------------
(* Values have the types the methods of a resource ask for.                *)
Typed(v) ==
    /\ v.kind = "int" => v.is \in Nat
    /\ v.kind \in States => v.is \in Content
    /\ v.kind = "plan" => v.is \in Plans
TypedEnv(env) == \A n \in DOMAIN env : Typed(env[n])

LEMMA AppliedFacts ==
    ASSUME NEW base \in Content, NEW plan \in Plans
    PROVE  Applied(base, plan) \in Content
<1>1. PICK fields : fields = IF plan \in KeepsSource THEN base.source ELSE -1
  OBVIOUS
<1>2. fields \in Int
  BY <1>1 DEF Content
<1>3. Applied(base, plan) = [base EXCEPT !.units = plan, !.source = fields]
  BY <1>1 DEF Applied
<1> QED
  BY <1>2, <1>3 DEF Content

LEMMA SimulateTyped ==
    ASSUME NEW env, TypedEnv(env), NEW base \in {None} \cup Content, NEW e
    PROVE  Typed(SimulateValue(env, base, e))
<1>1. CASE base = None \/ e.method # "apply" \/ ~Has(env, e.plan, {"plan"})
  BY <1>1 DEF SimulateValue, Raised, Value, Typed, States
<1>2. CASE Has(env, e.plan, {"plan"}) /\ env[e.plan].is \notin KnownRows
  BY <1>2 DEF SimulateValue, Raised, Value, Typed, States
<1>3. CASE ~(base = None \/ e.method # "apply" \/ ~Has(env, e.plan, {"plan"}))
           /\ env[e.plan].is \in KnownRows
  <2>1. SimulateValue(env, base, e) = Value("simulated", Applied(base, env[e.plan].is))
    BY <1>3 DEF SimulateValue
  <2>2. env[e.plan].is \in Plans
    BY <1>3 DEF TypedEnv, Typed, Has
  <2>3. Applied(base, env[e.plan].is) \in Content
    BY <1>3, <2>2, AppliedFacts
  <2> QED
    BY <2>1, <2>3 DEF Value, Typed
<1> QED
  BY <1>1, <1>2, <1>3

LEMMA CallTyped ==
    ASSUME NEW env, TypedEnv(env), NEW e, IsList(e.args)
    PROVE  Typed(CallValue(env, e))
<1>1. CASE \/ e.target # Catalog
           \/ e.method \notin Methods
           \/ Len(e.args) # Arity[e.method]
           \/ \E i \in DOMAIN e.args : ~IsState(env, e.args[i])
  BY <1>1 DEF CallValue, Raised, Value, Typed, States
<1>2. CASE ~(\/ e.target # Catalog
             \/ e.method \notin Methods
             \/ Len(e.args) # Arity[e.method]
             \/ \E i \in DOMAIN e.args : ~IsState(env, e.args[i]))
  <2> DEFINE args == [i \in DOMAIN e.args |-> env[e.args[i]].is]
  <2>1. CallValue(env, e) = Value(Result[e.method], CallMethod(e.method, args))
    BY <1>2 DEF CallValue
  <2>2. CASE e.method # "unresolved_units"
    <3>1. Result[e.method] = "bool"
      BY <1>2, <2>2 DEF Result
    <3> QED
      BY <2>1, <3>1 DEF Value, Typed, States
  <2>3. CASE e.method = "unresolved_units"
    <3>1. Result[e.method] = "int" /\ Arity[e.method] = 1
      BY <1>2, <2>3 DEF Result, Arity, Methods
    <3>2. 1 \in DOMAIN e.args
      BY <1>2, <3>1, ListFacts
    <3>3. IsState(env, e.args[1])
      BY <1>2, <3>2
    <3>4. args[1] \in Content
      BY <3>2, <3>3 DEF IsState, Has, TypedEnv, Typed
    <3> HIDE DEF args
    <3>5. args[1].units \in Plans \cup {None}
      BY <3>4 DEF Content
    <3>6. CallMethod(e.method, args) = IF args[1].units = None THEN Unpriced ELSE Unresolved[args[1].units]
      BY <2>3 DEF CallMethod
    <3>7. CallMethod(e.method, args) \in Nat
      BY <3>5, <3>6, PlanAssumption
    <3> QED
      BY <2>1, <3>1, <3>7 DEF Value, Typed, States
  <2> QED
    BY <2>2, <2>3
<1> QED
  BY <1>1, <1>2

LEMMA PureTyped ==
    ASSUME NEW env, TypedEnv(env), NEW base \in {None} \cup Content, NEW e, Worded(e)
    PROVE  Typed(PureValue(env, base, e))
<1>1. Typed(Raised("internal"))
  BY DEF Raised, Value, Typed, States
<1>2. CASE e.op = "var"
  BY <1>1, <1>2 DEF PureValue, TypedEnv
<1>3. CASE e.op = "simulate"
  <2>1. PureValue(env, base, e) = SimulateValue(env, base, e)
    BY <1>3 DEF PureValue, BranchForbidden
  <2> QED
    BY <2>1, SimulateTyped
<1>4. CASE e.op = "call"
  <2>1. PureValue(env, base, e) = CallValue(env, e)
    BY <1>4 DEF PureValue, BranchForbidden
  <2>2. IsList(e.args)
    BY <1>4 DEF Worded
  <2> QED
    BY <2>1, <2>2, CallTyped
<1>5. CASE e.op \in BranchForbidden
  <2>1. e.op \notin {"var", "simulate", "call"}
    BY <1>5 DEF BranchForbidden
  <2> QED
    BY <1>1, <1>5, <2>1 DEF PureValue
<1> QED
  BY <1>2, <1>3, <1>4, <1>5 DEF Worded, Operations, BranchForbidden

(* A branch measures numbers.                                              *)
IsBranch(b) ==
    b = [env |-> b.env, checks |-> b.checks, metrics |-> b.metrics,
         simulations |-> b.simulations, error |-> b.error]
TypedBranch(b) ==
    /\ IsBranch(b) /\ TypedEnv(b.env)
    /\ \A m \in DOMAIN b.metrics : b.metrics[m] \in Nat

LEMMA BranchTyped ==
    ASSUME NEW b, TypedBranch(b), NEW base \in Content, NEW s, s.kind \in Kinds, Worded(s.value)
    PROVE  TypedBranch(BranchStep(base, b, s))
<1>1. PICK v : v = BranchValue(base, b, s)
  OBVIOUS
<1>2. /\ Typed(v)
      /\ s.kind = "measure" => v.kind \in {"int", "error"}
      /\ s.kind = "return" => v.kind = "error"
  <2>1. Typed(PureValue(b.env, base, s.value))
    BY PureTyped DEF TypedBranch
  <2>2. Typed(Raised("internal")) /\ Raised("internal").kind = "error"
    BY DEF Raised, Value, Typed, States
  <2> QED
    BY <1>1, <2>1, <2>2 DEF BranchValue
<1>3. PICK n : n = [b EXCEPT !.simulations = @ + IF s.value.op = "simulate" THEN 1 ELSE 0]
  OBVIOUS
<1>4. /\ IsBranch(n) /\ n.env = b.env /\ n.checks = b.checks /\ n.metrics = b.metrics
      /\ n.error = b.error
  BY <1>3 DEF TypedBranch, IsBranch
<1>5. CASE b.error # None
  BY <1>5 DEF BranchStep
<1>6. CASE b.error = None /\ v.kind = "error"
  <2>1. BranchStep(base, b, s) = [n EXCEPT !.error = v.is]
    BY <1>1, <1>3, <1>6 DEF BranchStep
  <2> QED
    BY <1>4, <2>1 DEF TypedBranch, IsBranch
<1>7. CASE b.error = None /\ v.kind # "error" /\ s.kind = "let"
  <2>1. PICK env : env = Assign(b.env, s.name, v)
    OBVIOUS
  <2>2. BranchStep(base, b, s) = [n EXCEPT !.env = env]
    BY <1>1, <1>3, <1>4, <1>7, <2>1 DEF BranchStep
  <2>3. TypedEnv(env)
    BY <1>2, <2>1 DEF TypedEnv, Assign, TypedBranch
  <2> QED
    BY <1>4, <2>2, <2>3 DEF TypedBranch, IsBranch
<1>8. CASE b.error = None /\ v.kind # "error" /\ s.kind = "check"
  <2>1. PICK checks : checks = Append(n.checks, v.is)
    OBVIOUS
  <2>2. BranchStep(base, b, s) = [n EXCEPT !.checks = checks]
    BY <1>1, <1>3, <1>4, <1>8, <2>1 DEF BranchStep
  <2> QED
    BY <1>4, <2>2 DEF TypedBranch, IsBranch
<1>9. CASE b.error = None /\ v.kind # "error" /\ s.kind = "measure"
  <2>1. PICK metrics : metrics = Assign(b.metrics, s.name, v.is)
    OBVIOUS
  <2>2. BranchStep(base, b, s) = [n EXCEPT !.metrics = metrics]
    BY <1>1, <1>3, <1>4, <1>9, <2>1 DEF BranchStep
  <2>3. v.is \in Nat
    BY <1>2, <1>9 DEF Typed
  <2>4. \A m \in DOMAIN metrics : metrics[m] \in Nat
    BY <2>1, <2>3 DEF Assign, TypedBranch
  <2> QED
    BY <1>4, <2>2, <2>4 DEF TypedBranch, IsBranch
<1> QED
  BY <1>2, <1>5, <1>6, <1>7, <1>8, <1>9 DEF Kinds

(* The branch of a plan, before the body and after each of its statements. *)
Started(env, plan) ==
    [env |-> Assign(env, Item, Value("plan", plan)),
     checks |-> <<>>, metrics |-> <<>>, simulations |-> 0, error |-> None]
TrialRun(env, e, base, plan, f, k) ==
    f = [i \in 0 .. k |-> IF i = 0 THEN Started(env, plan) ELSE BranchStep(base, f[i - 1], e.body[i])]

LEMMA TrialRuns ==
    ASSUME NEW env, NEW e, NEW base, NEW plan, NEW n \in Nat
    PROVE  \E f : TrialRun(env, e, base, plan, f, n)
<1> DEFINE S == {k \in 0 .. n : \E f : TrialRun(env, e, base, plan, f, k)}
<1>1. 0 \in S
  <2>1. PICK f : f = [i \in 0 .. 0 |-> Started(env, plan)]
    OBVIOUS
  <2>2. f = [i \in 0 .. 0 |-> IF i = 0 THEN Started(env, plan) ELSE BranchStep(base, f[i - 1], e.body[i])]
    BY <2>1
  <2> QED
    BY <2>2 DEF TrialRun
<1>2. ASSUME NEW k \in 0 .. n - 1, k \in S PROVE k + 1 \in S
  <2>1. PICK f : TrialRun(env, e, base, plan, f, k)
    BY <1>2
  <2>2. PICK x : x = BranchStep(base, f[k], e.body[k + 1])
    OBVIOUS
  <2>3. k \in Nat
    OBVIOUS
  <2>4. PICK g : g = [i \in 0 .. k + 1 |-> IF i = k + 1 THEN x ELSE f[i]]
    OBVIOUS
  <2>5. UpTo(g, k + 1) /\ (\A i \in 0 .. k : g[i] = f[i]) /\ g[k + 1] = x
    <3>1. UpTo(g, k + 1)
      BY <2>4 DEF UpTo
    <3>2. g[k + 1] = x
      BY <2>3, <2>4
    <3>3. \A i \in 0 .. k : i # k + 1 /\ i \in 0 .. k + 1
      BY <2>3
    <3>4. \A i \in 0 .. k : g[i] = f[i]
      BY <2>4, <3>3
    <3> QED
      BY <3>1, <3>2, <3>4
  <2>6. ASSUME NEW i \in 0 .. k + 1
        PROVE  g[i] = IF i = 0 THEN Started(env, plan) ELSE BranchStep(base, g[i - 1], e.body[i])
    <3>1. CASE i = k + 1
      <4>1. i # 0 /\ i - 1 = k /\ k \in 0 .. k
        BY <3>1
      <4>2. g[k] = f[k]
        BY <2>5, <4>1
      <4> QED
        BY <2>2, <2>5, <3>1, <4>1, <4>2
    <3>2. CASE i # k + 1
      <4>1. i \in 0 .. k /\ (i # 0 => i - 1 \in 0 .. k)
        BY <3>2
      <4>2. g[i] = f[i] /\ (i # 0 => g[i - 1] = f[i - 1])
        BY <2>5, <4>1
      <4>3. f[i] = IF i = 0 THEN Started(env, plan) ELSE BranchStep(base, f[i - 1], e.body[i])
        BY <2>1, <4>1 DEF TrialRun
      <4> QED
        BY <4>2, <4>3
    <3> QED
      BY <3>1, <3>2
  <2>7. TrialRun(env, e, base, plan, g, k + 1)
    BY <2>5, <2>6 DEF TrialRun, UpTo
  <2> QED
    BY <2>7
<1>3. \A i \in 0 .. n : i \in S
  <2> HIDE DEF S
  <2> QED
    BY <1>1, <1>2, Climbs
<1> QED
  BY <1>3

(* A trial is eligible if it raised nothing and passed its checks.         *)
Clear(x) == x.error = None /\ \A i \in DOMAIN x.checks : x.checks[i]
TrialOf(x, plan, base) ==
    /\ x.plan = plan /\ x.base = base
    /\ x.eligible = TRUE <=> Clear(x)
    /\ \A m \in DOMAIN x.metrics : x.metrics[m] \in Nat

LEMMA TrialRecord ==
    ASSUME NEW plan, NEW base, NEW checks, NEW metrics, NEW error, NEW x,
           x = [plan |-> plan, base |-> base, checks |-> checks, metrics |-> metrics,
                error |-> error,
                eligible |-> error = None /\ (\A i \in DOMAIN checks : checks[i])],
           \A m \in DOMAIN metrics : metrics[m] \in Nat
    PROVE  TrialOf(x, plan, base)
<1>1. /\ x.plan = plan /\ x.base = base /\ x.checks = checks /\ x.metrics = metrics /\ x.error = error
  OBVIOUS
<1>2. x.eligible = (error = None /\ \A i \in DOMAIN checks : checks[i])
  OBVIOUS
<1>3. x.eligible = TRUE <=> (error = None /\ \A i \in DOMAIN checks : checks[i])
  BY <1>2
<1>4. x.eligible = TRUE <=> Clear(x)
  BY <1>1, <1>3 DEF Clear
<1> QED
  BY <1>1, <1>4 DEF TrialOf

LEMMA TrialFacts ==
    ASSUME NEW env, TypedEnv(env), NEW e, e.body \in Bodies, NEW base \in Content, NEW plan \in Plans
    PROVE  TrialOf(Trial(env, e, base, plan), plan, base)
<1> DEFINE n == Len(e.body)
<1>1. n \in Nat /\ DOMAIN e.body = 1 .. n
  BY ListFacts, BodiesAssumption DEF Nesting, Flat, Parsed
<1>2. PICK h : h = CHOOSE f : TrialRun(env, e, base, plan, f, n)
  OBVIOUS
<1>3. TrialRun(env, e, base, plan, h, n)
  BY <1>1, <1>2, TrialRuns
<1> DEFINE error == IF h[n].error = None /\ h[n].simulations # 1 THEN "internal" ELSE h[n].error
<1>4. Trial(env, e, base, plan)
        = [plan |-> plan, base |-> base, checks |-> h[n].checks, metrics |-> h[n].metrics,
           error |-> error,
           eligible |-> error = None /\ (\A i \in DOMAIN h[n].checks : h[n].checks[i])]
  BY <1>2 DEF Trial, TrialRun, Started
<1> DEFINE S == {k \in 0 .. n : TypedBranch(h[k])}
<1>5. 0 \in S
  <2>1. h[0] = Started(env, plan)
    BY <1>1, <1>3 DEF TrialRun
  <2>2. Typed(Value("plan", plan))
    BY DEF Typed, Value, States
  <2>3. TypedEnv(Assign(env, Item, Value("plan", plan)))
    BY <2>2 DEF TypedEnv, Assign
  <2>4. PICK within : within = Assign(env, Item, Value("plan", plan))
    OBVIOUS
  <2>5. h[0] = [env |-> within, checks |-> <<>>, metrics |-> <<>>, simulations |-> 0, error |-> None]
    BY <2>1, <2>4 DEF Started
  <2>6. TypedBranch(h[0])
    BY <2>3, <2>4, <2>5 DEF TypedBranch, IsBranch
  <2> QED
    BY <1>1, <2>6
<1>6. ASSUME NEW k \in 0 .. n - 1, k \in S PROVE k + 1 \in S
  <2>1. k + 1 \in 1 .. n /\ k + 1 \in 0 .. n /\ k + 1 # 0 /\ (k + 1) - 1 = k
    BY <1>1
  <2>2. h[k + 1] = BranchStep(base, h[k], e.body[k + 1])
    BY <1>3, <2>1 DEF TrialRun
  <2>3. PICK s : s = e.body[k + 1]
    OBVIOUS
  <2>4. s.kind \in Kinds /\ Worded(s.value)
    BY <1>1, <2>1, <2>3, BodiesAssumption DEF Nesting, Flat, Parsed, Worded
  <2>5. TypedBranch(h[k + 1])
    BY <1>6, <2>2, <2>3, <2>4, BranchTyped
  <2> QED
    BY <2>1, <2>5
<1>7. TypedBranch(h[n])
  <2>1. \A i \in 0 .. n : i \in S
    <3> HIDE DEF S, n
    <3> QED
      BY <1>1, <1>5, <1>6, Climbs
  <2> QED
    BY <1>1, <2>1
<1>8. PICK checks, metrics : checks = h[n].checks /\ metrics = h[n].metrics
  OBVIOUS
<1>9. \A m \in DOMAIN metrics : metrics[m] \in Nat
  BY <1>7, <1>8 DEF TypedBranch
<1> HIDE DEF error, n
<1> QED
  BY <1>4, <1>8, <1>9, TrialRecord
-----------------------------------------------------------------------------
(* `select' finds a best trial, if there is one that is eligible.          *)
LEMMA Least ==
    ASSUME NEW T, T \subseteq Nat, T # {}
    PROVE  \E i \in T : \A j \in T : i <= j
<1>1. PICK R : IsWellFoundedOn(R, Nat) /\ R = {ss \in Nat \X Nat : ss[1] < ss[2]}
  BY NatLessThanWellFounded DEF OpToRel
<1>2. PICK i \in T : \A j \in T : <<j, i>> \notin R
  BY <1>1, WFMin
<1>3. \A j \in T : ~(j < i)
  BY <1>1, <1>2
<1>4. \A j \in T : i <= j
  BY <1>2, <1>3
<1> QED
  BY <1>2, <1>4

LEMMA ChosenFacts ==
    ASSUME NEW trials, NEW metric, Eligible(trials) # {},
           \A x \in Eligible(trials) : x.metrics[metric] \in Nat /\ x.plan \in Nat
    PROVE  /\ Chosen(trials, metric) \in Eligible(trials)
           /\ \A other \in Eligible(trials) : Better(Chosen(trials, metric), other, metric)
<1> DEFINE E == Eligible(trials)
           scores == {x.metrics[metric] : x \in E}
<1>1. PICK least \in scores : \A other \in scores : least <= other
  <2>1. scores \subseteq Nat /\ scores # {}
    OBVIOUS
  <2> HIDE DEF scores
  <2> QED
    BY <2>1, Least
<1> DEFINE leading == {x \in E : x.metrics[metric] = least}
           plans == {x.plan : x \in leading}
<1>2. PICK first \in plans : \A other \in plans : first <= other
  <2>1. plans \subseteq Nat /\ plans # {}
    BY <1>1
  <2> HIDE DEF plans
  <2> QED
    BY <2>1, Least
<1>3. PICK best \in leading : best.plan = first
  BY <1>2
<1>4. ASSUME NEW other \in E PROVE Better(best, other, metric)
  <2>1. best \in E /\ best.metrics[metric] = least
    BY <1>3
  <2>2. least <= other.metrics[metric]
    BY <1>1
  <2>3. least \in Nat /\ other.metrics[metric] \in Nat
    BY <2>1
  <2>4. CASE other.metrics[metric] = least
    <3>1. other.plan \in plans
      BY <2>4
    <3>2. best.plan <= other.plan
      BY <1>2, <1>3, <3>1
    <3> QED
      BY <2>1, <2>4, <3>2 DEF Better
  <2>5. CASE other.metrics[metric] # least
    <3>1. least < other.metrics[metric]
      BY <2>2, <2>3, <2>5
    <3> QED
      BY <2>1, <3>1 DEF Better
  <2> QED
    BY <2>4, <2>5
<1>5. \E trial \in Eligible(trials) : \A other \in Eligible(trials) : Better(trial, other, metric)
  BY <1>3, <1>4
<1> QED
  BY <1>5 DEF Chosen

-----------------------------------------------------------------------------
(* Where what is committed comes from.                                     *)
ProposedIn(events, plan, base) ==
    \E i \in DOMAIN events :
        /\ events[i].kind = "proposal"
        /\ events[i].data.base = base
        /\ plan \in ToSet(events[i].data.plans)
Tried(m, trials) ==
    \A i \in DOMAIN trials :
        \E plan \in Plans, base \in Content :
            TrialOf(trials[i], plan, base) /\ ProposedIn(m.events, plan, base)
Justifies(m, payload) ==
    /\ ProposedIn(m.events, payload.plan, payload.base)
    /\ \E t \in DOMAIN m.trials : BestOf(m.trials[t], payload)

(* A machine remembers what was proposed and tried.                        *)
Remembers(m, r) ==
    /\ \A i \in DOMAIN m.events : i \in DOMAIN r.events /\ r.events[i] = m.events[i]
    /\ \A t \in DOMAIN m.trials : t \in DOMAIN r.trials /\ r.trials[t] = m.trials[t]

LEMMA RemembersFacts ==
    ASSUME NEW m, NEW r, Remembers(m, r)
    PROVE  /\ \A plan, base : ProposedIn(m.events, plan, base) => ProposedIn(r.events, plan, base)
           /\ \A trials : Tried(m, trials) => Tried(r, trials)
           /\ \A payload : Justifies(m, payload) => Justifies(r, payload)
<1>1. \A plan, base : ProposedIn(m.events, plan, base) => ProposedIn(r.events, plan, base)
  BY DEF Remembers, ProposedIn
<1>2. \A trials : Tried(m, trials) => Tried(r, trials)
  BY <1>1 DEF Tried
<1>3. \A payload : Justifies(m, payload) => Justifies(r, payload)
  BY <1>1 DEF Justifies, Remembers
<1> QED
  BY <1>1, <1>2, <1>3

LEMMA StepsRemember ==
    ASSUME NEW m, Live(m), NEW s, NEW r, Steps(m, s, r)
    PROVE  Remembers(m, r)
<1>1. IsList(m.events) /\ IsList(m.trials)
  BY DEF Live, Sound
<1>2. ASSUME NEW event, Adds(m, r, event)
      PROVE  \A i \in DOMAIN m.events : i \in DOMAIN r.events /\ r.events[i] = m.events[i]
  BY <1>1, <1>2, AppendFacts, ListFacts DEF Adds
<1>3. \/ r.events = m.events
      \/ \E event : Adds(m, r, event)
  BY DEF Steps, Rests, Reads, Proposes, Explores, Selects, Computes, Settles
<1>4. \/ r.trials = m.trials
      \/ \E trials : r.trials = Append(m.trials, trials)
  BY DEF Steps, Rests, Reads, Proposes, Explores, Selects, Computes, Settles
<1>5. \A t \in DOMAIN m.trials : t \in DOMAIN r.trials /\ r.trials[t] = m.trials[t]
  <2>1. CASE r.trials = m.trials
    BY <2>1
  <2>2. CASE \E trials : r.trials = Append(m.trials, trials)
    BY <1>1, <2>2, AppendFacts, ListFacts
  <2> QED
    BY <1>4, <2>1, <2>2
<1> QED
  BY <1>2, <1>3, <1>5 DEF Remembers

(* The invariant: names stand for values that descend from the snapshots   *)
(* the checker says they descend from, plans were proposed for theirs.     *)
BoundBefore(m) ==
    \A n \in DOMAIN m.env : \E j \in 1 .. m.pc - 1 : Binds(j) /\ source[j].name = n
AtTop(m, v) ==
    /\ Typed(v) /\ v.kind # "simulated"
    /\ v.kind = "plans" => v.is \in Seq(Plans \cup {Malformed})
    /\ v.kind = "trials" => v.is \in DOMAIN m.trials
AgreeOn(events, v, w) ==
    w.kind = "snapshot" =>
        /\ v.kind = "snapshot" => v.is = w.is
        /\ v.kind = "plans" => \A plan \in ToSet(v.is) : ProposedIn(events, plan, w.is)
Descends(c, m) ==
    \A a, b \in DOMAIN m.env :
        c.env[a].lineage = c.env[b].lineage => AgreeOn(m.events, m.env[a], m.env[b])
Environment(m) ==
    /\ BoundBefore(m)
    /\ \A n \in DOMAIN m.env : AtTop(m, m.env[n])
    /\ Descends(checker, m)
Justified ==
    /\ catalog \in Content
    /\ Environment(live)
    /\ \A t \in DOMAIN live.trials : Tried(live, live.trials[t])
    /\ \A k \in DOMAIN live.selections : Justifies(live, live.selections[k].payload)
    /\ \A i \in DOMAIN calls : Justifies(live, calls[i].payload)

(* A value that may take a name.                                           *)
MayBind(c, m, r, name, v) ==
    /\ AtTop(r, v)
    /\ \A a \in DOMAIN m.env :
          c.env[a].lineage = c.env[name].lineage =>
              AgreeOn(r.events, m.env[a], v) /\ AgreeOn(r.events, v, m.env[a])

LEMMA KeepsEnvironment ==
    ASSUME NEW m, NEW r, Environment(m), Remembers(m, r), Stays(m, r)
    PROVE  Environment(r)
<1>1. \A v, w : AgreeOn(m.events, v, w) => AgreeOn(r.events, v, w)
  BY RemembersFacts DEF AgreeOn
<1>2. \A v : AtTop(m, v) => AtTop(r, v)
  BY DEF AtTop, Remembers
<1>3. r.env = m.env /\ r.pc = m.pc
  BY DEF Stays
<1>4. BoundBefore(r)
  BY <1>3 DEF Environment, BoundBefore
<1>5. Descends(checker, r)
  BY <1>1, <1>3 DEF Environment, Descends
<1>6. \A n \in DOMAIN r.env : AtTop(r, r.env[n])
  BY <1>2, <1>3 DEF Environment
<1> QED
  BY <1>4, <1>5, <1>6 DEF Environment

LEMMA BindsInEnvironment ==
    ASSUME Accepted, IsList(source), NEW m, NEW r, Environment(m), Remembers(m, r),
           m.pc \in 1 .. Len(source), Binds(m.pc), NEW v,
           r.pc = m.pc + 1, r.env = Assign(m.env, source[m.pc].name, v),
           MayBind(checker, m, r, source[m.pc].name, v)
    PROVE  Environment(r)
<1> DEFINE name == source[m.pc].name
<1>1. \A x, y : AgreeOn(m.events, x, y) => AgreeOn(r.events, x, y)
  BY RemembersFacts DEF AgreeOn
<1>2. \A x : AtTop(m, x) => AtTop(r, x)
  BY DEF AtTop, Remembers
<1>3. m.pc \in Nat /\ Len(source) \in Nat
  BY ListFacts
<1>4. \A n \in DOMAIN m.env : n # name
  <2>1. SUFFICES ASSUME NEW n \in DOMAIN m.env PROVE n # name
    OBVIOUS
  <2>2. PICK j \in 1 .. m.pc - 1 : Binds(j) /\ source[j].name = n
    BY DEF Environment, BoundBefore
  <2>3. j \in 1 .. Len(source) /\ j < m.pc
    BY <1>3
  <2>4. Apart(m.pc, j)
    BY <2>2, <2>3 DEF Accepted
  <2> QED
    BY <2>2, <2>4 DEF Apart
<1>5. /\ DOMAIN r.env = DOMAIN m.env \cup {name}
      /\ r.env[name] = v
      /\ \A n \in DOMAIN m.env : r.env[n] = m.env[n]
  BY <1>4 DEF Assign
<1>6. BoundBefore(r)
  <2>1. \A n \in DOMAIN m.env : \E j \in 1 .. m.pc : Binds(j) /\ source[j].name = n
    <3>1. \A j \in 1 .. m.pc - 1 : j \in 1 .. m.pc
      BY <1>3
    <3> QED
      BY <3>1 DEF Environment, BoundBefore
  <2>2. \A n \in DOMAIN r.env : \E j \in 1 .. m.pc : Binds(j) /\ source[j].name = n
    <3>1. m.pc \in 1 .. m.pc
      BY <1>3
    <3> QED
      BY <1>5, <2>1, <3>1
  <2>3. r.pc - 1 = m.pc
    BY <1>3
  <2> QED
    BY <2>2, <2>3 DEF BoundBefore
<1>7. \A n \in DOMAIN r.env : AtTop(r, r.env[n])
  BY <1>2, <1>5 DEF Environment, MayBind
<1>8. ASSUME NEW a \in DOMAIN r.env, NEW b \in DOMAIN r.env,
             checker.env[a].lineage = checker.env[b].lineage
      PROVE  AgreeOn(r.events, r.env[a], r.env[b])
  <2>1. CASE a \in DOMAIN m.env /\ b \in DOMAIN m.env
    <3>1. AgreeOn(m.events, m.env[a], m.env[b])
      BY <1>8, <2>1 DEF Environment, Descends
    <3> QED
      BY <1>1, <1>5, <2>1, <3>1
  <2>2. CASE a = name /\ b \in DOMAIN m.env
    BY <1>5, <1>8, <2>2 DEF MayBind
  <2>3. CASE a \in DOMAIN m.env /\ b = name
    BY <1>5, <1>8, <2>3 DEF MayBind
  <2>4. CASE a = name /\ b = name
    BY <2>4 DEF AgreeOn
  <2> QED
    BY <1>5, <2>1, <2>2, <2>3, <2>4
<1> QED
  BY <1>6, <1>7, <1>8 DEF Environment, Descends

Registries(m) ==
    /\ \A t \in DOMAIN m.trials : Tried(m, m.trials[t])
    /\ \A k \in DOMAIN m.selections : Justifies(m, m.selections[k].payload)

LEMMA MovesEnvironment ==
    ASSUME RunInv, Accepted, Running, Environment(live), NEW r, Remembers(live, r),
           NEW v, Moves(live, Current, v, r),
           Current.kind = "let" => MayBind(checker, live, r, Current.name, v)
    PROVE  Environment(r)
<1>1. /\ live.pc \in 1 .. Len(source) /\ Current = source[live.pc] /\ IsList(source)
  BY CurrentFacts DEF RunInv, Program
<1>2. CASE Current.kind = "let"
  <2>1. r.pc = live.pc + 1 /\ r.env = Assign(live.env, Current.name, v)
    BY <1>2 DEF Moves
  <2> QED
    BY <1>1, <1>2, <2>1, BindsInEnvironment DEF Binds
<1>3. CASE Current.kind # "let"
  <2>1. Stays(live, r)
    BY <1>3 DEF Moves
  <2> QED
    BY <2>1, KeepsEnvironment
<1> QED
  BY <1>2, <1>3

LEMMA KeepsRegistries ==
    ASSUME NEW m, Live(m), NEW r, Live(r), Registries(m), Remembers(m, r),
           r.trials = m.trials, SamePayloads(m, r)
    PROVE  Registries(r)
<1>1. \A t \in DOMAIN r.trials : Tried(r, r.trials[t])
  BY RemembersFacts DEF Registries
<1>2. DOMAIN m.selections = 1 .. Len(m.selections) /\ DOMAIN r.selections = 1 .. Len(m.selections)
  BY ListFacts DEF Live, Sound, SamePayloads
<1>3. ASSUME NEW k \in DOMAIN r.selections PROVE Justifies(r, r.selections[k].payload)
  <2>1. r.selections[k].payload = m.selections[k].payload /\ k \in DOMAIN m.selections
    BY <1>2 DEF SamePayloads
  <2> QED
    BY <2>1, RemembersFacts DEF Registries
<1> QED
  BY <1>1, <1>3 DEF Registries

(* Values that are neither snapshots nor plans may take any name.          *)
LEMMA OtherValues ==
    ASSUME NEW c, NEW m, NEW r, NEW name, NEW v, AtTop(r, v), v.kind \notin {"snapshot", "plans"}
    PROVE  MayBind(c, m, r, name, v)
BY DEF MayBind, AgreeOn

LEMMA ReadsJustified ==
    ASSUME RunInv, Accepted, Running, Justified, NEW r, Live(r), Reads(live, Current, r)
    PROVE  Environment(r) /\ Registries(r)
<1> DEFINE v == Value("snapshot", catalog)
<1>1. Live(live) /\ Environment(live) /\ Registries(live) /\ Remembers(live, r)
  BY StepsRemember DEF RunInv, Justified, Registries, Steps
<1>2. Registries(r)
  BY <1>1, KeepsRegistries DEF Reads
<1>3. v.kind = "snapshot" /\ v.is = catalog
  BY DEF Value
<1>4. AtTop(r, v)
  BY <1>3 DEF AtTop, Typed, States, Justified
<1>5. ASSUME Current.kind = "let", NEW a \in DOMAIN live.env
      PROVE  checker.env[a].lineage # checker.env[Current.name].lineage
  <2>1. PICK j \in 1 .. live.pc - 1 : Binds(j) /\ source[j].name = a
    BY <1>1 DEF Environment, BoundBefore
  <2>2. live.pc \in 1 .. Len(source) /\ Current = source[live.pc] /\ Len(source) \in Nat
    BY CurrentFacts, ListFacts DEF RunInv, Program
  <2>3. j \in 1 .. Len(source) /\ j < live.pc
    BY <2>2
  <2>4. Apart(live.pc, j)
    BY <1>5, <2>1, <2>2, <2>3 DEF Accepted, Binds
  <2> QED
    BY <2>1, <2>2, <2>4 DEF Apart, Reads
<1>6. Current.kind = "let" => MayBind(checker, live, r, Current.name, v)
  BY <1>4, <1>5 DEF MayBind
<1> HIDE DEF v
<1>7. Moves(live, Current, v, r)
  BY DEF Reads, v
<1> QED
  BY <1>1, <1>2, <1>6, <1>7, MovesEnvironment

LEMMA ProposesJustified ==
    ASSUME RunInv, Accepted, Running, Justified, NEW r, Live(r), Proposes(live, Current, r)
    PROVE  Environment(r) /\ Registries(r)
<1> DEFINE e == Current.value
<1>1. Live(live) /\ Environment(live) /\ Registries(live) /\ Remembers(live, r)
  BY StepsRemember DEF RunInv, Justified, Registries, Steps
<1>2. Registries(r)
  BY <1>1, KeepsRegistries DEF Proposes
<1>3. PICK plans \in setting.proposals :
         /\ Moves(live, Current, Value("plans", plans), r)
         /\ Adds(live, r, [kind |-> "proposal", data |-> Proposal(live, e, plans)])
  BY DEF Proposes
<1>4. PICK v : v = Value("plans", plans)
  OBVIOUS
<1>5. v.kind = "plans" /\ v.is = plans
  BY <1>4 DEF Value
<1>6. AtTop(r, v)
  <2>1. plans \in Seq(Plans \cup {Malformed})
    BY DecisionAssumption DEF RunInv, Program
  <2> QED
    BY <1>5, <2>1 DEF AtTop, Typed, States
<1>7. e.base \in DOMAIN live.env /\ live.env[e.base].kind = "snapshot"
  BY <1>1 DEF Proposes, IsState, Has, States, Environment, AtTop
<1>8. \A plan \in ToSet(plans) : ProposedIn(r.events, plan, live.env[e.base].is)
  <2>1. PICK data, kind : data = Proposal(live, e, plans) /\ kind = "proposal"
    OBVIOUS
  <2>2. PICK event : event = [kind |-> kind, data |-> data]
    OBVIOUS
  <2>3. r.events = Append(live.events, event)
    BY <1>3, <2>1, <2>2 DEF Adds
  <2>4. /\ Len(live.events) + 1 \in DOMAIN r.events
        /\ r.events[Len(live.events) + 1] = event
    BY <1>1, <2>3, AppendFacts, ListFacts DEF Live, Sound
  <2>5. event.kind = "proposal" /\ event.data.base = live.env[e.base].is /\ event.data.plans = plans
    BY <2>1, <2>2 DEF Proposal
  <2> QED
    BY <2>4, <2>5 DEF ProposedIn
<1>9. Current.kind = "let" => MayBind(checker, live, r, Current.name, v)
  <2>1. SUFFICES ASSUME Current.kind = "let", NEW a \in DOMAIN live.env,
                        checker.env[a].lineage = checker.env[Current.name].lineage
                 PROVE  AgreeOn(r.events, live.env[a], v) /\ AgreeOn(r.events, v, live.env[a])
    BY <1>6 DEF MayBind
  <2>2. checker.env[e.base].lineage = checker.env[Current.name].lineage
    BY <2>1, CurrentFacts DEF Vetted, SameLineage, Proposes
  <2>3. live.env[a].kind = "snapshot" => live.env[a].is = live.env[e.base].is
    <3>1. AgreeOn(live.events, live.env[a], live.env[e.base])
      BY <1>1, <1>7, <2>1, <2>2 DEF Environment, Descends
    <3> QED
      BY <1>7, <3>1 DEF AgreeOn
  <2> QED
    BY <1>5, <1>8, <2>3 DEF AgreeOn
<1> QED
  BY <1>1, <1>2, <1>3, <1>4, <1>9, MovesEnvironment

LEMMA ComputesJustified ==
    ASSUME RunInv, Accepted, Running, Justified, NEW r, Live(r), Computes(live, Current, r)
    PROVE  Environment(r) /\ Registries(r)
<1> DEFINE e == Current.value
<1>1. Live(live) /\ Environment(live) /\ Registries(live) /\ Remembers(live, r)
  BY StepsRemember DEF RunInv, Justified, Registries, Steps
<1>2. Registries(r)
  BY <1>1, KeepsRegistries DEF Computes
<1>3. PICK v : v = PureValue(live.env, None, e)
  OBVIOUS
<1>4. Moves(live, Current, v, r) /\ v.kind # "error" /\ e.op \in {"var", "call", "simulate"}
  BY <1>3 DEF Computes
<1>5. CASE e.op = "var"
  <2>1. PureValue(live.env, None, e) = IF e.name \in DOMAIN live.env THEN live.env[e.name] ELSE Raised("internal")
    BY <1>5 DEF PureValue, BranchForbidden
  <2>2. e.name \in DOMAIN live.env /\ v = live.env[e.name]
    BY <1>3, <1>4, <2>1 DEF Raised, Value
  <2>3. AtTop(r, v)
    BY <1>1, <2>2 DEF Environment, AtTop, Remembers
  <2>4. Current.kind = "let" => MayBind(checker, live, r, Current.name, v)
    <3>1. SUFFICES ASSUME Current.kind = "let", NEW a \in DOMAIN live.env,
                          checker.env[a].lineage = checker.env[Current.name].lineage
                   PROVE  AgreeOn(r.events, live.env[a], v) /\ AgreeOn(r.events, v, live.env[a])
      BY <2>3 DEF MayBind
    <3>2. checker.env[e.name].lineage = checker.env[a].lineage
      BY <1>5, <3>1, CurrentFacts DEF Vetted, SameLineage
    <3>3. AgreeOn(live.events, live.env[a], v) /\ AgreeOn(live.events, v, live.env[a])
      BY <1>1, <2>2, <3>1, <3>2 DEF Environment, Descends
    <3>4. r.events = live.events
      BY DEF Computes
    <3> QED
      BY <3>3, <3>4
  <2> QED
    BY <1>1, <1>2, <1>4, <2>4, MovesEnvironment
<1>6. CASE e.op = "simulate"
  <2>1. PureValue(live.env, None, e) = SimulateValue(live.env, None, e)
    BY <1>6 DEF PureValue, BranchForbidden
  <2>2. v.kind = "error"
    BY <1>3, <2>1 DEF SimulateValue, Raised, Value
  <2> QED
    BY <1>4, <2>2
<1>7. CASE e.op = "call"
  <2>1. PureValue(live.env, None, e) = CallValue(live.env, e)
    BY <1>7 DEF PureValue, BranchForbidden
  <2>2. v.kind \in {"int", "bool", "error"}
    <3>1. CASE \/ e.target # Catalog
               \/ e.method \notin Methods
               \/ Len(e.args) # Arity[e.method]
               \/ \E i \in DOMAIN e.args : ~IsState(live.env, e.args[i])
      BY <1>3, <2>1, <3>1 DEF CallValue, Raised, Value
    <3>2. CASE ~(\/ e.target # Catalog
                 \/ e.method \notin Methods
                 \/ Len(e.args) # Arity[e.method]
                 \/ \E i \in DOMAIN e.args : ~IsState(live.env, e.args[i]))
      <4>1. PICK x : v = Value(Result[e.method], x)
        BY <1>3, <2>1, <3>2 DEF CallValue
      <4>2. Result[e.method] \in {"int", "bool"}
        BY <3>2 DEF Result
      <4> QED
        BY <4>1, <4>2 DEF Value
    <3> QED
      BY <3>1, <3>2
  <2>3. Typed(v)
    <3>1. TypedEnv(live.env)
      BY <1>1 DEF Environment, AtTop, TypedEnv
    <3>2. IsList(e.args)
      BY <1>7, CurrentFacts DEF Vetted, Worded
    <3> QED
      BY <1>3, <2>1, <3>1, <3>2, CallTyped
  <2>4. AtTop(r, v) /\ v.kind \notin {"snapshot", "plans"}
    BY <2>2, <2>3 DEF AtTop
  <2>5. MayBind(checker, live, r, Current.name, v)
    BY <2>4, OtherValues
  <2> QED
    BY <1>1, <1>2, <1>4, <2>5, MovesEnvironment
<1> QED
  BY <1>4, <1>5, <1>6, <1>7

LEMMA TriedFacts ==
    ASSUME RunInv, Accepted, Running, Justified, NEW r, Explores(live, Current, r),
           Current.value.op = "explore"
    PROVE  Tried(live, TrialsOf(live, Current.value))
<1> DEFINE e == Current.value
           plans == live.env[e.plans].is
           base == live.env[e.base].is
<1>1. Environment(live) /\ {e.plans, e.base} \subseteq DOMAIN live.env /\ TypedEnv(live.env)
  BY DEF Justified, Explores, Environment, AtTop, TypedEnv
<1>2. SUFFICES ASSUME NEW i \in DOMAIN plans
               PROVE  \E plan \in Plans, content \in Content :
                          /\ TrialOf(TrialsOf(live, e)[i], plan, content)
                          /\ ProposedIn(live.events, plan, content)
  BY DEF Tried, TrialsOf
<1>3. live.env[e.plans].kind = "plans" /\ WellFormed(plans)
  BY DEF Explores
<1>4. plans \in Seq(Plans \cup {Malformed})
  BY <1>1, <1>3 DEF Environment, AtTop
<1>5. plans[i] \in Plans /\ plans[i] \in ToSet(plans)
  BY <1>2, <1>3, <1>4 DEF WellFormed, ToSet
<1>6. plans # <<>>
  BY <1>2
<1>7. live.env[e.base].kind = "snapshot"
  BY <1>1, <1>6 DEF Explores, IsState, Has, States, Environment, AtTop
<1>8. base \in Content
  BY <1>1, <1>7 DEF TypedEnv, Typed, States
<1>9. e.body \in Bodies /\ checker.env[e.plans].lineage = checker.env[e.base].lineage
  BY CurrentFacts DEF Vetted, SameLineage
<1>10. ProposedIn(live.events, plans[i], base)
  <2>1. AgreeOn(live.events, live.env[e.plans], live.env[e.base])
    BY <1>1, <1>9 DEF Environment, Descends
  <2> QED
    BY <1>3, <1>5, <1>7, <2>1 DEF AgreeOn
<1>11. TrialOf(Trial(live.env, e, base, plans[i]), plans[i], base)
  BY <1>1, <1>5, <1>8, <1>9, TrialFacts
<1>12. TrialsOf(live, e)[i] = Trial(live.env, e, base, plans[i])
  BY <1>2 DEF TrialsOf
<1> QED
  BY <1>5, <1>8, <1>10, <1>11, <1>12

LEMMA ExploresJustified ==
    ASSUME RunInv, Accepted, Running, Justified, NEW r, Live(r), Explores(live, Current, r),
           Current.value.op = "explore"
    PROVE  Environment(r) /\ Registries(r)
<1>1. Live(live) /\ Environment(live) /\ Registries(live) /\ Remembers(live, r)
  BY StepsRemember DEF RunInv, Justified, Registries, Steps
<1>2. PICK trials : trials = TrialsOf(live, Current.value)
  OBVIOUS
<1>3. r.trials = Append(live.trials, trials) /\ r.selections = live.selections
  BY <1>2 DEF Explores
<1>4. /\ DOMAIN r.trials = 1 .. Len(live.trials) + 1 /\ Len(live.trials) \in Nat
      /\ r.trials[Len(live.trials) + 1] = trials
      /\ DOMAIN live.trials = 1 .. Len(live.trials)
      /\ \A t \in 1 .. Len(live.trials) : r.trials[t] = live.trials[t]
  BY <1>1, <1>3, AppendFacts, ListFacts DEF Live, Sound
<1>5. Tried(r, trials)
  BY <1>1, <1>2, TriedFacts, RemembersFacts
<1>6. ASSUME NEW t \in DOMAIN r.trials PROVE Tried(r, r.trials[t])
  <2>1. CASE t = Len(live.trials) + 1
    BY <1>4, <1>5, <2>1
  <2>2. CASE t # Len(live.trials) + 1
    <3>1. t \in DOMAIN live.trials /\ r.trials[t] = live.trials[t]
      BY <1>4, <2>2
    <3> QED
      BY <1>1, <3>1, RemembersFacts DEF Registries
  <2> QED
    BY <2>1, <2>2
<1>7. Registries(r)
  BY <1>1, <1>3, <1>6, RemembersFacts DEF Registries
<1>8. PICK v : v = Value("trials", Len(live.trials) + 1)
  OBVIOUS
<1>9. v.kind = "trials" /\ v.is = Len(live.trials) + 1
  BY <1>8 DEF Value
<1>10. AtTop(r, v) /\ v.kind \notin {"snapshot", "plans"}
  <2>1. v.is \in DOMAIN r.trials
    BY <1>4, <1>9
  <2> QED
    BY <1>9, <2>1 DEF AtTop, Typed, States
<1>11. MayBind(checker, live, r, Current.name, v)
  BY <1>10, OtherValues
<1>12. Moves(live, Current, v, r)
  BY <1>8 DEF Explores
<1> QED
  BY <1>1, <1>7, <1>11, <1>12, MovesEnvironment

LEMMA SelectsJustified ==
    ASSUME RunInv, Accepted, Running, Justified, NEW r, Live(r), Selects(live, Current, r),
           Current.value.op = "select"
    PROVE  Environment(r) /\ Registries(r)
<1> DEFINE e == Current.value
           k == live.env[e.trials].is
           trials == live.trials[k]
           chosen == Chooses(live, e)
<1>1. Live(live) /\ Environment(live) /\ Registries(live) /\ Remembers(live, r)
  BY StepsRemember DEF RunInv, Justified, Registries, Steps
<1>2. /\ e.trials \in DOMAIN live.env /\ live.env[e.trials].kind = "trials"
      /\ Eligible(trials) # {}
      /\ \A trial \in Eligible(trials) : e.metric \in DOMAIN trial.metrics
  BY DEF Selects, Has
<1>3. k \in DOMAIN live.trials /\ Tried(live, trials)
  BY <1>1, <1>2 DEF Environment, AtTop, Registries
<1>4. Eligible(trials) = Passed(trials)
  <2>1. \A j \in DOMAIN trials : trials[j].eligible = TRUE <=> Clear(trials[j])
    BY <1>3 DEF Tried, TrialOf
  <2>2. Eligible(trials) = {trials[i] : i \in {j \in DOMAIN trials : trials[j].eligible = TRUE}}
    BY DEF Eligible
  <2>3. Passed(trials) = {trials[i] : i \in {j \in DOMAIN trials : Clear(trials[j])}}
    BY DEF Passed, Clear
  <2> HIDE DEF trials
  <2> QED
    BY <2>1, <2>2, <2>3
<1>5. \A x \in Eligible(trials) :
         /\ x.metrics[e.metric] \in Nat /\ x.plan \in Nat
         /\ ProposedIn(live.events, x.plan, x.base)
  <2>1. SUFFICES ASSUME NEW x \in Eligible(trials)
                 PROVE  /\ x.metrics[e.metric] \in Nat /\ x.plan \in Nat
                        /\ ProposedIn(live.events, x.plan, x.base)
    OBVIOUS
  <2>2. PICK j \in DOMAIN trials : x = trials[j]
    BY <2>1 DEF Eligible
  <2>3. PICK plan \in Plans, base \in Content :
           TrialOf(x, plan, base) /\ ProposedIn(live.events, plan, base)
    BY <1>3, <2>2 DEF Tried
  <2>4. x.plan = plan /\ x.base = base /\ x.metrics[e.metric] \in Nat
    BY <1>2, <2>1, <2>3 DEF TrialOf
  <2> QED
    BY <2>3, <2>4, PlanAssumption
<1>6. /\ chosen \in Eligible(trials)
      /\ \A other \in Eligible(trials) : Better(chosen, other, e.metric)
  BY <1>2, <1>5, ChosenFacts DEF Chooses
<1>7. PICK payload : payload = [plan |-> chosen.plan, base |-> chosen.base,
                                metric |-> e.metric, score |-> chosen.metrics[e.metric]]
  OBVIOUS
<1>8. /\ payload.plan = chosen.plan /\ payload.base = chosen.base
      /\ payload.metric = e.metric /\ payload.score = chosen.metrics[e.metric]
  BY <1>7
<1>9. Justifies(live, payload)
  <2>1. ProposedIn(live.events, payload.plan, payload.base)
    BY <1>5, <1>6, <1>8
  <2>2. BestOf(trials, payload)
    BY <1>4, <1>6, <1>8 DEF BestOf
  <2> QED
    BY <1>3, <2>1, <2>2 DEF Justifies
<1>10. Justifies(r, payload)
  BY <1>1, <1>9, RemembersFacts
<1>11. PICK token : token = Issue(live, e)
  OBVIOUS
<1>12. token.payload = payload
  BY <1>7, <1>11 DEF Issue
<1>13. /\ DOMAIN r.selections = 1 .. Len(live.selections) + 1 /\ Len(live.selections) \in Nat
       /\ r.selections[Len(live.selections) + 1] = token
       /\ DOMAIN live.selections = 1 .. Len(live.selections)
       /\ \A i \in 1 .. Len(live.selections) : r.selections[i] = live.selections[i]
  BY <1>1, <1>11, AppendFacts, ListFacts DEF Live, Sound, Selects
<1>14. ASSUME NEW i \in DOMAIN r.selections PROVE Justifies(r, r.selections[i].payload)
  <2>1. CASE i = Len(live.selections) + 1
    BY <1>10, <1>12, <1>13, <2>1
  <2>2. CASE i # Len(live.selections) + 1
    <3>1. i \in DOMAIN live.selections /\ r.selections[i] = live.selections[i]
      BY <1>13, <2>2
    <3> QED
      BY <1>1, <3>1, RemembersFacts DEF Registries
  <2> QED
    BY <2>1, <2>2
<1>15. Registries(r)
  <2>1. r.trials = live.trials
    BY DEF Selects
  <2>2. \A t \in DOMAIN r.trials : Tried(r, r.trials[t])
    BY <1>1, <2>1, RemembersFacts DEF Registries
  <2> QED
    BY <1>14, <2>2 DEF Registries
<1>16. PICK v : v = Value("selected", Len(live.selections) + 1)
  OBVIOUS
<1>17. AtTop(r, v) /\ v.kind \notin {"snapshot", "plans"}
  BY <1>16 DEF AtTop, Typed, States, Value
<1>18. MayBind(checker, live, r, Current.name, v)
  BY <1>17, OtherValues
<1>19. Moves(live, Current, v, r)
  BY <1>16 DEF Selects
<1> QED
  BY <1>1, <1>15, <1>18, <1>19, MovesEnvironment

LEMMA SettlesJustified ==
    ASSUME RunInv, Accepted, Running, Justified, NEW r, Live(r), Settles(live, Current, r)
    PROVE  Environment(r) /\ Registries(r)
<1>1. Live(live) /\ Environment(live) /\ Registries(live) /\ Remembers(live, r)
  BY StepsRemember DEF RunInv, Justified, Registries, Steps
<1>2. Registries(r)
  BY <1>1, KeepsRegistries DEF Settles
<1>3. PICK v : v.kind = "outcome" /\ Moves(live, Current, v, r)
  BY DEF Settles
<1>4. AtTop(r, v) /\ v.kind \notin {"snapshot", "plans"}
  BY <1>3 DEF AtTop, Typed, States
<1>5. MayBind(checker, live, r, Current.name, v)
  BY <1>4, OtherValues
<1> QED
  BY <1>1, <1>2, <1>3, <1>5, MovesEnvironment

LEMMA StepsJustified ==
    ASSUME RunInv, Accepted, Running, Justified, NEW r, Live(r), Steps(live, Current, r)
    PROVE  Environment(r) /\ Registries(r)
<1>1. CASE Rests(live, r)
  <2>1. Live(live) /\ Environment(live) /\ Registries(live) /\ Remembers(live, r)
    BY StepsRemember DEF RunInv, Justified, Registries
  <2>2. Environment(r)
    BY <1>1, <2>1, KeepsEnvironment DEF Rests
  <2>3. Registries(r)
    BY <1>1, <2>1, KeepsRegistries DEF Rests
  <2> QED
    BY <2>2, <2>3
<1> QED
  BY <1>1, ReadsJustified, ProposesJustified, ExploresJustified, SelectsJustified,
     ComputesJustified, SettlesJustified DEF Steps

LEMMA CatalogKept ==
    ASSUME catalog \in Content, Commit \/ OutsideWrite
    PROVE  catalog' \in Content
<1>1. CASE UNCHANGED catalog
  BY <1>1
<1>2. CASE OutsideWrite
  <2>1. PICK revision, fields : revision = catalog.revision + 1 /\ fields = catalog.source + 1
    OBVIOUS
  <2>2. catalog' = [catalog EXCEPT !.revision = revision, !.source = fields]
    BY <1>2, <2>1 DEF OutsideWrite
  <2>3. revision \in Nat /\ fields \in Int
    BY <2>1 DEF Content
  <2> QED
    BY <2>2, <2>3 DEF Content
<1>3. CASE CommitApplies \/ CommitAppliesThenRaises
  <2>1. PICK plan : plan = Payload.plan
    OBVIOUS
  <2>2. PICK after : after = Applied(catalog, plan)
    OBVIOUS
  <2>3. catalog' = [after EXCEPT !.revision = after.revision + 1] /\ plan \in KnownRows
    BY <1>3, <2>1, <2>2 DEF CommitApplies, CommitAppliesThenRaises, Rejected
  <2>4. plan \in Plans
    BY <2>3, PlanAssumption
  <2>5. after \in Content
    BY <2>2, <2>4, AppliedFacts
  <2>6. PICK revision : revision = after.revision + 1
    OBVIOUS
  <2>7. revision \in Nat
    BY <2>5, <2>6 DEF Content
  <2> QED
    BY <2>3, <2>5, <2>6, <2>7 DEF Content
<1>4. CASE RefuseToken \/ NoRoomForCommit \/ CommitAgain \/ CommitStale \/ CommitRaises
  BY <1>1, <1>4 DEF RefuseToken, NoRoomForCommit, CommitAgain, CommitStale, CommitRaises, target
<1> QED
  BY <1>2, <1>3, <1>4 DEF Commit

LEMMA JustifiedStep ==
    ASSUME RunInv, RunInv', Accepted, Running, Justified, UNCHANGED program, MayCall,
           Steps(live, Current, live'), catalog' \in Content
    PROVE  Justified'
<1>1. Live(live) /\ Live(live') /\ Remembers(live, live') /\ IsList(calls)
  BY StepsRemember DEF RunInv
<1>2. Environment(live') /\ Registries(live')
  BY <1>1, StepsJustified
<1>3. Environment(live)'
  BY <1>2 DEF Environment, BoundBefore, Binds, program
<1>4. \A i \in DOMAIN calls : Justifies(live', calls[i].payload)
  BY <1>1, RemembersFacts DEF Justified
<1>5. \A i \in DOMAIN calls' : Justifies(live', calls'[i].payload)
  <2>1. CASE calls' = calls
    BY <1>4, <2>1
  <2>2. CASE Committable(live, Current.value) /\ Called
    <3>1. PICK call : call = [token |-> Token(live, Current.value), payload |-> Payload]
      OBVIOUS
    <3>2. calls' = Append(calls, call) /\ call.payload = Payload
      BY <2>2, <3>1 DEF Called
    <3>3. /\ DOMAIN calls' = 1 .. Len(calls) + 1 /\ Len(calls) \in Nat
          /\ calls'[Len(calls) + 1] = call
          /\ DOMAIN calls = 1 .. Len(calls)
          /\ \A i \in 1 .. Len(calls) : calls'[i] = calls[i]
      BY <1>1, <3>2, AppendFacts, ListFacts
    <3>4. Token(live, Current.value) \in DOMAIN live.selections
      BY <1>1, <2>2, TokenFacts, ListFacts DEF Live, Sound
    <3>5. Justifies(live, Payload)
      BY <3>4 DEF Justified, Payload
    <3>6. Justifies(live', call.payload)
      BY <1>1, <3>2, <3>5, RemembersFacts
    <3>7. \A i \in 1 .. Len(calls) + 1 : i = Len(calls) + 1 \/ i \in 1 .. Len(calls)
      BY <3>3
    <3> QED
      BY <1>4, <3>3, <3>6, <3>7
  <2> QED
    BY <2>1, <2>2 DEF MayCall
<1> QED
  BY <1>2, <1>3, <1>5 DEF Justified, Registries

LEMMA JustifiedBegins ==
    ASSUME NEW budget, NEW m, m = Machine(budget, None)
    PROVE  Environment(m) /\ Registries(m)
<1>1. m.env = <<>> /\ m.events = <<>> /\ m.trials = <<>> /\ m.selections = <<>>
  BY MachineFacts
<1> QED
  BY <1>1 DEF Environment, Registries, BoundBefore, Descends

LEMMA JustifiedKept ==
    RunInv /\ RunInv' /\ Accepted /\ Justified /\ [Next]_vars => Justified'
<1> SUFFICES ASSUME RunInv, RunInv', Accepted, Justified, [Next]_vars PROVE Justified'
  OBVIOUS
<1>1. CASE WriteLet \/ WriteReturn
  <2>1. calls' = calls /\ catalog' = catalog /\ calls = <<>>
    BY <1>1 DEF WriteLet, WriteReturn, RunInv, Program, target
  <2>2. PICK budget : live' = Machine(budget, None)
    BY <1>1 DEF WriteLet, WriteReturn, RunInv, Program
  <2>3. /\ live'.env = <<>> /\ live'.events = <<>> /\ live'.trials = <<>>
        /\ live'.selections = <<>>
    BY <2>2, MachineFacts
  <2> QED
    BY <2>1, <2>3 DEF Justified, Environment, BoundBefore, Descends
<1>2. CASE ReadSnapshot \/ Propose \/ ProviderFails \/ Compute
  <2>1. catalog' = catalog
    BY <1>2 DEF ReadSnapshot, Propose, ProviderFails, Compute, target
  <2> QED
    BY <1>2, <2>1, RunSteps, JustifiedStep DEF MayCall, Justified
<1>3. CASE Commit
  BY <1>3, CommitSteps, JustifiedStep, CatalogKept DEF Justified
<1>4. CASE OutsideWrite \/ Save \/ Damage \/ Replay \/ ReplayStep \/ ReplayEnds \/ UNCHANGED vars
  <2>1. UNCHANGED <<program, live, calls>>
    BY <1>4 DEF OutsideWrite, Save, Damage, Replay, ReplayStep, ReplayEnds, vars, program
  <2>2. catalog' \in Content
    <3>1. CASE OutsideWrite
      BY <3>1, CatalogKept DEF Justified
    <3>2. CASE Save \/ Damage \/ Replay \/ ReplayStep \/ ReplayEnds \/ UNCHANGED vars
      BY <3>2 DEF Save, Damage, Replay, ReplayStep, ReplayEnds, vars, target, Justified
    <3> QED
      BY <1>4, <3>1, <3>2
  <2> QED
    BY <2>1, <2>2 DEF Justified, Environment, BoundBefore, Descends, Binds, program
<1> QED
  BY <1>1, <1>2, <1>3, <1>4 DEF Next

(* The invariant of where values come from: what stands for one snapshot   *)
(* is one snapshot, and plans were proposed and tried for theirs.          *)
THEOREM ValuesDescend == Spec => []Justified
<1>1. Init => Justified
  <2>1. SUFFICES ASSUME Init PROVE Justified
    OBVIOUS
  <2>2. Environment(live) /\ Registries(live) /\ calls = <<>>
    BY <2>1, JustifiedBegins DEF Init
  <2>3. catalog \in Content
    BY <2>1 DEF Init, Seed, Content
  <2> QED
    BY <2>2, <2>3 DEF Justified, Registries
<1> QED
  BY <1>1, JustifiedKept, Inductive, AcceptedThroughout, PTL DEF Spec

(* Whatever is committed was proposed for the snapshot it is committed     *)
(* against, tried on that very snapshot, passed every check there and was  *)
(* the best of those that did (SameOrigin of compiler.py; Runtime.explore, *)
(* eval_expr and apply_selection of runtime.py).                           *)
THEOREM CommitsComeFromTrials == Spec => []CommitsAreJustified
<1>1. Justified => CommitsAreJustified
  BY DEF Justified, CommitsAreJustified, Justifies, ProposedFor, ProposedIn
<1> QED
  BY <1>1, ValuesDescend, PTL
-----------------------------------------------------------------------------
(* The machine that replays what m recorded, when E is the whole record.   *)
Image(m, E) == [m EXCEPT !.budget = None, !.recorded = E]

LEMMA ImageFacts ==
    ASSUME NEW m, IsMachine(m), NEW E
    PROVE  LET i == Image(m, E) IN
           /\ IsMachine(i) /\ i.budget = None /\ i.recorded = E
           /\ i.pc = m.pc /\ i.env = m.env /\ i.trials = m.trials /\ i.selections = m.selections
           /\ i.exploration = m.exploration /\ i.selection = m.selection /\ i.events = m.events
           /\ i.outcome = m.outcome /\ i.failure = m.failure
           /\ Ended(i) <=> Ended(m)
<1>1. PICK i : i = Image(m, E)
  OBVIOUS
<1>2. i = [m EXCEPT !.budget = None, !.recorded = E]
  BY <1>1 DEF Image
<1>3. i = [pc |-> m.pc, env |-> m.env, trials |-> m.trials, selections |-> m.selections,
           exploration |-> m.exploration, selection |-> m.selection, events |-> m.events,
           outcome |-> m.outcome, failure |-> m.failure, budget |-> None, recorded |-> E]
  BY <1>2 DEF IsMachine
<1>4. /\ IsMachine(i) /\ i.budget = None /\ i.recorded = E
      /\ i.pc = m.pc /\ i.env = m.env /\ i.trials = m.trials /\ i.selections = m.selections
      /\ i.exploration = m.exploration /\ i.selection = m.selection /\ i.events = m.events
      /\ i.outcome = m.outcome /\ i.failure = m.failure
  BY <1>3 DEF IsMachine
<1> QED
  BY <1>1, <1>4 DEF Ended

LEMMA ImageOfFinish ==
    ASSUME NEW m, IsMachine(m), NEW E, NEW s, NEW v
    PROVE  Finish(Image(m, E), s, v) = Image(Finish(m, s, v), E)
<1>1. PICK i : i = Image(m, E)
  OBVIOUS
<1>2. (Ended(i) <=> Ended(m)) /\ i.env = m.env /\ i.pc = m.pc
  BY <1>1, ImageFacts
<1>3. CASE Ended(m)
  BY <1>1, <1>2, <1>3 DEF Finish
<1>4. CASE ~Ended(m) /\ s.kind = "let"
  <2>1. PICK x, y : x = Assign(m.env, s.name, v) /\ y = m.pc + 1
    OBVIOUS
  <2>2. Finish(m, s, v) = [m EXCEPT !.env = x, !.pc = y]
    BY <1>4, <2>1 DEF Finish
  <2>3. Finish(i, s, v) = [i EXCEPT !.env = x, !.pc = y]
    BY <1>2, <1>4, <2>1 DEF Finish
  <2>4. Finish(i, s, v) = Image(Finish(m, s, v), E)
    BY <1>1, <2>2, <2>3 DEF IsMachine, Image
  <2> QED
    BY <1>1, <2>4
<1>5. CASE ~Ended(m) /\ s.kind # "let" /\ s.kind = "return" /\ v.kind = "outcome"
  <2>1. Finish(m, s, v) = [m EXCEPT !.outcome = v.is] /\ Finish(i, s, v) = [i EXCEPT !.outcome = v.is]
    BY <1>2, <1>5 DEF Finish
  <2>2. Finish(i, s, v) = Image(Finish(m, s, v), E)
    BY <1>1, <2>1 DEF IsMachine, Image
  <2> QED
    BY <1>1, <2>2
<1>6. CASE ~Ended(m) /\ s.kind # "let" /\ ~(s.kind = "return" /\ v.kind = "outcome")
  <2>1. /\ Finish(m, s, v) = [m EXCEPT !.failure = "internal"]
        /\ Finish(i, s, v) = [i EXCEPT !.failure = "internal"]
    BY <1>2, <1>6 DEF Finish, Fail
  <2>2. Finish(i, s, v) = Image(Finish(m, s, v), E)
    BY <1>1, <2>1 DEF IsMachine, Image
  <2> QED
    BY <1>1, <2>2
<1> QED
  BY <1>3, <1>4, <1>5, <1>6

(* The record E tells what the events tell, and perhaps more.              *)
Covers(E, events) == \A i \in DOMAIN events : i \in DOMAIN E /\ E[i] = events[i]

LEMMA NextEvent ==
    ASSUME NEW m, Live(m), NEW r, NEW E, NEW kind, NEW data,
           Adds(m, r, [kind |-> kind, data |-> data]), Covers(E, r.events)
    PROVE  /\ Covers(E, m.events)
           /\ Expected(Image(m, E), kind) /\ RecordedData(Image(m, E)) = data
<1>1. PICK event, n : event = [kind |-> kind, data |-> data] /\ n = Len(m.events) + 1
  OBVIOUS
<1>2. /\ DOMAIN r.events = 1 .. n /\ r.events[n] = event
      /\ DOMAIN m.events = 1 .. Len(m.events) /\ Len(m.events) \in Nat
      /\ \A i \in 1 .. Len(m.events) : r.events[i] = m.events[i]
  BY <1>1, AppendFacts, ListFacts DEF Live, Sound, Adds
<1>3. n \in DOMAIN r.events /\ DOMAIN m.events \subseteq DOMAIN r.events
  BY <1>1, <1>2
<1>4. n \in DOMAIN E /\ E[n] = event
  BY <1>2, <1>3 DEF Covers
<1>5. Covers(E, m.events)
  BY <1>2, <1>3 DEF Covers
<1>6. PICK i : i = Image(m, E)
  OBVIOUS
<1>7. i.recorded = E /\ i.events = m.events
  BY <1>6, ImageFacts DEF Live, Sound
<1>8. event.kind = kind /\ event.data = data
  BY <1>1
<1>9. Expected(i, kind) /\ RecordedData(i) = data
  BY <1>1, <1>4, <1>7, <1>8 DEF Expected, RecordedData
<1> QED
  BY <1>5, <1>6, <1>9

LEMMA ImageOfObserve ==
    ASSUME NEW m, Live(m), ~Ended(m), Fits(m), NEW kind, NEW data, NEW E,
           Expected(Image(m, E), kind), RecordedData(Image(m, E)) = data
    PROVE  Observe(Image(m, E), kind, data) = Image(Observe(m, kind, data), E)
<1>1. PICK i : i = Image(m, E)
  OBVIOUS
<1>2. i.budget = None /\ i.events = m.events /\ m.budget # None
  BY <1>1, ImageFacts DEF Live, Sound
<1>3. PICK kept : kept = Append(m.events, [kind |-> kind, data |-> data])
  OBVIOUS
<1>4. Observe(m, kind, data) = [m EXCEPT !.events = kept]
  BY <1>2, <1>3 DEF Observe
<1>5. Observe(i, kind, data) = [i EXCEPT !.events = kept]
  BY <1>1, <1>2, <1>3 DEF Observe
<1>6. Observe(i, kind, data) = Image(Observe(m, kind, data), E)
  BY <1>1, <1>4, <1>5 DEF Live, Sound, IsMachine, Image
<1> QED
  BY <1>1, <1>6

(* What is observed at the end of a statement.                             *)
LEMMA ImageOfObserved ==
    ASSUME NEW m, Live(m), ~Ended(m), Fits(m), NEW kind, NEW data, NEW s, NEW v, NEW E,
           Covers(E, Finish(Observe(m, kind, data), s, v).events)
    PROVE  LET i == Image(m, E) IN
           /\ Expected(i, kind) /\ RecordedData(i) = data
           /\ Finish(Observe(i, kind, data), s, v) = Image(Finish(Observe(m, kind, data), s, v), E)
<1>1. PICK o : o = Observe(m, kind, data)
  OBVIOUS
<1>2. Live(o) /\ Adds(m, o, [kind |-> kind, data |-> data])
  BY <1>1, ObserveFacts
<1>3. Finish(o, s, v).events = o.events
  BY <1>2, FinishFacts
<1>4. Expected(Image(m, E), kind) /\ RecordedData(Image(m, E)) = data
  BY <1>1, <1>2, <1>3, NextEvent
<1>5. Observe(Image(m, E), kind, data) = Image(o, E)
  BY <1>1, <1>4, ImageOfObserve
<1>6. Finish(Image(o, E), s, v) = Image(Finish(o, s, v), E)
  BY <1>2, ImageOfFinish DEF Live, Sound
<1> QED
  BY <1>1, <1>4, <1>5, <1>6

LEMMA ImageOfStop ==
    ASSUME NEW m, IsMachine(m), NEW status, NEW E
    PROVE  Stop(Image(m, E), status) = Image(Stop(m, status), E)
<1>1. PICK end, i : end = Outcome(status, None, None) /\ i = Image(m, E)
  OBVIOUS
<1>2. Stop(m, status) = [m EXCEPT !.outcome = end] /\ Stop(i, status) = [i EXCEPT !.outcome = end]
  BY <1>1 DEF Stop
<1>3. Stop(i, status) = Image(Stop(m, status), E)
  BY <1>1, <1>2 DEF IsMachine, Image
<1> QED
  BY <1>1, <1>3

-----------------------------------------------------------------------------
(* A run for which an event does not fit is incomplete.                    *)
LEMMA TellingFits ==
    ASSUME NEW m, Live(m), ~Ended(m), NEW kind, NEW data, NEW s, NEW v,
           Telling(Finish(Observe(m, kind, data), s, v))
    PROVE  Fits(m)
<1>1. SUFFICES ASSUME ~Fits(m) PROVE FALSE
  OBVIOUS
<1>2. PICK o, status : o = Stop(m, status) /\ status = "evidence_limit"
  OBVIOUS
<1>3. status \in Statuses /\ status \in Incomplete
  BY <1>2 DEF Statuses, Incomplete
<1>4. Observe(m, kind, data) = o
  BY <1>1, <1>2 DEF Observe, Live
<1>5. Live(o) /\ Ended(o) /\ o.outcome # None /\ o.outcome.status = status
  BY <1>2, <1>3, StopFacts DEF Halts
<1>6. Finish(o, s, v) = o
  BY <1>5 DEF Finish
<1> QED
  BY <1>3, <1>4, <1>5, <1>6 DEF Telling

(* A replay does what the run did, while the run leaves nothing open.      *)
Repeats(m, s, r, E) == OfflineStep(Image(m, E), s) = Image(r, E)

LEMMA RepeatsRead ==
    ASSUME NEW m, Live(m), ~Ended(m), NEW s, s.value.op = "snapshot", NEW base,
           NEW r, r = ExecSnapshot(m, s, base), Telling(r), NEW E, Covers(E, r.events)
    PROVE  Repeats(m, s, r, E)
<1>1. PICK kind, v : kind = "snapshot" /\ v = Value("snapshot", base)
  OBVIOUS
<1>2. r = Finish(Observe(m, kind, base), s, v)
  BY <1>1 DEF ExecSnapshot
<1>3. Fits(m)
  BY <1>2, TellingFits
<1>4. PICK i : i = Image(m, E)
  OBVIOUS
<1>5. Expected(i, kind) /\ RecordedData(i) = base /\ Finish(Observe(i, kind, base), s, v) = Image(r, E)
  BY <1>2, <1>3, <1>4, ImageOfObserved
<1>6. OfflineSnapshot(i, s) = Finish(Observe(i, kind, base), s, v)
  BY <1>1, <1>5 DEF OfflineSnapshot, ExecSnapshot
<1>7. OfflineStep(i, s) = OfflineSnapshot(i, s)
  BY DEF OfflineStep
<1> QED
  BY <1>4, <1>5, <1>6, <1>7 DEF Repeats

LEMMA RepeatsPropose ==
    ASSUME NEW m, Live(m), ~Ended(m), NEW s, s.value.op = "propose", NEW plans,
           ProposalArguments(m, s.value),
           NEW r, r = ExecPropose(m, s, plans), Telling(r), NEW E, Covers(E, r.events)
    PROVE  Repeats(m, s, r, E)
<1>1. PICK kind, v, data : /\ kind = "proposal" /\ v = Value("plans", plans)
                           /\ data = Proposal(m, s.value, plans)
  OBVIOUS
<1>2. r = Finish(Observe(m, kind, data), s, v)
  BY <1>1 DEF ExecPropose, Proposal
<1>3. Fits(m)
  BY <1>2, TellingFits
<1>4. PICK i : i = Image(m, E)
  OBVIOUS
<1>5. Expected(i, kind) /\ RecordedData(i) = data /\ Finish(Observe(i, kind, data), s, v) = Image(r, E)
  BY <1>2, <1>3, <1>4, ImageOfObserved
<1>6. i.env = m.env /\ data.plans = plans
  BY <1>1, <1>4, ImageFacts DEF Live, Sound, Proposal
<1>7. ProposalArguments(i, s.value) /\ Proposal(i, s.value, plans) = data
  BY <1>1, <1>6 DEF ProposalArguments, Proposal
<1>8. OfflinePropose(i, s) = Finish(Observe(i, kind, data), s, v)
  BY <1>1, <1>5, <1>6, <1>7 DEF OfflinePropose, ExecPropose, Proposal
<1>9. OfflineStep(i, s) = OfflinePropose(i, s)
  BY DEF OfflineStep
<1> QED
  BY <1>4, <1>5, <1>8, <1>9 DEF Repeats

LEMMA RepeatsPure ==
    ASSUME NEW m, Live(m), ~Ended(m), NEW s, s.value.op \in {"var", "call", "simulate"},
           NEW r, r = ExecPure(m, s), Telling(r), NEW E
    PROVE  Repeats(m, s, r, E)
<1>1. PICK i, v : i = Image(m, E) /\ v = PureValue(m.env, None, s.value)
  OBVIOUS
<1>2. i.env = m.env
  BY <1>1, ImageFacts DEF Live, Sound
<1>3. v.kind # "error"
  BY <1>1, FailFacts DEF ExecPure, Telling
<1>4. r = Finish(m, s, v) /\ ExecPure(i, s) = Finish(i, s, v)
  BY <1>1, <1>2, <1>3 DEF ExecPure
<1>5. ExecPure(i, s) = Image(r, E)
  BY <1>1, <1>4, ImageOfFinish DEF Live, Sound
<1>6. OfflineStep(i, s) = ExecPure(i, s)
  BY DEF OfflineStep
<1> QED
  BY <1>1, <1>5, <1>6 DEF Repeats

(* What is observed before something is issued.                            *)
LEMMA ImageOfSummary ==
    ASSUME NEW m, Live(m), ~Ended(m), NEW kind, NEW data, NEW x, x = Observe(m, kind, data),
           NEW r, Telling(r), Ended(x) => r = x, ~Ended(x) => r.events = x.events,
           NEW E, Covers(E, r.events)
    PROVE  /\ Live(x) /\ ~Ended(x)
           /\ Observe(Image(m, E), kind, data) = Image(x, E)
<1>1. Fits(m)
  <2>1. SUFFICES ASSUME ~Fits(m) PROVE FALSE
    OBVIOUS
  <2>2. PICK o, status : o = Stop(m, status) /\ status = "evidence_limit"
    OBVIOUS
  <2>3. status \in Statuses /\ status \in Incomplete
    BY <2>2 DEF Statuses, Incomplete
  <2>4. x = o
    BY <2>1, <2>2 DEF Observe, Live
  <2>5. Ended(o) /\ o.outcome # None /\ o.outcome.status = status
    BY <2>2, <2>3, StopFacts DEF Halts
  <2> QED
    BY <2>3, <2>4, <2>5 DEF Telling
<1>2. Live(x) /\ ~Ended(x) /\ Adds(m, x, [kind |-> kind, data |-> data])
  BY <1>1, ObserveFacts
<1>3. Expected(Image(m, E), kind) /\ RecordedData(Image(m, E)) = data
  BY <1>2, NextEvent
<1> QED
  BY <1>1, <1>2, <1>3, ImageOfObserve

(* An exploration that is carried out, and a selection.                    *)
ExploredAs(m, s, r, b, x, n) ==
    LET trials == TrialsOf(m, s.value) IN
    /\ b = [m EXCEPT !.exploration = Summary(trials)]
    /\ x = Observe(b, "exploration", Summary(trials))
    /\ n = [x EXCEPT !.trials = Append(x.trials, trials)]
    /\ r = IF Ended(x) THEN x ELSE Finish(n, s, Value("trials", Len(n.trials)))

LEMMA ExploreShape ==
    ASSUME NEW m, NEW s, {s.value.plans, s.value.base} \subseteq DOMAIN m.env,
           Has(m.env, s.value.plans, {"plans"}), WellFormed(m.env[s.value.plans].is),
           ~(m.env[s.value.plans].is # <<>> /\ ~IsState(m.env, s.value.base))
    PROVE  \E b, x, n : ExploredAs(m, s, ExecExplore(m, s), b, x, n)
<1> DEFINE e == s.value
           trials == TrialsOf(m, e)
           before == [m EXCEPT !.exploration = Summary(trials)]
           explored == Observe(before, "exploration", Summary(trials))
           issued == [explored EXCEPT !.trials = Append(explored.trials, trials)]
<1>1. ExecExplore(m, s) = IF Ended(explored) THEN explored
                          ELSE Finish(issued, s, Value("trials", Len(issued.trials)))
  BY DEF ExecExplore, TrialsOf
<1>2. PICK b : b = before
  OBVIOUS
<1>3. PICK x : x = explored
  OBVIOUS
<1>4. PICK n : n = issued
  OBVIOUS
<1>5. x = Observe(b, "exploration", Summary(trials))
  BY <1>2, <1>3
<1>6. n = [x EXCEPT !.trials = Append(x.trials, trials)]
  BY <1>3, <1>4
<1>7. ExecExplore(m, s) = IF Ended(x) THEN x ELSE Finish(n, s, Value("trials", Len(n.trials)))
  <2> HIDE DEF explored, issued
  <2> QED
    BY <1>1, <1>3, <1>4
<1>8. ExploredAs(m, s, ExecExplore(m, s), b, x, n)
  <2> HIDE DEF explored, issued
  <2> QED
    BY <1>2, <1>5, <1>6, <1>7 DEF ExploredAs
<1> QED
  BY <1>8

SelectedAs(m, s, r, b, x, n) ==
    LET selection == [plan |-> Chooses(m, s.value).plan, metric |-> s.value.metric,
                      score |-> Chooses(m, s.value).metrics[s.value.metric]]
    IN
    /\ b = [m EXCEPT !.selection = selection]
    /\ x = Observe(b, "selection", selection)
    /\ n = [x EXCEPT !.selections = Append(x.selections, Issue(m, s.value))]
    /\ r = IF Ended(x) THEN x ELSE Finish(n, s, Value("selected", Len(n.selections)))

LEMMA SelectShape ==
    ASSUME NEW m, NEW s, NEW trials, trials = m.trials[m.env[s.value.trials].is],
           Has(m.env, s.value.trials, {"trials"}), Eligible(trials) # {},
           ~(\E trial \in Eligible(trials) : s.value.metric \notin DOMAIN trial.metrics)
    PROVE  \E b, x, n : SelectedAs(m, s, ExecSelect(m, s), b, x, n)
<1> DEFINE e == s.value
           chosen == Chosen(m.trials[m.env[e.trials].is], e.metric)
           payload == [plan |-> chosen.plan, base |-> chosen.base,
                       metric |-> e.metric, score |-> chosen.metrics[e.metric]]
           selection == [plan |-> chosen.plan, metric |-> e.metric, score |-> payload.score]
           before == [m EXCEPT !.selection = selection]
           selected == Observe(before, "selection", selection)
           record == [payload |-> payload, spent |-> FALSE]
           issued == [selected EXCEPT !.selections = Append(selected.selections, record)]
<1>1. ExecSelect(m, s) = IF Ended(selected) THEN selected
                         ELSE Finish(issued, s, Value("selected", Len(issued.selections)))
  BY DEF ExecSelect
<1>2. PICK data, token : /\ data = [plan |-> Chooses(m, e).plan, metric |-> e.metric,
                                    score |-> Chooses(m, e).metrics[e.metric]]
                         /\ token = Issue(m, e)
  OBVIOUS
<1>3. selection = data /\ record = token
  BY <1>2 DEF Issue, Chooses
<1> HIDE DEF selection, record
<1>4. PICK b, x, n : b = before /\ x = selected /\ n = issued
  OBVIOUS
<1>5. b = [m EXCEPT !.selection = data]
  BY <1>3, <1>4
<1>6. x = Observe(b, "selection", data)
  <2> HIDE DEF before
  <2> QED
    BY <1>3, <1>4 DEF selected
<1>7. n = [x EXCEPT !.selections = Append(x.selections, token)]
  <2> HIDE DEF selected
  <2> QED
    BY <1>3, <1>4 DEF issued
<1> HIDE DEF selected, issued, before
<1>8. ExecSelect(m, s) = IF Ended(x) THEN x ELSE Finish(n, s, Value("selected", Len(n.selections)))
  BY <1>1, <1>4
<1>9. SelectedAs(m, s, ExecSelect(m, s), b, x, n)
  BY <1>2, <1>5, <1>6, <1>7, <1>8 DEF SelectedAs
<1> QED
  BY <1>9

(* What has not ended after observing something is live.                   *)
LEMMA ObserveGoesOn ==
    ASSUME NEW m, Live(m), ~Ended(m), NEW kind, NEW data, NEW x, x = Observe(m, kind, data), ~Ended(x)
    PROVE  Live(x)
<1>1. PICK status : status = "evidence_limit"
  OBVIOUS
<1>2. status \in Statuses
  BY <1>1 DEF Statuses
<1>3. Ended(Stop(m, status))
  BY <1>2, StopFacts DEF Halts
<1> QED
  BY <1>1, <1>3, ObserveFacts

LEMMA RepeatsExplore ==
    ASSUME NEW m, Live(m), ~Ended(m), NEW s, s.value.op = "explore",
           NEW r, r = ExecExplore(m, s), Telling(r), NEW E, Covers(E, r.events)
    PROVE  Repeats(m, s, r, E)
<1>1. PICK i, e, plans : i = Image(m, E) /\ e = s.value /\ plans = m.env[e.plans].is
  OBVIOUS
<1>2. i.env = m.env /\ IsMachine(m)
  BY <1>1, ImageFacts DEF Live, Sound
<1>3. OfflineStep(i, s) = ExecExplore(i, s)
  BY DEF OfflineStep
<1>4. r # Fail(m)
  BY FailFacts DEF Telling
<1>5. {e.plans, e.base} \subseteq DOMAIN m.env
  BY <1>1, <1>4 DEF ExecExplore
<1>6. CASE ~Has(m.env, e.plans, {"plans"}) \/ ~WellFormed(plans)
  <2>1. r = Stop(m, "invalid_plans") /\ ExecExplore(i, s) = Stop(i, "invalid_plans")
    BY <1>1, <1>2, <1>5, <1>6 DEF ExecExplore
  <2>2. ExecExplore(i, s) = Image(r, E)
    BY <1>1, <1>2, <2>1, ImageOfStop
  <2> QED
    BY <1>1, <1>3, <2>2 DEF Repeats
<1>7. CASE Has(m.env, e.plans, {"plans"}) /\ WellFormed(plans)
  <2>1. ~(plans # <<>> /\ ~IsState(m.env, e.base))
    BY <1>1, <1>4, <1>5, <1>7 DEF ExecExplore
  <2>2. PICK trials, kind, data : trials = TrialsOf(m, e) /\ kind = "exploration" /\ data = Summary(trials)
    OBVIOUS
  <2>3. PICK b, x, n : ExploredAs(m, s, r, b, x, n)
    BY <1>1, <1>5, <1>7, <2>1, ExploreShape
  <2>4. PICK bi, xi, ni : ExploredAs(i, s, ExecExplore(i, s), bi, xi, ni)
    BY <1>1, <1>2, <1>5, <1>7, <2>1, ExploreShape
  <2>5. /\ b = [m EXCEPT !.exploration = data] /\ x = Observe(b, kind, data)
        /\ n = [x EXCEPT !.trials = Append(x.trials, trials)]
    BY <1>1, <2>2, <2>3 DEF ExploredAs
  <2>6. r = IF Ended(x) THEN x ELSE Finish(n, s, Value("trials", Len(n.trials)))
    BY <2>3 DEF ExploredAs
  <2>7. /\ bi = [i EXCEPT !.exploration = data] /\ xi = Observe(bi, kind, data)
        /\ ni = [xi EXCEPT !.trials = Append(xi.trials, trials)]
        /\ ExecExplore(i, s) = IF Ended(xi) THEN xi ELSE Finish(ni, s, Value("trials", Len(ni.trials)))
    <3>1. TrialsOf(i, s.value) = trials
      BY <1>1, <1>2, <2>2 DEF TrialsOf
    <3> QED
      BY <2>2, <2>4, <3>1 DEF ExploredAs
  <2>8. Live(b) /\ ~Ended(b)
    BY <2>5, Summarized
  <2>9. bi = Image(b, E)
    BY <1>1, <1>2, <2>5, <2>7 DEF IsMachine, Image
  <2>10. ~Ended(x) => Live(x)
    BY <2>5, <2>8, ObserveGoesOn
  <2>11. ~Ended(x) => Live(n) /\ n.events = x.events
    <3>1. SUFFICES ASSUME ~Ended(x) PROVE Live(n) /\ n.events = x.events
      OBVIOUS
    <3>2. PICK list : list = Append(x.trials, trials) /\ IsList(list)
      BY <2>10, <3>1, AppendFacts DEF Live, Sound
    <3>3. n = [x EXCEPT !.trials = list] /\ IsMachine(x)
      BY <2>5, <2>10, <3>1, <3>2 DEF Live, Sound
    <3>4. /\ IsMachine(n) /\ n.events = x.events /\ n.trials = list /\ n.selections = x.selections
          /\ n.outcome = x.outcome /\ n.failure = x.failure /\ n.budget = x.budget
      BY <3>3 DEF IsMachine
    <3> QED
      BY <2>10, <3>1, <3>2, <3>4 DEF Live, Sound
  <2>12. ~Ended(x) => r.events = x.events
    BY <2>6, <2>11, FinishFacts
  <2>13. Live(x) /\ ~Ended(x) /\ xi = Image(x, E)
    BY <2>5, <2>6, <2>7, <2>8, <2>9, <2>12, ImageOfSummary
  <2>14. ~Ended(xi) /\ xi.trials = x.trials
    BY <2>13, ImageFacts DEF Live, Sound
  <2>15. ni = Image(n, E) /\ IsMachine(n) /\ ni.trials = n.trials
    <3>1. ni = [xi EXCEPT !.trials = Append(x.trials, trials)]
      BY <2>7, <2>14
    <3>2. ni = Image(n, E)
      BY <2>5, <2>13, <3>1 DEF Live, Sound, IsMachine, Image
    <3>3. IsMachine(n)
      BY <2>11, <2>13 DEF Live, Sound
    <3> QED
      BY <3>2, <3>3, ImageFacts
  <2>16. ExecExplore(i, s) = Image(r, E)
    <3>1. PICK v : v = Value("trials", Len(n.trials))
      OBVIOUS
    <3>2. r = Finish(n, s, v) /\ ExecExplore(i, s) = Finish(Image(n, E), s, v)
      BY <2>6, <2>7, <2>13, <2>14, <2>15, <3>1
    <3> QED
      BY <2>15, <3>2, ImageOfFinish
  <2> QED
    BY <1>1, <1>3, <2>16 DEF Repeats
<1> QED
  BY <1>6, <1>7

LEMMA RepeatsSelect ==
    ASSUME NEW m, Live(m), ~Ended(m), NEW s, s.value.op = "select",
           NEW r, r = ExecSelect(m, s), Telling(r), NEW E, Covers(E, r.events)
    PROVE  Repeats(m, s, r, E)
<1>1. PICK i, e, trials : i = Image(m, E) /\ e = s.value /\ trials = m.trials[m.env[e.trials].is]
  OBVIOUS
<1>2. i.env = m.env /\ i.trials = m.trials /\ IsMachine(m)
  BY <1>1, ImageFacts DEF Live, Sound
<1>3. OfflineStep(i, s) = ExecSelect(i, s)
  BY DEF OfflineStep
<1>4. r # Fail(m)
  BY FailFacts DEF Telling
<1>5. Has(m.env, e.trials, {"trials"})
  BY <1>1, <1>4 DEF ExecSelect
<1>6. CASE Eligible(trials) = {}
  <2>1. /\ r = Stop(m, "no_eligible_candidate")
        /\ ExecSelect(i, s) = Stop(i, "no_eligible_candidate")
    BY <1>1, <1>2, <1>5, <1>6 DEF ExecSelect
  <2>2. ExecSelect(i, s) = Image(r, E)
    BY <1>1, <1>2, <2>1, ImageOfStop
  <2> QED
    BY <1>1, <1>3, <2>2 DEF Repeats
<1>7. CASE Eligible(trials) # {}
  <2>1. ~(\E trial \in Eligible(trials) : e.metric \notin DOMAIN trial.metrics)
    BY <1>1, <1>4, <1>5, <1>7 DEF ExecSelect
  <2>2. PICK token, kind, data :
           /\ token = Issue(m, e) /\ kind = "selection"
           /\ data = [plan |-> Chooses(m, e).plan, metric |-> e.metric,
                      score |-> Chooses(m, e).metrics[e.metric]]
    OBVIOUS
  <2>3. PICK b, x, n : SelectedAs(m, s, r, b, x, n)
    BY <1>1, <1>5, <1>7, <2>1, SelectShape
  <2>4. PICK bi, xi, ni : SelectedAs(i, s, ExecSelect(i, s), bi, xi, ni)
    BY <1>1, <1>2, <1>5, <1>7, <2>1, SelectShape
  <2>5. /\ b = [m EXCEPT !.selection = data] /\ x = Observe(b, kind, data)
        /\ n = [x EXCEPT !.selections = Append(x.selections, token)]
    BY <1>1, <2>2, <2>3 DEF SelectedAs
  <2>6. r = IF Ended(x) THEN x ELSE Finish(n, s, Value("selected", Len(n.selections)))
    BY <2>3 DEF SelectedAs
  <2>7. /\ bi = [i EXCEPT !.selection = data] /\ xi = Observe(bi, kind, data)
        /\ ni = [xi EXCEPT !.selections = Append(xi.selections, token)]
        /\ ExecSelect(i, s) = IF Ended(xi) THEN xi ELSE Finish(ni, s, Value("selected", Len(ni.selections)))
    <3>1. Issue(i, s.value) = token /\ Chooses(i, s.value) = Chooses(m, e)
      BY <1>1, <1>2, <2>2 DEF Issue, Chooses
    <3> QED
      BY <1>1, <2>2, <2>4, <3>1 DEF SelectedAs
  <2>8. Live(b) /\ ~Ended(b)
    BY <2>5, Summarized
  <2>9. bi = Image(b, E)
    BY <1>1, <1>2, <2>5, <2>7 DEF IsMachine, Image
  <2>10. ~Ended(x) => Live(x)
    BY <2>5, <2>8, ObserveGoesOn
  <2>11. ~Ended(x) => Live(n) /\ n.events = x.events
    <3>1. SUFFICES ASSUME ~Ended(x) PROVE Live(n) /\ n.events = x.events
      OBVIOUS
    <3>2. PICK list : list = Append(x.selections, token) /\ IsList(list)
      BY <2>10, <3>1, AppendFacts DEF Live, Sound
    <3>3. n = [x EXCEPT !.selections = list] /\ IsMachine(x)
      BY <2>5, <2>10, <3>1, <3>2 DEF Live, Sound
    <3>4. /\ IsMachine(n) /\ n.events = x.events /\ n.selections = list /\ n.trials = x.trials
          /\ n.outcome = x.outcome /\ n.failure = x.failure /\ n.budget = x.budget
      BY <3>3 DEF IsMachine
    <3> QED
      BY <2>10, <3>1, <3>2, <3>4 DEF Live, Sound
  <2>12. ~Ended(x) => r.events = x.events
    BY <2>6, <2>11, FinishFacts
  <2>13. Live(x) /\ ~Ended(x) /\ xi = Image(x, E)
    BY <2>5, <2>6, <2>7, <2>8, <2>9, <2>12, ImageOfSummary
  <2>14. ~Ended(xi) /\ xi.selections = x.selections
    BY <2>13, ImageFacts DEF Live, Sound
  <2>15. ni = Image(n, E) /\ IsMachine(n) /\ ni.selections = n.selections
    <3>1. ni = [xi EXCEPT !.selections = Append(x.selections, token)]
      BY <2>7, <2>14
    <3>2. ni = Image(n, E)
      BY <2>5, <2>13, <3>1 DEF Live, Sound, IsMachine, Image
    <3>3. IsMachine(n)
      BY <2>11, <2>13 DEF Live, Sound
    <3> QED
      BY <3>2, <3>3, ImageFacts
  <2>16. ExecSelect(i, s) = Image(r, E)
    <3>1. PICK v : v = Value("selected", Len(n.selections))
      OBVIOUS
    <3>2. r = Finish(n, s, v) /\ ExecSelect(i, s) = Finish(Image(n, E), s, v)
      BY <2>6, <2>7, <2>13, <2>14, <2>15, <3>1
    <3> QED
      BY <2>15, <3>2, ImageOfFinish
  <2> QED
    BY <1>1, <1>3, <2>16 DEF Repeats
<1> QED
  BY <1>6, <1>7

(* The outcome of a commit, live, is consistent.                           *)
LEMMA RepeatsCommit ==
    ASSUME NEW m, Live(m), ~Ended(m), NEW s, s.value.op = "commit", Committable(m, s.value),
           NEW payload, payload = m.selections[Token(m, s.value)].payload,
           NEW operation, NEW outcome,
           NEW data, data = [payload |-> payload, operation |-> operation, outcome |-> outcome],
           ConsistentOutcome(payload, data),
           NEW r, r = ExecCommit(Spend(m, s.value), s, payload, operation, outcome),
           Telling(r), NEW E, Covers(E, r.events)
    PROVE  Repeats(m, s, r, E)
<1>1. PICK i, spent, si : /\ i = Image(m, E) /\ spent = Spend(m, s.value)
                          /\ si = Spend(i, s.value)
  OBVIOUS
<1>2. i.env = m.env /\ i.selections = m.selections /\ i.events = m.events /\ i.recorded = E /\ IsMachine(m)
  BY <1>1, ImageFacts DEF Live, Sound
<1>3. Live(spent) /\ ~Ended(spent) /\ spent.events = m.events
  BY <1>1, SpendFacts
<1>4. si = Image(spent, E)
  <2>1. PICK registry : spent = [m EXCEPT !.selections = registry] /\ si = [i EXCEPT !.selections = registry]
    BY <1>1, <1>2 DEF Spend, Token
  <2> QED
    BY <1>1, <1>2, <2>1 DEF IsMachine, Image
<1>5. PICK kind, v : kind = "commit" /\ v = Value("outcome", outcome)
  OBVIOUS
<1>6. r = Finish(Observe(spent, kind, data), s, v)
  BY <1>1, <1>5 DEF ExecCommit
<1>7. Fits(spent)
  BY <1>3, <1>6, TellingFits
<1>8. Expected(si, kind) /\ RecordedData(si) = data /\ Finish(Observe(si, kind, data), s, v) = Image(r, E)
  BY <1>3, <1>4, <1>6, <1>7, ImageOfObserved
<1>9. si.events = i.events /\ si.recorded = i.recorded
  BY <1>2, <1>3, <1>4, ImageFacts DEF Live, Sound
<1>10. Expected(i, kind) /\ RecordedData(i) = data
  BY <1>8, <1>9 DEF Expected, RecordedData
<1>11. Committable(i, s.value) /\ i.selections[Token(i, s.value)].payload = payload
  BY <1>2 DEF Committable, Token
<1>12. data.operation = operation /\ data.outcome = outcome
  OBVIOUS
<1>13. ExecCommit(si, s, payload, operation, outcome) = Finish(Observe(si, kind, data), s, v)
  BY <1>5 DEF ExecCommit
<1>14. OfflineCommit(i, s) = ExecCommit(si, s, payload, operation, outcome)
  BY <1>1, <1>5, <1>10, <1>11, <1>12 DEF OfflineCommit
<1>15. OfflineStep(i, s) = OfflineCommit(i, s)
  BY DEF OfflineStep
<1> QED
  BY <1>1, <1>8, <1>13, <1>14, <1>15 DEF Repeats

-----------------------------------------------------------------------------
(* The invariant of replaying.  A run that left nothing open can be        *)
(* repeated from any record that tells its events: f is the replay, and    *)
(* ends in the image of the run.                                           *)
Replays(f, n, E) ==
    /\ f = [k \in 0 .. n |-> f[k]]
    /\ f[0] = Machine(None, E)
    /\ \A k \in 0 .. n - 1 : ~Ended(f[k]) /\ f[k + 1] = OfflineStep(f[k], source[f[k].pc])
Repeated(E) == \E n \in Nat : \E f : Replays(f, n, E) /\ f[n] = Image(live, E)
Reproducible ==
    declared # None /\ Telling(live) => \A E : Covers(E, live.events) => Repeated(E)

(* Receipts are consistent with what they were given for.                  *)
ReceiptsTell ==
    \A r \in receipts :
        /\ r.status \in {"applied", "stale"} /\ r.revision \in Nat
        /\ r.status = "applied" => r.revision = r.base.revision + 1

(* An untouched report is the run's, and its replay is on the way.         *)
Following ==
    \E n \in Nat : \E f :
        /\ Replays(f, n, live.events) /\ f[n] = Image(live, live.events)
        /\ \E k \in 0 .. n : offline = f[k]
Untouched ==
    /\ report = None => offline = None /\ verdict = None
    /\ report # None /\ damage = 0 => report = Report(live, live.events)
    /\ offline # None /\ damage = 0 => Telling(live) /\ Recompiles /\ Following
    /\ CompleteReportsReproduce

ReplayInv == ReceiptsTell /\ Reproducible /\ Untouched

LEMMA OnceMore ==
    ASSUME NEW f, NEW n \in Nat, NEW E, Replays(f, n, E), f[n] = Image(live, E),
           Live(live), Running, Repeats(live, Current, live', E), source' = source
    PROVE  Repeated(E)'
<1>1. PICK end, last : end = Image(live', E) /\ last = n + 1
  OBVIOUS
<1>2. PICK g : g = [k \in 0 .. last |-> IF k = last THEN end ELSE f[k]]
  OBVIOUS
<1>3. last \in Nat /\ n = last - 1 /\ 0 # last /\ 0 \in 0 .. last /\ n \in 0 .. last /\ n # last
  BY <1>1
<1>4. g[last] = end /\ g[0] = f[0] /\ g[n] = f[n]
  BY <1>2, <1>3
<1>5. g = [k \in 0 .. last |-> g[k]]
  BY <1>2
<1>6. ~Ended(f[n]) /\ f[n].pc = live.pc
  BY ImageFacts DEF Live, Sound, Running
<1>7. OfflineStep(g[n], source[g[n].pc]) = g[last]
  BY <1>1, <1>4, <1>6 DEF Repeats, Current
<1>8. ASSUME NEW k \in 0 .. last - 1
      PROVE  ~Ended(g[k]) /\ g[k + 1] = OfflineStep(g[k], source[g[k].pc])
  <2>1. CASE k = n
    BY <1>1, <1>4, <1>6, <1>7, <2>1
  <2>2. CASE k # n
    <3>1. k \in 0 .. n - 1 /\ k \in 0 .. last /\ k # last /\ k + 1 \in 0 .. last /\ k + 1 # last
      BY <1>1, <2>2
    <3>2. g[k] = f[k] /\ g[k + 1] = f[k + 1]
      BY <1>2, <3>1
    <3> QED
      BY <3>1, <3>2 DEF Replays
  <2> QED
    BY <2>1, <2>2
<1>9. Replays(g, last, E)'
  BY <1>4, <1>5, <1>8 DEF Replays
<1> QED
  BY <1>1, <1>3, <1>4, <1>9 DEF Repeated

(* What each step of a run repeats.                                        *)
LEMMA RunRepeats ==
    ASSUME RunInv, ReadSnapshot \/ Propose \/ ProviderFails \/ Compute,
           Telling(live'), NEW E, Covers(E, live'.events)
    PROVE  Repeats(live, Current, live', E)
<1>1. Live(live) /\ ~Ended(live)
  BY DEF ReadSnapshot, Propose, ProviderFails, Compute, At, Running, RunInv
<1>2. CASE ReadSnapshot
  BY <1>1, <1>2, RepeatsRead DEF ReadSnapshot, At
<1>3. CASE Propose
  <2>1. live' # Fail(live)
    BY <1>1, FailFacts DEF Telling
  <2>2. PICK plans : live' = ExecPropose(live, Current, plans)
    BY <1>3, <2>1 DEF Propose
  <2>3. ProposalArguments(live, Current.value)
    BY <1>3, <2>1 DEF Propose
  <2> QED
    BY <1>1, <1>3, <2>2, <2>3, RepeatsPropose DEF Propose, At
<1>4. CASE ProviderFails
  <2>1. PICK status : status = "provider_error"
    OBVIOUS
  <2>2. status \in Statuses /\ status \in Incomplete /\ live' = Stop(live, status)
    BY <1>4, <2>1 DEF ProviderFails, Statuses, Incomplete
  <2>3. live'.outcome # None /\ live'.outcome.status = status
    BY <1>1, <2>2, StopFacts
  <2> QED
    BY <2>2, <2>3 DEF Telling
<1>5. CASE Compute
  <2>1. CASE At("explore") /\ live' = ExecExplore(live, Current)
    BY <1>1, <2>1, RepeatsExplore DEF At
  <2>2. CASE At("select") /\ live' = ExecSelect(live, Current)
    BY <1>1, <2>2, RepeatsSelect DEF At
  <2>3. CASE /\ At("var") \/ At("call") \/ At("simulate")
             /\ live' = ExecPure(live, Current)
    <3>1. Current.value.op \in {"var", "call", "simulate"}
      BY <2>3 DEF At
    <3> QED
      BY <1>1, <2>3, <3>1, RepeatsPure
  <2> QED
    BY <1>5, <2>1, <2>2, <2>3 DEF Compute
<1> QED
  BY <1>2, <1>3, <1>4, <1>5

(* The answers of the adapter are consistent, and so are its receipts.     *)
LEMMA AnswersConsistent ==
    ASSUME RunInv, catalog \in Content, ReceiptsTell, Commit
    PROVE  /\ ReceiptsTell'
           /\ \/ /\ Calling
                 /\ \E status \in {"applied", "stale"}, revision \in Nat :
                       /\ Answer(status, revision)
                       /\ status = "applied" => revision = Payload.base.revision + 1
              \/ ~Telling(live')
<1>1. catalog.revision \in Nat /\ catalog.revision + 1 \in Nat
  BY DEF Content
<1>2. Live(live) /\ ~Ended(live) /\ Live(Spent) /\ ~Ended(Spent)
  BY SpendFacts DEF Commit, RefuseToken, NoRoomForCommit, CommitAgain, CommitStale, CommitApplies,
         CommitRaises, CommitAppliesThenRaises, Calling, At, RunInv, Running, Spent
<1>3. ASSUME NEW status \in {"applied", "stale"}, NEW revision \in Nat,
             receipts' = receipts \cup {Receipt(status, revision)},
             status = "applied" => revision = Payload.base.revision + 1
      PROVE  ReceiptsTell'
  <2>1. PICK r : r = Receipt(status, revision)
    OBVIOUS
  <2>2. r.status = status /\ r.revision = revision /\ r.base = Payload.base
    BY <2>1 DEF Receipt
  <2> QED
    BY <1>3, <2>1, <2>2 DEF ReceiptsTell
<1>4. CASE RefuseToken
  <2>1. live'.failure # None
    BY <1>2, <1>4, FailFacts DEF RefuseToken
  <2> QED
    BY <1>4, <2>1 DEF RefuseToken, target, ReceiptsTell, Telling
<1>5. CASE NoRoomForCommit
  <2>1. PICK status : status = "evidence_limit"
    OBVIOUS
  <2>2. status \in Statuses /\ status \in Incomplete /\ live' = Stop(Spent, status)
    BY <1>5, <2>1 DEF NoRoomForCommit, Statuses, Incomplete
  <2>3. live'.outcome # None /\ live'.outcome.status = status
    BY <1>2, <2>2, StopFacts
  <2> QED
    BY <1>5, <2>2, <2>3 DEF NoRoomForCommit, target, ReceiptsTell, Telling
<1>6. ASSUME AdapterError PROVE ~Telling(live')
  <2>1. PICK status : status = "commit_unresolved"
    OBVIOUS
  <2>2. status \in Statuses /\ status \in Incomplete /\ (live' = Stop(Spent, status) \/ live' = Raise(Spent))
    BY <1>6, <2>1 DEF AdapterError, Statuses, Incomplete
  <2> QED
    BY <1>2, <2>2, StopFacts, FailFacts DEF Telling
<1>7. CASE CommitRaises
  BY <1>6, <1>7 DEF CommitRaises, target, ReceiptsTell
<1>8. CASE CommitAppliesThenRaises
  <2>1. PICK status, revision : status = "applied" /\ revision = catalog.revision + 1
    OBVIOUS
  <2>2. receipts' = receipts \cup {Receipt(status, revision)} /\ Payload.base = catalog
    BY <1>8, <2>1 DEF CommitAppliesThenRaises, Fresh
  <2> QED
    BY <1>1, <1>3, <1>6, <1>8, <2>1, <2>2 DEF CommitAppliesThenRaises
<1>9. CASE CommitApplies
  <2>1. PICK status, revision : status = "applied" /\ revision = catalog.revision + 1
    OBVIOUS
  <2>2. /\ receipts' = receipts \cup {Receipt(status, revision)} /\ Payload.base = catalog
        /\ Calling /\ Answer(status, revision)
    BY <1>9, <2>1 DEF CommitApplies, Fresh
  <2> QED
    BY <1>1, <1>3, <2>1, <2>2
<1>10. CASE CommitStale
  <2>1. PICK status, revision : status = "stale" /\ revision = catalog.revision
    OBVIOUS
  <2>2. /\ receipts' = receipts \cup {Receipt(status, revision)}
        /\ Calling /\ Answer(status, revision)
    BY <1>10, <2>1 DEF CommitStale
  <2>3. status # "applied"
    BY <2>1
  <2> QED
    BY <1>1, <1>3, <2>1, <2>2, <2>3
<1>11. CASE CommitAgain
  <2>1. PICK r \in Known : Answer(r.status, r.revision)
    BY <1>11 DEF CommitAgain
  <2>2. r \in receipts
    BY DEF Known
  <2>3. r.base = Payload.base
    BY <1>11 DEF CommitAgain, Rejected, Conflict, SameIntent
  <2>4. /\ r.status \in {"applied", "stale"} /\ r.revision \in Nat
        /\ r.status = "applied" => r.revision = Payload.base.revision + 1
    BY <2>2, <2>3 DEF ReceiptsTell
  <2>5. ReceiptsTell'
    BY <1>11 DEF CommitAgain, target, ReceiptsTell
  <2> QED
    BY <1>11, <2>1, <2>4, <2>5 DEF CommitAgain
<1> QED
  BY <1>4, <1>5, <1>7, <1>8, <1>9, <1>10, <1>11 DEF Commit

LEMMA CommitRepeats ==
    ASSUME RunInv, catalog \in Content, ReceiptsTell, Commit,
           Telling(live'), NEW E, Covers(E, live'.events)
    PROVE  Repeats(live, Current, live', E)
<1>1. /\ Calling
      /\ \E status \in {"applied", "stale"}, revision \in Nat :
            /\ Answer(status, revision)
            /\ status = "applied" => revision = Payload.base.revision + 1
  BY AnswersConsistent
<1>2. PICK status \in {"applied", "stale"}, revision \in Nat :
         /\ Answer(status, revision)
         /\ status = "applied" => revision = Payload.base.revision + 1
  BY <1>1
<1>3. Live(live) /\ ~Ended(live) /\ Current.value.op = "commit" /\ Committable(live, Current.value)
  BY <1>1 DEF Calling, At, Running, RunInv
<1>4. PICK payload, operation, outcome, data :
         /\ payload = live.selections[Token(live, Current.value)].payload
         /\ operation = OperationId
         /\ outcome = Outcome(status, Identity(payload, operation), revision)
         /\ data = [payload |-> payload, operation |-> operation, outcome |-> outcome]
  OBVIOUS
<1>5. payload = Payload /\ live' = ExecCommit(Spend(live, Current.value), Current, payload, operation, outcome)
  BY <1>2, <1>4 DEF Answer, Payload, Spent
<1>6. ConsistentOutcome(payload, data)
  <2>1. data.payload = payload /\ data.operation = operation /\ data.outcome = outcome
    BY <1>4
  <2>2. outcome.status = status /\ outcome.revision = revision /\ outcome.id = Identity(payload, operation)
    BY <1>4 DEF Outcome
  <2> QED
    BY <1>2, <1>5, <2>1, <2>2 DEF ConsistentOutcome
<1> QED
  BY <1>3, <1>4, <1>5, <1>6, RepeatsCommit

LEMMA ReproducibleStep ==
    ASSUME RunInv, Running, Reproducible, UNCHANGED program, Live(live'),
           Steps(live, Current, live'),
           \A E : Telling(live') /\ Covers(E, live'.events) => Repeats(live, Current, live', E)
    PROVE  Reproducible'
<1>1. declared # None /\ Telling(live) /\ Live(live) /\ source' = source
  BY DEF Running, Telling, Ended, RunInv, program
<1>2. Remembers(live, live')
  BY <1>1, StepsRemember
<1>3. SUFFICES ASSUME Telling(live'), NEW E, Covers(E, live'.events) PROVE Repeated(E)'
  BY DEF Reproducible
<1>4. Covers(E, live.events)
  BY <1>2, <1>3 DEF Covers, Remembers
<1>5. PICK n, f : n \in Nat /\ Replays(f, n, E) /\ f[n] = Image(live, E)
  BY <1>1, <1>4 DEF Reproducible, Repeated
<1>6. Repeats(live, Current, live', E)
  BY <1>3
<1> QED
  BY <1>1, <1>5, <1>6, OnceMore

LEMMA RunningUntouched ==
    ASSUME RunInv, Untouched, Running, UNCHANGED saved
    PROVE  Untouched'
<1>1. report = None /\ UNCHANGED saved
  BY SavedStep DEF RunInv
<1>2. report' = None /\ offline' = None /\ verdict' = None
  BY <1>1 DEF Untouched, saved
<1> QED
  BY <1>2 DEF Untouched, CompleteReportsReproduce

LEMMA ReportFacts ==
    ASSUME NEW r, r = Report(live, live.events)
    PROVE  /\ r.exploration = live.exploration /\ r.selection = live.selection
           /\ r.outcome = live.outcome /\ r.events = live.events
           /\ r.complete <=> live.outcome.status \notin Incomplete
BY DEF Report

LEMMA SameRun ==
    ASSUME Reproducible, Untouched, UNCHANGED <<program, live>>
    PROVE  Reproducible' /\ (Following => (offline' = offline => Following'))
<1>1. declared' = declared /\ live' = live /\ source' = source
  BY DEF program
<1>2. Reproducible'
  BY <1>1 DEF Reproducible, Repeated, Replays
<1>3. Following /\ offline' = offline => Following'
  BY <1>1 DEF Following, Replays
<1> QED
  BY <1>2, <1>3

LEMMA SaveUntouched ==
    ASSUME RunInv, ReplayInv, Save
    PROVE  Untouched'
<1>1. /\ report = None /\ report' = Report(live, live.events) /\ live' = live
      /\ offline' = offline /\ verdict' = verdict
  BY DEF Save
<1>2. offline' = None /\ verdict' = None
  BY <1>1 DEF ReplayInv, Untouched
<1> QED
  BY <1>1, <1>2 DEF Untouched, CompleteReportsReproduce

LEMMA DamageUntouched ==
    ASSUME RunInv, ReplayInv, Damage
    PROVE  Untouched'
<1>1. damage' # 0
  BY DEF Damage, RunInv, Saved
<1>2. offline' = None /\ verdict' = None
  BY DEF Damage
<1> QED
  BY <1>1, <1>2 DEF Untouched, CompleteReportsReproduce

LEMMA ReplayBegins ==
    ASSUME RunInv, ReplayInv, Replay
    PROVE  Untouched'
<1>1. /\ report # None /\ report' = report /\ damage' = damage /\ live' = live
      /\ source' = source /\ declared' = declared /\ checker' = checker
  BY DEF Replay, program
<1>2. CASE damage # 0
  BY <1>1, <1>2 DEF Untouched, CompleteReportsReproduce
<1>3. CASE damage = 0
  <2>1. /\ report = Report(live, live.events) /\ report.events = live.events
        /\ report.complete <=> live.outcome.status \notin Incomplete
    BY <1>1, <1>3, ReportFacts DEF ReplayInv, Untouched
  <2>2. live.outcome # None /\ live.failure = None
    BY <1>1 DEF RunInv, Saved, Live, Sound
  <2>3. CASE ~(report.complete /\ Recompiles)
    <3>1. verdict' = "refused" /\ offline' = offline /\ offline = None
      BY <2>3 DEF Replay
    <3> QED
      BY <1>1, <1>3, <2>1, <2>3, <3>1 DEF Untouched, Recompiles, CompleteReportsReproduce
  <2>4. CASE report.complete /\ Recompiles
    <3>1. verdict' = None /\ offline' = Machine(None, live.events)
      BY <2>1, <2>4 DEF Replay
    <3>2. Telling(live)
      BY <2>1, <2>2, <2>4 DEF Telling
    <3>3. declared # None
      BY <1>1 DEF RunInv, Program
    <3>4. Repeated(live.events)
      BY <3>2, <3>3 DEF ReplayInv, Reproducible, Covers
    <3>5. PICK n, f : n \in Nat /\ Replays(f, n, live.events) /\ f[n] = Image(live, live.events)
      BY <3>4 DEF Repeated
    <3>6. offline' = f[0] /\ 0 \in 0 .. n
      BY <3>1, <3>5 DEF Replays
    <3>7. Following'
      BY <1>1, <3>5, <3>6 DEF Following, Replays
    <3> QED
      BY <1>1, <1>3, <2>1, <2>4, <3>1, <3>2, <3>7 DEF Untouched, Recompiles, CompleteReportsReproduce
  <2> QED
    BY <2>3, <2>4
<1> QED
  BY <1>2, <1>3

LEMMA ReplayGoesOn ==
    ASSUME RunInv, ReplayInv, ReplayStep
    PROVE  Untouched'
<1>1. /\ report' = report /\ damage' = damage /\ live' = live /\ source' = source /\ checker' = checker
      /\ offline # None /\ verdict = None /\ verdict' = None /\ ~Ended(offline)
      /\ offline' = OfflineStep(offline, source[offline.pc])
  BY DEF ReplayStep, Replaying, program
<1>2. report # None
  BY <1>1 DEF ReplayInv, Untouched
<1>3. CASE damage # 0
  BY <1>1, <1>2, <1>3 DEF Untouched, Recompiles, CompleteReportsReproduce
<1>4. CASE damage = 0
  <2>1. report = Report(live, live.events) /\ Telling(live) /\ Recompiles /\ Following
    BY <1>1, <1>2, <1>4 DEF ReplayInv, Untouched
  <2>2. PICK n, f : /\ n \in Nat /\ Replays(f, n, live.events) /\ f[n] = Image(live, live.events)
                   /\ \E k \in 0 .. n : offline = f[k]
    BY <2>1 DEF Following
  <2>3. PICK k \in 0 .. n : offline = f[k]
    BY <2>2
  <2>4. k # n
    <3>1. live.outcome # None
      BY <1>2 DEF RunInv, Saved
    <3>2. Ended(Image(live, live.events))
      BY <3>1, ImageFacts DEF RunInv, Live, Sound, Ended
    <3> QED
      BY <1>1, <2>2, <2>3, <3>2
  <2>5. k \in 0 .. n - 1 /\ k + 1 \in 0 .. n
    BY <2>2, <2>4
  <2>6. offline' = f[k + 1]
    BY <1>1, <2>2, <2>3, <2>5 DEF Replays
  <2>7. Following'
    BY <1>1, <2>2, <2>5, <2>6 DEF Following, Replays
  <2> QED
    BY <1>1, <1>2, <1>4, <2>1, <2>7 DEF Untouched, Recompiles, CompleteReportsReproduce
<1> QED
  BY <1>3, <1>4

LEMMA ReplayIsOver ==
    ASSUME RunInv, ReplayInv, ReplayEnds
    PROVE  Untouched'
<1>1. /\ report' = report /\ damage' = damage /\ live' = live /\ source' = source /\ checker' = checker
      /\ offline # None /\ offline' = offline /\ Ended(offline)
      /\ verdict' = IF Reproduces(offline, report) THEN "reproduced" ELSE "refused"
  BY DEF ReplayEnds, Replaying, program
<1>2. report # None
  BY <1>1 DEF ReplayInv, Untouched
<1>3. CASE damage # 0
  BY <1>1, <1>2, <1>3 DEF Untouched, Recompiles, CompleteReportsReproduce
<1>4. CASE damage = 0
  <2>1. report = Report(live, live.events) /\ Telling(live) /\ Recompiles /\ Following
    BY <1>1, <1>2, <1>4 DEF ReplayInv, Untouched
  <2>2. PICK n, f : /\ n \in Nat /\ Replays(f, n, live.events) /\ f[n] = Image(live, live.events)
                   /\ \E k \in 0 .. n : offline = f[k]
    BY <2>1 DEF Following
  <2>3. PICK k \in 0 .. n : offline = f[k]
    BY <2>2
  <2>4. offline = Image(live, live.events)
    <3>1. CASE k = n
      BY <2>2, <2>3, <3>1
    <3>2. CASE k # n
      <4>1. k \in 0 .. n - 1
        BY <2>2, <3>2
      <4> QED
        BY <1>1, <2>2, <2>3, <4>1 DEF Replays
    <3> QED
      BY <3>1, <3>2
  <2>5. /\ offline.failure = live.failure /\ offline.events = live.events
        /\ offline.exploration = live.exploration /\ offline.selection = live.selection
        /\ offline.outcome = live.outcome
    BY <2>4, ImageFacts DEF RunInv, Live, Sound
  <2>6. /\ report.exploration = live.exploration /\ report.selection = live.selection
        /\ report.outcome = live.outcome /\ report.events = live.events
        /\ report.complete <=> live.outcome.status \notin Incomplete
    BY <2>1, ReportFacts
  <2>7. live.outcome # None
    BY <1>2 DEF RunInv, Saved
  <2>8. live.failure = None /\ report.complete
    BY <2>1, <2>6, <2>7 DEF Telling
  <2>9. Reproduces(offline, report)
    BY <2>5, <2>6, <2>8 DEF Reproduces
  <2>10. Following'
    BY <1>1, <2>1 DEF Following, Replays
  <2> QED
    BY <1>1, <1>2, <1>4, <2>1, <2>8, <2>9, <2>10 DEF Untouched, Recompiles, CompleteReportsReproduce
<1> QED
  BY <1>3, <1>4

LEMMA ReplayInvBegins == Init => ReplayInv
<1> SUFFICES ASSUME Init PROVE ReplayInv
  OBVIOUS
<1> QED
  BY DEF Init, ReplayInv, ReceiptsTell, Reproducible, Untouched, CompleteReportsReproduce

LEMMA WrittenReproducible ==
    ASSUME RunInv, ReplayInv, WriteLet \/ WriteReturn
    PROVE  ReplayInv'
<1>1. /\ declared = None /\ report = None /\ receipts' = receipts /\ UNCHANGED saved
      /\ live = Machine(0, None)
  BY DEF WriteLet, WriteReturn, RunInv, Program, target
<1>2. report' = None /\ offline' = None /\ verdict' = None
  BY <1>1 DEF ReplayInv, Untouched, saved
<1>3. PICK budget : live' = Machine(budget, None)
  BY <1>1 DEF WriteLet, WriteReturn
<1>4. ASSUME NEW E PROVE Repeated(E)'
  <2>1. PICK start : start = Machine(None, E)
    OBVIOUS
  <2>2. PICK f : f = [k \in 0 .. 0 |-> start]
    OBVIOUS
  <2>3. f[0] = start /\ f = [k \in 0 .. 0 |-> f[k]]
    BY <2>2
  <2>4. Image(live', E) = start
    <3>1. PICK m, nil, one : m = Machine(budget, None) /\ nil = <<>> /\ one = 1
      OBVIOUS
    <3>2. m = [pc |-> one, env |-> nil, trials |-> nil, selections |-> nil,
               exploration |-> None, selection |-> None, events |-> nil,
               outcome |-> None, failure |-> None, budget |-> budget, recorded |-> None]
      BY <3>1 DEF Machine
    <3>3. start = [pc |-> one, env |-> nil, trials |-> nil, selections |-> nil,
                   exploration |-> None, selection |-> None, events |-> nil,
                   outcome |-> None, failure |-> None, budget |-> None, recorded |-> E]
      BY <2>1, <3>1 DEF Machine
    <3>4. IsMachine(m)
      BY <3>2 DEF IsMachine
    <3>5. PICK i : i = Image(m, E)
      OBVIOUS
    <3>6. /\ IsMachine(i) /\ i.pc = one /\ i.env = nil /\ i.trials = nil /\ i.selections = nil
          /\ i.exploration = None /\ i.selection = None /\ i.events = nil
          /\ i.outcome = None /\ i.failure = None /\ i.budget = None /\ i.recorded = E
      BY <3>2, <3>4, <3>5, ImageFacts
    <3>7. i = start
      BY <3>3, <3>6 DEF IsMachine
    <3> QED
      BY <1>3, <3>1, <3>5, <3>7
  <2>5. Replays(f, 0, E)'
    BY <2>1, <2>3 DEF Replays
  <2> QED
    BY <2>3, <2>4, <2>5 DEF Repeated
<1> QED
  BY <1>1, <1>2, <1>4 DEF ReplayInv, ReceiptsTell, Reproducible, Untouched, CompleteReportsReproduce

LEMMA ReplayInvKept ==
    RunInv /\ RunInv' /\ Justified /\ ReplayInv /\ [Next]_vars => ReplayInv'
<1> SUFFICES ASSUME RunInv, RunInv', Justified, ReplayInv, [Next]_vars PROVE ReplayInv'
  OBVIOUS
<1>1. CASE WriteLet \/ WriteReturn
  BY <1>1, WrittenReproducible
<1>2. CASE ReadSnapshot \/ Propose \/ ProviderFails \/ Compute
  <2>1. Running /\ UNCHANGED program /\ Steps(live, Current, live') /\ Live(live')
    BY <1>2, RunSteps DEF RunInv
  <2>2. receipts' = receipts /\ UNCHANGED saved
    BY <1>2 DEF ReadSnapshot, Propose, ProviderFails, Compute, target
  <2>3. Reproducible'
    BY <1>2, <2>1, RunRepeats, ReproducibleStep DEF ReplayInv
  <2>4. Untouched'
    BY <2>1, <2>2, RunningUntouched DEF ReplayInv
  <2> QED
    BY <2>2, <2>3, <2>4 DEF ReplayInv, ReceiptsTell
<1>3. CASE Commit
  <2>1. Running /\ UNCHANGED program /\ Steps(live, Current, live') /\ Live(live')
    BY <1>3, CommitSteps DEF RunInv
  <2>2. UNCHANGED saved
    BY <1>3 DEF Commit, RefuseToken, NoRoomForCommit, CommitAgain, CommitStale, CommitApplies,
                CommitRaises, CommitAppliesThenRaises
  <2>3. catalog \in Content /\ ReceiptsTell
    BY DEF Justified, ReplayInv
  <2>4. ReceiptsTell'
    BY <1>3, <2>3, AnswersConsistent
  <2>5. Reproducible'
    BY <1>3, <2>1, <2>3, CommitRepeats, ReproducibleStep DEF ReplayInv
  <2>6. Untouched'
    BY <2>1, <2>2, RunningUntouched DEF ReplayInv
  <2> QED
    BY <2>4, <2>5, <2>6 DEF ReplayInv
<1>4. CASE OutsideWrite
  <2>1. UNCHANGED <<program, live>> /\ receipts' = receipts /\ UNCHANGED saved /\ Running
    BY <1>4 DEF OutsideWrite
  <2> QED
    BY <2>1, SameRun, RunningUntouched DEF ReplayInv, ReceiptsTell
<1>5. CASE Save \/ Damage \/ Replay \/ ReplayStep \/ ReplayEnds
  <2>1. UNCHANGED <<program, live>> /\ receipts' = receipts
    BY <1>5 DEF Save, Damage, Replay, ReplayStep, ReplayEnds, target
  <2>2. Untouched'
    BY <1>5, SaveUntouched, DamageUntouched, ReplayBegins, ReplayGoesOn, ReplayIsOver
  <2> QED
    BY <2>1, <2>2, SameRun DEF ReplayInv, ReceiptsTell
<1>6. CASE UNCHANGED vars
  <2>1. /\ UNCHANGED <<program, live>> /\ receipts' = receipts /\ report' = report
        /\ damage' = damage /\ offline' = offline /\ verdict' = verdict
        /\ checker' = checker
    BY <1>6 DEF vars, program
  <2>2. Reproducible' /\ (Following => Following')
    BY <2>1, SameRun DEF ReplayInv
  <2>3. Untouched'
    BY <2>1, <2>2 DEF ReplayInv, Untouched, Recompiles, CompleteReportsReproduce
  <2> QED
    BY <2>1, <2>2, <2>3 DEF ReplayInv, ReceiptsTell
<1> QED
  BY <1>1, <1>2, <1>3, <1>4, <1>5, <1>6 DEF Next

(* The invariant of replaying: from a record that tells its events, what a *)
(* run has done can be repeated, up to any place of it.                    *)
THEOREM RunsAreReproducible == Spec => []ReplayInv
BY ReplayInvBegins, ReplayInvKept, Inductive, ValuesDescend, PTL DEF Spec

(* Replaying an untouched report reproduces it exactly when it is complete *)
(* and the checker accepts its program (replay.reproduce), whatever was    *)
(* waived when it ran, however often others wrote to the catalog meanwhile *)
(* and however the commits of the run ended.                               *)
THEOREM CompleteReportsAreReproduced == Spec => []CompleteReportsReproduce
<1>1. ReplayInv => CompleteReportsReproduce
  BY DEF ReplayInv, Untouched
<1> QED
  BY <1>1, RunsAreReproducible, PTL
-----------------------------------------------------------------------------
(* What the checker has approved of when it reports nothing.               *)
Faultless(c) == ToSet(c.diagnostics) = {}
Approved(c, s, branch, d) ==
    LET type == TypeOf(c, s.value, branch) IN
    /\ Extends(c, d)
    /\ Correct(c, s.value, branch) /\ Consumes(c, s.value) \subseteq d.consumed
    /\ s.kind = "let" => s.name \notin DOMAIN c.env /\ d.env = Bind(c.env, s.name, type)
    /\ s.kind # "let" => d.env = c.env
    /\ s.kind = "return" => branch = NoBranch /\ type.kind = "outcome"
    /\ s.kind = "check" => type.kind = "bool"
    /\ s.kind = "measure" => type.kind = "int"

LEMMA ApprovedFurther ==
    ASSUME NEW c, IsChecker(c), NEW s, NEW branch, NEW d, Approved(c, s, branch, d),
           NEW x, Extends(d, x), x.env = d.env
    PROVE  Approved(c, s, branch, x)
<1>1. Extends(c, x)
  BY ExtendsFurther DEF Approved
<1>2. d.consumed \subseteq x.consumed
  BY DEF Extends
<1>3. PICK type : type = TypeOf(c, s.value, branch)
  OBVIOUS
<1> QED
  BY <1>1, <1>2, <1>3 DEF Approved

LEMMA FaultlessBefore ==
    ASSUME NEW c, NEW d, Extends(c, d), Faultless(d)
    PROVE  Faultless(c)
BY DEF Extends, Faultless

(* What settling a statement says of the type of its value.                *)
LEMMA SettledMeans ==
    ASSUME NEW c, IsChecker(c), NEW s, s.kind \in Kinds, NEW type, NEW branch,
           Faultless(Settled(c, s, type, branch))
    PROVE  /\ s.kind = "return" => branch = NoBranch /\ type.kind = "outcome"
           /\ s.kind = "check" => type.kind = "bool"
           /\ s.kind = "measure" => type.kind = "int"
<1>1. ASSUME NEW code, NEW wrong, Settled(c, s, type, branch) = Reported(c, Flag(code, wrong))
      PROVE  ~wrong
  <2>1. PICK codes : codes = Flag(code, wrong)
    OBVIOUS
  <2>2. IsList(codes) /\ (wrong => code \in ToSet(codes))
    BY <2>1, FlagFacts
  <2>3. ToSet(codes) \subseteq ToSet(Settled(c, s, type, branch).diagnostics)
    BY <1>1, <2>1, <2>2, ReportedFacts
  <2> QED
    BY <2>2, <2>3 DEF Faultless
<1>2. CASE s.kind = "let"
  BY <1>2
<1>3. CASE s.kind = "return"
  <2>1. Settled(c, s, type, branch)
          = Reported(c, Flag("F3203", branch # NoBranch \/ type.kind # "outcome"))
    BY <1>3 DEF Settled
  <2>2. ~(branch # NoBranch \/ type.kind # "outcome")
    BY <1>1, <2>1
  <2> QED
    BY <1>3, <2>2
<1>4. CASE s.kind = "check"
  <2>1. Settled(c, s, type, branch) = Reported(c, Flag("F3205", type.kind # "bool"))
    BY <1>4 DEF Settled
  <2>2. ~(type.kind # "bool")
    BY <1>1, <2>1
  <2> QED
    BY <1>4, <2>2
<1>5. CASE s.kind = "measure"
  <2>1. Settled(c, s, type, branch)
          = Reported(c, Flag("F3205", type.kind # "int" \/ s.type # "Int"))
    BY <1>5 DEF Settled
  <2>2. ~(type.kind # "int" \/ s.type # "Int")
    BY <1>1, <2>1
  <2> QED
    BY <1>5, <2>2
<1> QED
  BY <1>2, <1>3, <1>4, <1>5 DEF Kinds

(* Types and errors depend on what is in scope, not on what was reported.  *)
LEMMA SameMeaning ==
    ASSUME NEW b, NEW c, b.env = c.env, b.snapshots = c.snapshots,
           b.selections = c.selections, b.consumed = c.consumed, NEW e, e.op \in Operations, NEW branch
    PROVE  /\ TypeOf(b, e, branch) = TypeOf(c, e, branch)
           /\ Correct(b, e, branch) => Correct(c, e, branch)
           /\ Consumes(b, e) = Consumes(c, e)
<1>1. \A n : Lookup(b, n) = Lookup(c, n) /\ (Readable(b, n) <=> Readable(c, n))
  BY DEF Lookup, Readable
<1>2. ExploredResource(b, e) = ExploredResource(c, e)
  BY <1>1 DEF ExploredResource
<1>3. TypeOf(b, e, branch) = TypeOf(c, e, branch)
  BY <1>1, <1>2 DEF TypeOf, Operations
<1>4. Correct(b, e, branch) => Correct(c, e, branch)
  BY <1>1 DEF Correct
<1>5. Consumes(b, e) = Consumes(c, e)
  BY <1>1 DEF Consumes
<1> QED
  BY <1>3, <1>4, <1>5

LEMMA StatementMeans ==
    ASSUME NEW c, IsChecker(c), NEW s, s.kind \in Kinds, Worded(s.value), NEW branch,
           NEW explored, Extends(Visited(Entered(c, s, branch), s.value, branch), explored),
           explored.env = c.env,
           Faultless(Settled(explored, s, TypeOf(Entered(c, s, branch), s.value, branch), branch))
    PROVE  /\ Approved(c, s, branch,
                       Settled(explored, s, TypeOf(Entered(c, s, branch), s.value, branch), branch))
           /\ Faultless(explored)
<1>1. PICK b : b = Entered(c, s, branch)
  OBVIOUS
<1>2. /\ Extends(c, b) /\ b.env = c.env /\ b.snapshots = c.snapshots
      /\ b.selections = c.selections /\ b.consumed = c.consumed
      /\ s.kind = "let" /\ s.name \in DOMAIN c.env => "F3003" \in ToSet(b.diagnostics)
  BY <1>1, EnteredFacts
<1>3. PICK v : v = Visited(b, s.value, branch)
  OBVIOUS
<1>4. IsChecker(b)
  BY <1>2 DEF Extends
<1>5. /\ Extends(b, v) /\ Consumes(b, s.value) \subseteq v.consumed
      /\ ToSet(ErrorsOf(b, s.value, branch)) \subseteq ToSet(v.diagnostics)
  BY <1>3, <1>4, VisitedFacts
<1>6. Extends(v, explored) /\ IsChecker(v) /\ IsChecker(explored)
  BY <1>1, <1>3, <1>5 DEF Extends
<1>7. PICK type : type = TypeOf(b, s.value, branch)
  OBVIOUS
<1>8. type = TypeOf(c, s.value, branch) /\ Consumes(b, s.value) = Consumes(c, s.value)
      /\ (Correct(b, s.value, branch) => Correct(c, s.value, branch))
  BY <1>2, <1>7, SameMeaning DEF Worded
<1>9. PICK d : d = Settled(explored, s, type, branch)
  OBVIOUS
<1>10. Faultless(d)
  BY <1>1, <1>7, <1>9
<1>11. /\ Extends(explored, d)
       /\ d.env = IF s.kind = "let" THEN Bind(c.env, s.name, type) ELSE c.env
  BY <1>6, <1>9, SettledFacts
<1>12. Faultless(explored) /\ Faultless(v) /\ Faultless(b)
  BY <1>5, <1>6, <1>10, <1>11, FaultlessBefore
<1>13. Extends(c, d) /\ v.consumed \subseteq d.consumed
  <2>1. Extends(v, d)
    BY <1>6, <1>11, ExtendsFurther
  <2>2. Extends(b, d)
    BY <1>4, <1>5, <2>1, ExtendsFurther
  <2> QED
    BY <1>2, <2>1, <2>2, ExtendsFurther DEF Extends
<1>14. Correct(c, s.value, branch)
  BY <1>5, <1>8, <1>12, ErrorsFacts DEF Faultless
<1>15. s.kind = "let" => s.name \notin DOMAIN c.env
  BY <1>2, <1>12 DEF Faultless
<1>16. /\ s.kind = "return" => branch = NoBranch /\ type.kind = "outcome"
       /\ s.kind = "check" => type.kind = "bool"
       /\ s.kind = "measure" => type.kind = "int"
  BY <1>6, <1>9, <1>10, SettledMeans
<1>17. Approved(c, s, branch, d)
  BY <1>5, <1>8, <1>11, <1>13, <1>14, <1>15, <1>16 DEF Approved
<1> QED
  BY <1>1, <1>7, <1>9, <1>12, <1>17

(* In a chain that ends without a report nothing was reported.             *)
LEMMA ChainFaultless ==
    ASSUME NEW n \in Nat, NEW f, IsChecker(f[0]), Faultless(f[n]),
           \A i \in 0 .. n - 1 : IsChecker(f[i]) => Extends(f[i], f[i + 1])
    PROVE  \A i \in 0 .. n : IsChecker(f[i]) /\ Faultless(f[i])
<1> DEFINE S == {k \in 0 .. n : \A j \in 0 .. k : IsChecker(f[j]) /\ Extends(f[j], f[k])}
<1>1. 0 \in S
  BY DEF Extends, IsChecker
<1>2. ASSUME NEW k \in 0 .. n - 1, k \in S PROVE k + 1 \in S
  <2>1. k \in 0 .. k /\ k + 1 \in 0 .. n
    OBVIOUS
  <2>2. Extends(f[k], f[k + 1]) /\ IsChecker(f[k + 1])
    BY <1>2, <2>1 DEF Extends
  <2>3. ASSUME NEW j \in 0 .. k + 1 PROVE IsChecker(f[j]) /\ Extends(f[j], f[k + 1])
    <3>1. CASE j = k + 1
      BY <2>2, <3>1 DEF Extends, IsChecker
    <3>2. CASE j # k + 1
      <4>1. j \in 0 .. k
        BY <3>2
      <4>2. IsChecker(f[j]) /\ Extends(f[j], f[k])
        BY <1>2, <4>1
      <4> QED
        BY <2>2, <4>2, ExtendsFurther
    <3> QED
      BY <3>1, <3>2
  <2> QED
    BY <2>1, <2>3
<1>3. n \in S
  <2>1. \A i \in 0 .. n : i \in S
    <3> HIDE DEF S
    <3> QED
      BY <1>1, <1>2, Climbs
  <2> QED
    BY <2>1
<1> QED
  BY <1>3, FaultlessBefore

(* A body that is approved, statement by statement.                        *)
BodyApproved(c, e) ==
    \E f, branch, item :
        /\ branch # NoBranch /\ item.kind = "plan"
        /\ f[0].env = Bind(c.env, Item, item)
        /\ \A i \in 1 .. Len(e.body) : Approved(f[i - 1], e.body[i], branch, f[i])

LEMMA BranchStatementMeans ==
    ASSUME NEW c, IsChecker(c), NEW s, s.kind \in Kinds, Worded(s.value), NEW branch,
           s.value.op = "explore" => Parsed(s.value.body),
           Faultless(BranchStatement(c, s, branch))
    PROVE  Approved(c, s, branch, BranchStatement(c, s, branch))
<1>1. PICK v : v = Visited(Entered(c, s, branch), s.value, branch)
  OBVIOUS
<1>2. IsChecker(v) /\ v.env = c.env
  <2>1. PICK b : b = Entered(c, s, branch)
    OBVIOUS
  <2>2. IsChecker(b) /\ b.env = c.env
    BY <2>1, EnteredFacts DEF Extends
  <2>3. IsChecker(v) /\ v.env = b.env
    BY <1>1, <2>1, <2>2, VisitedFacts DEF Extends
  <2> QED
    BY <2>2, <2>3
<1>3. PICK x : x = IF s.value.op = "explore" THEN InnerBody(v, s.value) ELSE v
  OBVIOUS
<1>4. Extends(v, x) /\ x.env = c.env
  <2>1. CASE s.value.op = "explore"
    BY <1>2, <1>3, <2>1, InnerBodyFacts
  <2>2. CASE s.value.op # "explore"
    BY <1>2, <1>3, <2>2 DEF Extends, IsChecker
  <2> QED
    BY <2>1, <2>2
<1>5. BranchStatement(c, s, branch) = Settled(x, s, TypeOf(Entered(c, s, branch), s.value, branch), branch)
  BY <1>1, <1>3 DEF BranchStatement, StatementWith
<1> QED
  BY <1>1, <1>4, <1>5, StatementMeans

LEMMA BodyMeans ==
    ASSUME NEW c, IsChecker(c), NEW e, e.body \in Bodies, Faultless(CheckBody(c, e)),
           Explorable(Lookup(c, e.plans), Lookup(c, e.base))
    PROVE  BodyApproved(c, e)
<1> DEFINE n == Len(e.body)
           branch == BodyBranch(c, e)
<1>1. n \in Nat /\ DOMAIN e.body = 1 .. n
  BY ListFacts, BodiesAssumption DEF Nesting, Flat, Parsed
<1>2. PICK h : h = CHOOSE f : BranchRun(c, e, f, n)
  OBVIOUS
<1>3. BranchRun(c, e, h, n)
  BY <1>1, <1>2, BranchRuns
<1>4. CheckBody(c, e) = [h[n] EXCEPT !.env = c.env]
  BY <1>2 DEF CheckBody, BodyWith, BranchRun, BranchNext, Within, BodyBranch, Twice
<1>5. h[0] = Within(c, e)
  BY <1>1, <1>3 DEF BranchRun
<1>6. PICK item : item.kind = "plan" /\ h[0] = [c EXCEPT !.env = Bind(c.env, Item, item)]
  BY <1>5 DEF Within, Binding
<1>7. IsChecker(h[0]) /\ h[0].env = Bind(c.env, Item, item)
  <2>1. PICK env : env = Bind(c.env, Item, item)
    OBVIOUS
  <2>2. h[0] = [c EXCEPT !.env = env]
    BY <1>6, <2>1
  <2> QED
    BY <2>1, <2>2 DEF IsChecker
<1>8. ASSUME NEW i \in 0 .. n - 1, IsChecker(h[i])
      PROVE  /\ Extends(h[i], h[i + 1])
             /\ Faultless(h[i + 1]) => Approved(h[i], e.body[i + 1], branch, h[i + 1])
  <2>1. i + 1 \in 1 .. n /\ i + 1 \in 0 .. n /\ i + 1 # 0 /\ (i + 1) - 1 = i
    BY <1>1
  <2>2. h[i + 1] = BranchNext(c, e, h[i], i + 1)
    BY <1>3, <2>1 DEF BranchRun
  <2>3. PICK s : s = e.body[i + 1]
    OBVIOUS
  <2>4. /\ s.kind \in Kinds /\ Worded(s.value)
        /\ s.value.op = "explore" => Parsed(s.value.body)
    BY <1>1, <2>1, <2>3, BodiesAssumption DEF Nesting, Flat, Parsed, Worded
  <2>5. PICK d : d = BranchStatement(h[i], s, branch)
    OBVIOUS
  <2>6. Extends(h[i], d) /\ IsChecker(d)
    BY <1>8, <2>4, <2>5, BranchStatementFacts DEF Extends
  <2>7. PICK codes : codes = Twice(e, i + 1)
    OBVIOUS
  <2>8. IsList(codes)
    BY <2>7, FlagFacts DEF Twice
  <2>9. h[i + 1] = Reported(d, codes)
    BY <2>2, <2>3, <2>5, <2>7 DEF BranchNext
  <2>10. Extends(d, h[i + 1]) /\ h[i + 1].env = d.env
    BY <2>6, <2>8, <2>9, ReportedFacts
  <2>11. ASSUME Faultless(h[i + 1]) PROVE Approved(h[i], s, branch, h[i + 1])
    <3>1. Faultless(d)
      BY <2>10, <2>11, FaultlessBefore
    <3>2. Approved(h[i], s, branch, d)
      BY <1>8, <2>4, <2>5, <3>1, BranchStatementMeans
    <3> QED
      BY <1>8, <2>10, <3>2, ApprovedFurther
  <2>12. Extends(h[i], h[i + 1])
    BY <1>8, <2>6, <2>10, ExtendsFurther
  <2> QED
    BY <2>3, <2>11, <2>12
<1>9. Extends(h[0], h[n])
  <2> HIDE DEF n
  <2> QED
    BY <1>1, <1>7, <1>8, ChainExtends
<1>10. Faultless(h[n])
  <2>1. PICK d, env : d = h[n] /\ env = c.env
    OBVIOUS
  <2>2. CheckBody(c, e) = [d EXCEPT !.env = env] /\ IsChecker(d)
    BY <1>4, <1>9, <2>1 DEF Extends
  <2>3. CheckBody(c, e).diagnostics = d.diagnostics
    BY <2>2 DEF IsChecker
  <2> QED
    BY <2>1, <2>3 DEF Faultless
<1>11. \A i \in 0 .. n : IsChecker(h[i]) /\ Faultless(h[i])
  <2> HIDE DEF n, branch
  <2> QED
    BY <1>1, <1>7, <1>8, <1>10, ChainFaultless
<1>12. ASSUME NEW i \in 1 .. n PROVE Approved(h[i - 1], e.body[i], branch, h[i])
  <2>1. PICK j \in 0 .. n - 1 : i = j + 1 /\ i - 1 = j
    BY <1>1
  <2>2. j \in 0 .. n /\ j + 1 \in 0 .. n
    BY <1>1
  <2> HIDE DEF n, branch
  <2> QED
    BY <1>8, <1>11, <2>1, <2>2
<1>13. branch # NoBranch
  <2>1. branch.resource # None
    BY DEF BodyBranch, Branch, ExploredResource, Explorable
  <2>2. NoBranch.resource = None
    BY DEF NoBranch, Branch
  <2> QED
    BY <2>1, <2>2
<1> HIDE DEF branch
<1> QED
  BY <1>6, <1>7, <1>12, <1>13 DEF BodyApproved

(* A statement of the decision itself.                                     *)
LEMMA CheckStatementMeans ==
    ASSUME NEW c, IsChecker(c), NEW s, s.kind \in Kinds, Worded(s.value),
           s.value.op = "explore" => s.value.body \in Bodies,
           Faultless(CheckStatement(c, s))
    PROVE  /\ Approved(c, s, NoBranch, CheckStatement(c, s))
           /\ s.value.op = "explore" => BodyApproved(c, s.value)
<1>1. PICK v : v = Visited(Entered(c, s, NoBranch), s.value, NoBranch)
  OBVIOUS
<1>2. IsChecker(v) /\ v.env = c.env
  <2>1. PICK b : b = Entered(c, s, NoBranch)
    OBVIOUS
  <2>2. IsChecker(b) /\ b.env = c.env
    BY <2>1, EnteredFacts DEF Extends
  <2>3. IsChecker(v) /\ v.env = b.env
    BY <1>1, <2>1, <2>2, VisitedFacts DEF Extends
  <2> QED
    BY <2>2, <2>3
<1>3. PICK x : x = IF s.value.op = "explore" THEN CheckBody(v, s.value) ELSE v
  OBVIOUS
<1>4. Extends(v, x) /\ x.env = c.env
  <2>1. CASE s.value.op = "explore"
    BY <1>2, <1>3, <2>1, CheckBodyFacts
  <2>2. CASE s.value.op # "explore"
    BY <1>2, <1>3, <2>2 DEF Extends, IsChecker
  <2> QED
    BY <2>1, <2>2
<1>5. CheckStatement(c, s)
        = Settled(x, s, TypeOf(Entered(c, s, NoBranch), s.value, NoBranch), NoBranch)
  BY <1>1, <1>3 DEF CheckStatement, StatementWith
<1>6. Approved(c, s, NoBranch, CheckStatement(c, s)) /\ Faultless(x)
  BY <1>1, <1>4, <1>5, StatementMeans
<1>7. ASSUME s.value.op = "explore" PROVE BodyApproved(c, s.value)
  <2>1. \A n : Lookup(v, n) = Lookup(c, n)
    BY <1>2 DEF Lookup
  <2>2. Correct(c, s.value, NoBranch)
    BY <1>6 DEF Approved
  <2>3. Explorable(Lookup(v, s.value.plans), Lookup(v, s.value.base))
    BY <1>7, <2>1, <2>2 DEF Correct
  <2>4. Faultless(CheckBody(v, s.value))
    BY <1>3, <1>6, <1>7
  <2>5. BodyApproved(v, s.value)
    BY <1>2, <1>7, <2>3, <2>4, BodyMeans
  <2> QED
    BY <1>2, <2>5 DEF BodyApproved
<1> QED
  BY <1>6, <1>7

-----------------------------------------------------------------------------
(* What approval means at run time: an environment has what the checker    *)
(* has bound, of the kinds it says, and expressions take values of theirs. *)
KindsAgree(c, env) ==
    /\ DOMAIN env = DOMAIN c.env
    /\ \A n \in DOMAIN env : env[n].kind = c.env[n].kind /\ env[n].kind # "error"

LEMMA PureMeans ==
    ASSUME NEW c, NEW env, KindsAgree(c, env), NEW e, NEW branch, Correct(c, e, branch),
           e.op \in {"var", "simulate", "call"}, NEW base, branch # NoBranch => base # None
    PROVE  LET v == PureValue(env, base, e) IN
           \/ v = Raised("plan") /\ branch # NoBranch
           \/ v.kind = TypeOf(c, e, branch).kind /\ v.kind # "error"
<1> DEFINE v == PureValue(env, base, e)
           type == TypeOf(c, e, branch)
<1>1. CASE e.op = "var"
  <2>1. e.name \in DOMAIN env /\ Lookup(c, e.name) = c.env[e.name]
    BY <1>1 DEF Correct, Readable, KindsAgree, Lookup
  <2>2. v = env[e.name]
    BY <1>1, <2>1 DEF PureValue, BranchForbidden
  <2>3. type = c.env[e.name]
    BY <1>1, <2>1 DEF TypeOf
  <2> QED
    BY <2>1, <2>2, <2>3 DEF KindsAgree
<1>2. CASE e.op = "simulate"
  <2>1. v = SimulateValue(env, base, e)
    BY <1>2 DEF PureValue, BranchForbidden
  <2>2. base # None /\ e.method = "apply" /\ Has(env, e.plan, {"plan"}) /\ branch # NoBranch
    BY <1>2 DEF Correct, Readable, KindsAgree, Lookup, Has
  <2>3. v = Raised("plan") \/ v = Value("simulated", Applied(base, env[e.plan].is))
    BY <2>1, <2>2 DEF SimulateValue
  <2>4. type.kind = "simulated"
    BY <1>2 DEF TypeOf, Binding
  <2> HIDE DEF v, type
  <2> QED
    BY <2>2, <2>3, <2>4 DEF Value, v, type
<1>3. CASE e.op = "call"
  <2>1. v = CallValue(env, e)
    BY <1>3 DEF PureValue, BranchForbidden
  <2>2. /\ e.target = Catalog /\ e.method \in Methods /\ Len(e.args) = Arity[e.method]
        /\ \A i \in DOMAIN e.args : IsState(env, e.args[i])
    BY <1>3 DEF Correct, Readable, KindsAgree, Lookup, IsState, Has, Offered
  <2>3. PICK x : v = Value(Result[e.method], x)
    BY <2>1, <2>2 DEF CallValue
  <2>4. type.kind = Result[e.method]
    BY <1>3, <2>2 DEF TypeOf, Scalar, Binding, Offered
  <2>5. Result[e.method] \in {"int", "bool"}
    BY <2>2 DEF Result
  <2> HIDE DEF v, type
  <2> QED
    BY <2>3, <2>4, <2>5 DEF Value, v, type
<1> QED
  BY <1>1, <1>2, <1>3

(* A branch whose checker has approved of the body meets nothing but plans *)
(* that do not apply.  The body simulates at `once' and nowhere else.      *)
Goes(c, b, body, once, k) ==
    /\ IsBranch(b) /\ b.error \in {None, "plan"}
    /\ b.error = None =>
          /\ KindsAgree(c, b.env)
          /\ b.simulations = IF once <= k THEN 1 ELSE 0
          /\ \A j \in 1 .. k : body[j].kind = "measure" => body[j].name \in DOMAIN b.metrics

LEMMA BranchGoes ==
    ASSUME NEW body, NEW k \in Nat, NEW once \in Nat,
           body[k + 1].value.op = "simulate" <=> k + 1 = once,
           NEW c, NEW b, Goes(c, b, body, once, k),
           body[k + 1].kind \in Kinds, Worded(body[k + 1].value),
           NEW branch, branch # NoBranch, NEW d, Approved(c, body[k + 1], branch, d),
           NEW base \in Content
    PROVE  Goes(d, BranchStep(base, b, body[k + 1]), body, once, k + 1)
<1>1. PICK s : s = body[k + 1]
  OBVIOUS
<1>2. CASE b.error # None
  <2>1. BranchStep(base, b, s) = b
    BY <1>2 DEF BranchStep
  <2> QED
    BY <1>1, <1>2, <2>1 DEF Goes
<1>3. CASE b.error = None
  <2>1. /\ IsBranch(b) /\ KindsAgree(c, b.env)
        /\ b.simulations = IF once <= k THEN 1 ELSE 0
        /\ \A j \in 1 .. k : body[j].kind = "measure" => body[j].name \in DOMAIN b.metrics
    BY <1>3 DEF Goes
  <2>2. PICK type : type = TypeOf(c, s.value, branch)
    OBVIOUS
  <2>3. /\ Correct(c, s.value, branch)
        /\ s.kind = "let" => s.name \notin DOMAIN c.env /\ d.env = Bind(c.env, s.name, type)
        /\ s.kind # "let" => d.env = c.env
        /\ s.kind # "return"
        /\ s.kind = "check" => type.kind = "bool"
        /\ s.kind = "measure" => type.kind = "int"
    BY <1>1, <2>2 DEF Approved
  <2>4. s.value.op \in {"var", "simulate", "call"}
    BY <1>1, <2>3 DEF Correct, Worded, Operations, BranchForbidden
  <2>5. PICK v : v = PureValue(b.env, base, s.value)
    OBVIOUS
  <2>6. v = Raised("plan") \/ (v.kind = type.kind /\ v.kind # "error")
    BY <2>1, <2>2, <2>3, <2>4, <2>5, PureMeans, PlanAssumption
  <2>7. Raised("plan").kind = "error" /\ Raised("plan").is = "plan"
    BY DEF Raised, Value
  <2>8. ~(s.value.op = "simulate" /\ b.simulations > 0)
    BY <1>1, <2>1
  <2>9. BranchValue(base, b, s) = v
    BY <2>3, <2>5, <2>6, <2>7, <2>8 DEF BranchValue
  <2>10. PICK n : n = b.simulations + IF s.value.op = "simulate" THEN 1 ELSE 0
    OBVIOUS
  <2>11. n = IF once <= k + 1 THEN 1 ELSE 0
    BY <1>1, <2>1, <2>10
  <2>12. PICK next : next = [b EXCEPT !.simulations = n]
    OBVIOUS
  <2>13. /\ IsBranch(next) /\ next.env = b.env /\ next.checks = b.checks
         /\ next.metrics = b.metrics /\ next.error = None /\ next.simulations = n
    BY <1>3, <2>1, <2>12 DEF IsBranch
  <2>14. CASE v = Raised("plan")
    <3>1. PICK why : why = "plan"
      OBVIOUS
    <3>2. BranchStep(base, b, s) = [next EXCEPT !.error = why]
      BY <1>3, <2>7, <2>9, <2>10, <2>12, <2>14, <3>1 DEF BranchStep
    <3>3. why # None
      BY <3>1, PlanAssumption
    <3>4. IsBranch(BranchStep(base, b, s)) /\ BranchStep(base, b, s).error = why
      BY <2>13, <3>2 DEF IsBranch
    <3> QED
      BY <1>1, <3>1, <3>3, <3>4 DEF Goes
  <2>15. CASE v.kind = type.kind /\ v.kind # "error"
    <3>1. \A j \in 1 .. k + 1 : j = k + 1 \/ j \in 1 .. k
      OBVIOUS
    <3>2. CASE s.kind = "let"
      <4>1. PICK env : env = Assign(b.env, s.name, v)
        OBVIOUS
      <4>2. PICK r : r = [next EXCEPT !.env = env]
        OBVIOUS
      <4>3. BranchStep(base, b, s) = r
        BY <1>3, <2>9, <2>10, <2>12, <2>13, <2>15, <3>2, <4>1, <4>2 DEF BranchStep
      <4>4. /\ IsBranch(r) /\ r.env = env /\ r.metrics = b.metrics /\ r.error = None
            /\ r.simulations = n
        BY <2>13, <4>2 DEF IsBranch
      <4>5. KindsAgree(d, env)
        BY <2>1, <2>3, <2>15, <3>2, <4>1 DEF KindsAgree, Assign, Bind
      <4>6. \A j \in 1 .. k + 1 : body[j].kind = "measure" => body[j].name \in DOMAIN r.metrics
        BY <1>1, <2>1, <3>1, <3>2, <4>4
      <4> QED
        BY <1>1, <2>11, <4>3, <4>4, <4>5, <4>6 DEF Goes
    <3>3. CASE s.kind = "check"
      <4>1. PICK checks : checks = Append(next.checks, v.is)
        OBVIOUS
      <4>2. PICK r : r = [next EXCEPT !.checks = checks]
        OBVIOUS
      <4>3. BranchStep(base, b, s) = r
        BY <1>3, <2>9, <2>10, <2>12, <2>13, <2>15, <3>3, <4>1, <4>2 DEF BranchStep
      <4>4. /\ IsBranch(r) /\ r.env = b.env /\ r.metrics = b.metrics /\ r.error = None
            /\ r.simulations = n
        BY <2>13, <4>2 DEF IsBranch
      <4>5. KindsAgree(d, b.env)
        BY <2>1, <2>3, <3>3 DEF KindsAgree
      <4>6. \A j \in 1 .. k + 1 : body[j].kind = "measure" => body[j].name \in DOMAIN r.metrics
        BY <1>1, <2>1, <3>1, <3>3, <4>4
      <4> QED
        BY <1>1, <2>11, <4>3, <4>4, <4>5, <4>6 DEF Goes
    <3>4. CASE s.kind = "measure"
      <4>1. PICK metrics : metrics = Assign(b.metrics, s.name, v.is)
        OBVIOUS
      <4>2. PICK r : r = [next EXCEPT !.metrics = metrics]
        OBVIOUS
      <4>3. BranchStep(base, b, s) = r
        BY <1>3, <2>9, <2>10, <2>12, <2>13, <2>15, <3>4, <4>1, <4>2 DEF BranchStep
      <4>4. /\ IsBranch(r) /\ r.env = b.env /\ r.metrics = metrics /\ r.error = None
            /\ r.simulations = n
        BY <2>13, <4>2 DEF IsBranch
      <4>5. KindsAgree(d, b.env)
        BY <2>1, <2>3, <3>4 DEF KindsAgree
      <4>6. \A j \in 1 .. k + 1 : body[j].kind = "measure" => body[j].name \in DOMAIN r.metrics
        BY <1>1, <2>1, <3>1, <4>1, <4>4 DEF Assign
      <4> QED
        BY <1>1, <2>11, <4>3, <4>4, <4>5, <4>6 DEF Goes
    <3> QED
      BY <1>1, <2>3, <3>2, <3>3, <3>4 DEF Kinds
  <2> QED
    BY <2>6, <2>14, <2>15
<1> QED
  BY <1>2, <1>3

LEMMA OnceFacts ==
    ASSUME NEW body, IsList(body), SimulatesOnce(body),
           \A i \in DOMAIN body : body[i].value.op # "explore"
    PROVE  \E once \in DOMAIN body : \A i \in DOMAIN body : body[i].value.op = "simulate" <=> i = once
<1>1. Having(body, "explore") = {}
  BY DEF Having
<1>2. Nested(body) = {}
  BY <1>1 DEF Nested
<1>3. PICK S : S = Having(body, "simulate")
  OBVIOUS
<1>4. IsFiniteSet(S)
  <2>1. S \subseteq 1 .. Len(body) /\ Len(body) \in Int /\ 1 \in Int
    BY <1>3, ListFacts DEF Having
  <2>2. IsFiniteSet(1 .. Len(body))
    BY <2>1, FS_Interval
  <2> QED
    BY <2>1, <2>2, FS_Subset
<1>5. Cardinality(S) = 1
  <2>1. Cardinality(S) \in Nat /\ Cardinality(Nested(body)) = 0
    BY <1>2, <1>4, FS_CardinalityType, FS_EmptySet
  <2> QED
    BY <1>3, <2>1 DEF SimulatesOnce, Simulations
<1>6. PICK once : S = {once}
  BY <1>4, <1>5, FS_Singleton
<1> QED
  BY <1>3, <1>6 DEF Having

(* What a trial promises: it never raises what the checker should have     *)
(* refused, and it has every metric when it is eligible.                   *)
Measures(trials, metrics) ==
    \A i \in DOMAIN trials : trials[i].eligible = TRUE => ToSet(metrics) \subseteq DOMAIN trials[i].metrics
Unfailing(trials) == \A i \in DOMAIN trials : trials[i].error # "internal"

LEMMA MetricsFacts ==
    ASSUME NEW body, IsList(body)
    PROVE  \A m \in ToSet(MetricsOf(body)) :
              \E j \in DOMAIN body : body[j].kind = "measure" /\ m = body[j].name
<1>1. PICK lists : lists = [i \in DOMAIN body |-> Named(body[i])]
  OBVIOUS
<1>2. DOMAIN body = 1 .. Len(body) /\ Len(body) \in Nat
  BY ListFacts
<1>3. DOMAIN lists = DOMAIN body /\ \A i \in DOMAIN lists : lists[i] = Named(body[i])
  BY <1>1
<1>4. IsList(lists)
  BY <1>1, <1>2 DEF IsList, ToSet
<1>5. ASSUME NEW i \in DOMAIN lists
      PROVE  /\ IsList(lists[i])
             /\ \A m \in ToSet(lists[i]) : body[i].kind = "measure" /\ m = body[i].name
  <2>1. CASE body[i].kind = "measure"
    <3>1. lists[i] = <<body[i].name>>
      BY <1>3, <2>1 DEF Named
    <3> QED
      BY <2>1, <3>1 DEF IsList, ToSet
  <2>2. CASE body[i].kind # "measure"
    <3>1. lists[i] = <<>>
      BY <1>3, <2>2 DEF Named
    <3> QED
      BY <3>1, EmptyList DEF ToSet
  <2> QED
    BY <2>1, <2>2
<1>6. \A m : m \in ToSet(FlattenSeq(lists)) <=> \E i \in DOMAIN lists : m \in ToSet(lists[i])
  BY <1>4, <1>5, FlattenFacts
<1>7. MetricsOf(body) = FlattenSeq(lists)
  BY <1>1 DEF MetricsOf
<1> QED
  BY <1>3, <1>5, <1>6, <1>7

LEMMA TrialMeans ==
    ASSUME NEW c, NEW env, KindsAgree(c, env), NEW e, e.body \in Bodies, BodyApproved(c, e),
           SimulatesOnce(e.body), NEW base \in Content, NEW plan
    PROVE  LET x == Trial(env, e, base, plan) IN
           /\ x.error # "internal"
           /\ x.eligible = TRUE => ToSet(MetricsOf(e.body)) \subseteq DOMAIN x.metrics
<1> DEFINE body == e.body
           n == Len(body)
<1>1. n \in Nat /\ DOMAIN body = 1 .. n /\ IsList(body)
  BY ListFacts, BodiesAssumption DEF Nesting, Flat, Parsed
<1>2. PICK f, branch, item :
         /\ branch # NoBranch /\ item.kind = "plan"
         /\ f[0].env = Bind(c.env, Item, item)
         /\ \A i \in 1 .. n : Approved(f[i - 1], body[i], branch, f[i])
  BY DEF BodyApproved
<1>3. PICK once \in DOMAIN body : \A i \in DOMAIN body : body[i].value.op = "simulate" <=> i = once
  <2>1. \A i \in DOMAIN body : body[i].value.op # "explore"
    BY <1>1, <1>2 DEF Approved, Correct, BranchForbidden
  <2>2. PICK list : list = body
    OBVIOUS
  <2>3. /\ IsList(list) /\ SimulatesOnce(list)
        /\ \A i \in DOMAIN list : list[i].value.op # "explore"
    BY <1>1, <2>1, <2>2
  <2> HIDE DEF body, n
  <2>4. \E once \in DOMAIN list : \A i \in DOMAIN list : list[i].value.op = "simulate" <=> i = once
    BY <2>3, OnceFacts
  <2> QED
    BY <2>2, <2>4
<1>4. PICK h : h = CHOOSE g : TrialRun(env, e, base, plan, g, n)
  OBVIOUS
<1>5. TrialRun(env, e, base, plan, h, n)
  BY <1>1, <1>4, TrialRuns
<1>6. PICK end, error : end = h[n] /\ error = IF end.error = None /\ end.simulations # 1 THEN "internal" ELSE end.error
  OBVIOUS
<1>7. Trial(env, e, base, plan)
        = [plan |-> plan, base |-> base, checks |-> end.checks, metrics |-> end.metrics,
           error |-> error,
           eligible |-> error = None /\ (\A i \in DOMAIN end.checks : end.checks[i])]
  BY <1>4, <1>6 DEF Trial, TrialRun, Started
<1> DEFINE S == {k \in 0 .. n : Goes(f[k], h[k], body, once, k)}
<1>8. 0 \in S
  <2>1. h[0] = Started(env, plan)
    BY <1>1, <1>5 DEF TrialRun
  <2>2. PICK within : within = Assign(env, Item, Value("plan", plan))
    OBVIOUS
  <2>3. h[0] = [env |-> within, checks |-> <<>>, metrics |-> <<>>, simulations |-> 0, error |-> None]
    BY <2>1, <2>2 DEF Started
  <2>4. KindsAgree(f[0], within)
    BY <1>2, <2>2 DEF KindsAgree, Assign, Bind, Value
  <2>5. ~(once <= 0)
    BY <1>1, <1>3
  <2>6. /\ IsBranch(h[0]) /\ h[0].error = None /\ h[0].env = within /\ h[0].simulations = 0
    BY <2>3 DEF IsBranch
  <2>7. Goes(f[0], h[0], body, once, 0)
    BY <2>4, <2>5, <2>6 DEF Goes
  <2> QED
    BY <1>1, <2>7
<1>9. ASSUME NEW k \in 0 .. n - 1, k \in S PROVE k + 1 \in S
  <2>1. k \in Nat /\ k + 1 \in 1 .. n /\ k + 1 \in 0 .. n /\ k + 1 # 0 /\ (k + 1) - 1 = k
    BY <1>1
  <2>2. h[k + 1] = BranchStep(base, h[k], body[k + 1])
    BY <1>5, <2>1 DEF TrialRun
  <2>3. body[k + 1].kind \in Kinds /\ Worded(body[k + 1].value)
    BY <1>1, <2>1, BodiesAssumption DEF Nesting, Flat, Parsed, Worded
  <2>4. Approved(f[k], body[k + 1], branch, f[k + 1])
    BY <1>2, <2>1
  <2>5. body[k + 1].value.op = "simulate" <=> k + 1 = once
    BY <1>1, <1>3, <2>1
  <2>6. once \in Nat /\ Goes(f[k], h[k], body, once, k)
    BY <1>1, <1>3, <1>9
  <2>7. Goes(f[k + 1], h[k + 1], body, once, k + 1)
    <3> HIDE DEF n, body
    <3> QED
      BY <1>2, <2>1, <2>2, <2>3, <2>4, <2>5, <2>6, BranchGoes
  <2> QED
    BY <2>1, <2>7
<1>10. Goes(f[n], end, body, once, n)
  <2>1. \A i \in 0 .. n : i \in S
    <3> HIDE DEF S, n
    <3> QED
      BY <1>1, <1>8, <1>9, Climbs
  <2> QED
    BY <1>1, <1>6, <2>1
<1>11. error \in {None, "plan"} /\ (error = None => end.error = None)
  <2>1. once <= n
    BY <1>1, <1>3
  <2> QED
    BY <1>6, <1>10, <2>1 DEF Goes
<1>12. error # "internal"
  BY <1>11, PlanAssumption
<1>13. PICK checks, metrics : checks = end.checks /\ metrics = end.metrics
  OBVIOUS
<1>14. ASSUME error = None PROVE ToSet(MetricsOf(body)) \subseteq DOMAIN metrics
  BY <1>1, <1>10, <1>11, <1>13, <1>14, MetricsFacts DEF Goes
<1> HIDE DEF n, body
<1>15. PICK x, passed : /\ x = Trial(env, e, base, plan)
                        /\ passed = (error = None /\ (\A i \in DOMAIN checks : checks[i]))
  OBVIOUS
<1>16. x = [plan |-> plan, base |-> base, checks |-> checks, metrics |-> metrics,
            error |-> error, eligible |-> passed]
  BY <1>7, <1>13, <1>15
<1>17. x.error = error /\ x.metrics = metrics /\ x.eligible = passed
  BY <1>16
<1>18. x.eligible = TRUE => error = None
  BY <1>15, <1>17
<1> QED
  BY <1>12, <1>14, <1>15, <1>17, <1>18 DEF body

-----------------------------------------------------------------------------
(* What the checker's bindings say of a machine.  Aliases of a selection   *)
(* have its identity, so the one that is spent has been consumed.          *)
Knows(c, binding, m, v) ==
    /\ v.kind = binding.kind /\ v.kind # "error"
    /\ v.kind \in {"snapshot", "trials", "selected"} => binding.resource = Catalog
    /\ v.kind = "outcome" => v.is # None
    /\ v.kind = "trials" => Measures(m.trials[v.is], binding.metrics)
    /\ v.kind = "selected" =>
          /\ binding.selection # None
          /\ m.selections[v.is].spent = TRUE => binding.selection \in c.consumed
Aliases(c, env) ==
    \A a, b \in DOMAIN env :
        /\ env[a].kind = "selected" /\ env[b].kind = "selected" /\ env[a].is = env[b].is
        => c.env[a].selection = c.env[b].selection
Sure(c, m) ==
    /\ c.selections \in Nat
    /\ DOMAIN m.env = DOMAIN c.env
    /\ \A n \in DOMAIN m.env : Knows(c, c.env[n], m, m.env[n])
    /\ Aliases(c, m.env)

LEMMA SureAgrees ==
    ASSUME NEW c, NEW m, Sure(c, m)
    PROVE  KindsAgree(c, m.env)
BY DEF Sure, Knows, KindsAgree

(* What is known stays known while nothing is spent.                       *)
LEMMA KnowsFurther ==
    ASSUME NEW c, NEW d, c.consumed \subseteq d.consumed, NEW m, NEW r,
           NEW v, NEW binding, Knows(c, binding, m, v), AtTop(m, v),
           v.kind = "selected" => v.is \in 1 .. Len(m.selections),
           Remembers(m, r), Grows(m, r)
    PROVE  Knows(d, binding, r, v)
BY DEF Knows, AtTop, Remembers, Grows

(* A statement that binds its value.                                       *)
LEMMA SureMoves ==
    ASSUME NEW c, NEW m, Sure(c, m), NEW s, NEW d, Approved(c, s, NoBranch, d), s.kind = "let",
           NEW v, NEW r, r.env = Assign(m.env, s.name, v),
           \A n \in DOMAIN m.env : Knows(d, c.env[n], r, m.env[n]),
           Knows(d, TypeOf(c, s.value, NoBranch), r, v),
           \A n \in DOMAIN m.env :
              v.kind = "selected" /\ m.env[n].kind = "selected" /\ m.env[n].is = v.is
              => TypeOf(c, s.value, NoBranch).selection = c.env[n].selection
    PROVE  Sure(d, r)
<1>1. PICK type : type = TypeOf(c, s.value, NoBranch)
  OBVIOUS
<1>2. s.name \notin DOMAIN c.env /\ d.env = Bind(c.env, s.name, type) /\ DOMAIN m.env = DOMAIN c.env
  BY <1>1 DEF Approved, Sure
<1>3. /\ DOMAIN d.env = DOMAIN m.env \cup {s.name} /\ DOMAIN r.env = DOMAIN m.env \cup {s.name}
      /\ d.env[s.name] = type /\ r.env[s.name] = v
      /\ \A n \in DOMAIN m.env : d.env[n] = c.env[n] /\ r.env[n] = m.env[n]
  BY <1>2 DEF Bind, Assign
<1>4. \A n \in DOMAIN r.env : Knows(d, d.env[n], r, r.env[n])
  BY <1>1, <1>3
<1>5. ASSUME NEW a \in DOMAIN r.env, NEW b \in DOMAIN r.env,
             r.env[a].kind = "selected", r.env[b].kind = "selected", r.env[a].is = r.env[b].is
      PROVE  d.env[a].selection = d.env[b].selection
  <2>1. CASE a \in DOMAIN m.env /\ b \in DOMAIN m.env
    BY <1>3, <1>5, <2>1 DEF Sure, Aliases
  <2>2. CASE a = s.name /\ b \in DOMAIN m.env
    BY <1>1, <1>3, <1>5, <2>2
  <2>3. CASE a \in DOMAIN m.env /\ b = s.name
    BY <1>1, <1>3, <1>5, <2>3
  <2>4. CASE a = s.name /\ b = s.name
    BY <2>4
  <2> QED
    BY <1>3, <2>1, <2>2, <2>3, <2>4
<1>6. d.selections \in Nat
  BY DEF Approved, Extends, IsChecker
<1> QED
  BY <1>3, <1>4, <1>5, <1>6 DEF Sure, Aliases

(* A statement that is not refused ends the run, or is bound.              *)
Ends(s, v) == s.kind = "let" \/ (s.kind = "return" /\ v.kind = "outcome" /\ v.is # None)
Proceeds(s, r) == r.failure # "internal" /\ (~Ended(r) => s.kind = "let")

LEMMA FinishProceeds ==
    ASSUME NEW m, Live(m), ~Ended(m), NEW s, NEW v, Ends(s, v)
    PROVE  Proceeds(s, Finish(m, s, v))
<1>1. IsMachine(m) /\ m.failure = None
  BY DEF Live, Sound, Ended
<1>2. None # "internal"
  BY PlanAssumption
<1>3. PICK r : r = Finish(m, s, v)
  OBVIOUS
<1>4. CASE s.kind = "let"
  <2>1. PICK env, pc : env = Assign(m.env, s.name, v) /\ pc = m.pc + 1
    OBVIOUS
  <2>2. r = [m EXCEPT !.env = env, !.pc = pc]
    BY <1>3, <1>4, <2>1 DEF Finish
  <2>3. r.failure = None
    BY <1>1, <2>2 DEF IsMachine
  <2> QED
    BY <1>2, <1>3, <1>4, <2>3 DEF Proceeds
<1>5. CASE s.kind # "let" /\ s.kind = "return" /\ v.kind = "outcome" /\ v.is # None
  <2>1. PICK outcome : outcome = v.is
    OBVIOUS
  <2>2. r = [m EXCEPT !.outcome = outcome]
    BY <1>3, <1>5, <2>1 DEF Finish
  <2>3. r.failure = None /\ r.outcome = outcome
    BY <1>1, <2>2 DEF IsMachine
  <2> QED
    BY <1>2, <1>3, <1>5, <2>1, <2>3 DEF Proceeds, Ended
<1> QED
  BY <1>4, <1>5 DEF Ends

LEMMA StopProceeds ==
    ASSUME NEW m, Live(m), ~Ended(m), NEW s, NEW status \in Statuses
    PROVE  Proceeds(s, Stop(m, status))
<1>1. Stop(m, status).failure = None /\ Ended(Stop(m, status))
  BY StopFacts DEF Halts
<1> QED
  BY <1>1, PlanAssumption DEF Proceeds

LEMMA ObserveProceeds ==
    ASSUME NEW m, Live(m), ~Ended(m), NEW kind, NEW data, NEW s
    PROVE  LET x == Observe(m, kind, data) IN
           Proceeds(s, x) \/ (Live(x) /\ ~Ended(x))
<1>1. PICK status : status = "evidence_limit"
  OBVIOUS
<1>2. status \in Statuses
  BY <1>1 DEF Statuses
<1> QED
  BY <1>1, <1>2, ObserveFacts, StopProceeds

LEMMA ObserveAndProceed ==
    ASSUME NEW m, Live(m), ~Ended(m), NEW kind, NEW data, NEW s, NEW v, Ends(s, v)
    PROVE  Proceeds(s, Finish(Observe(m, kind, data), s, v))
<1>1. PICK x : x = Observe(m, kind, data)
  OBVIOUS
<1>2. CASE Live(x) /\ ~Ended(x)
  BY <1>1, <1>2, FinishProceeds
<1>3. CASE ~Fits(m) /\ x = Stop(m, "evidence_limit")
  <2>1. PICK status : status = "evidence_limit"
    OBVIOUS
  <2>2. status \in Statuses
    BY <2>1 DEF Statuses
  <2>3. Proceeds(s, x) /\ Ended(x)
    BY <1>3, <2>1, <2>2, StopProceeds, StopFacts DEF Halts
  <2> QED
    BY <1>1, <2>3 DEF Finish
<1> QED
  BY <1>1, <1>2, <1>3, ObserveFacts

(* A statement the checker has approved of is about to be run.             *)
Watching(c, d) ==
    /\ RunInv /\ Accepted /\ Justified /\ Running
    /\ Sure(c, live) /\ Approved(c, Current, NoBranch, d)
CurrentType(c) == TypeOf(c, Current.value, NoBranch)
Arrives(d, r) ==
    /\ r.failure # "internal"
    /\ ~Ended(r) => r.pc = live.pc + 1 /\ Sure(d, r)

LEMMA WatchingFacts ==
    ASSUME NEW c, NEW d, Watching(c, d)
    PROVE  /\ Live(live) /\ ~Ended(live) /\ KindsAgree(c, live.env)
           /\ Correct(c, Current.value, NoBranch) /\ c.consumed \subseteq d.consumed
           /\ Worded(Current.value) /\ (Current.value.op = "explore" => Current.value.body \in Bodies)
           /\ Current.kind = "let"
              \/ (Current.kind = "return" /\ CurrentType(c).kind = "outcome")
<1>1. Live(live) /\ ~Ended(live)
  BY DEF Watching, RunInv, Running
<1>2. Vetted(checker, Current) /\ Current = source[live.pc] /\ live.pc \in 1 .. Len(source)
  BY CurrentFacts DEF Watching
<1>3. Current.kind \in {"let", "return"}
  BY <1>2 DEF Watching, RunInv, Program
<1>4. Current.kind = "return" => CurrentType(c).kind = "outcome"
  BY DEF Watching, Approved, CurrentType
<1> QED
  BY <1>1, <1>2, <1>3, <1>4, SureAgrees DEF Watching, Approved, Extends, Vetted

LEMMA KnownEnds ==
    ASSUME NEW c, NEW d, Watching(c, d), NEW x, NEW m, NEW v, Knows(x, CurrentType(c), m, v)
    PROVE  Ends(Current, v)
BY WatchingFacts DEF Knows, Ends

LEMMA EndsArrive == ASSUME NEW d, NEW r, Proceeds(Current, r), Ended(r) PROVE Arrives(d, r)
BY DEF Proceeds, Arrives

LEMMA Arrival ==
    ASSUME NEW c, NEW d, Watching(c, d), NEW v, NEW r, Proceeds(Current, r),
           Halts(live, r) \/ Moves(live, Current, v, r),
           \A n \in DOMAIN live.env : Knows(d, c.env[n], r, live.env[n]),
           Knows(d, CurrentType(c), r, v),
           \A n \in DOMAIN live.env :
              v.kind = "selected" /\ live.env[n].kind = "selected" /\ live.env[n].is = v.is
              => CurrentType(c).selection = c.env[n].selection
    PROVE  Arrives(d, r)
<1>1. CASE Ended(r)
  BY <1>1, EndsArrive
<1>2. CASE ~Ended(r)
  <2>1. Current.kind = "let" /\ r.failure # "internal"
    BY <1>2 DEF Proceeds
  <2>2. r.pc = live.pc + 1 /\ r.env = Assign(live.env, Current.name, v)
    BY <1>2, <2>1 DEF Halts, Moves
  <2>3. Sure(d, r)
    BY <2>1, <2>2, SureMoves DEF Watching, CurrentType
  <2> QED
    BY <2>1, <2>2, <2>3 DEF Arrives
<1> QED
  BY <1>1, <1>2

LEMMA QuietArrival ==
    ASSUME NEW c, NEW d, Watching(c, d), NEW v, NEW r, Proceeds(Current, r),
           Halts(live, r) \/ Moves(live, Current, v, r),
           Remembers(live, r), Grows(live, r),
           Knows(d, CurrentType(c), r, v),
           \A n \in DOMAIN live.env :
              v.kind = "selected" /\ live.env[n].kind = "selected" /\ live.env[n].is = v.is
              => CurrentType(c).selection = c.env[n].selection
    PROVE  Arrives(d, r)
<1>1. ASSUME NEW n \in DOMAIN live.env PROVE Knows(d, c.env[n], r, live.env[n])
  <2>1. Knows(c, c.env[n], live, live.env[n])
    BY DEF Watching, Sure
  <2>2. AtTop(live, live.env[n])
    BY DEF Watching, Justified, Environment
  <2>3. live.env[n].kind = "selected" => live.env[n].is \in 1 .. Len(live.selections)
    BY DEF Watching, RunInv, Tokens, Holds
  <2> QED
    BY <2>1, <2>2, <2>3, WatchingFacts, KnowsFurther
<1> QED
  BY <1>1, Arrival

LEMMA KeptGrows == ASSUME NEW m, Live(m), NEW r, r.selections = m.selections PROVE Grows(m, r)
<1>1. Len(m.selections) \in Nat
  BY ListFacts DEF Live, Sound
<1> QED
  BY <1>1 DEF Grows

LEMMA ReadArrives ==
    ASSUME NEW c, NEW d, Watching(c, d), ReadSnapshot
    PROVE  Arrives(d, live')
<1>1. PICK v, kind : v = Value("snapshot", catalog) /\ kind = "snapshot"
  OBVIOUS
<1>2. live' = Finish(Observe(live, kind, catalog), Current, v) /\ Current.value.op = "snapshot"
  BY <1>1 DEF ReadSnapshot, ExecSnapshot, At
<1>3. Knows(d, CurrentType(c), live', v)
  <2>1. Current.value.resource = Catalog
    BY <1>2, WatchingFacts DEF Correct
  <2>2. CurrentType(c).kind = "snapshot" /\ CurrentType(c).resource = Catalog
    BY <1>2, <2>1 DEF CurrentType, TypeOf, Binding
  <2> QED
    BY <1>1, <2>2 DEF Knows, Value
<1>4. Proceeds(Current, live')
  BY <1>2, <1>3, WatchingFacts, KnownEnds, ObserveAndProceed
<1>5. live'.selections = live.selections /\ (Halts(live, live') \/ Moves(live, Current, v, live'))
  <2>1. Live(live) /\ ~Ended(live)
    BY WatchingFacts
  <2>2. /\ live'.trials = live.trials /\ live'.selections = live.selections
        /\ \/ Halts(live, live')
           \/ Moves(live, Current, v, live') /\ Adds(live, live', [kind |-> kind, data |-> catalog])
    BY <1>2, <2>1, ObserveAndFinish
  <2> QED
    BY <2>2
<1>6. Remembers(live, live')
  BY WatchingFacts, RunSteps, StepsRemember DEF Watching
<1>7. Grows(live, live')
  BY <1>5, WatchingFacts, KeptGrows
<1>8. v.kind # "selected"
  BY <1>1 DEF Value
<1> QED
  BY <1>3, <1>4, <1>5, <1>6, <1>7, <1>8, QuietArrival

LEMMA ProposeArrives ==
    ASSUME NEW c, NEW d, Watching(c, d), Propose
    PROVE  Arrives(d, live')
<1>1. PICK plans : live' = IF ProposalArguments(live, Current.value)
                           THEN ExecPropose(live, Current, plans)
                           ELSE Fail(live)
  BY DEF Propose
<1>2. Current.value.op = "propose"
  BY DEF Propose, At
<1>3. ProposalArguments(live, Current.value)
  BY <1>2, WatchingFacts DEF Correct, Readable, Lookup, KindsAgree, ProposalArguments, IsState, Has, States
<1>4. PICK v, kind, data : /\ v = Value("plans", plans) /\ kind = "proposal"
                           /\ data = Proposal(live, Current.value, plans)
  OBVIOUS
<1>5. live' = Finish(Observe(live, kind, data), Current, v)
  BY <1>1, <1>3, <1>4 DEF ExecPropose, Proposal
<1>6. Knows(d, CurrentType(c), live', v)
  <2>1. CurrentType(c).kind = "plans"
    BY <1>2 DEF CurrentType, TypeOf, Binding
  <2> QED
    BY <1>4, <2>1 DEF Knows, Value
<1>7. Proceeds(Current, live')
  BY <1>5, <1>6, WatchingFacts, KnownEnds, ObserveAndProceed
<1>8. live'.selections = live.selections /\ (Halts(live, live') \/ Moves(live, Current, v, live'))
  <2>1. Live(live) /\ ~Ended(live)
    BY WatchingFacts
  <2>2. /\ live'.trials = live.trials /\ live'.selections = live.selections
        /\ \/ Halts(live, live')
           \/ Moves(live, Current, v, live') /\ Adds(live, live', [kind |-> kind, data |-> data])
    BY <1>5, <2>1, ObserveAndFinish
  <2> QED
    BY <2>2
<1>9. Remembers(live, live')
  BY WatchingFacts, RunSteps, StepsRemember DEF Watching
<1>10. Grows(live, live')
  BY <1>8, WatchingFacts, KeptGrows
<1>11. v.kind # "selected"
  BY <1>4 DEF Value
<1> QED
  BY <1>6, <1>7, <1>8, <1>9, <1>10, <1>11, QuietArrival

LEMMA FailingArrives ==
    ASSUME NEW c, NEW d, Watching(c, d), ProviderFails
    PROVE  Arrives(d, live')
<1>1. PICK status \in Statuses : status = "provider_error"
  BY DEF Statuses
<1>2. live' = Stop(live, status)
  BY <1>1 DEF ProviderFails
<1> QED
  BY <1>2, WatchingFacts, StopProceeds, StopFacts, EndsArrive DEF Halts

LEMMA PureArrives ==
    ASSUME NEW c, NEW d, Watching(c, d), Current.value.op \in {"var", "call", "simulate"},
           NEW r, r = ExecPure(live, Current)
    PROVE  Arrives(d, r)
<1>1. PICK v : v = PureValue(live.env, None, Current.value)
  OBVIOUS
<1>2. v.kind = CurrentType(c).kind /\ v.kind # "error"
  BY <1>1, WatchingFacts, PureMeans DEF CurrentType
<1>3. r = Finish(live, Current, v)
  BY <1>1, <1>2 DEF ExecPure
<1>4. r.selections = live.selections /\ r.trials = live.trials /\ r.events = live.events
      /\ Moves(live, Current, v, r)
  BY <1>3, WatchingFacts, FinishFacts
<1>5. Remembers(live, r) /\ Grows(live, r)
  BY <1>4, WatchingFacts, KeptGrows DEF Remembers
<1>6. CASE Current.value.op = "var"
  <2>1. PICK n : n = Current.value.name
    OBVIOUS
  <2>2. n \in DOMAIN live.env /\ Lookup(c, n) = c.env[n]
    BY <1>6, <2>1, WatchingFacts DEF Correct, Readable, KindsAgree, Lookup
  <2>3. v = live.env[n]
    BY <1>1, <1>6, <2>1, <2>2 DEF PureValue, BranchForbidden
  <2>4. CurrentType(c) = c.env[n]
    BY <1>6, <2>1, <2>2 DEF CurrentType, TypeOf
  <2>5. Knows(c, c.env[n], live, v)
    BY <2>2, <2>3 DEF Watching, Sure
  <2>6. AtTop(live, v) /\ (v.kind = "selected" => v.is \in 1 .. Len(live.selections))
    BY <2>2, <2>3 DEF Watching, Justified, Environment, RunInv, Tokens, Holds
  <2>7. Knows(d, CurrentType(c), r, v)
    BY <1>5, <2>4, <2>5, <2>6, WatchingFacts, KnowsFurther
  <2>8. \A a \in DOMAIN live.env :
           v.kind = "selected" /\ live.env[a].kind = "selected" /\ live.env[a].is = v.is
           => CurrentType(c).selection = c.env[a].selection
    BY <2>2, <2>3, <2>4 DEF Watching, Sure, Aliases
  <2>9. Proceeds(Current, r)
    BY <1>3, <2>7, WatchingFacts, KnownEnds, FinishProceeds
  <2> QED
    BY <1>4, <1>5, <2>7, <2>8, <2>9, QuietArrival
<1>7. CASE Current.value.op # "var"
  <2>1. Current.value.op = "call"
    BY <1>7, WatchingFacts DEF Correct
  <2>2. CurrentType(c).kind \in {"int", "bool"}
    BY <2>1, WatchingFacts DEF Correct, CurrentType, TypeOf, Scalar, Binding, Offered, Result
  <2>3. Knows(d, CurrentType(c), r, v) /\ v.kind # "selected"
    BY <1>2, <2>2 DEF Knows
  <2>4. Proceeds(Current, r)
    BY <1>3, <2>3, WatchingFacts, KnownEnds, FinishProceeds
  <2> QED
    BY <1>4, <1>5, <2>3, <2>4, QuietArrival
<1> QED
  BY <1>6, <1>7

(* An exploration that has been approved of raises nothing it should not.  *)
LEMMA ExploredMeans ==
    ASSUME NEW c, NEW d, Watching(c, d), Current.value.op = "explore", BodyApproved(c, Current.value),
           NEW trials, trials = TrialsOf(live, Current.value)
    PROVE  Unfailing(trials) /\ Measures(trials, MetricsOf(Current.value.body))
<1>1. PICK e, base, plans : e = Current.value /\ base = live.env[e.base].is /\ plans = live.env[e.plans].is
  OBVIOUS
<1>2. e.body \in Bodies /\ SimulatesOnce(e.body) /\ KindsAgree(c, live.env)
  BY <1>1, WatchingFacts DEF Correct
<1>3. base \in Content
  <2>1. e.base \in DOMAIN live.env /\ live.env[e.base].kind = "snapshot"
    BY <1>1, WatchingFacts DEF Correct, Readable, Lookup, Explorable, KindsAgree
  <2>2. AtTop(live, live.env[e.base])
    BY <2>1 DEF Watching, Justified, Environment
  <2> QED
    BY <1>1, <2>1, <2>2 DEF AtTop, Typed, States
<1>4. DOMAIN trials = DOMAIN plans /\ \A i \in DOMAIN trials : trials[i] = Trial(live.env, e, base, plans[i])
  BY <1>1 DEF TrialsOf
<1>5. ASSUME NEW i \in DOMAIN trials
      PROVE  /\ trials[i].error # "internal"
             /\ trials[i].eligible = TRUE => ToSet(MetricsOf(e.body)) \subseteq DOMAIN trials[i].metrics
  <2>1. PICK x, plan : x = Trial(live.env, e, base, plan) /\ x = trials[i]
    BY <1>4
  <2>2. BodyApproved(c, e)
    BY <1>1
  <2>3. /\ x.error # "internal"
        /\ x.eligible = TRUE => ToSet(MetricsOf(e.body)) \subseteq DOMAIN x.metrics
    BY <1>2, <1>3, <2>1, <2>2, TrialMeans
  <2> QED
    BY <2>1, <2>3
<1> QED
  BY <1>1, <1>5 DEF Unfailing, Measures

LEMMA ExploreArrives ==
    ASSUME NEW c, NEW d, Watching(c, d), Current.value.op = "explore", BodyApproved(c, Current.value),
           NEW r, r = ExecExplore(live, Current)
    PROVE  Arrives(d, r)
<1>1. PICK e, trials : e = Current.value /\ trials = TrialsOf(live, e)
  OBVIOUS
<1>2. Live(live) /\ ~Ended(live) /\ KindsAgree(c, live.env)
  BY WatchingFacts
<1>3. /\ e.plans \in DOMAIN live.env /\ live.env[e.plans].kind = "plans"
      /\ e.base \in DOMAIN live.env /\ live.env[e.base].kind = "snapshot"
      /\ ExploredResource(c, e) = c.env[e.base].resource
  BY <1>1, WatchingFacts DEF Correct, Readable, Lookup, Explorable, ExploredResource, KindsAgree
<1>4. Has(live.env, e.plans, {"plans"}) /\ IsState(live.env, e.base)
  BY <1>3 DEF Has, IsState, States
<1>5. CASE ~WellFormed(live.env[e.plans].is)
  <2>1. PICK status \in Statuses : status = "invalid_plans"
    BY DEF Statuses
  <2>2. r = Stop(live, status)
    BY <1>1, <1>3, <1>4, <1>5, <2>1 DEF ExecExplore
  <2> QED
    BY <1>2, <2>2, StopProceeds, StopFacts, EndsArrive DEF Halts
<1>6. CASE WellFormed(live.env[e.plans].is)
  <2>1. PICK b, x, n : ExploredAs(live, Current, r, b, x, n)
    BY <1>1, <1>3, <1>4, <1>6, ExploreShape
  <2>2. PICK v : v = Value("trials", Len(live.trials) + 1)
    OBVIOUS
  <2>3. Halts(live, r) \/ Explores(live, Current, r)
    BY <1>2, ExploreStep
  <2>4. CASE Halts(live, r)
    <3>1. PICK summary, kind : summary = Summary(trials) /\ kind = "exploration"
      OBVIOUS
    <3>2. b = [live EXCEPT !.exploration = summary]
      BY <1>1, <2>1, <3>1 DEF ExploredAs
    <3>3. Live(b) /\ ~Ended(b)
      BY <1>2, <3>2, Summarized
    <3>4. x = Observe(b, kind, summary)
      BY <1>1, <2>1, <3>1 DEF ExploredAs
    <3>5. Proceeds(Current, x) \/ (Live(x) /\ ~Ended(x))
      BY <3>3, <3>4, ObserveProceeds
    <3>6. CASE Ended(x)
      <4>1. r = x
        BY <2>1, <3>6 DEF ExploredAs
      <4> QED
        BY <3>5, <3>6, <4>1, EndsArrive
    <3>7. CASE ~Ended(x)
      <4>1. Live(x)
        BY <3>3, <3>4, <3>7, ObserveGoesOn
      <4>2. n = [x EXCEPT !.trials = Append(x.trials, trials)]
        BY <1>1, <2>1 DEF ExploredAs
      <4>3. Live(n) /\ ~Ended(n)
        BY <3>7, <4>1, <4>2, Issued
      <4>4. PICK w : w = Value("trials", Len(n.trials))
        OBVIOUS
      <4>5. r = Finish(n, Current, w)
        BY <2>1, <3>7, <4>4 DEF ExploredAs
      <4>6. CurrentType(c).kind # "outcome"
        BY <1>1 DEF CurrentType, TypeOf, Binding
      <4>7. Ends(Current, w)
        BY <4>6, WatchingFacts DEF Ends
      <4>8. Proceeds(Current, r)
        BY <4>3, <4>5, <4>7, FinishProceeds
      <4>9. Ended(r)
        BY <2>4 DEF Halts
      <4> QED
        BY <4>8, <4>9, EndsArrive
    <3> QED
      BY <3>6, <3>7
  <2>5. CASE Explores(live, Current, r)
    <3>1. Moves(live, Current, v, r) /\ r.trials = Append(live.trials, trials)
          /\ r.selections = live.selections
      BY <1>1, <2>2, <2>5 DEF Explores
    <3>2. CurrentType(c).kind = "trials" /\ CurrentType(c).metrics = MetricsOf(e.body)
          /\ CurrentType(c).resource = c.env[e.base].resource
      BY <1>1, <1>3 DEF CurrentType, TypeOf, Binding
    <3>3. Current.kind = "let"
      BY <3>2, WatchingFacts
    <3>4. Proceeds(Current, r)
      BY <3>1, <3>3, PlanAssumption DEF Moves, Proceeds
    <3>5. c.env[e.base].resource = Catalog
      BY <1>3 DEF Watching, Sure, Knows
    <3>6. r.trials[Len(live.trials) + 1] = trials
      BY <1>2, <3>1, AppendFacts DEF Live, Sound
    <3>7. Measures(trials, MetricsOf(e.body))
      BY <1>1, ExploredMeans
    <3>8. v.kind = "trials" /\ v.is = Len(live.trials) + 1
      BY <2>2 DEF Value
    <3>9. Knows(d, CurrentType(c), r, v)
      BY <3>2, <3>5, <3>6, <3>7, <3>8 DEF Knows
    <3>10. Remembers(live, r)
      BY <1>1, <1>2, <2>5, StepsRemember DEF Steps
    <3>11. Grows(live, r)
      BY <1>2, <3>1, KeptGrows
    <3> QED
      BY <3>1, <3>4, <3>8, <3>9, <3>10, <3>11, QuietArrival
  <2> QED
    BY <2>3, <2>4, <2>5
<1> QED
  BY <1>5, <1>6

LEMMA SelectArrives ==
    ASSUME NEW c, NEW d, Watching(c, d), Current.value.op = "select",
           NEW r, r = ExecSelect(live, Current)
    PROVE  Arrives(d, r)
<1>1. PICK e, trials : e = Current.value /\ trials = live.trials[live.env[e.trials].is]
  OBVIOUS
<1>2. Live(live) /\ ~Ended(live) /\ KindsAgree(c, live.env)
  BY WatchingFacts
<1>3. /\ e.trials \in DOMAIN live.env /\ live.env[e.trials].kind = "trials"
      /\ Lookup(c, e.trials) = c.env[e.trials]
      /\ e.metric \in ToSet(c.env[e.trials].metrics)
  BY <1>1, WatchingFacts DEF Correct, Readable, Lookup, KindsAgree
<1>4. Measures(trials, c.env[e.trials].metrics) /\ c.env[e.trials].resource = Catalog
  BY <1>1, <1>3 DEF Watching, Sure, Knows
<1>5. \A trial \in Eligible(trials) : e.metric \in DOMAIN trial.metrics
  <2>1. Eligible(trials) = {trials[i] : i \in {j \in DOMAIN trials : trials[j].eligible = TRUE}}
    BY DEF Eligible
  <2> QED
    BY <1>3, <1>4, <2>1 DEF Measures
<1>6. Has(live.env, e.trials, {"trials"})
  BY <1>3 DEF Has
<1>7. CASE Eligible(trials) = {}
  <2>1. PICK status \in Statuses : status = "no_eligible_candidate"
    BY DEF Statuses
  <2>2. r = Stop(live, status)
    BY <1>1, <1>6, <1>7, <2>1 DEF ExecSelect
  <2> QED
    BY <1>2, <2>2, StopProceeds, StopFacts, EndsArrive DEF Halts
<1>8. CASE Eligible(trials) # {}
  <2>1. PICK b, x, n : SelectedAs(live, Current, r, b, x, n)
    BY <1>1, <1>5, <1>6, <1>8, SelectShape
  <2>2. PICK v : v = Value("selected", Len(live.selections) + 1)
    OBVIOUS
  <2>3. CurrentType(c).kind = "selected" /\ CurrentType(c).selection = c.selections + 1
        /\ CurrentType(c).resource = Catalog
    BY <1>1, <1>3, <1>4 DEF CurrentType, TypeOf, Binding
  <2>4. Current.kind = "let"
    BY <2>3, WatchingFacts
  <2>5. Halts(live, r) \/ Selects(live, Current, r)
    BY <1>2, SelectStep
  <2>6. CASE Halts(live, r)
    <3>1. PICK summary, kind : /\ summary = [plan |-> Chooses(live, e).plan, metric |-> e.metric,
                                             score |-> Chooses(live, e).metrics[e.metric]]
                               /\ kind = "selection"
      OBVIOUS
    <3>2. b = [live EXCEPT !.selection = summary]
      BY <1>1, <2>1, <3>1 DEF SelectedAs
    <3>3. Live(b) /\ ~Ended(b)
      BY <1>2, <3>2, Summarized
    <3>4. x = Observe(b, kind, summary)
      BY <1>1, <2>1, <3>1 DEF SelectedAs
    <3>5. Proceeds(Current, x) \/ (Live(x) /\ ~Ended(x))
      BY <3>3, <3>4, ObserveProceeds
    <3>6. CASE Ended(x)
      <4>1. r = x
        BY <2>1, <3>6 DEF SelectedAs
      <4> QED
        BY <3>5, <3>6, <4>1, EndsArrive
    <3>7. CASE ~Ended(x)
      <4>1. Live(x)
        BY <3>3, <3>4, <3>7, ObserveGoesOn
      <4>2. PICK token : token = Issue(live, e)
        OBVIOUS
      <4>3. n = [x EXCEPT !.selections = Append(x.selections, token)]
        BY <1>1, <2>1, <4>2 DEF SelectedAs
      <4>4. Live(n) /\ ~Ended(n)
        BY <3>7, <4>1, <4>3, Issued
      <4>5. PICK w : w = Value("selected", Len(n.selections))
        OBVIOUS
      <4>6. r = Finish(n, Current, w)
        BY <2>1, <3>7, <4>5 DEF SelectedAs
      <4>7. Proceeds(Current, r)
        BY <2>4, <4>4, <4>6, FinishProceeds DEF Ends
      <4>8. Ended(r)
        BY <2>6 DEF Halts
      <4> QED
        BY <4>7, <4>8, EndsArrive
    <3> QED
      BY <3>6, <3>7
  <2>7. CASE Selects(live, Current, r)
    <3>1. PICK token : token = Issue(live, e)
      OBVIOUS
    <3>2. Moves(live, Current, v, r) /\ r.trials = live.trials
          /\ r.selections = Append(live.selections, token)
      BY <1>1, <2>2, <2>7, <3>1 DEF Selects
    <3>3. /\ Len(live.selections) \in Nat /\ Len(r.selections) = Len(live.selections) + 1
          /\ r.selections[Len(live.selections) + 1] = token
          /\ \A i \in 1 .. Len(live.selections) : r.selections[i] = live.selections[i]
      BY <1>2, <3>2, AppendFacts, ListFacts DEF Live, Sound
    <3>4. token.spent = FALSE
      BY <3>1 DEF Issue
    <3>5. v.kind = "selected" /\ v.is = Len(live.selections) + 1
      BY <2>2 DEF Value
    <3>6. CurrentType(c).selection # None
      <4>1. c.selections \in Nat
        BY DEF Watching, Sure
      <4> QED
        BY <2>3, <4>1, PlanAssumption
    <3>7. Knows(d, CurrentType(c), r, v)
      BY <2>3, <3>3, <3>4, <3>5, <3>6 DEF Knows
    <3>8. Proceeds(Current, r)
      BY <2>4, <3>2, PlanAssumption DEF Moves, Proceeds
    <3>9. Remembers(live, r)
      BY <1>1, <1>2, <2>7, StepsRemember DEF Steps
    <3>10. Grows(live, r)
      BY <3>3 DEF Grows
    <3>11. \A m \in DOMAIN live.env : live.env[m].kind = "selected" => live.env[m].is # v.is
      <4>1. Holds(live)
        BY DEF Watching, RunInv, Tokens
      <4> QED
        BY <3>3, <3>5, <4>1 DEF Holds
    <3> QED
      BY <3>2, <3>7, <3>8, <3>9, <3>10, <3>11, QuietArrival
  <2> QED
    BY <2>5, <2>6, <2>7
<1> QED
  BY <1>7, <1>8

(* A commit that has been approved of has a token no one has spent.        *)
LEMMA CommitApproved ==
    ASSUME NEW c, NEW d, Watching(c, d), Current.value.op = "commit"
    PROVE  /\ Committable(live, Current.value)
           /\ CurrentType(c).kind = "outcome"
           /\ Current.value.selected \in DOMAIN live.env
           /\ live.env[Current.value.selected].kind = "selected"
           /\ c.env[Current.value.selected].selection \in d.consumed
<1>1. PICK e, n : e = Current.value /\ n = e.selected
  OBVIOUS
<1>2. /\ n \in DOMAIN live.env /\ live.env[n].kind = "selected" /\ Lookup(c, n) = c.env[n]
      /\ c.env[n].resource = e.resource /\ c.env[n].selection \notin c.consumed
  BY <1>1, WatchingFacts DEF Correct, Readable, Lookup, KindsAgree
<1>3. Knows(c, c.env[n], live, live.env[n])
  BY <1>2 DEF Watching, Sure
<1>4. /\ c.env[n].resource = Catalog /\ c.env[n].selection # None
      /\ live.selections[live.env[n].is].spent # TRUE
  BY <1>2, <1>3 DEF Knows
<1>5. Committable(live, e)
  BY <1>1, <1>2, <1>4 DEF Committable, Has
<1>6. c.env[n].selection \in d.consumed
  <2>1. Consumes(c, e) \subseteq d.consumed
    BY <1>1 DEF Watching, Approved
  <2>2. Consumes(c, e) = {c.env[n].selection} \ {None}
    BY <1>1, <1>2 DEF Consumes
  <2> QED
    BY <1>4, <2>1, <2>2
<1>7. CurrentType(c).kind = "outcome"
  BY <1>1 DEF CurrentType, TypeOf, Binding
<1> QED
  BY <1>1, <1>2, <1>5, <1>6, <1>7

(* The answer of the adapter is an outcome.                                *)
LEMMA AnswerIs ==
    ASSUME RunInv, Justified, Committable(live, Current.value),
           NEW status \in {"applied", "stale"}, NEW revision \in Nat
    PROVE  Outcome(status, Identity(Payload, OperationId), revision) # None
<1>1. PICK payload : payload = Payload
  OBVIOUS
<1>2. PICK operation : operation = OperationId
  OBVIOUS
<1>3. payload.base \in Content
  <2>1. PICK k : k = Token(live, Current.value)
    OBVIOUS
  <2>2. k \in DOMAIN live.selections /\ payload = live.selections[k].payload
    BY <1>1, <2>1, TokenFacts, ListFacts DEF RunInv, Live, Sound, Payload
  <2>3. Justifies(live, payload)
    BY <2>2 DEF Justified
  <2>4. PICK t \in DOMAIN live.trials : BestOf(live.trials[t], payload)
    BY <2>3 DEF Justifies
  <2>5. PICK trial \in Passed(live.trials[t]) : trial.base = payload.base
    BY <2>4 DEF BestOf
  <2>6. PICK i \in DOMAIN live.trials[t] : trial = live.trials[t][i]
    BY <2>5 DEF Passed
  <2>7. Tried(live, live.trials[t])
    BY DEF Justified
  <2>8. PICK base \in Content : trial.base = base
    BY <2>6, <2>7 DEF Tried, TrialOf
  <2> QED
    BY <2>5, <2>8
<1>4. operation = None \/ operation \in Nat
  <2>1. Len(calls) + 1 \in Nat
    BY ListFacts DEF RunInv
  <2> QED
    BY <1>2, <2>1 DEF OperationId
<1>5. PICK id : id = Identity(payload, operation)
  OBVIOUS
<1>6. id \in [default : Content] \cup [operation : Nat]
  <2>1. CASE operation = None
    BY <1>3, <1>5, <2>1 DEF Identity
  <2>2. CASE operation # None
    BY <1>4, <1>5, <2>2 DEF Identity
  <2> QED
    BY <2>1, <2>2
<1>7. status \in Statuses
  BY DEF Statuses
<1>8. PICK outcome : outcome = Outcome(status, id, revision)
  OBVIOUS
<1>9. outcome \in Outcomes
  BY <1>6, <1>7, <1>8 DEF Outcome, Outcomes
<1> QED
  BY <1>1, <1>2, <1>5, <1>8, <1>9, PlanAssumption

LEMMA CommitArrives ==
    ASSUME NEW c, NEW d, Watching(c, d), ReceiptsTell, Commit
    PROVE  Arrives(d, live')
<1>1. PICK spent : spent = Spent
  OBVIOUS
<1>2. Live(live) /\ ~Ended(live) /\ Current.value.op = "commit" /\ catalog \in Content
  <2>1. At("commit")
    BY DEF Commit, RefuseToken, NoRoomForCommit, CommitAgain, CommitStale, CommitApplies,
         CommitRaises, CommitAppliesThenRaises, Calling
  <2> QED
    BY <2>1, WatchingFacts DEF At, Watching, Justified
<1>3. PICK t : t = Token(live, Current.value)
  OBVIOUS
<1>4. /\ Live(spent) /\ ~Ended(spent) /\ Stays(live, spent) /\ (Fits(spent) <=> Fits(live))
      /\ spent.events = live.events /\ spent.trials = live.trials /\ SpentBy(live, spent, t)
  BY <1>1, <1>2, <1>3, SpendFacts DEF Spent
<1>5. /\ Committable(live, Current.value) /\ CurrentType(c).kind = "outcome"
      /\ Current.value.selected \in DOMAIN live.env
      /\ live.env[Current.value.selected].kind = "selected"
      /\ c.env[Current.value.selected].selection \in d.consumed
  BY <1>2, CommitApproved
<1>6. CASE RefuseToken
  BY <1>5, <1>6 DEF RefuseToken
<1>7. CASE NoRoomForCommit
  <2>1. PICK status \in Statuses : status = "evidence_limit"
    BY DEF Statuses
  <2>2. live' = Stop(spent, status)
    BY <1>1, <1>7, <2>1 DEF NoRoomForCommit
  <2> QED
    BY <1>4, <2>2, StopProceeds, StopFacts, EndsArrive DEF Halts
<1>8. CASE AdapterError
  <2>1. PICK status \in Statuses : status = "commit_unresolved"
    BY DEF Statuses
  <2>2. CASE live' = Stop(spent, status)
    BY <1>4, <2>2, StopProceeds, StopFacts, EndsArrive DEF Halts
  <2>3. CASE live' = Raise(spent)
    <3>1. PICK why : why = "adapter"
      OBVIOUS
    <3>2. live' = [spent EXCEPT !.failure = why]
      BY <2>3, <3>1 DEF Raise
    <3>3. live'.failure = why
      BY <1>4, <3>2 DEF Live, Sound, IsMachine
    <3>4. why # None /\ why # "internal"
      BY <3>1, PlanAssumption
    <3> QED
      BY <3>3, <3>4 DEF Arrives, Ended
  <2> QED
    BY <1>1, <1>8, <2>1, <2>2, <2>3 DEF AdapterError
<1>9. ASSUME Calling, NEW status \in {"applied", "stale"}, NEW revision \in Nat,
             Answer(status, revision)
      PROVE  Arrives(d, live')
  <2>1. PICK outcome : outcome = Outcome(status, Identity(Payload, OperationId), revision)
    OBVIOUS
  <2>2. outcome # None
    BY <1>5, <2>1, AnswerIs DEF Watching
  <2>3. live' = ExecCommit(spent, Current, Payload, OperationId, outcome)
    BY <1>1, <1>9, <2>1 DEF Answer
  <2>4. PICK data, v, kind : /\ live' = Finish(Observe(spent, kind, data), Current, v)
                             /\ v = Value("outcome", outcome) /\ kind = "commit"
    BY <2>3 DEF ExecCommit
  <2>5. v.kind = "outcome" /\ v.is = outcome
    BY <2>4 DEF Value
  <2>6. Ends(Current, v)
    BY <2>2, <2>5, WatchingFacts DEF Ends
  <2>7. Proceeds(Current, live')
    BY <1>4, <2>4, <2>6, ObserveAndProceed
  <2>8. /\ live'.trials = spent.trials /\ live'.selections = spent.selections
        /\ \/ ~Fits(spent) /\ Halts(spent, live')
           \/ Fits(spent) /\ Moves(spent, Current, v, live') /\ Adds(spent, live', [kind |-> kind, data |-> data])
    BY <1>4, <2>4, ObserveAndFinish
  <2>9. Moves(live, Current, v, live')
    BY <1>4, <1>9, <2>8 DEF Calling, Moves, Stays
  <2>10. Knows(d, CurrentType(c), live', v)
    BY <1>5, <2>2, <2>5 DEF Knows
  <2>11. ASSUME NEW n \in DOMAIN live.env PROVE Knows(d, c.env[n], live', live.env[n])
    <3>1. PICK v0, b0 : v0 = live.env[n] /\ b0 = c.env[n]
      OBVIOUS
    <3>2. Knows(c, b0, live, v0)
      BY <3>1 DEF Watching, Sure
    <3>3. c.consumed \subseteq d.consumed /\ live'.trials = live.trials
      BY <1>4, <2>8, WatchingFacts
    <3>4. ASSUME v0.kind = "selected", live'.selections[v0.is].spent = TRUE
          PROVE  b0.selection \in d.consumed
      <4>1. v0.is \in 1 .. Len(live.selections)
        BY <3>1, <3>4 DEF Watching, RunInv, Tokens, Holds
      <4>2. live.selections[v0.is].spent = TRUE \/ v0.is = t
        BY <1>4, <2>8, <3>4, <4>1 DEF SpentBy
      <4>3. CASE live.selections[v0.is].spent = TRUE
        BY <3>2, <3>3, <3>4, <4>3 DEF Knows
      <4>4. CASE v0.is = t
        <5>1. live.env[Current.value.selected].is = v0.is
          BY <1>3, <4>4 DEF Token
        <5>2. b0.selection = c.env[Current.value.selected].selection
          BY <1>5, <3>1, <3>4, <5>1 DEF Watching, Sure, Aliases
        <5> QED
          BY <1>5, <5>2
      <4> QED
        BY <4>2, <4>3, <4>4
    <3>5. Knows(d, b0, live', v0)
      BY <3>2, <3>3, <3>4 DEF Knows
    <3> QED
      BY <3>1, <3>5
  <2>12. v.kind # "selected"
    BY <2>5
  <2> QED
    BY <2>7, <2>9, <2>10, <2>11, <2>12, Arrival
<1>10. CASE CommitAgain \/ CommitStale \/ CommitApplies
  <2>1. Calling /\ \E status \in {"applied", "stale"}, revision \in Nat : Answer(status, revision)
    <3>1. CASE CommitAgain
      <4>1. PICK r \in Known : Answer(r.status, r.revision)
        BY <3>1 DEF CommitAgain
      <4>2. r.status \in {"applied", "stale"} /\ r.revision \in Nat
        BY <4>1 DEF Known, ReceiptsTell
      <4> QED
        BY <3>1, <4>1, <4>2 DEF CommitAgain
    <3>2. CASE CommitStale \/ CommitApplies
      <4>1. catalog.revision \in Nat /\ catalog.revision + 1 \in Nat
        BY <1>2 DEF Content
      <4>2. Answer("stale", catalog.revision) \/ Answer("applied", catalog.revision + 1)
        BY <3>2 DEF CommitStale, CommitApplies
      <4> QED
        BY <3>2, <4>1, <4>2 DEF CommitStale, CommitApplies
    <3> QED
      BY <1>10, <3>1, <3>2
  <2> QED
    BY <1>9, <2>1
<1> QED
  BY <1>6, <1>7, <1>8, <1>10 DEF Commit, CommitRaises, CommitAppliesThenRaises

-----------------------------------------------------------------------------
(* The invariant of a program without diagnostics: f is what the checker   *)
(* knew after each statement, and the machine is where f says it is.       *)
Chain(f) ==
    /\ f[0] = NewChecker
    /\ \A i \in 1 .. Len(source) :
          /\ Approved(f[i - 1], source[i], NoBranch, f[i])
          /\ source[i].value.op = "explore" => BodyApproved(f[i - 1], source[i].value)
Followed(f) ==
    /\ Chain(f)
    /\ declared = None => f[Len(source)] = checker
    /\ declared # None => Ended(live) \/ Sure(f[live.pc - 1], live)
Unrefused == live.failure # "internal" /\ \A t \in DOMAIN live.trials : Unfailing(live.trials[t])
Assured == setting.waived = {} => Unrefused /\ \E f : Followed(f)

LEMMA StartFacts ==
    ASSUME NEW budget, NEW m, m = Machine(budget, None)
    PROVE  Sure(NewChecker, m) /\ m.pc = 1 /\ m.failure # "internal" /\ m.trials = <<>> /\ m.env = <<>>
<1>1. m.env = <<>> /\ m.pc = 1 /\ m.failure = None /\ m.trials = <<>>
  BY MachineFacts
<1>2. PICK c : c = NewChecker
  OBVIOUS
<1>3. c.env = <<>> /\ c.selections = 0
  BY <1>2 DEF NewChecker
<1> QED
  BY <1>1, <1>2, <1>3, PlanAssumption DEF Sure, Aliases

LEMMA AssuredBegins == Init => Assured
<1> SUFFICES ASSUME Init PROVE Assured
  OBVIOUS
<1>1. live = Machine(0, None) /\ source = <<>> /\ declared = None /\ checker = NewChecker
  BY DEF Init
<1>2. live.failure # "internal" /\ live.trials = <<>>
  BY <1>1, StartFacts
<1>3. PICK f : f = [i \in {0} |-> NewChecker]
  OBVIOUS
<1>4. f[0] = NewChecker /\ Len(source) = 0
  BY <1>1, <1>3, EmptyList
<1>5. Followed(f)
  BY <1>1, <1>4 DEF Followed, Chain
<1> QED
  BY <1>2, <1>5 DEF Assured, Unrefused

(* One more statement without a diagnostic.                                *)
LEMMA ChainFurther ==
    ASSUME NEW f, Chain(f), IsList(source), NEW s, source' = Append(source, s), NEW d,
           Approved(f[Len(source)], s, NoBranch, d),
           s.value.op = "explore" => BodyApproved(f[Len(source)], s.value)
    PROVE  \E g : Chain(g)' /\ g[Len(source')] = d
<1>1. PICK n : n = Len(source)
  OBVIOUS
<1>2. /\ n \in Nat /\ Len(source') = n + 1 /\ source'[n + 1] = s
      /\ \A i \in 1 .. n : source'[i] = source[i]
  BY <1>1, AppendFacts, ListFacts
<1>3. PICK g : g = [i \in 0 .. n + 1 |-> IF i = n + 1 THEN d ELSE f[i]]
  OBVIOUS
<1>4. g[n + 1] = d /\ \A i \in 0 .. n : g[i] = f[i]
  BY <1>2, <1>3
<1>5. g[0] = NewChecker
  BY <1>2, <1>4 DEF Chain
<1>6. ASSUME NEW i \in 1 .. n + 1
      PROVE  /\ Approved(g[i - 1], source'[i], NoBranch, g[i])
             /\ source'[i].value.op = "explore" => BodyApproved(g[i - 1], source'[i].value)
  <2>1. CASE i = n + 1
    <3>1. g[i - 1] = f[n] /\ g[i] = d /\ source'[i] = s
      BY <1>2, <1>4, <2>1
    <3> QED
      BY <1>1, <3>1
  <2>2. CASE i # n + 1
    <3>1. i \in 1 .. n /\ i \in 0 .. n /\ i - 1 \in 0 .. n
      BY <1>2, <2>2
    <3>2. g[i - 1] = f[i - 1] /\ g[i] = f[i] /\ source'[i] = source[i]
      BY <1>2, <1>4, <3>1
    <3> QED
      BY <1>1, <3>1, <3>2 DEF Chain
  <2> QED
    BY <2>1, <2>2
<1>7. Chain(g)'
  BY <1>2, <1>5, <1>6 DEF Chain
<1> QED
  BY <1>2, <1>4, <1>7

LEMMA WriteAssured ==
    ASSUME RunInv, Accepted, Assured, WriteLet \/ WriteReturn
    PROVE  Assured'
<1>1. SUFFICES ASSUME setting.waived = {} PROVE Unrefused' /\ \E f : Followed(f)'
  BY DEF Assured, WriteLet, WriteReturn
<1>2. declared = None /\ IsList(source) /\ live = Machine(0, None) /\ IsChecker(checker)
      /\ setting \in Settings /\ setting' = setting
  BY DEF RunInv, Program, WriteLet, WriteReturn, Accepted
<1>3. PICK f : Chain(f) /\ f[Len(source)] = checker
  BY <1>1, <1>2 DEF Assured, Followed
<1>4. PICK budget : live' = Machine(budget, None)
  BY <1>2 DEF WriteLet, WriteReturn
<1>5. /\ Sure(NewChecker, live') /\ live'.pc = 1 /\ live'.failure # "internal"
      /\ live'.trials = <<>> /\ live'.env = <<>>
  BY <1>4, StartFacts
<1>6. Unrefused'
  BY <1>5 DEF Unrefused
<1>7. Faultless(checker')
  BY <1>1, <1>2 DEF WriteLet, WriteReturn, Acceptable, Faultless
<1>8. ASSUME NEW s, s.kind \in Kinds, s.value \in Writable, source' = Append(source, s),
             Faultless(CheckStatement(checker, s))
      PROVE  \E g : Chain(g)' /\ g[Len(source')] = CheckStatement(checker, s)
  <2>1. Worded(s.value) /\ (s.value.op = "explore" => s.value.body \in Bodies)
    BY <1>8, WritableFacts
  <2>2. PICK d : d = CheckStatement(checker, s)
    OBVIOUS
  <2>3. /\ Approved(checker, s, NoBranch, d)
        /\ s.value.op = "explore" => BodyApproved(checker, s.value)
    BY <1>2, <1>8, <2>1, <2>2, CheckStatementMeans
  <2> QED
    BY <1>2, <1>3, <1>8, <2>2, <2>3, ChainFurther
<1>9. CASE WriteLet
  <2>1. PICK e \in Writable, name \in {1, NextName} :
           /\ source' = Append(source, [kind |-> "let", name |-> name, value |-> e])
           /\ checker' = CheckStatement(checker, [kind |-> "let", name |-> name, value |-> e])
    BY <1>9 DEF WriteLet
  <2>2. PICK s : s = [kind |-> "let", name |-> name, value |-> e]
    OBVIOUS
  <2>3. s.kind \in Kinds /\ s.value = e
    BY <2>2 DEF Kinds
  <2>4. PICK g : Chain(g)' /\ g[Len(source')] = checker'
    BY <1>7, <1>8, <2>1, <2>2, <2>3
  <2>5. declared' = None
    BY <1>2, <1>9 DEF WriteLet
  <2>6. Followed(g)'
    BY <2>4, <2>5 DEF Followed
  <2> QED
    BY <1>6, <2>6
<1>10. CASE WriteReturn
  <2>1. PICK e \in Writable, effects \in setting.effects :
           /\ source' = Append(source, [kind |-> "return", value |-> e])
           /\ checker' = CheckEffects(CheckStatement(checker, [kind |-> "return", value |-> e]), effects)
           /\ declared' = effects
    BY <1>10 DEF WriteReturn
  <2>2. PICK s : s = [kind |-> "return", value |-> e]
    OBVIOUS
  <2>3. s.kind = "return" /\ s.kind \in Kinds /\ s.value = e
    BY <2>2 DEF Kinds
  <2>4. PICK d : d = CheckStatement(checker, s)
    OBVIOUS
  <2>5. IsChecker(d)
    BY <1>2, <2>3, <2>4, WritableFacts, CheckStatementFacts DEF Checked, Extends
  <2>6. effects \subseteq Effects /\ declared' # None
    BY <1>2, <2>1, DecisionAssumption
  <2>7. Extends(d, checker')
    BY <2>1, <2>2, <2>4, <2>5, <2>6, CheckEffectsFacts
  <2>8. Faultless(d)
    BY <1>7, <2>7, FaultlessBefore
  <2>9. PICK g : Chain(g)'
    BY <1>8, <2>1, <2>2, <2>3, <2>4, <2>8
  <2>10. g[0] = NewChecker /\ live'.pc - 1 = 0
    BY <1>5, <2>9 DEF Chain
  <2>11. Followed(g)'
    BY <1>5, <2>6, <2>9, <2>10 DEF Followed
  <2> QED
    BY <1>6, <2>11
<1> QED
  BY <1>9, <1>10

(* A step of the run.                                                      *)
LEMMA RunAssured ==
    ASSUME RunInv, Accepted, Justified, ReceiptsTell, Assured,
           ReadSnapshot \/ Propose \/ ProviderFails \/ Compute \/ Commit
    PROVE  Assured'
<1>1. Running /\ UNCHANGED program /\ Steps(live, Current, live')
  BY RunSteps, CommitSteps
<1>2. SUFFICES ASSUME setting.waived = {} PROVE Unrefused' /\ \E f : Followed(f)'
  BY <1>1 DEF Assured, program
<1>3. PICK f : Followed(f) /\ Unrefused
  BY <1>2 DEF Assured
<1>4. PICK c, d : c = f[live.pc - 1] /\ d = f[live.pc]
  OBVIOUS
<1>5. live.pc \in 1 .. Len(source) /\ Current = source[live.pc] /\ Len(source) \in Nat
  BY <1>1, CurrentFacts, ListFacts DEF RunInv, Program
<1>6. Approved(c, Current, NoBranch, d) /\ (Current.value.op = "explore" => BodyApproved(c, Current.value))
  BY <1>3, <1>4, <1>5 DEF Followed, Chain
<1>7. Watching(c, d)
  BY <1>1, <1>3, <1>4, <1>6 DEF Watching, Followed, Running
<1>8. Arrives(d, live')
  <2>1. CASE Commit
    BY <1>7, <2>1, CommitArrives
  <2>2. CASE Compute
    <3>1. CASE At("explore") /\ live' = ExecExplore(live, Current)
      BY <1>6, <1>7, <3>1, ExploreArrives DEF At
    <3>2. CASE At("select") /\ live' = ExecSelect(live, Current)
      BY <1>7, <3>2, SelectArrives DEF At
    <3>3. CASE /\ At("var") \/ At("call") \/ At("simulate")
               /\ live' = ExecPure(live, Current)
      <4>1. Current.value.op \in {"var", "call", "simulate"}
        BY <3>3 DEF At
      <4> QED
        BY <1>7, <3>3, <4>1, PureArrives
    <3> QED
      BY <2>2, <3>1, <3>2, <3>3 DEF Compute
  <2> QED
    BY <1>7, <2>1, <2>2, ReadArrives, ProposeArrives, FailingArrives
<1>9. ASSUME NEW t \in DOMAIN live'.trials PROVE Unfailing(live'.trials[t])
  <2>1. CASE live'.trials = live.trials
    BY <1>3, <1>9, <2>1 DEF Unrefused
  <2>2. CASE Current.value.op = "explore" /\ Explores(live, Current, live')
    <3>1. PICK trials : trials = TrialsOf(live, Current.value)
      OBVIOUS
    <3>2. Unfailing(trials)
      BY <1>6, <1>7, <2>2, <3>1, ExploredMeans
    <3>3. live'.trials = Append(live.trials, trials) /\ IsList(live.trials)
      BY <2>2, <3>1 DEF Explores, RunInv, Live, Sound
    <3>4. /\ DOMAIN live'.trials = 1 .. Len(live.trials) + 1 /\ Len(live.trials) \in Nat
          /\ live'.trials[Len(live.trials) + 1] = trials
          /\ DOMAIN live.trials = 1 .. Len(live.trials)
          /\ \A i \in 1 .. Len(live.trials) : live'.trials[i] = live.trials[i]
      BY <3>3, AppendFacts, ListFacts
    <3>5. t = Len(live.trials) + 1 \/ t \in DOMAIN live.trials
      BY <1>9, <3>4
    <3> QED
      BY <1>3, <3>2, <3>4, <3>5 DEF Unrefused
  <2> QED
    BY <1>1, <2>1, <2>2 DEF Steps, Rests, Reads, Proposes, Selects, Computes, Settles
<1>10. Followed(f)'
  <2>1. Chain(f)'
    BY <1>1, <1>3 DEF Followed, Chain, program
  <2>2. declared' # None
    BY <1>1 DEF Running, program
  <2>3. ~Ended(live') => Sure(f[live'.pc - 1], live')
    <3>1. SUFFICES ASSUME ~Ended(live') PROVE Sure(f[live'.pc - 1], live')
      OBVIOUS
    <3>2. live'.pc = live.pc + 1 /\ Sure(d, live')
      BY <1>8, <3>1 DEF Arrives
    <3>3. live'.pc - 1 = live.pc
      BY <1>5, <3>2
    <3> QED
      BY <1>4, <3>2, <3>3
  <2> QED
    BY <2>1, <2>2, <2>3 DEF Followed
<1>11. Unrefused'
  BY <1>8, <1>9 DEF Unrefused, Arrives
<1> QED
  BY <1>10, <1>11

LEMMA AssuredKept ==
    RunInv /\ Accepted /\ Justified /\ ReplayInv /\ Assured /\ [Next]_vars => Assured'
<1> SUFFICES ASSUME RunInv, Accepted, Justified, ReplayInv, Assured, [Next]_vars PROVE Assured'
  OBVIOUS
<1>1. CASE WriteLet \/ WriteReturn
  BY <1>1, WriteAssured
<1>2. CASE ReadSnapshot \/ Propose \/ ProviderFails \/ Compute \/ Commit
  BY <1>2, RunAssured DEF ReplayInv
<1>3. CASE OutsideWrite \/ Save \/ Damage \/ Replay \/ ReplayStep \/ ReplayEnds \/ UNCHANGED vars
  <2>1. UNCHANGED <<program, live>>
    BY <1>3 DEF OutsideWrite, Save, Damage, Replay, ReplayStep, ReplayEnds, vars, program
  <2>2. \A f : Followed(f) => Followed(f)'
    BY <2>1 DEF Followed, Chain, program
  <2> QED
    BY <2>1, <2>2 DEF Assured, Unrefused, program
<1> QED
  BY <1>1, <1>2, <1>3 DEF Next

(* What the checker knew before a statement holds of the machine that is   *)
(* about to run it, if there is no diagnostic at all (Checker against      *)
(* Runtime.eval_expr).                                                     *)
THEOREM CheckerKnowsTheMachine == Spec => []Assured
BY AssuredBegins, AssuredKept, Inductive, AcceptedThroughout, ValuesDescend,
   RunsAreReproducible, PTL DEF Spec

(* A program the checker accepts never meets the interpreter's own         *)
(* refusals (the RuntimeErrors of runtime.py): no unknown binding, foreign *)
(* or spent token, wrong type or missing metric, at the top or in a        *)
(* branch, whatever the model proposes and whatever becomes of the catalog.*)
THEOREM AcceptedProgramsAreRun == Spec => []AcceptedProgramsRun
<1>1. Assured => AcceptedProgramsRun
  BY DEF Assured, Unrefused, Unfailing, AcceptedProgramsRun
<1> QED
  BY <1>1, CheckerKnowsTheMachine, PTL
=============================================================================
