---------------------------- MODULE VettingProofs ----------------------------
(***************************************************************************)
(* Proofs about Vetting: for any workers, crafts, permissions, plans and   *)
(* scores, the exit code tells the verdicts, and a verdict is earned.      *)
(***************************************************************************)
EXTENDS Vetting, FiniteSetTheorems, SequenceTheorems, WellFoundedInduction, TLAPS

----------------------------------------------------------------------------
(* Where the thread is.                                                      *)

Running == {"plan", "target", "answer", "judge", "report"}
Places == {"pass", "worker", "done"} \cup Running

Ends == {"pass", "fail", "inconclusive"}
Outcome == [name : STRING, status : Ends]

(* Nothing is vetted: a name is unknown, there is none, or the bank is not   *)
(* theirs.                                                                   *)
Refused == Unknown # {} \/ Names = <<>> \/ BankRefused

(* A WorkerResult, as far as a run touches it.                               *)
Fields == {"profile", "error", "cases", "answers", "judgements", "crafts", "tools",
           "improvements", "status", "score"}

(* A pass vets the names in their order; a finished one vetted all, or none, *)
(* and its exit code is of what it found.                                    *)
InOrder(pass) ==
  /\ Len(pass) <= Len(Names)
  /\ \A i \in 1..Len(pass) : pass[i].name = Names[i]

Finished(p) ==
  IF Refused THEN results[p] = <<>> /\ exits[p] = 2
  ELSE Len(results[p]) = Len(Names) /\ exits[p] = _exit(results[p])

PlaceInv ==
  /\ setup \in Setups /\ pc \in Places
  /\ results \in Seq(Seq(Outcome)) /\ exits \in Seq(0..3)
  /\ Len(results) <= Passes
  /\ pc \in {"pass", "done"} => Len(exits) = Len(results)
  /\ pc \in {"worker"} \cup Running => Len(results) = Len(exits) + 1 /\ ~Refused
  /\ pc \in Running => Len(Vetted) < Len(Names)
  /\ \A p \in 1..Len(results) : InOrder(results[p])
  /\ \A p \in 1..Len(exits) : Finished(p)
  /\ pc = "done" =>
       /\ Len(results) = Passes
       /\ code = IF setup.repeats = 0 THEN exits[1] ELSE _aggregate
  /\ DOMAIN result = Fields

LEMMA KnownIsFinite ==
  ASSUME setup \in Setups
  PROVE  IsFiniteSet(Known) /\ Known \subseteq STRING
BY VettingAssumption, FS_EmptySet DEF Known, Lib

LEMMA NamesAre ==
  ASSUME setup \in Setups
  PROVE  /\ Names \in Seq(STRING)
         /\ ToSet(Names) = IF setup.asked # <<>> THEN ToSet(setup.asked)
                           ELSE Known \ {Assessor}
<1>1. setup.asked \in Seq(STRING)
  BY VettingAssumption
<1>2. CASE setup.asked # <<>>
  BY <1>1, <1>2 DEF Names
<1>3. CASE setup.asked = <<>>
  <2> DEFINE S == Known \ {Assessor}
             n == Cardinality(S)
  <2>0. IsFiniteSet(Known) /\ Known \subseteq STRING
    BY KnownIsFinite
  <2>1. IsFiniteSet(S)
    BY <2>0, FS_Subset
  <2>2. n \in Nat /\ ExistsBijection(1..n, S)
    BY <2>1, FS_CardinalityType
  <2>3. \E f \in [1..n -> S] : IsInjective(f)
    BY <2>2 DEF ExistsBijection, Bijection, Injection
  <2>4. SetToSeq(S) \in [1..n -> S] /\ IsInjective(SetToSeq(S))
    <3> HIDE DEF S, n
    <3>1. SetToSeq(S) = CHOOSE f \in [1..n -> S] : IsInjective(f)
      BY DEF SetToSeq, n
    <3> QED
      BY <2>3, <3>1
  <2>5. Names = SetToSeq(S)
    BY <1>3 DEF Names
  <2>6. S \subseteq STRING
    BY <2>0
  <2>7. Names \in Seq(STRING)
    <3>1. Names \in [1..n -> STRING]
      <4> HIDE DEF S, n
      <4> QED
        BY <2>4, <2>5, <2>6
    <3> HIDE DEF S, n
    <3> QED
      BY <2>2, <3>1 DEF Seq
  <2>8. ToSet(Names) = S
    <3>1. SetToSeq(S) \in Injection(1..n, S)
      BY <2>4 DEF Injection
    <3>2. IsFiniteSet(1..n) /\ Cardinality(1..n) = n
      BY <2>2, FS_Interval
    <3>3. SetToSeq(S) \in Surjection(1..n, S)
      BY <2>1, <3>1, <3>2, FS_Injection
    <3> QED
      BY <2>5, <3>3 DEF ToSet, Surjection
  <2> QED
    BY <1>3, <2>7, <2>8
<1> QED
  BY <1>2, <1>3

LEMMA PassesAre == ASSUME setup \in Setups
                   PROVE  /\ Passes \in Nat \ {0}
                          /\ setup.repeats \in Nat
                          /\ Passes = IF setup.repeats = 0 THEN 1 ELSE setup.repeats
<1>1. setup.repeats \in Nat
  BY VettingAssumption
<1>2. \E m \in {1, setup.repeats} : \A y \in {1, setup.repeats} : m >= y
  BY <1>1
<1>3. Passes \in {1, setup.repeats} /\ Passes >= 1 /\ Passes >= setup.repeats
  BY <1>2 DEF Passes, Max
<1> QED
  BY <1>1, <1>3

(* What a step does to a pass: it opens one, closes one, adds an outcome to  *)
(* the last, or leaves them.                                                 *)
LEMMA FieldsAre == DOMAIN Started = Fields /\ Started.status = ""
BY DEF Started, Fields

LEMMA GradedIs ==
  ASSUME NEW r, DOMAIN r = Fields
  PROVE  DOMAIN Graded(r) = Fields /\ Graded(r).status \in Ends
<1> DEFINE cs == _case_score(r)
           final == _score_with_tool(cs, r)
           ok == /\ final >= THRESHOLD /\ r.error = {}
                 /\ Failed(r.crafts) \cup Failed(r.tools) = {}
<1>1. CASE r.status = "inconclusive" \/ cs = None
  <2>1. Graded(r) = [r EXCEPT !.score = 0, !.status = "inconclusive",
                              !.error = IF @ = {} THEN {"no scorable cases"} ELSE @]
    BY <1>1 DEF Graded
  <2> QED
    BY <2>1 DEF Fields, Ends
<1>2. CASE ~(r.status = "inconclusive" \/ cs = None)
  <2>1. Graded(r) = [r EXCEPT !.score = final, !.status = IF ok THEN "pass" ELSE "fail"]
    BY <1>2 DEF Graded
  <2> HIDE DEF final, ok
  <2> QED
    BY <2>1 DEF Fields, Ends
<1> QED
  BY <1>1, <1>2

LEMMA FinalizeKeeps ==
  ASSUME NEW r, DOMAIN r = Fields, _finalize(r)
  PROVE  \E q : DOMAIN q = Fields /\ q.status \in Ends /\ Keep(q)
<1>1. PICK failing \in _run_checks(r), written \in BOOLEAN :
        Keep(Reported([Graded(r) EXCEPT !.improvements = _build_improvements(r, failing)],
                      written))
  <2>1. PICK failing \in _run_checks(r), written \in BOOLEAN, graded \in {Graded(r)} :
          Keep(Reported([graded EXCEPT !.improvements = _build_improvements(r, failing)],
                        written))
    BY Zenon DEF _finalize
  <2>2. graded = Graded(r)
    OBVIOUS
  <2> QED
    BY <2>1, <2>2
<1> DEFINE g == [Graded(r) EXCEPT !.improvements = _build_improvements(r, failing)]
<1>2. DOMAIN g = Fields /\ g.status \in Ends
  BY GradedIs DEF Fields
<1>3. DOMAIN Reported(g, written) = Fields /\ Reported(g, written).status \in Ends
  <2> HIDE DEF g
  <2> QED
    BY <1>2 DEF Reported, Fields, Ends
<1> QED
  BY <1>1, <1>3

LEMMA PlacesStart == Init => PlaceInv
<1> SUFFICES ASSUME Init PROVE PlaceInv
  OBVIOUS
<1>1. Len(results) <= Passes
  BY PassesAre DEF Init
<1>2. DOMAIN result = Fields
  BY FieldsAre DEF Init
<1>3. setup \in Setups /\ pc = "pass" /\ results = <<>> /\ exits = <<>>
  BY DEF Init
<1>4. Len(results) = 0 /\ Len(exits) = 0 /\ results \in Seq(Seq(Outcome)) /\ exits \in Seq(0..3)
  BY <1>3
<1>5. pc \notin Running
  BY <1>3 DEF Running
<1> QED
  BY <1>1, <1>2, <1>3, <1>4, <1>5 DEF PlaceInv, Places

(* The names, the number of passes and whether there is anything to vet are  *)
(* the invocation's.                                                         *)
LEMMA NamesStay ==
  ASSUME setup' = setup
  PROVE  Names' = Names /\ Passes' = Passes /\ Refused' = Refused
<1>0. Known' = Known
  BY DEF Known, Lib
<1>1. Names' = Names
  BY <1>0 DEF Names
<1>2. Unknown' = Unknown /\ BankRefused' = BankRefused
  BY <1>0, <1>1 DEF Unknown, BankRefused
<1> QED
  BY <1>1, <1>2 DEF Passes, Refused

(* A step that leaves the passes alone, on the way through a worker's run.   *)
LEMMA RunGoesOn ==
  ASSUME PlaceInv, UNCHANGED <<setup, results, exits>>, DOMAIN result' = Fields,
         pc \in {"worker"} \cup Running, Len(Vetted) < Len(Names), pc' \in Running
  PROVE  PlaceInv'
<1>1. Names' = Names /\ Passes' = Passes /\ Refused' = Refused
  BY NamesStay
<1>2. Vetted' = Vetted
  BY DEF Vetted, Pass
<1>3. ASSUME NEW p \in 1..Len(results) PROVE InOrder(results[p])'
  BY <1>1, <1>3 DEF PlaceInv, InOrder
<1>4. ASSUME NEW p \in 1..Len(exits) PROVE Finished(p)'
  BY <1>1, <1>4 DEF PlaceInv, Finished, _exit
<1>5. pc' # "done" /\ pc' # "pass" /\ pc' \in Places
  BY DEF Running, Places
<1> QED
  BY <1>1, <1>2, <1>3, <1>4, <1>5 DEF PlaceInv

(* A worker's run ends: its outcome is the next of the pass.                 *)
LEMMA KeepIsNext ==
  ASSUME PlaceInv, NEW q, DOMAIN q = Fields, q.status \in Ends, Keep(q),
         pc \in {"worker"} \cup Running, Len(Vetted) < Len(Names)
  PROVE  PlaceInv'
<1> DEFINE n == Len(results)
           v == [name |-> Worker, status |-> q.status]
<1>1. Names' = Names /\ Passes' = Passes /\ Refused' = Refused
  BY NamesStay DEF Keep
<1>2. n \in Nat \ {0} /\ n = Len(exits) + 1 /\ results[n] \in Seq(Outcome) /\ Vetted = results[n]
  BY DEF PlaceInv, Vetted, Pass
<1>3. Names \in Seq(STRING) /\ Worker = Names[Len(results[n]) + 1]
  BY <1>2, NamesAre DEF PlaceInv, Worker
<1>4. v \in Outcome
  BY <1>2, <1>3 DEF Outcome, Ends
<1>5. results' = [results EXCEPT ![n] = Append(results[n], v)]
  BY DEF Keep, Pass
<1> HIDE DEF n, v
<1>6. /\ results' \in Seq(Seq(Outcome)) /\ Len(results') = n
      /\ results'[n] = Append(results[n], v)
      /\ \A p \in 1..n : p # n => results'[p] = results[p]
  BY <1>2, <1>4, <1>5 DEF PlaceInv, n
<1>7. ASSUME NEW p \in 1..n PROVE InOrder(results[p])'
  <2>1. InOrder(results[p])
    BY <1>7 DEF PlaceInv, n
  <2>2. CASE p = n
    <3>1. v.name = Names[Len(results[n]) + 1]
      BY <1>3 DEF v
    <3>2. Len(results'[n]) = Len(results[n]) + 1 /\ Len(results[n]) \in Nat
      BY <1>2, <1>4, <1>6
    <3>3. ASSUME NEW i \in 1..Len(results'[n]) PROVE results'[n][i].name = Names[i]
      BY <1>2, <1>4, <1>6, <2>1, <2>2, <3>1, <3>2, <3>3 DEF InOrder
    <3> QED
      <4>1. Len(results[n]) + 1 <= Len(Names)
        BY <1>2, <1>3, <3>2
      <4>2. results'[p] = results'[n] /\ Len(results'[n]) <= Len(Names)
        BY <2>2, <3>2, <4>1
      <4> QED
        BY <1>1, <3>3, <4>2 DEF InOrder
  <2>3. CASE p # n
    BY <1>1, <1>6, <2>1, <2>3 DEF InOrder
  <2> QED
    BY <2>2, <2>3
<1>8. exits' = exits
  BY DEF Keep
<1>9. ASSUME NEW p \in 1..Len(exits) PROVE Finished(p)'
  <2>1. results'[p] = results[p] /\ Finished(p)
    BY <1>2, <1>6, <1>9 DEF PlaceInv
  <2> QED
    BY <1>1, <1>8, <2>1 DEF Finished, _exit
<1>10. /\ pc' = "worker" /\ setup' = setup /\ result' = q
  BY DEF Keep, Goto
<1> QED
  BY <1>1, <1>2, <1>6, <1>7, <1>8, <1>9, <1>10 DEF PlaceInv, Places, Running, n

(* The first pass that finds nothing to vet ends at once; otherwise it       *)
(* begins with the first name.                                               *)
LEMMA StartPassKeepsPlaces ==
  ASSUME PlaceInv, StartPass
  PROVE  PlaceInv'
<1> DEFINE n == Len(results) + 1
<1>1. Names' = Names /\ Passes' = Passes /\ Refused' = Refused
  BY NamesStay DEF StartPass
<1>2. /\ pc = "pass" /\ Len(exits) = Len(results) /\ n \in Nat \ {0} /\ n <= Passes
      /\ results' = Append(results, <<>>) /\ result' = Started /\ setup' = setup
  BY PassesAre DEF PlaceInv, StartPass
<1>3. /\ results' \in Seq(Seq(Outcome)) /\ Len(results') = n /\ results'[n] = <<>>
      /\ \A p \in 1..Len(results) : results'[p] = results[p]
  BY <1>2 DEF PlaceInv
<1>4. ASSUME NEW p \in 1..n PROVE InOrder(results[p])'
  <2>1. CASE p = n
    <3>1. Len(Names) >= 0 /\ Len(results'[p]) = 0
      BY <1>3, <2>1, NamesAre DEF PlaceInv
    <3> QED
      BY <1>1, <3>1 DEF InOrder
  <2>2. CASE p # n
    <3>1. p \in 1..Len(results) /\ InOrder(results[p]) /\ results'[p] = results[p]
      BY <1>2, <1>3, <1>4, <2>2 DEF PlaceInv
    <3> QED
      BY <1>1, <3>1 DEF InOrder
  <2> QED
    BY <2>1, <2>2
<1>5. CASE Refused
  <2>1. exits' = Append(exits, 2) /\ pc' = pc
    BY <1>5 DEF StartPass, Refused
  <2>2. exits' \in Seq(0..3) /\ Len(exits') = n /\ exits'[n] = 2
        /\ \A p \in 1..Len(exits) : exits'[p] = exits[p]
    BY <1>2, <2>1 DEF PlaceInv
  <2>3. ASSUME NEW p \in 1..n PROVE Finished(p)'
    <3>1. CASE p = n
      BY <1>1, <1>3, <1>5, <2>2, <3>1 DEF Finished
    <3>2. CASE p # n
      <4>1. p \in 1..Len(results) /\ p \in 1..Len(exits)
        BY <1>2, <2>3, <3>2
      <4>2. Finished(p) /\ results'[p] = results[p] /\ exits'[p] = exits[p]
        BY <1>3, <2>2, <4>1 DEF PlaceInv
      <4> QED
        BY <1>1, <1>5, <4>2 DEF Finished
    <3> QED
      BY <3>1, <3>2
  <2> QED
    BY <1>1, <1>2, <1>3, <1>4, <2>1, <2>2, <2>3, FieldsAre DEF PlaceInv, Running
<1>6. CASE ~Refused
  <2>1. exits' = exits /\ pc' = "worker"
    BY <1>6 DEF StartPass, Refused, Goto
  <2>2. ASSUME NEW p \in 1..Len(exits') PROVE Finished(p)'
    <3>1. Finished(p) /\ results'[p] = results[p]
      BY <1>2, <1>3, <2>1, <2>2 DEF PlaceInv
    <3> QED
      BY <1>1, <2>1, <3>1 DEF Finished, _exit
  <2> QED
    BY <1>1, <1>2, <1>3, <1>4, <1>6, <2>1, <2>2, FieldsAre DEF PlaceInv, Places, Running
<1> QED
  BY <1>5, <1>6

LEMMA EndPassKeepsPlaces ==
  ASSUME PlaceInv, EndPass
  PROVE  PlaceInv'
<1> DEFINE n == Len(results)
<1>1. Names' = Names /\ Passes' = Passes /\ Refused' = Refused
  BY NamesStay DEF EndPass
<1>2. /\ pc = "worker" /\ n = Len(exits) + 1 /\ ~Refused /\ n \in Nat /\ Vetted = results[n]
      /\ results' = results /\ setup' = setup /\ result' = result /\ pc' = "pass"
      /\ exits' = Append(exits, _exit(Vetted)) /\ Len(Vetted) = Len(Names)
  BY DEF PlaceInv, EndPass, Vetted, Pass, Goto
<1>3. _exit(Vetted) \in 0..3
  BY DEF _exit
<1>4. /\ exits' \in Seq(0..3) /\ Len(exits') = n /\ exits'[n] = _exit(results[n])
      /\ \A p \in 1..Len(exits) : exits'[p] = exits[p]
  BY <1>2, <1>3 DEF PlaceInv
<1>5. ASSUME NEW p \in 1..n PROVE InOrder(results[p])'
  BY <1>1, <1>2, <1>5 DEF PlaceInv, InOrder
<1>6. ASSUME NEW p \in 1..n PROVE Finished(p)'
  <2>1. CASE p = n
    BY <1>1, <1>2, <1>4, <2>1 DEF Finished, _exit
  <2>2. CASE p # n
    <3>1. p \in 1..Len(exits) /\ Finished(p) /\ exits'[p] = exits[p]
      BY <1>2, <1>4, <1>6, <2>2 DEF PlaceInv
    <3> QED
      BY <1>1, <1>2, <3>1 DEF Finished, _exit
  <2> QED
    BY <2>1, <2>2
<1> QED
  BY <1>1, <1>2, <1>4, <1>5, <1>6 DEF PlaceInv, Places, Running

LEMMA AggregateStays ==
  ASSUME setup' = setup, results' = results
  PROVE  _aggregate' = _aggregate
<1>1. Names' = Names
  BY NamesStay
<1>2. \A w : PassVerdict(w)' = PassVerdict(w)
  BY <1>1 DEF PassVerdict, Runs
<1> QED
  BY <1>1, <1>2 DEF _aggregate

LEMMA FinishKeepsPlaces ==
  ASSUME PlaceInv, Finish
  PROVE  PlaceInv'
<1>1. /\ Names' = Names /\ Passes' = Passes /\ Refused' = Refused /\ _aggregate' = _aggregate
      /\ setup' = setup /\ results' = results /\ exits' = exits /\ result' = result
      /\ pc' = "done" /\ code' = IF setup.repeats = 0 THEN exits[1] ELSE _aggregate
  BY NamesStay, AggregateStays DEF Finish, Goto
<1>2. ASSUME NEW p \in 1..Len(results) PROVE InOrder(results[p])'
  BY <1>1, <1>2 DEF PlaceInv, InOrder
<1>3. ASSUME NEW p \in 1..Len(exits) PROVE Finished(p)'
  BY <1>1, <1>3 DEF PlaceInv, Finished, _exit
<1>4. Len(results) = Passes /\ Len(exits) = Len(results)
  BY DEF PlaceInv, Finish
<1> QED
  BY <1>1, <1>2, <1>3, <1>4 DEF PlaceInv, Places, Running

(* Nothing that the places speak of moves.                                   *)
LEMMA NothingMoves ==
  ASSUME PlaceInv, UNCHANGED <<setup, pc, results, exits, result, code>>
  PROVE  PlaceInv'
<1>1. Names' = Names /\ Passes' = Passes /\ Refused' = Refused /\ _aggregate' = _aggregate
  BY NamesStay, AggregateStays
<1>2. Vetted' = Vetted
  BY DEF Vetted, Pass
<1>3. ASSUME NEW p \in 1..Len(results) PROVE InOrder(results[p])'
  BY <1>1, <1>3 DEF PlaceInv, InOrder
<1>4. ASSUME NEW p \in 1..Len(exits) PROVE Finished(p)'
  BY <1>1, <1>4 DEF PlaceInv, Finished, _exit
<1> QED
  BY <1>1, <1>2, <1>3, <1>4 DEF PlaceInv

(* The next invocation starts with nothing vetted.                           *)
LEMMA AgainKeepsPlaces ==
  ASSUME PlaceInv, Again
  PROVE  PlaceInv'
<1>1. /\ setup' = setup /\ result' = result /\ pc' = "pass"
      /\ results' = <<>> /\ exits' = <<>>
  BY DEF Again, Goto
<1>2. Len(results') = 0 /\ Len(exits') = 0 /\ results' \in Seq(Seq(Outcome)) /\ exits' \in Seq(0..3)
  BY <1>1
<1>3. Passes' = Passes /\ Passes \in Nat
  BY <1>1, NamesStay, PassesAre DEF PlaceInv
<1> QED
  BY <1>1, <1>2, <1>3 DEF PlaceInv, Places, Running

LEMMA InconclusiveKeeps ==
  ASSUME PlaceInv, NEW reason, pc \in Running, Inconclusive(reason)
  PROVE  PlaceInv'
<1>1. DOMAIN [result EXCEPT !.error = {reason}, !.status = "inconclusive"] = Fields
  BY DEF PlaceInv
<1>2. PICK q : DOMAIN q = Fields /\ q.status \in Ends /\ Keep(q)
  BY <1>1, FinalizeKeeps DEF Inconclusive
<1>3. Len(Vetted) < Len(Names)
  BY DEF PlaceInv
<1> QED
  BY <1>2, <1>3, KeepIsNext

LEMMA JudgedKeeps ==
  ASSUME PlaceInv, NEW r, NEW id, NEW score, NEW error, DOMAIN r = Fields, pc \in Running,
         Judged(r, id, score, error), UNCHANGED <<setup, results, exits>>
  PROVE  PlaceInv'
<1>1. DOMAIN result' = Fields /\ pc' \in {"report", "answer"}
  BY DEF Judged, Goto, Fields
<1> QED
  BY <1>1, RunGoesOn DEF PlaceInv, Running

LEMMA MissedKeeps ==
  ASSUME PlaceInv, pc \in Running, Missed, UNCHANGED <<setup, results, exits>>
  PROVE  PlaceInv'
<1>1. CASE attempt < JUDGE_ATTEMPTS
  <2>1. pc' = pc /\ result' = result
    BY <1>1 DEF Missed
  <2> QED
    BY <2>1, RunGoesOn DEF PlaceInv
<1>2. CASE ~(attempt < JUDGE_ATTEMPTS)
  BY <1>2, JudgedKeeps DEF Missed, PlaceInv
<1> QED
  BY <1>1, <1>2

LEMMA PlacesStep == PlaceInv /\ [Next]_vars => PlaceInv'
<1> SUFFICES ASSUME PlaceInv, [Next]_vars PROVE PlaceInv'
  OBVIOUS
<1>1. CASE StartPass
  BY <1>1, StartPassKeepsPlaces
<1>2. CASE Breaks
  <2> DEFINE q == [Started EXCEPT !.error = {"unexpected"}, !.status = "inconclusive"]
  <2>1. DOMAIN q = Fields /\ q.status = "inconclusive"
    BY DEF Started, Fields
  <2>2. Keep(q)
    BY <1>2 DEF Breaks
  <2>3. pc \in {"worker"} \cup Running /\ Len(Vetted) < Len(Names)
    BY <1>2 DEF Breaks, PlaceInv, Running
  <2> HIDE DEF q
  <2> QED
    BY <2>1, <2>2, <2>3, KeepIsNext DEF Ends
<1>3. CASE EndPass
  BY <1>3, EndPassKeepsPlaces
<1>4. CASE Finish
  BY <1>4, FinishKeepsPlaces
<1>5. CASE Prepare
  <2>1. DOMAIN result' = Fields
    BY <1>5 DEF Prepare, Started, Fields
  <2>2. /\ pc \in {"worker"} \cup Running /\ Len(Vetted) < Len(Names) /\ pc' \in Running
        /\ UNCHANGED <<setup, results, exits>>
    BY <1>5 DEF Prepare, Goto, Running
  <2> QED
    BY <2>1, <2>2, RunGoesOn
<1>6. CASE PlanFails
  BY <1>6, InconclusiveKeeps DEF PlanFails, Running
<1>7. ASSUME NEW cases, pc = "plan", Planned(cases), UNCHANGED <<setup, exits>>
      PROVE  PlaceInv'
  <2>1. DOMAIN result' = Fields /\ pc' = "target"
    BY <1>7 DEF Planned, Goto, PlaceInv, Fields
  <2> QED
    BY <1>7, <2>1, RunGoesOn DEF PlaceInv, Running, Planned
<1>8. CASE TakeBank
  BY <1>7, <1>8 DEF TakeBank
<1>9. CASE PlanReplies
  <2>1. pc = "plan"
    BY <1>9 DEF PlanReplies
  <2>2. PICK reply \in Plans :
          \/ Planned(reply.cases) /\ UNCHANGED <<setup, exits, local, code>>
          \/ Inconclusive("plan")
          \/ UNCHANGED <<setup, pc, results, exits, result, code>>
    BY <1>9 DEF PlanReplies
  <2>3. CASE Planned(reply.cases) /\ UNCHANGED <<setup, exits, local, code>>
    BY <1>7, <2>1, <2>3
  <2>4. CASE Inconclusive("plan")
    BY <2>1, <2>4, InconclusiveKeeps DEF Running
  <2>5. CASE UNCHANGED <<setup, pc, results, exits, result, code>>
    BY <2>5, NothingMoves
  <2> QED
    BY <2>2, <2>3, <2>4, <2>5
<1>10. CASE Target
  <2>1. CASE Goto("answer") /\ UNCHANGED <<setup, results, exits, result, code>>
    BY <1>10, <2>1, RunGoesOn DEF Target, Goto, PlaceInv, Running
  <2>2. CASE Inconclusive("target")
    BY <1>10, <2>2, InconclusiveKeeps DEF Target, Running
  <2> QED
    BY <1>10, <2>1, <2>2 DEF Target
<1>11. CASE AnswerCase
  <2>1. PICK kind \in {"text", "error"} \cup (IF setup.decision THEN {"inconclusive"} ELSE {}) :
          LET id == result.cases[Len(result.answers) + 1].id
              answered == [result EXCEPT !.answers = Append(@, [id |-> id, kind |-> kind])]
          IN IF kind = "inconclusive" THEN Judged(answered, id, 0, TRUE)
             ELSE result' = answered /\ attempt' = 1 /\ Goto("judge")
    BY <1>11 DEF AnswerCase
  <2> DEFINE id == result.cases[Len(result.answers) + 1].id
             answered == [result EXCEPT !.answers = Append(@, [id |-> id, kind |-> kind])]
  <2>2. DOMAIN answered = Fields
    BY DEF PlaceInv
  <2>3. pc = "answer" /\ UNCHANGED <<setup, results, exits>>
    BY <1>11 DEF AnswerCase
  <2>4. Judged(answered, id, 0, TRUE) \/ (result' = answered /\ Goto("judge"))
    BY <2>1
  <2> HIDE DEF answered, id
  <2>5. CASE Judged(answered, id, 0, TRUE)
    BY <2>2, <2>3, <2>5, JudgedKeeps DEF Running
  <2>6. CASE result' = answered /\ Goto("judge")
    BY <2>2, <2>3, <2>6, RunGoesOn DEF PlaceInv, Running, Goto
  <2> QED
    BY <2>4, <2>5, <2>6
<1>12. CASE JudgeReplies
  <2>1. pc = "judge" /\ UNCHANGED <<setup, results, exits>> /\ DOMAIN result = Fields
    BY <1>12 DEF JudgeReplies, PlaceInv
  <2>2. PICK reply \in Verdicts : Judged(result, reply.id, reply.score, FALSE) \/ Missed
    BY <1>12 DEF JudgeReplies
  <2> QED
    BY <2>1, <2>2, JudgedKeeps, MissedKeeps DEF Running
<1>13. CASE JudgeTimesOut
  BY <1>13, MissedKeeps DEF JudgeTimesOut, Running
<1>14. CASE Report
  <2>1. PICK q : DOMAIN q = Fields /\ q.status \in Ends /\ Keep(q)
    BY <1>14, FinalizeKeeps DEF Report, PlaceInv
  <2> QED
    BY <1>14, <2>1, KeepIsNext DEF Report, PlaceInv, Running
<1>15. CASE LateEnds
  BY <1>15, NothingMoves DEF LateEnds
<1>16. CASE Rest \/ UNCHANGED vars
  BY <1>16, NothingMoves DEF Rest, vars
<1>17. CASE Again
  BY <1>17, AgainKeepsPlaces
<1> QED
  BY <1>1, <1>2, <1>3, <1>4, <1>5, <1>6, <1>8, <1>9, <1>10, <1>11, <1>12, <1>13, <1>14,
     <1>15, <1>16, <1>17 DEF Next, Run

LEMMA PlacesAlways == Spec => []PlaceInv
BY PlacesStart, PlacesStep, PTL DEF Spec

----------------------------------------------------------------------------
(* The exit code.                                                            *)

PassedIn(w) == {p \in DOMAIN results : [name |-> w, status |-> "pass"] \in ToSet(results[p])}

SomeEnds(status) == \E p \in DOMAIN results : \E v \in ToSet(results[p]) : v.status = status

(* When the vetting is over, every pass vetted everybody, in order.          *)
LEMMA DonePasses ==
  ASSUME PlaceInv, pc = "done", ~Refused, NEW p \in DOMAIN results
  PROVE  /\ results[p] \in Seq(Outcome) /\ DOMAIN results[p] = 1..Len(Names)
         /\ \A i \in 1..Len(Names) : results[p][i].name = Names[i]
         /\ exits[p] = _exit(results[p])
<1>1. p \in 1..Len(results) /\ p \in 1..Len(exits) /\ results[p] \in Seq(Outcome)
  BY DEF PlaceInv
<1>2. InOrder(results[p]) /\ Finished(p)
  BY <1>1 DEF PlaceInv
<1> QED
  BY <1>1, <1>2 DEF InOrder, Finished

(* Everybody is known when nothing is refused.                               *)
LEMMA NamesKnown ==
  ASSUME setup \in Setups, ~Refused
  PROVE  ToSet(Names) # {} /\ (ToSet(Names) \subseteq Known \/ Known = {}) /\ Names \in Seq(STRING)
         /\ Len(Names) \in Nat \ {0}
<1>1. Names \in Seq(STRING) /\ Names # <<>>
  BY NamesAre DEF Refused
<1>2. Len(Names) \in Nat \ {0}
  BY <1>1
<1>3. Names[1] \in ToSet(Names)
  BY <1>1, <1>2 DEF ToSet
<1>4. ToSet(Names) \subseteq Known \/ Known = {}
  BY NamesAre DEF Refused, Unknown
<1> QED
  BY <1>1, <1>2, <1>3, <1>4

(* If more than half of the outcomes of a worker are passes, it passed in    *)
(* more than half of the passes: it has as many outcomes in each, one for    *)
(* every time it was named.                                                  *)
LEMMA MajorityOfPasses ==
  ASSUME PlaceInv, pc = "done", ~Refused, NEW w \in ToSet(Names), PassVerdict(w)
  PROVE  2 * Cardinality(PassedIn(w)) > Passes
<1> DEFINE n == Len(results)
           places == {i \in 1..Len(Names) : Names[i] = w}
           c == Cardinality(places)
           k == Cardinality(PassedIn(w))
<1>1. n = Passes /\ n \in Nat \ {0} /\ DOMAIN results = 1..n
  BY PassesAre DEF PlaceInv
<1>2. Len(Names) \in Nat /\ Names \in Seq(STRING)
  BY NamesAre DEF PlaceInv
<1>3. IsFiniteSet(places) /\ c \in Nat
  <2>1. IsFiniteSet(1..Len(Names))
    BY <1>2, FS_Interval
  <2>2. IsFiniteSet(places)
    BY <2>1, FS_Subset
  <2> QED
    BY <2>2, FS_CardinalityType
<1>4. c # 0
  <2>1. PICK i \in 1..Len(Names) : Names[i] = w
    BY <1>2 DEF ToSet
  <2>2. i \in places
    BY <2>1
  <2> HIDE DEF places
  <2> QED
    BY <1>3, <2>2, FS_EmptySet
<1>5. IsFiniteSet(1..n) /\ Cardinality(1..n) = n
  BY <1>1, FS_Interval
<1>6. PassedIn(w) \subseteq 1..n /\ IsFiniteSet(PassedIn(w)) /\ k \in Nat
  <2>1. PassedIn(w) \in SUBSET (1..n)
    BY <1>1 DEF PassedIn
  <2> QED
    BY <1>5, <2>1, FS_Subset, FS_CardinalityType
<1>7. Runs(w, {"pass", "fail", "inconclusive"}) = (1..n) \X places
  <2>1. ASSUME NEW r \in (1..n) \X (1..Len(Names))
        PROVE  r \in Runs(w, {"pass", "fail", "inconclusive"}) <=> r \in (1..n) \X places
    <3>1. /\ r[1] \in 1..n /\ r[2] \in 1..Len(Names) /\ results[r[1]] \in Seq(Outcome)
          /\ DOMAIN results[r[1]] = 1..Len(Names)
          /\ results[r[1]][r[2]].name = Names[r[2]]
      BY <1>1, <2>1, DonePasses
    <3>2. results[r[1]][r[2]].status \in {"pass", "fail", "inconclusive"}
      <4>1. results[r[1]][r[2]] \in Outcome
        BY <3>1
      <4> QED
        BY <4>1 DEF Outcome, Ends
    <3> QED
      BY <1>1, <3>1, <3>2 DEF Runs
  <2>2. Runs(w, {"pass", "fail", "inconclusive"}) \subseteq (1..n) \X (1..Len(Names))
    BY DEF Runs
  <2>3. (1..n) \X places \subseteq (1..n) \X (1..Len(Names))
    OBVIOUS
  <2> QED
    BY <2>1, <2>2, <2>3
<1>8. Runs(w, {"pass"}) \subseteq PassedIn(w) \X places
  <2>1. ASSUME NEW r \in Runs(w, {"pass"}) PROVE r \in PassedIn(w) \X places
    <3>1. r \in (1..n) \X (1..Len(Names)) /\ r[1] \in DOMAIN results
      BY <1>1 DEF Runs
    <3>2. /\ results[r[1]] \in Seq(Outcome) /\ DOMAIN results[r[1]] = 1..Len(Names)
          /\ results[r[1]][r[2]].name = Names[r[2]]
      BY <3>1, DonePasses
    <3>3. results[r[1]][r[2]].name = w /\ results[r[1]][r[2]].status = "pass"
      BY DEF Runs
    <3>4. results[r[1]][r[2]] \in Outcome
      BY <3>1, <3>2
    <3>5. results[r[1]][r[2]] = [name |-> w, status |-> "pass"]
      BY <3>3, <3>4 DEF Outcome
    <3>6. r[1] \in PassedIn(w)
      BY <3>1, <3>2, <3>5 DEF PassedIn, ToSet
    <3> QED
      BY <3>1, <3>2, <3>3, <3>6
  <2> QED
    BY <2>1
<1>9. /\ Cardinality(Runs(w, {"pass", "fail", "inconclusive"})) = n * c
      /\ Cardinality(Runs(w, {"pass"})) \in Nat /\ Cardinality(Runs(w, {"pass"})) <= k * c
  <2> HIDE DEF places
  <2>1. Cardinality((1..n) \X places) = n * c
    BY <1>3, <1>5, FS_Product
  <2>2. IsFiniteSet(PassedIn(w) \X places) /\ Cardinality(PassedIn(w) \X places) = k * c
    BY <1>3, <1>6, FS_Product
  <2>3. Runs(w, {"pass"}) \in SUBSET (PassedIn(w) \X places)
    BY <1>8
  <2>4. IsFiniteSet(Runs(w, {"pass"})) /\ Cardinality(Runs(w, {"pass"})) <= k * c
    BY <2>2, <2>3, FS_Subset
  <2>5. Cardinality(Runs(w, {"pass"})) \in Nat
    BY <2>4, FS_CardinalityType
  <2> QED
    BY <1>7, <2>1, <2>4, <2>5
<1> HIDE DEF n, c, k, places
<1>10. \A a \in Nat : a <= k * c /\ a * 2 > n * c => 2 * k > n
  <2>1. SUFFICES ASSUME NEW a \in Nat, a <= k * c, a * 2 > n * c, 2 * k <= n PROVE FALSE
    BY <1>1, <1>6 DEF k
  <2>2. (2 * k) * c <= n * c
    <3>1. n - 2 * k \in Nat
      BY <1>1, <1>6, <2>1 DEF k
    <3>2. (n - 2 * k) * c >= 0
      BY <1>3, <3>1
    <3>3. (n - 2 * k) * c = n * c - (2 * k) * c
      BY <1>1, <1>3, <1>6 DEF k
    <3>4. n * c \in Int /\ (2 * k) * c \in Int
      BY <1>1, <1>3, <1>6 DEF k
    <3> QED
      BY <3>2, <3>3, <3>4
  <2>3. (2 * k) * c = 2 * (k * c) /\ k * c \in Int /\ n * c \in Int
    BY <1>1, <1>3, <1>6 DEF k
  <2> QED
    BY <2>1, <2>2, <2>3
<1> QED
  BY <1>1, <1>9, <1>10 DEF PassVerdict, k

(* For a plain run, the exit code is that of its only pass.                  *)
LEMMA OnePassTells ==
  ASSUME PlaceInv, pc = "done", ~Refused, setup.repeats = 0
  PROVE  /\ code = 0 => \A w \in ToSet(Names) : 2 * Cardinality(PassedIn(w)) > Passes
         /\ code = 1 <=> SomeEnds("fail")
         /\ code = 3 <=> ~SomeEnds("fail") /\ SomeEnds("inconclusive")
         /\ code \in {0, 1, 3} /\ results # << <<>> >>
<1> DEFINE pass == results[1]
<1>1. Passes = 1 /\ Len(results) = 1 /\ DOMAIN results = {1} /\ code = exits[1]
  BY PassesAre DEF PlaceInv
<1>2. /\ pass \in Seq(Outcome) /\ DOMAIN pass = 1..Len(Names)
      /\ \A i \in 1..Len(Names) : pass[i].name = Names[i]
      /\ code = _exit(pass)
  BY <1>1, DonePasses
<1>3. Len(Names) \in Nat \ {0} /\ Names \in Seq(STRING)
  BY NamesKnown DEF PlaceInv
<1>4. \A i \in 1..Len(Names) : pass[i].status \in Ends /\ pass[i] \in Outcome
  <2>1. \A i \in 1..Len(Names) : pass[i] \in Outcome
    BY <1>2
  <2> QED
    BY <2>1 DEF Outcome
<1>5. \A status : SomeEnds(status) <=> \E i \in 1..Len(Names) : pass[i].status = status
  BY <1>1, <1>2 DEF SomeEnds, ToSet
<1>6. results # << <<>> >>
  <2>1. Len(pass) = Len(Names)
    BY <1>2, <1>3
  <2> QED
    BY <1>3, <2>1
<1>7. ASSUME code = 0, NEW w \in ToSet(Names)
      PROVE  2 * Cardinality(PassedIn(w)) > Passes
  <2>1. \A i \in 1..Len(Names) : pass[i].status = "pass"
    BY <1>2, <1>7 DEF _exit
  <2>2. PICK i \in 1..Len(Names) : Names[i] = w
    BY <1>3 DEF ToSet
  <2>3. pass[i] = [name |-> w, status |-> "pass"]
    BY <1>2, <1>4, <2>1, <2>2 DEF Outcome
  <2>4. PassedIn(w) = {1}
    BY <1>1, <1>2, <2>2, <2>3 DEF PassedIn, ToSet
  <2>5. Cardinality({1}) = 1
    BY FS_Singleton, Zenon
  <2> QED
    BY <1>1, <2>4, <2>5
<1>8. /\ code = 1 <=> \E i \in 1..Len(Names) : pass[i].status = "fail"
      /\ code = 3 <=> /\ ~\E i \in 1..Len(Names) : pass[i].status = "fail"
                      /\ \E i \in 1..Len(Names) : pass[i].status = "inconclusive"
      /\ code \in {0, 1, 3}
  <2> HIDE DEF pass
  <2> QED
    BY <1>2, <1>4 DEF _exit, Ends
<1> QED
  BY <1>5, <1>6, <1>7, <1>8

(* With repeats it says whether every worker passed more often than not.     *)
LEMMA PassesTell ==
  ASSUME PlaceInv, pc = "done", ~Refused, setup.repeats # 0
  PROVE  /\ code \in {0, 1}
         /\ code = 0 => \A w \in ToSet(Names) : 2 * Cardinality(PassedIn(w)) > Passes
<1> DEFINE seen == {v.name : v \in UNION {ToSet(results[p]) : p \in DOMAIN results}}
<1>1. code = _aggregate
  BY DEF PlaceInv
<1>2. code = IF seen # {} /\ \A w \in seen : PassVerdict(w) THEN 0 ELSE 1
  BY <1>1 DEF _aggregate
<1>3. 1 \in DOMAIN results
  BY PassesAre DEF PlaceInv
<1>4. /\ DOMAIN results[1] = 1..Len(Names)
      /\ \A i \in 1..Len(Names) : results[1][i].name = Names[i]
  BY <1>3, DonePasses
<1>5. Names \in Seq(STRING)
  BY NamesAre DEF PlaceInv
<1>6. ASSUME NEW w \in ToSet(Names) PROVE w \in seen
  <2>1. PICK i \in 1..Len(Names) : Names[i] = w
    BY <1>5 DEF ToSet
  <2>2. results[1][i] \in ToSet(results[1]) /\ results[1][i].name = w
    BY <1>4, <2>1 DEF ToSet
  <2>3. results[1][i] \in UNION {ToSet(results[p]) : p \in DOMAIN results}
    BY <1>3, <2>2
  <2> QED
    BY <2>2, <2>3
<1> HIDE DEF seen
<1>7. ASSUME code = 0, NEW w \in ToSet(Names)
      PROVE  2 * Cardinality(PassedIn(w)) > Passes
  <2>1. w \in seen
    BY <1>6
  <2>2. PassVerdict(w)
    BY <1>2, <1>7, <2>1
  <2> QED
    BY <2>2, MajorityOfPasses
<1> QED
  BY <1>2, <1>7

(* For any workers, passes, setups and outcomes, the exit code tells them.   *)
THEOREM ExitCodesTell == Spec => []ExitTells
<1>1. ASSUME PlaceInv, pc = "done", Refused
      PROVE  /\ code \in {1, 2} /\ ~SomeEnds("fail") /\ ~SomeEnds("inconclusive")
             /\ setup.repeats = 0 => code = 2 /\ results = << <<>> >>
             /\ setup.repeats # 0 => code = 1
  <2>1. Passes \in Nat \ {0} /\ Len(results) = Passes /\ Len(exits) = Passes
    BY <1>1, PassesAre DEF PlaceInv
  <2>2. \A p \in DOMAIN results : results[p] = <<>> /\ exits[p] = 2
    BY <1>1, <2>1 DEF PlaceInv, Finished
  <2>3. \A p \in DOMAIN results : ToSet(results[p]) = {}
    BY <2>2 DEF ToSet
  <2>4. ~SomeEnds("fail") /\ ~SomeEnds("inconclusive")
    BY <2>3 DEF SomeEnds
  <2>5. CASE setup.repeats = 0
    <3>1. Passes = 1 /\ code = exits[1]
      BY <1>1, <2>5, PassesAre DEF PlaceInv
    <3>2. 1 \in DOMAIN results
      BY <1>1, <2>1, <3>1 DEF PlaceInv
    <3>3. code = 2 /\ results[1] = <<>>
      BY <2>2, <3>1, <3>2
    <3>4. results = << <<>> >>
      BY <1>1, <2>1, <3>1, <3>3 DEF PlaceInv
    <3> QED
      BY <2>4, <2>5, <3>3, <3>4
  <2>6. CASE setup.repeats # 0
    <3>1. code = _aggregate
      BY <1>1, <2>6 DEF PlaceInv
    <3>2. {v.name : v \in UNION {ToSet(results[p]) : p \in DOMAIN results}} = {}
      BY <2>3
    <3>3. code = 1
      BY <3>1, <3>2 DEF _aggregate
    <3> QED
      BY <2>4, <2>6, <3>3
  <2> QED
    BY <2>5, <2>6
<1>2. ASSUME PlaceInv, pc = "done"
      PROVE  /\ code = 0 => /\ ToSet(Names) # {} /\ (ToSet(Names) \subseteq Known \/ Known = {})
                            /\ \A w \in ToSet(Names) : 2 * Cardinality(PassedIn(w)) > Passes
             /\ setup.repeats = 0 =>
                  /\ code = 1 <=> SomeEnds("fail")
                  /\ code = 3 <=> ~SomeEnds("fail") /\ SomeEnds("inconclusive")
                  /\ code = 2 <=> results = << <<>> >>
             /\ setup.repeats # 0 => code \in {0, 1}
  <2>1. CASE Refused
    BY <1>1, <1>2, <2>1
  <2>2. CASE ~Refused
    <3>1. ToSet(Names) # {} /\ (ToSet(Names) \subseteq Known \/ Known = {})
      BY <1>2, <2>2, NamesKnown DEF PlaceInv
    <3>2. CASE setup.repeats = 0
      BY <1>2, <2>2, <3>1, <3>2, OnePassTells
    <3>3. CASE setup.repeats # 0
      BY <1>2, <2>2, <3>1, <3>3, PassesTell
    <3> QED
      BY <3>2, <3>3
  <2> QED
    BY <2>1, <2>2
<1>3. PlaceInv => ExitTells
  BY <1>2 DEF ExitTells, PassedIn, SomeEnds
<1> QED
  BY <1>3, PlacesAlways, PTL

----------------------------------------------------------------------------
(* Means.                                                                    *)

LEMMA LeastOf ==
  ASSUME NEW N \in SUBSET Nat, N # {}
  PROVE  \E n \in N : \A m \in N : n <= m
<1>1. PICK n \in N : \A m \in N : ~(<<m, n>> \in OpToRel(<, Nat))
  BY NatLessThanWellFounded, WFMin
<1>2. \A m \in N : ~(m < n)
  BY <1>1 DEF OpToRel
<1> QED
  BY <1>2

(* The sums that a mean is made of, as FiniteSetsExt defines them: over      *)
(* every set of places, one picked after the other.                          *)
First(s) == CHOOSE x \in s : TRUE

Sums(g, f, S) ==
  g = [s \in SUBSET S |-> IF s = {} THEN 0 ELSE f[First(s)] + g[s \ {First(s)}]]

Weights(w) ==
  CHOOSE g : g = [s \in SUBSET DOMAIN w |->
                    IF s = {} THEN 0 ELSE w[First(s)] + g[s \ {First(s)}]]

Totals(w, v) ==
  CHOOSE g : g = [s \in SUBSET DOMAIN w |->
                    IF s = {} THEN 0 ELSE w[First(s)] * v[First(s)] + g[s \ {First(s)}]]

LEMMA MeanIs ==
  ASSUME NEW w, NEW v
  PROVE  Mean(w, v) = Totals(w, v)[DOMAIN w] \div Weights(w)[DOMAIN w]
BY DEF Mean, Totals, Weights, MapThenSumSet, MapThenFoldSet, First

(* There is one such function: were there none for the sets of at most n     *)
(* elements, there would be none for those of at most n - 1.                 *)
LEMMA SumsExist ==
  ASSUME NEW S, IsFiniteSet(S), NEW f
  PROVE  \E g : Sums(g, f, S)
<1> DEFINE Small(n) == {s \in SUBSET S : Cardinality(s) <= n}
           Has(n) == \E g : g = [s \in Small(n) |->
                                   IF s = {} THEN 0 ELSE f[First(s)] + g[s \ {First(s)}]]
           Bad == {n \in Nat : ~Has(n)}
<1>1. \A s \in SUBSET S :
        IsFiniteSet(s) /\ Cardinality(s) \in Nat /\ Cardinality(s) <= Cardinality(S)
  BY FS_Subset, FS_CardinalityType
<1>2. ASSUME NEW s \in SUBSET S, s # {}
      PROVE  /\ s \ {First(s)} \in SUBSET S
             /\ Cardinality(s \ {First(s)}) = Cardinality(s) - 1
  <2>1. First(s) \in s
    BY <1>2 DEF First
  <2> QED
    BY <1>1, <2>1, FS_RemoveElement
<1>3. Has(0)
  <2>1. Small(0) = {{}}
    <3>1. \A s \in SUBSET S : Cardinality(s) <= 0 <=> s = {}
      BY <1>1, FS_EmptySet
    <3> QED
      BY <3>1
  <2> DEFINE g == [s \in Small(0) |-> 0]
  <2>2. g = [s \in Small(0) |-> IF s = {} THEN 0 ELSE f[First(s)] + g[s \ {First(s)}]]
    BY <2>1
  <2> HIDE DEF g
  <2> QED
    BY <2>2
<1>4. ASSUME NEW n \in Nat, Has(n) PROVE Has(n + 1)
  <2>1. PICK h : h = [s \in Small(n) |-> IF s = {} THEN 0 ELSE f[First(s)] + h[s \ {First(s)}]]
    BY <1>4
  <2> DEFINE g == [s \in Small(n + 1) |-> IF s = {} THEN 0 ELSE f[First(s)] + h[s \ {First(s)}]]
  <2>2. ASSUME NEW s \in Small(n + 1), s # {} PROVE g[s \ {First(s)}] = h[s \ {First(s)}]
    <3>1. s \ {First(s)} \in Small(n) /\ s \ {First(s)} \in Small(n + 1)
      BY <1>1, <1>2, <2>2
    <3> DEFINE t == s \ {First(s)}
    <3>2. h[t] = IF t = {} THEN 0 ELSE f[First(t)] + h[t \ {First(t)}]
      BY <2>1, <3>1
    <3>3. g[t] = IF t = {} THEN 0 ELSE f[First(t)] + h[t \ {First(t)}]
      BY <3>1
    <3> QED
      BY <3>2, <3>3
  <2>3. g = [s \in Small(n + 1) |-> IF s = {} THEN 0 ELSE f[First(s)] + g[s \ {First(s)}]]
    <3> HIDE DEF Small
    <3> QED
      BY <2>2
  <2> HIDE DEF g
  <2> QED
    BY <2>3
<1> HIDE DEF Has
<1>5. Bad = {}
  <2> SUFFICES ASSUME Bad # {} PROVE FALSE
    OBVIOUS
  <2>1. PICK n \in Bad : \A m \in Bad : n <= m
    BY LeastOf
  <2>2. n # 0 /\ n - 1 \in Nat
    BY <1>3, <2>1
  <2>3. Has(n - 1)
    BY <2>1, <2>2
  <2>4. Has((n - 1) + 1)
    BY <1>4, <2>2, <2>3
  <2> QED
    BY <2>1, <2>4
<1>6. Has(Cardinality(S)) /\ Small(Cardinality(S)) = SUBSET S
  BY <1>1, <1>5, FS_CardinalityType
<1> QED
  BY <1>6 DEF Has, Sums

(* What division leaves of a bound.                                          *)
LEMMA QuotientAtLeast ==
  ASSUME NEW n \in Int, NEW d \in Int, d > 0, NEW T \in Int, n >= T * d
  PROVE  n \div d \in Int /\ n \div d >= T
<1> DEFINE q == n \div d
<1>1. q \in Int /\ n < (q + 1) * d
  <2>1. q \in Int /\ d * q <= n /\ n < d * (q + 1)
    OBVIOUS
  <2> HIDE DEF q
  <2> QED
    BY <2>1
<1> HIDE DEF q
<1>2. SUFFICES ASSUME q + 1 <= T PROVE FALSE
  BY <1>1 DEF q
<1>3. (T - (q + 1)) * d >= 0
  BY <1>1, <1>2
<1>4. (T - (q + 1)) * d = T * d - (q + 1) * d /\ T * d \in Int /\ (q + 1) * d \in Int
  BY <1>1
<1> QED
  BY <1>1, <1>3, <1>4

(* A mean of scores none of which is below a threshold is not below it.      *)
LEMMA MeanAtLeast ==
  ASSUME NEW S, IsFiniteSet(S), S # {}, NEW w, NEW v, NEW T \in Nat, DOMAIN w = S,
         \A x \in S : w[x] \in Nat \ {0} /\ v[x] \in Nat /\ v[x] >= T
  PROVE  Mean(w, v) \in Int /\ Mean(w, v) >= T
<1> DEFINE W == Weights(w)
           G == Totals(w, v)
<1>0. ASSUME NEW s \in SUBSET S, s # {} PROVE First(s) \in s /\ First(s) \in S
  BY <1>0 DEF First
<1>1. W = [s \in SUBSET S |-> IF s = {} THEN 0 ELSE w[First(s)] + W[s \ {First(s)}]]
  <2>1. \E g : Sums(g, w, S)
    BY SumsExist
  <2>2. PICK g : g = [s \in SUBSET S |-> IF s = {} THEN 0 ELSE w[First(s)] + g[s \ {First(s)}]]
    BY <2>1 DEF Sums
  <2> QED
    BY <2>2 DEF Weights
<1>2. G = [s \in SUBSET S |-> IF s = {} THEN 0 ELSE w[First(s)] * v[First(s)] + G[s \ {First(s)}]]
  <2> DEFINE f == [x \in S |-> w[x] * v[x]]
  <2>0. \E g : Sums(g, f, S)
    BY SumsExist
  <2>1. PICK g : g = [s \in SUBSET S |-> IF s = {} THEN 0 ELSE f[First(s)] + g[s \ {First(s)}]]
    BY <2>0 DEF Sums
  <2>2. g = [s \in SUBSET DOMAIN w |->
               IF s = {} THEN 0 ELSE w[First(s)] * v[First(s)] + g[s \ {First(s)}]]
    BY <1>0, <2>1
  <2>3. \E h : h = [s \in SUBSET DOMAIN w |->
               IF s = {} THEN 0 ELSE w[First(s)] * v[First(s)] + h[s \ {First(s)}]]
    BY <2>2
  <2> QED
    BY <2>3 DEF Totals
<1> HIDE DEF W, G
<1> DEFINE Fine(s) == /\ W[s] \in Nat /\ (s # {} => W[s] > 0)
                      /\ G[s] \in Nat /\ G[s] >= T * W[s]
           Bad == {n \in Nat : \E s \in SUBSET S : Cardinality(s) = n /\ ~Fine(s)}
<1>3. ASSUME NEW s \in SUBSET S
      PROVE  IsFiniteSet(s) /\ Cardinality(s) \in Nat
  BY FS_Subset, FS_CardinalityType
<1>4. Bad = {}
  <2> SUFFICES ASSUME Bad # {} PROVE FALSE
    OBVIOUS
  <2>1. PICK n \in Bad : \A m \in Bad : n <= m
    BY LeastOf
  <2>2. PICK s \in SUBSET S : Cardinality(s) = n /\ ~Fine(s)
    BY <2>1
  <2>3. CASE s = {}
    <3>1. W[s] = 0 /\ G[s] = 0
      BY <1>1, <1>2, <2>3
    <3> QED
      BY <2>2, <2>3, <3>1
  <2>4. CASE s # {}
    <3> DEFINE x == First(s)
               t == s \ {First(s)}
    <3>1. x \in s /\ x \in S /\ t \in SUBSET S
      BY <1>0, <2>4
    <3>2. Cardinality(t) = n - 1 /\ n - 1 \in Nat
      <4>1. IsFiniteSet(s) /\ Cardinality(t) \in Nat
        BY <1>3, <3>1
      <4>2. Cardinality(t) = Cardinality(s) - 1
        BY <3>1, <4>1, FS_RemoveElement
      <4> QED
        BY <2>2, <4>1, <4>2
    <3>3. Fine(t)
      <4>1. n - 1 \notin Bad
        BY <2>1, <3>2
      <4> QED
        BY <3>1, <3>2, <4>1
    <3>4. W[s] = w[x] + W[t] /\ G[s] = w[x] * v[x] + G[t]
      BY <1>1, <1>2, <2>4
    <3> HIDE DEF x, t
    <3>5. w[x] \in Nat \ {0} /\ v[x] \in Nat /\ v[x] >= T
      BY <3>1
    <3>6. ASSUME NEW a \in Nat, NEW b \in Nat, NEW c \in Nat, b >= T, c \in Nat
          PROVE  /\ a * b \in Nat /\ a * b >= T * a
                 /\ T * (a + c) = T * a + T * c /\ T * a \in Nat /\ T * c \in Nat
      <4>1. a * (b - T) >= 0 /\ a * (b - T) = a * b - a * T
        BY <3>6
      <4> QED
        BY <3>6, <4>1
    <3>7. /\ w[x] * v[x] \in Nat /\ w[x] * v[x] >= T * w[x]
          /\ T * (w[x] + W[t]) = T * w[x] + T * W[t] /\ T * w[x] \in Nat /\ T * W[t] \in Nat
      BY <3>3, <3>5, <3>6
    <3> QED
      BY <2>2, <3>3, <3>4, <3>5, <3>7
  <2> QED
    BY <2>3, <2>4
<1>5. Fine(S)
  BY <1>3, <1>4
<1>6. G[S] \div W[S] \in Int /\ G[S] \div W[S] >= T
  BY <1>5, QuotientAtLeast
<1> QED
  BY <1>6, MeanIs DEF W, G

----------------------------------------------------------------------------
(* A worker's run.                                                           *)

Statuses == {"pass", "fail", "error", "skip", "deny"}

(* A probe answers for finitely many crafts or tools.                        *)
Probes(p) == IsFiniteSet(DOMAIN p) /\ \A n \in DOMAIN p : p[n] \in Statuses

(* Grounded, in a given profile.                                             *)
GroundedIn(has, case) ==
  /\ case.craft # None /\ has.crafts # {} => case.craft \in has.crafts
  /\ case.modes # 0 /\ has.modes # {} => case.modes = Cardinality(has.modes)

(* The cases that a plan or a bank gave.                                     *)
Sound(r) ==
  /\ r.cases \in Seq(CaseType) /\ r.cases # <<>>
  /\ \A i, j \in DOMAIN r.cases : r.cases[i].id = r.cases[j].id => i = j
  /\ \A i \in DOMAIN r.cases : r.cases[i].weight > 0 /\ GroundedIn(r.profile, r.cases[i])

AnswerType == [id : STRING, kind : {"text", "error", "inconclusive"}]
JudgementType == [id : STRING, score : 0..100, error : BOOLEAN]

(* Until its end a run has no verdict, and nothing failed but its profile;   *)
(* answers and judgements are of the cases, in their order, and a case the   *)
(* worker would not answer has a judgement that says so.                     *)
Grading(r) ==
  /\ r.status = "" /\ r.error \subseteq {"profile"}
  /\ Probes(r.crafts) /\ Probes(r.tools)
  /\ r.answers \in Seq(AnswerType) /\ r.judgements \in Seq(JudgementType)
  /\ \A i \in 1..Len(r.answers) : r.answers[i].id = r.cases[i].id
  /\ \A i \in 1..Len(r.judgements) :
       /\ r.judgements[i].id = r.cases[i].id
       /\ r.answers[i].kind = "inconclusive" => r.judgements[i].error

(* One case is answered and not judged.                                      *)
Awaiting(r) ==
  /\ Grading(r) /\ Sound(r)
  /\ Len(r.answers) = Len(r.judgements) + 1 /\ Len(r.answers) <= Len(r.cases)

(* How far the run is.                                                       *)
UnderwayAt(place, r) ==
  /\ place \in Running /\ Grading(r)
  /\ place = "plan" => r.cases = <<>> /\ r.answers = <<>> /\ r.judgements = <<>>
  /\ place = "target" => Sound(r) /\ r.answers = <<>> /\ r.judgements = <<>>
  /\ place = "answer" => /\ Sound(r) /\ Len(r.answers) = Len(r.judgements)
                         /\ Len(r.answers) < Len(r.cases)
  /\ place = "judge" => Awaiting(r) /\ r.answers[Len(r.answers)].kind # "inconclusive"
  /\ place = "report" => /\ Sound(r) /\ Len(r.answers) = Len(r.judgements)
                         /\ Len(r.answers) = Len(r.cases)

Underway == UnderwayAt(pc, result)

RunInv == (pc \in Running => Underway) /\ VerdictsAreEarned

(* A verdict is of the result alone.                                         *)
LEMMA EarnedStays ==
  ASSUME VerdictsAreEarned, result' = result
  PROVE  VerdictsAreEarned'
<1>1. Scored' = Scored
  BY DEF Scored
<1>2. Earned' = Earned
  BY <1>1 DEF Earned
<1>3. _score_with_tool(Earned, result)' = _score_with_tool(Earned, result)
  BY <1>2
<1>4. (Failed(result.crafts) \cup Failed(result.tools))'
      = Failed(result.crafts) \cup Failed(result.tools)
  OBVIOUS
<1> QED
  BY <1>1, <1>3, <1>4 DEF VerdictsAreEarned

LEMMA NoVerdict ==
  ASSUME result'.status \notin {"pass", "fail"}
  PROVE  VerdictsAreEarned'
BY DEF VerdictsAreEarned

(* Where no probe fails, no share of the score is lost.                      *)
LEMMA RatioIsFull ==
  ASSUME NEW p, Probes(p), Failed(p) = {}
  PROVE  _pass_ratio(p) \in Int /\ _pass_ratio(p) >= 100
<1>1. CASE Counted(p) = {}
  BY <1>1 DEF _pass_ratio
<1>2. CASE Counted(p) # {}
  <2> DEFINE n == Cardinality(Counted(p))
  <2>1. Counted(p) = With(p, {"pass"})
    BY DEF Counted, Failed, With
  <2>2. Counted(p) \in SUBSET DOMAIN p
    BY DEF Counted, With
  <2>3. n \in Nat \ {0}
    <3>1. IsFiniteSet(Counted(p))
      BY <2>2, FS_Subset DEF Probes
    <3> QED
      BY <1>2, <3>1, FS_CardinalityType, FS_EmptySet
  <2>4. _pass_ratio(p) = (100 * n) \div n
    BY <1>2, <2>1 DEF _pass_ratio
  <2> HIDE DEF n
  <2>5. 100 * n \in Int /\ 100 * n >= 100 * n
    BY <2>3
  <2> QED
    BY <2>3, <2>4, <2>5, QuotientAtLeast
<1> QED
  BY <1>1, <1>2

LEMMA ScoreAtLeast ==
  ASSUME NEW r, Probes(r.crafts), Probes(r.tools), Failed(r.crafts) = {}, Failed(r.tools) = {},
         NEW c \in Int, c >= THRESHOLD
  PROVE  _score_with_tool(c, r) \in Int /\ _score_with_tool(c, r) >= THRESHOLD
<1> DEFINE x == _pass_ratio(r.crafts)
           y == _pass_ratio(r.tools)
           w == IF Counted(r.crafts) = {} THEN 0 ELSE 75
           z == IF Counted(r.tools) = {} THEN 0 ELSE 75
           num == 850 * c + w * x + z * y
           den == 850 + w + z
<1>1. x \in Int /\ x >= 100 /\ y \in Int /\ y >= 100
  BY RatioIsFull
<1>2. THRESHOLD \in 0..100
  BY VettingAssumption
<1>3. _score_with_tool(c, r) = num \div den
  BY DEF _score_with_tool
<1>4. w \in {0, 75} /\ z \in {0, 75}
  OBVIOUS
<1> HIDE DEF x, y, w, z
<1>5. num \in Int /\ den \in Int /\ den > 0 /\ num >= THRESHOLD * den
  <2>1. CASE w = 0 /\ z = 0
    BY <1>1, <1>2, <2>1
  <2>2. CASE w = 75 /\ z = 0
    BY <1>1, <1>2, <2>2
  <2>3. CASE w = 0 /\ z = 75
    BY <1>1, <1>2, <2>3
  <2>4. CASE w = 75 /\ z = 75
    BY <1>1, <1>2, <2>4
  <2> QED
    BY <1>4, <2>1, <2>2, <2>3, <2>4
<1> HIDE DEF num, den
<1> QED
  BY <1>2, <1>3, <1>5, QuotientAtLeast

(* What is scored is what was answered and judged: a case is found by its    *)
(* id, which no other has.                                                   *)
LEMMA EligibleAreScored ==
  ASSUME Underway, pc = "report"
  PROVE  /\ DOMAIN result.answers = DOMAIN result.cases
         /\ DOMAIN result.judgements = DOMAIN result.cases
         /\ IsFiniteSet(DOMAIN result.cases)
         /\ Eligible(result) = Scored
         /\ \A i \in DOMAIN result.cases :
              JudgementOf(result, result.cases[i].id) = result.judgements[i]
<1> DEFINE n == Len(result.cases)
<1>1. /\ Sound(result) /\ Len(result.answers) = n /\ Len(result.judgements) = n
      /\ result.answers \in Seq(AnswerType) /\ result.judgements \in Seq(JudgementType)
      /\ Grading(result)
  BY DEF Underway, UnderwayAt, Grading
<1>2. n \in Nat /\ DOMAIN result.cases = 1..n
  BY <1>1 DEF Sound
<1>3. DOMAIN result.answers = 1..n /\ DOMAIN result.judgements = 1..n
  BY <1>1
<1>4. IsFiniteSet(1..n)
  BY <1>2, FS_Interval
<1> HIDE DEF n
<1>5. ASSUME NEW i \in 1..n
      PROVE  JudgementOf(result, result.cases[i].id) = result.judgements[i]
  <2> DEFINE of == {j \in DOMAIN result.judgements : result.judgements[j].id = result.cases[i].id}
  <2>1. \A j \in 1..n : result.judgements[j].id = result.cases[j].id
    BY <1>1, <1>3 DEF Grading
  <2>2. \A j \in 1..n : result.cases[j].id = result.cases[i].id => j = i
    BY <1>1, <1>2, <1>5 DEF Sound
  <2>3. of = {i}
    BY <1>3, <1>5, <2>1, <2>2
  <2>4. Max(of) = i
    BY <1>5, <2>3 DEF Max
  <2> QED
    BY <2>3, <2>4 DEF JudgementOf
<1>6. ASSUME NEW i \in 1..n
      PROVE  result.cases[i].id \in Skipped(result) <=> result.answers[i].kind = "inconclusive"
  <2>1. \A j \in 1..n : result.answers[j].id = result.cases[j].id
    BY <1>1, <1>3 DEF Grading
  <2>2. \A j \in 1..n : result.cases[j].id = result.cases[i].id => j = i
    BY <1>1, <1>2, <1>6 DEF Sound
  <2>3. ToSet(result.answers) = {result.answers[j] : j \in 1..n}
    BY <1>3 DEF ToSet
  <2> QED
    BY <1>6, <2>1, <2>2, <2>3 DEF Skipped
<1>7. Eligible(result) = Scored
  BY <1>2, <1>3, <1>5, <1>6 DEF Eligible, Scored
<1> QED
  BY <1>2, <1>3, <1>4, <1>5, <1>7

LEMMA CaseScoreIs ==
  ASSUME Underway, pc = "report"
  PROVE  _case_score(result) = IF Scored = {} THEN None ELSE Earned
<1>1. Scored \subseteq DOMAIN result.cases
  BY EligibleAreScored DEF Scored
<1>2. [i \in Scored |-> JudgementOf(result, result.cases[i].id).score]
      = [i \in Scored |-> result.judgements[i].score]
  BY <1>1, EligibleAreScored
<1>3. Eligible(result) = Scored
  BY EligibleAreScored
<1> QED
  BY <1>2, <1>3 DEF _case_score, Earned

(* A score is below the threshold for a judgement, or a probe.               *)
LEMMA FailsForSomething ==
  ASSUME Underway, pc = "report", Scored # {},
         ~(_score_with_tool(Earned, result) >= THRESHOLD),
         Failed(result.crafts) = {}, Failed(result.tools) = {}
  PROVE  \E j \in ToSet(result.judgements) : j.error \/ j.score < THRESHOLD
<1> SUFFICES ASSUME \A j \in ToSet(result.judgements) : ~j.error /\ ~(j.score < THRESHOLD)
             PROVE  FALSE
  OBVIOUS
<1> DEFINE w == [i \in Scored |-> result.cases[i].weight]
           v == [i \in Scored |-> result.judgements[i].score]
<1>1. Scored \in SUBSET DOMAIN result.judgements
  BY DEF Scored
<1>2. IsFiniteSet(Scored)
  BY <1>1, EligibleAreScored, FS_Subset
<1>3. THRESHOLD \in Nat
  BY VettingAssumption
<1>4. ASSUME NEW i \in Scored
      PROVE  w[i] \in Nat \ {0} /\ v[i] \in Nat /\ v[i] >= THRESHOLD
  <2>1. i \in DOMAIN result.judgements /\ i \in DOMAIN result.cases
    BY <1>1, EligibleAreScored
  <2>2. result.judgements[i] \in JudgementType /\ result.judgements[i] \in ToSet(result.judgements)
    <3>1. result.judgements \in Seq(JudgementType)
      BY DEF Underway, UnderwayAt, Grading
    <3> QED
      BY <2>1, <3>1 DEF ToSet
  <2>3. result.judgements[i].score \in 0..100
    BY <2>2 DEF JudgementType
  <2>4. Sound(result)
    BY DEF Underway, UnderwayAt, Grading
  <2>5. result.cases[i] \in CaseType /\ result.cases[i].weight > 0
    BY <2>1, <2>4 DEF Sound
  <2>6. result.cases[i].weight \in Int
    BY <2>5 DEF CaseType
  <2> QED
    BY <1>3, <2>2, <2>3, <2>5, <2>6
<1>5. Mean(w, v) \in Int /\ Mean(w, v) >= THRESHOLD
  <2>1. DOMAIN w = Scored
    OBVIOUS
  <2> HIDE DEF w, v
  <2> QED
    BY <1>2, <1>3, <1>4, <2>1, MeanAtLeast
<1>6. Earned \in Int /\ Earned >= THRESHOLD
  BY <1>5 DEF Earned
<1>7. _score_with_tool(Earned, result) \in Int /\ _score_with_tool(Earned, result) >= THRESHOLD
  BY <1>6, ScoreAtLeast DEF Underway, UnderwayAt, Grading
<1> QED
  BY <1>3, <1>7

(* How a run ends, and what that leaves of a result.                         *)
Ended(r, failing, written) ==
  Reported([Graded(r) EXCEPT !.improvements = _build_improvements(r, failing)], written)

Kept == {"profile", "cases", "answers", "judgements", "crafts", "tools"}

LEMMA EndKeeps ==
  ASSUME NEW r, DOMAIN r = Fields, NEW failing, NEW written \in BOOLEAN, NEW q,
         q = Ended(r, failing, written)
  PROVE  /\ \A f \in Kept : q[f] = r[f]
         /\ r.status = "inconclusive" \/ _case_score(r) = None => q.status = "inconclusive"
         /\ q.status \in {"pass", "fail"} =>
              /\ q.error = r.error /\ q.improvements = _build_improvements(r, failing)
              /\ q.score = _score_with_tool(_case_score(r), r)
              /\ q.status = "pass" <=>
                   /\ q.score >= THRESHOLD /\ r.error = {}
                   /\ Failed(r.crafts) \cup Failed(r.tools) = {}
<1> DEFINE cs == _case_score(r)
           final == _score_with_tool(cs, r)
           ok == /\ final >= THRESHOLD /\ r.error = {}
                 /\ Failed(r.crafts) \cup Failed(r.tools) = {}
           imp == _build_improvements(r, failing)
           g == Graded(r)
           h == [g EXCEPT !.improvements = imp]
<1>0. q = Reported(h, written)
  BY DEF Ended
<1>1. CASE r.status = "inconclusive" \/ cs = None
  <2>1. g = [r EXCEPT !.score = 0, !.status = "inconclusive",
                      !.error = IF @ = {} THEN {"no scorable cases"} ELSE @]
    BY <1>1 DEF Graded
  <2> HIDE DEF g, imp
  <2>2. DOMAIN h = Fields /\ h.status = "inconclusive" /\ \A f \in Kept : h[f] = r[f]
    BY <2>1 DEF Fields, Kept
  <2> HIDE DEF h
  <2> QED
    BY <1>0, <2>2 DEF Reported, Fields, Kept
<1>2. CASE ~(r.status = "inconclusive" \/ cs = None)
  <2>1. g = [r EXCEPT !.score = final, !.status = IF ok THEN "pass" ELSE "fail"]
    BY <1>2 DEF Graded
  <2> HIDE DEF g, imp, final, ok
  <2>2. /\ DOMAIN h = Fields /\ h.status = (IF ok THEN "pass" ELSE "fail") /\ h.score = final
        /\ h.improvements = imp /\ h.error = r.error /\ \A f \in Kept : h[f] = r[f]
    BY <2>1 DEF Fields, Kept
  <2> HIDE DEF h
  <2>3. CASE written
    <3>1. q = h
      BY <1>0, <2>3 DEF Reported
    <3> QED
      BY <1>2, <2>2, <3>1 DEF ok, final, imp
  <2>4. CASE ~written
    <3>1. q = [h EXCEPT !.error = @ \cup {"report"}, !.status = "inconclusive"]
      BY <1>0, <2>4 DEF Reported
    <3> QED
      BY <1>2, <2>2, <3>1 DEF Fields, Kept
  <2> QED
    BY <2>3, <2>4
<1> QED
  BY <1>1, <1>2

LEMMA FinalizeIs ==
  ASSUME NEW r, _finalize(r)
  PROVE  \E failing \in _run_checks(r), written \in BOOLEAN :
           Keep(Ended(r, failing, written))
<1>1. PICK failing \in _run_checks(r), written \in BOOLEAN, graded \in {Graded(r)} :
        Keep(Reported([graded EXCEPT !.improvements = _build_improvements(r, failing)],
                      written))
  BY Zenon DEF _finalize
<1>2. graded = Graded(r)
  OBVIOUS
<1> QED
  BY <1>1, <1>2 DEF Ended

(* A run without a grade earns no verdict.                                   *)
LEMMA InconclusiveEarns ==
  ASSUME NEW reason, DOMAIN result = Fields, Inconclusive(reason)
  PROVE  RunInv'
<1> DEFINE r == [result EXCEPT !.error = {reason}, !.status = "inconclusive"]
<1>1. DOMAIN r = Fields /\ r.status = "inconclusive"
  BY DEF Fields
<1>2. PICK failing \in _run_checks(r), written \in BOOLEAN : Keep(Ended(r, failing, written))
  <2>1. _finalize(r)
    BY DEF Inconclusive
  <2> HIDE DEF r
  <2> QED
    BY <2>1, FinalizeIs
<1> HIDE DEF r
<1> DEFINE q == Ended(r, failing, written)
<1>3. q.status = "inconclusive"
  BY <1>1, EndKeeps
<1>4. result' = q /\ pc' = "worker"
  BY <1>2 DEF Keep, Goto
<1> QED
  BY <1>3, <1>4, NoVerdict DEF RunInv, Running

(* A run with a grade has earned it.                                         *)
LEMMA ReportEarns ==
  ASSUME PlaceInv, Underway, pc = "report", _finalize(result)
  PROVE  RunInv'
<1>1. PICK failing \in _run_checks(result), written \in BOOLEAN :
        Keep(Ended(result, failing, written))
  BY FinalizeIs
<1> DEFINE q == Ended(result, failing, written)
<1>2. DOMAIN result = Fields /\ result.error \subseteq {"profile"} /\ result.status = ""
  BY DEF PlaceInv, Underway, UnderwayAt, Grading
<1>3. result' = q /\ pc' = "worker"
  BY <1>1 DEF Keep, Goto
<1>4. SUFFICES ASSUME result'.status \in {"pass", "fail"} PROVE VerdictsAreEarned'
  BY <1>3, NoVerdict DEF RunInv, Running
<1>5. /\ \A f \in Kept : result'[f] = result[f]
      /\ _case_score(result) # None
      /\ result'.error = result.error
      /\ result'.improvements = _build_improvements(result, failing)
      /\ result'.score = _score_with_tool(_case_score(result), result)
      /\ result'.status = "pass" <=>
           /\ result'.score >= THRESHOLD /\ result.error = {}
           /\ Failed(result.crafts) \cup Failed(result.tools) = {}
  <2>0. /\ DOMAIN result = Fields /\ q = Ended(result, failing, written)
        /\ q.status \in {"pass", "fail"} /\ result' = q
    BY <1>2, <1>3, <1>4
  <2> HIDE DEF q
  <2>1. \A f \in Kept : q[f] = result[f]
    BY <2>0, EndKeeps
  <2>2. _case_score(result) # None
    <3>1. result.status = "inconclusive" \/ _case_score(result) = None => q.status = "inconclusive"
      BY <2>0, EndKeeps
    <3> QED
      BY <2>0, <3>1
  <2>3. q.error = result.error
    BY <2>0, EndKeeps
  <2>4. q.improvements = _build_improvements(result, failing)
    BY <2>0, EndKeeps
  <2>5. q.score = _score_with_tool(_case_score(result), result)
    BY <2>0, EndKeeps
  <2>6. q.status = "pass" <=>
           /\ q.score >= THRESHOLD /\ result.error = {}
           /\ Failed(result.crafts) \cup Failed(result.tools) = {}
    BY <2>0, EndKeeps
  <2> QED
    BY <2>0, <2>1, <2>2, <2>3, <2>4, <2>5, <2>6
<1>6. Scored # {} /\ _case_score(result) = Earned
  BY <1>5, CaseScoreIs
<1>7. /\ result'.cases = result.cases /\ result'.answers = result.answers
      /\ result'.judgements = result.judgements /\ result'.profile = result.profile
      /\ result'.crafts = result.crafts /\ result'.tools = result.tools
  BY <1>5 DEF Kept
<1>8. Scored' = Scored /\ Earned' = Earned
  <2>1. Scored' = Scored
    BY <1>7 DEF Scored
  <2> QED
    BY <1>7, <2>1 DEF Earned
<1>9. _score_with_tool(Earned, result)' = _score_with_tool(Earned, result)
  BY <1>7, <1>8 DEF _score_with_tool
<1>10. \A i \in DOMAIN result.cases :
         /\ result.answers[i].id = result.cases[i].id
         /\ result.judgements[i].id = result.cases[i].id
  <2>1. /\ Grading(result) /\ result.answers \in Seq(AnswerType)
        /\ result.judgements \in Seq(JudgementType)
    BY DEF Underway, UnderwayAt, Grading
  <2>2. /\ 1..Len(result.answers) = DOMAIN result.cases
        /\ 1..Len(result.judgements) = DOMAIN result.cases
    BY <2>1, EligibleAreScored
  <2> QED
    BY <2>1, <2>2 DEF Grading
<1>11. \A i \in DOMAIN result.cases :
         result.profile.crafts # {} => result.cases[i].craft \in result.profile.crafts \cup {None}
  BY DEF Underway, UnderwayAt, Grading, Sound, GroundedIn
<1>12. ASSUME result'.status = "fail", "profile" \notin result.error
       PROVE  _build_improvements(result, failing) # {}
  <2>1. result.error = {}
    BY <1>2, <1>12
  <2>2. CASE Failed(result.crafts) # {} \/ Failed(result.tools) # {}
    BY <2>2 DEF _build_improvements
  <2>3. CASE Failed(result.crafts) = {} /\ Failed(result.tools) = {}
    <3>1. ~(_score_with_tool(Earned, result) >= THRESHOLD)
      BY <1>5, <1>6, <1>12, <2>1, <2>3
    <3>2. \E j \in ToSet(result.judgements) : j.error \/ j.score < THRESHOLD
      BY <1>6, <2>3, <3>1, FailsForSomething
    <3> QED
      BY <3>2 DEF _build_improvements
  <2> QED
    BY <2>2, <2>3
<1> QED
  BY <1>2, <1>4, <1>5, <1>6, <1>7, <1>8, <1>9, <1>10, <1>11, <1>12, EligibleAreScored
     DEF VerdictsAreEarned

(* The probes answer for the crafts of the pins, and for the tools the       *)
(* permissions name.                                                         *)
LEMMA CraftsAreProbed ==
  ASSUME setup \in Setups
  PROVE  Probes(probe_crafts)
<1> DEFINE offered == crafts_for_worker(Lib, Worker)
           pins == Pins(Lib)
<1>0. Len(Lib.pins) \in Nat /\ DOMAIN Lib.pins = 1..Len(Lib.pins)
  BY VettingAssumption DEF Lib
<1>1. DOMAIN pins = {} \/ DOMAIN pins = 1..Len(Lib.pins)
  BY <1>0 DEF Pins
<1>2. IsFiniteSet(DOMAIN pins)
  BY <1>0, <1>1, FS_EmptySet, FS_Interval
<1>3. IsFiniteSet(Modes(Lib))
  <2> DEFINE f == [i \in DOMAIN pins |-> pins[i].mode]
  <2>1. f \in Surjection(DOMAIN pins, Modes(Lib))
    BY DEF Surjection, Modes
  <2> QED
    BY <1>2, <2>1, FS_Surjection
<1>4. offered \in SUBSET Modes(Lib)
  BY DEF crafts_for_worker, list_crafts
<1>5. IsFiniteSet(offered)
  BY <1>3, <1>4, FS_Subset
<1> HIDE DEF offered
<1>6. CASE offered = {}
  <2>1. probe_crafts = [crafts |-> "skip"]
    BY <1>6 DEF probe_crafts, offered
  <2>2. DOMAIN probe_crafts = {"crafts"} /\ probe_crafts["crafts"] = "skip"
    BY <2>1
  <2> QED
    BY <2>2, FS_Singleton DEF Probes, Statuses
<1>7. CASE offered # {}
  <2>1. DOMAIN probe_crafts = offered
    BY <1>7 DEF probe_crafts, offered
  <2>2. ASSUME NEW n \in offered PROVE probe_crafts[n] \in {"pass", "fail"}
    BY <1>7, <2>2 DEF probe_crafts, offered
  <2> QED
    BY <1>5, <2>1, <2>2 DEF Probes, Statuses
<1> QED
  BY <1>6, <1>7

LEMMA ToolsAreProbed ==
  ASSUME setup \in Setups
  PROVE  Probes(probe_tools)
<1> DEFINE entry == setup.tools.entry
           of(t) == CASE entry[t] = "allow" -> _verdict(t)
                      [] entry[t] = "deny"  -> "deny"
                      [] OTHER              -> "skip"
<1>1. IsFiniteSet(DOMAIN entry)
  BY VettingAssumption
<1>2. \A t : of(t) \in Statuses
  BY DEF _verdict, Statuses
<1>3. \/ \E s \in Statuses : probe_tools = [tools |-> s]
      \/ probe_tools = [t \in DOMAIN entry |-> of(t)]
  BY DEF probe_tools, Statuses
<1> HIDE DEF entry, of
<1>4. CASE \E s \in Statuses : probe_tools = [tools |-> s]
  BY <1>4, FS_Singleton DEF Probes
<1>5. CASE probe_tools = [t \in DOMAIN entry |-> of(t)]
  BY <1>1, <1>2, <1>5 DEF Probes
<1> QED
  BY <1>3, <1>4, <1>5

LEMMA NothingSaid == /\ \A T : <<>> \in Seq(T) /\ Len(<<>>) = 0
                     /\ \A i : ~(i \in 1..0)
OBVIOUS

LEMMA GradingStarts ==
  ASSUME NEW r, r.status = "", r.error \subseteq {"profile"}, Probes(r.crafts), Probes(r.tools),
         r.answers = <<>>, r.judgements = <<>>
  PROVE  Grading(r)
<1>0. <<>> \in Seq(AnswerType) /\ <<>> \in Seq(JudgementType) /\ Len(<<>>) = 0
  BY NothingSaid, Zenon
<1>1. r.answers \in Seq(AnswerType) /\ r.judgements \in Seq(JudgementType)
  BY <1>0, Zenon
<1>2. Len(r.answers) = 0 /\ Len(r.judgements) = 0
  BY <1>0, Zenon
<1>3. \A i : ~(i \in 1..0)
  BY NothingSaid, Zenon
<1>4. 1..Len(r.answers) = 1..0 /\ 1..Len(r.judgements) = 1..0
  BY <1>2, Zenon
<1> QED
  BY <1>1, <1>3, <1>4, Zenon DEF Grading

LEMMA PrepareIsUnderway ==
  ASSUME setup \in Setups, Prepare
  PROVE  UnderwayAt(pc', result')
<1> DEFINE probed == [Started EXCEPT !.crafts = probe_crafts, !.tools = probe_tools]
<1>1. /\ result' = [probed EXCEPT !.profile = build_profile]
         \/ result' = [probed EXCEPT !.error = {"profile"}]
      /\ pc' = "plan"
  BY DEF Prepare, Goto
<1>2. /\ result'.status = "" /\ result'.error \subseteq {"profile"}
      /\ result'.crafts = probe_crafts /\ result'.tools = probe_tools
      /\ result'.cases = <<>> /\ result'.answers = <<>> /\ result'.judgements = <<>>
  BY <1>1 DEF Started
<1>3. Probes(result'.crafts) /\ Probes(result'.tools)
  BY <1>2, CraftsAreProbed, ToolsAreProbed
<1>4. Grading(result')
  BY <1>2, <1>3, GradingStarts
<1> QED
  BY <1>1, <1>2, <1>4 DEF UnderwayAt, Running

(* The cases a validated plan gives are sound.                               *)
LEMMA PlannedIsUnderway ==
  ASSUME NEW cases \in Seq(CaseType), NEW n, NEW spread, validate_plan(cases, n, spread),
         DOMAIN result = Fields, UnderwayAt("plan", result), Planned(cases)
  PROVE  UnderwayAt(pc', result')
<1>1. result' = [result EXCEPT !.cases = cases] /\ pc' = "target"
  BY DEF Planned, Goto
<1>2. /\ Grading(result) /\ result.answers = <<>> /\ result.judgements = <<>>
  BY DEF UnderwayAt
<1>3. /\ result'.status = result.status /\ result'.error = result.error
      /\ result'.crafts = result.crafts /\ result'.tools = result.tools
      /\ result'.cases = cases /\ result'.answers = <<>> /\ result'.judgements = <<>>
      /\ result'.profile = result.profile
  BY <1>1, <1>2 DEF Fields
<1>4. Grading(result')
  <2>1. /\ result.status = "" /\ result.error \subseteq {"profile"}
        /\ Probes(result.crafts) /\ Probes(result.tools)
    BY <1>2 DEF Grading
  <2> QED
    BY <1>3, <2>1, GradingStarts
<1>5. \A i \in DOMAIN cases : cases[i].weight > 0 /\ GroundedIn(result.profile, cases[i])
  BY DEF validate_plan, _check_case, Grounded, GroundedIn
<1>6. Sound(result')
  BY <1>3, <1>5 DEF Sound, validate_plan
<1> QED
  BY <1>1, <1>3, <1>4, <1>6 DEF UnderwayAt, Running

(* A worker's answer is under the id of the next case.                       *)
Answered(r, kind) ==
  [r EXCEPT !.answers = Append(@, [id |-> r.cases[Len(r.answers) + 1].id, kind |-> kind])]

LEMMA AnsweredAwaits ==
  ASSUME NEW r, DOMAIN r = Fields, UnderwayAt("answer", r),
         NEW kind \in {"text", "error", "inconclusive"}, NEW q, q = Answered(r, kind)
  PROVE  /\ Awaiting(q) /\ DOMAIN q = Fields /\ q.answers[Len(q.answers)].kind = kind
         /\ q.cases[Len(q.answers)].id = r.cases[Len(r.answers) + 1].id
<1> DEFINE n == Len(r.answers)
           a == [id |-> r.cases[n + 1].id, kind |-> kind]
<1>1. /\ Grading(r) /\ Sound(r) /\ n = Len(r.judgements) /\ n < Len(r.cases)
      /\ r.answers \in Seq(AnswerType) /\ r.cases \in Seq(CaseType)
      /\ r.judgements \in Seq(JudgementType)
  BY DEF UnderwayAt, Grading, Sound
<1>2. n \in Nat /\ n + 1 \in 1..Len(r.cases) /\ Len(r.cases) \in Nat
  BY <1>1
<1>3. a \in AnswerType
  <2>1. r.cases[n + 1] \in CaseType
    BY <1>1, <1>2
  <2> QED
    BY <2>1 DEF AnswerType, CaseType
<1>4. /\ q.status = r.status /\ q.error = r.error /\ q.crafts = r.crafts /\ q.tools = r.tools
      /\ q.cases = r.cases /\ q.judgements = r.judgements /\ q.profile = r.profile
      /\ q.answers = Append(r.answers, a) /\ DOMAIN q = Fields
  BY DEF Fields, Answered
<1> HIDE DEF n, a
<1>5. /\ q.answers \in Seq(AnswerType) /\ Len(q.answers) = n + 1 /\ q.answers[n + 1] = a
      /\ \A i \in 1..n : q.answers[i] = r.answers[i]
  BY <1>1, <1>3, <1>4 DEF n
<1>6. \A i \in 1..Len(q.answers) : q.answers[i].id = q.cases[i].id
  <2>1. ASSUME NEW i \in 1..(n + 1) PROVE q.answers[i].id = q.cases[i].id
    <3>1. CASE i = n + 1
      BY <1>4, <1>5, <3>1 DEF a
    <3>2. CASE i # n + 1
      <4>1. i \in 1..n
        BY <1>2, <2>1, <3>2
      <4> QED
        <5>1. r.answers[i].id = r.cases[i].id
          BY <1>1, <4>1 DEF Grading, n
        <5> QED
          BY <1>4, <1>5, <4>1, <5>1
    <3> QED
      BY <3>1, <3>2
  <2> QED
    BY <1>5, <2>1
<1>7. \A i \in 1..Len(q.judgements) :
        /\ q.judgements[i].id = q.cases[i].id
        /\ q.answers[i].kind = "inconclusive" => q.judgements[i].error
  <2>1. q.judgements = r.judgements /\ 1..Len(q.judgements) = 1..n /\ q.cases = r.cases
    BY <1>1, <1>4
  <2>2. \A i \in 1..n : /\ r.judgements[i].id = r.cases[i].id
                        /\ r.answers[i].kind = "inconclusive" => r.judgements[i].error
    BY <1>1, <2>1 DEF Grading
  <2> QED
    BY <1>5, <2>1, <2>2
<1>8. Grading(q)
  BY <1>1, <1>4, <1>5, <1>6, <1>7 DEF Grading
<1>9. Sound(q)
  BY <1>1, <1>4 DEF Sound
<1>10. q.answers[n + 1].kind = kind
  BY <1>5 DEF a
<1> QED
  BY <1>1, <1>2, <1>4, <1>5, <1>8, <1>9, <1>10 DEF Awaiting, n

(* A judgement is under the id of the case that awaits it.                   *)
LEMMA JudgedIsUnderway ==
  ASSUME NEW r, DOMAIN r = Fields, Awaiting(r), NEW score \in 0..100, NEW error \in BOOLEAN,
         r.answers[Len(r.answers)].kind = "inconclusive" => error = TRUE,
         NEW id, id = r.cases[Len(r.answers)].id, Judged(r, id, score, error)
  PROVE  UnderwayAt(pc', result')
<1> DEFINE n == Len(r.answers)
           j == [id |-> id, score |-> score, error |-> error]
           q == [r EXCEPT !.judgements = Append(@, j)]
<1>1. /\ Grading(r) /\ Sound(r) /\ n = Len(r.judgements) + 1 /\ n <= Len(r.cases)
      /\ r.answers \in Seq(AnswerType) /\ r.cases \in Seq(CaseType)
      /\ r.judgements \in Seq(JudgementType)
  BY DEF Awaiting, Grading, Sound
<1>2. n \in Nat /\ n \in 1..Len(r.cases) /\ Len(r.cases) \in Nat /\ Len(r.judgements) \in Nat
  BY <1>1
<1>3. j \in JudgementType
  <2>1. r.cases[n] \in CaseType
    BY <1>1, <1>2
  <2> QED
    BY <2>1 DEF JudgementType, CaseType
<1>4. result' = q /\ pc' = IF Len(result'.judgements) = Len(r.cases) THEN "report" ELSE "answer"
  BY DEF Judged, Goto
<1>5. /\ q.status = r.status /\ q.error = r.error /\ q.crafts = r.crafts /\ q.tools = r.tools
      /\ q.cases = r.cases /\ q.answers = r.answers /\ q.profile = r.profile
      /\ q.judgements = Append(r.judgements, j)
  BY DEF Fields
<1> HIDE DEF n, j, q
<1>6. /\ q.judgements \in Seq(JudgementType) /\ Len(q.judgements) = n /\ q.judgements[n] = j
      /\ \A i \in 1..n : i # n => i \in 1..Len(r.judgements) /\ q.judgements[i] = r.judgements[i]
  BY <1>1, <1>2, <1>3, <1>5
<1>7. ASSUME NEW i \in 1..n
      PROVE  /\ q.judgements[i].id = q.cases[i].id
             /\ q.answers[i].kind = "inconclusive" => q.judgements[i].error
  <2>1. CASE i = n
    BY <1>5, <1>6, <2>1 DEF j, n
  <2>2. CASE i # n
    <3>1. i \in 1..Len(r.judgements) /\ q.judgements[i] = r.judgements[i]
      BY <1>6, <1>7, <2>2
    <3>2. /\ r.judgements[i].id = r.cases[i].id
          /\ r.answers[i].kind = "inconclusive" => r.judgements[i].error
      BY <1>1, <3>1 DEF Grading
    <3> QED
      BY <1>5, <3>1, <3>2
  <2> QED
    BY <2>1, <2>2
<1>8. Grading(q)
  <2>1. /\ r.status = "" /\ r.error \subseteq {"profile"} /\ Probes(r.crafts) /\ Probes(r.tools)
        /\ \A i \in 1..Len(r.answers) : r.answers[i].id = r.cases[i].id
    BY <1>1 DEF Grading
  <2> QED
    BY <1>1, <1>5, <1>6, <1>7, <2>1 DEF Grading
<1>9. Sound(q)
  BY <1>1, <1>5 DEF Sound
<1>10. Len(q.answers) = n /\ Len(q.cases) = Len(r.cases)
  BY <1>5 DEF n
<1>11. CASE n = Len(r.cases)
  <2>1. pc' = "report"
    BY <1>4, <1>6, <1>11
  <2> QED
    BY <1>4, <1>6, <1>8, <1>9, <1>10, <1>11, <2>1 DEF UnderwayAt, Running
<1>12. CASE n # Len(r.cases)
  <2>1. pc' = "answer" /\ n < Len(r.cases)
    BY <1>1, <1>2, <1>4, <1>6, <1>12
  <2> QED
    BY <1>4, <1>6, <1>8, <1>9, <1>10, <2>1 DEF UnderwayAt, Running
<1> QED
  BY <1>11, <1>12

(* An attempt at a judgement that fails: another one, or a judgement that    *)
(* says so.                                                                  *)
LEMMA MissedIsUnderway ==
  ASSUME DOMAIN result = Fields, pc = "judge", Underway, Missed
  PROVE  UnderwayAt(pc', result')
<1>1. CASE attempt < JUDGE_ATTEMPTS
  BY <1>1 DEF Missed, Underway
<1>2. CASE ~(attempt < JUDGE_ATTEMPTS)
  <2>1. Judged(result, Case.id, 0, TRUE) /\ Awaiting(result)
    BY <1>2 DEF Missed, Underway, UnderwayAt
  <2>2. Case.id = result.cases[Len(result.answers)].id /\ 0 \in 0..100 /\ TRUE \in BOOLEAN
    BY DEF Case
  <2> QED
    BY <2>1, <2>2, JudgedIsUnderway, Zenon
<1> QED
  BY <1>1, <1>2

LEMMA RunInvStarts == Init => RunInv
<1> SUFFICES ASSUME Init PROVE RunInv
  OBVIOUS
<1>1. pc \notin Running /\ result.status = ""
  BY FieldsAre DEF Init, Running
<1> QED
  BY <1>1 DEF RunInv, VerdictsAreEarned

(* A run goes on: it has no verdict yet.                                     *)
LEMMA UnderwayEarns ==
  ASSUME UnderwayAt(pc', result')
  PROVE  RunInv'
<1>1. Underway' /\ result'.status = ""
  BY DEF Underway, UnderwayAt, Grading
<1> QED
  BY <1>1, NoVerdict DEF RunInv

LEMMA RunInvStep == PlaceInv /\ RunInv /\ [Next]_vars => RunInv'
<1> SUFFICES ASSUME PlaceInv, RunInv, [Next]_vars PROVE RunInv'
  OBVIOUS
<1> USE DEF Running
<1>0. DOMAIN result = Fields /\ setup \in Setups /\ (pc \in Running => Underway)
  BY DEF PlaceInv, RunInv
<1>1. ASSUME result' = result, pc' = pc \/ pc' \notin Running PROVE RunInv'
  <2>1. VerdictsAreEarned'
    BY <1>1, EarnedStays DEF RunInv
  <2> QED
    BY <1>0, <1>1, <2>1 DEF RunInv, Underway
<1>2. CASE StartPass
  <2>1. result' = Started /\ pc' \notin Running
    BY <1>2 DEF StartPass, Goto
  <2> QED
    BY <2>1, FieldsAre, NoVerdict DEF RunInv
<1>3. CASE Breaks
  <2>1. result'.status = "inconclusive" /\ pc' = "worker"
    BY <1>3 DEF Breaks, Keep, Goto, Started
  <2> QED
    BY <2>1, NoVerdict DEF RunInv
<1>4. CASE EndPass
  BY <1>1, <1>4 DEF EndPass, Goto
<1>5. CASE Finish
  BY <1>1, <1>5 DEF Finish, Goto
<1>6. CASE Prepare
  BY <1>0, <1>6, PrepareIsUnderway, UnderwayEarns
<1>7. CASE PlanFails
  BY <1>0, <1>7, InconclusiveEarns DEF PlanFails
<1>8. CASE TakeBank
  <2>1. /\ validate_plan(setup.cases, Len(setup.cases), FALSE) /\ Planned(setup.cases)
        /\ UnderwayAt("plan", result)
    BY <1>0, <1>8 DEF TakeBank, Underway
  <2>2. setup.cases \in Seq(CaseType)
    BY <1>0, VettingAssumption
  <2>3. UnderwayAt(pc', result')
    BY <1>0, <2>1, <2>2, PlannedIsUnderway
  <2> QED
    BY <2>3, UnderwayEarns
<1>9. CASE PlanReplies
  <2>1. pc = "plan" /\ UnderwayAt("plan", result)
    BY <1>0, <1>9 DEF PlanReplies, Underway
  <2>2. PICK reply \in Plans :
          \/ /\ validate_plan(reply.cases, setup.n_cases, TRUE)
             /\ Planned(reply.cases)
          \/ Inconclusive("plan")
          \/ UNCHANGED <<pc, result>>
    BY <1>9 DEF PlanReplies
  <2>3. CASE validate_plan(reply.cases, setup.n_cases, TRUE) /\ Planned(reply.cases)
    <3>1. reply.cases \in Seq(CaseType)
      BY VettingAssumption
    <3>2. UnderwayAt(pc', result')
      BY <1>0, <2>1, <2>3, <3>1, PlannedIsUnderway
    <3> QED
      BY <3>2, UnderwayEarns
  <2>4. CASE Inconclusive("plan")
    BY <1>0, <2>4, InconclusiveEarns
  <2>5. CASE UNCHANGED <<pc, result>>
    BY <1>1, <2>5
  <2> QED
    BY <2>2, <2>3, <2>4, <2>5
<1>10. CASE Target
  <2>1. CASE Goto("answer") /\ result' = result
    <3>1. Sound(result) /\ result.answers = <<>> /\ result.judgements = <<>> /\ Grading(result)
      BY <1>0, <1>10 DEF Target, Underway, UnderwayAt
    <3>2. Len(result.answers) = 0 /\ Len(result.judgements) = 0
      BY <3>1, NothingSaid, Zenon
    <3>3. 0 < Len(result.cases)
      <4>1. result.cases \in Seq(CaseType) /\ result.cases # <<>>
        BY <3>1 DEF Sound
      <4> QED
        BY <4>1
    <3>4. UnderwayAt("answer", result)
      BY <3>1, <3>2, <3>3 DEF UnderwayAt
    <3>5. UnderwayAt(pc', result')
      BY <2>1, <3>4 DEF Goto
    <3> QED
      BY <3>5, UnderwayEarns
  <2>2. CASE Inconclusive("target")
    BY <1>0, <2>2, InconclusiveEarns
  <2> QED
    BY <1>10, <2>1, <2>2 DEF Target
<1>11. CASE AnswerCase
  <2>1. PICK kind \in {"text", "error"} \cup (IF setup.decision THEN {"inconclusive"} ELSE {}) :
          LET id == result.cases[Len(result.answers) + 1].id
              answered == [result EXCEPT !.answers = Append(@, [id |-> id, kind |-> kind])]
          IN IF kind = "inconclusive" THEN Judged(answered, id, 0, TRUE)
             ELSE result' = answered /\ attempt' = 1 /\ Goto("judge")
    BY <1>11 DEF AnswerCase
  <2> DEFINE id == result.cases[Len(result.answers) + 1].id
             q == [result EXCEPT !.answers = Append(@, [id |-> id, kind |-> kind])]
  <2>2. UnderwayAt("answer", result) /\ kind \in {"text", "error", "inconclusive"}
    BY <1>0, <1>11 DEF AnswerCase, Underway
  <2>3. IF kind = "inconclusive" THEN Judged(q, id, 0, TRUE) ELSE result' = q /\ pc' = "judge"
    BY <2>1 DEF Goto
  <2>4. /\ Awaiting(q) /\ DOMAIN q = Fields /\ q.answers[Len(q.answers)].kind = kind
        /\ q.cases[Len(q.answers)].id = id
    <3>1. id = result.cases[Len(result.answers) + 1].id
      OBVIOUS
    <3>2. q = Answered(result, kind)
      BY DEF Answered
    <3> HIDE DEF q, id
    <3> QED
      BY <1>0, <2>2, <3>1, <3>2, AnsweredAwaits
  <2> HIDE DEF q, id
  <2>5. UnderwayAt(pc', result')
    <3>1. CASE kind = "inconclusive"
      <4>1. Judged(q, id, 0, TRUE)
        BY <2>3, <3>1, Zenon
      <4>2. 0 \in 0..100 /\ TRUE \in BOOLEAN
        OBVIOUS
      <4> QED
        BY <2>4, <4>1, <4>2, JudgedIsUnderway, Zenon
    <3>2. CASE kind # "inconclusive"
      BY <2>3, <2>4, <3>2 DEF UnderwayAt, Awaiting
    <3> QED
      BY <3>1, <3>2
  <2> QED
    BY <2>5, UnderwayEarns
<1>12. CASE JudgeReplies
  <2>1. pc = "judge" /\ Underway /\ Awaiting(result)
        /\ result.answers[Len(result.answers)].kind # "inconclusive"
    BY <1>0, <1>12 DEF JudgeReplies, Underway, UnderwayAt
  <2>2. PICK reply \in Verdicts :
          IF validate_judgement(reply, Case) THEN Judged(result, reply.id, reply.score, FALSE)
          ELSE Missed
    BY <1>12 DEF JudgeReplies
  <2>3. UnderwayAt(pc', result')
    <3>1. CASE validate_judgement(reply, Case)
      <4>1. reply.readable /\ reply.id = result.cases[Len(result.answers)].id
        BY <3>1 DEF validate_judgement, Case
      <4>2. reply.score \in 0..100
        <5>1. reply \in [readable: {TRUE}, id: {result.cases[i].id : i \in DOMAIN result.cases},
                         score: Scores]
          <6>1. ~(reply \in {[readable |-> FALSE, id |-> None, score |-> 0]})
            BY <4>1
          <6> QED
            BY <6>1, Zenon DEF Verdicts
        <5> QED
          BY <5>1, VettingAssumption
      <4> QED
        BY <1>0, <2>1, <2>2, <3>1, <4>1, <4>2, JudgedIsUnderway
    <3>2. CASE ~validate_judgement(reply, Case)
      BY <1>0, <2>1, <2>2, <3>2, MissedIsUnderway
    <3> QED
      BY <3>1, <3>2
  <2> QED
    BY <2>3, UnderwayEarns
<1>13. CASE JudgeTimesOut
  <2>1. UnderwayAt(pc', result')
    BY <1>0, <1>13, MissedIsUnderway DEF JudgeTimesOut
  <2> QED
    BY <2>1, UnderwayEarns
<1>14. CASE Report
  BY <1>0, <1>14, ReportEarns DEF Report
<1>15. CASE LateEnds
  BY <1>1, <1>15 DEF LateEnds
<1>16. CASE Rest \/ UNCHANGED vars
  BY <1>1, <1>16 DEF Rest, vars
<1>17. CASE Again
  BY <1>1, <1>17 DEF Again, Goto, Running
<1> QED
  BY <1>2, <1>3, <1>4, <1>5, <1>6, <1>7, <1>8, <1>9, <1>10, <1>11, <1>12, <1>13, <1>14,
     <1>15, <1>16, <1>17 DEF Next, Run

(* A verdict is earned.                                                      *)
THEOREM VerdictsHold == Spec => []VerdictsAreEarned
<1>1. Init => PlaceInv /\ RunInv
  BY PlacesStart, RunInvStarts
<1>2. PlaceInv /\ RunInv /\ [Next]_vars => (PlaceInv /\ RunInv)'
  BY PlacesStep, RunInvStep
<1>3. RunInv => VerdictsAreEarned
  BY DEF RunInv
<1> QED
  BY <1>1, <1>2, <1>3, PTL DEF Spec

=============================================================================
