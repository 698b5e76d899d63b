-------------------------- MODULE TaskChainProofs --------------------------
(***************************************************************************)
(* Proofs about TaskChain: for any number of callers and calls, any plans  *)
(* and any number of repair rounds, the steps executed on one parent are   *)
(* steps of one call.                                                      *)
(*                                                                         *)
(* The argument: every chain must assign child 0 before it can execute     *)
(* anything or reach another child, child 0 can be assigned once, and a    *)
(* call that failed to assign it ends. So child 0 is a lock nobody         *)
(* releases; ChainInv says who may be past it.                             *)
(***************************************************************************)
EXTENDS TaskChain, SequenceTheorems, WellFoundedInduction, TLAPS

(* The call of c has assigned child 0.                                       *)
Past(c) ==
  /\ IsChain(c)
  /\ pc[c] # "idle"
  /\ index[c] >= 1
  /\ index[c] = 1 => pc[c] \in {"run", "loop", "lookup"}

Claimed == runs[0] # None /\ runs[0].version # 0

Types ==
  /\ runs \in [Names -> RunState \cup {None}]
  /\ pc \in [Callers -> {"idle", "start", "lookup", "create", "assign", "run",
                         "loop"}]
  /\ kind \in [Callers -> CallKinds \cup {None}]
  /\ id \in [Callers -> Nat]
  /\ held \in [Callers -> RunState \cup {None}]
  /\ index \in [Callers -> Nat]
  /\ name \in [Callers -> Names]
  /\ copy \in [Callers -> RunState \cup {None}]
  /\ calls \in Nat
  /\ ran \in [Names -> SUBSET Nat]

(* What the locals of a call say of each other and of the tasks.             *)
Locals ==
  /\ runs[Parent] # None
  /\ \A c \in Callers :
       /\ pc[c] = "idle" => index[c] = 0
       /\ pc[c] # "idle" => kind[c] # None
       /\ pc[c] \in {"start", "assign", "run"} => copy[c] # None
       /\ pc[c] \in {"create", "assign", "run", "loop"} /\ IsChain(c)
            => index[c] >= 1 /\ name[c] = index[c] - 1
       /\ pc[c] \in {"start", "lookup", "create", "assign", "run", "loop"}
            /\ ~IsChain(c) => name[c] \in {Parent, Named}
       /\ pc[c] = "start" => index[c] = 0
       /\ pc[c] = "start" => name[c] = Parent
       /\ pc[c] = "start" => held[c] # None
       /\ pc[c] \in {"assign", "run", "loop"} => runs[name[c]] # None

(* A child is CREATED exactly in its first version, and never APPROVED.      *)
ChildStates ==
  \A n \in Children : runs[n] # None =>
    /\ runs[n].version = 0 <=> runs[n].state = "created"
    /\ runs[n].state # "approved"

OnePast ==
  /\ \A c, d \in Callers : Past(c) /\ Past(d) => c = d
  /\ \A c \in Callers : Past(c) => Claimed
  /\ \A c \in Callers : Past(c) => \A n \in Children : ran[n] \subseteq {id[c]}
  /\ ~Claimed => \A n \in Children : ran[n] = {}

ChainInv ==
  Types /\ Locals /\ ChildStates /\ OnePast /\ StepsOfOneChain

(* The three names of tasks are different kinds of numbers, and child 0 is   *)
(* one of them.                                                              *)
LEMMA NameKinds ==
  /\ 0 \in Children
  /\ Children \subseteq Nat
  /\ Parent \in Names /\ Named \in Names /\ Children \subseteq Names
  /\ Parent \notin Children /\ Named \notin Children /\ Parent # Named
  /\ calls \in Nat => calls + 1 \in Nat
<1>1. MaxSteps \in Nat /\ MaxRounds \in Nat /\ MaxSteps >= 1
  BY TaskChainAssumption
<1> QED BY <1>1 DEF Children, Names, Parent, Named

(* The edges a call uses.                                                    *)
LEMMA Edges ==
  /\ \A s \in States : can_transition(s, "assigned")
                         => s \in {"created", "approved"}
  /\ {"assigned", "running", "verified", "blocked", "created"} \subseteq States
BY DEF can_transition, legal_targets, TRANSITIONS, States

LEMMA ChainInit == Init => ChainInv
<1> SUFFICES ASSUME Init PROVE ChainInv
  OBVIOUS
<1>0. None \notin RunState /\ None \notin CallKinds
  BY TaskChainAssumption DEF RunState, CallKinds
<1>1. /\ runs[Parent] = [state |-> "assigned", version |-> 3]
      /\ \A n \in Children : runs[n] = None
  BY NameKinds DEF Init
<1>2. runs \in [Names -> RunState \cup {None}]
  BY NameKinds, Edges DEF Init, RunState
<1>3. Types
  BY <1>2, NameKinds DEF Types, Init
<1>4. Locals
  BY <1>0, <1>1, Edges DEF Locals, Init, RunState
<1>5. ChildStates
  BY <1>1 DEF ChildStates
<1>6. OnePast
  BY <1>1, NameKinds DEF OnePast, Past, Claimed, Init
<1>7. StepsOfOneChain
  BY NameKinds DEF StepsOfOneChain, Init
<1> QED BY <1>3, <1>4, <1>5, <1>6, <1>7 DEF ChainInv

(* Every step of a call keeps the invariant; most change nothing it is about *)
(* but the caller's own locals.                                              *)
LEMMA ChainStep == ChainInv /\ [Next]_vars => ChainInv'
<1> SUFFICES ASSUME ChainInv, [Next]_vars PROVE ChainInv'
  OBVIOUS
<1> USE DEF ChainInv
<1>0. None \notin RunState /\ None \notin CallKinds
  BY TaskChainAssumption DEF RunState, CallKinds
<1> USE <1>0, NameKinds, Edges DEF Types, Locals, RunState, IsChain, chain
<1>1. ASSUME NEW c \in Callers, ChainStarts(c) PROVE ChainInv'
  <2>1. Types'
    BY <1>1 DEF ChainStarts, Moved, Movable
  <2>2. Locals'
    BY <1>1 DEF ChainStarts, Moved, Movable
  <2>3. ChildStates'
    BY <1>1 DEF ChildStates, ChainStarts, Moved, Movable
  <2>4. OnePast'
    BY <1>1 DEF ChildStates, OnePast, Past, Claimed, ChainStarts,
       Moved, Movable
  <2>5. StepsOfOneChain'
    BY <1>1 DEF OnePast, Past, StepsOfOneChain, ChainStarts, Moved, Movable
  <2> QED
    BY <2>1, <2>2, <2>3, <2>4, <2>5
<1>2. ASSUME NEW c \in Callers, ChainJoins(c) PROVE ChainInv'
  <2>1. Types'
    BY <1>2 DEF ChainJoins
  <2>2. Locals'
    BY <1>2 DEF ChainJoins
  <2>3. ChildStates'
    BY <1>2 DEF ChildStates, ChainJoins
  <2>4. OnePast'
    BY <1>2 DEF ChildStates, OnePast, Past, Claimed, ChainJoins
  <2>5. StepsOfOneChain'
    BY <1>2 DEF OnePast, Past, StepsOfOneChain, ChainJoins
  <2> QED
    BY <2>1, <2>2, <2>3, <2>4, <2>5
<1>3. ASSUME NEW c \in Callers, LookupTask(c) PROVE ChainInv'
  <2>1. Types'
    BY <1>3 DEF LookupTask, HasNext, NextName
  <2>2. Locals'
    BY <1>3 DEF LookupTask, HasNext, NextName
  <2>3. ChildStates'
    BY <1>3 DEF ChildStates, LookupTask, HasNext, NextName
  <2>4. OnePast'
    BY <1>3 DEF ChildStates, OnePast, Past, Claimed, LookupTask,
       HasNext, NextName
  <2>5. StepsOfOneChain'
    BY <1>3 DEF OnePast, Past, StepsOfOneChain, LookupTask, HasNext, NextName
  <2> QED
    BY <2>1, <2>2, <2>3, <2>4, <2>5
<1>4. ASSUME NEW c \in Callers, CreateTask(c) PROVE ChainInv'
  <2>1. Types'
    BY <1>4 DEF CreateTask, FirstRun
  <2>2. Locals'
    BY <1>4 DEF CreateTask, FirstRun
  <2>3. ChildStates'
    BY <1>4 DEF ChildStates, CreateTask, FirstRun
  <2>4. OnePast'
    BY <1>4 DEF ChildStates, OnePast, Past, Claimed, CreateTask, FirstRun
  <2>5. StepsOfOneChain'
    BY <1>4 DEF OnePast, Past, StepsOfOneChain, CreateTask, FirstRun
  <2> QED
    BY <2>1, <2>2, <2>3, <2>4, <2>5
<1>5. ASSUME NEW c \in Callers, CreateLosesRace(c) PROVE ChainInv'
  <2>1. Types'
    BY <1>5 DEF CreateLosesRace
  <2>2. Locals'
    BY <1>5 DEF CreateLosesRace
  <2>3. ChildStates'
    BY <1>5 DEF ChildStates, CreateLosesRace
  <2>4. OnePast'
    BY <1>5 DEF ChildStates, OnePast, Past, Claimed, CreateLosesRace
  <2>5. StepsOfOneChain'
    BY <1>5 DEF OnePast, Past, StepsOfOneChain, CreateLosesRace
  <2> QED
    BY <2>1, <2>2, <2>3, <2>4, <2>5
<1>6. ASSUME NEW c \in Callers, AssignTask(c) PROVE ChainInv'
  <2>1. Types'
    BY <1>6 DEF AssignTask, Movable, Moved
  <2>2. Locals'
    BY <1>6 DEF AssignTask, Movable, Moved
  <2>3. ChildStates'
    BY <1>6 DEF ChildStates, AssignTask, Movable, Moved
  <2>4. OnePast'
    BY <1>6 DEF ChildStates, OnePast, Past, Claimed, AssignTask, Movable, Moved
  <2>5. StepsOfOneChain'
    BY <1>6 DEF OnePast, Past, StepsOfOneChain, AssignTask, Movable, Moved
  <2> QED
    BY <2>1, <2>2, <2>3, <2>4, <2>5
<1>7. ASSUME NEW c \in Callers, RunStarts(c) PROVE ChainInv'
  <2>1. Types'
    BY <1>7 DEF RunStarts, Movable, Moved
  <2>2. Locals'
    BY <1>7 DEF RunStarts, Movable, Moved
  <2>3. ChildStates'
    BY <1>7 DEF ChildStates, RunStarts, Movable, Moved
  <2>4. OnePast'
    BY <1>7 DEF ChildStates, OnePast, Past, Claimed, RunStarts, Movable, Moved
  <2>5. StepsOfOneChain'
    BY <1>7 DEF OnePast, Past, StepsOfOneChain, RunStarts, Movable, Moved
  <2> QED
    BY <2>1, <2>2, <2>3, <2>4, <2>5
<1>8. ASSUME NEW c \in Callers, NEW s, StepFinished(c, s) PROVE ChainInv'
  <2>1. Types'
    BY <1>8 DEF CallKinds, StepFinished
  <2>2. Locals'
    BY <1>8 DEF StepFinished
  <2>3. ChildStates'
    BY <1>8 DEF ChildStates, StepFinished
  <2>4. OnePast'
    BY <1>8 DEF ChildStates, OnePast, Past, Claimed, StepFinished
  <2>5. StepsOfOneChain'
    BY <1>8 DEF OnePast, Past, StepsOfOneChain, StepFinished
  <2> QED
    BY <2>1, <2>2, <2>3, <2>4, <2>5
<1>9. ASSUME NEW c \in Callers, End(c), UNCHANGED runs PROVE ChainInv'
  <2>1. Types'
    BY <1>9 DEF CallKinds, End
  <2>2. Locals'
    BY <1>9 DEF End
  <2>3. ChildStates'
    BY <1>9 DEF ChildStates, End
  <2>4. OnePast'
    BY <1>9 DEF ChildStates, OnePast, Past, Claimed, End
  <2>5. StepsOfOneChain'
    BY <1>9 DEF OnePast, Past, StepsOfOneChain, End
  <2> QED
    BY <2>1, <2>2, <2>3, <2>4, <2>5
<1>10. ASSUME NEW c \in Callers, VerifyMoves(c) PROVE ChainInv'
  <2>1. Types'
    BY <1>10 DEF CallKinds, VerifyMoves, AtEnd, Movable, Moved, End
  <2>2. Locals'
    BY <1>10 DEF VerifyMoves, AtEnd, Movable, Moved, End
  <2>3. ChildStates'
    BY <1>10 DEF ChildStates, VerifyMoves, AtEnd, Movable, Moved, End
  <2>4. OnePast'
    BY <1>10 DEF ChildStates, OnePast, Past, Claimed, VerifyMoves,
       AtEnd, Movable, Moved, End
  <2>5. StepsOfOneChain'
    BY <1>10 DEF OnePast, Past, StepsOfOneChain, VerifyMoves, AtEnd,
       Movable, Moved, End
  <2> QED
    BY <2>1, <2>2, <2>3, <2>4, <2>5
<1>11. ASSUME NEW c \in Callers, NEW k \in CallKinds, NEW q, Begin(c, k, q) PROVE ChainInv'
  <2>1. Types'
    BY <1>11 DEF CallKinds, Begin
  <2>2. Locals'
    BY <1>11 DEF Begin
  <2>3. ChildStates'
    BY <1>11 DEF ChildStates, Begin
  <2>4. OnePast'
    BY <1>11 DEF ChildStates, OnePast, Past, Claimed, Begin
  <2>5. StepsOfOneChain'
    BY <1>11 DEF OnePast, Past, StepsOfOneChain, Begin
  <2> QED
    BY <2>1, <2>2, <2>3, <2>4, <2>5
<1>12. ASSUME NEW m \in Names, Recover(m) PROVE ChainInv'
  <2>1. Types'
    BY <1>12 DEF CallKinds, Recover, Moved
  <2>2. Locals'
    BY <1>12 DEF Recover, Moved
  <2>3. ChildStates'
    BY <1>12 DEF ChildStates, Recover, Moved
  <2>4. OnePast'
    BY <1>12 DEF ChildStates, OnePast, Past, Claimed, Recover, Moved
  <2>5. StepsOfOneChain'
    BY <1>12 DEF OnePast, Past, StepsOfOneChain, Recover, Moved
  <2> QED
    BY <2>1, <2>2, <2>3, <2>4, <2>5
<1>13. CASE UNCHANGED vars
  BY <1>13 DEF vars, ChildStates, OnePast, Past, Claimed, StepsOfOneChain
<1>14. ASSUME NEW c \in Callers, Proceed(c) PROVE ChainInv'
  BY <1>14, <1>1, <1>2, <1>3, <1>4, <1>5, <1>6, <1>7, <1>8, <1>9, <1>10,
     <1>11, <1>12, <1>13 DEF Proceed, ChainRefused, AssignRefused,
     RunRefused, RunReturns, RunRaises, ChainReturns, VerifyRefused
<1> QED
  BY <1>1, <1>2, <1>3, <1>4, <1>5, <1>6, <1>7, <1>8, <1>9, <1>10, <1>11,
     <1>12, <1>13, <1>14 DEF Next, Dies

LEMMA ChainAlways == Spec => []ChainInv
BY ChainInit, ChainStep, PTL DEF Spec

(* For any number of callers, calls and repair rounds, with crashes and      *)
(* recoveries anywhere: the child steps executed on one parent all belong to *)
(* one call of run_chain or verify_task.                                     *)
THEOREM OneChainRuns == Spec => []StepsOfOneChain
BY ChainAlways, PTL DEF ChainInv

(* The queue, the log and the numbers of a call; index stays in the queue,   *)
(* and only repairs make the queue longer than its plan.                     *)
QueueInv ==
  /\ queue \in [Callers -> Seq(Step)]
  /\ log \in [Callers -> Seq(LogEntry)]
  /\ rounds \in [Callers -> 0..MaxRounds]
  /\ id \in [Callers -> 0..MaxCalls]
  /\ calls \in 0..MaxCalls
  /\ ran \in [Names -> SUBSET (1..MaxCalls)]
  /\ \A c \in Callers :
       /\ index[c] <= Len(queue[c])
       /\ Len(queue[c]) <= MaxSteps + 2 * rounds[c]
       /\ pc[c] # "idle" => id[c] # 0

LEMMA Bounds ==
  /\ MaxSteps \in Nat /\ MaxSteps >= 1 /\ MaxRounds \in Nat /\ MaxCalls \in Nat
  /\ Parent \in Names
BY TaskChainAssumption DEF Names

LEMMA QueueInit == Init => QueueInv
BY Bounds DEF Init, QueueInv

(* What the plans and verify_task give run_chain to do.                      *)
LEMMA Queues ==
  ASSUME NEW k, NEW q \in QueuesOf(k)
  PROVE  q \in Seq(Step) /\ Len(q) <= MaxSteps
<1>1. CASE k = "run_chain"
  BY <1>1, TaskChainAssumption DEF QueuesOf
<1>2. CASE k = "verify_task"
  <2>1. VerifyStep("test") \in Step /\ VerifyStep("review") \in Step
    BY TaskChainAssumption DEF VerifyStep, Step, StepKinds
  <2>2. q = <<VerifyStep("test")>> \/ q = <<VerifyStep("review")>>
    BY <1>2 DEF QueuesOf
  <2>3. \A x \in Step : <<x>> \in Seq(Step) /\ Len(<<x>>) = 1
    OBVIOUS
  <2>4. q \in Seq(Step) /\ Len(q) = 1
    BY <2>1, <2>2, <2>3
  <2> QED
    BY <2>4, Bounds
<1>3. CASE k \notin {"run_chain", "verify_task"}
  <2>1. q = <<>>
    BY <1>3 DEF QueuesOf
  <2> QED
    BY <2>1, Bounds
<1> QED
  BY <1>1, <1>2, <1>3

(* A set of positions has a last one.                                        *)
LEMMA LastPosition ==
  ASSUME NEW n \in Nat, NEW S \in SUBSET (1..n), S # {}
  PROVE  \E i \in S : \A j \in S : j <= i
<1> DEFINE T == {n - i : i \in S}
<1>1. T \subseteq Nat /\ T # {}
  <2>1. \A i \in S : n - i \in Nat
    OBVIOUS
  <2>2. PICK i \in S : TRUE
    OBVIOUS
  <2>3. n - i \in T
    OBVIOUS
  <2> QED
    BY <2>1, <2>3
<1>2. PICK x \in T : \A y \in T : ~(<<y, x>> \in OpToRel(<, Nat))
  <2> HIDE DEF T
  <2> QED BY <1>1, NatLessThanWellFounded, WFMin
<1>3. \A y \in T : ~(y < x)
  BY <1>1, <1>2 DEF OpToRel
<1>4. PICK i \in S : x = n - i
  OBVIOUS
<1>5. \A j \in S : ~(n - j < n - i)
  BY <1>3, <1>4
<1> QED
  BY <1>5

(* Two elements in a sequence behind its first k.                            *)
Insert(q, k, a, b) == SubSeq(q, 1, k) \o <<a, b>> \o SubSeq(q, k + 1, Len(q))

Inserts(r, q, k, a, b) ==
  /\ r \in Seq(Step) /\ Len(r) = Len(q) + 2
  /\ \A i \in 1..k : r[i] = q[i]
  /\ r[k + 1] = a /\ r[k + 2] = b
  /\ \A i \in k + 1..Len(q) : r[i + 2] = q[i]

LEMMA Inserted ==
  ASSUME NEW q \in Seq(Step), NEW k \in 1..Len(q), NEW a \in Step, NEW b \in Step
  PROVE  Inserts(Insert(q, k, a, b), q, k, a, b)
<1> DEFINE r == Insert(q, k, a, b)
           n == Len(q)
           done == SubSeq(q, 1, k)
           both == <<a, b>>
           rest == SubSeq(q, k + 1, n)
           front == done \o both
<1>0. n \in Nat /\ k \in 1..n /\ \A i \in 1..n : q[i] \in Step
  BY LenProperties, ElementOfSeq
<1> HIDE DEF n
<1>1. done \in Seq(Step) /\ Len(done) = k /\ \A i \in 1..k : done[i] = q[i]
  <2>1. \A i \in 1..k : q[i] \in Step
    BY <1>0
  <2>2. /\ done \in Seq(Step) /\ Len(done) = IF 1 <= k THEN k - 1 + 1 ELSE 0
        /\ \A i \in 1..k - 1 + 1 : done[i] = q[1 + i - 1]
    BY <1>0, <2>1, SubSeqProperties
  <2> QED
    BY <1>0, <2>2
<1>2. rest \in Seq(Step) /\ Len(rest) = n - k /\ \A i \in 1..n - k : rest[i] = q[k + i]
  <2>1. \A i \in k + 1..n : q[i] \in Step
    BY <1>0
  <2>2. /\ rest \in Seq(Step) /\ Len(rest) = IF k + 1 <= n THEN n - (k + 1) + 1 ELSE 0
        /\ \A i \in 1..n - (k + 1) + 1 : rest[i] = q[(k + 1) + i - 1]
    BY <1>0, <2>1, SubSeqProperties
  <2> QED
    BY <1>0, <2>2
<1>3. both \in Seq(Step) /\ Len(both) = 2 /\ both[1] = a /\ both[2] = b
  OBVIOUS
<1> HIDE DEF done, both, rest
<1>4. /\ front \in Seq(Step) /\ Len(front) = Len(done) + Len(both)
      /\ \A i \in 1..Len(done) + Len(both) :
           front[i] = IF i <= Len(done) THEN done[i] ELSE both[i - Len(done)]
  BY <1>1, <1>3, ConcatProperties
<1> HIDE DEF front
<1>5. /\ Len(front) = k + 2 /\ \A i \in 1..k : front[i] = q[i]
      /\ front[k + 1] = a /\ front[k + 2] = b
  <2>1. \A i \in 1..k + 2 : front[i] = IF i <= k THEN done[i] ELSE both[i - k]
    BY <1>0, <1>1, <1>3, <1>4
  <2> QED
    BY <1>0, <1>1, <1>3, <1>4, <2>1
<1>6. r = front \o rest
  BY DEF Insert, front, done, both, rest, n
<1> HIDE DEF r
<1>7. /\ r \in Seq(Step) /\ Len(r) = Len(front) + Len(rest)
      /\ \A i \in 1..Len(front) + Len(rest) :
           r[i] = IF i <= Len(front) THEN front[i] ELSE rest[i - Len(front)]
  <2>1. front \in Seq(Step) /\ rest \in Seq(Step)
    BY <1>2, <1>4
  <2>2. /\ front \o rest \in Seq(Step) /\ Len(front \o rest) = Len(front) + Len(rest)
        /\ \A i \in 1..Len(front) + Len(rest) :
             (front \o rest)[i] = IF i <= Len(front) THEN front[i] ELSE rest[i - Len(front)]
    BY <2>1, ConcatProperties
  <2> QED
    BY <1>6, <2>2, Zenon
<1>8. \A i \in 1..n + 2 : r[i] = IF i <= k + 2 THEN front[i] ELSE rest[i - (k + 2)]
  <2>1. Len(front) + Len(rest) = n + 2 /\ Len(front) = k + 2
    BY <1>0, <1>2, <1>5
  <2> QED
    BY <1>7, <2>1
<1>9. \A i \in k + 1..n : r[i + 2] = q[i]
  <2> TAKE i \in k + 1..n
  <2>1. i + 2 \in 1..n + 2 /\ ~(i + 2 <= k + 2) /\ (i + 2) - (k + 2) = i - k
    BY <1>0
  <2>2. r[i + 2] = rest[i - k]
    BY <1>8, <2>1
  <2>3. i - k \in 1..n - k /\ k + (i - k) = i
    BY <1>0
  <2> QED
    BY <1>2, <2>2, <2>3
<1>10. Len(r) = n + 2
  BY <1>0, <1>2, <1>5, <1>7
<1>11. /\ \A i \in 1..k : r[i] = q[i]
       /\ r[k + 1] = a /\ r[k + 2] = b
  <2>1. ASSUME NEW i \in 1..k + 2 PROVE r[i] = front[i]
    <3>1. i \in 1..n + 2 /\ i <= k + 2
      BY <1>0
    <3> QED
      BY <1>8, <3>1
  <2>2. \A i \in 1..k : i \in 1..k + 2
    BY <1>0
  <2>3. k + 1 \in 1..k + 2 /\ k + 2 \in 1..k + 2
    BY <1>0
  <2> QED
    BY <1>5, <2>1, <2>2, <2>3
<1> QED
  BY <1>7, <1>9, <1>10, <1>11 DEF n, r, Inserts

(* A finished step is a step of the queue, and so is what repairs it; a      *)
(* repair leaves the steps before it in their places, and the others follow. *)
LEMMA Finished ==
  ASSUME ChainInv, QueueInv, NEW c \in Callers, NEW s, StepFinished(c, s)
  PROVE  /\ Logged(c, ResultStatus(s)) \in Seq(LogEntry)
         /\ RepairedQueue(c) \in Seq(Step)
         /\ Len(RepairedQueue(c)) = Len(queue[c]) + 2
         /\ \A i \in 1..index[c] : RepairedQueue(c)[i] = queue[c][i]
         /\ RepairedQueue(c)[index[c] + 1] = FixStep(c)
         /\ RepairedQueue(c)[index[c] + 2] = Now(c)
         /\ \A i \in index[c] + 1..Len(queue[c]) : RepairedQueue(c)[i + 2] = queue[c][i]
<1>1. /\ queue[c] \in Seq(Step) /\ log[c] \in Seq(LogEntry)
      /\ index[c] \in 1..Len(queue[c])
  <2>1. index[c] \in Nat /\ index[c] >= 1 /\ index[c] <= Len(queue[c])
    BY DEF ChainInv, Types, Locals, QueueInv, StepFinished
  <2> QED
    BY <2>1, LenProperties DEF QueueInv
<1>2. Now(c) \in Step
  BY <1>1, ElementOfSeq DEF Now
<1>3. ResultStatus(s) \in {"ok", "needs_approval", "cancelled", "failed"}
  BY DEF ResultStatus
<1>4. [step |-> Now(c), status |-> ResultStatus(s),
       superseded |-> NeedsFix(c, ResultStatus(s))] \in LogEntry
  <2>1. NeedsFix(c, ResultStatus(s)) \in BOOLEAN
    BY DEF NeedsFix
  <2> QED
    BY <1>2, <1>3, <2>1 DEF LogEntry
<1>5. Logged(c, ResultStatus(s)) \in Seq(LogEntry)
  BY <1>1, <1>4, AppendProperties DEF Logged
<1>6. Fixer(c) \in Workers
  <2>1. Now(c).fix_with \in Workers \cup {None}
    BY <1>2 DEF Step
  <2>2. \A i \in 1..index[c] : queue[c][i].worker \in Workers
    <3> TAKE i \in 1..index[c]
    <3>1. queue[c][i] \in Step
      BY <1>1, ElementOfSeq, LenProperties
    <3> QED
      BY <3>1 DEF Step
  <2>3. Writes(c) # {} => LastWrite(c) \in Workers
    <3> SUFFICES ASSUME Writes(c) # {} PROVE LastWrite(c) \in Workers
      OBVIOUS
    <3>1. \E i \in Writes(c) : \A j \in Writes(c) : j <= i
      <4>1. Writes(c) \in SUBSET (1..index[c]) /\ index[c] \in Nat
        BY <1>1, LenProperties DEF Writes
      <4> QED
        BY <4>1, LastPosition
    <3>2. PICK i \in Writes(c) : LastWrite(c) = queue[c][i].worker
      BY <3>1 DEF LastWrite
    <3> QED
      BY <2>2, <3>2 DEF Writes
  <2> QED
    BY <1>1, <2>1, <2>2, <2>3 DEF Fixer
<1>7. FixStep(c) \in Step
  BY <1>6 DEF FixStep, Step, StepKinds
<1>8. /\ RepairedQueue(c) \in Seq(Step) /\ Len(RepairedQueue(c)) = Len(queue[c]) + 2
      /\ \A i \in 1..index[c] : RepairedQueue(c)[i] = queue[c][i]
      /\ RepairedQueue(c)[index[c] + 1] = FixStep(c)
      /\ RepairedQueue(c)[index[c] + 2] = Now(c)
      /\ \A i \in index[c] + 1..Len(queue[c]) : RepairedQueue(c)[i + 2] = queue[c][i]
  <2> DEFINE q == queue[c]
             k == index[c]
             a == FixStep(c)
             b == Now(c)
             r == RepairedQueue(c)
  <2>1. r = Insert(q, k, a, b)
    BY DEF RepairedQueue, Insert
  <2>2. q \in Seq(Step) /\ k \in 1..Len(q) /\ a \in Step /\ b \in Step
    BY <1>1, <1>2, <1>7
  <2>3. Inserts(r, q, k, a, b)
    <3> HIDE DEF q, k, a, b, r
    <3> QED
      BY <2>1, <2>2, Inserted, Zenon
  <2> QED
    BY <2>3 DEF Inserts
<1> QED
  BY <1>5, <1>8

LEMMA QueueStep == ChainInv /\ QueueInv /\ [Next]_vars => QueueInv'
<1> SUFFICES ASSUME ChainInv, QueueInv, [Next]_vars PROVE QueueInv'
  OBVIOUS
<1> USE Bounds DEF chain
<1>1. ASSUME NEW c \in Callers, NEW k \in CallKinds, NEW q \in QueuesOf(k),
             Begin(c, k, q)
      PROVE QueueInv'
  <2>1. q \in Seq(Step) /\ Len(q) <= MaxSteps /\ Len(q) \in Nat
    BY Queues, LenProperties
  <2>2. index[c] = 0 /\ rounds[c] \in 0..MaxRounds /\ calls + 1 \in 1..MaxCalls
    BY <1>1 DEF Begin, ChainInv, Types, Locals, QueueInv
  <2>3. \A d \in Callers : Len(queue'[d]) <= MaxSteps + 2 * rounds'[d]
    BY <1>1, <2>1, <2>2 DEF Begin, QueueInv
  <2>4. \A d \in Callers : index'[d] <= Len(queue'[d])
    BY <1>1, <2>1, <2>2 DEF Begin, QueueInv
  <2> QED
    BY <1>1, <2>1, <2>2, <2>3, <2>4 DEF Begin, QueueInv
<1>2. ASSUME NEW c \in Callers, LookupTask(c) PROVE QueueInv'
  <2>1. \A d \in Callers : Len(queue[d]) \in Nat /\ index[d] \in Nat
    BY LenProperties DEF QueueInv, ChainInv, Types
  <2>2. \A d \in Callers : index'[d] <= Len(queue'[d])
    BY <1>2, <2>1 DEF LookupTask, HasNext, QueueInv, ChainInv, Types
  <2> QED
    BY <1>2, <2>2 DEF LookupTask, QueueInv
<1>3. ASSUME NEW c \in Callers, RunStarts(c) PROVE QueueInv'
  <2>1. id[c] \in 1..MaxCalls /\ name[c] \in Names
    BY <1>3 DEF RunStarts, QueueInv, ChainInv, Types
  <2> QED
    BY <1>3, <2>1 DEF RunStarts, QueueInv
<1>4. ASSUME NEW c \in Callers, NEW s, StepFinished(c, s) PROVE QueueInv'
  <2>1. log' \in [Callers -> Seq(LogEntry)]
    BY <1>4, Finished DEF StepFinished, QueueInv
  <2>2. CASE NeedsFix(c, ResultStatus(s))
    <3>1. /\ queue' = [queue EXCEPT ![c] = RepairedQueue(c)]
          /\ rounds' = [rounds EXCEPT ![c] = @ + 1]
          /\ rounds[c] < MaxRounds
      BY <1>4, <2>2 DEF StepFinished, NeedsFix
    <3>2. /\ RepairedQueue(c) \in Seq(Step)
          /\ Len(RepairedQueue(c)) = Len(queue[c]) + 2
      BY <1>4, Finished
    <3>3. Len(queue[c]) \in Nat /\ index[c] \in Nat /\ rounds[c] \in Nat
      BY LenProperties DEF QueueInv, ChainInv, Types
    <3>4. /\ queue' \in [Callers -> Seq(Step)]
          /\ rounds' \in [Callers -> 0..MaxRounds]
      <4>1. queue' \in [Callers -> Seq(Step)]
        BY <3>1, <3>2 DEF QueueInv
      <4>2. rounds[c] + 1 \in 0..MaxRounds
        BY <3>1, <3>3
      <4> QED
        BY <3>1, <4>1, <4>2 DEF QueueInv
    <3>5. \A d \in Callers : /\ index[d] <= Len(queue'[d])
                             /\ Len(queue'[d]) <= MaxSteps + 2 * rounds'[d]
      <4> TAKE d \in Callers
      <4>1. CASE d = c
        <5>1. queue'[c] = RepairedQueue(c) /\ rounds'[c] = rounds[c] + 1
          BY <3>1 DEF QueueInv
        <5> HIDE DEF RepairedQueue
        <5>2. Len(queue'[c]) = Len(queue[c]) + 2
          BY <3>2, <5>1
        <5>3. index[c] <= Len(queue[c]) /\ Len(queue[c]) <= MaxSteps + 2 * rounds[c]
          BY DEF QueueInv
        <5> QED
          BY <3>3, <4>1, <5>1, <5>2, <5>3
      <4>2. CASE d # c
        <5>1. queue'[d] = queue[d] /\ rounds'[d] = rounds[d]
          BY <3>1, <4>2 DEF QueueInv
        <5> QED
          BY <5>1 DEF QueueInv
      <4> QED
        BY <4>1, <4>2
    <3>6. UNCHANGED <<id, calls, ran, index>> /\ pc[c] # "idle"
          /\ \A d \in Callers \ {c} : pc'[d] = pc[d]
      BY <1>4 DEF StepFinished, ChainInv, Types
    <3>7. \A d \in Callers : pc'[d] # "idle" => id'[d] # 0
      BY <3>6 DEF QueueInv
    <3>8. \A d \in Callers : index'[d] = index[d]
      BY <3>6
    <3> QED
      BY <2>1, <3>4, <3>5, <3>6, <3>7, <3>8 DEF QueueInv
  <2>3. CASE ~NeedsFix(c, ResultStatus(s))
    <3>1. /\ UNCHANGED <<queue, rounds, id, calls, ran, index>>
          /\ pc[c] # "idle"
          /\ \A d \in Callers \ {c} : pc'[d] = pc[d]
      BY <1>4, <2>3 DEF StepFinished, ChainInv, Types
    <3>2. \A d \in Callers : /\ index'[d] <= Len(queue'[d])
                             /\ Len(queue'[d]) <= MaxSteps + 2 * rounds'[d]
                             /\ pc'[d] # "idle" => id'[d] # 0
      <4>1. \A d \in Callers : /\ index'[d] = index[d] /\ queue'[d] = queue[d]
                               /\ rounds'[d] = rounds[d] /\ id'[d] = id[d]
        BY <3>1
      <4> QED
        BY <3>1, <4>1 DEF QueueInv
    <3> QED
      BY <2>1, <3>1, <3>2 DEF QueueInv
  <2> QED
    BY <2>2, <2>3
<1>5. ASSUME NEW c \in Callers, End(c) PROVE QueueInv'
  <2>1. <<>> \in Seq(Step) /\ Len(<<>>) = 0 /\ <<>> \in Seq(LogEntry)
    OBVIOUS
  <2>2. \A d \in Callers : /\ index'[d] <= Len(queue'[d])
                           /\ Len(queue'[d]) <= MaxSteps + 2 * rounds'[d]
    BY <1>5, <2>1 DEF End, QueueInv, ChainInv, Types
  <2>3. /\ queue' \in [Callers -> Seq(Step)] /\ log' \in [Callers -> Seq(LogEntry)]
        /\ rounds' \in [Callers -> 0..MaxRounds] /\ id' \in [Callers -> 0..MaxCalls]
    BY <1>5, <2>1 DEF End, QueueInv
  <2>4. \A d \in Callers : pc'[d] # "idle" => id'[d] # 0
    BY <1>5 DEF End, QueueInv, ChainInv, Types
  <2>5. UNCHANGED <<calls, ran>>
    BY <1>5 DEF End
  <2> QED
    BY <2>2, <2>3, <2>4, <2>5 DEF QueueInv
<1>10. ASSUME UNCHANGED <<queue, log, rounds, id, calls, ran, index>>,
              \A d \in Callers : pc'[d] # "idle" => pc[d] # "idle"
       PROVE QueueInv'
  <2>1. \A d \in Callers : /\ index'[d] = index[d] /\ queue'[d] = queue[d]
                           /\ rounds'[d] = rounds[d] /\ id'[d] = id[d]
    BY <1>10
  <2>2. \A d \in Callers : /\ index'[d] <= Len(queue'[d])
                           /\ Len(queue'[d]) <= MaxSteps + 2 * rounds'[d]
                           /\ pc'[d] # "idle" => id'[d] # 0
    BY <1>10, <2>1 DEF QueueInv
  <2> QED
    BY <1>10, <2>2 DEF QueueInv
<1>6. ASSUME NEW c \in Callers,
             \/ ChainStarts(c) \/ ChainJoins(c) \/ CreateTask(c)
             \/ CreateLosesRace(c) \/ AssignTask(c)
      PROVE QueueInv'
  <2>1. pc[c] # "idle" /\ \A d \in Callers \ {c} : pc'[d] = pc[d]
    BY <1>6 DEF ChainStarts, ChainJoins, CreateTask, CreateLosesRace,
       AssignTask, ChainInv, Types
  <2>2. UNCHANGED <<queue, log, rounds, id, calls, ran, index>>
    BY <1>6 DEF ChainStarts, ChainJoins, CreateTask, CreateLosesRace, AssignTask
  <2> QED
    BY <1>10, <2>1, <2>2
<1>7. ASSUME NEW n \in Names, Recover(n) PROVE QueueInv'
  BY <1>7, <1>10 DEF Recover
<1>8. CASE UNCHANGED vars
  BY <1>8, <1>10 DEF vars
<1>9. ASSUME NEW c \in Callers, Proceed(c) PROVE QueueInv'
  BY <1>9, <1>2, <1>3, <1>4, <1>5, <1>6 DEF Proceed, ChainRefused,
     AssignRefused, RunRefused, RunReturns, RunRaises, ChainReturns,
     VerifyMoves, VerifyRefused
<1> QED
  BY <1>1, <1>5, <1>7, <1>8, <1>9 DEF Next, Dies

(* The child a call asks for next is one of the keys its rounds allow.       *)
ChildrenSuffice ==
  \A c \in Callers :
    pc[c] = "lookup" /\ (IsChain(c) => HasNext(c)) => NextName(c) \in Names

(* For any number of callers, calls, plans and repair rounds: every variable *)
(* has its type, and the fix loop never outgrows its MaxSteps + 2 * MaxRounds*)
(* children, so the guard of LookupTask on Names stops no chain.             *)
THEOREM ChainTyped == Spec => [](TypeOK /\ ChildrenSuffice)
<1>1. ChainInv /\ QueueInv => TypeOK
  BY DEF ChainInv, Types, QueueInv, TypeOK
<1>2. ChainInv /\ QueueInv => ChildrenSuffice
  <2> SUFFICES ASSUME ChainInv, QueueInv, NEW c \in Callers,
                      pc[c] = "lookup", IsChain(c) => HasNext(c)
               PROVE  NextName(c) \in Names
    BY DEF ChildrenSuffice
  <2>1. CASE ~IsChain(c)
    BY <2>1 DEF NextName, Names
  <2>2. CASE IsChain(c)
    <3>1. /\ index[c] \in Nat /\ Len(queue[c]) \in Nat
          /\ rounds[c] \in 0..MaxRounds
          /\ Len(queue[c]) <= MaxSteps + 2 * rounds[c]
          /\ index[c] < Len(queue[c])
      BY <2>2, LenProperties DEF ChainInv, Types, QueueInv, HasNext
    <3>2. index[c] \in Children
      BY <3>1, Bounds DEF Children
    <3> QED
      BY <2>2, <3>2 DEF NextName, Names
  <2> QED
    BY <2>1, <2>2
<1> QED
  BY <1>1, <1>2, ChainAlways, QueueInit, QueueStep, PTL DEF Spec

----------------------------------------------------------------------------
(* What the use-cases report: for any number of callers, plans and repair    *)
(* rounds, a task becomes VERIFIED by the evidence of the call that moved    *)
(* it, and an ok chain re-verified what it repaired.                         *)
(*                                                                           *)
(* The argument: the log of a call is its queue, cut at the last finished    *)
(* step, and a superseded entry has its repair and its repetition in the two *)
(* places behind it. A later repair is inserted behind both: only a test is  *)
(* repaired, and the place after a superseded test is a write. And a version *)
(* of the parent's run stands for one run, so a call whose move is accepted  *)
(* still holds the current one.                                              *)


(* A call works from a copy of the parent's run, which was the run at its    *)
(* version.                                                                  *)
Holding == \A c \in Callers : pc[c] # "idle" => held[c] # None

HeldIsOld ==
  \A c \in Callers : held[c] # None =>
    /\ held[c].version <= runs[Parent].version
    /\ held[c].version = runs[Parent].version => held[c] = runs[Parent]

(* A step of the store leaves the parent's run or gives it a new version.    *)
Advances ==
  runs'[Parent] # runs[Parent] =>
    runs'[Parent].version = runs[Parent].version + 1

(* How much of the queue a call has logged.                                  *)
Progress(c) ==
  /\ pc[c] = "idle" => log[c] = <<>>
  /\ ~IsChain(c) => log[c] = <<>>
  /\ IsChain(c) /\ pc[c] \in {"start", "lookup"} => Len(log[c]) = index[c]
  /\ IsChain(c) /\ pc[c] \in {"create", "assign", "run", "loop"}
       => Len(log[c]) = index[c] - 1

(* A log l follows a queue q.                                                *)
Follows(l, q) ==
  /\ Len(l) <= Len(q)
  /\ \A i \in 1..Len(l) :
       /\ l[i].step = q[i]
       /\ l[i].superseded =>
            i + 2 <= Len(q) /\ q[i + 1].kind = "write" /\ q[i + 2] = q[i]

(* The queue of a verify_task ends with a step that verifies.                *)
EndsVerifying(q) == Len(q) >= 1 /\ q[Len(q)].kind \in {"test", "review"}

EvidenceInv ==
  \A c \in Callers :
    /\ Progress(c)
    /\ Follows(log[c], queue[c])
    /\ kind[c] = "verify_task" => EndsVerifying(queue[c])

LEMMA EvidenceInit == Init => Holding /\ HeldIsOld /\ EvidenceInv
<1> SUFFICES ASSUME Init PROVE Holding /\ HeldIsOld /\ EvidenceInv
  OBVIOUS
<1>1. Holding /\ HeldIsOld
  BY DEF Init, Holding, HeldIsOld
<1>2. \A c \in Callers : /\ log[c] = <<>> /\ queue[c] = <<>> /\ index[c] = 0
                         /\ pc[c] = "idle" /\ kind[c] = None
  BY DEF Init
<1>3. \A c \in Callers : ~IsChain(c) /\ kind[c] # "verify_task"
  BY <1>2, TaskChainAssumption DEF IsChain
<1>4. EvidenceInv
  BY <1>2, <1>3 DEF EvidenceInv, Progress, Follows
<1> QED
  BY <1>1, <1>4

LEMMA RunsAdvance == ChainInv /\ [Next]_vars => Advances
<1> SUFFICES ASSUME ChainInv, [Next]_vars PROVE Advances
  OBVIOUS
<1> USE NameKinds DEF Advances
<1>0. /\ runs \in [Names -> RunState \cup {None}] /\ runs[Parent] # None
      /\ \A c \in Callers : name[c] \in Names
  BY DEF ChainInv, Types, Locals
<1>1. ASSUME NEW c \in Callers, ChainStarts(c) PROVE Advances
  BY <1>0, <1>1 DEF ChainStarts, Movable, Moved
<1>2. ASSUME NEW c \in Callers, CreateTask(c) PROVE Advances
  BY <1>0, <1>2 DEF CreateTask
<1>3. ASSUME NEW c \in Callers, AssignTask(c) \/ RunStarts(c) PROVE Advances
  <2>1. CASE name[c] # Parent
    BY <1>0, <1>3, <2>1 DEF AssignTask, RunStarts
  <2>2. CASE name[c] = Parent
    BY <1>0, <1>3, <2>2 DEF AssignTask, RunStarts, Movable, Moved
  <2> QED
    BY <2>1, <2>2
<1>4. ASSUME NEW c \in Callers, VerifyMoves(c) PROVE Advances
  BY <1>0, <1>4 DEF VerifyMoves, Movable, Moved
<1>5. ASSUME NEW n \in Names, Recover(n) PROVE Advances
  <2>1. CASE n # Parent
    BY <1>0, <1>5, <2>1 DEF Recover
  <2>2. CASE n = Parent
    BY <1>0, <1>5, <2>2 DEF Recover, Moved
  <2> QED
    BY <2>1, <2>2
<1>6. CASE UNCHANGED runs
  BY <1>6
<1>7. ASSUME NEW c \in Callers, Proceed(c) PROVE Advances
  BY <1>1, <1>2, <1>3, <1>4, <1>6, <1>7 DEF Proceed, ChainJoins, ChainRefused,
     LookupTask, CreateLosesRace, AssignRefused, RunRefused, RunReturns,
     RunRaises, StepFinished, ChainReturns, VerifyRefused
<1> QED
  BY <1>5, <1>6, <1>7 DEF Next, Begin, Dies, vars

LEMMA HeldStep == ChainInv /\ ChainInv' /\ HeldIsOld /\ [Next]_vars => HeldIsOld'
<1> SUFFICES ASSUME ChainInv, ChainInv', HeldIsOld, [Next]_vars,
                    NEW c \in Callers, held'[c] # None
             PROVE  /\ held'[c].version <= runs'[Parent].version
                    /\ held'[c].version = runs'[Parent].version
                         => held'[c] = runs'[Parent]
  BY DEF HeldIsOld
<1>1. /\ runs[Parent] \in RunState /\ runs'[Parent] \in RunState
      /\ \A d \in Callers : held[d] \in RunState \cup {None}
      /\ held \in [Callers -> RunState \cup {None}]
      /\ runs \in [Names -> RunState \cup {None}] /\ Parent \in Names
  BY NameKinds DEF ChainInv, Types, Locals
<1>2. CASE held'[c] = held[c]
  <2>1. /\ held[c].version \in Nat /\ runs[Parent].version \in Nat
    BY <1>1, <1>2 DEF RunState
  <2>2. /\ held[c].version <= runs[Parent].version
        /\ held[c].version = runs[Parent].version => held[c] = runs[Parent]
    BY <1>2 DEF HeldIsOld
  <2>3. \/ runs'[Parent] = runs[Parent]
        \/ runs'[Parent].version = runs[Parent].version + 1
    BY RunsAdvance DEF Advances
  <2> QED
    BY <1>2, <2>1, <2>2, <2>3
<1>3. CASE held'[c] = runs'[Parent]
  BY <1>1, <1>3 DEF RunState
<1>4. \/ held'[c] = held[c] \/ held'[c] = runs'[Parent] \/ held'[c] = None
  <2>1. ASSUME NEW d \in Callers, ChainStarts(d)
        PROVE  held'[c] = held[c] \/ held'[c] = runs'[Parent]
    BY <1>1, <2>1 DEF ChainStarts
  <2>2. ASSUME NEW d \in Callers, NEW k \in CallKinds, NEW q \in QueuesOf(k),
               Begin(d, k, q)
        PROVE  held'[c] = held[c] \/ held'[c] = runs'[Parent]
    BY <1>1, <2>2 DEF Begin
  <2>3. ASSUME NEW d \in Callers, End(d)
        PROVE  held'[c] = held[c] \/ held'[c] = None
    BY <1>1, <2>3 DEF End
  <2>4. ASSUME NEW d \in Callers, Proceed(d)
        PROVE  held'[c] = held[c] \/ held'[c] = runs'[Parent] \/ held'[c] = None
    BY <2>1, <2>3, <2>4 DEF Proceed, ChainJoins, ChainRefused, LookupTask,
       CreateTask, CreateLosesRace, AssignTask, AssignRefused, RunStarts,
       RunRefused, RunReturns, RunRaises, StepFinished, ChainReturns,
       VerifyMoves, VerifyRefused
  <2>5. CASE UNCHANGED held
    BY <2>5
  <2> QED
    BY <2>2, <2>3, <2>4, <2>5 DEF Next, Dies, Recover, vars
<1> QED
  BY <1>2, <1>3, <1>4

LEMMA HoldingStep == ChainInv /\ ChainInv' /\ Holding /\ [Next]_vars => Holding'
<1> SUFFICES ASSUME ChainInv, ChainInv', Holding, [Next]_vars PROVE Holding'
  OBVIOUS
<1>0. /\ None \notin RunState /\ runs[Parent] # None
      /\ runs \in [Names -> RunState \cup {None}] /\ Parent \in Names
      /\ runs' \in [Names -> RunState \cup {None}] /\ runs'[Parent] # None
      /\ held \in [Callers -> RunState \cup {None}]
      /\ \A d \in Callers : pc[d] \in {"idle", "start", "lookup", "create",
                                       "assign", "run", "loop"}
      /\ DOMAIN pc = Callers
  BY NameKinds, TaskChainAssumption DEF ChainInv, Types, Locals, RunState
<1>1. ASSUME NEW c \in Callers, NEW k \in CallKinds, NEW q \in QueuesOf(k),
             Begin(c, k, q)
      PROVE  Holding'
  BY <1>0, <1>1 DEF Begin, Holding
<1>2. ASSUME NEW c \in Callers, ChainStarts(c) PROVE Holding'
  <2>1. held'[c] = runs'[Parent] /\ \A d \in Callers \ {c} : held'[d] = held[d]
    BY <1>0, <1>2 DEF ChainStarts
  <2>2. \A d \in Callers \ {c} : pc'[d] = pc[d]
    BY <1>0, <1>2 DEF ChainStarts
  <2> QED
    BY <1>0, <2>1, <2>2 DEF Holding
<1>3. ASSUME NEW c \in Callers, End(c) PROVE Holding'
  BY <1>0, <1>3 DEF End, Holding
<1>4. ASSUME UNCHANGED held, \A d \in Callers : pc'[d] # "idle" => pc[d] # "idle"
      PROVE  Holding'
  BY <1>4 DEF Holding
<1>5. ASSUME NEW c \in Callers,
             \/ ChainJoins(c) \/ LookupTask(c) \/ CreateTask(c)
             \/ CreateLosesRace(c) \/ AssignTask(c) \/ RunStarts(c)
             \/ \E s : StepFinished(c, s)
      PROVE Holding'
  <2>1. UNCHANGED held
    BY <1>5 DEF ChainJoins, LookupTask, CreateTask, CreateLosesRace, AssignTask,
       RunStarts, StepFinished
  <2>2. pc[c] # "idle" /\ \A d \in Callers \ {c} : pc'[d] = pc[d]
    BY <1>0, <1>5 DEF ChainJoins, LookupTask, CreateTask, CreateLosesRace,
       AssignTask, RunStarts, StepFinished
  <2> QED
    BY <1>4, <2>1, <2>2
<1>6. ASSUME NEW c \in Callers, Proceed(c) PROVE Holding'
  BY <1>2, <1>3, <1>5, <1>6 DEF Proceed, ChainRefused, AssignRefused,
     RunRefused, RunReturns, RunRaises, ChainReturns, VerifyMoves, VerifyRefused
<1>7. CASE UNCHANGED <<held, pc>>
  BY <1>4, <1>7
<1> QED
  BY <1>1, <1>3, <1>6, <1>7 DEF Next, Dies, Recover, vars

(* A log keeps following its queue when a step is logged ...                 *)
LEMMA FollowsLogged ==
  ASSUME NEW l \in Seq(LogEntry), NEW q \in Seq(Step), Follows(l, q),
         Len(l) + 1 <= Len(q), NEW e \in LogEntry,
         e.step = q[Len(l) + 1], ~e.superseded
  PROVE  Follows(Append(l, e), q)
<1>1. /\ Len(l) \in Nat /\ Len(q) \in Nat /\ Len(Append(l, e)) = Len(l) + 1
      /\ \A i \in 1..Len(l) : Append(l, e)[i] = l[i]
      /\ Append(l, e)[Len(l) + 1] = e
  BY LenProperties, AppendProperties
<1> DEFINE m == Append(l, e)
<1> HIDE DEF m
<1>2. /\ Len(m) = Len(l) + 1 /\ m[Len(l) + 1] = e
      /\ \A i \in 1..Len(l) : m[i] = l[i]
  BY <1>1 DEF m
<1>3. Follows(m, q)
  <2>1. ASSUME NEW i \in 1..Len(m)
        PROVE  /\ m[i].step = q[i]
               /\ m[i].superseded =>
                    i + 2 <= Len(q) /\ q[i + 1].kind = "write" /\ q[i + 2] = q[i]
    <3>1. CASE i \in 1..Len(l)
      BY <1>2, <3>1 DEF Follows
    <3>2. CASE i = Len(l) + 1
      BY <1>2, <3>2
    <3> QED
      BY <1>1, <1>2, <3>1, <3>2
  <2> QED
    BY <1>1, <1>2, <2>1 DEF Follows
<1> QED
  BY <1>3 DEF m

(* ... and when a test is logged as superseded, with its repair and its      *)
(* repetition inserted behind it.                                            *)
LEMMA FollowsRepaired ==
  ASSUME NEW l \in Seq(LogEntry), NEW q \in Seq(Step), Follows(l, q),
         Len(l) + 1 <= Len(q), NEW e \in LogEntry,
         e.step = q[Len(l) + 1], e.step.kind = "test",
         NEW a \in Step, a.kind = "write",
         NEW r, Inserts(r, q, Len(l) + 1, a, q[Len(l) + 1])
  PROVE  Follows(Append(l, e), r)
<1>1. /\ Len(l) \in Nat /\ Len(q) \in Nat /\ Len(Append(l, e)) = Len(l) + 1
      /\ \A i \in 1..Len(l) : Append(l, e)[i] = l[i]
      /\ Append(l, e)[Len(l) + 1] = e
  BY LenProperties, AppendProperties
<1> DEFINE m == Append(l, e)
           k == Len(l) + 1
<1>2. /\ Len(m) = k /\ m[k] = e /\ k \in Nat /\ k >= 1 /\ Len(l) = k - 1
      /\ \A i \in 1..k - 1 : m[i] = l[i]
  BY <1>1
<1>3. /\ e.step = q[k] /\ q[k].kind = "test" /\ k <= Len(q)
  OBVIOUS
<1>4. /\ Len(r) = Len(q) + 2 /\ \A i \in 1..k : r[i] = q[i]
      /\ r[k + 1] = a /\ r[k + 2] = q[k]
  BY DEF Inserts
<1> HIDE DEF m, k
<1>5. Follows(m, r)
  <2>1. ASSUME NEW i \in 1..k - 1
        PROVE  /\ m[i].step = r[i]
               /\ m[i].superseded =>
                    i + 2 <= Len(r) /\ r[i + 1].kind = "write" /\ r[i + 2] = r[i]
    <3>1. /\ l[i].step = q[i]
          /\ l[i].superseded =>
               i + 2 <= Len(q) /\ q[i + 1].kind = "write" /\ q[i + 2] = q[i]
      BY <1>2 DEF Follows
    <3>2. m[i] = l[i] /\ i \in 1..k /\ r[i] = q[i]
      BY <1>2, <1>4
    <3>3. ASSUME l[i].superseded
          PROVE  i + 2 <= Len(r) /\ r[i + 1].kind = "write" /\ r[i + 2] = r[i]
      <4>1. i + 1 # k
        BY <1>3, <3>1, <3>3
      <4>2. i + 1 \in 1..k /\ i + 2 \in 1..k
        BY <1>2, <4>1
      <4>3. r[i + 1] = q[i + 1] /\ r[i + 2] = q[i + 2]
        BY <1>4, <4>2
      <4>4. i + 2 <= Len(r)
        BY <1>1, <1>4, <3>1, <3>3
      <4> QED
        BY <3>1, <3>2, <3>3, <4>3, <4>4
    <3> QED
      BY <3>1, <3>2, <3>3
  <2>2. /\ m[k].step = r[k]
        /\ k + 2 <= Len(r) /\ r[k + 1].kind = "write" /\ r[k + 2] = r[k]
    BY <1>1, <1>2, <1>3, <1>4
  <2>3. ASSUME NEW i \in 1..Len(m) PROVE i \in 1..k - 1 \/ i = k
    BY <1>2
  <2>4. Len(m) <= Len(r)
    BY <1>1, <1>2, <1>3, <1>4
  <2> QED
    BY <2>1, <2>2, <2>3, <2>4, Zenon DEF Follows
<1> QED
  BY <1>5 DEF m

(* The entry a finished step adds to the log.                                *)
Entry(c, s) ==
  [step |-> Now(c), status |-> ResultStatus(s),
   superseded |-> NeedsFix(c, ResultStatus(s))]

LEMMA Finishing ==
  ASSUME ChainInv, QueueInv, EvidenceInv, NEW c \in Callers, NEW s,
         StepFinished(c, s)
  PROVE  /\ Follows(log'[c], queue'[c])
         /\ Len(log'[c]) = index[c]
         /\ EndsVerifying(queue[c]) => EndsVerifying(queue'[c])
<1> DEFINE l == log[c]
           q == queue[c]
           k == index[c]
           e == Entry(c, s)
           r == RepairedQueue(c)
<1>1. /\ l \in Seq(LogEntry) /\ q \in Seq(Step) /\ Follows(l, q)
      /\ log \in [Callers -> Seq(LogEntry)] /\ queue \in [Callers -> Seq(Step)]
  BY DEF QueueInv, EvidenceInv
<1>2. /\ IsChain(c) /\ pc[c] = "loop" /\ k \in Nat /\ k >= 1 /\ k <= Len(q)
      /\ Len(l) = k - 1 /\ Len(l) \in Nat /\ Len(q) \in Nat /\ Len(l) + 1 = k
  <2>1. IsChain(c) /\ pc[c] = "loop"
    BY DEF StepFinished
  <2>2. k \in Nat /\ k >= 1 /\ k <= Len(q)
    BY <2>1 DEF ChainInv, Types, Locals, QueueInv
  <2>3. Len(l) = k - 1
    BY <2>1 DEF EvidenceInv, Progress
  <2>4. Len(l) \in Nat /\ Len(q) \in Nat
    BY <1>1, LenProperties
  <2> QED
    BY <2>1, <2>2, <2>3, <2>4
<1>3. e \in LogEntry /\ e.step = q[k] /\ q[k] \in Step
  <2>1. q[k] \in Step
    BY <1>1, <1>2, ElementOfSeq
  <2>2. ResultStatus(s) \in {"ok", "needs_approval", "cancelled", "failed"}
    BY DEF ResultStatus
  <2>3. NeedsFix(c, ResultStatus(s)) \in BOOLEAN
    BY DEF NeedsFix
  <2> QED
    BY <2>1, <2>2, <2>3 DEF Entry, LogEntry, Now
<1>4. log'[c] = Append(l, e)
  BY <1>1 DEF StepFinished, Logged, Entry
<1>5. Len(log'[c]) = k
  BY <1>1, <1>2, <1>3, <1>4, AppendProperties
<1>6. CASE NeedsFix(c, ResultStatus(s))
  <2>1. queue'[c] = r
    BY <1>1, <1>6 DEF StepFinished
  <2>2. Inserts(r, q, k, FixStep(c), q[k])
    BY Finished DEF Inserts, Now
  <2>3. q[k].kind = "test" /\ FixStep(c).kind = "write" /\ FixStep(c) \in Step
    <3>1. FixStep(c) \in Step
      <4>1. r \in Seq(Step) /\ r[k + 1] = FixStep(c) /\ Len(r) = Len(q) + 2
        BY <2>2 DEF Inserts
      <4>2. k + 1 \in 1..Len(r)
        BY <1>2, <4>1
      <4> HIDE DEF r
      <4> QED
        BY <4>1, <4>2, ElementOfSeq
    <3> QED
      BY <1>6, <3>1 DEF NeedsFix, Now, FixStep
  <2>4. Follows(Append(l, e), r)
    <3> DEFINE a == FixStep(c)
    <3>1. a \in Step /\ a.kind = "write" /\ Inserts(r, q, k, a, q[k])
      BY <2>2, <2>3
    <3>2. e.step = q[Len(l) + 1] /\ e.step.kind = "test" /\ Len(l) + 1 <= Len(q)
      BY <1>2, <1>3, <2>3
    <3>3. Inserts(r, q, Len(l) + 1, a, q[Len(l) + 1])
      BY <1>2, <3>1
    <3> HIDE DEF l, q, k, e, r, a
    <3> QED
      BY <1>1, <1>3, <3>1, <3>2, <3>3, FollowsRepaired
  <2>5. EndsVerifying(q) => EndsVerifying(r)
    <3>1. /\ Len(r) = Len(q) + 2 /\ r[k + 2] = q[k]
          /\ \A i \in k + 1..Len(q) : r[i + 2] = q[i]
      BY <2>2 DEF Inserts
    <3> HIDE DEF l, q, k, e, r
    <3>2. CASE k = Len(q)
      BY <1>2, <2>3, <3>1, <3>2 DEF EndsVerifying
    <3>3. CASE k < Len(q)
      <4>1. Len(q) \in k + 1..Len(q)
        BY <1>2, <3>3
      <4>2. r[Len(q) + 2] = q[Len(q)]
        BY <3>1, <4>1
      <4> QED
        BY <1>2, <3>1, <4>2 DEF EndsVerifying
    <3> QED
      BY <1>2, <3>2, <3>3
  <2> QED
    BY <1>4, <1>5, <2>1, <2>4, <2>5
<1>7. CASE ~NeedsFix(c, ResultStatus(s))
  <2>1. queue'[c] = q
    BY <1>7 DEF StepFinished
  <2>2. ~e.superseded
    BY <1>7 DEF Entry
  <2>3. e.step = q[Len(l) + 1] /\ Len(l) + 1 <= Len(q)
    BY <1>2, <1>3
  <2>4. Follows(Append(l, e), q)
    <3> HIDE DEF l, q, k, e, r
    <3> QED
      BY <1>1, <1>3, <2>2, <2>3, FollowsLogged
  <2> QED
    BY <1>4, <1>5, <2>1, <2>4
<1> QED
  BY <1>6, <1>7

LEMMA EvidenceStep ==
  ChainInv /\ QueueInv /\ EvidenceInv /\ [Next]_vars => EvidenceInv'
<1> SUFFICES ASSUME ChainInv, QueueInv, EvidenceInv, [Next]_vars
             PROVE  EvidenceInv'
  OBVIOUS
<1> DEFINE Local(d) == <<pc[d], kind[d], index[d], queue[d], log[d]>>
           Good(d) == /\ Progress(d)
                      /\ Follows(log[d], queue[d])
                      /\ kind[d] = "verify_task" => EndsVerifying(queue[d])
<1>0. /\ pc \in [Callers -> {"idle", "start", "lookup", "create", "assign",
                             "run", "loop"}]
      /\ kind \in [Callers -> CallKinds \cup {None}]
      /\ index \in [Callers -> Nat]
      /\ queue \in [Callers -> Seq(Step)]
      /\ log \in [Callers -> Seq(LogEntry)]
      /\ \A d \in Callers : pc[d] = "idle" \/ pc[d] = "start" => index[d] = 0
  BY DEF ChainInv, Types, Locals, QueueInv
<1>1. ASSUME NEW d \in Callers, Local(d)' = Local(d) PROVE Good(d)'
  <2>1. Good(d)
    BY DEF EvidenceInv
  <2>2. /\ pc'[d] = pc[d] /\ kind'[d] = kind[d] /\ index'[d] = index[d]
        /\ queue'[d] = queue[d] /\ log'[d] = log[d]
    BY <1>1
  <2> QED
    BY <2>1, <2>2 DEF Progress, IsChain
<1>2. ASSUME NEW c \in Callers, \A d \in Callers \ {c} : Local(d)' = Local(d),
             Good(c)'
      PROVE  EvidenceInv'
  BY <1>1, <1>2 DEF EvidenceInv
<1>3. CASE \A d \in Callers : Local(d)' = Local(d)
  BY <1>1, <1>3 DEF EvidenceInv
<1>4. ASSUME NEW c \in Callers, NEW k \in CallKinds, NEW q \in QueuesOf(k),
             Begin(c, k, q)
      PROVE  EvidenceInv'
  <2>1. \A d \in Callers \ {c} : Local(d)' = Local(d)
    BY <1>0, <1>4 DEF Begin
  <2>2. /\ pc'[c] = IF k = "call_worker" THEN "lookup" ELSE "start"
        /\ kind'[c] = k /\ index'[c] = 0 /\ queue'[c] = q /\ log'[c] = log[c]
    BY <1>0, <1>4 DEF Begin
  <2>3. log[c] = <<>>
    BY <1>4 DEF Begin, EvidenceInv, Progress
  <2>4. Progress(c)'
    BY <2>2, <2>3 DEF Progress, IsChain
  <2>5. Follows(log'[c], queue'[c])
    <3>1. Len(q) \in Nat
      BY Queues, LenProperties
    <3>2. Len(<<>>) = 0 /\ 1..0 = {}
      OBVIOUS
    <3> QED
      BY <2>2, <2>3, <3>1, <3>2 DEF Follows
  <2>6. k = "verify_task" => EndsVerifying(q)
    <3>1. ASSUME k = "verify_task"
          PROVE q = <<VerifyStep("test")>> \/ q = <<VerifyStep("review")>>
      BY <3>1 DEF QueuesOf
    <3> QED
      BY <3>1 DEF EndsVerifying, VerifyStep
  <2> QED
    BY <1>2, <2>1, <2>2, <2>4, <2>5, <2>6
<1>5. ASSUME NEW c \in Callers, End(c) PROVE EvidenceInv'
  <2>1. \A d \in Callers \ {c} : Local(d)' = Local(d)
    BY <1>0, <1>5 DEF End
  <2>2. /\ pc'[c] = "idle" /\ kind'[c] = None /\ queue'[c] = <<>>
        /\ log'[c] = <<>>
    BY <1>0, <1>5 DEF End
  <2>3. kind'[c] \notin {"run_chain", "verify_task"}
    BY <2>2, TaskChainAssumption
  <2>4. Good(c)'
    BY <2>2, <2>3 DEF Progress, IsChain, Follows
  <2> QED
    BY <1>2, <2>1, <2>4
<1>6. ASSUME NEW c \in Callers, LookupTask(c) PROVE EvidenceInv'
  <2>1. \A d \in Callers \ {c} : Local(d)' = Local(d)
    BY <1>0, <1>6 DEF LookupTask
  <2>2. /\ pc[c] = "lookup" /\ pc'[c] \in {"create", "assign"}
        /\ kind'[c] = kind[c] /\ queue'[c] = queue[c] /\ log'[c] = log[c]
        /\ index'[c] = IF IsChain(c) THEN index[c] + 1 ELSE index[c]
    BY <1>0, <1>6 DEF LookupTask
  <2>3. Good(c)
    BY DEF EvidenceInv
  <2>4. Progress(c)'
    BY <1>0, <2>2, <2>3 DEF Progress, IsChain
  <2> QED
    BY <1>2, <2>1, <2>2, <2>3, <2>4
<1>7. ASSUME NEW c \in Callers,
             \/ ChainStarts(c) \/ ChainJoins(c) \/ CreateTask(c)
             \/ CreateLosesRace(c) \/ AssignTask(c) \/ RunStarts(c)
      PROVE EvidenceInv'
  <2>1. UNCHANGED <<kind, index, queue, log>>
    BY <1>7 DEF ChainStarts, ChainJoins, CreateTask, CreateLosesRace,
       AssignTask, RunStarts, chain
  <2>2. \A d \in Callers \ {c} : pc'[d] = pc[d]
    BY <1>0, <1>7 DEF ChainStarts, ChainJoins, CreateTask, CreateLosesRace,
       AssignTask, RunStarts
  <2>3. \A d \in Callers \ {c} : Local(d)' = Local(d)
    BY <2>1, <2>2
  <2>4. \/ pc[c] = "start" /\ pc'[c] = "lookup"
        \/ pc[c] = "start" /\ pc'[c] = "loop" /\ ~IsChain(c)
        \/ pc[c] \in {"create", "assign", "run"} /\ pc'[c] \in {"assign", "run", "loop"}
    BY <1>0, <1>7, TaskChainAssumption DEF ChainStarts, ChainJoins, CreateTask,
       CreateLosesRace, AssignTask, RunStarts, IsChain
  <2>5. Good(c)
    BY DEF EvidenceInv
  <2>6. Progress(c)'
    BY <2>1, <2>4, <2>5 DEF Progress, IsChain
  <2>7. Good(c)'
    BY <2>1, <2>5, <2>6
  <2> QED
    BY <1>2, <2>3, <2>7
<1>8. ASSUME NEW c \in Callers, NEW s, StepFinished(c, s) PROVE EvidenceInv'
  <2>1. \A d \in Callers \ {c} : Local(d)' = Local(d)
    <3>1. UNCHANGED <<kind, index>> /\ \A d \in Callers \ {c} : pc'[d] = pc[d]
      BY <1>0, <1>8 DEF StepFinished
    <3>2. \A d \in Callers \ {c} : log'[d] = log[d] /\ queue'[d] = queue[d]
      BY <1>0, <1>8 DEF StepFinished
    <3> QED
      BY <3>1, <3>2
  <2>2. pc'[c] = "lookup" /\ kind'[c] = kind[c] /\ index'[c] = index[c] /\ IsChain(c)
    BY <1>0, <1>8 DEF StepFinished
  <2>3. /\ Follows(log'[c], queue'[c])
        /\ Len(log'[c]) = index[c]
        /\ EndsVerifying(queue[c]) => EndsVerifying(queue'[c])
    BY <1>8, Finishing
  <2>4. kind[c] = "verify_task" => EndsVerifying(queue[c])
    BY DEF EvidenceInv
  <2>5. Progress(c)'
    BY <2>2, <2>3 DEF Progress, IsChain
  <2>6. Good(c)'
    BY <2>2, <2>3, <2>4, <2>5
  <2> QED
    BY <1>2, <2>1, <2>6
<1>9. CASE UNCHANGED <<pc, kind, index, queue, log>>
  BY <1>3, <1>9
<1>10. ASSUME NEW c \in Callers, Proceed(c) PROVE EvidenceInv'
  BY <1>10, <1>5, <1>6, <1>7, <1>8 DEF Proceed, ChainRefused, AssignRefused,
     RunRefused, RunReturns, RunRaises, ChainReturns, VerifyMoves, VerifyRefused
<1> QED
  BY <1>4, <1>5, <1>9, <1>10 DEF Next, Dies, Recover, vars, chain

LEMMA EvidenceAlways ==
  Spec => [](ChainInv /\ QueueInv /\ Holding /\ HeldIsOld /\ EvidenceInv)
<1>1. Holding /\ HeldIsOld /\ EvidenceInv /\ ChainInv /\ ChainInv' /\ QueueInv
        /\ [Next]_vars => Holding' /\ HeldIsOld' /\ EvidenceInv'
  BY HoldingStep, HeldStep, EvidenceStep
<1> QED
  BY <1>1, ChainAlways, QueueInit, QueueStep, EvidenceInit, PTL DEF Spec

(* What a call that reached the end of its queue has logged.                 *)
LEMMA LoggedAll ==
  ASSUME ChainInv, QueueInv, EvidenceInv, NEW c \in Callers, AtEnd(c)
  PROVE  /\ Len(log[c]) = Len(queue[c]) /\ Len(log[c]) \in Nat
         /\ DOMAIN log[c] = 1..Len(log[c])
         /\ \A i \in 1..Len(log[c]) :
              /\ log[c][i].step = queue[c][i]
              /\ log[c][i].superseded \in BOOLEAN
              /\ log[c][i].superseded =>
                   /\ i + 2 <= Len(log[c])
                   /\ queue[c][i + 1].kind = "write"
                   /\ queue[c][i + 2] = queue[c][i]
<1>1. /\ log[c] \in Seq(LogEntry) /\ queue[c] \in Seq(Step)
      /\ Follows(log[c], queue[c])
  BY DEF QueueInv, EvidenceInv
<1>2. Len(log[c]) = index[c]
  BY DEF AtEnd, EvidenceInv, Progress
<1>3. index[c] = Len(queue[c])
  <2>1. index[c] \in Nat /\ Len(queue[c]) \in Nat /\ index[c] <= Len(queue[c])
    BY <1>1, LenProperties DEF ChainInv, Types, QueueInv
  <2> QED
    BY <2>1 DEF AtEnd, HasNext
<1>4. \A i \in 1..Len(log[c]) : log[c][i] \in LogEntry
  BY <1>1, ElementOfSeq
<1>5. Len(log[c]) \in Nat /\ DOMAIN log[c] = 1..Len(log[c])
  BY <1>1, LenProperties
<1> QED
  BY <1>1, <1>2, <1>3, <1>4, <1>5 DEF Follows, LogEntry

LEMMA Reverified == ChainInv /\ QueueInv /\ EvidenceInv => OkIsReverified
<1> SUFFICES ASSUME ChainInv, QueueInv, EvidenceInv, NEW c \in Callers,
                    AtEnd(c), Ok(c),
                    NEW i \in DOMAIN log[c], log[c][i].superseded
             PROVE  \E j \in i + 2..Len(log[c]) :
                      /\ log[c][j].step = log[c][i].step
                      /\ log[c][j].status = "ok"
                      /\ \E w \in i + 1..j - 1 : log[c][w].step.kind = "write"
  BY DEF OkIsReverified
<1> DEFINE l == log[c]
           q == queue[c]
           n == Len(l)
<1>1. /\ n \in Nat /\ i \in 1..n
      /\ \A k \in 1..n :
           /\ l[k].step = q[k]
           /\ l[k].superseded \in BOOLEAN
           /\ l[k].superseded =>
                k + 2 <= n /\ q[k + 1].kind = "write" /\ q[k + 2] = q[k]
  BY LoggedAll
<1>2. \A k \in 1..n : ~l[k].superseded => l[k].status = "ok"
  BY LoggedAll DEF Ok
<1> HIDE DEF l, q, n
<1> DEFINE Repeats == {k \in 1..n : i <= k /\ l[k].superseded /\ l[k].step = l[i].step}
<1>3. PICK k \in Repeats : \A m \in Repeats : m <= k
  <2>1. i \in Repeats
    BY <1>1 DEF l
  <2>2. Repeats \in SUBSET (1..n) /\ Repeats # {}
    BY <2>1
  <2> HIDE DEF Repeats
  <2> QED
    BY <1>1, <2>2, LastPosition
<1>4. /\ k \in 1..n /\ i <= k /\ l[k].step = l[i].step
      /\ k + 2 <= n /\ q[k + 2] = q[k] /\ i \in Nat /\ k \in Nat
  BY <1>1, <1>3
<1>5. k + 2 \in 1..n /\ l[k + 2].step = l[i].step
  <2>1. k + 2 \in 1..n
    BY <1>1, <1>4
  <2> QED
    BY <1>1, <1>4, <2>1
<1>6. ~l[k + 2].superseded
  <2>1. k + 2 \notin Repeats
    BY <1>3, <1>4
  <2> QED
    BY <1>1, <1>4, <1>5, <2>1
<1>7. l[k + 2].status = "ok"
  BY <1>2, <1>5, <1>6
<1>8. i + 1 \in i + 1..(k + 2) - 1 /\ l[i + 1].step.kind = "write"
  <2>1. i + 1 \in 1..n /\ i + 1 \in i + 1..(k + 2) - 1
    BY <1>1, <1>4
  <2>2. q[i + 1].kind = "write"
    BY <1>1 DEF l
  <2> QED
    BY <1>1, <2>1, <2>2
<1>9. k + 2 \in i + 2..n
  BY <1>1, <1>4
<1> QED
  BY <1>5, <1>7, <1>8, <1>9 DEF l, n

(* For any number of callers, plans and repair rounds: a chain that reports  *)
(* ok repaired every test it superseded and then ran the same test to an OK  *)
(* result.                                                                   *)
THEOREM OkChainsReverified == Spec => []OkIsReverified
BY EvidenceAlways, Reverified, PTL

(* What the step that makes the parent VERIFIED leans on.                    *)
Evidence ==
  runs'[Parent] # runs[Parent] /\ runs'[Parent].state = "verified" =>
    \E c \in Callers :
      /\ pc[c] # "idle" /\ pc'[c] = "idle"
      /\ held[c] = runs[Parent]
      /\ log[c] # <<>>
      /\ LET last == log[c][Len(log[c])]
         IN last.status = "ok" /\ last.step.kind \in {"test", "review"}

LEMMA OnlyVerifying ==
  ASSUME ChainInv, [Next]_vars,
         runs'[Parent] # runs[Parent], runs'[Parent].state = "verified"
  PROVE  \E c \in Callers : VerifyMoves(c)
<1> USE NameKinds
<1>0. /\ runs \in [Names -> RunState \cup {None}] /\ runs[Parent] # None
      /\ \A c \in Callers : name[c] \in Names
  BY DEF ChainInv, Types, Locals
<1>1. ASSUME NEW c \in Callers, ChainStarts(c) PROVE FALSE
  BY <1>0, <1>1 DEF ChainStarts, Moved
<1>2. ASSUME NEW c \in Callers, CreateTask(c) PROVE FALSE
  BY <1>0, <1>2 DEF CreateTask
<1>3. ASSUME NEW c \in Callers, AssignTask(c) \/ RunStarts(c) PROVE FALSE
  <2>1. CASE name[c] # Parent
    BY <1>0, <1>3, <2>1 DEF AssignTask, RunStarts
  <2>2. CASE name[c] = Parent
    BY <1>0, <1>3, <2>2 DEF AssignTask, RunStarts, Moved
  <2> QED
    BY <2>1, <2>2
<1>4. ASSUME NEW n \in Names, Recover(n) PROVE FALSE
  <2>1. CASE n # Parent
    BY <1>0, <1>4, <2>1 DEF Recover
  <2>2. CASE n = Parent
    BY <1>0, <1>4, <2>2 DEF Recover, Moved
  <2> QED
    BY <2>1, <2>2
<1>5. ~UNCHANGED runs
  OBVIOUS
<1>6. ASSUME NEW c \in Callers, Proceed(c) PROVE VerifyMoves(c)
  BY <1>1, <1>2, <1>3, <1>5, <1>6 DEF Proceed, ChainJoins, ChainRefused,
     LookupTask, CreateLosesRace, AssignRefused, RunRefused, RunReturns,
     RunRaises, StepFinished, ChainReturns, VerifyRefused
<1> QED
  BY <1>4, <1>5, <1>6 DEF Next, Begin, Dies, vars

LEMMA EvidenceOfStep ==
  ChainInv /\ QueueInv /\ Holding /\ HeldIsOld /\ EvidenceInv /\ [Next]_vars
    => Evidence
<1> SUFFICES ASSUME ChainInv, QueueInv, Holding, HeldIsOld, EvidenceInv,
                    [Next]_vars,
                    runs'[Parent] # runs[Parent],
                    runs'[Parent].state = "verified"
             PROVE  \E c \in Callers :
                      /\ pc[c] # "idle" /\ pc'[c] = "idle"
                      /\ held[c] = runs[Parent]
                      /\ log[c] # <<>>
                      /\ LET last == log[c][Len(log[c])]
                         IN last.status = "ok"
                              /\ last.step.kind \in {"test", "review"}
  BY DEF Evidence
<1>1. PICK c \in Callers : VerifyMoves(c)
  BY OnlyVerifying
<1>2. AtEnd(c) /\ kind[c] = "verify_task" /\ Ok(c)
  BY <1>1 DEF VerifyMoves, Verifies
<1>3. pc[c] # "idle" /\ pc'[c] = "idle"
  BY <1>1, <1>2 DEF AtEnd, VerifyMoves, End, ChainInv, Types
<1>4. held[c] = runs[Parent]
  BY <1>1, <1>3 DEF VerifyMoves, Movable, Holding, HeldIsOld
<1>5. EndsVerifying(queue[c])
  BY <1>2 DEF EvidenceInv
<1> DEFINE n == Len(log[c])
<1>6. /\ n \in Nat /\ n >= 1 /\ n = Len(queue[c])
  BY <1>2, <1>5, LoggedAll DEF EndsVerifying
<1>7. log[c][n].step.kind \in {"test", "review"}
  <2>1. log[c][n].step = queue[c][n]
    <3>1. n \in 1..n
      BY <1>6
    <3> QED
      BY <1>2, <3>1, LoggedAll
  <2> QED
    BY <1>5, <1>6, <2>1 DEF EndsVerifying
<1>8. log[c][n].status = "ok"
  <2>1. n \in 1..n /\ ~(n + 2 <= n)
    BY <1>6
  <2>2. ~log[c][n].superseded /\ n \in DOMAIN log[c]
    BY <1>2, <2>1, LoggedAll
  <2> QED
    BY <1>2, <2>2 DEF Ok
<1>9. log[c] # <<>>
  BY <1>6
<1> QED
  BY <1>3, <1>4, <1>7, <1>8, <1>9

(* For any number of callers, plans and repair rounds, with crashes and      *)
(* recoveries anywhere: the call that makes the task VERIFIED still holds    *)
(* its current run, and the last step it executed is an OK test or review.   *)
THEOREM VerifiedByItsCall == Spec => VerifiedByEvidence
<1>1. ChainInv /\ QueueInv /\ Holding /\ HeldIsOld /\ EvidenceInv /\ [Next]_vars
        => [Evidence]_vars
  BY EvidenceOfStep
<1>2. Spec => [][Evidence]_vars
  BY <1>1, EvidenceAlways, PTL DEF Spec
<1> QED
  BY <1>2 DEF VerifiedByEvidence, Evidence
============================================================================
