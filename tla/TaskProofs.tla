----------------------------- MODULE TaskProofs -----------------------------
(***************************************************************************)
(* Proofs about the history of a task, the loop that works on one and the  *)
(* harness that runs its calls: the invariants of the abstract store       *)
(* (TaskStore) for every set of ids and attempt numbers and every version  *)
(* bound; those of the agent loop (AgentLoop), among them how little can   *)
(* still start after a cancellation or a revocation, for every step, call, *)
(* stall and retry budget; and those of the harness (Harness): for any     *)
(* registry, permissions, requests and limits a tool runs only where the   *)
(* raw permissions say so and within the session's budget, and an audit    *)
(* without findings vouches for it.                                        *)
(***************************************************************************)
EXTENDS TaskStore, AgentLoop, Harness, SequenceTheorems, WellFoundedInduction, TLAPS

(* The inductive invariant of the store: types, one run per version, and a   *)
(* legal predecessor for every run but the first.                            *)
HistoryInv == TypeOK /\ VersionNamesOneRun /\ HistoryIsLegal

(* Creating an unknown task starts its history with the first run.           *)
LEMMA CreateKeepsHistory ==
  ASSUME HistoryInv, NEW t \in Ids, Create(t)
  PROVE  HistoryInv'
<1>1. FirstRun(t) \in Run
  BY TaskRunsAssumption DEF FirstRun, Run, States
<1>2. \A r \in runs : r.task # t
  BY DEF Create, RunsOf
<1>3. runs' = runs \cup {FirstRun(t)}
  BY DEF Create
<1>4. TypeOK'
  BY <1>1, <1>3 DEF HistoryInv, TypeOK
<1>5. VersionNamesOneRun'
  BY <1>2, <1>3 DEF HistoryInv, VersionNamesOneRun, FirstRun
<1>6. HistoryIsLegal'
  <2>1. ASSUME NEW r \in runs
        PROVE  IF r.version = 0 THEN r = FirstRun(r.task)
               ELSE \E p \in RunsOf(r.task)' : /\ p.version = r.version - 1
                                               /\ can_transition(p.state, r.state)
    BY <1>3 DEF HistoryInv, HistoryIsLegal, RunsOf
  <2>2. FirstRun(t).version = 0 /\ FirstRun(t).task = t
    BY DEF FirstRun
  <2> QED
    BY <1>3, <2>1, <2>2 DEF HistoryIsLegal
<1> QED
  BY <1>4, <1>5, <1>6 DEF HistoryInv

(* A transition extends the history above its current run; no other run can  *)
(* have the new version, because none is above the current one.              *)
LEMMA TransitionKeepsHistory ==
  ASSUME HistoryInv,
         NEW r \in runs, NEW to \in States, NEW att \in AttemptNos,
         Transition(r, to, att)
  PROVE  HistoryInv'
<1> DEFINE new == [task |-> r.task, version |-> r.version + 1,
                   state |-> to, attempt |-> att]
<1>1. r \in Run /\ new \in Run
  BY DEF HistoryInv, TypeOK, Run
<1>2. runs' = runs \cup {new}
  BY DEF Transition
<1>3. \A q \in runs : q.task = r.task => q.version <= r.version
  BY DEF Transition, IsCurrent, RunsOf
<1>4. TypeOK'
  BY <1>1, <1>2 DEF HistoryInv, TypeOK
<1>5. VersionNamesOneRun'
  <2>1. \A q \in runs : ~(q.task = new.task /\ q.version = new.version)
    BY <1>1, <1>3 DEF HistoryInv, TypeOK, Run
  <2> QED
    BY <1>2, <2>1 DEF HistoryInv, VersionNamesOneRun
<1>6. HistoryIsLegal'
  <2>1. ASSUME NEW q \in runs
        PROVE  IF q.version = 0 THEN q = FirstRun(q.task)
               ELSE \E p \in RunsOf(q.task)' : /\ p.version = q.version - 1
                                               /\ can_transition(p.state, q.state)
    BY <1>2 DEF HistoryInv, HistoryIsLegal, RunsOf
  <2>2. new.version # 0 /\ new.version - 1 = r.version
    BY <1>1 DEF Run
  <2>3. r \in RunsOf(new.task)' /\ can_transition(r.state, new.state)
    BY <1>2 DEF RunsOf, Transition
  <2> QED
    BY <1>2, <2>1, <2>2, <2>3 DEF HistoryIsLegal
<1> QED
  BY <1>4, <1>5, <1>6 DEF HistoryInv

(* Versions name runs and histories follow TRANSITIONS, in every behaviour   *)
(* of the port.                                                              *)
THEOREM HistoryCorrect == Spec => [](TypeOK /\ VersionNamesOneRun /\ HistoryIsLegal)
<1>1. Init => HistoryInv
  BY DEF Init, HistoryInv, TypeOK, VersionNamesOneRun, HistoryIsLegal
<1>2. HistoryInv /\ [Next]_runs => HistoryInv'
  <2> SUFFICES ASSUME HistoryInv, [Next]_runs
               PROVE  HistoryInv'
    OBVIOUS
  <2>1. CASE \E t \in Ids : Create(t)
    BY <2>1, CreateKeepsHistory
  <2>2. CASE \E r \in runs, to \in States, att \in AttemptNos : Transition(r, to, att)
    BY <2>2, TransitionKeepsHistory
  <2>3. CASE UNCHANGED runs
    BY <2>3 DEF HistoryInv, TypeOK, VersionNamesOneRun, HistoryIsLegal, RunsOf
  <2> QED
    BY <2>1, <2>2, <2>3 DEF Next
<1>3. HistoryInv <=> TypeOK /\ VersionNamesOneRun /\ HistoryIsLegal
  BY DEF HistoryInv
<1> QED
  BY <1>1, <1>2, <1>3, PTL DEF Spec

(* What a transition appends is one version above the run it moves, which is *)
(* the current one, and a legal move from it.                                *)
LEMMA TransitionAppends ==
  ASSUME HistoryInv,
         NEW c \in runs, NEW to \in States, NEW att \in AttemptNos,
         Transition(c, to, att)
  PROVE  \E n \in Run :
           /\ runs' = runs \cup {n}
           /\ n.task = c.task /\ n.version = c.version + 1
           /\ n.state \in legal_targets(c.state)
           /\ \A q \in runs : q.task = c.task /\ q # c => q.version < c.version
<1> DEFINE n == [task |-> c.task, version |-> c.version + 1,
                 state |-> to, attempt |-> att]
<1>1. c \in Run
  BY DEF HistoryInv, TypeOK
<1>2. n \in Run /\ n.task = c.task /\ n.version = c.version + 1 /\ n.state = to
  BY <1>1 DEF Run
<1>3. runs' = runs \cup {n} /\ to \in legal_targets(c.state)
  BY DEF Transition, can_transition
<1>4. ASSUME NEW q \in runs, q.task = c.task, q # c
      PROVE  q.version < c.version
  <2>1. q.version <= c.version /\ q \in Run
    BY <1>4 DEF Transition, IsCurrent, RunsOf, HistoryInv, TypeOK
  <2>2. q.version # c.version
    BY <1>4 DEF HistoryInv, VersionNamesOneRun
  <2> QED
    BY <1>1, <2>1, <2>2 DEF Run
<1> QED
  BY <1>2, <1>3, <1>4

(* A run that is carried out has its approval: by a move from the current    *)
(* run c, either c itself is carried out or APPROVED, or it is CREATED, which *)
(* only the first run is, and then nothing waited before it.                 *)
LEMMA TransitionHeedsApproval ==
  ASSUME HistoryInv, ApprovalIsHeeded,
         NEW c \in runs, NEW to \in States, NEW att \in AttemptNos,
         Transition(c, to, att)
  PROVE  ApprovalIsHeeded'
<1>1. PICK n \in Run :
        /\ runs' = runs \cup {n}
        /\ n.task = c.task /\ n.version = c.version + 1
        /\ n.state \in legal_targets(c.state)
        /\ \A q \in runs : q.task = c.task /\ q # c => q.version < c.version
  BY TransitionAppends
<1>2. runs \subseteq Run
  BY DEF HistoryInv, TypeOK
<1> SUFFICES ASSUME NEW p \in runs', NEW r \in runs',
                    p.task = r.task, p.version < r.version,
                    p.state \in {"planned", "needs_approval"}, r.state \in CarriedOut
             PROVE  \E a \in runs' : /\ a.task = p.task
                                     /\ p.version < a.version /\ a.version < r.version
                                     /\ a.state = "approved"
  BY DEF ApprovalIsHeeded, RunsOf
<1>3. CASE r \in runs
  <2>1. p # n
    <3> SUFFICES ASSUME p = n PROVE FALSE
      OBVIOUS
    <3>1. r = c \/ r.version < c.version
      BY <1>1, <1>3
    <3> QED
      BY <1>1, <1>2, <1>3, <3>1 DEF Run
  <2> QED
    BY <1>1, <1>3, <2>1 DEF ApprovalIsHeeded, RunsOf
<1>4. CASE r = n
  <2>1. p \in runs
    BY <1>1, <1>4 DEF Run
  <2>2. p = c \/ p.version < c.version
    BY <1>1, <1>4, <2>1
  <2>3. c.state \in {"created", "approved"} \cup CarriedOut
    BY <1>1, <1>2, <1>4
       DEF legal_targets, TRANSITIONS, CarriedOut, Run, States
  <2>4. p # c
    BY <2>3 DEF CarriedOut
  <2>5. p.version < c.version
    BY <2>2, <2>4
  <2>6. CASE c.state = "approved"
    BY <1>1, <1>2, <1>4, <2>5, <2>6 DEF Run
  <2>7. CASE c.state \in CarriedOut
    <3>1. PICK a \in runs : /\ a.task = p.task /\ a.state = "approved"
                            /\ p.version < a.version /\ a.version < c.version
      BY <1>1, <1>4, <2>1, <2>5, <2>7 DEF ApprovalIsHeeded, RunsOf
    <3> QED
      BY <1>1, <1>2, <1>4, <3>1 DEF Run
  <2>8. CASE c.state = "created"
    <3>1. c.version # 0
      BY <1>2, <2>1, <2>5 DEF Run
    <3>2. PICK q \in runs : can_transition(q.state, c.state)
      BY <3>1 DEF HistoryInv, HistoryIsLegal, RunsOf
    <3> QED
      BY <1>2, <2>8, <3>2 DEF can_transition, legal_targets, TRANSITIONS, Run, States
  <2> QED
    BY <2>3, <2>6, <2>7, <2>8
<1> QED
  BY <1>1, <1>3, <1>4

(* A task that was PLANNED or waited for its approval is carried out only    *)
(* after it was APPROVED since, in every behaviour of the port, and so in    *)
(* those of the two stores, which implement it.                              *)
THEOREM ApprovalComesFirst == Spec => []ApprovalIsHeeded
<1>1. Init => ApprovalIsHeeded
  BY DEF Init, ApprovalIsHeeded
<1>2. HistoryInv /\ ApprovalIsHeeded /\ [Next]_runs => ApprovalIsHeeded'
  <2> SUFFICES ASSUME HistoryInv, ApprovalIsHeeded, [Next]_runs
               PROVE  ApprovalIsHeeded'
    OBVIOUS
  <2>1. ASSUME NEW t \in Ids, Create(t)
        PROVE  ApprovalIsHeeded'
    <3>1. /\ \A r \in runs : r.task # t
          /\ runs' = runs \cup {FirstRun(t)}
      BY <2>1 DEF Create, RunsOf
    <3>2. /\ FirstRun(t).task = t
          /\ FirstRun(t).state \notin CarriedOut \cup {"planned", "needs_approval"}
      BY DEF FirstRun, CarriedOut
    <3> QED
      BY <3>1, <3>2 DEF ApprovalIsHeeded, RunsOf
  <2>2. CASE \E r \in runs, to \in States, att \in AttemptNos : Transition(r, to, att)
    BY <2>2, TransitionHeedsApproval
  <2>3. CASE UNCHANGED runs
    BY <2>3 DEF ApprovalIsHeeded, RunsOf
  <2> QED
    BY <2>1, <2>2, <2>3 DEF Next
<1>3. HistoryInv <=> TypeOK /\ VersionNamesOneRun /\ HistoryIsLegal
  BY DEF HistoryInv
<1> QED
  BY <1>1, <1>2, <1>3, HistoryCorrect, PTL DEF Spec

(* A task in REPORTED or FAILED is never moved again.                        *)
THEOREM TerminalIsFinal == Spec => TerminalStaysCurrent
<1>1. HistoryInv /\ Next =>
        \A r \in runs : IsCurrent(r) /\ r.state \in TERMINAL_STATES => IsCurrent(r)'
  <2> SUFFICES ASSUME HistoryInv, Next,
                      NEW r \in runs, IsCurrent(r), r.state \in TERMINAL_STATES
               PROVE  IsCurrent(r)'
    OBVIOUS
  <2>1. ASSUME NEW t \in Ids, Create(t)
        PROVE  IsCurrent(r)'
    <3>1. r.task # t
      BY <2>1 DEF Create, RunsOf
    <3> QED
      BY <2>1, <3>1 DEF Create, IsCurrent, RunsOf, FirstRun
  <2>2. ASSUME NEW p \in runs, NEW to \in States, NEW att \in AttemptNos,
               Transition(p, to, att)
        PROVE  IsCurrent(r)'
    <3>1. p.state \notin TERMINAL_STATES
      BY <2>2 DEF Transition, can_transition, legal_targets, TRANSITIONS, TERMINAL_STATES
    <3>2. p.task # r.task
      <4> SUFFICES ASSUME p.task = r.task PROVE FALSE
        OBVIOUS
      <4>1. p.version <= r.version /\ r.version <= p.version
        BY <2>2 DEF Transition, IsCurrent, RunsOf
      <4>2. p = r
        BY <4>1 DEF HistoryInv, TypeOK, Run, VersionNamesOneRun
      <4> QED
        BY <3>1, <4>2
    <3> QED
      BY <2>2, <3>2 DEF Transition, IsCurrent, RunsOf
  <2> QED
    BY <2>1, <2>2 DEF Next
<1>2. HistoryInv <=> TypeOK /\ VersionNamesOneRun /\ HistoryIsLegal
  BY DEF HistoryInv
<1> QED
  BY <1>1, <1>2, HistoryCorrect, PTL DEF Spec, TerminalStaysCurrent

----------------------------------------------------------------------------
(* The agent loop.                                                           *)

(* The calls of the current reply that may still run, and the ASK calls that *)
(* did: before the reply is parsed, it may bring MaxCalls.                   *)
Room == IF pc = "reply" THEN MaxCalls
        ELSE IF pc \in {"turn", "clock", "chat", "end"} THEN 0 ELSE left

Executed == unasked + asked

(* Why the budgets hold: a turn makes one brain call, and the calls still to *)
(* process were counted in with it.                                          *)
BudgetInv ==
  /\ pc # "end" => stalls <= MaxStalls
  /\ pc \in {"turn", "clock", "chat"} => chats < step
  /\ chats <= step
  /\ Executed + Room <= chats * MaxCalls

(* Where a call is on its way to its tool.                                   *)
Running == {"run", "admit", "harness", "ready"}

(* Why NEEDS_APPROVAL ran nothing: a loop is only blocked while it holds no  *)
(* grant, and without a grant no ASK call runs.                              *)
GrantInv ==
  /\ pc \in {"approving"} \cup Running => left > 0 /\ checked # Nothing
  /\ pc = "approving" => checked = "ask" /\ ~granted
  /\ pc \in Running /\ checked = "ask" => granted
  /\ Executed > 0 => granted
  /\ approval_blocked => ~granted
  /\ status = "needs_approval" => ~granted
  /\ pc # "end" => status = Nothing

(* Why a cancellation bites: whoever is past a check of the token was there  *)
(* before the cancellation, or at its last start.                            *)
CancelInv ==
  /\ after_cancel <= 1
  /\ ~cancelled => after_cancel = 0
  /\ pc \in {"clock", "chat", "admit", "harness", "ready"} => after_cancel = 0

(* Why a revocation does: only the one grant the loop ever minted can be     *)
(* revoked, it stays the loop's grant, and an ASK call that is past the      *)
(* harness's question to the ledger is there before any start since.         *)
RevokeInv ==
  /\ after_revoke <= 1
  /\ ~granted => minted = 0
  /\ revoked_ids \subseteq {minted}
  /\ revoked_ids # {} => granted
  /\ revoked_ids = {} => after_revoke = 0
  /\ pc = "ready" /\ checked = "ask" => after_revoke = 0

LoopInv == LoopTypeOK /\ BudgetInv /\ GrantInv /\ DoneIsHonest /\ CancelInv /\ RevokeInv

LEMMA Budgets ==
  /\ MaxSteps \in Nat /\ MaxSteps > 0
  /\ MaxCalls \in Nat /\ MaxCalls > 0
  /\ MaxStalls \in Nat
  /\ FormatRetries \in Nat
  /\ AutoSteps \subseteq Nat
  /\ Nothing \notin {"auto", "human", "allow", "ask"}
  /\ Nothing \notin Statuses
BY AgentLoopAssumption DEF Statuses

LEMMA LoopStarts == LoopInit => LoopInv
<1> SUFFICES ASSUME LoopInit PROVE LoopInv
  OBVIOUS
<1>1. LoopTypeOK
  <2>1. step \in 1..MaxSteps /\ left \in 0..MaxCalls
    BY Budgets DEF LoopInit
  <2>2. stalls \in 0..(MaxStalls + 1) /\ format_left \in 0..FormatRetries
    BY Budgets DEF LoopInit
  <2> QED
    BY <2>1, <2>2 DEF LoopInit, LoopTypeOK, FlagsOK
<1>2. BudgetInv
  <2>1. chats * MaxCalls = 0
    BY Budgets DEF LoopInit
  <2> QED
    BY <2>1, Budgets DEF LoopInit, BudgetInv, Room, Executed
<1>3. GrantInv /\ DoneIsHonest
  BY Budgets DEF LoopInit, GrantInv, DoneIsHonest, Executed, granted, Statuses, Running
<1>4. CancelInv /\ RevokeInv
  BY DEF LoopInit, CancelInv, RevokeInv, granted
<1> QED
  BY <1>1, <1>2, <1>3, <1>4 DEF LoopInv

LEMMA LoopTypeStep ==
  LoopInv /\ [LoopNext]_loop_vars => LoopTypeOK'
<1> SUFFICES ASSUME LoopInv, [LoopNext]_loop_vars PROVE LoopTypeOK'
  OBVIOUS
<1> USE DEF LoopTypeOK, FlagsOK, BudgetInv, GrantInv, Started, HonestyDue,
    Statuses, Running, LoopInv, NextTurn, Finish, Inspect, Logged, Grant, budget, grant, log,
    env, counts
<1>1. CASE UNCHANGED loop_vars
  BY <1>1 DEF loop_vars
<1>2. CASE TurnCancelled
  BY <1>2, Budgets DEF TurnCancelled
<1>3. CASE TurnProceeds
  BY <1>3, Budgets DEF TurnProceeds
<1>4. CASE TurnTimedOut
  BY <1>4, Budgets DEF TurnTimedOut
<1>5. CASE TurnInTime
  BY <1>5, Budgets DEF TurnInTime
<1>6. CASE Chat
  BY <1>6, Budgets DEF Chat
<1>7. CASE ChatFails
  BY <1>7, Budgets DEF ChatFails
<1>8. CASE ReplyMalformed
  BY <1>8, Budgets DEF ReplyMalformed
<1>9. CASE ReplyWarned
  BY <1>9, Budgets DEF ReplyWarned
<1>10. CASE ReplyFinal
  BY <1>10, Budgets DEF ReplyFinal
<1>11. ASSUME NEW n \in 1..MaxCalls, ReplyCalls(n) PROVE LoopTypeOK'
  <2> FlagsOK'
    BY <1>11 DEF ReplyCalls
  <2> HIDE DEF FlagsOK
  <2> QED
    BY <1>11, Budgets DEF ReplyCalls
<1>12. CASE CallDenied
  BY <1>12, Budgets DEF CallDenied
<1>13. ASSUME NEW v \in {"allow", "ask"}, CallAdmitted(v) PROVE LoopTypeOK'
  BY <1>13, Budgets DEF CallAdmitted
<1>14. CASE CallAutoGranted
  <2> FlagsOK'
    BY <1>14 DEF CallAutoGranted
  <2> HIDE DEF FlagsOK
  <2> QED
    BY <1>14, Budgets DEF CallAutoGranted
<1>15. CASE CallAsks
  BY <1>15, Budgets DEF CallAsks
<1>16. CASE CallApproved
  <2> FlagsOK'
    BY <1>16 DEF CallApproved
  <2> HIDE DEF FlagsOK
  <2> QED
    BY <1>16, Budgets DEF CallApproved
<1>17. CASE CallDeclined
  BY <1>17, Budgets DEF CallDeclined
<1>18. CASE RunCancelled
  BY <1>18, Budgets DEF RunCancelled
<1>19. CASE RunProceeds
  BY <1>19, Budgets DEF RunProceeds
<1>20. CASE ApprovalRevoked
  BY <1>20, Budgets DEF ApprovalRevoked
<1>21. CASE RunEnters
  BY <1>21, Budgets DEF RunEnters
<1>22. CASE HarnessRefuses
  BY <1>22, Budgets DEF HarnessRefuses
<1>23. CASE HarnessAdmits
  BY <1>23, Budgets DEF HarnessAdmits
<1>24. CASE ToolUnloadable
  BY <1>24, Budgets DEF ToolUnloadable
<1>25. ASSUME NEW ok \in BOOLEAN, RunTool(ok) PROVE LoopTypeOK'
  BY <1>25, Budgets DEF RunTool
<1>26. CASE EndTurn
  <2>1. CASE progressed
    <3> FlagsOK'
      BY <1>26, <2>1 DEF EndTurn
    <3> HIDE DEF FlagsOK
    <3> QED
      BY <1>26, <2>1, Budgets DEF EndTurn
  <2>2. CASE ~progressed /\ stalls < MaxStalls
    BY <1>26, <2>2, Budgets DEF EndTurn
  <2>3. CASE ~progressed /\ stalls >= MaxStalls
    BY <1>26, <2>3, Budgets DEF EndTurn
  <2> QED
    BY <2>1, <2>2, <2>3, Budgets
<1>27. CASE Cancel
  BY <1>27, Budgets DEF Cancel
<1>28. CASE TimeOut
  BY <1>28, Budgets DEF TimeOut
<1>29. CASE Revoke
  BY <1>29, Budgets DEF Revoke
<1> QED
  BY <1>1, <1>2, <1>3, <1>4, <1>5, <1>6, <1>7, <1>8, <1>9, <1>10, <1>11,
       <1>12, <1>13, <1>14, <1>15, <1>16, <1>17, <1>18, <1>19, <1>20, <1>21,
       <1>22, <1>23, <1>24, <1>25, <1>26, <1>27, <1>28, <1>29 DEF LoopNext,
       Loop

LEMMA BudgetStep ==
  LoopInv /\ [LoopNext]_loop_vars => BudgetInv'
<1> SUFFICES ASSUME LoopInv, [LoopNext]_loop_vars PROVE BudgetInv'
  OBVIOUS
<1> USE DEF LoopTypeOK, BudgetInv, GrantInv, Started, Room, Executed, Running,
    LoopInv, NextTurn, Finish, Inspect, Logged, Grant, budget, grant, log,
    env, counts
<1>1. CASE UNCHANGED loop_vars
  BY <1>1 DEF loop_vars
<1>2. CASE TurnCancelled
  BY <1>2, Budgets DEF TurnCancelled
<1>3. CASE TurnProceeds
  BY <1>3, Budgets DEF TurnProceeds
<1>4. CASE TurnTimedOut
  BY <1>4, Budgets DEF TurnTimedOut
<1>5. CASE TurnInTime
  BY <1>5, Budgets DEF TurnInTime
<1>6. CASE Chat
  BY <1>6, Budgets DEF Chat
<1>7. CASE ChatFails
  BY <1>7, Budgets DEF ChatFails
<1>8. CASE ReplyMalformed
  BY <1>8, Budgets DEF ReplyMalformed
<1>9. CASE ReplyWarned
  BY <1>9, Budgets DEF ReplyWarned
<1>10. CASE ReplyFinal
  BY <1>10, Budgets DEF ReplyFinal
<1>11. ASSUME NEW n \in 1..MaxCalls, ReplyCalls(n) PROVE BudgetInv'
  <2>1. chats * MaxCalls \in Nat
    BY Budgets
  <2>2. Executed + n <= chats * MaxCalls
    BY <1>11, <2>1, Budgets DEF ReplyCalls
  <2> QED
    BY <1>11, <2>2, Budgets DEF ReplyCalls
<1>12. CASE CallDenied
  BY <1>12, Budgets DEF CallDenied
<1>13. ASSUME NEW v \in {"allow", "ask"}, CallAdmitted(v) PROVE BudgetInv'
  BY <1>13, Budgets DEF CallAdmitted
<1>14. CASE CallAutoGranted
  BY <1>14, Budgets DEF CallAutoGranted
<1>15. CASE CallAsks
  BY <1>15, Budgets DEF CallAsks
<1>16. CASE CallApproved
  BY <1>16, Budgets DEF CallApproved
<1>17. CASE CallDeclined
  BY <1>17, Budgets DEF CallDeclined
<1>18. CASE RunCancelled
  BY <1>18, Budgets DEF RunCancelled
<1>19. CASE RunProceeds
  BY <1>19, Budgets DEF RunProceeds
<1>20. CASE ApprovalRevoked
  BY <1>20, Budgets DEF ApprovalRevoked
<1>21. CASE RunEnters
  BY <1>21, Budgets DEF RunEnters
<1>22. CASE HarnessRefuses
  BY <1>22, Budgets DEF HarnessRefuses
<1>23. CASE HarnessAdmits
  BY <1>23, Budgets DEF HarnessAdmits
<1>24. CASE ToolUnloadable
  BY <1>24, Budgets DEF ToolUnloadable
<1>25. ASSUME NEW ok \in BOOLEAN, RunTool(ok) PROVE BudgetInv'
  BY <1>25, Budgets DEF RunTool
<1>26. CASE EndTurn
  <2>1. CASE progressed
    BY <1>26, <2>1, Budgets DEF EndTurn
  <2>2. CASE ~progressed /\ stalls < MaxStalls
    BY <1>26, <2>2, Budgets DEF EndTurn
  <2>3. CASE ~progressed /\ stalls >= MaxStalls
    BY <1>26, <2>3, Budgets DEF EndTurn
  <2> QED
    BY <2>1, <2>2, <2>3, Budgets
<1>27. CASE Cancel
  BY <1>27, Budgets DEF Cancel
<1>28. CASE TimeOut
  BY <1>28, Budgets DEF TimeOut
<1>29. CASE Revoke
  BY <1>29, Budgets DEF Revoke
<1> QED
  BY <1>1, <1>2, <1>3, <1>4, <1>5, <1>6, <1>7, <1>8, <1>9, <1>10, <1>11,
       <1>12, <1>13, <1>14, <1>15, <1>16, <1>17, <1>18, <1>19, <1>20, <1>21,
       <1>22, <1>23, <1>24, <1>25, <1>26, <1>27, <1>28, <1>29 DEF LoopNext,
       Loop

LEMMA GrantStep ==
  LoopInv /\ [LoopNext]_loop_vars => (GrantInv /\ DoneIsHonest)'
<1> SUFFICES ASSUME LoopInv, [LoopNext]_loop_vars PROVE (GrantInv /\ DoneIsHonest)'
  OBVIOUS
<1> USE DEF LoopTypeOK, FlagsOK, BudgetInv, GrantInv, DoneIsHonest, HonestyDue, Executed,
    granted, Running, Statuses, LoopInv, NextTurn, Finish, Inspect, Logged, Grant, budget, grant, log,
    env, counts
<1>1. CASE UNCHANGED loop_vars
  BY <1>1 DEF loop_vars
<1>2. CASE TurnCancelled
  BY <1>2, Budgets DEF TurnCancelled
<1>3. CASE TurnProceeds
  BY <1>3, Budgets DEF TurnProceeds
<1>4. CASE TurnTimedOut
  BY <1>4, Budgets DEF TurnTimedOut
<1>5. CASE TurnInTime
  BY <1>5, Budgets DEF TurnInTime
<1>6. CASE Chat
  BY <1>6, Budgets DEF Chat
<1>7. CASE ChatFails
  BY <1>7, Budgets DEF ChatFails
<1>8. CASE ReplyMalformed
  BY <1>8, Budgets DEF ReplyMalformed
<1>9. CASE ReplyWarned
  BY <1>9, Budgets DEF ReplyWarned
<1>10. CASE ReplyFinal
  BY <1>10, Budgets DEF ReplyFinal
<1>11. ASSUME NEW n \in 1..MaxCalls, ReplyCalls(n) PROVE (GrantInv /\ DoneIsHonest)'
  BY <1>11, Budgets DEF ReplyCalls
<1>12. CASE CallDenied
  BY <1>12, Budgets DEF CallDenied
<1>13. ASSUME NEW v \in {"allow", "ask"}, CallAdmitted(v) PROVE (GrantInv /\ DoneIsHonest)'
  BY <1>13, Budgets DEF CallAdmitted
<1>14. CASE CallAutoGranted
  BY <1>14, Budgets DEF CallAutoGranted
<1>15. CASE CallAsks
  BY <1>15, Budgets DEF CallAsks
<1>16. CASE CallApproved
  BY <1>16, Budgets DEF CallApproved
<1>17. CASE CallDeclined
  BY <1>17, Budgets DEF CallDeclined
<1>18. CASE RunCancelled
  BY <1>18, Budgets DEF RunCancelled
<1>19. CASE RunProceeds
  BY <1>19, Budgets DEF RunProceeds
<1>20. CASE ApprovalRevoked
  BY <1>20, Budgets DEF ApprovalRevoked
<1>21. CASE RunEnters
  BY <1>21, Budgets DEF RunEnters
<1>22. CASE HarnessRefuses
  BY <1>22, Budgets DEF HarnessRefuses
<1>23. CASE HarnessAdmits
  BY <1>23, Budgets DEF HarnessAdmits
<1>24. CASE ToolUnloadable
  BY <1>24, Budgets DEF ToolUnloadable
<1>25. ASSUME NEW ok \in BOOLEAN, RunTool(ok) PROVE (GrantInv /\ DoneIsHonest)'
  BY <1>25, Budgets DEF RunTool
<1>26. CASE EndTurn
  <2>1. CASE progressed
    BY <1>26, <2>1, Budgets DEF EndTurn
  <2>2. CASE ~progressed /\ stalls < MaxStalls
    BY <1>26, <2>2, Budgets DEF EndTurn
  <2>3. CASE ~progressed /\ stalls >= MaxStalls
    BY <1>26, <2>3, Budgets DEF EndTurn
  <2> QED
    BY <2>1, <2>2, <2>3, Budgets
<1>27. CASE Cancel
  BY <1>27, Budgets DEF Cancel
<1>28. CASE TimeOut
  BY <1>28, Budgets DEF TimeOut
<1>29. CASE Revoke
  BY <1>29, Budgets DEF Revoke
<1> QED
  BY <1>1, <1>2, <1>3, <1>4, <1>5, <1>6, <1>7, <1>8, <1>9, <1>10, <1>11,
       <1>12, <1>13, <1>14, <1>15, <1>16, <1>17, <1>18, <1>19, <1>20, <1>21,
       <1>22, <1>23, <1>24, <1>25, <1>26, <1>27, <1>28, <1>29 DEF LoopNext,
       Loop

LEMMA CancelStep ==
  LoopInv /\ [LoopNext]_loop_vars => CancelInv'
<1> SUFFICES ASSUME LoopInv, [LoopNext]_loop_vars PROVE CancelInv'
  OBVIOUS
<1> USE DEF CancelInv, Started, LoopTypeOK, LoopInv, NextTurn, Finish, Inspect, Logged, Grant, budget, grant, log,
    env, counts
<1>1. CASE UNCHANGED loop_vars
  BY <1>1 DEF loop_vars
<1>2. CASE TurnCancelled
  BY <1>2 DEF TurnCancelled
<1>3. CASE TurnProceeds
  BY <1>3 DEF TurnProceeds
<1>4. CASE TurnTimedOut
  BY <1>4 DEF TurnTimedOut
<1>5. CASE TurnInTime
  BY <1>5 DEF TurnInTime
<1>6. CASE Chat
  BY <1>6 DEF Chat
<1>7. CASE ChatFails
  BY <1>7 DEF ChatFails
<1>8. CASE ReplyMalformed
  BY <1>8 DEF ReplyMalformed
<1>9. CASE ReplyWarned
  BY <1>9 DEF ReplyWarned
<1>10. CASE ReplyFinal
  BY <1>10 DEF ReplyFinal
<1>11. ASSUME NEW n \in 1..MaxCalls, ReplyCalls(n) PROVE CancelInv'
  BY <1>11 DEF ReplyCalls
<1>12. CASE CallDenied
  BY <1>12 DEF CallDenied
<1>13. ASSUME NEW v \in {"allow", "ask"}, CallAdmitted(v) PROVE CancelInv'
  BY <1>13 DEF CallAdmitted
<1>14. CASE CallAutoGranted
  BY <1>14 DEF CallAutoGranted
<1>15. CASE CallAsks
  BY <1>15 DEF CallAsks
<1>16. CASE CallApproved
  BY <1>16 DEF CallApproved
<1>17. CASE CallDeclined
  BY <1>17 DEF CallDeclined
<1>18. CASE RunCancelled
  BY <1>18 DEF RunCancelled
<1>19. CASE RunProceeds
  BY <1>19 DEF RunProceeds
<1>20. CASE ApprovalRevoked
  BY <1>20 DEF ApprovalRevoked
<1>21. CASE RunEnters
  BY <1>21 DEF RunEnters
<1>22. CASE HarnessRefuses
  BY <1>22 DEF HarnessRefuses
<1>23. CASE HarnessAdmits
  BY <1>23 DEF HarnessAdmits
<1>24. CASE ToolUnloadable
  BY <1>24 DEF ToolUnloadable
<1>25. ASSUME NEW ok \in BOOLEAN, RunTool(ok) PROVE CancelInv'
  BY <1>25 DEF RunTool
<1>26. CASE EndTurn
  BY <1>26 DEF EndTurn
<1>27. CASE Cancel
  BY <1>27 DEF Cancel
<1>28. CASE TimeOut
  BY <1>28 DEF TimeOut
<1>29. CASE Revoke
  BY <1>29 DEF Revoke
<1> QED
  BY <1>1, <1>2, <1>3, <1>4, <1>5, <1>6, <1>7, <1>8, <1>9, <1>10, <1>11,
       <1>12, <1>13, <1>14, <1>15, <1>16, <1>17, <1>18, <1>19, <1>20, <1>21,
       <1>22, <1>23, <1>24, <1>25, <1>26, <1>27, <1>28, <1>29 DEF LoopNext,
       Loop

LEMMA RevokeStep ==
  LoopInv /\ [LoopNext]_loop_vars => RevokeInv'
<1> SUFFICES ASSUME LoopInv, [LoopNext]_loop_vars PROVE RevokeInv'
  OBVIOUS
<1> USE DEF RevokeInv, GrantInv, LoopTypeOK, granted, revoked, Running, LoopInv, NextTurn, Finish, Inspect, Logged, Grant, budget, grant, log,
    env, counts
<1>1. CASE UNCHANGED loop_vars
  BY <1>1 DEF loop_vars
<1>2. CASE TurnCancelled
  BY <1>2, Budgets DEF TurnCancelled
<1>3. CASE TurnProceeds
  BY <1>3, Budgets DEF TurnProceeds
<1>4. CASE TurnTimedOut
  BY <1>4, Budgets DEF TurnTimedOut
<1>5. CASE TurnInTime
  BY <1>5, Budgets DEF TurnInTime
<1>6. CASE Chat
  BY <1>6, Budgets DEF Chat
<1>7. CASE ChatFails
  BY <1>7, Budgets DEF ChatFails
<1>8. CASE ReplyMalformed
  BY <1>8, Budgets DEF ReplyMalformed
<1>9. CASE ReplyWarned
  BY <1>9, Budgets DEF ReplyWarned
<1>10. CASE ReplyFinal
  BY <1>10, Budgets DEF ReplyFinal
<1>11. ASSUME NEW n \in 1..MaxCalls, ReplyCalls(n) PROVE RevokeInv'
  BY <1>11, Budgets DEF ReplyCalls
<1>12. CASE CallDenied
  BY <1>12, Budgets DEF CallDenied
<1>13. ASSUME NEW v \in {"allow", "ask"}, CallAdmitted(v) PROVE RevokeInv'
  BY <1>13, Budgets DEF CallAdmitted
<1>14. CASE CallAutoGranted
  BY <1>14, Budgets DEF CallAutoGranted
<1>15. CASE CallAsks
  BY <1>15, Budgets DEF CallAsks
<1>16. CASE CallApproved
  BY <1>16, Budgets DEF CallApproved
<1>17. CASE CallDeclined
  BY <1>17, Budgets DEF CallDeclined
<1>18. CASE RunCancelled
  BY <1>18, Budgets DEF RunCancelled
<1>19. CASE RunProceeds
  BY <1>19, Budgets DEF RunProceeds
<1>20. CASE ApprovalRevoked
  BY <1>20, Budgets DEF ApprovalRevoked
<1>21. CASE RunEnters
  BY <1>21, Budgets DEF RunEnters
<1>22. CASE HarnessRefuses
  BY <1>22, Budgets DEF HarnessRefuses
<1>23. CASE HarnessAdmits
  BY <1>23, Budgets DEF HarnessAdmits
<1>24. CASE ToolUnloadable
  BY <1>24, Budgets DEF ToolUnloadable
<1>25. ASSUME NEW ok \in BOOLEAN, RunTool(ok) PROVE RevokeInv'
  <2>1. CASE checked = "ask" /\ revoked_ids # {}
    <3>1. pc = "ready" /\ after_revoke = 0
      BY <1>25, <2>1 DEF RunTool
    <3>2. /\ after_revoke' = after_revoke + 1 /\ pc' = "call"
          /\ ref' = ref /\ minted' = minted /\ revoked_ids' = revoked_ids
      BY <1>25, <2>1 DEF RunTool
    <3>3. RevokeInv
      BY DEF LoopInv
    <3>4. after_revoke' = 1
      BY <3>1, <3>2
    <3> HIDE DEF LoopInv, GrantInv, LoopTypeOK
    <3> QED
      BY <2>1, <3>2, <3>3, <3>4
  <2>2. CASE checked = "ask" /\ revoked_ids = {}
    <3>1. after_revoke' = after_revoke /\ revoked_ids' = {} /\ pc' = "call"
      BY <1>25, <2>2 DEF RunTool
    <3> QED
      BY <1>25, <2>2, <3>1 DEF RunTool
  <2>3. CASE checked # "ask"
    <3>1. after_revoke' = after_revoke /\ pc' = "call"
      BY <1>25, <2>3 DEF RunTool
    <3> QED
      BY <1>25, <2>3, <3>1 DEF RunTool
  <2> QED
    BY <2>1, <2>2, <2>3
<1>26. CASE EndTurn
  BY <1>26, Budgets DEF EndTurn
<1>27. CASE Cancel
  BY <1>27, Budgets DEF Cancel
<1>28. CASE TimeOut
  BY <1>28, Budgets DEF TimeOut
<1>29. CASE Revoke
  BY <1>29, Budgets DEF Revoke
<1> QED
  BY <1>1, <1>2, <1>3, <1>4, <1>5, <1>6, <1>7, <1>8, <1>9, <1>10, <1>11,
       <1>12, <1>13, <1>14, <1>15, <1>16, <1>17, <1>18, <1>19, <1>20, <1>21,
       <1>22, <1>23, <1>24, <1>25, <1>26, <1>27, <1>28, <1>29 DEF LoopNext,
       Loop

LEMMA LoopStep == LoopInv /\ [LoopNext]_loop_vars => LoopInv'
BY LoopTypeStep, BudgetStep, GrantStep, CancelStep, RevokeStep DEF LoopInv

LEMMA LoopAlways == LoopSpec => []LoopInv
BY LoopStarts, LoopStep, PTL DEF LoopSpec

(* For every budget of steps, calls, stalls, format retries and automatic    *)
(* grants: the loop makes at most MaxSteps brain calls and runs no more ASK  *)
(* calls than those turns have room for.                                     *)
THEOREM LoopSafe == LoopSpec => [](LoopTypeOK /\ BudgetHolds)
<1>1. LoopInv => BudgetHolds
  <2> SUFFICES ASSUME LoopInv PROVE BudgetHolds
    OBVIOUS
  <2>1. chats <= MaxSteps
    BY Budgets DEF LoopInv, LoopTypeOK, BudgetInv
  <2>2. Room >= 0
    BY Budgets DEF LoopInv, LoopTypeOK, Room
  <2>3. Executed <= chats * MaxCalls
    <3>1. Executed \in Int /\ Room \in Int /\ chats * MaxCalls \in Int
      BY Budgets DEF LoopInv, LoopTypeOK, Room, Executed
    <3> QED
      BY <2>2, <3>1 DEF LoopInv, BudgetInv
  <2> QED
    BY <2>1, <2>3 DEF BudgetHolds, Executed
<1>2. LoopInv => LoopTypeOK
  BY DEF LoopInv
<1> QED
  BY LoopAlways, <1>1, <1>2, PTL

(* For every budget: a loop that reports NEEDS_APPROVAL ran no call that     *)
(* needed approval, and one whose calls all failed is "done" only after the  *)
(* model was told so.                                                        *)
THEOREM LoopTellsTheTruth == LoopSpec => []StatusIsHonest
<1>1. LoopInv => NeedsApprovalRanNothing
  BY DEF LoopInv, LoopTypeOK, GrantInv, NeedsApprovalRanNothing, Executed
<1>2. LoopInv => StatusIsHonest
  BY <1>1 DEF LoopInv, StatusIsHonest
<1> QED
  BY LoopAlways, <1>2, PTL

(* For every budget: a revocation lets at most one more ASK call start, for  *)
(* the rest of the task, although the tool's start is not atomic with the    *)
(* last question to the ledger.                                              *)
THEOREM LoopHonoursRevocation == LoopSpec => []RevocationBites
<1>1. LoopInv => RevocationBites
  BY DEF LoopInv, RevokeInv, RevocationBites
<1> QED
  BY LoopAlways, <1>1, PTL

(* For every budget: a cancellation lets at most one more brain call or tool *)
(* run start, of all that are left, although neither start is atomic with    *)
(* the reading of the token.                                                 *)
THEOREM LoopHonoursCancellation == LoopSpec => []CancellationBites
<1>1. LoopInv => CancellationBites
  BY DEF LoopInv, CancelInv, CancellationBites
<1> QED
  BY LoopAlways, <1>1, PTL

(* The steps the loop may still take: those of its turn, and a full turn for *)
(* each that is left. A call takes at most six: it waits for approval, passes *)
(* the token, the executor's inspection and the harness's, and runs.         *)
OfTurn ==
  CASE pc = "turn"      -> 6 * MaxCalls + 5
    [] pc = "clock"     -> 6 * MaxCalls + 4
    [] pc = "chat"      -> 6 * MaxCalls + 3
    [] pc = "reply"     -> 6 * MaxCalls + 2
    [] pc = "call"      -> 6 * left + 1
    [] pc = "approving" -> 6 * left
    [] pc = "run"       -> 6 * left - 1
    [] pc = "admit"     -> 6 * left - 2
    [] pc = "harness"   -> 6 * left - 3
    [] pc = "ready"     -> 6 * left - 4
    [] OTHER            -> 0

StepsLeft == (MaxSteps - step) * (6 * MaxCalls + 6) + OfTurn

LEMMA StepsAreCounted ==
  ASSUME LoopInv
  PROVE  /\ OfTurn \in Nat /\ StepsLeft \in Nat /\ (pc # "end" => OfTurn > 0)
         /\ StepsLeft <= MaxSteps * (6 * MaxCalls + 6)
<1> DEFINE full == 6 * MaxCalls + 6
<1>1. OfTurn \in Nat /\ OfTurn < full /\ (pc # "end" => OfTurn > 0)
  BY Budgets DEF LoopInv, LoopTypeOK, GrantInv, OfTurn, Running
<1>2. MaxSteps \in Nat /\ full \in Nat /\ step \in Nat /\ step >= 1 /\ step <= MaxSteps
  BY Budgets DEF LoopInv, LoopTypeOK
<1>3. StepsLeft = (MaxSteps - step) * full + OfTurn
  BY DEF StepsLeft
<1> HIDE DEF full
<1>4. (MaxSteps - step) * full \in Nat /\ (step - 1) * full \in Nat
  BY <1>2
<1>5. MaxSteps * full = (MaxSteps - step) * full + (step - 1) * full + full
  BY <1>2
<1> QED
  BY <1>1, <1>2, <1>3, <1>4, <1>5 DEF full

(* Arithmetic, for the turns that are left.                                  *)
LEMMA ProductIsNat ==
  ASSUME NEW m \in Nat, NEW k \in Nat, NEW s \in Nat, s <= m
  PROVE  (m - s) * k \in Nat
<1>1. m - s \in Nat
  OBVIOUS
<1> QED
  BY <1>1

LEMMA StepsStayCounted ==
  ASSUME LoopInv'
  PROVE  OfTurn' \in Nat /\ StepsLeft' \in Nat
<1>1. MaxSteps \in Nat /\ 6 * MaxCalls + 6 \in Nat
  BY Budgets
<1>2. step' \in Nat /\ step' <= MaxSteps
  BY Budgets DEF LoopInv, LoopTypeOK
<1>3. OfTurn' \in Nat
  BY Budgets DEF LoopInv, LoopTypeOK, GrantInv, OfTurn, Running
<1>4. (MaxSteps - step') * (6 * MaxCalls + 6) \in Nat
  BY <1>1, <1>2, ProductIsNat
<1> QED
  BY <1>3, <1>4 DEF StepsLeft

(* The measure of a step that stays in its turn, and of one that ends it.    *)
LEMMA SameTurn ==
  ASSUME LoopInv, LoopInv', step' = step, OfTurn' < OfTurn
  PROVE  StepsLeft' < StepsLeft
<1>1. (MaxSteps - step) * (6 * MaxCalls + 6) \in Nat
  BY Budgets DEF LoopInv, LoopTypeOK
<1>2. OfTurn \in Nat /\ OfTurn' \in Nat
  BY StepsAreCounted, StepsStayCounted
<1> QED
  BY <1>1, <1>2 DEF StepsLeft

LEMMA NextTurnIsLess ==
  ASSUME LoopInv, LoopInv', pc # "end", NextTurn
  PROVE  StepsLeft' < StepsLeft
<1>1. OfTurn \in Nat /\ OfTurn > 0
  BY StepsAreCounted
<1>2. CASE step < MaxSteps
  <2> DEFINE full == 6 * MaxCalls + 6
  <2>1. pc' = "turn" /\ step' = step + 1
    BY <1>2 DEF NextTurn
  <2>2. OfTurn' = full - 1 /\ full \in Nat /\ MaxSteps \in Nat /\ step \in Nat
    BY <2>1, Budgets DEF OfTurn, LoopInv, LoopTypeOK
  <2>3. StepsLeft = (MaxSteps - step) * full + OfTurn
    BY DEF StepsLeft
  <2>4. StepsLeft' = (MaxSteps - (step + 1)) * full + full - 1
    BY <2>1, <2>2 DEF StepsLeft
  <2> HIDE DEF full
  <2>5. (MaxSteps - step) * full = (MaxSteps - (step + 1)) * full + full
        /\ (MaxSteps - step) * full \in Int /\ (MaxSteps - (step + 1)) * full \in Int
    BY <2>2
  <2> QED
    BY <1>1, <2>2, <2>3, <2>4, <2>5
<1>3. CASE ~(step < MaxSteps)
  <2>1. pc' = "end" /\ step' = step
    BY <1>3 DEF NextTurn, Finish
  <2>2. OfTurn' = 0
    BY <2>1 DEF OfTurn
  <2> QED
    BY <1>1, <2>1, <2>2, SameTurn
<1> QED
  BY <1>2, <1>3

LEMMA FinishIsLess ==
  ASSUME LoopInv, LoopInv', pc # "end", NEW how, Finish(how)
  PROVE  StepsLeft' < StepsLeft
<1>1. OfTurn \in Nat /\ OfTurn > 0
  BY StepsAreCounted
<1>2. OfTurn' = 0 /\ step' = step
  BY DEF OfTurn, Finish
<1> QED
  BY <1>1, <1>2, SameTurn

(* Every step of the loop's own brings its end nearer, and no other thread   *)
(* takes it further away: for every budget it takes at most MaxSteps times   *)
(* 6 * MaxCalls + 6 steps. (Why run_loop returns, see Terminates.)           *)
THEOREM LoopGetsShorter ==
  LoopSpec => /\ [](StepsLeft \in 0..(MaxSteps * (6 * MaxCalls + 6)))
              /\ [][StepsLeft' <= StepsLeft /\ (Loop => StepsLeft' < StepsLeft)]_loop_vars
<1>1. LoopInv => StepsLeft \in 0..(MaxSteps * (6 * MaxCalls + 6))
  <2>1. MaxSteps * (6 * MaxCalls + 6) \in Nat
    BY Budgets
  <2> QED
    BY <2>1, StepsAreCounted
<1>2. ASSUME LoopInv, LoopInv', Loop PROVE StepsLeft' < StepsLeft
  <2>1. CASE TurnCancelled \/ TurnTimedOut \/ ChatFails \/ ReplyFinal
    <3>1. pc # "end" /\ \E how : Finish(how)
      BY <2>1 DEF TurnCancelled, TurnTimedOut, ChatFails, ReplyFinal
    <3> QED
      BY <1>2, <3>1, FinishIsLess
  <2>2. CASE ReplyMalformed \/ ReplyWarned
    <3>1. pc # "end" /\ NextTurn
      BY <2>2 DEF ReplyMalformed, ReplyWarned
    <3> QED
      BY <1>2, <3>1, NextTurnIsLess
  <2>3. CASE EndTurn
    <3>1. pc # "end" /\ (NextTurn \/ \E how : Finish(how))
      BY <2>3 DEF EndTurn
    <3> QED
      BY <1>2, <3>1, FinishIsLess, NextTurnIsLess
  <2>4. CASE TurnProceeds \/ TurnInTime \/ Chat \/ \E n \in 1..MaxCalls : ReplyCalls(n)
    <3>1. step' = step /\ OfTurn' < OfTurn
      BY <2>4, Budgets DEF TurnProceeds, TurnInTime, Chat, ReplyCalls, OfTurn
    <3> QED
      BY <1>2, <3>1, SameTurn
  <2>5. CASE CallDenied \/ CallDeclined \/ RunCancelled \/ ApprovalRevoked \/ HarnessRefuses
             \/ ToolUnloadable \/ \E ok \in BOOLEAN : RunTool(ok)
    <3>1. step' = step /\ OfTurn' < OfTurn
      BY <1>2, <2>5, Budgets
         DEF CallDenied, CallDeclined, RunCancelled, ApprovalRevoked, HarnessRefuses,
             ToolUnloadable, RunTool, Logged,
             Inspect, OfTurn, LoopInv, LoopTypeOK
    <3> QED
      BY <1>2, <3>1, SameTurn
  <2>6. CASE (\E v \in {"allow", "ask"} : CallAdmitted(v)) \/ CallAutoGranted \/ CallAsks
             \/ CallApproved \/ RunProceeds \/ RunEnters \/ HarnessAdmits
    <3>1. step' = step /\ OfTurn' < OfTurn
      BY <1>2, <2>6, Budgets
         DEF CallAdmitted, CallAutoGranted, CallAsks, CallApproved, RunProceeds, RunEnters,
             HarnessAdmits, Grant, budget, grant,
             Inspect, OfTurn, LoopInv, LoopTypeOK
    <3> QED
      BY <1>2, <3>1, SameTurn
  <2> QED
    BY <1>2, <2>1, <2>2, <2>3, <2>4, <2>5, <2>6 DEF Loop
<1>3. ASSUME LoopInv, LoopInv', [LoopNext]_loop_vars
      PROVE  StepsLeft' <= StepsLeft /\ (Loop => StepsLeft' < StepsLeft)
  <2>1. StepsLeft \in Nat /\ StepsLeft' \in Nat
    BY <1>3, StepsAreCounted, StepsStayCounted
  <2>2. CASE Loop
    BY <1>2, <1>3, <2>1, <2>2
  <2>3. CASE ~Loop
    <3>1. UNCHANGED <<pc, step, left>>
      BY <1>3, <2>3 DEF LoopNext, Cancel, TimeOut, Revoke, loop_vars
    <3>2. StepsLeft' = StepsLeft
      BY <3>1 DEF StepsLeft, OfTurn
    <3> QED
      BY <2>1, <2>3, <3>2
  <2> QED
    BY <2>2, <2>3
<1>4. LoopInv /\ LoopInv' /\ [LoopNext]_loop_vars
      => [StepsLeft' <= StepsLeft /\ (Loop => StepsLeft' < StepsLeft)]_loop_vars
  BY <1>3
<1> QED
  BY LoopAlways, <1>1, <1>4, PTL DEF LoopSpec

----------------------------------------------------------------------------
(* The harness.                                                              *)

(* The session's counters count what the session did: every start, and all   *)
(* the seconds that the tools took.                                          *)
CountersTell == calls = starts /\ exec_seconds = took

HarnessInv == HarnessTypeOK /\ CountersTell

Outcomes == {"ok", "ask", "denied", "refused", "limit", "not granted"}

LEMMA Constants ==
  /\ None \notin Workers /\ None \notin Roles /\ None \notin Verdicts
  /\ MaxStarts \in Nat \ {0} /\ MaxSessions \in Nat \ {0} /\ HISTORY_KEEP \in Nat \ {0}
  /\ Durations \subseteq Nat
  /\ DEFAULT_LIMITS \in [LimitNames -> Nat]
  /\ \A t \in DOMAIN Specs : IsSpec(Specs[t])
  /\ \A r \in Requests : IsRequest(r)
  /\ \A s \in Setups : IsSetup(s)
BY HarnessAssumption

----------------------------------------------------------------------------
(* The least and the greatest of a set, sequences of gates.                  *)

LEMMA MinIn ==
  ASSUME NEW S \in SUBSET Nat, S # {}
  PROVE  Min(S) \in S
<1>1. PICK x \in S : \A y \in S : ~(<<y, x>> \in OpToRel(<, Nat))
  BY NatLessThanWellFounded, WFMin
<1>2. \A y \in S : ~(y < x)
  BY <1>1 DEF OpToRel
<1>3. \A y \in S : x <= y
  BY <1>2
<1> QED
  BY <1>3 DEF Min

LEMMA MaxOfOneAnd ==
  ASSUME NEW n \in Int
  PROVE  Max({1, n}) = IF n > 1 THEN n ELSE 1
<1>1. CASE n > 1
  <2>1. \A x \in {1, n} : (\A y \in {1, n} : x >= y) <=> x = n
    BY <1>1
  <2> QED
    BY <1>1, <2>1 DEF Max
<1>2. CASE n <= 1
  <2>1. \A x \in {1, n} : (\A y \in {1, n} : x >= y) <=> x = 1
    BY <1>2
  <2> QED
    BY <1>2, <2>1 DEF Max
<1> QED
  BY <1>1, <1>2

AllOpen(gates) == \A i \in DOMAIN gates : gates[i] = "ok"

(* What First returns is one of the gates, unless all of them are open.      *)
LEMMA FirstIs ==
  ASSUME NEW S, NEW gates \in Seq(S)
  PROVE  /\ First(gates) \in S \cup {"ok"}
         /\ First(gates) = "ok" => AllOpen(gates)
<1> DEFINE shut == {i \in DOMAIN gates : gates[i] # "ok"}
<1>1. shut \in SUBSET Nat /\ \A i \in DOMAIN gates : gates[i] \in S
  BY LenProperties
<1>2. CASE shut = {}
  BY <1>2 DEF First, AllOpen
<1>3. CASE shut # {}
  <2>1. Min(shut) \in shut
    <3> HIDE DEF shut
    <3> QED
      BY <1>1, <1>3, MinIn
  <2>2. First(gates) = gates[Min(shut)]
    BY <1>3 DEF First
  <2> QED
    BY <1>1, <1>3, <2>1, <2>2
<1> QED
  BY <1>2, <1>3

LEMMA AllOfConcat ==
  ASSUME NEW S, NEW s \in Seq(S), NEW t \in Seq(S), AllOpen(s \o t)
  PROVE  AllOpen(s) /\ AllOpen(t)
<1>1. /\ Len(s) \in Nat /\ Len(t) \in Nat
      /\ DOMAIN s = 1..Len(s) /\ DOMAIN t = 1..Len(t)
      /\ DOMAIN (s \o t) = 1..Len(s) + Len(t)
      /\ \A i \in 1..Len(s) + Len(t) :
           (s \o t)[i] = IF i <= Len(s) THEN s[i] ELSE t[i - Len(s)]
  BY LenProperties, ConcatProperties
<1>2. ASSUME NEW i \in DOMAIN s PROVE s[i] = "ok"
  <2>1. i \in 1..Len(s) + Len(t) /\ i <= Len(s)
    BY <1>1
  <2> QED
    BY <1>1, <2>1 DEF AllOpen
<1>3. ASSUME NEW i \in DOMAIN t PROVE t[i] = "ok"
  <2>1. Len(s) + i \in 1..Len(s) + Len(t) /\ ~(Len(s) + i <= Len(s)) /\ Len(s) + i - Len(s) = i
    BY <1>1
  <2> QED
    BY <1>1, <2>1 DEF AllOpen
<1> QED
  BY <1>2, <1>3 DEF AllOpen

----------------------------------------------------------------------------
(* What the merged entry of a worker and its role says, against the raw      *)
(* words of the two.                                                         *)

Norm(e) == IF e = None THEN None ELSE norm_worker_entry(e)

LEMMA BothAre ==
  ASSUME NEW own, NEW of_role
  PROVE  /\ own = None /\ of_role = None => Both(own, of_role) = <<>>
         /\ own # None /\ of_role = None => Both(own, of_role) = <<own>>
         /\ own = None /\ of_role # None => Both(own, of_role) = <<of_role>>
         /\ own # None /\ of_role # None => Both(own, of_role) = <<own, of_role>>
<1> DEFINE S == {own, of_role}
<1>1. <<>> \in Seq(S) /\ <<own>> \in Seq(S) /\ <<of_role>> \in Seq(S) /\ <<own, of_role>> \in Seq(S)
  OBVIOUS
<1>2. /\ <<>> \o <<>> = <<>> /\ <<own>> \o <<>> = <<own>> /\ <<>> \o <<of_role>> = <<of_role>>
  BY <1>1, ConcatEmptySeq, Zenon
<1>3. <<own>> \o <<of_role>> = <<own, of_role>>
  <2> DEFINE s == <<own>> \o <<of_role>>
  <2>1. Len(<<own>>) = 1 /\ Len(<<of_role>>) = 1 /\ Len(<<own, of_role>>) = 2
        /\ <<own>>[1] = own /\ <<of_role>>[1] = of_role
        /\ <<own, of_role>>[1] = own /\ <<own, of_role>>[2] = of_role
    OBVIOUS
  <2>2. /\ s \in Seq(S) /\ Len(s) = Len(<<own>>) + Len(<<of_role>>)
        /\ \A i \in 1..Len(<<own>>) + Len(<<of_role>>) :
             s[i] = IF i <= Len(<<own>>) THEN <<own>>[i] ELSE <<of_role>>[i - Len(<<own>>)]
    BY <1>1, ConcatProperties
  <2> HIDE DEF s
  <2>3. Len(s) = 2 /\ s[1] = own /\ s[2] = of_role
    BY <2>1, <2>2
  <2>4. Len(s) = Len(<<own, of_role>>) /\ \A i \in 1..Len(s) : s[i] = <<own, of_role>>[i]
    BY <2>1, <2>3
  <2>5. s = <<own, of_role>>
    BY <1>1, <2>2, <2>4, SeqEqual
  <2> QED
    BY <2>5 DEF s
<1> QED
  BY <1>2, <1>3, Zenon DEF Both

LEMMA MinOf ==
  /\ Min({1}) = 1 /\ Min({2}) = 2 /\ Min({1, 2}) = 1
BY DEF Min

(* A word of a sequence of one or two entries.                               *)
LEMMA WordOfOne ==
  ASSUME NEW e, NEW section, NEW k
  PROVE  Word(<<e>>, section, k) = At(e[section], k)
<1>1. {i \in DOMAIN <<e>> : k \in DOMAIN <<e>>[i][section]} =
        IF k \in DOMAIN e[section] THEN {1} ELSE {}
  OBVIOUS
<1> QED
  BY <1>1, MinOf DEF Word, At

LEMMA WordOfTwo ==
  ASSUME NEW e, NEW f, NEW section, NEW k
  PROVE  Word(<<e, f>>, section, k) =
           IF k \in DOMAIN e[section] THEN e[section][k] ELSE At(f[section], k)
<1> DEFINE with == {i \in DOMAIN <<e, f>> : k \in DOMAIN <<e, f>>[i][section]}
<1>0. Word(<<e, f>>, section, k) = IF with = {} THEN None ELSE <<e, f>>[Min(with)][section][k]
  BY DEF Word
<1>1. CASE k \in DOMAIN e[section]
  <2>1. with = {1} \/ with = {1, 2}
    BY <1>1
  <2> HIDE DEF with
  <2>2. Min(with) = 1 /\ with # {}
    BY <2>1, MinOf
  <2>3. <<e, f>>[Min(with)] = e
    BY <2>2
  <2> QED
    BY <1>0, <1>1, <2>2, <2>3
<1>2. CASE k \notin DOMAIN e[section]
  <2>1. with = IF k \in DOMAIN f[section] THEN {2} ELSE {}
    BY <1>2
  <2> HIDE DEF with
  <2>2. k \in DOMAIN f[section] => <<e, f>>[Min(with)] = f
    BY <2>1, MinOf
  <2> QED
    BY <1>0, <1>2, <2>1, <2>2 DEF At
<1> QED
  BY <1>1, <1>2

(* A table of verdicts grants, and asks about, what the entries' first words *)
(* for the section do.                                                       *)
Tells(table, es, section) ==
  \A k : /\ At(table, k) \in Verdicts \cup {None}
         /\ k \in DOMAIN table => At(table, k) \in Verdicts
         /\ At(table, k) \in {"allow", "ask"} => At(table, k) = Word(es, section, k)

(* An entry grants what the first word of the raw entries grants, has the    *)
(* files of all of them, and the first one's limits.                         *)
Reflects(entry, es) ==
  /\ es # <<>>
  /\ entry.enabled => \A e \in ToSet(es) : e.enabled
  /\ Tells(entry.tools, es, "tools") /\ Tells(entry.capabilities, es, "capabilities")
  /\ \A g : g \cap entry.files["deny"] = {} => \A e \in ToSet(es) : g \cap e.files["deny"] = {}
  /\ \A g : \A op \in Ops : g \cap entry.files[op] # {} =>
                              \E e \in ToSet(es) : g \cap e.files[op] # {}
  /\ \A k \in LimitNames : entry.limits[k] \in Nat /\ entry.limits[k] = Budget(es, k)

LEMMA Normalized ==
  ASSUME NEW m, NEW k
  PROVE  /\ DOMAIN norm_verdict_map(m) = DOMAIN m
         /\ k \in DOMAIN m => /\ norm_verdict_map(m)[k] \in Verdicts
                              /\ norm_verdict_map(m)[k] \in {"allow", "ask"} =>
                                   norm_verdict_map(m)[k] = m[k]
BY DEF norm_verdict_map, verdict, Verdicts

LEMMA LimitsOfOne ==
  ASSUME NEW e, IsEntry(e), NEW k \in LimitNames, NEW es, es[1] = e
  PROVE  /\ k \in DOMAIN norm_limits(e.limits)
         /\ norm_limits(e.limits)[k] \in Nat
         /\ norm_limits(e.limits)[k] = Budget(es, k)
<1>1. DOMAIN DEFAULT_LIMITS = LimitNames /\ DEFAULT_LIMITS[k] \in Nat
  BY Constants
<1> QED
  BY <1>1 DEF norm_limits, Overlay, Budget, IsEntry

LEMMA OneReflects ==
  ASSUME NEW e, IsEntry(e)
  PROVE  Reflects(norm_worker_entry(e), <<e>>)
<1> DEFINE entry == norm_worker_entry(e)
<1>1. /\ entry.enabled = e.enabled /\ entry.files = e.files
      /\ entry.tools = norm_verdict_map(e.tools)
      /\ entry.capabilities = norm_verdict_map(e.capabilities)
      /\ entry.limits = norm_limits(e.limits)
  BY DEF norm_worker_entry
<1> HIDE DEF entry
<1>2. ToSet(<<e>>) = {e} /\ <<e>> # <<>> /\ <<e>>[1] = e
  BY DEF ToSet
<1>3. ASSUME NEW m, NEW section, e[section] = m
      PROVE  Tells(norm_verdict_map(m), <<e>>, section)
  <2>1. ASSUME NEW k
        PROVE  /\ At(norm_verdict_map(m), k) \in Verdicts \cup {None}
               /\ k \in DOMAIN norm_verdict_map(m) => At(norm_verdict_map(m), k) \in Verdicts
               /\ At(norm_verdict_map(m), k) \in {"allow", "ask"} =>
                    At(norm_verdict_map(m), k) = Word(<<e>>, section, k)
    <3>1. Word(<<e>>, section, k) = At(m, k)
      BY <1>3, WordOfOne
    <3>2. CASE k \in DOMAIN m
      BY <3>1, <3>2, Normalized DEF At
    <3>3. CASE k \notin DOMAIN m
      BY <3>1, <3>3, Normalized, Constants DEF At, Verdicts
    <3> QED
      BY <3>2, <3>3
  <2> QED
    BY <2>1 DEF Tells
<1>4. Tells(entry.tools, <<e>>, "tools") /\ Tells(entry.capabilities, <<e>>, "capabilities")
  BY <1>1, <1>3
<1>5. \A k \in LimitNames : entry.limits[k] \in Nat /\ entry.limits[k] = Budget(<<e>>, k)
  BY <1>1, <1>2, LimitsOfOne
<1> QED
  BY <1>1, <1>2, <1>4, <1>5 DEF Reflects, entry

LEMMA TwoReflect ==
  ASSUME NEW own, NEW of_role, IsEntry(own), IsEntry(of_role)
  PROVE  Reflects(merge_entries(norm_worker_entry(of_role), norm_worker_entry(own)),
                  <<own, of_role>>)
<1> DEFINE over == norm_worker_entry(own)
           base == norm_worker_entry(of_role)
           entry == merge_entries(base, over)
           es == <<own, of_role>>
<1>1. /\ over.enabled = own.enabled /\ over.files = own.files
      /\ over.tools = norm_verdict_map(own.tools)
      /\ over.capabilities = norm_verdict_map(own.capabilities)
      /\ over.limits = norm_limits(own.limits)
      /\ base.enabled = of_role.enabled /\ base.files = of_role.files
      /\ base.tools = norm_verdict_map(of_role.tools)
      /\ base.capabilities = norm_verdict_map(of_role.capabilities)
  BY DEF norm_worker_entry
<1>2. base # None /\ over # None
  BY DEF IsEntry
<1> HIDE DEF base, over
<1>3. /\ entry.enabled <=> base.enabled /\ over.enabled
      /\ entry.tools = Overlay(base.tools, over.tools)
      /\ entry.capabilities = Overlay(base.capabilities, over.capabilities)
      /\ \A op \in Ops : entry.files[op] = base.files[op] \cup over.files[op]
      /\ entry.limits = Overlay(base.limits, over.limits)
  BY <1>2 DEF merge_entries
<1> HIDE DEF entry
<1>4. ToSet(es) = {own, of_role} /\ es # <<>> /\ es[1] = own
  BY DEF ToSet
<1>5. ASSUME NEW m, NEW n, NEW section, own[section] = m, of_role[section] = n
      PROVE  Tells(Overlay(norm_verdict_map(n), norm_verdict_map(m)), es, section)
  <2> DEFINE table == Overlay(norm_verdict_map(n), norm_verdict_map(m))
  <2>1. ASSUME NEW k
        PROVE  /\ At(table, k) \in Verdicts \cup {None}
               /\ k \in DOMAIN table => At(table, k) \in Verdicts
               /\ At(table, k) \in {"allow", "ask"} => At(table, k) = Word(es, section, k)
    <3>1. Word(es, section, k) = IF k \in DOMAIN m THEN m[k] ELSE At(n, k)
      BY <1>5, WordOfTwo
    <3>2. /\ DOMAIN table = DOMAIN n \cup DOMAIN m
          /\ k \in DOMAIN m => table[k] = norm_verdict_map(m)[k]
          /\ k \in DOMAIN n \ DOMAIN m => table[k] = norm_verdict_map(n)[k]
      <4>1. DOMAIN norm_verdict_map(n) = DOMAIN n /\ DOMAIN norm_verdict_map(m) = DOMAIN m
        BY Normalized
      <4> QED
        BY <4>1 DEF Overlay
    <3> HIDE DEF table
    <3>3. CASE k \in DOMAIN m
      BY <3>1, <3>2, <3>3, Normalized DEF At
    <3>4. CASE k \in DOMAIN n \ DOMAIN m
      BY <3>1, <3>2, <3>4, Normalized DEF At
    <3>5. CASE k \notin DOMAIN n \cup DOMAIN m
      BY <3>1, <3>2, <3>5, Constants DEF At, Verdicts
    <3> QED
      BY <3>3, <3>4, <3>5
  <2> QED
    BY <2>1 DEF Tells
<1>6. Tells(entry.tools, es, "tools") /\ Tells(entry.capabilities, es, "capabilities")
  BY <1>1, <1>3, <1>5
<1>7. \A k \in LimitNames : entry.limits[k] \in Nat /\ entry.limits[k] = Budget(es, k)
  <2> SUFFICES ASSUME NEW k \in LimitNames
               PROVE  entry.limits[k] \in Nat /\ entry.limits[k] = Budget(es, k)
    OBVIOUS
  <2> HIDE DEF es
  <2>1. /\ k \in DOMAIN over.limits /\ over.limits[k] \in Nat
        /\ over.limits[k] = Budget(es, k)
    BY <1>1, <1>4, LimitsOfOne
  <2>2. entry.limits[k] = over.limits[k]
    BY <1>3, <2>1 DEF Overlay
  <2> QED
    BY <2>1, <2>2
<1>8. \A g : g \cap entry.files["deny"] = {} => \A e \in ToSet(es) : g \cap e.files["deny"] = {}
  BY <1>1, <1>3, <1>4 DEF Ops
<1>9. \A g : \A op \in Ops : g \cap entry.files[op] # {} =>
                               \E e \in ToSet(es) : g \cap e.files[op] # {}
  BY <1>1, <1>3, <1>4
<1> QED
  BY <1>1, <1>3, <1>4, <1>6, <1>7, <1>8, <1>9 DEF Reflects, entry, base, over

(* The entry a call is judged by reflects the raw entries that speak for it. *)
LEMMA RuleReflects ==
  ASSUME setup \in Setups, NEW l, rule_for(l.name, l.role) # None
  PROVE  Reflects(rule_for(l.name, l.role), Entries(l))
<1> DEFINE p == setup.permissions
<1>1. setup.permissions # None
  <2> SUFFICES ASSUME setup.permissions = None PROVE FALSE
    OBVIOUS
  <2>1. \A k : At(load_permissions.workers, k) = None /\ At(load_permissions.roles, k) = None
    BY DEF load_permissions, At
  <2> QED
    BY <2>1 DEF rule_for, merge_entries
<1>2. ASSUME NEW k
      PROVE  /\ At(p.workers, k) # None =>
                  /\ IsEntry(At(p.workers, k))
                  /\ At(load_permissions.workers, k) = norm_worker_entry(At(p.workers, k))
             /\ At(p.workers, k) = None => At(load_permissions.workers, k) = None
             /\ At(p.roles, k) # None =>
                  /\ IsEntry(At(p.roles, k))
                  /\ At(load_permissions.roles, k) = norm_worker_entry(At(p.roles, k))
             /\ At(p.roles, k) = None => At(load_permissions.roles, k) = None
  <2>1. /\ \A x \in DOMAIN p.workers : IsEntry(p.workers[x])
        /\ \A x \in DOMAIN p.roles : IsEntry(p.roles[x])
    BY <1>1, Constants DEF IsSetup
  <2>2. /\ load_permissions.workers = [x \in DOMAIN p.workers |-> norm_worker_entry(p.workers[x])]
        /\ load_permissions.roles = [x \in DOMAIN p.roles |-> norm_worker_entry(p.roles[x])]
    BY <1>1 DEF load_permissions
  <2>3. \A e : IsEntry(e) => e # None
    BY DEF IsEntry
  <2> QED
    BY <2>1, <2>2, <2>3 DEF At
<1>3. CASE l.name = None
  <2>1. rule_for(l.name, l.role) = At(load_permissions.workers, "default")
    BY <1>3 DEF rule_for
  <2>2. Entries(l) = Both(At(p.workers, "default"), None)
    BY <1>1, <1>3 DEF Entries
  <2> QED
    BY <1>2, <2>1, <2>2, BothAre, OneReflects
<1>4. CASE l.name # None
  <2> DEFINE own == At(p.workers, l.name)
             of_role == At(p.roles, l.role)
  <2>1. rule_for(l.name, l.role) =
          merge_entries(At(load_permissions.roles, l.role), At(load_permissions.workers, l.name))
    BY <1>4 DEF rule_for
  <2>2. Entries(l) = Both(own, of_role)
    BY <1>1, <1>4 DEF Entries
  <2>3. CASE own = None
    <3>1. rule_for(l.name, l.role) = At(load_permissions.roles, l.role)
      BY <1>2, <2>1, <2>3 DEF merge_entries
    <3> QED
      BY <1>2, <2>2, <2>3, <3>1, BothAre, OneReflects
  <2>4. CASE own # None /\ of_role = None
    <3>1. rule_for(l.name, l.role) = norm_worker_entry(own)
      BY <1>2, <2>1, <2>4 DEF merge_entries
    <3> QED
      BY <1>2, <2>2, <2>4, <3>1, BothAre, OneReflects
  <2>5. CASE own # None /\ of_role # None
    BY <1>2, <2>1, <2>2, <2>5, BothAre, TwoReflect
  <2> QED
    BY <2>3, <2>4, <2>5
<1> QED
  BY <1>3, <1>4

----------------------------------------------------------------------------
(* The gates of a call, and what it means that all of them are open.         *)

LEMMA NeedIsSeq ==
  ASSUME NEW req \in Requests, _action_caps(req) # None
  PROVE  \E n \in Nat : DOMAIN _action_caps(req) = 1..n
<1>1. \A S : \A s \in Seq(S) : Len(s) \in Nat /\ DOMAIN s = 1..Len(s)
  BY LenProperties
<1>2. CASE req.tool \notin DOMAIN Specs
  <2>1. _action_caps(req) = <<>>
    BY <1>2 DEF _action_caps
  <2>2. DOMAIN <<>> = 1..0
    OBVIOUS
  <2> QED
    BY <2>1, <2>2
<1>3. CASE req.tool \in DOMAIN Specs
  <2> DEFINE spec == Specs[req.tool]
  <2>1. IsSpec(spec)
    BY <1>3, Constants
  <2>2. CASE spec.action_capabilities = None
    <3>1. _action_caps(req) = required_caps(spec)
      BY <1>3, <2>2 DEF _action_caps
    <3> HIDE DEF spec
    <3>2. \/ required_caps(spec) = spec.permission_caps
          \/ DOMAIN required_caps(spec) = DOMAIN spec.capabilities
      BY DEF required_caps
    <3>3. \E n \in Nat : DOMAIN spec.permission_caps = 1..n
      BY <1>1, <2>1 DEF IsSpec
    <3>4. \E n \in Nat : DOMAIN spec.capabilities = 1..n
      BY <1>1, <2>1 DEF IsSpec
    <3> QED
      BY <3>1, <3>2, <3>3, <3>4
  <2>3. CASE spec.action_capabilities # None
    <3>1. _action_caps(req) = At(spec.action_capabilities, req.action)
      BY <1>3, <2>3 DEF _action_caps
    <3>2. req.action \in DOMAIN spec.action_capabilities
      BY <3>1 DEF At
    <3>3. _action_caps(req) \in Seq(Caps)
      BY <2>1, <2>3, <3>1, <3>2 DEF At, IsSpec
    <3> QED
      BY <1>1, <3>3
  <2> QED
    BY <2>2, <2>3
<1> QED
  BY <1>2, <1>3

LEMMA GrantedIs ==
  ASSUME NEW v \in Verdicts \cup {None}, NEW what, NEW yes
  PROVE  /\ Granted(v, what, yes) \in Outcomes
         /\ Granted(v, what, yes) = "ok" => v = "allow" \/ (v = "ask" /\ what \in yes)
         /\ v # None => Granted(v, what, yes) # "not granted"
BY Constants DEF Granted, ask, Verdicts, Outcomes

(* The gates stay within a set of outcomes that the verdicts stay within;    *)
(* and when all are open, so is each.                                        *)
LEMMA GatesAre ==
  ASSUME NEW req \in Requests, NEW entry, NEW yes, NEW S \in SUBSET Outcomes,
         {"ok", "refused", "limit"} \subseteq S,
         Granted(At(entry.tools, req.tool), <<req.tool>>, yes) \in S,
         NEW need, need = _action_caps(req),
         need # None => \A c \in ToSet(need) : Granted(At(entry.capabilities, c), c, yes) \in S
  PROVE  /\ Gates(req, need, entry, yes) \in Seq(S)
         /\ AllOpen(Gates(req, need, entry, yes)) =>
              /\ Granted(At(entry.tools, req.tool), <<req.tool>>, yes) = "ok"
              /\ need # None
              /\ \A c \in ToSet(need) : Granted(At(entry.capabilities, c), c, yes) = "ok"
              /\ req.path # None => check_resources(req.path, Op(need), entry)
              /\ check_limits(req, entry)
<1> DEFINE front == <<Granted(At(entry.tools, req.tool), <<req.tool>>, yes), Gate(need # None, "refused")>>
           caps == CapabilityGates(need, entry, yes)
           ready == <<Gate(Ready(req), "refused")>>
           paths == FileGates(req, need, entry)
           middle == IF need = None THEN <<>> ELSE (caps \o ready) \o paths
           end == <<Gate(check_limits(req, entry), "limit")>>
<1>1. Gates(req, need, entry, yes) = (front \o middle) \o end
  BY DEF Gates
<1>2. /\ \A open : Gate(open, "refused") \in S
      /\ \A open : Gate(open, "limit") \in S
      /\ \A open, reason : Gate(open, reason) = "ok" /\ reason # "ok" => open
  BY DEF Gate
<1>3. front \in Seq(S) /\ ready \in Seq(S) /\ end \in Seq(S)
  BY <1>2
<1>4. paths \in Seq(S)
  BY <1>2 DEF FileGates
<1>5. need # None => caps \in Seq(S)
  <2> SUFFICES ASSUME need # None PROVE caps \in Seq(S)
    OBVIOUS
  <2>1. PICK n \in Nat : DOMAIN need = 1..n
    BY NeedIsSeq
  <2>2. \A i \in 1..n : need[i] \in ToSet(need)
    BY <2>1 DEF ToSet
  <2>3. caps \in [1..n -> S]
    BY <2>1, <2>2 DEF CapabilityGates
  <2> QED
    BY <2>1, <2>3, SeqDef
<1>6. middle \in Seq(S)
  BY <1>3, <1>4, <1>5, ConcatProperties
<1>7. front \o middle \in Seq(S) /\ (front \o middle) \o end \in Seq(S)
  BY <1>3, <1>6, ConcatProperties
<1>8. ASSUME AllOpen((front \o middle) \o end)
      PROVE  /\ Granted(At(entry.tools, req.tool), <<req.tool>>, yes) = "ok"
             /\ need # None
             /\ \A c \in ToSet(need) : Granted(At(entry.capabilities, c), c, yes) = "ok"
             /\ req.path # None => check_resources(req.path, Op(need), entry)
             /\ check_limits(req, entry)
  <2>1. AllOpen(front \o middle) /\ AllOpen(end)
    BY <1>3, <1>7, <1>8, AllOfConcat
  <2>2. AllOpen(front) /\ AllOpen(middle)
    BY <1>3, <1>6, <2>1, AllOfConcat
  <2>3. Granted(At(entry.tools, req.tool), <<req.tool>>, yes) = "ok" /\ Gate(need # None, "refused") = "ok"
    <3>1. DOMAIN front = 1..2 /\ front[1] = Granted(At(entry.tools, req.tool), <<req.tool>>, yes)
          /\ front[2] = Gate(need # None, "refused")
      OBVIOUS
    <3> QED
      BY <2>2, <3>1 DEF AllOpen
  <2>4. need # None
    BY <2>3 DEF Gate
  <2>5. middle = (caps \o ready) \o paths
    BY <2>4
  <2>6. caps \o ready \in Seq(S)
    BY <1>3, <1>5, <2>4, ConcatProperties
  <2>7. AllOpen(caps \o ready) /\ AllOpen(paths)
    BY <1>4, <2>2, <2>5, <2>6, AllOfConcat
  <2>8. AllOpen(caps)
    BY <1>3, <1>5, <2>4, <2>7, AllOfConcat
  <2>9. \A c \in ToSet(need) : Granted(At(entry.capabilities, c), c, yes) = "ok"
    BY <2>8 DEF AllOpen, CapabilityGates, ToSet
  <2>10. req.path # None => check_resources(req.path, Op(need), entry)
    <3> SUFFICES ASSUME req.path # None
                 PROVE  check_resources(req.path, Op(need), entry)
      OBVIOUS
    <3>1. paths = <<Gate(safe_join(req.path), "refused"),
                    Gate(check_resources(req.path, Op(need), entry), "refused")>>
      BY DEF FileGates
    <3>2. Gate(check_resources(req.path, Op(need), entry), "refused") = "ok"
      BY <2>7, <3>1 DEF AllOpen
    <3> QED
      BY <3>2 DEF Gate
  <2>11. check_limits(req, entry)
    <3>1. Gate(check_limits(req, entry), "limit") = "ok"
      BY <2>1 DEF AllOpen
    <3> QED
      BY <3>1 DEF Gate
  <2> QED
    BY <2>3, <2>4, <2>9, <2>10, <2>11
<1> QED
  BY <1>1, <1>7, <1>8

----------------------------------------------------------------------------
(* A call that inspect lets through is allowed by the raw entries and within *)
(* the session's limits.                                                     *)

(* What Execute records of the call it runs.                                 *)
Record(req, yes) ==
  [req |-> req, name |-> Caller(req.who), role |-> _role_for(req.who),
   yes |-> yes, before |-> took]

LEMMA InspectedIsAllowed ==
  ASSUME HarnessInv, NEW req \in Requests, NEW yes, inspect(req, yes) = "ok",
         NEW l, l = Record(req, yes)
  PROVE  /\ Allowed(l, Entries(l))
         /\ Budget(Entries(l), "max_tool_calls") \in Nat
         /\ calls < Budget(Entries(l), "max_tool_calls")
         /\ exec_seconds < Budget(Entries(l), "max_execution_time")
         /\ req.tool \in DOMAIN Specs \cup overrides
<1> DEFINE entry == rule_for(l.name, l.role)
           need == _action_caps(req)
           es == Entries(l)
<1>1. /\ l.name = Caller(req.who) /\ l.role = _role_for(req.who)
      /\ l.req = req /\ l.yes = yes
  BY DEF Record
<1>2. /\ entry # None /\ entry.enabled
      /\ req.tool \in DOMAIN Specs \cup overrides
      /\ First(Gates(req, need, entry, yes)) = "ok"
  <2>1. entry = rule_for(Caller(req.who), _role_for(req.who))
    BY <1>1
  <2> HIDE DEF entry, need
  <2> QED
    BY <2>1 DEF inspect, need
<1>3. Reflects(entry, es)
  BY <1>2, RuleReflects DEF HarnessInv, HarnessTypeOK
<1> HIDE DEF entry, es
<1>4. /\ es # <<>> /\ \A e \in ToSet(es) : e.enabled
      /\ Tells(entry.tools, es, "tools") /\ Tells(entry.capabilities, es, "capabilities")
  BY <1>2, <1>3 DEF Reflects
<1>5. \A k : /\ At(entry.tools, k) \in Verdicts \cup {None}
             /\ At(entry.capabilities, k) \in Verdicts \cup {None}
  BY <1>4 DEF Tells
<1>6. /\ Granted(At(entry.tools, req.tool), <<req.tool>>, yes) \in Outcomes
      /\ \A c : Granted(At(entry.capabilities, c), c, yes) \in Outcomes
  BY <1>5, GrantedIs
<1>7. /\ Gates(req, need, entry, yes) \in Seq(Outcomes)
      /\ AllOpen(Gates(req, need, entry, yes)) =>
           /\ Granted(At(entry.tools, req.tool), <<req.tool>>, yes) = "ok"
           /\ need # None
           /\ \A c \in ToSet(need) : Granted(At(entry.capabilities, c), c, yes) = "ok"
           /\ req.path # None => check_resources(req.path, Op(need), entry)
           /\ check_limits(req, entry)
  <2>1. {"ok", "refused", "limit"} \subseteq Outcomes
    BY DEF Outcomes
  <2> HIDE DEF need
  <2>2. need = _action_caps(req)
    BY DEF need
  <2> QED
    BY <1>6, <2>1, <2>2, GatesAre
<1> HIDE DEF need
<1>8. AllOpen(Gates(req, need, entry, yes))
  BY <1>2, <1>7, FirstIs
<1>9. Says(es, "tools", req.tool, <<req.tool>>, yes)
  <2>1. LET v == At(entry.tools, req.tool) IN v = "allow" \/ (v = "ask" /\ <<req.tool>> \in yes)
    BY <1>5, <1>7, <1>8, GrantedIs
  <2> QED
    BY <1>4, <2>1 DEF Says, Tells
<1>10. ASSUME NEW c \in ToSet(need)
       PROVE  Says(es, "capabilities", c, c, yes)
  <2>1. LET v == At(entry.capabilities, c) IN v = "allow" \/ (v = "ask" /\ c \in yes)
    BY <1>5, <1>7, <1>8, GrantedIs
  <2> QED
    BY <1>4, <2>1 DEF Says, Tells
<1>11. ASSUME req.path # None
       PROVE  /\ \A e \in ToSet(es) : req.path.globs \cap e.files["deny"] = {}
              /\ req.path.in_session \/
                   \E e \in ToSet(es), op \in IF Op(need) = "" THEN {"read", "write"} ELSE {Op(need)} :
                     req.path.globs \cap e.files[op] # {}
  <2>1. check_resources(req.path, Op(need), entry)
    BY <1>7, <1>8, <1>11
  <2>2. Op(need) \in {"", "read", "write"}
    BY DEF Op
  <2>3. \A e \in ToSet(es) : req.path.globs \cap e.files["deny"] = {}
    BY <1>3, <2>1 DEF check_resources, Reflects
  <2>4. \A op \in {"read", "write"} : req.path.globs \cap entry.files[op] # {} =>
          \E e \in ToSet(es) : req.path.globs \cap e.files[op] # {}
    BY <1>3 DEF Reflects, Ops
  <2>5. req.path.in_session \/ \E op \in IF Op(need) = "" THEN {"read", "write"} ELSE {Op(need)} :
                                  req.path.globs \cap entry.files[op] # {}
    BY <2>1, <2>2 DEF check_resources
  <2> QED
    BY <2>2, <2>3, <2>4, <2>5
<1>12. Allowed(l, es)
  BY <1>1, <1>4, <1>9, <1>10, <1>11 DEF Allowed, need
<1>13. /\ Budget(es, "max_tool_calls") \in Nat
       /\ calls < Budget(es, "max_tool_calls")
       /\ exec_seconds < Budget(es, "max_execution_time")
  BY <1>3, <1>7, <1>8 DEF check_limits, Reflects, LimitNames
<1> QED
  BY <1>2, <1>12, <1>13 DEF es

----------------------------------------------------------------------------
(* The steps.                                                                *)

Records == [session: 1..MaxSessions, event: {"started", "rotated", "planned"}]

LEMMA HarnessStarts == HarnessInit => HarnessInv /\ CallsAreGranted
<1> SUFFICES ASSUME HarnessInit PROVE HarnessInv /\ CallsAreGranted
  OBVIOUS
<1>1. IsSetup(setup)
  BY Constants DEF HarnessInit
<1>2. PICK D \in SUBSET Workers : roster \in [D -> Roles \cup {None}]
  BY <1>1 DEF HarnessInit, IsSetup
<1>3. /\ roster \in [DOMAIN setup.roster -> Roles \cup {None}]
      /\ worker_role \in Roles \cup {None}
  BY <1>2 DEF HarnessInit, load_worker_role, At
<1>4. history \in Seq(Records) /\ Len(history) = 1
  <2>1. [session |-> 1, event |-> "started"] \in Records
    BY Constants DEF Records
  <2> QED
    BY <2>1 DEF HarnessInit
<1>5. /\ setup \in Setups /\ worker \in DOMAIN roster \cup {None}
      /\ overrides = {} /\ cache = {} /\ session = 1 /\ calls = 0 /\ exec_seconds = 0
      /\ starts = 0 /\ took = 0 /\ plan = None /\ last = None
  BY DEF HarnessInit
<1>6. /\ overrides \subseteq Tools /\ cache \subseteq DOMAIN Specs /\ cache \cap overrides = {}
      /\ session \in 1..MaxSessions /\ calls \in 0..MaxStarts
  BY <1>5, Constants
<1>7. Len(history) \in 1..HISTORY_KEEP
  BY <1>4, Constants
<1> QED
  BY <1>3, <1>4, <1>5, <1>6, <1>7 DEF HarnessInv, HarnessTypeOK, CountersTell, CallsAreGranted, Records

(* The kept records of a session's history: never none, never too many.      *)
LEMMA KeptRecords ==
  ASSUME HarnessInv, NEW event \in {"started", "rotated", "planned"},
         session' \in 1..MaxSessions, history' = Recorded(event)
  PROVE  history' \in Seq(Records) /\ Len(history') \in 1..HISTORY_KEEP
<1> DEFINE all == Append(history, [session |-> session', event |-> event])
           n == Len(history) + 1
           first == IF n - HISTORY_KEEP + 1 > 1 THEN n - HISTORY_KEEP + 1 ELSE 1
<1>1. history \in Seq(Records) /\ Len(history) \in Nat /\ Len(history) >= 1
      /\ Len(history) <= HISTORY_KEEP /\ HISTORY_KEEP \in Nat \ {0}
  BY Constants DEF HarnessInv, HarnessTypeOK, Records
<1>2. [session |-> session', event |-> event] \in Records
  BY DEF Records
<1>3. all \in Seq(Records) /\ Len(all) = n
  BY <1>1, <1>2
<1>4. n - HISTORY_KEEP + 1 \in Int /\ n \in Int /\ first \in Int /\ 1 <= first /\ first <= n
      /\ n - first + 1 \in 1..HISTORY_KEEP
  BY <1>1
<1>5. history' = SubSeq(all, Max({1, n - HISTORY_KEEP + 1}), n)
  BY <1>3 DEF Recorded
<1> HIDE DEF all, n
<1>6. Max({1, n - HISTORY_KEEP + 1}) = first
  BY <1>4, MaxOfOneAnd
<1> HIDE DEF first
<1>7. \A i \in first..n : all[i] \in Records
  <2>1. \A i \in 1..n : all[i] \in Records
    BY <1>3, ElementOfSeq
  <2> QED
    BY <1>4, <2>1
<1>8. /\ SubSeq(all, first, n) \in Seq(Records)
      /\ Len(SubSeq(all, first, n)) = IF first <= n THEN n - first + 1 ELSE 0
  BY <1>4, <1>7, SubSeqProperties
<1> QED
  BY <1>4, <1>5, <1>6, <1>8

(* Running a call: what it starts is counted, and it was allowed.            *)
LEMMA ExecuteStep ==
  ASSUME HarnessInv, NEW req \in Requests, NEW yes, calls < MaxStarts, run_tool(req, yes)
  PROVE  HarnessInv' /\ CallsAreGranted'
<1>1. UNCHANGED <<setup, identity, overrides, session, files>>
  BY DEF run_tool
<1>2. CASE ~(inspect(req, yes) = "ok" /\ Loads(req.tool))
  <2>1. last' = None /\ UNCHANGED <<calls, exec_seconds, starts, took, cache>>
    BY <1>2 DEF run_tool
  <2> QED
    BY <1>1, <2>1 DEF HarnessInv, HarnessTypeOK, CountersTell, CallsAreGranted, identity, files
<1>3. CASE inspect(req, yes) = "ok" /\ Loads(req.tool)
  <2> DEFINE l == Record(req, yes)
  <2>1. Execute(req, yes)
    BY <1>3 DEF run_tool
  <2>2. /\ Allowed(l, Entries(l))
        /\ Budget(Entries(l), "max_tool_calls") \in Nat
        /\ calls < Budget(Entries(l), "max_tool_calls")
        /\ exec_seconds < Budget(Entries(l), "max_execution_time")
        /\ req.tool \in DOMAIN Specs \cup overrides
    BY <1>3, InspectedIsAllowed
  <2>3. last' = l /\ l.before = took /\ starts' = starts + 1 /\ calls' = calls + 1
    BY <2>1 DEF Execute, Record
  <2>4. PICK d \in Durations : exec_seconds' = exec_seconds + d /\ took' = took + d
    BY <2>1 DEF Execute
  <2>5. cache' = IF req.tool \in overrides THEN cache ELSE cache \cup {req.tool}
    BY <2>1 DEF Execute
  <2> HIDE DEF l
  <2>6. HarnessTypeOK'
    <3>1. /\ overrides' \subseteq Tools /\ cache' \subseteq DOMAIN Specs
          /\ cache' \cap overrides' = {}
      BY <1>1, <2>2, <2>5 DEF HarnessInv, HarnessTypeOK
    <3>2. /\ calls' \in 0..MaxStarts /\ exec_seconds' \in Nat /\ starts' \in Nat /\ took' \in Nat
      BY <2>3, <2>4, Constants DEF HarnessInv, HarnessTypeOK
    <3> QED
      BY <1>1, <3>1, <3>2 DEF HarnessInv, HarnessTypeOK, identity, files
  <2>7. CountersTell'
    BY <2>3, <2>4 DEF HarnessInv, CountersTell
  <2>8. CallsAreGranted'
    <3>1. PICK r : r = last'
      OBVIOUS
    <3>2. Entries(r)' = Entries(r)
      BY <1>1 DEF Entries
    <3>3. starts' <= Budget(Entries(r), "max_tool_calls") /\ r.before < Budget(Entries(r), "max_execution_time")
      <4>1. calls = starts /\ exec_seconds = took /\ starts \in Nat
        BY DEF HarnessInv, CountersTell, HarnessTypeOK
      <4> QED
        BY <2>2, <2>3, <3>1, <4>1
    <3>4. Admitted(r)'
      BY <2>2, <2>3, <3>1, <3>2, <3>3 DEF Admitted
    <3> QED
      BY <3>1, <3>4 DEF CallsAreGranted
  <2> QED
    BY <2>6, <2>7, <2>8 DEF HarnessInv
<1> QED
  BY <1>2, <1>3

(* Every other action leaves no call that just ran.                          *)
LEMMA HarnessStep ==
  ASSUME HarnessInv, CallsAreGranted, [HarnessNext]_vars
  PROVE  HarnessInv' /\ CallsAreGranted'
<1> USE DEF HarnessInv
<1>1. CASE EditRoster
  <2>1. /\ UNCHANGED <<setup, worker, worker_role, tools, counters, files>> /\ last' = None
        /\ DOMAIN roster' = DOMAIN roster /\ roster' \in [DOMAIN setup.roster -> Roles \cup {None}]
    BY <1>1 DEF EditRoster, HarnessTypeOK
  <2> QED
    BY <2>1 DEF HarnessTypeOK, CountersTell, CallsAreGranted, tools, counters, files
<1>2. CASE bind
  <2>1. /\ UNCHANGED <<setup, roster, tools, counters, files>> /\ last' = None
        /\ worker' \in DOMAIN roster \cup {None} /\ worker_role' \in Roles \cup {None}
    BY <1>2 DEF bind, assert_worker_known, load_worker_role, At, HarnessTypeOK
  <2> QED
    BY <2>1 DEF HarnessTypeOK, CountersTell, CallsAreGranted, tools, counters, files
<1>3. CASE register
  <2>1. PICK t \in Tools : overrides' = overrides \cup {t} /\ cache' = cache \ {t}
    BY <1>3 DEF register
  <2>2. UNCHANGED <<setup, identity, counters, files>> /\ last' = None
    BY <1>3 DEF register
  <2>3. /\ overrides' \subseteq Tools /\ cache' \subseteq DOMAIN Specs
        /\ cache' \cap overrides' = {}
    BY <2>1 DEF HarnessTypeOK
  <2> QED
    BY <2>2, <2>3 DEF HarnessTypeOK, CountersTell, CallsAreGranted, identity, counters, files
<1>4. CASE create_session
  <2>1. /\ session' \in 1..MaxSessions /\ calls' = 0 /\ exec_seconds' = 0
        /\ starts' = 0 /\ took' = 0 /\ plan' = None /\ last' = None
        /\ UNCHANGED <<setup, identity, tools>> /\ history' = Recorded("rotated")
    BY <1>4, Constants DEF create_session, HarnessTypeOK
  <2>2. history' \in Seq(Records) /\ Len(history') \in 1..HISTORY_KEEP
    BY <2>1, KeptRecords
  <2>3. calls' \in 0..MaxStarts
    BY <2>1, Constants
  <2> QED
    BY <2>1, <2>2, <2>3 DEF HarnessTypeOK, CountersTell, CallsAreGranted, identity, tools, Records
<1>5. CASE start_plan
  <2>1. /\ plan' \in {"pending-approval", "auto-approved"} /\ last' = None
        /\ UNCHANGED <<setup, identity, tools, counters>> /\ history' = Recorded("planned")
        /\ session' \in 1..MaxSessions
    BY <1>5 DEF start_plan, HarnessTypeOK, counters
  <2>2. history' \in Seq(Records) /\ Len(history') \in 1..HISTORY_KEEP
    BY <2>1, KeptRecords
  <2> QED
    BY <2>1, <2>2 DEF HarnessTypeOK, CountersTell, CallsAreGranted, identity, tools, counters, Records
<1>6. CASE approve_plan
  <2>1. /\ plan' \in {"approved", "rejected"} /\ last' = None
        /\ UNCHANGED <<setup, identity, tools, counters, history>>
    BY <1>6 DEF approve_plan
  <2> QED
    BY <2>1 DEF HarnessTypeOK, CountersTell, CallsAreGranted, identity, tools, counters
<1>7. CASE run
  BY <1>7, ExecuteStep DEF run
<1>8. CASE executor_run
  BY <1>8, ExecuteStep DEF executor_run
<1>9. CASE UNCHANGED vars
  BY <1>9 DEF vars, HarnessTypeOK, CountersTell, CallsAreGranted, Admitted, Entries,
     identity, tools, counters, files
<1> QED
  BY <1>1, <1>2, <1>3, <1>4, <1>5, <1>6, <1>7, <1>8, <1>9 DEF HarnessNext

LEMMA HarnessAlways == HarnessSpec => [](HarnessInv /\ CallsAreGranted)
<1>1. (HarnessInv /\ CallsAreGranted) /\ [HarnessNext]_vars => (HarnessInv /\ CallsAreGranted)'
  BY HarnessStep
<1> QED
  BY <1>1, HarnessStarts, PTL DEF HarnessSpec

(* For any registry, roster and deployment, a harness stays within its       *)
(* types: in particular a registered function is never shadowed by one that  *)
(* was imported before, and the session history stays within its bound       *)
(* (engine.py register, sandbox.py record_session_history).                  *)
THEOREM HarnessIsTyped == HarnessSpec => []HarnessTypeOK
BY HarnessAlways, PTL DEF HarnessInv

(* For any permissions, requests, limits and approvers, every call that runs *)
(* was granted by the raw entries of the worker it ran as and of its role,   *)
(* and fits the session's budget of calls and of seconds (engine.py inspect  *)
(* and run_tool, permission.py, limits.py).                                  *)
THEOREM OnlyGrantedCallsRun == HarnessSpec => []CallsAreGranted
BY HarnessAlways, PTL

----------------------------------------------------------------------------
(* The audit.                                                                *)

(* What either of two entries has a word on, the merged one has a verdict    *)
(* on; and a verdict is never missing where there is one.                    *)
LEMMA MergedCovers ==
  ASSUME setup \in Setups, NEW name, NEW role, name # None,
         NEW entry \in {At(load_permissions.workers, name), At(load_permissions.roles, role)},
         entry # None
  PROVE  /\ DOMAIN entry.tools \subseteq DOMAIN rule_for(name, role).tools
         /\ DOMAIN entry.capabilities \subseteq DOMAIN rule_for(name, role).capabilities
<1> DEFINE own == At(load_permissions.workers, name)
           of_role == At(load_permissions.roles, role)
<1>1. rule_for(name, role) = merge_entries(of_role, own)
  BY DEF rule_for
<1> HIDE DEF own, of_role
<1>2. entry \in {own, of_role}
  BY DEF own, of_role
<1>3. CASE own # None /\ of_role # None
  BY <1>1, <1>2, <1>3 DEF merge_entries, Overlay
<1>4. CASE own = None \/ of_role = None
  BY <1>1, <1>2, <1>4 DEF merge_entries
<1> QED
  BY <1>3, <1>4

LEMMA Inspected ==
  ASSUME setup \in Setups, NEW req \in Requests, NEW yes,
         NEW entry, entry = rule_for(Caller(req.who), _role_for(req.who)),
         req.tool \in DOMAIN entry.tools,
         _action_caps(req) # None =>
           \A c \in ToSet(_action_caps(req)) : c \in DOMAIN entry.capabilities
  PROVE  inspect(req, yes) # "not granted"
<1> DEFINE need == _action_caps(req)
           S == Outcomes \ {"not granted"}
           l == [name |-> Caller(req.who), role |-> _role_for(req.who)]
<1>1. CASE \/ req.allow # None /\ req.tool \notin req.allow
           \/ entry = None \/ ~entry.enabled
           \/ req.tool \notin DOMAIN Specs \cup overrides
  BY <1>1 DEF inspect
<1>2. CASE ~(\/ req.allow # None /\ req.tool \notin req.allow
             \/ entry = None \/ ~entry.enabled
             \/ req.tool \notin DOMAIN Specs \cup overrides)
  <2>1. inspect(req, yes) = First(Gates(req, need, entry, yes))
    BY <1>2 DEF inspect
  <2>2. Reflects(entry, Entries(l))
    <3>1. l.name = Caller(req.who) /\ l.role = _role_for(req.who)
      OBVIOUS
    <3> HIDE DEF l
    <3> QED
      BY <1>2, <3>1, RuleReflects
  <2>3. \A k : /\ At(entry.tools, k) \in Verdicts \cup {None}
               /\ At(entry.capabilities, k) \in Verdicts \cup {None}
    BY <2>2 DEF Reflects, Tells
  <2>4. /\ At(entry.tools, req.tool) # None
        /\ need # None => \A c \in ToSet(need) : At(entry.capabilities, c) # None
    BY <2>2, Constants DEF Reflects, Tells
  <2>5. /\ Granted(At(entry.tools, req.tool), <<req.tool>>, yes) \in S
        /\ need # None => \A c \in ToSet(need) : Granted(At(entry.capabilities, c), c, yes) \in S
    <3>1. \A v \in Verdicts \cup {None} : \A what : v # None => Granted(v, what, yes) \in S
      BY GrantedIs
    <3> HIDE DEF S, need
    <3>2. Granted(At(entry.tools, req.tool), <<req.tool>>, yes) \in S
      BY <2>3, <2>4, <3>1
    <3>3. ASSUME need # None, NEW c \in ToSet(need)
          PROVE  Granted(At(entry.capabilities, c), c, yes) \in S
      BY <2>3, <2>4, <3>1, <3>3
    <3> QED
      BY <3>2, <3>3
  <2>6. S \in SUBSET Outcomes /\ {"ok", "refused", "limit"} \subseteq S
    BY DEF Outcomes
  <2> HIDE DEF need, S
  <2>7. need = _action_caps(req)
    BY DEF need
  <2>8. Gates(req, need, entry, yes) \in Seq(S)
    BY <2>5, <2>6, <2>7, GatesAre
  <2>9. First(Gates(req, need, entry, yes)) \in S
    BY <2>6, <2>8, FirstIs
  <2> QED
    BY <2>1, <2>9 DEF S
<1> QED
  BY <1>1, <1>2

LEMMA AuditCovers ==
  ASSUME HarnessTypeOK
  PROVE  AuditIsComplete
<1> SUFFICES ASSUME NEW req \in Requests, req.tool \in DOMAIN Specs,
                    Specs[req.tool].action_capabilities # None, Caller(req.who) # None,
                    NEW audited \in {At(load_permissions.workers, Caller(req.who)),
                                     At(load_permissions.roles, _role_for(req.who))},
                    audited # None,
                    audit_tool_coverage(audited) = [tools |-> {}, capabilities |-> {}]
             PROVE  inspect(req, Asks(req)) # "not granted"
  BY DEF AuditIsComplete
<1> DEFINE entry == rule_for(Caller(req.who), _role_for(req.who))
           spec == Specs[req.tool]
           need == _action_caps(req)
<1>1. /\ DOMAIN audited.tools \subseteq DOMAIN entry.tools
      /\ DOMAIN audited.capabilities \subseteq DOMAIN entry.capabilities
  BY MergedCovers DEF HarnessTypeOK
<1>2. /\ registry_coverage.tools \subseteq DOMAIN audited.tools
      /\ registry_coverage.caps \subseteq DOMAIN audited.capabilities
  <2>1. /\ (registry_coverage.tools \ DOMAIN audited.tools) = {}
        /\ (registry_coverage.caps \ DOMAIN audited.capabilities) = {}
    <3> HIDE DEF entry
    <3> QED
      BY DEF audit_tool_coverage
  <2> QED
    BY <2>1
<1>3. req.tool \in registry_coverage.tools
  BY DEF registry_coverage
<1>4. ASSUME need # None, NEW c \in ToSet(need)
      PROVE  c \in registry_coverage.caps
  <2>1. need = At(spec.action_capabilities, req.action)
    BY DEF _action_caps
  <2>2. req.action \in DOMAIN spec.action_capabilities /\ need = spec.action_capabilities[req.action]
    BY <1>4, <2>1 DEF At
  <2>3. c \in UNION {ToSet(spec.action_capabilities[a]) : a \in DOMAIN spec.action_capabilities}
    BY <1>4, <2>2
  <2> QED
    BY <2>3 DEF registry_coverage
<1> HIDE DEF entry
<1>5. req.tool \in DOMAIN entry.tools
  BY <1>1, <1>2, <1>3
<1>6. need # None => \A c \in ToSet(need) : c \in DOMAIN entry.capabilities
  BY <1>1, <1>2, <1>4
<1> QED
  BY <1>5, <1>6, Inspected DEF HarnessTypeOK, entry

(* For any registry and permissions: an audit that finds nothing missing in  *)
(* the entry of a worker or of its role vouches for every call of the worker *)
(* to a tool with mapped actions, whatever the other entry lacks             *)
(* (permission.py registry_coverage, merge_entries, engine.py inspect).      *)
THEOREM AuditsVouch == HarnessSpec => []AuditIsComplete
<1>1. HarnessInv => AuditIsComplete
  BY AuditCovers DEF HarnessInv
<1> QED
  BY <1>1, HarnessAlways, PTL

============================================================================
