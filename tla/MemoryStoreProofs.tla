------------------------- MODULE MemoryStoreProofs -------------------------
(***************************************************************************)
(* Proofs about MemoryStore: for any number of threads, tasks and          *)
(* versions, the in-memory store implements the port (TaskStore), and a    *)
(* recovery that finishes leaves no run it found RUNNING current.          *)
(***************************************************************************)
EXTENDS MemoryStore, SequenceTheorems, FiniteSetTheorems, WellFoundedInduction, TLAPS

Types ==
  /\ current \in [Ids -> Run \cup {None}]
  /\ seen \in [Clients -> Run \cup {None}]
  /\ moving \in [task: Ids, version: Nat] \cup {None}
  /\ stuck \in SUBSET Ids
  /\ recovery \in {"idle", "running", "done", "raised"}
  /\ history \in SUBSET Run
  /\ stale \in SUBSET Run

(* The run object of a task is the latest of its history. Only a recovery    *)
(* goes past the callers' bound, and only once: a BLOCKED run is not blocked *)
(* again.                                                                    *)
CurrentIsLatest ==
  /\ \A t \in Ids : Known(t) =>
       /\ current[t] \in history
       /\ current[t].task = t
       /\ current[t].version <= MaxVersion + 1
       /\ current[t].version = MaxVersion + 1 => current[t].state = "blocked"
       /\ \A q \in history : q.task = t => q.version <= current[t].version
  /\ \A q \in history : Known(q.task)

(* Callers hold copies of known tasks only.                                  *)
SeenIsKnown == \A c \in Clients : seen[c] # None => Known(seen[c].task)

(* A run the recovery found RUNNING is still to be visited, or just being    *)
(* moved with its own version, as long as it is current.                     *)
StaleIsListed ==
  /\ stale \subseteq history
  /\ moving # None => Known(moving.task) /\ recovery = "running"
  /\ recovery \in {"running", "done"} =>
       \A r \in stale : r = current[r.task] =>
         \/ r.task \in stuck
         \/ moving # None /\ moving.task = r.task /\ moving.version = r.version
  /\ recovery \in {"idle", "done"} => stuck = {} /\ moving = None
  /\ \A t \in stuck : Known(t)

StoreInv == Types /\ CurrentIsLatest /\ SeenIsKnown /\ StaleIsListed

LEMMA Constants ==
  /\ None \notin Run /\ None \notin AttemptNos
  /\ None \notin [task: Ids, version: Nat]
  /\ MaxVersion \in Nat /\ 1 \in AttemptNos
  /\ "blocked" \in States /\ "created" \in States
  /\ \A s : can_transition(s, "blocked") /\ s \in States => s = "running"
  /\ \A t \in Ids : FirstRun(t) \in Run
BY MemoryStoreAssumption, TaskRunsAssumption
   DEF Run, FirstRun, States, can_transition, legal_targets, TRANSITIONS

(* What MoveTask makes of a run object, and that it is new to the history.   *)
LEMMA MovedRun ==
  ASSUME StoreInv, NEW t \in Ids, Known(t), NEW to \in States,
         NEW att \in AttemptNos \cup {None}
  PROVE  /\ Moved(t, to, att) \in Run
         /\ Moved(t, to, att).task = t
         /\ Moved(t, to, att).version = current[t].version + 1
         /\ Moved(t, to, att).state = to
         /\ Moved(t, to, att).attempt \in AttemptNos
         /\ Moved(t, to, att) \notin history
<1>1. current[t] \in Run
  BY DEF StoreInv, Types, Known
<1> QED
  BY <1>1, Constants DEF Moved, StoreInv, CurrentIsLatest, Run

LEMMA StoreInit == Init => StoreInv
BY Constants
   DEF Init, StoreInv, Types, CurrentIsLatest, SeenIsKnown, StaleIsListed, Known

LEMMA StoreStep == StoreInv /\ [Next]_vars => StoreInv'
<1> SUFFICES ASSUME StoreInv, [Next]_vars PROVE StoreInv'
  OBVIOUS
<1> USE Constants DEF StoreInv
<1>1. ASSUME NEW c \in Clients, NEW t \in Ids, NEW k \in Keys,
             CreateTask(c, t, k)
      PROVE StoreInv'
  <2>1. Types'
    BY <1>1 DEF CreateTask, Types
  <2>2. CurrentIsLatest'
    BY <1>1 DEF CreateTask, Types, CurrentIsLatest, Known, FirstRun, Run
  <2>3. StaleIsListed'
    BY <1>1 DEF CreateTask, Types, CurrentIsLatest, StaleIsListed, Known, Run
  <2>4. SeenIsKnown'
    BY <1>1, <2>1 DEF CreateTask, Types, SeenIsKnown, Known, FirstRun, Run
  <2> QED
    BY <2>1, <2>2, <2>3, <2>4
(* Transition and RecoverMove share MoveTask.                                *)
<1>2. ASSUME NEW t \in Ids, NEW to \in States,
             NEW att \in AttemptNos \cup {None}, Known(t),
             MoveTask(t, to, att),
             \/ current[t].version < MaxVersion
             \/ to = "blocked" /\ can_transition(current[t].state, to)
      PROVE  /\ CurrentIsLatest'
             /\ current' \in [Ids -> Run \cup {None}]
             /\ history' \in SUBSET Run
             /\ history \subseteq history'
             /\ current'[t] \notin stale
             /\ \A u \in Ids \ {t} : current'[u] = current[u]
  <2>1. current[t] \in Run
    BY <1>2 DEF Types, Known
  <2>2. current[t].version + 1 <= MaxVersion + 1
    BY <1>2, <2>1 DEF CurrentIsLatest, Run, States
  <2>3. current[t].version + 1 = MaxVersion + 1 => to = "blocked"
    BY <1>2, <2>1 DEF CurrentIsLatest, Run
  <2>4. /\ current' = [current EXCEPT ![t] = Moved(t, to, att)]
        /\ history' = history \cup {Moved(t, to, att)}
    BY <1>2 DEF MoveTask
  <2>5. CurrentIsLatest'
    BY <1>2, <2>1, <2>2, <2>3, <2>4, MovedRun
       DEF CurrentIsLatest, Types, Known, Run
  <2> QED
    BY <1>2, <2>4, <2>5, MovedRun DEF Types, StaleIsListed
<1>3. ASSUME NEW c \in Clients, NEW to \in Targets,
             NEW att \in AttemptNos \cup {None}, Transition(c, to, att)
      PROVE StoreInv'
  <2>1. seen[c] \in Run /\ to \in States
    BY <1>3, MemoryStoreAssumption DEF Transition, Types
  <2> DEFINE t == seen[c].task
  <2>2. t \in Ids /\ Known(t)
    BY <2>1, <1>3 DEF Transition, Run, SeenIsKnown
  <2>3. MoveTask(t, to, att) /\ current[t].version < MaxVersion
    BY <1>3 DEF Transition, Movable
  <2> HIDE DEF t
  <2>4. /\ seen' = [seen EXCEPT ![c] = Moved(t, to, att)]
        /\ UNCHANGED <<recovery, stuck, moving, stale>>
    BY <1>3 DEF Transition, t
  <2>5. Types'
    BY <1>2, <2>1, <2>2, <2>3, <2>4, MovedRun DEF Types
  <2>6. SeenIsKnown'
    BY <1>2, <2>1, <2>2, <2>3, <2>4, MovedRun DEF Types, SeenIsKnown, Known, MoveTask
  <2>7. StaleIsListed'
    BY <1>2, <2>1, <2>2, <2>3, <2>4, MovedRun DEF Types, StaleIsListed, Known, MoveTask, Run
  <2> QED
    BY <1>2, <2>1, <2>2, <2>3, <2>5, <2>6, <2>7
<1>4. CASE RecoverMove
  <2> DEFINE t == moving.task
  <2>1. t \in Ids /\ Known(t) /\ recovery = "running" /\ moving # None
    BY <1>4 DEF RecoverMove, Types, StaleIsListed
  <2>2. /\ MoveTask(t, "blocked", None)
        /\ can_transition(current[t].state, "blocked")
    BY <1>4 DEF RecoverMove, Movable
  <2>3. moving' = None /\ UNCHANGED <<seen, recovery, stuck, stale>>
    BY <1>4 DEF RecoverMove
  <2>4. \A u \in Ids : Known(u) => Known(u)'
    BY <1>2, <2>1, <2>2, MovedRun DEF Types, Known, MoveTask
  <2>5. Types' /\ SeenIsKnown'
    BY <1>2, <2>1, <2>2, <2>3, <2>4 DEF Types, SeenIsKnown, Run
  <2>6. StaleIsListed'
    BY <1>2, <2>1, <2>2, <2>3, <2>4 DEF Types, StaleIsListed, Run
  <2> QED
    BY <1>2, <2>1, <2>2, <2>5, <2>6
<1>5. ASSUME NEW c \in Clients, NEW t \in Ids, GetTask(c, t) PROVE StoreInv'
  BY <1>5 DEF GetTask, Types, CurrentIsLatest, SeenIsKnown, StaleIsListed, Known, Run
<1>6. ASSUME NEW t \in Ids, AppendEvent(t) \/ SaveResult(t) PROVE StoreInv'
  BY <1>6 DEF AppendEvent, SaveResult, Types, CurrentIsLatest, SeenIsKnown,
     StaleIsListed, Known
<1>7. CASE RecoverStart
  BY <1>7 DEF RecoverStart, Types, CurrentIsLatest, SeenIsKnown, StaleIsListed,
     Known, Run
<1>8. ASSUME NEW t \in Ids, RecoverRead(t) PROVE StoreInv'
  <2>1. current[t] \in Run
    BY <1>8 DEF RecoverRead, StaleIsListed, Types, Known
  <2>2. moving' = [task |-> t, version |-> current[t].version]
    BY <1>8 DEF RecoverRead
  <2>3. moving' \in [task: Ids, version: Nat]
    BY <2>1, <2>2 DEF Run
  <2> QED
    BY <1>8, <2>1, <2>2, <2>3 DEF RecoverRead, Types, CurrentIsLatest,
       SeenIsKnown, StaleIsListed, Known, Run
<1>9. CASE RecoverLost
  BY <1>9 DEF RecoverLost, Types, CurrentIsLatest, SeenIsKnown, StaleIsListed,
     Known, Run
<1>10. CASE RecoverRaises
  BY <1>10 DEF RecoverRaises, Types, CurrentIsLatest, SeenIsKnown,
     StaleIsListed, Known
<1>11. CASE RecoverDone
  BY <1>11 DEF RecoverDone, Types, CurrentIsLatest, SeenIsKnown, StaleIsListed,
     Known
<1>12. CASE UNCHANGED vars
  BY <1>12 DEF vars, Types, CurrentIsLatest, SeenIsKnown, StaleIsListed, Known
<1> QED
  BY <1>1, <1>3, <1>4, <1>5, <1>6, <1>7, <1>8, <1>9, <1>10, <1>11, <1>12
     DEF Next, Operation, Recover

LEMMA StoreAlways == Spec => []StoreInv
BY StoreInit, StoreStep, PTL DEF Spec

(* The records the store keeps beside the run objects: keys, events, results.*)
RecordsInv ==
  /\ by_key \in [Keys -> Ids \cup {None}]
  /\ events \in [Ids -> Seq(Move \cup {None})]
  /\ results \in SUBSET (Ids \X {1})
  /\ attempt_of \in [Ids -> {None, 1}]
  /\ \A t \in Ids : Known(t) => attempt_of[t] = 1

LEMMA RecordsStep == StoreInv /\ RecordsInv /\ [Next]_vars => RecordsInv'
<1> SUFFICES ASSUME StoreInv, RecordsInv, [Next]_vars PROVE RecordsInv'
  OBVIOUS
<1> USE Constants DEF RecordsInv
<1>1. ASSUME NEW c \in Clients, NEW t \in Ids, NEW k \in Keys,
             CreateTask(c, t, k)
      PROVE RecordsInv'
  BY <1>1 DEF CreateTask, StoreInv, Types, Known
<1>2. ASSUME NEW t \in Ids, NEW to \in States,
             NEW att \in AttemptNos \cup {None}, Known(t),
             MoveTask(t, to, att), UNCHANGED <<by_key, results, attempt_of>>
      PROVE RecordsInv'
  <2>1. current[t] \in Run
    BY <1>2 DEF StoreInv, Types, Known
  <2>2. [from |-> current[t].state, to |-> to] \in Move \cup {None}
    BY <1>2, <2>1 DEF Run, Move
  <2> HIDE DEF RecordsInv
  <2>3. events' \in [Ids -> Seq(Move \cup {None})]
    <3> HIDE DEF Move
    <3>1. events[t] \in Seq(Move \cup {None})
      BY DEF RecordsInv
    <3>2. Append(events[t], [from |-> current[t].state, to |-> to])
            \in Seq(Move \cup {None})
      BY <2>2, <3>1, AppendProperties
    <3> QED
      BY <1>2, <3>2 DEF MoveTask, RecordsInv
  <2>4. \A u \in Ids : Known(u)' => Known(u)
    BY <1>2 DEF MoveTask, Known, StoreInv, Types
  <2> QED
    BY <1>2, <2>3, <2>4 DEF RecordsInv
<1>3. ASSUME NEW c \in Clients, NEW to \in Targets,
             NEW att \in AttemptNos \cup {None}, Transition(c, to, att)
      PROVE RecordsInv'
  <2>1. seen[c] \in Run /\ to \in States
    BY <1>3, MemoryStoreAssumption DEF Transition, StoreInv, Types
  <2>2. seen[c].task \in Ids /\ Known(seen[c].task)
    BY <2>1, <1>3 DEF Transition, Run, StoreInv, SeenIsKnown
  <2> QED
    BY <1>2, <1>3, <2>1, <2>2 DEF Transition
<1>4. CASE RecoverMove
  <2>1. moving.task \in Ids /\ Known(moving.task)
    BY <1>4 DEF RecoverMove, StoreInv, Types, StaleIsListed
  <2> QED
    BY <1>2, <1>4, <2>1 DEF RecoverMove
<1>5. ASSUME NEW t \in Ids, AppendEvent(t) PROVE RecordsInv'
  <2>1. events[t] \in Seq(Move \cup {None})
    OBVIOUS
  <2>2. Append(events[t], None) \in Seq(Move \cup {None})
    BY <2>1, AppendProperties
  <2> QED
    BY <1>5, <2>2 DEF AppendEvent, Known
<1>6. ASSUME NEW t \in Ids, SaveResult(t) PROVE RecordsInv'
  BY <1>6 DEF SaveResult, Known
<1>7. CASE \/ \E c \in Clients, t \in Ids : GetTask(c, t)
           \/ RecoverStart \/ RecoverLost \/ RecoverRaises \/ RecoverDone
           \/ \E t \in Ids : RecoverRead(t)
  BY <1>7 DEF GetTask, RecoverStart, RecoverRead, RecoverLost, RecoverRaises,
     RecoverDone, Known
<1>8. CASE UNCHANGED vars
  BY <1>8 DEF vars, Known
<1> QED
  BY <1>1, <1>3, <1>4, <1>5, <1>6, <1>7, <1>8 DEF Next, Operation, Recover

(* Every dictionary of the store and every local of a recovery has its type, *)
(* and results are filed under attempt 1 only.                               *)
THEOREM MemoryTyped == Spec => []TypeOK
<1>1. Init => RecordsInv
  BY DEF Init, RecordsInv, Known
<1>2. StoreInv /\ RecordsInv => TypeOK
  BY DEF StoreInv, Types, RecordsInv, TypeOK
<1> QED
  BY <1>1, <1>2, StoreAlways, RecordsStep, PTL DEF Spec

(* For any number of threads and tasks: when recover_incomplete has          *)
(* finished, no run that it found RUNNING is current any more.               *)
THEOREM MemoryRecoveryComplete == Spec => []RecoveryBlocksStale
<1>1. StoreInv => RecoveryBlocksStale
  BY DEF StoreInv, StaleIsListed, RecoveryBlocksStale
<1> QED
  BY StoreAlways, <1>1, PTL

(* For any number of threads, tasks and versions: the histories of the       *)
(* in-memory store are those the port promises.                              *)
THEOREM MemoryImplementsPort == Spec => PortSpec
<1>1. Init => Port!Init
  BY DEF Init, Port!Init
<1>2. StoreInv /\ [Next]_vars => [Port!Next]_history
  <2> SUFFICES ASSUME StoreInv, [Next]_vars, history' # history
               PROVE  Port!Next
    OBVIOUS
  <2> USE Constants DEF StoreInv
  <2>1. ASSUME NEW c \in Clients, NEW t \in Ids, NEW k \in Keys,
               CreateTask(c, t, k)
        PROVE Port!Create(t)
    BY <2>1 DEF CreateTask, Known, CurrentIsLatest, Port!Create, Port!RunsOf,
       FirstRun, Port!FirstRun
  <2>2. ASSUME NEW t \in Ids, NEW to \in States,
               NEW att \in AttemptNos \cup {None}, Known(t),
               MoveTask(t, to, att),
               can_transition(current[t].state, to),
               current[t].version < MaxVersion + 1
        PROVE  Port!Next
    <3>1. /\ current[t] \in history /\ current[t] \in Run
          /\ current[t].task = t
      BY <2>2 DEF Types, Known, CurrentIsLatest
    <3>2. Port!IsCurrent(current[t])
      BY <2>2, <3>1 DEF CurrentIsLatest, Port!IsCurrent, Port!RunsOf
    <3>4. history' = history \cup {Moved(t, to, att)}
      BY <2>2 DEF MoveTask
    <3>5. Port!Transition(current[t], to, Moved(t, to, att).attempt)
      BY <2>2, <3>1, <3>2, <3>4 DEF Moved, Port!Transition,
         Port!can_transition, Port!legal_targets, Port!TRANSITIONS,
         can_transition, legal_targets, TRANSITIONS
    <3>6. Moved(t, to, att).attempt \in AttemptNos
      BY <2>2, MovedRun
    <3> QED
      BY <3>1, <3>5, <3>6 DEF Port!Next, Port!States, States
  <2>3. ASSUME NEW c \in Clients, NEW to \in Targets,
               NEW att \in AttemptNos \cup {None}, Transition(c, to, att)
        PROVE  Port!Next
    <3>1. seen[c] \in Run /\ to \in States
      BY <2>3, MemoryStoreAssumption DEF Transition, Types
    <3> QED
      BY <2>2, <2>3, <3>1 DEF Transition, Movable, SeenIsKnown, Run
  <2>4. CASE RecoverMove
    <3> DEFINE t == moving.task
    <3>1. /\ t \in Ids /\ Known(t) /\ MoveTask(t, "blocked", None)
          /\ can_transition(current[t].state, "blocked")
      BY <2>4 DEF RecoverMove, Movable, Types, StaleIsListed
    <3>2. current[t] \in Run
      BY <3>1 DEF Types, Known
    <3>3. current[t].version < MaxVersion + 1
      BY <3>1, <3>2 DEF CurrentIsLatest, Run
    <3> QED
      BY <2>2, <3>1, <3>3
  <2> QED
    BY <2>1, <2>3, <2>4 DEF Next, Operation, Recover, vars, Port!Next, GetTask,
       AppendEvent, SaveResult, RecoverStart, RecoverRead, RecoverLost,
       RecoverRaises, RecoverDone
<1> QED
  BY <1>1, <1>2, StoreAlways, PTL DEF Spec, PortSpec, Port!Spec

----------------------------------------------------------------------------
(* What a move needs to know of the run it moves: no other run of its task   *)
(* has its version, and it is CREATED only if it is the first.               *)
LatestIsAlone ==
  \A t \in Ids : Known(t) =>
    /\ \A q \in history : q.task = t /\ q.version = current[t].version => q = current[t]
    /\ current[t].state = "created" => current[t].version = 0

HeedInv == LatestIsAlone /\ ApprovalIsHeeded

(* A step creates a task, moves one, or leaves runs and history alone.       *)
LEMMA StepsOnRuns ==
  ASSUME StoreInv, [Next]_vars
  PROVE  \/ \E t \in Ids : /\ ~Known(t) /\ current' = [current EXCEPT ![t] = FirstRun(t)]
                           /\ history' = history \cup {FirstRun(t)}
         \/ \E t \in Ids, to \in States, att \in AttemptNos \cup {None} :
              Known(t) /\ can_transition(current[t].state, to) /\ MoveTask(t, to, att)
         \/ current' = current /\ history' = history
<1> USE Constants DEF StoreInv
<1>1. ASSUME NEW c \in Clients, NEW to \in Targets,
             NEW att \in AttemptNos \cup {None}, Transition(c, to, att)
      PROVE  \E t \in Ids : Known(t) /\ can_transition(current[t].state, to) /\ MoveTask(t, to, att)
  <2>1. seen[c] \in Run
    BY <1>1 DEF Transition, Types
  <2> QED
    BY <1>1, <2>1 DEF Transition, Movable, SeenIsKnown, Run
<1>2. CASE RecoverMove
  BY <1>2 DEF RecoverMove, Movable, Types, StaleIsListed
<1> QED
  BY <1>1, <1>2, MemoryStoreAssumption
     DEF Next, Operation, Recover, vars, CreateTask, GetTask, AppendEvent,
         SaveResult, RecoverStart, RecoverRead, RecoverLost, RecoverRaises, RecoverDone

(* A move keeps both: from the current run c, a run that is carried out      *)
(* follows one that is carried out itself, one that is APPROVED, or the      *)
(* first, before which nothing waited.                                       *)
LEMMA MoveHeedsApproval ==
  ASSUME StoreInv, HeedInv, NEW t \in Ids, NEW to \in States,
         NEW att \in AttemptNos \cup {None},
         Known(t), can_transition(current[t].state, to), MoveTask(t, to, att)
  PROVE  HeedInv'
<1> DEFINE c == current[t]
           n == Moved(t, to, att)
<1>1. /\ c \in Run /\ c \in history /\ c.task = t /\ history \subseteq Run
      /\ \A q \in history : q.task = t => q.version <= c.version
      /\ \A q \in history : q.task \in Ids /\ Known(q.task)
  BY DEF StoreInv, Types, CurrentIsLatest, Known, Run
<1>2. /\ n \in Run /\ n.task = t /\ n.version = c.version + 1 /\ n.state = to
  BY MovedRun
<1>3. history' = history \cup {n} /\ current' = [current EXCEPT ![t] = n]
  BY DEF MoveTask
<1>4. to \in legal_targets(c.state) /\ to # "created"
  BY <1>1 DEF can_transition, legal_targets, TRANSITIONS, Run, States
<1> HIDE DEF n
<1>5. LatestIsAlone'
  <2> SUFFICES ASSUME NEW u \in Ids, Known(u)'
               PROVE  /\ \A q \in history' : q.task = u /\ q.version = current'[u].version
                                              => q = current'[u]
                      /\ current'[u].state = "created" => current'[u].version = 0
    BY DEF LatestIsAlone
  <2>1. CASE u = t
    <3>1. current'[t] = n
      BY <1>3 DEF StoreInv, Types
    <3> QED
      BY <1>1, <1>2, <1>3, <1>4, <2>1, <3>1 DEF Run
  <2>2. CASE u # t
    <3>1. current'[u] = current[u] /\ Known(u)
      BY <1>3, <2>2 DEF StoreInv, Types, Known
    <3> QED
      BY <1>2, <1>3, <2>2, <3>1 DEF HeedInv, LatestIsAlone
  <2> QED
    BY <2>1, <2>2
<1>6. ApprovalIsHeeded'
  <2> SUFFICES ASSUME NEW p \in history', NEW r \in history',
                      p.task = r.task, p.version < r.version,
                      p.state \in {"planned", "needs_approval"}, r.state \in Port!CarriedOut
               PROVE  \E a \in history' : /\ a.task = p.task /\ a.state = "approved"
                                         /\ p.version < a.version /\ a.version < r.version
    BY DEF ApprovalIsHeeded, Port!ApprovalIsHeeded, Port!RunsOf
  <2>1. CASE r \in history
    <3>1. p # n
      BY <1>1, <1>2, <2>1 DEF Run
    <3> QED
      BY <1>3, <2>1, <3>1 DEF HeedInv, ApprovalIsHeeded, Port!ApprovalIsHeeded, Port!RunsOf
  <2>2. CASE r = n
    <3>1. p \in history
      BY <1>2, <1>3, <2>2 DEF Run
    <3>2. c.state \in {"created", "approved"} \cup Port!CarriedOut
      BY <1>1, <1>2, <1>4, <2>2
         DEF legal_targets, TRANSITIONS, Port!CarriedOut, Run, States
    <3>3. p # c
      BY <3>2 DEF Port!CarriedOut
    <3>4. p.version <= c.version /\ p.version # c.version
      BY <1>1, <1>2, <2>2, <3>1, <3>3 DEF HeedInv, LatestIsAlone
    <3>5. p.version < c.version /\ c.version < n.version
      BY <1>1, <1>2, <3>1, <3>4 DEF Run
    <3>6. CASE c.state = "approved"
      BY <1>1, <1>2, <1>3, <2>2, <3>5, <3>6
    <3>7. CASE c.state \in Port!CarriedOut
      <4>1. PICK a \in history : /\ a.task = p.task /\ a.state = "approved"
                                 /\ p.version < a.version /\ a.version < c.version
        BY <1>1, <1>2, <2>2, <3>1, <3>5, <3>7
           DEF HeedInv, ApprovalIsHeeded, Port!ApprovalIsHeeded, Port!RunsOf
      <4> QED
        BY <1>1, <1>2, <1>3, <2>2, <4>1 DEF Run
    <3>8. CASE c.state = "created"
      BY <1>1, <3>1, <3>5, <3>8 DEF HeedInv, LatestIsAlone, Run
    <3> QED
      BY <3>2, <3>6, <3>7, <3>8
  <2> QED
    BY <1>3, <2>1, <2>2
<1> QED
  BY <1>5, <1>6 DEF HeedInv

(* For any number of threads, tasks and versions: whoever moves a task, it   *)
(* is carried out after it waited for its approval only if it was APPROVED   *)
(* since.                                                                    *)
THEOREM MemoryHeedsApproval == Spec => []ApprovalIsHeeded
<1>1. Init => HeedInv
  BY DEF Init, HeedInv, LatestIsAlone, Known, ApprovalIsHeeded, Port!ApprovalIsHeeded
<1>2. StoreInv /\ HeedInv /\ [Next]_vars => HeedInv'
  <2> SUFFICES ASSUME StoreInv, HeedInv, [Next]_vars PROVE HeedInv'
    OBVIOUS
  <2>1. ASSUME NEW t \in Ids, ~Known(t), current' = [current EXCEPT ![t] = FirstRun(t)],
               history' = history \cup {FirstRun(t)}
        PROVE  HeedInv'
    <3>1. /\ FirstRun(t).task = t /\ FirstRun(t).version = 0
          /\ FirstRun(t).state \notin Port!CarriedOut \cup {"planned", "needs_approval"}
      BY DEF FirstRun, Port!CarriedOut
    <3>2. \A q \in history : q.task # t
      BY <2>1 DEF StoreInv, CurrentIsLatest
    <3>3. LatestIsAlone'
      BY <2>1, <3>1, <3>2 DEF HeedInv, LatestIsAlone, Known, StoreInv, Types
    <3>4. ApprovalIsHeeded'
      BY <2>1, <3>1, <3>2
         DEF HeedInv, ApprovalIsHeeded, Port!ApprovalIsHeeded, Port!RunsOf
    <3> QED
      BY <3>3, <3>4 DEF HeedInv
  <2>2. ASSUME current' = current, history' = history
        PROVE  HeedInv'
    BY <2>2 DEF HeedInv, LatestIsAlone, Known, ApprovalIsHeeded, Port!ApprovalIsHeeded,
       Port!RunsOf
  <2> QED
    BY <2>1, <2>2, StepsOnRuns, MoveHeedsApproval
<1>3. HeedInv => ApprovalIsHeeded
  BY DEF HeedInv
<1> QED
  BY <1>1, <1>2, <1>3, StoreAlways, PTL DEF Spec

----------------------------------------------------------------------------
(* What the events of a task tell: nothing before it is created, and then    *)
(* every move of its run object.                                             *)
Replays(t) ==
  /\ Cardinality(Moves(t)) = current[t].version
  /\ \A i \in Moves(t) : events[t][i].from = StateBefore(t, i)
  /\ StateBefore(t, Len(events[t]) + 1) = current[t].state

ReplayInv ==
  \A t \in Ids : IF Known(t) THEN Replays(t) ELSE events[t] = <<>>

LEMMA MaxIn ==
  ASSUME NEW n \in Nat, NEW S \in SUBSET (1..n), S # {}
  PROVE  Max(S) \in S /\ \A j \in S : j <= Max(S)
<1> DEFINE bounds == {k \in Nat : \A j \in S : j <= k}
<1>1. n \in bounds
  OBVIOUS
<1>2. PICK m \in bounds : \A k \in bounds : ~(<<k, m>> \in OpToRel(<, Nat))
  <2>1. bounds \in SUBSET Nat /\ bounds # {}
    BY <1>1
  <2> HIDE DEF bounds
  <2> QED
    BY <2>1, NatLessThanWellFounded, WFMin
<1>3. m \in Nat /\ \A j \in S : j <= m
  OBVIOUS
<1>4. m \in S
  <2> SUFFICES ASSUME m \notin S PROVE FALSE
    OBVIOUS
  <2>0. PICK j \in S : TRUE
    OBVIOUS
  <2>1. j \in 1..n /\ j <= m
    BY <1>3
  <2>2. m - 1 \in Nat /\ m - 1 < m
    BY <1>3, <2>1
  <2>3. \A i \in S : i <= m - 1
    BY <1>3
  <2>4. m - 1 \in bounds
    BY <2>2, <2>3
  <2>5. <<m - 1, m>> \in OpToRel(<, Nat)
    BY <1>3, <2>2 DEF OpToRel
  <2> QED
    BY <1>2, <2>4, <2>5
<1>5. m \in S /\ \A j \in S : m >= j
  BY <1>3, <1>4
<1> HIDE DEF bounds
<1> QED
  BY <1>5 DEF Max

LEMMA MovesAreFinite ==
  ASSUME RecordsInv, NEW t \in Ids
  PROVE  /\ Len(events[t]) \in Nat /\ DOMAIN events[t] = 1..Len(events[t])
         /\ IsFiniteSet(Moves(t)) /\ Moves(t) \subseteq 1..Len(events[t])
<1>1. Len(events[t]) \in Nat /\ DOMAIN events[t] = 1..Len(events[t])
  BY DEF RecordsInv
<1>2. Moves(t) \subseteq 1..Len(events[t])
  BY <1>1 DEF Moves
<1>3. IsFiniteSet(1..Len(events[t]))
  BY <1>1, FS_Interval
<1> QED
  BY <1>1, <1>2, <1>3, FS_Subset

(* Nothing that happens to the other tasks is told of this one.              *)
LEMMA OthersReplay ==
  ASSUME ReplayInv, NEW u \in Ids, events'[u] = events[u], current'[u] = current[u]
  PROVE  (IF Known(u) THEN Replays(u) ELSE events[u] = <<>>)'
BY DEF ReplayInv, Replays, Known, Moves, StateBefore

(* One more event: the earlier ones stay as they are.                        *)
LEMMA EarlierStay ==
  ASSUME RecordsInv, NEW t \in Ids, NEW e, events'[t] = Append(events[t], e),
         NEW i \in 1..Len(events[t]) + 1
  PROVE  /\ {j \in Moves(t)' : j < i} = {j \in Moves(t) : j < i}
         /\ StateBefore(t, i)' = StateBefore(t, i)
<1> DEFINE n == Len(events[t])
<1>1. n \in Nat /\ DOMAIN events[t] = 1..n /\ events[t] \in Seq(Move \cup {None})
  BY MovesAreFinite DEF RecordsInv
<1>2. DOMAIN events'[t] = 1..n + 1 /\ \A j \in 1..n : events'[t][j] = events[t][j]
  BY <1>1
<1> HIDE DEF n
<1>3. \A j \in 1..n : j \in Moves(t)' <=> j \in Moves(t)
  BY <1>1, <1>2 DEF Moves
<1>4. Moves(t)' \subseteq 1..n + 1 /\ Moves(t) \subseteq 1..n
  BY <1>1, <1>2 DEF Moves
<1>5. i \in 1..n + 1
  BY DEF n
<1> DEFINE earlier == {j \in Moves(t) : j < i}
<1>6. {j \in Moves(t)' : j < i} = earlier
  BY <1>1, <1>3, <1>4, <1>5
<1>7. earlier \subseteq 1..n
  BY <1>4
<1>8. ASSUME earlier # {} PROVE events'[t][Max(earlier)].to = events[t][Max(earlier)].to
  <2>1. Max(earlier) \in earlier
    BY <1>1, <1>7, <1>8, MaxIn
  <2> QED
    BY <1>2, <1>7, <2>1
<1> QED
  BY <1>6, <1>8 DEF StateBefore

LEMMA MoveReplays ==
  ASSUME StoreInv, RecordsInv, ReplayInv, NEW t \in Ids, NEW to \in States,
         NEW att \in AttemptNos \cup {None}, Known(t), MoveTask(t, to, att)
  PROVE  ReplayInv'
<1> DEFINE n == Len(events[t])
           e == [from |-> current[t].state, to |-> to]
<1>1. /\ n \in Nat /\ DOMAIN events[t] = 1..n /\ events[t] \in Seq(Move \cup {None})
      /\ IsFiniteSet(Moves(t)) /\ Moves(t) \subseteq 1..n
  BY MovesAreFinite DEF RecordsInv
<1>2. Replays(t) /\ current[t] \in Run
  BY DEF ReplayInv, StoreInv, Types, Known
<1>3. e # None /\ e.from = current[t].state /\ e.to = to
  BY <1>2, Constants, MemoryStoreAssumption DEF Run
<1>4. events'[t] = Append(events[t], e)
  BY DEF MoveTask, RecordsInv
<1>5. /\ current'[t] = Moved(t, to, att) /\ Known(t)'
      /\ current'[t].version = current[t].version + 1 /\ current'[t].state = to
  BY MovedRun, Constants DEF MoveTask, Known, Moved, StoreInv, Types
<1>6. \A u \in Ids : u # t => events'[u] = events[u] /\ current'[u] = current[u]
  BY DEF MoveTask, RecordsInv, StoreInv, Types
<1> HIDE DEF e
<1>7. /\ Len(events'[t]) = n + 1 /\ DOMAIN events'[t] = 1..n + 1 /\ events'[t][n + 1] = e
      /\ \A j \in 1..n : events'[t][j] = events[t][j]
  BY <1>1, <1>4
<1>8. \A i \in 1..n + 1 : StateBefore(t, i)' = StateBefore(t, i)
  BY <1>4, EarlierStay
<1> HIDE DEF n
<1>9. Moves(t)' = Moves(t) \cup {n + 1} /\ n + 1 \notin Moves(t)
  BY <1>1, <1>3, <1>7 DEF Moves
<1>10. Cardinality(Moves(t)') = Cardinality(Moves(t)) + 1
  BY <1>1, <1>9, FS_AddElement
<1>11. ASSUME NEW i \in Moves(t)' PROVE events'[t][i].from = StateBefore(t, i)'
  <2>1. CASE i \in Moves(t)
    BY <1>1, <1>2, <1>7, <1>8, <2>1 DEF Replays
  <2>2. CASE i = n + 1
    BY <1>1, <1>2, <1>3, <1>7, <1>8, <2>2 DEF Replays, n
  <2> QED
    BY <1>9, <2>1, <2>2
<1>12. StateBefore(t, Len(events[t]) + 1)' = to
  <2> DEFINE earlier == {j \in Moves(t)' : j < n + 2}
  <2>1. n + 1 \in earlier /\ \A j \in earlier : n + 1 >= j
    BY <1>1, <1>9
  <2>2. earlier \in SUBSET (1..n + 1) /\ n + 1 \in Nat
    BY <1>1, <1>9
  <2>3. Max(earlier) \in earlier /\ \A j \in earlier : j <= Max(earlier)
    <3> HIDE DEF earlier
    <3> QED
      BY <2>1, <2>2, MaxIn
  <2>4. Max(earlier) = n + 1
    <3>1. Max(earlier) \in 1..n + 1 /\ Max(earlier) >= n + 1
      <4> HIDE DEF earlier
      <4> QED
        BY <2>1, <2>2, <2>3
    <3> HIDE DEF earlier
    <3> DEFINE m == Max(earlier)
    <3>2. m \in 1..n + 1 /\ m >= n + 1
      BY <3>1
    <3> HIDE DEF m
    <3>3. m = n + 1
      BY <1>1, <3>2
    <3> QED
      BY <3>3 DEF m
  <2>5. Len(events[t])' + 1 = n + 2
    BY <1>1, <1>7
  <2> HIDE DEF earlier
  <2>6. StateBefore(t, Len(events[t]) + 1)' = events'[t][Max(earlier)].to
    BY <2>1, <2>5 DEF StateBefore, earlier
  <2> QED
    BY <1>3, <1>7, <2>4, <2>6
<1>13. Replays(t)'
  BY <1>2, <1>5, <1>10, <1>11, <1>12 DEF Replays
<1> QED
  BY <1>5, <1>6, <1>13, OthersReplay DEF ReplayInv

LEMMA ReplayStep == StoreInv /\ RecordsInv /\ ReplayInv /\ [Next]_vars => ReplayInv'
<1> SUFFICES ASSUME StoreInv, RecordsInv, ReplayInv, [Next]_vars PROVE ReplayInv'
  OBVIOUS
<1>1. ASSUME NEW c \in Clients, NEW t \in Ids, NEW k \in Keys, CreateTask(c, t, k)
      PROVE  ReplayInv'
  <2>1. events[t] = <<>> /\ UNCHANGED events
    BY <1>1 DEF CreateTask, ReplayInv
  <2>2. current'[t] = FirstRun(t) /\ Known(t)'
    BY <1>1, Constants DEF CreateTask, Known, StoreInv, Types
  <2>3. Moves(t)' = {}
    BY <2>1 DEF Moves
  <2>4. Replays(t)'
    BY <2>2, <2>3, FS_EmptySet DEF Replays, StateBefore, FirstRun
  <2>5. \A u \in Ids : u # t => current'[u] = current[u]
    BY <1>1 DEF CreateTask, StoreInv, Types
  <2> QED
    BY <2>1, <2>2, <2>4, <2>5, OthersReplay DEF ReplayInv
<1>2. ASSUME NEW c \in Clients, NEW to \in Targets,
             NEW att \in AttemptNos \cup {None}, Transition(c, to, att)
      PROVE  ReplayInv'
  <2>1. seen[c] \in Run /\ to \in States
    BY <1>2, MemoryStoreAssumption DEF Transition, StoreInv, Types
  <2>2. seen[c].task \in Ids /\ Known(seen[c].task)
    BY <2>1, <1>2 DEF Transition, Run, StoreInv, SeenIsKnown
  <2> QED
    BY <1>2, <2>1, <2>2, MoveReplays DEF Transition
<1>3. CASE RecoverMove
  <2>1. moving.task \in Ids /\ Known(moving.task)
    BY <1>3 DEF RecoverMove, StoreInv, Types, StaleIsListed
  <2> QED
    BY <1>3, <2>1, Constants, MoveReplays DEF RecoverMove
<1>4. ASSUME NEW t \in Ids, AppendEvent(t) PROVE ReplayInv'
  <2> DEFINE n == Len(events[t])
  <2>1. UNCHANGED current /\ Known(t)
    BY <1>4 DEF AppendEvent
  <2>2. events'[t] = Append(events[t], None)
    BY <1>4 DEF AppendEvent, RecordsInv
  <2>3. /\ n \in Nat /\ DOMAIN events[t] = 1..n /\ Moves(t) \subseteq 1..n
        /\ events[t] \in Seq(Move \cup {None})
    BY MovesAreFinite DEF RecordsInv
  <2>4. /\ Len(events'[t]) = n + 1 /\ DOMAIN events'[t] = 1..n + 1
        /\ events'[t][n + 1] = None
        /\ \A j \in 1..n : events'[t][j] = events[t][j]
    BY <2>2, <2>3
  <2>5. \A i \in 1..n + 1 : StateBefore(t, i)' = StateBefore(t, i)
    BY <2>2, EarlierStay
  <2>6. Replays(t)
    BY <2>1 DEF ReplayInv
  <2> HIDE DEF n
  <2>7. Moves(t)' = Moves(t)
    BY <2>3, <2>4 DEF Moves
  <2>8. StateBefore(t, Len(events[t]) + 1)' = StateBefore(t, n + 1)
    <3> DEFINE earlier == {j \in Moves(t) : j < n + 1}
    <3>1. {j \in Moves(t)' : j < Len(events[t])' + 1} = earlier
      BY <2>3, <2>4, <2>7
    <3>2. ASSUME earlier # {} PROVE Max(earlier) \in 1..n
      <4>1. earlier \subseteq 1..n
        BY <2>3
      <4> HIDE DEF earlier
      <4> QED
        BY <2>3, <3>2, <4>1, MaxIn
    <3> QED
      BY <2>4, <3>1, <3>2 DEF StateBefore
  <2>9. Replays(t)'
    BY <2>1, <2>3, <2>4, <2>5, <2>6, <2>7, <2>8 DEF Replays, n
  <2>10. \A u \in Ids : u # t => events'[u] = events[u]
    BY <1>4 DEF AppendEvent, RecordsInv
  <2> QED
    BY <2>1, <2>9, <2>10, OthersReplay DEF ReplayInv, Known
<1>5. CASE UNCHANGED <<events, current>>
  BY <1>5, OthersReplay DEF ReplayInv
<1>6. CASE \/ \E c \in Clients, t \in Ids : GetTask(c, t)
           \/ \E t \in Ids : SaveResult(t)
           \/ RecoverStart \/ RecoverLost \/ RecoverRaises \/ RecoverDone
           \/ \E t \in Ids : RecoverRead(t)
           \/ UNCHANGED vars
  BY <1>5, <1>6 DEF GetTask, SaveResult, RecoverStart, RecoverRead, RecoverLost,
     RecoverRaises, RecoverDone, vars
<1> QED
  BY <1>1, <1>2, <1>3, <1>4, <1>6 DEF Next, Operation, Recover

(* For any number of threads, tasks and events, whoever replays the moves of *)
(* a task ends where its run object stands, a step of a recovery that meets  *)
(* other threads included (store_memory.py transition).                      *)
THEOREM EventsAreReplayable == Spec => []EventsReplay
<1>1. Init => RecordsInv /\ ReplayInv
  BY DEF Init, RecordsInv, ReplayInv, Known
<1>2. ReplayInv => EventsReplay
  BY DEF ReplayInv, EventsReplay, Replays
<1> QED
  BY StoreAlways, RecordsStep, ReplayStep, <1>1, <1>2, PTL DEF Spec
=============================================================================
