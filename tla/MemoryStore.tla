---------------------------- MODULE MemoryStore ----------------------------
(***************************************************************************)
(* The in-memory task store, nak_host/adapters/store_memory.py: one run    *)
(* object per task, updated in place under a lock. Every operation is one  *)
(* lock section, except recover_incomplete, which collects the run objects *)
(* under the lock and then, without it, reads each object and moves it.    *)
(***************************************************************************)
EXTENDS Sequences, Functions, FiniteSetsExt, TaskRuns

CONSTANTS
  Keys,           \* the idempotency keys callers use
  Clients,        \* threads that share the store
  None,           \* absence: no task, no run seen, no object being recovered
  Targets,        \* the target states callers ask for (input bound)
  MaxVersion,     \* bound: callers stop at this version
  MaxEvents       \* bound: events per task that append_event may reach

ASSUME MemoryStoreAssumption ==
  /\ Targets \subseteq States
  /\ {MaxVersion, MaxEvents} \subseteq Nat
  /\ None \notin Run
  /\ None \notin AttemptNos
  /\ None \notin [task: Ids, version: Nat] /\ None \notin [from: States, to: States]

VARIABLES
  by_key,      \* _by_key: the task each key was created with (keys of _tasks)
  current,     \* _runs: the live run object of each task
  events,      \* _events: per task, the moves and the other events
  results,     \* _results: the (task, attempt) pairs that have a result
  attempt_of,  \* _attempt_of: the attempt save_result files results under
  seen,        \* the copy of a run each client was last given
  recovery,    \* recover_incomplete: "idle", "running", "done" or "raised"
  stuck,       \* the tasks whose run objects it still has to visit
  moving,      \* the task it is moving, and the version it read, or None
  \* what the properties remember, no state of the program:
  history,     \* every run that was ever current
  stale        \* the runs recover_incomplete found RUNNING at its start

vars == <<by_key, current, events, results, attempt_of, seen, recovery,
          stuck, moving, history, stale>>

Move == [from: States, to: States]

Known(t) == current[t] # None

Init ==
  /\ by_key = [k \in Keys |-> None]
  /\ current = [t \in Ids |-> None]
  /\ events = [t \in Ids |-> <<>>]
  /\ results = {}
  /\ attempt_of = [t \in Ids |-> None]
  /\ seen = [c \in Clients |-> None]
  /\ recovery = "idle"
  /\ stuck = {}
  /\ moving = None
  /\ history = {}
  /\ stale = {}

(* create_task: DuplicateTask on a known key or id.                          *)
CreateTask(c, t, k) ==
  /\ by_key[k] = None
  /\ ~Known(t)
  /\ by_key' = [by_key EXCEPT ![k] = t]
  /\ current' = [current EXCEPT ![t] = FirstRun(t)]
  /\ attempt_of' = [attempt_of EXCEPT ![t] = 1]
  /\ seen' = [seen EXCEPT ![c] = FirstRun(t)]
  /\ history' = history \cup {FirstRun(t)}
  /\ UNCHANGED <<events, results, recovery, stuck, moving, stale>>

(* get_task gives the caller a copy of the run.                              *)
GetTask(c, t) ==
  /\ Known(t)
  /\ seen' = [seen EXCEPT ![c] = current[t]]
  /\ UNCHANGED <<by_key, current, events, results, attempt_of, recovery,
                 stuck, moving, history, stale>>

(* append_event.                                                             *)
AppendEvent(t) ==
  /\ Known(t)
  /\ Len(events[t]) < MaxEvents
  /\ events' = [events EXCEPT ![t] = Append(@, None)]
  /\ UNCHANGED <<by_key, current, results, attempt_of, seen, recovery, stuck,
                 moving, history, stale>>

(* save_result: DuplicateTask when the filed attempt already has a result.   *)
Duplicate(t) == <<t, attempt_of[t]>> \in results

SaveResult(t) ==
  /\ Known(t)
  /\ ~Duplicate(t)
  /\ results' = results \cup {<<t, attempt_of[t]>>}
  /\ UNCHANGED <<by_key, current, events, attempt_of, seen, recovery, stuck,
                 moving, history, stale>>

(* Defect: the edge is not checked.                                          *)
MovableAnyEdge(t, expected, to) == current[t].version = expected

(* transition: checks and update in one lock section (what it changes of     *)
(* the run object is att, None keeping the attempt, state and version).      *)
Movable(t, expected, to) ==
  /\ current[t].version = expected
  /\ can_transition(current[t].state, to)

Moved(t, to, att) ==
  [task |-> t, version |-> current[t].version + 1, state |-> to,
   attempt |-> IF att = None THEN current[t].attempt ELSE att]

(* Defect: the event is recorded after the object was changed.               *)
MoveEventAfter(t, to, att) ==
  /\ current' = [current EXCEPT ![t] = Moved(t, to, att)]
  /\ events' = [events EXCEPT ![t] = Append(@, [from |-> to, to |-> to])]
  /\ history' = history \cup {Moved(t, to, att)}

MoveTask(t, to, att) ==
  /\ current' = [current EXCEPT ![t] = Moved(t, to, att)]
  /\ events' = [events EXCEPT
                  ![t] = Append(@, [from |-> current[t].state, to |-> to])]
  /\ history' = history \cup {Moved(t, to, att)}

Transition(c, to, att) ==
  /\ seen[c] # None
  /\ seen[c].version < MaxVersion
  /\ Movable(seen[c].task, seen[c].version, to)
  /\ MoveTask(seen[c].task, to, att)
  /\ seen' = [seen EXCEPT ![c] = Moved(@.task, to, att)]
  /\ UNCHANGED <<by_key, results, attempt_of, recovery, stuck, moving, stale>>

----------------------------------------------------------------------------
(* recover_incomplete, run once by one thread while clients go on.           *)

RecoverStart ==
  /\ recovery = "idle"
  /\ recovery' = "running"
  /\ stuck' = {t \in Ids : Known(t) /\ current[t].state = "running"}
  /\ stale' = {current[t] : t \in stuck'}
  /\ UNCHANGED <<by_key, current, events, results, attempt_of, seen, moving,
                 history>>

(* run.version of the live object, read without the lock.                    *)
RecoverRead(t) ==
  /\ recovery = "running"
  /\ moving = None
  /\ t \in stuck
  /\ stuck' = stuck \ {t}
  /\ moving' = [task |-> t, version |-> current[t].version]
  /\ UNCHANGED <<by_key, current, events, results, attempt_of, seen, recovery,
                 history, stale>>

RecoverMove ==
  /\ moving # None
  /\ Movable(moving.task, moving.version, "blocked")
  /\ MoveTask(moving.task, "blocked", None)
  /\ moving' = None
  /\ UNCHANGED <<by_key, results, attempt_of, seen, recovery, stuck, stale>>

(* ConcurrencyError is skipped.                                              *)
RecoverLost ==
  /\ moving # None
  /\ current[moving.task].version # moving.version
  /\ moving' = None
  /\ UNCHANGED <<by_key, current, events, results, attempt_of, seen, recovery,
                 stuck, history, stale>>

(* IllegalTransition is not: it leaves recover_incomplete.                   *)
RecoverRaises ==
  /\ moving # None
  /\ current[moving.task].version = moving.version
  /\ ~can_transition(current[moving.task].state, "blocked")
  /\ recovery' = "raised"
  /\ moving' = None
  /\ stuck' = {}
  /\ UNCHANGED <<by_key, current, events, results, attempt_of, seen, history,
                 stale>>

(* Defect: the recovery ends before it has visited every stuck run.          *)
RecoverDoneEarly ==
  /\ recovery = "running"
  /\ moving = None
  /\ recovery' = "done"
  /\ UNCHANGED <<by_key, current, events, results, attempt_of, seen, stuck,
                 moving, history, stale>>

RecoverDone ==
  /\ recovery = "running"
  /\ moving = None
  /\ stuck = {}
  /\ recovery' = "done"
  /\ UNCHANGED <<by_key, current, events, results, attempt_of, seen, stuck,
                 moving, history, stale>>

Recover ==
  \/ RecoverStart \/ RecoverMove \/ RecoverLost \/ RecoverRaises \/ RecoverDone
  \/ \E t \in Ids : RecoverRead(t)

Operation ==
  \/ \E c \in Clients, t \in Ids :
       GetTask(c, t) \/ \E k \in Keys : CreateTask(c, t, k)
  \/ \E c \in Clients, to \in Targets, att \in AttemptNos \cup {None} :
       Transition(c, to, att)
  \/ \E t \in Ids : AppendEvent(t) \/ SaveResult(t)

Next == Operation \/ Recover

Spec == Init /\ [][Next]_vars

----------------------------------------------------------------------------
TypeOK ==
  /\ by_key \in [Keys -> Ids \cup {None}]
  /\ current \in [Ids -> Run \cup {None}]
  /\ events \in [Ids -> Seq(Move \cup {None})]
  /\ results \in SUBSET (Ids \X {1})
  /\ attempt_of \in [Ids -> {None, 1}]
  /\ seen \in [Clients -> Run \cup {None}]
  /\ recovery \in {"idle", "running", "done", "raised"}
  /\ stuck \in SUBSET Ids
  /\ moving \in [task: Ids, version: Nat] \cup {None}
  /\ history \in SUBSET Run
  /\ stale \in SUBSET Run

Moves(t) == {i \in DOMAIN events[t] : events[t][i] # None}

(* The state that the moves before the i-th event lead to.                   *)
StateBefore(t, i) ==
  LET earlier == {j \in Moves(t) : j < i}
  IN IF earlier = {} THEN "created" ELSE events[t][Max(earlier)].to

(* The events are replayable: the moves recorded for a task chain from       *)
(* CREATED, one per version, to the state its run object is in.              *)
EventsReplay ==
  \A t \in Ids : Known(t) =>
    /\ Cardinality(Moves(t)) = current[t].version
    /\ \A i \in Moves(t) : events[t][i].from = StateBefore(t, i)
    /\ StateBefore(t, Len(events[t]) + 1) = current[t].state

(* When recover_incomplete has finished, no run that it found RUNNING is     *)
(* current any more, whatever the clients did meanwhile.                     *)
RecoveryBlocksStale ==
  recovery = "done" => \A r \in stale : r # current[r.task]

(* The store implements the port's promise.                                  *)
Port == INSTANCE TaskStore WITH runs <- history, MaxVersion <- MaxVersion + 1
PortSpec == Port!Spec

(* So does its caution: over two clients' moves and a recovery's, a task     *)
(* that waited for its approval is carried out only after it was approved.   *)
ApprovalIsHeeded == Port!ApprovalIsHeeded
============================================================================
