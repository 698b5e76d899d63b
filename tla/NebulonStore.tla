---------------------------- MODULE NebulonStore ----------------------------
(***************************************************************************)
(* The durable task store, nak_host/adapters/store_nebulondb.py: four      *)
(* append-only segments on a NebulonDB server that offers inserts and      *)
(* reads only, a cache of those segments in the one writer process, and    *)
(* the adapter's operations. Each operation runs under the adapter's lock  *)
(* and is a series of inserts; the process may die between any two of      *)
(* them, and an insert may be refused, may land while its response is      *)
(* lost, or may land twice because the HTTP client retries it.             *)
(*                                                                         *)
(* A document keeps what the properties tell apart: goals, payloads,       *)
(* workers and texts are left out, and an event carries the run snapshot   *)
(* embedded in its payload, or None.                                       *)
(***************************************************************************)
EXTENDS Naturals, Sequences, FiniteSets, Functions, TaskStates

CONSTANTS
  Ids, Keys,      \* task ids and idempotency keys callers use
  Clients,        \* threads of the process that share the store
  Recoverer,      \* the thread that runs recover_incomplete at startup
  None,           \* absence: no run seen, no run in an event, no operation
  Targets,        \* the target states callers ask for (input bound)
  AttemptNos,     \* the attempt numbers callers set (TaskRun requires >= 1)
  Lossy,          \* TRUE: an insert may land although its response is lost
  MaxVersion,     \* bound: callers stop at this version
  MaxEvents,      \* bound: events per task that append_event may reach
  MaxFaults,      \* bound: failed inserts
  MaxCrashes      \* bound: process deaths

ASSUME NebulonStoreAssumption ==
  /\ Recoverer \notin Clients
  /\ Targets \subseteq States
  /\ AttemptNos \subseteq Nat \ {0}
  /\ 1 \in AttemptNos
  /\ Lossy \in BOOLEAN
  /\ {MaxVersion, MaxEvents, MaxFaults, MaxCrashes} \subseteq Nat
  /\ None \notin AttemptNos
  /\ None \notin [task: Ids, version: Nat, state: States, attempt: AttemptNos]

VARIABLES
  server,     \* the four segments as the server stores them
  cache,      \* the process's copy of the four segments
  up,         \* the process lives and has read the segments (_ready)
  op,         \* the operation that holds the lock, or None
  seen,       \* the last run each thread's caller was given
  recovery,   \* recover_incomplete: "idle", "running" or "done"
  stuck,      \* the task ids recover_incomplete still has to visit
  \* what the properties remember, no state of the program:
  stale,      \* the runs recover_incomplete found RUNNING at its start
  resolved,   \* the task ids callers were given for each idempotency key
  faults, crashes

vars == <<server, cache, up, op, seen, recovery, stuck,
          stale, resolved, faults, crashes>>

Threads == Clients \cup {Recoverer}

----------------------------------------------------------------------------
(* Documents and segments.                                                   *)

TaskDoc == [task: Ids, key: Keys]
RunDoc == [task: Ids, version: Nat, state: States, attempt: AttemptNos]
EventDoc == [task: Ids, seq: Nat, run: RunDoc \cup {None}]
ResultDoc == [task: Ids, attempt: AttemptNos]

(* What the holder of the lock is doing.                                     *)
OpType ==
  [kind: {"createRun", "createEvent"}, who: Threads, task: Ids, key: Keys]
  \cup [kind: {"get"}, who: Threads, task: Ids]
  \cup [kind: {"transition"}, who: Threads, task: Ids, expected: Nat,
        to: States, attempt: AttemptNos \cup {None}]
  \cup [kind: {"snapshot"}, who: Threads, task: Ids, run: RunDoc]

ASSUME NoneIsNoOp == None \notin OpType

NoDocs == [tasks |-> <<>>, runs |-> <<>>, events |-> <<>>, results |-> <<>>]

(* Defect: the first run is written with attempt 0.                          *)
FirstRunAttemptZero(t) ==
  [task |-> t, version |-> 0, state |-> "created", attempt |-> 0]

FirstRun(t) == [task |-> t, version |-> 0, state |-> "created", attempt |-> 1]

(* What a query sees of the documents st: st is the cache or the server.     *)
RunsOf(st, t) == {r \in Range(st.runs) : r.task = t}
VersionsOf(st, t) == {r.version : r \in RunsOf(st, t)}
EventsOf(st, t) == {i \in DOMAIN st.events : st.events[i].task = t}
Known(st, t) == \E d \in Range(st.tasks) : d.task = t
WithKey(st, k) == {i \in DOMAIN st.tasks : st.tasks[i].key = k}

(* _runs_for(t)[-1], and the first document that carries a key.              *)
Current(st, t) ==
  CHOOSE r \in RunsOf(st, t) : \A q \in RunsOf(st, t) : q.version <= r.version
FirstWithKey(st, k) ==
  st.tasks[CHOOSE i \in WithKey(st, k) : \A j \in WithKey(st, k) : i <= j].task

(* _events_for sorts by seq and the sort is stable.                          *)
Before(st, i, j) ==
  \/ st.events[i].seq < st.events[j].seq
  \/ st.events[i].seq = st.events[j].seq /\ i <= j

(* Defect: healing looks at no event at all.                                 *)
UnhealedNever(st, t) == {}

(* The events whose embedded run has no snapshot, and the first of them.     *)
Unhealed(st, t) ==
  {i \in EventsOf(st, t) : /\ st.events[i].run # None
                           /\ st.events[i].run.version \notin VersionsOf(st, t)}
FirstUnhealed(st, t) ==
  CHOOSE i \in Unhealed(st, t) : \A j \in Unhealed(st, t) : Before(st, i, j)

NextSeq(st, t) == Cardinality(EventsOf(st, t)) + 1

(* save_result's attempt: the highest attempt any snapshot carries.          *)
AttemptOf(st, t) ==
  IF RunsOf(st, t) = {} THEN 1
  ELSE CHOOSE a \in {r.attempt : r \in RunsOf(st, t)} :
         \A r \in RunsOf(st, t) : r.attempt <= a

Land(st, seg, doc) == [st EXCEPT ![seg] = Append(@, doc)]

----------------------------------------------------------------------------
Init ==
  /\ server = NoDocs
  /\ cache = NoDocs
  /\ up = FALSE
  /\ op = None
  /\ seen = [c \in Threads |-> None]
  /\ recovery = "idle"
  /\ stuck = {}
  /\ stale = {}
  /\ resolved = [k \in Keys |-> {}]
  /\ faults = 0
  /\ crashes = 0

(* A thread may take the lock and use the store.                             *)
Free == up /\ op = None

(* _insert_locked through _NDBClient.post: the insert is acknowledged (and   *)
(* cached), perhaps landing twice because the first response was lost and    *)
(* the client retried; or every try fails and NDBError leaves the operation, *)
(* with the document on the server when only the response was lost. One      *)
(* extra copy stands for as many as the client has tries.                    *)
Acked(seg, doc, next) ==
  /\ cache' = Land(cache, seg, doc)
  /\ op' = next
  /\ \/ /\ server' = Land(server, seg, doc)
        /\ UNCHANGED faults
     \/ /\ Lossy /\ faults < MaxFaults
        /\ server' = Land(Land(server, seg, doc), seg, doc)
        /\ faults' = faults + 1

Failed(seg, doc) ==
  /\ faults < MaxFaults
  /\ faults' = faults + 1
  /\ op' = None
  /\ UNCHANGED cache
  /\ \/ UNCHANGED server
     \/ Lossy /\ server' = Land(server, seg, doc)

(* An NDBError inside recover_incomplete ends the recovery.                  *)
RaiseTo(c) ==
  IF c = Recoverer
  THEN /\ recovery' = "idle"
       /\ stuck' = {}
       /\ seen' = [seen EXCEPT ![c] = None]
  ELSE UNCHANGED <<recovery, stuck, seen>>

----------------------------------------------------------------------------
(* Defect: the key is not looked up before the insert.                       *)
CreateTaskAnyKey(c, t, k) ==
  /\ Free
  /\ ~Known(cache, t)
  /\ LET doc == [task |-> t, key |-> k]
     IN \/ Acked("tasks", doc, [kind |-> "createRun", who |-> c, task |-> t, key |-> k])
        \/ Failed("tasks", doc)
  /\ UNCHANGED <<up, seen, recovery, stuck, stale, resolved, crashes>>

(* create_task: dedupe by key and by id in the cache, then three inserts.    *)
CreateTask(c, t, k) ==
  /\ Free
  /\ WithKey(cache, k) = {}
  /\ ~Known(cache, t)
  /\ LET doc == [task |-> t, key |-> k]
     IN \/ Acked("tasks", doc, [kind |-> "createRun", who |-> c, task |-> t, key |-> k])
        \/ Failed("tasks", doc)
  /\ UNCHANGED <<up, seen, recovery, stuck, stale, resolved, crashes>>

CreateRun ==
  /\ op # None /\ op.kind = "createRun"
  /\ \/ Acked("runs", FirstRun(op.task), [op EXCEPT !.kind = "createEvent"])
     \/ Failed("runs", FirstRun(op.task))
  /\ UNCHANGED <<up, seen, recovery, stuck, stale, resolved, crashes>>

CreateEvent ==
  /\ op # None /\ op.kind = "createEvent"
  /\ LET doc == [task |-> op.task, seq |-> 1, run |-> None]
     IN \/ /\ Acked("events", doc, None)
           /\ seen' = [seen EXCEPT ![op.who] = FirstRun(op.task)]
           /\ resolved' = [resolved EXCEPT ![op.key] = @ \cup {op.task}]
        \/ Failed("events", doc) /\ UNCHANGED <<seen, resolved>>
  /\ UNCHANGED <<up, recovery, stuck, stale, crashes>>

(* get_task_by_idempotency, first lock section: the key names a task. The    *)
(* second section is a GetTask, with other operations in between.            *)
LookupKey(k) ==
  /\ Free
  /\ WithKey(cache, k) # {}
  /\ resolved' = [resolved EXCEPT ![k] = @ \cup {FirstWithKey(cache, k)}]
  /\ UNCHANGED <<server, cache, up, op, seen, recovery, stuck, stale,
                 faults, crashes>>

(* get_task: repair what a dead process left behind, then read.              *)
BeginGet(c, t) ==
  /\ Free
  /\ Known(cache, t)
  /\ op' = [kind |-> "get", who |-> c, task |-> t]
  /\ UNCHANGED <<server, cache, up, seen, recovery, stuck, stale,
                 resolved, faults, crashes>>

GetTask(c, t) == c \in Clients /\ BeginGet(c, t)

(* _heal_create_locked: a task document without a run, or without an event.  *)
HealFirstRun ==
  /\ op # None /\ op.kind = "get"
  /\ RunsOf(cache, op.task) = {}
  /\ \/ Acked("runs", FirstRun(op.task), op) /\ UNCHANGED <<recovery, stuck, seen>>
     \/ Failed("runs", FirstRun(op.task)) /\ RaiseTo(op.who)
  /\ UNCHANGED <<up, stale, resolved, crashes>>

HealFirstEvent ==
  /\ op # None /\ op.kind = "get"
  /\ RunsOf(cache, op.task) # {}
  /\ EventsOf(cache, op.task) = {}
  /\ LET doc == [task |-> op.task, seq |-> 1, run |-> None]
     IN \/ Acked("events", doc, op) /\ UNCHANGED <<recovery, stuck, seen>>
        \/ Failed("events", doc) /\ RaiseTo(op.who)
  /\ UNCHANGED <<up, stale, resolved, crashes>>

(* Defect: the healed snapshot is cached, never inserted.                    *)
HealRunInCacheOnly ==
  /\ op # None /\ op.kind \in {"get", "transition"}
  /\ Unhealed(cache, op.task) # {}
  /\ cache' = Land(cache, "runs",
                    cache.events[FirstUnhealed(cache, op.task)].run)
  /\ UNCHANGED <<server, up, op, seen, recovery, stuck, stale,
                 resolved, faults, crashes>>

(* _heal_locked, one snapshot at a time: the run of the first event whose    *)
(* version has no snapshot yet.                                              *)
HealRun ==
  /\ op # None
  /\ \/ op.kind = "transition"
     \/ /\ op.kind = "get"
        /\ RunsOf(cache, op.task) # {}
        /\ EventsOf(cache, op.task) # {}
  /\ Unhealed(cache, op.task) # {}
  /\ LET doc == cache.events[FirstUnhealed(cache, op.task)].run
     IN \/ Acked("runs", doc, op) /\ UNCHANGED <<recovery, stuck, seen>>
        \/ Failed("runs", doc) /\ RaiseTo(op.who)
  /\ UNCHANGED <<up, stale, resolved, crashes>>

GetReturn ==
  /\ op # None /\ op.kind = "get"
  /\ RunsOf(cache, op.task) # {}
  /\ EventsOf(cache, op.task) # {}
  /\ Unhealed(cache, op.task) = {}
  /\ seen' = [seen EXCEPT ![op.who] = Current(cache, op.task)]
  /\ op' = None
  /\ UNCHANGED <<server, cache, up, recovery, stuck, stale, resolved,
                 faults, crashes>>

(* transition: a caller asks, from the run it was last given, for a target   *)
(* state and perhaps a new attempt number (None keeps the current one).      *)
BeginTransition(c, to, att) ==
  /\ Free
  /\ seen[c] # None
  /\ seen[c].version <= MaxVersion
  /\ Known(cache, seen[c].task)
  /\ op' = [kind |-> "transition", who |-> c, task |-> seen[c].task,
            expected |-> seen[c].version, to |-> to, attempt |-> att]
  /\ UNCHANGED <<server, cache, up, seen, recovery, stuck, stale,
                 resolved, faults, crashes>>

Transition(c, to, att) ==
  /\ BeginTransition(c, to, att)
  /\ seen[c].version < MaxVersion

(* The run the transition would write from the current one.                  *)
NextRun(cur) ==
  [task |-> op.task, version |-> cur.version + 1, state |-> op.to,
   attempt |-> IF op.attempt = None THEN cur.attempt ELSE op.attempt]

(* Defects: the version, or the edge of TRANSITIONS, is not checked.         *)
AdmittedAnyVersion(cur) == can_transition(cur.state, op.to)
AdmittedAnyEdge(cur) == cur.version = op.expected

Admitted(cur) ==
  /\ cur.version = op.expected
  /\ can_transition(cur.state, op.to)

(* How an operation of thread c ends without an exception that leaves        *)
(* recover_incomplete: a client keeps run, the recovery goes to its next id. *)
EndOf(c, run) ==
  IF c = Recoverer
  THEN /\ stuck' = stuck \ {op.task}
       /\ seen' = [seen EXCEPT ![c] = None]
  ELSE /\ seen' = [seen EXCEPT ![c] = run]
       /\ UNCHANGED stuck

(* TaskNotFound (no snapshots), ConcurrencyError or IllegalTransition.       *)
TransitionRefused ==
  /\ op # None /\ op.kind = "transition"
  /\ Unhealed(cache, op.task) = {}
  /\ \/ RunsOf(cache, op.task) = {}
     \/ ~Admitted(Current(cache, op.task))
  /\ op' = None
  /\ EndOf(op.who, seen[op.who])
  /\ UNCHANGED <<server, cache, up, recovery, stale, resolved,
                 faults, crashes>>

(* The event is inserted first, then the snapshot. The early return for an   *)
(* event that already carries the next id is not an action: SeqIsFresh says  *)
(* that no cached event ever does.                                           *)
TransitionEvent ==
  /\ op # None /\ op.kind = "transition"
  /\ Unhealed(cache, op.task) = {}
  /\ RunsOf(cache, op.task) # {}
  /\ Admitted(Current(cache, op.task))
  /\ LET run == NextRun(Current(cache, op.task))
         doc == [task |-> op.task, seq |-> NextSeq(cache, op.task), run |-> run]
     IN \/ /\ Acked("events", doc, [kind |-> "snapshot", who |-> op.who,
                                    task |-> op.task, run |-> run])
           /\ UNCHANGED <<recovery, stuck, seen>>
        \/ Failed("events", doc) /\ RaiseTo(op.who)
  /\ UNCHANGED <<up, stale, resolved, crashes>>

TransitionSnapshot ==
  /\ op # None /\ op.kind = "snapshot"
  /\ \/ /\ Acked("runs", op.run, None)
        /\ EndOf(op.who, op.run)
        /\ UNCHANGED recovery
     \/ Failed("runs", op.run) /\ RaiseTo(op.who)
  /\ UNCHANGED <<up, stale, resolved, crashes>>

(* append_event, which heals nothing.                                        *)
AppendEvent(t) ==
  /\ Free
  /\ Known(cache, t)
  /\ NextSeq(cache, t) <= MaxEvents
  /\ LET doc == [task |-> t, seq |-> NextSeq(cache, t), run |-> None]
     IN Acked("events", doc, None) \/ Failed("events", doc)
  /\ UNCHANGED <<up, seen, recovery, stuck, stale, resolved, crashes>>

(* save_result: one result per attempt, DuplicateTask otherwise.             *)
SaveResult(t) ==
  /\ Free
  /\ Known(cache, t)
  /\ LET doc == [task |-> t, attempt |-> AttemptOf(cache, t)]
     IN /\ doc \notin Range(cache.results)
        /\ Acked("results", doc, None) \/ Failed("results", doc)
  /\ UNCHANGED <<up, seen, recovery, stuck, stale, resolved, crashes>>

----------------------------------------------------------------------------
(* refresh: the segments are re-read in order; a failing read leaves the     *)
(* first n of them reloaded.                                                 *)
Segments == <<"tasks", "runs", "events", "results">>

Reloaded(n) ==
  [seg \in DOMAIN cache |->
     IF \E i \in 1..n : Segments[i] = seg THEN server[seg] ELSE cache[seg]]

Refresh(n) ==
  /\ Free
  /\ cache' = Reloaded(n)
  /\ UNCHANGED <<server, up, op, seen, recovery, stuck, stale,
                 resolved, faults, crashes>>

(* recover_incomplete: reload, find the tasks whose latest snapshot is       *)
(* RUNNING, release the lock; then get_task and transition each of them.     *)
RecoverStart ==
  /\ Free
  /\ recovery = "idle"
  /\ cache' = server
  /\ recovery' = "running"
  /\ stuck' = {t \in Ids : /\ RunsOf(server, t) # {}
                           /\ Current(server, t).state = "running"}
  /\ stale' = {Current(server, t) : t \in stuck'}
  /\ UNCHANGED <<server, up, op, seen, resolved, faults, crashes>>

RecoverGet(t) ==
  /\ recovery = "running"
  /\ t \in stuck
  /\ seen[Recoverer] = None
  /\ BeginGet(Recoverer, t)

RecoverBlock ==
  /\ recovery = "running"
  /\ seen[Recoverer] # None
  /\ seen[Recoverer].state = "running"
  /\ BeginTransition(Recoverer, "blocked", None)

RecoverSkip ==
  /\ Free
  /\ recovery = "running"
  /\ seen[Recoverer] # None
  /\ seen[Recoverer].state # "running"
  /\ stuck' = stuck \ {seen[Recoverer].task}
  /\ seen' = [seen EXCEPT ![Recoverer] = None]
  /\ UNCHANGED <<server, cache, up, op, recovery, stale, resolved,
                 faults, crashes>>

(* Defect: the recovery ends before it has visited every stuck task.         *)
RecoverDoneEarly ==
  /\ Free
  /\ recovery = "running"
  /\ recovery' = "done"
  /\ UNCHANGED <<server, cache, up, op, seen, stuck, stale, resolved,
                 faults, crashes>>

RecoverDone ==
  /\ Free
  /\ recovery = "running"
  /\ stuck = {}
  /\ recovery' = "done"
  /\ UNCHANGED <<server, cache, up, op, seen, stuck, stale, resolved,
                 faults, crashes>>

(* The process dies, with the lock's holder wherever it is, and a new one    *)
(* reads the segments on first use (_ensure_locked). What callers outside    *)
(* the process were given, they keep.                                        *)
Crash ==
  /\ up
  /\ crashes < MaxCrashes
  /\ crashes' = crashes + 1
  /\ up' = FALSE
  /\ cache' = NoDocs
  /\ op' = None
  /\ recovery' = "idle"
  /\ stuck' = {}
  /\ stale' = {}
  /\ seen' = [seen EXCEPT ![Recoverer] = None]
  /\ UNCHANGED <<server, resolved, faults>>

Open ==
  /\ ~up
  /\ up' = TRUE
  /\ cache' = server
  /\ UNCHANGED <<server, op, seen, recovery, stuck, stale, resolved,
                 faults, crashes>>

Operation ==
  \/ \E c \in Clients, t \in Ids :
       GetTask(c, t) \/ \E k \in Keys : CreateTask(c, t, k)
  \/ \E c \in Clients, to \in Targets, att \in AttemptNos \cup {None} :
       Transition(c, to, att)
  \/ \E t \in Ids : AppendEvent(t) \/ SaveResult(t)
  \/ \E k \in Keys : LookupKey(k)
  \/ \E n \in 1..Len(Segments) : Refresh(n)

Step ==
  \/ CreateRun \/ CreateEvent
  \/ HealFirstRun \/ HealFirstEvent \/ HealRun \/ GetReturn
  \/ TransitionRefused \/ TransitionEvent \/ TransitionSnapshot

Recover ==
  \/ RecoverStart \/ RecoverBlock \/ RecoverSkip \/ RecoverDone
  \/ \E t \in Ids : RecoverGet(t)

Next == Operation \/ Step \/ Recover \/ Crash \/ Open

Spec == Init /\ [][Next]_vars

(* list_pending: the latest snapshot of each task, unhealed, if pending.     *)
ListPending ==
  {r \in Range(cache.runs) : /\ r = Current(cache, r.task)
                             /\ r.state \in PENDING_STATES}

----------------------------------------------------------------------------
SegmentsType == [tasks: Seq(TaskDoc), runs: Seq(RunDoc),
                 events: Seq(EventDoc), results: Seq(ResultDoc)]

TypeOK ==
  /\ server \in SegmentsType
  /\ cache \in SegmentsType
  /\ up \in BOOLEAN
  /\ op \in OpType \cup {None}
  /\ seen \in [Threads -> RunDoc \cup {None}]
  /\ recovery \in {"idle", "running", "done"}
  /\ stuck \in SUBSET Ids
  /\ stale \in SUBSET RunDoc
  /\ resolved \in [Keys -> SUBSET Ids]
  /\ faults \in Nat
  /\ crashes \in Nat

(* Read your writes, across threads and restarts: a run any caller was ever  *)
(* given is in the live process's cache, so no later read of that task       *)
(* (get_task, the version check) can be older than it; and list_pending,     *)
(* which heals nothing, does not list a task somebody saw finished.          *)
SeenIsCached ==
  up => \A c \in Threads : seen[c] # None =>
          /\ seen[c] \in Range(cache.runs)
          /\ seen[c].state \in TERMINAL_STATES
               => \A r \in ListPending : r.task # seen[c].task

(* Optimistic concurrency is about the durable state, not the cached one:    *)
(* when transition is about to insert its snapshot, the run its caller       *)
(* decided on is the latest the server holds, whatever was lost or retried.  *)
NoLostUpdate ==
  op # None /\ op.kind = "snapshot"
    => seen[op.who] = Current(server, op.task)

(* When recover_incomplete has finished, no run that it found RUNNING is     *)
(* current any more.                                                         *)
RecoveryBlocksStale ==
  recovery = "done" => \A r \in stale : r # Current(server, r.task)

(* One idempotency key never gives callers two different tasks.              *)
OneTaskPerKey == \A k \in Keys : \A t, u \in resolved[k] : t = u

(* One document per event: an event id (task id and seq) names one document. *)
EventIdsUnique ==
  \A i, j \in DOMAIN server.events :
    /\ server.events[i].task = server.events[j].task
    /\ server.events[i].seq = server.events[j].seq
    => i = j

(* One result document per attempt of a task.                                *)
OneResultPerAttempt ==
  \A i, j \in DOMAIN server.results : server.results[i] = server.results[j] => i = j

(* While every answer arrives, the documents are what create_task, transition *)
(* and save_result dedupe by: a key names one task, an event id one event, an *)
(* attempt one result, over deaths, refused inserts and a recovery.           *)
DocumentsAreUnique == OneTaskPerKey /\ EventIdsUnique /\ OneResultPerAttempt

(* Snapshots the server holds for one version of a task are the same run:    *)
(* healing, retries and duplicated inserts never fork a task's history.      *)
OneRunPerVersion ==
  \A r, q \in Range(server.runs) :
    r.task = q.task /\ r.version = q.version => r = q

(* The "idempotent replay" return of transition is never taken: no event the *)
(* process knows of carries the sequence number that it would use next.      *)
SeqIsFresh ==
  \A t \in Ids : \A i \in EventsOf(cache, t) :
    cache.events[i].seq < NextSeq(cache, t)

(* Whatever is lost, retried or healed, the history of a task has no fork,    *)
(* and no event the process is about to write repeats one it knows of.        *)
HistoryNeverForks == OneRunPerVersion /\ SeqIsFresh

(* The store implements the port's promise: the durable snapshots are the    *)
(* abstract history.                                                         *)
Port == INSTANCE TaskStore WITH runs <- Range(server.runs),
                                MaxVersion <- MaxVersion + 1
PortSpec == Port!Spec
============================================================================
