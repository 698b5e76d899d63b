----------------------------- MODULE TaskChain -----------------------------
(***************************************************************************)
(* The use-cases that execute an assigned task, nak_host/application:      *)
(* run_chain.py and verify_task.py with the child tasks they create,       *)
(* call.py, and run_task.py, which executes a task itself or is what a     *)
(* chain's step_runner closes over. Several callers share one store, whose *)
(* operations are atomic here (NebulonStore and MemoryStore look inside    *)
(* them); a caller may die between any two of them. What a worker's loop   *)
(* does is AgentLoop's subject: here it ends in some status.               *)
(***************************************************************************)
EXTENDS Integers, Sequences, TaskStates

CONSTANTS
  Callers,       \* threads or processes that share the store
  Workers,       \* the worker names that plans mention
  Tester,        \* the worker verify_task is given
  Plans,         \* the step lists run_chain is called with
  LoopStatuses,  \* the statuses run_loop may return
  None,          \* absence: no task, no worker named, no result
  MaxRounds,     \* max_rounds of run_chain
  MaxSteps,      \* the length of the longest plan
  MaxCalls       \* bound: calls the callers make together

StepKinds == {"write", "test", "review"}

(* A queued step; its goal is left out.                                      *)
Step == [worker: Workers, kind: StepKinds, fix_with: Workers \cup {None}]

ASSUME TaskChainAssumption ==
  /\ Tester \in Workers
  /\ None \notin Workers \cup {"run_task", "run_chain", "verify_task",
                              "call_worker"}
  /\ None \notin [state: States, version: Nat]
  /\ {MaxRounds, MaxSteps, MaxCalls} \subseteq Nat
  /\ MaxSteps >= 1
  /\ \A p \in Plans : p \in Seq(Step) /\ Len(p) \in 1..MaxSteps

(* The tasks by idempotency key: the parent, the one named calls use, and    *)
(* the children "{task.id}:step:{n}".                                        *)
Parent == -1
Named == -2
Children == 0..(MaxSteps + 2 * MaxRounds - 1)
Names == {Parent, Named} \cup Children

CallKinds == {"run_task", "run_chain", "verify_task", "call_worker"}

VARIABLES
  runs,     \* the store's current run of each task: state and version
  pc,       \* where each caller is in its call
  kind,     \* which use-case the call is
  id,       \* the number of the call
  held,     \* the copy of the parent's run the call works from
  queue,    \* queue of run_chain
  index,    \* index, and child_no, of run_chain: the steps taken from queue
  rounds,   \* rounds of run_chain
  log,      \* results of run_chain
  name,     \* the task the call is executing
  copy,     \* the copy of that task's run (child_run, run)
  calls,    \* the number of calls made
  \* what the properties remember, no state of the program:
  ran       \* the calls that executed each task

chain == <<queue, index, rounds, log>>
vars == <<runs, pc, kind, id, held, chain, name, copy, calls, ran>>

RunState == [state: States, version: Nat]

Init ==
  /\ runs = [n \in Names |->
              IF n = Parent THEN [state |-> "assigned", version |-> 3] ELSE None]
  /\ pc = [c \in Callers |-> "idle"]
  /\ kind = [c \in Callers |-> None]
  /\ id = [c \in Callers |-> 0]
  /\ held = [c \in Callers |-> None]
  /\ queue = [c \in Callers |-> <<>>]
  /\ index = [c \in Callers |-> 0]
  /\ rounds = [c \in Callers |-> 0]
  /\ log = [c \in Callers |-> <<>>]
  /\ name = [c \in Callers |-> Parent]
  /\ copy = [c \in Callers |-> None]
  /\ calls = 0
  /\ ran = [n \in Names |-> {}]

----------------------------------------------------------------------------
(* The store's transition, for a caller that holds the copy r of the run of  *)
(* task n: ConcurrencyError or IllegalTransition unless Movable.             *)
Movable(n, r, to) ==
  /\ runs[n].version = r.version
  /\ can_transition(runs[n].state, to)

Moved(r, to) == [state |-> to, version |-> r.version + 1]

FirstRun == [state |-> "created", version |-> 0]

IsChain(c) == kind[c] \in {"run_chain", "verify_task"}

(* A call ends: its locals are gone, how it ended remains.                   *)
End(c) ==
  /\ pc' = [pc EXCEPT ![c] = "idle"]
  /\ kind' = [kind EXCEPT ![c] = None]
  /\ id' = [id EXCEPT ![c] = 0]
  /\ held' = [held EXCEPT ![c] = None]
  /\ queue' = [queue EXCEPT ![c] = <<>>]
  /\ index' = [index EXCEPT ![c] = 0]
  /\ rounds' = [rounds EXCEPT ![c] = 0]
  /\ log' = [log EXCEPT ![c] = <<>>]
  /\ name' = [name EXCEPT ![c] = Parent]
  /\ copy' = [copy EXCEPT ![c] = None]
  /\ UNCHANGED <<calls, ran>>

(* A call starts from the parent's run as get_task gives it.                 *)
VerifyStep(k) == [worker |-> Tester, kind |-> k, fix_with |-> None]

QueuesOf(k) ==
  CASE k = "run_chain" -> Plans
    [] k = "verify_task" -> {<<VerifyStep("test")>>, <<VerifyStep("review")>>}
    [] OTHER -> {<<>>}

Begin(c, k, q) ==
  /\ pc[c] = "idle"
  /\ calls < MaxCalls
  /\ q \in QueuesOf(k)
  /\ calls' = calls + 1
  /\ pc' = [pc EXCEPT ![c] = IF k = "call_worker" THEN "lookup" ELSE "start"]
  /\ kind' = [kind EXCEPT ![c] = k]
  /\ id' = [id EXCEPT ![c] = calls + 1]
  /\ held' = [held EXCEPT ![c] = runs[Parent]]
  /\ queue' = [queue EXCEPT ![c] = q]
  /\ name' = [name EXCEPT ![c] = IF k = "call_worker" THEN Named ELSE Parent]
  /\ copy' = [copy EXCEPT ![c] = runs[Parent]]
  /\ UNCHANGED <<runs, index, rounds, log, ran>>

(* run_chain on an ASSIGNED parent moves it; on a RUNNING one it only adds   *)
(* an event.                                                                 *)
ChainStarts(c) ==
  /\ pc[c] = "start"
  /\ IsChain(c)
  /\ held[c].state = "assigned"
  /\ Movable(Parent, held[c], "running")
  /\ runs' = [runs EXCEPT ![Parent] = Moved(held[c], "running")]
  /\ held' = [held EXCEPT ![c] = Moved(held[c], "running")]
  /\ pc' = [pc EXCEPT ![c] = "lookup"]
  /\ UNCHANGED <<kind, id, chain, name, copy, calls, ran>>

ChainJoins(c) ==
  /\ pc[c] = "start"
  /\ IsChain(c)
  /\ held[c].state = "running"
  /\ pc' = [pc EXCEPT ![c] = "lookup"]
  /\ UNCHANGED <<runs, kind, id, held, chain, name, copy, calls, ran>>

ChainRefused(c) ==
  /\ pc[c] = "start"
  /\ IsChain(c)
  /\ \/ held[c].state \notin {"assigned", "running"}
     \/ held[c].state = "assigned" /\ ~Movable(Parent, held[c], "running")
  /\ End(c)
  /\ UNCHANGED runs

----------------------------------------------------------------------------
(* create_task for the next step of a chain, or for a named call: look the   *)
(* key up, create, and on DuplicateTask look it up again. Children is every  *)
(* child key a bounded chain can reach; a chain that wanted another would    *)
(* stop here and EveryCallEnds would fail.                                   *)

HasNext(c) == index[c] < Len(queue[c])

NextName(c) == IF IsChain(c) THEN index[c] ELSE Named

LookupTask(c) ==
  /\ pc[c] = "lookup"
  /\ IsChain(c) => HasNext(c)
  /\ NextName(c) \in Names
  /\ name' = [name EXCEPT ![c] = NextName(c)]
  /\ index' = [index EXCEPT ![c] = IF IsChain(c) THEN @ + 1 ELSE @]
  /\ copy' = [copy EXCEPT ![c] = runs[NextName(c)]]
  /\ pc' = [pc EXCEPT
              ![c] = IF runs[NextName(c)] = None THEN "create" ELSE "assign"]
  /\ UNCHANGED <<runs, kind, id, held, queue, rounds, log, calls, ran>>

CreateTask(c) ==
  /\ pc[c] = "create"
  /\ runs[name[c]] = None
  /\ runs' = [runs EXCEPT ![name[c]] = FirstRun]
  /\ copy' = [copy EXCEPT ![c] = FirstRun]
  /\ pc' = [pc EXCEPT ![c] = "assign"]
  /\ UNCHANGED <<kind, id, held, chain, name, calls, ran>>

(* "Lost a race with another creator; return the winner."                    *)
CreateLosesRace(c) ==
  /\ pc[c] = "create"
  /\ runs[name[c]] # None
  /\ copy' = [copy EXCEPT ![c] = runs[name[c]]]
  /\ pc' = [pc EXCEPT ![c] = "assign"]
  /\ UNCHANGED <<runs, kind, id, held, chain, name, calls, ran>>

(* Defect: a task that was already moved on is taken over as it is.          *)
AssignTaskOrResume(c) ==
  /\ pc[c] = "assign"
  /\ runs' = [runs EXCEPT ![name[c]] = Moved(@, "assigned")]
  /\ copy' = [copy EXCEPT ![c] = runs'[name[c]]]
  /\ pc' = [pc EXCEPT ![c] = "run"]
  /\ UNCHANGED <<kind, id, held, chain, name, calls, ran>>

AssignTask(c) ==
  /\ pc[c] = "assign"
  /\ Movable(name[c], copy[c], "assigned")
  /\ runs' = [runs EXCEPT ![name[c]] = Moved(copy[c], "assigned")]
  /\ copy' = [copy EXCEPT ![c] = Moved(@, "assigned")]
  /\ pc' = [pc EXCEPT ![c] = "run"]
  /\ UNCHANGED <<kind, id, held, chain, name, calls, ran>>

(* The exception of the transition leaves run_chain, or call_worker.         *)
AssignRefused(c) ==
  /\ pc[c] = "assign"
  /\ ~Movable(name[c], copy[c], "assigned")
  /\ End(c)
  /\ UNCHANGED runs

----------------------------------------------------------------------------
(* run_task, on its own or inside a step_runner.                             *)

RunStarts(c) ==
  /\ pc[c] = "run" \/ (pc[c] = "start" /\ kind[c] = "run_task")
  /\ copy[c].state = "assigned"
  /\ Movable(name[c], copy[c], "running")
  /\ runs' = [runs EXCEPT ![name[c]] = Moved(copy[c], "running")]
  /\ copy' = [copy EXCEPT ![c] = Moved(@, "running")]
  /\ ran' = [ran EXCEPT ![name[c]] = @ \cup {id[c]}]
  /\ pc' = [pc EXCEPT ![c] = "loop"]
  /\ UNCHANGED <<kind, id, held, chain, name, calls>>

(* ValueError for a run that is not ASSIGNED, or the transition's exception. *)
RunRefused(c) ==
  /\ pc[c] = "start"
  /\ kind[c] = "run_task"
  /\ \/ copy[c].state # "assigned"
     \/ ~Movable(name[c], copy[c], "running")
  /\ End(c)
  /\ UNCHANGED runs

(* _STATUS_MAP: what the Result says of the loop's status.                   *)
ResultStatus(s) ==
  CASE s = "done" -> "ok"
    [] s \in {"needs_approval", "cancelled"} -> s
    [] OTHER -> "failed"

(* run_task or call_worker saves the result and returns; the run stays       *)
(* RUNNING.                                                                  *)
RunReturns(c) ==
  /\ pc[c] = "loop"
  /\ ~IsChain(c)
  /\ End(c)
  /\ UNCHANGED runs

(* The runner may raise before or after it moved the run: a chain reports    *)
(* that as its outcome, run_task and call_worker raise.                      *)
RunRaises(c) ==
  /\ pc[c] \in {"run", "loop"}
  /\ End(c)
  /\ UNCHANGED runs

----------------------------------------------------------------------------
(* run_chain after a step. The step just executed is queue[index].           *)

Now(c) == queue[c][index[c]]

(* last_write: the worker of the last write step.                            *)
Writes(c) == {i \in 1..index[c] : queue[c][i].kind = "write"}
LastWrite(c) ==
  queue[c][CHOOSE i \in Writes(c) : \A j \in Writes(c) : j <= i].worker

Fixer(c) ==
  IF Now(c).fix_with # None THEN Now(c).fix_with
  ELSE IF Writes(c) # {} THEN LastWrite(c)
  ELSE queue[c][1].worker

FixStep(c) == [worker |-> Fixer(c), kind |-> "write", fix_with |-> None]

(* Defect: the rounds are not bounded.                                       *)
NeedsFixWithoutEnd(c, status) == Now(c).kind = "test" /\ status # "ok"

(* CHAIN_FIX_KINDS is {"test"}.                                              *)
NeedsFix(c, status) ==
  Now(c).kind = "test" /\ status # "ok" /\ rounds[c] < MaxRounds

Logged(c, status) ==
  Append(log[c], [step |-> Now(c), status |-> status,
                  superseded |-> NeedsFix(c, status)])

(* Defect: the failed step is not queued again behind its repair.            *)
RepairedQueueOnce(c) ==
  SubSeq(queue[c], 1, index[c]) \o <<FixStep(c)>>
    \o SubSeq(queue[c], index[c] + 1, Len(queue[c]))

(* The repair and the failed step again, in front of the remaining steps.    *)
RepairedQueue(c) ==
  SubSeq(queue[c], 1, index[c]) \o <<FixStep(c), Now(c)>>
    \o SubSeq(queue[c], index[c] + 1, Len(queue[c]))

StepFinished(c, s) ==
  /\ pc[c] = "loop"
  /\ IsChain(c)
  /\ LET status == ResultStatus(s)
     IN /\ log' = [log EXCEPT ![c] = Logged(c, status)]
        /\ IF NeedsFix(c, status)
           THEN /\ rounds' = [rounds EXCEPT ![c] = @ + 1]
                /\ queue' = [queue EXCEPT ![c] = RepairedQueue(c)]
           ELSE UNCHANGED <<rounds, queue>>
  /\ pc' = [pc EXCEPT ![c] = "lookup"]
  /\ UNCHANGED <<runs, kind, id, held, index, name, copy, calls, ran>>

(* Defect: any result will do.                                               *)
OkIfAny(c) == log[c] # <<>>

(* ok of run_chain: every result that was not superseded is OK.              *)
Ok(c) == \A i \in DOMAIN log[c] : ~log[c][i].superseded => log[c][i].status = "ok"

AtEnd(c) == pc[c] = "lookup" /\ IsChain(c) /\ ~HasNext(c)

Verifies(c) == kind[c] = "verify_task" /\ Ok(c)

(* run_chain returns; verify_task too when its chain was not ok.             *)
ChainReturns(c) ==
  /\ AtEnd(c)
  /\ ~Verifies(c)
  /\ End(c)
  /\ UNCHANGED runs

VerifyMoves(c) ==
  /\ AtEnd(c)
  /\ Verifies(c)
  /\ Movable(Parent, held[c], "verified")
  /\ runs' = [runs EXCEPT ![Parent] = Moved(held[c], "verified")]
  /\ End(c)

VerifyRefused(c) ==
  /\ AtEnd(c)
  /\ Verifies(c)
  /\ ~Movable(Parent, held[c], "verified")
  /\ End(c)
  /\ UNCHANGED runs

----------------------------------------------------------------------------
(* The caller's process dies in the middle of a call.                        *)
Dies(c) ==
  /\ pc[c] # "idle"
  /\ End(c)
  /\ UNCHANGED runs

(* recover_incomplete of the store blocks a RUNNING task, whoever runs it.   *)
Recover(n) ==
  /\ runs[n] # None
  /\ runs[n].state = "running"
  /\ runs' = [runs EXCEPT ![n] = Moved(@, "blocked")]
  /\ UNCHANGED <<pc, kind, id, held, chain, name, copy, calls, ran>>

Proceed(c) ==
  \/ ChainStarts(c) \/ ChainJoins(c) \/ ChainRefused(c)
  \/ LookupTask(c) \/ CreateTask(c) \/ CreateLosesRace(c)
  \/ AssignTask(c) \/ AssignRefused(c)
  \/ RunStarts(c) \/ RunRefused(c) \/ RunReturns(c) \/ RunRaises(c)
  \/ \E s \in LoopStatuses : StepFinished(c, s)
  \/ ChainReturns(c) \/ VerifyMoves(c) \/ VerifyRefused(c)

Next ==
  \/ \E c \in Callers :
       \/ \E k \in CallKinds : \E q \in QueuesOf(k) : Begin(c, k, q)
       \/ Proceed(c)
       \/ Dies(c)
  \/ \E n \in Names : Recover(n)

(* Fairness: a call that is not killed keeps executing; nobody has to start  *)
(* a call, to die, or to recover.                                            *)
Spec == Init /\ [][Next]_vars /\ \A c \in Callers : WF_vars(Proceed(c))

----------------------------------------------------------------------------
LogEntry == [step: Step, superseded: BOOLEAN,
             status: {"ok", "needs_approval", "cancelled", "failed"}]

TypeOK ==
  /\ runs \in [Names -> RunState \cup {None}]
  /\ pc \in [Callers -> {"idle", "start", "lookup", "create", "assign", "run",
                         "loop"}]
  /\ kind \in [Callers -> CallKinds \cup {None}]
  /\ id \in [Callers -> 0..MaxCalls]
  /\ held \in [Callers -> RunState \cup {None}]
  /\ queue \in [Callers -> Seq(Step)]
  /\ index \in [Callers -> Nat]
  /\ rounds \in [Callers -> 0..MaxRounds]
  /\ log \in [Callers -> Seq(LogEntry)]
  /\ name \in [Callers -> Names]
  /\ copy \in [Callers -> RunState \cup {None}]
  /\ calls \in 0..MaxCalls
  /\ ran \in [Names -> SUBSET (1..MaxCalls)]

(* However many calls run_chain and verify_task get for one parent, at the   *)
(* same time, after a crash or one after the other, the steps that are       *)
(* executed are all steps of one call: two chains never interleave their     *)
(* writes and tests, and no step is executed twice.                          *)
StepsOfOneChain ==
  \A n, m \in Children : \A x \in ran[n], y \in ran[m] : x = y

(* A chain that reports ok re-verified what it repaired: every superseded    *)
(* test was followed by a repair and then by an OK result of the same step.  *)
OkIsReverified ==
  \A c \in Callers : AtEnd(c) /\ Ok(c) =>
    \A i \in DOMAIN log[c] : log[c][i].superseded =>
      \E j \in i+2..Len(log[c]) :
        /\ log[c][j].step = log[c][i].step
        /\ log[c][j].status = "ok"
        /\ \E w \in i+1..j-1 : log[c][w].step.kind = "write"

(* A task becomes VERIFIED only by a verify_task call whose last step is an  *)
(* OK test or review, and only if nobody moved the task since that call      *)
(* started: not after a recovery, nor after another verification.            *)
VerifiedByEvidence ==
  [][runs'[Parent] # runs[Parent] /\ runs'[Parent].state = "verified" =>
       \E c \in Callers :
         /\ pc[c] # "idle" /\ pc'[c] = "idle"
         /\ held[c] = runs[Parent]
         /\ log[c] # <<>>
         /\ LET last == log[c][Len(log[c])]
            IN last.status = "ok" /\ last.step.kind \in {"test", "review"}]_vars

(* Every call ends unless its process dies, whatever the tests' results are. *)
EveryCallEnds == \A c \in Callers : pc[c] # "idle" ~> pc[c] = "idle"

============================================================================
