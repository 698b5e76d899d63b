# NebulonAK: models, checks and proofs

This directory is a TLA+ development of NebulonAK, the agent kernel under
`nak_host/`: modules that model its task stores, its agent loop, its execution
harness, its decisions, its task chains, its crafts, its shared chat sessions
and the vetting of its workers, TLC configurations that check them on small
instances, and proofs that the TLAPS proof system checks for every value of the
constants. Run things from this directory: `tlc -config X.cfg M`, `tlapm M.tla`.

## 1. Inventory

| Part | Code | State it keeps | Operations |
|---|---|---|---|
| Task state machine | `domain/state.py`, `task.py` | none (constants) | `can_transition`, `legal_targets` |
| Task store port | `domain/ports.py` | what an adapter promises | create, get, transition, append_event, save_result, list_pending, recover_incomplete |
| Durable store | `adapters/store_nebulondb.py` | four append-only segments on a server, a cache of them, one lock | the port, plus refresh and healing |
| In-memory store | `adapters/store_memory.py` | dictionaries under one lock | the port |
| Agent loop | `application/loop.py` | locals of one call: grants, stalls, retries | one brain call per turn, then inspect, approve and run each tool call |
| Approval ledger | `application/approval.py` | granted and revoked references | grant, revoke, is_valid, derive |
| Executor | `adapters/executor_harness.py` | none | inspect, run |
| Use-cases | `application/*.py` | none of their own; they move runs in the store | create, plan, assign, run, chain, verify, call |
| Execution harness | `harness/engine/` | permission tables, the bound worker, registered functions, call and time counters, session directory | bind, register, inspect, run, create_session, start_plan, approve_plan |
| Tools | `harness/tools/` | files | file, terminal, search, ... |
| Crafts | `harness/craft/` | none (files read afresh) | load, list, offer, gaps |
| Worker sessions | `worker/engine/session.py`, `memory.py`, `chat.py` | per-session locks, the stored transcript | chat turn, merge, save with retries |
| Worker policy | `worker/engine/triage.py`, `autonomy.py`, `dispatch.py`, `team.py`, `registry.py` | the roster's files, a cache of them | triage, split, dispatch in threads, roster lookups |
| Decision routing | `decision/` | the cache of decisions, the endpoint's liveness, a batch being decided | decide, batch, policy, fallback |
| Brain client, credentials | `brain/client.py`, `adapters/credentials_mind.py` | cached credentials | HTTP requests with retries |
| Wiring | `wiring.py` | none | `run_craft`: resolve the team, plan, persist, approve, dispatch |
| Settings, API, CLI | `utils/`, `api/`, `cli/` | configuration | read-only views, start and stop |
| Vetting | `pipeline/vetting/` | Mind users of its chats, reports, prompt versions | probe, plan cases, answer, judge, score, repeat, improve |

How they interact: the use-cases and `run_craft` call the store; `run_task`
calls the loop; the loop calls the brain, the executor and, for approvals, the
ledger; the executor calls the harness with the ledger as its approver; the
durable store calls the NebulonDB server over HTTP. A chat first asks the
decider, which asks Mind or a local endpoint and falls back; `run_craft` asks it
for every step of a plan. Vetting drives workers and an assessor through the
same chats. Threads share the store (its lock), the ledger (its lock), the
cancel token, the decider's caches and, when the caller gives one, a brain.

What is hard here: a store without transactions whose inserts may be lost, late
or doubled; a process death between two inserts of one operation; recovery
beside running clients; callers that decide on versions they read earlier;
approvals revoked and loops cancelled in the middle of a turn; loops that must
end whatever a model answers; a transcript that several processes read, extend
and write back over a service that may fail or answer late; verdicts and limits
that are merged from several files; decisions served from a cache while the
world they were made in has moved; chats that go on after their caller has given
up. `PROJECT.json` lists each such hazard at its line with the properties that
would catch it.

## 2. Modules

| Module | What it models |
|---|---|
| `TaskStates` | the states, TRANSITIONS and the classes of states |
| `TaskRuns` | the run snapshots of a task store, and the first of a task |
| `TaskStore` | abstract: the histories of runs a TaskStorePort promises; extends `TaskRuns` |
| `NebulonStore`, `MCNebulonStore` | the durable store; implements `TaskStore` |
| `NebulonStoreProofs` | proofs about `NebulonStore`: its six invariants and the refinement |
| `MemoryStore`, `MCMemoryStore` | the in-memory store; extends `TaskRuns`, implements `TaskStore` |
| `MemoryStoreProofs` | proofs about `MemoryStore` |
| `AgentLoop` | `run_loop` with ledger, executor and harness re-checks |
| `TaskProofs` | proofs about `TaskStore`, `AgentLoop` and `Harness`: a task's history, the loop that works on it, and the harness that runs the loop's calls |
| `Harness`, `MCHarness` | the execution harness: permissions, gates, limits, sessions, plans, and the executor before it |
| `Decider`, `MCDecider` | one decision: triage or route, cache, Mind, endpoint, policy, for several callers |
| `DeciderProofs` | proofs about `Decider` |
| `TaskChain`, `MCTaskChain` | run_chain, verify_task, run_task and call_worker on shared tasks |
| `TaskChainProofs` | proofs about `TaskChain`: one chain executes, its types and its length, what ok and VERIFIED rest on |
| `SessionMemory`, `MCSessionMemory` | one chat turn on its way into the shared transcript |
| `SessionMemoryProofs` | proofs about `SessionMemory`: its types, and that turns are kept once |
| `Roster` | the rules of workers.json and teams.json, as operators |
| `CraftRun`, `MCCraftRun` | `run_craft`: team, plan, decisions in a batch, approval, assignment, peers; extends `Roster` |
| `CraftRunProofs` | proofs about `CraftRun`: all its safety properties |
| `Crafts` | the rules of crafts.json and craft.md, as operators |
| `Vetting`, `MCVetting` | a vetting invocation over workers, passes, cases and judges; extends `Crafts` |
| `VettingProofs` | proofs about `Vetting`: the two invariants of its passing run |

`TaskStore` is checked where it is implemented: the two stores instantiate it
(`Port`). An MC module only gives constants their values. Definitions under a comment that begins with "Defect:" are wrong
variants of the definition below them: putting one in its place must break a
property, which shows that the property looks at that code. `PROJECT.json` lists
them under "mutants".

### How state and actions correspond to the code

**TaskStore.** `runs` is the set of run snapshots that were ever current; the
port's `create_task` and `transition` are its only actions. Everything else the
port offers reads it or adds events and results.

**NebulonStore.** `server` and `cache` are records of the four segments (tasks,
runs, events, results), each a sequence of documents: what the NebulonDB server
stores, and what the one writer process has read or written. `op` is the
operation that holds the store's lock; each of its inserts is an action of its
own (`CreateTask`, `CreateRun`, `CreateEvent`; `HealRun`; `TransitionEvent`,
`TransitionSnapshot`), and an insert may be acknowledged, doubled by the HTTP
client's retry, refused, or stored although its answer was lost. `Refresh(n)`
re-reads the first n segments in the code's order, the rest failing. `Crash`
drops cache and operation, `Open` reads all segments again. `seen` is what each
thread's caller was last given, which is the version it passes to `transition`;
`Recoverer` is the thread of `recover_incomplete`, which gives the lock back
between choosing a task and moving it.

**MemoryStore.** One variable per dictionary of `InMemoryTaskStore`; one action
per lock section. `recover_incomplete` takes the lock once to choose the stuck
run objects and once per move, and reads `run.version` of the live object in
between: `RecoverStart`, `RecoverRead`, `RecoverMove`, `RecoverLost`,
`RecoverRaises`.

**AgentLoop.** `pc` says where `run_loop` is; one action per way a turn, a reply
or a tool call can go. The brain's reply, the harness's verdict, the approver's
answer and a tool's success are choices. Another thread may set the cancel
token, revoke the grant, or let the clock pass the deadline between any two
actions. What the code checks and what it starts upon it are apart, as in the
code, which holds no lock in between: a turn reads the token ("turn"), then the
clock ("clock"), then calls the brain ("chat"); a call is inspected, the executor
reads the token ("run"), asks the ledger for the grant ("admit"), the harness
asks the ledger again ("harness") and then starts the tool ("ready"). The ledger
is the last reference it minted (`minted`) and those it revoked (`revoked_ids`).

**Harness.** One action per method that changes the harness (`bind`, `register`,
`create_session`, `start_plan`, `approve_plan`, `run`, and `executor_run` for
the executor's inspect followed by run); `inspect`, `load_permissions`,
`merge_entries`, `registry_coverage` and the rest are operators over what the
files hold. `inspect` is the sequence of the gates with the first that refuses
as its answer. `setup` is the deployment: the permissions as written, the
roster, whether there is an approver; `EditRoster` is workers.json changing on
disk. Answers to the questions of a call are a choice. `last` and `started` only
remember what ran, and since when.

**Decider.** A caller is a thread in `decide_task`; `pc` says which request it
waits for: Mind's `live` and `ready` probes, the `chat`, the `probe` of the
endpoint and the question to it (`endpoint`). Each attempt of a request is an
action, so caches change in between; `cache` is the triage cache in the order of
its entries, `live_cache` what the last probe of the endpoint found. `Change` is
an outage, a recovery or an edit of workers.json, `Tick` the clock that the TTLs
are about. `Acts` is what the chat does with the decision: the policy's verdict,
from which the message is or is not passed to the brain. A result carries
`head`, `by` and `raw`, which only say what was asked, who answered and what it
scored.

**Crafts, Vetting.** `Crafts` reads its files afresh in every operator
(`load_craft`, `crafts_for_worker`, `_autonomy_from_crafts`), as the code does.
`Vetting` has one action per chat and per computed stage of `_run_one`, one per
fold over workers and passes, and one that makes the invocation again (`Again`)
in a new directory, with what Mind remembers of the last. A judge's chat that times out stays in `late`
and ends at any later moment, writing to the memory (`mind`) of the user of Mind
it runs as. `_vetting_user` names that user as the code does: by the last part of
the run directory (`RunId`: stamped, or `repeat-NN`), and by the worker and role
as they are spelt after characters were replaced and the end cut (`Spelling`).
`setup` is the invocation.

**Roster.** `_read_workers`, `_read_teams`, the validation of one against the
other and the lookups, as operators over the contents of the two files; a loader
that raises gives None.

**TaskChain.** `runs` is the store's current run of each task by idempotency
key: the parent, the key of named calls, and the children `{task.id}:step:{n}`.
A caller's locals are functions of the caller; `End` drops them. Store
operations are atomic here. What the loop of a worker does is a choice of
`run_loop`'s status. A caller may die after any store operation, and
`recover_incomplete` may block any RUNNING task at any moment.

**SessionMemory.** A call of `chat` is a thread; `pc` says where it is, and it
gives its locals back when it ends. `docs` is what Mind stores per session key
and `behind` what it may still serve after a write. `LookUpLock` is
`_session_lock` with the registry's eviction, `AcquireLock` and
`AcquireFileLock` the nested with statements; `Fetch`, `Save` and `Check` are
the three requests of `_merge_session_chat`'s loop, each of which may raise, a
save also after it landed. `setup`, chosen at the start, is the deployment:
which process makes which call, whether sessions are promoted, whether flock
works. `blind` and `evicted` only remember which keys met a failed read or lost
their lock.

**CraftRun.** `pc` is the caller's place in `run_craft`, and one action stands
for the resolution of the team, each store operation, chat, question to the
approver and loop round of `decide_many`. `call` and `reply` are the futures of
the batch, indexed by the first step each is for; `overdue` is the budget
running out; `peer` the futures of `run_workers`. `state` is the state of the
task's run in the store, which only the craft and a recovery move. The planner's
reply and the contents of the roster's files are part of `setup`; `known` is
what the registry answered when the reply was parsed, which its cache may have
kept from before an edit. `said` only remembers what was answered to what.

## 3. Runs

Every run names its bounds in its cfg. A "violation" run checks one statement of
a comment or document which the code does not keep (section 5).

| Run | Question |
|---|---|
| StoreCrash | A client thread and a recovery over two process deaths and a refused insert, two ids for one key, explicit attempt numbers: does the recovery leave nothing it found RUNNING, are event ids unique, does a key name one task and an attempt have one result? |
| StoreLossy | Inserts whose answer is lost, or that land twice: does a version keep one meaning, is nothing a caller was told lost, do finished tasks stay finished, is the port implemented? |
| Harness | Do tools run only as granted, by whom and how much the permission files say, over workers that share a session, and does the audit find every missing verdict? |
| Decider | Two callers, a shared cache, outages and edits: does a decision answer its own caller's question, is a fallback nobody else's, does a chat start only within its policy, is everybody answered? |
| Vetting | Assessors that fail, repeat, contradict and answer late: are verdicts about the worker, does the exit code tell them, does every invocation end? |
| VettingBleeds | violation: does every run of a vetting have users of Mind of its own? |
| MemoryStore | Two clients and a recovery: does the in-memory store implement the port and keep its events replayable, and is a task that waits for approval carried out only after it? |
| AgentLoop | Does the loop end within its budgets, and start at most one thing more once it was cancelled, and at most one approved call more once the grant was revoked? |
| TaskChain | Two callers with failing tests, deaths and recoveries: are the executed steps those of one chain, is ok honest, does VERIFIED rest on evidence, does every call end? |
| SessionMemory | Is a turn that was reported stored kept, and kept once, over retries, stale reads, lost responses and evicted locks, and does every chat return? |
| SessionFetchWipes | violation: does a merge only append? |
| CraftRun | Do workers run only as approved and after the store says so, are they from the roster, does every step keep its own decision, do result and state tell what happened, and does `run_craft` return although a decision may never answer? |

### Bounds and why they are enough

- *Clients 2.* Every race in the stores and the chains is between the holder of
  an older copy and one other writer; a third writer meets the same two cases.
- *Ids 1 or 2, keys 1 or 2.* Operations look at one task; two are needed for a
  key reused with another id and for a recovery that visits several runs.
- *MaxVersion 2 to 4.* Enough to go CREATED, ASSIGNED, RUNNING and, with 3, on
  to BLOCKED or VERIFIED, and to have a copy two versions old; with 4, as for the
  in-memory store, from PLANNED over NEEDS_APPROVAL and APPROVED to ASSIGNED.
- *MaxFaults and MaxCrashes 1 or 2.* They count failed inserts and deaths, not
  operations; a second one can hit the healing of what the first left behind.
- *MaxEvents 0 to 3* bounds what `append_event` adds; transitions are not
  counted.
- *Loop: 4 turns, 2 calls a turn, 1 stall, 1 format retry, 1 automatic step.*
  Each budget can be reached, exceeded by one, and reached together with
  another.
- *Harness: 12 calls in 23 deployments, 4 starts a session, 2 sessions.* A tool
  whose actions need different capabilities and one without a map; a worker with
  an entry, one with only a role, one nobody listed; entries of worker and role
  that contradict each other in every section. Limits are 1 to 3 calls and 2 to
  4 seconds, so that a session meets each.
- *Decider: 2 callers, 7 asks in 4 mixes, a cache of 1, TTLs of 1 tick, 1 tick,
  2 changes, 1 retry.* A second caller meets the first's entry, evicts it, or
  finds it stale; the two changes are an outage and its end, or an outage and an
  edit. `DeciderProofs` needs no bound.
- *Vetting: 19 setups, 1 late judge, 3 plan and 2 judge attempts as in the
  code.* Each way a probe, plan, case, answer or judgement can fail has its
  invocation; two passes are the fewest that can disagree, two invocations the
  fewest that can meet at one user of Mind. Percentages are
  rounded downwards, where the code rounds half to even: no property is about
  the difference.
- *Chains: 2 calls, 1 repair round, a write and a test.* Two calls race, or one
  dies and the other finds what it left; with one round a test can be repaired,
  fail again and end the chain. The three safety properties are proved without a
  bound.
- *Craft: 3 steps, 3 workers and a stranger, pools of 2, 1 failing store
  operation.* Two steps that say the same share a decision while a third has its
  own, in a pool that both fill; two peers can end in either order, differently;
  one failing store operation can be any of the seven. The setups cover each
  policy, each way a name is turned away, rosters whose two files disagree, and
  each way a craft ends early.
- *Sessions: 3 calls on 2 keys, room for 1 lock, 2 attempts, 3 messages.* The
  third call evicts the lock of the other two; two turns fill the document so
  that it is trimmed; the last attempt differs from the others (no read-back),
  and with one failed read and one failed write each of the three requests fails
  somewhere.

### Fairness

`AgentLoop` has weak fairness of the loop's own step: `run_loop` is
straight-line code in one thread, brain calls and tools return or time out (the
brain client and the tools have timeouts). Cancellation, revocation and the
clock are not fair: they need not happen. `TaskChain` has weak fairness of each
caller's own steps for the same reason; nobody has to start a call, die or
recover. `SessionMemory` has weak fairness of each call: a call asks for each
lock once, and whoever holds it has only requests with a timeout left to do.
`CraftRun` has weak fairness of the caller's thread (the approver is assumed to
answer), of each peer (its requests have timeouts) and of the budget's clock; a
decision is not fair: it may never answer. `Decider` has weak fairness of each
caller that has asked, whose requests time out and are retried a fixed number of
times; outages, edits and the clock are not fair. `Vetting` has weak fairness of
its thread; a judge's late chat need not end. The stores' and the harness's
safety needs no fairness, and none is assumed.

## 4. Proofs

All assumptions are the named ASSUMEs on the constants; each is evaluated by TLC
in every run of its module.

- **TaskProofs.** Of the store's port: `HistoryInv` (well typed, versions name
  one run, every run has its legal predecessor, versions have no gap) is
  inductive; `HistoryCorrect` and `TerminalIsFinal` follow. It is needed because
  "version names one run" alone is not inductive: a new run could collide with
  one above a gap. `ApprovalComesFirst` is inductive with it: the new run follows
  the current one, which is carried out itself, APPROVED, or the first.
  Of the loop: `LoopInv` adds to the type invariant what is
  left of the budgets at each place of the loop (`BudgetInv`), and what `ref`
  and the verdict say of approvals (`GrantInv`). `LoopSafe` gives the budgets,
  `LoopTellsTheTruth` what the reported status says of the calls that ran.
  `LoopHonoursCancellation` rests on `CancelInv`: a loop that is past a check of the
  token has started nothing since the cancellation, so that what it starts next is
  the first, and the check after that finds the token set.
  `LoopHonoursRevocation` rests on `RevokeInv`, the same for the grant: the one the
  loop minted is the only one that can be revoked, and the loop never gets
  another. `LoopGetsShorter` proves the part
  of `Terminates` that needs no fairness: a measure (a full turn's steps for each
  turn left, six for each call left in this one) that each step of the loop
  lowers and no other thread raises, so it takes at most
  `MaxSteps * (6 * MaxCalls + 6)` steps; that it takes them is the fairness TLC
  assumes.
  Of the harness: `OnlyGrantedCallsRun` joins two kinds of argument. The
  inductive one is short: the session's counters are those of what really ran
  (`CountersTell`), and `last` is a record of `inspect`'s answer and of what had
  been used before. The long one is about operators: a call that passes the
  first closed gate of `Gates` passes all of them (`First`, `AllOpen`); an entry
  merged from a worker's and its role's, normalised first, says what the raw
  words say, own before role's (`Reflects`, `Tells`); so `inspect` letting a
  call pass means that the raw words allow it (`InspectedIsAllowed`), whatever
  `permissions.json` holds. `AuditsVouch` is the converse for words that are
  there: what one of the two entries has a word on, the merged one has
  (`MergedCovers`), and a missing verdict is the only reason that names one
  (`Inspected`).
- **NebulonStoreProofs.** `StoreImplementsPort`: every insert of a snapshot is a
  creation or a transition of `TaskStore`, or repeats one that is stored. The
  properties the runs check are not inductive, because they say nothing of the
  operation that holds the lock and of what a healing would write. `HistoryInv`
  adds that every snapshot has all its predecessors (`RunsLegal`), that the run
  in an event follows a stored one (`EventsFollow`), that a snapshot the live
  process does not know is the one it would write next when it heals
  (`OnlyLostRuns`), that callers hold stored runs (`SeenIsStored`), and what the
  operation relies on between its inserts (`OpFits`). `RecoveryInv` says that a
  run found RUNNING stays on the recovery's list as long as nothing newer is
  stored; `SeqInv` that the segments hold at least as many events of a task as
  their highest number. `DocumentsStayUnique` assumes `~Lossy`, as the property
  itself does: while every answer arrives the live process knows all documents
  (`DocsInv`); with lost answers it fails (section 5).
- **MemoryStoreProofs.** `MemoryImplementsPort`: the histories of the in-memory
  store are those of `TaskStore`, action by action. `StoreInv` says that the run
  object of a task is the latest of its history (`CurrentIsLatest`, which gives
  the abstract guard "the run is current"), that callers hold copies of known
  tasks only, and that a run the recovery found RUNNING is still listed, or
  being moved, while it is current (`StaleIsListed`); `MemoryRecoveryComplete`
  follows from the last. `MemoryTyped` adds what the other dictionaries hold
  (`RecordsInv`): in particular every result is filed under attempt 1.
  `EventsAreReplayable` is its own inductive invariant with `StoreInv`: the
  property speaks of the positions of the moves (`Moves`, `StateBefore`), so
  that an appended event leaves what was said of the earlier ones.
  `MemoryHeedsApproval` is that an approval asked for is never passed over. The
  property compares two runs of the history, so the guard of one move is not
  enough: `HeedInv` adds that no other run of a task has the version of its
  current one, and that the current one is CREATED only if it is the first
  (`LatestIsAlone`).
- **TaskChainProofs.** `OneChainRuns`: child 0 is a lock nobody releases.
  `ChainInv` says that a child is CREATED exactly in version 0 (`ChildStates`),
  that a caller is `Past` child 0 only when child 0 has been assigned, that at
  most one is, and that whatever was executed on the children carries its number
  (`OnePast`). The bare property is not inductive: it does not say who may
  execute next. `ChainTyped` adds `QueueInv`: a queue is at most the plan and
  two steps per repair round, which is why no chain asks for a child the model
  has no key for. `OkChainsReverified` and `VerifiedByItsCall` rest on
  `EvidenceInv`: a call's log follows its queue (`Follows`), so that entry i is
  of step i, and behind a superseded entry the queue has a write and the same
  step again. That survives later repairs because only tests are repaired, so
  nothing is inserted between the two. The last superseded entry of a step is
  then followed by one that counts, and an ok chain needs it OK. `HeldIsOld`
  says that a version of the parent names one run, so that the call whose move
  to VERIFIED is accepted holds the current run.
- **DeciderProofs.** `DecisionInv`: every entry of the cache was made at first
  hand and answers every ask with its key (`Kept`), a caller's decision, and
  whatever it waits for, fit what it asked (`UnderWay`, `AtHand`), and the
  decision in a result is what was understood of the scores it came with
  (`Honest`). The properties alone say nothing of the cache, which is where a
  decision comes from. `DecisionsAreSound` and `FallbacksAreOnesOwn` follow.
  `ChatsStayCleared` then needs only operators: what `_parse_llm_answer` and
  `evaluate` make of scores, for Mind (`ClearedByMind`) and for the
  endpoint (`ClearedByEndpoint`). `DecisionsAreTyped` adds `Fits`, the bounds of
  the cache and of the attempts.
- **CraftRunProofs.** `CraftInv` is one invariant in six parts, one per thing a
  craft keeps. `RouteInv`: a reply, a route and a step of the plan hold only
  what was said to the step's own request, and after the batch every call has a
  result. `GateInv`: which file the craft holds, and with which status, at each
  place. `PeersInv`: a peer has a thread only if the file it was named in is
  approved; `CastInv`: the team is the one that was resolved and found in order;
  `StoreInv`: the store's state at each place as long as no store operation
  raises, and running or blocked once a peer started even if one does. None of
  the properties holds without the others: `PeersWereApproved` needs that the
  file is the routed plan, that the plan's names were said, and, in
  `TeamIsDeclared`, what the loaders of `Roster` let through.
- **SessionMemoryProofs.** `TurnsAreKeptOnce`, under `UtterancesDiffer`: no two
  calls of a key say the same. The code cannot do without it, because a merge
  knows a turn only by its text (section 5), and the run's calls satisfy it.
  `SessionInv` has four parts. `InPlace` says what a call's place tells of its
  locals; in particular a key that Mind keeps itself is never merged, unless a
  read of its owner failed. `LockInv`: a process has one lock per key as long
  as it is registered, a lock one holder, a working file lock one merge;
  `Alone` follows: merges of one key exclude each other. `CopiesInv` speaks of
  all `Copies` of a transcript that may still come back: the stored one, the
  older one that reads may be served, and the one a merge is about to save. Each
  is `Proper` (a user message was said, and is there once), says nothing of a
  call that has not reached its merge, and keeps every reported turn. `MergeInv`
  is what makes the read-back sound: during a merge a copy either says nothing
  of the call or ends with its turn, and no older copy does before the stored
  one, so that a turn seen in a stale answer is also in the transcript. With a
  limit of one message all that is left of a turn may be its answer (`Stub`); it
  then never counts as read back, and the retries save it over itself. The
  lemmas about documents (`RestEnds`, `RestKeeps`, `RestIsClean`,
  `RestIsProper`) say what appending a turn and dropping the oldest messages
  does to each of these.
- **VettingProofs.** `PlaceInv` says where the thread is: a pass has vetted the
  first names in their order, a finished one all of them or none, and its exit
  code is of what it found. `ExitCodesTell` needs in addition a count: every
  pass has one outcome for each time a worker was named, so that more than half
  of its outcomes can be passes only if it passed in more than half of the
  passes (`MajorityOfPasses`). `VerdictsHold` rests on `RunInv`: until its end a run has no verdict, its
  answers and judgements are of the cases in their order, as many as its place
  allows (`UnderwayAt`), and a case nobody answered has a judgement that says
  so. At the end what is scored is found by the ids of the cases, which are
  unique (`EligibleAreScored`). That a failure always has something to improve
  is arithmetic: a weighted mean of scores none of which is below the threshold
  is not below it (`MeanAtLeast`), where no probe fails the probes' share is
  full (`RatioIsFull`), and so the score could not have been too low
  (`FailsForSomething`). `Mean` is a quotient of two sums over a set; that there
  is such a sum for every finite set, and what is true of it, is shown from a
  smallest counterexample (`SumsExist`, `LeastOf`), since the induction theorems
  of the library cannot be used.

Only model-checked: liveness (`Terminates`, `EveryCallEnds`, `EveryChatReturns`,
`EveryCraftReturns`, `EveryAskIsAnswered`, `EveryVettingEnds`), which this
prover does not reach. Every invariant and every action property that a passing
run checks is the subject of a theorem. The type invariants of `TaskStore`,
`MemoryStore`, `AgentLoop` and `TaskChain` are proved and have no run of their
own; `Vetting` has none, `PlaceInv` and `RunInv` say what its proofs need of
types. In two cases a proof changed the model: `Mean` is a function of two
functions with the same domain, so that equal scores give equal means, and the
assumption of `Vetting` says what a setup and a plan are.

## 5. What the code does not keep

Two disagreements have a violation run each, with the statement contradicted
quoted in `PROJECT.json` under "findings".

- **VettingBleeds** (`NoRunBleeds`, `pipeline/vetting/utils/runner.py:834`):
  The same worker is vetted by two repeated invocations: the second's assessor
  plans as a user of Mind who remembers the first's chats.
- **SessionFetchWipes** (`AppendsOnly`,
  `nak_host/worker/engine/memory.py:284`): One failed fetch during a merge is
  taken for an empty transcript: the save that follows replaces a teammate's
  turn that was already reported as stored.

The others are described here, by part.

Stores:

- `recover_incomplete` of the durable store picks the stuck tasks from the
  snapshots (`store_nebulondb.py:667`) before anything healed them. A task whose
  move to RUNNING was cut off after the event is not picked, and the next
  `get_task` heals it into a RUNNING run that nobody executes;
  `docs/ARCHITECTURE.md:333` says "`recover_incomplete()` marks stale `RUNNING`
  runs as `BLOCKED(interrupted)`".
- A lost answer to an event's insert lets the next event take the same number in
  the durable store (`store_nebulondb.py:574`); `DocumentsAreUnique` holds
  without lost answers.
- The in-memory store files every result under attempt 1 (`_attempt_of` is never
  moved, `store_memory.py:126`), so a second attempt's result is refused, while
  the durable store files it under the run's attempt. The theorem `MemoryTyped`
  says so.
- A lost answer to a task document's insert leaves a task the durable store's
  process does not know: the same idempotency key is given to a second task, and
  after a restart names the first (`store_nebulondb.py:500`).
  `docs/ARCHITECTURE.md:322` calls retries safe; `DocumentsAreUnique` is checked
  without lost answers.
- `recover_incomplete` of the in-memory store reads the version of a live run
  object without the lock (`store_memory.py:148`). When another thread has
  already moved the run the version matches, the edge is illegal, and the
  recovery raises `IllegalTransition`; the comment at :151 says of the errors it
  catches "Lost a race with another transition; state already moved on."
  `RecoverRaises` is that step.

Loop and chains:

- The loop remembers its first automatic grant for the rest of its turns
  (`granted`, `loop.py:329`): with `auto_steps = 1` two ASK calls run unasked,
  where `docs/ARCHITECTURE.md:387` says "Task-scoped auto-grant covers the first
  `auto_steps` `ASK` verdicts via the ledger; the rest go through the approver".
- `verify_task` takes an ASSIGNED or RUNNING task and says "Anything else leaves
  the parent state untouched for the fix loop or report" (`verify_task.py:5`),
  but a second `verify_task`, or one after `run_chain`, asks for the child
  `{task.id}:step:0` again, is given the one that was executed, and raises
  `IllegalTransition`: the task can no longer be verified.
- A test that fails in a chain without a write step, as in every `verify_task`,
  is repaired by the worker of the first step, the tester (`run_chain.py:98`),
  where the module's text says "the last write worker (or fix_with)".
- The second repair of a chain passes the first repair's prompt on as "Original
  task" (`run_chain.py:57` and `102`).

Sessions:

- "a legitimately repeated utterance must not silently vanish" (`memory.py:252`),
  and the read-back "closes the last lost-update window" (`:259`). But a merge
  that is served a stale document ending with an equal turn of another call takes
  it for its own (`:285`), saves nothing and reports verified. With three calls of
  one key that say the same (TextOf constant, DocMax 0, one fault) TLC finds
  `ReportedTurnsKept` violated: the first call's save lands and stays unverified,
  the second overwrites it over a stale read, and the third is served what the
  first had stored. `TurnsKeptOnce` as checked by the run `SessionMemory`, and the
  theorem `TurnsAreKeptOnce` are about calls of a key that differ in what they
  say (`UtterancesDiffer`).
- With flock off (`utils/constant.py`, `WORKER_SESSION_LOCK_DIR = "off"`) a lock
  evicted from the registry while held lets a second writer into the merge of
  the same session (`session.py:38`); `Serialized` in `SessionMemory` excludes
  that case.
- Two workers that promote one key at the same time may create two sessions of
  Mind for it (`memory.py:186`), where the docstring says "every worker sharing
  the key then lands on the SAME Mind session".

Harness:

- `merge_entries` says "limits: per-key, overlay wins" (`permission.py:177`),
  but `norm_limits` has filled every key of a worker's entry with a default, so
  a limit set in `roles` holds for no worker that has an entry of its own
  (`permission.py:200`).
- `HarnessExecutor` inspects with `approver=None` and says "approver never
  consulted here" (`executor_harness.py:44`); `ask` then falls back to the
  approver the harness was built with, if any (`harness/engine/approval.py:27`).
- `registry_coverage` (`permission.py:256`) keeps the dotted capabilities of a
  spec as they are and leaves its `permission_caps` out, while `required_caps`
  prefixes the former: for a tool without a map of its actions the audit and the
  gates ask for different verdicts.
- A bound worker keeps the role it had when it was bound, whatever workers.json
  says later.
- `prune_sessions` looks for names that the session directories no longer have.

Decisions:

- The comment on the cache key says "so changed context never gets a stale
  answer" (`decider.py:85`). The key has neither the brain nor the user, holds
  2000 characters of the observation, and of an ask that gives no decision block
  not the block that workers.json then supplies. `AnswersFitTheAsk` states what
  remains.
- An answer that does not parse is not a failure: it gives the first worker an
  empty decision with ok, which is cached, where the text promises "Mind down /
  bad JSON -> endpoint fallback" (`decider.py:754`).
- A worker the LLM names that is no candidate is dropped and the first candidate
  takes its place, with the scores the answer gave (`decider.py:640`). The scores
  are clamped to their scales before a policy compares them, so that a
  `max_risk` above 3 stops nothing, and a `min_confidence` of 0 lets a negative
  confidence pass. An answer that has only a reason, a tool or arguments is no
  empty decision, so the check for one (`policy.py:72`) lets it pass without a
  score. `ChatsAreCleared` speaks of the scores as given,
  with these two exceptions.
- An endpoint's answer never carries the worker's or tool's confidence.
- When `triage()` raises, the chat goes on without a policy (`chat.py:64-89`).
- A chat's POST is retried after a lost response, so one message may be told to
  Mind twice.
- An LLM decision that outlives the batch's budget still drives the planner's
  brain (10 s against a chat timeout of at least 60 s), where `wiring.py:270`
  says "a shared brain is not safe to drive concurrently"; within one batch the
  pool of one thread keeps them apart.

Crafts and vetting:

- `probe_crafts` promises to "Load and expand every craft the worker is allowed
  to see" (`probes.py:23`), but `crafts_for_worker` has already dropped those
  that do not load: a broken craft passes its probe.
- `crafts_for_worker` says "missing/empty = all crafts" (`craft.py:463`), but an
  empty list offers none and a missing key those of `DEFAULT_MODES`.
- A misspelt `approval` pin means approval "none" to `_autonomy_from_crafts`,
  while `load_craft` refuses the pin.
- Within one run, too, two of the users of Mind that "A fresh Mind user per
  target/role" (`runner.py:826`) promises are one where two workers' names differ
  only in characters that are replaced, or a name is so long that the role is cut
  off; a judge's chat that timed out writes to the user of its retry. The run
  `VettingBleeds` needs neither.
- `_reset_history` is to "Keep every plan/judge turn independent"
  (`runner.py:221`), but the assessor's Mind user remembers the earlier turns.
- `_finalize` explains a run without a score as "decision layer returned empty
  triage" (`runner.py:631`) also when all judges failed, and an answer without
  triage is reported as a failed judge.
- A tool without a safe probe counts as a structural failure; a profile that
  cannot be read makes a worker fail, possibly with nothing to improve; over
  repeats the exit code 1 covers workers that could not be graded.

run_craft and the roster:

- `run_craft` says "Task-store (infrastructure) failures propagate"
  (`wiring.py:673`), but it catches those of creation, of the move to RUNNING
  and of the result (:753, :806, :850) and returns them as a reason; those of
  planning and assignment do propagate.
- After a dispatch the run stays RUNNING, so a later `recover_incomplete` blocks
  a craft that has ended as if it had been interrupted.
- `extract_assigned` says "(unknown names dropped)" (`autonomy.py:249`), but
  `plan_task` passes `known_workers or None` (`plan_task.py:73`): when the
  registry cannot be read, every tag is kept and written to the plan, and its
  peers then fail to be built.
- `JsonRegistry` says "mtime-checked" (`registry_json.py:10`), but looks at the
  time of workers.json only, and membership depends on teams.json: an edit there
  leaves a stale roster.

## 6. Not modelled, and the plan

`PROJECT.json` "components" says for every part what is left out. Prompts,
formatting, file and subprocess access of the tools, HTML, configuration lookup
and the JSON encoding of payloads are input and output without a protocol, and
so are the tools' effects, the settings, the registries' loaders, the API and
the CLI. Left, most important first:

1. `BrainClient` and `Credentials`: the cached credential and the session cache of the brain, shared by
   threads. The stores, the sessions and the decider have their requests as choices already.
2. The improve step of vetting: apply and rollback of prompt improvements, on files.
3. A batch that outlives its budget on the planner's brain (`wiring.py:270`), which needs `Decider`
   and `CraftRun` together.

