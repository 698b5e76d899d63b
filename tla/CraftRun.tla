------------------------------ MODULE CraftRun ------------------------------
(***************************************************************************)
(* run_craft of wiring.py and what it calls, for one goal: plan_task with  *)
(* the routing of the plan's steps (_apply_decisions over decide_many of   *)
(* decision/batch.py), the plan file and its approval, assign_task, and    *)
(* the dispatch of the named workers as peers (run_workers).               *)
(*                                                                         *)
(* Three kinds of thread: the caller's, the pool that asks the decider, and *)
(* the pool of peers. The store is the state of the task's current run;    *)
(* another process may recover it, and the process of the craft may die.   *)
(* A step is what it says and its [worker=] tag; replies, prompts and      *)
(* evidence are left out, and what a peer's chat does is SessionMemory's.  *)
(***************************************************************************)
EXTENDS Roster, TaskStates

CONSTANTS
  Names,         \* what a tag or a decider may name
  Texts,         \* what a step may say
  Goal,          \* what a decision for the whole plan is about
  Setups,        \* the calls considered, see below
  MaxFaults      \* bound: store operations that raise

(* A call: what the files of the roster hold, and whether the registry still *)
(* has the workers in its cache from when teams.json agreed with them; the   *)
(* planner (None: the team's leader), with the teams it had when it was      *)
(* loaded, its autonomy, and the team asked for. The planner's reply: a text *)
(* and a tag per step. The decision block: assignment ("off": routing is     *)
(* disabled), scope "once", LLM mode, max_parallel. The arguments approver,  *)
(* dispatch, max_workers and parallel. The planner and the peers are built   *)
(* by make_worker, from the roster.                                          *)
PlanFile == [status: {"pending-approval", "auto-approved", "approved", "rejected"},
             assigned: SUBSET Names]

ASSUME CraftRunAssumption ==
  /\ None \notin Names \cup States \cup {"ok"} /\ None \notin PlanFile
  /\ Goal \notin Texts
  /\ MaxFaults \in Nat
  /\ \A s \in Setups :
       /\ s.texts \in Seq(Texts) /\ s.tags \in Seq(Names \cup {None})
       /\ Len(s.texts) = Len(s.tags) /\ Len(s.texts) > 0
       /\ s.planner # None \/ s.team # None
       /\ s.assignment \in {"off", "tags_win", "decision_only"}
       /\ s.cap \in Nat \ {0}
       /\ s.autonomy.max_steps > 0
       /\ s.roster.workers # None => ToSet(NamesOf(s.roster.workers)) \subseteq Names
       /\ s.cached => s.roster.workers # None

VARIABLES
  setup,         \* never changes
  pc,            \* where the caller's thread is
  team,          \* the team's entry, None without one
  known,         \* the names the registry knew
  state,         \* the state of the task's run in the store
  result,        \* the status of the saved result
  plan,          \* the tag of each step
  unrouted,      \* the steps marked decision-blocked
  route_failed,  \* the decision stage raised
  call,          \* the calls of the decider: what their threads are at
  reply,         \* what they answered, None for a failure
  overdue,       \* the batch's budget is used up
  route,         \* results of decide_many so far
  file,          \* the plan file of the session
  approved,
  peer,          \* the peers: what their threads are at
  said,          \* history: what the decider answered to what
  faults         \* the store operations that raised

batch == <<call, reply, overdue, route, said>>
routing == <<plan, unrouted, route_failed>>
gate == <<file, approved>>
cast == <<team, known>>
vars == <<setup, cast, pc, state, result, routing, batch, gate, peer, faults>>

Goto(place) == pc' = place

----------------------------------------------------------------------------
(* Who plans, and with which team.                                           *)

(* make_worker loads it.                                                     *)
Builds(name) ==
  LET workers == list_workers(setup.roster)
  IN workers # None /\ \E w \in workers : w.name = name

(* The team asked for, or the planner's only one.                            *)
Wanted ==
  IF setup.team # None THEN {setup.team}
  ELSE IF setup.planner = None THEN {} ELSE setup.planner.teams

resolve_team ==
  IF Wanted = {} THEN None ELSE get_team(setup.roster, CHOOSE t \in Wanted : TRUE)

PlannerOf(t) == IF setup.planner = None THEN t.leader ELSE setup.planner.name

TeamError ==
  LET t == resolve_team
  IN \/ Cardinality(Wanted) > 1
     \/ Wanted # {} /\ t = None
     \/ t # None /\ \/ setup.planner = None /\ ~Builds(t.leader)
                    \/ t.planner_must_be_member /\ PlannerOf(t) \notin t.members

Planner == PlannerOf(team)

Registered ==
  IF setup.cached THEN ToSet(NamesOf(setup.roster.workers))
  ELSE IF list_workers(setup.roster) = None THEN {}
  ELSE {w.name : w \in list_workers(setup.roster)}

----------------------------------------------------------------------------
(* What becomes of the planner's reply (_enforce_autonomy).                  *)

can(mode) == mode \in setup.autonomy.modes

Steps ==
  IF can("plan") \/ can("build")
  THEN {i \in DOMAIN setup.texts : i <= setup.autonomy.max_steps}
  ELSE DOMAIN setup.texts

Tag(i) == IF can("assign") THEN setup.tags[i] ELSE None

needs_plan_approval(n) ==
  CASE setup.autonomy.approval = "none"  -> FALSE
    [] setup.autonomy.approval = "small" -> n > setup.autonomy.auto_steps
    [] OTHER                             -> TRUE

----------------------------------------------------------------------------
(* Which steps need a decision, and the calls that are made for them.        *)

Candidates == (IF team # None THEN team.members ELSE known) \ {Planner}

Pending ==
  {i \in Steps : \/ setup.assignment = "decision_only"
                 \/ setup.assignment = "tags_win" /\ Tag(i) = None}

Topic(i) == IF setup.once THEN Goal ELSE setup.texts[i]

(* Equal requests are one call, named after the first step it is for.        *)
SameRequest(i) == {j \in Pending : Topic(j) = Topic(i)}
CallsMade == {i \in Pending : i = Min(SameRequest(i))}

(* Defect: results are matched to steps by position.                         *)
CallForPosition(i) ==
  LET place == Cardinality({j \in Pending : j < i})
  IN Min({j \in CallsMade : Cardinality({k \in CallsMade : k < j}) = place}
         \cup {Max(CallsMade)})

CallFor(i) == Min(SameRequest(i))

(* An LLM decision uses the planner's brain, which is not shared by threads. *)
Parallel == ~setup.llm /\ setup.cap > 1 /\ Cardinality(CallsMade) > 1

PoolSize == IF Parallel THEN Min({setup.cap, Cardinality(CallsMade)}) ELSE 1

CallsAt(status) == {i \in Steps : call[i] = status}

(* Defect: unknown names are kept.                                           *)
AssignedAnybody(tags) == {tags[i] : i \in DOMAIN tags} \ {None}

(* extract_assigned: the known names among the tags; all, if none is known.  *)
Assigned(tags) ==
  {n \in {tags[i] : i \in DOMAIN tags} \ {None} : known = {} \/ n \in known}

(* split_assignments: the planner itself stays allowed; dispatch skips it.   *)
Allowed ==
  IF team # None THEN Assigned(plan) \cap (team.members \cup {Planner})
  ELSE Assigned(plan)

Todo == Allowed \ {Planner}

PeersAt(status) == {n \in Names : peer[n] = status}

(* The size of the peers' pool: the call's word before the team's.           *)
PeersCap ==
  LET parallel == IF setup.parallel # None THEN setup.parallel ELSE team = None \/ team.parallel
      cap == IF setup.max_workers # None \/ team = None THEN setup.max_workers
             ELSE team.max_workers
  IN IF ~parallel THEN 1 ELSE IF cap = None THEN Cardinality(Names) ELSE Max({1, cap})

----------------------------------------------------------------------------
Init ==
  /\ setup \in Setups
  /\ pc = "team" /\ team = None /\ known = {}
  /\ state = None
  /\ result = None
  /\ plan = [i \in Steps |-> Tag(i)]
  /\ unrouted = {}
  /\ route_failed = FALSE
  /\ call = [i \in Steps |-> "none"]
  /\ reply = [i \in Steps |-> None]
  /\ overdue = FALSE
  /\ route = <<>>
  /\ file = None
  /\ approved = FALSE
  /\ peer = [n \in Names |-> "none"]
  /\ said = {}
  /\ faults = 0

(* A store operation raises: nothing was stored, or only the answer is lost. *)
StoreRaises == faults < MaxFaults /\ faults' = faults + 1

(* store.transition; the craft goes on at then, or, if it raises, otherwise. *)
Move(to, then, otherwise) ==
  \/ /\ can_transition(state, to)
     /\ state' = to
     /\ Goto(then)
     /\ UNCHANGED faults
  \/ /\ can_transition(state, to)
     /\ StoreRaises
     /\ state' \in {state, to}
     /\ Goto(otherwise)
  \/ /\ ~can_transition(state, to)
     /\ Goto(otherwise)
     /\ UNCHANGED <<state, faults>>

ResolveTeam ==
  /\ pc = "team"
  /\ \/ TeamError /\ Goto("returned") /\ UNCHANGED team
     \/ ~TeamError /\ team' = resolve_team /\ Goto("create")
  /\ UNCHANGED <<setup, known, state, result, routing, batch, gate, peer, faults>>

CreateTask ==
  /\ pc = "create"
  /\ \/ state' = "created" /\ known' = Registered /\ Goto("plan") /\ UNCHANGED faults
     \/ /\ StoreRaises /\ state' \in {None, "created"} /\ Goto("returned")
        /\ UNCHANGED known
  /\ UNCHANGED <<setup, team, result, routing, batch, gate, peer>>

PlanTask ==
  /\ pc = "plan"
  /\ Move("planned", "chat", "raised")
  /\ UNCHANGED <<setup, cast, result, routing, batch, gate, peer>>

(* The planner's chat raises; or triage stops it, or its reply has no steps; *)
(* or there is a plan.                                                       *)
PlannerChat ==
  /\ pc = "chat"
  /\ \/ Move("failed", "returned", "raised")
     \/ Goto("returned") /\ UNCHANGED <<state, faults>>
     \/ Goto("route") /\ UNCHANGED <<state, faults>>
  /\ UNCHANGED <<setup, cast, result, routing, batch, gate, peer>>

----------------------------------------------------------------------------
(* _apply_decisions and decide_many.                                         *)

(* The decision block is missing or invalid: a craft that does not load.     *)
RouteRaises ==
  /\ pc = "route"
  /\ setup.assignment # "off"
  /\ route_failed' = TRUE
  /\ Goto("gate")
  /\ UNCHANGED <<setup, cast, state, result, plan, unrouted, batch, gate, peer, faults>>

NothingToRoute ==
  /\ pc = "route"
  /\ \/ Pending = {} /\ UNCHANGED routing
     \/ /\ Pending # {} /\ Candidates = {}
        /\ plan' = [i \in Steps |-> IF i \in Pending THEN None ELSE plan[i]]
        /\ unrouted' = Pending
        /\ UNCHANGED route_failed
  /\ Goto("gate")
  /\ UNCHANGED <<setup, cast, state, result, batch, gate, peer, faults>>

StartBatch ==
  /\ pc = "route"
  /\ Pending # {} /\ Candidates # {}
  /\ call' = [i \in Steps |-> IF Parallel /\ i \in CallsMade THEN "queued" ELSE "none"]
  /\ Goto("batch")
  /\ UNCHANGED <<setup, cast, state, result, routing, reply, overdue, route, said, gate,
                 peer, faults>>

(* The call whose result the caller's thread takes next.                     *)
Awaited == CallsMade \ DOMAIN route
NextCall == Min(Awaited)

SubmitNext ==
  /\ pc = "batch" /\ ~Parallel
  /\ Awaited # {} /\ ~overdue
  /\ call[NextCall] = "none"
  /\ call' = [call EXCEPT ![NextCall] = "queued"]
  /\ UNCHANGED <<setup, cast, pc, state, result, routing, reply, overdue, route, said, gate,
                 peer, faults>>

(* Defect: the budget bounds no single wait.                                 *)
TakeResultPatiently ==
  /\ pc = "batch" /\ Awaited # {}
  /\ call[NextCall] = "answered"
  /\ route' = [i \in DOMAIN route \cup {NextCall} |->
                 IF i \in DOMAIN route THEN route[i] ELSE reply[i]]
  /\ UNCHANGED <<setup, cast, pc, state, result, routing, call, reply, overdue, said, gate,
                 peer, faults>>

(* Within the budget its result; past the budget an error, answered or not.  *)
TakeResult ==
  /\ pc = "batch" /\ Awaited # {}
  /\ overdue \/ call[NextCall] = "answered"
  /\ route' = [i \in DOMAIN route \cup {NextCall} |->
                 IF i \in DOMAIN route THEN route[i]
                 ELSE IF overdue THEN None ELSE reply[i]]
  /\ UNCHANGED <<setup, cast, pc, state, result, routing, call, reply, overdue, said, gate,
                 peer, faults>>

(* Queued calls are cancelled; running ones are not waited for.              *)
EndBatch ==
  /\ pc = "batch" /\ Awaited = {}
  /\ call' = [i \in Steps |-> IF call[i] = "queued" THEN "none" ELSE call[i]]
  /\ Goto("merge")
  /\ UNCHANGED <<setup, cast, state, result, routing, reply, overdue, route, said, gate,
                 peer, faults>>

(* Defect: a step that got no worker keeps quiet about it.                   *)
ApplyRoutesQuietly ==
  /\ pc = "merge"
  /\ plan' = [i \in Steps |->
                IF i \in Pending /\ route[CallFor(i)] \in Candidates
                THEN route[CallFor(i)] ELSE plan[i]]
  /\ Goto("gate")
  /\ UNCHANGED <<setup, cast, state, result, unrouted, route_failed, batch, gate, peer,
                 faults>>

(* A candidate becomes the step's tag; else it keeps the planner's tag; a    *)
(* step that has neither is blocked.                                         *)
ApplyRoutes ==
  /\ pc = "merge"
  /\ LET Name(i) == route[CallFor(i)]
         Ok(i) == Name(i) \in Candidates
     IN /\ plan' = [i \in Steps |->
                      IF i \in Pending /\ Ok(i) THEN Name(i) ELSE plan[i]]
        /\ unrouted' = {i \in Pending : ~Ok(i) /\ plan[i] = None}
  /\ Goto("gate")
  /\ UNCHANGED <<setup, cast, state, result, route_failed, batch, gate, peer, faults>>

(* The pool's threads. A call that answers too late answers nobody.          *)
CallStarts(i) ==
  /\ call[i] = "queued"
  /\ Cardinality(CallsAt("running")) < PoolSize
  /\ call' = [call EXCEPT ![i] = "running"]
  /\ UNCHANGED <<setup, cast, pc, state, result, routing, reply, overdue, route, said, gate,
                 peer, faults>>

CallAnswers(i) ==
  /\ call[i] = "running"
  /\ call' = [call EXCEPT ![i] = "answered"]
  /\ IF pc = "batch"
     THEN \E name \in Names \cup {None} :
            /\ reply' = [reply EXCEPT ![i] = name]
            /\ said' = said \cup {<<Topic(i), name>>}
     ELSE UNCHANGED <<reply, said>>
  /\ UNCHANGED <<setup, cast, pc, state, result, routing, overdue, route, gate, peer, faults>>

BudgetEnds ==
  /\ pc = "batch" /\ ~overdue
  /\ overdue' = TRUE
  /\ UNCHANGED <<setup, cast, pc, state, result, routing, call, reply, route, said, gate,
                 peer, faults>>

----------------------------------------------------------------------------
(* The plan file, approval and assignment.                                   *)

NeedsApproval ==
  needs_plan_approval(Cardinality(Steps)) \/ unrouted # {} \/ route_failed

StartPlan ==
  /\ pc = "gate"
  /\ \/ Move("failed", "returned", "raised") /\ UNCHANGED gate
     \/ /\ file' = [status |-> IF NeedsApproval THEN "pending-approval"
                               ELSE "auto-approved",
                    assigned |-> Assigned(plan)]
        /\ approved' = ~NeedsApproval
        /\ Goto(IF NeedsApproval THEN "ask" ELSE "record")
        /\ UNCHANGED <<state, faults>>
  /\ UNCHANGED <<setup, cast, result, routing, batch, peer>>

(* An approver that raises has not approved.                                 *)
AskApprover ==
  /\ pc = "ask"
  /\ \/ setup.approver /\ approved' \in BOOLEAN /\ Goto("answer")
     \/ ~setup.approver /\ UNCHANGED approved /\ Goto("record")
  /\ UNCHANGED <<setup, cast, state, result, routing, batch, file, peer, faults>>

(* approve_plan; if it raises, the file stays as it is.                      *)
ApprovePlan ==
  /\ pc = "answer"
  /\ \/ file' = [file EXCEPT !.status = IF approved THEN "approved" ELSE "rejected"]
     \/ UNCHANGED file
  /\ Goto("record")
  /\ UNCHANGED <<setup, cast, state, result, routing, batch, approved, peer, faults>>

RecordApproval ==
  /\ pc = "record"
  /\ Move(IF approved THEN "approved" ELSE "needs_approval", "assign", "raised")
  /\ UNCHANGED <<setup, cast, result, routing, batch, gate, peer>>

(* assign_task: only an approved run becomes assigned.                       *)
AssignTask ==
  /\ pc = "assign"
  /\ \/ approved /\ Move("assigned", "dispatch", "raised")
     \/ ~approved /\ Goto("returned") /\ UNCHANGED <<state, faults>>
  /\ UNCHANGED <<setup, cast, result, routing, batch, gate, peer>>

----------------------------------------------------------------------------
(* Dispatch.                                                                 *)

MayDispatch == setup.dispatch /\ Allowed # {} /\ can("assign")

Dispatch ==
  /\ pc = "dispatch"
  /\ \/ MayDispatch /\ Move("running", "fan", "returned")
     \/ ~MayDispatch /\ Goto("returned") /\ UNCHANGED <<state, faults>>
  /\ UNCHANGED <<setup, cast, result, routing, batch, gate, peer>>

RunWorkers ==
  /\ pc = "fan"
  /\ peer' = [n \in Names |-> IF n \in Todo THEN "queued" ELSE "none"]
  /\ Goto("gather")
  /\ UNCHANGED <<setup, cast, state, result, routing, batch, gate, faults>>

(* The peers' threads: the factory or the chat may fail, one peer's failure  *)
(* is not another's.                                                         *)
PeerStarts(n) ==
  /\ peer[n] = "queued"
  /\ Cardinality(PeersAt("running")) < PeersCap
  /\ peer' = [peer EXCEPT ![n] = "running"]
  /\ UNCHANGED <<setup, cast, pc, state, result, routing, batch, gate, faults>>

PeerEnds(n) ==
  /\ peer[n] = "running"
  /\ \E end \in {"failed"} \cup (IF Builds(n) THEN {"ok"} ELSE {}) : peer' = [peer EXCEPT ![n] = end]
  /\ UNCHANGED <<setup, cast, pc, state, result, routing, batch, gate, faults>>

(* Defect: the first futures that are done decide the result.                *)
GatherSome ==
  /\ pc = "gather"
  /\ Todo = {} \/ PeersAt("ok") \cup PeersAt("failed") # {}
  /\ Goto("result")
  /\ UNCHANGED <<setup, cast, state, result, routing, batch, gate, peer, faults>>

Gather ==
  /\ pc = "gather"
  /\ Todo = PeersAt("ok") \cup PeersAt("failed")
  /\ Goto("result")
  /\ UNCHANGED <<setup, cast, state, result, routing, batch, gate, peer, faults>>

SaveResult ==
  /\ pc = "result"
  /\ LET status == IF PeersAt("failed") = {} THEN "ok" ELSE "failed"
     IN \/ result' = status /\ UNCHANGED faults
        \/ StoreRaises /\ result' \in {result, status}
  /\ Goto("returned")
  /\ UNCHANGED <<setup, cast, state, routing, batch, gate, peer>>

----------------------------------------------------------------------------
(* The process dies; its threads go with it.                                 *)
Die ==
  /\ pc \notin {"returned", "raised", "dead"}
  /\ Goto("dead")
  /\ call' = [i \in Steps |-> "none"]
  /\ peer' = [n \in Names |-> IF peer[n] \in {"queued", "running"} THEN "lost"
                              ELSE peer[n]]
  /\ UNCHANGED <<setup, cast, state, result, routing, reply, overdue, route, said, gate,
                 faults>>

(* recover_incomplete, by any process that shares the store.                 *)
Recover ==
  /\ state = "running"
  /\ state' = "blocked"
  /\ UNCHANGED <<setup, cast, pc, result, routing, batch, gate, peer, faults>>

Prepare == ResolveTeam \/ CreateTask \/ PlanTask \/ PlannerChat
Route ==
  \/ RouteRaises \/ NothingToRoute \/ StartBatch \/ SubmitNext \/ TakeResult
  \/ EndBatch \/ ApplyRoutes
Approve == StartPlan \/ AskApprover \/ ApprovePlan \/ RecordApproval \/ AssignTask
Execute == Dispatch \/ RunWorkers \/ Gather \/ SaveResult

Caller == Prepare \/ Route \/ Approve \/ Execute
DecisionThread(i) == CallStarts(i) \/ CallAnswers(i)
PeerThread(n) == PeerStarts(n) \/ PeerEnds(n)

Next ==
  \/ Caller
  \/ \E i \in Steps : DecisionThread(i)
  \/ \E n \in Names : PeerThread(n)
  \/ BudgetEnds \/ Die \/ Recover

(* The caller's thread runs, time passes, and a peer's chat returns (its     *)
(* requests have timeouts). A decision need not ever return.                 *)
Spec ==
  /\ Init /\ [][Next]_vars
  /\ WF_vars(Caller) /\ WF_vars(BudgetEnds)
  /\ \A n \in Names : WF_vars(PeerThread(n))

----------------------------------------------------------------------------
Places == {"team", "create", "plan", "chat", "route", "batch", "merge", "gate", "ask",
           "answer", "record", "assign", "dispatch", "fan", "gather", "result",
           "returned", "raised", "dead"}

TypeOK ==
  /\ pc \in Places
  /\ state \in States \cup {None}
  /\ result \in {"ok", "failed", None}
  /\ plan \in [Steps -> Names \cup {None}]
  /\ unrouted \subseteq Steps
  /\ {route_failed, overdue, approved} \subseteq BOOLEAN
  /\ call \in [Steps -> {"none", "queued", "running", "answered"}]
  /\ reply \in [Steps -> Names \cup {None}]
  /\ DOMAIN route \subseteq CallsMade
  /\ \A i \in DOMAIN route : route[i] \in Names \cup {None}
  /\ file \in PlanFile \cup {None}
  /\ file # None => file.assigned \subseteq IF known = {} THEN Names ELSE known
  /\ peer \in [Names -> {"none", "queued", "running", "ok", "failed", "lost"}]
  /\ said \subseteq (Texts \cup {Goal}) \X (Names \cup {None})
  /\ faults \in 0..MaxFaults

Dispatched == {n \in Names : peer[n] # "none"}

(* Whoever is dispatched is named in the plan file that was approved and is  *)
(* not the planner; with a team, its entry in workers.json and the team's in *)
(* teams.json both say it is a member, and a team that wants its planner     *)
(* among its members had it; and a plan that is too long, with a step nobody *)
(* was found for, or whose decisions failed had a person's yes (wiring.py    *)
(* run_craft, plan_task, worker/engine/team.py and registry.py).             *)
PeersWereApproved ==
  Dispatched # {} =>
    /\ approved /\ file # None
    /\ Dispatched \subseteq file.assigned \ {Planner}
    /\ team # None =>
         /\ \A n \in Dispatched :
              /\ \E t \in ToSet(setup.roster.teams) : t.name = team.name /\ n \in ToSet(t.members)
              /\ \E w \in ToSet(setup.roster.workers) :
                   w.name = n /\ team.name \in _normalize_worker_teams(w)
         /\ team.planner_must_be_member => Planner \in team.members
    /\ file.status # "rejected"
    /\ file.status = "auto-approved" =>
         /\ ~route_failed /\ \A i \in Pending : plan[i] # None
         /\ ~needs_plan_approval(Cardinality(Steps))

(* Whatever order calls answer in, and whichever are late, a step's worker   *)
(* is the one its own request was answered with, or the planner's.           *)
StepGetsItsAnswer ==
  \A i \in Steps :
    \/ plan[i] \in {Tag(i), None}
    \/ <<Topic(i), plan[i]>> \in said

(* The saved result says ok exactly when every dispatched peer ended ok.     *)
ResultIsHonest ==
  result # None =>
    /\ \A n \in Todo : peer[n] \in {"ok", "failed"}
    /\ result = "ok" <=> \A n \in Todo : peer[n] = "ok"

(* No worker starts before the store says that the task is running, so that *)
(* a process that dies is found by recover_incomplete. And when the craft is *)
(* over, the caller that was told of approval and dispatch finds them in the *)
(* run's state, and only a failing store makes run_craft raise.              *)
StoreTellsTheOutcome ==
  /\ Dispatched # {} => state \in {"running", "blocked"}
  /\ pc \in {"returned", "raised"} /\ faults = 0 =>
       /\ pc = "returned"
       /\ file = None => state \in IF TeamError THEN {None} ELSE {"planned", "failed"}
       /\ file # None =>
            IF ~approved THEN state = "needs_approval"
            ELSE IF MayDispatch THEN state \in {"running", "blocked"} /\ result # None
            ELSE state = "assigned"

(* The outcome is told: by the result and by the store (wiring.py run_craft).*)
OutcomeIsTold == ResultIsHonest /\ StoreTellsTheOutcome

(* A craft returns although a decision may never answer.                     *)
EveryCraftReturns == <>(pc \in {"returned", "raised", "dead"})
============================================================================
