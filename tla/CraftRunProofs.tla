--------------------------- MODULE CraftRunProofs ---------------------------
(***************************************************************************)
(* Proofs about CraftRun: for any roster, plan, decider, approver and pool *)
(* sizes, peers run only as they were approved, each step keeps the answer *)
(* to its own request, and what run_craft tells agrees with the store.     *)
(***************************************************************************)
EXTENDS CraftRun, TLAPS, WellFoundedInduction

Early == {"team", "create", "plan", "chat", "route", "batch", "merge", "gate"}
Late == {"ask", "answer", "record", "assign", "dispatch", "fan", "gather", "result"}

Types == setup \in Setups /\ known \subseteq Names /\ TypeOK

(* The team is the one that was asked for, and it was found to be in order.  *)
CastInv ==
  /\ team # None => team = resolve_team /\ ~TeamError
  /\ pc \in (Early \ {"team"}) \cup Late => team = resolve_team /\ ~TeamError

(* Who is told what: replies are said, results are replies, and a step has   *)
(* its own tag, none, or what was said about it. When the batch is over,     *)
(* every call has a result.                                                  *)
Told(i, name) == name = None \/ <<Topic(i), name>> \in said

RouteInv ==
  /\ \A i \in Steps : plan[i] = Tag(i) \/ Told(i, plan[i])
  /\ \A i \in Steps : Told(i, reply[i])
  /\ \A i \in DOMAIN route : Told(i, route[i])
  /\ pc = "merge" => CallsMade \subseteq DOMAIN route

(* Once routed, a step without a worker is marked, or routing failed.        *)
Marked == route_failed \/ \A i \in Pending : plan[i] # None \/ i \in unrouted

GateInv ==
  /\ pc \in Early => file = None /\ approved = FALSE
  /\ pc \in Late => file # None
  /\ pc \in {"ask", "answer"} => file.status = "pending-approval"
  /\ pc = "gate" \/ file # None => Marked
  /\ file # None =>
       /\ file.assigned = Assigned(plan)
       /\ file.status = "auto-approved" => ~NeedsApproval
  /\ approved => file # None /\ file.status # "rejected"

(* A peer has a thread only if it was to run.                                *)
PeersInv ==
  /\ pc \in Early \cup {"ask", "answer", "record", "assign", "dispatch", "fan"} =>
       \A n \in Names : peer[n] = "none"
  /\ pc \in {"dispatch", "fan", "gather", "result"} => approved
  /\ \A n \in Names : peer[n] # "none" => approved /\ n \in Todo
  /\ pc \in {"gather", "result"} => \A n \in Todo : peer[n] # "none"
  /\ pc = "result" => \A n \in Todo : peer[n] \in {"ok", "failed"}
  /\ result # None => pc = "returned" /\ ResultIsHonest

(* What the store says while the craft is under way, if it never raises.     *)
Stored ==
  /\ pc \in {"team", "create"} => state = None
  /\ pc = "plan" => state = "created"
  /\ pc \in {"chat", "route", "batch", "merge", "gate", "ask", "answer", "record"} =>
       state = "planned"
  /\ pc = "assign" => state = IF approved THEN "approved" ELSE "needs_approval"
  /\ pc = "dispatch" => state = "assigned"
  /\ pc \in {"fan", "gather", "result"} => MayDispatch
  /\ pc = "returned" /\ file = None =>
       state \in IF TeamError THEN {None} ELSE {"planned", "failed"}
  /\ pc = "returned" /\ file # None =>
       IF ~approved THEN state = "needs_approval"
       ELSE IF MayDispatch THEN state \in {"running", "blocked"} /\ result # None
       ELSE state = "assigned"
  /\ pc # "raised"

StoreInv ==
  /\ pc \in {"fan", "gather", "result"} \/ Dispatched # {} => state \in {"running", "blocked"}
  /\ faults = 0 => Stored

CraftInv == Types /\ CastInv /\ RouteInv /\ GateInv /\ PeersInv /\ StoreInv

----------------------------------------------------------------------------
LEMMA MinIn ==
  ASSUME NEW S \in SUBSET Nat, S # {}
  PROVE  Min(S) \in S
<1>1. PICK x \in S : \A y \in S : ~(<<y, x>> \in OpToRel(<, Nat))
  BY NatLessThanWellFounded, WFMin
<1>2. \A y \in S : ~(y < x)
  BY <1>1 DEF OpToRel
<1>3. \A y \in S : x <= y
  BY <1>2
<1> QED
  BY <1>3 DEF Min

(* Everything about the call that depends on nothing else.                   *)
LEMMA SetupStays ==
  ASSUME setup' = setup
  PROVE  /\ Steps' = Steps /\ Pending' = Pending /\ CallsMade' = CallsMade
         /\ \A i : Topic(i)' = Topic(i) /\ Tag(i)' = Tag(i)
         /\ \A i : CallFor(i)' = CallFor(i)
         /\ resolve_team' = resolve_team /\ TeamError' = TeamError
<1>1. \A m : can(m)' = can(m)
  BY DEF can
<1>2. Steps' = Steps
  BY <1>1 DEF Steps
<1>3. \A i : Topic(i)' = Topic(i) /\ Tag(i)' = Tag(i)
  BY <1>1 DEF Topic, Tag
<1>4. Pending' = Pending
  BY <1>2, <1>3 DEF Pending
<1>5. \A i : SameRequest(i)' = SameRequest(i)
  BY <1>3, <1>4 DEF SameRequest
<1>6. CallsMade' = CallsMade /\ \A i : CallFor(i)' = CallFor(i)
  BY <1>4, <1>5 DEF CallsMade, CallFor
<1>7. Wanted' = Wanted
  BY DEF Wanted
<1>8. resolve_team' = resolve_team
  BY <1>7 DEF resolve_team
<1>9. \A t : PlannerOf(t)' = PlannerOf(t) /\ Builds(t)' = Builds(t)
  BY DEF PlannerOf, Builds
<1>10. TeamError' = TeamError
  BY <1>7, <1>8, <1>9 DEF TeamError
<1> QED
  BY <1>2, <1>3, <1>4, <1>6, <1>8, <1>10

LEMMA SetupFacts ==
  ASSUME setup \in Setups
  PROVE  /\ Steps \subseteq 1..Len(setup.texts) /\ Len(setup.texts) \in Nat
         /\ \A i \in Steps : Topic(i) \in Texts \cup {Goal} /\ Tag(i) \in Names \cup {None}
         /\ Pending \subseteq Steps /\ CallsMade \subseteq Pending /\ Steps \subseteq Nat
         /\ \A i \in Pending : CallFor(i) \in CallsMade /\ Topic(CallFor(i)) = Topic(i)
         /\ setup.assignment = "off" => Pending = {}
<1>1. /\ setup.texts \in Seq(Texts) /\ setup.tags \in Seq(Names \cup {None})
      /\ Len(setup.texts) = Len(setup.tags)
  BY CraftRunAssumption
<1>2. Len(setup.texts) \in Nat /\ Steps \subseteq 1..Len(setup.texts)
  BY <1>1 DEF Steps
<1>3. \A i \in Steps : Topic(i) \in Texts \cup {Goal} /\ Tag(i) \in Names \cup {None}
  BY <1>1, <1>2 DEF Topic, Tag
<1>4. Pending \subseteq Steps /\ CallsMade \subseteq Pending /\ Steps \subseteq Nat
  BY <1>2 DEF Pending, CallsMade
<1>5. ASSUME NEW i \in Pending
      PROVE  CallFor(i) \in CallsMade /\ Topic(CallFor(i)) = Topic(i)
  <2>1. i \in SameRequest(i) /\ SameRequest(i) \in SUBSET Nat
    BY <1>4 DEF SameRequest
  <2>2. CallFor(i) \in SameRequest(i)
    BY <2>1, MinIn DEF CallFor
  <2>3. CallFor(i) \in Pending /\ Topic(CallFor(i)) = Topic(i)
    BY <2>2 DEF SameRequest
  <2>4. SameRequest(CallFor(i)) = SameRequest(i)
    BY <2>3 DEF SameRequest
  <2> QED
    BY <2>3, <2>4 DEF CallsMade, CallFor
<1>6. setup.assignment = "off" => Pending = {}
  BY DEF Pending
<1> QED
  BY <1>2, <1>3, <1>4, <1>5, <1>6

(* The names of the roster are names.                                        *)
LEMMA RegisteredAreNames ==
  ASSUME setup \in Setups
  PROVE  Registered \subseteq Names
<1> DEFINE entries == setup.roster.workers
<1>1. entries # None => ToSet(NamesOf(entries)) \subseteq Names
  BY CraftRunAssumption
<1>2. setup.cached => entries # None
  BY CraftRunAssumption
<1>3. ASSUME entries # None, NEW e \in ToSet(entries)
      PROVE  e.name \in ToSet(NamesOf(entries))
  BY <1>3 DEF ToSet, NamesOf
<1>4. ASSUME list_workers(setup.roster) # None, NEW w \in list_workers(setup.roster)
      PROVE  w.name \in Names
  <2>1. list_workers(setup.roster) = _read_workers(setup.roster)
    BY <1>4 DEF list_workers
  <2>2. /\ entries # None
        /\ _read_workers(setup.roster)
             = {[name |-> e.name, teams |-> _normalize_worker_teams(e)] : e \in ToSet(entries)}
    BY <1>4, <2>1 DEF _read_workers
  <2>3. PICK e \in ToSet(entries) : w.name = e.name
    BY <1>4, <2>1, <2>2
  <2> QED
    BY <1>1, <1>3, <2>2, <2>3
<1> QED
  BY <1>1, <1>2, <1>4 DEF Registered

(* A team that get_team gives is in teams.json, and each of its members      *)
(* declares it in workers.json.                                              *)
LEMMA TeamIsDeclared ==
  ASSUME setup \in Setups, resolve_team # None
  PROVE  LET t == resolve_team
         IN /\ t.members \subseteq Names
            /\ \A n \in t.members :
                 /\ \E e \in ToSet(setup.roster.teams) : e.name = t.name /\ n \in ToSet(e.members)
                 /\ \E w \in ToSet(setup.roster.workers) :
                      w.name = n /\ t.name \in _normalize_worker_teams(w)
<1> DEFINE files == setup.roster
           t == resolve_team
           workers == _read_workers(files)
           teams == _read_teams(files)
<1>1. PICK name : t = get_team(files, name)
  BY DEF resolve_team
<1>2. list_teams(files) # None /\ t \in list_teams(files)
  BY <1>1 DEF get_team
<1>3. /\ teams # None /\ workers # None /\ _validate_membership(workers, teams)
      /\ t \in teams
  BY <1>2 DEF list_teams
<1>4. /\ files.workers # None
      /\ workers = {[name |-> e.name, teams |-> _normalize_worker_teams(e)] :
                    e \in ToSet(files.workers)}
  BY <1>3 DEF _read_workers
<1>5. PICK e \in ToSet(files.teams) : t.name = e.name /\ t.members = ToSet(e.members)
  BY <1>3 DEF _read_teams
<1> HIDE DEF t, workers, teams
<1>6. /\ t.members \subseteq {w.name : w \in workers}
      /\ \A n \in t.members :
           t.name \in UNION {w.teams : w \in {v \in workers : v.name = n}}
  BY <1>3 DEF _validate_membership
<1>7. \A w \in workers : \E r \in ToSet(files.workers) :
        w.name = r.name /\ w.teams = _normalize_worker_teams(r)
  BY <1>4
<1>8. \A r \in ToSet(files.workers) : r.name \in Names
  <2>1. ToSet(NamesOf(files.workers)) \subseteq Names
    BY <1>4, CraftRunAssumption
  <2>2. \A r \in ToSet(files.workers) : r.name \in ToSet(NamesOf(files.workers))
    BY DEF ToSet, NamesOf
  <2> QED
    BY <2>1, <2>2
<1>9. t.members \subseteq Names
  BY <1>6, <1>7, <1>8
<1>10. ASSUME NEW n \in t.members
       PROVE  /\ \E x \in ToSet(files.teams) : x.name = t.name /\ n \in ToSet(x.members)
              /\ \E w \in ToSet(files.workers) :
                   w.name = n /\ t.name \in _normalize_worker_teams(w)
  <2>1. PICK w \in workers : w.name = n /\ t.name \in w.teams
    BY <1>6
  <2>2. PICK r \in ToSet(files.workers) : w.name = r.name /\ w.teams = _normalize_worker_teams(r)
    BY <1>7
  <2> QED
    BY <1>5, <2>1, <2>2
<1> QED
  BY <1>9, <1>10 DEF t

LEMMA CandidatesAreNames ==
  ASSUME Types, CastInv
  PROVE  /\ Candidates \subseteq Names /\ None \notin Candidates
         /\ Assigned(plan) \subseteq IF known = {} THEN Names ELSE known
         /\ Assigned(plan) \subseteq Names /\ Todo \subseteq Assigned(plan) \ {Planner}
<1>1. None \notin Names
  BY CraftRunAssumption
<1>2. team # None => team.members \subseteq Names
  BY TeamIsDeclared DEF Types, CastInv
<1>3. Candidates \subseteq Names
  BY <1>2 DEF Candidates, Types
<1>4. /\ Assigned(plan) \subseteq IF known = {} THEN Names ELSE known
      /\ Assigned(plan) \subseteq Names
  BY DEF Assigned, Types, TypeOK
<1>5. Todo \subseteq Assigned(plan) \ {Planner}
  BY DEF Todo, Allowed
<1> QED
  BY <1>1, <1>3, <1>4, <1>5

(* The transitions a craft makes are legal where it makes them.              *)
LEMMA Edges ==
  /\ can_transition("created", "planned") /\ can_transition("planned", "failed")
  /\ can_transition("planned", "approved") /\ can_transition("planned", "needs_approval")
  /\ can_transition("approved", "assigned") /\ can_transition("assigned", "running")
BY DEF can_transition, legal_targets, TRANSITIONS

LEMMA Constants ==
  /\ None \notin Names /\ None \notin PlanFile /\ None \notin {"ok", "failed"}
  /\ \A s \in States : s # None
  /\ MaxFaults \in Nat
BY CraftRunAssumption DEF States

LEMMA InitHolds == Init => CraftInv
<1> SUFFICES ASSUME Init PROVE CraftInv
  OBVIOUS
<1> USE DEF Init
<1>1. setup \in Setups /\ pc = "team"
  OBVIOUS
<1>2. Types
  <2>1. /\ plan \in [Steps -> Names \cup {None}]
        /\ call \in [Steps -> {"none", "queued", "running", "answered"}]
        /\ reply \in [Steps -> Names \cup {None}]
    BY <1>1, SetupFacts
  <2>2. peer \in [Names -> {"none", "queued", "running", "ok", "failed", "lost"}]
    OBVIOUS
  <2>3. DOMAIN route = {}
    OBVIOUS
  <2>4. faults \in 0..MaxFaults
    BY Constants
  <2> QED
    BY <2>1, <2>2, <2>3, <2>4 DEF Types, TypeOK, Places
<1>3. CastInv
  BY DEF CastInv, Early, Late
<1>4. RouteInv
  BY <1>1 DEF RouteInv, Told
<1>5. GateInv
  BY DEF GateInv, Early, Late
<1>6. PeersInv
  BY DEF PeersInv, Early
<1>7. StoreInv
  BY DEF StoreInv, Stored, Dispatched
<1> QED
  BY <1>2, <1>3, <1>4, <1>5, <1>6, <1>7 DEF CraftInv

----------------------------------------------------------------------------
LEMMA PlacesAndStates ==
  /\ {"create", "chat", "returned", "raised", "route", "gate", "assign", "dispatch", "fan",
      "ask", "record", "answer", "result"} \subseteq Places
  /\ {"planned", "failed", "approved", "needs_approval", "assigned", "running", "blocked"}
       \subseteq States
BY DEF Places, States

(* A move of the run, and what it leaves behind.                             *)
LEMMA MoveIs ==
  ASSUME NEW to \in States, NEW then \in Places, NEW otherwise \in Places,
         faults \in 0..MaxFaults, Move(to, then, otherwise)
  PROVE  /\ pc' \in {then, otherwise} /\ state' \in {state, to}
         /\ pc' = then /\ then # otherwise => state' = to /\ faults' = faults
         /\ faults' \in 0..MaxFaults
         /\ faults' = 0 => faults = 0
         /\ faults' = 0 /\ can_transition(state, to) => pc' = then /\ state' = to
         /\ UNCHANGED faults \/ faults' # 0
<1>1. MaxFaults \in Nat
  BY Constants
<1>2. CASE can_transition(state, to) /\ state' = to /\ Goto(then) /\ UNCHANGED faults
  BY <1>1, <1>2 DEF Goto
<1>3. CASE can_transition(state, to) /\ StoreRaises /\ state' \in {state, to} /\ Goto(otherwise)
  BY <1>1, <1>3 DEF Goto, StoreRaises
<1>4. CASE ~can_transition(state, to) /\ Goto(otherwise) /\ UNCHANGED <<state, faults>>
  BY <1>1, <1>4 DEF Goto
<1> QED
  BY <1>2, <1>3, <1>4 DEF Move

LEMMA TypesKept ==
  ASSUME CraftInv, [Next]_vars
  PROVE  Types'
<1> USE DEF CraftInv, Types
<1>1. setup' = setup
  BY DEF Next, vars, Caller, Prepare, ResolveTeam, CreateTask, PlanTask, PlannerChat, Route,
     RouteRaises, NothingToRoute, StartBatch, SubmitNext, TakeResult, EndBatch, ApplyRoutes,
     Approve, StartPlan, AskApprover, ApprovePlan, RecordApproval, AssignTask, Execute,
     Dispatch, RunWorkers, Gather, SaveResult, DecisionThread, CallStarts, CallAnswers,
     PeerThread, PeerStarts, PeerEnds, BudgetEnds, Die, Recover
<1>2. Steps' = Steps /\ CallsMade' = CallsMade /\ CallsMade \subseteq Steps
      /\ Pending \subseteq Steps
  BY <1>1, SetupStays, SetupFacts
<1> DEFINE Control == /\ pc \in Places /\ state \in States \cup {None}
                      /\ result \in {"ok", "failed", None} /\ faults \in 0..MaxFaults
           Routes == /\ plan \in [Steps -> Names \cup {None}] /\ unrouted \subseteq Steps
                     /\ {route_failed, overdue} \subseteq BOOLEAN
                     /\ call \in [Steps -> {"none", "queued", "running", "answered"}]
                     /\ reply \in [Steps -> Names \cup {None}]
                     /\ DOMAIN route \subseteq CallsMade
                     /\ \A i \in DOMAIN route : route[i] \in Names \cup {None}
                     /\ said \subseteq (Texts \cup {Goal}) \X (Names \cup {None})
           Gates == /\ known \subseteq Names /\ approved \in BOOLEAN
                    /\ file \in PlanFile \cup {None}
                    /\ file # None => file.assigned \subseteq IF known = {} THEN Names ELSE known
           Peers == peer \in [Names -> {"none", "queued", "running", "ok", "failed", "lost"}]
<1>3. Control /\ Routes /\ Gates /\ Peers
  BY DEF TypeOK
<1>4. Control' /\ Routes' /\ Gates' /\ Peers' => Types'
  BY <1>1 DEF TypeOK
<1>5. UNCHANGED <<routing, batch>> => Routes'
  BY <1>2, <1>3 DEF routing, batch
<1>6. UNCHANGED <<gate, known>> => Gates'
  BY <1>3 DEF gate
<1> HIDE DEF Routes, Gates
<1>7. ASSUME ResolveTeam \/ PlanTask \/ PlannerChat \/ RecordApproval \/ AssignTask \/ Dispatch
             \/ Gather \/ Recover \/ UNCHANGED vars
      PROVE  Types'
  <2>1. UNCHANGED <<routing, batch, gate, known, peer>>
    BY <1>7 DEF ResolveTeam, PlanTask, PlannerChat, RecordApproval, AssignTask, Dispatch,
       Gather, Recover, vars, cast
  <2>2. Control'
    <3> USE <1>3, PlacesAndStates DEF Goto
    <3>1. CASE ResolveTeam
      BY <3>1 DEF ResolveTeam
    <3>2. CASE PlanTask
      BY <3>2, MoveIs DEF PlanTask
    <3>3. CASE PlannerChat
      BY <3>3, MoveIs DEF PlannerChat
    <3>4. CASE RecordApproval
      BY <3>4, MoveIs DEF RecordApproval
    <3>5. CASE AssignTask
      <4>1. CASE approved /\ Move("assigned", "dispatch", "raised")
        BY <3>5, <4>1, MoveIs DEF AssignTask
      <4>2. CASE ~approved /\ Goto("returned") /\ UNCHANGED <<state, faults>>
        BY <3>5, <4>2 DEF AssignTask
      <4> QED
        BY <3>5, <4>1, <4>2 DEF AssignTask
    <3>6. CASE Dispatch
      BY <3>6, MoveIs DEF Dispatch
    <3>7. CASE Gather \/ Recover \/ UNCHANGED vars
      BY <3>7 DEF Gather, Recover, vars
    <3> QED
      BY <1>7, <3>1, <3>2, <3>3, <3>4, <3>5, <3>6, <3>7
  <2> QED
    BY <1>3, <1>4, <1>5, <1>6, <2>1, <2>2
<1>8. CASE CreateTask
  <2>1. UNCHANGED <<routing, batch, gate, peer>> /\ known' \in {known, Registered}
    BY <1>8 DEF CreateTask
  <2>2. Control'
    BY <1>3, <1>8, Constants DEF CreateTask, Places, States, Goto, StoreRaises
  <2>3. Gates'
    <3>1. file = None /\ file' = None
      BY <1>8, <2>1 DEF CreateTask, GateInv, Early, gate
    <3> QED
      BY <1>3, <2>1, <3>1, RegisteredAreNames DEF Gates, gate
  <2> QED
    BY <1>3, <1>4, <1>5, <2>1, <2>2, <2>3
<1>9. CASE RouteRaises \/ NothingToRoute \/ StartBatch \/ SubmitNext \/ TakeResult \/ EndBatch
           \/ ApplyRoutes \/ BudgetEnds \/ \E i \in Steps : DecisionThread(i)
  <2>1. UNCHANGED <<gate, known, state, result, peer, faults>>
    BY <1>9 DEF RouteRaises, NothingToRoute, StartBatch, SubmitNext, TakeResult, EndBatch,
       ApplyRoutes, BudgetEnds, DecisionThread, CallStarts, CallAnswers, cast
  <2>2. pc' \in Places
    BY <1>3, <1>9 DEF RouteRaises, NothingToRoute, StartBatch, SubmitNext, TakeResult,
       EndBatch, ApplyRoutes, BudgetEnds, DecisionThread, CallStarts, CallAnswers, Places, Goto
  <2>3. Routes'
    <3> USE <1>2, <1>3 DEF Routes, routing, batch
    <3>1. CASE RouteRaises
      BY <3>1 DEF RouteRaises
    <3>2. CASE NothingToRoute
      BY <3>2 DEF NothingToRoute
    <3>3. CASE StartBatch
      BY <3>3 DEF StartBatch
    <3>4. CASE SubmitNext
      BY <3>4 DEF SubmitNext
    <3>5. CASE TakeResult
      <4>1. Awaited \in SUBSET Nat /\ Awaited # {}
        BY <3>5, SetupFacts DEF TakeResult, Awaited
      <4>2. NextCall \in CallsMade
        BY <4>1, MinIn DEF NextCall, Awaited
      <4>3. /\ DOMAIN route' = DOMAIN route \cup {NextCall}
            /\ \A i \in DOMAIN route' : route'[i] \in Names \cup {None}
        BY <3>5, <4>2 DEF TakeResult
      <4> QED
        BY <3>5, <4>2, <4>3 DEF TakeResult
    <3>6. CASE EndBatch
      BY <3>6 DEF EndBatch
    <3>7. CASE ApplyRoutes
      <4>1. plan' \in [Steps -> Names \cup {None}]
        BY <3>7, CandidatesAreNames DEF ApplyRoutes
      <4> QED
        BY <3>7, <4>1 DEF ApplyRoutes
    <3>8. CASE BudgetEnds
      BY <3>8 DEF BudgetEnds
    <3>9. ASSUME NEW i \in Steps, CallStarts(i) PROVE Routes'
      BY <3>9 DEF CallStarts
    <3>10. ASSUME NEW i \in Steps, CallAnswers(i) PROVE Routes'
      <4>1. call' \in [Steps -> {"none", "queued", "running", "answered"}]
        BY <3>10 DEF CallAnswers
      <4>2. CASE UNCHANGED <<reply, said>>
        BY <3>10, <4>1, <4>2 DEF CallAnswers
      <4>3. ASSUME NEW name \in Names \cup {None}, reply' = [reply EXCEPT ![i] = name],
                   said' = said \cup {<<Topic(i), name>>}
            PROVE  Routes'
        <5>1. Topic(i) \in Texts \cup {Goal}
          BY SetupFacts
        <5>2. /\ reply' \in [Steps -> Names \cup {None}]
              /\ said' \subseteq (Texts \cup {Goal}) \X (Names \cup {None})
          BY <4>3, <5>1
        <5> QED
          BY <3>10, <4>1, <5>2 DEF CallAnswers
      <4> QED
        BY <3>10, <4>2, <4>3 DEF CallAnswers
    <3> QED
      BY <1>9, <3>1, <3>2, <3>3, <3>4, <3>5, <3>6, <3>7, <3>8, <3>9, <3>10 DEF DecisionThread
  <2> QED
    BY <1>3, <1>4, <1>6, <2>1, <2>2, <2>3
<1>10. CASE StartPlan \/ AskApprover \/ ApprovePlan
  <2>1. UNCHANGED <<routing, batch, known, result, peer>>
    BY <1>10 DEF StartPlan, AskApprover, ApprovePlan, cast
  <2>2. Control'
    <3> USE <1>3, PlacesAndStates DEF Goto
    <3>1. CASE StartPlan
      BY <3>1, MoveIs DEF StartPlan
    <3>2. CASE AskApprover
      BY <3>2 DEF AskApprover
    <3>3. CASE ApprovePlan
      BY <3>3 DEF ApprovePlan
    <3> QED
      BY <1>10, <3>1, <3>2, <3>3
  <2>3. Gates'
    <3> USE <1>3 DEF Gates
    <3>1. CASE StartPlan
      <4>1. Assigned(plan) \subseteq Names /\ Assigned(plan) \subseteq IF known = {} THEN Names ELSE known
        BY CandidatesAreNames
      <4>2. CASE /\ file' = [status |-> IF NeedsApproval THEN "pending-approval"
                                        ELSE "auto-approved",
                             assigned |-> Assigned(plan)]
                 /\ approved' = ~NeedsApproval
        BY <2>1, <4>1, <4>2 DEF PlanFile
      <4> QED
        BY <1>6, <2>1, <3>1, <4>2 DEF StartPlan
    <3>2. CASE AskApprover
      BY <2>1, <3>2 DEF AskApprover
    <3>3. CASE ApprovePlan
      <4>1. file \in PlanFile /\ approved' = approved /\ known' = known /\ file # None
        BY <2>1, <3>3, Constants DEF ApprovePlan, GateInv, Late
      <4>2. file' = file \/ file' = [file EXCEPT !.status = "approved"]
              \/ file' = [file EXCEPT !.status = "rejected"]
        BY <3>3 DEF ApprovePlan
      <4>3. file' \in PlanFile /\ file'.assigned = file.assigned
        BY <4>1, <4>2 DEF PlanFile
      <4> QED
        BY <4>1, <4>3
    <3> QED
      BY <1>10, <3>1, <3>2, <3>3
  <2> QED
    BY <1>3, <1>4, <1>5, <2>1, <2>2, <2>3
<1>11. CASE RunWorkers \/ SaveResult \/ \E n \in Names : PeerThread(n)
  <2>1. UNCHANGED <<routing, batch, gate, known, state>>
    BY <1>11 DEF RunWorkers, SaveResult, PeerThread, PeerStarts, PeerEnds, cast
  <2>2. Control'
    BY <1>3, <1>11, Constants DEF RunWorkers, SaveResult, PeerThread, PeerStarts, PeerEnds,
       Places, Goto, StoreRaises
  <2>3. Peers'
    BY <1>3, <1>11 DEF RunWorkers, SaveResult, PeerThread, PeerStarts, PeerEnds
  <2> QED
    BY <1>4, <1>5, <1>6, <2>1, <2>2, <2>3
<1>12. CASE Die
  <2>1. UNCHANGED <<gate, known>> /\ Control' /\ Peers'
    BY <1>3, <1>12 DEF Die, cast, Goto, Places
  <2>2. Routes'
    BY <1>2, <1>3, <1>12 DEF Die, Routes, routing
  <2> QED
    BY <1>4, <1>6, <2>1, <2>2
<1> QED
  BY <1>7, <1>8, <1>9, <1>10, <1>11, <1>12
     DEF Next, Caller, Prepare, Route, Approve, Execute

LEMMA SetupKept ==
  ASSUME [Next]_vars
  PROVE  setup' = setup
BY DEF Next, vars, Caller, Prepare, ResolveTeam, CreateTask, PlanTask, PlannerChat, Route,
   RouteRaises, NothingToRoute, StartBatch, SubmitNext, TakeResult, EndBatch, ApplyRoutes,
   Approve, StartPlan, AskApprover, ApprovePlan, RecordApproval, AssignTask, Execute,
   Dispatch, RunWorkers, Gather, SaveResult, DecisionThread, CallStarts, CallAnswers,
   PeerThread, PeerStarts, PeerEnds, BudgetEnds, Die, Recover

(* What depends on the team and the plan only.                               *)
LEMMA PlanStays ==
  ASSUME setup' = setup, team' = team, known' = known, plan' = plan
  PROVE  /\ Assigned(plan)' = Assigned(plan) /\ Todo' = Todo /\ MayDispatch' = MayDispatch
         /\ Planner' = Planner
<1>1. Planner' = Planner
  BY DEF Planner, PlannerOf
<1>2. Assigned(plan)' = Assigned(plan)
  BY DEF Assigned
<1>3. Allowed' = Allowed
  BY <1>1, <1>2 DEF Allowed
<1>4. Todo' = Todo /\ MayDispatch' = MayDispatch
  BY <1>1, <1>3 DEF Todo, MayDispatch, can
<1> QED
  BY <1>1, <1>2, <1>4

(* What depends on how routing went.                                         *)
LEMMA RoutingStays ==
  ASSUME setup' = setup, UNCHANGED routing
  PROVE  Marked' = Marked /\ NeedsApproval' = NeedsApproval
<1>1. Steps' = Steps /\ Pending' = Pending
  BY SetupStays
<1>2. \A n : needs_plan_approval(n)' = needs_plan_approval(n)
  BY DEF needs_plan_approval
<1> QED
  BY <1>1, <1>2 DEF Marked, NeedsApproval, routing

LEMMA CastKept ==
  ASSUME CraftInv, [Next]_vars
  PROVE  CastInv'
<1>1. setup' = setup /\ resolve_team' = resolve_team /\ TeamError' = TeamError
  BY SetupKept, SetupStays
<1>2. CASE ResolveTeam
  BY <1>1, <1>2 DEF ResolveTeam, CraftInv, CastInv, Goto, Early, Late
<1>3. ASSUME UNCHANGED <<team, pc>>
      PROVE  CastInv'
  BY <1>1, <1>3 DEF CraftInv, CastInv
<1>4. ASSUME team' = team, pc \in (Early \ {"team"}) \cup Late
      PROVE  CastInv'
  BY <1>1, <1>4 DEF CraftInv, CastInv
<1>5. CASE Die
  BY <1>1, <1>5 DEF CraftInv, CastInv, Die, Goto, Early, Late, cast
<1>6. CASE CreateTask \/ PlanTask \/ PlannerChat \/ Route \/ Approve \/ Execute
  <2>1. team' = team /\ pc \in (Early \ {"team"}) \cup Late
    BY <1>6 DEF CreateTask, PlanTask, PlannerChat, Route, RouteRaises, NothingToRoute, StartBatch,
       SubmitNext, TakeResult, EndBatch, ApplyRoutes, Approve, StartPlan, AskApprover,
       ApprovePlan, RecordApproval, AssignTask, Execute, Dispatch, RunWorkers, Gather,
       SaveResult, Early, Late, cast
  <2> QED
    BY <1>4, <2>1
<1>7. CASE \/ BudgetEnds \/ Recover \/ UNCHANGED vars
           \/ \E i \in Steps : DecisionThread(i)
           \/ \E n \in Names : PeerThread(n)
  <2>1. UNCHANGED <<team, pc>>
    BY <1>7 DEF BudgetEnds, Recover, vars, DecisionThread, CallStarts, CallAnswers, PeerThread,
       PeerStarts, PeerEnds, cast
  <2> QED
    BY <1>3, <2>1
<1> QED
  BY <1>2, <1>5, <1>6, <1>7 DEF Next, Caller, Prepare

LEMMA RouteKept ==
  ASSUME CraftInv, [Next]_vars
  PROVE  RouteInv'
<1>1. setup' = setup /\ Steps' = Steps /\ CallsMade' = CallsMade
      /\ \A i : Topic(i)' = Topic(i) /\ Tag(i)' = Tag(i) /\ CallFor(i)' = CallFor(i)
  BY SetupKept, SetupStays
<1>2. /\ CallsMade \subseteq Steps /\ Pending \subseteq Steps /\ Steps \subseteq Nat
      /\ \A i \in Pending : CallFor(i) \in CallsMade /\ Topic(CallFor(i)) = Topic(i)
  BY SetupFacts DEF CraftInv, Types
<1>3. /\ plan \in [Steps -> Names \cup {None}] /\ reply \in [Steps -> Names \cup {None}]
      /\ DOMAIN route \subseteq CallsMade
  BY DEF CraftInv, Types, TypeOK
<1>4. RouteInv
  BY DEF CraftInv
<1>5. ASSUME said \subseteq said', NEW i, NEW name, Told(i, name)
      PROVE  Told(i, name)'
  BY <1>1, <1>5 DEF Told
<1>6. ASSUME UNCHANGED <<plan, reply, route>>, said \subseteq said',
             pc' = "merge" => CallsMade \subseteq DOMAIN route
      PROVE  RouteInv'
  BY <1>1, <1>4, <1>6 DEF RouteInv, Told
<1>7. CASE NothingToRoute
  BY <1>1, <1>2, <1>3, <1>4, <1>7 DEF NothingToRoute, RouteInv, Told, batch, routing, Goto
<1>8. CASE TakeResult
  <2>1. Awaited \in SUBSET Nat /\ Awaited # {}
    BY <1>2, <1>8 DEF TakeResult, Awaited
  <2>2. NextCall \in CallsMade
    BY <2>1, MinIn DEF NextCall, Awaited
  <2>3. /\ DOMAIN route' = DOMAIN route \cup {NextCall}
        /\ \A i \in DOMAIN route' : \/ route'[i] \in {None, reply[i]} /\ i = NextCall
                                    \/ i \in DOMAIN route /\ route'[i] = route[i]
    BY <1>8 DEF TakeResult
  <2>4. UNCHANGED <<said, plan, reply>> /\ pc' # "merge"
    BY <1>8 DEF TakeResult, routing
  <2>5. \A i \in DOMAIN route' : Told(i, route'[i])
    BY <1>2, <1>4, <2>2, <2>3 DEF RouteInv, Told
  <2>6. \A i \in DOMAIN route' : Told(i, route[i])'
    BY <1>1, <2>4, <2>5 DEF Told
  <2> QED
    BY <1>1, <1>4, <2>4, <2>6 DEF RouteInv, Told
<1>9. CASE EndBatch
  <2>1. CallsMade \subseteq DOMAIN route
    BY <1>9 DEF EndBatch, Awaited
  <2> QED
    BY <1>6, <1>9, <2>1 DEF EndBatch, routing
<1>10. CASE ApplyRoutes
  <2>1. UNCHANGED <<said, reply, route>> /\ pc' # "merge"
    BY <1>10 DEF ApplyRoutes, batch, Goto
  <2>2. CallsMade \subseteq DOMAIN route
    BY <1>4, <1>10 DEF ApplyRoutes, RouteInv
  <2>3. ASSUME NEW i \in Steps
        PROVE  plan'[i] = Tag(i) \/ Told(i, plan'[i])
    <3>1. CASE i \in Pending /\ route[CallFor(i)] \in Candidates
      <4>1. plan'[i] = route[CallFor(i)]
        BY <1>10, <3>1 DEF ApplyRoutes
      <4>2. Told(CallFor(i), route[CallFor(i)])
        BY <1>2, <1>4, <2>2, <3>1 DEF RouteInv
      <4> QED
        BY <1>2, <3>1, <4>1, <4>2 DEF Told
    <3>2. CASE ~(i \in Pending /\ route[CallFor(i)] \in Candidates)
      BY <1>4, <1>10, <3>2 DEF ApplyRoutes, RouteInv
    <3> QED
      BY <3>1, <3>2
  <2> QED
    BY <1>1, <1>4, <2>1, <2>3 DEF RouteInv, Told
<1>11. ASSUME NEW i \in Steps, CallAnswers(i)
       PROVE  RouteInv'
  <2>1. UNCHANGED <<pc, plan, route>>
    BY <1>11 DEF CallAnswers, routing
  <2>2. CASE UNCHANGED <<reply, said>>
    BY <1>1, <1>4, <1>6, <2>1, <2>2 DEF RouteInv
  <2>3. ASSUME NEW name \in Names \cup {None}, reply' = [reply EXCEPT ![i] = name],
               said' = said \cup {<<Topic(i), name>>}
        PROVE  RouteInv'
    <3>1. said \subseteq said' /\ Told(i, name)'
      BY <1>1, <2>3 DEF Told
    <3>2. \A j \in Steps : Told(j, reply[j])'
      BY <1>3, <1>4, <1>5, <2>3, <3>1 DEF RouteInv
    <3> QED
      BY <1>1, <1>4, <2>1, <3>1, <3>2 DEF RouteInv, Told
  <2> QED
    BY <1>11, <2>2, <2>3 DEF CallAnswers
<1>12. CASE Prepare \/ Approve \/ Execute \/ BudgetEnds \/ Die \/ Recover \/ RouteRaises
            \/ StartBatch \/ SubmitNext \/ (\E i \in Steps : CallStarts(i))
            \/ (\E n \in Names : PeerThread(n)) \/ UNCHANGED vars
  <2>1. UNCHANGED <<plan, reply, route, said>>
    BY <1>12 DEF Prepare, ResolveTeam, CreateTask, PlanTask, PlannerChat, RouteRaises,
       StartBatch, SubmitNext, Approve, StartPlan, AskApprover, ApprovePlan, RecordApproval,
       AssignTask, Execute, Dispatch, RunWorkers, Gather, SaveResult, CallStarts, PeerThread,
       PeerStarts, PeerEnds, BudgetEnds, Die, Recover, vars, routing, batch
  <2>2. pc' = "merge" => pc = "merge"
    BY <1>12 DEF Prepare, ResolveTeam, CreateTask, PlanTask, PlannerChat, RouteRaises,
       StartBatch, SubmitNext, Approve, StartPlan, AskApprover, ApprovePlan, RecordApproval,
       AssignTask, Execute, Dispatch, RunWorkers, Gather, SaveResult, CallStarts, PeerThread,
       PeerStarts, PeerEnds, BudgetEnds, Die, Recover, vars, Move, Goto
  <2> QED
    BY <1>4, <1>6, <2>1, <2>2 DEF RouteInv
<1> QED
  BY <1>7, <1>8, <1>9, <1>10, <1>11, <1>12 DEF Next, Caller, Route, DecisionThread

LEMMA GateKept ==
  ASSUME CraftInv, [Next]_vars
  PROVE  GateInv'
<1>1. setup' = setup /\ Steps' = Steps /\ Pending' = Pending
  BY SetupKept, SetupStays
<1>2. GateInv
  BY DEF CraftInv
<1>3. ASSUME UNCHANGED <<team, known, routing, gate>>,
             pc' = pc \/ (pc \in Early /\ pc' \in (Early \ {"gate"}) \cup {"returned", "raised", "dead"})
               \/ (pc \in Late /\ pc' \in (Late \ {"ask", "answer"}) \cup {"returned", "raised", "dead"})
      PROVE  GateInv'
  <2>1. Marked' = Marked /\ NeedsApproval' = NeedsApproval /\ Assigned(plan)' = Assigned(plan)
    BY <1>1, <1>3, RoutingStays, PlanStays DEF routing
  <2>2. file' = file /\ approved' = approved
    BY <1>3 DEF gate
  <2>3. /\ pc' \in Early => pc \in Early
        /\ pc' \in Late => pc \in Late
        /\ pc' \in {"ask", "answer", "gate"} => pc' = pc
    BY <1>3 DEF Early, Late
  <2> HIDE DEF Early, Late
  <2> QED
    BY <1>2, <2>1, <2>2, <2>3 DEF GateInv
<1>4. CASE CreateTask
  <2>1. file = None /\ approved = FALSE /\ file' = None /\ approved' = FALSE /\ pc' # "gate"
        /\ pc' \notin Late
    BY <1>2, <1>4 DEF CreateTask, GateInv, Early, Late, gate, Goto
  <2> QED
    BY <2>1 DEF GateInv, Late
<1>5. CASE RouteRaises \/ NothingToRoute \/ ApplyRoutes
  <2>1. file = None /\ approved = FALSE /\ file' = None /\ approved' = FALSE /\ pc' = "gate"
    BY <1>2, <1>5 DEF RouteRaises, NothingToRoute, ApplyRoutes, GateInv, Early, gate, Goto
  <2>2. Marked'
    <3>1. plan \in [Steps -> Names \cup {None}] /\ Pending \subseteq Steps
      BY SetupFacts DEF CraftInv, Types, TypeOK
    <3>2. CASE RouteRaises
      BY <3>2 DEF RouteRaises, Marked
    <3>3. CASE NothingToRoute
      BY <1>1, <3>3 DEF NothingToRoute, Marked
    <3>4. CASE ApplyRoutes
      <4>1. None \notin Candidates
        BY CandidatesAreNames DEF CraftInv
      <4> QED
        BY <1>1, <3>1, <3>4, <4>1 DEF ApplyRoutes, Marked
    <3> QED
      BY <1>5, <3>2, <3>3, <3>4
  <2> QED
    BY <2>1, <2>2 DEF GateInv, Late
<1>6. CASE StartPlan
  <2>1. UNCHANGED <<team, known, routing>> /\ pc = "gate" /\ Marked
    BY <1>2, <1>6 DEF StartPlan, cast, GateInv
  <2>2. CASE Move("failed", "returned", "raised") /\ UNCHANGED gate
    <3>1. pc' \in {"returned", "raised"}
      BY <2>2 DEF Move, Goto
    <3> QED
      BY <1>3, <2>1, <2>2, <3>1 DEF Early
  <2>3. CASE /\ file' = [status |-> IF NeedsApproval THEN "pending-approval"
                                    ELSE "auto-approved",
                         assigned |-> Assigned(plan)]
             /\ approved' = ~NeedsApproval
             /\ Goto(IF NeedsApproval THEN "ask" ELSE "record")
    <3>1. Marked' = Marked /\ NeedsApproval' = NeedsApproval /\ Assigned(plan)' = Assigned(plan)
      BY <1>1, <2>1, RoutingStays, PlanStays DEF routing
    <3>2. Assigned(plan) \subseteq Names
      BY CandidatesAreNames DEF CraftInv
    <3>3. file' \in PlanFile /\ file' # None
      BY <2>3, <3>2, Constants DEF PlanFile
    <3>4. /\ file'.assigned = Assigned(plan)
          /\ file'.status = IF NeedsApproval THEN "pending-approval" ELSE "auto-approved"
      BY <2>3
    <3>5. pc' = IF NeedsApproval THEN "ask" ELSE "record"
      BY <2>3 DEF Goto
    <3>6. approved' = ~NeedsApproval
      BY <2>3
    <3>7. CASE NeedsApproval
      BY <2>1, <3>1, <3>3, <3>4, <3>5, <3>6, <3>7 DEF GateInv, Early
    <3>8. CASE ~NeedsApproval
      BY <2>1, <3>1, <3>3, <3>4, <3>5, <3>6, <3>8 DEF GateInv, Early
    <3> QED
      BY <3>7, <3>8
  <2> QED
    BY <1>6, <2>2, <2>3 DEF StartPlan
<1>7. CASE AskApprover \/ ApprovePlan
  <2>1. /\ UNCHANGED <<team, known, routing>> /\ file # None /\ file \in PlanFile
        /\ file.status = "pending-approval" /\ file.assigned = Assigned(plan) /\ Marked
    BY <1>2, <1>7 DEF AskApprover, ApprovePlan, cast, GateInv, Late, CraftInv, Types, TypeOK
  <2>2. Marked' = Marked /\ NeedsApproval' = NeedsApproval /\ Assigned(plan)' = Assigned(plan)
    BY <1>1, <2>1, RoutingStays, PlanStays DEF routing
  <2>3. CASE AskApprover
    <3>1. file' = file /\ pc' \in {"answer", "record"} /\ (approved' => approved \/ pc = "ask")
      BY <2>3 DEF AskApprover, Goto
    <3> QED
      BY <1>2, <2>1, <2>2, <2>3, <3>1 DEF GateInv, Early, AskApprover
  <2>4. CASE ApprovePlan
    <3>1. approved' = approved /\ pc' = "record"
      BY <2>4 DEF ApprovePlan, Goto
    <3>2. \/ file' = file
          \/ file' = [file EXCEPT !.status = IF approved THEN "approved" ELSE "rejected"]
      BY <2>4 DEF ApprovePlan
    <3>3. /\ file' \in PlanFile /\ file'.assigned = file.assigned
          /\ file'.status # "auto-approved" /\ (approved => file'.status # "rejected")
      BY <2>1, <3>2 DEF PlanFile
    <3>4. file' # None
      BY <3>3, Constants
    <3> QED
      BY <2>1, <2>2, <3>1, <3>3, <3>4 DEF GateInv, Early
  <2> QED
    BY <1>7, <2>3, <2>4
<1>8. CASE ResolveTeam
  <2>1. file = None /\ approved = FALSE /\ file' = None /\ approved' = FALSE
        /\ pc' \in {"create", "returned"}
    BY <1>2, <1>8 DEF ResolveTeam, GateInv, Early, gate, Goto
  <2> QED
    BY <2>1 DEF GateInv, Late
<1>9. CASE \/ PlanTask \/ PlannerChat
           \/ StartBatch \/ SubmitNext \/ TakeResult \/ EndBatch
           \/ RecordApproval \/ AssignTask \/ Execute
           \/ BudgetEnds \/ Die \/ Recover \/ UNCHANGED vars
           \/ (\E i \in Steps : DecisionThread(i)) \/ (\E n \in Names : PeerThread(n))
  <2>1. UNCHANGED <<team, known, routing, gate>>
    BY <1>9 DEF PlanTask, PlannerChat, StartBatch, SubmitNext, TakeResult,
       EndBatch, RecordApproval, AssignTask, Execute, Dispatch, RunWorkers, Gather, SaveResult,
       BudgetEnds, Die, Recover, vars, DecisionThread, CallStarts, CallAnswers, PeerThread,
       PeerStarts, PeerEnds, cast
  <2>2. CASE Die
    <3>1. pc \in Early \cup Late /\ pc' = "dead"
      BY <2>2 DEF CraftInv, Types, TypeOK, Die, Places, Early, Late, Goto
    <3> QED
      BY <1>3, <2>1, <3>1
  <2>3. CASE ~Die
    <3>1. pc' = pc \/ (pc \in Early /\ pc' \in (Early \ {"gate"}) \cup {"returned", "raised", "dead"})
               \/ (pc \in Late /\ pc' \in (Late \ {"ask", "answer"}) \cup {"returned", "raised", "dead"})
      BY <1>9, <2>3 DEF PlanTask, PlannerChat, StartBatch, SubmitNext, TakeResult,
         EndBatch, RecordApproval, AssignTask, Execute, Dispatch, RunWorkers, Gather, SaveResult,
         BudgetEnds, Recover, vars, DecisionThread, CallStarts, CallAnswers, PeerThread,
         PeerStarts, PeerEnds, Move, Goto, Early, Late
    <3> QED
      BY <1>3, <2>1, <3>1
  <2> QED
    BY <2>2, <2>3
<1> QED
  BY <1>4, <1>5, <1>6, <1>7, <1>8, <1>9
     DEF Next, Caller, Prepare, Route, Approve, Execute

LEMMA PeersKept ==
  ASSUME CraftInv, [Next]_vars
  PROVE  PeersInv'
<1> DEFINE Before == Early \cup {"ask", "answer", "record", "assign", "dispatch", "fan"}
<1>1. setup' = setup
  BY SetupKept
<1>2. PeersInv /\ peer \in [Names -> {"none", "queued", "running", "ok", "failed", "lost"}]
  BY DEF CraftInv, Types, TypeOK
<1>3. ASSUME pc \in Before, UNCHANGED <<peer, result>>, pc' \notin {"gather", "result"},
             pc' \in {"dispatch", "fan"} => approved'
      PROVE  PeersInv'
  <2>1. result = None /\ \A n \in Names : peer'[n] = "none"
    BY <1>2, <1>3 DEF PeersInv, Early
  <2> QED
    BY <1>3, <2>1 DEF PeersInv
<1>4. ASSUME UNCHANGED <<cast, plan, approved>>
      PROVE  Todo' = Todo /\ approved' = approved
  BY <1>1, <1>4, PlanStays DEF cast
<1>5. Todo \subseteq Names
  BY CandidatesAreNames DEF CraftInv
<1>6. CASE Prepare \/ Route \/ Approve \/ Dispatch
  <2>1. pc \in Before /\ UNCHANGED <<peer, result>>
    BY <1>6 DEF Prepare, ResolveTeam, CreateTask, PlanTask, PlannerChat, Route, RouteRaises,
       NothingToRoute, StartBatch, SubmitNext, TakeResult, EndBatch, ApplyRoutes, Approve,
       StartPlan, AskApprover, ApprovePlan, RecordApproval, AssignTask, Dispatch, Early
  <2>2. pc' \notin {"gather", "result"}
    BY <1>6 DEF Prepare, ResolveTeam, CreateTask, PlanTask, PlannerChat, Route, RouteRaises,
       NothingToRoute, StartBatch, SubmitNext, TakeResult, EndBatch, ApplyRoutes, Approve,
       StartPlan, AskApprover, ApprovePlan, RecordApproval, AssignTask, Dispatch, Move, Goto
  <2>3. ASSUME pc' \in {"dispatch", "fan"} PROVE approved'
    <3>1. (AssignTask /\ approved) \/ Dispatch
      BY <1>6, <2>3 DEF Prepare, ResolveTeam, CreateTask, PlanTask, PlannerChat, Route,
         RouteRaises, NothingToRoute, StartBatch, SubmitNext, TakeResult, EndBatch,
         ApplyRoutes, Approve, StartPlan, AskApprover, ApprovePlan, RecordApproval, AssignTask,
         Move, Goto
    <3>2. approved /\ approved' = approved
      BY <1>2, <3>1 DEF AssignTask, Dispatch, PeersInv, gate
    <3> QED
      BY <3>2
  <2> QED
    BY <1>3, <2>1, <2>2, <2>3
<1>7. CASE RunWorkers
  <2>1. /\ UNCHANGED <<cast, plan, approved, result>> /\ pc = "fan" /\ pc' = "gather"
        /\ peer' = [n \in Names |-> IF n \in Todo THEN "queued" ELSE "none"]
    BY <1>7 DEF RunWorkers, routing, gate, Goto
  <2>2. approved /\ result = None
    BY <1>2, <2>1 DEF PeersInv
  <2> QED
    BY <1>4, <1>5, <2>1, <2>2 DEF PeersInv, Early
<1>8. CASE Gather
  <2>1. /\ UNCHANGED <<cast, plan, approved, result, peer>> /\ pc = "gather" /\ pc' = "result"
        /\ \A n \in Todo : peer[n] \in {"ok", "failed"}
    BY <1>8 DEF Gather, routing, gate, Goto, PeersAt
  <2> QED
    BY <1>2, <1>4, <2>1 DEF PeersInv, Early
<1>9. CASE SaveResult
  <2>1. /\ UNCHANGED <<cast, plan, approved, peer>> /\ pc = "result" /\ pc' = "returned"
        /\ result' \in {result, IF PeersAt("failed") = {} THEN "ok" ELSE "failed"}
    BY <1>9 DEF SaveResult, routing, gate, Goto
  <2>2. result = None /\ (\A n \in Todo : peer[n] \in {"ok", "failed"})
    BY <1>2, <2>1 DEF PeersInv
  <2>3. PeersAt("failed") = {} <=> \A n \in Todo : peer[n] = "ok"
    <3>1. \A n \in Names : peer[n] = "failed" => n \in Todo
      BY <1>2 DEF PeersInv
    <3> QED
      BY <1>5, <2>2, <3>1 DEF PeersAt
  <2>4. result' # None => ResultIsHonest'
    BY <1>4, <2>1, <2>2, <2>3 DEF ResultIsHonest
  <2> QED
    BY <1>2, <1>4, <2>1, <2>4 DEF PeersInv, Early
<1>10. ASSUME NEW n \in Names, PeerThread(n)
       PROVE  PeersInv'
  <2>1. UNCHANGED <<cast, plan, approved, result, pc>>
    BY <1>10 DEF PeerThread, PeerStarts, PeerEnds, routing, gate
  <2>2. PICK end \in {"running", "ok", "failed"} : peer' = [peer EXCEPT ![n] = end]
    BY <1>10 DEF PeerThread, PeerStarts, PeerEnds
  <2>3. peer[n] \in {"queued", "running"}
    BY <1>10 DEF PeerThread, PeerStarts, PeerEnds
  <2>4. approved /\ n \in Todo
    BY <1>2, <2>3 DEF PeersInv
  <2>5. pc \notin Before /\ pc # "result" /\ result = None
    BY <1>2, <2>3, <2>4 DEF PeersInv, ResultIsHonest
  <2>6. \A m \in Names : (peer'[m] # "none" <=> peer[m] # "none")
    BY <1>2, <2>2, <2>3
  <2> QED
    BY <1>2, <1>4, <1>5, <2>1, <2>4, <2>5, <2>6 DEF PeersInv
<1>11. CASE Die
  <2>1. /\ UNCHANGED <<cast, plan, approved, result>> /\ pc # "returned" /\ pc' = "dead"
        /\ \A n \in Names : peer'[n] # "none" <=> peer[n] # "none"
    BY <1>2, <1>11 DEF Die, routing, gate, Goto
  <2> QED
    BY <1>2, <1>4, <2>1 DEF PeersInv, Early
<1>12. CASE BudgetEnds \/ Recover \/ (\E i \in Steps : DecisionThread(i)) \/ UNCHANGED vars
  <2>1. UNCHANGED <<cast, plan, approved, result, pc, peer>>
    BY <1>12 DEF BudgetEnds, Recover, DecisionThread, CallStarts, CallAnswers, vars, routing,
       gate
  <2>2. ResultIsHonest' = ResultIsHonest
    BY <1>4, <2>1 DEF ResultIsHonest
  <2> QED
    BY <1>2, <1>4, <2>1, <2>2 DEF PeersInv
<1> QED
  BY <1>6, <1>7, <1>8, <1>9, <1>10, <1>11, <1>12 DEF Next, Caller, Execute

LEMMA StoreKept ==
  ASSUME CraftInv, [Next]_vars
  PROVE  StoreInv'
<1> DEFINE Under == pc \in {"fan", "gather", "result"} \/ Dispatched # {}
<1>1. setup' = setup /\ TeamError' = TeamError
  BY SetupKept, SetupStays
<1>2. /\ StoreInv /\ PeersInv /\ CastInv /\ GateInv /\ faults \in 0..MaxFaults /\ MaxFaults \in Nat
  BY Constants DEF CraftInv, Types, TypeOK
<1>3. ASSUME UNCHANGED <<cast, plan>>
      PROVE  MayDispatch' = MayDispatch
  BY <1>1, <1>3, PlanStays DEF cast
<1>4. ASSUME UNCHANGED peer
      PROVE  Dispatched' = Dispatched
  BY <1>4 DEF Dispatched
<1>5. pc \in Early \cup {"ask", "answer", "record", "assign", "dispatch", "fan"} => Dispatched = {}
  BY <1>2 DEF PeersInv, Dispatched
(* Nothing that the store is asked about has changed.                        *)
<1>6. ASSUME UNCHANGED <<cast, plan, gate, peer, pc, state, result, faults>>
      PROVE  StoreInv'
  BY <1>1, <1>2, <1>3, <1>4, <1>6 DEF StoreInv, Stored, gate
<1>7. CASE ResolveTeam
  <2>1. /\ pc = "team" /\ UNCHANGED <<state, faults, peer, file>> /\ file = None
        /\ pc' = "create" \/ (pc' = "returned" /\ TeamError)
    BY <1>2, <1>7 DEF ResolveTeam, Goto, gate, GateInv, Early
  <2> QED
    BY <1>1, <1>2, <1>4, <1>5, <2>1 DEF StoreInv, Stored, Early
<1>8. CASE CreateTask
  <2>1. /\ pc = "create" /\ UNCHANGED peer
        /\ (pc' = "plan" /\ state' = "created") \/ (pc' = "returned" /\ faults' = faults + 1)
    BY <1>8 DEF CreateTask, Goto, StoreRaises
  <2>2. faults' = faults + 1 => faults' # 0
    BY <1>2
  <2> QED
    BY <1>2, <1>4, <1>5, <2>1, <2>2 DEF StoreInv, Stored, Early
<1>9. CASE PlanTask
  <2>1. pc = "plan" /\ UNCHANGED peer /\ Move("planned", "chat", "raised")
    BY <1>9 DEF PlanTask
  <2>2. /\ pc' \in {"chat", "raised"} /\ (faults' = 0 => faults = 0)
        /\ faults' = 0 /\ can_transition(state, "planned") => pc' = "chat" /\ state' = "planned"
    BY <1>2, <2>1, MoveIs, PlacesAndStates
  <2> QED
    BY <1>2, <1>4, <1>5, <2>1, <2>2, Edges DEF StoreInv, Stored, Early
<1>10. ASSUME pc \in {"chat", "gate"}, UNCHANGED <<peer, gate>>, Move("failed", "returned", "raised")
       PROVE  StoreInv'
  <2>1. /\ pc' \in {"returned", "raised"} /\ (faults' = 0 => faults = 0)
        /\ faults' = 0 /\ can_transition(state, "failed") => pc' = "returned" /\ state' = "failed"
    BY <1>2, <1>10, MoveIs, PlacesAndStates
  <2>2. ~TeamError /\ file = None /\ file' = None
    BY <1>2, <1>10 DEF CastInv, GateInv, Early, gate
  <2> QED
    BY <1>1, <1>2, <1>4, <1>5, <1>10, <2>1, <2>2, Edges DEF StoreInv, Stored, Early
<1>11. CASE PlannerChat
  <2>1. ASSUME pc' \in {"returned", "route"}, UNCHANGED <<state, faults>>
        PROVE  StoreInv'
    <3>1. pc = "chat" /\ UNCHANGED <<peer, gate>>
      BY <1>11 DEF PlannerChat
    <3>2. ~TeamError /\ file = None /\ file' = None
      BY <1>2, <3>1 DEF CastInv, GateInv, Early, gate
    <3> QED
      BY <1>1, <1>2, <1>4, <1>5, <2>1, <3>1, <3>2 DEF StoreInv, Stored, Early
  <2> QED
    BY <1>10, <1>11, <2>1 DEF PlannerChat, Goto
<1>12. CASE Route
  <2>1. /\ UNCHANGED <<peer, state, faults>> /\ pc \in Early
        /\ pc \in {"route", "batch", "merge"} /\ pc' \in {"route", "batch", "merge", "gate"}
    BY <1>12 DEF Route, RouteRaises, NothingToRoute, StartBatch, SubmitNext, TakeResult,
       EndBatch, ApplyRoutes, Goto, Early
  <2> QED
    BY <1>2, <1>4, <1>5, <2>1 DEF StoreInv, Stored
<1>13. CASE StartPlan
  <2>1. pc = "gate" /\ UNCHANGED <<peer, cast, plan>>
    BY <1>13 DEF StartPlan, routing
  <2>2. CASE pc' \in {"ask", "record"} /\ UNCHANGED <<state, faults>>
    BY <1>2, <1>4, <1>5, <2>1, <2>2 DEF StoreInv, Stored, Early
  <2> QED
    BY <1>10, <1>13, <2>1, <2>2 DEF StartPlan, Goto
<1>14. CASE AskApprover \/ ApprovePlan
  <2>1. /\ pc \in {"ask", "answer"} /\ pc' \in {"answer", "record"}
        /\ UNCHANGED <<peer, state, faults>>
    BY <1>14 DEF AskApprover, ApprovePlan, Goto
  <2> QED
    BY <1>2, <1>4, <1>5, <2>1 DEF StoreInv, Stored, Early
<1>15. CASE RecordApproval
  <2> DEFINE to == IF approved THEN "approved" ELSE "needs_approval"
  <2>1. pc = "record" /\ UNCHANGED <<peer, approved>> /\ Move(to, "assign", "raised")
    BY <1>15 DEF RecordApproval, gate
  <2>2. to \in States /\ can_transition("planned", to)
    BY PlacesAndStates, Edges
  <2> HIDE DEF to
  <2>3. /\ pc' \in {"assign", "raised"} /\ (faults' = 0 => faults = 0)
        /\ faults' = 0 /\ can_transition(state, to) => pc' = "assign" /\ state' = to
    BY <1>2, <2>1, <2>2, MoveIs, PlacesAndStates
  <2> QED
    BY <1>2, <1>4, <1>5, <2>1, <2>2, <2>3 DEF StoreInv, Stored, Early, to
<1>16. CASE AssignTask
  <2>1. pc = "assign" /\ UNCHANGED <<peer, gate>> /\ file # None
    BY <1>2, <1>16 DEF AssignTask, GateInv, Late
  <2>2. CASE approved /\ Move("assigned", "dispatch", "raised")
    <3>1. /\ pc' \in {"dispatch", "raised"} /\ (faults' = 0 => faults = 0)
          /\ faults' = 0 /\ can_transition(state, "assigned") => pc' = "dispatch" /\ state' = "assigned"
      BY <1>2, <2>2, MoveIs, PlacesAndStates
    <3> QED
      BY <1>2, <1>4, <1>5, <2>1, <2>2, <3>1, Edges DEF StoreInv, Stored, gate
  <2>3. CASE ~approved /\ pc' = "returned" /\ UNCHANGED <<state, faults>>
    BY <1>2, <1>4, <1>5, <2>1, <2>3 DEF StoreInv, Stored, gate
  <2> QED
    BY <1>16, <2>2, <2>3 DEF AssignTask, Goto
<1>17. CASE Dispatch
  <2>1. pc = "dispatch" /\ UNCHANGED <<peer, gate, cast, plan>> /\ file # None /\ approved
    BY <1>2, <1>17 DEF Dispatch, GateInv, PeersInv, Late, routing
  <2>2. CASE MayDispatch /\ Move("running", "fan", "returned")
    <3>1. /\ pc' \in {"fan", "returned"} /\ (faults' = 0 => faults = 0)
          /\ pc' = "fan" => state' = "running"
          /\ faults' = 0 /\ can_transition(state, "running") => pc' = "fan" /\ state' = "running"
      BY <1>2, <2>2, MoveIs, PlacesAndStates
    <3> QED
      BY <1>2, <1>3, <1>4, <1>5, <2>1, <2>2, <3>1, Edges DEF StoreInv, Stored, gate
  <2>3. CASE ~MayDispatch /\ pc' = "returned" /\ UNCHANGED <<state, faults>>
    BY <1>2, <1>3, <1>4, <1>5, <2>1, <2>3 DEF StoreInv, Stored, gate
  <2> QED
    BY <1>17, <2>2, <2>3 DEF Dispatch, Goto
<1>18. CASE RunWorkers \/ Gather
  <2>1. /\ UNCHANGED <<cast, plan, state, faults>> /\ pc \in {"fan", "gather"} /\ pc' \in {"gather", "result"}
    BY <1>18 DEF RunWorkers, Gather, routing, Goto
  <2> QED
    BY <1>2, <1>3, <2>1 DEF StoreInv, Stored
<1>19. CASE SaveResult
  <2>1. /\ UNCHANGED <<cast, plan, state, gate, peer>> /\ pc = "result" /\ pc' = "returned"
        /\ (faults' = faults /\ result' \in {"ok", "failed"}) \/ faults' = faults + 1
    BY <1>19 DEF SaveResult, StoreRaises, routing, Goto
  <2>2. faults' = 0 => faults = 0 /\ result' # None
    BY <1>2, <2>1, Constants
  <2>3. approved /\ file # None
    BY <1>2, <2>1 DEF PeersInv, GateInv, Late
  <2> QED
    BY <1>2, <1>3, <1>4, <2>1, <2>2, <2>3 DEF StoreInv, Stored, gate
<1>20. ASSUME NEW n \in Names, PeerThread(n)
       PROVE  StoreInv'
  <2>1. UNCHANGED <<cast, plan, gate, pc, state, result, faults>>
    BY <1>20 DEF PeerThread, PeerStarts, PeerEnds, routing
  <2>2. peer[n] # "none"
    BY <1>20 DEF PeerThread, PeerStarts, PeerEnds
  <2>3. Dispatched # {}
    BY <2>2 DEF Dispatched
  <2> QED
    BY <1>1, <1>2, <1>3, <2>1, <2>3 DEF StoreInv, Stored, gate
<1>21. CASE Die
  <2>1. UNCHANGED <<state, faults>> /\ pc' = "dead"
    BY <1>21 DEF Die, Goto
  <2>2. Dispatched' = Dispatched
    <3>1. peer \in [Names -> {"none", "queued", "running", "ok", "failed", "lost"}]
      BY DEF CraftInv, Types, TypeOK
    <3>2. \A n \in Names : peer'[n] # "none" <=> peer[n] # "none"
      BY <1>21, <3>1 DEF Die
    <3> QED
      BY <3>2 DEF Dispatched
  <2> QED
    BY <1>2, <2>1, <2>2 DEF StoreInv, Stored
<1>22. CASE Recover
  <2>1. /\ UNCHANGED <<cast, plan, gate, peer, pc, result, faults>>
        /\ state = "running" /\ state' = "blocked"
    BY <1>22 DEF Recover, routing
  <2>2. None # "running"
    BY Constants, PlacesAndStates
  <2> QED
    BY <1>1, <1>2, <1>3, <1>4, <2>1, <2>2 DEF StoreInv, Stored, gate
<1>23. CASE BudgetEnds \/ (\E i \in Steps : DecisionThread(i)) \/ UNCHANGED vars
  <2>1. UNCHANGED <<cast, plan, gate, peer, pc, state, result, faults>>
    BY <1>23 DEF BudgetEnds, DecisionThread, CallStarts, CallAnswers, vars, routing
  <2> QED
    BY <1>6, <2>1
<1> QED
  BY <1>7, <1>8, <1>9, <1>11, <1>12, <1>13, <1>14, <1>15, <1>16, <1>17, <1>18, <1>19, <1>20,
     <1>21, <1>22, <1>23 DEF Next, Caller, Prepare, Approve, Execute

----------------------------------------------------------------------------
LEMMA Kept ==
  Spec => []CraftInv
<1>1. CraftInv /\ [Next]_vars => CraftInv'
  BY TypesKept, CastKept, RouteKept, GateKept, PeersKept, StoreKept DEF CraftInv
<1> QED
  BY InitHolds, <1>1, PTL DEF Spec

(* Every variable of a craft keeps the type that its code gives it.          *)
THEOREM CraftIsTyped == Spec => []TypeOK
<1>1. CraftInv => TypeOK
  BY DEF CraftInv, Types
<1> QED
  BY Kept, <1>1, PTL

(* Whoever run_craft dispatches was named in the approved plan, is not the   *)
(* planner, is a declared member of the team, and a plan that is too long,   *)
(* incomplete or badly routed had a person's yes.                            *)
THEOREM PeersAreApproved == Spec => []PeersWereApproved
<1>1. ASSUME CraftInv, Dispatched # {}
      PROVE  /\ approved /\ file # None
             /\ Dispatched \subseteq file.assigned \ {Planner}
             /\ file.status # "rejected"
             /\ file.status = "auto-approved" =>
                  /\ ~route_failed /\ \A i \in Pending : plan[i] # None
                  /\ ~needs_plan_approval(Cardinality(Steps))
  <2>1. approved /\ Dispatched \subseteq Todo
    BY <1>1 DEF CraftInv, PeersInv, Dispatched
  <2>2. /\ file # None /\ file.assigned = Assigned(plan) /\ file.status # "rejected"
        /\ Marked /\ (file.status = "auto-approved" => ~NeedsApproval)
    BY <1>1, <2>1 DEF CraftInv, GateInv
  <2>3. Todo \subseteq Assigned(plan) \ {Planner}
    BY <1>1, CandidatesAreNames DEF CraftInv
  <2> QED
    BY <2>1, <2>2, <2>3 DEF Marked, NeedsApproval
<1>2. ASSUME CraftInv, Dispatched # {}, team # None
      PROVE  /\ \A n \in Dispatched :
                  /\ \E t \in ToSet(setup.roster.teams) : t.name = team.name /\ n \in ToSet(t.members)
                  /\ \E w \in ToSet(setup.roster.workers) :
                       w.name = n /\ team.name \in _normalize_worker_teams(w)
             /\ team.planner_must_be_member => Planner \in team.members
  <2>1. team = resolve_team /\ ~TeamError
    BY <1>2 DEF CraftInv, CastInv
  <2>2. \A n \in Dispatched : n \in team.members
    <3>1. Dispatched \subseteq Todo
      BY <1>2 DEF CraftInv, PeersInv, Dispatched
    <3> QED
      BY <1>2, <3>1 DEF Todo, Allowed
  <2>3. team.planner_must_be_member => Planner \in team.members
    BY <1>2, <2>1 DEF TeamError, Planner
  <2>4. setup \in Setups
    BY <1>2 DEF CraftInv, Types
  <2> QED
    BY <1>2, <2>1, <2>2, <2>3, <2>4, TeamIsDeclared
<1>3. CraftInv => PeersWereApproved
  BY <1>1, <1>2 DEF PeersWereApproved
<1> QED
  BY Kept, <1>3, PTL

(* Whatever order the calls of decide_many answer in, and whichever are      *)
(* late, a step gets the worker its own request was answered with.           *)
THEOREM AnswersReachTheirSteps == Spec => []StepGetsItsAnswer
<1>1. CraftInv => StepGetsItsAnswer
  BY DEF CraftInv, RouteInv, Told, StepGetsItsAnswer
<1> QED
  BY Kept, <1>1, PTL

(* The saved result says ok exactly when every peer ended ok, no peer starts *)
(* before the store says running, and what the caller was told of approval   *)
(* and dispatch is what the store holds.                                     *)
THEOREM OutcomesAreTold == Spec => []OutcomeIsTold
<1>1. ASSUME CraftInv
      PROVE  ResultIsHonest
  BY <1>1 DEF CraftInv, PeersInv, ResultIsHonest
<1>2. ASSUME CraftInv
      PROVE  StoreTellsTheOutcome
  BY <1>2 DEF CraftInv, StoreInv, Stored, StoreTellsTheOutcome
<1>3. CraftInv => OutcomeIsTold
  BY <1>1, <1>2 DEF OutcomeIsTold
<1> QED
  BY Kept, <1>3, PTL
=============================================================================
