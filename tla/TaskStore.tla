----------------------------- MODULE TaskStore -----------------------------
(***************************************************************************)
(* What a TaskStorePort (nak_host/domain/ports.py) promises about task     *)
(* runs, without saying how: every task has an append-only history of run  *)
(* snapshots, starting with CREATED at version 0; a transition appends one *)
(* snapshot, one version above the latest, along an edge of TRANSITIONS.   *)
(* The durable adapter (NebulonStore) and the in-memory one (MemoryStore)  *)
(* are each shown to implement this specification.                         *)
(***************************************************************************)
EXTENDS TaskRuns

CONSTANT
  MaxVersion    \* bound: no transition above this version

VARIABLE runs   \* every run snapshot that ever became current

RunsOf(t) == {r \in runs : r.task = t}

IsCurrent(r) == r \in runs /\ \A q \in RunsOf(r.task) : q.version <= r.version

Init == runs = {}

(* create_task on an id the store does not know. *)
Create(t) ==
  /\ RunsOf(t) = {}
  /\ runs' = runs \cup {FirstRun(t)}

(* transition from the current run r: one version up, along a legal edge. *)
Transition(r, to, att) ==
  /\ IsCurrent(r)
  /\ r.version < MaxVersion
  /\ can_transition(r.state, to)
  /\ runs' = runs \cup {[task |-> r.task, version |-> r.version + 1,
                         state |-> to, attempt |-> att]}

Next == \/ \E t \in Ids : Create(t)
        \/ \E r \in runs, to \in States, att \in AttemptNos :
             Transition(r, to, att)

Spec == Init /\ [][Next]_runs

----------------------------------------------------------------------------
TypeOK == runs \in SUBSET Run

(* A version names one run: the (task, version) a caller holds for its       *)
(* expected_version check can stand for one state only.                      *)
VersionNamesOneRun ==
  \A r, q \in runs : r.task = q.task /\ r.version = q.version => r = q

(* Every run but the first follows its predecessor along a legal edge, and   *)
(* the first is CREATED at version 0: the history has no gap and no shortcut *)
(* past ensure_transition.                                                   *)
HistoryIsLegal ==
  \A r \in runs :
    IF r.version = 0 THEN r = FirstRun(r.task)
    ELSE \E p \in RunsOf(r.task) : /\ p.version = r.version - 1
                                   /\ can_transition(p.state, r.state)

(* The states of a run that is being carried out or was.                     *)
CarriedOut == {"assigned", "running", "blocked", "verified", "reported"}

(* A task that was PLANNED or waited in NEEDS_APPROVAL is carried out only   *)
(* after it was APPROVED since: whoever moves it in between, and through     *)
(* however many states, no sequence of moves, of clients or of a recovery,   *)
(* leads around the approval (assign_task.py: tasks are assigned from        *)
(* APPROVED, and from NEEDS_APPROVAL the transition is illegal).             *)
ApprovalIsHeeded ==
  \A p, r \in runs :
    /\ p.task = r.task /\ p.version < r.version
    /\ p.state \in {"planned", "needs_approval"} /\ r.state \in CarriedOut
    => \E a \in RunsOf(p.task) : /\ p.version < a.version /\ a.version < r.version
                               /\ a.state = "approved"

(* A task that reached REPORTED or FAILED is never moved again: its terminal *)
(* run stays the current one for ever, so no late writer resurrects it.      *)
TerminalStaysCurrent ==
  [][\A r \in runs : IsCurrent(r) /\ r.state \in TERMINAL_STATES
                       => IsCurrent(r)']_runs
============================================================================
