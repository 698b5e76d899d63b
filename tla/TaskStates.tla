---------------------------- MODULE TaskStates ----------------------------
(***************************************************************************)
(* The task state machine of nak_host/domain/state.py, shared by every     *)
(* module that moves a task run: the states, the legal transitions, and    *)
(* the classes of states the stores and the use-cases ask about.           *)
(***************************************************************************)

(* TaskState: the ten states, by their stored values. *)
States == {"created", "planned", "approved", "assigned", "running",
           "needs_approval", "verified", "reported", "failed", "blocked"}

(* Defect: a task that waits for its approval may be assigned without one.   *)
TransitionsPastApproval ==
  [created        |-> {"planned", "assigned", "failed"},
   planned        |-> {"approved", "needs_approval", "failed"},
   needs_approval |-> {"approved", "assigned", "failed"},
   approved       |-> {"assigned", "failed"},
   assigned       |-> {"running", "failed"},
   running        |-> {"needs_approval", "verified", "blocked", "failed"},
   blocked        |-> {"running", "failed"},
   verified       |-> {"reported", "failed"},
   reported       |-> {},
   failed         |-> {}]

(* TRANSITIONS: the targets each state may move to in one transition. *)
TRANSITIONS ==
  [created        |-> {"planned", "assigned", "failed"},
   planned        |-> {"approved", "needs_approval", "failed"},
   needs_approval |-> {"approved", "failed"},
   approved       |-> {"assigned", "failed"},
   assigned       |-> {"running", "failed"},
   running        |-> {"needs_approval", "verified", "blocked", "failed"},
   blocked        |-> {"running", "failed"},
   verified       |-> {"reported", "failed"},
   reported       |-> {},
   failed         |-> {}]

(* legal_targets and can_transition. *)
legal_targets(s) == TRANSITIONS[s]

can_transition(from, to) == to \in legal_targets(from)

(* TERMINAL_STATES: no outgoing transitions. *)
TERMINAL_STATES == {"reported", "failed"}

(* PENDING_STATES: what list_pending reports; neither terminal nor blocked,  *)
(* and not verified either.                                                  *)
PENDING_STATES == {"created", "planned", "needs_approval", "approved",
                   "assigned", "running"}
============================================================================
