------------------------------ MODULE TaskRuns ------------------------------
(***************************************************************************)
(* The run snapshots (TaskRun of nak_host/domain/task.py) that a task      *)
(* store keeps: what the port's abstract specification (TaskStore) and the *)
(* in-memory adapter (MemoryStore) have in common.                         *)
(***************************************************************************)
EXTENDS Naturals, TaskStates

CONSTANTS
  Ids,          \* the task ids callers use
  AttemptNos    \* the attempt numbers callers set (TaskRun requires >= 1)

ASSUME TaskRunsAssumption ==
  /\ AttemptNos \subseteq Nat \ {0}
  /\ 1 \in AttemptNos

Run == [task: Ids, version: Nat, state: States, attempt: AttemptNos]

(* create_task starts every task's history with this run.                    *)
FirstRun(t) == [task |-> t, version |-> 0, state |-> "created", attempt |-> 1]
============================================================================
