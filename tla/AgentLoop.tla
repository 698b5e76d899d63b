----------------------------- MODULE AgentLoop -----------------------------
(***************************************************************************)
(* One worker's agent loop, nak_host/application/loop.py run_loop, with    *)
(* the approval ledger it mints grants in (application/approval.py) and    *)
(* the executor that re-checks every call (adapters/executor_harness.py).  *)
(* A turn asks the brain, then inspects, approves and runs each tool call  *)
(* of the reply. Other threads may cancel the loop or revoke its grant at  *)
(* any moment, and the wall clock may pass the task's timeout. No check    *)
(* of these is atomic with what it guards: the brain call starts after the *)
(* token and the clock were read, the tool after the token, the ledger,    *)
(* the harness's gates and the ledger once more.                           *)
(*                                                                         *)
(* What the brain replies, the policy's verdict on a call, the approver's  *)
(* answer and the tool's outcome are choices; texts and the conversation   *)
(* history are left out, and so are verdicts that change from one of the   *)
(* three inspections of a call to the next, except into a refusal.         *)
(***************************************************************************)
EXTENDS Integers

CONSTANTS
  MaxSteps,       \* task.max_steps
  MaxCalls,       \* eff_calls: tool calls run per turn
  MaxStalls,      \* eff_stalls: turns without progress that are tolerated
  FormatRetries,  \* LOOP_FORMAT_RETRIES
  AutoSteps,      \* the values auto_steps may resolve to (input bound)
  Nothing         \* absence: no grant, no verdict, no final status

ASSUME AgentLoopAssumption ==
  /\ {MaxSteps, MaxCalls} \subseteq Nat \ {0}
  /\ {MaxStalls, FormatRetries} \subseteq Nat
  /\ AutoSteps \subseteq Nat
  /\ Nothing \notin {"auto", "human", "allow", "ask"}
  /\ Nothing \notin {"done", "cancelled", "timeout", "failed", "needs_approval",
                      "stalled", "max_steps"}

VARIABLES
  pc,                \* the line the loop, the executor or the harness is at
  step,              \* the turn being run, 1..MaxSteps
  left,              \* calls of the reply still to process
  checked,           \* the verdict on the call being run
  auto_steps,        \* the resolved budget of automatic grants
  auto_used, stalls, format_left, honesty_done, approval_blocked, progressed,
  logged, some_ok,   \* calls_log: it has an entry, it has an ok entry
  ref,               \* granted_by of granted_ctx's approval; Nothing: not granted
  minted,            \* references minted: the last one's id
  revoked_ids,       \* ApprovalLedger._revoked
  cancelled,         \* the cancel token
  late,              \* the wall clock passed the timeout
  status,            \* what the loop returned
  \* what the properties remember, no state of the program:
  chats,             \* brain calls made (counted to MaxSteps + 1)
  unasked, asked,    \* ASK calls executed: without, and with, a human's yes
  after_cancel,      \* brain calls and tool runs started since the cancellation
  after_revoke       \* ASK calls started since the ledger revoked a grant

budget == <<auto_steps, auto_used, format_left, honesty_done>>
grant == <<ref, minted, revoked_ids>>
log == <<logged, some_ok>>
env == <<cancelled, late>>
counts == <<chats, unasked, asked, after_cancel, after_revoke>>
loop_vars == <<pc, step, left, checked, budget, stalls, approval_blocked,
               progressed, log, grant, env, status, counts>>

Statuses == {"done", "cancelled", "timeout", "failed", "needs_approval",
             "stalled", "max_steps"}

granted == ref # Nothing

(* not is_valid(granted_ctx.approval): a minted reference never expires.     *)
revoked == minted \in revoked_ids

(* _resolve_budget chooses auto_steps; the other locals start empty.         *)
LoopInit ==
  /\ pc = "turn"
  /\ step = 1
  /\ left = 0
  /\ checked = Nothing
  /\ auto_steps \in AutoSteps
  /\ auto_used = 0
  /\ stalls = 0
  /\ format_left = FormatRetries
  /\ honesty_done = FALSE
  /\ approval_blocked = FALSE
  /\ progressed = FALSE
  /\ logged = FALSE
  /\ some_ok = FALSE
  /\ ref = Nothing
  /\ minted = 0
  /\ revoked_ids = {}
  /\ cancelled = FALSE
  /\ late = FALSE
  /\ status = Nothing
  /\ chats = 0
  /\ unasked = 0
  /\ asked = 0
  /\ after_cancel = 0
  /\ after_revoke = 0

(* _finish, and the head of "for step in range(1, max_steps + 1)".           *)
Finish(how) == pc' = "end" /\ status' = how /\ UNCHANGED step

NextTurn ==
  IF step < MaxSteps
  THEN pc' = "turn" /\ step' = step + 1 /\ UNCHANGED status
  ELSE Finish("max_steps")

----------------------------------------------------------------------------
(* A turn: cancellation, then the clock, then the brain.                     *)

TurnCancelled ==
  /\ pc = "turn"
  /\ cancelled
  /\ Finish("cancelled")
  /\ UNCHANGED <<left, checked, budget, stalls, approval_blocked, progressed,
                 log, grant, env, counts>>

TurnProceeds ==
  /\ pc = "turn"
  /\ ~cancelled
  /\ pc' = "clock"
  /\ UNCHANGED <<step, left, checked, budget, stalls, approval_blocked,
                 progressed, log, grant, env, status, counts>>

TurnTimedOut ==
  /\ pc = "clock"
  /\ late
  /\ Finish("timeout")
  /\ UNCHANGED <<left, checked, budget, stalls, approval_blocked, progressed,
                 log, grant, env, counts>>

TurnInTime ==
  /\ pc = "clock"
  /\ ~late
  /\ pc' = "chat"
  /\ UNCHANGED <<step, left, checked, budget, stalls, approval_blocked,
                 progressed, log, grant, env, status, counts>>

(* What the properties remember of a start: whether it came too late.        *)
Started == after_cancel' = IF cancelled THEN after_cancel + 1 ELSE after_cancel

(* The brain call starts, whatever happened since the token was read.        *)
Chat ==
  /\ pc = "chat"
  /\ pc' = "reply"
  /\ chats' = IF chats <= MaxSteps THEN chats + 1 ELSE chats
  /\ Started
  /\ UNCHANGED <<step, left, checked, budget, stalls, approval_blocked,
                 progressed, log, grant, env, status, unasked, asked, after_revoke>>

ChatFails ==
  /\ pc = "reply"
  /\ Finish("failed")
  /\ UNCHANGED <<left, checked, budget, stalls, approval_blocked, progressed,
                 log, grant, env, counts>>

(* Defect: the format re-prompt costs neither a retry nor a step.            *)
ReplyMalformedFree ==
  /\ pc = "reply"
  /\ format_left > 0
  /\ pc' = "turn"
  /\ UNCHANGED <<step, status, left, checked, budget, stalls, approval_blocked,
                 progressed, log, grant, env, counts>>

(* No call, a malformed block: re-prompt while retries are left.             *)
ReplyMalformed ==
  /\ pc = "reply"
  /\ format_left > 0
  /\ format_left' = format_left - 1
  /\ NextTurn
  /\ UNCHANGED <<left, checked, auto_steps, auto_used, honesty_done, stalls,
                 approval_blocked, progressed, log, grant, env, counts>>

(* No call: a final answer, unless every call so far failed and the model    *)
(* was not yet told so.                                                      *)
HonestyDue == ~honesty_done /\ logged /\ ~some_ok

ReplyWarned ==
  /\ pc = "reply"
  /\ HonestyDue
  /\ honesty_done' = TRUE
  /\ NextTurn
  /\ UNCHANGED <<left, checked, auto_steps, auto_used, format_left, stalls,
                 approval_blocked, progressed, log, grant, env, counts>>

ReplyFinal ==
  /\ pc = "reply"
  /\ ~HonestyDue
  /\ Finish("done")
  /\ UNCHANGED <<left, checked, budget, stalls, approval_blocked, progressed,
                 log, grant, env, counts>>

(* Defect: calls beyond the budget are run.                                  *)
ReplyCallsOverBudget(n) ==
  /\ pc = "reply"
  /\ pc' = "call"
  /\ left' = n + MaxCalls
  /\ progressed' = FALSE
  /\ UNCHANGED <<step, checked, budget, stalls, approval_blocked, log, grant,
                 env, status, counts>>

(* Calls beyond the budget are dropped.                                      *)
ReplyCalls(n) ==
  /\ pc = "reply"
  /\ pc' = "call"
  /\ left' = n
  /\ progressed' = FALSE
  /\ UNCHANGED <<step, checked, budget, stalls, approval_blocked, log, grant,
                 env, status, counts>>

----------------------------------------------------------------------------
(* One call: verdict, approval, run. It ends with an entry in calls_log.     *)

Logged(ok) ==
  /\ pc' = "call"
  /\ left' = left - 1
  /\ checked' = Nothing
  /\ logged' = TRUE
  /\ some_ok' = (some_ok \/ ok)
  /\ progressed' = (progressed \/ ok)

Inspect(v) == pc = "call" /\ left > 0 /\ v \in {"allow", "ask", "deny"}

CallDenied ==
  /\ Inspect("deny")
  /\ Logged(FALSE)
  /\ UNCHANGED <<step, budget, stalls, approval_blocked, grant, env, status,
                 counts>>

(* Allowed, or ASK under the grant an earlier ASK was given.                 *)
CallAdmitted(v) ==
  /\ Inspect(v)
  /\ v = "ask" => granted
  /\ pc' = "run"
  /\ checked' = v
  /\ UNCHANGED <<step, left, budget, stalls, approval_blocked, progressed, log,
                 grant, env, status, counts>>

(* Defect: approval_blocked is not reset by a grant.                         *)
GrantStaysBlocked(by) ==
  /\ ref' = by
  /\ minted' = minted + 1
  /\ revoked_ids' = revoked_ids \ {minted'}
  /\ approval_blocked' = TRUE
  /\ pc' = "run"
  /\ checked' = "ask"

(* mint_approval, ledger.grant and ledger.derive.                            *)
Grant(by) ==
  /\ ref' = by
  /\ minted' = minted + 1
  /\ revoked_ids' = revoked_ids \ {minted'}
  /\ approval_blocked' = FALSE
  /\ pc' = "run"
  /\ checked' = "ask"

CallAutoGranted ==
  /\ Inspect("ask")
  /\ ~granted
  /\ auto_used < auto_steps
  /\ Grant("auto")
  /\ auto_used' = auto_used + 1
  /\ UNCHANGED <<step, left, auto_steps, format_left, honesty_done, stalls,
                 progressed, log, env, status, counts>>

CallAsks ==
  /\ Inspect("ask")
  /\ ~granted
  /\ auto_used >= auto_steps
  /\ approval_blocked' = TRUE
  /\ pc' = "approving"
  /\ checked' = "ask"
  /\ UNCHANGED <<step, left, budget, stalls, progressed, log, grant, env,
                 status, counts>>

CallApproved ==
  /\ pc = "approving"
  /\ Grant("human")
  /\ UNCHANGED <<step, left, budget, stalls, progressed, log, env, status,
                 counts>>

(* The approver declines or raises, or there is none.                        *)
CallDeclined ==
  /\ pc = "approving"
  /\ Logged(FALSE)
  /\ UNCHANGED <<step, budget, stalls, approval_blocked, grant, env, status,
                 counts>>

(* HarnessExecutor.run reads the cancel token first, and raises.             *)
RunCancelled ==
  /\ pc = "run"
  /\ cancelled
  /\ Logged(FALSE)
  /\ UNCHANGED <<step, budget, stalls, approval_blocked, grant, env, status,
                 counts>>

(* Defect: cancellation is not checked before a run.                         *)
RunProceedsCancelled ==
  /\ pc = "run"
  /\ pc' = "admit"
  /\ UNCHANGED <<step, left, checked, budget, stalls, approval_blocked,
                 progressed, log, grant, env, status, counts>>

RunProceeds ==
  /\ pc = "run"
  /\ ~cancelled
  /\ pc' = "admit"
  /\ UNCHANGED <<step, left, checked, budget, stalls, approval_blocked,
                 progressed, log, grant, env, status, counts>>

(* Defect: the loop takes the revoked approval back and may ask for another. *)
ApprovalForgotten ==
  /\ pc = "admit"
  /\ checked = "ask" /\ revoked
  /\ Logged(FALSE)
  /\ ref' = Nothing
  /\ UNCHANGED <<step, budget, stalls, approval_blocked, minted, revoked_ids,
                 env, status, counts>>

(* Then it inspects, and asks the ledger about the grant of an ASK call.     *)
ApprovalRevoked ==
  /\ pc = "admit"
  /\ checked = "ask" /\ revoked
  /\ Logged(FALSE)
  /\ UNCHANGED <<step, budget, stalls, approval_blocked, grant, env, status,
                 counts>>

RunEnters ==
  /\ pc = "admit"
  /\ ~(checked = "ask" /\ revoked)
  /\ pc' = "harness"
  /\ UNCHANGED <<step, left, checked, budget, stalls, approval_blocked,
                 progressed, log, grant, env, status, counts>>

(* run_tool inspects once more, with the ledger as the approver of an ASK;   *)
(* any gate may refuse what another session's calls have used up.            *)
HarnessRefuses ==
  /\ pc = "harness"
  /\ Logged(FALSE)
  /\ UNCHANGED <<step, budget, stalls, approval_blocked, grant, env, status,
                 counts>>

HarnessAdmits ==
  /\ pc = "harness"
  /\ ~(checked = "ask" /\ revoked)
  /\ pc' = "ready"
  /\ UNCHANGED <<step, left, checked, budget, stalls, approval_blocked,
                 progressed, log, grant, env, status, counts>>

(* resolve_tool: no such tool, or its module cannot be imported.             *)
ToolUnloadable ==
  /\ pc = "ready"
  /\ Logged(FALSE)
  /\ UNCHANGED <<step, budget, stalls, approval_blocked, grant, env, status,
                 counts>>

(* The tool starts, whatever was cancelled or revoked since it was admitted, *)
(* and succeeds or fails; nothing the loop shares is read before it returns. *)
RunTool(ok) ==
  /\ pc = "ready"
  /\ Logged(ok)
  /\ Started
  /\ IF checked = "ask"
     THEN /\ unasked' = IF ref = "auto" THEN unasked + 1 ELSE unasked
          /\ asked' = IF ref = "human" THEN asked + 1 ELSE asked
          /\ after_revoke' = IF revoked_ids # {} THEN after_revoke + 1 ELSE after_revoke
     ELSE UNCHANGED <<unasked, asked, after_revoke>>
  /\ UNCHANGED <<step, budget, stalls, approval_blocked, grant, env, status, chats>>

(* The reply is processed: count the turn as progress or as a stall.         *)
EndTurn ==
  /\ pc = "call"
  /\ left = 0
  /\ IF progressed
     THEN /\ stalls' = 0
          /\ approval_blocked' = FALSE
          /\ NextTurn
     ELSE /\ stalls' = stalls + 1
          /\ UNCHANGED approval_blocked
          /\ IF stalls' <= MaxStalls THEN NextTurn
             ELSE Finish(IF approval_blocked THEN "needs_approval" ELSE "stalled")
  /\ UNCHANGED <<left, checked, budget, progressed, log, grant, env, counts>>

----------------------------------------------------------------------------
(* Other threads and the clock.                                              *)

Cancel ==
  /\ pc # "end"
  /\ ~cancelled
  /\ cancelled' = TRUE
  /\ UNCHANGED <<pc, step, left, checked, budget, stalls, approval_blocked,
                 progressed, log, grant, late, status, counts>>

TimeOut ==
  /\ pc # "end"
  /\ ~late
  /\ late' = TRUE
  /\ UNCHANGED <<pc, step, left, checked, budget, stalls, approval_blocked,
                 progressed, log, grant, cancelled, status, counts>>

(* ApprovalLedger.revoke.                                                    *)
Revoke ==
  /\ pc # "end"
  /\ granted
  /\ ~revoked
  /\ revoked_ids' = revoked_ids \cup {minted}
  /\ UNCHANGED <<pc, step, left, checked, budget, stalls, approval_blocked,
                 progressed, log, ref, minted, env, status, counts>>

Loop ==
  \/ TurnCancelled \/ TurnProceeds \/ TurnTimedOut \/ TurnInTime
  \/ Chat \/ ChatFails
  \/ ReplyMalformed \/ ReplyWarned \/ ReplyFinal
  \/ \E n \in 1..MaxCalls : ReplyCalls(n)
  \/ CallDenied \/ \E v \in {"allow", "ask"} : CallAdmitted(v)
  \/ CallAutoGranted \/ CallAsks \/ CallApproved \/ CallDeclined
  \/ RunCancelled \/ RunProceeds \/ ApprovalRevoked \/ RunEnters
  \/ HarnessRefuses \/ HarnessAdmits \/ ToolUnloadable
  \/ \E ok \in BOOLEAN : RunTool(ok)
  \/ EndTurn

LoopNext == Loop \/ Cancel \/ TimeOut \/ Revoke

(* The loop is one thread that always takes its next step: brain calls and   *)
(* tools return or raise (they carry timeouts), and so does the approver.    *)
LoopSpec == LoopInit /\ [][LoopNext]_loop_vars /\ WF_loop_vars(Loop)

----------------------------------------------------------------------------
FlagsOK ==
  /\ honesty_done \in BOOLEAN
  /\ approval_blocked \in BOOLEAN
  /\ progressed \in BOOLEAN
  /\ logged \in BOOLEAN
  /\ some_ok \in BOOLEAN
  /\ cancelled \in BOOLEAN
  /\ late \in BOOLEAN

LoopTypeOK ==
  /\ pc \in {"turn", "clock", "chat", "reply", "call", "approving", "run",
              "admit", "harness", "ready", "end"}
  /\ step \in 1..MaxSteps
  /\ left \in 0..MaxCalls
  /\ checked \in {Nothing, "allow", "ask"}
  /\ auto_steps \in AutoSteps
  /\ auto_used \in Nat
  /\ stalls \in 0..(MaxStalls + 1)
  /\ format_left \in 0..FormatRetries
  /\ FlagsOK
  /\ ref \in {Nothing, "auto", "human"}
  /\ minted \in Nat
  /\ revoked_ids \subseteq Nat
  /\ status \in Statuses \cup {Nothing}
  /\ chats \in Nat
  /\ unasked \in Nat
  /\ asked \in Nat
  /\ after_cancel \in Nat
  /\ after_revoke \in Nat

(* Every loop returns, whatever the brain, the policy, the approver and the  *)
(* tools answer.                                                             *)
Terminates == <>(pc = "end")

(* The budgets hold together: no more brain calls than max_steps, re-prompts *)
(* included, and no more ASK calls run than the turns so far have room for.  *)
BudgetHolds ==
  /\ chats <= MaxSteps
  /\ unasked + asked <= chats * MaxCalls

(* A revocation bites, for the rest of the task: between the harness's       *)
(* question to the ledger and the start of the tool it can still be missed,  *)
(* by one call that needed approval, and by no other afterwards, because the *)
(* loop neither drops the revoked grant nor asks for a second one.           *)
RevocationBites == after_revoke <= 1

(* So does a cancellation: of all the brain calls and tool runs the loop may *)
(* have left, at most one still starts, whose token had been read before.    *)
CancellationBites == after_cancel <= 1

(* A loop that reports NEEDS_APPROVAL has run nothing that needed approval,  *)
(* so re-running the task after the approval repeats no approved effect.     *)
NeedsApprovalRanNothing ==
  status = "needs_approval" => unasked = 0 /\ asked = 0

(* A loop whose every tool call failed is not "done" unless the model was    *)
(* told that none of its calls succeeded.                                    *)
DoneIsHonest ==
  status = "done" /\ logged /\ ~some_ok => honesty_done

(* The status a loop reports is true of its log: needs_approval means that    *)
(* nothing that needed approval ran, and done that something succeeded, that  *)
(* nothing was called, or that the model was told otherwise first.            *)
StatusIsHonest == NeedsApprovalRanNothing /\ DoneIsHonest
============================================================================
