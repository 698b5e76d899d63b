------------------------------ MODULE Vetting -------------------------------
(***************************************************************************)
(* The vetting pipeline: repeat_vetting over run_vetting over _run_one     *)
(* (pipeline/vetting/utils/runner.py). One thread vets worker after        *)
(* worker: it probes the crafts and the tools, lets the assessor plan      *)
(* cases (or takes a reviewed bank), lets the worker answer each, lets     *)
(* the assessor judge each answer, and scores. A judge's chat that times   *)
(* out goes on in its own thread.                                          *)
(*                                                                         *)
(* A chat runs on a brain, whose Mind user remembers what it was told:     *)
(* Mind grounds every later chat of that user in it. Answers, prompts and  *)
(* rationales are left out; a case is its id, difficulty and weight, which *)
(* of its fields are missing, the craft it asks for, the number of modes   *)
(* it claims and what its checks are worth. Scores are percentages, and    *)
(* the rounding is downwards. The evidence files are left out: what fails  *)
(* to be written fails the worker's run.                                   *)
(***************************************************************************)
EXTENDS Crafts

CONSTANTS
  Libs,           \* the files an invocation may be given: see Crafts, by name
  Assessor,
  Spelling,       \* how a worker's name is written in the name of a user
  Setups,         \* the invocations considered, see below
  Plans,          \* what the assessor may reply to a plan prompt
  Scores,         \* what it may give an answer
  PROBED,         \* the tools with a safe probe
  THRESHOLD,
  MaxLate         \* bound: judge chats that outlive their timeout at a time

(* An invocation: the files, the workers asked for (none: all known; without *)
(* blanks and duplicates), repeats (0: a plain run_vetting), the brain the   *)
(* caller gives ("none", "assessor", or "all" of them one), whose reviewed   *)
(* bank is used (None: none; "list": the caller's own cases) and its cases,  *)
(* how many cases to plan, whether the worker's own decision stage stays on  *)
(* and, for the tool probes, what the permissions say and how each tool      *)
(* answers; and how often it is made, one after the other, each time in a    *)
(* new directory.                                                            *)
CaseType == [id: STRING, craft: STRING \cup {None}, modes: Nat, lacks: SUBSET STRING,
             difficulty: STRING, weight: Int, checks: Seq({"good", "brittle", "bad"})]

ASSUME VettingAssumption ==
  /\ THRESHOLD \in 0..100 /\ Scores \subseteq 0..100 /\ MaxLate \in Nat
  /\ \A f \in DOMAIN Libs :
       /\ Len(Libs[f].pins) \in Nat /\ DOMAIN Libs[f].pins = 1..Len(Libs[f].pins)
       /\ Libs[f].workers # None =>
            IsFiniteSet(DOMAIN Libs[f].workers) /\ DOMAIN Libs[f].workers \subseteq STRING
  /\ \A reply \in Plans : reply.cases \in Seq(CaseType)
  /\ \A s \in Setups : /\ s.files \in DOMAIN Libs
                       /\ s.asked \in Seq(STRING) /\ s.repeats \in Nat
                       /\ s.given \in {"none", "assessor", "all"}
                       /\ s.cases \in Seq(CaseType) /\ s.decision \in BOOLEAN
                       /\ IsFiniteSet(DOMAIN s.tools.entry)

DIFFICULTIES == {"easy", "mid", "hard"}
MAX_CHECKS == 20
PLAN_ATTEMPTS == 3
JUDGE_ATTEMPTS == 2
Roles == {"target", "assessor"}

VARIABLES
  setup,     \* never changes
  invocation,\* 1, 2, ...
  pc,        \* where the thread is
  results,   \* of each pass so far: the status of each worker vetted
  exits,     \* of each finished pass: its exit code
  result,    \* the WorkerResult at hand, kept until the next worker's
  attempt,   \* of the plan, or of the judgement at hand
  last_raw,  \* the last plan that was rejected
  late,      \* the judge's chats that outlived their timeout
  mind,      \* what each user of Mind remembers: whose chats
  code       \* the process's exit code

local == <<attempt, last_raw>>
vars == <<setup, invocation, pc, results, exits, result, local, late, mind, code>>

Goto(place) == pc' = place

----------------------------------------------------------------------------
(* Who is vetted, as whom.                                                   *)

Lib == Libs[setup.files]

(* load_worker_names: none when workers.json cannot be read.                 *)
Known == IF Lib.workers = None THEN {} ELSE DOMAIN Lib.workers

(* Whoever is asked for counts as known when no names are.                   *)
Unknown == IF Known = {} THEN {} ELSE ToSet(setup.asked) \ Known

Names ==
  IF setup.asked # <<>> THEN setup.asked ELSE SetToSeq(Known \ {Assessor})

Passes == Max({1, setup.repeats})
Pass == Len(results)
Vetted == results[Pass]
Worker == Names[Len(Vetted) + 1]

(* resolve_bank: a bank is one worker's; a list of cases is anybody's.       *)
BankRefused == setup.bank \notin {None, "list"} /\ \E w \in ToSet(Names) : w # setup.bank

(* A chat, by its invocation, pass, worker and role.                         *)
Me(role) == <<invocation, Pass, Worker, role>>

Given(role) == setup.given = "all" \/ (setup.given = "assessor" /\ role = "assessor")

(* run_path.name: a plain run's directory is stamped; repeat_vetting's are   *)
(* repeat-01, repeat-02, ... under a directory whose name is not used.       *)
RunId(chat) == IF setup.repeats = 0 THEN <<"stamped", chat[1]>> ELSE <<"repeat", chat[2]>>

(* What is no letter or digit in the name becomes "_" (as), and behind a     *)
(* long name the role is cut off with all that exceeds 80 characters (whole  *)
(* is FALSE).                                                                *)
_vetting_user(chat) ==
  LET spelt == Spelling[chat[3]]
  IN <<RunId(chat), spelt.as, IF spelt.whole THEN chat[4] ELSE None>>

UserOf(chat) == IF Given(chat[4]) THEN None ELSE _vetting_user(chat)

Chats == {<<n, p, w, r>> : n \in 1..setup.invocations, p \in 1..Passes, w \in ToSet(Names),
                           r \in {r \in Roles : ~Given(r)}}

(* What the user of a given brain remembers is left to the caller.           *)
Remember(chat) ==
  mind' = [u \in DOMAIN mind |-> IF u = UserOf(chat) THEN mind[u] \cup {chat} ELSE mind[u]]

Started == [profile |-> [crafts |-> {}, modes |-> {}], error |-> {}, cases |-> <<>>, answers |-> <<>>, judgements |-> <<>>,
            crafts |-> <<>>, tools |-> <<>>, improvements |-> {}, status |-> "", score |-> 0]

(* What the planner is told of the worker.                                   *)
build_profile ==
  [crafts |-> crafts_for_worker(Lib, Worker),
   modes |-> _autonomy_from_crafts(Lib, IF Worker \in Known THEN Lib.workers[Worker].crafts
                                        ELSE None).modes]

----------------------------------------------------------------------------
(* The probes (probes.py): a status per craft or tool.                       *)

probe_crafts ==
  LET offered == crafts_for_worker(Lib, Worker)
      status(c) ==
        LET needed == load_craft(Lib, c).required_inputs
        IN IF load_craft(Lib, c) = None \/ expand_craft(Lib, c, needed) \in {None, <<>>}
           THEN "fail" ELSE "pass"
  IN IF offered = {} THEN [crafts |-> "skip"] ELSE [c \in offered |-> status(c)]

_verdict(tool) ==
  IF tool \notin PROBED THEN "fail"
  ELSE CASE setup.tools.answers[tool] = "raises" -> "error"
         [] setup.tools.answers[tool] = "wrong"  -> "fail"
         [] OTHER                                -> "pass"

probe_tools ==
  LET entry == setup.tools.entry
  IN CASE setup.tools.rule = "raises" -> [tools |-> "error"]
       [] setup.tools.rule = "none"   -> [tools |-> "deny"]
       [] DOMAIN entry = {}           -> [tools |-> "skip"]
       [] ~setup.tools.harness        -> [tools |-> "error"]
       [] OTHER -> [t \in DOMAIN entry |->
                      CASE entry[t] = "allow" -> _verdict(t)
                        [] entry[t] = "deny"  -> "deny"
                        [] OTHER              -> "skip"]

With(probes, statuses) == {n \in DOMAIN probes : probes[n] \in statuses}
Failed(probes) == With(probes, {"fail", "error"})
Counted(probes) == With(probes, {"pass", "fail", "error"})

----------------------------------------------------------------------------
(* What the assessor's replies must be (prompting.py).                       *)

(* To the profile, where it has any crafts, any modes.                       *)
Grounded(case) ==
  LET has == result.profile
  IN /\ case.craft # None /\ has.crafts # {} => case.craft \in has.crafts
     /\ case.modes # 0 /\ has.modes # {} => case.modes = Cardinality(has.modes)

(* A case is well-formed; a check may be "good", "brittle" or "bad".         *)
_check_case(case) ==
  /\ case.lacks = {} /\ case.difficulty \in DIFFICULTIES /\ case.weight > 0
  /\ Len(case.checks) <= MAX_CHECKS
  /\ "bad" \notin ToSet(case.checks)

Spread(cases) ==
  LET of(d) == Cardinality({i \in DOMAIN cases : cases[i].difficulty = d})
  IN \A d \in DIFFICULTIES :
       CASE Len(cases) = 6  -> of(d) = 2
         [] Len(cases) >= 3 -> of(d) > 0
         [] OTHER           -> TRUE

validate_plan(cases, n_cases, enforce_distribution) ==
  /\ cases # <<>> /\ Len(cases) = n_cases
  /\ \A i \in DOMAIN cases : _check_case(cases[i])
  /\ enforce_distribution => Spread(cases)
  /\ \A i, j \in DOMAIN cases : cases[i].id = cases[j].id => i = j
  /\ \A i \in DOMAIN cases : Grounded(cases[i])

validate_judgement(reply, case) == reply.readable /\ reply.id = case.id

----------------------------------------------------------------------------
(* The score, and how a worker's run ends (_finalize).                       *)

(* by_id: the last of an id counts.                                          *)
JudgementOf(r, id) ==
  LET of == {i \in DOMAIN r.judgements : r.judgements[i].id = id}
  IN IF of = {} THEN [id |-> id, score |-> 0, error |-> FALSE] ELSE r.judgements[Max(of)]

Skipped(r) == {a.id : a \in {b \in ToSet(r.answers) : b.kind = "inconclusive"}}

(* Defect: a case nobody could answer or judge counts.                       *)
EligibleAll(r) == DOMAIN r.cases

Eligible(r) ==
  {i \in DOMAIN r.cases : /\ r.cases[i].id \notin Skipped(r)
                          /\ ~JudgementOf(r, r.cases[i].id).error}

(* A mean of scores by weight: two functions over the same finite set.       *)
Mean(weights, scores) ==
  LET weight(i) == weights[i]
      got(i) == weights[i] * scores[i]
  IN MapThenSumSet(got, DOMAIN weights) \div MapThenSumSet(weight, DOMAIN weights)

_case_score(r) ==
  IF Eligible(r) = {} THEN None
  ELSE Mean([i \in Eligible(r) |-> r.cases[i].weight],
            [i \in Eligible(r) |-> JudgementOf(r, r.cases[i].id).score])

_pass_ratio(probes) ==
  IF Counted(probes) = {} THEN 100
  ELSE (100 * Cardinality(With(probes, {"pass"}))) \div Cardinality(Counted(probes))

(* The cases weigh 85, the crafts and the tools 7.5 each where any counts.   *)
_score_with_tool(case_score, r) ==
  LET weight(probes) == IF Counted(probes) = {} THEN 0 ELSE 75
  IN (850 * case_score + weight(r.crafts) * _pass_ratio(r.crafts)
        + weight(r.tools) * _pass_ratio(r.tools))
     \div (850 + weight(r.crafts) + weight(r.tools))

(* The sources of what is to be improved; failing: the cases whose checks    *)
(* fail. (Left out: only the first twelve improvements are kept.)            *)
_build_improvements(r, failing) ==
  {IF j.error THEN "judge" ELSE "case" :
     j \in {x \in ToSet(r.judgements) : x.error \/ x.score < THRESHOLD}}
  \cup (IF failing = {} THEN {} ELSE {"check"})
  \cup (IF Failed(r.crafts) = {} THEN {} ELSE {"craft"})
  \cup (IF Failed(r.tools) = {} THEN {} ELSE {"tool"})
  \cup (IF r.status = "inconclusive" THEN {"status"} ELSE {})

Graded(r) ==
  LET case_score == _case_score(r)
      final == _score_with_tool(case_score, r)
  IN IF r.status = "inconclusive" \/ case_score = None
     THEN [r EXCEPT !.score = 0, !.status = "inconclusive",
                    !.error = IF @ = {} THEN {"no scorable cases"} ELSE @]
     ELSE [r EXCEPT !.score = final,
                    !.status = IF /\ final >= THRESHOLD /\ r.error = {}
                                  /\ Failed(r.crafts) \cup Failed(r.tools) = {}
                               THEN "pass" ELSE "fail"]

Reported(r, written) ==
  IF written THEN r
  ELSE [r EXCEPT !.error = @ \cup {"report"}, !.status = "inconclusive"]

(* The run of this worker is over.                                           *)
Keep(r) ==
  /\ result' = r
  /\ results' = [results EXCEPT ![Pass] = Append(@, [name |-> Worker, status |-> r.status])]
  /\ Goto("worker")
  /\ UNCHANGED <<setup, invocation, exits, code>>

(* The cases that may fail a check: a brittle one was dropped.               *)
_run_checks(r) == SUBSET {i \in DOMAIN r.answers : "good" \in ToSet(r.cases[i].checks)}

_finalize(r) ==
  \E failing \in _run_checks(r), written \in BOOLEAN, graded \in {Graded(r)} :
    Keep(Reported([graded EXCEPT !.improvements = _build_improvements(r, failing)], written))

Inconclusive(reason) == _finalize([result EXCEPT !.error = {reason}, !.status = "inconclusive"])

----------------------------------------------------------------------------
(* A pass (run_vetting), and the verdict over the passes (repeat_vetting).   *)

StartPass ==
  /\ pc = "pass" /\ Len(results) < Passes
  /\ results' = Append(results, <<>>)
  /\ IF Unknown # {} \/ Names = <<>> \/ BankRefused
     THEN exits' = Append(exits, 2) /\ UNCHANGED pc
     ELSE Goto("worker") /\ UNCHANGED exits
  /\ result' = Started
  /\ UNCHANGED <<setup, invocation, local, late, mind, code>>

(* One worker never kills the run: no brain, no folder, no transcript.       *)
Breaks ==
  /\ \/ pc = "worker" /\ Len(Vetted) < Len(Names)
     \/ pc \in {"answer", "judge"}
  /\ Keep([Started EXCEPT !.error = {"unexpected"}, !.status = "inconclusive"])
  /\ UNCHANGED <<local, late, mind>>

_exit(statuses) ==
  CASE \E i \in DOMAIN statuses : statuses[i].status = "fail"         -> 1
    [] \A i \in DOMAIN statuses : statuses[i].status = "pass"         -> 0
    [] OTHER                                                         -> 3

EndPass ==
  /\ pc = "worker" /\ Len(Vetted) = Len(Names)
  /\ exits' = Append(exits, _exit(Vetted))
  /\ Goto("pass")
  /\ UNCHANGED <<setup, invocation, results, result, local, late, mind, code>>

Runs(w, statuses) ==
  {r \in (1..Len(results)) \X (1..Len(Names)) :
     LET pass == results[r[1]]
     IN r[2] \in DOMAIN pass /\ pass[r[2]].name = w /\ pass[r[2]].status \in statuses}

(* Defect: half of the passes is enough.                                     *)
PassVerdictHalf(w) ==
  Cardinality(Runs(w, {"pass"})) * 2 >= Cardinality(Runs(w, {"pass", "fail", "inconclusive"}))

PassVerdict(w) ==
  Cardinality(Runs(w, {"pass"})) * 2 > Cardinality(Runs(w, {"pass", "fail", "inconclusive"}))

_aggregate ==
  LET seen == {v.name : v \in UNION {ToSet(results[p]) : p \in DOMAIN results}}
  IN IF seen # {} /\ \A w \in seen : PassVerdict(w) THEN 0 ELSE 1

Finish ==
  /\ pc = "pass" /\ Len(exits) = Passes
  /\ code' = IF setup.repeats = 0 THEN exits[1] ELSE _aggregate
  /\ Goto("done")
  /\ UNCHANGED <<setup, invocation, results, exits, result, local, late, mind>>

(* The same again, in another directory; Mind keeps what it was told.        *)
Again ==
  /\ pc = "done" /\ invocation < setup.invocations
  /\ invocation' = invocation + 1
  /\ results' = <<>> /\ exits' = <<>> /\ code' = None
  /\ Goto("pass")
  /\ UNCHANGED <<setup, result, local, late, mind>>

----------------------------------------------------------------------------
(* A worker's run (_run_one).                                                *)

Prepare ==
  /\ pc = "worker" /\ Len(Vetted) < Len(Names)
  /\ LET probed == [Started EXCEPT !.crafts = probe_crafts, !.tools = probe_tools]
     IN result' \in {[probed EXCEPT !.profile = build_profile], [probed EXCEPT !.error = {"profile"}]}
  /\ attempt' = 1 /\ last_raw' = None
  /\ Goto("plan")
  /\ UNCHANGED <<setup, invocation, results, exits, late, mind, code>>

(* Making the assessor, or checking the bank, fails.                         *)
PlanFails ==
  /\ pc = "plan" /\ attempt = 1
  /\ Inconclusive("plan")
  /\ UNCHANGED <<local, late, mind>>

Planned(cases) ==
  /\ result' = [result EXCEPT !.cases = cases]
  /\ Goto("target")
  /\ UNCHANGED results

TakeBank ==
  /\ pc = "plan" /\ setup.bank # None
  /\ validate_plan(setup.cases, Len(setup.cases), FALSE)
  /\ Planned(setup.cases)
  /\ UNCHANGED <<setup, invocation, exits, local, late, mind, code>>

(* After the attempts, at a plan rejected twice, at a second silence.        *)
GivesUp(reply) ==
  \/ attempt >= PLAN_ATTEMPTS
  \/ reply.text /\ reply = last_raw
  \/ ~reply.text /\ attempt >= 2

(* A failed chat counts as remembered.                                       *)
PlanReplies ==
  /\ pc = "plan" /\ setup.bank = None
  /\ \E reply \in Plans :
       \/ /\ validate_plan(reply.cases, setup.n_cases, TRUE)
          /\ Planned(reply.cases)
          /\ UNCHANGED <<setup, invocation, exits, local, code>>
       \/ /\ ~validate_plan(reply.cases, setup.n_cases, TRUE) /\ GivesUp(reply)
          /\ Inconclusive("plan")
          /\ UNCHANGED local
       \/ /\ ~validate_plan(reply.cases, setup.n_cases, TRUE) /\ ~GivesUp(reply)
          /\ attempt' = attempt + 1 /\ last_raw' = reply
          /\ UNCHANGED <<setup, invocation, pc, results, exits, result, code>>
  /\ Remember(Me("assessor"))
  /\ UNCHANGED late

Target ==
  /\ pc = "target"
  /\ \/ Goto("answer") /\ UNCHANGED <<setup, invocation, results, exits, result, code>>
     \/ Inconclusive("target")
  /\ UNCHANGED <<local, late, mind>>

Case == result.cases[Len(result.answers)]

Judged(r, id, score, error) ==
  /\ result' = [r EXCEPT !.judgements = Append(@, [id |-> id, score |-> score, error |-> error])]
  /\ Goto(IF Len(result'.judgements) = Len(r.cases) THEN "report" ELSE "answer")
  /\ UNCHANGED attempt

(* _chat_target: the worker's own decision stage may answer nothing.         *)
AnswerCase ==
  /\ pc = "answer"
  /\ \E kind \in {"text", "error"} \cup (IF setup.decision THEN {"inconclusive"} ELSE {}) :
       LET id == result.cases[Len(result.answers) + 1].id
           answered == [result EXCEPT !.answers = Append(@, [id |-> id, kind |-> kind])]
       IN IF kind = "inconclusive" THEN Judged(answered, id, 0, TRUE)
          ELSE result' = answered /\ attempt' = 1 /\ Goto("judge")
  /\ Remember(Me("target"))
  /\ UNCHANGED <<setup, invocation, results, exits, last_raw, late, code>>

(* Defect: the attempts are not counted.                                     *)
MissedAgain ==
  IF attempt < JUDGE_ATTEMPTS
  THEN UNCHANGED <<pc, result, attempt>>
  ELSE Judged(result, Case.id, 0, TRUE)

(* This attempt at a judgement has failed.                                   *)
Missed ==
  IF attempt < JUDGE_ATTEMPTS
  THEN attempt' = attempt + 1 /\ UNCHANGED <<pc, result>>
  ELSE Judged(result, Case.id, 0, TRUE)

Verdicts ==
  [readable: {TRUE}, id: {result.cases[i].id : i \in DOMAIN result.cases}, score: Scores]
    \cup {[readable |-> FALSE, id |-> None, score |-> 0]}

JudgeReplies ==
  /\ pc = "judge"
  /\ \E reply \in Verdicts :
       IF validate_judgement(reply, Case) THEN Judged(result, reply.id, reply.score, FALSE)
       ELSE Missed
  /\ Remember(Me("assessor"))
  /\ UNCHANGED <<setup, invocation, results, exits, last_raw, late, code>>

(* _call_with_timeout: the chat goes on, and nobody waits for it.            *)
JudgeTimesOut ==
  /\ pc = "judge" /\ Cardinality(late) < MaxLate
  /\ late' = late \cup {[chat |-> Me("assessor"), case |-> Len(result.answers), attempt |-> attempt]}
  /\ Missed
  /\ UNCHANGED <<setup, invocation, results, exits, last_raw, mind, code>>

Report ==
  /\ pc = "report"
  /\ _finalize(result)
  /\ UNCHANGED <<local, late, mind>>

LateEnds ==
  /\ \E l \in late : late' = late \ {l} /\ Remember(l.chat)
  /\ UNCHANGED <<setup, invocation, pc, results, exits, result, local, code>>

Rest == pc = "done" /\ late = {} /\ UNCHANGED vars

----------------------------------------------------------------------------

Init ==
  /\ setup \in Setups /\ invocation = 1
  /\ pc = "pass" /\ results = <<>> /\ exits = <<>>
  /\ result = Started
  /\ attempt = 1 /\ last_raw = None
  /\ late = {} /\ mind = [u \in {_vetting_user(c) : c \in Chats} |-> {}]
  /\ code = None

Run ==
  \/ StartPass \/ Breaks \/ EndPass \/ Finish
  \/ Prepare \/ PlanFails \/ TakeBank \/ PlanReplies \/ Target
  \/ AnswerCase \/ JudgeReplies \/ JudgeTimesOut \/ Report

Next == Run \/ Again \/ LateEnds \/ Rest

(* Every chat ends: a brain's requests have a timeout.                       *)
Fairness == WF_vars(Run)

Spec == Init /\ [][Next]_vars /\ Fairness

----------------------------------------------------------------------------
(* Properties.                                                               *)

(* The cases of the last run that were answered and judged, by their place.  *)
Scored ==
  {i \in DOMAIN result.judgements : /\ result.answers[i].kind # "inconclusive"
                                    /\ ~result.judgements[i].error}

Earned == Mean([i \in Scored |-> result.cases[i].weight],
               [i \in Scored |-> result.judgements[i].score])

(* A verdict is earned: a worker that passed or failed answered every case,  *)
(* each answer was judged under its own case, some case was answered and     *)
(* judged, the score is of exactly those, no case asked for a craft it does  *)
(* not have, and it failed only for its score, a probe or its profile, not   *)
(* for a judge or a decision stage that did not answer; and a worker that    *)
(* failed is told what to improve, unless its profile was all that failed    *)
(* (runner.py _run_one, _case_score, _build_improvements and _finalize).     *)
VerdictsAreEarned ==
  result.status \in {"pass", "fail"} =>
    /\ DOMAIN result.answers = DOMAIN result.cases
    /\ DOMAIN result.judgements = DOMAIN result.cases
    /\ \A i \in DOMAIN result.cases :
         result.answers[i].id = result.cases[i].id /\ result.judgements[i].id = result.cases[i].id
    /\ Scored # {}
    /\ result.score = _score_with_tool(Earned, result)
    /\ \A i \in DOMAIN result.cases :
         result.profile.crafts # {} => result.cases[i].craft \in result.profile.crafts \cup {None}
    /\ result.status = "fail" => result.improvements # {} \/ "profile" \in result.error
    /\ result.status = "pass" <=>
         /\ result.score >= THRESHOLD /\ "profile" \notin result.error
         /\ Failed(result.crafts) \cup Failed(result.tools) = {}

(* The exit code tells the outcome: 0 only when every worker asked for       *)
(* passed, in more than half of the passes when they are repeated; 1 from a  *)
(* plain run only when a worker failed; 3 when none failed and one could not *)
(* be graded; 2 when nothing was vetted (runner.py run_vetting, _aggregate). *)
ExitTells ==
  pc = "done" =>
    LET passed(w) == {p \in DOMAIN results : [name |-> w, status |-> "pass"] \in ToSet(results[p])}
        some(status) == \E p \in DOMAIN results : \E v \in ToSet(results[p]) : v.status = status
    IN /\ code = 0 => /\ ToSet(Names) # {} /\ (ToSet(Names) \subseteq Known \/ Known = {})
                      /\ \A w \in ToSet(Names) : 2 * Cardinality(passed(w)) > Passes
       /\ setup.repeats = 0 =>
            /\ code = 1 <=> some("fail")
            /\ code = 3 <=> ~some("fail") /\ some("inconclusive")
            /\ code = 2 <=> results = << <<>> >>
       /\ setup.repeats # 0 => code \in {0, 1}

(* No run bleeds into another: unless the caller gave the brain, a chat is   *)
(* grounded in nothing but its own role's with the same worker in the same   *)
(* run. The comment of _vetting_user promises "A fresh Mind user per         *)
(* target/role so prior runs cannot bleed in" (runner.py:826).               *)
NoRunBleeds ==
  LET role == IF pc = "answer" THEN "target" ELSE "assessor"
  IN pc \in {"plan", "answer", "judge"} /\ ~Given(role) =>
       mind[UserOf(Me(role))] \subseteq {Me(role)}

(* Every invocation ends, however often the assessor fails to answer.        *)
EveryVettingEnds == []<>(pc = "done")

=============================================================================
