----------------------------- MODULE MCVetting ------------------------------
(* A worker with two crafts of which one loads, one with a role only; two    *)
(* cases; assessors that err in every way the validation tells apart.        *)
EXTENDS Vetting

MCDefaults == [scope |-> "per_step", timeout |-> 1, max_parallel |-> 4]
MCChoices == [scope |-> {"once", "per_step"}]

Step == [names_worker |-> FALSE, names_craft |-> FALSE]
Pin(mode) ==
  [mode |-> mode, folder |-> mode, tools |-> {"file"}, approval |-> "small", version |-> 1,
   modes |-> {mode}, roles |-> {}, workers |-> {}, decision |-> None,
   max_steps |-> 3, auto_steps |-> 2]
Md(name) ==
  [framed |-> TRUE, described |-> TRUE, name |-> name, version |-> 1,
   steps |-> <<Step>>, required |-> {"goal"}]
MCFiles ==
  [readable |-> TRUE,
   pins |-> <<Pin("plan"), [Pin("build") EXCEPT !.decision = "scope" :> "always"],
              [Pin("audit") EXCEPT !.roles = {"auditor"}],
              [Pin("test") EXCEPT !.modes = {}, !.workers = {"b"},
                                  !.decision = "max_parallel" :> 99]>>,
   tools |-> {"file"},
   md |-> [m \in {"plan", "build", "audit", "test"} |-> Md(m)],
   workers |-> [w \in {"a", "b", "judge"} |->
                  [role |-> IF w = "judge" THEN "auditor" ELSE "pm",
                   crafts |-> CASE w = "a" -> {"plan", "build"} [] w = "b" -> None
                                [] OTHER -> {}]]]
MCLibs ==
  [usual      |-> MCFiles,
   unlisted   |-> [MCFiles EXCEPT !.workers = <<>>],
   unreadable |-> [MCFiles EXCEPT !.workers = None]]

(* No name has to be rewritten or cut.                                       *)
MCSpelling == [w \in {"a", "b", "judge", "x"} |-> [as |-> w, whole |-> TRUE]]

C(id, craft, modes) ==
  [id |-> id, craft |-> craft, modes |-> modes, lacks |-> {}, difficulty |-> "easy",
   weight |-> 1, checks |-> <<>>]
Good == <<[C("q1", "plan", 0) EXCEPT !.checks = <<"brittle", "good">>],
          [C("q2", None, 2) EXCEPT !.weight = 2]>>
One == <<C("q1", "plan", 0)>>
Three == <<C("q1", "plan", 0), [C("q2", None, 0) EXCEPT !.difficulty = "mid"],
           [C("q3", None, 0) EXCEPT !.difficulty = "hard"]>>
MCPlans ==
  [text: {TRUE}, cases: {Good, One, <<C("q1", "plan", 0), C("q1", None, 0)>>, Three,
                         [Three EXCEPT ![3].difficulty = "mid"],
                         [Good EXCEPT ![2].lacks = {"rubric"}]}]
    \cup {[text |-> t, cases |-> <<>>] : t \in BOOLEAN}

Probed(answers, entry) ==
  [rule |-> "entry", entry |-> entry, harness |-> TRUE, answers |-> answers]
Tools == Probed("file" :> "right", "file" :> "allow" @@ "terminal" :> "ask" @@ "fetch" :> "deny")

Base ==
  [files |-> "usual", invocations |-> 1, asked |-> <<"a">>, repeats |-> 0, given |-> "none",
   bank |-> None, cases |-> <<>>, n_cases |-> 2, decision |-> FALSE, tools |-> Tools]
Banked == [Base EXCEPT !.bank = "a", !.cases = One]
Probing(tools) == [Banked EXCEPT !.tools = tools]

MCSetups ==
  {[Base EXCEPT !.decision = TRUE],
   [Base EXCEPT !.asked = <<>>, !.n_cases = 1, !.given = "assessor"],
   [Base EXCEPT !.n_cases = 3, !.given = "all"],
   [Banked EXCEPT !.repeats = 2],
   [Banked EXCEPT !.asked = <<"a", "b">>, !.bank = "list", !.repeats = 2, !.given = "all"],
   [Banked EXCEPT !.asked = <<"a", "b">>], [Base EXCEPT !.asked = <<"x">>],
   [Banked EXCEPT !.files = "unlisted", !.asked = <<"x">>, !.bank = "list", !.invocations = 2],
   [Banked EXCEPT !.files = "unreadable"], [Base EXCEPT !.files = "unreadable", !.asked = <<>>],
   [Banked EXCEPT !.cases = <<C("q1", "audit", 0)>>],
   [Banked EXCEPT !.given = "all"],
   Probing([Tools EXCEPT !.rule = "raises"]), Probing([Tools EXCEPT !.rule = "none"]),
   Probing([Tools EXCEPT !.harness = FALSE]), Probing([Tools EXCEPT !.entry = <<>>]),
   Probing([Tools EXCEPT !.answers = "file" :> "wrong"]),
   Probing([Tools EXCEPT !.answers = "file" :> "raises"]),
   Probing([Tools EXCEPT !.entry = "fetch" :> "allow"])}

(* One worker, vetted by two repeated invocations of one pass.               *)
MCTwice == {[Banked EXCEPT !.repeats = 1, !.invocations = 2]}

=============================================================================
