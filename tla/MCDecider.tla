----------------------------- MODULE MCDecider -----------------------------
(* Triages through Mind, under the default policy and a stricter one, and    *)
(* without a brain; routes by a block of their own, by another block, and by *)
(* the block of workers.json.                                                *)
EXTENDS Decider

MCPolicy ==
  "enabled" :> TRUE @@ "min_confidence" :> 6 @@ "max_risk" :> 20 @@ "max_priority_auto" :> 25
  @@ "clarify_on_needs_clarification" :> TRUE @@ "escalate_on_high_risk" :> TRUE

Ask == [head |-> "g", llm |-> TRUE, brain |-> TRUE, workers |-> <<"w">>, cfg |-> "e",
        policy |-> <<>>, evaluator |-> "injected", apply_policy |-> FALSE]
Strict == [Ask EXCEPT !.policy = "max_risk" :> 5 @@ "min_confidence" :> -1
                                 @@ "clarify_on_needs_clarification" :> FALSE]
Brainless == [Ask EXCEPT !.brain = FALSE, !.evaluator = "none"]
Raising == [Brainless EXCEPT !.evaluator = "raises"]
Route == [Ask EXCEPT !.llm = FALSE, !.head = "h"]
Elsewhere == [Route EXCEPT !.cfg = "f", !.apply_policy = TRUE]
Unset == [Route EXCEPT !.workers = <<>>, !.cfg = None]
MCAsks == {Ask, Raising, Strict, Brainless, Route, Elsewhere, Unset}
MCMixes == {{Ask, Strict}, {Strict, Brainless}, {Route, Elsewhere, Unset},
            {Brainless, Raising}}
MCFallback == <<"vizhi">>
MCFiles == {[names |-> <<"w", "x">>, endpoint |-> "e"], [names |-> <<>>, endpoint |-> ""]}
MCTools == {"file"}
MCRaw == {"worker" :> "x" @@ "tool" :> "hammer", "tool" :> "file" @@ "reason" :> "r",
          "risk" :> 9 @@ "confidence" :> 12,
          "confidence" :> -2 @@ "needs_clarification" :> TRUE @@ "priority" :> 40}
MCScores == {"worker" :> "x" @@ "risk" :> 20, "needs_clarification" :> FALSE}

=============================================================================
