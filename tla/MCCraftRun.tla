----------------------------- MODULE MCCraftRun -----------------------------
(* TLC instances of CraftRun: boss plans, ann and bob are workers, eve is a  *)
(* name that nobody has; core and duo are teams.                             *)
EXTENDS CraftRun

CONSTANTS boss, ann, bob, eve, core, duo, x, y

W(name, teams) ==
  [name |-> name, lacks |-> {}, keys |-> {"path"}, identity |-> {"role"}, team |-> None,
   teams |-> teams, questions |-> <<"choice">>, crafts |-> <<"plan", "assign">>]
(* A legacy entry: one team, no identity.                                    *)
Legacy(name, of, enabled) ==
  [W(name, None) EXCEPT !.team = [name |-> of, enabled |-> enabled], !.identity = None]
T(name, members) ==
  [name |-> name, lacks |-> {}, members |-> members, leader |-> None, max_workers |-> None,
   shared_memory |-> TRUE, parallel |-> TRUE, planner_must_be_member |-> FALSE]
Files(workers, teams) == [workers |-> workers, teams |-> teams, missing |-> FALSE]
NoTeams(workers) == [workers |-> workers, teams |-> None, missing |-> TRUE]

Loose == NoTeams(<<W(boss, <<>>), W(ann, None), W(bob, <<>>)>>)
All == Files(<<W(boss, <<core>>), Legacy(ann, core, TRUE), W(bob, <<core>>)>>,
             <<T(core, <<boss, ann, bob>>)>>)
Two == Files(<<W(boss, <<core, duo>>), W(ann, <<>>), W(bob, <<core>>)>>,
             <<T(core, <<boss, bob>>), [T(duo, <<boss>>) EXCEPT !.leader = ""]>>)
OnlyAnn == Files(<<W(boss, <<>>), W(ann, <<core>>), W(bob, <<>>)>>,
                 <<[T(core, <<ann>>) EXCEPT !.max_workers = 1]>>)

(* The planner as it was loaded.                                             *)
Boss(teams) == [name |-> boss, teams |-> teams]

Plan(texts, tags) ==
  [roster |-> Loose, cached |-> FALSE, planner |-> Boss({}), team |-> None,
   texts |-> texts, tags |-> tags,
   autonomy |-> [modes |-> {"plan", "assign"}, max_steps |-> 3, approval |-> "small", auto_steps |-> 2],
   assignment |-> "off", once |-> FALSE, llm |-> FALSE, cap |-> 2,
   approver |-> TRUE, dispatch |-> TRUE, max_workers |-> None, parallel |-> None]

Tags == Plan(<<x, y, x>>, <<boss, eve, ann>>)
Small(roster) == [Plan(<<x>>, <<bob>>) EXCEPT !.roster = roster]

(* Rosters that no loader takes, for the team core, and one it takes.        *)
MCRosters ==
  {NoTeams(None), Files(Loose.workers, None), NoTeams(All.workers),
   Files(Append(All.workers, W(ann, <<>>)), All.teams),
   Files(All.workers, <<T(core, <<boss, bob>>)>>),
   Files(Loose.workers, All.teams), Files(All.workers, <<T(core, <<>>)>>),
   Files(All.workers, <<[T(core, <<boss, ann, bob>>) EXCEPT !.leader = eve]>>),
   Files(<<W(boss, <<core>>), Legacy(ann, core, FALSE), W(bob, <<core>>)>>, All.teams),
   Files(<<W(boss, <<core>>), Legacy(ann, "", TRUE), W(bob, <<core>>)>>, All.teams),
   Files(<<[W(boss, <<core>>) EXCEPT !.keys = {"llm"}], All.workers[2], All.workers[3]>>, All.teams),
   Files(All.workers, Append(All.teams, T(bob, <<boss>>))),
   All}

MCSetups ==
  {\* two steps that say the same share one of two parallel decisions
   [Plan(<<x, y, x, y>>, <<None, None, None, ann>>) EXCEPT
      !.assignment = "tags_win", !.roster = All, !.team = core, !.planner = None],
   \* the LLM decides over the planner's tags, nobody to approve
   [Plan(<<x, y>>, <<ann, None>>) EXCEPT
      !.assignment = "decision_only", !.llm = TRUE, !.approver = FALSE],
   \* one decision for the plan, peers one after the other
   [Plan(<<x, y>>, <<bob, None>>) EXCEPT
      !.assignment = "tags_win", !.once = TRUE, !.parallel = FALSE],
   \* tags only: the planner, a stranger and one off the team
   [Tags EXCEPT !.roster = Two, !.team = core, !.autonomy.auto_steps = 3],
   [Plan(<<x, y, y>>, <<ann, bob, boss>>) EXCEPT
      !.roster = OnlyAnn, !.team = core, !.autonomy.auto_steps = 3],
   \* two teams and none asked for; a planner that must be a member
   [Tags EXCEPT !.roster = Two, !.planner = Boss({core, duo})],
   [Tags EXCEPT !.roster = Files(OnlyAnn.workers,
                                 <<[T(core, <<ann>>) EXCEPT !.planner_must_be_member = TRUE]>>),
                !.team = core],
   \* the roster broke since the planner was loaded
   [Tags EXCEPT !.roster = NoTeams(None)],
   [Tags EXCEPT !.roster = Files(Loose.workers, All.teams), !.cached = TRUE],
   \* nobody to choose from; a planner that may not assign; planning only
   [Plan(<<x>>, <<ann>>) EXCEPT
      !.assignment = "decision_only", !.roster = Two, !.team = duo],
   [Plan(<<x>>, <<ann>>) EXCEPT
      !.assignment = "tags_win", !.autonomy.modes = {"assist"}],
   [Plan(<<x>>, <<ann>>) EXCEPT !.dispatch = FALSE, !.autonomy.approval = "all"],
   [Plan(<<x>>, <<ann>>) EXCEPT !.autonomy.approval = "none", !.max_workers = 0]}
  \cup {[Small(r) EXCEPT !.planner = Boss({core})] : r \in MCRosters}
============================================================================
