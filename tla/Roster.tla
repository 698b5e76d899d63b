------------------------------- MODULE Roster -------------------------------
(***************************************************************************)
(* The rules of the roster: workers.json, teams.json and what makes the    *)
(* two agree (worker/engine/registry.py). Every operator reads the files   *)
(* afresh, as the code does: "files" is what they hold.                    *)
(*                                                                         *)
(*   files.workers   the entries of workers.json, in order; None: no list  *)
(*   files.teams     the entries of teams.json; None: no list              *)
(*   files.missing   there is no teams.json                                *)
(*                                                                         *)
(* A name is a value without surrounding blanks, "" for an empty one. Of a *)
(* field whose value has the wrong type, and of the decision policy's      *)
(* numbers, "lacks" names the field. A loader that raises gives None.      *)
(***************************************************************************)
EXTENDS Integers, SequencesExt, FiniteSetsExt

CONSTANT None

IDENTITY_FIELDS ==
  {"role", "personality", "tone", "formality", "humor", "gender", "values", "do_not", "language"}
FORBIDDEN == {"provider", "model", "api_key", "base_url", "llm", "greeting"}
DECISION_TYPES == {"choice", "score", "boolean", "noul"}

NamesOf(entries) == [i \in DOMAIN entries |-> entries[i].name]

----------------------------------------------------------------------------
(* workers.json. An entry has a name, the keys it carries and those of its   *)
(* identity, team (None, or whether it is enabled and its name), teams, the  *)
(* types of its decision questions, and crafts.                              *)

TeamsBad(e) ==
  IF e.teams # None
  THEN e.team # None \/ "" \in ToSet(e.teams) \/ ~IsInjective(e.teams)
  ELSE e.team # None /\ e.team.enabled /\ e.team.name = ""

_normalize_worker_teams(e) ==
  IF e.teams # None THEN ToSet(e.teams)
  ELSE IF e.team # None /\ e.team.enabled THEN {e.team.name} ELSE {}

(* A legacy entry (path, class) without an identity has the default one.     *)
WorkerBad(e) ==
  \/ e.name = "" \/ e.lacks # {}
  \/ e.identity = None /\ e.keys \cap {"path", "class"} = {}
  \/ e.identity # None /\ ~(e.identity \subseteq IDENTITY_FIELDS)
  \/ e.keys \cap FORBIDDEN # {} \/ "autonomy" \in e.keys
  \/ TeamsBad(e)
  \/ ~(ToSet(e.questions) \subseteq DECISION_TYPES)
  \/ e.crafts # None /\ "" \in ToSet(e.crafts)

_read_workers(files) ==
  IF \/ files.workers = None
     \/ \E e \in ToSet(files.workers) : WorkerBad(e)
     \/ ~IsInjective(NamesOf(files.workers))
  THEN None
  ELSE {[name |-> e.name, teams |-> _normalize_worker_teams(e)] : e \in ToSet(files.workers)}

----------------------------------------------------------------------------
(* teams.json. The leader is None where the file names none.                 *)

Leader(t) == IF t.leader \in {None, ""} THEN Head(t.members) ELSE t.leader

TeamBad(t) ==
  \/ t.name = "" \/ t.lacks # {}
  \/ t.members = <<>> \/ "" \in ToSet(t.members) \/ ~IsInjective(t.members)
  \/ Leader(t) \notin ToSet(t.members)
  \/ t.max_workers # None /\ t.max_workers < 1

_read_teams(files) ==
  IF \/ files.teams = None
     \/ \E t \in ToSet(files.teams) : TeamBad(t)
     \/ ~IsInjective(NamesOf(files.teams))
  THEN None
  ELSE {[name |-> t.name, leader |-> Leader(t), members |-> ToSet(t.members),
         shared_memory |-> t.shared_memory, parallel |-> t.parallel,
         max_workers |-> t.max_workers,
         planner_must_be_member |-> t.planner_must_be_member] : t \in ToSet(files.teams)}

----------------------------------------------------------------------------
(* The two together: a team lists exactly those that declare it.             *)

_validate_membership(workers, teams) ==
  LET declared(n) == UNION {w.teams : w \in {v \in workers : v.name = n}}
      names == {w.name : w \in workers}
  IN /\ \A t \in teams : /\ t.name \notin names
                         /\ t.members \subseteq names
                         /\ \A n \in t.members : t.name \in declared(n)
     /\ \A w \in workers : \A name \in w.teams :
          \E t \in teams : t.name = name /\ w.name \in t.members

_reject_orphan_teams(workers) == \E w \in workers : w.teams # {}

list_workers(files) ==
  LET workers == _read_workers(files)
      teams == _read_teams(files)
  IN CASE workers = None -> None
       [] files.missing -> IF _reject_orphan_teams(workers) THEN None ELSE workers
       [] teams = None -> None
       [] OTHER -> IF _validate_membership(workers, teams) THEN workers ELSE None

list_teams(files) ==
  IF /\ _read_teams(files) # None /\ _read_workers(files) # None
     /\ _validate_membership(_read_workers(files), _read_teams(files))
  THEN _read_teams(files) ELSE None

(* None for an unknown team too.                                             *)
get_team(files, name) ==
  LET called == IF list_teams(files) = None THEN {} ELSE {t \in list_teams(files) : t.name = name}
  IN IF called = {} THEN None ELSE CHOOSE t \in called : TRUE

=============================================================================
