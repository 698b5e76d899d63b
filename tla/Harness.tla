------------------------------ MODULE Harness ------------------------------
(***************************************************************************)
(* The execution harness: who may run which tool call. ExecutionHarness of *)
(* harness/engine/engine.py with permission.py, capability.py, limits.py,  *)
(* sandbox.py, approval.py, execution.py and registry.py, and the executor *)
(* that agents reach it through (adapters/executor_harness.py).            *)
(*                                                                         *)
(* One thread drives a harness. What it keeps between calls: the worker it *)
(* is bound to and that worker's role as read at bind time, functions that *)
(* replace tools, the session and its counters, the session's plan file.   *)
(* Permissions and the tool registry are read once; workers.json is read   *)
(* again whenever a worker other than the bound one is named.              *)
(*                                                                         *)
(* A path is what the gates ask of it. What a tool does is a duration, and *)
(* whether it raises. A capability is the sequence of its dotted parts.    *)
(***************************************************************************)
EXTENDS Integers, SequencesExt, FiniteSetsExt

CONSTANTS
  Workers,       \* names of workers
  Roles,
  Specs,         \* the registry: a function from tool names to SpecType
  Extras,        \* tool names that only register() knows
  Caps, Globs,
  CAP_MAP,       \* the dotted capability of some plain ones
  DEFAULT_LIMITS,
  Requests,      \* the calls considered, see RequestType
  Setups,        \* the deployments considered, see SetupType
  HISTORY_KEEP,
  Durations,     \* seconds a tool may take
  None,
  MaxStarts,     \* bound: tools started in one session
  MaxSessions    \* bound: sessions of one harness

Tools == DOMAIN Specs \cup Extras
LimitNames == {"max_tool_calls", "max_execution_time", "max_file_size"}
Ops == {"read", "write", "deny"}
Verdicts == {"allow", "ask", "deny"}

(* The capabilities of each action (None: the spec has no such map), its     *)
(* plain ones and its permission_caps; whether it has required arguments,    *)
(* its dependencies import and its function loads.                           *)
IsSpec(s) ==
  /\ s.capabilities \in Seq(Seq(STRING)) /\ s.permission_caps \in Seq(Caps)
  /\ s.action_capabilities # None =>
       \A a \in DOMAIN s.action_capabilities : s.action_capabilities[a] \in Seq(Caps)
  /\ {s.required, s.deps, s.loads} \subseteq BOOLEAN

(* Where a path of a call leads: inside its root, into the session, onto a   *)
(* denied name or suffix, through a directory of the denied ones.            *)
PathType == [inside: BOOLEAN, in_session: BOOLEAN, forbidden: BOOLEAN,
             in_denied_dir: BOOLEAN, globs: SUBSET Globs, size: Nat]

(* who: None for the bound worker, "" for nobody, else a name given with the *)
(* call. allow: a list given with the call. size: of the content it carries. *)
IsRequest(r) ==
  /\ r.tool \in Tools /\ r.path \in PathType \cup {None}
  /\ r.complete \in BOOLEAN /\ r.size \in Nat
  /\ r.who \in Workers \cup {"", None} /\ r.allow \in SUBSET Tools \cup {None}

(* permission.py: an entry of permissions.json, normalized.                  *)

At(section, k) == IF k \in DOMAIN section THEN section[k] ELSE None

Overlay(base, over) ==
  [k \in DOMAIN base \cup DOMAIN over |-> IF k \in DOMAIN over THEN over[k] ELSE base[k]]

verdict(v) == IF v \in {"allow", "ask"} THEN v ELSE "deny"

norm_verdict_map(m) == [k \in DOMAIN m |-> verdict(m[k])]

norm_limits(l) == Overlay(DEFAULT_LIMITS, l)

norm_worker_entry(e) ==
  [enabled |-> e.enabled, tools |-> norm_verdict_map(e.tools),
   capabilities |-> norm_verdict_map(e.capabilities),
   files |-> e.files, limits |-> norm_limits(e.limits)]

(* A raw entry: any word may stand for a verdict, and limits may be missing. *)
IsEntry(e) ==
  /\ e.enabled \in BOOLEAN /\ e.files \in [Ops -> SUBSET Globs]
  /\ DOMAIN e.limits \subseteq LimitNames /\ \A k \in DOMAIN e.limits : e.limits[k] \in Nat
  /\ e # None /\ norm_worker_entry(e) # None

(* permissions.json (None: unreadable) with its raw entries; workers.json;   *)
(* whether tools.json can be read for its deny_dirs; whether the harness has *)
(* an approver of its own; what else its user does.                          *)
IsSetup(s) ==
  /\ s.roster \in UNION {[D -> Roles \cup {None}] : D \in SUBSET Workers}
  /\ {s.readable, s.approver} \subseteq BOOLEAN
  /\ s.uses \subseteq {"plans", "edits", "registers"}
  /\ s.permissions # None =>
       \A table \in {"workers", "roles"} : \A k \in DOMAIN s.permissions[table] :
         IsEntry(s.permissions[table][k])

ASSUME HarnessAssumption ==
  /\ None \notin Workers \cup Roles \cup Verdicts \cup {""} /\ "" \notin Workers
  /\ DEFAULT_LIMITS \in [LimitNames -> Nat]
  /\ {MaxStarts, MaxSessions, HISTORY_KEEP} \subseteq Nat \ {0} /\ Durations \subseteq Nat
  /\ \A t \in DOMAIN Specs : IsSpec(Specs[t])
  /\ \A r \in Requests : IsRequest(r)
  /\ \A s \in Setups : IsSetup(s)

VARIABLES
  setup,         \* never changes
  roster,        \* workers.json: the role of each listed worker
  worker,        \* the bound worker, None if unbound
  worker_role,   \* its role as read when it was bound
  overrides,     \* the tools register() replaced or added
  cache,         \* the tools whose function has been imported
  session, calls, exec_seconds,
  plan,          \* the status in the session's plan file, None without one
  history,       \* workspace_history.json: a session and an event per record
  starts, took,  \* history: the tools this session started, and their seconds
  last           \* history: the call that just ran, None after anything else

identity == <<roster, worker, worker_role>>
tools == <<overrides, cache>>
counters == <<session, calls, exec_seconds, starts, took>>
files == <<plan, history>>
vars == <<setup, identity, tools, counters, files, last>>

----------------------------------------------------------------------------
(* permission.py: what permissions.json grants, after normalization.         *)

load_permissions ==
  LET norm(section) == [k \in DOMAIN section |-> norm_worker_entry(section[k])]
      raw == setup.permissions
  IN IF raw = None THEN [workers |-> <<>>, roles |-> <<>>]
     ELSE [workers |-> norm(raw.workers), roles |-> norm(raw.roles)]

(* Defect: the worker's capabilities replace its role's.                     *)
merge_entries_replacing(base, over) ==
  IF base = None THEN over ELSE IF over = None THEN base ELSE
  [enabled |-> base.enabled /\ over.enabled,
   tools |-> Overlay(base.tools, over.tools),
   capabilities |-> over.capabilities,
   files |-> [op \in Ops |-> base.files[op] \cup over.files[op]],
   limits |-> Overlay(base.limits, over.limits)]

merge_entries(base, over) ==
  IF base = None THEN over ELSE IF over = None THEN base ELSE
  [enabled |-> base.enabled /\ over.enabled,
   tools |-> Overlay(base.tools, over.tools),
   capabilities |-> Overlay(base.capabilities, over.capabilities),
   files |-> [op \in Ops |-> base.files[op] \cup over.files[op]],
   limits |-> Overlay(base.limits, over.limits)]

rule_for(name, role) ==
  LET perms == load_permissions
  IN IF name = None THEN At(perms.workers, "default")
     ELSE merge_entries(At(perms.roles, role), At(perms.workers, name))

load_worker_role(name) == At(roster, name)

assert_worker_known(name) == name \in DOMAIN roster

(* The worker a call is made as, and the role it has there.                  *)
Caller(who) == IF who = None THEN worker ELSE IF who = "" THEN None ELSE who

_role_for(who) ==
  IF who = None \/ Caller(who) = worker THEN worker_role ELSE load_worker_role(Caller(who))

(* The tools and the capabilities that the registry asks permissions for.    *)
registry_coverage ==
  LET mapped(spec) == UNION {ToSet(spec.action_capabilities[a]) :
                             a \in DOMAIN spec.action_capabilities}
      plain(c) == IF c \in DOMAIN CAP_MAP THEN CAP_MAP[c]
                  ELSE IF Len(c) > 1 THEN c ELSE <<"cap">> \o c
  IN [tools |-> DOMAIN Specs,
      caps |-> UNION {IF Specs[t].action_capabilities # None THEN mapped(Specs[t])
                      ELSE {plain(c) : c \in ToSet(Specs[t].capabilities)} :
                      t \in DOMAIN Specs}]

(* What the audit misses in an entry.                                        *)
audit_tool_coverage(entry) ==
  [tools |-> registry_coverage.tools \ DOMAIN entry.tools,
   capabilities |-> registry_coverage.caps \ DOMAIN entry.capabilities]

----------------------------------------------------------------------------
(* The gates of inspect. yes: what the approver says yes to, the name of the *)
(* tool or a capability.                                                     *)

(* The first gate of a sequence that does not pass.                          *)
First(gates) ==
  LET shut == {i \in DOMAIN gates : gates[i] # "ok"}
  IN IF shut = {} THEN "ok" ELSE gates[Min(shut)]

ask(what, yes) == IF what \in yes THEN "ok" ELSE "ask"

Granted(v, what, yes) ==
  CASE v = None -> "not granted"
    [] v = "deny" -> "denied"
    [] v = "ask" -> ask(what, yes)
    [] v = "allow" -> "ok"

required_caps(spec) ==
  IF spec.permission_caps # <<>> THEN spec.permission_caps
  ELSE [i \in DOMAIN spec.capabilities |->
          LET c == spec.capabilities[i]
          IN IF c \in DOMAIN CAP_MAP THEN CAP_MAP[c] ELSE <<"cap">> \o c]

(* None: an action that the map of the spec does not have.                   *)
_action_caps(req) ==
  IF req.tool \notin DOMAIN Specs THEN <<>>
  ELSE IF Specs[req.tool].action_capabilities = None THEN required_caps(Specs[req.tool])
  ELSE At(Specs[req.tool].action_capabilities, req.action)

Gate(open, reason) == IF open THEN "ok" ELSE reason

(* Through a denied directory; every path, if tools.json cannot be read.     *)
_denied_dirs(p) == p.in_denied_dir \/ ~setup.readable

safe_join(p) == p.inside /\ ~p.forbidden /\ ~_denied_dirs(p)

(* What the capabilities of the call say it does to its path.                *)
Op(need) ==
  IF \E c \in ToSet(need) : c[Len(c)] = "write" THEN "write"
  ELSE IF \E c \in ToSet(need) : c[Len(c)] \in {"read", "list"} THEN "read" ELSE ""

check_resources(p, op, entry) ==
  LET grants == IF op = "" THEN entry.files["read"] \cup entry.files["write"]
                ELSE entry.files[op]
  IN /\ p.globs \cap entry.files["deny"] = {}
     /\ p.in_session \/ p.globs \cap grants # {}

check_limits(req, entry) ==
  LET lim == entry.limits
  IN /\ calls < lim["max_tool_calls"]
     /\ exec_seconds < lim["max_execution_time"]
     /\ req.path # None => req.path.size <= lim["max_file_size"]
     /\ req.size <= lim["max_file_size"]

FileGates(req, need, entry) ==
  IF req.path = None THEN <<>>
  ELSE <<Gate(safe_join(req.path), "refused"),
         Gate(check_resources(req.path, Op(need), entry), "refused")>>

(* Arguments and dependencies: of the registry's tools only.                 *)
Ready(req) ==
  req.tool \in DOMAIN Specs => /\ Specs[req.tool].required => req.complete
                               /\ Specs[req.tool].deps

CapabilityGates(need, entry, yes) ==
  [i \in DOMAIN need |-> Granted(At(entry.capabilities, need[i]), need[i], yes)]

Gates(req, need, entry, yes) ==
  <<Granted(At(entry.tools, req.tool), <<req.tool>>, yes), Gate(need # None, "refused")>>
  \o (IF need = None THEN <<>>
      ELSE CapabilityGates(need, entry, yes) \o <<Gate(Ready(req), "refused")>>
           \o FileGates(req, need, entry))
  \o <<Gate(check_limits(req, entry), "limit")>>

inspect(req, yes) ==
  LET entry == rule_for(Caller(req.who), _role_for(req.who))
      need == _action_caps(req)
  IN IF \/ req.allow # None /\ req.tool \notin req.allow
        \/ entry = None \/ ~entry.enabled
        \/ req.tool \notin DOMAIN Specs \cup overrides
     THEN "refused"
     ELSE First(Gates(req, need, entry, yes))

(* What an approver may be asked about a call.                               *)
Asks(req) ==
  LET entry == rule_for(Caller(req.who), _role_for(req.who))
      need == _action_caps(req)
  IN IF entry = None \/ need = None THEN {}
     ELSE {c \in ToSet(need) : At(entry.capabilities, c) = "ask"}
          \cup {t \in {<<req.tool>>} : At(entry.tools, req.tool) = "ask"}

----------------------------------------------------------------------------
HarnessInit ==
  /\ setup \in Setups /\ roster = setup.roster
  /\ worker \in DOMAIN roster \cup {None} /\ worker_role = load_worker_role(worker)
  /\ overrides = {} /\ cache = {}
  /\ session = 1 /\ calls = 0 /\ exec_seconds = 0 /\ starts = 0 /\ took = 0
  /\ plan = None /\ history = <<[session |-> 1, event |-> "started"]>> /\ last = None

(* record_session_history: the newest HISTORY_KEEP records stay.             *)
Recorded(event) ==
  LET all == Append(history, [session |-> session', event |-> event])
  IN SubSeq(all, Max({1, Len(all) - HISTORY_KEEP + 1}), Len(all))

(* The user's edits of workers.json, which the harness does not see at once. *)
EditRoster ==
  /\ "edits" \in setup.uses
  /\ \E w \in DOMAIN roster, r \in Roles : roster' = [roster EXCEPT ![w] = r]
  /\ last' = None
  /\ UNCHANGED <<setup, worker, worker_role, tools, counters, files>>

(* An unknown name raises; None unbinds. No new session.                     *)
bind ==
  /\ \E w \in Workers \cup {None} :
       /\ w = None \/ assert_worker_known(w)
       /\ worker' = w /\ worker_role' = load_worker_role(w)
  /\ last' = None
  /\ UNCHANGED <<setup, roster, tools, counters, files>>

(* Defect: a replaced tool stays in the cache.                               *)
register_stale ==
  /\ "registers" \in setup.uses
  /\ \E t \in Tools : overrides' = overrides \cup {t}
  /\ last' = None
  /\ UNCHANGED <<setup, identity, cache, counters, files>>

register ==
  /\ "registers" \in setup.uses
  /\ \E t \in Tools : overrides' = overrides \cup {t} /\ cache' = cache \ {t}
  /\ last' = None
  /\ UNCHANGED <<setup, identity, counters, files>>

create_session ==
  /\ session < MaxSessions
  /\ session' = session + 1 /\ calls' = 0 /\ exec_seconds' = 0
  /\ starts' = 0 /\ took' = 0
  /\ plan' = None   \* the file of the session before stays in its directory
  /\ history' = Recorded("rotated") /\ last' = None
  /\ UNCHANGED <<setup, identity, tools>>

start_plan ==
  /\ "plans" \in setup.uses
  /\ \E needs_approval \in BOOLEAN :
       plan' = IF needs_approval THEN "pending-approval" ELSE "auto-approved"
  /\ UNCHANGED <<setup, identity, tools, counters>>
  /\ history' = Recorded("planned") /\ last' = None

approve_plan ==
  /\ plan # None
  /\ \E approved \in BOOLEAN : plan' = IF approved THEN "approved" ELSE "rejected"
  /\ last' = None
  /\ UNCHANGED <<setup, identity, tools, counters, history>>

----------------------------------------------------------------------------
(* run_tool after the inspection. A function that cannot be loaded is not a  *)
(* call; one that raises is.                                                 *)

Loads(t) == t \in overrides \cup cache \/ (t \in DOMAIN Specs /\ Specs[t].loads)

(* Defect: the time of a tool that raises is not added.                      *)
Execute_free_failures(req, yes) ==
  /\ cache' = IF req.tool \in overrides THEN cache ELSE cache \cup {req.tool}
  /\ calls' = calls + 1
  /\ \E d \in Durations, raises \in BOOLEAN :
       exec_seconds' = exec_seconds + (IF raises THEN 0 ELSE d) /\ took' = took + d
  /\ starts' = starts + 1
  /\ last' = [req |-> req, name |-> Caller(req.who), role |-> _role_for(req.who),
              yes |-> yes, before |-> took]

Execute(req, yes) ==
  /\ cache' = IF req.tool \in overrides THEN cache ELSE cache \cup {req.tool}
  /\ calls' = calls + 1
  /\ \E d \in Durations : exec_seconds' = exec_seconds + d /\ took' = took + d
  /\ starts' = starts + 1
  /\ last' = [req |-> req, name |-> Caller(req.who), role |-> _role_for(req.who),
              yes |-> yes, before |-> took]

run_tool(req, yes) ==
  /\ IF inspect(req, yes) = "ok" /\ Loads(req.tool) THEN Execute(req, yes)
     ELSE last' = None /\ UNCHANGED <<calls, exec_seconds, starts, took, cache>>
  /\ UNCHANGED <<setup, identity, overrides, session, files>>

(* run and suggest_and_run by code that holds the harness: its own approver, *)
(* if it has one, answers each question as it likes.                         *)
run ==
  /\ calls < MaxStarts
  /\ \E req \in Requests : \E yes \in SUBSET Asks(req) :
       (yes # {} => setup.approver) /\ run_tool(req, yes)

(* HarnessExecutor.run for an agent: inspected first without the ledger, but *)
(* the harness's own approver is asked; then run with the ledger's answers,  *)
(* which a revocation may change from one question to the next.              *)
_plan(req, verdicts) ==
  \E own \in SUBSET Asks(req) : /\ own # {} => setup.approver
                                /\ inspect(req, own) \in verdicts

executor_run ==
  /\ calls < MaxStarts
  /\ \E approval \in BOOLEAN :
       \E req \in {r \in Requests :
                    r.who # None /\ _plan(r, IF approval THEN {"ok", "ask"} ELSE {"ok"})} :
         \E yes \in SUBSET Asks(req) : (yes # {} => approval) /\ run_tool(req, yes)

HarnessNext == EditRoster \/ bind \/ register \/ create_session \/ start_plan \/ approve_plan
        \/ run \/ executor_run

HarnessSpec == HarnessInit /\ [][HarnessNext]_vars

----------------------------------------------------------------------------
HarnessTypeOK ==
  /\ setup \in Setups /\ roster \in [DOMAIN setup.roster -> Roles \cup {None}]
  /\ worker \in DOMAIN roster \cup {None} /\ worker_role \in Roles \cup {None}
  /\ overrides \subseteq Tools /\ cache \subseteq DOMAIN Specs
  /\ cache \cap overrides = {}
  /\ session \in 1..MaxSessions /\ calls \in 0..MaxStarts /\ exec_seconds \in Nat
  /\ {starts, took} \subseteq Nat
  /\ plan \in {None, "pending-approval", "auto-approved", "approved", "rejected"}
  /\ history \in Seq([session: 1..MaxSessions, event: {"started", "rotated", "planned"}])
  /\ Len(history) \in 1..HISTORY_KEEP

(* The reference: what the two raw entries of a worker and its role say of a *)
(* call, the worker's word first. (A worker's entry always has a word on the *)
(* limits: the default, when it names none.)                                 *)
Both(own, of_role) ==
  (IF own = None THEN <<>> ELSE <<own>>) \o (IF of_role = None THEN <<>> ELSE <<of_role>>)

Entries(l) ==
  LET p == setup.permissions
  IN IF p = None THEN <<>>
     ELSE IF l.name = None THEN Both(At(p.workers, "default"), None)
     ELSE Both(At(p.workers, l.name), At(p.roles, l.role))

Word(entries, section, k) ==
  LET with == {i \in DOMAIN entries : k \in DOMAIN entries[i][section]}
  IN IF with = {} THEN None ELSE entries[Min(with)][section][k]

Says(entries, section, k, what, yes) ==
  LET word == Word(entries, section, k)
  IN word = "allow" \/ (word = "ask" /\ what \in yes)

Budget(entries, k) ==
  IF k \in DOMAIN entries[1].limits THEN entries[1].limits[k] ELSE DEFAULT_LIMITS[k]

(* What the entries allow, whatever else the session did.                    *)
Allowed(l, es) ==
  LET p == l.req.path
      need == ToSet(_action_caps(l.req))
      touched == IF Op(_action_caps(l.req)) = "" THEN {"read", "write"}
                 ELSE {Op(_action_caps(l.req))}
  IN /\ es # <<>> /\ \A e \in ToSet(es) : e.enabled
     /\ Says(es, "tools", l.req.tool, <<l.req.tool>>, l.yes)
     /\ \A c \in need : Says(es, "capabilities", c, c, l.yes)
     /\ p # None =>
          /\ \A e \in ToSet(es) : p.globs \cap e.files["deny"] = {}
          /\ p.in_session \/ \E e \in ToSet(es), op \in touched :
                               p.globs \cap e.files[op] # {}

Admitted(l) ==
  /\ Allowed(l, Entries(l))
  /\ starts <= Budget(Entries(l), "max_tool_calls")
  /\ l.before < Budget(Entries(l), "max_execution_time")

(* A tool that ran was granted to the worker it ran as: by the worker's own  *)
(* word in permissions.json, or its role's where the worker has none, for    *)
(* the tool and for every capability of the action, a question answered yes  *)
(* for this very call; on a path neither of the two denies; and within the   *)
(* session's limits, counting every start of the session and what it took,   *)
(* whoever it ran for and however it ended (engine.py inspect and run_tool,  *)
(* permission.py merge_entries).                                             *)
CallsAreGranted == last # None => Admitted(last)

(* The audit of permissions against the registry is complete: where it finds *)
(* nothing missing in a worker's entry or in its role's, no call to a tool   *)
(* of the registry that maps its actions is refused because a verdict is     *)
(* missing (permission.py registry_coverage against engine.py inspect).      *)
AuditIsComplete ==
  \A req \in Requests :
    /\ req.tool \in DOMAIN Specs /\ Specs[req.tool].action_capabilities # None
    /\ Caller(req.who) # None
    /\ \E entry \in {At(load_permissions.workers, Caller(req.who)),
                     At(load_permissions.roles, _role_for(req.who))} :
         /\ entry # None
         /\ audit_tool_coverage(entry) = [tools |-> {}, capabilities |-> {}]
    => inspect(req, Asks(req)) # "not granted"

=============================================================================
