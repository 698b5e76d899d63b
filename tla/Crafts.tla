------------------------------- MODULE Crafts -------------------------------
(***************************************************************************)
(* The rules of the crafts: which pins of crafts.json load with their      *)
(* craft.md, which crafts a worker is offered, and the autonomy its        *)
(* allowlist gives it. Every operator reads the files afresh, as the code  *)
(* does: "lib" is what they hold.                                          *)
(*                                                                         *)
(*   lib.readable   crafts.json can be read                                *)
(*   lib.pins       its pins, in order                                     *)
(*   lib.tools      the tools of tools.json                                *)
(*   lib.md         the craft.md of each folder that has one               *)
(*   lib.workers    the entries of workers.json, None if it is unreadable   *)
(*                                                                         *)
(* A name is a value without surrounding blanks, in lower case; a pin      *)
(* without a path has its mode's. A craft that does not load is None.      *)
(***************************************************************************)
EXTENDS Integers, SequencesExt, FiniteSetsExt

CONSTANTS
  None,
  DECISION_DEFAULTS,   \* the decision block of a pin without one
  DECISION_CHOICES     \* the words its scope, assignment, mode, on_error may be

APPROVALS == {"all", "small", "none"}
DEFAULT_MODES == {"plan"}
FALLBACK_MODES == {"assist", "plan", "assign", "build"}
MIN_STEPS == 1
MAX_STEPS == 20
MAX_PARALLEL == 64

Clamp(n, low, high) == Max({low, Min({n, high})})

(* None for a block that is refused.                                         *)
_decision_pin(raw) ==
  LET d == (IF raw = None THEN <<>> ELSE raw) @@ DECISION_DEFAULTS
  IN IF (\A k \in DOMAIN DECISION_CHOICES : d[k] \in DECISION_CHOICES[k]) /\ d.timeout > 0
     THEN [d EXCEPT !.max_parallel = Clamp(@, 1, MAX_PARALLEL)]
     ELSE None

Pins(lib) == IF lib.readable THEN lib.pins ELSE <<>>

Modes(lib) == {Pins(lib)[i].mode : i \in DOMAIN Pins(lib)}

PinOf(lib, name) ==
  LET named == {i \in DOMAIN Pins(lib) : Pins(lib)[i].mode = name}
  IN IF named = {} THEN None ELSE Pins(lib)[Min(named)]

(* The pin and the file agree, and the steps are flat.                       *)
Agree(pin, md) ==
  /\ md.framed /\ md.described
  /\ md.name = pin.folder /\ md.version = pin.version
  /\ md.steps # <<>>
  /\ \A i \in DOMAIN md.steps : ~md.steps[i].names_worker /\ ~md.steps[i].names_craft

load_craft(lib, name) ==
  LET pin == PinOf(lib, name)
  IN IF /\ pin # None
        /\ pin.tools # {} /\ pin.tools \subseteq lib.tools
        /\ pin.approval \in APPROVALS
        /\ pin.folder \in DOMAIN lib.md /\ Agree(pin, lib.md[pin.folder])
        /\ _decision_pin(pin.decision) # None
     THEN [name |-> name, required_inputs |-> lib.md[pin.folder].required,
           steps |-> lib.md[pin.folder].steps,
           modes |-> pin.modes, roles |-> pin.roles, workers |-> pin.workers,
           decision |-> _decision_pin(pin.decision)]
     ELSE None

craft_gaps(lib) == {m \in Modes(lib) : load_craft(lib, m) = None}

(* A pin that lists nothing admits everybody.                                *)
Admits(listed, x) == listed = {} \/ x = None \/ x \in listed

(* modes: {} skips their check, as the caller passes None for an empty list. *)
list_crafts(lib, worker, role, modes) ==
  LET offered(m) ==
        LET c == load_craft(lib, m)
        IN /\ c # None
           /\ Admits(c.workers, worker) /\ Admits(c.roles, role)
           /\ modes = {} \/ c.modes = {} \/ modes \cap c.modes # {}
  IN {m \in Modes(lib) : offered(m)}

(* Whether the craft expands with these inputs.                              *)
expand_craft(lib, name, given) ==
  LET c == load_craft(lib, name)
  IN IF c = None \/ ~(c.required_inputs \subseteq given) THEN None ELSE c.steps

_registry_modes(lib) ==
  IF Modes(lib) = {} THEN FALLBACK_MODES ELSE {"assist"} \cup Modes(lib)

(* crafts: the allowlist of an entry, None without one.                      *)
_worker_modes(lib, crafts) ==
  IF crafts = None THEN DEFAULT_MODES
  ELSE IF crafts \cap _registry_modes(lib) = {} THEN {"assist"}
  ELSE crafts \cap _registry_modes(lib)

crafts_for_worker(lib, w) ==
  LET e == lib.workers[w]
  IN IF lib.workers = None THEN {}
     ELSE IF w \notin DOMAIN lib.workers THEN list_crafts(lib, w, None, {})
     ELSE {m \in list_crafts(lib, w, e.role, _worker_modes(lib, e.crafts)) :
             e.crafts = None \/ m \in e.crafts}

----------------------------------------------------------------------------
(* The autonomy a worker's crafts give it. The pins are read as they are     *)
(* written: a craft that does not load still counts.                         *)

DEFAULT_AUTONOMY == [modes |-> {"plan"}, max_steps |-> 3, approval |-> "all", auto_steps |-> 2]

_autonomy_from_crafts(lib, allowed) ==
  LET selected == {p \in ToSet(lib.pins) : p.mode # "assist"
                                           /\ (allowed = None \/ p.mode \in allowed)}
      planning == {p \in selected : p.mode \in {"plan", "build"}}
      policy == IF planning = {} THEN selected ELSE planning
      approvals == {p.approval : p \in selected}
      most == Clamp(Max({p.max_steps : p \in policy}), MIN_STEPS, MAX_STEPS)
  IN IF ~lib.readable THEN DEFAULT_AUTONOMY
     ELSE IF selected = {}
          THEN [modes |-> {"assist"}, max_steps |-> 3, approval |-> "all", auto_steps |-> 2]
     ELSE [modes |-> {p.mode : p \in selected},
           max_steps |-> most,
           approval |-> CHOOSE a \in APPROVALS :
                          \/ a = "all" /\ a \in approvals
                          \/ a = "small" /\ a \in approvals /\ "all" \notin approvals
                          \/ a = "none" /\ approvals \cap {"all", "small"} = {},
           auto_steps |-> Clamp(Min({p.auto_steps : p \in policy}), MIN_STEPS, most)]

=============================================================================
