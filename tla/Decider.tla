------------------------------ MODULE Decider ------------------------------
(***************************************************************************)
(* Decisions and the chat they gate: decide_task of decision/decider.py    *)
(* with its caches, the policy of decision/policy.py, triage() and route() *)
(* of worker/engine/triage.py, and the requests to Mind that an LLM        *)
(* decision makes (brain/client.py).                                       *)
(*                                                                         *)
(* Several workers decide at once, on threads of a batch or each for its   *)
(* own chat. They share the triage cache, the cache of the endpoint's      *)
(* liveness, and one brain. Between two requests of one call the world     *)
(* moves: Mind, its database and the endpoint go down and come back,       *)
(* workers.json is edited, time passes.                                    *)
(*                                                                         *)
(* What a goal or an observation says is a value; only what the cache key  *)
(* holds of it (the head) is told from the rest. An answer is what the LLM *)
(* or the endpoint scored: a function from the keys it gave to numbers.    *)
(* Scores are in tenths.                                                   *)
(***************************************************************************)
EXTENDS Integers, SequencesExt, FiniteSetsExt

CONSTANTS
  Callers,
  Asks,          \* what may be asked, see IsAsk
  Mixes,         \* sets of asks considered together
  Files,         \* the contents of workers.json considered, see FileType
  Endpoints,     \* of decision blocks; "" is none
  Tools,         \* the names of the tools offered
  RawAnswers,    \* what an LLM may answer; <<>> for what does not parse
  Scores,        \* what an endpoint may answer
  FALLBACK_WORKERS,
  DEFAULT_POLICY,
  TTL, LIVE_TTL, CACHE_MAX,
  max_retries,
  None,
  MaxTime,       \* bound: ticks of the clock
  MaxChanges     \* bound: outages, recoveries and edits

Backends == {"mind", "db", "endpoint"}

Limits == {"min_confidence", "max_risk", "max_priority_auto"}

Switches == {"enabled", "clarify_on_needs_clarification", "escalate_on_high_risk"}

IsPolicy(p) ==
  /\ \A k \in Limits \cap DOMAIN p : p[k] \in Int
  /\ \A k \in Switches \cap DOMAIN p : p[k] \in BOOLEAN

(* The fields that are read of an LLM's answer, those of another shape (the  *)
(* arguments no dictionary, the reason no text) left out; and of an          *)
(* endpoint's.                                                               *)
IsAnswer(r) ==
  /\ DOMAIN r \subseteq {"worker", "tool", "arguments", "reason", "needs_clarification",
                       "risk", "priority", "confidence"}
  /\ \A k \in DOMAIN r \cap {"risk", "priority", "confidence"} : r[k] \in Int

IsScore(s) ==
  /\ DOMAIN s \subseteq {"worker", "needs_clarification", "risk", "priority",
                       "needs_clarification_confidence"}
  /\ \A k \in DOMAIN s \ {"worker", "needs_clarification"} : s[k] \in Int

(* goal and observation: head and tail. llm: triage() with the worker's      *)
(* policy; otherwise route(). workers: the candidates given, <<>> for those  *)
(* of workers.json. cfg: the endpoint of the block given with the call, None *)
(* to take the block from workers.json. brain: whether one is injected.      *)
(* evaluator: whether the policy's is injected, and works.                   *)
IsAsk(a) ==
  /\ {a.llm, a.brain, a.apply_policy} \subseteq BOOLEAN /\ a.workers \in Seq(STRING)
  /\ a.cfg \in Endpoints \cup {"", None}
  /\ a.evaluator \in {"injected", "none", "raises"} /\ IsPolicy(a.policy)

(* The names and the endpoint of the first enabled decision block.           *)
FileType == [names: Seq(STRING), endpoint: Endpoints \cup {""}]

ASSUME DeciderAssumption ==
  /\ {TTL, LIVE_TTL, CACHE_MAX} \subseteq Nat \ {0}
  /\ {max_retries, MaxTime, MaxChanges} \subseteq Nat
  /\ None \notin Callers \cup Endpoints \cup {""} /\ {"", "mind"} \cap Endpoints = {}
  /\ FALLBACK_WORKERS \in Seq(STRING) \ {<<>>} /\ Mixes \subseteq SUBSET Asks
  /\ \A a \in Asks : IsAsk(a)
  /\ \A f \in Files : f \in FileType
  /\ \A r \in RawAnswers : IsAnswer(r)
  /\ \A s \in Scores : IsScore(s)
  /\ DOMAIN DEFAULT_POLICY = Limits \cup Switches /\ IsPolicy(DEFAULT_POLICY)

VARIABLES
  mix,           \* the asks of this deployment; never changes
  file,          \* workers.json
  up,            \* the backends that answer
  now, changes,
  cache,         \* _TRIAGE_CACHE, oldest first: a key, its result and a stamp
  live_cache,    \* _ENDPOINT_LIVE_CACHE: what the last probe found, and when
  pc,            \* of each caller
  ask,           \* what it asks
  ws,            \* the candidates, as resolved when it asked
  tries,         \* attempts of the request it is making
  result,        \* its decision, None until it has one
  failed         \* history: a backend failed it, or had nothing to ask, in this call

world == <<mix, file, up, now, changes>>
caches == <<cache, live_cache>>
locals == <<pc, ask, ws, tries, result, failed>>
vars == <<world, caches, locals>>

At(f, k) == IF k \in DOMAIN f THEN f[k] ELSE None

----------------------------------------------------------------------------
(* decider.py                                                                *)

_all_workers(a) ==
  IF a.workers # <<>> THEN a.workers
  ELSE IF file.names # <<>> THEN file.names ELSE FALLBACK_WORKERS

(* Defect: the key has only the goal and the candidates.                     *)
_triage_key_shared(a, candidates) == <<a.head, candidates, a.llm>>

_triage_key(a, candidates) == <<a.head, candidates, a.llm, a.cfg>>

Places(key) == {i \in DOMAIN cache : cache[i].key = key}

Fresh(key) == {i \in Places(key) : now - cache[i].stamp < TTL}

(* An entry that is too old leaves the cache.                                *)
_triage_cached(key) ==
  cache' = IF Fresh(key) = {} /\ Places(key) # {} THEN RemoveAt(cache, Min(Places(key)))
           ELSE cache

(* Defect: nothing makes room.                                               *)
_triage_store_unbounded(key, res) ==
  LET entry == [key |-> key, result |-> res, stamp |-> now]
      places == {i \in DOMAIN cache : cache[i].key = key}
  IN cache' = IF ~res.ok \/ res.fallback THEN cache
              ELSE IF places # {} THEN [cache EXCEPT ![Min(places)] = entry]
              ELSE Append(cache, entry)

(* Defect: whatever was decided is kept.                                     *)
_triage_store_all(key, res) ==
  LET room == IF Len(cache) >= CACHE_MAX THEN Tail(cache) ELSE cache
      entry == [key |-> key, result |-> res, stamp |-> now]
      places == {i \in DOMAIN room : room[i].key = key}
  IN cache' = IF places # {} THEN [room EXCEPT ![Min(places)] = entry]
              ELSE Append(room, entry)

_triage_store(key, res) ==
  LET room == IF Len(cache) >= CACHE_MAX THEN Tail(cache) ELSE cache
      entry == [key |-> key, result |-> res, stamp |-> now]
      places == {i \in DOMAIN room : room[i].key = key}
  IN cache' = IF ~res.ok \/ res.fallback THEN cache
              ELSE IF places # {} THEN [room EXCEPT ![Min(places)] = entry]
              ELSE Append(room, entry)

_load_decision == file.endpoint

endpoint_of(a) == IF a.cfg # None THEN a.cfg ELSE _load_decision

Clamp(n, high) == Max({0, Min({high, n})})

Names(answer, candidates) ==
  "worker" \in DOMAIN answer /\ answer["worker"] \in ToSet(candidates)

NamesTool(answer) == "tool" \in DOMAIN answer /\ answer["tool"] \in Tools

(* What is kept of an LLM's answer: a worker and a tool if they were offered; *)
(* confidence stands for both choices.                                       *)
_parse_llm_answer(raw, candidates) ==
  LET keys == (DOMAIN raw \ {"confidence", "worker", "tool"})
              \cup (IF Names(raw, candidates) THEN {"worker"} ELSE {})
              \cup (IF NamesTool(raw) THEN {"tool"} ELSE {})
              \cup (IF "confidence" \in DOMAIN raw
                    THEN {"worker_confidence", "tool_confidence"} ELSE {})
  IN [k \in keys |->
        CASE k \in {"risk", "priority"} -> Clamp(raw[k], 30)
          [] k \in {"worker_confidence", "tool_confidence"} -> Clamp(raw["confidence"], 10)
          [] OTHER -> raw[k]]

Chosen(answer, candidates) ==
  IF Names(answer, candidates) THEN answer["worker"] ELSE candidates[1]

(* A result: whether it is a decision, whether a fallback was taken on the   *)
(* way to it, and (history) what it was asked for and what was scored.       *)
Result(c, ok, fallback, answer, triage) ==
  [ok |-> ok, fallback |-> fallback, worker |-> Chosen(answer, ws[c]), decision |-> triage,
   head |-> ask[c].head, by |-> IF ask[c].llm /\ ~fallback THEN "mind" ELSE endpoint_of(ask[c]),
   raw |-> answer]

_fallback_pick(c) == Result(c, FALSE, TRUE, <<>>, <<>>)

Done(c, res) ==
  /\ result' = [result EXCEPT ![c] = res] /\ pc' = [pc EXCEPT ![c] = "decided"]
  /\ tries' = [tries EXCEPT ![c] = 0]

(* A hit is the decision; a miss asks Mind, or the endpoint.                 *)
decide_task(c) ==
  /\ pc[c] = "idle"
  /\ \E a \in mix :
       LET key == _triage_key(a, _all_workers(a))
       IN /\ ask' = [ask EXCEPT ![c] = a]
          /\ ws' = [ws EXCEPT ![c] = _all_workers(a)]
          /\ _triage_cached(key)
          /\ IF Fresh(key) # {}
             THEN /\ result' = [result EXCEPT ![c] = cache[Min(Fresh(key))].result]
                  /\ pc' = [pc EXCEPT ![c] = "decided"]
                  /\ UNCHANGED <<tries, failed>>
             ELSE /\ pc' = [pc EXCEPT ![c] = IF a.llm /\ a.brain THEN "live" ELSE "endpoint"]
                  /\ failed' = [failed EXCEPT ![c] = a.llm /\ ~a.brain]
                  /\ tries' = [tries EXCEPT ![c] = 1] /\ UNCHANGED result
  /\ UNCHANGED <<world, live_cache>>

(* One POST of the state and the questions to the endpoint, which times out. *)
(* After a failed LLM decision the answer counts as a fallback too.          *)
local_rule(c) ==
  LET fallback == ask[c].llm
      answers == IF endpoint_of(ask[c]) # "" /\ "endpoint" \in up THEN Scores ELSE {}
  IN /\ pc[c] = "endpoint"
     /\ \/ \E s \in answers :
             LET res == Result(c, TRUE, fallback, s, [k \in DOMAIN s \ {"worker"} |-> s[k]])
             IN /\ Done(c, res) /\ _triage_store(_triage_key(ask[c], ws[c]), res)
                /\ UNCHANGED failed
        \/ /\ Done(c, _fallback_pick(c)) /\ failed' = [failed EXCEPT ![c] = TRUE]
           /\ UNCHANGED cache
     /\ UNCHANGED <<world, live_cache, ask, ws>>

----------------------------------------------------------------------------
(* brain/client.py: one attempt of a request to Mind. What may come of it:   *)
(* an answer, nothing or an overload (worth another attempt), a refusal.     *)

Needs(op) == CASE op = "live" -> {"mind"} [] op \in {"ready", "chat"} -> {"mind", "db"}

Outcomes(op) ==
  {"transient"} \cup (IF "mind" \in up THEN {"refused"} ELSE {})
  \cup (IF Needs(op) \subseteq up THEN {"answered"} ELSE {})

After(op) == CASE op = "live" -> "ready" [] op = "ready" -> "chat"

(* Defect: a request out of attempts starts over with the preflight.         *)
_request_again(c, outcome) ==
  \/ /\ outcome = "transient" /\ tries[c] <= max_retries
     /\ tries' = [tries EXCEPT ![c] = @ + 1] /\ UNCHANGED <<pc, failed>>
  \/ /\ outcome = "refused" \/ (outcome = "transient" /\ tries[c] > max_retries)
     /\ tries' = [tries EXCEPT ![c] = 1]
     /\ pc' = [pc EXCEPT ![c] = "live"] /\ UNCHANGED failed

(* A request that does not come to an answer within its attempts sends the   *)
(* decision to the endpoint.                                                 *)
_request(c, outcome) ==
  \/ /\ outcome = "transient" /\ tries[c] <= max_retries
     /\ tries' = [tries EXCEPT ![c] = @ + 1] /\ UNCHANGED <<pc, failed>>
  \/ /\ outcome = "refused" \/ (outcome = "transient" /\ tries[c] > max_retries)
     /\ tries' = [tries EXCEPT ![c] = 1]
     /\ pc' = [pc EXCEPT ![c] = "endpoint"] /\ failed' = [failed EXCEPT ![c] = TRUE]

require_mind(c) ==
  /\ pc[c] \in {"live", "ready"}
  /\ \E out \in Outcomes(pc[c]) :
       \/ _request(c, out)
       \/ /\ out = "answered" /\ pc' = [pc EXCEPT ![c] = After(@)]
          /\ tries' = [tries EXCEPT ![c] = 1] /\ UNCHANGED failed
  /\ UNCHANGED <<world, caches, ask, ws, result>>

(* An answer that does not parse is a decision without scores, not a failure. *)
chat(c) ==
  /\ pc[c] = "chat"
  /\ \/ /\ \E out \in Outcomes("chat") : _request(c, out)
        /\ UNCHANGED result
     \/ /\ "answered" \in Outcomes("chat")
        /\ \E raw \in RawAnswers :
             result' = [result EXCEPT ![c] =
                          Result(c, TRUE, FALSE, raw, _parse_llm_answer(raw, ws[c]))]
        /\ pc' = [pc EXCEPT ![c] = "probe"] /\ UNCHANGED <<tries, failed>>
  /\ UNCHANGED <<world, caches, ask, ws>>

(* Whether the endpoint lives is only told to the user; then the decision is *)
(* kept.                                                                     *)
endpoint_live(c) ==
  /\ pc[c] = "probe"
  /\ live_cache' = IF \/ endpoint_of(ask[c]) = ""
                      \/ live_cache # None /\ now - live_cache.stamp < LIVE_TTL
                   THEN live_cache
                   ELSE [live |-> "endpoint" \in up, stamp |-> now]
  /\ Done(c, result[c]) /\ _triage_store(_triage_key(ask[c], ws[c]), result[c])
  /\ UNCHANGED <<world, ask, ws, failed>>

----------------------------------------------------------------------------
(* policy.py and triage.py                                                   *)

normalize_policy(raw) ==
  [k \in DOMAIN DEFAULT_POLICY |->
     LET v == IF k \in DOMAIN raw THEN raw[k] ELSE DEFAULT_POLICY[k]
     IN IF k = "min_confidence" THEN Clamp(v, 10) ELSE v]

Below(triage, k, floor) == k \in DOMAIN triage /\ triage[k] < floor

AtLeast(triage, k, ceiling) == k \in DOMAIN triage /\ triage[k] >= ceiling

Unclear(triage) == At(triage, "needs_clarification") = TRUE

(* Without an evaluator: two gates, and the limits as workers.json has them. *)
_local_policy_gate(triage, raw) ==
  LET word(k) == IF k \in DOMAIN raw THEN raw[k] ELSE DEFAULT_POLICY[k]
  IN IF Unclear(triage) /\ word("clarify_on_needs_clarification") THEN "clarify"
     ELSE IF word("escalate_on_high_risk") /\ AtLeast(triage, "risk", word("max_risk"))
          THEN "escalate" ELSE "chat"

evaluate(triage, raw) ==
  LET pol == normalize_policy(raw)
      unsure == \/ \E k \in {"worker_confidence", "tool_confidence"} :
                     Below(triage, k, pol["min_confidence"])
                \/ /\ Unclear(triage)
                   /\ Below(triage, "needs_clarification_confidence", pol["min_confidence"])
  IN CASE ~pol["enabled"] -> "chat"
       [] pol["enabled"] /\ DOMAIN triage = {} -> "escalate"
       [] OTHER ->
            IF (Unclear(triage) /\ pol["clarify_on_needs_clarification"]) \/ unsure
            THEN "clarify"
            ELSE IF \/ pol["escalate_on_high_risk"] /\ AtLeast(triage, "risk", pol["max_risk"])
                    \/ AtLeast(triage, "priority", pol["max_priority_auto"])
                 THEN "escalate" ELSE "chat"

_entry_policy(a, triage) ==
  CASE a.evaluator = "injected" -> evaluate(triage, a.policy)
    [] a.evaluator = "none" -> _local_policy_gate(triage, a.policy)
    [] a.evaluator = "raises" -> "escalate"

(* triage() asks Mind and gives the decision to the policy; route() proposes *)
(* unless told to apply it. chat() acts on the verdict.                      *)
triage(c) == _entry_policy(ask[c], result[c].decision)

route(c) == IF ask[c].apply_policy THEN triage(c) ELSE "proposal"

Verdict(c) == IF ask[c].llm THEN triage(c) ELSE route(c)

(* The caller has acted on it, and may ask again.                            *)
Acts(c) ==
  /\ pc[c] = "decided" /\ pc' = [pc EXCEPT ![c] = "idle"]
  /\ result' = [result EXCEPT ![c] = None] /\ failed' = [failed EXCEPT ![c] = FALSE]
  /\ ask' = [ask EXCEPT ![c] = None] /\ ws' = [ws EXCEPT ![c] = <<>>]
  /\ UNCHANGED <<world, caches, tries>>

----------------------------------------------------------------------------
Tick == now < MaxTime /\ now' = now + 1 /\ UNCHANGED <<mix, file, up, changes, caches, locals>>

Change ==
  /\ changes < MaxChanges /\ changes' = changes + 1
  /\ \/ \E b \in Backends : up' = (up \ {b}) \cup ({b} \ up)
        /\ UNCHANGED file
     \/ \E f \in Files : file' = f /\ UNCHANGED up
  /\ UNCHANGED <<mix, now, caches, locals>>

Init ==
  /\ mix \in Mixes /\ file \in Files /\ up = Backends /\ now = 0 /\ changes = 0
  /\ cache = <<>> /\ live_cache = None
  /\ pc = [c \in Callers |-> "idle"] /\ ask = [c \in Callers |-> None]
  /\ ws = [c \in Callers |-> <<>>] /\ tries = [c \in Callers |-> 0]
  /\ result = [c \in Callers |-> None] /\ failed = [c \in Callers |-> FALSE]

Decides(c) == local_rule(c) \/ require_mind(c) \/ chat(c) \/ endpoint_live(c)

Next == Tick \/ Change \/ \E c \in Callers : decide_task(c) \/ Decides(c) \/ Acts(c)

(* Requests time out, so a caller that asked goes on.                        *)
Spec == Init /\ [][Next]_vars /\ \A c \in Callers : WF_vars(Decides(c))

----------------------------------------------------------------------------
TypeOK ==
  /\ mix \in Mixes /\ file \in Files /\ up \subseteq Backends /\ now \in 0..MaxTime
  /\ Len(cache) <= CACHE_MAX
  /\ \A i, j \in DOMAIN cache : cache[i].key = cache[j].key => i = j
  /\ \A c \in Callers : /\ ask[c] \in mix \cup {None} /\ tries[c] \in 0..max_retries + 1
                        /\ pc[c] \in {"probe", "decided"} =>
                             /\ {result[c].ok, result[c].fallback} \subseteq BOOLEAN
                             /\ result[c].worker \in STRING

Decided(c) == pc[c] = "decided"

(* A decision is an answer to what its caller asked: scored for the same     *)
(* goal and head of the observation, by Mind if it asked Mind and else by    *)
(* the endpoint of the block it gave, naming one of the candidates it had    *)
(* when it asked, whichever caller asked first and whatever changed since    *)
(* (decider.py _triage_key). Asked without a block, it may come from the     *)
(* block workers.json had up to a TTL ago, and without a brain, from another *)
(* caller's: the key holds neither.                                          *)
AnswersFitTheAsk ==
  \A c \in Callers : Decided(c) =>
    /\ result[c].head = ask[c].head /\ result[c].worker \in ToSet(ws[c])
    /\ ask[c].cfg # None => result[c].by \in {"mind", ask[c].cfg}
    /\ result[c].by = "mind" => ask[c].llm

(* A caller is given a fallback only when a backend failed it in this very   *)
(* call, or there was none to ask: nobody is served the fallback of another  *)
(* caller, or of before the backends came back (decider.py _triage_store).   *)
FallbacksAreFirstHand ==
  \A c \in Callers : Decided(c) /\ (result[c].fallback \/ ~result[c].ok) => failed[c]

(* Something of an answer was understood: of an LLM's, a worker who is none  *)
(* of the candidates is nothing, nor is a tool that was not offered, and of  *)
(* an endpoint's any worker. (A bare reason is something: policy.py is asked *)
(* for a human's check only when the decision is empty.)                     *)
Understood(c) ==
  \E k \in DOMAIN result[c].raw :
    /\ k = "worker" => result[c].by = "mind" /\ Names(result[c].raw, ws[c])
    /\ k = "tool" => NamesTool(result[c].raw)

(* A limit beyond the scale of 0 to 3 (confidence: 0 to 1) admits every      *)
(* score of an LLM: what it gives is clamped to the scale first.             *)
Holds(c, limit) == result[c].by = "mind" => limit <= 30

(* The brain is asked to act on a message only if the policy of the worker   *)
(* that chats, as it stands in workers.json, admits what was scored: some    *)
(* answer was understood, nothing needs to be clarified, and no score is     *)
(* past a limit as the LLM or the endpoint gave it; through the cache, the   *)
(* fallbacks, the parsing and the clamping (triage.py, chat.py 64-89).       *)
ChatsAreCleared ==
  \A c \in {d \in Callers : Decided(d)} :
    ask[c].evaluator = "injected" /\ Verdict(c) = "chat" =>
    LET pol == normalize_policy(ask[c].policy)
        raw == result[c].raw
    IN pol["enabled"] =>
       /\ Understood(c)
       /\ At(raw, "needs_clarification") = TRUE => ~pol["clarify_on_needs_clarification"]
       /\ pol["min_confidence"] > 0 => ~Below(raw, "confidence", pol["min_confidence"])
       /\ pol["escalate_on_high_risk"] /\ Holds(c, pol["max_risk"]) =>
            ~AtLeast(raw, "risk", pol["max_risk"])
       /\ Holds(c, pol["max_priority_auto"]) =>
            ~AtLeast(raw, "priority", pol["max_priority_auto"])

(* Whoever asks is told, with every backend down too (client.py bounds its   *)
(* attempts, decider.py falls back).                                         *)
EveryAskIsAnswered == \A c \in Callers : pc[c] # "idle" ~> Decided(c)

=============================================================================
