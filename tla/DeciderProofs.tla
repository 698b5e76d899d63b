---------------------------- MODULE DeciderProofs ----------------------------
(***************************************************************************)
(* Proofs about Decider: whatever the backends, the files and the other    *)
(* callers do, a decision answers what was asked, and a fallback is given  *)
(* only to a caller whose own request failed.                              *)
(***************************************************************************)
EXTENDS Decider, TLAPS, WellFoundedInduction

Heads == {a.head : a \in Asks}
Keys == Heads \X Seq(STRING) \X BOOLEAN \X (Endpoints \cup {"", None})
Scored(s) == [k \in DOMAIN s \ {"worker"} |-> s[k]]
Triages == {_parse_llm_answer(r, w) : r \in RawAnswers, w \in Seq(STRING)} \cup {<<>>}
           \cup {Scored(s) : s \in Scores}
Results ==
  [ok: BOOLEAN, fallback: BOOLEAN, worker: STRING, decision: Triages, head: Heads,
   by: Endpoints \cup {"", "mind"}, raw: RawAnswers \cup Scores \cup {<<>>}]

(* What a result says of the scores is what was understood of the answer.    *)
Honest(res, candidates) ==
  \/ /\ res.by = "mind" /\ res.raw \in RawAnswers
     /\ res.decision = _parse_llm_answer(res.raw, candidates)
  \/ res.by # "mind" /\ res.raw \in Scores /\ res.decision = Scored(res.raw)
  \/ res.raw = <<>> /\ res.decision = <<>>

(* A result answers the requests that have this key.                         *)
Answers(key, res) ==
  /\ res.head = key[1] /\ res.worker \in ToSet(key[2])
  /\ key[4] # None => res.by \in {"mind", key[4]}
  /\ res.by = "mind" => key[3]
  /\ Honest(res, key[2])

FirstHand(res) == res.ok /\ ~res.fallback

(* What the cache may hold.                                                  *)
Kept == {e \in [key: Keys, result: Results, stamp: Nat] :
           Answers(e.key, e.result) /\ FirstHand(e.result)}

Stages == {"idle", "live", "ready", "chat", "probe", "endpoint", "decided"}

Shape ==
  /\ mix \in Mixes /\ file \in Files /\ now \in Nat
  /\ cache \in Seq(Kept)
  /\ pc \in [Callers -> Stages] /\ ask \in [Callers -> Asks \cup {None}]
  /\ ws \in [Callers -> Seq(STRING)] /\ result \in [Callers -> Results \cup {None}]
  /\ failed \in [Callers -> BOOLEAN]

KeyOf(c) == _triage_key(ask[c], ws[c])

(* A caller under way has asked; one that waits for Mind, or was answered by *)
(* it, asked Mind; one that was sent from Mind to the endpoint has failed.   *)
UnderWay(c) ==
  /\ pc[c] # "idle" => ask[c] \in Asks /\ ws[c] # <<>>
  /\ pc[c] \in {"live", "ready", "chat"} => ask[c].llm
  /\ pc[c] = "endpoint" /\ ask[c].llm => failed[c]

(* A result at hand answers its caller, first hand unless it has failed.     *)
AtHand(c) ==
  /\ pc[c] \in {"probe", "decided"} => result[c] \in Results /\ Answers(KeyOf(c), result[c])
  /\ pc[c] = "probe" => FirstHand(result[c])
  /\ pc[c] = "decided" => FirstHand(result[c]) \/ failed[c]

DecisionInv == Shape /\ \A c \in Callers : UnderWay(c) /\ AtHand(c)

----------------------------------------------------------------------------
LEMMA MinIn ==
  ASSUME NEW S \in SUBSET Nat, S # {}
  PROVE  Min(S) \in S
<1>1. PICK x \in S : \A y \in S : ~(<<y, x>> \in OpToRel(<, Nat))
  BY NatLessThanWellFounded, WFMin
<1>2. \A y \in S : ~(y < x)
  BY <1>1 DEF OpToRel
<1>3. \A y \in S : x <= y
  BY <1>2
<1> QED
  BY <1>3 DEF Min

LEMMA FreshIsKept ==
  ASSUME Shape, NEW key, Fresh(key) # {}
  PROVE  /\ cache[Min(Fresh(key))] \in Kept
         /\ cache[Min(Fresh(key))].key = key
<1>1. Fresh(key) \in SUBSET Nat
  BY DEF Shape, Fresh, Places
<1>2. Min(Fresh(key)) \in Fresh(key)
  BY <1>1, MinIn
<1>3. /\ Min(Fresh(key)) \in DOMAIN cache
      /\ cache[Min(Fresh(key))].key = key
  BY <1>2 DEF Fresh, Places
<1> QED
  BY <1>3 DEF Shape

LEMMA PoppedIsKept ==
  ASSUME Shape, NEW key, _triage_cached(key)
  PROVE  cache' \in Seq(Kept)
<1>1. CASE Fresh(key) = {} /\ Places(key) # {}
  <2>1. Places(key) \in SUBSET Nat
    BY DEF Shape, Places
  <2>2. Min(Places(key)) \in Places(key)
    BY <1>1, <2>1, MinIn
  <2>3. Min(Places(key)) \in 1..Len(cache)
    BY <2>2 DEF Shape, Places
  <2>4. \A i \in 1..Len(cache) : RemoveAt(cache, i) \in Seq(Kept)
    BY DEF Shape, RemoveAt
  <2>5. cache' = RemoveAt(cache, Min(Places(key)))
    BY <1>1 DEF _triage_cached
  <2> QED
    BY <2>3, <2>4, <2>5
<1>2. CASE ~(Fresh(key) = {} /\ Places(key) # {})
  BY <1>2 DEF Shape, _triage_cached
<1> QED
  BY <1>1, <1>2

(* What is stored answers its key, first hand.                               *)
LEMMA StoredIsKept ==
  ASSUME Shape, NEW key \in Keys, NEW res \in Results, Answers(key, res),
         _triage_store(key, res)
  PROVE  cache' \in Seq(Kept)
<1> DEFINE room == IF Len(cache) >= CACHE_MAX THEN Tail(cache) ELSE cache
           entry == [key |-> key, result |-> res, stamp |-> now]
           places == {i \in DOMAIN room : room[i].key = key}
<1>1. CASE ~res.ok \/ res.fallback
  BY <1>1 DEF _triage_store, Shape
<1>2. CASE FirstHand(res)
  <2>1. entry \in Kept
    BY <1>2 DEF Kept, Shape
  <2>2. room \in Seq(Kept)
    <3>1. CASE Len(cache) >= CACHE_MAX
      <4>1. CACHE_MAX \in Nat \ {0}
        BY DeciderAssumption
      <4>2. Len(cache) # 0
        BY <3>1, <4>1 DEF Shape
      <4> QED
        BY <3>1, <4>2 DEF Shape
    <3> QED
      BY <3>1 DEF Shape
  <2>3. cache' = IF places # {} THEN [room EXCEPT ![Min(places)] = entry]
                 ELSE Append(room, entry)
    BY <1>2 DEF _triage_store, FirstHand
  <2> HIDE DEF entry, room
  <2>4. Append(room, entry) \in Seq(Kept)
    BY <2>1, <2>2
  <2>5. ASSUME places # {} PROVE [room EXCEPT ![Min(places)] = entry] \in Seq(Kept)
    <3>1. places \in SUBSET Nat
      BY <2>2
    <3>2. Min(places) \in places
      BY <2>5, <3>1, MinIn
    <3>3. Min(places) \in 1..Len(room)
      BY <2>2, <3>2
    <3> QED
      BY <2>1, <2>2, <3>3
  <2> QED
    BY <2>3, <2>4, <2>5
<1> QED
  BY <1>1, <1>2 DEF Results, FirstHand

----------------------------------------------------------------------------
LEMMA CandidatesAreNames ==
  ASSUME Shape, NEW a \in Asks
  PROVE  _all_workers(a) \in Seq(STRING) \ {<<>>}
BY DeciderAssumption DEF Shape, IsAsk, FileType, _all_workers

LEMMA KeysAreTyped ==
  ASSUME NEW a \in Asks, NEW candidates \in Seq(STRING)
  PROVE  _triage_key(a, candidates) \in Keys
BY DeciderAssumption DEF IsAsk, Keys, Heads, _triage_key

LEMMA ChosenIsCandidate ==
  ASSUME NEW answer, NEW candidates \in Seq(STRING) \ {<<>>}
  PROVE  Chosen(answer, candidates) \in ToSet(candidates) /\ ToSet(candidates) \subseteq STRING
<1>1. 1 \in DOMAIN candidates
  OBVIOUS
<1>2. candidates[1] \in ToSet(candidates)
  BY <1>1 DEF ToSet
<1>3. ToSet(candidates) \subseteq STRING
  BY DEF ToSet
<1> QED
  BY <1>2, <1>3 DEF Chosen, Names

LEMMA EndpointIsTyped ==
  ASSUME Shape, NEW a \in Asks
  PROVE  endpoint_of(a) \in Endpoints \cup {""}
BY DeciderAssumption DEF Shape, IsAsk, FileType, endpoint_of, _load_decision

(* A result answers its caller, whoever scored it.                           *)
LEMMA ResultAnswers ==
  ASSUME Shape, NEW c \in Callers, ask[c] \in Asks, ws[c] # <<>>,
         NEW ok \in BOOLEAN, NEW fallback \in BOOLEAN,
         NEW answer \in RawAnswers \cup Scores \cup {<<>>}, NEW t \in Triages,
         \/ /\ ask[c].llm /\ ~fallback /\ answer \in RawAnswers
            /\ t = _parse_llm_answer(answer, ws[c])
         \/ ~(ask[c].llm /\ ~fallback) /\ answer \in Scores /\ t = Scored(answer)
         \/ answer = <<>> /\ t = <<>>
  PROVE  /\ Result(c, ok, fallback, answer, t) \in Results
         /\ Answers(KeyOf(c), Result(c, ok, fallback, answer, t))
<1> DEFINE res == Result(c, ok, fallback, answer, t)
<1>1. ws[c] \in Seq(STRING) \ {<<>>}
  BY DEF Shape
<1>2. res.worker \in ToSet(ws[c]) /\ res.worker \in STRING
  BY <1>1, ChosenIsCandidate DEF Result
<1>3. endpoint_of(ask[c]) \in Endpoints \cup {""}
  BY EndpointIsTyped
<1>4. res \in Results
  BY <1>2, <1>3 DEF Results, Result, Heads
<1>5. ask[c].llm \in BOOLEAN
  BY DeciderAssumption DEF IsAsk
<1>6. res.by = IF ask[c].llm /\ ~fallback THEN "mind" ELSE endpoint_of(ask[c])
  BY DEF Result
<1>7. res.by = "mind" => ask[c].llm
  BY <1>3, <1>5, <1>6, DeciderAssumption
<1>8. ask[c].cfg # None => res.by \in {"mind", ask[c].cfg}
  BY <1>6 DEF endpoint_of
<1>9. res.head = ask[c].head
  BY DEF Result
<1>10. res.by = "mind" <=> ask[c].llm /\ ~fallback
  BY <1>3, <1>5, <1>6, DeciderAssumption
<1>11. res.raw = answer /\ res.decision = t
  BY DEF Result
<1>12. Honest(res, ws[c])
  <2> HIDE DEF res
  <2> QED
    BY <1>10, <1>11 DEF Honest
<1> QED
  BY <1>2, <1>4, <1>7, <1>8, <1>9, <1>12 DEF Answers, KeyOf, _triage_key

----------------------------------------------------------------------------
(* A step of one caller leaves the others as they are.                       *)
LEMMA OthersStay ==
  ASSUME NEW d, UnderWay(d), AtHand(d),
         <<pc[d], ask[d], ws[d], result[d], failed[d]>>'
           = <<pc[d], ask[d], ws[d], result[d], failed[d]>>
  PROVE  UnderWay(d)' /\ AtHand(d)'
BY DEF UnderWay, AtHand, KeyOf, _triage_key, Answers, FirstHand

LEMMA AskKeeps ==
  ASSUME DecisionInv, NEW c \in Callers, decide_task(c)
  PROVE  DecisionInv'
<1>1. PICK a \in mix :
        /\ ask' = [ask EXCEPT ![c] = a]
        /\ ws' = [ws EXCEPT ![c] = _all_workers(a)]
        /\ _triage_cached(_triage_key(a, _all_workers(a)))
        /\ IF Fresh(_triage_key(a, _all_workers(a))) # {}
           THEN /\ result' = [result EXCEPT ![c] =
                     cache[Min(Fresh(_triage_key(a, _all_workers(a))))].result]
                /\ pc' = [pc EXCEPT ![c] = "decided"]
                /\ UNCHANGED <<tries, failed>>
           ELSE /\ pc' = [pc EXCEPT ![c] = IF a.llm /\ a.brain THEN "live" ELSE "endpoint"]
                /\ failed' = [failed EXCEPT ![c] = a.llm /\ ~a.brain]
                /\ tries' = [tries EXCEPT ![c] = 1] /\ UNCHANGED result
  BY DEF decide_task
<1> DEFINE names == _all_workers(a)
           key == _triage_key(a, names)
<1>2. a \in Asks /\ names \in Seq(STRING) \ {<<>>}
  BY DeciderAssumption, CandidatesAreNames DEF DecisionInv, Shape
<1>3. {a.llm, a.brain} \subseteq BOOLEAN
  BY <1>2, DeciderAssumption DEF IsAsk
<1>4. cache' \in Seq(Kept)
  BY <1>1, PoppedIsKept DEF DecisionInv
<1>5. UNCHANGED <<mix, file, now>>
  BY DEF decide_task, world
<1>6. /\ ask' \in [Callers -> Asks \cup {None}] /\ ask'[c] = a
      /\ ws' \in [Callers -> Seq(STRING)] /\ ws'[c] = names
  BY <1>1, <1>2 DEF DecisionInv, Shape
<1>7. KeyOf(c)' = key
  BY <1>6 DEF KeyOf, _triage_key
<1>8. ASSUME NEW d \in Callers, d # c PROVE UnderWay(d)' /\ AtHand(d)'
  <2>1. <<pc[d], ask[d], ws[d], result[d], failed[d]>>'
          = <<pc[d], ask[d], ws[d], result[d], failed[d]>>
    BY <1>1, <1>8 DEF DecisionInv, Shape
  <2> QED
    BY <2>1, OthersStay DEF DecisionInv
<1> HIDE DEF names, key
<1>9. CASE Fresh(key) # {}
  <2> DEFINE hit == cache[Min(Fresh(key))]
  <2>1. hit \in Kept /\ hit.key = key
    BY <1>9, FreshIsKept DEF DecisionInv
  <2>2. hit.result \in Results /\ Answers(key, hit.result) /\ FirstHand(hit.result)
    BY <2>1 DEF Kept
  <2> HIDE DEF hit
  <2>3. /\ result' = [result EXCEPT ![c] = hit.result]
        /\ pc' = [pc EXCEPT ![c] = "decided"] /\ failed' = failed
    BY <1>1, <1>9 DEF hit, key, names
  <2>4. result' \in [Callers -> Results \cup {None}] /\ result'[c] = hit.result
    BY <2>2, <2>3 DEF DecisionInv, Shape
  <2>5. pc' \in [Callers -> Stages] /\ pc'[c] = "decided"
    BY <2>3 DEF DecisionInv, Shape, Stages
  <2>6. Shape'
    BY <1>4, <1>5, <1>6, <2>3, <2>4, <2>5 DEF DecisionInv, Shape
  <2>7. UnderWay(c)'
    BY <1>2, <1>6, <2>5 DEF UnderWay
  <2>8. AtHand(c)'
    BY <1>7, <2>2, <2>4, <2>5 DEF AtHand, Answers, FirstHand
  <2> QED
    BY <1>8, <2>6, <2>7, <2>8 DEF DecisionInv
<1>10. CASE Fresh(key) = {}
  <2>1. /\ pc' = [pc EXCEPT ![c] = IF a.llm /\ a.brain THEN "live" ELSE "endpoint"]
        /\ failed' = [failed EXCEPT ![c] = a.llm /\ ~a.brain]
        /\ result' = result
    BY <1>1, <1>10 DEF key, names
  <2>2. failed' \in [Callers -> BOOLEAN] /\ failed'[c] = (a.llm /\ ~a.brain)
    BY <2>1 DEF DecisionInv, Shape
  <2>3. /\ pc' \in [Callers -> Stages]
        /\ pc'[c] = IF a.llm /\ a.brain THEN "live" ELSE "endpoint"
    BY <2>1 DEF DecisionInv, Shape, Stages
  <2>4. Shape'
    BY <1>4, <1>5, <1>6, <2>1, <2>2, <2>3 DEF DecisionInv, Shape
  <2>5. UnderWay(c)'
    BY <1>2, <1>3, <1>6, <2>2, <2>3 DEF UnderWay
  <2>6. AtHand(c)'
    BY <2>3 DEF AtHand
  <2> QED
    BY <1>8, <2>4, <2>5, <2>6 DEF DecisionInv
<1> QED
  BY <1>9, <1>10

(* A decision made now, stored or not.                                       *)
LEMMA DoneKeeps ==
  ASSUME DecisionInv, NEW c \in Callers, NEW res \in Results, ask[c] \in Asks,
         ws[c] # <<>>, Answers(KeyOf(c), res), Done(c, res),
         failed' \in [Callers -> BOOLEAN],
         \A d \in Callers : d # c => failed'[d] = failed[d],
         FirstHand(res) \/ failed'[c],
         _triage_store(KeyOf(c), res) \/ UNCHANGED cache,
         UNCHANGED <<mix, file, now, ask, ws>>
  PROVE  DecisionInv'
<1>1. result' \in [Callers -> Results \cup {None}] /\ result'[c] = res
  BY DEF Done, DecisionInv, Shape
<1>2. pc' \in [Callers -> Stages] /\ pc'[c] = "decided"
  BY DEF Done, DecisionInv, Shape, Stages
<1>3. ws[c] \in Seq(STRING)
  BY DEF DecisionInv, Shape
<1>4. KeyOf(c) \in Keys
  BY <1>3, KeysAreTyped DEF KeyOf
<1>5. cache' \in Seq(Kept)
  BY <1>4, StoredIsKept DEF DecisionInv, Shape
<1>6. Shape'
  BY <1>1, <1>2, <1>5 DEF DecisionInv, Shape
<1>7. ASSUME NEW d \in Callers, d # c PROVE UnderWay(d)' /\ AtHand(d)'
  <2>1. <<pc[d], ask[d], ws[d], result[d], failed[d]>>'
          = <<pc[d], ask[d], ws[d], result[d], failed[d]>>
    BY <1>7 DEF Done, DecisionInv, Shape
  <2> QED
    BY <2>1, OthersStay DEF DecisionInv
<1>8. UnderWay(c)'
  BY <1>2 DEF UnderWay
<1>9. KeyOf(c)' = KeyOf(c)
  BY DEF KeyOf, _triage_key
<1>10. AtHand(c)'
  BY <1>1, <1>2, <1>9 DEF AtHand, Answers, FirstHand
<1> QED
  BY <1>6, <1>7, <1>8, <1>10 DEF DecisionInv

LEMMA EndpointKeeps ==
  ASSUME DecisionInv, NEW c \in Callers, local_rule(c)
  PROVE  DecisionInv'
<1>1. ask[c] \in Asks /\ ws[c] # <<>> /\ (ask[c].llm => failed[c])
  BY DEF DecisionInv, UnderWay, local_rule
<1>2. ask[c].llm \in BOOLEAN
  BY <1>1, DeciderAssumption DEF IsAsk
<1>3. UNCHANGED <<mix, file, now, ask, ws>>
  BY DEF local_rule, world
<1>4. ASSUME NEW s \in Scores,
             Done(c, Result(c, TRUE, ask[c].llm, s, [k \in DOMAIN s \ {"worker"} |-> s[k]])),
             _triage_store(_triage_key(ask[c], ws[c]),
               Result(c, TRUE, ask[c].llm, s, [k \in DOMAIN s \ {"worker"} |-> s[k]])),
             UNCHANGED failed
      PROVE  DecisionInv'
  <2> DEFINE t == [k \in DOMAIN s \ {"worker"} |-> s[k]]
             res == Result(c, TRUE, ask[c].llm, s, t)
  <2>1. t \in Triages /\ t = Scored(s)
    BY DEF Triages, Scored
  <2>2. res \in Results /\ Answers(KeyOf(c), res)
    <3> HIDE DEF t
    <3>1. ~(ask[c].llm /\ ~ask[c].llm)
      OBVIOUS
    <3> QED
      BY <1>1, <1>2, <2>1, <3>1, ResultAnswers DEF DecisionInv
  <2>3. FirstHand(res) \/ failed'[c]
    BY <1>1, <1>2, <1>4 DEF FirstHand, Result
  <2>4. failed' \in [Callers -> BOOLEAN] /\ \A d \in Callers : failed'[d] = failed[d]
    BY <1>4 DEF DecisionInv, Shape
  <2>5. Done(c, res) /\ _triage_store(KeyOf(c), res)
    BY <1>4 DEF KeyOf
  <2> HIDE DEF res
  <2> QED
    BY <1>1, <1>3, <2>2, <2>3, <2>4, <2>5, DoneKeeps
<1>5. ASSUME Done(c, _fallback_pick(c)), failed' = [failed EXCEPT ![c] = TRUE],
             UNCHANGED cache
      PROVE  DecisionInv'
  <2>1. <<>> \in Triages
    BY DEF Triages
  <2>2. _fallback_pick(c) \in Results /\ Answers(KeyOf(c), _fallback_pick(c))
    BY <1>1, <2>1, ResultAnswers DEF DecisionInv, _fallback_pick
  <2>3. /\ failed' \in [Callers -> BOOLEAN] /\ failed'[c]
        /\ \A d \in Callers : d # c => failed'[d] = failed[d]
    BY <1>5 DEF DecisionInv, Shape
  <2> QED
    BY <1>1, <1>3, <1>5, <2>2, <2>3, DoneKeeps
<1> QED
  BY <1>4, <1>5 DEF local_rule

LEMMA ProbeKeeps ==
  ASSUME DecisionInv, NEW c \in Callers, endpoint_live(c)
  PROVE  DecisionInv'
<1>1. ask[c] \in Asks /\ ws[c] # <<>>
  BY DEF DecisionInv, UnderWay, endpoint_live
<1>2. result[c] \in Results /\ Answers(KeyOf(c), result[c]) /\ FirstHand(result[c])
  BY DEF DecisionInv, AtHand, endpoint_live
<1>3. failed' \in [Callers -> BOOLEAN] /\ \A d \in Callers : failed'[d] = failed[d]
  BY DEF DecisionInv, Shape, endpoint_live
<1>4. UNCHANGED <<mix, file, now, ask, ws>>
  BY DEF endpoint_live, world
<1>5. Done(c, result[c]) /\ _triage_store(KeyOf(c), result[c])
  BY DEF endpoint_live, KeyOf
<1> QED
  BY <1>1, <1>2, <1>3, <1>4, <1>5, DoneKeeps

(* A caller that goes on with Mind, is answered by it or leaves it.          *)
LEMMA GoesOnKeeps ==
  ASSUME DecisionInv, NEW c \in Callers, NEW place \in Stages,
         pc' = [pc EXCEPT ![c] = place],
         result' \in [Callers -> Results \cup {None}],
         failed' \in [Callers -> BOOLEAN],
         \A d \in Callers : d # c => result'[d] = result[d] /\ failed'[d] = failed[d],
         UNCHANGED <<mix, file, now, cache, ask, ws>>,
         UnderWay(c)', AtHand(c)'
  PROVE  DecisionInv'
<1>1. Shape'
  BY DEF DecisionInv, Shape
<1>2. ASSUME NEW d \in Callers, d # c PROVE UnderWay(d)' /\ AtHand(d)'
  <2>1. <<pc[d], ask[d], ws[d], result[d], failed[d]>>'
          = <<pc[d], ask[d], ws[d], result[d], failed[d]>>
    BY <1>2 DEF DecisionInv, Shape
  <2> QED
    BY <2>1, OthersStay DEF DecisionInv
<1> QED
  BY <1>1, <1>2 DEF DecisionInv

LEMMA RequestKeeps ==
  ASSUME DecisionInv, NEW c \in Callers, pc[c] \in {"live", "ready", "chat"},
         NEW out, _request(c, out),
         UNCHANGED <<mix, file, now, cache, ask, ws, result>>
  PROVE  DecisionInv'
<1>1. ask[c] \in Asks /\ ws[c] # <<>> /\ ask[c].llm
  BY DEF DecisionInv, UnderWay
<1>2. result' \in [Callers -> Results \cup {None}] /\ failed \in [Callers -> BOOLEAN]
  BY DEF DecisionInv, Shape
<1>3. CASE UNCHANGED <<pc, failed>>
  <2>1. Shape'
    BY <1>3 DEF DecisionInv, Shape
  <2>2. ASSUME NEW d \in Callers PROVE UnderWay(d)' /\ AtHand(d)'
    BY <1>3, OthersStay DEF DecisionInv
  <2> QED
    BY <2>1, <2>2 DEF DecisionInv
<1>4. CASE pc' = [pc EXCEPT ![c] = "endpoint"] /\ failed' = [failed EXCEPT ![c] = TRUE]
  <2>1. pc'[c] = "endpoint"
    BY <1>4 DEF DecisionInv, Shape
  <2>2. /\ failed' \in [Callers -> BOOLEAN] /\ failed'[c]
        /\ \A d \in Callers : d # c => failed'[d] = failed[d]
    BY <1>4 DEF DecisionInv, Shape
  <2>3. UnderWay(c)' /\ AtHand(c)'
    BY <1>1, <2>1, <2>2 DEF UnderWay, AtHand
  <2>4. "endpoint" \in Stages
    BY DEF Stages
  <2> QED
    BY <1>2, <1>4, <2>2, <2>3, <2>4, GoesOnKeeps
<1> QED
  BY <1>3, <1>4 DEF _request

LEMMA PreflightKeeps ==
  ASSUME DecisionInv, NEW c \in Callers, require_mind(c)
  PROVE  DecisionInv'
<1>1. ask[c] \in Asks /\ ws[c] # <<>> /\ ask[c].llm
  BY DEF DecisionInv, UnderWay, require_mind
<1>2. UNCHANGED <<mix, file, now, cache, ask, ws, result>>
  BY DEF require_mind, world, caches
<1>3. PICK out \in Outcomes(pc[c]) :
        \/ _request(c, out)
        \/ pc' = [pc EXCEPT ![c] = After(@)] /\ UNCHANGED failed
  BY DEF require_mind
<1>4. CASE _request(c, out)
  BY <1>2, <1>4, RequestKeeps DEF require_mind
<1>5. CASE pc' = [pc EXCEPT ![c] = After(@)] /\ UNCHANGED failed
  <2>1. After(pc[c]) \in {"ready", "chat"}
    BY DEF require_mind, After
  <2>2. pc'[c] = After(pc[c]) /\ pc' = [pc EXCEPT ![c] = After(pc[c])]
    BY <1>5 DEF DecisionInv, Shape
  <2>3. UnderWay(c)' /\ AtHand(c)'
    BY <1>1, <1>2, <2>1, <2>2 DEF UnderWay, AtHand
  <2>4. /\ result' \in [Callers -> Results \cup {None}]
        /\ failed' \in [Callers -> BOOLEAN]
    BY <1>2, <1>5 DEF DecisionInv, Shape
  <2>5. After(pc[c]) \in Stages
    BY <2>1 DEF Stages
  <2> QED
    BY <1>2, <1>5, <2>2, <2>3, <2>4, <2>5, GoesOnKeeps
<1> QED
  BY <1>3, <1>4, <1>5

LEMMA ChatKeeps ==
  ASSUME DecisionInv, NEW c \in Callers, chat(c)
  PROVE  DecisionInv'
<1>1. ask[c] \in Asks /\ ws[c] # <<>> /\ ask[c].llm
  BY DEF DecisionInv, UnderWay, chat
<1>2. UNCHANGED <<mix, file, now, cache, ask, ws>>
  BY DEF chat, world, caches
<1>3. ASSUME NEW out \in Outcomes("chat"), _request(c, out), UNCHANGED result
      PROVE  DecisionInv'
  BY <1>2, <1>3, RequestKeeps DEF chat
<1>4. ASSUME NEW raw \in RawAnswers,
             result' = [result EXCEPT ![c] =
                          Result(c, TRUE, FALSE, raw, _parse_llm_answer(raw, ws[c]))],
             pc' = [pc EXCEPT ![c] = "probe"], UNCHANGED failed
      PROVE  DecisionInv'
  <2> DEFINE t == _parse_llm_answer(raw, ws[c])
             res == Result(c, TRUE, FALSE, raw, t)
  <2>1. t \in Triages /\ t = _parse_llm_answer(raw, ws[c])
    BY DEF Triages, DecisionInv, Shape
  <2>2. res \in Results /\ Answers(KeyOf(c), res)
    <3> HIDE DEF t
    <3> QED
      BY <1>1, <2>1, ResultAnswers DEF DecisionInv
  <2>3. FirstHand(res)
    BY DEF FirstHand, Result
  <2> HIDE DEF res
  <2>4. /\ result' \in [Callers -> Results \cup {None}] /\ result'[c] = res
        /\ \A d \in Callers : d # c => result'[d] = result[d]
    BY <1>4, <2>2 DEF DecisionInv, Shape, res
  <2>5. pc'[c] = "probe"
    BY <1>4 DEF DecisionInv, Shape
  <2>6. KeyOf(c)' = KeyOf(c)
    BY <1>2 DEF KeyOf, _triage_key
  <2>7. UnderWay(c)' /\ AtHand(c)'
    BY <1>1, <1>2, <2>2, <2>3, <2>4, <2>5, <2>6 DEF UnderWay, AtHand, Answers, FirstHand
  <2>8. "probe" \in Stages /\ failed' \in [Callers -> BOOLEAN]
    BY <1>4 DEF DecisionInv, Shape, Stages
  <2> QED
    BY <1>2, <1>4, <2>4, <2>7, <2>8, GoesOnKeeps
<1> QED
  BY <1>3, <1>4 DEF chat

LEMMA ActsKeeps ==
  ASSUME DecisionInv, NEW c \in Callers, Acts(c)
  PROVE  DecisionInv'
<1>1. UNCHANGED <<mix, file, now, cache>>
  BY DEF Acts, world, caches
<1>2. Shape'
  BY <1>1 DEF Acts, DecisionInv, Shape, Stages
<1>3. ASSUME NEW d \in Callers, d # c PROVE UnderWay(d)' /\ AtHand(d)'
  <2>1. <<pc[d], ask[d], ws[d], result[d], failed[d]>>'
          = <<pc[d], ask[d], ws[d], result[d], failed[d]>>
    BY <1>3 DEF Acts, DecisionInv, Shape
  <2> QED
    BY <2>1, OthersStay DEF DecisionInv
<1>4. pc'[c] = "idle"
  BY DEF Acts, DecisionInv, Shape
<1>5. UnderWay(c)' /\ AtHand(c)'
  BY <1>4 DEF UnderWay, AtHand
<1> QED
  BY <1>2, <1>3, <1>5 DEF DecisionInv

(* The world moves and nobody's call does.                                   *)
LEMMA WorldKeeps ==
  ASSUME DecisionInv, UNCHANGED <<mix, caches, locals>>, file' \in Files, now' \in Nat
  PROVE  DecisionInv'
<1>1. UNCHANGED <<mix, cache, pc, ask, ws, result, failed>>
  BY DEF caches, locals
<1>2. Shape'
  BY <1>1 DEF DecisionInv, Shape
<1>3. ASSUME NEW d \in Callers PROVE UnderWay(d)' /\ AtHand(d)'
  BY <1>1, OthersStay DEF DecisionInv
<1> QED
  BY <1>2, <1>3 DEF DecisionInv

LEMMA InvStarts == Init => DecisionInv
<1> SUFFICES ASSUME Init PROVE DecisionInv
  OBVIOUS
<1>1. Shape
  BY DEF Init, Shape, Stages
<1>2. \A c \in Callers : UnderWay(c) /\ AtHand(c)
  BY DEF Init, UnderWay, AtHand
<1> QED
  BY <1>1, <1>2 DEF DecisionInv

LEMMA InvIsKept == DecisionInv /\ [Next]_vars => DecisionInv'
<1> SUFFICES ASSUME DecisionInv, [Next]_vars PROVE DecisionInv'
  OBVIOUS
<1>1. CASE Tick
  <2>1. UNCHANGED <<mix, file, caches, locals>> /\ now' \in Nat
    BY <1>1 DEF Tick, DecisionInv, Shape
  <2> QED
    BY <2>1, WorldKeeps DEF DecisionInv, Shape
<1>2. CASE Change
  <2>1. UNCHANGED <<mix, now, caches, locals>> /\ file' \in Files
    BY <1>2 DEF Change, DecisionInv, Shape
  <2> QED
    BY <2>1, WorldKeeps DEF DecisionInv, Shape
<1>3. ASSUME NEW c \in Callers, decide_task(c) \/ Decides(c) \/ Acts(c)
      PROVE  DecisionInv'
  BY <1>3, AskKeeps, EndpointKeeps, PreflightKeeps, ChatKeeps, ProbeKeeps, ActsKeeps
     DEF Decides
<1>4. CASE UNCHANGED vars
  BY <1>4, WorldKeeps DEF vars, world, DecisionInv, Shape
<1> QED
  BY <1>1, <1>2, <1>3, <1>4 DEF Next

LEMMA InvSuffices == DecisionInv => AnswersFitTheAsk /\ FallbacksAreFirstHand
<1> SUFFICES ASSUME DecisionInv, NEW c \in Callers, Decided(c)
             PROVE  /\ result[c].head = ask[c].head
                    /\ result[c].worker \in ToSet(ws[c])
                    /\ ask[c].cfg # None => result[c].by \in {"mind", ask[c].cfg}
                    /\ result[c].by = "mind" => ask[c].llm
                    /\ result[c].fallback \/ ~result[c].ok => failed[c]
  BY DEF AnswersFitTheAsk, FallbacksAreFirstHand
<1>1. Answers(KeyOf(c), result[c]) /\ (FirstHand(result[c]) \/ failed[c])
  BY DEF DecisionInv, AtHand, Decided
<1> QED
  BY <1>1 DEF Answers, FirstHand, KeyOf, _triage_key

(* For any callers, asks, files, endpoints, clocks and sizes of the cache, a *)
(* decision answers its own caller's ask (decider.py decide_task with        *)
(* _triage_key, _triage_cached and _triage_store).                           *)
THEOREM DecisionsAreSound == Spec => []AnswersFitTheAsk
<1>1. DecisionInv => AnswersFitTheAsk
  BY InvSuffices
<1> QED
  BY <1>1, InvStarts, InvIsKept, PTL DEF Spec

(* Only a caller whose own request failed is given a fallback, whatever the  *)
(* others were given before (decider.py _triage_store and local_rule).       *)
THEOREM FallbacksAreOnesOwn == Spec => []FallbacksAreFirstHand
<1>1. DecisionInv => FallbacksAreFirstHand
  BY InvSuffices
<1> QED
  BY <1>1, InvStarts, InvIsKept, PTL DEF Spec

----------------------------------------------------------------------------
(* From the scores to the verdict.                                           *)

LEMMA ClampIs ==
  ASSUME NEW n \in Int, NEW high \in Nat
  PROVE  Clamp(n, high) = IF n < 0 THEN 0 ELSE IF n > high THEN high ELSE n
<1> DEFINE low == IF n > high THEN high ELSE n
<1>1. low \in Int /\ low \in {high, n} /\ \A y \in {high, n} : low <= y
  OBVIOUS
<1> HIDE DEF low
<1>2. Min({high, n}) \in {high, n} /\ \A y \in {high, n} : Min({high, n}) <= y
  BY <1>1 DEF Min
<1>3. Min({high, n}) = low
  BY <1>1, <1>2
<1> DEFINE top == IF low < 0 THEN 0 ELSE low
<1>4. top \in {0, low} /\ \A y \in {0, low} : top >= y
  BY <1>1
<1>5. Max({0, low}) \in {0, low} /\ \A y \in {0, low} : Max({0, low}) >= y
  <2> HIDE DEF top
  <2> QED
    BY <1>4 DEF Max
<1>6. Max({0, low}) = top
  BY <1>1, <1>4, <1>5
<1> QED
  BY <1>3, <1>6 DEF Clamp, low

LEMMA PolicyIsTyped ==
  ASSUME NEW raw, IsPolicy(raw)
  PROVE  LET pol == normalize_policy(raw)
         IN /\ pol["min_confidence"] \in 0..10
            /\ {pol["max_risk"], pol["max_priority_auto"]} \subseteq Int
            /\ {pol[k] : k \in Switches} \subseteq BOOLEAN
<1> DEFINE pol == normalize_policy(raw)
           word(k) == IF k \in DOMAIN raw THEN raw[k] ELSE DEFAULT_POLICY[k]
<1>1. DOMAIN DEFAULT_POLICY = Limits \cup Switches /\ IsPolicy(DEFAULT_POLICY)
  BY DeciderAssumption
<1>2. \A k \in Limits : word(k) \in Int
  BY <1>1 DEF IsPolicy
<1>3. \A k \in Switches : word(k) \in BOOLEAN
  BY <1>1 DEF IsPolicy
<1>4. pol = [k \in Limits \cup Switches |->
               IF k = "min_confidence" THEN Clamp(word(k), 10) ELSE word(k)]
  BY <1>1 DEF normalize_policy
<1> HIDE DEF pol, word
<1>5. pol["min_confidence"] = Clamp(word("min_confidence"), 10)
  BY <1>4 DEF Limits
<1>6. pol["min_confidence"] \in 0..10
  BY <1>2, <1>5, ClampIs DEF Limits
<1>7. {pol["max_risk"], pol["max_priority_auto"]} \subseteq Int
  BY <1>2, <1>4 DEF Limits
<1>8. \A k \in Switches : pol[k] = word(k)
  BY <1>4 DEF Switches
<1> QED
  BY <1>3, <1>6, <1>7, <1>8 DEF pol

(* What a policy that says chat has seen of the triage.                      *)
LEMMA ChatIsAdmitted ==
  ASSUME NEW t, NEW raw, evaluate(t, raw) = "chat", normalize_policy(raw)["enabled"]
  PROVE  LET pol == normalize_policy(raw)
         IN /\ DOMAIN t # {}
            /\ ~(Unclear(t) /\ pol["clarify_on_needs_clarification"])
            /\ ~Below(t, "worker_confidence", pol["min_confidence"])
            /\ ~(pol["escalate_on_high_risk"] /\ AtLeast(t, "risk", pol["max_risk"]))
            /\ ~AtLeast(t, "priority", pol["max_priority_auto"])
<1> DEFINE pol == normalize_policy(raw)
           unsure == \/ \E k \in {"worker_confidence", "tool_confidence"} :
                          Below(t, k, pol["min_confidence"])
                     \/ /\ Unclear(t)
                        /\ Below(t, "needs_clarification_confidence", pol["min_confidence"])
           doubt == (Unclear(t) /\ pol["clarify_on_needs_clarification"]) \/ unsure
           danger == \/ pol["escalate_on_high_risk"] /\ AtLeast(t, "risk", pol["max_risk"])
                     \/ AtLeast(t, "priority", pol["max_priority_auto"])
           empty == pol["enabled"] /\ DOMAIN t = {}
<1>1. evaluate(t, raw) =
        CASE ~pol["enabled"] -> "chat"
          [] empty -> "escalate"
          [] OTHER -> IF doubt THEN "clarify" ELSE IF danger THEN "escalate" ELSE "chat"
  BY DEF evaluate
<1>2. ~empty /\ ~doubt /\ ~danger
  <2> HIDE DEF pol, empty, doubt, danger
  <2>1. pol["enabled"]
    BY DEF pol
  <2> QED
    BY <1>1, <2>1
<1> QED
  BY <1>2

(* An LLM's answer that names what was offered, or has another field.        *)
Tells(raw, w) ==
  \E k \in DOMAIN raw : (k = "worker" => Names(raw, w)) /\ (k = "tool" => NamesTool(raw))

(* The LLM's scores as they were given, and as they were understood.         *)
LEMMA ParsedScores ==
  ASSUME NEW raw \in RawAnswers, NEW w
  PROVE  LET t == _parse_llm_answer(raw, w)
         IN /\ At(t, "needs_clarification") = At(raw, "needs_clarification")
            /\ \A k \in {"risk", "priority"} \cap DOMAIN raw :
                 k \in DOMAIN t /\ raw[k] \in Int /\ t[k] = Clamp(raw[k], 30)
            /\ "confidence" \in DOMAIN raw =>
                 /\ "worker_confidence" \in DOMAIN t /\ raw["confidence"] \in Int
                 /\ t["worker_confidence"] = Clamp(raw["confidence"], 10)
            /\ DOMAIN t # {} => Tells(raw, w)
<1> DEFINE t == _parse_llm_answer(raw, w)
           keys == (DOMAIN raw \ {"confidence", "worker", "tool"})
                   \cup (IF Names(raw, w) THEN {"worker"} ELSE {})
                   \cup (IF NamesTool(raw) THEN {"tool"} ELSE {})
                   \cup (IF "confidence" \in DOMAIN raw
                         THEN {"worker_confidence", "tool_confidence"} ELSE {})
<1>1. IsAnswer(raw)
  BY DeciderAssumption
<1>2. t = [k \in keys |->
             CASE k \in {"risk", "priority"} -> Clamp(raw[k], 30)
               [] k \in {"worker_confidence", "tool_confidence"} -> Clamp(raw["confidence"], 10)
               [] OTHER -> raw[k]]
  BY DEF _parse_llm_answer
<1> HIDE DEF t
<1>3. At(t, "needs_clarification") = At(raw, "needs_clarification")
  BY <1>2 DEF At
<1>4. \A k \in {"risk", "priority"} \cap DOMAIN raw :
        k \in DOMAIN t /\ raw[k] \in Int /\ t[k] = Clamp(raw[k], 30)
  BY <1>1, <1>2 DEF IsAnswer
<1>5. ASSUME "confidence" \in DOMAIN raw
      PROVE  /\ "worker_confidence" \in DOMAIN t /\ raw["confidence"] \in Int
             /\ t["worker_confidence"] = Clamp(raw["confidence"], 10)
  BY <1>1, <1>2, <1>5 DEF IsAnswer
<1>6. ASSUME DOMAIN t # {} PROVE Tells(raw, w)
  <2>1. PICK k \in keys : TRUE
    BY <1>2, <1>6
  <2>2. CASE k = "worker" /\ Names(raw, w)
    BY <2>2 DEF Names, Tells
  <2>5. CASE k = "tool" /\ NamesTool(raw)
    BY <2>5 DEF NamesTool, Tells
  <2>3. CASE k \in DOMAIN raw \ {"worker", "tool"}
    BY <2>3 DEF Tells
  <2>4. CASE "confidence" \in DOMAIN raw
    BY <2>4 DEF Tells
  <2> QED
    BY <2>1, <2>2, <2>3, <2>4, <2>5
<1> QED
  BY <1>3, <1>4, <1>5, <1>6 DEF t

LEMMA ClearedByMind ==
  ASSUME NEW raw \in RawAnswers, NEW w, NEW p, IsPolicy(p), normalize_policy(p)["enabled"],
         evaluate(_parse_llm_answer(raw, w), p) = "chat"
  PROVE  LET pol == normalize_policy(p)
         IN /\ Tells(raw, w)
            /\ At(raw, "needs_clarification") = TRUE => ~pol["clarify_on_needs_clarification"]
            /\ pol["min_confidence"] > 0 => ~Below(raw, "confidence", pol["min_confidence"])
            /\ pol["escalate_on_high_risk"] /\ pol["max_risk"] <= 30 =>
                 ~AtLeast(raw, "risk", pol["max_risk"])
            /\ pol["max_priority_auto"] <= 30 =>
                 ~AtLeast(raw, "priority", pol["max_priority_auto"])
<1> DEFINE pol == normalize_policy(p)
           t == _parse_llm_answer(raw, w)
<1>1. /\ DOMAIN t # {}
      /\ ~(Unclear(t) /\ pol["clarify_on_needs_clarification"])
      /\ ~Below(t, "worker_confidence", pol["min_confidence"])
      /\ ~(pol["escalate_on_high_risk"] /\ AtLeast(t, "risk", pol["max_risk"]))
      /\ ~AtLeast(t, "priority", pol["max_priority_auto"])
  BY ChatIsAdmitted
<1>2. /\ At(t, "needs_clarification") = At(raw, "needs_clarification")
      /\ \A k \in {"risk", "priority"} \cap DOMAIN raw :
           k \in DOMAIN t /\ raw[k] \in Int /\ t[k] = Clamp(raw[k], 30)
      /\ "confidence" \in DOMAIN raw =>
           /\ "worker_confidence" \in DOMAIN t /\ raw["confidence"] \in Int
           /\ t["worker_confidence"] = Clamp(raw["confidence"], 10)
      /\ DOMAIN t # {} => Tells(raw, w)
  BY ParsedScores
<1>3. /\ pol["min_confidence"] \in 0..10
      /\ pol["max_risk"] \in Int /\ pol["max_priority_auto"] \in Int
  BY PolicyIsTyped
<1> HIDE DEF pol, t
<1>4. Tells(raw, w)
  BY <1>1, <1>2
<1>5. At(raw, "needs_clarification") = TRUE => ~pol["clarify_on_needs_clarification"]
  BY <1>1, <1>2 DEF Unclear
<1>6. ASSUME pol["min_confidence"] > 0 PROVE ~Below(raw, "confidence", pol["min_confidence"])
  <2> SUFFICES ASSUME "confidence" \in DOMAIN raw PROVE ~(raw["confidence"] < pol["min_confidence"])
    BY DEF Below
  <2>1. ~(Clamp(raw["confidence"], 10) < pol["min_confidence"])
    BY <1>1, <1>2 DEF Below
  <2>2. Clamp(raw["confidence"], 10) =
          IF raw["confidence"] < 0 THEN 0 ELSE IF raw["confidence"] > 10 THEN 10 ELSE raw["confidence"]
    BY <1>2, ClampIs
  <2> QED
    BY <1>2, <1>3, <1>6, <2>1, <2>2
<1>7. ASSUME NEW k \in {"risk", "priority"}, NEW limit \in Int, limit <= 30,
             ~AtLeast(t, k, limit)
      PROVE  ~AtLeast(raw, k, limit)
  <2> SUFFICES ASSUME k \in DOMAIN raw PROVE ~(raw[k] >= limit)
    BY DEF AtLeast
  <2>1. ~(Clamp(raw[k], 30) >= limit) /\ raw[k] \in Int
    BY <1>2, <1>7 DEF AtLeast
  <2>2. Clamp(raw[k], 30) = IF raw[k] < 0 THEN 0 ELSE IF raw[k] > 30 THEN 30 ELSE raw[k]
    BY <2>1, ClampIs
  <2> QED
    BY <1>7, <2>1, <2>2
<1>8. pol["escalate_on_high_risk"] /\ pol["max_risk"] <= 30 =>
        ~AtLeast(raw, "risk", pol["max_risk"])
  BY <1>1, <1>3, <1>7
<1>9. pol["max_priority_auto"] <= 30 => ~AtLeast(raw, "priority", pol["max_priority_auto"])
  BY <1>1, <1>3, <1>7
<1> QED
  BY <1>4, <1>5, <1>6, <1>8, <1>9 DEF pol

(* An endpoint's scores are taken as they are.                               *)
LEMMA ClearedByEndpoint ==
  ASSUME NEW s \in Scores, NEW p, normalize_policy(p)["enabled"], evaluate(Scored(s), p) = "chat"
  PROVE  LET pol == normalize_policy(p)
         IN /\ \E k \in DOMAIN s : k \notin {"worker", "tool"}
            /\ At(s, "needs_clarification") = TRUE => ~pol["clarify_on_needs_clarification"]
            /\ ~Below(s, "confidence", pol["min_confidence"])
            /\ pol["escalate_on_high_risk"] => ~AtLeast(s, "risk", pol["max_risk"])
            /\ ~AtLeast(s, "priority", pol["max_priority_auto"])
<1> DEFINE pol == normalize_policy(p)
           t == Scored(s)
<1>1. /\ DOMAIN t # {}
      /\ ~(Unclear(t) /\ pol["clarify_on_needs_clarification"])
      /\ ~(pol["escalate_on_high_risk"] /\ AtLeast(t, "risk", pol["max_risk"]))
      /\ ~AtLeast(t, "priority", pol["max_priority_auto"])
  BY ChatIsAdmitted
<1>2. /\ DOMAIN t = DOMAIN s \ {"worker"}
      /\ \A k \in DOMAIN s \ {"worker"} : t[k] = s[k]
  BY DEF Scored
<1>3. "confidence" \notin DOMAIN s /\ "tool" \notin DOMAIN s
  BY DeciderAssumption DEF IsScore
<1> HIDE DEF pol, t
<1>4. At(t, "needs_clarification") = At(s, "needs_clarification")
  BY <1>2 DEF At
<1>5. \A k \in {"risk", "priority"} : \A limit : AtLeast(s, k, limit) => AtLeast(t, k, limit)
  BY <1>2 DEF AtLeast
<1> QED
  BY <1>1, <1>2, <1>3, <1>4, <1>5 DEF Unclear, Below, pol

LEMMA InvClears == DecisionInv => ChatsAreCleared
<1> DEFINE pol(c) == normalize_policy(ask[c].policy)
           raw(c) == result[c].raw
           Cleared(c) ==
             /\ Understood(c)
             /\ At(raw(c), "needs_clarification") = TRUE =>
                  ~pol(c)["clarify_on_needs_clarification"]
             /\ pol(c)["min_confidence"] > 0 =>
                  ~Below(raw(c), "confidence", pol(c)["min_confidence"])
             /\ pol(c)["escalate_on_high_risk"] /\ Holds(c, pol(c)["max_risk"]) =>
                  ~AtLeast(raw(c), "risk", pol(c)["max_risk"])
             /\ Holds(c, pol(c)["max_priority_auto"]) =>
                  ~AtLeast(raw(c), "priority", pol(c)["max_priority_auto"])
<1>1. SUFFICES ASSUME DecisionInv, NEW c \in Callers, Decided(c),
                      ask[c].evaluator = "injected", Verdict(c) = "chat", pol(c)["enabled"]
               PROVE  Cleared(c)
  BY DEF ChatsAreCleared
<1>2. ask[c] \in Asks /\ Honest(result[c], ws[c])
  BY <1>1 DEF DecisionInv, UnderWay, AtHand, Decided, Answers, KeyOf, _triage_key
<1>3. IsPolicy(ask[c].policy)
  BY <1>2, DeciderAssumption DEF IsAsk
<1>4. triage(c) = "chat"
  BY <1>1 DEF Verdict, route
<1>5. evaluate(result[c].decision, ask[c].policy) = "chat"
  BY <1>1, <1>4 DEF triage, _entry_policy
<1>6. CASE /\ result[c].by = "mind" /\ raw(c) \in RawAnswers
           /\ result[c].decision = _parse_llm_answer(raw(c), ws[c])
  <2> USE <1>1, <1>3, <1>5, <1>6
  <2>1. /\ Tells(raw(c), ws[c])
        /\ At(raw(c), "needs_clarification") = TRUE => ~pol(c)["clarify_on_needs_clarification"]
        /\ pol(c)["min_confidence"] > 0 => ~Below(raw(c), "confidence", pol(c)["min_confidence"])
        /\ pol(c)["escalate_on_high_risk"] /\ pol(c)["max_risk"] <= 30 =>
             ~AtLeast(raw(c), "risk", pol(c)["max_risk"])
        /\ pol(c)["max_priority_auto"] <= 30 =>
             ~AtLeast(raw(c), "priority", pol(c)["max_priority_auto"])
    BY ClearedByMind
  <2> QED
    BY <2>1 DEF Understood, Tells, Holds
<1>7. CASE result[c].by # "mind" /\ raw(c) \in Scores /\ result[c].decision = Scored(raw(c))
  <2> USE <1>1, <1>5, <1>7
  <2>1. /\ \E k \in DOMAIN raw(c) : k \notin {"worker", "tool"}
        /\ At(raw(c), "needs_clarification") = TRUE => ~pol(c)["clarify_on_needs_clarification"]
        /\ ~Below(raw(c), "confidence", pol(c)["min_confidence"])
        /\ pol(c)["escalate_on_high_risk"] => ~AtLeast(raw(c), "risk", pol(c)["max_risk"])
        /\ ~AtLeast(raw(c), "priority", pol(c)["max_priority_auto"])
    BY ClearedByEndpoint
  <2> QED
    BY <2>1 DEF Understood
<1>8. CASE result[c].decision = <<>>
  <2>1. DOMAIN <<>> # {}
    BY <1>1, <1>5, <1>8, ChatIsAdmitted
  <2> QED
    BY <2>1
<1> QED
  BY <1>2, <1>6, <1>7, <1>8 DEF Honest

(* For any answers of the LLM and of the endpoint and any policies, no chat  *)
(* starts on a score past the policy's limits, or on an answer of which      *)
(* nothing was understood, whichever call it was scored in (decider.py       *)
(* _parse_llm_answer, policy.py evaluate, triage.py route and triage).       *)
THEOREM ChatsStayCleared == Spec => []ChatsAreCleared
<1> QED
  BY InvClears, InvStarts, InvIsKept, PTL DEF Spec

----------------------------------------------------------------------------
(* The cache never outgrows its bound and has one entry per key; attempts    *)
(* are counted to their limit.                                               *)

Small(s) == Len(s) <= CACHE_MAX /\ \A i, j \in DOMAIN s : s[i].key = s[j].key => i = j

Fits ==
  /\ up \subseteq Backends /\ now \in 0..MaxTime /\ Small(cache)
  /\ tries \in [Callers -> 0..max_retries + 1]
  /\ \A c \in Callers : ask[c] \in mix \cup {None}

LEMMA PoppedIsSmall ==
  ASSUME Shape, NEW key, _triage_cached(key), Small(cache)
  PROVE  Small(cache')
<1>1. CASE Fresh(key) = {} /\ Places(key) # {}
  <2> DEFINE n == Min(Places(key))
  <2>1. Places(key) \in SUBSET Nat
    BY DEF Shape, Places
  <2>2. n \in Places(key)
    BY <1>1, <2>1, MinIn
  <2>3. n \in 1..Len(cache) /\ Len(cache) \in Nat
    BY <2>2 DEF Shape, Places
  <2>4. cache' = RemoveAt(cache, n)
    BY <1>1 DEF _triage_cached
  <2> HIDE DEF n
  <2>5. /\ Len(cache') = Len(cache) - 1 /\ DOMAIN cache' = 1..Len(cache) - 1
        /\ \A i \in DOMAIN cache' : cache'[i] = cache[IF i < n THEN i ELSE i + 1]
    <3>1. cache \in Seq(Kept)
      BY DEF Shape
    <3>2. /\ Len(cache') = Len(cache) - 1
          /\ \A i \in 1..(Len(cache) - 1) : cache'[i] = cache[IF i < n THEN i ELSE i + 1]
      <4> DEFINE front == SubSeq(cache, 1, n - 1)
                 rest == SubSeq(cache, n + 1, Len(cache))
      <4>1. front \in Seq(Kept) /\ Len(front) = n - 1 /\ \A i \in 1..(n - 1) : front[i] = cache[i]
        BY <2>3, <3>1
      <4>2. /\ rest \in Seq(Kept) /\ Len(rest) = Len(cache) - n
            /\ \A i \in 1..(Len(cache) - n) : rest[i] = cache[n + i]
        BY <2>3, <3>1
      <4>3. cache' = front \o rest
        BY <2>4 DEF RemoveAt
      <4> HIDE DEF front, rest
      <4> DEFINE m == n - 1
      <4>4. m \in Nat /\ n = m + 1 /\ Len(cache) - n \in Nat
        BY <2>3
      <4>5. /\ Len(front \o rest) = Len(front) + Len(rest)
            /\ \A i \in 1..(Len(front) + Len(rest)) :
                 (front \o rest)[i] = IF i <= Len(front) THEN front[i] ELSE rest[i - Len(front)]
        BY <4>1, <4>2
      <4>6. Len(front) + Len(rest) = Len(cache) - 1
        BY <2>3, <4>1, <4>2
      <4>7. ASSUME NEW i \in 1..(Len(cache) - 1)
            PROVE  (IF i <= Len(front) THEN front[i] ELSE rest[i - Len(front)])
                   = cache[IF i < n THEN i ELSE i + 1]
        <5>1. CASE i < n
          BY <2>3, <4>1, <5>1
        <5>2. CASE ~(i < n)
          <6>1. i - Len(front) \in 1..(Len(cache) - n) /\ n + (i - Len(front)) = i + 1
            BY <2>3, <4>1, <5>2
          <6>2. ~(i <= Len(front))
            BY <2>3, <4>1, <5>2
          <6> QED
            BY <4>2, <5>2, <6>1, <6>2
        <5> QED
          BY <5>1, <5>2
      <4> QED
        BY <4>3, <4>5, <4>6, <4>7
    <3>3. DOMAIN cache' = 1..(Len(cache) - 1)
      BY <3>2, PoppedIsKept
    <3> QED
      BY <3>2, <3>3
  <2>6. CACHE_MAX \in Nat
    BY DeciderAssumption
  <2>7. ASSUME NEW i \in DOMAIN cache', NEW j \in DOMAIN cache', cache'[i].key = cache'[j].key
        PROVE  i = j
    <3> DEFINE at(k) == IF k < n THEN k ELSE k + 1
    <3>1. at(i) \in 1..Len(cache) /\ at(j) \in 1..Len(cache)
      BY <2>3, <2>5
    <3>2. at(i) = at(j)
      BY <2>5, <2>7, <3>1 DEF Small, Shape
    <3> QED
      BY <2>3, <2>5, <3>2
  <2> QED
    BY <2>3, <2>5, <2>6, <2>7 DEF Small
<1>2. CASE ~(Fresh(key) = {} /\ Places(key) # {})
  BY <1>2 DEF _triage_cached
<1> QED
  BY <1>1, <1>2

LEMMA StoredIsSmall ==
  ASSUME Shape, NEW key, NEW res, _triage_store(key, res), Small(cache)
  PROVE  Small(cache')
<1> DEFINE room == IF Len(cache) >= CACHE_MAX THEN Tail(cache) ELSE cache
           entry == [key |-> key, result |-> res, stamp |-> now]
           places == {i \in DOMAIN room : room[i].key = key}
<1>1. CACHE_MAX \in Nat \ {0}
  BY DeciderAssumption
<1>2. Len(cache) \in Nat /\ DOMAIN cache = 1..Len(cache) /\ cache \in Seq(Kept)
  BY DEF Shape
<1>3. /\ room \in Seq(Kept) /\ Len(room) < CACHE_MAX
      /\ \A i, j \in DOMAIN room : room[i].key = room[j].key => i = j
  <2>1. CASE Len(cache) >= CACHE_MAX
    <3>1. Len(cache) = CACHE_MAX
      <4>1. Len(cache) <= CACHE_MAX
        BY DEF Small
      <4>2. \A m \in Nat : m <= CACHE_MAX /\ m >= CACHE_MAX => m = CACHE_MAX
        BY <1>1
      <4> QED
        BY <1>2, <2>1, <4>1, <4>2
    <3>2. /\ room = Tail(cache) /\ room \in Seq(Kept) /\ Len(room) = Len(cache) - 1
          /\ \A i \in 1..Len(cache) - 1 : room[i] = cache[i + 1]
      BY <1>1, <1>2, <2>1, <3>1
    <3> HIDE DEF room
    <3>3. DOMAIN room = 1..Len(cache) - 1
      BY <3>2
    <3>4. ASSUME NEW i \in DOMAIN room, NEW j \in DOMAIN room, room[i].key = room[j].key
          PROVE  i = j
      <4>1. i + 1 \in 1..Len(cache) /\ j + 1 \in 1..Len(cache)
        BY <1>2, <3>3
      <4>2. i + 1 = j + 1
        BY <1>2, <3>2, <3>3, <3>4, <4>1 DEF Small
      <4> QED
        BY <1>2, <3>3, <4>2
    <3> QED
      BY <1>1, <3>1, <3>2, <3>4
  <2>2. CASE ~(Len(cache) >= CACHE_MAX)
    BY <1>1, <1>2, <2>2 DEF Small
  <2> QED
    BY <2>1, <2>2
<1>4. CASE ~res.ok \/ res.fallback
  BY <1>4 DEF _triage_store
<1>5. CASE ~(~res.ok \/ res.fallback)
  <2>1. cache' = IF places # {} THEN [room EXCEPT ![Min(places)] = entry]
                 ELSE Append(room, entry)
    BY <1>5 DEF _triage_store
  <2>2. entry.key = key
    OBVIOUS
  <2> HIDE DEF room, entry
  <2>3. Len(room) \in Nat /\ DOMAIN room = 1..Len(room)
    BY <1>3
  <2>4. CASE places # {}
    <3> DEFINE n == Min(places)
    <3>1. places \in SUBSET Nat
      BY <2>3
    <3>2. n \in places
      BY <2>4, <3>1, MinIn
    <3>3. n \in DOMAIN room /\ room[n].key = key
      BY <3>2
    <3> HIDE DEF n
    <3>4. cache' = [room EXCEPT ![n] = entry]
      BY <2>1, <2>4 DEF n
    <3>5. /\ Len(cache') = Len(room) /\ DOMAIN cache' = DOMAIN room
          /\ \A i \in DOMAIN room : cache'[i].key = room[i].key
      BY <1>3, <2>2, <3>3, <3>4
    <3> QED
      BY <1>1, <1>3, <2>3, <3>5 DEF Small
  <2>5. CASE places = {}
    <3>1. cache' = Append(room, entry)
      BY <2>1, <2>5
    <3>2. /\ Len(cache') = Len(room) + 1 /\ DOMAIN cache' = 1..Len(room) + 1
          /\ \A i \in DOMAIN room : cache'[i] = room[i]
          /\ cache'[Len(room) + 1] = entry
      BY <1>3, <2>3, <3>1
    <3>3. \A i \in DOMAIN room : room[i].key # key
      BY <2>5
    <3>4. ASSUME NEW i \in DOMAIN cache', NEW j \in DOMAIN cache', cache'[i].key = cache'[j].key
          PROVE  i = j
      <4>1. (i \in DOMAIN room \/ i = Len(room) + 1) /\ (j \in DOMAIN room \/ j = Len(room) + 1)
        BY <2>3, <3>2
      <4> QED
        BY <1>3, <2>2, <3>2, <3>3, <3>4, <4>1
    <3>5. Len(cache') <= CACHE_MAX
      BY <1>1, <1>3, <2>3, <3>2
    <3> QED
      BY <3>4, <3>5 DEF Small
  <2> QED
    BY <2>4, <2>5
<1> QED
  BY <1>4, <1>5

LEMMA FitsIsKept == DecisionInv /\ Fits /\ [Next]_vars => Fits'
<1> SUFFICES ASSUME DecisionInv, Fits, [Next]_vars PROVE Fits'
  OBVIOUS
<1> USE DEF DecisionInv
<1>1. {max_retries, MaxTime} \subseteq Nat
  BY DeciderAssumption
<1>2. ASSUME NEW c \in Callers, NEW n \in 0..max_retries + 1, tries' = [tries EXCEPT ![c] = n]
      PROVE  tries' \in [Callers -> 0..max_retries + 1]
  BY <1>2 DEF Fits
<1>3. 0 \in 0..max_retries + 1 /\ 1 \in 0..max_retries + 1
  BY <1>1
<1>4. CASE Tick
  BY <1>1, <1>4 DEF Tick, Fits, caches, locals
<1>5. CASE Change
  BY <1>5 DEF Change, Fits, caches, locals, Backends
<1>6. ASSUME NEW c \in Callers, decide_task(c) PROVE Fits'
  <2>1. UNCHANGED world
    BY <1>6 DEF decide_task
  <2>2. Small(cache')
    BY <1>6, PoppedIsSmall DEF decide_task, Fits
  <2>3. tries' \in [Callers -> 0..max_retries + 1]
    BY <1>2, <1>3, <1>6 DEF decide_task, Fits
  <2>4. \A d \in Callers : ask'[d] \in mix \cup {None}
    BY <1>6 DEF decide_task, Fits, Shape
  <2> QED
    BY <2>1, <2>2, <2>3, <2>4 DEF Fits, world
<1>7. ASSUME NEW c \in Callers, local_rule(c) \/ endpoint_live(c) PROVE Fits'
  <2>1. UNCHANGED <<world, ask>>
    BY <1>7 DEF local_rule, endpoint_live
  <2>2. Small(cache')
    BY <1>7, StoredIsSmall DEF local_rule, endpoint_live, Fits
  <2>3. tries' = [tries EXCEPT ![c] = 0]
    BY <1>7 DEF local_rule, endpoint_live, Done
  <2> QED
    BY <1>2, <1>3, <2>1, <2>2, <2>3 DEF Fits, world
<1>8. ASSUME NEW c \in Callers, require_mind(c) \/ chat(c) PROVE Fits'
  <2>1. UNCHANGED <<world, caches, ask>>
    BY <1>8 DEF require_mind, chat
  <2>2. tries[c] \in 0..max_retries + 1
    BY DEF Fits
  <2>3. \/ tries' = [tries EXCEPT ![c] = 1] \/ UNCHANGED tries
        \/ tries[c] <= max_retries /\ tries' = [tries EXCEPT ![c] = tries[c] + 1]
    BY <1>8 DEF require_mind, chat, _request
  <2>4. tries' \in [Callers -> 0..max_retries + 1]
    <3>1. CASE tries[c] <= max_retries /\ tries' = [tries EXCEPT ![c] = tries[c] + 1]
      <4>1. tries[c] + 1 \in 0..max_retries + 1
        BY <1>1, <2>2, <3>1
      <4> QED
        BY <1>2, <3>1, <4>1
    <3> QED
      BY <1>2, <1>3, <2>3, <3>1 DEF Fits
  <2> QED
    BY <2>1, <2>4 DEF Fits, world, caches
<1>9. ASSUME NEW c \in Callers, Acts(c) PROVE Fits'
  BY <1>9 DEF Acts, Fits, world, caches, Shape
<1>10. CASE UNCHANGED vars
  BY <1>10 DEF vars, world, caches, locals, Fits
<1> QED
  BY <1>4, <1>5, <1>6, <1>7, <1>8, <1>9, <1>10 DEF Next, Decides

(* For any sizes of the cache, attempts and clocks, every variable has its   *)
(* type: the cache keeps to its bound with one entry per key, a request to   *)
(* its attempts, and whoever decided has a result (decider.py _triage_store, *)
(* client.py _request).                                                      *)
THEOREM DecisionsAreTyped == Spec => []TypeOK
<1>1. Init => Fits
  <2> SUFFICES ASSUME Init PROVE Fits
    OBVIOUS
  <2>1. {max_retries, MaxTime, CACHE_MAX} \subseteq Nat
    BY DeciderAssumption
  <2>2. Small(cache)
    BY <2>1 DEF Init, Small
  <2> QED
    BY <2>1, <2>2 DEF Init, Fits
<1>2. DecisionInv /\ Fits => TypeOK
  <2> SUFFICES ASSUME DecisionInv, Fits PROVE TypeOK
    OBVIOUS
  <2>1. ASSUME NEW c \in Callers, pc[c] \in {"probe", "decided"}
        PROVE  {result[c].ok, result[c].fallback} \subseteq BOOLEAN /\ result[c].worker \in STRING
    BY <2>1 DEF DecisionInv, AtHand, Results
  <2> QED
    BY <2>1 DEF TypeOK, Fits, Small, DecisionInv, Shape
<1> QED
  BY <1>1, <1>2, InvStarts, InvIsKept, FitsIsKept, PTL DEF Spec
=============================================================================
