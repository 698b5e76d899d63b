------------------------- MODULE NebulonStoreProofs -------------------------
(***************************************************************************)
(* Proofs about NebulonStore, for any number of threads, tasks, keys,      *)
(* deaths, refused, lost and duplicated inserts: the durable store         *)
(* implements the port, no history forks, no update is lost, what a caller *)
(* was given stays readable, and a finished recovery leaves no run RUNNING *)
(* that it found RUNNING.                                                  *)
(***************************************************************************)
EXTENDS NebulonStore, FiniteSetTheorems, SequenceTheorems,
        WellFoundedInduction, TLAPS

(* Some stored run precedes r along a legal edge.                            *)
Follows(st, r) ==
  \E p \in Range(st.runs) : /\ p.task = r.task
                            /\ p.version + 1 = r.version
                            /\ can_transition(p.state, r.state)

(* The snapshots of a segment: every version below a snapshot's is there,    *)
(* and each follows its predecessor.                                         *)
RunsLegal(st) ==
  \A r \in Range(st.runs) :
    /\ r.version <= MaxVersion + 1
    /\ IF r.version = 0 THEN r = FirstRun(r.task) ELSE Follows(st, r)
    /\ \A v \in 0..r.version : \E p \in Range(st.runs) : p.task = r.task /\ p.version = v

(* An event's embedded run follows a snapshot of the same segments, so the   *)
(* runs still to be healed are one version above the latest snapshot.        *)
EventsFollow(st) ==
  \A e \in Range(st.events) : e.run # None =>
    /\ e.run.task = e.task
    /\ e.run.version <= MaxVersion + 1
    /\ Follows(st, e.run)

(* r is the run that healing task t would write next.                        *)
HealsTo(st, t, r) ==
  \E i \in Unhealed(st, t) : /\ \A j \in Unhealed(st, t) : Before(st, i, j)
                             /\ st.events[i].run = r

(* A snapshot the live process does not know is the one it would write next. *)
OnlyLostRuns ==
  up => \A r \in Range(server.runs) :
          \/ r \in Range(cache.runs)
          \/ r.version = 0 /\ RunsOf(cache, r.task) = {}
          \/ HealsTo(cache, r.task, r)

StoredHistory ==
  /\ Range(cache.runs) \subseteq Range(server.runs)
  /\ RunsLegal(server) /\ RunsLegal(cache)
  /\ EventsFollow(server) /\ EventsFollow(cache)
  /\ OneRunPerVersion
  /\ OnlyLostRuns

SeenIsStored ==
  \A c \in Threads : seen[c] # None =>
    /\ seen[c] \in Range(server.runs)
    /\ up => seen[c] \in Range(cache.runs)

(* What the operation that holds the lock relies on.                         *)
OpFits ==
  op # None =>
    /\ up
    /\ op.kind \in {"createRun", "createEvent"} => op.who \in Clients
    /\ op.kind = "createEvent" => FirstRun(op.task) \in Range(cache.runs)
    /\ op.kind \in {"transition", "snapshot"} =>
         seen[op.who] # None /\ seen[op.who].task = op.task
    /\ op.kind = "transition" =>
         seen[op.who].version = op.expected /\ op.expected <= MaxVersion
    /\ op.kind = "snapshot" =>
         /\ op.run.task = op.task
         /\ op.run.version = seen[op.who].version + 1
         /\ op.run.version <= MaxVersion + 1
         /\ can_transition(seen[op.who].state, op.run.state)
         /\ \A q \in RunsOf(server, op.task) : q.version <= seen[op.who].version
         /\ HealsTo(cache, op.task, op.run)

HistoryInv ==
  /\ StoredHistory
  /\ SeenIsStored
  /\ OpFits
  /\ ~up => op = None /\ cache = NoDocs

(* The recovery reads the tasks on its list and blocks what it read RUNNING.  *)
RecovererFits ==
  op # None /\ op.who = Recoverer =>
    /\ recovery = "running"
    /\ op.task \in stuck
    /\ op.kind = "get" => seen[Recoverer] = None
    /\ op.kind = "transition" => op.to = "blocked" /\ seen[Recoverer].state = "running"

(* A run recover_incomplete found RUNNING is on its list as long as no       *)
(* snapshot above it is stored.                                              *)
RecoveryInv ==
  /\ stale \subseteq Range(server.runs)
  /\ recovery # "idle" => up /\ stale \subseteq Range(cache.runs)
  /\ \A r \in stale : r.state = "running"
  /\ recovery = "idle" => stuck = {} /\ seen[Recoverer] = None
  /\ recovery = "done" => stuck = {}
  /\ seen[Recoverer] # None =>
       /\ recovery = "running"
       /\ seen[Recoverer].task \in stuck
       /\ \A r \in stale : r.task = seen[Recoverer].task
                             => r.version <= seen[Recoverer].version
  /\ RecovererFits
  /\ recovery # "idle" =>
       \A r \in stale : \/ r.task \in stuck
                        \/ \E q \in RunsOf(server, r.task) : r.version < q.version

(* The segments hold as many events of a task as their highest number says.  *)
Numbered(st, t) ==
  \A i \in EventsOf(st, t) : st.events[i].seq <= Cardinality(EventsOf(st, t))

SeqInv ==
  \A t \in Ids : /\ Numbered(cache, t) /\ Numbered(server, t)
                 /\ Cardinality(EventsOf(cache, t)) <= Cardinality(EventsOf(server, t))

(* The documents of the server: one task per key, one event per id of a task *)
(* that is stored, one result per attempt.                                   *)
DocsStored ==
  /\ \A i, j \in DOMAIN server.tasks :
       server.tasks[i].key = server.tasks[j].key => i = j
  /\ \A e \in Range(server.events) : Known(server, e.task)
  /\ EventIdsUnique
  /\ OneResultPerAttempt

(* While every answer arrives, the live process knows all documents.         *)
DocsInv ==
  /\ up => cache = server
  /\ DocsStored
  /\ \A k \in Keys : \A t \in resolved[k] : [task |-> t, key |-> k] \in Range(server.tasks)
  /\ op # None =>
       /\ Known(server, op.task)
       /\ op.kind \in {"createRun", "createEvent"} =>
            /\ [task |-> op.task, key |-> op.key] \in Range(server.tasks)
            /\ EventsOf(server, op.task) = {}

-----------------------------------------------------------------------------
(* What an insert does to a segment.                                         *)

LEMMA Constants ==
  /\ None \notin RunDoc /\ None \notin AttemptNos /\ None \notin OpType
  /\ MaxVersion \in Nat /\ 1 \in AttemptNos /\ AttemptNos \subseteq Nat
  /\ Targets \subseteq States /\ "blocked" \in States /\ "running" \in States
  /\ Recoverer \in Threads /\ Recoverer \notin Clients /\ Clients \subseteq Threads
  /\ \A t \in Ids : FirstRun(t) \in RunDoc /\ FirstRun(t).version = 0 /\ FirstRun(t).task = t
BY NebulonStoreAssumption, NoneIsNoOp DEF RunDoc, States, Threads, FirstRun

LEMMA Segment ==
  ASSUME NEW D, NEW s \in Seq(D), NEW d \in D
  PROVE  /\ Append(s, d) \in Seq(D)
         /\ DOMAIN s = 1..Len(s) /\ Len(s) \in Nat
         /\ DOMAIN Append(s, d) = 1..(Len(s) + 1)
         /\ \A i \in DOMAIN s : Append(s, d)[i] = s[i]
         /\ Append(s, d)[Len(s) + 1] = d
         /\ Range(Append(s, d)) = Range(s) \cup {d}
<1>1. /\ Append(s, d) \in Seq(D)
      /\ DOMAIN s = 1..Len(s) /\ Len(s) \in Nat
      /\ DOMAIN Append(s, d) = 1..(Len(s) + 1)
      /\ \A i \in DOMAIN s : Append(s, d)[i] = s[i]
      /\ Append(s, d)[Len(s) + 1] = d
  BY AppendProperties, LenProperties
<1>2. Range(Append(s, d)) = Range(s) \cup {d}
  BY <1>1 DEF Range
<1> QED
  BY <1>1, <1>2

LEMMA SegmentRange ==
  ASSUME NEW D, NEW s \in Seq(D)
  PROVE  /\ Range(s) \subseteq D
         /\ IsFiniteSet(DOMAIN s) /\ IsFiniteSet(Range(s))
         /\ \A i \in DOMAIN s : i \in Nat /\ s[i] \in D
<1>1. DOMAIN s = 1..Len(s) /\ Len(s) \in Nat /\ \A i \in DOMAIN s : s[i] \in D
  BY LenProperties, ElementOfSeq
<1>2. IsFiniteSet(1..Len(s))
  BY <1>1, FS_Interval
<1>3. Range(s) \subseteq D
  BY <1>1 DEF Range
<1>4. IsFiniteSet(Range(s))
  <2>1. Range(s) = {s[i] : i \in 1..Len(s)}
    BY <1>1 DEF Range
  <2>2. s \in Surjection(1..Len(s), Range(s))
    BY <1>1, <2>1 DEF Surjection
  <2> QED
    BY <1>2, <2>2, FS_Surjection
<1> QED
  BY <1>1, <1>2, <1>3, <1>4

LEMMA Lands ==
  ASSUME NEW st \in SegmentsType
  PROVE  /\ \A d \in TaskDoc :
              /\ Land(st, "tasks", d) \in SegmentsType
              /\ Land(st, "tasks", d) = [st EXCEPT !.tasks = Append(st.tasks, d)]
              /\ Range(Land(st, "tasks", d).tasks) = Range(st.tasks) \cup {d}
         /\ \A d \in RunDoc :
              /\ Land(st, "runs", d) \in SegmentsType
              /\ Land(st, "runs", d) = [st EXCEPT !.runs = Append(st.runs, d)]
              /\ Range(Land(st, "runs", d).runs) = Range(st.runs) \cup {d}
         /\ \A d \in EventDoc :
              /\ Land(st, "events", d) \in SegmentsType
              /\ Land(st, "events", d) = [st EXCEPT !.events = Append(st.events, d)]
              /\ Range(Land(st, "events", d).events) = Range(st.events) \cup {d}
         /\ \A d \in ResultDoc :
              /\ Land(st, "results", d) \in SegmentsType
              /\ Land(st, "results", d) = [st EXCEPT !.results = Append(st.results, d)]
              /\ Range(Land(st, "results", d).results) = Range(st.results) \cup {d}
<1> USE Segment DEF Land
<1>0. /\ st.tasks \in Seq(TaskDoc) /\ st.runs \in Seq(RunDoc)
      /\ st.events \in Seq(EventDoc) /\ st.results \in Seq(ResultDoc)
  BY DEF SegmentsType
<1>1. ASSUME NEW d \in TaskDoc
      PROVE  /\ Append(st.tasks, d) \in Seq(TaskDoc)
             /\ Range(Append(st.tasks, d)) = Range(st.tasks) \cup {d}
  BY <1>0
<1>2. ASSUME NEW d \in RunDoc
      PROVE  /\ Append(st.runs, d) \in Seq(RunDoc)
             /\ Range(Append(st.runs, d)) = Range(st.runs) \cup {d}
  BY <1>0
<1>3. ASSUME NEW d \in EventDoc
      PROVE  /\ Append(st.events, d) \in Seq(EventDoc)
             /\ Range(Append(st.events, d)) = Range(st.events) \cup {d}
  BY <1>0
<1>4. ASSUME NEW d \in ResultDoc
      PROVE  /\ Append(st.results, d) \in Seq(ResultDoc)
             /\ Range(Append(st.results, d)) = Range(st.results) \cup {d}
  BY <1>0
<1> HIDE Segment
<1> QED
  BY <1>1, <1>2, <1>3, <1>4 DEF SegmentsType

-----------------------------------------------------------------------------
(* What the queries return.                                                  *)

LEMMA Least ==
  ASSUME NEW S \in SUBSET Nat, S # {}
  PROVE  \E m \in S : \A x \in S : m <= x
<1>1. PICK m \in S : \A x \in S : ~(<<x, m>> \in OpToRel(<, Nat))
  BY NatLessThanWellFounded, WFMin
<1>2. \A x \in S : ~(x < m)
  BY <1>1 DEF OpToRel
<1> QED
  BY <1>2

LEMMA FiniteImage ==
  ASSUME NEW S, IsFiniteSet(S), NEW f, DOMAIN f = S
  PROVE  IsFiniteSet({f[x] : x \in S})
<1>1. [x \in S |-> f[x]] \in Surjection(S, {f[x] : x \in S})
  BY DEF Surjection
<1> QED
  BY <1>1, FS_Surjection

(* Otherwise take a smallest non-empty subset without a greatest element and *)
(* remove one element of it.                                                 *)
LEMMA Greatest ==
  ASSUME NEW S \in SUBSET Nat, IsFiniteSet(S), S # {}
  PROVE  \E m \in S : \A x \in S : x <= m
<1> DEFINE HasTop(X) == \E m \in X : \A x \in X : x <= m
           Topless == {X \in SUBSET S : X # {} /\ ~HasTop(X)}
           Sizes == {Cardinality(X) : X \in Topless}
<1>1. SUFFICES ASSUME S \in Topless PROVE FALSE
  OBVIOUS
<1>2. \A X \in SUBSET S : IsFiniteSet(X) /\ Cardinality(X) \in Nat
  BY FS_Subset, FS_CardinalityType
<1>3. PICK X \in Topless : \A Y \in Topless : Cardinality(X) <= Cardinality(Y)
  <2>1. Sizes \in SUBSET Nat /\ Sizes # {}
    BY <1>1, <1>2
  <2>2. \E m \in Sizes : \A x \in Sizes : m <= x
    <3> HIDE DEF Sizes
    <3> QED
      BY <2>1, Least
  <2> QED
    BY <2>2
<1>4. PICK x \in X : x \in Nat
  BY <1>3
<1>5. X \in SUBSET S /\ X \ {x} \in SUBSET S /\ ~HasTop(X)
  BY <1>3
<1>6. /\ Cardinality(X \ {x}) = Cardinality(X) - 1
      /\ Cardinality(X) \in Nat
  BY <1>2, <1>4, <1>5, FS_RemoveElement
<1>7. X \ {x} \notin Topless
  <2> SUFFICES ASSUME X \ {x} \in Topless PROVE FALSE
    OBVIOUS
  <2> HIDE DEF Topless
  <2>1. Cardinality(X) <= Cardinality(X \ {x})
    BY <1>3
  <2> QED
    BY <1>6, <2>1
<1>8. X \ {x} = {} \/ HasTop(X \ {x})
  BY <1>5, <1>7
<1>9. CASE X \ {x} = {}
  BY <1>4, <1>5, <1>9
<1>10. CASE HasTop(X \ {x})
  <2>1. PICK m \in X \ {x} : \A y \in X \ {x} : y <= m
    BY <1>10
  <2>2. m \in Nat /\ \A y \in X : y \in Nat
    BY <1>5, <2>1
  <2>3. CASE x <= m
    BY <1>5, <2>1, <2>3
  <2>4. CASE ~(x <= m)
    BY <1>4, <1>5, <2>1, <2>2, <2>4
  <2> QED
    BY <2>3, <2>4
<1> QED
  BY <1>8, <1>9, <1>10

(* _runs_for(t)[-1] is a snapshot of t, and no snapshot of t is above it.    *)
LEMMA CurrentIsLatest ==
  ASSUME NEW st \in SegmentsType, NEW t, RunsOf(st, t) # {}
  PROVE  /\ Current(st, t) \in RunsOf(st, t)
         /\ Current(st, t) \in RunDoc
         /\ \A q \in RunsOf(st, t) : q.version <= Current(st, t).version
<1>1. /\ RunsOf(st, t) \subseteq RunDoc /\ IsFiniteSet(Range(st.runs))
      /\ RunsOf(st, t) \in SUBSET Range(st.runs)
  BY SegmentRange DEF SegmentsType, RunsOf
<1>2. IsFiniteSet(RunsOf(st, t))
  BY <1>1, FS_Subset
<1>3. IsFiniteSet({r.version : r \in RunsOf(st, t)})
  <2> DEFINE f == [r \in RunsOf(st, t) |-> r.version]
  <2>1. IsFiniteSet({f[r] : r \in RunsOf(st, t)})
    BY <1>2, FiniteImage
  <2> QED
    BY <2>1
<1>4. PICK m \in {r.version : r \in RunsOf(st, t)} :
        \A x \in {r.version : r \in RunsOf(st, t)} : x <= m
  <2>1. {r.version : r \in RunsOf(st, t)} \in SUBSET Nat
    BY <1>1 DEF RunDoc
  <2> QED
    BY <1>3, <2>1, Greatest
<1>5. \E r \in RunsOf(st, t) : \A q \in RunsOf(st, t) : q.version <= r.version
  BY <1>4
<1> QED
  BY <1>1, <1>5 DEF Current

(* The attempt a result is filed under is one that some snapshot carries.    *)
LEMMA AttemptTyped ==
  ASSUME NEW st \in SegmentsType, NEW t
  PROVE  AttemptOf(st, t) \in AttemptNos
<1>1. CASE RunsOf(st, t) = {}
  BY <1>1, Constants DEF AttemptOf
<1>2. CASE RunsOf(st, t) # {}
  <2> DEFINE S == {r.attempt : r \in RunsOf(st, t)}
  <2>1. /\ RunsOf(st, t) \subseteq RunDoc /\ IsFiniteSet(Range(st.runs))
        /\ RunsOf(st, t) \in SUBSET Range(st.runs)
    BY SegmentRange DEF SegmentsType, RunsOf
  <2>2. IsFiniteSet(RunsOf(st, t))
    BY <2>1, FS_Subset
  <2>3. IsFiniteSet(S)
    <3> DEFINE f == [r \in RunsOf(st, t) |-> r.attempt]
    <3>1. IsFiniteSet({f[r] : r \in RunsOf(st, t)})
      BY <2>2, FiniteImage
    <3> QED
      BY <3>1
  <2>4. S \in SUBSET AttemptNos /\ S \in SUBSET Nat
    BY <2>1, Constants DEF RunDoc
  <2>5. \E a \in S : \A b \in S : b <= a
    BY <1>2, <2>3, <2>4, Greatest
  <2>6. \E a \in S : \A r \in RunsOf(st, t) : r.attempt <= a
    BY <2>5
  <2> QED
    BY <1>2, <2>4, <2>6 DEF AttemptOf
<1> QED
  BY <1>1, <1>2

(* The runs still to be healed, by their places in the event segment.        *)
LEMMA UnhealedTyped ==
  ASSUME NEW st \in SegmentsType, NEW t
  PROVE  /\ Unhealed(st, t) \subseteq DOMAIN st.events
         /\ \A i \in Unhealed(st, t) :
              /\ i \in Nat /\ st.events[i] \in EventDoc
              /\ st.events[i] \in Range(st.events)
              /\ st.events[i].task = t
              /\ st.events[i].run \in RunDoc
              /\ st.events[i].run.version \notin VersionsOf(st, t)
<1>1. \A i \in DOMAIN st.events : i \in Nat /\ st.events[i] \in EventDoc
                                    /\ st.events[i] \in Range(st.events)
  BY SegmentRange DEF SegmentsType, Range
<1> QED
  BY <1>1 DEF Unhealed, EventsOf, EventDoc

(* There is a first run to heal, and only one.                               *)
LEMMA FirstToHeal ==
  ASSUME NEW st \in SegmentsType, NEW t, Unhealed(st, t) # {}
  PROVE  /\ FirstUnhealed(st, t) \in Unhealed(st, t)
         /\ HealsTo(st, t, st.events[FirstUnhealed(st, t)].run)
<1> DEFINE U == Unhealed(st, t)
           seqOf(i) == st.events[i].seq
<1>0. \A i \in U : i \in Nat /\ seqOf(i) \in Nat
  BY UnhealedTyped DEF EventDoc
<1>1. PICK m \in {seqOf(i) : i \in U} : \A x \in {seqOf(i) : i \in U} : m <= x
  <2>1. {seqOf(i) : i \in U} \in SUBSET Nat /\ {seqOf(i) : i \in U} # {}
    BY <1>0
  <2> QED
    BY <2>1, Least
<1> DEFINE F == {i \in U : seqOf(i) = m}
<1>2. PICK i \in F : \A j \in F : i <= j
  <2>1. F \in SUBSET Nat /\ F # {}
    BY <1>0
  <2> QED
    BY <2>1, Least
<1>3. i \in U /\ \A j \in U : Before(st, i, j)
  <2>1. i \in U /\ seqOf(i) = m
    BY <1>2
  <2>2. ASSUME NEW j \in U
        PROVE  seqOf(i) < seqOf(j) \/ (seqOf(i) = seqOf(j) /\ i <= j)
    <3>1. m <= seqOf(j) /\ m \in Nat /\ seqOf(j) \in Nat
      BY <1>0, <1>1
    <3>2. seqOf(j) = m => i <= j
      BY <1>2
    <3> QED
      BY <2>1, <3>1, <3>2
  <2> QED
    BY <2>1, <2>2 DEF Before
<1>4. /\ FirstUnhealed(st, t) \in U
      /\ \A j \in U : Before(st, FirstUnhealed(st, t), j)
  BY <1>3 DEF FirstUnhealed
<1> QED
  BY <1>4 DEF HealsTo

LEMMA OneToHeal ==
  ASSUME NEW st \in SegmentsType, NEW t, NEW r, NEW q,
         HealsTo(st, t, r), HealsTo(st, t, q)
  PROVE  r = q /\ r \in RunDoc /\ r.version \notin VersionsOf(st, t)
<1>1. PICK i \in Unhealed(st, t) :
        (\A j \in Unhealed(st, t) : Before(st, i, j)) /\ st.events[i].run = r
  BY DEF HealsTo
<1>2. PICK k \in Unhealed(st, t) :
        (\A j \in Unhealed(st, t) : Before(st, k, j)) /\ st.events[k].run = q
  BY DEF HealsTo
<1>3. /\ i \in Nat /\ k \in Nat /\ r \in RunDoc
      /\ st.events[i].seq \in Nat /\ st.events[k].seq \in Nat
  BY <1>1, <1>2, UnhealedTyped DEF EventDoc
<1>4. i = k
  BY <1>1, <1>2, <1>3 DEF Before
<1> QED
  BY <1>1, <1>2, <1>3, <1>4, UnhealedTyped

-----------------------------------------------------------------------------
(* What an insert does to the two sides, acknowledged or not.                *)

SameBut(new, st, seg) == \A s \in DOMAIN NoDocs \ {seg} : new[s] = st[s]

(* new is st with doc appended to one segment, once or more often.           *)
Adds(new, st, seg, doc) ==
  /\ new \in SegmentsType
  /\ SameBut(new, st, seg)
  /\ Range(new[seg]) = Range(st[seg]) \cup {doc}
  /\ DOMAIN st[seg] \subseteq DOMAIN new[seg]
  /\ \A i \in DOMAIN st[seg] : new[seg][i] = st[seg][i]
  /\ \A i \in DOMAIN new[seg] \ DOMAIN st[seg] :
       new[seg][i] = doc /\ \A j \in DOMAIN st[seg] : j < i

AddsOne(new, st, seg, doc) ==
  /\ Adds(new, st, seg, doc)
  /\ \E n \in Nat : n \notin DOMAIN st[seg] /\ DOMAIN new[seg] = DOMAIN st[seg] \cup {n}

Docs == [tasks |-> TaskDoc, runs |-> RunDoc, events |-> EventDoc, results |-> ResultDoc]

LEMMA LandAdds ==
  ASSUME NEW st \in SegmentsType, NEW seg \in DOMAIN NoDocs, NEW doc \in Docs[seg]
  PROVE  AddsOne(Land(st, seg, doc), st, seg, doc)
<1>1. /\ st[seg] \in Seq(Docs[seg]) /\ seg \in DOMAIN st
      /\ DOMAIN st = DOMAIN NoDocs
  BY DEF SegmentsType, NoDocs, Docs
<1> DEFINE new == Land(st, seg, doc)
<1>2. /\ new[seg] = Append(st[seg], doc)
      /\ \A s \in DOMAIN NoDocs \ {seg} : new[s] = st[s]
      /\ DOMAIN new = DOMAIN NoDocs
  BY <1>1 DEF Land
<1>3. /\ Append(st[seg], doc) \in Seq(Docs[seg])
      /\ DOMAIN st[seg] = 1..Len(st[seg]) /\ Len(st[seg]) \in Nat
      /\ DOMAIN Append(st[seg], doc) = 1..(Len(st[seg]) + 1)
      /\ \A i \in DOMAIN st[seg] : Append(st[seg], doc)[i] = st[seg][i]
      /\ Append(st[seg], doc)[Len(st[seg]) + 1] = doc
      /\ Range(Append(st[seg], doc)) = Range(st[seg]) \cup {doc}
  BY <1>1, Segment
<1>4. new \in SegmentsType
  BY Lands DEF NoDocs, Docs
<1>5. SameBut(new, st, seg)
  BY <1>2 DEF SameBut
<1> HIDE DEF new
<1>6. /\ Len(st[seg]) + 1 \notin DOMAIN st[seg]
      /\ DOMAIN new[seg] = DOMAIN st[seg] \cup {Len(st[seg]) + 1}
      /\ Len(st[seg]) + 1 \in Nat
      /\ \A i \in DOMAIN new[seg] \ DOMAIN st[seg] :
           i = Len(st[seg]) + 1 /\ \A j \in DOMAIN st[seg] : j < i
  BY <1>2, <1>3
<1>7. AddsOne(new, st, seg, doc)
  BY <1>2, <1>3, <1>4, <1>5, <1>6 DEF AddsOne, Adds
<1> QED
  BY <1>7 DEF new

LEMMA LandTwiceAdds ==
  ASSUME NEW st \in SegmentsType, NEW seg \in DOMAIN NoDocs, NEW doc \in Docs[seg]
  PROVE  Adds(Land(Land(st, seg, doc), seg, doc), st, seg, doc)
<1> DEFINE mid == Land(st, seg, doc)
           new == Land(mid, seg, doc)
<1>1. AddsOne(mid, st, seg, doc)
  BY LandAdds
<1>2. AddsOne(new, mid, seg, doc)
  <2>1. mid \in SegmentsType
    BY <1>1 DEF AddsOne, Adds
  <2> HIDE DEF mid
  <2> QED
    BY <2>1, LandAdds
<1> HIDE DEF mid, new
<1>3. Adds(new, st, seg, doc)
  BY <1>1, <1>2 DEF AddsOne, Adds, SameBut
<1> QED
  BY <1>3 DEF new, mid

(* An acknowledged insert is cached once and stored at least once; a refused *)
(* one is stored or not, and ends the operation.                             *)
LEMMA InsertAcked ==
  ASSUME TypeOK, NEW seg \in DOMAIN NoDocs, NEW doc \in Docs[seg], NEW next,
         Acked(seg, doc, next)
  PROVE  /\ AddsOne(cache', cache, seg, doc)
         /\ Adds(server', server, seg, doc)
         /\ ~Lossy => server' = Land(server, seg, doc)
         /\ op' = next
         /\ faults' \in Nat
BY LandAdds, LandTwiceAdds DEF Acked, TypeOK, AddsOne

LEMMA InsertFailed ==
  ASSUME TypeOK, NEW seg \in DOMAIN NoDocs, NEW doc \in Docs[seg],
         Failed(seg, doc)
  PROVE  /\ cache' = cache
         /\ server' = server \/ (Lossy /\ Adds(server', server, seg, doc))
         /\ op' = None
         /\ faults' \in Nat
BY LandAdds DEF Failed, TypeOK, AddsOne

(* get_task_by_idempotency finds the first task document with the key.       *)
LEMMA FirstKeyed ==
  ASSUME NEW st \in SegmentsType, NEW k, WithKey(st, k) # {}
  PROVE  /\ FirstWithKey(st, k) \in Ids
         /\ \E i \in WithKey(st, k) : FirstWithKey(st, k) = st.tasks[i].task
<1>1. WithKey(st, k) \in SUBSET Nat /\ \A i \in WithKey(st, k) : st.tasks[i] \in TaskDoc
  BY SegmentRange DEF SegmentsType, WithKey
<1>2. \E i \in WithKey(st, k) : \A j \in WithKey(st, k) : i <= j
  BY <1>1, Least
<1> DEFINE first == CHOOSE i \in WithKey(st, k) : \A j \in WithKey(st, k) : i <= j
<1>3. first \in WithKey(st, k)
  BY <1>2
<1>4. FirstWithKey(st, k) = st.tasks[first].task
  BY DEF FirstWithKey
<1> QED
  BY <1>1, <1>3, <1>4 DEF TaskDoc

-----------------------------------------------------------------------------
(* Types.                                                                    *)

LEMMA DocsTyped ==
  ASSUME NEW st \in SegmentsType
  PROVE  /\ Range(st.tasks) \subseteq TaskDoc /\ Range(st.runs) \subseteq RunDoc
         /\ Range(st.events) \subseteq EventDoc /\ Range(st.results) \subseteq ResultDoc
         /\ \A t : RunsOf(st, t) \subseteq RunDoc /\ RunsOf(st, t) \subseteq Range(st.runs)
         /\ \A i \in DOMAIN st.tasks : st.tasks[i] \in TaskDoc /\ st.tasks[i] \in Range(st.tasks)
<1>1. /\ Range(st.tasks) \subseteq TaskDoc /\ Range(st.runs) \subseteq RunDoc
      /\ Range(st.events) \subseteq EventDoc /\ Range(st.results) \subseteq ResultDoc
      /\ \A i \in DOMAIN st.tasks : st.tasks[i] \in TaskDoc
  BY SegmentRange DEF SegmentsType
<1> QED
  BY <1>1 DEF RunsOf, Range

LEMMA NextSeqTyped ==
  ASSUME NEW st \in SegmentsType, NEW t
  PROVE  /\ IsFiniteSet(EventsOf(st, t))
         /\ Cardinality(EventsOf(st, t)) \in Nat /\ NextSeq(st, t) \in Nat
<1>1. IsFiniteSet(DOMAIN st.events) /\ EventsOf(st, t) \in SUBSET DOMAIN st.events
  BY SegmentRange DEF SegmentsType, EventsOf
<1>2. IsFiniteSet(EventsOf(st, t))
  BY <1>1, FS_Subset
<1>3. Cardinality(EventsOf(st, t)) \in Nat
  BY <1>2, FS_CardinalityType
<1> QED
  BY <1>2, <1>3 DEF NextSeq

(* The documents the operations write.                                       *)
LEMMA Written ==
  ASSUME TypeOK
  PROVE  /\ \A t \in Ids, k \in Keys : [task |-> t, key |-> k] \in TaskDoc
         /\ \A t \in Ids : [task |-> t, seq |-> 1, run |-> None] \in EventDoc
         /\ \A t \in Ids : [task |-> t, seq |-> NextSeq(cache, t), run |-> None] \in EventDoc
         /\ \A t \in Ids : [task |-> t, attempt |-> AttemptOf(cache, t)] \in ResultDoc
         /\ \A t \in Ids : RunsOf(cache, t) # {} => Current(cache, t) \in RunDoc
         /\ \A t \in Ids : RunsOf(server, t) # {} => Current(server, t) \in RunDoc
         /\ \A t \in Ids : Unhealed(cache, t) # {} =>
              cache.events[FirstUnhealed(cache, t)].run \in RunDoc
BY NextSeqTyped, AttemptTyped, CurrentIsLatest, FirstToHeal, UnhealedTyped
   DEF TypeOK, TaskDoc, EventDoc, ResultDoc

LEMMA OpTyped ==
  ASSUME TypeOK, op # None
  PROVE  /\ op.who \in Threads /\ op.task \in Ids
         /\ op.kind \in {"createRun", "createEvent", "get", "transition", "snapshot"}
         /\ op.kind \in {"createRun", "createEvent"} =>
              /\ op \in [kind: {"createRun", "createEvent"}, who: Threads, task: Ids, key: Keys]
              /\ op.key \in Keys
         /\ op.kind = "transition" =>
              /\ op \in [kind: {"transition"}, who: Threads, task: Ids, expected: Nat,
                         to: States, attempt: AttemptNos \cup {None}]
              /\ op.expected \in Nat /\ op.to \in States
              /\ op.attempt \in AttemptNos \cup {None}
         /\ op.kind = "snapshot" => op.run \in RunDoc
BY DEF TypeOK, OpType

(* The run a transition writes.                                              *)
LEMMA NextRunTyped ==
  ASSUME TypeOK, op # None, op.kind = "transition", NEW cur \in RunDoc
  PROVE  /\ NextRun(cur) \in RunDoc
         /\ NextRun(cur).task = op.task /\ NextRun(cur).state = op.to
         /\ NextRun(cur).version = cur.version + 1
BY OpTyped, Constants DEF NextRun, RunDoc

LEMMA NoDocsTyped ==
  /\ NoDocs \in SegmentsType
  /\ Range(NoDocs.runs) = {} /\ Range(NoDocs.tasks) = {} /\ Range(NoDocs.events) = {}
  /\ DOMAIN NoDocs.events = {} /\ DOMAIN NoDocs.tasks = {} /\ DOMAIN NoDocs.results = {}
BY DEF NoDocs, SegmentsType, Range

LEMMA TypeInit == Init => TypeOK
<1> SUFFICES ASSUME Init PROVE TypeOK
  OBVIOUS
<1>1. server \in SegmentsType /\ cache \in SegmentsType
  BY NoDocsTyped DEF Init
<1>2. seen \in [Threads -> RunDoc \cup {None}] /\ resolved \in [Keys -> SUBSET Ids]
  BY DEF Init
<1> QED
  BY <1>1, <1>2 DEF Init, TypeOK

(* What the program remembers beside the documents, typed.                   *)
RestTyped ==
  /\ up \in BOOLEAN
  /\ op \in OpType \cup {None}
  /\ seen \in [Threads -> RunDoc \cup {None}]
  /\ recovery \in {"idle", "running", "done"}
  /\ stuck \in SUBSET Ids
  /\ stale \in SUBSET RunDoc
  /\ resolved \in [Keys -> SUBSET Ids]
  /\ crashes \in Nat

LEMMA Insert ==
  ASSUME TypeOK, NEW seg \in DOMAIN NoDocs, NEW doc \in Docs[seg], NEW next,
         Acked(seg, doc, next) \/ Failed(seg, doc)
  PROVE  /\ server' \in SegmentsType /\ cache' \in SegmentsType /\ faults' \in Nat
         /\ op' \in {next, None}
BY InsertAcked, InsertFailed DEF TypeOK, AddsOne, Adds

LEMMA DocOf ==
  /\ Docs["tasks"] = TaskDoc /\ Docs["runs"] = RunDoc
  /\ Docs["events"] = EventDoc /\ Docs["results"] = ResultDoc
  /\ DOMAIN NoDocs = {"tasks", "runs", "events", "results"}
BY DEF Docs, NoDocs

(* A refresh that stops early leaves whole segments, old or new.             *)
LEMMA ReloadedTyped ==
  ASSUME TypeOK, NEW n \in 1..Len(Segments)
  PROVE  /\ Reloaded(n) \in SegmentsType
         /\ Reloaded(n).tasks = server.tasks
         /\ Reloaded(n).runs = IF n >= 2 THEN server.runs ELSE cache.runs
         /\ Reloaded(n).events = IF n >= 3 THEN server.events ELSE cache.events
         /\ Reloaded(n).results = IF n >= 4 THEN server.results ELSE cache.results
<1>1. n \in 1..4 /\ Segments = <<"tasks", "runs", "events", "results">>
  BY DEF Segments
<1>2. /\ DOMAIN cache = {"tasks", "runs", "events", "results"}
      /\ DOMAIN server = {"tasks", "runs", "events", "results"}
  BY DEF TypeOK, SegmentsType
<1>3. /\ Reloaded(n).tasks = server.tasks
      /\ Reloaded(n).runs = IF n >= 2 THEN server.runs ELSE cache.runs
      /\ Reloaded(n).events = IF n >= 3 THEN server.events ELSE cache.events
      /\ Reloaded(n).results = IF n >= 4 THEN server.results ELSE cache.results
      /\ Reloaded(n) = [tasks |-> Reloaded(n).tasks, runs |-> Reloaded(n).runs,
                         events |-> Reloaded(n).events, results |-> Reloaded(n).results]
  BY <1>1, <1>2 DEF Reloaded
<1> QED
  BY <1>1, <1>3 DEF TypeOK, SegmentsType

LEMMA TypeStep == TypeOK /\ [Next]_vars => TypeOK'
<1> SUFFICES ASSUME TypeOK, [Next]_vars PROVE TypeOK'
  OBVIOUS
<1> USE DocOf, Constants
<1>0. TypeOK <=> RestTyped /\ server \in SegmentsType /\ cache \in SegmentsType /\ faults \in Nat
  BY DEF TypeOK, RestTyped
<1>a. (/\ RestTyped' /\ server' \in SegmentsType /\ cache' \in SegmentsType
       /\ faults' \in Nat) => TypeOK'
  BY DEF TypeOK, RestTyped
<1>b. RestTyped
  BY <1>0
<1>1. ASSUME NEW c \in Clients, NEW t \in Ids, NEW k \in Keys, CreateTask(c, t, k)
      PROVE TypeOK'
  <2> DEFINE doc == [task |-> t, key |-> k]
             next == [kind |-> "createRun", who |-> c, task |-> t, key |-> k]
  <2>1. doc \in Docs["tasks"] /\ next \in OpType
    BY Written DEF OpType
  <2>2. Acked("tasks", doc, next) \/ Failed("tasks", doc)
    BY <1>1 DEF CreateTask
  <2>3. /\ server' \in SegmentsType /\ cache' \in SegmentsType /\ faults' \in Nat
        /\ op' \in {next, None}
    <3> HIDE DEF doc, next
    <3> QED
      BY <2>1, <2>2, Insert
  <2>4. RestTyped'
    BY <1>1, <1>b, <2>1, <2>3 DEF CreateTask, RestTyped
  <2> QED
    BY <1>a, <2>3, <2>4
<1>2. CASE CreateRun
  <2> DEFINE next == [op EXCEPT !.kind = "createEvent"]
  <2>1. FirstRun(op.task) \in Docs["runs"] /\ next \in OpType
    BY <1>2, OpTyped DEF CreateRun, OpType
  <2>2. Acked("runs", FirstRun(op.task), next) \/ Failed("runs", FirstRun(op.task))
    BY <1>2 DEF CreateRun
  <2>3. /\ server' \in SegmentsType /\ cache' \in SegmentsType /\ faults' \in Nat
        /\ op' \in {next, None}
    <3> HIDE DEF next
    <3> QED
      BY <2>1, <2>2, Insert
  <2>4. RestTyped'
    BY <1>2, <1>b, <2>1, <2>3 DEF CreateRun, RestTyped
  <2> QED
    BY <1>a, <2>3, <2>4
<1>3. CASE CreateEvent
  <2> DEFINE doc == [task |-> op.task, seq |-> 1, run |-> None]
  <2>0. op.task \in Ids /\ op.who \in Threads /\ op.key \in Keys /\ FirstRun(op.task) \in RunDoc
    BY <1>3, OpTyped DEF CreateEvent
  <2>1. doc \in Docs["events"]
    BY <2>0, Written
  <2>2. Acked("events", doc, None) \/ Failed("events", doc)
    BY <1>3 DEF CreateEvent
  <2>3. /\ server' \in SegmentsType /\ cache' \in SegmentsType /\ faults' \in Nat
        /\ op' = None
    <3> HIDE DEF doc
    <3> QED
      BY <2>1, <2>2, Insert
  <2>4. RestTyped'
    BY <1>3, <1>b, <2>0, <2>3 DEF CreateEvent, RestTyped
  <2> QED
    BY <1>a, <2>3, <2>4
<1>4. ASSUME NEW c \in Threads, NEW t \in Ids, BeginGet(c, t) PROVE TypeOK'
  <2>1. [kind |-> "get", who |-> c, task |-> t] \in OpType
    BY DEF OpType
  <2> QED
    BY <1>4, <1>0, <1>a, <2>1 DEF BeginGet, RestTyped
(* How an operation that fails, or returns run, leaves the rest.             *)
<1>c. ASSUME NEW c \in Threads, RaiseTo(c), UNCHANGED <<up, stale, resolved, crashes>>, op' = None
      PROVE  RestTyped'
  BY <1>b, <1>c DEF RaiseTo, RestTyped
<1>d. ASSUME NEW c \in Threads, NEW r \in RunDoc \cup {None}, EndOf(c, r), op' = None,
             UNCHANGED <<up, recovery, stale, resolved, crashes>>
      PROVE  RestTyped'
  BY <1>b, <1>d DEF EndOf, RestTyped
<1>5. ASSUME NEW seg \in DOMAIN NoDocs, NEW doc \in Docs[seg], NEW next \in OpType \cup {None}, op # None,
             \/ Acked(seg, doc, next) /\ UNCHANGED <<recovery, stuck, seen>>
             \/ Failed(seg, doc) /\ RaiseTo(op.who),
             UNCHANGED <<up, stale, resolved, crashes>>
      PROVE  TypeOK'
  <2>1. /\ server' \in SegmentsType /\ cache' \in SegmentsType /\ faults' \in Nat
        /\ op' \in {next, None} /\ (Failed(seg, doc) => op' = None)
    BY <1>5, Insert, InsertFailed
  <2>2. CASE UNCHANGED <<recovery, stuck, seen>>
    BY <1>a, <1>b, <1>5, <2>1, <2>2 DEF RestTyped
  <2>3. CASE Failed(seg, doc) /\ RaiseTo(op.who)
    BY <1>a, <1>c, <1>5, <2>1, <2>3, OpTyped
  <2> QED
    BY <1>5, <2>2, <2>3
<1>6. CASE HealFirstRun
  <2>1. op # None /\ FirstRun(op.task) \in Docs["runs"] /\ op \in OpType \cup {None}
    BY <1>6, <1>0, OpTyped DEF HealFirstRun, RestTyped
  <2> QED
    BY <1>5, <1>6, <2>1 DEF HealFirstRun
<1>7. CASE HealFirstEvent
  <2> DEFINE doc == [task |-> op.task, seq |-> 1, run |-> None]
  <2>1. op # None /\ doc \in Docs["events"] /\ op \in OpType \cup {None}
    BY <1>7, <1>0, OpTyped, Written DEF HealFirstEvent, RestTyped
  <2>2. /\ \/ Acked("events", doc, op) /\ UNCHANGED <<recovery, stuck, seen>>
           \/ Failed("events", doc) /\ RaiseTo(op.who)
        /\ UNCHANGED <<up, stale, resolved, crashes>>
    BY <1>7 DEF HealFirstEvent
  <2> HIDE DEF doc
  <2> QED
    BY <1>5, <2>1, <2>2
<1>8. CASE HealRun
  <2> DEFINE doc == cache.events[FirstUnhealed(cache, op.task)].run
  <2>1. op # None /\ doc \in Docs["runs"] /\ op \in OpType \cup {None}
    BY <1>8, <1>0, OpTyped, Written DEF HealRun, RestTyped
  <2>2. /\ \/ Acked("runs", doc, op) /\ UNCHANGED <<recovery, stuck, seen>>
           \/ Failed("runs", doc) /\ RaiseTo(op.who)
        /\ UNCHANGED <<up, stale, resolved, crashes>>
    BY <1>8 DEF HealRun
  <2> HIDE DEF doc
  <2> QED
    BY <1>5, <2>1, <2>2
<1>9. CASE TransitionEvent
  <2> DEFINE run == NextRun(Current(cache, op.task))
             doc == [task |-> op.task, seq |-> NextSeq(cache, op.task), run |-> run]
             next == [kind |-> "snapshot", who |-> op.who, task |-> op.task, run |-> run]
  <2>0. op # None /\ op.kind = "transition" /\ RunsOf(cache, op.task) # {}
    BY <1>9 DEF TransitionEvent
  <2>1. run \in RunDoc
    BY <2>0, OpTyped, Written, NextRunTyped
  <2>2. doc \in Docs["events"] /\ next \in OpType
    BY <2>0, <2>1, OpTyped, NextSeqTyped DEF EventDoc, OpType, TypeOK
  <2>3. /\ \/ Acked("events", doc, next) /\ UNCHANGED <<recovery, stuck, seen>>
           \/ Failed("events", doc) /\ RaiseTo(op.who)
        /\ UNCHANGED <<up, stale, resolved, crashes>>
    BY <1>9 DEF TransitionEvent
  <2> HIDE DEF doc, next
  <2> QED
    BY <1>5, <2>0, <2>2, <2>3
<1>10. CASE TransitionSnapshot
  <2>0. op # None /\ op.run \in Docs["runs"] /\ op.who \in Threads
    BY <1>10, OpTyped DEF TransitionSnapshot
  <2>1. CASE /\ Acked("runs", op.run, None) /\ EndOf(op.who, op.run)
             /\ UNCHANGED <<recovery, up, stale, resolved, crashes>>
    <3>1. /\ server' \in SegmentsType /\ cache' \in SegmentsType /\ faults' \in Nat
          /\ op' = None
      BY <2>0, <2>1, Insert
    <3> QED
      BY <1>a, <1>d, <2>0, <2>1, <3>1
  <2>2. CASE /\ Failed("runs", op.run) /\ RaiseTo(op.who)
             /\ UNCHANGED <<up, stale, resolved, crashes>>
    BY <1>5, <2>0, <2>2
  <2> QED
    BY <1>10, <2>1, <2>2 DEF TransitionSnapshot
<1>11. CASE GetReturn
  BY <1>11, <1>0, <1>a, OpTyped, Written DEF GetReturn, RestTyped
<1>12. ASSUME NEW c \in Threads, NEW to \in States, NEW att \in AttemptNos \cup {None},
              BeginTransition(c, to, att)
       PROVE TypeOK'
  <2>1. seen[c] \in RunDoc
    BY <1>12, <1>b DEF BeginTransition, RestTyped
  <2>2. [kind |-> "transition", who |-> c, task |-> seen[c].task,
         expected |-> seen[c].version, to |-> to, attempt |-> att] \in OpType
    BY <2>1 DEF OpType, RunDoc
  <2> QED
    BY <1>12, <1>0, <1>a, <2>2 DEF BeginTransition, RestTyped
<1>13. CASE TransitionRefused
  <2>1. op # None /\ op.who \in Threads /\ seen[op.who] \in RunDoc \cup {None}
    BY <1>13, <1>b, OpTyped DEF TransitionRefused, RestTyped
  <2> QED
    BY <1>13, <1>0, <1>a, <1>d, <2>1 DEF TransitionRefused
<1>14. ASSUME NEW t \in Ids, AppendEvent(t) PROVE TypeOK'
  <2> DEFINE doc == [task |-> t, seq |-> NextSeq(cache, t), run |-> None]
  <2>1. doc \in Docs["events"]
    BY Written
  <2>2. Acked("events", doc, None) \/ Failed("events", doc)
    BY <1>14 DEF AppendEvent
  <2>3. /\ server' \in SegmentsType /\ cache' \in SegmentsType /\ faults' \in Nat
        /\ op' = None
    <3> HIDE DEF doc
    <3> QED
      BY <2>1, <2>2, Insert
  <2> QED
    BY <1>14, <1>a, <1>b, <2>3 DEF AppendEvent, RestTyped
<1>15. ASSUME NEW t \in Ids, SaveResult(t) PROVE TypeOK'
  <2> DEFINE doc == [task |-> t, attempt |-> AttemptOf(cache, t)]
  <2>1. doc \in Docs["results"]
    BY Written
  <2>2. Acked("results", doc, None) \/ Failed("results", doc)
    BY <1>15 DEF SaveResult
  <2>3. /\ server' \in SegmentsType /\ cache' \in SegmentsType /\ faults' \in Nat
        /\ op' = None
    <3> HIDE DEF doc
    <3> QED
      BY <2>1, <2>2, Insert
  <2> QED
    BY <1>15, <1>a, <1>b, <2>3 DEF SaveResult, RestTyped
<1>16. ASSUME NEW k \in Keys, LookupKey(k) PROVE TypeOK'
  <2>1. FirstWithKey(cache, k) \in Ids
    BY <1>16, FirstKeyed DEF LookupKey, TypeOK
  <2> QED
    BY <1>16, <1>0, <1>a, <2>1 DEF LookupKey, RestTyped
<1>17. ASSUME NEW n \in 1..Len(Segments), Refresh(n) PROVE TypeOK'
  <2>1. Reloaded(n) \in SegmentsType
    BY ReloadedTyped
  <2>2. cache' = Reloaded(n) /\ UNCHANGED <<server, up, op, seen, recovery, stuck,
                                           stale, resolved, faults, crashes>>
    BY <1>17 DEF Refresh
  <2> QED
    BY <1>0, <1>a, <2>1, <2>2 DEF RestTyped
<1>18. CASE RecoverStart
  <2>1. {Current(server, t) : t \in stuck'} \subseteq RunDoc
    BY <1>18, Written DEF RecoverStart
  <2> QED
    BY <1>18, <1>0, <1>a, <2>1 DEF RecoverStart, RestTyped
<1>19. CASE RecoverSkip \/ RecoverDone
  BY <1>19, <1>0, <1>a DEF RecoverSkip, RecoverDone, RestTyped
<1>20. CASE Crash
  <2>1. cache' \in SegmentsType /\ server' \in SegmentsType /\ faults' \in Nat
    BY <1>20, <1>0, NoDocsTyped DEF Crash
  <2>2. RestTyped'
    <3>1. up' \in BOOLEAN
      BY <1>20 DEF Crash
    <3>5. crashes' \in Nat
      BY <1>20, <1>b DEF Crash, RestTyped
    <3>3. op' = None /\ recovery' = "idle" /\ stuck' = {} /\ stale' = {}
      BY <1>20, <1>b DEF Crash, RestTyped
    <3>4. resolved' = resolved
      BY <1>20, <1>b DEF Crash, RestTyped
    <3>2. seen' \in [Threads -> RunDoc \cup {None}]
      BY <1>20, <1>b DEF Crash, RestTyped
    <3> QED
      BY <1>b, <3>1, <3>2, <3>3, <3>4, <3>5 DEF RestTyped
  <2> QED
    BY <1>a, <2>1, <2>2
<1>21. CASE Open
  BY <1>21, <1>0, <1>a DEF Open, RestTyped
<1>22. CASE UNCHANGED vars
  BY <1>22, <1>0, <1>a DEF vars, RestTyped
<1> QED
  BY <1>1, <1>2, <1>3, <1>4, <1>6, <1>7, <1>8, <1>9, <1>10, <1>11, <1>12, <1>13,
     <1>14, <1>15, <1>16, <1>17, <1>18, <1>19, <1>20, <1>21, <1>22
     DEF Next, Operation, Step, Recover, GetTask, Transition, RecoverGet, RecoverBlock

-----------------------------------------------------------------------------
(* The history of the tasks.                                                 *)

LEMMA HealStable ==
  ASSUME NEW st, NEW new, NEW t, new.events = st.events,
         \A i \in EventsOf(st, t) : st.events[i].run # None =>
           (st.events[i].run.version \in VersionsOf(new, t)
              <=> st.events[i].run.version \in VersionsOf(st, t))
  PROVE  /\ Unhealed(new, t) = Unhealed(st, t)
         /\ \A r : HealsTo(new, t, r) <=> HealsTo(st, t, r)
<1>1. Unhealed(new, t) = Unhealed(st, t)
  BY DEF Unhealed, EventsOf
<1>2. \A i, j : Before(new, i, j) <=> Before(st, i, j)
  BY DEF Before
<1> QED
  BY <1>1, <1>2 DEF HealsTo

(* What new adds to st leaves the runs as they are, stored or to be healed.  *)
Quiet(new, st) ==
  /\ Range(new.runs) = Range(st.runs)
  /\ \A e \in Range(new.events) : e.run # None => e \in Range(st.events)
  /\ \A t, r : HealsTo(st, t, r) => HealsTo(new, t, r)

LEMMA QuietKeeps ==
  ASSUME StoredHistory, Quiet(server', server), Quiet(cache', cache), up' = up
  PROVE  StoredHistory'
<1>1. /\ Range(server'.runs) = Range(server.runs)
      /\ Range(cache'.runs) = Range(cache.runs)
  BY DEF Quiet
<1>2. \A r : /\ Follows(server, r)' <=> Follows(server, r)
             /\ Follows(cache, r)' <=> Follows(cache, r)
  BY <1>1 DEF Follows
<1>3. RunsLegal(server)' /\ RunsLegal(cache)'
  BY <1>1, <1>2 DEF StoredHistory, RunsLegal
<1>4. EventsFollow(server)' /\ EventsFollow(cache)'
  BY <1>2 DEF StoredHistory, EventsFollow, Quiet
<1>5. OneRunPerVersion'
  BY <1>1 DEF StoredHistory, OneRunPerVersion
<1>6. OnlyLostRuns'
  <2>1. \A t : RunsOf(cache, t)' = RunsOf(cache, t)
    BY <1>1 DEF RunsOf
  <2>2. \A t, r : HealsTo(cache, t, r) => HealsTo(cache, t, r)'
    BY DEF Quiet, HealsTo, Unhealed, EventsOf, VersionsOf, RunsOf, Before
  <2> QED
    BY <1>1, <2>1, <2>2 DEF StoredHistory, OnlyLostRuns
<1> QED
  BY <1>1, <1>3, <1>4, <1>5, <1>6 DEF StoredHistory

LEMMA QuietAdds ==
  ASSUME NEW st \in SegmentsType, NEW new, NEW doc,
         \/ Adds(new, st, "events", doc) /\ doc.run = None
         \/ Adds(new, st, "tasks", doc) \/ Adds(new, st, "results", doc)
         \/ new = st
  PROVE  Quiet(new, st)
<1>1. CASE new = st
  BY <1>1 DEF Quiet
<1>2. CASE Adds(new, st, "tasks", doc) \/ Adds(new, st, "results", doc)
  <2>1. new.runs = st.runs /\ new.events = st.events
    BY <1>2 DEF Adds, SameBut, NoDocs
  <2>2. \A t : VersionsOf(new, t) = VersionsOf(st, t)
    BY <2>1 DEF VersionsOf, RunsOf
  <2> QED
    BY <2>1, <2>2, HealStable DEF Quiet
<1>3. CASE Adds(new, st, "events", doc) /\ doc.run = None
  <2>1. /\ new.runs = st.runs /\ new \in SegmentsType
        /\ DOMAIN st.events \subseteq DOMAIN new.events
        /\ \A i \in DOMAIN st.events : new.events[i] = st.events[i]
        /\ \A i \in DOMAIN new.events \ DOMAIN st.events : new.events[i].run = None
        /\ Range(new.events) = Range(st.events) \cup {doc}
    BY <1>3 DEF Adds, SameBut, NoDocs
  <2>2. \A t : VersionsOf(new, t) = VersionsOf(st, t)
    BY <2>1 DEF VersionsOf, RunsOf
  <2>3. \A t : Unhealed(new, t) = Unhealed(st, t) /\ Unhealed(st, t) \subseteq DOMAIN st.events
    BY <2>1, <2>2 DEF Unhealed, EventsOf
  <2>4. \A i, j \in DOMAIN st.events : Before(new, i, j) <=> Before(st, i, j)
    BY <2>1 DEF Before
  <2>5. \A t, r : HealsTo(st, t, r) => HealsTo(new, t, r)
    BY <2>1, <2>3, <2>4 DEF HealsTo
  <2> QED
    BY <1>3, <2>1, <2>5 DEF Quiet
<1> QED
  BY <1>1, <1>2, <1>3

(* A run to heal is one above the latest snapshot the process knows.         *)
LEMMA HealedRun ==
  ASSUME NEW st \in SegmentsType, EventsFollow(st), NEW t, NEW r, HealsTo(st, t, r)
  PROVE  /\ r \in RunDoc /\ r.task = t /\ r.version # 0 /\ r.version <= MaxVersion + 1
         /\ Follows(st, r)
         /\ r.version \notin VersionsOf(st, t)
<1>1. PICK i \in Unhealed(st, t) : st.events[i].run = r
  BY DEF HealsTo
<1>2. /\ st.events[i] \in Range(st.events) /\ st.events[i].task = t /\ r \in RunDoc
      /\ r.version \notin VersionsOf(st, t)
  BY <1>1, UnhealedTyped
<1>3. r.task = t /\ r.version <= MaxVersion + 1 /\ Follows(st, r)
  BY <1>1, <1>2, Constants DEF EventsFollow
<1>4. r.version # 0
  BY <1>2, <1>3, DocsTyped DEF Follows, RunDoc
<1> QED
  BY <1>2, <1>3, <1>4

(* Adding a first run, or one that follows a stored one, keeps histories     *)
(* legal.                                                                    *)
LEMMA LegalGrows ==
  ASSUME NEW st \in SegmentsType, RunsLegal(st), EventsFollow(st), NEW new \in SegmentsType,
         NEW r \in RunDoc, Range(new.runs) = Range(st.runs) \cup {r},
         Range(new.events) = Range(st.events),
         IF r.version = 0 THEN r = FirstRun(r.task) ELSE Follows(st, r),
         r.version <= MaxVersion + 1
  PROVE  RunsLegal(new) /\ EventsFollow(new)
<1>1. \A q : Follows(st, q) => Follows(new, q)
  BY DEF Follows
<1>2. EventsFollow(new)
  BY <1>1 DEF EventsFollow
<1>3. \A v \in 0..r.version : \E p \in Range(new.runs) : p.task = r.task /\ p.version = v
  <2>1. CASE r.version = 0
    BY <2>1 DEF RunDoc
  <2>2. CASE r.version # 0
    <3>1. PICK p \in Range(st.runs) : p.task = r.task /\ p.version + 1 = r.version
      BY <2>2 DEF Follows
    <3>2. p.version \in Nat /\ r.version \in Nat
      BY <3>1, DocsTyped DEF RunDoc
    <3>3. \A v \in 0..p.version : \E q \in Range(st.runs) : q.task = r.task /\ q.version = v
      BY <3>1 DEF RunsLegal
    <3>4. \A v \in 0..r.version : v \in 0..p.version \/ v = r.version
      BY <3>1, <3>2
    <3> QED
      BY <3>3, <3>4
  <2> QED
    BY <2>1, <2>2
<1>4. RunsLegal(new)
  BY <1>1, <1>3 DEF RunsLegal
<1> QED
  BY <1>2, <1>4

(* Writing a snapshot: the first one, or the one that healing would write,   *)
(* which no stored snapshot contradicts.                                     *)
LEMMA RunWritten ==
  ASSUME TypeOK, StoredHistory, up, up' = up, NEW t \in Ids, NEW r \in RunDoc,
         r = FirstRun(t) \/ HealsTo(cache, t, r),
         \/ Adds(cache', cache, "runs", r) /\ Adds(server', server, "runs", r)
         \/ cache' = cache /\ (server' = server \/ Adds(server', server, "runs", r))
  PROVE  StoredHistory'
<1>0. /\ cache \in SegmentsType /\ server \in SegmentsType
      /\ cache' \in SegmentsType /\ server' \in SegmentsType
      /\ cache'.events = cache.events /\ server'.events = server.events
      /\ Range(cache'.runs) \subseteq Range(cache.runs) \cup {r}
      /\ Range(cache.runs) \subseteq Range(cache'.runs)
      /\ Range(server'.runs) \in {Range(server.runs), Range(server.runs) \cup {r}}
      /\ Range(cache'.runs) \subseteq Range(server'.runs)
      /\ cache' = cache \/ r \in Range(cache'.runs)
      /\ Range(cache'.runs) \in {Range(cache.runs), Range(cache.runs) \cup {r}}
  BY DEF TypeOK, Adds, SameBut, NoDocs, StoredHistory
<1>1. /\ IF r.version = 0 THEN r = FirstRun(r.task) ELSE Follows(cache, r)
      /\ r.version <= MaxVersion + 1 /\ r.task = t
  BY <1>0, HealedRun, Constants DEF StoredHistory
<1>2. \A q : Follows(cache, q) => Follows(server, q)
  BY DEF StoredHistory, Follows
<1>3. RunsLegal(server') /\ EventsFollow(server')
  <2>1. CASE Range(server'.runs) = Range(server.runs) \cup {r}
    BY <1>0, <1>1, <1>2, <2>1, LegalGrows DEF StoredHistory
  <2>2. CASE Range(server'.runs) = Range(server.runs)
    BY <1>0, <2>2 DEF StoredHistory, RunsLegal, EventsFollow, Follows
  <2> QED
    BY <1>0, <2>1, <2>2
<1>4. RunsLegal(cache') /\ EventsFollow(cache')
  <2>1. CASE Range(cache'.runs) = Range(cache.runs) \cup {r}
    BY <1>0, <1>1, <2>1, LegalGrows DEF StoredHistory
  <2>2. CASE Range(cache'.runs) = Range(cache.runs)
    BY <1>0, <2>2 DEF StoredHistory, RunsLegal, EventsFollow, Follows
  <2> QED
    BY <1>0, <2>1, <2>2
<1>5. ASSUME NEW q \in Range(server.runs), q.task = t, q.version = r.version
      PROVE  q = r
  <2>1. CASE r = FirstRun(t)
    BY <1>5, <2>1, Constants DEF StoredHistory, RunsLegal
  <2>2. CASE HealsTo(cache, t, r)
    <3>1. r.version \notin VersionsOf(cache, t) /\ r.version # 0
      BY <1>0, <2>2, HealedRun DEF StoredHistory
    <3>2. q \notin Range(cache.runs)
      BY <1>5, <3>1 DEF VersionsOf, RunsOf
    <3>3. HealsTo(cache, t, q)
      BY <1>5, <3>1, <3>2 DEF StoredHistory, OnlyLostRuns
    <3> QED
      BY <1>0, <2>2, <3>3, OneToHeal
  <2> QED
    BY <2>1, <2>2
<1>6. OneRunPerVersion'
  BY <1>0, <1>1, <1>5 DEF StoredHistory, OneRunPerVersion
<1>7. OnlyLostRuns'
  <2> SUFFICES ASSUME NEW q \in Range(server'.runs), q \notin Range(cache'.runs)
               PROVE  \/ q.version = 0 /\ RunsOf(cache', q.task) = {}
                      \/ HealsTo(cache', q.task, q)
    BY DEF OnlyLostRuns, RunsOf, HealsTo, Unhealed, EventsOf, VersionsOf, Before
  <2>1. CASE cache' = cache /\ q = r
    <3>1. CASE r = FirstRun(t)
      <4>1. \A p \in Range(cache.runs) : p.task = t => r \in Range(cache.runs)
        <5> SUFFICES ASSUME NEW p \in Range(cache.runs), p.task = t
                     PROVE  r \in Range(cache.runs)
          OBVIOUS
        <5>1. p.version \in Nat
          BY <1>0, DocsTyped DEF RunDoc
        <5>2. PICK f \in Range(cache.runs) : f.task = t /\ f.version = 0
          BY <5>1 DEF StoredHistory, RunsLegal
        <5>3. f = FirstRun(t)
          BY <5>2 DEF StoredHistory, RunsLegal
        <5> QED
          BY <3>1, <5>2, <5>3
      <4> QED
        BY <2>1, <3>1, <4>1, Constants DEF RunsOf
    <3>2. CASE HealsTo(cache, t, r)
      BY <1>1, <2>1, <3>2
    <3> QED
      BY <3>1, <3>2
  <2>2. CASE cache' = cache /\ q # r
    BY <1>0, <2>2 DEF StoredHistory, OnlyLostRuns
  <2>3. CASE r \in Range(cache'.runs)
    <3>1. q # r /\ q \in Range(server.runs) /\ q \notin Range(cache.runs)
      BY <1>0, <2>3
    <3>2. CASE q.version = 0 /\ RunsOf(cache, q.task) = {}
      <4>1. q.task # t \/ r.version # 0
        BY <1>1, <1>5, <3>1, <3>2
      <4>2. q.task = t => Follows(cache, r)
        BY <1>1, <4>1
      <4>3. q.task # t
        BY <1>1, <3>2, <4>2 DEF Follows, RunsOf
      <4> QED
        BY <1>0, <1>1, <3>2, <4>3 DEF RunsOf
    <3>3. CASE HealsTo(cache, q.task, q)
      <4>1. q.task # t \/ r = FirstRun(t)
        BY <1>0, <3>1, <3>3, OneToHeal
      <4>2. ASSUME NEW i \in EventsOf(cache, q.task), cache.events[i].run # None
            PROVE  /\ cache.events[i].run.version \in Nat
                   /\ cache.events[i].run.version # 0
        <5>1. cache.events[i] \in Range(cache.events)
          BY <4>2 DEF EventsOf, Range
        <5>2. cache.events[i].run \in RunDoc /\ Follows(cache, cache.events[i].run)
          BY <1>0, <4>2, <5>1, DocsTyped DEF StoredHistory, EventsFollow, EventDoc
        <5> QED
          BY <1>0, <5>2, DocsTyped DEF Follows, RunDoc
      <4>3. \A v : v \in VersionsOf(cache', q.task) /\ v # 0 <=> v \in VersionsOf(cache, q.task) /\ v # 0
        BY <1>0, <1>1, <4>1, Constants DEF VersionsOf, RunsOf
      <4> QED
        BY <1>0, <3>3, <4>2, <4>3, HealStable
    <3> QED
      BY <3>1, <3>2, <3>3 DEF StoredHistory, OnlyLostRuns
  <2> QED
    BY <1>0, <2>1, <2>2, <2>3
<1> QED
  BY <1>0, <1>3, <1>4, <1>6, <1>7
     DEF StoredHistory, RunsLegal, EventsFollow, Follows

(* A transition writes its event: the run in it becomes the one to heal.     *)
LEMMA EventWritten ==
  ASSUME TypeOK, StoredHistory, up, up' = up, NEW t \in Ids, NEW e \in EventDoc,
         e.task = t, e.run # None, e.run.task = t, e.run.version <= MaxVersion + 1,
         Follows(cache, e.run), e.run.version \notin VersionsOf(cache, t),
         Unhealed(cache, t) = {},
         \/ AddsOne(cache', cache, "events", e) /\ Adds(server', server, "events", e)
         \/ cache' = cache /\ (server' = server \/ Adds(server', server, "events", e))
  PROVE  /\ StoredHistory'
         /\ \A q \in RunsOf(server, t) : q \in Range(cache.runs)
         /\ server'.runs = server.runs /\ cache'.runs = cache.runs
         /\ cache' = cache \/ HealsTo(cache', t, e.run)
<1>0. /\ cache \in SegmentsType /\ server \in SegmentsType
      /\ cache' \in SegmentsType /\ server' \in SegmentsType
      /\ cache'.runs = cache.runs /\ server'.runs = server.runs
      /\ Range(cache'.events) \subseteq Range(cache.events) \cup {e}
      /\ Range(server'.events) \subseteq Range(server.events) \cup {e}
  BY DEF TypeOK, AddsOne, Adds, SameBut, NoDocs
<1>1. Follows(server, e.run)
  BY DEF StoredHistory, Follows
<1>2. EventsFollow(server') /\ EventsFollow(cache')
  BY <1>0, <1>1 DEF StoredHistory, EventsFollow, Follows
<1>3. RunsLegal(server') /\ RunsLegal(cache') /\ OneRunPerVersion'
  BY <1>0 DEF StoredHistory, RunsLegal, Follows, OneRunPerVersion
<1>4. \A q \in RunsOf(server, t) : q \in Range(cache.runs)
  BY DEF StoredHistory, OnlyLostRuns, HealsTo, RunsOf, Follows
<1>5. \A u : VersionsOf(cache', u) = VersionsOf(cache, u)
  BY <1>0 DEF VersionsOf, RunsOf
<1>6. ASSUME AddsOne(cache', cache, "events", e)
      PROVE  /\ HealsTo(cache', t, e.run)
             /\ \A u, r : u # t /\ HealsTo(cache, u, r) => HealsTo(cache', u, r)
  <2>1. PICK n \in Nat : /\ n \notin DOMAIN cache.events
                         /\ DOMAIN cache'.events = DOMAIN cache.events \cup {n}
    BY <1>6 DEF AddsOne
  <2>2. /\ cache'.events[n] = e
        /\ \A i \in DOMAIN cache.events : cache'.events[i] = cache.events[i]
    BY <1>6, <2>1 DEF AddsOne, Adds
  <2>3. Unhealed(cache', t) = {n}
    BY <1>5, <2>1, <2>2 DEF Unhealed, EventsOf
  <2>4. e.seq \in Nat
    BY DEF EventDoc
  <2>5. HealsTo(cache', t, e.run)
    BY <2>1, <2>2, <2>3, <2>4 DEF HealsTo, Before
  <2>6. ASSUME NEW u, u # t PROVE Unhealed(cache', u) = Unhealed(cache, u)
    BY <1>5, <2>1, <2>2, <2>6 DEF Unhealed, EventsOf
  <2>7. \A i, j \in DOMAIN cache.events : Before(cache', i, j) <=> Before(cache, i, j)
    BY <2>2 DEF Before
  <2>8. \A u : Unhealed(cache, u) \subseteq DOMAIN cache.events
    BY DEF Unhealed, EventsOf
  <2>9. \A u, r : u # t /\ HealsTo(cache, u, r) => HealsTo(cache', u, r)
    BY <2>2, <2>6, <2>7, <2>8 DEF HealsTo
  <2> QED
    BY <2>5, <2>9
<1>7. OnlyLostRuns'
  <2> SUFFICES ASSUME NEW q \in Range(server.runs), q \notin Range(cache.runs)
               PROVE  \/ q.version = 0 /\ RunsOf(cache', q.task) = {}
                      \/ HealsTo(cache', q.task, q)
    BY <1>0 DEF OnlyLostRuns, RunsOf, HealsTo, Unhealed, EventsOf, VersionsOf, Before
  <2>1. q.task # t
    BY <1>4 DEF RunsOf
  <2> QED
    BY <1>0, <1>6, <2>1 DEF StoredHistory, OnlyLostRuns, RunsOf
<1> QED
  BY <1>0, <1>2, <1>3, <1>4, <1>6, <1>7
     DEF StoredHistory, RunsLegal, EventsFollow, Follows

(* The process reads the segments again, all of them or the first few.       *)
LEMMA Reread ==
  ASSUME TypeOK, StoredHistory, server' = server,
         \/ cache'.runs = server.runs /\ cache'.events \in {server.events, cache.events}
         \/ /\ up' = up /\ cache' \in SegmentsType
            /\ cache'.runs = cache.runs /\ cache'.events = cache.events
         \/ ~up' /\ cache' = NoDocs
  PROVE  StoredHistory'
<1>1. CASE cache'.runs = server.runs /\ cache'.events \in {server.events, cache.events}
  <2>1. Range(cache'.runs) = Range(server.runs)
    BY <1>1
  <2>2. RunsLegal(cache')
    BY <1>1 DEF StoredHistory, RunsLegal, Follows
  <2>3. \A r : Follows(cache, r) => Follows(cache', r)
    BY <1>1 DEF StoredHistory, Follows
  <2>4. \A r : Follows(server, r) => Follows(cache', r)
    BY <1>1 DEF Follows
  <2>5. EventsFollow(cache')
    BY <1>1, <2>3, <2>4 DEF StoredHistory, EventsFollow
  <2>6. OnlyLostRuns'
    BY <2>1 DEF OnlyLostRuns
  <2> QED
    BY <2>1, <2>2, <2>5, <2>6 DEF StoredHistory, OneRunPerVersion, RunsLegal, EventsFollow, Follows
<1>2. CASE /\ up' = up /\ cache' \in SegmentsType
           /\ cache'.runs = cache.runs /\ cache'.events = cache.events
  <2>1. \A t : VersionsOf(cache', t) = VersionsOf(cache, t)
    BY <1>2 DEF VersionsOf, RunsOf
  <2>2. Quiet(cache', cache)
    BY <1>2, <2>1, HealStable DEF Quiet
  <2>3. Quiet(server', server)
    BY DEF Quiet
  <2> QED
    BY <1>2, <2>2, <2>3, QuietKeeps
<1>3. CASE ~up' /\ cache' = NoDocs
  BY <1>3, NoDocsTyped
     DEF StoredHistory, RunsLegal, EventsFollow, Follows, OneRunPerVersion, OnlyLostRuns
<1> QED
  BY <1>1, <1>2, <1>3

(* Two stored runs of one task and version are the same, so the latest       *)
(* snapshot the process knows is the one a caller was given, if their        *)
(* versions agree.                                                           *)
LEMMA SameRun ==
  ASSUME TypeOK, StoredHistory, NEW r \in Range(server.runs), NEW q \in Range(server.runs),
         r.task = q.task, r.version = q.version
  PROVE  r = q
BY DEF StoredHistory, OneRunPerVersion

-----------------------------------------------------------------------------
(* What one step does to the snapshots: the server's only grow, by a first   *)
(* run or by the run that healing would write, and the live process forgets  *)
(* none.                                                                     *)
Grows ==
  \/ Range(server'.runs) = Range(server.runs)
  \/ \E r \in RunDoc : /\ up
                       /\ r = FirstRun(r.task) \/ HealsTo(cache, r.task, r)
                       /\ Range(server'.runs) = Range(server.runs) \cup {r}

Advances ==
  /\ StoredHistory'
  /\ Grows
  /\ up /\ up' => Range(cache.runs) \subseteq Range(cache'.runs)

LEMMA QuietInsert ==
  ASSUME TypeOK, HistoryInv, up' = up, NEW seg \in DOMAIN NoDocs \ {"runs"},
         NEW doc \in Docs[seg], seg = "events" => doc.run = None, NEW next,
         Acked(seg, doc, next) \/ Failed(seg, doc)
  PROVE  Advances
<1>1. /\ cache' = cache \/ Adds(cache', cache, seg, doc)
      /\ server' = server \/ Adds(server', server, seg, doc)
  BY InsertAcked, InsertFailed DEF AddsOne
<1>2. seg \in {"tasks", "events", "results"}
  BY DEF NoDocs
<1>3. ASSUME NEW st \in SegmentsType, NEW new, new = st \/ Adds(new, st, seg, doc)
      PROVE  Quiet(new, st)
  BY <1>2, <1>3, QuietAdds
<1>4. Quiet(cache', cache) /\ Quiet(server', server)
  BY <1>1, <1>3 DEF TypeOK
<1>5. StoredHistory'
  BY <1>4, QuietKeeps DEF HistoryInv
<1> QED
  BY <1>4, <1>5 DEF Advances, Grows, Quiet

LEMMA RunInsert ==
  ASSUME TypeOK, HistoryInv, up, up' = up, NEW t \in Ids, NEW r \in RunDoc,
         r = FirstRun(t) \/ HealsTo(cache, t, r), NEW next,
         Acked("runs", r, next) \/ Failed("runs", r)
  PROVE  Advances /\ (Acked("runs", r, next) => r \in Range(cache'.runs))
<1>1. "runs" \in DOMAIN NoDocs /\ r \in Docs["runs"]
  BY DEF NoDocs, Docs
<1>2. /\ Acked("runs", r, next) =>
           Adds(cache', cache, "runs", r) /\ Adds(server', server, "runs", r)
      /\ Failed("runs", r) =>
           cache' = cache /\ (server' = server \/ Adds(server', server, "runs", r))
  BY <1>1, InsertAcked, InsertFailed DEF AddsOne
<1>3. StoredHistory'
  BY <1>2, RunWritten DEF HistoryInv
<1>4. r = FirstRun(r.task) \/ HealsTo(cache, r.task, r)
  BY HealedRun, Constants DEF HistoryInv, StoredHistory, TypeOK
<1>5. /\ Range(server'.runs) \in {Range(server.runs), Range(server.runs) \cup {r}}
      /\ Range(cache.runs) \subseteq Range(cache'.runs)
      /\ Acked("runs", r, next) => r \in Range(cache'.runs)
  BY <1>2 DEF Adds
<1>6. Grows
  BY <1>4, <1>5 DEF Grows
<1> QED
  BY <1>3, <1>5, <1>6 DEF Advances

LEMMA NoInsert ==
  ASSUME TypeOK, HistoryInv, server' = server, cache' = cache, up' = up
  PROVE  Advances
<1>1. Quiet(cache', cache) /\ Quiet(server', server)
  BY DEF Quiet
<1>2. StoredHistory'
  BY <1>1, QuietKeeps DEF HistoryInv
<1> QED
  BY <1>2 DEF Advances, Grows

(* A transition's event: its run is one above the latest snapshot, which is  *)
(* the run the caller was given.                                             *)
LEMMA EventInsert ==
  ASSUME TypeOK, HistoryInv, TransitionEvent
  PROVE  LET run == NextRun(Current(cache, op.task))
         IN /\ Advances
            /\ run \in RunDoc
            /\ seen[op.who] = Current(cache, op.task)
            /\ run.task = op.task /\ run.version = seen[op.who].version + 1
            /\ run.version <= MaxVersion + 1
            /\ can_transition(seen[op.who].state, run.state)
            /\ \A q \in RunsOf(server, op.task) : q.version <= seen[op.who].version
            /\ server'.runs = server.runs
            /\ op' # None => HealsTo(cache', op.task, run)
            /\ op' \in {None, [kind |-> "snapshot", who |-> op.who,
                               task |-> op.task, run |-> run]}
<1> DEFINE cur == Current(cache, op.task)
           run == NextRun(cur)
           doc == [task |-> op.task, seq |-> NextSeq(cache, op.task), run |-> run]
           next == [kind |-> "snapshot", who |-> op.who, task |-> op.task, run |-> run]
<1>0. /\ op # None /\ op.kind = "transition" /\ RunsOf(cache, op.task) # {}
      /\ Unhealed(cache, op.task) = {} /\ up' = up
      /\ cur.version = op.expected /\ can_transition(cur.state, op.to)
      /\ Acked("events", doc, next) \/ Failed("events", doc)
  BY DEF TransitionEvent, Admitted
<1>1. /\ up /\ seen[op.who] # None /\ seen[op.who].task = op.task
      /\ seen[op.who].version = op.expected /\ op.expected <= MaxVersion
      /\ op.task \in Ids /\ op.who \in Threads
  BY <1>0, OpTyped DEF HistoryInv, OpFits
<1>2. /\ cur \in RunsOf(cache, op.task) /\ cur \in RunDoc
      /\ \A q \in RunsOf(cache, op.task) : q.version <= cur.version
  BY <1>0, CurrentIsLatest DEF TypeOK
<1>3. seen[op.who] = cur
  BY <1>0, <1>1, <1>2, SameRun DEF HistoryInv, SeenIsStored, StoredHistory, RunsOf
<1>4. /\ run \in RunDoc /\ run.task = op.task /\ run.version = cur.version + 1
      /\ run.state = op.to
  BY <1>0, <1>2, NextRunTyped
<1>5. doc \in Docs["events"] /\ "events" \in DOMAIN NoDocs /\ doc \in EventDoc
  BY <1>1, <1>4, NextSeqTyped DEF Docs, NoDocs, EventDoc, TypeOK
<1>6. doc.task = op.task /\ doc.run = run /\ run # None
  BY <1>4, Constants
<1>7. run.version \notin VersionsOf(cache, op.task)
  <2> SUFFICES ASSUME NEW q \in RunsOf(cache, op.task), q.version = run.version
               PROVE  FALSE
    BY DEF VersionsOf
  <2> QED
    BY <1>2, <1>4 DEF RunDoc
<1>8. Follows(cache, run)
  BY <1>0, <1>2, <1>4 DEF Follows, RunsOf
<1>9. run.version <= MaxVersion + 1
  BY <1>0, <1>1, <1>2, <1>4, Constants DEF RunDoc
<1> HIDE DEF doc, next, run, cur
<1>10. /\ Acked("events", doc, next) =>
            /\ AddsOne(cache', cache, "events", doc)
            /\ Adds(server', server, "events", doc)
            /\ op' = next
       /\ Failed("events", doc) =>
            /\ cache' = cache /\ (server' = server \/ Adds(server', server, "events", doc))
            /\ op' = None
  BY <1>5, InsertAcked, InsertFailed
<1>11. /\ StoredHistory'
       /\ \A q \in RunsOf(server, op.task) : q \in Range(cache.runs)
       /\ server'.runs = server.runs /\ cache'.runs = cache.runs
       /\ cache' = cache \/ HealsTo(cache', op.task, run)
  BY <1>0, <1>1, <1>4, <1>5, <1>6, <1>7, <1>8, <1>9, <1>10, EventWritten DEF HistoryInv
<1>12. Advances
  BY <1>11 DEF Advances, Grows
<1>13. \A q \in RunsOf(server, op.task) : q.version <= seen[op.who].version
  BY <1>2, <1>3, <1>11 DEF RunsOf
<1>14. op' # None => HealsTo(cache', op.task, run)
  <2> SUFFICES ASSUME Acked("events", doc, next) PROVE cache' # cache
    BY <1>0, <1>10, <1>11
  <2> QED
    BY <1>10 DEF AddsOne
<1>15. op' \in {None, next}
  BY <1>0, <1>10
<1> QED
  BY <1>0, <1>3, <1>4, <1>9, <1>11, <1>12, <1>13, <1>14, <1>15 DEF run, cur, next

(* Every step of the store advances the history or leaves it alone.          *)
LEMMA StepAdvances == TypeOK /\ HistoryInv /\ [Next]_vars => Advances
<1> SUFFICES ASSUME TypeOK, HistoryInv, [Next]_vars PROVE Advances
  OBVIOUS
<1> USE DocOf
<1>0. op # None => up
  BY DEF HistoryInv, OpFits
<1>1. ASSUME NEW c \in Clients, NEW t \in Ids, NEW k \in Keys, CreateTask(c, t, k)
      PROVE  Advances
  <2> DEFINE doc == [task |-> t, key |-> k]
             next == [kind |-> "createRun", who |-> c, task |-> t, key |-> k]
  <2>1. /\ doc \in Docs["tasks"] /\ up' = up
        /\ Acked("tasks", doc, next) \/ Failed("tasks", doc)
    BY <1>1, Written DEF CreateTask
  <2> HIDE DEF doc, next
  <2> QED
    BY <2>1, QuietInsert
<1>2. CASE CreateRun
  <2> DEFINE next == [op EXCEPT !.kind = "createEvent"]
  <2>1. /\ op # None /\ op.task \in Ids /\ up' = up
        /\ Acked("runs", FirstRun(op.task), next) \/ Failed("runs", FirstRun(op.task))
    BY <1>2, OpTyped DEF CreateRun
  <2>2. FirstRun(op.task) \in RunDoc
    BY <2>1, Constants
  <2> HIDE DEF next
  <2> QED
    BY <1>0, <2>1, <2>2, RunInsert
<1>3. CASE CreateEvent \/ HealFirstEvent
  <2> DEFINE doc == [task |-> op.task, seq |-> 1, run |-> None]
  <2>1. /\ op # None /\ op.task \in Ids /\ up' = up
        /\ Acked("events", doc, None) \/ Acked("events", doc, op) \/ Failed("events", doc)
    BY <1>3, OpTyped DEF CreateEvent, HealFirstEvent
  <2>2. doc \in Docs["events"] /\ doc.run = None
    BY <2>1, Written
  <2> HIDE DEF doc
  <2> QED
    BY <2>1, <2>2, QuietInsert
<1>4. CASE HealFirstRun
  <2>1. /\ op # None /\ op.task \in Ids /\ up' = up
        /\ Acked("runs", FirstRun(op.task), op) \/ Failed("runs", FirstRun(op.task))
    BY <1>4, OpTyped DEF HealFirstRun
  <2>2. FirstRun(op.task) \in RunDoc
    BY <2>1, Constants
  <2> QED
    BY <1>0, <2>1, <2>2, RunInsert
<1>5. CASE HealRun
  <2> DEFINE doc == cache.events[FirstUnhealed(cache, op.task)].run
  <2>1. /\ op # None /\ op.task \in Ids /\ up' = up /\ Unhealed(cache, op.task) # {}
        /\ Acked("runs", doc, op) \/ Failed("runs", doc)
    BY <1>5, OpTyped DEF HealRun
  <2>2. HealsTo(cache, op.task, doc) /\ doc \in RunDoc
    BY <2>1, FirstToHeal, Written DEF TypeOK
  <2> HIDE DEF doc
  <2> QED
    BY <1>0, <2>1, <2>2, RunInsert
<1>6. CASE TransitionEvent
  BY <1>6, EventInsert
<1>7. CASE TransitionSnapshot
  <2>1. /\ op # None /\ op.kind = "snapshot" /\ op.task \in Ids /\ up' = up
        /\ Acked("runs", op.run, None) \/ Failed("runs", op.run)
        /\ op.run \in RunDoc
    BY <1>7, OpTyped DEF TransitionSnapshot
  <2>2. HealsTo(cache, op.task, op.run)
    BY <2>1 DEF HistoryInv, OpFits
  <2> QED
    BY <1>0, <2>1, <2>2, RunInsert
<1>8. ASSUME NEW t \in Ids, AppendEvent(t) PROVE Advances
  <2> DEFINE doc == [task |-> t, seq |-> NextSeq(cache, t), run |-> None]
  <2>1. /\ doc \in Docs["events"] /\ doc.run = None /\ up' = up
        /\ Acked("events", doc, None) \/ Failed("events", doc)
    BY <1>8, Written DEF AppendEvent
  <2> HIDE DEF doc
  <2> QED
    BY <2>1, QuietInsert
<1>9. ASSUME NEW t \in Ids, SaveResult(t) PROVE Advances
  <2> DEFINE doc == [task |-> t, attempt |-> AttemptOf(cache, t)]
  <2>1. /\ doc \in Docs["results"] /\ up' = up
        /\ Acked("results", doc, None) \/ Failed("results", doc)
    BY <1>9, Written DEF SaveResult
  <2> HIDE DEF doc
  <2> QED
    BY <2>1, QuietInsert
<1>10. ASSUME server' = server, cache' = cache, up' = up PROVE Advances
  BY <1>10, NoInsert
<1>11. ASSUME NEW n \in 1..Len(Segments), Refresh(n) PROVE Advances
  <2>1. server' = server /\ up' = up /\ cache' = Reloaded(n) /\ n \in Nat
    BY <1>11 DEF Refresh
  <2>2. /\ cache' \in SegmentsType
        /\ cache'.runs \in {server.runs, cache.runs}
        /\ cache'.events \in {server.events, cache.events}
        /\ cache'.runs = cache.runs => cache'.runs = server.runs \/ cache'.events = cache.events
    BY <2>1, ReloadedTyped
  <2>3. StoredHistory'
    BY <2>1, <2>2, Reread DEF HistoryInv
  <2> QED
    BY <2>1, <2>2, <2>3 DEF Advances, Grows, HistoryInv, StoredHistory
<1>12. CASE RecoverStart \/ Open
  <2>1. server' = server /\ cache' = server
    BY <1>12 DEF RecoverStart, Open
  <2>2. StoredHistory'
    BY <2>1, Reread DEF HistoryInv
  <2> QED
    BY <2>1, <2>2 DEF Advances, Grows, HistoryInv, StoredHistory
<1>13. CASE Crash
  <2>1. server' = server /\ cache' = NoDocs
    BY <1>13 DEF Crash
  <2>2. ~up'
    BY <1>13 DEF Crash
  <2>3. StoredHistory'
    BY <2>1, <2>2, Reread DEF HistoryInv
  <2> QED
    BY <2>1, <2>2, <2>3 DEF Advances, Grows
<1>14. ASSUME NEW c, NEW t, BeginGet(c, t) PROVE Advances
  BY <1>10, <1>14 DEF BeginGet
<1>15. ASSUME NEW c, NEW to, NEW att, BeginTransition(c, to, att) PROVE Advances
  BY <1>10, <1>15 DEF BeginTransition
<1>16. ASSUME NEW k, LookupKey(k) PROVE Advances
  BY <1>10, <1>16 DEF LookupKey
<1>17. CASE GetReturn \/ TransitionRefused \/ RecoverSkip \/ RecoverDone
  BY <1>10, <1>17 DEF GetReturn, TransitionRefused, RecoverSkip, RecoverDone
<1>18. CASE UNCHANGED vars
  BY <1>10, <1>18 DEF vars
<1> QED
  BY <1>1, <1>2, <1>3, <1>4, <1>5, <1>6, <1>7, <1>8, <1>9, <1>11, <1>12, <1>13, <1>14,
     <1>15, <1>16, <1>17, <1>18
     DEF Next, Operation, Step, Recover, GetTask, Transition, RecoverGet, RecoverBlock

(* What a thread's caller was given stays stored, and readable while the     *)
(* process lives; what it is newly given is readable.                        *)
LEMMA SeenStep == TypeOK /\ HistoryInv /\ [Next]_vars => SeenIsStored'
<1> SUFFICES ASSUME TypeOK, HistoryInv, [Next]_vars PROVE SeenIsStored'
  OBVIOUS
<1>1. /\ Range(server.runs) \subseteq Range(server'.runs)
      /\ up /\ up' => Range(cache.runs) \subseteq Range(cache'.runs)
      /\ Range(cache'.runs) \subseteq Range(server'.runs)
  BY StepAdvances DEF Advances, Grows, StoredHistory
<1>2. ~up /\ up' => cache' = server /\ server' = server /\ seen' = seen
  BY DEF HistoryInv, vars, Next, Operation, Step, Recover, Open, GetTask, BeginGet, CreateTask,
         Transition, BeginTransition, AppendEvent, SaveResult, LookupKey, Refresh, CreateRun,
         CreateEvent, HealFirstRun, HealFirstEvent, HealRun, GetReturn, TransitionRefused,
         TransitionEvent, TransitionSnapshot, RecoverStart, RecoverBlock, RecoverSkip,
         RecoverDone, RecoverGet, Crash, Free
<1> DEFINE Given(r) == up /\ up' /\ r \in Range(cache'.runs)
<1>3. ASSUME \A c \in Threads : seen'[c] \in {seen[c], None} \/ Given(seen'[c])
      PROVE  SeenIsStored'
  BY <1>1, <1>2, <1>3 DEF HistoryInv, SeenIsStored
<1>4. ASSUME seen' = seen PROVE SeenIsStored'
  BY <1>3, <1>4
<1>5. \A c \in Threads : RaiseTo(c) => \A d \in Threads : seen'[d] \in {seen[d], None}
  BY DEF RaiseTo, TypeOK
<1>6. \A c \in Threads : \A r : EndOf(c, r) =>
        \A d \in Threads : seen'[d] \in {seen[d], None} \/ (d = c /\ seen'[d] = r)
  BY DEF EndOf, TypeOK
<1>7. op # None => up /\ op.who \in Threads /\ op.task \in Ids
  BY OpTyped DEF HistoryInv, OpFits
<1>8. CASE CreateEvent
  <2>1. up' = up /\ seen' \in {seen, [seen EXCEPT ![op.who] = FirstRun(op.task)]}
    BY <1>8 DEF CreateEvent
  <2>2. up /\ FirstRun(op.task) \in Range(cache.runs)
    BY <1>8 DEF CreateEvent, HistoryInv, OpFits
  <2>3. Given(FirstRun(op.task))
    BY <1>1, <2>1, <2>2
  <2>4. \A c \in Threads : seen'[c] \in {seen[c], FirstRun(op.task)}
    BY <2>1 DEF TypeOK
  <2> HIDE DEF Given
  <2> QED
    BY <1>3, <2>3, <2>4
<1>9. CASE GetReturn
  <2>1. up' = up /\ seen' = [seen EXCEPT ![op.who] = Current(cache, op.task)]
    BY <1>9 DEF GetReturn
  <2>2. up /\ Current(cache, op.task) \in Range(cache.runs)
    BY <1>7, <1>9, CurrentIsLatest DEF GetReturn, TypeOK, RunsOf
  <2>3. Given(Current(cache, op.task))
    BY <1>1, <2>1, <2>2
  <2>4. \A c \in Threads : seen'[c] \in {seen[c], Current(cache, op.task)}
    BY <2>1 DEF TypeOK
  <2> HIDE DEF Given
  <2> QED
    BY <1>3, <2>3, <2>4
<1>10. CASE TransitionRefused
  <2>1. \A d \in Threads : seen'[d] \in {seen[d], None}
    BY <1>6, <1>7, <1>10 DEF TransitionRefused
  <2> QED
    BY <1>3, <2>1
<1>11. CASE TransitionSnapshot
  <2>1. CASE Acked("runs", op.run, None) /\ EndOf(op.who, op.run)
    <3>1. /\ op # None /\ op.kind = "snapshot" /\ op.run \in RunDoc /\ up' = up
          /\ op.task \in Ids /\ HealsTo(cache, op.task, op.run)
      BY <1>11, OpTyped DEF TransitionSnapshot, HistoryInv, OpFits
    <3>2. Given(op.run)
      BY <1>7, <2>1, <3>1, RunInsert
    <3> HIDE DEF Given
    <3> QED
      BY <1>3, <1>6, <1>7, <2>1, <3>1, <3>2
  <2>2. CASE RaiseTo(op.who)
    BY <1>3, <1>5, <1>7, <1>11, <2>2 DEF TransitionSnapshot
  <2> QED
    BY <1>11, <2>1, <2>2 DEF TransitionSnapshot
<1>12. CASE HealFirstRun \/ HealFirstEvent \/ HealRun \/ TransitionEvent
  <2>1. op # None /\ (seen' = seen \/ RaiseTo(op.who))
    BY <1>12 DEF HealFirstRun, HealFirstEvent, HealRun, TransitionEvent
  <2> QED
    BY <1>3, <1>4, <1>5, <1>7, <2>1
<1>13. CASE RecoverSkip \/ Crash
  <2>1. \A d \in Threads : seen'[d] \in {seen[d], None}
    BY <1>13 DEF RecoverSkip, Crash, TypeOK
  <2> QED
    BY <1>3, <2>1
<1>14. CASE Operation \/ CreateRun \/ RecoverStart \/ RecoverBlock \/ RecoverDone
            \/ (\E t \in Ids : RecoverGet(t)) \/ Open \/ UNCHANGED vars
  <2>1. seen' = seen
    BY <1>14 DEF Operation, GetTask, BeginGet, CreateTask, Transition, BeginTransition,
                 AppendEvent, SaveResult, LookupKey, Refresh, CreateRun, RecoverStart,
                 RecoverBlock, RecoverDone, RecoverGet, Open, vars
  <2> QED
    BY <1>4, <2>1
<1> QED
  BY <1>8, <1>9, <1>10, <1>11, <1>12, <1>13, <1>14 DEF Next, Step, Recover

(* The operation that holds the lock keeps what it relies on: no other       *)
(* operation runs until it ends.                                             *)
LEMMA OpStep == TypeOK /\ HistoryInv /\ [Next]_vars => OpFits'
<1> SUFFICES ASSUME TypeOK, HistoryInv, [Next]_vars PROVE OpFits'
  OBVIOUS
<1> USE DocOf
<1>0. ASSUME op' = None PROVE OpFits'
  BY <1>0 DEF OpFits
<1>1. ASSUME op' = op, up' = up, seen' = seen, op # None, op.kind # "snapshot",
             Range(cache.runs) \subseteq Range(cache'.runs)
      PROVE  OpFits'
  BY <1>1 DEF HistoryInv, OpFits
<1>2. ~up => op = None
  BY DEF HistoryInv
<1>3. up /\ up' => Range(cache.runs) \subseteq Range(cache'.runs)
  BY StepAdvances DEF Advances
<1>4. \A seg, doc : Failed(seg, doc) => op' = None
  BY DEF Failed
<1>5. \A seg, doc, next : Acked(seg, doc, next) => op' = next
  BY DEF Acked
<1>6. ASSUME NEW c \in Clients, NEW t \in Ids, NEW k \in Keys, CreateTask(c, t, k)
      PROVE  OpFits'
  <2>1. up /\ up' = up
    BY <1>6 DEF CreateTask, Free
  <2>2. op' \in {None, [kind |-> "createRun", who |-> c, task |-> t, key |-> k]}
    BY <1>4, <1>5, <1>6 DEF CreateTask
  <2> QED
    BY <1>0, <2>1, <2>2 DEF OpFits
<1>7. CASE CreateRun
  <2>1. /\ op # None /\ op.kind = "createRun" /\ op.task \in Ids /\ up' = up
        /\ up /\ op.who \in Clients
    BY <1>7, OpTyped DEF CreateRun, HistoryInv, OpFits
  <2>2. CASE Failed("runs", FirstRun(op.task))
    BY <1>0, <1>4, <2>2
  <2>3. CASE Acked("runs", FirstRun(op.task), [op EXCEPT !.kind = "createEvent"])
    <3> DEFINE next == [op EXCEPT !.kind = "createEvent"]
    <3>1. FirstRun(op.task) \in RunDoc
      BY <2>1, Constants
    <3>2. FirstRun(op.task) \in Range(cache'.runs)
      <4> HIDE DEF next
      <4> QED
        BY <2>1, <2>3, <3>1, RunInsert DEF next
    <3>3. op' = next
      BY <1>5, <2>3
    <3>4. next.kind = "createEvent" /\ next.who = op.who /\ next.task = op.task
      BY <2>1, OpTyped
    <3> HIDE DEF next
    <3> QED
      BY <2>1, <3>2, <3>3, <3>4 DEF OpFits
  <2> QED
    BY <1>7, <2>2, <2>3 DEF CreateRun
<1>8. CASE CreateEvent
  BY <1>0, <1>4, <1>5, <1>8 DEF CreateEvent
<1>9. CASE HealFirstRun \/ HealFirstEvent \/ HealRun
  <2>1. op # None /\ op.kind # "snapshot" /\ up' = up /\ up
    BY <1>2, <1>9 DEF HealFirstRun, HealFirstEvent, HealRun
  <2>2. op' = None \/ (op' = op /\ seen' = seen)
    BY <1>4, <1>5, <1>9 DEF HealFirstRun, HealFirstEvent, HealRun
  <2> QED
    BY <1>0, <1>1, <1>3, <2>1, <2>2
<1>10. CASE TransitionEvent
  <2> DEFINE run == NextRun(Current(cache, op.task))
             next == [kind |-> "snapshot", who |-> op.who, task |-> op.task, run |-> run]
  <2>1. /\ op # None /\ op.kind = "transition" /\ up' = up /\ up
        /\ seen[op.who] # None /\ seen[op.who].task = op.task
    BY <1>2, <1>10 DEF TransitionEvent, HistoryInv, OpFits
  <2>2. op' # None => seen' = seen
    BY <1>4, <1>10 DEF TransitionEvent
  <2>3. /\ run.task = op.task /\ run.version = seen[op.who].version + 1
        /\ run.version <= MaxVersion + 1
        /\ can_transition(seen[op.who].state, run.state)
        /\ \A q \in RunsOf(server, op.task) : q.version <= seen[op.who].version
        /\ server'.runs = server.runs
        /\ op' # None => HealsTo(cache', op.task, run)
        /\ op' \in {None, next}
    BY <1>10, EventInsert
  <2>4. RunsOf(server, op.task)' = {r \in Range(server.runs) : r.task = op'.task}
    BY <2>3 DEF RunsOf
  <2>5. ASSUME op' = next PROVE OpFits'
    <3>1. /\ op'.kind = "snapshot" /\ op'.who = op.who /\ op'.task = op.task /\ op'.run = run
      BY <2>5
    <3>2. seen' = seen /\ HealsTo(cache', op.task, run)
      <4>1. next # None
        <5>1. next \in OpType
          BY <2>1, <1>10, OpTyped, EventInsert DEF OpType
        <5> QED
          BY <5>1, Constants
      <4> QED
        BY <2>2, <2>3, <2>5, <4>1
    <3> HIDE DEF run, next
    <3> QED
      BY <2>1, <2>3, <3>1, <3>2 DEF OpFits, RunsOf
  <2> QED
    BY <1>0, <2>3, <2>5
<1>11. CASE TransitionSnapshot
  BY <1>0, <1>4, <1>5, <1>11 DEF TransitionSnapshot
<1>12. ASSUME NEW t \in Ids, AppendEvent(t) \/ SaveResult(t) PROVE OpFits'
  BY <1>0, <1>4, <1>5, <1>12 DEF AppendEvent, SaveResult
<1>13. ASSUME NEW c \in Threads, NEW t \in Ids, BeginGet(c, t) PROVE OpFits'
  <2>1. up' = up /\ up /\ op' = [kind |-> "get", who |-> c, task |-> t]
    BY <1>13 DEF BeginGet, Free
  <2> QED
    BY <2>1 DEF OpFits
<1>14. ASSUME NEW c \in Threads, NEW to, NEW att, BeginTransition(c, to, att) PROVE OpFits'
  <2>1. /\ up' = up /\ up /\ seen' = seen
        /\ op' = [kind |-> "transition", who |-> c, task |-> seen[c].task,
                  expected |-> seen[c].version, to |-> to, attempt |-> att]
        /\ seen[c] # None /\ seen[c].version <= MaxVersion
    BY <1>14 DEF BeginTransition, Free
  <2> QED
    BY <2>1 DEF OpFits
<1>15. CASE GetReturn \/ TransitionRefused \/ Crash
  BY <1>0, <1>15 DEF GetReturn, TransitionRefused, Crash
<1>16. ASSUME op = None, op' = op PROVE OpFits'
  BY <1>0, <1>16
<1>17. ASSUME NEW k, NEW n, LookupKey(k) \/ Refresh(n) PROVE OpFits'
  BY <1>16, <1>17 DEF LookupKey, Refresh, Free
<1>18. CASE RecoverStart \/ RecoverSkip \/ RecoverDone \/ Open
  BY <1>2, <1>16, <1>18 DEF RecoverStart, RecoverSkip, RecoverDone, Open, Free
<1>19. CASE UNCHANGED vars
  BY <1>19 DEF vars, HistoryInv, OpFits, RunsOf, HealsTo, Unhealed, EventsOf, VersionsOf, Before
<1>20. CASE \E k \in Keys : LookupKey(k)
  BY <1>17, <1>20
<1>21. CASE \E n \in 1..Len(Segments) : Refresh(n)
  BY <1>17, <1>21
<1> QED
  BY <1>6, <1>7, <1>8, <1>9, <1>10, <1>11, <1>12, <1>13, <1>14, <1>15, <1>18, <1>19,
     <1>20, <1>21, Constants
     DEF Next, Operation, Step, Recover, GetTask, Transition, RecoverGet, RecoverBlock

(* The history invariant holds initially and every step keeps it.            *)
LEMMA HistoryInit == Init => HistoryInv
<1> SUFFICES ASSUME Init PROVE HistoryInv
  OBVIOUS
<1>1. Range(server.runs) = {} /\ Range(cache.runs) = {} /\ Range(server.events) = {} /\ Range(cache.events) = {}
  BY NoDocsTyped DEF Init
<1>2. StoredHistory
  BY <1>1 DEF StoredHistory, RunsLegal, EventsFollow, OneRunPerVersion, OnlyLostRuns
<1>3. SeenIsStored /\ OpFits /\ op = None /\ cache = NoDocs
  BY DEF Init, SeenIsStored, OpFits
<1> QED
  BY <1>2, <1>3 DEF HistoryInv

LEMMA HistoryStep == TypeOK /\ HistoryInv /\ [Next]_vars => HistoryInv'
<1> SUFFICES ASSUME TypeOK, HistoryInv, [Next]_vars PROVE HistoryInv'
  OBVIOUS
<1>1. StoredHistory' /\ SeenIsStored' /\ OpFits'
  BY StepAdvances, SeenStep, OpStep DEF Advances
<1>2. ASSUME ~up' PROVE op' = None /\ cache' = NoDocs
  BY <1>2 DEF HistoryInv, vars, Next, Operation, Step, Recover, Open, GetTask, BeginGet, CreateTask,
         Transition, BeginTransition, AppendEvent, SaveResult, LookupKey, Refresh, CreateRun,
         CreateEvent, HealFirstRun, HealFirstEvent, HealRun, GetReturn, TransitionRefused,
         TransitionEvent, TransitionSnapshot, RecoverStart, RecoverBlock, RecoverSkip,
         RecoverDone, RecoverGet, Crash, Free, OpFits
<1> QED
  BY <1>1, <1>2 DEF HistoryInv

-----------------------------------------------------------------------------
(* What follows for every reachable state.                                   *)

(* The segments, on the server and in the cache, the operation that holds    *)
(* the lock and everything the threads remember have their types, however    *)
(* many inserts are refused, lost or duplicated and however often the        *)
(* process dies.                                                             *)
THEOREM StoreTyped == Spec => []TypeOK
BY TypeInit, TypeStep, PTL DEF Spec

LEMMA HistoryAlways == Spec => [](TypeOK /\ HistoryInv)
<1>1. Init => TypeOK /\ HistoryInv
  BY TypeInit, HistoryInit
<1>2. TypeOK /\ HistoryInv /\ [Next]_vars => (TypeOK /\ HistoryInv)'
  BY TypeStep, HistoryStep
<1> QED
  BY <1>1, <1>2, PTL DEF Spec

(* A snapshot new to the server is the first of its task, or one above the   *)
(* latest snapshot the server holds, along a legal edge.                     *)
LEMMA NewRun ==
  ASSUME TypeOK, HistoryInv, up, NEW r \in RunDoc, r \notin Range(server.runs),
         r = FirstRun(r.task) \/ HealsTo(cache, r.task, r)
  PROVE  \/ r = FirstRun(r.task) /\ RunsOf(server, r.task) = {}
         \/ /\ r.version <= MaxVersion + 1
            /\ \E p \in RunsOf(server, r.task) :
                 /\ p.version + 1 = r.version
                 /\ can_transition(p.state, r.state)
                 /\ \A q \in RunsOf(server, r.task) : q.version <= p.version
<1>0. /\ server \in SegmentsType /\ cache \in SegmentsType /\ StoredHistory
  BY DEF TypeOK, HistoryInv
<1>1. CASE r = FirstRun(r.task)
  <2> SUFFICES ASSUME NEW q \in RunsOf(server, r.task) PROVE FALSE
    BY <1>1
  <2>1. q \in Range(server.runs) /\ q.task = r.task /\ q.version \in Nat
    BY <1>0, DocsTyped DEF RunsOf, RunDoc
  <2>2. PICK p \in Range(server.runs) : p.task = r.task /\ p.version = 0
    BY <1>0, <2>1 DEF StoredHistory, RunsLegal
  <2>3. p = FirstRun(r.task)
    BY <1>0, <2>2 DEF StoredHistory, RunsLegal
  <2> QED
    BY <1>1, <2>2, <2>3
<1>2. CASE HealsTo(cache, r.task, r)
  <2>1. /\ r.version # 0 /\ r.version <= MaxVersion + 1 /\ Follows(cache, r)
        /\ r.version \notin VersionsOf(cache, r.task)
    BY <1>0, <1>2, HealedRun DEF StoredHistory
  <2>2. PICK p \in Range(cache.runs) : /\ p.task = r.task /\ p.version + 1 = r.version
                                       /\ can_transition(p.state, r.state)
    BY <2>1 DEF Follows
  <2>3. p \in RunsOf(server, r.task) /\ p.version \in Nat /\ r.version \in Nat
    BY <1>0, <2>2, DocsTyped DEF StoredHistory, RunsOf, RunDoc
  <2>4. ASSUME NEW q \in RunsOf(server, r.task) PROVE q.version <= p.version
    <3>1. q \in Range(server.runs) /\ q.task = r.task /\ q.version \in Nat
      BY <1>0, DocsTyped DEF RunsOf, RunDoc
    <3>2. CASE q \in Range(cache.runs)
      <4> SUFFICES ASSUME ~(q.version <= p.version) PROVE FALSE
        OBVIOUS
      <4>1. r.version \in 0..q.version
        BY <2>2, <2>3, <3>1
      <4>2. PICK x \in Range(cache.runs) : x.task = r.task /\ x.version = r.version
        BY <1>0, <3>1, <3>2, <4>1 DEF StoredHistory, RunsLegal
      <4> QED
        BY <2>1, <4>2 DEF VersionsOf, RunsOf
    <3>3. CASE q.version = 0
      BY <2>3, <3>3
    <3>4. CASE HealsTo(cache, q.task, q)
      BY <1>0, <1>2, <3>1, <3>4, OneToHeal
    <3> QED
      BY <1>0, <3>1, <3>2, <3>3, <3>4 DEF StoredHistory, OnlyLostRuns
  <2> QED
    BY <2>1, <2>2, <2>3, <2>4
<1> QED
  BY <1>1, <1>2

(* The adapter keeps the port's promise on the durable state: whatever is    *)
(* refused, lost or duplicated and wherever the process dies, every insert   *)
(* of a snapshot is a creation or a transition of the port, or repeats one.  *)
THEOREM StoreImplementsPort == Spec => PortSpec
<1>1. Init => Port!Init
  BY NoDocsTyped DEF Init, Port!Init
<1>2. TypeOK /\ HistoryInv /\ [Next]_vars => [Port!Next]_(Range(server.runs))
  <2> SUFFICES ASSUME TypeOK, HistoryInv, [Next]_vars,
                      Range(server'.runs) # Range(server.runs)
               PROVE  Port!Next
    OBVIOUS
  <2>1. PICK r \in RunDoc : /\ up
                            /\ r = FirstRun(r.task) \/ HealsTo(cache, r.task, r)
                            /\ Range(server'.runs) = Range(server.runs) \cup {r}
    BY StepAdvances DEF Advances, Grows
  <2>2. r \notin Range(server.runs)
    BY <2>1
  <2>3. CASE r = FirstRun(r.task) /\ RunsOf(server, r.task) = {}
    <3>1. Port!Create(r.task)
      BY <2>1, <2>3 DEF Port!Create, Port!RunsOf, RunsOf, Port!FirstRun, FirstRun
    <3>2. r.task \in Ids
      BY DEF RunDoc
    <3> QED
      BY <3>1, <3>2 DEF Port!Next
  <2>4. CASE /\ r.version <= MaxVersion + 1
             /\ \E p \in RunsOf(server, r.task) :
                  /\ p.version + 1 = r.version
                  /\ can_transition(p.state, r.state)
                  /\ \A q \in RunsOf(server, r.task) : q.version <= p.version
    <3>1. PICK p \in RunsOf(server, r.task) :
                  /\ p.version + 1 = r.version
                  /\ can_transition(p.state, r.state)
                  /\ \A q \in RunsOf(server, r.task) : q.version <= p.version
      BY <2>4
    <3>2. /\ p \in Range(server.runs) /\ p.task = r.task /\ p.version \in Nat
          /\ r.version \in Nat /\ r.state \in States /\ r.attempt \in AttemptNos
      BY DocsTyped DEF RunsOf, TypeOK, RunDoc
    <3>3. Port!IsCurrent(p)
      BY <3>1, <3>2 DEF Port!IsCurrent, Port!RunsOf, RunsOf
    <3>4. p.version < MaxVersion + 1
      BY <2>4, <3>1, <3>2, Constants
    <3>5. r = [task |-> p.task, version |-> p.version + 1,
               state |-> r.state, attempt |-> r.attempt]
      BY <3>1, <3>2 DEF RunDoc
    <3>6. Port!can_transition(p.state, r.state)
      BY <3>1 DEF Port!can_transition, Port!legal_targets, Port!TRANSITIONS,
                  can_transition, legal_targets, TRANSITIONS
    <3>7. Port!Transition(p, r.state, r.attempt)
      BY <2>1, <3>3, <3>4, <3>5, <3>6 DEF Port!Transition
    <3> QED
      BY <3>2, <3>7 DEF Port!Next, Port!States, States
  <2> QED
    BY <2>1, <2>2, <2>3, <2>4, NewRun
<1> QED
  BY <1>1, <1>2, HistoryAlways, PTL DEF Spec, PortSpec, Port!Spec

(* Between transition's version check and its snapshot nothing newer reaches *)
(* the server: the run its caller decided on is still the latest there.      *)
THEOREM UpdatesAreNotLost == Spec => []NoLostUpdate
<1>1. TypeOK /\ HistoryInv => NoLostUpdate
  <2> SUFFICES ASSUME TypeOK, HistoryInv, op # None, op.kind = "snapshot"
               PROVE  seen[op.who] = Current(server, op.task)
    BY DEF NoLostUpdate
  <2>1. /\ op.who \in Threads /\ seen[op.who] # None /\ seen[op.who].task = op.task
        /\ \A q \in RunsOf(server, op.task) : q.version <= seen[op.who].version
    BY OpTyped DEF HistoryInv, OpFits
  <2>2. seen[op.who] \in RunsOf(server, op.task)
    BY <2>1 DEF HistoryInv, SeenIsStored, RunsOf
  <2>3. /\ Current(server, op.task) \in RunsOf(server, op.task)
        /\ seen[op.who].version <= Current(server, op.task).version
    BY <2>2, CurrentIsLatest DEF TypeOK
  <2>4. seen[op.who].version = Current(server, op.task).version
    <3>1. seen[op.who].version \in Nat /\ Current(server, op.task).version \in Nat
      BY <2>2, <2>3, DocsTyped DEF TypeOK, RunDoc
    <3> QED
      BY <2>1, <2>3, <3>1
  <2> QED
    BY <2>2, <2>3, <2>4, SameRun DEF HistoryInv, RunsOf
<1> QED
  BY <1>1, HistoryAlways, PTL

(* A terminal snapshot is the last of its task.                              *)
LEMMA TerminalIsLast ==
  ASSUME NEW st \in SegmentsType, RunsLegal(st), Range(st.runs) \subseteq Range(server.runs),
         OneRunPerVersion, NEW r \in Range(st.runs), r.state \in TERMINAL_STATES,
         NEW q \in RunsOf(st, r.task)
  PROVE  q.version <= r.version
<1> SUFFICES ASSUME ~(q.version <= r.version) PROVE FALSE
  OBVIOUS
<1>1. q \in Range(st.runs) /\ q.task = r.task /\ q.version \in Nat /\ r.version \in Nat
  BY DocsTyped DEF RunsOf, RunDoc
<1>2. r.version + 1 \in 0..q.version
  BY <1>1
<1>3. PICK n \in Range(st.runs) : n.task = r.task /\ n.version = r.version + 1
  BY <1>1, <1>2 DEF RunsLegal
<1>4. PICK p \in Range(st.runs) : /\ p.task = r.task /\ p.version + 1 = r.version + 1
                                  /\ can_transition(p.state, n.state)
  BY <1>1, <1>3 DEF RunsLegal, Follows
<1>5. p.version = r.version
  <2>1. p.version \in Nat
    BY DocsTyped DEF RunDoc
  <2> QED
    BY <1>1, <1>4, <2>1
<1>6. p = r
  BY <1>4, <1>5 DEF OneRunPerVersion
<1> QED
  BY <1>4, <1>6 DEF can_transition, legal_targets, TRANSITIONS, TERMINAL_STATES

(* Whatever a caller was given stays readable in the live process, over      *)
(* deaths, refreshes that stop early and lost answers, and list_pending does *)
(* not list a task that somebody was told is finished.                       *)
THEOREM ReadsNeverGoBack == Spec => []SeenIsCached
<1>1. TypeOK /\ HistoryInv => SeenIsCached
  <2> SUFFICES ASSUME TypeOK, HistoryInv, up, NEW c \in Threads, seen[c] # None
               PROVE  /\ seen[c] \in Range(cache.runs)
                      /\ seen[c].state \in TERMINAL_STATES
                           => \A r \in ListPending : r.task # seen[c].task
    BY DEF SeenIsCached
  <2>1. seen[c] \in Range(cache.runs)
    BY DEF HistoryInv, SeenIsStored
  <2>2. ASSUME seen[c].state \in TERMINAL_STATES, NEW r \in ListPending, r.task = seen[c].task
        PROVE  FALSE
    <3>1. /\ r \in Range(cache.runs) /\ r = Current(cache, r.task)
          /\ r.state \in PENDING_STATES
      BY <2>2 DEF ListPending
    <3>2. r \in RunsOf(cache, r.task) /\ seen[c] \in RunsOf(cache, r.task)
      BY <2>1, <2>2, <3>1 DEF RunsOf
    <3>3. seen[c].version <= r.version
      <4>1. seen[c].version <= Current(cache, r.task).version
        BY <3>2, CurrentIsLatest DEF TypeOK
      <4> QED
        BY <3>1, <4>1
    <3>4. r.version <= seen[c].version
      BY <2>1, <2>2, <3>2, TerminalIsLast DEF HistoryInv, StoredHistory, TypeOK
    <3>5. r.version = seen[c].version
      BY <3>2, <3>3, <3>4, DocsTyped DEF TypeOK, RunDoc
    <3>6. r = seen[c]
      BY <2>1, <2>2, <3>1, <3>5, SameRun DEF HistoryInv, StoredHistory
    <3> QED
      BY <2>2, <3>1, <3>6 DEF TERMINAL_STATES, PENDING_STATES
  <2> QED
    BY <2>1, <2>2
<1> QED
  BY <1>1, HistoryAlways, PTL

-----------------------------------------------------------------------------
(* The numbers of the events.                                                *)

LEMMA OneMore ==
  ASSUME NEW st \in SegmentsType, NEW doc \in EventDoc, NEW new,
         AddsOne(new, st, "events", doc), NEW t
  PROVE  /\ Cardinality(EventsOf(new, t)) =
              Cardinality(EventsOf(st, t)) + (IF t = doc.task THEN 1 ELSE 0)
         /\ Numbered(st, t) /\ doc.seq <= Cardinality(EventsOf(st, doc.task)) + 1
              => Numbered(new, t)
<1>1. PICK n : /\ n \notin DOMAIN st.events
               /\ DOMAIN new.events = DOMAIN st.events \cup {n}
               /\ new.events[n] = doc
               /\ \A i \in DOMAIN st.events : new.events[i] = st.events[i]
  BY DEF AddsOne, Adds
<1>2. EventsOf(new, t) = IF t = doc.task THEN EventsOf(st, t) \cup {n} ELSE EventsOf(st, t)
  BY <1>1 DEF EventsOf
<1>3. /\ IsFiniteSet(EventsOf(st, t)) /\ Cardinality(EventsOf(st, t)) \in Nat
      /\ n \notin EventsOf(st, t)
  BY <1>1, NextSeqTyped DEF EventsOf
<1>4. Cardinality(EventsOf(st, t) \cup {n}) = Cardinality(EventsOf(st, t)) + 1
  BY <1>3, FS_AddElement
<1>5. Cardinality(EventsOf(new, t)) =
              Cardinality(EventsOf(st, t)) + (IF t = doc.task THEN 1 ELSE 0)
  BY <1>2, <1>3, <1>4
<1>6. ASSUME Numbered(st, t), doc.seq <= Cardinality(EventsOf(st, doc.task)) + 1
      PROVE  Numbered(new, t)
  <2> SUFFICES ASSUME NEW i \in EventsOf(new, t)
               PROVE  new.events[i].seq <= Cardinality(EventsOf(new, t))
    BY DEF Numbered
  <2>1. CASE i = n
    <3>1. t = doc.task
      BY <1>1, <2>1 DEF EventsOf
    <3> QED
      BY <1>1, <1>5, <1>6, <2>1, <3>1
  <2>2. CASE i # n
    <3>1. i \in EventsOf(st, t) /\ new.events[i] = st.events[i]
      BY <1>1, <1>2, <2>2 DEF EventsOf
    <3>2. st.events[i].seq <= Cardinality(EventsOf(st, t)) /\ st.events[i].seq \in Nat
      <4>1. st.events[i] \in EventDoc
        BY <3>1, SegmentRange DEF SegmentsType, EventsOf
      <4> QED
        BY <1>6, <3>1, <4>1 DEF Numbered, EventDoc
    <3>3. Cardinality(EventsOf(new, t)) \in Nat
          /\ Cardinality(EventsOf(st, t)) <= Cardinality(EventsOf(new, t))
      BY <1>3, <1>5
    <3> QED
      BY <1>3, <3>1, <3>2, <3>3
  <2> QED
    BY <2>1, <2>2
<1> QED
  BY <1>5, <1>6

(* An event that is written carries at most the next free number.            *)
LEMMA EventNumbered ==
  ASSUME TypeOK, SeqInv, NEW doc \in EventDoc, NEW next,
         doc.seq <= Cardinality(EventsOf(cache, doc.task)) + 1,
         Acked("events", doc, next) \/ Failed("events", doc)
  PROVE  SeqInv'
<1> DEFINE once == Land(server, "events", doc)
           twice == Land(once, "events", doc)
           own == Land(cache, "events", doc)
           size(st, t) == Cardinality(EventsOf(st, t))
<1>0. "events" \in DOMAIN NoDocs /\ doc \in Docs["events"] /\ doc.task \in Ids /\ doc.seq \in Nat
  BY DEF NoDocs, Docs, EventDoc
<1>1. /\ server \in SegmentsType /\ AddsOne(once, server, "events", doc)
      /\ cache \in SegmentsType /\ AddsOne(own, cache, "events", doc)
  BY <1>0, LandAdds DEF TypeOK
<1>2. once \in SegmentsType
  BY <1>1 DEF AddsOne, Adds
<1>3. AddsOne(twice, once, "events", doc)
  <2> HIDE DEF once
  <2> QED
    BY <1>0, <1>2, LandAdds
<1>4. \/ cache' = own /\ server' \in {once, twice}
      \/ cache' = cache /\ server' \in {server, once}
  BY DEF Acked, Failed
<1> HIDE DEF once, twice, own
<1> SUFFICES ASSUME NEW t \in Ids
             PROVE  /\ Numbered(cache', t) /\ Numbered(server', t)
                    /\ size(cache', t) <= size(server', t)
  BY DEF SeqInv, Numbered, EventsOf
<1>5. /\ size(cache, t) \in Nat /\ size(server, t) \in Nat
      /\ size(cache, doc.task) \in Nat /\ size(server, doc.task) \in Nat
      /\ size(cache, t) <= size(server, t)
      /\ size(cache, doc.task) <= size(server, doc.task)
      /\ Numbered(cache, t) /\ Numbered(server, t)
  BY <1>0, <1>1, NextSeqTyped DEF SeqInv
<1>6. /\ size(own, t) = size(cache, t) + (IF t = doc.task THEN 1 ELSE 0)
      /\ Numbered(own, t)
  BY <1>1, <1>5, OneMore
<1>7. /\ size(once, t) = size(server, t) + (IF t = doc.task THEN 1 ELSE 0)
      /\ size(once, doc.task) = size(server, doc.task) + 1
      /\ Numbered(once, t)
  <2>1. doc.seq <= size(server, doc.task) + 1
    BY <1>0, <1>5
  <2> QED
    BY <1>1, <1>5, <2>1, OneMore
<1>8. /\ size(twice, t) = size(once, t) + (IF t = doc.task THEN 1 ELSE 0)
      /\ Numbered(twice, t)
  <2>1. doc.seq <= size(once, doc.task) + 1
    BY <1>0, <1>5, <1>7
  <2> QED
    BY <1>2, <1>3, <1>7, <2>1, OneMore
<1>9. Numbered(cache', t) /\ Numbered(server', t)
  BY <1>4, <1>5, <1>6, <1>7, <1>8
<1>10. size(cache', t) <= size(server', t)
  <2> HIDE DEF size
  <2> QED
    BY <1>4, <1>5, <1>6, <1>7, <1>8
<1> QED
  BY <1>9, <1>10

(* Every other step leaves the server's events and re-reads, keeps or drops  *)
(* the process's.                                                            *)
LEMMA EventsKept ==
  ASSUME TypeOK, SeqInv, server'.events = server.events,
         cache'.events \in {cache.events, server.events, <<>>}
  PROVE  SeqInv'
<1> SUFFICES ASSUME NEW t \in Ids
             PROVE  /\ Numbered(cache', t) /\ Numbered(server', t)
                    /\ Cardinality(EventsOf(cache', t)) <= Cardinality(EventsOf(server', t))
  BY DEF SeqInv, Numbered, EventsOf
<1>1. /\ Numbered(cache, t) /\ Numbered(server, t)
      /\ Cardinality(EventsOf(cache, t)) <= Cardinality(EventsOf(server, t))
      /\ Cardinality(EventsOf(server, t)) \in Nat
  BY NextSeqTyped DEF SeqInv, TypeOK
<1>2. EventsOf(server', t) = EventsOf(server, t) /\ Numbered(server', t)
  BY <1>1 DEF EventsOf, Numbered
<1>3. CASE cache'.events = cache.events
  <2>1. EventsOf(cache', t) = EventsOf(cache, t) /\ Numbered(cache', t)
    BY <1>1, <1>3 DEF EventsOf, Numbered
  <2> QED
    BY <1>1, <1>2, <2>1
<1>4. CASE cache'.events = server.events
  <2>1. EventsOf(cache', t) = EventsOf(server, t) /\ Numbered(cache', t)
    BY <1>1, <1>4 DEF EventsOf, Numbered
  <2> QED
    BY <1>1, <1>2, <2>1
<1>5. CASE cache'.events = <<>>
  <2>1. EventsOf(cache', t) = {} /\ Numbered(cache', t)
    BY <1>5 DEF EventsOf, Numbered
  <2>2. Cardinality(EventsOf(cache', t)) = 0
    BY <2>1, FS_EmptySet
  <2> QED
    BY <1>1, <1>2, <2>1, <2>2
<1> QED
  BY <1>3, <1>4, <1>5

LEMMA SeqStep == TypeOK /\ SeqInv /\ [Next]_vars => SeqInv'
<1> SUFFICES ASSUME TypeOK, SeqInv, [Next]_vars PROVE SeqInv'
  OBVIOUS
<1> USE DocOf
<1>0. ASSUME NEW seg \in DOMAIN NoDocs \ {"events"}, NEW doc \in Docs[seg], NEW next,
             Acked(seg, doc, next) \/ Failed(seg, doc)
      PROVE  SeqInv'
  <2>1. server'.events = server.events /\ cache'.events = cache.events
    BY <1>0, InsertAcked, InsertFailed DEF AddsOne, Adds, SameBut, NoDocs
  <2> QED
    BY <2>1, EventsKept
<1>1. ASSUME NEW c \in Clients, NEW t \in Ids, NEW k \in Keys, CreateTask(c, t, k)
      PROVE  SeqInv'
  <2> DEFINE doc == [task |-> t, key |-> k]
             next == [kind |-> "createRun", who |-> c, task |-> t, key |-> k]
  <2>1. doc \in Docs["tasks"] /\ (Acked("tasks", doc, next) \/ Failed("tasks", doc))
    BY <1>1, Written DEF CreateTask
  <2> HIDE DEF doc, next
  <2> QED
    BY <1>0, <2>1
<1>2. CASE CreateRun \/ HealFirstRun
  <2>1. /\ op # None /\ op.task \in Ids
        /\ \/ Failed("runs", FirstRun(op.task))
           \/ \E next : Acked("runs", FirstRun(op.task), next)
    BY <1>2, OpTyped DEF CreateRun, HealFirstRun
  <2>2. FirstRun(op.task) \in RunDoc
    BY <2>1, Constants
  <2> QED
    BY <1>0, <2>1, <2>2
<1>3. CASE CreateEvent \/ HealFirstEvent
  <2> DEFINE doc == [task |-> op.task, seq |-> 1, run |-> None]
  <2>1. /\ op # None /\ op.task \in Ids
        /\ Acked("events", doc, None) \/ Acked("events", doc, op) \/ Failed("events", doc)
    BY <1>3, OpTyped DEF CreateEvent, HealFirstEvent
  <2>2. /\ doc \in EventDoc /\ doc.seq = 1 /\ doc.task = op.task
        /\ Cardinality(EventsOf(cache, op.task)) \in Nat
    BY <2>1, Written, NextSeqTyped DEF TypeOK
  <2>3. doc.seq <= Cardinality(EventsOf(cache, doc.task)) + 1
    BY <2>2
  <2> HIDE DEF doc
  <2> QED
    BY <2>1, <2>2, <2>3, EventNumbered
<1>4. CASE HealRun
  <2> DEFINE doc == cache.events[FirstUnhealed(cache, op.task)].run
  <2>1. /\ op # None /\ op.task \in Ids /\ Unhealed(cache, op.task) # {}
        /\ Acked("runs", doc, op) \/ Failed("runs", doc)
    BY <1>4, OpTyped DEF HealRun
  <2>2. doc \in RunDoc
    BY <2>1, Written
  <2> HIDE DEF doc
  <2> QED
    BY <1>0, <2>1, <2>2
<1>5. CASE TransitionEvent
  <2> DEFINE run == NextRun(Current(cache, op.task))
             doc == [task |-> op.task, seq |-> NextSeq(cache, op.task), run |-> run]
             next == [kind |-> "snapshot", who |-> op.who, task |-> op.task, run |-> run]
  <2>1. /\ op # None /\ op.kind = "transition" /\ RunsOf(cache, op.task) # {}
        /\ op.task \in Ids
        /\ Acked("events", doc, next) \/ Failed("events", doc)
    BY <1>5, OpTyped DEF TransitionEvent
  <2>2. run \in RunDoc
    BY <2>1, Written, NextRunTyped
  <2>3. /\ doc \in EventDoc /\ doc.task = op.task
        /\ doc.seq = Cardinality(EventsOf(cache, op.task)) + 1
        /\ Cardinality(EventsOf(cache, op.task)) \in Nat
    BY <2>1, <2>2, NextSeqTyped DEF EventDoc, NextSeq, TypeOK
  <2>4. doc.seq <= Cardinality(EventsOf(cache, doc.task)) + 1
    BY <2>3
  <2> HIDE DEF doc, next
  <2> QED
    BY <2>1, <2>3, <2>4, EventNumbered
<1>6. CASE TransitionSnapshot
  <2>1. /\ op # None /\ op.run \in RunDoc
        /\ Acked("runs", op.run, None) \/ Failed("runs", op.run)
    BY <1>6, OpTyped DEF TransitionSnapshot
  <2> QED
    BY <1>0, <2>1
<1>7. ASSUME NEW t \in Ids, AppendEvent(t) PROVE SeqInv'
  <2> DEFINE doc == [task |-> t, seq |-> NextSeq(cache, t), run |-> None]
  <2>1. Acked("events", doc, None) \/ Failed("events", doc)
    BY <1>7 DEF AppendEvent
  <2>2. /\ doc \in EventDoc /\ doc.task = t
        /\ doc.seq = Cardinality(EventsOf(cache, t)) + 1
        /\ Cardinality(EventsOf(cache, t)) \in Nat
    BY Written, NextSeqTyped DEF NextSeq, TypeOK
  <2>3. doc.seq <= Cardinality(EventsOf(cache, doc.task)) + 1
    BY <2>2
  <2> HIDE DEF doc
  <2> QED
    BY <2>1, <2>2, <2>3, EventNumbered
<1>8. ASSUME NEW t \in Ids, SaveResult(t) PROVE SeqInv'
  <2> DEFINE doc == [task |-> t, attempt |-> AttemptOf(cache, t)]
  <2>1. doc \in Docs["results"] /\ (Acked("results", doc, None) \/ Failed("results", doc))
    BY <1>8, Written DEF SaveResult
  <2> HIDE DEF doc
  <2> QED
    BY <1>0, <2>1
<1>9. ASSUME server' = server, cache' = cache PROVE SeqInv'
  BY <1>9, EventsKept
<1>10. ASSUME NEW n \in 1..Len(Segments), Refresh(n) PROVE SeqInv'
  BY <1>10, ReloadedTyped, EventsKept DEF Refresh
<1>11. CASE RecoverStart \/ Open \/ Crash
  BY <1>11, EventsKept DEF RecoverStart, Open, Crash, NoDocs
<1>12. ASSUME NEW c, NEW t, BeginGet(c, t) PROVE SeqInv'
  BY <1>9, <1>12 DEF BeginGet
<1>13. ASSUME NEW c, NEW to, NEW att, BeginTransition(c, to, att) PROVE SeqInv'
  BY <1>9, <1>13 DEF BeginTransition
<1>14. ASSUME NEW k, LookupKey(k) PROVE SeqInv'
  BY <1>9, <1>14 DEF LookupKey
<1>15. CASE GetReturn \/ TransitionRefused \/ RecoverSkip \/ RecoverDone \/ UNCHANGED vars
  BY <1>9, <1>15 DEF GetReturn, TransitionRefused, RecoverSkip, RecoverDone, vars
<1> QED
  BY <1>1, <1>2, <1>3, <1>4, <1>5, <1>6, <1>7, <1>8, <1>10, <1>11, <1>12, <1>13, <1>14,
     <1>15
     DEF Next, Operation, Step, Recover, GetTask, Transition, RecoverGet, RecoverBlock

LEMMA SeqAlways == Spec => []SeqInv
<1>1. Init => SeqInv
  <2> SUFFICES ASSUME Init, NEW t \in Ids
               PROVE  EventsOf(cache, t) = {} /\ EventsOf(server, t) = {}
    BY FS_EmptySet DEF SeqInv, Numbered
  <2> QED
    BY NoDocsTyped DEF Init, EventsOf
<1> QED
  BY <1>1, SeqStep, StoreTyped, PTL DEF Spec

(* Over every death, refused, lost or duplicated insert: the snapshots the   *)
(* server holds for one version of a task are the same run, and the number   *)
(* the process would give the next event is above all it knows of.           *)
THEOREM HistoriesDoNotFork == Spec => []HistoryNeverForks
<1>1. TypeOK /\ HistoryInv /\ SeqInv => HistoryNeverForks
  <2> SUFFICES ASSUME TypeOK, HistoryInv, SeqInv PROVE SeqIsFresh
    BY DEF HistoryInv, StoredHistory, HistoryNeverForks
  <2> SUFFICES ASSUME NEW t \in Ids, NEW i \in EventsOf(cache, t)
               PROVE  cache.events[i].seq < NextSeq(cache, t)
    BY DEF SeqIsFresh
  <2>1. cache.events[i].seq <= Cardinality(EventsOf(cache, t))
    BY DEF SeqInv, Numbered
  <2>2. cache.events[i].seq \in Nat /\ Cardinality(EventsOf(cache, t)) \in Nat
    <3>1. cache.events[i] \in EventDoc
      BY SegmentRange DEF TypeOK, SegmentsType, EventsOf
    <3> QED
      BY <3>1, NextSeqTyped DEF EventDoc, TypeOK
  <2> QED
    BY <2>1, <2>2 DEF NextSeq
<1> QED
  BY <1>1, SeqAlways, HistoryAlways, PTL

-----------------------------------------------------------------------------
(* The recovery.                                                             *)

(* Whatever other threads do: the runs found RUNNING stay stored, and a      *)
(* snapshot above one of them stays above it.                                *)
LEMMA RecoveryWaits ==
  ASSUME TypeOK, HistoryInv, RecoveryInv, [Next]_vars, up' = up,
         UNCHANGED <<recovery, stuck, stale>>, seen'[Recoverer] = seen[Recoverer],
         RecovererFits'
  PROVE  RecoveryInv'
<1>1. /\ Range(server.runs) \subseteq Range(server'.runs)
      /\ up => Range(cache.runs) \subseteq Range(cache'.runs)
  BY StepAdvances DEF Advances, Grows
<1>2. \A t : RunsOf(server, t) \subseteq RunsOf(server', t)
  BY <1>1 DEF RunsOf
<1>3. recovery # "idle" => up' /\ stale' \subseteq Range(cache'.runs)
  <2> SUFFICES ASSUME recovery # "idle" PROVE up' /\ stale \subseteq Range(cache'.runs)
    OBVIOUS
  <2>1. up
    BY DEF RecoveryInv
  <2>2. stale \subseteq Range(cache'.runs)
    BY <1>1, <2>1 DEF RecoveryInv
  <2>3. up'
    BY <2>1
  <2> QED
    BY <2>2, <2>3
<1>4. recovery # "idle" =>
       \A r \in stale : \/ r.task \in stuck
                        \/ \E q \in RunsOf(server', r.task) : r.version < q.version
  BY <1>2 DEF RecoveryInv
<1> QED
  BY <1>1, <1>3, <1>4 DEF RecoveryInv, RunsOf

(* An insert that is refused ends a recovery that wanted it.                 *)
LEMMA RecoveryRaises ==
  ASSUME TypeOK, HistoryInv, RecoveryInv, [Next]_vars, up' = up, up,
         NEW c \in Threads, RaiseTo(c), stale' = stale, op' = None
  PROVE  RecoveryInv'
<1>1. RecovererFits'
  BY DEF RecovererFits
<1>2. CASE c = Recoverer
  <2>1. /\ recovery' = "idle" /\ stuck' = {}
        /\ seen' = [seen EXCEPT ![Recoverer] = None]
    BY <1>2 DEF RaiseTo
  <2>2. seen'[Recoverer] = None
    BY <2>1, Constants DEF TypeOK
  <2>3. stale' \subseteq Range(server'.runs)
    BY StepAdvances DEF Advances, Grows, RecoveryInv
  <2> QED
    BY <1>1, <2>1, <2>2, <2>3 DEF RecoveryInv
<1>3. CASE c # Recoverer
  BY <1>1, <1>3, RecoveryWaits DEF RaiseTo
<1> QED
  BY <1>2, <1>3

(* The recovery strikes a task off its list: a snapshot above the run it     *)
(* found RUNNING is stored by then.                                          *)
LEMMA RecoveryMovesOn ==
  ASSUME TypeOK, HistoryInv, RecoveryInv, [Next]_vars, up' = up, NEW t,
         UNCHANGED <<recovery, stale>>, op' = None,
         stuck' = stuck \ {t}, seen' = [seen EXCEPT ![Recoverer] = None],
         \A r \in stale : r.task = t => \E q \in RunsOf(server', t) : r.version < q.version
  PROVE  RecoveryInv'
<1>1. /\ Range(server.runs) \subseteq Range(server'.runs)
      /\ up => Range(cache.runs) \subseteq Range(cache'.runs)
  BY StepAdvances DEF Advances, Grows
<1>2. \A u : RunsOf(server, u) \subseteq RunsOf(server', u)
  BY <1>1 DEF RunsOf
<1>3. seen'[Recoverer] = None /\ RecovererFits'
  BY Constants DEF TypeOK, RecovererFits
<1>4. recovery # "idle" =>
       \A r \in stale : \/ r.task \in stuck'
                        \/ \E q \in RunsOf(server', r.task) : r.version < q.version
  BY <1>2 DEF RecoveryInv
<1>5. recovery # "idle" => up' /\ stale' \subseteq Range(cache'.runs)
  <2> SUFFICES ASSUME recovery # "idle" PROVE up' /\ stale \subseteq Range(cache'.runs)
    OBVIOUS
  <2>1. up
    BY DEF RecoveryInv
  <2>2. stale \subseteq Range(cache'.runs)
    BY <1>1, <2>1 DEF RecoveryInv
  <2>3. up'
    BY <2>1
  <2> QED
    BY <2>2, <2>3
<1> QED
  BY <1>1, <1>3, <1>4, <1>5 DEF RecoveryInv, RunsOf

LEMMA RecoveryStep == TypeOK /\ HistoryInv /\ RecoveryInv /\ [Next]_vars => RecoveryInv'
<1> SUFFICES ASSUME TypeOK, HistoryInv, RecoveryInv, [Next]_vars PROVE RecoveryInv'
  OBVIOUS
<1> USE Constants
<1>0. /\ op # None => up /\ op.who \in Threads /\ op.task \in Ids
      /\ server \in SegmentsType /\ cache \in SegmentsType
      /\ seen[Recoverer] # None => seen[Recoverer] \in RunDoc
  BY OpTyped DEF HistoryInv, OpFits, TypeOK
<1>1. RecovererFits
  BY DEF RecoveryInv
<1>a. \A seg, doc : Failed(seg, doc) => op' = None
  BY DEF Failed
<1>b. \A seg, doc, next : Acked(seg, doc, next) => op' = next
  BY DEF Acked
<1>c. op' = None => RecovererFits'
  BY DEF RecovererFits
<1>2. ASSUME NEW c \in Clients, NEW t \in Ids, NEW k \in Keys, CreateTask(c, t, k)
      PROVE  RecoveryInv'
  <2>1. op' \in {None, [kind |-> "createRun", who |-> c, task |-> t, key |-> k]}
    BY <1>a, <1>b, <1>2 DEF CreateTask
  <2>2. RecovererFits'
    BY <2>1 DEF RecovererFits
  <2>3. up' = up /\ UNCHANGED <<recovery, stuck, stale, seen>>
    BY <1>2 DEF CreateTask
  <2> QED
    BY <2>2, <2>3, RecoveryWaits
<1>3. CASE CreateRun
  <2>1. /\ op # None /\ op.kind = "createRun" /\ op.who \in Clients
        /\ op' \in {None, [op EXCEPT !.kind = "createEvent"]}
    BY <1>a, <1>b, <1>3 DEF CreateRun, HistoryInv, OpFits
  <2>2. op.who # Recoverer /\ [op EXCEPT !.kind = "createEvent"].who = op.who
    BY <2>1, OpTyped
  <2>3. RecovererFits'
    BY <2>1, <2>2 DEF RecovererFits
  <2>4. up' = up /\ UNCHANGED <<recovery, stuck, stale, seen>>
    BY <1>3 DEF CreateRun
  <2> QED
    BY <2>3, <2>4, RecoveryWaits
<1>4. CASE CreateEvent
  <2>1. op # None /\ op.who \in Clients /\ op' = None
    BY <1>a, <1>b, <1>4 DEF CreateEvent, HistoryInv, OpFits
  <2>2. up' = up /\ UNCHANGED <<recovery, stuck, stale>> /\ seen'[Recoverer] = seen[Recoverer]
    BY <1>4, <2>1 DEF CreateEvent, TypeOK
  <2> QED
    BY <1>c, <2>1, <2>2, RecoveryWaits
<1>5. ASSUME HealFirstRun \/ HealFirstEvent \/ HealRun PROVE RecoveryInv'
  <2>1. up' = up /\ UNCHANGED stale /\ op # None
    BY <1>5 DEF HealFirstRun, HealFirstEvent, HealRun
  <2>2. CASE op' = op /\ UNCHANGED <<recovery, stuck, seen>>
    <3>1. RecovererFits'
      BY <1>1, <2>2 DEF RecovererFits
    <3> QED
      BY <2>1, <2>2, <3>1, RecoveryWaits
  <2>3. CASE op' = None /\ RaiseTo(op.who)
    BY <1>0, <2>1, <2>3, RecoveryRaises
  <2> QED
    BY <1>a, <1>b, <1>5, <2>2, <2>3 DEF HealFirstRun, HealFirstEvent, HealRun
<1>6. CASE TransitionEvent
  <2> DEFINE next == [kind |-> "snapshot", who |-> op.who, task |-> op.task,
                      run |-> NextRun(Current(cache, op.task))]
  <2>1. up' = up /\ UNCHANGED stale /\ op # None
    BY <1>6 DEF TransitionEvent
  <2>2. CASE op' = next /\ UNCHANGED <<recovery, stuck, seen>>
    <3>1. op'.kind = "snapshot" /\ op'.who = op.who /\ op'.task = op.task
      BY <2>2
    <3>2. RecovererFits'
      BY <1>1, <2>1, <2>2, <3>1 DEF RecovererFits
    <3> QED
      BY <2>1, <2>2, <3>2, RecoveryWaits
  <2>3. CASE op' = None /\ RaiseTo(op.who)
    BY <1>0, <2>1, <2>3, RecoveryRaises
  <2> QED
    BY <1>a, <1>b, <1>6, <2>2, <2>3 DEF TransitionEvent
<1>7. CASE GetReturn
  <2>1. /\ op # None /\ op.kind = "get" /\ op' = None /\ up' = up
        /\ UNCHANGED <<recovery, stuck, stale, server, cache>>
        /\ seen' = [seen EXCEPT ![op.who] = Current(cache, op.task)]
        /\ RunsOf(cache, op.task) # {}
    BY <1>7 DEF GetReturn
  <2>2. CASE op.who # Recoverer
    <3>1. seen'[Recoverer] = seen[Recoverer]
      BY <2>1, <2>2 DEF TypeOK
    <3> QED
      BY <1>c, <2>1, <3>1, RecoveryWaits
  <2>3. CASE op.who = Recoverer
    <3>1. recovery = "running" /\ op.task \in stuck
      BY <1>1, <2>1, <2>3 DEF RecovererFits
    <3>2. /\ seen'[Recoverer] = Current(cache, op.task)
          /\ Current(cache, op.task).task = op.task
      BY <1>0, <2>1, <2>3, CurrentIsLatest DEF TypeOK, RunsOf
    <3>3. \A r \in stale : r.task = op.task => r.version <= Current(cache, op.task).version
      BY <1>0, <2>1, <3>1, CurrentIsLatest DEF RecoveryInv, RunsOf
    <3> QED
      BY <1>c, <2>1, <3>1, <3>2, <3>3 DEF RecoveryInv, RunsOf
  <2> QED
    BY <2>2, <2>3
<1>8. CASE TransitionRefused
  <2>1. /\ op # None /\ op.kind = "transition" /\ op' = None /\ up' = up
        /\ UNCHANGED <<recovery, stale, server, cache>>
        /\ EndOf(op.who, seen[op.who])
        /\ RunsOf(cache, op.task) = {} \/ ~Admitted(Current(cache, op.task))
    BY <1>8 DEF TransitionRefused
  <2>2. CASE op.who # Recoverer
    <3>1. seen'[Recoverer] = seen[Recoverer] /\ stuck' = stuck
      BY <2>1, <2>2 DEF TypeOK, EndOf
    <3> QED
      BY <1>c, <2>1, <3>1, RecoveryWaits
  <2>3. CASE op.who = Recoverer
    <3> DEFINE cur == Current(cache, op.task)
               mine == seen[Recoverer]
    <3>1. /\ recovery = "running" /\ op.to = "blocked" /\ mine.state = "running"
          /\ mine # None /\ mine.task = op.task /\ mine.version = op.expected
          /\ mine \in Range(cache.runs) /\ mine \in RunDoc
      BY <1>0, <1>1, <2>1, <2>3 DEF RecovererFits, HistoryInv, OpFits, SeenIsStored
    <3>2. /\ mine \in RunsOf(cache, op.task) /\ cur \in RunsOf(cache, op.task)
          /\ mine.version <= cur.version
          /\ cur.version \in Nat /\ mine.version \in Nat
      BY <1>0, <3>1, CurrentIsLatest DEF RunsOf, RunDoc
    <3>3. cur \in RunsOf(server, op.task) /\ mine \in RunsOf(server, op.task)
      BY <3>2 DEF HistoryInv, StoredHistory, RunsOf
    <3>4. mine.version < cur.version
      <4> SUFFICES ASSUME cur.version = mine.version PROVE FALSE
        <5> HIDE DEF cur, mine
        <5> QED
          BY <3>2
      <4>1. cur = mine
        BY <3>3, SameRun DEF RunsOf, HistoryInv
      <4>2. Admitted(cur)
        BY <3>1, <4>1 DEF Admitted, can_transition, legal_targets, TRANSITIONS
      <4> QED
        BY <2>1, <3>2, <4>2
    <3>5. \A r \in stale : r.task = op.task => r.version < cur.version
      <4> SUFFICES ASSUME NEW r \in stale, r.task = op.task PROVE r.version < cur.version
        OBVIOUS
      <4>1. r.version <= mine.version /\ r.version \in Nat
        BY <3>1 DEF RecoveryInv, TypeOK, RunDoc
      <4> HIDE DEF cur, mine
      <4> QED
        BY <3>2, <3>4, <4>1
    <3>6. stuck' = stuck \ {op.task} /\ seen' = [seen EXCEPT ![Recoverer] = None]
      BY <2>1, <2>3 DEF EndOf
    <3>7. RunsOf(server', op.task) = RunsOf(server, op.task)
      BY <2>1
    <3> HIDE DEF cur, mine
    <3> QED
      BY <2>1, <3>3, <3>5, <3>6, <3>7, RecoveryMovesOn
  <2> QED
    BY <2>2, <2>3
<1>9. CASE TransitionSnapshot
  <2>0. /\ op # None /\ op.kind = "snapshot" /\ op' = None /\ up' = up /\ stale' = stale
        /\ op.run \in RunDoc /\ HealsTo(cache, op.task, op.run)
        /\ op.run.task = op.task /\ op.run.version = seen[op.who].version + 1
        /\ seen[op.who] # None /\ seen[op.who].task = op.task
    BY <1>a, <1>b, <1>9, OpTyped DEF TransitionSnapshot, HistoryInv, OpFits
  <2>1. CASE Failed("runs", op.run) /\ RaiseTo(op.who)
    BY <1>0, <2>0, <2>1, RecoveryRaises
  <2>2. CASE Acked("runs", op.run, None) /\ EndOf(op.who, op.run) /\ recovery' = recovery
    <3>1. CASE op.who # Recoverer
      <4>1. seen'[Recoverer] = seen[Recoverer] /\ stuck' = stuck
        BY <2>2, <3>1 DEF TypeOK, EndOf
      <4> QED
        BY <1>c, <2>0, <2>2, <4>1, RecoveryWaits
    <3>2. CASE op.who = Recoverer
      <4>1. /\ op.run \in Range(cache'.runs)
            /\ Range(cache'.runs) \subseteq Range(server'.runs)
        BY <1>0, <2>0, <2>2, RunInsert DEF Advances, StoredHistory
      <4>2. op.run \in RunsOf(server', op.task)
        BY <2>0, <4>1 DEF RunsOf
      <4>3. \A r \in stale : r.task = op.task => r.version < op.run.version
        <5> SUFFICES ASSUME NEW r \in stale, r.task = op.task
                     PROVE  r.version < op.run.version
          OBVIOUS
        <5>1. /\ r.version <= seen[Recoverer].version /\ r.version \in Nat
              /\ seen[Recoverer].version \in Nat
          BY <1>0, <2>0, <3>2 DEF RecoveryInv, TypeOK, RunDoc
        <5> QED
          BY <2>0, <3>2, <5>1
      <4>4. stuck' = stuck \ {op.task} /\ seen' = [seen EXCEPT ![Recoverer] = None]
        BY <2>2, <3>2 DEF EndOf
      <4> QED
        BY <2>0, <2>2, <4>2, <4>3, <4>4, RecoveryMovesOn
    <3> QED
      BY <3>1, <3>2
  <2> QED
    BY <1>9, <2>1, <2>2 DEF TransitionSnapshot
<1>10. ASSUME NEW t \in Ids, AppendEvent(t) \/ SaveResult(t) PROVE RecoveryInv'
  <2>1. op' = None /\ up' = up /\ UNCHANGED <<recovery, stuck, stale, seen>>
    BY <1>a, <1>b, <1>10 DEF AppendEvent, SaveResult
  <2> QED
    BY <1>c, <2>1, RecoveryWaits
<1>11. ASSUME NEW c \in Clients, NEW t \in Ids, BeginGet(c, t) PROVE RecoveryInv'
  <2>1. /\ op' = [kind |-> "get", who |-> c, task |-> t]
        /\ up' = up /\ UNCHANGED <<recovery, stuck, stale, seen>>
    BY <1>11 DEF BeginGet
  <2>2. RecovererFits'
    BY <2>1 DEF RecovererFits
  <2> QED
    BY <2>1, <2>2, RecoveryWaits
<1>12. ASSUME NEW c \in Clients, NEW to, NEW att, BeginTransition(c, to, att) PROVE RecoveryInv'
  <2>1. /\ op' = [kind |-> "transition", who |-> c, task |-> seen[c].task,
                  expected |-> seen[c].version, to |-> to, attempt |-> att]
        /\ up' = up /\ UNCHANGED <<recovery, stuck, stale, seen>>
    BY <1>12 DEF BeginTransition
  <2>2. RecovererFits'
    BY <2>1 DEF RecovererFits
  <2> QED
    BY <2>1, <2>2, RecoveryWaits
<1>13. ASSUME NEW t \in Ids, RecoverGet(t) PROVE RecoveryInv'
  <2>1. /\ op' = [kind |-> "get", who |-> Recoverer, task |-> t]
        /\ up' = up /\ UNCHANGED <<recovery, stuck, stale, seen>>
        /\ recovery = "running" /\ t \in stuck /\ seen[Recoverer] = None
    BY <1>13 DEF RecoverGet, BeginGet
  <2>2. RecovererFits'
    BY <2>1 DEF RecovererFits
  <2> QED
    BY <2>1, <2>2, RecoveryWaits
<1>14. CASE RecoverBlock
  <2>1. /\ op' = [kind |-> "transition", who |-> Recoverer, task |-> seen[Recoverer].task,
                  expected |-> seen[Recoverer].version, to |-> "blocked", attempt |-> None]
        /\ up' = up /\ UNCHANGED <<recovery, stuck, stale, seen>>
        /\ recovery = "running" /\ seen[Recoverer].state = "running"
        /\ seen[Recoverer] # None
    BY <1>14 DEF RecoverBlock, BeginTransition
  <2>2. seen[Recoverer].task \in stuck
    BY <2>1 DEF RecoveryInv
  <2>3. RecovererFits'
    BY <2>1, <2>2 DEF RecovererFits
  <2> QED
    BY <2>1, <2>3, RecoveryWaits
<1>15. CASE RecoverStart
  <2>1. /\ up /\ op = None /\ op' = None /\ recovery = "idle" /\ recovery' = "running"
        /\ server' = server /\ cache' = server /\ up' = up /\ seen' = seen
        /\ stuck' = {t \in Ids : /\ RunsOf(server, t) # {}
                                 /\ Current(server, t).state = "running"}
        /\ stale' = {Current(server, t) : t \in stuck'}
    BY <1>15 DEF RecoverStart, Free
  <2>2. \A t \in stuck' : /\ Current(server, t) \in Range(server.runs)
                          /\ Current(server, t).task = t
                          /\ Current(server, t).state = "running"
    BY <1>0, <2>1, CurrentIsLatest DEF RunsOf
  <2>3. seen[Recoverer] = None
    BY <2>1 DEF RecoveryInv
  <2>4. /\ stale' \subseteq Range(server.runs)
        /\ \A r \in stale' : r.state = "running" /\ r.task \in stuck'
    BY <2>1, <2>2
  <2>5. up'
    BY <2>1
  <2> QED
    BY <1>c, <2>1, <2>3, <2>4, <2>5 DEF RecoveryInv
<1>16. CASE RecoverSkip
  <2> DEFINE mine == seen[Recoverer]
  <2>1. /\ op' = None /\ up' = up /\ UNCHANGED <<recovery, stale, server>>
        /\ mine # None /\ mine.state # "running"
        /\ stuck' = stuck \ {mine.task} /\ seen' = [seen EXCEPT ![Recoverer] = None]
    BY <1>16 DEF RecoverSkip, Free
  <2>2. mine \in RunsOf(server, mine.task) /\ mine \in RunDoc
    BY <1>0, <2>1 DEF HistoryInv, SeenIsStored, RunsOf
  <2>3. \A r \in stale : r.task = mine.task => r.version < mine.version
    <3> SUFFICES ASSUME NEW r \in stale, r.task = mine.task PROVE r.version < mine.version
      OBVIOUS
    <3>1. /\ r.version <= mine.version /\ r.version \in Nat /\ r.state = "running"
          /\ r \in Range(server.runs)
      BY <2>1 DEF RecoveryInv, TypeOK, RunDoc
    <3>2. r.version # mine.version
      BY <2>1, <2>2, <3>1, SameRun DEF HistoryInv, RunsOf
    <3> QED
      BY <2>2, <3>1, <3>2 DEF RunDoc
  <2>4. RunsOf(server', mine.task) = RunsOf(server, mine.task)
    BY <2>1
  <2> HIDE DEF mine
  <2> QED
    BY <2>1, <2>2, <2>3, <2>4, RecoveryMovesOn
<1>17. CASE RecoverDone
  <2>1. /\ op' = None /\ recovery = "running" /\ stuck = {} /\ recovery' = "done"
        /\ UNCHANGED <<server, cache, up, stuck, stale, seen>>
    BY <1>17 DEF RecoverDone, Free
  <2>2. seen[Recoverer] = None
    BY <2>1 DEF RecoveryInv
  <2>3. up
    BY <2>1 DEF RecoveryInv
  <2>4. up'
    BY <2>1, <2>3
  <2> QED
    BY <1>c, <2>1, <2>2, <2>4 DEF RecoveryInv, RunsOf
<1>18. CASE Crash
  <2>1. /\ recovery' = "idle" /\ stuck' = {} /\ stale' = {} /\ op' = None
        /\ seen' = [seen EXCEPT ![Recoverer] = None]
    BY <1>18 DEF Crash
  <2>2. seen'[Recoverer] = None
    BY <2>1 DEF TypeOK
  <2> QED
    BY <1>c, <2>1, <2>2 DEF RecoveryInv
<1>19. CASE Open
  <2>1. /\ ~up /\ UNCHANGED <<server, op, seen, recovery, stuck, stale>>
    BY <1>19 DEF Open
  <2>2. recovery = "idle" /\ op' = None
    BY <2>1 DEF RecoveryInv, HistoryInv
  <2> QED
    BY <1>c, <2>1, <2>2 DEF RecoveryInv
<1>20. ASSUME op' = op, up' = up, UNCHANGED <<recovery, stuck, stale, seen>> PROVE RecoveryInv'
  <2>1. RecovererFits'
    BY <1>1, <1>20 DEF RecovererFits
  <2> QED
    BY <1>20, <2>1, RecoveryWaits
<1>21. ASSUME NEW k, LookupKey(k) PROVE RecoveryInv'
  BY <1>20, <1>21 DEF LookupKey
<1>22. ASSUME NEW n, Refresh(n) PROVE RecoveryInv'
  BY <1>20, <1>22 DEF Refresh
<1>23. CASE UNCHANGED vars
  BY <1>20, <1>23 DEF vars
<1> QED
  BY <1>2, <1>3, <1>4, <1>5, <1>6, <1>7, <1>8, <1>9, <1>10, <1>11, <1>12, <1>13, <1>14,
     <1>15, <1>16, <1>17, <1>18, <1>19, <1>21, <1>22, <1>23
     DEF Next, Operation, Step, Recover, GetTask, Transition

(* Whatever other threads do, whatever is refused or lost and however often  *)
(* the process dies before: when recover_incomplete has finished, no run     *)
(* that it found RUNNING is the current one of its task any more.            *)
THEOREM RecoveryIsComplete == Spec => []RecoveryBlocksStale
<1>1. Init => RecoveryInv
  BY Constants DEF Init, RecoveryInv, RecovererFits
<1>2. TypeOK /\ HistoryInv /\ RecoveryInv => RecoveryBlocksStale
  <2> SUFFICES ASSUME TypeOK, RecoveryInv, recovery = "done", NEW r \in stale
               PROVE  r # Current(server, r.task)
    BY DEF RecoveryBlocksStale
  <2>1. PICK q \in RunsOf(server, r.task) : r.version < q.version
    BY DEF RecoveryInv
  <2>2. /\ q.version <= Current(server, r.task).version
        /\ Current(server, r.task) \in RunDoc
    BY <2>1, CurrentIsLatest DEF TypeOK
  <2>3. r.version \in Nat /\ q.version \in Nat
    BY <2>1, DocsTyped DEF TypeOK, RunDoc
  <2> QED
    BY <2>1, <2>2, <2>3 DEF RunDoc
<1> QED
  BY <1>1, <1>2, RecoveryStep, HistoryAlways, PTL DEF Spec

-----------------------------------------------------------------------------
(* The documents, while every answer arrives.                                *)

(* What is inserted, and what it must not repeat.                            *)
New(seg, doc) ==
  /\ seg = "tasks" => WithKey(server, doc.key) = {}
  /\ seg = "events" =>
       /\ Known(server, doc.task)
       /\ \A i \in EventsOf(server, doc.task) : server.events[i].seq # doc.seq
  /\ seg = "results" => doc \notin Range(server.results)

LEMMA NewLands ==
  ASSUME TypeOK, DocsStored, NEW seg \in DOMAIN NoDocs, NEW doc \in Docs[seg],
         New(seg, doc), server' = Land(server, seg, doc)
  PROVE  /\ DocsStored'
         /\ Range(server.tasks) \subseteq Range(server'.tasks)
         /\ seg = "tasks" => doc \in Range(server'.tasks)
         /\ seg # "events" => server'.events = server.events
<1>0. /\ server \in SegmentsType /\ AddsOne(server', server, seg, doc)
      /\ seg \in {"tasks", "runs", "events", "results"}
  BY LandAdds DEF TypeOK, NoDocs
<1>1. PICK n : /\ n \notin DOMAIN server[seg]
               /\ DOMAIN server'[seg] = DOMAIN server[seg] \cup {n}
               /\ server'[seg][n] = doc
               /\ \A i \in DOMAIN server[seg] : server'[seg][i] = server[seg][i]
               /\ Range(server'[seg]) = Range(server[seg]) \cup {doc}
  BY <1>0 DEF AddsOne, Adds
<1>2. \A s \in {"tasks", "runs", "events", "results"} \ {seg} : server'[s] = server[s]
  BY <1>0 DEF AddsOne, Adds, SameBut, NoDocs
<1>3. /\ Range(server.tasks) \subseteq Range(server'.tasks)
      /\ seg = "tasks" => doc \in Range(server'.tasks)
      /\ seg # "events" => server'.events = server.events
      /\ seg # "tasks" => server'.tasks = server.tasks
      /\ seg # "results" => server'.results = server.results
  BY <1>0, <1>1, <1>2
<1>4. \A t : Known(server, t) => Known(server', t)
  BY <1>3 DEF Known
<1>5. \A i, j \in DOMAIN server'.tasks :
        server'.tasks[i].key = server'.tasks[j].key => i = j
  <2>1. CASE seg = "tasks"
    <3>1. \A i \in DOMAIN server.tasks : server.tasks[i].key # doc.key
      BY <2>1 DEF New, WithKey
    <3> QED
      BY <1>1, <2>1, <3>1 DEF DocsStored
  <2>2. CASE seg # "tasks"
    BY <1>3, <2>2 DEF DocsStored
  <2> QED
    BY <2>1, <2>2
<1>6. \A e \in Range(server'.events) : Known(server', e.task)
  <2>1. CASE seg = "events"
    BY <1>1, <1>4, <2>1 DEF DocsStored, New
  <2>2. CASE seg # "events"
    BY <1>3, <1>4, <2>2 DEF DocsStored
  <2> QED
    BY <2>1, <2>2
<1>7. EventIdsUnique'
  <2>1. CASE seg = "events"
    <3>1. \A i \in DOMAIN server.events :
            server.events[i].task = doc.task => server.events[i].seq # doc.seq
      BY <2>1 DEF New, EventsOf
    <3> QED
      BY <1>1, <2>1, <3>1 DEF DocsStored, EventIdsUnique
  <2>2. CASE seg # "events"
    BY <1>3, <2>2 DEF DocsStored, EventIdsUnique
  <2> QED
    BY <2>1, <2>2
<1>8. OneResultPerAttempt'
  <2>1. CASE seg = "results"
    <3>1. \A i \in DOMAIN server.results : server.results[i] # doc
      BY <2>1 DEF New, Range
    <3> QED
      BY <1>1, <2>1, <3>1 DEF DocsStored, OneResultPerAttempt
  <2>2. CASE seg # "results"
    BY <1>3, <2>2 DEF DocsStored, OneResultPerAttempt
  <2> QED
    BY <2>1, <2>2
<1> QED
  BY <1>3, <1>5, <1>6, <1>7, <1>8 DEF DocsStored

(* An insert of something new keeps the invariant, when the operation goes   *)
(* on with something that it stored before, or ends.                         *)
OpStored(st, o) ==
  o # None =>
    /\ Known(st, o.task)
    /\ o.kind \in {"createRun", "createEvent"} =>
         /\ [task |-> o.task, key |-> o.key] \in Range(st.tasks)
         /\ EventsOf(st, o.task) = {}

LEMMA DocsInsert ==
  ASSUME ~Lossy, TypeOK, DocsInv, up, NEW seg \in DOMAIN NoDocs, NEW doc \in Docs[seg],
         New(seg, doc), NEW next, Acked(seg, doc, next) \/ Failed(seg, doc),
         Acked(seg, doc, next) => OpStored(server', next),
         \A k \in Keys : \A t \in resolved'[k] :
           t \in resolved[k] \/ [task |-> t, key |-> k] \in Range(server.tasks)
  PROVE  DocsInv'
<1>1. cache = server
  BY DEF DocsInv
<1>2. CASE Acked(seg, doc, next)
  <2>1. server' = Land(server, seg, doc) /\ cache' = server' /\ op' = next
    BY <1>1, <1>2 DEF Acked
  <2>2. DocsStored' /\ Range(server.tasks) \subseteq Range(server'.tasks)
    BY <2>1, NewLands DEF DocsInv
  <2>3. OpStored(server', op')
    BY <1>2, <2>1
  <2> QED
    BY <2>1, <2>2, <2>3 DEF DocsInv, OpStored, Known, EventsOf
<1>3. CASE Failed(seg, doc)
  <2>1. server' = server /\ cache' = cache /\ op' = None
    BY <1>3 DEF Failed
  <2>2. DocsStored'
    BY <2>1 DEF DocsInv, DocsStored, Known, EventIdsUnique, OneResultPerAttempt
  <2> QED
    BY <1>1, <2>1, <2>2 DEF DocsInv
<1> QED
  BY <1>2, <1>3

(* Steps that insert nothing.                                                *)
LEMMA DocsRead ==
  ASSUME TypeOK, DocsInv, server' = server, up' => cache' = server,
         OpStored(server, op'),
         \A k \in Keys : \A t \in resolved'[k] :
           t \in resolved[k] \/ [task |-> t, key |-> k] \in Range(server.tasks)
  PROVE  DocsInv'
<1>1. DocsStored'
  BY DEF DocsInv, DocsStored, Known, EventIdsUnique, OneResultPerAttempt
<1> QED
  BY <1>1 DEF DocsInv, OpStored, Known, EventsOf

LEMMA DocsStep ==
  ASSUME ~Lossy
  PROVE  TypeOK /\ HistoryInv /\ SeqInv /\ DocsInv /\ [Next]_vars => DocsInv'
<1> SUFFICES ASSUME TypeOK, HistoryInv, SeqInv, DocsInv, [Next]_vars PROVE DocsInv'
  OBVIOUS
<1> USE DocOf
<1>0. /\ op # None => up /\ op.task \in Ids /\ Known(server, op.task) /\ op \in OpType
      /\ up => cache = server
      /\ ~up => op = None
      /\ OpStored(server, op)
      /\ OpStored(server, None)
  BY OpTyped DEF HistoryInv, OpFits, DocsInv, TypeOK, OpStored
<1>a. ASSUME NEW seg \in DOMAIN NoDocs, NEW doc \in Docs[seg], New(seg, doc), NEW o,
             OpStored(server, o), o # None /\ o.kind \in {"createRun", "createEvent"} => seg # "events",
             server' = Land(server, seg, doc)
      PROVE  OpStored(server', o)
  <2>1. /\ Range(server.tasks) \subseteq Range(server'.tasks)
        /\ seg # "events" => server'.events = server.events
    BY <1>a, NewLands DEF DocsInv
  <2> QED
    BY <1>a, <2>1 DEF OpStored, Known, EventsOf
<1>b. \A seg, doc, next : Acked(seg, doc, next) => server' = Land(server, seg, doc)
  BY DEF Acked
<1>c. ASSUME NEW n, NEW t \in Ids, n = Cardinality(EventsOf(server, t)) + 1
      PROVE  \A i \in EventsOf(server, t) : server.events[i].seq # n
  <2> SUFFICES ASSUME NEW i \in EventsOf(server, t) PROVE server.events[i].seq # n
    OBVIOUS
  <2>1. server.events[i] \in EventDoc
    BY SegmentRange DEF TypeOK, SegmentsType, EventsOf
  <2>2. /\ server.events[i].seq \in Nat /\ Cardinality(EventsOf(server, t)) \in Nat
        /\ server.events[i].seq <= Cardinality(EventsOf(server, t))
    BY <2>1, NextSeqTyped DEF EventDoc, SeqInv, Numbered, TypeOK
  <2> QED
    BY <1>c, <2>2
<1>1. ASSUME NEW c \in Clients, NEW t \in Ids, NEW k \in Keys, CreateTask(c, t, k)
      PROVE  DocsInv'
  <2> DEFINE doc == [task |-> t, key |-> k]
             next == [kind |-> "createRun", who |-> c, task |-> t, key |-> k]
  <2>1. /\ up /\ doc \in Docs["tasks"] /\ resolved' = resolved
        /\ WithKey(server, k) = {} /\ ~Known(server, t)
        /\ Acked("tasks", doc, next) \/ Failed("tasks", doc)
    BY <1>0, <1>1, Written DEF CreateTask, Free
  <2>2. New("tasks", doc)
    BY <2>1 DEF New
  <2>3. EventsOf(server, t) = {}
    BY <2>1 DEF DocsInv, DocsStored, EventsOf, Range
  <2>4. ASSUME Acked("tasks", doc, next) PROVE OpStored(server', next)
    <3>1. doc \in Range(server'.tasks) /\ server'.events = server.events
      <4> HIDE DEF doc, next
      <4> QED
        BY <1>b, <2>1, <2>2, <2>4, NewLands DEF DocsInv
    <3> QED
      BY <2>3, <3>1 DEF OpStored, Known, EventsOf
  <2> HIDE DEF doc, next
  <2> QED
    BY <2>1, <2>2, <2>4, DocsInsert
<1>2. ASSUME NEW r \in RunDoc, NEW next, OpStored(server, next), up, resolved' = resolved,
             Acked("runs", r, next) \/ Failed("runs", r)
      PROVE  DocsInv'
  <2>1. New("runs", r)
    BY DEF New
  <2>2. Acked("runs", r, next) => OpStored(server', next)
    BY <1>2, <1>a, <1>b, <2>1
  <2> QED
    BY <1>2, <2>1, <2>2, DocsInsert
<1>3. CASE CreateRun
  <2> DEFINE next == [op EXCEPT !.kind = "createEvent"]
  <2>1. /\ op # None /\ op.kind = "createRun" /\ resolved' = resolved
        /\ Acked("runs", FirstRun(op.task), next) \/ Failed("runs", FirstRun(op.task))
    BY <1>3 DEF CreateRun
  <2>2. FirstRun(op.task) \in RunDoc
    BY <1>0, <2>1, Constants
  <2>3. /\ next.task = op.task /\ next.key = op.key /\ next.kind = "createEvent"
    BY <2>1, OpTyped
  <2>4. OpStored(server, next)
    <3> HIDE DEF next
    <3> QED
      BY <1>0, <2>1, <2>3 DEF OpStored
  <2> HIDE DEF next
  <2> QED
    BY <1>0, <1>2, <2>1, <2>2, <2>4
<1>4. CASE HealFirstRun
  <2>1. /\ op # None /\ resolved' = resolved
        /\ Acked("runs", FirstRun(op.task), op) \/ Failed("runs", FirstRun(op.task))
    BY <1>4 DEF HealFirstRun
  <2>2. FirstRun(op.task) \in RunDoc
    BY <1>0, <2>1, Constants
  <2> QED
    BY <1>0, <1>2, <2>1, <2>2
<1>5. CASE HealRun
  <2> DEFINE doc == cache.events[FirstUnhealed(cache, op.task)].run
  <2>1. /\ op # None /\ Unhealed(cache, op.task) # {} /\ resolved' = resolved
        /\ Acked("runs", doc, op) \/ Failed("runs", doc)
    BY <1>5 DEF HealRun
  <2>2. doc \in RunDoc
    BY <1>0, <2>1, Written
  <2> HIDE DEF doc
  <2> QED
    BY <1>0, <1>2, <2>1, <2>2
<1>6. CASE TransitionSnapshot
  <2>1. /\ op # None /\ op.kind = "snapshot" /\ resolved' = resolved
        /\ Acked("runs", op.run, None) \/ Failed("runs", op.run)
    BY <1>6 DEF TransitionSnapshot
  <2> QED
    BY <1>0, <1>2, <2>1, OpTyped
<1>7. ASSUME NEW doc \in EventDoc, NEW next, New("events", doc), up, OpStored(server, next),
             next # None => next.kind \notin {"createRun", "createEvent"},
             Acked("events", doc, next) \/ Failed("events", doc),
             \A k \in Keys : \A t \in resolved'[k] :
               t \in resolved[k] \/ [task |-> t, key |-> k] \in Range(server.tasks)
      PROVE  DocsInv'
  <2>1. Acked("events", doc, next) => OpStored(server', next)
    BY <1>7, <1>a, <1>b
  <2> QED
    BY <1>7, <2>1, DocsInsert
<1>8. CASE CreateEvent
  <2> DEFINE doc == [task |-> op.task, seq |-> 1, run |-> None]
  <2>1. /\ op # None /\ op.kind = "createEvent" /\ op.key \in Keys
        /\ Acked("events", doc, None) \/ Failed("events", doc)
        /\ resolved' \in {resolved, [resolved EXCEPT ![op.key] = @ \cup {op.task}]}
    BY <1>8, OpTyped DEF CreateEvent
  <2>2. doc \in EventDoc
    BY <1>0, <2>1, Written
  <2>3. /\ EventsOf(server, op.task) = {} /\ Known(server, op.task)
        /\ [task |-> op.task, key |-> op.key] \in Range(server.tasks)
    BY <2>1 DEF DocsInv
  <2>4. New("events", doc)
    BY <2>3 DEF New
  <2>5. \A k \in Keys : \A t \in resolved'[k] :
               t \in resolved[k] \/ [task |-> t, key |-> k] \in Range(server.tasks)
    BY <2>1, <2>3 DEF TypeOK
  <2> HIDE DEF doc
  <2> QED
    BY <1>0, <1>7, <2>1, <2>2, <2>4, <2>5
<1>9. CASE HealFirstEvent
  <2> DEFINE doc == [task |-> op.task, seq |-> 1, run |-> None]
  <2>1. /\ op # None /\ op.kind = "get" /\ resolved' = resolved
        /\ Acked("events", doc, op) \/ Failed("events", doc)
        /\ EventsOf(cache, op.task) = {}
    BY <1>9 DEF HealFirstEvent
  <2>2. doc \in EventDoc
    BY <1>0, <2>1, Written
  <2>3. New("events", doc)
    BY <1>0, <2>1 DEF New
  <2> HIDE DEF doc
  <2> QED
    BY <1>0, <1>7, <2>1, <2>2, <2>3
<1>10. CASE TransitionEvent
  <2> DEFINE run == NextRun(Current(cache, op.task))
             doc == [task |-> op.task, seq |-> NextSeq(cache, op.task), run |-> run]
             next == [kind |-> "snapshot", who |-> op.who, task |-> op.task, run |-> run]
  <2>1. /\ op # None /\ op.kind = "transition" /\ RunsOf(cache, op.task) # {}
        /\ resolved' = resolved
        /\ Acked("events", doc, next) \/ Failed("events", doc)
    BY <1>10 DEF TransitionEvent
  <2>2. run \in RunDoc
    BY <1>0, <2>1, Written, NextRunTyped
  <2>3. doc \in EventDoc
    BY <1>0, <2>1, <2>2, NextSeqTyped DEF EventDoc, TypeOK
  <2>4. New("events", doc)
    BY <1>0, <1>c, <2>1 DEF New, NextSeq
  <2>5. OpStored(server, next) /\ next.kind \notin {"createRun", "createEvent"}
    BY <1>0, <2>1 DEF OpStored
  <2> HIDE DEF doc, next
  <2> QED
    BY <1>0, <1>7, <2>1, <2>3, <2>4, <2>5
<1>11. ASSUME NEW t \in Ids, AppendEvent(t) PROVE DocsInv'
  <2> DEFINE doc == [task |-> t, seq |-> NextSeq(cache, t), run |-> None]
  <2>1. /\ up /\ Known(cache, t) /\ resolved' = resolved
        /\ Acked("events", doc, None) \/ Failed("events", doc)
    BY <1>11 DEF AppendEvent, Free
  <2>2. doc \in EventDoc
    BY Written
  <2>3. New("events", doc)
    BY <1>0, <1>c, <2>1 DEF New, NextSeq
  <2> HIDE DEF doc
  <2> QED
    BY <1>0, <1>7, <2>1, <2>2, <2>3
<1>12. ASSUME NEW t \in Ids, SaveResult(t) PROVE DocsInv'
  <2> DEFINE doc == [task |-> t, attempt |-> AttemptOf(cache, t)]
  <2>1. /\ up /\ resolved' = resolved /\ doc \notin Range(cache.results)
        /\ Acked("results", doc, None) \/ Failed("results", doc)
    BY <1>12 DEF SaveResult, Free
  <2>2. doc \in Docs["results"]
    BY Written
  <2>3. New("results", doc)
    BY <1>0, <2>1 DEF New
  <2>4. OpStored(server', None)
    BY DEF OpStored
  <2> HIDE DEF doc
  <2> QED
    BY <2>1, <2>2, <2>3, <2>4, DocsInsert
<1>13. ASSUME server' = server, up' => cache' = server, op' \in {None, op}, resolved' = resolved
       PROVE  DocsInv'
  BY <1>0, <1>13, DocsRead
<1>14. ASSUME NEW c, NEW t, BeginGet(c, t) PROVE DocsInv'
  <2>1. /\ up /\ Known(cache, t) /\ server' = server /\ cache' = cache /\ resolved' = resolved
        /\ op' = [kind |-> "get", who |-> c, task |-> t]
    BY <1>14 DEF BeginGet, Free
  <2>2. OpStored(server, op')
    BY <1>0, <2>1 DEF OpStored
  <2> QED
    BY <1>0, <2>1, <2>2, DocsRead
<1>15. ASSUME NEW c, NEW to, NEW att, BeginTransition(c, to, att) PROVE DocsInv'
  <2>1. /\ up /\ Known(cache, seen[c].task) /\ server' = server /\ cache' = cache
        /\ resolved' = resolved
        /\ op' = [kind |-> "transition", who |-> c, task |-> seen[c].task,
                  expected |-> seen[c].version, to |-> to, attempt |-> att]
    BY <1>15 DEF BeginTransition, Free
  <2>2. OpStored(server, op')
    BY <1>0, <2>1 DEF OpStored
  <2> QED
    BY <1>0, <2>1, <2>2, DocsRead
<1>16. ASSUME NEW k \in Keys, LookupKey(k) PROVE DocsInv'
  <2>1. /\ up /\ op' = op /\ server' = server /\ cache' = cache
        /\ WithKey(cache, k) # {}
        /\ resolved' = [resolved EXCEPT ![k] = @ \cup {FirstWithKey(cache, k)}]
    BY <1>16 DEF LookupKey, Free
  <2>2. [task |-> FirstWithKey(cache, k), key |-> k] \in Range(server.tasks)
    <3>1. PICK i \in WithKey(cache, k) : FirstWithKey(cache, k) = cache.tasks[i].task
      BY <2>1, FirstKeyed DEF TypeOK
    <3>2. cache.tasks[i] \in TaskDoc /\ cache.tasks[i] \in Range(cache.tasks)
          /\ cache.tasks[i].key = k
      BY DocsTyped DEF TypeOK, WithKey
    <3>3. cache.tasks[i] = [task |-> FirstWithKey(cache, k), key |-> k]
      BY <3>1, <3>2 DEF TaskDoc
    <3> QED
      BY <1>0, <2>1, <3>2, <3>3
  <2>3. \A l \in Keys : \A t \in resolved'[l] :
           t \in resolved[l] \/ [task |-> t, key |-> l] \in Range(server.tasks)
    BY <2>1, <2>2 DEF TypeOK
  <2> QED
    BY <1>0, <2>1, <2>3, DocsRead
<1>17. ASSUME NEW n \in 1..Len(Segments), Refresh(n) PROVE DocsInv'
  <2>1. /\ up /\ server' = server /\ op' = op /\ resolved' = resolved
        /\ cache' = Reloaded(n)
    BY <1>17 DEF Refresh, Free
  <2>2. Reloaded(n) = server
    <3>1. cache = server /\ cache = [seg \in DOMAIN cache |-> cache[seg]]
      BY <1>0, <2>1 DEF TypeOK, SegmentsType
    <3> QED
      BY <3>1 DEF Reloaded
  <2> QED
    BY <1>13, <2>1, <2>2
<1>18. CASE GetReturn \/ TransitionRefused \/ RecoverSkip \/ RecoverDone
  <2>1. server' = server /\ cache' = cache /\ up' = up /\ op' \in {None, op} /\ resolved' = resolved
    BY <1>18 DEF GetReturn, TransitionRefused, RecoverSkip, RecoverDone
  <2>2. up' => up
    BY <2>1
  <2> QED
    BY <1>0, <1>13, <2>1, <2>2
<1>19. CASE RecoverStart \/ Open
  BY <1>13, <1>19 DEF RecoverStart, Open
<1>20. CASE Crash
  <2>1. server' = server /\ op' = None /\ resolved' = resolved
    BY <1>20 DEF Crash
  <2>2. ~up'
    BY <1>20 DEF Crash
  <2> QED
    BY <1>13, <2>1, <2>2
<1>21. CASE UNCHANGED vars
  <2>1. server' = server /\ cache' = cache /\ up' = up /\ op' = op /\ resolved' = resolved
    BY <1>21 DEF vars
  <2>2. up' => up
    BY <2>1
  <2> QED
    BY <1>0, <1>13, <2>1, <2>2
<1> QED
  BY <1>1, <1>3, <1>4, <1>5, <1>6, <1>8, <1>9, <1>10, <1>11, <1>12, <1>14, <1>15, <1>16,
     <1>17, <1>18, <1>19, <1>20, <1>21
     DEF Next, Operation, Step, Recover, GetTask, Transition, RecoverGet, RecoverBlock

(* As long as every insert that lands is answered: over deaths, refused      *)
(* inserts and a recovery, an idempotency key names one task, an event id    *)
(* one event and an attempt of a task one result.                            *)
THEOREM DocumentsStayUnique ==
  ASSUME ~Lossy
  PROVE  Spec => []DocumentsAreUnique
<1>1. Init => DocsInv
  <2> SUFFICES ASSUME Init PROVE DocsInv
    OBVIOUS
  <2>1. /\ Range(server.tasks) = {} /\ Range(server.events) = {}
        /\ DOMAIN server.tasks = {} /\ DOMAIN server.events = {} /\ DOMAIN server.results = {}
        /\ cache = server /\ op = None /\ \A k \in Keys : resolved[k] = {}
    BY NoDocsTyped DEF Init
  <2>2. DocsStored
    BY <2>1 DEF DocsStored, EventIdsUnique, OneResultPerAttempt
  <2> QED
    BY <2>1, <2>2 DEF DocsInv
<1>2. TypeOK /\ HistoryInv /\ SeqInv /\ DocsInv /\ [Next]_vars => DocsInv'
  BY DocsStep
<1>3. DocsInv => DocumentsAreUnique
  <2> SUFFICES ASSUME DocsInv PROVE OneTaskPerKey
    BY DEF DocsInv, DocsStored, DocumentsAreUnique
  <2> SUFFICES ASSUME NEW k \in Keys, NEW t \in resolved[k], NEW u \in resolved[k] PROVE t = u
    BY DEF OneTaskPerKey
  <2>1. /\ [task |-> t, key |-> k] \in Range(server.tasks)
        /\ [task |-> u, key |-> k] \in Range(server.tasks)
    BY DEF DocsInv
  <2>2. PICK i, j \in DOMAIN server.tasks : /\ server.tasks[i] = [task |-> t, key |-> k]
                                            /\ server.tasks[j] = [task |-> u, key |-> k]
    BY <2>1 DEF Range
  <2>3. i = j
    BY <2>2 DEF DocsInv, DocsStored
  <2> QED
    BY <2>2, <2>3
<1> QED
  BY <1>1, <1>2, <1>3, HistoryAlways, SeqAlways, PTL DEF Spec
=============================================================================
