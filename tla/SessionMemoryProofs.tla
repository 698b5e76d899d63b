------------------------ MODULE SessionMemoryProofs ------------------------
(***************************************************************************)
(* Proofs about SessionMemory, for any number of calls, keys, processes,   *)
(* attempts and faults and any size of document: every variable keeps its  *)
(* type, and if no two calls of a key say the same, a turn that was        *)
(* reported stays in the transcript, once.                                 *)
(***************************************************************************)
EXTENDS SessionMemory, FiniteSetTheorems, SequenceTheorems, TLAPS

(* No two calls of a key say the same: without this a merge takes another's  *)
(* turn for its own (memory.py:285).                                         *)
UtterancesDiffer ==
  \A c, d \in Calls : SessionOf[c] = SessionOf[d] /\ TextOf[c] = TextOf[d] => c = d

User(c) == [role |-> "user", text |-> TextOf[c]]
Reply(c) == [role |-> "assistant", text |-> TextOf[c]]
Turns(c) == {<<User(c)>>, <<User(c), Reply(c)>>}

(* A document says nothing of the call; it is all that a limit of one        *)
(* message leaves of the turn; the turn is its end, as far as it fits.       *)
Clean(doc, c) == \A i \in DOMAIN doc : doc[i].text # TextOf[c]
Stub(doc, turn) == DocMax = 1 /\ Len(turn) = 2 /\ doc = <<turn[2]>>
Ends(doc, turn) == EndsWith(doc, turn) \/ Stub(doc, turn)

Kept(doc, turn) == Holds(doc, turn) \/ (DocMax > 0 /\ Len(doc) >= DocMax)

(* Calls before their first request to the brain, and before their merge.    *)
Ahead == {"start", "create", "own"}
Before == Ahead \cup {"chat", "lookup", "wait", "flock"}
Locked == {"wait", "flock", "fetch", "save", "check"}

(* What a document tells users said was said, each by a call of its own.     *)
Proper(doc, s) ==
  /\ \A i \in DOMAIN doc : doc[i].role = "user" =>
       \E c \in Calls : SessionOf[c] = s /\ TextOf[c] = doc[i].text /\ pc[c] \notin Ahead
  /\ \A i, j \in DOMAIN doc :
       doc[i].role = "user" /\ doc[j].role = "user" /\ doc[i].text = doc[j].text => i = j

Sound(s) == Serialized(s) /\ s \notin blind

(* The transcript of a key and, unless Mind keeps it, every older one that   *)
(* may be served or is about to be extended.                                 *)
Copies(s) ==
  {docs[s]} \cup
  IF s \in setup.live THEN {}
  ELSE ({behind[s]} \ {None})
       \cup {existing[c] : c \in {d \in Calls : SessionOf[d] = s /\ pc[d] = "save"}}

(* What a call's place says of the locals that a merge rests on.             *)
InPlace(c) ==
  /\ lock[c] # None <=> pc[c] \in Locked
  /\ verified[c] => pc[c] = "done"
  /\ pc[c] \in Ahead => ~owned[c]
  /\ MindKeeps(c) => SessionOf[c] \in setup.live /\ pc[c] \notin Locked \cup {"lookup"}
  /\ SessionOf[c] \in setup.live \ blind =>
       /\ pc[c] \in {"start", "own", "chat", "done", "failed"}
       /\ pc[c] = "own" => mind_key[c] = SessionOf[c]
       /\ pc[c] = "chat" => MindKeeps(c)

(* One lock per key while it is registered, one holder per lock, and one     *)
(* merge per key where the file locks work.                                  *)
KeysAreUnique ==
  \A p \in Processes : \A i, j \in DOMAIN registry[p] :
    registry[p][i][1] = registry[p][j][1] => i = j

Registered(c) ==
  \E i \in DOMAIN registry[setup.process[c]] :
    registry[setup.process[c]][i] = <<SessionOf[c], lock[c]>>

LockInv ==
  /\ KeysAreUnique
  /\ \A c \in Calls : lock[c] # None /\ SessionOf[c] \notin evicted => Registered(c)
  /\ \A c, d \in Calls : HasLock(c) /\ HasLock(d) /\ lock[c] = lock[d] => c = d
  /\ setup.flock =>
       \A c, d \in Calls : InMerge(c) /\ InMerge(d) /\ SessionOf[c] = SessionOf[d] => c = d

(* During a call's merge a copy either says nothing of it or ends with its   *)
(* turn, and no older copy does before the transcript itself.                *)
MergeInv(c) ==
  InMerge(c) =>
    /\ \A doc \in Copies(SessionOf[c]) : Clean(doc, c) \/ Ends(doc, Fresh(c))
    /\ Clean(docs[SessionOf[c]], c) => \A doc \in Copies(SessionOf[c]) : Clean(doc, c)
    /\ pc[c] = "save" => Clean(existing[c], c) \/ Stub(existing[c], Fresh(c))

CopiesInv(s) ==
  /\ \A doc \in Copies(s) : Proper(doc, s)
  /\ \A c \in Calls : SessionOf[c] = s =>
       /\ pc[c] \in Before => \A doc \in Copies(s) : Clean(doc, c)
       /\ Reported(c) => \A doc \in Copies(s) : Kept(doc, Fresh(c))
       /\ MergeInv(c)

SessionInv ==
  /\ setup \in Setups /\ TypeOK /\ (\A c \in Calls : InPlace(c)) /\ LockInv
  /\ \A s \in Sessions : Sound(s) => CopiesInv(s)

----------------------------------------------------------------------------

(* Documents.                                                                *)

LEMMA Constants ==
  /\ SessionOf \in [Calls -> Sessions] /\ DocMax \in Nat
  /\ LocksMax \in Nat /\ LocksMax > 0 /\ Attempts \in Nat /\ Attempts > 0
  /\ Calls \cap Sessions = {} /\ None \notin Calls /\ None \notin Sessions
BY SessionMemoryAssumption

LEMMA SetupFacts ==
  ASSUME setup \in Setups
  PROVE  /\ setup.process \in [Calls -> Processes]
         /\ setup.live \subseteq Sessions /\ setup.callers \subseteq Calls
         /\ setup.max_faults \in Nat
BY SessionMemoryAssumption DEF SetupType

LEMMA TurnIs ==
  ASSUME NEW c \in Calls, NEW turn \in Turns(c)
  PROVE  /\ turn \in Seq(Message) /\ turn[1] = User(c)
         /\ Len(turn) \in {1, 2} /\ (Len(turn) = 2 => turn[2] = Reply(c))
         /\ \A i \in DOMAIN turn : turn[i] \in Message /\ turn[i].text = TextOf[c]
         /\ \A i \in DOMAIN turn : turn[i].role = "user" => i = 1
<1>1. User(c) \in Message /\ Reply(c) \in Message
  BY DEF User, Reply, Message
<1>2. User(c).text = TextOf[c] /\ Reply(c).text = TextOf[c] /\ Reply(c).role # "user"
  BY DEF User, Reply
<1>3. CASE turn = <<User(c)>>
  BY <1>1, <1>2, <1>3
<1>4. CASE turn = <<User(c), Reply(c)>>
  <2>1. Len(turn) = 2 /\ DOMAIN turn = {1, 2} /\ turn[1] = User(c) /\ turn[2] = Reply(c)
    BY <1>4
  <2> QED
    BY <1>1, <1>2, <1>4, <2>1
<1> QED
  BY <1>3, <1>4 DEF Turns

LEMMA TurnMade ==
  ASSUME NEW c \in Calls, NEW reply \in BOOLEAN
  PROVE  <<[role |-> "user", text |-> TextOf[c]]>>
         \o (IF reply THEN <<[role |-> "assistant", text |-> TextOf[c]]>> ELSE <<>>)
           \in Turns(c)
<1>1. \A x, y : <<x>> \o <<y>> = <<x, y>>
  <2> TAKE x, y
  <2> DEFINE t == <<x>> \o <<y>>
  <2>1. <<x>> \in Seq({x, y}) /\ <<y>> \in Seq({x, y}) /\ <<x, y>> \in Seq({x, y})
    OBVIOUS
  <2>2. t \in Seq({x, y}) /\ Len(t) = 2 /\ t[1] = x /\ t[2] = y
    BY <2>1
  <2>3. \A i \in 1..Len(t) : t[i] = <<x, y>>[i]
    BY <2>2
  <2> HIDE DEF t
  <2>4. t = <<x, y>>
    BY <2>1, <2>2, <2>3, Len(<<x, y>>) = 2, SeqEqual
  <2> QED
    BY <2>4 DEF t
<1>2. \A x : <<x>> \o <<>> = <<x>>
  OBVIOUS
<1>3. SUFFICES <<User(c)>> \o (IF reply THEN <<Reply(c)>> ELSE <<>>) \in Turns(c)
  BY DEF User, Reply
<1>4. CASE reply
  BY <1>1, <1>4 DEF Turns
<1>5. CASE ~reply
  BY <1>2, <1>5 DEF Turns
<1> QED
  BY <1>4, <1>5

LEMMA FreshIs ==
  ASSUME NEW c \in Calls, answered[c] \in BOOLEAN
  PROVE  Fresh(c) \in Turns(c)
BY TurnMade DEF Fresh

LEMMA EndsWithIs ==
  ASSUME NEW doc \in Seq(Message), NEW turn \in Seq(Message)
  PROVE  EndsWith(doc, turn) <=>
           /\ Len(turn) <= Len(doc)
           /\ \A i \in 1..Len(turn) : doc[Len(doc) - Len(turn) + i] = turn[i]
<1> DEFINE rd == Reverse(doc)
           rt == Reverse(turn)
           n == Len(turn)
<1>1. /\ rd \in Seq(Message) /\ Len(rd) = Len(doc)
      /\ \A i \in 1..Len(doc) : rd[i] = doc[Len(doc) - i + 1]
  BY DEF Reverse
<1>2. /\ rt \in Seq(Message) /\ Len(rt) = n
      /\ \A i \in 1..n : rt[i] = turn[n - i + 1]
  BY DEF Reverse
<1>3. EndsWith(doc, turn) <=> n <= Len(doc) /\ SubSeq(rt, 1, n) = SubSeq(rd, 1, n)
  BY <1>1, <1>2 DEF EndsWith, IsSuffix, IsPrefix
<1> HIDE DEF rd, rt
<1>4. ASSUME n <= Len(doc)
      PROVE  SubSeq(rt, 1, n) = SubSeq(rd, 1, n) <=> \A i \in 1..n : rt[i] = rd[i]
  <2>1. /\ SubSeq(rt, 1, n) \in Seq(Message) /\ Len(SubSeq(rt, 1, n)) = n
        /\ \A i \in 1..n : SubSeq(rt, 1, n)[i] = rt[i]
    BY <1>2
  <2>2. /\ SubSeq(rd, 1, n) \in Seq(Message) /\ Len(SubSeq(rd, 1, n)) = n
        /\ \A i \in 1..n : SubSeq(rd, 1, n)[i] = rd[i]
    BY <1>1, <1>4
  <2> QED
    BY <2>1, <2>2, SeqEqual
<1>5. ASSUME n <= Len(doc), \A i \in 1..n : rt[i] = rd[i]
      PROVE  \A i \in 1..n : doc[Len(doc) - n + i] = turn[i]
  <2> TAKE i \in 1..n
  <2>1. n - i + 1 \in 1..n /\ n - (n - i + 1) + 1 = i /\ n - i + 1 \in 1..Len(doc)
        /\ Len(doc) - (n - i + 1) + 1 = Len(doc) - n + i
    BY <1>5
  <2> QED
    BY <2>1, <1>1, <1>2, <1>5
<1>6. ASSUME n <= Len(doc), \A i \in 1..n : doc[Len(doc) - n + i] = turn[i]
      PROVE  \A i \in 1..n : rt[i] = rd[i]
  <2> TAKE i \in 1..n
  <2>1. n - i + 1 \in 1..n /\ i \in 1..Len(doc)
        /\ Len(doc) - n + (n - i + 1) = Len(doc) - i + 1
    BY <1>6
  <2> QED
    BY <2>1, <1>1, <1>2, <1>6
<1> QED
  BY <1>3, <1>4, <1>5, <1>6

LEMMA HoldsIs ==
  ASSUME NEW doc \in Seq(Message), NEW turn \in Seq(Message)
  PROVE  Holds(doc, turn) <=>
           \E i \in 0..(Len(doc) - Len(turn)) : \A j \in 1..Len(turn) : doc[i + j] = turn[j]
<1>1. ASSUME NEW i \in 0..(Len(doc) - Len(turn))
      PROVE  SubSeq(doc, i + 1, i + Len(turn)) = turn
               <=> \A j \in 1..Len(turn) : doc[i + j] = turn[j]
  <2> DEFINE sub == SubSeq(doc, i + 1, i + Len(turn))
  <2>1. /\ sub \in Seq(Message) /\ Len(sub) = Len(turn)
        /\ \A j \in 1..Len(turn) : sub[j] = doc[i + j]
    <3> DEFINE m == i + 1
               n == i + Len(turn)
    <3>1. m \in Int /\ n \in Int /\ n - m + 1 = Len(turn)
      OBVIOUS
    <3>2. \A j \in m..n : doc[j] \in Message
      OBVIOUS
    <3>3. \A j \in 1..Len(turn) : m + j - 1 = i + j
      OBVIOUS
    <3>4. /\ SubSeq(doc, m, n) \in Seq(Message)
          /\ Len(SubSeq(doc, m, n)) = Len(turn)
          /\ \A j \in 1..Len(turn) : SubSeq(doc, m, n)[j] = doc[m + j - 1]
      <4> HIDE DEF m, n
      <4>1. Len(turn) \in Nat /\ (Len(turn) = 0 \/ m <= n)
        BY <3>1
      <4> QED
        BY <4>1, <3>1, <3>2, SubSeqProperties
    <3> QED
      BY <3>3, <3>4
  <2> HIDE DEF sub
  <2>2. sub = turn <=> \A j \in 1..Len(turn) : sub[j] = turn[j]
    BY <2>1, SeqEqual
  <2>3. sub = turn <=> \A j \in 1..Len(turn) : doc[i + j] = turn[j]
    BY <2>1, <2>2
  <2> QED
    BY <2>3 DEF sub
<1> QED
  BY <1>1 DEF Holds

(* A document that ends with a turn, as far as it fits, keeps it.            *)
LEMMA EndsKeeps ==
  ASSUME NEW doc \in Seq(Message), NEW turn \in Seq(Message), Ends(doc, turn)
  PROVE  Kept(doc, turn)
<1>1. CASE EndsWith(doc, turn)
  <2> DEFINE k == Len(doc) - Len(turn)
  <2>1. k \in 0..k /\ \A j \in 1..Len(turn) : doc[k + j] = turn[j]
    BY <1>1, EndsWithIs
  <2> QED
    BY <2>1, HoldsIs DEF Kept
<1>2. CASE Stub(doc, turn)
  BY <1>2 DEF Stub, Kept
<1> QED
  BY <1>1, <1>2 DEF Ends

LEMMA EndsIsNotClean ==
  ASSUME NEW c \in Calls, NEW turn \in Turns(c), NEW doc \in Seq(Message), Ends(doc, turn)
  PROVE  ~Clean(doc, c)
<1>1. CASE EndsWith(doc, turn)
  <2>1. doc[Len(doc)] = turn[Len(turn)] /\ Len(doc) \in DOMAIN doc /\ Len(turn) \in DOMAIN turn
    BY <1>1, EndsWithIs, TurnIs
  <2> QED
    BY <2>1, TurnIs DEF Clean
<1>2. CASE Stub(doc, turn)
  <2>1. 1 \in DOMAIN doc /\ doc[1] = turn[2] /\ 2 \in DOMAIN turn
    BY <1>2, TurnIs DEF Stub
  <2> QED
    BY <2>1, TurnIs DEF Clean
<1> QED
  BY <1>1, <1>2 DEF Ends

(* new is what is left of all without its first k messages, which are        *)
(* dropped only to keep within the limit.                                    *)
Rest(new, all, k) ==
  /\ new \in Seq(Message) /\ k \in 0..Len(all) /\ Len(new) = Len(all) - k
  /\ \A i \in 1..Len(new) : new[i] = all[i + k]
  /\ k > 0 => DocMax > 0 /\ Len(new) = DocMax

LEMMA MergedIs ==
  ASSUME NEW c \in Calls, existing[c] \in Seq(Message), Fresh(c) \in Seq(Message)
  PROVE  /\ \E k \in Nat : Rest(Merged(c), existing[c] \o Fresh(c), k)
         /\ DocMax > 0 => Len(Merged(c)) <= DocMax
<1> DEFINE all == existing[c] \o Fresh(c)
           n == Len(all) - DocMax
<1>1. all \in Seq(Message) /\ Len(all) \in Nat /\ DocMax \in Nat
  BY Constants
<1>2. Merged(c) = IF DocMax > 0 /\ Len(all) > DocMax
                  THEN SubSeq(all, Len(all) - DocMax + 1, Len(all)) ELSE all
  BY DEF Merged
<1> HIDE DEF all
<1>3. CASE DocMax > 0 /\ Len(all) > DocMax
  <2>1. n \in 1..Len(all) /\ Merged(c) = SubSeq(all, n + 1, Len(all))
    BY <1>1, <1>2, <1>3
  <2>2. /\ Merged(c) \in Seq(Message) /\ Len(Merged(c)) = Len(all) - n
        /\ \A i \in 1..Len(Merged(c)) : Merged(c)[i] = all[i + n]
    BY <1>1, <2>1
  <2>3. Len(Merged(c)) = DocMax /\ n \in 0..Len(all) /\ n \in Nat
    BY <1>1, <2>1, <2>2
  <2>4. Rest(Merged(c), all, n)
    BY <2>2, <2>3, <1>3 DEF Rest
  <2> QED
    BY <2>3, <2>4, <1>1 DEF all
<1>4. CASE ~(DocMax > 0 /\ Len(all) > DocMax)
  <2>1. Rest(Merged(c), all, 0)
    BY <1>1, <1>2, <1>4 DEF Rest
  <2> QED
    BY <2>1, <1>1, <1>2, <1>4 DEF all
<1> QED
  BY <1>3, <1>4

LEMMA AppendedIs ==
  ASSUME NEW doc \in Seq(Message), NEW turn \in Seq(Message)
  PROVE  Rest(doc \o turn, doc \o turn, 0)
BY DEF Rest

(* What remains of a document to which a turn was appended ...               *)
LEMMA RestIs ==
  ASSUME NEW c \in Calls, NEW turn \in Turns(c), NEW doc \in Seq(Message),
         NEW new, NEW k \in Nat, Rest(new, doc \o turn, k)
  PROVE  /\ k <= Len(doc) + Len(turn) /\ Len(new) = Len(doc) + Len(turn) - k
         /\ \A i \in DOMAIN new : /\ i + k <= Len(doc) => i + k \in DOMAIN doc /\ new[i] = doc[i + k]
                                  /\ i + k > Len(doc) => /\ i + k - Len(doc) \in DOMAIN turn
                                                         /\ new[i] = turn[i + k - Len(doc)]
<1> DEFINE all == doc \o turn
<1>1. turn \in Seq(Message)
  BY TurnIs
<1>2. /\ all \in Seq(Message) /\ Len(all) = Len(doc) + Len(turn)
      /\ \A i \in 1..Len(doc) + Len(turn) :
           all[i] = IF i <= Len(doc) THEN doc[i] ELSE turn[i - Len(doc)]
  BY <1>1, ConcatProperties
<1> HIDE DEF all
<1>3. /\ new \in Seq(Message) /\ k <= Len(all) /\ Len(new) = Len(all) - k
      /\ \A i \in 1..Len(new) : new[i] = all[i + k]
  BY DEF Rest, all
<1>4. ASSUME NEW i \in DOMAIN new
      PROVE  /\ i + k <= Len(doc) => i + k \in DOMAIN doc /\ new[i] = doc[i + k]
             /\ i + k > Len(doc) => /\ i + k - Len(doc) \in DOMAIN turn
                                    /\ new[i] = turn[i + k - Len(doc)]
  <2>1. i \in 1..Len(new) /\ i + k \in 1..Len(doc) + Len(turn) /\ new[i] = all[i + k]
    BY <1>1, <1>2, <1>3
  <2> QED
    BY <1>1, <1>2, <2>1
<1> QED
  BY <1>1, <1>2, <1>3, <1>4

(* ... ends with the turn,                                                   *)
LEMMA RestEnds ==
  ASSUME NEW c \in Calls, NEW turn \in Turns(c), NEW doc \in Seq(Message),
         NEW new, NEW k \in Nat, Rest(new, doc \o turn, k)
  PROVE  new \in Seq(Message) /\ Ends(new, turn)
<1>1. /\ turn \in Seq(Message) /\ Len(turn) \in {1, 2}
      /\ new \in Seq(Message) /\ (k > 0 => DocMax > 0 /\ Len(new) = DocMax)
      /\ DocMax \in Nat
  BY TurnIs, Constants DEF Rest
<1>2. /\ k <= Len(doc) + Len(turn) /\ Len(new) = Len(doc) + Len(turn) - k
      /\ \A i \in DOMAIN new : i + k > Len(doc) => new[i] = turn[i + k - Len(doc)]
  BY RestIs
<1>3. CASE k <= Len(doc)
  <2>1. Len(turn) <= Len(new)
    BY <1>1, <1>2, <1>3
  <2>2. ASSUME NEW i \in 1..Len(turn)
        PROVE  new[Len(new) - Len(turn) + i] = turn[i]
    <3>1. /\ Len(new) - Len(turn) + i \in DOMAIN new
          /\ Len(new) - Len(turn) + i + k = Len(doc) + i
      <4>1. DOMAIN new = 1..Len(new) /\ Len(new) \in Nat /\ Len(doc) \in Nat /\ i \in Nat
        BY <1>1
      <4>2. i > 0 /\ i <= Len(turn) /\ Len(turn) \in Nat
        BY <1>1
      <4>3. Len(new) - Len(turn) + i + k = Len(doc) + i
        BY <1>1, <1>2, <4>1
      <4>4. Len(new) - Len(turn) + i \in 1..Len(new)
        BY <1>3, <1>2, <4>1, <4>2
      <4> QED
        BY <4>1, <4>3, <4>4
    <3> QED
      BY <1>1, <1>2, <3>1
  <2> QED
    BY <1>1, <2>1, <2>2, EndsWithIs DEF Ends
<1>4. CASE k > Len(doc)
  <2>1. Len(turn) = 2 /\ k = Len(doc) + 1 /\ Len(new) = 1 /\ DocMax = 1
    BY <1>1, <1>2, <1>4
  <2>2. new[1] = turn[2] /\ 1 \in DOMAIN new
    BY <1>1, <1>2, <2>1
  <2>3. new = <<turn[2]>>
    BY <1>1, <2>1, <2>2
  <2> QED
    BY <1>1, <2>1, <2>3 DEF Ends, Stub
<1> QED
  BY <1>1, <1>2, <1>3, <1>4

(* ... keeps the turns it kept,                                              *)
LEMMA RestKeeps ==
  ASSUME NEW c \in Calls, NEW turn \in Turns(c), NEW doc \in Seq(Message),
         NEW new, NEW k \in Nat, Rest(new, doc \o turn, k),
         NEW other \in Seq(Message), Kept(doc, other)
  PROVE  Kept(new, other)
<1>1. /\ turn \in Seq(Message) /\ Len(turn) \in Nat /\ DocMax \in Nat
      /\ new \in Seq(Message) /\ (k > 0 => DocMax > 0 /\ Len(new) = DocMax)
  BY TurnIs, Constants DEF Rest
<1>2. /\ Len(new) = Len(doc) + Len(turn) - k
      /\ \A i \in DOMAIN new : i + k <= Len(doc) => new[i] = doc[i + k]
  BY RestIs
<1>3. CASE k > 0
  BY <1>1, <1>3 DEF Kept
<1>4. CASE k = 0 /\ Holds(doc, other)
  <2>1. PICK i \in 0..(Len(doc) - Len(other)) : \A j \in 1..Len(other) : doc[i + j] = other[j]
    BY <1>4, HoldsIs
  <2>2. i \in 0..(Len(new) - Len(other))
    BY <1>1, <1>2, <1>4
  <2>3. ASSUME NEW j \in 1..Len(other)
        PROVE  new[i + j] = other[j]
    <3>1. i + j \in DOMAIN new /\ i + j + k <= Len(doc) /\ i + j + k = i + j
      BY <1>1, <1>2, <1>4
    <3> QED
      BY <1>2, <2>1, <3>1
  <2> QED
    BY <1>1, <2>2, <2>3, HoldsIs DEF Kept
<1>5. CASE k = 0 /\ DocMax > 0 /\ Len(doc) >= DocMax
  BY <1>1, <1>2, <1>5 DEF Kept
<1> QED
  BY <1>1, <1>3, <1>4, <1>5 DEF Kept

(* ... says nothing of those it said nothing of,                             *)
LEMMA RestIsClean ==
  ASSUME NEW c \in Calls, NEW turn \in Turns(c), NEW doc \in Seq(Message),
         NEW new, NEW k \in Nat, Rest(new, doc \o turn, k),
         NEW d \in Calls, Clean(doc, d), TextOf[d] # TextOf[c]
  PROVE  Clean(new, d)
<1> SUFFICES ASSUME NEW i \in DOMAIN new
             PROVE  new[i].text # TextOf[d]
  BY DEF Clean
<1>1. i \in Nat /\ Len(doc) \in Nat
  BY DEF Rest
<1>2. CASE i + k <= Len(doc)
  BY <1>2, RestIs DEF Clean
<1>3. CASE i + k > Len(doc)
  BY <1>3, RestIs, TurnIs
<1> QED
  BY <1>1, <1>2, <1>3

(* ... and tells users only what was said, once.                             *)
LEMMA RestIsProper ==
  ASSUME NEW c \in Calls, NEW turn \in Turns(c), NEW doc \in Seq(Message),
         NEW new, NEW k \in Nat, Rest(new, doc \o turn, k),
         pc[c] \notin Ahead, Proper(doc, SessionOf[c]), Clean(doc, c)
  PROVE  Proper(new, SessionOf[c])
<1> DEFINE Old(i) == i + k \in DOMAIN doc /\ new[i] = doc[i + k]
           Own(i) == i + k - Len(doc) = 1 /\ new[i].text = TextOf[c]
<1>1. /\ Len(doc) \in Nat
      /\ \A i \in DOMAIN new : i \in Nat
  BY DEF Rest
<1>2. ASSUME NEW i \in DOMAIN new, new[i].role = "user"
      PROVE  Old(i) \/ Own(i)
  <2>1. CASE i + k <= Len(doc)
    BY <2>1, RestIs
  <2>2. CASE i + k > Len(doc)
    BY <1>2, <2>2, RestIs, TurnIs
  <2> QED
    BY <1>1, <2>1, <2>2
<1>3. ASSUME NEW i \in DOMAIN new, new[i].role = "user"
      PROVE  \E d \in Calls : /\ SessionOf[d] = SessionOf[c] /\ TextOf[d] = new[i].text
                              /\ pc[d] \notin Ahead
  BY <1>2, <1>3 DEF Proper
<1>4. ASSUME NEW i \in DOMAIN new, NEW j \in DOMAIN new, new[i].role = "user",
             new[j].role = "user", new[i].text = new[j].text
      PROVE  i = j
  <2>1. CASE Old(i) /\ Old(j)
    <3>1. i + k = j + k
      BY <1>4, <2>1 DEF Proper
    <3> QED
      BY <1>1, <3>1
  <2>2. CASE Own(i) /\ Own(j)
    BY <1>1, <2>2
  <2>3. ~(Old(i) /\ Own(j)) /\ ~(Own(i) /\ Old(j))
    BY <1>4 DEF Clean
  <2> QED
    BY <1>2, <1>4, <2>1, <2>2, <2>3
<1> QED
  BY <1>3, <1>4 DEF Proper

LEMMA StubIsProper ==
  ASSUME NEW c \in Calls, NEW turn \in Turns(c), NEW doc, Stub(doc, turn)
  PROVE  Proper(doc, SessionOf[c])
<1>1. DOMAIN doc = {1} /\ doc[1] = turn[2] /\ turn[2] = Reply(c)
  BY TurnIs DEF Stub
<1> QED
  BY <1>1 DEF Proper, Reply

----------------------------------------------------------------------------
(* Every variable keeps its type.                                            *)

LEMMA PlacesAre ==
  /\ {"start", "create", "own", "chat", "lookup", "wait", "flock",
      "fetch", "save", "check", "done", "failed"} \subseteq Places
  /\ \A c \in Calls : TextOf[c] \in {TextOf[d] : d \in Calls}
BY DEF Places

LEMMA FreshTyped ==
  ASSUME NEW c \in Calls, TypeOK
  PROVE  Fresh(c) \in Seq(Message) /\ Fresh(c) \in Turns(c)
<1>1. answered[c] \in BOOLEAN
  BY DEF TypeOK
<1> QED
  BY <1>1, FreshIs, TurnIs

LEMMA MergedTyped ==
  ASSUME NEW c \in Calls, TypeOK
  PROVE  Merged(c) \in Seq(Message)
<1>1. existing[c] \in Seq(Message)
  BY DEF TypeOK
<1> QED
  BY <1>1, FreshTyped, MergedIs DEF Rest

LEMMA WriteTyped ==
  ASSUME NEW s \in Sessions, NEW doc \in Seq(Message), TypeOK, Write(s, doc)
  PROVE  docs' \in [Sessions -> Seq(Message)]
         /\ behind' \in [Sessions -> Seq(Message) \cup {None}]
BY DEF Write, TypeOK

LEMMA ServedTyped ==
  ASSUME NEW s \in Sessions, NEW doc, TypeOK, Served(s, doc)
  PROVE  doc \in Seq(Message) /\ behind' \in [Sessions -> Seq(Message) \cup {None}]
<1>1. /\ docs[s] \in Seq(Message) /\ behind[s] \in Seq(Message) \cup {None}
      /\ behind \in [Sessions -> Seq(Message) \cup {None}]
  BY DEF TypeOK
<1> DEFINE D == Seq(Message)
<1> HIDE DEF D
<1>2. CASE doc = docs[s] /\ behind' = [behind EXCEPT ![s] = None]
  <2>1. [behind EXCEPT ![s] = None] \in [Sessions -> D \cup {None}]
    BY <1>1 DEF D
  <2> QED
    BY <1>1, <1>2, <2>1 DEF D
<1>3. CASE doc = behind[s] /\ doc # None /\ UNCHANGED behind
  BY <1>1, <1>3
<1> QED
  BY <1>2, <1>3 DEF Served

LEMMA RegistryTyped ==
  ASSUME NEW c \in Calls, TypeOK, setup \in Setups, LookUpLock(c)
  PROVE  /\ registry' \in [Processes -> Seq(Sessions \X Calls)]
         /\ \A p \in Processes : Len(registry'[p]) <= LocksMax
         /\ lock' \in [Calls -> Calls \cup {None}]
         /\ evicted' \subseteq Sessions
<1> DEFINE p == setup.process[c]
           entry == <<SessionOf[c], c>>
           room == WithRoom(registry[p])
<1>1. /\ p \in Processes /\ registry[p] \in Seq(Sessions \X Calls)
      /\ Len(registry[p]) <= LocksMax /\ entry \in Sessions \X Calls
      /\ LocksMax \in Nat /\ LocksMax > 0
  BY SetupFacts, Constants DEF TypeOK
<1>2. /\ registry \in [Processes -> Seq(Sessions \X Calls)]
      /\ \A q \in Processes : Len(registry[q]) <= LocksMax
      /\ lock \in [Calls -> Calls \cup {None}] /\ evicted \subseteq Sessions
  BY DEF TypeOK
<1>3. CASE UNCHANGED <<registry, evicted>> /\ \E e \in ToSet(registry[p]) : lock' = [lock EXCEPT ![c] = e[2]]
  <2>1. \A e \in ToSet(registry[p]) : e[2] \in Calls
    BY <1>1 DEF ToSet
  <2> QED
    BY <1>2, <1>3, <2>1
<1>4. CASE /\ lock' = [lock EXCEPT ![c] = c]
           /\ registry' = [registry EXCEPT ![p] = Append(room, entry)]
           /\ evicted' = evicted \cup IF room = registry[p] THEN {} ELSE {registry[p][1][1]}
  <2>1. room \in Seq(Sessions \X Calls) /\ Len(room) + 1 <= LocksMax
    <3>1. CASE Len(registry[p]) >= LocksMax
      <4>1. registry[p] # <<>> /\ room = Tail(registry[p])
        BY <1>1, <3>1 DEF WithRoom
      <4> QED
        BY <1>1, <4>1
    <3>2. CASE ~(Len(registry[p]) >= LocksMax)
      <4>1. room = registry[p] /\ Len(registry[p]) \in Nat
        BY <1>1, <3>2 DEF WithRoom
      <4> QED
        BY <1>1, <3>2, <4>1
    <3> QED
      BY <3>1, <3>2
  <2>2. Append(room, entry) \in Seq(Sessions \X Calls) /\ Len(Append(room, entry)) <= LocksMax
    BY <1>1, <2>1
  <2>3. room # registry[p] => registry[p][1][1] \in Sessions
    <3>1. room # registry[p] => Len(registry[p]) >= LocksMax
      BY DEF WithRoom
    <3>2. room # registry[p] => 1 \in 1..Len(registry[p])
      BY <1>1, <3>1
    <3> QED
      BY <1>1, <3>2
  <2> HIDE DEF room, entry
  <2>4. /\ registry' \in [Processes -> Seq(Sessions \X Calls)]
        /\ \A q \in Processes : Len(registry'[q]) <= LocksMax
    BY <1>1, <1>2, <1>4, <2>2
  <2> QED
    BY <1>2, <1>4, <2>3, <2>4
<1> QED
  BY <1>3, <1>4 DEF LookUpLock

LEMMA TypesStart == Init => setup \in Setups /\ TypeOK
<1> SUFFICES ASSUME Init PROVE setup \in Setups /\ TypeOK
  OBVIOUS
<1>1. <<>> \in Seq(Message) /\ <<>> \in Seq(Sessions \X Calls) /\ 1 \in 1..Attempts /\ 0 <= LocksMax
  BY Constants
<1>2. /\ docs \in [Sessions -> Seq(Message)]
      /\ behind \in [Sessions -> Seq(Message) \cup {None}]
      /\ promoted \in Seq(Sessions \X Calls)
      /\ registry \in [Processes -> Seq(Sessions \X Calls)]
      /\ \A p \in Processes : Len(registry[p]) <= LocksMax
  BY <1>1 DEF Init
<1>3. /\ pc \in [Calls -> Places]
      /\ mind_key \in [Calls -> Sessions \cup Calls \cup {None}]
      /\ lock \in [Calls -> Calls \cup {None}]
  BY PlacesAre DEF Init
<1>4. owned \in [Calls -> BOOLEAN] /\ answered \in [Calls -> BOOLEAN] /\ verified \in [Calls -> BOOLEAN]
  BY DEF Init
<1>5. attempt \in [Calls -> 1..Attempts] /\ existing \in [Calls -> Seq(Message)]
  BY <1>1 DEF Init
<1>6. setup \in Setups /\ blind \subseteq Sessions /\ evicted \subseteq Sessions
      /\ read_faults \in Nat /\ write_faults \in Nat
  BY DEF Init
<1> QED
  BY <1>2, <1>3, <1>4, <1>5, <1>6 DEF TypeOK

(* The variables by what a step may do to them: what TypeOK says of each.    *)
LEMMA TypesAre ==
  TypeOK <=>
    /\ /\ docs \in [Sessions -> Seq(Message)]
       /\ behind \in [Sessions -> Seq(Message) \cup {None}]
       /\ promoted \in Seq(Sessions \X Calls)
    /\ /\ registry \in [Processes -> Seq(Sessions \X Calls)]
       /\ \A p \in Processes : Len(registry[p]) <= LocksMax
    /\ pc \in [Calls -> Places]
    /\ mind_key \in [Calls -> Sessions \cup Calls \cup {None}]
    /\ owned \in [Calls -> BOOLEAN] /\ answered \in [Calls -> BOOLEAN]
    /\ verified \in [Calls -> BOOLEAN]
    /\ lock \in [Calls -> Calls \cup {None}]
    /\ attempt \in [Calls -> 1..Attempts]
    /\ existing \in [Calls -> Seq(Message)]
    /\ blind \subseteq Sessions /\ evicted \subseteq Sessions
    /\ read_faults \in Nat /\ write_faults \in Nat
BY DEF TypeOK

LEMMA FaultsTyped ==
  ASSUME TypeOK
  PROVE  /\ ReadRaises => read_faults' \in Nat /\ write_faults' \in Nat /\ evicted' \subseteq Sessions
         /\ WriteRaises => /\ read_faults' \in Nat /\ write_faults' \in Nat
                           /\ evicted' \subseteq Sessions /\ blind' \subseteq Sessions
         /\ \A s \in Sessions : TakenForNone(s) =>
              /\ read_faults' \in Nat /\ write_faults' \in Nat
              /\ evicted' \subseteq Sessions /\ blind' \subseteq Sessions
BY TypesAre DEF ReadRaises, WriteRaises, TakenForNone

GhostsTyped ==
  /\ blind' \subseteq Sessions /\ evicted' \subseteq Sessions
  /\ read_faults' \in Nat /\ write_faults' \in Nat

LEMMA ChatTyped ==
  ASSUME setup \in Setups, TypeOK, NEW c \in Calls, Chat(c)
  PROVE  setup' = setup /\ TypeOK'
<1>1. SessionOf[c] \in Sessions /\ Fresh(c) \in Seq(Message)
  BY Constants, FreshTyped
<1>2. \A p \in Places : Goto(c, p) => pc' \in [Calls -> Places]
  BY TypesAre DEF Goto
<1>3. CASE TurnedAway(c)
  <2>1. pc' \in [Calls -> Places]
    BY <1>2, <1>3, PlacesAre DEF TurnedAway
  <2> QED
    BY <1>3, <2>1, TypesAre DEF TurnedAway, mind, locals, ghosts, TypeOK
<1>4. CASE FindSession(c)
  <2>1. \A i \in DOMAIN promoted : promoted[i][2] \in Calls
    BY TypesAre
  <2>2. pc' \in [Calls -> Places] /\ mind_key' \in [Calls -> Sessions \cup Calls \cup {None}]
    <3>1. Goto(c, "own") \/ Goto(c, "create")
      BY <1>4 DEF FindSession
    <3>2. \/ mind_key' = mind_key
          \/ \E key \in Sessions \cup Calls : mind_key' = [mind_key EXCEPT ![c] = key]
      BY <1>1, <1>4, <2>1 DEF FindSession
    <3>3. pc' \in [Calls -> Places]
      BY <1>2, <3>1, PlacesAre
    <3>4. mind_key' \in [Calls -> Sessions \cup Calls \cup {None}]
      BY <3>2, TypesAre
    <3> QED
      BY <3>3, <3>4
  <2>3. GhostsTyped
    BY <1>1, <1>4, FaultsTyped, TypesAre DEF FindSession, ghosts, GhostsTyped
  <2>4. UNCHANGED <<setup, mind, registry, owned, answered, lock, attempt, existing, verified>>
    BY <1>4 DEF FindSession
  <2> QED
    BY <2>2, <2>3, <2>4, TypesAre DEF mind, GhostsTyped, TypeOK
<1>5. CASE CreateSession(c)
  <2>1. pc' \in [Calls -> Places] /\ mind_key' \in [Calls -> Sessions \cup Calls \cup {None}]
    <3>1. pc' \in [Calls -> Places]
      BY <1>2, <1>5, PlacesAre DEF CreateSession
    <3>2. \E key \in Sessions \cup Calls : mind_key' = [mind_key EXCEPT ![c] = key]
      BY <1>1, <1>5 DEF CreateSession
    <3>3. mind_key' \in [Calls -> Sessions \cup Calls \cup {None}]
      BY <3>2, TypesAre
    <3> QED
      BY <3>1, <3>3
  <2>2. promoted' \in Seq(Sessions \X Calls)
    <3>1. promoted' \in {promoted, Append(promoted, <<SessionOf[c], c>>)}
      BY <1>5 DEF CreateSession
    <3>2. promoted \in Seq(Sessions \X Calls) /\ <<SessionOf[c], c>> \in Sessions \X Calls
      BY <1>1, TypesAre
    <3>3. Append(promoted, <<SessionOf[c], c>>) \in Seq(Sessions \X Calls)
      BY <3>2
    <3> QED
      BY <3>1, <3>2, <3>3
  <2>3. GhostsTyped
    BY <1>1, <1>5, FaultsTyped, TypesAre DEF CreateSession, ghosts, GhostsTyped
  <2>4. UNCHANGED <<setup, docs, behind, registry, owned, answered, lock, attempt, existing, verified>>
    BY <1>5 DEF CreateSession
  <2> QED
    BY <2>1, <2>2, <2>3, <2>4, TypesAre DEF GhostsTyped, TypeOK
<1>6. CASE CheckOwner(c)
  <2>1. pc' \in [Calls -> Places]
    BY <1>2, <1>6, PlacesAre DEF CheckOwner
  <2>2. owned' \in [Calls -> BOOLEAN]
    <3>1. \A b \in BOOLEAN : [owned EXCEPT ![c] = b] \in [Calls -> BOOLEAN]
      BY TypesAre
    <3>2. (mind_key[c] \in setup.live \cup Calls) \in BOOLEAN
      OBVIOUS
    <3> QED
      BY <1>6, <3>1, <3>2 DEF CheckOwner
  <2>3. GhostsTyped
    BY <1>1, <1>6, FaultsTyped, TypesAre DEF CheckOwner, ghosts, GhostsTyped
  <2>4. UNCHANGED <<setup, mind, registry, mind_key, answered, lock, attempt, existing, verified>>
    BY <1>6 DEF CheckOwner
  <2> QED
    BY <2>1, <2>2, <2>3, <2>4, TypesAre DEF mind, GhostsTyped, TypeOK
<1>7. CASE BrainChat(c)
  <2>1. pc' \in [Calls -> Places]
    BY <1>2, <1>7, PlacesAre DEF BrainChat
  <2>2. answered' \in [Calls -> BOOLEAN]
    BY <1>7, TypesAre DEF BrainChat
  <2>3. docs' \in [Sessions -> Seq(Message)] /\ behind' \in [Sessions -> Seq(Message) \cup {None}]
    <3>1. Fresh(c)' \in Seq(Message)
      <4>1. answered'[c] \in BOOLEAN
        BY <2>2
      <4>2. Fresh(c)' \in Turns(c)
        BY <4>1, TurnMade DEF Fresh
      <4> QED
        BY <4>2, TurnIs
    <3>2. docs[SessionOf[c]] \o Fresh(c)' \in Seq(Message)
      BY <1>1, <3>1, TypesAre
    <3> QED
      BY <1>1, <1>7, <3>2, WriteTyped, TypesAre DEF BrainChat
  <2>4. UNCHANGED <<setup, promoted, registry, mind_key, owned, lock, attempt, existing, verified, ghosts>>
    BY <1>7 DEF BrainChat
  <2> QED
    BY <2>1, <2>2, <2>3, <2>4, TypesAre DEF ghosts, TypeOK
<1>8. CASE BrainChatRaises(c)
  <2>1. pc' \in [Calls -> Places]
    BY <1>2, <1>8, PlacesAre DEF BrainChatRaises
  <2>2. docs' \in [Sessions -> Seq(Message)] /\ behind' \in [Sessions -> Seq(Message) \cup {None}]
    <3>1. docs[SessionOf[c]] \o Fresh(c) \in Seq(Message)
      BY <1>1, TypesAre
    <3> QED
      BY <1>1, <1>8, <3>1, WriteTyped, TypesAre DEF BrainChatRaises
  <2>3. GhostsTyped
    BY <1>8, FaultsTyped DEF BrainChatRaises, GhostsTyped
  <2>4. UNCHANGED <<setup, promoted, registry, locals>>
    BY <1>8 DEF BrainChatRaises
  <2> QED
    BY <2>1, <2>2, <2>3, <2>4, TypesAre DEF locals, GhostsTyped, TypeOK
<1> QED
  BY <1>3, <1>4, <1>5, <1>6, <1>7, <1>8 DEF Chat

(* The ways on from a request of the merge.                                  *)
LEMMA StepsTyped ==
  ASSUME TypeOK, NEW c \in Calls
  PROVE  /\ \A p \in Places, n \in 1..Attempts : Step(c, p, n) =>
              /\ pc' \in [Calls -> Places] /\ attempt' \in [Calls -> 1..Attempts]
              /\ lock' \in [Calls -> Calls \cup {None}]
         /\ Leave(c) \/ NextAttempt(c) \/ LeaveVerified(c) =>
              /\ pc' \in [Calls -> Places] /\ attempt' \in [Calls -> 1..Attempts]
              /\ lock' \in [Calls -> Calls \cup {None}]
         /\ LeaveVerified(c) => verified' \in [Calls -> BOOLEAN]
<1>1. ASSUME NEW p \in Places, NEW n \in 1..Attempts, Step(c, p, n)
      PROVE  /\ pc' \in [Calls -> Places] /\ attempt' \in [Calls -> 1..Attempts]
             /\ lock' \in [Calls -> Calls \cup {None}]
  BY <1>1, TypesAre DEF Step, Goto
<1>2. ASSUME Leave(c)
      PROVE  /\ pc' \in [Calls -> Places] /\ attempt' \in [Calls -> 1..Attempts]
             /\ lock' \in [Calls -> Calls \cup {None}]
  <2>1. 1 \in 1..Attempts
    BY Constants
  <2> QED
    BY <1>2, <2>1, TypesAre, PlacesAre DEF Leave, Goto
<1>3. ASSUME NextAttempt(c)
      PROVE  /\ pc' \in [Calls -> Places] /\ attempt' \in [Calls -> 1..Attempts]
             /\ lock' \in [Calls -> Calls \cup {None}]
  <2>1. attempt[c] \in 1..Attempts
    BY TypesAre
  <2>2. CASE attempt[c] < Attempts
    <3>1. attempt[c] + 1 \in 1..Attempts /\ Step(c, "fetch", attempt[c] + 1)
      BY <1>3, <2>1, <2>2, Constants DEF NextAttempt
    <3> QED
      BY <1>1, <3>1, PlacesAre
  <2>3. CASE ~(attempt[c] < Attempts)
    BY <1>2, <1>3, <2>3 DEF NextAttempt
  <2> QED
    BY <2>2, <2>3
<1>4. ASSUME LeaveVerified(c)
      PROVE  Leave(c) /\ verified' \in [Calls -> BOOLEAN]
  BY <1>4, TypesAre DEF LeaveVerified
<1> QED
  BY <1>1, <1>2, <1>3, <1>4

LEMMA MergeTypes ==
  ASSUME setup \in Setups, TypeOK, NEW c \in Calls, Merge(c)
  PROVE  setup' = setup /\ TypeOK'
<1> DEFINE s == SessionOf[c]
<1>1. s \in Sessions /\ Fresh(c) \in Seq(Message) /\ Merged(c) \in Seq(Message)
  BY Constants, FreshTyped, MergedTyped
<1>2. \A p \in Places : Goto(c, p) => pc' \in [Calls -> Places]
  BY TypesAre DEF Goto
<1>3. CASE LookUpLock(c)
  <2>1. pc' \in [Calls -> Places]
    BY <1>2, <1>3, PlacesAre DEF LookUpLock
  <2>2. UNCHANGED <<setup, mind, mind_key, owned, answered, attempt, existing, verified,
                    blind, read_faults, write_faults>>
    BY <1>3 DEF LookUpLock
  <2> QED
    BY <1>3, <2>1, <2>2, RegistryTyped, TypesAre DEF mind, TypeOK
<1>4. CASE AcquireLock(c)
  <2>1. pc' \in [Calls -> Places]
    BY <1>2, <1>4, PlacesAre DEF AcquireLock
  <2> QED
    BY <1>4, <2>1, TypesAre DEF AcquireLock, mind, locals, ghosts, TypeOK
<1>5. CASE AcquireFileLock(c)
  <2>1. pc' \in [Calls -> Places]
    BY <1>2, <1>5, PlacesAre DEF AcquireFileLock
  <2> QED
    BY <1>5, <2>1, TypesAre DEF AcquireFileLock, mind, locals, ghosts, TypeOK
<1>6. CASE Fetch(c)
  <2>1. PICK doc : /\ Fetched(c, doc)
                   /\ \/ Served(s, doc) /\ UNCHANGED ghosts
                      \/ doc = <<>> /\ TakenForNone(s) /\ UNCHANGED behind
    BY <1>6 DEF Fetch
  <2>2. doc \in Seq(Message) /\ behind' \in [Sessions -> Seq(Message) \cup {None}]
    <3>1. CASE Served(s, doc)
      BY <1>1, <3>1, ServedTyped
    <3>2. CASE doc = <<>> /\ UNCHANGED behind
      BY <3>2, TypesAre
    <3> QED
      BY <2>1, <3>1, <3>2
  <2>3. GhostsTyped
    BY <1>1, <2>1, FaultsTyped, TypesAre DEF ghosts, GhostsTyped
  <2>4. /\ pc' \in [Calls -> Places] /\ attempt' \in [Calls -> 1..Attempts]
        /\ lock' \in [Calls -> Calls \cup {None}] /\ verified' \in [Calls -> BOOLEAN]
        /\ existing' \in [Calls -> Seq(Message)]
    <3>1. CASE EndsWith(doc, Fresh(c))
      BY <2>1, <3>1, StepsTyped, TypesAre DEF Fetched
    <3>2. CASE ~EndsWith(doc, Fresh(c))
      <4>1. /\ existing' = [existing EXCEPT ![c] = doc]
            /\ Step(c, "save", attempt[c]) /\ UNCHANGED verified
        BY <2>1, <3>2 DEF Fetched
      <4>2. attempt[c] \in 1..Attempts
        BY TypesAre
      <4> QED
        BY <2>2, <4>1, <4>2, StepsTyped, PlacesAre, TypesAre
    <3> QED
      BY <3>1, <3>2
  <2>5. UNCHANGED <<setup, docs, promoted, registry, mind_key, owned, answered>>
    BY <1>6 DEF Fetch
  <2> QED
    BY <2>2, <2>3, <2>4, <2>5, TypesAre DEF GhostsTyped, TypeOK
<1>7. CASE Save(c)
  <2>1. docs' \in [Sessions -> Seq(Message)] /\ behind' \in [Sessions -> Seq(Message) \cup {None}]
    BY <1>1, <1>7, WriteTyped, TypesAre DEF Save
  <2>2. GhostsTyped
    BY <1>7, FaultsTyped, TypesAre DEF Save, ghosts, GhostsTyped
  <2>3. /\ pc' \in [Calls -> Places] /\ attempt' \in [Calls -> 1..Attempts]
        /\ lock' \in [Calls -> Calls \cup {None}]
    <3>1. attempt[c] \in 1..Attempts
      BY TypesAre
    <3>2. Step(c, "check", attempt[c]) \/ Leave(c) \/ NextAttempt(c)
      BY <1>7 DEF Save
    <3> QED
      BY <3>1, <3>2, StepsTyped, PlacesAre
  <2>4. existing' \in [Calls -> Seq(Message)]
    <3>1. <<>> \in Seq(Message)
      OBVIOUS
    <3> QED
      BY <1>7, <3>1, TypesAre DEF Save
  <2>5. UNCHANGED <<setup, promoted, registry, mind_key, owned, answered, verified>>
    BY <1>7 DEF Save
  <2> QED
    BY <2>1, <2>2, <2>3, <2>4, <2>5, TypesAre DEF GhostsTyped, TypeOK
<1>8. CASE Check(c)
  <2>1. behind' \in [Sessions -> Seq(Message) \cup {None}]
    BY <1>1, <1>8, ServedTyped, TypesAre DEF Check
  <2>2. GhostsTyped
    BY <1>8, FaultsTyped, TypesAre DEF Check, ghosts, GhostsTyped
  <2>3. /\ pc' \in [Calls -> Places] /\ attempt' \in [Calls -> 1..Attempts]
        /\ lock' \in [Calls -> Calls \cup {None}] /\ verified' \in [Calls -> BOOLEAN]
    <3>1. LeaveVerified(c) \/ ((NextAttempt(c) \/ Leave(c)) /\ UNCHANGED verified)
      BY <1>8 DEF Check
    <3> QED
      BY <3>1, StepsTyped, TypesAre
  <2>4. UNCHANGED <<setup, docs, promoted, registry, mind_key, owned, answered, existing>>
    BY <1>8 DEF Check
  <2> QED
    BY <2>1, <2>2, <2>3, <2>4, TypesAre DEF GhostsTyped, TypeOK
<1> QED
  BY <1>3, <1>4, <1>5, <1>6, <1>7, <1>8 DEF Merge

LEMMA TypesKept ==
  ASSUME setup \in Setups, TypeOK, [Next]_vars
  PROVE  setup' = setup /\ TypeOK'
<1>1. CASE UNCHANGED vars
  BY <1>1, TypesAre DEF vars, mind, locals, ghosts, TypeOK
<1>2. CASE Next
  BY <1>2, ChatTyped, MergeTypes DEF Next
<1> QED
  BY <1>1, <1>2

(* Every variable has its type, over any number of calls, faults and         *)
(* evictions: in particular no process keeps more locks than it may          *)
(* (session.py 37-40) and no merge makes more attempts than it has.          *)
THEOREM SessionIsTyped == Spec => []TypeOK
<1> DEFINE Inv == setup \in Setups /\ TypeOK
<1>1. Init => Inv
  BY TypesStart
<1>2. Inv /\ [Next]_vars => Inv'
  BY TypesKept
<1> QED
  BY <1>1, <1>2, PTL DEF Spec

----------------------------------------------------------------------------
(* What a step leaves alone, and where it leaves its call.                   *)

OthersStay(c) ==
  /\ setup' = setup /\ blind \subseteq blind' /\ evicted \subseteq evicted'
  /\ \A d \in Calls \ {c} :
       /\ pc'[d] = pc[d] /\ mind_key'[d] = mind_key[d] /\ owned'[d] = owned[d]
       /\ answered'[d] = answered[d] /\ verified'[d] = verified[d]
       /\ lock'[d] = lock[d] /\ existing'[d] = existing[d]
  /\ \A s \in Sessions \ {SessionOf[c]} : docs'[s] = docs[s] /\ behind'[s] = behind[s]

LEMMA FrameOfChat ==
  ASSUME TypeOK, NEW c \in Calls, Chat(c)
  PROVE  OthersStay(c)
<1>1. CASE TurnedAway(c)
  BY <1>1, TypesAre DEF TurnedAway, Goto, mind, locals, ghosts, OthersStay
<1>2. CASE FindSession(c)
  BY <1>2, TypesAre DEF FindSession, Goto, mind, ghosts, TakenForNone, ReadRaises, OthersStay
<1>3. CASE CreateSession(c)
  BY <1>3, TypesAre DEF CreateSession, Goto, ghosts, WriteRaises, OthersStay
<1>4. CASE CheckOwner(c)
  BY <1>4, TypesAre DEF CheckOwner, Goto, mind, ghosts, TakenForNone, ReadRaises, OthersStay
<1>5. CASE BrainChat(c)
  BY <1>5, TypesAre DEF BrainChat, Goto, ghosts, Write, OthersStay
<1>6. CASE BrainChatRaises(c)
  BY <1>6, TypesAre DEF BrainChatRaises, Goto, locals, WriteRaises, Write, OthersStay
<1> QED
  BY <1>1, <1>2, <1>3, <1>4, <1>5, <1>6 DEF Chat

LEMMA FrameOfMerge ==
  ASSUME TypeOK, NEW c \in Calls, Merge(c)
  PROVE  OthersStay(c)
<1>1. CASE LookUpLock(c)
  <2>1. \E e : lock' = [lock EXCEPT ![c] = e]
    BY <1>1 DEF LookUpLock
  <2>2. evicted \subseteq evicted'
    BY <1>1 DEF LookUpLock
  <2> QED
    BY <1>1, <2>1, <2>2, TypesAre DEF LookUpLock, Goto, mind, OthersStay
<1>2. CASE AcquireLock(c)
  BY <1>2, TypesAre DEF AcquireLock, Goto, mind, locals, ghosts, OthersStay
<1>3. CASE AcquireFileLock(c)
  BY <1>3, TypesAre DEF AcquireFileLock, Goto, mind, locals, ghosts, OthersStay
<1>4. CASE Fetch(c)
  BY <1>4, TypesAre DEF Fetch, Fetched, Step, Leave, LeaveVerified, Goto, Served, ghosts,
     TakenForNone, ReadRaises, OthersStay
<1>5. CASE Save(c)
  BY <1>5, TypesAre DEF Save, NextAttempt, Step, Leave, Goto, Write, ghosts, WriteRaises,
     OthersStay
<1>6. CASE Check(c)
  BY <1>6, TypesAre DEF Check, NextAttempt, Step, Leave, LeaveVerified, Goto, Served, ghosts,
     ReadRaises, OthersStay
<1> QED
  BY <1>1, <1>2, <1>3, <1>4, <1>5, <1>6 DEF Merge

LEMMA OthersInPlace ==
  ASSUME NEW c \in Calls, OthersStay(c), NEW d \in Calls \ {c}, InPlace(d)
  PROVE  InPlace(d)'
BY DEF OthersStay, InPlace, MindKeeps

LEMMA ChatInPlace ==
  ASSUME setup \in Setups, TypeOK, NEW c \in Calls, InPlace(c), Chat(c)
  PROVE  InPlace(c)'
<1>1. /\ SessionOf[c] \in Sessions /\ SessionOf[c] \notin Calls
      /\ setup' = setup /\ blind \subseteq blind'
  BY Constants, FrameOfChat DEF OthersStay
<1>2. CASE TurnedAway(c)
  BY <1>1, <1>2, TypesAre
     DEF TurnedAway, Goto, mind, locals, ghosts, InPlace, MindKeeps, Locked, Ahead
<1>3. CASE FindSession(c)
  BY <1>1, <1>3, TypesAre
     DEF FindSession, Goto, mind, ghosts, TakenForNone, InPlace, MindKeeps, Locked, Ahead
<1>4. CASE CreateSession(c)
  BY <1>1, <1>4, TypesAre
     DEF CreateSession, Goto, ghosts, WriteRaises, InPlace, MindKeeps, Locked, Ahead
<1>5. CASE CheckOwner(c)
  BY <1>1, <1>5, TypesAre
     DEF CheckOwner, Goto, mind, ghosts, TakenForNone, InPlace, MindKeeps, Locked, Ahead
<1>6. CASE BrainChat(c)
  BY <1>1, <1>6, TypesAre DEF BrainChat, Goto, ghosts, InPlace, MindKeeps, Locked, Ahead
<1>7. CASE BrainChatRaises(c)
  BY <1>1, <1>7, TypesAre
     DEF BrainChatRaises, Goto, locals, WriteRaises, InPlace, MindKeeps, Locked, Ahead
<1> QED
  BY <1>2, <1>3, <1>4, <1>5, <1>6, <1>7 DEF Chat

LEMMA MergeInPlace ==
  ASSUME setup \in Setups, TypeOK, NEW c \in Calls, InPlace(c), Merge(c)
  PROVE  InPlace(c)'
<1>1. /\ None \notin Calls /\ setup' = setup /\ blind \subseteq blind' /\ TypeOK'
      /\ mind_key' = mind_key /\ owned' = owned
  BY Constants, FrameOfMerge, MergeTypes
     DEF OthersStay, Merge, LookUpLock, AcquireLock, AcquireFileLock, Fetch, Save, Check,
         locals
<1>2. /\ pc[c] \in {"lookup", "wait", "flock", "fetch", "save", "check"}
      /\ ~verified[c] /\ ~MindKeeps(c) /\ SessionOf[c] \notin setup.live \ blind
  BY DEF Merge, LookUpLock, AcquireLock, AcquireFileLock, Fetch, Save, Check, InPlace, Locked
<1>3. /\ (pc'[c] \in Locked /\ lock'[c] # None) \/ (pc'[c] = "done" /\ lock'[c] = None)
      /\ verified'[c] => pc'[c] = "done"
  <2>1. Goto(c, "wait") \/ Goto(c, "flock") \/ Goto(c, "fetch") \/ Goto(c, "save")
          \/ Goto(c, "check") => pc'[c] \in Locked
    BY TypesAre DEF Goto, Locked
  <2>2. ASSUME Leave(c)
        PROVE  pc'[c] = "done" /\ lock'[c] = None
    BY <2>2, TypesAre DEF Leave, Goto
  <2>3. ASSUME pc[c] # "lookup", NEW p \in {"fetch", "save", "check"}, NEW n, Step(c, p, n)
        PROVE  pc'[c] \in Locked /\ lock'[c] # None
    BY <1>2, <2>1, <2>3 DEF Step, InPlace, Locked
  <2>4. ASSUME pc[c] # "lookup", NextAttempt(c)
        PROVE  (pc'[c] \in Locked /\ lock'[c] # None) \/ (pc'[c] = "done" /\ lock'[c] = None)
    BY <2>2, <2>3, <2>4 DEF NextAttempt
  <2>5. CASE LookUpLock(c)
    <3>1. \A e \in ToSet(registry[setup.process[c]]) : e[2] \in Calls
      BY SetupFacts, TypesAre DEF ToSet
    <3>2. lock'[c] \in Calls
      BY <2>5, <3>1, TypesAre DEF LookUpLock
    <3> QED
      BY <1>1, <1>2, <2>1, <2>5, <3>2 DEF LookUpLock
  <2>6. CASE AcquireLock(c) \/ AcquireFileLock(c)
    BY <1>2, <2>1, <2>6 DEF AcquireLock, AcquireFileLock, locals, InPlace, Locked
  <2>7. CASE Fetch(c)
    BY <1>2, <2>2, <2>3, <2>7 DEF Fetch, Fetched, LeaveVerified
  <2>8. CASE Save(c)
    BY <1>2, <2>2, <2>3, <2>4, <2>8 DEF Save
  <2>9. CASE Check(c)
    BY <1>2, <2>2, <2>3, <2>4, <2>9 DEF Check, LeaveVerified
  <2> QED
    BY <2>5, <2>6, <2>7, <2>8, <2>9 DEF Merge
<1> QED
  BY <1>1, <1>2, <1>3 DEF InPlace, MindKeeps, Ahead, Locked

----------------------------------------------------------------------------
(* The locks.                                                                *)

(* A step that looks up no lock takes none but the one it waits for.         *)
LEMMA LocksStay ==
  ASSUME setup \in Setups, TypeOK, NEW c \in Calls, InPlace(c),
         Chat(c) \/ (Merge(c) /\ ~LookUpLock(c))
  PROVE  /\ registry' = registry /\ lock'[c] \in {lock[c], None}
         /\ HasLock(c)' => lock'[c] = lock[c] /\ (HasLock(c) \/ AcquireLock(c))
         /\ InMerge(c)' => InMerge(c) \/ AcquireFileLock(c)
<1>1. CASE Chat(c)
  <2>1. registry' = registry /\ lock' = lock /\ lock[c] = None
    BY <1>1 DEF Chat, TurnedAway, FindSession, CreateSession, CheckOwner, BrainChat,
       BrainChatRaises, locals, InPlace, Locked
  <2>2. lock'[c] = None /\ InPlace(c)'
    BY <1>1, <2>1, ChatInPlace
  <2> QED
    BY <2>1, <2>2 DEF HasLock, InMerge, InPlace, Locked
<1>2. CASE Merge(c) /\ ~LookUpLock(c)
  <2>1. registry' = registry
    BY <1>2 DEF Merge, AcquireLock, AcquireFileLock, Fetch, Save, Check
  <2>2. ASSUME Leave(c) \/ NextAttempt(c) \/ \E p, n : Step(c, p, n)
        PROVE  lock'[c] \in {lock[c], None}
    BY <2>2, TypesAre DEF Leave, NextAttempt, Step
  <2>3. lock'[c] \in {lock[c], None}
    <3>1. CASE AcquireLock(c) \/ AcquireFileLock(c)
      BY <3>1 DEF AcquireLock, AcquireFileLock, locals
    <3>2. CASE Fetch(c)
      BY <3>2, <2>2 DEF Fetch, Fetched, LeaveVerified
    <3>3. CASE Save(c)
      BY <3>3, <2>2 DEF Save
    <3>4. CASE Check(c)
      BY <3>4, <2>2 DEF Check, LeaveVerified
    <3> QED
      BY <1>2, <3>1, <3>2, <3>3, <3>4 DEF Merge
  <2>4. HasLock(c) \/ AcquireLock(c)
    BY <1>2 DEF Merge, AcquireLock, AcquireFileLock, Fetch, Save, Check, HasLock, InPlace, Locked
  <2>5. InMerge(c) \/ AcquireFileLock(c) \/ AcquireLock(c)
    BY <1>2 DEF Merge, AcquireLock, AcquireFileLock, Fetch, Save, Check, InMerge
  <2>6. AcquireLock(c) => ~InMerge(c)'
    BY TypesAre DEF AcquireLock, Goto, InMerge
  <2> QED
    BY <2>1, <2>3, <2>4, <2>5, <2>6 DEF HasLock
<1> QED
  BY <1>1, <1>2

LEMMA LockInvStays ==
  ASSUME setup \in Setups, TypeOK, LockInv, NEW c \in Calls, InPlace(c),
         Chat(c) \/ (Merge(c) /\ ~LookUpLock(c))
  PROVE  LockInv'
<1>1. /\ OthersStay(c)
      /\ registry' = registry /\ lock'[c] \in {lock[c], None}
      /\ HasLock(c)' => lock'[c] = lock[c] /\ (HasLock(c) \/ AcquireLock(c))
      /\ InMerge(c)' => InMerge(c) \/ AcquireFileLock(c)
  BY FrameOfChat, FrameOfMerge, LocksStay
<1>2. KeysAreUnique'
  BY <1>1 DEF LockInv, KeysAreUnique
<1>3. ASSUME NEW d \in Calls, lock'[d] # None, SessionOf[d] \notin evicted'
      PROVE  Registered(d)'
  <2>1. lock'[d] = lock[d] /\ SessionOf[d] \notin evicted /\ setup' = setup
    BY <1>1, <1>3 DEF OthersStay
  <2>2. Registered(d)
    BY <1>3, <2>1 DEF LockInv
  <2> QED
    BY <1>1, <2>1, <2>2 DEF Registered
<1>4. ASSUME NEW d \in Calls \ {c}
      PROVE  HasLock(d)' = HasLock(d) /\ lock'[d] = lock[d] /\ InMerge(d)' = InMerge(d)
  BY <1>1, <1>4 DEF OthersStay, HasLock, InMerge
<1>5. ASSUME NEW d \in Calls \ {c}, HasLock(d)', HasLock(c)', lock'[c] = lock'[d]
      PROVE  FALSE
  <2>1. HasLock(d) /\ lock[c] = lock[d] /\ (HasLock(c) \/ AcquireLock(c))
    BY <1>1, <1>4, <1>5
  <2> QED
    BY <2>1 DEF LockInv, AcquireLock
<1>6. ASSUME NEW d \in Calls, NEW e \in Calls, HasLock(d)', HasLock(e)', lock'[d] = lock'[e]
      PROVE  d = e
  BY <1>4, <1>5, <1>6 DEF LockInv
<1>7. ASSUME setup.flock, NEW d \in Calls \ {c}, InMerge(d)', InMerge(c)',
             SessionOf[c] = SessionOf[d]
      PROVE  FALSE
  <2>1. InMerge(d) /\ (InMerge(c) \/ AcquireFileLock(c))
    BY <1>1, <1>4, <1>7
  <2> QED
    BY <1>7, <2>1 DEF LockInv, AcquireFileLock
<1>8. ASSUME setup'.flock, NEW d \in Calls, NEW e \in Calls, InMerge(d)', InMerge(e)',
             SessionOf[d] = SessionOf[e]
      PROVE  d = e
  <2>1. setup.flock
    BY <1>1, <1>8 DEF OthersStay
  <2> QED
    BY <1>4, <1>7, <1>8, <2>1 DEF LockInv
<1> QED
  BY <1>2, <1>3, <1>6, <1>8 DEF LockInv

(* Looking up a lock: the registry keeps one lock per key, and loses only    *)
(* that of a key which counts as evicted from then on.                       *)
LEMMA LookUpKeeps ==
  ASSUME setup \in Setups, TypeOK, LockInv, NEW c \in Calls, InPlace(c), LookUpLock(c)
  PROVE  LockInv'
<1> DEFINE p == setup.process[c]
           s == SessionOf[c]
           old == registry[p]
           room == WithRoom(old)
           Found == \E i \in DOMAIN old : old[i][1] = s /\ lock' = [lock EXCEPT ![c] = old[i][2]]
<1>1. /\ OthersStay(c) /\ p \in Processes /\ s \in Sessions /\ old \in Seq(Sessions \X Calls)
      /\ registry \in [Processes -> Seq(Sessions \X Calls)] /\ lock \in [Calls -> Calls \cup {None}]
      /\ Len(old) <= LocksMax /\ LocksMax \in Nat /\ LocksMax > 0
      /\ setup.process \in [Calls -> Processes]
  BY FrameOfMerge, SetupFacts, Constants, TypesAre DEF Merge
<1>2. setup' = setup /\ pc' = [pc EXCEPT ![c] = "wait"] /\ pc \in [Calls -> Places]
  BY TypesAre DEF LookUpLock, Goto
<1>3. ~HasLock(c)' /\ ~InMerge(c)'
  BY <1>2 DEF HasLock, InMerge
<1>4. ASSUME NEW d \in Calls \ {c}
      PROVE  HasLock(d)' = HasLock(d) /\ lock'[d] = lock[d] /\ InMerge(d)' = InMerge(d)
  BY <1>1, <1>4 DEF OthersStay, HasLock, InMerge
<1>5. /\ \A d, e \in Calls : HasLock(d)' /\ HasLock(e)' /\ lock'[d] = lock'[e] => d = e
      /\ setup'.flock =>
           \A d, e \in Calls : InMerge(d)' /\ InMerge(e)' /\ SessionOf[d] = SessionOf[e] => d = e
  BY <1>2, <1>3, <1>4 DEF LockInv
<1>6. CASE registry' = registry /\ evicted' = evicted /\ Found
  <2>1. KeysAreUnique'
    BY <1>6 DEF LockInv, KeysAreUnique
  <2>2. ASSUME NEW d \in Calls \ {c}, lock'[d] # None, SessionOf[d] \notin evicted'
        PROVE  Registered(d)'
    BY <1>2, <1>4, <1>6, <2>2 DEF LockInv, Registered
  <2>3. Registered(c)'
    <3>1. PICK i \in DOMAIN old : old[i][1] = s /\ lock' = [lock EXCEPT ![c] = old[i][2]]
      BY <1>6
    <3>2. old[i] \in Sessions \X Calls
      BY <1>1
    <3>3. lock'[c] = old[i][2] /\ old[i] = <<old[i][1], old[i][2]>>
      BY <1>1, <3>1, <3>2
    <3> QED
      BY <1>2, <1>6, <3>1, <3>3 DEF Registered
  <2> QED
    BY <1>5, <2>1, <2>2, <2>3 DEF LockInv
<1>7. CASE /\ \A i \in DOMAIN old : old[i][1] # s
           /\ lock' = [lock EXCEPT ![c] = c]
           /\ registry' = [registry EXCEPT ![p] = Append(room, <<s, c>>)]
           /\ evicted' = evicted \cup IF room = old THEN {} ELSE {old[1][1]}
  <2> DEFINE k == IF Len(old) >= LocksMax THEN 1 ELSE 0
  <2>1. /\ k \in {0, 1} /\ room \in Seq(Sessions \X Calls) /\ Len(room) = Len(old) - k
        /\ \A i \in 1..Len(room) : room[i] = old[i + k]
        /\ k = 1 => room # old
    <3>1. CASE Len(old) >= LocksMax
      <4>1. old # <<>> /\ room = Tail(old)
        BY <1>1, <3>1 DEF WithRoom
      <4>2. /\ room \in Seq(Sessions \X Calls) /\ Len(room) = Len(old) - 1
            /\ \A i \in 1..Len(room) : room[i] = old[i + 1]
        BY <1>1, <4>1
      <4>3. room # old
        <5>1. Len(old) \in Nat
          BY <1>1
        <5>2. Len(old) - 1 # Len(old)
          BY <5>1
        <5> QED
          BY <4>2, <5>2
      <4> QED
        BY <3>1, <4>2, <4>3
    <3>2. CASE ~(Len(old) >= LocksMax)
      <4>1. room = old
        BY <3>2 DEF WithRoom
      <4>2. k = 0 /\ Len(old) \in Nat /\ \A i \in 1..Len(old) : i + 0 = i
        BY <1>1, <3>2
      <4>3. room \in Seq(Sessions \X Calls) /\ Len(room) = Len(old) - 0
        BY <1>1, <4>1, <4>2
      <4> HIDE DEF k, room
      <4> QED
        BY <4>1, <4>2, <4>3
    <3> QED
      BY <3>1, <3>2
  <2> HIDE DEF k
  <2> DEFINE new == registry'[p]
  <2>2. /\ new = Append(room, <<s, c>>) /\ DOMAIN new = 1..(Len(room) + 1)
        /\ new[Len(room) + 1] = <<s, c>> /\ \A i \in 1..Len(room) : new[i] = room[i]
        /\ \A q \in Processes \ {p} : registry'[q] = registry[q]
    BY <1>1, <1>7, <2>1
  <2>3. ASSUME NEW i \in DOMAIN new, i # Len(room) + 1
        PROVE  i \in Nat /\ i + k \in DOMAIN old /\ new[i] = old[i + k]
    <3>1. Len(old) \in Nat /\ DOMAIN old = 1..Len(old) /\ Len(room) \in Nat
      BY <1>1, <2>1
    <3>2. i \in 1..Len(room)
      BY <2>2, <2>3, <3>1
    <3>3. i + k \in 1..Len(old)
      BY <2>1, <3>1, <3>2
    <3>4. new[i] = room[i]
      BY <2>2, <3>2
    <3>5. room[i] = old[i + k]
      BY <2>1, <3>2
    <3>6. i \in Nat
      BY <3>1, <3>2
    <3> QED
      BY <3>1, <3>3, <3>4, <3>5, <3>6
  <2>4. KeysAreUnique'
    <3> SUFFICES ASSUME NEW q \in Processes, NEW i \in DOMAIN registry'[q],
                        NEW j \in DOMAIN registry'[q], registry'[q][i][1] = registry'[q][j][1]
                 PROVE  i = j
      BY DEF KeysAreUnique
    <3>1. CASE q # p
      BY <2>2, <3>1 DEF LockInv, KeysAreUnique
    <3>2. CASE q = p
      <4>1. i \in DOMAIN new /\ j \in DOMAIN new
        BY <3>2
      <4>2. CASE i # Len(room) + 1 /\ j # Len(room) + 1
        <5>1. /\ i + k \in DOMAIN old /\ j + k \in DOMAIN old
              /\ old[i + k][1] = old[j + k][1]
          BY <2>3, <3>2, <4>1, <4>2
        <5>2. i + k = j + k
          BY <1>1, <5>1 DEF LockInv, KeysAreUnique
        <5> QED
          BY <2>1, <2>3, <4>1, <4>2, <5>2
      <4>3. CASE i = Len(room) + 1 /\ j # Len(room) + 1
        <5>1. new[i][1] = s
          BY <2>2, <4>3
        <5>2. j + k \in DOMAIN old /\ new[j] = old[j + k]
          BY <2>3, <4>1, <4>3
        <5> QED
          BY <1>7, <3>2, <5>1, <5>2
      <4>4. CASE i # Len(room) + 1 /\ j = Len(room) + 1
        <5>1. new[j][1] = s
          BY <2>2, <4>4
        <5>2. i + k \in DOMAIN old /\ new[i] = old[i + k]
          BY <2>3, <4>1, <4>4
        <5> QED
          BY <1>7, <3>2, <5>1, <5>2
      <4> QED
        BY <4>2, <4>3, <4>4
    <3> QED
      BY <3>1, <3>2
  <2>5. ASSUME NEW d \in Calls \ {c}, lock'[d] # None, SessionOf[d] \notin evicted'
        PROVE  Registered(d)'
    <3>1. lock'[d] = lock[d] /\ SessionOf[d] \notin evicted
      BY <1>1, <1>4, <2>5 DEF OthersStay
    <3>2. PICK i \in DOMAIN registry[setup.process[d]] :
                 registry[setup.process[d]][i] = <<SessionOf[d], lock[d]>>
      BY <2>5, <3>1 DEF LockInv, Registered
    <3>3. CASE setup.process[d] # p
      BY <1>1, <1>2, <2>2, <3>1, <3>2, <3>3 DEF Registered
    <3>4. CASE setup.process[d] = p
      <4>1. i \in 1..Len(old) /\ old[i] = <<SessionOf[d], lock[d]>>
        BY <1>1, <3>2, <3>4
      <4>2. k = 1 => i # 1
        BY <1>7, <2>1, <2>5, <4>1
      <4>3. i - k \in 1..Len(room) /\ (i - k) + k = i
        <5>1. i \in Nat /\ Len(old) \in Nat /\ i > 0 /\ i <= Len(old)
          BY <1>1, <4>1
        <5> QED
          BY <2>1, <4>2, <5>1
      <4>4. i - k \in DOMAIN new /\ new[i - k] = <<SessionOf[d], lock[d]>>
        <5>1. i - k \in 1..(Len(room) + 1)
          BY <2>1, <4>3
        <5> QED
          BY <2>1, <2>2, <4>1, <4>3, <5>1
      <4> QED
        BY <1>2, <3>1, <3>4, <4>4 DEF Registered
    <3> QED
      BY <3>3, <3>4
  <2>6. Registered(c)'
    <3>1. Len(room) + 1 \in DOMAIN new /\ lock'[c] = c
      BY <1>1, <1>7, <2>1, <2>2
    <3> QED
      BY <1>2, <2>2, <3>1 DEF Registered
  <2> QED
    BY <1>5, <2>4, <2>5, <2>6 DEF LockInv
<1>8. ToSet(old) = {old[i] : i \in DOMAIN old}
  BY DEF ToSet
<1>9. \A e \in {x \in ToSet(old) : x[1] = s} : \E i \in DOMAIN old : old[i] = e /\ old[i][1] = s
  BY <1>8
<1>10. {x \in ToSet(old) : x[1] = s} = {} => \A i \in DOMAIN old : old[i][1] # s
  BY <1>8
<1>11. \/ registry' = registry /\ evicted' = evicted
          /\ \E e \in {x \in ToSet(old) : x[1] = s} : lock' = [lock EXCEPT ![c] = e[2]]
       \/ /\ {x \in ToSet(old) : x[1] = s} = {}
          /\ lock' = [lock EXCEPT ![c] = c]
          /\ registry' = [registry EXCEPT ![p] = Append(room, <<s, c>>)]
          /\ evicted' = evicted \cup IF room = old THEN {} ELSE {old[1][1]}
  BY DEF LookUpLock
<1> QED
  BY <1>6, <1>7, <1>9, <1>10, <1>11

LEMMA LocksKept ==
  ASSUME setup \in Setups, TypeOK, LockInv, \A c \in Calls : InPlace(c), [Next]_vars
  PROVE  LockInv' /\ \A c \in Calls : InPlace(c)'
<1>1. CASE UNCHANGED vars
  BY <1>1 DEF vars, locals, ghosts, LockInv, KeysAreUnique, Registered, HasLock, InMerge,
     InPlace, MindKeeps
<1>2. ASSUME NEW c \in Calls, Chat(c) \/ Merge(c)
      PROVE  LockInv' /\ \A d \in Calls : InPlace(d)'
  <2>1. OthersStay(c) /\ InPlace(c)'
    BY <1>2, FrameOfChat, FrameOfMerge, ChatInPlace, MergeInPlace
  <2>2. LockInv'
    BY <1>2, LockInvStays, LookUpKeeps
  <2> QED
    BY <2>1, <2>2, OthersInPlace
<1> QED
  BY <1>1, <1>2 DEF Next

(* Where the locks are what they are meant to be, merges of a key exclude    *)
(* each other.                                                               *)
LEMMA Alone ==
  ASSUME setup \in Setups, LockInv, NEW c \in Calls, NEW d \in Calls, InPlace(c), InPlace(d),
         InMerge(c), InMerge(d), SessionOf[c] = SessionOf[d], Serialized(SessionOf[c])
  PROVE  c = d
<1>1. CASE setup.flock
  BY <1>1 DEF LockInv
<1>2. CASE SessionOf[c] \notin evicted /\ setup.process[c] = setup.process[d]
  <2>1. HasLock(c) /\ HasLock(d)
    BY DEF InMerge, InPlace, HasLock, Locked
  <2>2. PICK i \in DOMAIN registry[setup.process[c]] :
               registry[setup.process[c]][i] = <<SessionOf[c], lock[c]>>
    BY <1>2, <2>1 DEF LockInv, HasLock, Registered
  <2>3. PICK j \in DOMAIN registry[setup.process[c]] :
               registry[setup.process[c]][j] = <<SessionOf[c], lock[d]>>
    BY <1>2, <2>1 DEF LockInv, HasLock, Registered
  <2>4. setup.process[c] \in Processes
    BY SetupFacts
  <2>5. i = j
    BY <2>2, <2>3, <2>4 DEF LockInv, KeysAreUnique
  <2> QED
    BY <2>1, <2>2, <2>3, <2>5 DEF LockInv
<1> QED
  BY <1>1, <1>2 DEF Serialized

----------------------------------------------------------------------------
(* The transcript and its copies.                                            *)

LEMMA CopiesTyped ==
  ASSUME TypeOK, NEW s \in Sessions, NEW doc \in Copies(s)
  PROVE  doc \in Seq(Message)
BY TypesAre DEF Copies

LEMMA SoundBefore ==
  ASSUME NEW c \in Calls, OthersStay(c), NEW s, Sound(s)'
  PROVE  Sound(s)
BY DEF OthersStay, Sound, Serialized

(* A step changes nothing for other keys than its own,                       *)
LEMMA OtherKeysStay ==
  ASSUME NEW c \in Calls, OthersStay(c), NEW s \in Sessions, s # SessionOf[c], CopiesInv(s)
  PROVE  CopiesInv(s)'
<1>1. \A d \in Calls : SessionOf[d] = s => d \in Calls \ {c}
  OBVIOUS
<1>2. docs'[s] = docs[s] /\ Copies(s)' = Copies(s)
  BY <1>1 DEF OthersStay, Copies
<1>3. ASSUME NEW doc \in Copies(s)'
      PROVE  Proper(doc, s)'
  BY <1>1, <1>2, <1>3 DEF CopiesInv, Proper, OthersStay
<1>4. ASSUME NEW d \in Calls, SessionOf[d] = s
      PROVE  /\ pc'[d] \in Before => \A doc \in Copies(s)' : Clean(doc, d)
             /\ Reported(d)' => \A doc \in Copies(s)' : Kept(doc, Fresh(d)')
             /\ MergeInv(d)'
  <2>1. /\ Fresh(d)' = Fresh(d) /\ pc'[d] = pc[d] /\ Reported(d)' = Reported(d)
        /\ InMerge(d)' = InMerge(d) /\ existing'[d] = existing[d]
    BY <1>1, <1>4 DEF OthersStay, Fresh, Reported, MindKeeps, InMerge
  <2> QED
    BY <1>2, <1>4, <2>1 DEF CopiesInv, MergeInv
<1> QED
  BY <1>3, <1>4 DEF CopiesInv, Clean, Kept, Holds

(* ... and what it leaves of its call's key is in order if it writes nothing *)
LEMMA QuietKeeps ==
  ASSUME NEW c \in Calls, NEW s, s = SessionOf[c], OthersStay(c), CopiesInv(s),
         docs'[s] = docs[s], Copies(s)' \subseteq Copies(s),
         pc'[c] \in Before => pc[c] \in Before, pc[c] \notin Ahead => pc'[c] \notin Ahead,
         Reported(c)' => \A doc \in Copies(s)' : Kept(doc, Fresh(c)'),
         MergeInv(c)'
  PROVE  CopiesInv(s)'
<1>1. ASSUME NEW doc \in Copies(s)'
      PROVE  Proper(doc, s)'
  <2>1. \A d \in Calls : pc[d] \notin Ahead => pc'[d] \notin Ahead
    BY DEF OthersStay
  <2> QED
    BY <1>1, <2>1 DEF CopiesInv, Proper
<1>2. ASSUME NEW d \in Calls, SessionOf[d] = s
      PROVE  /\ pc'[d] \in Before => \A doc \in Copies(s)' : Clean(doc, d)
             /\ Reported(d)' => \A doc \in Copies(s)' : Kept(doc, Fresh(d)')
             /\ MergeInv(d)'
  <2>1. CASE d = c
    BY <2>1 DEF CopiesInv
  <2>2. CASE d # c
    <3>1. /\ Fresh(d)' = Fresh(d) /\ pc'[d] = pc[d] /\ Reported(d)' = Reported(d)
          /\ InMerge(d)' = InMerge(d) /\ existing'[d] = existing[d]
      BY <2>2 DEF OthersStay, Fresh, Reported, MindKeeps, InMerge
    <3> QED
      BY <1>2, <3>1 DEF CopiesInv, MergeInv
  <2> QED
    BY <2>1, <2>2
<1> QED
  BY <1>1, <1>2 DEF CopiesInv

(* ... or if what it writes is.                                              *)
LEMMA WriteKeeps ==
  ASSUME NEW c \in Calls, NEW s, s = SessionOf[c], OthersStay(c), CopiesInv(s),
         NEW new, Copies(s)' \subseteq Copies(s) \cup {new}, Proper(new, s)',
         \A d \in Calls \ {c} : SessionOf[d] = s =>
           /\ ~InMerge(d)
           /\ pc[d] \in Before => Clean(new, d)
           /\ Reported(d) => Kept(new, Fresh(d)),
         pc[c] \notin Ahead, pc'[c] \notin Before,
         Reported(c)' => \A doc \in Copies(s)' : Kept(doc, Fresh(c)'),
         MergeInv(c)'
  PROVE  CopiesInv(s)'
<1>1. ASSUME NEW doc \in Copies(s)'
      PROVE  Proper(doc, s)'
  <2>1. \A d \in Calls : pc[d] \notin Ahead => pc'[d] \notin Ahead
    BY DEF OthersStay, Before
  <2> QED
    BY <1>1, <2>1 DEF CopiesInv, Proper
<1>2. ASSUME NEW d \in Calls, SessionOf[d] = s
      PROVE  /\ pc'[d] \in Before => \A doc \in Copies(s)' : Clean(doc, d)
             /\ Reported(d)' => \A doc \in Copies(s)' : Kept(doc, Fresh(d)')
             /\ MergeInv(d)'
  <2>1. CASE d = c
    BY <2>1
  <2>2. CASE d # c
    <3>1. /\ Fresh(d)' = Fresh(d) /\ pc'[d] = pc[d] /\ Reported(d)' = Reported(d)
          /\ InMerge(d)' = InMerge(d)
      BY <2>2 DEF OthersStay, Fresh, Reported, MindKeeps, InMerge
    <3> QED
      BY <1>2, <2>2, <3>1 DEF CopiesInv, MergeInv
  <2> QED
    BY <2>1, <2>2
<1> QED
  BY <1>1, <1>2 DEF CopiesInv

(* Mind keeps a turn itself: it is the new end of the transcript.            *)
LEMMA MindWrites ==
  ASSUME setup \in Setups, TypeOK, UtterancesDiffer, \A d \in Calls : InPlace(d),
         NEW c \in Calls, OthersStay(c), TypeOK', setup' = setup,
         NEW s \in Sessions, s = SessionOf[c], Sound(s)', CopiesInv(s),
         NEW turn \in Turns(c), turn = Fresh(c)',
         NEW new, new = docs[s] \o turn, docs'[s] = new,
         pc[c] = "chat", pc'[c] \in {"done", "failed"}, s \in setup.live
  PROVE  CopiesInv(s)'
<1>1. docs[s] \in Seq(Message) /\ turn \in Seq(Message)
  BY TurnIs, TypesAre
<1>2. Rest(new, docs[s] \o turn, 0)
  BY <1>1, AppendedIs
<1>3. Copies(s) = {docs[s]} /\ Copies(s)' = {new}
  BY DEF Copies
<1>4. Clean(docs[s], c) /\ Proper(docs[s], s) /\ pc[c] \notin Ahead /\ pc'[c] \notin Ahead
  BY <1>3 DEF CopiesInv, Before, Ahead
<1>5. Proper(new, s)'
  <2>1. Proper(new, s)
    BY <1>1, <1>2, <1>4, RestIsProper
  <2>2. \A d \in Calls : pc[d] \notin Ahead => pc'[d] \notin Ahead
    BY <1>4 DEF OthersStay
  <2> QED
    BY <2>1, <2>2 DEF Proper
<1>6. ASSUME NEW d \in Calls \ {c}, SessionOf[d] = s
      PROVE  /\ ~InMerge(d)
             /\ pc[d] \in Before => Clean(new, d)
             /\ Reported(d) => Kept(new, Fresh(d))
  <2>1. s \notin blind
    BY DEF Sound, OthersStay
  <2>2. ~InMerge(d)
    BY <1>6, <2>1 DEF InPlace, InMerge
  <2>3. ASSUME pc[d] \in Before
        PROVE  Clean(new, d)
    <3>1. Clean(docs[s], d) /\ TextOf[d] # TextOf[c]
      BY <1>3, <1>6, <2>3 DEF CopiesInv, UtterancesDiffer
    <3> QED
      BY <1>1, <1>2, <3>1, RestIsClean
  <2>4. ASSUME Reported(d)
        PROVE  Kept(new, Fresh(d))
    <3>1. Kept(docs[s], Fresh(d)) /\ Fresh(d) \in Seq(Message)
      BY <1>3, <1>6, <2>4, FreshTyped DEF CopiesInv
    <3> QED
      BY <1>1, <1>2, <3>1, RestKeeps
  <2> QED
    BY <2>2, <2>3, <2>4
<1>7. \A doc \in Copies(s)' : Kept(doc, Fresh(c)')
  <2>1. new \in Seq(Message) /\ Ends(new, turn)
    BY <1>1, <1>2, RestEnds
  <2>2. Kept(new, turn)
    BY <1>1, <2>1, EndsKeeps
  <2> QED
    BY <1>3, <2>2
<1>8. MergeInv(c)' /\ pc'[c] \notin Before
  BY DEF MergeInv, InMerge, Before, Ahead
<1> QED
  BY <1>3, <1>4, <1>5, <1>6, <1>7, <1>8, WriteKeeps

LEMMA ChatKeepsCopies ==
  ASSUME setup \in Setups, TypeOK, UtterancesDiffer, \A d \in Calls : InPlace(d), NEW c \in Calls, Chat(c),
         Sound(SessionOf[c])', CopiesInv(SessionOf[c])
  PROVE  CopiesInv(SessionOf[c])'
<1> DEFINE s == SessionOf[c]
<1>1. /\ s \in Sessions /\ OthersStay(c) /\ InPlace(c)' /\ TypeOK' /\ setup' = setup
  BY Constants, FrameOfChat, ChatInPlace, ChatTyped
<1>2. CASE TurnedAway(c) \/ FindSession(c) \/ CreateSession(c) \/ CheckOwner(c)
  <2>1. /\ docs' = docs /\ behind' = behind /\ existing' = existing
        /\ pc[c] \in Ahead /\ pc'[c] \in Ahead \cup {"chat", "done"}
        /\ verified'[c] = verified[c] /\ (pc'[c] = "done" => ~MindKeeps(c)')
    BY <1>2, TypesAre DEF TurnedAway, FindSession, CreateSession, CheckOwner, Goto, mind,
       locals, Ahead, InPlace, MindKeeps
  <2>2. Copies(s)' = Copies(s)
    BY <1>1, <2>1 DEF Copies, OthersStay, Ahead
  <2>3. ~Reported(c)'
    BY <2>1 DEF Ahead, Reported, InPlace
  <2>4. MergeInv(c)'
    BY <2>1 DEF Ahead, MergeInv, InMerge
  <2>5. /\ pc[c] \in Before
        /\ pc[c] \notin Ahead => pc'[c] \notin Ahead
    BY <2>1 DEF Before
  <2> QED
    BY <1>1, <2>1, <2>2, <2>3, <2>4, <2>5, QuietKeeps
<1>3. CASE \/ BrainChat(c) /\ ~MindKeeps(c)
           \/ BrainChatRaises(c) /\ UNCHANGED <<docs, behind>>
  <2>1. /\ docs' = docs /\ behind' = behind /\ existing' = existing /\ pc[c] = "chat"
        /\ pc'[c] \in {"lookup", "failed"} /\ verified'[c] = verified[c]
    BY <1>3, TypesAre DEF BrainChat, BrainChatRaises, Goto, locals
  <2>2. Copies(s)' = Copies(s)
    BY <1>1, <2>1 DEF Copies, OthersStay
  <2>3. ~Reported(c)'
    BY <2>1 DEF Reported, InPlace
  <2>4. MergeInv(c)'
    BY <2>1 DEF MergeInv, InMerge
  <2>5. pc[c] \in Before /\ pc'[c] \notin Ahead
    BY <2>1 DEF Before, Ahead
  <2> QED
    BY <1>1, <2>1, <2>2, <2>3, <2>4, <2>5, QuietKeeps
<1>4. CASE /\ BrainChat(c) \/ BrainChatRaises(c)
           /\ MindKeeps(c) /\ Write(s, docs[s] \o Fresh(c)')
  <2>1. Fresh(c)' \in Turns(c)
    <3>1. answered'[c] \in BOOLEAN
      BY <1>1 DEF TypeOK
    <3> QED
      BY <3>1, TurnMade DEF Fresh
  <2>2. PICK turn \in Turns(c) : turn = Fresh(c)'
    BY <2>1
  <2>3. PICK new : new = docs[s] \o turn
    OBVIOUS
  <2>4. /\ pc[c] = "chat" /\ pc'[c] \in {"done", "failed"} /\ docs'[s] = new
        /\ s \in setup.live
    BY <1>1, <1>4, <2>2, <2>3, TypesAre DEF BrainChat, BrainChatRaises, Goto, Write, InPlace
  <2> QED
    BY <1>1, <2>2, <2>3, <2>4, MindWrites
<1>5. CASE BrainChat(c)
  <2>1. MindKeeps(c) => Write(s, docs[s] \o Fresh(c)')
    BY <1>5 DEF BrainChat
  <2> QED
    BY <1>3, <1>4, <1>5, <2>1
<1>6. CASE BrainChatRaises(c)
  <2>1. Fresh(c)' = Fresh(c)
    BY <1>6 DEF BrainChatRaises, locals, Fresh
  <2>2. UNCHANGED <<docs, behind>> \/ (MindKeeps(c) /\ Write(s, docs[s] \o Fresh(c)))
    BY <1>6 DEF BrainChatRaises
  <2> QED
    BY <1>3, <1>4, <1>6, <2>1, <2>2
<1> QED
  BY <1>2, <1>5, <1>6 DEF Chat

(* A merge: Mind does not keep the key, and no other call merges into it.    *)
LEMMA Merging ==
  ASSUME setup \in Setups, TypeOK, LockInv, \A d \in Calls : InPlace(d),
         NEW c \in Calls, Merge(c), NEW s, s = SessionOf[c], Sound(s)'
  PROVE  /\ s \in Sessions /\ OthersStay(c) /\ TypeOK' /\ setup' = setup
         /\ s \notin blind' /\ s \notin setup.live /\ pc[c] \notin Ahead
         /\ Fresh(c)' = Fresh(c) /\ Fresh(c) \in Turns(c) /\ Fresh(c) \in Seq(Message)
         /\ ~verified[c] /\ (~verified'[c] => ~Reported(c)')
         /\ InMerge(c) => \A d \in Calls \ {c} : SessionOf[d] = s => ~InMerge(d)
<1>1. s \in Sessions /\ OthersStay(c) /\ TypeOK' /\ setup' = setup
  BY Constants, FrameOfMerge, MergeTypes DEF OthersStay
<1>2. s \notin blind /\ s \notin blind' /\ Sound(s)
  BY <1>1, SoundBefore DEF Sound
<1>3. /\ pc[c] \in {"lookup", "wait", "flock", "fetch", "save", "check"}
      /\ mind_key' = mind_key /\ owned' = owned /\ answered' = answered
  BY DEF Merge, LookUpLock, AcquireLock, AcquireFileLock, Fetch, Save, Check, locals
<1>4. s \notin setup.live /\ ~MindKeeps(c) /\ ~verified[c]
  BY <1>2, <1>3 DEF InPlace, Locked
<1>5. ~verified'[c] => ~Reported(c)'
  BY <1>3, <1>4 DEF Reported, MindKeeps
<1>6. Fresh(c)' = Fresh(c) /\ Fresh(c) \in Turns(c) /\ Fresh(c) \in Seq(Message)
  BY <1>3, FreshTyped DEF Fresh
<1>7. ASSUME InMerge(c), NEW d \in Calls \ {c}, SessionOf[d] = s, InMerge(d)
      PROVE  FALSE
  BY <1>2, <1>7, Alone DEF Sound
<1> QED
  BY <1>1, <1>2, <1>3, <1>4, <1>5, <1>6, <1>7 DEF Ahead

(* A merge that writes nothing goes on as it did.                            *)
LEMMA QuietMerge ==
  ASSUME NEW c \in Calls, NEW s, s = SessionOf[c], CopiesInv(s), InMerge(c),
         docs'[s] = docs[s], Copies(s)' \subseteq Copies(s), Fresh(c)' = Fresh(c),
         pc'[c] = "save" => Clean(existing'[c], c) \/ Stub(existing'[c], Fresh(c))
  PROVE  MergeInv(c)'
<1>1. /\ \A doc \in Copies(s) : Clean(doc, c) \/ Ends(doc, Fresh(c))
      /\ Clean(docs[s], c) => \A doc \in Copies(s) : Clean(doc, c)
  BY DEF CopiesInv, MergeInv
<1> QED
  BY <1>1 DEF MergeInv

LEMMA LockingKeepsCopies ==
  ASSUME setup \in Setups, TypeOK, LockInv, \A d \in Calls : InPlace(d),
         NEW c \in Calls, Merge(c), NEW s, s = SessionOf[c], Sound(s)', CopiesInv(s),
         LookUpLock(c) \/ AcquireLock(c) \/ AcquireFileLock(c)
  PROVE  CopiesInv(s)'
<1>1. /\ OthersStay(c) /\ Fresh(c)' = Fresh(c) /\ setup' = setup
      /\ ~verified[c] /\ (~verified'[c] => ~Reported(c)')
  BY Merging
<1>2. /\ docs' = docs /\ behind' = behind /\ existing' = existing
      /\ verified' = verified /\ pc[c] \in {"lookup", "wait", "flock"}
      /\ pc'[c] \in {"wait", "flock"} \/ (pc[c] = "flock" /\ pc'[c] = "fetch")
  BY TypesAre DEF LookUpLock, AcquireLock, AcquireFileLock, Goto, mind, locals
<1>3. Copies(s)' = Copies(s)
  BY <1>1, <1>2 DEF Copies, OthersStay
<1>4. MergeInv(c)'
  <2>1. CASE pc'[c] \in {"wait", "flock"}
    BY <2>1 DEF MergeInv, InMerge
  <2>2. CASE pc[c] = "flock" /\ pc'[c] = "fetch"
    <3>1. \A doc \in Copies(s) : Clean(doc, c)
      BY <2>2 DEF CopiesInv, Before
    <3> QED
      BY <1>3, <2>2, <3>1 DEF MergeInv
  <2> QED
    BY <1>2, <2>1, <2>2
<1>5. pc[c] \in Before /\ pc'[c] \notin Ahead /\ docs'[s] = docs[s] /\ ~Reported(c)'
  BY <1>1, <1>2 DEF Before, Ahead
<1> QED
  BY <1>1, <1>3, <1>4, <1>5, QuietKeeps

(* What a merge reads is a copy, and only that one may be read again instead *)
(* of the transcript.                                                        *)
LEMMA ReadIs ==
  ASSUME TypeOK, NEW c \in Calls, NEW s \in Sessions, s = SessionOf[c], OthersStay(c),
         setup' = setup, s \notin setup.live, pc[c] # "save",
         \A d \in Calls \ {c} : SessionOf[d] = s => ~InMerge(d),
         NEW doc, Served(s, doc), docs' = docs, pc'[c] = "save" => existing'[c] = doc
  PROVE  /\ doc \in Copies(s) /\ doc \in Seq(Message)
         /\ Copies(s)' \subseteq {docs[s], doc}
<1>1. doc = docs[s] \/ (doc = behind[s] /\ doc # None)
  BY DEF Served
<1>2. behind'[s] \in {None, doc}
  BY TypesAre DEF Served
<1>3. \A d \in Calls : SessionOf[d] = s /\ pc'[d] = "save" => existing'[d] = doc
  BY DEF OthersStay, InMerge
<1> QED
  BY <1>1, <1>2, <1>3, CopiesTyped DEF Copies

(* A merge that sees its turn at the end reports what is so.                 *)
LEMMA SeenIsKept ==
  ASSUME TypeOK, NEW c \in Calls, NEW s \in Sessions, s = SessionOf[c], CopiesInv(s),
         InMerge(c), Fresh(c) \in Turns(c), Fresh(c) \in Seq(Message), Fresh(c)' = Fresh(c),
         NEW doc \in Copies(s), EndsWith(doc, Fresh(c)), Copies(s)' \subseteq {docs[s], doc}
  PROVE  \A copy \in Copies(s)' : Kept(copy, Fresh(c)')
<1>1. /\ \A copy \in Copies(s) : Clean(copy, c) \/ Ends(copy, Fresh(c))
      /\ Clean(docs[s], c) => \A copy \in Copies(s) : Clean(copy, c)
  BY DEF CopiesInv, MergeInv
<1>2. doc \in Seq(Message) /\ docs[s] \in Seq(Message) /\ docs[s] \in Copies(s)
  BY CopiesTyped DEF Copies
<1>3. Ends(doc, Fresh(c))
  BY DEF Ends
<1>4. ~Clean(doc, c)
  BY <1>2, <1>3, EndsIsNotClean
<1>5. Ends(docs[s], Fresh(c))
  BY <1>1, <1>2, <1>4
<1> QED
  BY <1>2, <1>3, <1>5, EndsKeeps

LEMMA FetchKeepsCopies ==
  ASSUME setup \in Setups, TypeOK, LockInv, \A d \in Calls : InPlace(d),
         NEW c \in Calls, Merge(c), NEW s, s = SessionOf[c], Sound(s)', CopiesInv(s), Fetch(c)
  PROVE  CopiesInv(s)'
<1>1. /\ s \in Sessions /\ OthersStay(c) /\ setup' = setup
      /\ s \notin blind' /\ s \notin setup.live /\ pc[c] \notin Ahead
      /\ Fresh(c)' = Fresh(c) /\ Fresh(c) \in Turns(c) /\ Fresh(c) \in Seq(Message)
      /\ ~verified[c] /\ (~verified'[c] => ~Reported(c)')
      /\ InMerge(c) => \A d \in Calls \ {c} : SessionOf[d] = s => ~InMerge(d)
  BY Merging
<1>2. pc[c] = "fetch" /\ InMerge(c) /\ docs' = docs
  BY DEF Fetch, InMerge
<1>3. ~TakenForNone(s)
  BY <1>1 DEF TakenForNone
<1>4. PICK doc : Served(s, doc) /\ Fetched(c, doc)
  BY <1>3 DEF Fetch
<1>5. CASE EndsWith(doc, Fresh(c))
  <2>1. pc'[c] = "done"
    BY <1>4, <1>5, TypesAre DEF Fetched, LeaveVerified, Leave, Goto
  <2>2. doc \in Copies(s) /\ Copies(s)' \subseteq {docs[s], doc}
    BY <1>1, <1>2, <1>4, <2>1, ReadIs
  <2>3. \A copy \in Copies(s)' : Kept(copy, Fresh(c)')
    BY <1>1, <1>2, <1>5, <2>2, SeenIsKept
  <2>4. /\ Copies(s)' \subseteq Copies(s) /\ docs'[s] = docs[s] /\ MergeInv(c)'
        /\ pc'[c] \notin Before /\ pc'[c] \notin Ahead
    BY <1>2, <2>1, <2>2 DEF Copies, MergeInv, InMerge, Before, Ahead
  <2> QED
    BY <1>1, <2>3, <2>4, QuietKeeps
<1>6. CASE ~EndsWith(doc, Fresh(c))
  <2>1. /\ pc'[c] = "save" /\ existing'[c] = doc /\ verified' = verified
    BY <1>4, <1>6, TypesAre DEF Fetched, Step, Goto
  <2>2. doc \in Copies(s) /\ Copies(s)' \subseteq {docs[s], doc}
    BY <1>1, <1>2, <1>4, <2>1, ReadIs
  <2>3. Clean(doc, c) \/ Stub(doc, Fresh(c))
    BY <1>2, <1>6, <2>2 DEF CopiesInv, MergeInv, Ends
  <2>4. /\ Copies(s)' \subseteq Copies(s) /\ docs'[s] = docs[s]
        /\ pc'[c] \notin Before /\ pc'[c] \notin Ahead /\ ~Reported(c)'
    BY <1>1, <1>2, <2>1, <2>2 DEF Copies, Before, Ahead
  <2>5. MergeInv(c)'
    BY <1>1, <1>2, <2>1, <2>3, <2>4, QuietMerge
  <2> QED
    BY <1>1, <2>4, <2>5, QuietKeeps
<1> QED
  BY <1>5, <1>6

LEMMA CheckKeepsCopies ==
  ASSUME setup \in Setups, TypeOK, LockInv, \A d \in Calls : InPlace(d),
         NEW c \in Calls, Merge(c), NEW s, s = SessionOf[c], Sound(s)', CopiesInv(s), Check(c)
  PROVE  CopiesInv(s)'
<1>1. /\ s \in Sessions /\ OthersStay(c) /\ setup' = setup
      /\ s \notin setup.live /\ pc[c] \notin Ahead
      /\ Fresh(c)' = Fresh(c) /\ Fresh(c) \in Turns(c) /\ Fresh(c) \in Seq(Message)
      /\ ~verified[c] /\ (~verified'[c] => ~Reported(c)')
      /\ InMerge(c) => \A d \in Calls \ {c} : SessionOf[d] = s => ~InMerge(d)
  BY Merging
<1>2. pc[c] = "check" /\ InMerge(c) /\ docs' = docs /\ existing' = existing
  BY DEF Check, InMerge
<1>3. pc'[c] \in {"fetch", "done"} /\ pc'[c] \notin Before /\ pc'[c] \notin Ahead
  <2>1. pc'[c] \in {"fetch", "done"}
    BY TypesAre DEF Check, LeaveVerified, NextAttempt, Step, Leave, Goto
  <2> QED
    BY <2>1 DEF Before, Ahead
<1>4. CASE \E doc : Served(s, doc) /\ EndsWith(doc, Fresh(c)) /\ LeaveVerified(c)
  <2>1. PICK doc : Served(s, doc) /\ EndsWith(doc, Fresh(c)) /\ LeaveVerified(c)
    BY <1>4
  <2>2. pc'[c] = "done"
    BY <2>1, TypesAre DEF LeaveVerified, Leave, Goto
  <2>3. doc \in Copies(s) /\ Copies(s)' \subseteq {docs[s], doc}
    BY <1>1, <1>2, <2>1, <2>2, ReadIs
  <2>4. \A copy \in Copies(s)' : Kept(copy, Fresh(c)')
    BY <1>1, <1>2, <2>1, <2>3, SeenIsKept
  <2>5. Copies(s)' \subseteq Copies(s) /\ docs'[s] = docs[s] /\ MergeInv(c)'
    BY <1>2, <2>2, <2>3 DEF Copies, MergeInv, InMerge
  <2> QED
    BY <1>1, <1>3, <2>4, <2>5, QuietKeeps
<1>5. CASE /\ behind' = behind \/ \E doc : Served(s, doc)
           /\ verified' = verified
  <2>1. behind'[s] = behind[s] \/ behind'[s] = None
    BY <1>1, <1>5, TypesAre DEF Served
  <2>2. Copies(s)' \subseteq Copies(s) /\ docs'[s] = docs[s] /\ pc'[c] # "save"
    BY <1>1, <1>2, <1>3, <2>1 DEF Copies, OthersStay
  <2>3. MergeInv(c)'
    BY <1>1, <1>2, <2>2, QuietMerge
  <2>4. ~Reported(c)'
    BY <1>1, <1>5
  <2> QED
    BY <1>1, <1>3, <2>2, <2>3, <2>4, QuietKeeps
<1> QED
  BY <1>4, <1>5 DEF Check

LEMMA SaveKeepsCopies ==
  ASSUME setup \in Setups, TypeOK, UtterancesDiffer, LockInv, \A d \in Calls : InPlace(d),
         NEW c \in Calls, Merge(c), NEW s, s = SessionOf[c], Sound(s)', CopiesInv(s), Save(c)
  PROVE  CopiesInv(s)'
<1>1. /\ s \in Sessions /\ OthersStay(c) /\ setup' = setup
      /\ s \notin setup.live /\ pc[c] \notin Ahead
      /\ Fresh(c)' = Fresh(c) /\ Fresh(c) \in Turns(c) /\ Fresh(c) \in Seq(Message)
      /\ ~verified[c] /\ (~verified'[c] => ~Reported(c)')
      /\ InMerge(c) => \A d \in Calls \ {c} : SessionOf[d] = s => ~InMerge(d)
  BY Merging
<1>2. /\ pc[c] = "save" /\ InMerge(c) /\ verified' = verified /\ existing[c] \in Seq(Message)
      /\ pc'[c] \in {"fetch", "check", "done"} /\ docs[s] \in Copies(s)
  BY TypesAre DEF Save, NextAttempt, Step, Leave, Goto, InMerge, Copies
<1>3. ~Reported(c)' /\ pc'[c] \notin Before /\ pc'[c] \notin Ahead
  BY <1>1, <1>2 DEF Before, Ahead
<1>4. CASE UNCHANGED <<docs, behind>>
  <2>1. Copies(s)' \subseteq Copies(s) /\ docs'[s] = docs[s]
    BY <1>1, <1>2, <1>4 DEF Copies, OthersStay
  <2>2. MergeInv(c)'
    BY <1>1, <1>2, <2>1, QuietMerge
  <2> QED
    BY <1>1, <1>3, <2>1, <2>2, QuietKeeps
<1>5. CASE Write(s, Merged(c))
  <2>1. PICK new : new = Merged(c)
    OBVIOUS
  <2>2. PICK k \in Nat : Rest(new, existing[c] \o Fresh(c), k)
    BY <1>1, <1>2, <2>1, MergedIs
  <2>3. docs'[s] = new /\ behind'[s] = docs[s]
    BY <1>1, <1>5, <2>1, TypesAre DEF Write
  <2>4. Copies(s)' \subseteq {new, docs[s]}
    BY <1>1, <1>2, <2>3 DEF Copies, OthersStay, InMerge
  <2>5. /\ existing[c] \in Copies(s) /\ new \in Seq(Message) /\ Ends(new, Fresh(c))
        /\ Clean(existing[c], c) \/ Stub(existing[c], Fresh(c))
    BY <1>1, <1>2, <2>2, RestEnds DEF Copies, CopiesInv, MergeInv
  <2>6. Proper(new, s)
    <3>1. CASE Clean(existing[c], c)
      BY <1>1, <1>2, <2>2, <2>5, <3>1, RestIsProper DEF CopiesInv
    <3>2. CASE Stub(existing[c], Fresh(c))
      <4>1. DocMax = 1 /\ Len(Fresh(c)) = 2 /\ Len(new) <= 1
        BY <1>1, <1>2, <2>1, <3>2, MergedIs DEF Stub
      <4>2. ~EndsWith(new, Fresh(c))
        BY <1>1, <2>5, <4>1, EndsWithIs
      <4> QED
        BY <1>1, <2>5, <4>2, StubIsProper DEF Ends
    <3> QED
      BY <2>5, <3>1, <3>2
  <2>7. Proper(new, s)'
    <3>1. \A d \in Calls : pc[d] \notin Ahead => pc'[d] \notin Ahead
      BY <1>1, <1>3 DEF OthersStay
    <3> QED
      BY <2>6, <3>1 DEF Proper
  <2>8. ASSUME NEW d \in Calls \ {c}, SessionOf[d] = s
        PROVE  /\ ~InMerge(d)
               /\ pc[d] \in Before => Clean(new, d)
               /\ Reported(d) => Kept(new, Fresh(d))
    <3>1. ASSUME pc[d] \in Before
          PROVE  Clean(new, d)
      <4>1. Clean(existing[c], d) /\ TextOf[d] # TextOf[c]
        BY <2>5, <2>8, <3>1 DEF CopiesInv, UtterancesDiffer
      <4> QED
        BY <1>1, <1>2, <2>2, <4>1, RestIsClean
    <3>2. ASSUME Reported(d)
          PROVE  Kept(new, Fresh(d))
      <4>1. Kept(existing[c], Fresh(d)) /\ Fresh(d) \in Seq(Message)
        BY <2>5, <2>8, <3>2, FreshTyped DEF CopiesInv
      <4> QED
        BY <1>1, <1>2, <2>2, <4>1, RestKeeps
    <3> QED
      BY <1>1, <1>2, <2>8, <3>1, <3>2
  <2>9. MergeInv(c)'
    <3>1. Clean(docs[s], c) \/ Ends(docs[s], Fresh(c))
      BY <1>2 DEF CopiesInv, MergeInv
    <3>2. ~Clean(new, c)
      BY <1>1, <2>5, EndsIsNotClean
    <3> QED
      BY <1>1, <1>2, <2>3, <2>4, <2>5, <3>1, <3>2 DEF MergeInv
  <2>10. Copies(s)' \subseteq Copies(s) \cup {new}
    BY <1>2, <2>4
  <2> QED
    BY <1>1, <1>3, <2>7, <2>8, <2>9, <2>10, WriteKeeps
<1> QED
  BY <1>4, <1>5 DEF Save

LEMMA MergeKeepsCopies ==
  ASSUME setup \in Setups, TypeOK, UtterancesDiffer, LockInv, \A d \in Calls : InPlace(d),
         NEW c \in Calls, Merge(c), Sound(SessionOf[c])', CopiesInv(SessionOf[c])
  PROVE  CopiesInv(SessionOf[c])'
BY LockingKeepsCopies, FetchKeepsCopies, CheckKeepsCopies, SaveKeepsCopies DEF Merge

----------------------------------------------------------------------------
(* The theorem.                                                              *)

LEMMA InvStarts == Init => SessionInv
<1> SUFFICES ASSUME Init PROVE SessionInv
  OBVIOUS
<1>1. setup \in Setups /\ TypeOK
  BY TypesStart
<1>2. ASSUME NEW c \in Calls
      PROVE  /\ pc[c] \in {"start", "done"} /\ lock[c] = None /\ ~verified[c] /\ ~owned[c]
  BY DEF Init
<1>3. \A c \in Calls : InPlace(c)
  BY <1>2 DEF InPlace, MindKeeps, Locked
<1>4. LockInv
  <2>1. KeysAreUnique
    BY DEF Init, KeysAreUnique
  <2> QED
    BY <1>2, <2>1 DEF LockInv, HasLock, InMerge
<1>5. ASSUME NEW s \in Sessions
      PROVE  CopiesInv(s)
  <2>1. docs[s] = <<>> /\ behind[s] = None
    BY DEF Init
  <2>2. \A doc \in Copies(s) : doc = <<>>
    BY <1>2, <2>1 DEF Copies
  <2>3. \A c \in Calls : ~Reported(c) /\ ~InMerge(c)
    BY <1>2 DEF Reported, MindKeeps, InMerge
  <2> QED
    BY <2>2, <2>3 DEF CopiesInv, Proper, Clean, MergeInv
<1> QED
  BY <1>1, <1>3, <1>4, <1>5 DEF SessionInv

LEMMA InvIsKept ==
  ASSUME UtterancesDiffer, SessionInv, [Next]_vars
  PROVE  SessionInv'
<1>1. /\ setup' = setup /\ setup \in Setups /\ TypeOK /\ TypeOK' /\ LockInv /\ LockInv'
      /\ (\A c \in Calls : InPlace(c)) /\ (\A c \in Calls : InPlace(c)')
  BY TypesKept, LocksKept DEF SessionInv
<1>2. ASSUME NEW s \in Sessions, Sound(s)'
      PROVE  CopiesInv(s)'
  <2>1. CASE UNCHANGED vars
    <3>1. Sound(s) /\ CopiesInv(s)
      BY <1>2, <2>1 DEF SessionInv, Sound, Serialized, vars, ghosts
    <3>2. pc' = pc /\ docs' = docs /\ existing' = existing /\ Copies(s)' = Copies(s)
      BY <2>1 DEF vars, mind, locals, Copies
    <3>3. ASSUME NEW doc \in Copies(s)'
          PROVE  Proper(doc, s)'
      BY <3>1, <3>2, <3>3 DEF CopiesInv, Proper
    <3>4. ASSUME NEW d \in Calls, SessionOf[d] = s
          PROVE  /\ pc'[d] \in Before => \A doc \in Copies(s)' : Clean(doc, d)
                 /\ Reported(d)' => \A doc \in Copies(s)' : Kept(doc, Fresh(d)')
                 /\ MergeInv(d)'
      <4>1. Fresh(d)' = Fresh(d) /\ Reported(d)' = Reported(d) /\ InMerge(d)' = InMerge(d)
        BY <2>1, <3>2 DEF vars, locals, Fresh, Reported, MindKeeps, InMerge
      <4> QED
        BY <3>1, <3>2, <3>4, <4>1 DEF CopiesInv, MergeInv
    <3> QED
      BY <3>3, <3>4 DEF CopiesInv
  <2>2. ASSUME NEW c \in Calls, Chat(c) \/ Merge(c)
        PROVE  CopiesInv(s)'
    <3>1. OthersStay(c)
      BY <1>1, <2>2, FrameOfChat, FrameOfMerge
    <3>2. CopiesInv(s)
      BY <1>2, <3>1, SoundBefore DEF SessionInv
    <3>3. CASE s # SessionOf[c]
      BY <3>1, <3>2, <3>3, OtherKeysStay
    <3>4. CASE s = SessionOf[c]
      BY <1>1, <1>2, <2>2, <3>2, <3>4, ChatKeepsCopies, MergeKeepsCopies
    <3> QED
      BY <3>3, <3>4
  <2> QED
    BY <2>1, <2>2 DEF Next
<1> QED
  BY <1>1, <1>2 DEF SessionInv

LEMMA InvSuffices ==
  ASSUME UtterancesDiffer, SessionInv
  PROVE  TurnsKeptOnce
<1>1. ReportedTurnsKept
  <2> SUFFICES ASSUME NEW c \in Calls, Reported(c), Sound(SessionOf[c])
               PROVE  Kept(docs[SessionOf[c]], Fresh(c))
    BY DEF ReportedTurnsKept, Kept, Sound
  <2> QED
    BY Constants DEF SessionInv, CopiesInv, Copies
<1>2. NoTurnDoubled
  <2> SUFFICES ASSUME NEW s \in Sessions, NEW text \in {TextOf[c] : c \in Calls}, Sound(s)
               PROVE  Cardinality({i \in DOMAIN docs[s] :
                                     docs[s][i] = [role |-> "user", text |-> text]})
                      <= Cardinality({c \in Calls :
                            /\ SessionOf[c] = s /\ TextOf[c] = text
                            /\ pc[c] \notin {"start", "create", "own"}})
    BY DEF NoTurnDoubled, Sound
  <2> DEFINE told == {i \in DOMAIN docs[s] : docs[s][i] = [role |-> "user", text |-> text]}
             said == {c \in Calls : /\ SessionOf[c] = s /\ TextOf[c] = text
                                    /\ pc[c] \notin {"start", "create", "own"}}
  <2>1. Proper(docs[s], s)
    BY DEF SessionInv, CopiesInv, Copies
  <2>2. \A i, j \in told : i = j
    BY <2>1 DEF Proper
  <2>3. \A c, d \in said : c = d
    BY DEF UtterancesDiffer
  <2>4. told # {} => said # {}
    BY <2>1 DEF Proper, Ahead
  <2> HIDE DEF told, said
  <2>5. told = {} \/ \E i : told = {i}
    BY <2>2
  <2>6. said = {} \/ \E c : said = {c}
    BY <2>3
  <2>7. /\ Cardinality(told) \in {0, 1} /\ (told = {} => Cardinality(told) = 0)
        /\ Cardinality(said) \in {0, 1} /\ (said # {} => Cardinality(said) = 1)
    BY <2>5, <2>6, FS_EmptySet, FS_Singleton
  <2>8. Cardinality(told) <= Cardinality(said)
    BY <2>4, <2>7
  <2> QED
    BY <2>8 DEF told, said
<1> QED
  BY <1>1, <1>2 DEF TurnsKeptOnce

(* What a chat reports of its turn stays true (memory.py 238-325 under the   *)
(* locks of session.py): if no two calls of a key say the same, then         *)
(* whatever merges of it follow, with retries, lost responses and stale      *)
(* reads, the turn stays in the transcript until newer turns fill it, and no *)
(* user message is in it that was not said or is in it twice. For any number *)
(* of calls, processes and attempts, and any limit of the document, a limit  *)
(* below the length of one turn included.                                    *)
THEOREM TurnsAreKeptOnce ==
  ASSUME UtterancesDiffer
  PROVE  Spec => []TurnsKeptOnce
<1>1. Init => SessionInv
  BY InvStarts
<1>2. SessionInv /\ [Next]_vars => SessionInv'
  BY InvIsKept
<1>3. SessionInv => TurnsKeptOnce
  BY InvSuffices
<1> QED
  BY <1>1, <1>2, <1>3, PTL DEF Spec
=============================================================================
