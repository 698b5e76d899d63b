--------------------------- MODULE SessionMemory ---------------------------
(***************************************************************************)
(* One chat turn per call of worker/engine/chat.py and how it reaches the  *)
(* transcript that the workers of a team share: who owns the transcript    *)
(* (Mind or the client), the two locks around the client's merge           *)
(* (session.py), and the merge itself, fetch - append - save - read back   *)
(* with retries (memory.py). Calls are threads of one or more processes,   *)
(* and Mind is a remote store of documents that may refuse a request, lose *)
(* a response, or serve the previous document for a while after a write.   *)
(*                                                                         *)
(* A message keeps its role and what was said. Prompts, recall, triage's   *)
(* verdict and the facts stored next to the transcript are left out.       *)
(***************************************************************************)
EXTENDS Naturals, SequencesExt, FiniteSets

CONSTANTS
  Calls,           \* the calls of chat, each one turn
  Sessions,        \* session keys
  Processes,
  None,            \* absence: no older document, no lock yet
  SessionOf, TextOf,   \* of each call: its key and its utterance
  Setups,          \* the deployments considered, see SetupType
  LocksMax,        \* WORKER_SESSION_LOCKS_MAX
  Attempts,        \* WORKER_SESSION_SAVE_RETRIES + 1
  DocMax           \* WORKER_SESSION_DOC_MAX_TURNS, 0 for no limit

(* Which calls are made and by which process, the keys that name a live      *)
(* session of Mind itself, WORKER_SESSION_PROMOTE, whether flock works       *)
(* (WORKER_SESSION_LOCK_DIR is not "off"), and the bound on the reads of     *)
(* Mind that raise and on its writes that do, landed or not.                 *)
SetupType ==
  [callers: SUBSET Calls, process: [Calls -> Processes], live: SUBSET Sessions,
   promote: BOOLEAN, flock: BOOLEAN, max_faults: Nat]

ASSUME SessionMemoryAssumption ==
  /\ SessionOf \in [Calls -> Sessions]
  /\ Setups \subseteq SetupType
  /\ {LocksMax, Attempts} \subseteq Nat \ {0}
  /\ DocMax \in Nat
  /\ None \notin Calls \cup Sessions
  /\ Calls \cap Sessions = {}

VARIABLES
  setup,       \* never changes
  \* Mind:
  docs,        \* the transcript of each session key
  behind,      \* the transcript reads may still be served instead, or None
  promoted,    \* the sessions created for a key, in order: <<key, creator>>
  \* each process:
  registry,    \* _SESSION_LOCKS, in insertion order: <<key, lock>>
  \* each call:
  pc,
  mind_key,    \* the session of Mind this call maps its key to
  owned,       \* what _mind_owns_session told it
  answered,    \* the answer is not empty
  lock,        \* the lock object it looked up (named after who created it)
  attempt, existing, verified,
  \* what the properties remember:
  blind,       \* the keys for which a failed read was taken for an answer
  evicted,     \* the keys whose lock made room for another's
  read_faults, write_faults

mind == <<docs, behind, promoted>>
locals == <<mind_key, owned, answered, lock, attempt, existing, verified>>
ghosts == <<blind, evicted, read_faults, write_faults>>
vars == <<setup, mind, registry, pc, locals, ghosts>>

Message == [role: {"user", "assistant"}, text: {TextOf[c] : c \in Calls}]

(* The messages of a call's turn: the answer may be empty.                   *)
Fresh(c) ==
  <<[role |-> "user", text |-> TextOf[c]]>>
  \o IF answered[c] THEN <<[role |-> "assistant", text |-> TextOf[c]]>> ELSE <<>>

Goto(c, place) == pc' = [pc EXCEPT ![c] = place]

ReadRaises ==
  /\ read_faults < setup.max_faults
  /\ read_faults' = read_faults + 1
  /\ UNCHANGED <<write_faults, evicted>>

WriteRaises ==
  /\ write_faults < setup.max_faults
  /\ write_faults' = write_faults + 1
  /\ UNCHANGED <<read_faults, evicted, blind>>

(* A caller of key s goes on as if a read that raised had answered "none".   *)
TakenForNone(s) == ReadRaises /\ blind' = blind \cup {s}

(* A read of Mind returns the transcript, or for a while after a write the   *)
(* one before it; once the newer one was served, the older never is again.   *)
Served(s, doc) ==
  \/ doc = docs[s] /\ behind' = [behind EXCEPT ![s] = None]
  \/ doc = behind[s] /\ doc # None /\ UNCHANGED behind

Write(s, doc) ==
  /\ docs' = [docs EXCEPT ![s] = doc]
  /\ behind' = [behind EXCEPT ![s] = docs[s]]

----------------------------------------------------------------------------
Init ==
  /\ setup \in Setups
  /\ docs = [s \in Sessions |-> <<>>]
  /\ behind = [s \in Sessions |-> None]
  /\ promoted = <<>>
  /\ registry = [p \in Processes |-> <<>>]
  /\ pc = [c \in Calls |-> IF c \in setup.callers THEN "start" ELSE "done"]
  /\ mind_key = [c \in Calls |-> None]
  /\ owned = [c \in Calls |-> FALSE]
  /\ answered = [c \in Calls |-> FALSE]
  /\ lock = [c \in Calls |-> None]
  /\ attempt = [c \in Calls |-> 1]
  /\ existing = [c \in Calls |-> <<>>]
  /\ verified = [c \in Calls |-> FALSE]
  /\ blind = {}
  /\ evicted = {}
  /\ read_faults = 0
  /\ write_faults = 0

(* Triage asks to clarify or escalates, or Mind is down: nothing is said and *)
(* nothing is kept.                                                          *)
TurnedAway(c) ==
  /\ pc[c] = "start"
  /\ Goto(c, "done")
  /\ UNCHANGED <<setup, mind, registry, locals, ghosts>>

(* ensure_mind_session: the key itself, else the first session listed for    *)
(* it. A failing list is an empty one, a failing look at the key a "no".     *)
FindSession(c) ==
  /\ pc[c] = "start"
  /\ LET s == SessionOf[c]
         hits == {i \in DOMAIN promoted : promoted[i][1] = s}
         Use(key) == mind_key' = [mind_key EXCEPT ![c] = key] /\ Goto(c, "own")
         Create == UNCHANGED mind_key /\ Goto(c, "create")
         Listed == \/ hits = {} /\ Create
                   \/ \E i \in hits : (\A j \in hits : i <= j) /\ Use(promoted[i][2])
     IN \/ ~setup.promote /\ Use(s) /\ UNCHANGED ghosts
        \/ setup.promote /\ s \in setup.live /\ Use(s) /\ UNCHANGED ghosts
        \/ setup.promote /\ s \notin setup.live /\ Listed /\ UNCHANGED ghosts
        \/ setup.promote /\ TakenForNone(s) /\ (Listed \/ Create)
  /\ UNCHANGED <<setup, mind, registry, owned, answered, lock, attempt, existing,
                 verified>>

(* Its last step; without a session the harness key is used as it is.        *)
CreateSession(c) ==
  /\ pc[c] = "create"
  /\ \/ /\ promoted' = Append(promoted, <<SessionOf[c], c>>)
        /\ mind_key' = [mind_key EXCEPT ![c] = c]
        /\ UNCHANGED ghosts
     \/ /\ WriteRaises
        /\ promoted' \in {promoted, Append(promoted, <<SessionOf[c], c>>)}
        /\ mind_key' = [mind_key EXCEPT ![c] = SessionOf[c]]
  /\ Goto(c, "own")
  /\ UNCHANGED <<setup, docs, behind, registry, owned, answered, lock, attempt,
                 existing, verified>>

(* _mind_owns_session of the key that will be sent.                          *)
CheckOwner(c) ==
  /\ pc[c] = "own"
  /\ \/ /\ owned' = [owned EXCEPT ![c] = mind_key[c] \in setup.live \cup Calls]
        /\ UNCHANGED ghosts
     \/ /\ TakenForNone(SessionOf[c])
        /\ owned' = [owned EXCEPT ![c] = FALSE]
  /\ Goto(c, "chat")
  /\ UNCHANGED <<setup, mind, registry, mind_key, answered, lock, attempt, existing,
                 verified>>

(* Mind keeps the turn itself when the call sends it the shared key.         *)
MindKeeps(c) == owned[c] /\ mind_key[c] = SessionOf[c]

(* brain.chat: the answer may be empty, or its response lost.                *)
BrainChat(c) ==
  /\ pc[c] = "chat"
  /\ \E reply \in BOOLEAN :
       /\ answered' = [answered EXCEPT ![c] = reply]
       /\ IF MindKeeps(c)
          THEN Write(SessionOf[c], docs[SessionOf[c]] \o Fresh(c)')
          ELSE UNCHANGED <<docs, behind>>
  /\ Goto(c, IF MindKeeps(c) THEN "done" ELSE "lookup")
  /\ UNCHANGED <<setup, promoted, registry, mind_key, owned, lock, attempt, existing,
                 verified, ghosts>>

BrainChatRaises(c) ==
  /\ pc[c] = "chat"
  /\ WriteRaises
  /\ \/ UNCHANGED <<docs, behind>>
     \/ /\ MindKeeps(c)
        /\ Write(SessionOf[c], docs[SessionOf[c]] \o Fresh(c))
  /\ Goto(c, "failed")
  /\ UNCHANGED <<setup, promoted, registry, locals>>

----------------------------------------------------------------------------
(* The locks.                                                                *)

(* Defect: the registry is trimmed only once it is over its limit.           *)
WithRoomLate(entries) ==
  IF Len(entries) > LocksMax THEN Tail(entries) ELSE entries

WithRoom(entries) ==
  IF Len(entries) >= LocksMax THEN Tail(entries) ELSE entries

(* _session_lock: the registered lock of the key, else a new one, for which  *)
(* the oldest entry makes room when the registry is full.                    *)
LookUpLock(c) ==
  /\ pc[c] = "lookup"
  /\ LET p == setup.process[c]
         hits == {e \in ToSet(registry[p]) : e[1] = SessionOf[c]}
         room == WithRoom(registry[p])
     IN \/ /\ \E e \in hits : lock' = [lock EXCEPT ![c] = e[2]]
           /\ UNCHANGED <<registry, evicted>>
        \/ /\ hits = {}
           /\ lock' = [lock EXCEPT ![c] = c]
           /\ registry' = [registry EXCEPT ![p] = Append(room, <<SessionOf[c], c>>)]
           /\ evicted' = evicted \cup
                IF room = registry[p] THEN {} ELSE {registry[p][1][1]}
  /\ Goto(c, "wait")
  /\ UNCHANGED <<setup, mind, mind_key, owned, answered, attempt, existing,
                 verified, blind, read_faults, write_faults>>

(* Past the acquire of the lock it looked up, until it leaves the merge.     *)
InMerge(c) == pc[c] \in {"fetch", "save", "check"}
HasLock(c) == lock[c] # None /\ pc[c] # "wait"

AcquireLock(c) ==
  /\ pc[c] = "wait"
  /\ \A d \in Calls : lock[d] = lock[c] => ~HasLock(d)
  /\ Goto(c, "flock")
  /\ UNCHANGED <<setup, mind, registry, locals, ghosts>>

(* Defect: the file lock is tried, not waited for.                           *)
AcquireFileLockAnyway(c) ==
  /\ pc[c] = "flock"
  /\ Goto(c, "fetch")
  /\ UNCHANGED <<setup, mind, registry, locals, ghosts>>

(* _session_file_lock: one holder per key on the machine, or none needed.    *)
AcquireFileLock(c) ==
  /\ pc[c] = "flock"
  /\ setup.flock => \A d \in Calls : SessionOf[d] = SessionOf[c] => ~InMerge(d)
  /\ Goto(c, "fetch")
  /\ UNCHANGED <<setup, mind, registry, locals, ghosts>>

----------------------------------------------------------------------------
(* _merge_session_chat, under the locks.                                     *)

Step(c, place, n) ==
  /\ Goto(c, place)
  /\ attempt' = [attempt EXCEPT ![c] = n]
  /\ UNCHANGED lock

(* The end of the with statement: both locks are released.                   *)
Leave(c) ==
  /\ Goto(c, "done")
  /\ attempt' = [attempt EXCEPT ![c] = 1]
  /\ lock' = [lock EXCEPT ![c] = None]

LeaveVerified(c) == Leave(c) /\ verified' = [verified EXCEPT ![c] = TRUE]

(* Defect: attempts are not counted.                                         *)
NextAttemptUncounted(c) == Step(c, "fetch", attempt[c])

NextAttempt(c) ==
  IF attempt[c] < Attempts THEN Step(c, "fetch", attempt[c] + 1) ELSE Leave(c)

EndsWith(doc, turn) == IsSuffix(turn, doc)

(* The turn is already the trailing one, or its document is kept for saving. *)
Fetched(c, doc) ==
  IF EndsWith(doc, Fresh(c))
  THEN LeaveVerified(c) /\ UNCHANGED existing
  ELSE /\ existing' = [existing EXCEPT ![c] = doc]
       /\ Step(c, "save", attempt[c])
       /\ UNCHANGED verified

Fetch(c) ==
  /\ pc[c] = "fetch"
  /\ \/ /\ \E doc \in {docs[SessionOf[c]], behind[SessionOf[c]]} :
             Served(SessionOf[c], doc) /\ Fetched(c, doc)
        /\ UNCHANGED ghosts
     \/ TakenForNone(SessionOf[c]) /\ Fetched(c, <<>>) /\ UNCHANGED behind
  /\ UNCHANGED <<setup, docs, promoted, registry, mind_key, owned, answered>>

(* What the call saves: the oldest messages go when there are too many.      *)
Merged(c) ==
  LET all == existing[c] \o Fresh(c)
  IN IF DocMax > 0 /\ Len(all) > DocMax
     THEN SubSeq(all, Len(all) - DocMax + 1, Len(all))
     ELSE all

Save(c) ==
  /\ pc[c] = "save"
  /\ \/ /\ Write(SessionOf[c], Merged(c))
        /\ IF attempt[c] < Attempts THEN Step(c, "check", attempt[c]) ELSE Leave(c)
        /\ UNCHANGED ghosts
     \/ /\ WriteRaises
        /\ Write(SessionOf[c], Merged(c)) \/ UNCHANGED <<docs, behind>>
        /\ NextAttempt(c)
  /\ existing' = [existing EXCEPT ![c] = <<>>]
  /\ UNCHANGED <<setup, promoted, registry, mind_key, owned, answered, verified>>

(* The read-back: visible, not yet visible, or unreadable.                   *)
Check(c) ==
  /\ pc[c] = "check"
  /\ \/ /\ \E doc \in {docs[SessionOf[c]], behind[SessionOf[c]]} :
             /\ Served(SessionOf[c], doc)
             /\ IF EndsWith(doc, Fresh(c)) THEN LeaveVerified(c)
                ELSE NextAttempt(c) /\ UNCHANGED verified
        /\ UNCHANGED ghosts
     \/ ReadRaises /\ Leave(c) /\ UNCHANGED <<behind, verified, blind>>
  /\ UNCHANGED <<setup, docs, promoted, registry, mind_key, owned, answered,
                 existing>>

Chat(c) ==
  \/ TurnedAway(c) \/ FindSession(c) \/ CreateSession(c) \/ CheckOwner(c)
  \/ BrainChat(c) \/ BrainChatRaises(c)

Merge(c) ==
  \/ LookUpLock(c) \/ AcquireLock(c) \/ AcquireFileLock(c)
  \/ Fetch(c) \/ Save(c) \/ Check(c)

Next == \E c \in Calls : Chat(c) \/ Merge(c)

(* Every call is a thread that runs until it returns. Each lock is asked for *)
(* once per call, so weak fairness is enough to be given it.                 *)
Spec == Init /\ [][Next]_vars /\ \A c \in Calls : WF_vars(Chat(c) \/ Merge(c))

----------------------------------------------------------------------------
Places == {"start", "create", "own", "chat", "lookup", "wait", "flock",
           "fetch", "save", "check", "done", "failed"}

TypeOK ==
  /\ docs \in [Sessions -> Seq(Message)]
  /\ behind \in [Sessions -> Seq(Message) \cup {None}]
  /\ promoted \in Seq(Sessions \X Calls)
  /\ registry \in [Processes -> Seq(Sessions \X Calls)]
  /\ \A p \in Processes : Len(registry[p]) <= LocksMax
  /\ pc \in [Calls -> Places]
  /\ mind_key \in [Calls -> Sessions \cup Calls \cup {None}]
  /\ {owned, answered, verified} \subseteq [Calls -> BOOLEAN]
  /\ lock \in [Calls -> Calls \cup {None}]
  /\ attempt \in [Calls -> 1..Attempts]
  /\ existing \in [Calls -> Seq(Message)]
  /\ {blind, evicted} \subseteq SUBSET Sessions
  /\ {read_faults, write_faults} \subseteq Nat

(* The locks are what the module says they are: one process for the key and  *)
(* its lock never dropped, or working file locks.                            *)
Serialized(s) ==
  \/ setup.flock
  \/ /\ s \notin evicted
     /\ \A c, d \in Calls : SessionOf[c] = s /\ SessionOf[d] = s
                              => setup.process[c] = setup.process[d]

(* The call's caller was told that its turn is in the transcript.            *)
Reported(c) == verified[c] \/ (pc[c] = "done" /\ MindKeeps(c))

Holds(doc, turn) ==
  \E i \in 0..(Len(doc) - Len(turn)) : SubSeq(doc, i + 1, i + Len(turn)) = turn

(* No lost update: a turn that was read back after its save (or left to      *)
(* Mind) stays in the transcript through all later merges, retries, lost     *)
(* responses and stale reads, until newer turns fill the document.           *)
ReportedTurnsKept ==
  \A c \in Calls :
    LET s == SessionOf[c]
    IN Reported(c) /\ Serialized(s) /\ s \notin blind
         => \/ Holds(docs[s], Fresh(c))
            \/ DocMax > 0 /\ Len(docs[s]) >= DocMax

(* A retried save never doubles a turn: an utterance is in the transcript at *)
(* most as often as it was said.                                             *)
NoTurnDoubled ==
  \A s \in Sessions : \A text \in {TextOf[c] : c \in Calls} :
    Serialized(s) /\ s \notin blind
      => Cardinality({i \in DOMAIN docs[s] :
                        docs[s][i] = [role |-> "user", text |-> text]})
         <= Cardinality({c \in Calls : /\ SessionOf[c] = s /\ TextOf[c] = text
                                       /\ pc[c] \notin {"start", "create", "own"}})

(* What a chat reports of its turn stays true: the turn is in the transcript, *)
(* and it is there once.                                                      *)
TurnsKeptOnce == ReportedTurnsKept /\ NoTurnDoubled

(* Every chat returns: the locks it takes one inside the other are released  *)
(* by every path through the merge, and the retries are bounded.             *)
EveryChatReturns == \A c \in Calls : <>(pc[c] \in {"done", "failed"})

(* memory.py: the merge appends a turn to the shared document; no turn that  *)
(* was reported disappears while the document has room.                      *)
AppendsOnly ==
  \A c \in Calls :
    LET s == SessionOf[c]
    IN Reported(c) /\ Serialized(s) /\ s \notin setup.live
         => \/ Holds(docs[s], Fresh(c))
            \/ DocMax > 0 /\ Len(docs[s]) >= DocMax
============================================================================
