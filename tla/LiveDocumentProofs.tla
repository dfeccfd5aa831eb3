-------------------------- MODULE LiveDocumentProofs --------------------------
(***************************************************************************)
(* Presence, references and edits of a document that is edited together,   *)
(* for any number of sockets, users and calls in progress.                 *)
(*                                                                         *)
(* Each property has an invariant of its own, under the mishaps that it    *)
(* survives: GhostInv says that who waits for an answer is online, TurnInv *)
(* that, for clients that wait, a call that leaves has a session to end,   *)
(* ReferenceInv that one load at a time brings the document into memory,   *)
(* and EditInv where the edits are at each moment on their way from a      *)
(* client to the database.                                                 *)
(***************************************************************************)
EXTENDS LiveDocumentProps, FiniteSetTheorems, TLAPS

Stages == {"idle", "check", "rejoin", "read", "loaded", "validate", "leave"}
Entry == [edits : SUBSET Edits, refs : Nat, timer : BOOLEAN, exists : BOOLEAN]
Doc == [edits : SUBSET Edits, bound : BOOLEAN, timer : BOOLEAN, exists : BOOLEAN]

\* Every variable keeps its type, whatever goes wrong.
LiveTypeInv ==
    /\ online \subseteq Sockets
    /\ stage \in [Calls -> Stages]
    /\ message \in [Calls -> Edits \cup {"none"}]
    /\ loaded \in [Calls -> SUBSET Edits]
    /\ joined \subseteq Sockets
    /\ dropping \subseteq Sockets
    /\ count \in [Users -> Nat]
    /\ entry \in Entry
    /\ ydoc \in Doc
    /\ inside \subseteq Providers
    /\ writing \subseteq SUBSET Edits
    /\ stored \subseteq Edits
    /\ received \subseteq Edits

\* The handler of an edit has it until it is applied, any other has none.
Sending ==
    \A c \in Calls : /\ stage[c] = "validate" => message[c] \in Edits
                     /\ stage[c] \notin {"validate", "read", "loaded"} => message[c] = "none"

TypedInv == LiveTypeInv /\ Sending

LEMMA NoEntryTypes == NoEntry \in Entry /\ NoDoc \in Doc
BY DEF NoEntry, NoDoc, Entry, Doc

LEMMA EntryTypes ==
    ASSUME NEW e \in Entry
    PROVE  /\ e.edits \subseteq Edits /\ e.refs \in Nat
           /\ e.timer \in BOOLEAN /\ e.exists \in BOOLEAN
           /\ [e EXCEPT !.refs = @ + 1] \in Entry
           /\ Released(e) \in Entry
           /\ [e EXCEPT !.timer = FALSE] \in Entry
           /\ \A x \in Edits : Applied(e, x) \in Entry
<1>1. e.edits \subseteq Edits /\ e.refs \in Nat /\ e.timer \in BOOLEAN /\ e.exists \in BOOLEAN
  BY DEF Entry
<1>2. \A n \in Nat : [e EXCEPT !.refs = n] \in Entry
  BY DEF Entry
<1>3. e.refs + 1 \in Nat /\ (e.refs # 0 => e.refs - 1 \in Nat)
  BY <1>1
<1>4. [e EXCEPT !.refs = @ + 1] \in Entry
  BY <1>2, <1>3
<1>5. Released(e) \in Entry
  BY <1>1, <1>2, <1>3 DEF Released
<1>6. [e EXCEPT !.timer = FALSE] \in Entry
  BY DEF Entry
<1>7. ASSUME NEW x \in Edits PROVE Applied(e, x) \in Entry
  <2>1. e.edits \cup {x} \in SUBSET Edits
    BY <1>1
  <2>2. \A new \in SUBSET Edits : [e EXCEPT !.edits = new, !.timer = TRUE] \in Entry
    BY DEF Entry
  <2> QED BY <2>1, <2>2 DEF Applied
<1> QED BY <1>1, <1>4, <1>5, <1>6, <1>7

LEMMA CountTypes ==
    ASSUME count \in [Users -> Nat], NEW u \in Users
    PROVE  /\ Minus(u) \in [Users -> Nat]
           /\ Plus(u) \in [Users -> Nat]
           /\ [Minus(u) EXCEPT ![u] = @ + 1] \in [Users -> Nat]
BY DEF Minus, Plus

\* What acquire does to the entry and to the handler.
LEMMA AcquireTypes ==
    ASSUME LiveTypeInv, NEW c \in Calls, Acquire(c)
    PROVE  /\ entry' \in Entry /\ stage' \in [Calls -> Stages]
           /\ stage'[c] \in {"idle", "read"} /\ \A d \in Calls \ {c} : stage'[d] = stage[d]
           /\ ~entry.exists => stage'[c] = "read" /\ entry' = entry
BY EntryTypes DEF LiveTypeInv, Acquire, Stages

LEMMA MessageTypes ==
    ASSUME TypedInv, NEW c \in Calls, Message(c)
    PROVE  TypedInv'
<1> USE DEF TypedInv, LiveTypeInv, Sending, stateVars
<1>1. CASE Join(c)
  BY <1>1 DEF Join, Stages
<1>2. CASE SendEdit(c)
  BY <1>2 DEF SendEdit, Stages
<1>3. CASE Leave(c)
  BY <1>3 DEF Leave, Stages
<1> QED BY <1>1, <1>2, <1>3 DEF Message

LEMMA ConnectionTypes ==
    ASSUME TypedInv, NEW s \in Sockets, Connection(s)
    PROVE  TypedInv'
<1> USE DEF TypedInv, LiveTypeInv, Sending, stateVars
<1>0. userOf[s] \in Users
  BY UsersAssumption
<1>1. CASE Connect(s)
  BY <1>1 DEF Connect
<1>2. CASE Disconnect(s)
  BY <1>2 DEF Disconnect
<1>3. CASE Dropped(s)
  BY <1>3, <1>0, CountTypes, EntryTypes DEF Dropped
<1> QED BY <1>1, <1>2, <1>3 DEF Connection

LEMMA HandlerTypes ==
    ASSUME TypedInv, NEW c \in Calls, Handler(c)
    PROVE  TypedInv'
<1> USE DEF TypedInv, LiveTypeInv, Sending
<1>0. socketOf[c] \in Sockets /\ userOf[socketOf[c]] \in Users
  BY UsersAssumption, CallsAssumption
<1>1. CASE RefuseJoin(c)
  BY <1>1 DEF RefuseJoin, Stages, stateVars
<1>2. CASE LeaveToJoin(c)
  BY <1>2 DEF LeaveToJoin, Stages, stateVars
<1>3. CASE Rejoin(c)
  <2>1. /\ entry' \in Entry /\ stage' \in [Calls -> Stages]
        /\ stage'[c] # "validate" /\ \A d \in Calls \ {c} : stage'[d] = stage[d]
    <3>1. CASE entry.exists
      BY <3>1, <1>3, EntryTypes DEF Rejoin, Stages
    <3>2. CASE ~entry.exists
      BY <3>2, <1>3, AcquireTypes DEF Rejoin
    <3> QED BY <3>1, <3>2
  <2>2. count' \in [Users -> Nat]
    BY <1>3, <1>0, CountTypes DEF Rejoin
  <2>3. message[c] = "none"
    BY <1>3 DEF Rejoin
  <2> QED BY <1>0, <1>3, <2>1, <2>2, <2>3 DEF Rejoin
<1>4. CASE Enter(c)
  <2>1. /\ entry' \in Entry /\ stage' \in [Calls -> Stages]
        /\ stage'[c] # "validate" /\ \A d \in Calls \ {c} : stage'[d] = stage[d]
    BY <1>4, AcquireTypes DEF Enter
  <2>2. count' \in [Users -> Nat]
    BY <1>4, <1>0, CountTypes DEF Enter
  <2>3. message[c] = "none"
    BY <1>4 DEF Enter
  <2> QED BY <1>0, <1>4, <2>1, <2>2, <2>3 DEF Enter
<1>5. CASE ReadState(c)
  BY <1>5 DEF ReadState, Stages, stateVars
<1>6. CASE SetEntry(c)
  <2> DEFINE new == [edits |-> loaded[c], refs |-> 1, timer |-> FALSE, exists |-> TRUE]
  <2>1. new \in Entry
    BY DEF Entry
  <2>2. entry' = IF message[c] = "none" THEN new ELSE Released(Applied(new, message[c]))
    BY <1>6 DEF SetEntry
  <2> HIDE DEF new
  <2>3. entry' \in Entry
    BY <2>1, <2>2, EntryTypes
  <2> QED BY <1>6, <2>3 DEF SetEntry, Stages
<1>7. CASE ApplyEdit(c)
  <2>1. CASE entry.exists
    <3>1. entry' \in Entry /\ message[c] \in Edits
      BY <2>1, <1>7, EntryTypes DEF ApplyEdit
    <3> QED BY <2>1, <1>7, <3>1 DEF ApplyEdit, Stages
  <2>2. CASE ~entry.exists
    BY <2>2, <1>7, AcquireTypes DEF ApplyEdit
  <2> QED BY <2>1, <2>2
<1>8. CASE Left(c)
  BY <1>8, <1>0, CountTypes, EntryTypes DEF Left, Stages
<1>9. CASE FailLoad(c)
  BY <1>9 DEF FailLoad, Loading, Stages, stateVars
<1> QED BY <1>1, <1>2, <1>3, <1>4, <1>5, <1>6, <1>7, <1>8, <1>9 DEF Handler

LEMMA ServerTypes ==
    ASSUME TypedInv,
           (\E p \in Providers : Provider(p)) \/ BindState \/ Writes \/ Evict
    PROVE  TypedInv'
<1> USE DEF TypedInv, LiveTypeInv, Sending, sessionVars
<1>1. ASSUME NEW p \in Providers, Provider(p) PROVE TypedInv'
  <2>1. CASE Open(p)
    BY <1>1, <2>1 DEF Open, Doc
  <2>2. CASE ProviderEdit(p)
    <3>1. PICK e \in Edits : ydoc' = [ydoc EXCEPT !.edits = @ \cup {e}, !.timer = ydoc.bound]
      BY <2>2 DEF ProviderEdit
    <3>2. ydoc.edits \cup {e} \in SUBSET Edits /\ ydoc.bound \in BOOLEAN
      BY DEF Doc
    <3>3. \A new \in SUBSET Edits, b \in BOOLEAN : [ydoc EXCEPT !.edits = new, !.timer = b] \in Doc
      BY DEF Doc
    <3>4. ydoc' \in Doc
      BY <3>1, <3>2, <3>3
    <3>5. received' \subseteq Edits
      BY <2>2 DEF ProviderEdit
    <3> QED BY <2>2, <3>4, <3>5 DEF ProviderEdit
  <2>3. CASE Close(p)
    BY <1>1, <2>3, NoEntryTypes DEF Close, Doc
  <2> QED BY <1>1, <2>1, <2>2, <2>3 DEF Provider
<1>2. CASE BindState
  BY <1>2 DEF BindState, Doc
<1>3. CASE Persist
  <2>1. entry' \in Entry /\ entry.edits \subseteq Edits
    BY <1>3, EntryTypes DEF Persist
  <2>2. writing' \subseteq SUBSET Edits
    BY <1>3, <2>1 DEF Persist
  <2> QED BY <1>3, <2>1, <2>2 DEF Persist
<1>4. CASE ProviderPersist
  BY <1>4 DEF ProviderPersist, Doc
<1>5. CASE \E state \in writing : Land(state)
  BY <1>5 DEF Land
<1>6. CASE Evict
  <2>1. entry' \in Entry /\ entry.edits \subseteq Edits
    BY <1>6, EntryTypes, NoEntryTypes DEF Evict
  <2>2. writing' \subseteq SUBSET Edits
    BY <1>6, <2>1 DEF Evict
  <2> QED BY <1>6, <2>1, <2>2 DEF Evict
<1> QED BY <1>1, <1>2, <1>3, <1>4, <1>5, <1>6 DEF Writes

LEMMA TypedStep == TypedInv /\ [LiveNext]_liveVars => TypedInv'
<1> SUFFICES ASSUME TypedInv, [LiveNext]_liveVars PROVE TypedInv'
  OBVIOUS
<1>1. CASE UNCHANGED liveVars
  BY <1>1 DEF liveVars, sessionVars, stateVars, TypedInv, LiveTypeInv, Sending
<1> QED BY <1>1, MessageTypes, ConnectionTypes, HandlerTypes, ServerTypes DEF LiveNext

THEOREM LiveDocumentKeepsTypes ==
    ASSUME NEW before \in SUBSET Edits
    PROVE  LiveSpec(before) => []TypedInv
<1>1. LiveInit(before) => TypedInv
  BY NoEntryTypes DEF LiveInit, TypedInv, LiveTypeInv, Sending, Stages
<1> QED BY <1>1, TypedStep, PTL DEF LiveSpec

-----------------------------------------------------------------------------
(* Presence. *)

\* Who waits for the answer to a join or a leave is online, and a disconnection is handled of
\* a session that nothing else can end.
Sessions ==
    /\ \A c \in Calls : Unanswered(c) => socketOf[c] \in online
    /\ dropping \subseteq joined \ online

\* For clients that wait for the answer: a call that leaves has something to leave, which no
\* other call takes away.
Turns ==
    /\ \A c, d \in Calls :
           Unanswered(c) /\ Unanswered(d) /\ socketOf[c] = socketOf[d] => c = d
    /\ \A c \in Calls : stage[c] \in {"rejoin", "leave"} => socketOf[c] \in joined

GhostInv == Without({"drop"}) => Sessions /\ NoGhosts
TurnInv == Without({"drop", "burst"}) => Turns /\ ExactPresence

LEMMA ActiveIsFinite ==
    \A u : IsFiniteSet(ActiveSockets(u)) /\ Cardinality(ActiveSockets(u)) \in Nat
BY FiniteAssumption, FS_Subset, FS_CardinalityType DEF ActiveSockets

\* How many sockets of a user a step makes active, or ends.
LEMMA ActiveStep ==
    ASSUME NEW s \in Sockets, \A t \in Sockets \ {s} : Present(t)' <=> Present(t)
    PROVE  /\ \A u : u # userOf[s] => ActiveSockets(u)' = ActiveSockets(u)
           /\ LET before == Cardinality(ActiveSockets(userOf[s]))
                  after == Cardinality(ActiveSockets(userOf[s])')
              IN  /\ after \in Nat /\ before \in Nat
                  /\ (Present(s)' <=> Present(s)) => after = before
                  /\ Present(s)' /\ ~Present(s) => after = before + 1
                  /\ ~Present(s)' /\ Present(s) => after = before - 1
                  /\ Present(s) => before >= 1
                  /\ Present(s)' => after >= 1
<1> DEFINE old == ActiveSockets(userOf[s])
           new == ActiveSockets(userOf[s])'
<1>1. ASSUME NEW u, u # userOf[s] PROVE ActiveSockets(u)' = ActiveSockets(u)
  BY <1>1 DEF ActiveSockets
<1>2. IsFiniteSet(old) /\ Cardinality(old) \in Nat
  BY ActiveIsFinite
<1>3. new \in SUBSET Sockets /\ \A t \in Sockets \ {s} : t \in new <=> t \in old
  BY DEF ActiveSockets
<1>4. s \in old <=> Present(s)
  BY DEF ActiveSockets
<1>5. s \in new <=> Present(s)'
  BY DEF ActiveSockets
<1>6. old \in SUBSET Sockets
  BY DEF ActiveSockets
<1>7. IsFiniteSet(new) /\ Cardinality(new) \in Nat
  BY <1>3, FiniteAssumption, FS_Subset, FS_CardinalityType
<1> HIDE DEF old, new
<1>8. ASSUME Present(s)' <=> Present(s) PROVE Cardinality(new) = Cardinality(old)
  <2>1. new = old
    BY <1>3, <1>4, <1>5, <1>6, <1>8
  <2> QED BY <2>1
<1>9. ASSUME Present(s)', ~Present(s) PROVE Cardinality(new) = Cardinality(old) + 1
  <2>1. new = old \cup {s} /\ s \notin old
    BY <1>3, <1>4, <1>5, <1>6, <1>9
  <2> QED BY <1>2, <2>1, FS_AddElement
<1>10. ASSUME ~Present(s)', Present(s) PROVE Cardinality(new) = Cardinality(old) - 1
  <2>1. new = old \ {s} /\ s \in old
    BY <1>3, <1>4, <1>5, <1>6, <1>10
  <2> QED BY <1>2, <2>1, FS_RemoveElement
<1>11. ASSUME Present(s) PROVE Cardinality(old) >= 1
  BY <1>2, <1>4, <1>11, FS_EmptySet
<1>12. ASSUME Present(s)' PROVE Cardinality(new) >= 1
  BY <1>5, <1>7, <1>12, FS_EmptySet
<1> QED BY <1>1, <1>2, <1>7, <1>8, <1>9, <1>10, <1>11, <1>12 DEF old, new

\* What counting does.
Again(u) == [Minus(u) EXCEPT ![u] = @ + 1]

LEMMA CountedFor ==
    ASSUME count \in [Users -> Nat], NEW v \in Users,
           count' \in {count, Plus(v), Minus(v), Again(v)}
    PROVE  /\ \A u \in Users : u # v => count'[u] = count[u]
           /\ count' = Plus(v) => count'[v] = count[v] + 1
           /\ count' = Minus(v) => count'[v] = IF count[v] = 0 THEN 0 ELSE count[v] - 1
           /\ count' = Again(v) => count'[v] = IF count[v] = 0 THEN 1 ELSE count[v]
BY DEF Plus, Minus, Again

\* A step that concerns one socket makes no ghost if it counts for a socket that is there, and
\* counts down whenever it ends one.
LEMMA GhostStep ==
    ASSUME LiveTypeInv, NoGhosts, NEW s \in Sockets,
           \A t \in Sockets \ {s} : Present(t)' <=> Present(t),
           \/ (Present(s)' <=> Present(s)) /\ count' = count
           \/ Present(s)' /\ ~Present(s) /\ count' = Plus(userOf[s])
           \/ ~Present(s)' /\ count' = Minus(userOf[s])
           \/ Present(s)' /\ count' = Again(userOf[s])
    PROVE  NoGhosts'
<1> DEFINE v == userOf[s]
           before == Cardinality(ActiveSockets(v))
           after == Cardinality(ActiveSockets(v)')
<1>1. v \in Users /\ count[v] \in Nat /\ count \in [Users -> Nat]
  BY UsersAssumption DEF LiveTypeInv
<1>2. \A u \in Users : u # v => ActiveSockets(u)' = ActiveSockets(u)
  BY ActiveStep
<1>3. /\ after \in Nat /\ before \in Nat
      /\ (Present(s)' <=> Present(s)) => after = before
      /\ Present(s)' /\ ~Present(s) => after = before + 1
      /\ ~Present(s)' /\ Present(s) => after = before - 1
      /\ Present(s) => before >= 1
      /\ Present(s)' => after >= 1
  BY ActiveStep
<1>4. \A u \in Users : u # v => count'[u] = count[u]
  BY <1>1, CountedFor
<1>5. count[v] <= before
  BY <1>1 DEF NoGhosts
<1>6. count'[v] <= after
  <2> HIDE DEF before, after, v
  <2>1. CASE (Present(s)' <=> Present(s)) /\ count' = count
    BY <1>1, <1>3, <1>5, <2>1
  <2>2. CASE Present(s)' /\ ~Present(s) /\ count' = Plus(v)
    BY <1>1, <1>3, <1>5, <2>2, CountedFor
  <2>3. CASE ~Present(s)' /\ count' = Minus(v)
    <3>1. count'[v] = IF count[v] = 0 THEN 0 ELSE count[v] - 1
      BY <1>1, <2>3, CountedFor
    <3>2. after = before - 1 \/ after = before
      BY <1>3, <2>3
    <3> QED BY <1>1, <1>3, <1>5, <3>1, <3>2
  <2>4. CASE Present(s)' /\ count' = Again(v)
    <3>1. count'[v] = IF count[v] = 0 THEN 1 ELSE count[v]
      BY <1>1, <2>4, CountedFor
    <3>2. after >= 1 /\ after >= before
      BY <1>3, <2>4
    <3> QED BY <1>1, <1>3, <1>5, <3>1, <3>2
  <2> QED BY <2>1, <2>2, <2>3, <2>4 DEF v
<1>7. \A u \in Users : u # v => count'[u] <= Cardinality(ActiveSockets(u)')
  BY <1>2, <1>4 DEF NoGhosts
<1> QED BY <1>6, <1>7 DEF NoGhosts

\* It keeps the counts exact if it counts what it does.
LEMMA ExactStep ==
    ASSUME LiveTypeInv, ExactPresence, NEW s \in Sockets,
           \A t \in Sockets \ {s} : Present(t)' <=> Present(t),
           \/ (Present(s)' <=> Present(s)) /\ count' = count
           \/ Present(s)' /\ ~Present(s) /\ count' = Plus(userOf[s])
           \/ ~Present(s)' /\ Present(s) /\ count' = Minus(userOf[s])
           \/ Present(s)' /\ Present(s) /\ count' = Again(userOf[s])
    PROVE  ExactPresence'
<1> DEFINE v == userOf[s]
           before == Cardinality(ActiveSockets(v))
           after == Cardinality(ActiveSockets(v)')
<1>1. v \in Users /\ count[v] \in Nat /\ count \in [Users -> Nat]
  BY UsersAssumption DEF LiveTypeInv
<1>2. \A u \in Users : u # v => ActiveSockets(u)' = ActiveSockets(u)
  BY ActiveStep
<1>3. /\ after \in Nat /\ before \in Nat
      /\ (Present(s)' <=> Present(s)) => after = before
      /\ Present(s)' /\ ~Present(s) => after = before + 1
      /\ ~Present(s)' /\ Present(s) => after = before - 1
      /\ Present(s) => before >= 1
      /\ Present(s)' => after >= 1
  BY ActiveStep
<1>4. \A u \in Users : u # v => count'[u] = count[u]
  BY <1>1, CountedFor
<1>5. count[v] = before
  BY <1>1 DEF ExactPresence
<1>6. count'[v] = after
  <2> HIDE DEF before, after, v
  <2>1. CASE (Present(s)' <=> Present(s)) /\ count' = count
    BY <1>1, <1>3, <1>5, <2>1
  <2>2. CASE Present(s)' /\ ~Present(s) /\ count' = Plus(v)
    BY <1>1, <1>3, <1>5, <2>2, CountedFor
  <2>3. CASE ~Present(s)' /\ Present(s) /\ count' = Minus(v)
    <3>1. count'[v] = IF count[v] = 0 THEN 0 ELSE count[v] - 1
      BY <1>1, <2>3, CountedFor
    <3> QED BY <1>1, <1>3, <1>5, <2>3, <3>1
  <2>4. CASE Present(s)' /\ Present(s) /\ count' = Again(v)
    <3>1. count'[v] = IF count[v] = 0 THEN 1 ELSE count[v]
      BY <1>1, <2>4, CountedFor
    <3> QED BY <1>1, <1>3, <1>5, <2>4, <3>1
  <2> QED BY <2>1, <2>2, <2>3, <2>4 DEF v
<1>7. \A u \in Users : u # v => count'[u] = Cardinality(ActiveSockets(u)')
  BY <1>2, <1>4 DEF ExactPresence
<1> QED BY <1>6, <1>7 DEF ExactPresence

\* What the messages and the connections of clients do to sessions and presence.
LEMMA SessionConnectionStep ==
    ASSUME TypedInv, Sessions, NoGhosts, Without({"drop"}), NEW s \in Sockets, Connection(s)
    PROVE  /\ (Sessions /\ NoGhosts)'
           /\ Turns /\ ExactPresence => (Turns /\ ExactPresence)'
<1> USE DEF TypedInv, LiveTypeInv, Present, stateVars
<1>1. CASE Connect(s)
  <2>1. /\ \A c \in Calls : Unanswered(c) => socketOf[c] # s
        /\ \A c \in Calls : Unanswered(c)' <=> Unanswered(c)
        /\ stage' = stage
    BY <1>1 DEF Connect, Unanswered, CallsOf
  <2>2. Sessions' /\ (Turns => Turns')
    BY <1>1, <2>1 DEF Connect, Sessions, Turns, Unanswered
  <2>3. \A t \in Sockets : Present(t)' <=> Present(t)
    BY <1>1 DEF Connect, Sessions
  <2>4. count' = count
    BY <1>1 DEF Connect
  <2> QED BY <2>2, <2>3, <2>4, GhostStep, ExactStep
<1>2. CASE Disconnect(s)
  <2>1. \A c \in Calls : Unanswered(c) => socketOf[c] # s
    BY <1>2 DEF Disconnect, Without, CallsOf
  <2>2. Sessions' /\ (Turns => Turns')
    BY <1>2, <2>1 DEF Disconnect, Sessions, Turns, Unanswered
  <2>3. \A t \in Sockets : Present(t)' <=> Present(t)
    BY <1>2 DEF Disconnect
  <2>4. count' = count
    BY <1>2 DEF Disconnect
  <2> QED BY <2>2, <2>3, <2>4, GhostStep, ExactStep
<1>3. CASE Dropped(s)
  <2>1. Sessions' /\ (Turns => Turns')
    BY <1>3 DEF Dropped, Sessions, Turns, Unanswered
  <2>2. ~Present(s)' /\ Present(s)
    BY <1>3 DEF Dropped, Sessions
  <2>3. \A t \in Sockets \ {s} : Present(t)' <=> Present(t)
    BY <1>3 DEF Dropped
  <2>4. count' = Minus(userOf[s])
    BY <1>3 DEF Dropped
  <2> QED BY <2>1, <2>2, <2>3, <2>4, GhostStep, ExactStep
<1> QED BY <1>1, <1>2, <1>3 DEF Connection

LEMMA SessionMessageStep ==
    ASSUME TypedInv, Sessions, NoGhosts, NEW c \in Calls, Message(c)
    PROVE  /\ (Sessions /\ NoGhosts)'
           /\ Turns /\ ExactPresence /\ Without({"burst"}) => (Turns /\ ExactPresence)'
<1> USE DEF TypedInv, LiveTypeInv, stateVars
<1>1. UNCHANGED <<online, joined, dropping, count>> /\ \A d \in Calls \ {c} : stage'[d] = stage[d]
  BY DEF Message, Join, SendEdit, Leave
<1>2. /\ stage'[c] \in {"check", "validate", "leave"}
      /\ stage'[c] # "validate" => socketOf[c] \in online /\ Ready(socketOf[c])
      /\ stage'[c] = "leave" => socketOf[c] \in joined
  BY DEF Message, Join, SendEdit, Leave
<1>3. Sessions'
  BY <1>1, <1>2 DEF Sessions, Unanswered
<1>4. (NoGhosts => NoGhosts') /\ (ExactPresence => ExactPresence')
  BY <1>1 DEF NoGhosts, ExactPresence, ActiveSockets, Present
<1>5. ASSUME Turns, Without({"burst"}) PROVE Turns'
  <2>1. stage'[c] # "validate" => \A d \in CallsOf(socketOf[c]) : ~Unanswered(d)
    BY <1>2, <1>5 DEF Ready, Without
  <2>2. \A d \in Calls \ {c} : Unanswered(d)' <=> Unanswered(d)
    BY <1>1 DEF Unanswered
  <2>3. Unanswered(c)' => \A d \in Calls : socketOf[d] = socketOf[c] => ~Unanswered(d)
    BY <2>1 DEF Unanswered, CallsOf
  <2>4. \A d, e \in Calls :
            Unanswered(d)' /\ Unanswered(e)' /\ socketOf[d] = socketOf[e] => d = e
    BY <1>5, <2>2, <2>3 DEF Turns
  <2>5. \A d \in Calls : stage'[d] \in {"rejoin", "leave"} => socketOf[d] \in joined'
    BY <1>1, <1>2, <1>5 DEF Turns
  <2> QED BY <1>1, <2>4, <2>5 DEF Turns, Unanswered
<1> QED BY <1>3, <1>4, <1>5

\* A handler that goes on, or ends, and leaves the sessions alone.
LEMMA SessionSame ==
    ASSUME TypedInv, Sessions, NoGhosts, NEW c \in Calls,
           \A d \in Calls \ {c} : stage'[d] = stage[d],
           Unanswered(c)' => Unanswered(c),
           stage'[c] \in {"rejoin", "leave"} => socketOf[c] \in joined,
           UNCHANGED <<online, joined, dropping, count>>
    PROVE  /\ (Sessions /\ NoGhosts)'
           /\ Turns /\ ExactPresence => (Turns /\ ExactPresence)'
<1>1. \A d \in Calls : Unanswered(d)' => Unanswered(d)
  BY DEF Unanswered
<1>2. Sessions'
  BY <1>1 DEF Sessions
<1>3. Turns => Turns'
  BY <1>1 DEF Turns
<1>4. (NoGhosts => NoGhosts') /\ (ExactPresence => ExactPresence')
  BY DEF NoGhosts, ExactPresence, ActiveSockets, Present
<1> QED BY <1>2, <1>3, <1>4

\* A handler that answers, and so is alone with its socket if clients wait.
LEMMA SessionAnswered ==
    ASSUME TypedInv, Sessions, NEW c \in Calls, Unanswered(c),
           \A d \in Calls \ {c} : stage'[d] = stage[d], ~Unanswered(c)',
           UNCHANGED <<online, dropping>>,
           \A t \in Sockets \ {socketOf[c]} : t \in joined' <=> t \in joined
    PROVE  Sessions' /\ (Turns => Turns')
<1>1. \A d \in Calls : Unanswered(d)' => Unanswered(d) /\ d # c
  BY DEF Unanswered
<1>2. socketOf[c] \in online /\ dropping \subseteq joined \ online
  BY DEF Sessions
<1>3. dropping' \subseteq joined' \ online'
  BY <1>2 DEF TypedInv, LiveTypeInv
<1>4. Sessions'
  BY <1>1, <1>3 DEF Sessions
<1>5. ASSUME Turns, NEW d \in Calls, stage'[d] \in {"rejoin", "leave"} PROVE socketOf[d] \in joined'
  <2>1. Unanswered(d)'
    BY <1>5 DEF Unanswered
  <2>2. Unanswered(d) /\ d # c /\ socketOf[d] # socketOf[c]
    BY <1>1, <1>5, <2>1 DEF Turns
  <2>3. stage[d] \in {"rejoin", "leave"} /\ socketOf[d] \in Sockets
    BY <1>5, <2>2, CallsAssumption
  <2> QED BY <1>5, <2>2, <2>3 DEF Turns
<1>6. Turns => Turns'
  BY <1>1, <1>5 DEF Turns
<1> QED BY <1>4, <1>6

LEMMA SessionHandlerStep ==
    ASSUME TypedInv, Sessions, NoGhosts, NEW c \in Calls, Handler(c)
    PROVE  /\ (Sessions /\ NoGhosts)'
           /\ Turns /\ ExactPresence => (Turns /\ ExactPresence)'
<1> DEFINE s == socketOf[c]
<1> USE DEF TypedInv, stateVars
<1>0. s \in Sockets
  BY CallsAssumption
<1>1. CASE RefuseJoin(c)
  BY <1>1, SessionSame DEF RefuseJoin, LiveTypeInv, Unanswered
<1>2. CASE LeaveToJoin(c)
  BY <1>2, SessionSame DEF LeaveToJoin, LiveTypeInv, Unanswered
<1>3. CASE Rejoin(c)
  <2>1. stage'[c] \in {"idle", "read"} /\ \A d \in Calls \ {c} : stage'[d] = stage[d]
    BY <1>3, AcquireTypes DEF Rejoin, LiveTypeInv
  <2>2. Unanswered(c) /\ ~Unanswered(c)'
    BY <1>3, <2>1 DEF Rejoin, Unanswered
  <2>3. Sessions' /\ (Turns => Turns')
    BY <1>0, <1>3, <2>1, <2>2, SessionAnswered DEF Rejoin
  <2>4. s \in online /\ s \in online' /\ s \in joined'
    BY <1>3, <2>2 DEF Rejoin, Sessions
  <2>5. Present(s)' /\ (Turns => Present(s)) /\ count' = Again(userOf[s])
    BY <1>3, <2>4 DEF Rejoin, Turns, Present, Again
  <2>6. \A t \in Sockets \ {s} : Present(t)' <=> Present(t)
    BY <1>3 DEF Rejoin, Present
  <2> QED BY <1>0, <2>3, <2>5, <2>6, GhostStep, ExactStep
<1>4. CASE Enter(c)
  <2>1. stage'[c] \in {"idle", "read"} /\ \A d \in Calls \ {c} : stage'[d] = stage[d]
    BY <1>4, AcquireTypes DEF Enter, LiveTypeInv
  <2>2. Unanswered(c) /\ ~Unanswered(c)'
    BY <1>4, <2>1 DEF Enter, Unanswered
  <2>3. Sessions' /\ (Turns => Turns')
    BY <1>0, <1>4, <2>1, <2>2, SessionAnswered DEF Enter
  <2>4. s \in online /\ s \in online' /\ s \in joined' /\ s \notin joined
    BY <1>4, <2>2 DEF Enter, Sessions
  <2>5. Present(s)' /\ ~Present(s) /\ count' = Plus(userOf[s])
    BY <1>4, <2>4 DEF Enter, Present
  <2>6. \A t \in Sockets \ {s} : Present(t)' <=> Present(t)
    BY <1>4 DEF Enter, Present
  <2> QED BY <1>0, <2>3, <2>5, <2>6, GhostStep, ExactStep
<1>5. CASE ReadState(c)
  BY <1>5, SessionSame DEF ReadState, LiveTypeInv, Unanswered
<1>6. CASE SetEntry(c)
  BY <1>6, SessionSame DEF SetEntry, LiveTypeInv, Unanswered
<1>7. CASE ApplyEdit(c)
  <2>1. stage'[c] \in {"idle", "read"} /\ \A d \in Calls \ {c} : stage'[d] = stage[d]
    BY <1>7, AcquireTypes DEF ApplyEdit, LiveTypeInv
  <2> QED BY <1>7, <2>1, SessionSame DEF ApplyEdit, Unanswered
<1>8. CASE Left(c)
  <2>1. stage'[c] = "idle" /\ \A d \in Calls \ {c} : stage'[d] = stage[d]
    BY <1>8 DEF Left, LiveTypeInv
  <2>2. Unanswered(c) /\ ~Unanswered(c)'
    BY <1>8, <2>1 DEF Left, Unanswered
  <2>3. Sessions' /\ (Turns => Turns')
    BY <1>0, <1>8, <2>1, <2>2, SessionAnswered DEF Left
  <2>4. ~Present(s)' /\ (Turns => Present(s)) /\ count' = Minus(userOf[s])
    BY <1>8, <2>2 DEF Left, Turns, Present, Sessions
  <2>5. \A t \in Sockets \ {s} : Present(t)' <=> Present(t)
    BY <1>8 DEF Left, Present
  <2> QED BY <1>0, <2>3, <2>4, <2>5, GhostStep, ExactStep
<1>9. CASE FailLoad(c)
  BY <1>9, SessionSame DEF FailLoad, Loading, LiveTypeInv, Unanswered
<1> QED BY <1>1, <1>2, <1>3, <1>4, <1>5, <1>6, <1>7, <1>8, <1>9 DEF Handler

\* The mishaps of a behaviour are chosen at its start.
LEMMA MishapsStay == [LiveNext]_liveVars => mishaps' = mishaps
<1> SUFFICES ASSUME [LiveNext]_liveVars PROVE mishaps' = mishaps
  OBVIOUS
<1>1. ASSUME NEW c \in Calls, Message(c) \/ Handler(c) PROVE mishaps' = mishaps
  BY <1>1 DEF Message, Join, SendEdit, Leave, Handler, RefuseJoin, LeaveToJoin, Rejoin, Enter,
    ReadState, SetEntry, ApplyEdit, Left, FailLoad
<1>2. ASSUME NEW s \in Sockets, Connection(s) PROVE mishaps' = mishaps
  BY <1>2 DEF Connection, Connect, Disconnect, Dropped
<1>3. ASSUME NEW p \in Providers, Provider(p) PROVE mishaps' = mishaps
  BY <1>3 DEF Provider, Open, ProviderEdit, Close
<1>4. CASE BindState \/ Writes \/ Evict
  BY <1>4 DEF BindState, Writes, Persist, ProviderPersist, Land, Evict
<1> QED BY <1>1, <1>2, <1>3, <1>4 DEF LiveNext, liveVars

LEMMA ServerLeavesSessions ==
    ASSUME (\E p \in Providers : Provider(p)) \/ BindState \/ Writes \/ Evict
    PROVE  UNCHANGED sessionVars
BY DEF Provider, Open, ProviderEdit, Close, BindState, Writes, Persist, ProviderPersist, Land, Evict

LEMMA SessionStep ==
    ASSUME TypedInv, GhostInv, TurnInv, [LiveNext]_liveVars
    PROVE  (GhostInv /\ TurnInv)'
<1> SUFFICES ASSUME Without({"drop"})
             PROVE  /\ (Sessions /\ NoGhosts)'
                    /\ Without({"drop", "burst"}) => (Turns /\ ExactPresence)'
  BY MishapsStay DEF GhostInv, TurnInv, Without
<1>1. Sessions /\ NoGhosts /\ (Without({"drop", "burst"}) => Turns /\ ExactPresence)
  BY DEF GhostInv, TurnInv
<1>2. CASE UNCHANGED sessionVars
  <2>1. \A c \in Calls : Unanswered(c)' <=> Unanswered(c)
    BY <1>2 DEF sessionVars, Unanswered
  <2> QED BY <1>1, <1>2, <2>1 DEF sessionVars, Sessions, Turns, ExactPresence, NoGhosts,
        ActiveSockets, Present
<1>3. ASSUME NEW c \in Calls, Message(c)
      PROVE  /\ (Sessions /\ NoGhosts)'
             /\ Without({"drop", "burst"}) => (Turns /\ ExactPresence)'
  <2>1. Without({"drop", "burst"}) => Without({"burst"})
    BY DEF Without
  <2> QED BY <1>1, <1>3, <2>1, SessionMessageStep
<1>4. ASSUME NEW c \in Calls, Handler(c)
      PROVE  /\ (Sessions /\ NoGhosts)'
             /\ Without({"drop", "burst"}) => (Turns /\ ExactPresence)'
  BY <1>1, <1>4, SessionHandlerStep
<1>5. ASSUME NEW s \in Sockets, Connection(s)
      PROVE  /\ (Sessions /\ NoGhosts)'
             /\ Without({"drop", "burst"}) => (Turns /\ ExactPresence)'
  BY <1>1, <1>5, SessionConnectionStep
<1> QED BY <1>2, <1>3, <1>4, <1>5, ServerLeavesSessions DEF LiveNext, liveVars

LEMMA SessionStart ==
    ASSUME NEW before \in SUBSET Edits
    PROVE  LiveInit(before) => GhostInv /\ TurnInv
<1> SUFFICES ASSUME LiveInit(before) PROVE Sessions /\ NoGhosts /\ Turns /\ ExactPresence
  BY DEF GhostInv, TurnInv
<1>1. Sessions /\ Turns
  BY DEF LiveInit, Sessions, Turns, Unanswered
<1>2. \A u \in Users : ActiveSockets(u) = {} /\ count[u] = 0
  BY DEF LiveInit, ActiveSockets, Present
<1>3. ExactPresence /\ NoGhosts
  BY <1>2, FS_EmptySet DEF ExactPresence, NoGhosts
<1> QED BY <1>1, <1>3

\* A user's presence count is the number of active sockets (collaboration.gateway.ts:73),
\* however joins, rejoins, leaves, edits and disconnections of different sockets interleave,
\* unless a connection breaks in the middle of a call, if clients wait for the answer to a join
\* or a leave.  If they do not, it is never more.
THEOREM PresenceHolds ==
    ASSUME NEW before \in SUBSET Edits
    PROVE  LiveSpec(before) => []PresenceIsExact
<1>1. GhostInv /\ TurnInv => PresenceIsExact
  BY DEF GhostInv, TurnInv, PresenceIsExact
<1>2. TypedInv /\ GhostInv /\ TurnInv /\ [LiveNext]_liveVars => (GhostInv /\ TurnInv)'
  BY SessionStep
<1> QED BY <1>1, <1>2, SessionStart, LiveDocumentKeepsTypes, PTL DEF LiveSpec

-----------------------------------------------------------------------------
(* References. *)

Joining == {socketOf[c] : c \in {d \in Calls : Entering(d)}}

\* The sockets for which the document is referenced.
Holders == {s \in Sockets : Present(s) /\ s \notin Joining}

OneLoad ==
    /\ \A c, d \in Calls : Loading(c) /\ Loading(d) => c = d
    /\ \A c \in Calls : Loading(c) => ~entry.exists
    /\ ~entry.exists => entry = NoEntry

\* For clients that wait until a join is over: nothing ends a session that loads the document.
JoinsAlone ==
    /\ \A c \in Calls : Entering(c) => socketOf[c] \in online \cap joined
    /\ \A c, d \in Calls : Entering(c) /\ Unanswered(d) => socketOf[c] # socketOf[d]

References == JoinsAlone /\ entry.refs = Cardinality(Holders)

ReferenceInv == Without({"drop", "overlap", "fail", "burst", "hurry"}) => OneLoad /\ References

\* Every step keeps to one load at a time, if acquire does.
LEMMA OneLoadStep ==
    ASSUME TypedInv, OneLoad, "overlap" \notin mishaps, [LiveNext]_liveVars
    PROVE  OneLoad'
<1> USE DEF TypedInv, LiveTypeInv, OneLoad, Loading
<1>0. /\ Released(NoEntry) = NoEntry
      /\ Released(entry).exists = entry.exists
      /\ ~NoEntry.exists /\ ~NoEntry.timer
  BY EntryTypes DEF Released, NoEntry, Entry
<1>1. CASE UNCHANGED <<stage, entry>>
  BY <1>1
<1>2. ASSUME NEW c \in Calls, Message(c) PROVE OneLoad'
  BY <1>2 DEF Message, Join, SendEdit, Leave, stateVars
<1>3. ASSUME NEW c \in Calls, Acquire(c) PROVE OneLoad'
  <2>1. CASE entry.exists
    <3>1. entry'.exists
      BY <1>3, <2>1 DEF Acquire, Entry
    <3>2. \A d \in Calls : ~Loading(d)'
      BY <1>3, <2>1 DEF Acquire
    <3> QED BY <3>1, <3>2
  <2>2. CASE ~entry.exists
    BY <1>3, <2>2 DEF Acquire
  <2> QED BY <2>1, <2>2
<1>4. ASSUME entry'.exists = entry.exists, entry = NoEntry => entry' = NoEntry,
             \A d \in Calls : Loading(d)' => Loading(d)
      PROVE  OneLoad'
  BY <1>4
<1>5. ASSUME NEW c \in Calls, Handler(c) PROVE OneLoad'
  <2>1. CASE RefuseJoin(c) \/ LeaveToJoin(c) \/ ReadState(c) \/ FailLoad(c)
    BY <1>4, <2>1 DEF RefuseJoin, LeaveToJoin, ReadState, FailLoad, stateVars
  <2>2. CASE Rejoin(c)
    <3>1. CASE entry.exists
      <4>1. /\ entry' = [Released(entry) EXCEPT !.refs = @ + 1]
            /\ stage' = [stage EXCEPT ![c] = "idle"]
        BY <2>2, <3>1 DEF Rejoin
      <4>2. Released(entry) \in Entry /\ Released(entry).exists
        BY <3>1, <1>0, EntryTypes
      <4>3. entry'.exists
        BY <4>1, <4>2 DEF Entry
      <4> QED BY <3>1, <4>1, <4>3
    <3>2. CASE ~entry.exists
      BY <2>2, <3>2, <1>3 DEF Rejoin
    <3> QED BY <3>1, <3>2
  <2>3. CASE Enter(c)
    BY <2>3, <1>3 DEF Enter
  <2>4. CASE SetEntry(c)
    <3>1. entry'.exists
      BY <2>4 DEF SetEntry, Released, Applied
    <3>2. \A d \in Calls : ~Loading(d)'
      BY <2>4 DEF SetEntry
    <3> QED BY <3>1, <3>2
  <2>5. CASE ApplyEdit(c)
    <3>1. CASE entry.exists
      <4>1. entry'.exists /\ stage' = [stage EXCEPT ![c] = "idle"]
        BY <2>5, <3>1 DEF ApplyEdit, Applied, Entry
      <4> QED BY <3>1, <4>1
    <3>2. CASE ~entry.exists
      BY <2>5, <3>2, <1>3 DEF ApplyEdit
    <3> QED BY <3>1, <3>2
  <2>6. CASE Left(c)
    BY <1>0, <1>4, <2>6 DEF Left
  <2> QED BY <1>5, <2>1, <2>2, <2>3, <2>4, <2>5, <2>6 DEF Handler
<1>5a. ASSUME NEW s \in Sockets, Connection(s) PROVE OneLoad'
  BY <1>0, <1>4, <1>5a DEF Connection, Connect, Disconnect, Dropped, stateVars
<1>6. ASSUME NEW p \in Providers, Provider(p) PROVE UNCHANGED <<stage, entry>>
  BY <1>6 DEF Provider, Open, ProviderEdit, Close, sessionVars
<1>7. CASE BindState \/ ProviderPersist \/ \E state \in writing : Land(state)
  BY <1>7 DEF BindState, ProviderPersist, Land, sessionVars
<1>8. CASE Persist
  <2>1. entry.exists
    BY <1>0, <1>8 DEF Persist
  <2>2. entry'.exists /\ stage' = stage
    BY <1>8, <2>1 DEF Persist, Entry, sessionVars
  <2> QED BY <2>1, <2>2
<1>9. CASE Evict
  BY <1>0, <1>9 DEF Evict, sessionVars
<1> QED BY <1>1, <1>2, <1>5, <1>5a, <1>6, <1>7, <1>8, <1>9 DEF LiveNext, Writes, liveVars, stateVars, sessionVars

LEMMA HoldersAreFinite == IsFiniteSet(Holders) /\ Cardinality(Holders) \in Nat
BY FiniteAssumption, FS_Subset, FS_CardinalityType DEF Holders

\* A holder is referenced, so the document is in memory.
LEMMA HeldIsInMemory ==
    ASSUME LiveTypeInv, OneLoad, References, NEW s \in Holders
    PROVE  entry.exists /\ entry.refs \in Nat \ {0}
<1>1. entry.refs \in Nat \ {0}
  BY HoldersAreFinite, FS_EmptySet DEF References
<1>2. NoEntry.refs = 0
  BY DEF NoEntry
<1> QED BY <1>1, <1>2 DEF OneLoad

\* A step that concerns one socket keeps the references right if it counts what it does.
LEMMA HoldersStep ==
    ASSUME LiveTypeInv, OneLoad, References, NEW s \in Sockets,
           \A t \in Sockets \ {s} : t \in Holders' <=> t \in Holders,
           \/ (s \in Holders' <=> s \in Holders) /\ entry'.refs = entry.refs
           \/ s \in Holders' /\ s \notin Holders /\ entry'.refs = entry.refs + 1
           \/ s \notin Holders' /\ s \in Holders /\ entry' = Released(entry)
    PROVE  entry'.refs = Cardinality(Holders')
<1>0. Holders \subseteq Sockets /\ Holders' \subseteq Sockets
  BY DEF Holders
<1>1. entry.refs = Cardinality(Holders)
  BY DEF References
<1>2. CASE (s \in Holders' <=> s \in Holders) /\ entry'.refs = entry.refs
  <2>1. Holders' = Holders
    BY <1>0, <1>2
  <2> QED BY <1>1, <1>2, <2>1
<1>3. CASE s \in Holders' /\ s \notin Holders /\ entry'.refs = entry.refs + 1
  <2>1. Holders' = Holders \cup {s}
    BY <1>0, <1>3
  <2>2. Cardinality(Holders') = Cardinality(Holders) + 1
    BY <1>3, <2>1, HoldersAreFinite, FS_AddElement
  <2> QED BY <1>1, <1>3, <2>2
<1>4. CASE s \notin Holders' /\ s \in Holders /\ entry' = Released(entry)
  <2>1. Holders' = Holders \ {s}
    BY <1>0, <1>4
  <2>2. Cardinality(Holders') = Cardinality(Holders) - 1
    BY <1>4, <2>1, HoldersAreFinite, FS_RemoveElement
  <2>3. entry.refs # 0
    BY <1>4, HeldIsInMemory
  <2>4. entry'.refs = entry.refs - 1
    BY <1>4, <2>3 DEF Released, LiveTypeInv, Entry
  <2> QED BY <1>1, <2>2, <2>4
<1> QED BY <1>2, <1>3, <1>4

\* What two states have in common if they load for the same sockets.
LEMMA SameJoining ==
    ASSUME \A c \in Calls : Entering(c)' <=> Entering(c)
    PROVE  Joining' = Joining
BY DEF Joining

LEMMA ReferenceConnectionStep ==
    ASSUME TypedInv, Sessions, OneLoad, References, Without({"drop"}),
           NEW s \in Sockets, Connection(s)
    PROVE  References'
<1> USE DEF TypedInv, LiveTypeInv, stateVars
<1>1. UNCHANGED <<stage, message>>
  BY DEF Connection, Connect, Disconnect, Dropped
<1>2. \A c \in Calls : (Entering(c)' <=> Entering(c)) /\ (Unanswered(c)' => Unanswered(c))
  BY <1>1 DEF Entering, Loading, Unanswered
<1>2a. Joining' = Joining
  BY <1>2, SameJoining
<1>3. CASE Connect(s)
  <2>1. \A c \in Calls : Entering(c) => socketOf[c] # s
    BY <1>3 DEF Connect, CallsOf, Entering, Loading
  <2>2. JoinsAlone'
    BY <1>2, <1>3, <2>1 DEF Connect, References, JoinsAlone, CallsOf
  <2>3. \A t \in Sockets : t \in Holders' <=> t \in Holders
    BY <1>2a, <1>3 DEF Connect, Holders, Present, Sessions
  <2>4. entry' = entry
    BY <1>3 DEF Connect
  <2> QED BY <2>2, <2>3, <2>4, HoldersStep DEF References
<1>4. CASE Disconnect(s)
  <2>1. \A c \in Calls : Entering(c) => socketOf[c] # s
    BY <1>4 DEF Disconnect, CallsOf, Without
  <2>2. JoinsAlone'
    BY <1>2, <1>4, <2>1 DEF Disconnect, References, JoinsAlone, CallsOf
  <2>3. \A t \in Sockets : t \in Holders' <=> t \in Holders
    BY <1>2a, <1>4 DEF Disconnect, Holders, Present
  <2>4. entry' = entry
    BY <1>4 DEF Disconnect
  <2> QED BY <2>2, <2>3, <2>4, HoldersStep DEF References
<1>5. CASE Dropped(s)
  <2>1. s \notin online /\ s \in joined /\ s \in dropping
    BY <1>5 DEF Dropped, Sessions
  <2>2. s \notin Joining
    BY <2>1 DEF Joining, References, JoinsAlone
  <2>3. s \in Holders /\ s \notin Holders'
    BY <1>5, <2>1, <2>2 DEF Dropped, Holders, Present
  <2>4. \A t \in Sockets \ {s} : t \in Holders' <=> t \in Holders
    BY <1>2a, <1>5 DEF Dropped, Holders, Present
  <2>5. JoinsAlone' /\ entry' = Released(entry)
    BY <1>2, <1>5 DEF Dropped, References, JoinsAlone, CallsOf
  <2> QED BY <2>3, <2>4, <2>5, HoldersStep DEF References
<1> QED BY <1>3, <1>4, <1>5 DEF Connection

LEMMA ReferenceMessageStep ==
    ASSUME TypedInv, OneLoad, References, Without({"hurry"}), NEW c \in Calls, Message(c)
    PROVE  References'
<1> USE DEF TypedInv, LiveTypeInv, stateVars
<1>1. /\ UNCHANGED <<online, joined, dropping, entry>>
      /\ \A d \in Calls \ {c} : stage'[d] = stage[d] /\ message'[d] = message[d]
  BY DEF Message, Join, SendEdit, Leave
<1>2. /\ stage'[c] \in {"check", "validate", "leave"} /\ stage[c] = "idle"
      /\ stage'[c] # "validate" => Ready(socketOf[c])
  BY DEF Message, Join, SendEdit, Leave
<1>3. \A d \in Calls : Entering(d)' <=> Entering(d)
  BY <1>1, <1>2 DEF Entering, Loading
<1>4. Joining' = Joining
  BY <1>3, SameJoining
<1>5. \A t \in Sockets : t \in Holders' <=> t \in Holders
  BY <1>1, <1>4 DEF Holders, Present
<1>6. JoinsAlone'
  <2> SUFFICES ASSUME NEW d \in Calls, Entering(d), NEW e \in Calls, Unanswered(e)',
                      socketOf[e] = socketOf[d]
               PROVE  FALSE
    BY <1>1, <1>3 DEF References, JoinsAlone
  <2>1. ~Unanswered(e)
    BY DEF References, JoinsAlone
  <2>2. e = c /\ stage'[c] # "validate"
    BY <1>1, <2>1 DEF Unanswered, CallsOf
  <2>3. d \in CallsOf(socketOf[c])
    BY <2>2 DEF CallsOf
  <2> QED BY <1>2, <2>2, <2>3 DEF Ready, Without
<1> QED BY <1>1, <1>5, <1>6, HoldersStep, CallsAssumption DEF References

\* A handler that neither enters nor leaves nor answers.
LEMMA ReferenceSame ==
    ASSUME TypedInv, OneLoad, References, NEW c \in Calls,
           \A d \in Calls : Entering(d)' <=> Entering(d),
           \A d \in Calls : Unanswered(d)' => Unanswered(d),
           UNCHANGED <<online, joined, dropping>>, entry'.refs = entry.refs
    PROVE  References'
<1>1. Joining' = Joining
  BY SameJoining
<1>2. \A t \in Sockets : t \in Holders' <=> t \in Holders
  BY <1>1 DEF Holders, Present
<1>3. JoinsAlone'
  BY DEF References, JoinsAlone, CallsOf
<1> QED BY <1>2, <1>3, HoldersStep, CallsAssumption DEF References, TypedInv

\* A call that is to answer has its socket to itself, and the socket is not loading.
LEMMA AnswersAlone ==
    ASSUME Turns, References, NEW c \in Calls, Unanswered(c)
    PROVE  /\ socketOf[c] \notin Joining
           /\ \A d \in Calls : d # c /\ socketOf[d] = socketOf[c] => ~Unanswered(d)
BY DEF Turns, References, JoinsAlone, CallsOf, Joining

LEMMA ReferenceHandlerStep ==
    ASSUME TypedInv, Sessions, Turns, OneLoad, References, Without({"overlap", "fail"}),
           NEW c \in Calls, Handler(c)
    PROVE  References'
<1> DEFINE s == socketOf[c]
<1> USE DEF TypedInv, LiveTypeInv
<1>0. s \in Sockets
  BY CallsAssumption
<1>1. CASE RefuseJoin(c) \/ LeaveToJoin(c) \/ ReadState(c)
  <2>1. entry' = entry
    BY <1>1 DEF RefuseJoin, LeaveToJoin, ReadState, stateVars
  <2>2. \A d \in Calls : (Entering(d)' <=> Entering(d)) /\ (Unanswered(d)' => Unanswered(d))
    BY <1>1 DEF RefuseJoin, LeaveToJoin, ReadState, Entering, Loading, Unanswered
  <2> QED BY <1>1, <2>1, <2>2, ReferenceSame DEF RefuseJoin, LeaveToJoin, ReadState
<1>2. CASE Rejoin(c)
  <2>1. Unanswered(c) /\ s \in online /\ s \in joined
    BY <1>2 DEF Rejoin, Unanswered, Sessions, Turns
  <2>2. s \in Holders
    BY <1>0, <2>1, AnswersAlone DEF Holders, Present
  <2>3. entry.exists /\ entry.refs \in Nat \ {0}
    BY <2>2, HeldIsInMemory
  <2>4. entry' = [Released(entry) EXCEPT !.refs = @ + 1] /\ stage' = [stage EXCEPT ![c] = "idle"]
    BY <1>2, <2>3 DEF Rejoin
  <2>5. entry'.refs = entry.refs
    BY <2>3, <2>4 DEF Released, Entry
  <2>6. \A d \in Calls : (Entering(d)' <=> Entering(d)) /\ (Unanswered(d)' => Unanswered(d))
    BY <1>2, <2>4 DEF Rejoin, Entering, Loading, Unanswered
  <2>7. joined' = joined
    BY <1>2, <2>1 DEF Rejoin
  <2> QED BY <1>2, <2>5, <2>6, <2>7, ReferenceSame DEF Rejoin
<1>3. CASE Enter(c)
  <2>1. Unanswered(c) /\ s \in online /\ message[c] = "none"
    BY <1>3 DEF Enter, Unanswered, Sessions, Sending
  <2>2. s \notin Holders /\ s \notin Joining
    BY <1>3, <2>1, AnswersAlone, CallsAssumption DEF Enter, Holders, Present, Sessions
  <2>3. /\ stage'[c] \in {"idle", "read"} /\ \A d \in Calls \ {c} : stage'[d] = stage[d]
        /\ ~entry.exists => stage'[c] = "read" /\ entry' = entry
    BY <1>3, AcquireTypes DEF Enter
  <2>4. /\ \A d \in Calls \ {c} : (Entering(d)' <=> Entering(d)) /\ (Unanswered(d)' <=> Unanswered(d))
        /\ ~Unanswered(c)' /\ ~Entering(c) /\ (Entering(c)' <=> stage'[c] = "read")
    BY <1>3, <2>1, <2>3 DEF Enter, Entering, Loading, Unanswered
  <2>5. JoinsAlone'
    <3>1. ASSUME NEW d \in Calls, Entering(d)'
          PROVE  /\ socketOf[d] \in online' \cap joined'
                 /\ \A e \in Calls : socketOf[e] = socketOf[d] => ~Unanswered(e)'
      <4>1. CASE d = c
        BY <1>3, <2>1, <2>4, <4>1, AnswersAlone DEF Enter
      <4>2. CASE d # c
        BY <1>3, <2>4, <3>1, <4>2 DEF Enter, References, JoinsAlone, CallsOf
      <4> QED BY <4>1, <4>2
    <3> QED BY <3>1 DEF JoinsAlone, CallsOf
  <2>6. \A t \in Sockets \ {s} : t \in Joining' <=> t \in Joining
    BY <2>4 DEF Joining
  <2>7. \A t \in Sockets \ {s} : t \in Holders' <=> t \in Holders
    BY <1>3, <2>6 DEF Enter, Holders, Present
  <2>8. CASE entry.exists
    <3>1. entry'.refs = entry.refs + 1 /\ stage'[c] = "idle"
      BY <1>3, <2>8 DEF Enter, Acquire, Entry
    <3>2. s \notin Joining'
      BY <2>2, <2>4, <3>1 DEF Joining
    <3>3. s \in Holders'
      BY <1>0, <1>3, <2>1, <3>2 DEF Enter, Holders, Present
    <3> QED BY <1>0, <2>2, <2>5, <2>7, <3>1, <3>3, HoldersStep DEF References
  <2>9. CASE ~entry.exists
    <3>1. Entering(c)' /\ entry' = entry
      BY <2>3, <2>4, <2>9
    <3>2. s \notin Holders'
      BY <3>1 DEF Holders, Joining
    <3> QED BY <1>0, <2>2, <2>5, <2>7, <3>1, <3>2, HoldersStep DEF References
  <2> QED BY <2>8, <2>9
<1>4. CASE SetEntry(c)
  <2>1. Loading(c) /\ ~entry.exists /\ entry.refs = 0 /\ stage'[c] = "idle"
    BY <1>4 DEF SetEntry, Loading, OneLoad, NoEntry
  <2>2. \A d \in Calls \ {c} : ~Loading(d) /\ ~Loading(d)'
    BY <1>4, <2>1 DEF SetEntry, OneLoad, Loading
  <2>3. \A d \in Calls : Unanswered(d)' => Unanswered(d)
    BY <1>4 DEF SetEntry, Unanswered
  <2>4. CASE message[c] = "none"
    <3>1. Entering(c) /\ s \in online /\ s \in joined
      BY <2>1, <2>4 DEF Entering, References, JoinsAlone
    <3>2. entry'.refs = entry.refs + 1
      BY <1>4, <2>1, <2>4 DEF SetEntry
    <3>3. Joining' = {} /\ Joining = {s}
      <4>1. \A d \in Calls : ~Entering(d)' /\ (Entering(d) <=> d = c)
        BY <2>1, <2>2, <3>1 DEF Entering, Loading
      <4> QED BY <4>1 DEF Joining
    <3>4. s \notin Holders /\ s \in Holders'
      BY <1>0, <1>4, <3>1, <3>3 DEF SetEntry, Holders, Present
    <3>5. \A t \in Sockets \ {s} : t \in Holders' <=> t \in Holders
      BY <1>4, <3>3 DEF SetEntry, Holders, Present
    <3>6. JoinsAlone'
      BY <2>1, <2>2 DEF JoinsAlone, Entering, Loading
    <3> QED BY <1>0, <3>2, <3>4, <3>5, <3>6, HoldersStep DEF References
  <2>5. CASE message[c] # "none"
    <3> DEFINE new == [edits |-> loaded[c], refs |-> 1, timer |-> FALSE, exists |-> TRUE]
    <3>1. entry' = Released(Applied(new, message[c])) /\ Applied(new, message[c]).refs = 1
      BY <1>4, <2>5 DEF SetEntry, Applied
    <3>2. new \in Entry /\ message[c] \in Edits
      BY <2>5 DEF Entry
    <3> HIDE DEF new
    <3>3. Applied(new, message[c]) \in Entry
      BY <3>2, EntryTypes
    <3>4. entry'.refs = 0
      BY <3>1, <3>3 DEF Released, Entry
    <3>5. \A d \in Calls : ~Entering(d) /\ ~Entering(d)'
      BY <2>1, <2>2, <2>5 DEF Entering, Loading
    <3> QED BY <1>4, <2>1, <2>3, <3>4, <3>5, ReferenceSame DEF SetEntry
  <2> QED BY <2>4, <2>5
<1>5. CASE ApplyEdit(c)
  <2>0. message[c] # "none" /\ ~Loading(c) /\ ~Unanswered(c)
    BY <1>5, EditsAssumption DEF ApplyEdit, Sending, Loading, Unanswered
  <2>1. /\ stage'[c] \in {"idle", "read"} /\ \A d \in Calls \ {c} : stage'[d] = stage[d]
        /\ entry'.refs = entry.refs
        /\ stage'[c] = "read" => message' = message
        /\ \A d \in Calls \ {c} : message'[d] = message[d]
    <3>1. CASE entry.exists
      BY <1>5, <3>1 DEF ApplyEdit, Applied, Entry
    <3>2. CASE ~entry.exists
      BY <1>5, <3>2 DEF ApplyEdit, Acquire
    <3> QED BY <3>1, <3>2
  <2>2. \A d \in Calls : (Entering(d)' <=> Entering(d)) /\ (Unanswered(d)' => Unanswered(d))
    BY <2>0, <2>1 DEF Entering, Loading, Unanswered
  <2> QED BY <1>5, <2>1, <2>2, ReferenceSame DEF ApplyEdit
<1>6. CASE Left(c)
  <2>1. Unanswered(c) /\ s \in online /\ s \in joined
    BY <1>6 DEF Left, Unanswered, Sessions, Turns
  <2>2. s \in Holders /\ s \notin Joining
    BY <1>0, <2>1, AnswersAlone DEF Holders, Present
  <2>3. \A d \in Calls : (Entering(d)' <=> Entering(d)) /\ (Unanswered(d)' => Unanswered(d))
    BY <1>6 DEF Left, Entering, Loading, Unanswered
  <2>4. Joining' = Joining
    BY <2>3, SameJoining
  <2>5. s \notin Holders' /\ \A t \in Sockets \ {s} : t \in Holders' <=> t \in Holders
    BY <1>6, <2>4 DEF Left, Holders, Present
  <2>6. \A d \in Calls : Entering(d) => socketOf[d] # s
    BY <2>2 DEF Joining
  <2>7. JoinsAlone' /\ entry' = Released(entry)
    BY <1>6, <2>3, <2>6 DEF Left, References, JoinsAlone, CallsOf
  <2> QED BY <1>0, <2>2, <2>5, <2>7, HoldersStep DEF References
<1>7. CASE FailLoad(c)
  BY <1>7 DEF FailLoad, Without
<1> QED BY <1>1, <1>2, <1>3, <1>4, <1>5, <1>6, <1>7 DEF Handler

LEMMA ReferenceServerStep ==
    ASSUME TypedInv, OneLoad, References,
           (\E p \in Providers : Provider(p)) \/ BindState \/ Writes \/ Evict
    PROVE  References'
<1>1. UNCHANGED sessionVars
  BY ServerLeavesSessions
<1>2. \A c \in Calls : (Entering(c)' <=> Entering(c)) /\ (Unanswered(c)' => Unanswered(c))
  BY <1>1 DEF sessionVars, Entering, Loading, Unanswered
<1>2a. Holders' = Holders
  BY <1>1, <1>2, SameJoining DEF sessionVars, Holders, Present
<1>3. entry'.refs = entry.refs
  <2>1. CASE Evict
    BY <2>1 DEF Evict, NoEntry
  <2>2. CASE Persist
    BY <2>2 DEF Persist, TypedInv, LiveTypeInv, Entry
  <2>3. CASE ~Evict /\ ~Persist
    BY <2>3 DEF Provider, Open, ProviderEdit, Close, BindState, Writes, ProviderPersist, Land
  <2> QED BY <2>1, <2>2, <2>3
<1> QED BY <1>1, <1>2, <1>2a, <1>3 DEF References, JoinsAlone, sessionVars

LEMMA ReferenceStep ==
    TypedInv /\ GhostInv /\ TurnInv /\ ReferenceInv /\ [LiveNext]_liveVars => ReferenceInv'
<1> SUFFICES ASSUME TypedInv, GhostInv, TurnInv, ReferenceInv, [LiveNext]_liveVars,
                    Without({"drop", "overlap", "fail", "burst", "hurry"})'
             PROVE  (OneLoad /\ References)'
  BY DEF ReferenceInv
<1>0. Without({"drop", "overlap", "fail", "burst", "hurry"})
  BY MishapsStay DEF Without
<1>1. /\ Without({"drop"}) /\ Without({"drop", "burst"}) /\ Without({"hurry"})
      /\ Without({"overlap", "fail"}) /\ "overlap" \notin mishaps
      /\ Sessions /\ Turns /\ OneLoad /\ References
  BY <1>0 DEF GhostInv, TurnInv, ReferenceInv, Without
<1>2. OneLoad'
  BY <1>1, OneLoadStep
<1>3. ASSUME UNCHANGED liveVars PROVE References'
  <2>1. \A c \in Calls : (Entering(c)' <=> Entering(c)) /\ (Unanswered(c)' <=> Unanswered(c))
    BY <1>3 DEF liveVars, sessionVars, Entering, Loading, Unanswered
  <2>2. Holders' = Holders
    BY <1>3, <2>1, SameJoining DEF liveVars, sessionVars, Holders, Present
  <2> QED BY <1>1, <1>3, <2>1, <2>2 DEF liveVars, sessionVars, stateVars, References, JoinsAlone
<1>4. ASSUME LiveNext PROVE References'
  BY <1>1, <1>4, ReferenceMessageStep, ReferenceConnectionStep, ReferenceHandlerStep,
     ReferenceServerStep DEF LiveNext
<1> QED BY <1>2, <1>3, <1>4

LEMMA ReferenceStart ==
    ASSUME NEW before \in SUBSET Edits, LiveInit(before)
    PROVE  OneLoad /\ References
<1>1. OneLoad
  BY DEF LiveInit, OneLoad, Loading
<1>2. Holders = {} /\ entry.refs = 0
  BY DEF LiveInit, Holders, Present, NoEntry
<1>3. JoinsAlone
  BY DEF LiveInit, JoinsAlone, Entering, Loading
<1> QED BY <1>1, <1>2, <1>3, FS_EmptySet DEF References

\* Eviction never takes the document of a present session, and a document that nobody uses
\* has no reference that keeps it in memory for ever, while clients wait until a join or a
\* leave is over, no connection breaks meanwhile, loads succeed and one runs at a time.
THEOREM ReferencesHold ==
    ASSUME NEW before \in SUBSET Edits
    PROVE  LiveSpec(before) => []SessionsHoldDocument
<1>1. LiveInit(before) => ReferenceInv
  BY ReferenceStart DEF ReferenceInv
<1>2. TypedInv /\ ReferenceInv => SessionsHoldDocument
  <2> SUFFICES ASSUME TypedInv, OneLoad, References
               PROVE  /\ entry.refs = Cardinality({s \in Sockets : Present(s) /\ s \notin Joining})
                      /\ ~entry.exists => \A s \in Sockets : Present(s) => s \in Joining
    BY DEF ReferenceInv, SessionsHoldDocument, Joining
  <2>1. entry.refs = Cardinality({s \in Sockets : Present(s) /\ s \notin Joining})
    BY DEF References, Holders
  <2>2. \A s \in Sockets : Present(s) /\ s \notin Joining => entry.exists
    BY HeldIsInMemory DEF Holders, TypedInv
  <2> QED BY <2>1, <2>2
<1>3. TypedInv /\ GhostInv /\ TurnInv /\ [LiveNext]_liveVars => (GhostInv /\ TurnInv)'
  BY SessionStep
<1> QED BY <1>1, <1>2, <1>3, SessionStart, ReferenceStep, LiveDocumentKeepsTypes, PTL
        DEF LiveSpec

-----------------------------------------------------------------------------
(* Edits. *)

\* The y-websocket server has nothing, one state at a time is being written, and the edits
\* are in the document in memory, else on their way to the database, else in it; a state
\* that was read is not older.
EditsAreSomewhere ==
    /\ ydoc = NoDoc
    /\ \A x, y \in writing : x = y
    /\ entry.exists => received \subseteq entry.edits
    /\ ~entry.exists => \A x \in writing : received \subseteq x
    /\ ~entry.exists /\ writing = {} => received \subseteq stored
    /\ \A c \in Calls : stage[c] = "loaded" => writing = {} /\ received \subseteq loaded[c]

EditInv == Without({"overlap", "late", "provider"}) => inside = {} /\ OneLoad /\ EditsAreSomewhere

\* Edits that were kept somewhere are kept, when nothing is read, written or applied.
LEMMA EditsSame ==
    ASSUME EditsAreSomewhere, UNCHANGED <<ydoc, writing, stored, received>>,
           entry'.exists = entry.exists, entry'.edits = entry.edits,
           \A c \in Calls : stage'[c] = "loaded" => stage[c] = "loaded" /\ loaded'[c] = loaded[c]
    PROVE  EditsAreSomewhere'
<1>1. \A c \in Calls : stage'[c] = "loaded" => writing' = {} /\ received' \subseteq loaded'[c]
  BY DEF EditsAreSomewhere
<1> QED BY <1>1 DEF EditsAreSomewhere

\* Neither references nor sessions matter to the edits of the document.
LEMMA RefsKeepEdits ==
    ASSUME NEW e \in Entry
    PROVE  /\ Released(e).exists = e.exists
           /\ Released(e).edits = e.edits
           /\ [e EXCEPT !.refs = @ + 1].exists = e.exists
           /\ [e EXCEPT !.refs = @ + 1].edits = e.edits
BY DEF Released, Entry

\* acquire puts nothing in the document.
LEMMA AcquireKeepsEdits ==
    ASSUME LiveTypeInv, EditsAreSomewhere, NEW c \in Calls, Acquire(c),
           UNCHANGED <<loaded, ydoc, writing, stored, received>>
    PROVE  EditsAreSomewhere'
<1> USE DEF LiveTypeInv
<1>1. entry'.exists = entry.exists /\ entry'.edits = entry.edits
  BY RefsKeepEdits DEF Acquire
<1>2. \A d \in Calls : stage'[d] = "loaded" => stage[d] = "loaded"
  BY DEF Acquire
<1> QED BY <1>1, <1>2, EditsSame

LEMMA EditsClientStep ==
    ASSUME TypedInv, EditsAreSomewhere,
           (\E c \in Calls : Message(c)) \/ (\E s \in Sockets : Connection(s))
    PROVE  EditsAreSomewhere'
<1>1. UNCHANGED <<ydoc, writing, stored, received, loaded>>
  BY DEF Message, Join, SendEdit, Leave, Connection, Connect, Disconnect, Dropped, stateVars
<1>2. entry'.exists = entry.exists /\ entry'.edits = entry.edits
  BY RefsKeepEdits DEF Message, Join, SendEdit, Leave, Connection, Connect, Disconnect, Dropped,
     stateVars, TypedInv, LiveTypeInv
<1>3. \A d \in Calls : stage'[d] = "loaded" => stage[d] = "loaded"
  BY DEF Message, Join, SendEdit, Leave, Connection, Connect, Disconnect, Dropped, TypedInv,
     LiveTypeInv
<1> QED BY <1>1, <1>2, <1>3, EditsSame

LEMMA EditsHandlerStep ==
    ASSUME TypedInv, OneLoad, EditsAreSomewhere, Without({"late"}),
           NEW c \in Calls, Handler(c)
    PROVE  EditsAreSomewhere'
<1> USE DEF TypedInv, LiveTypeInv
<1>1. CASE RefuseJoin(c) \/ LeaveToJoin(c) \/ FailLoad(c)
  <2>1. UNCHANGED <<entry, ydoc, writing, stored, received>>
    BY <1>1 DEF RefuseJoin, LeaveToJoin, FailLoad, stateVars
  <2>2. \A d \in Calls : stage'[d] = "loaded" => stage[d] = "loaded" /\ loaded'[d] = loaded[d]
    BY <1>1 DEF RefuseJoin, LeaveToJoin, FailLoad
  <2> QED BY <2>1, <2>2, EditsSame
<1>2. CASE Rejoin(c)
  <2>1. CASE entry.exists
    <3>1. Released(entry) \in Entry
      BY EntryTypes
    <3>2. entry'.exists = entry.exists /\ entry'.edits = entry.edits
      BY <1>2, <2>1, <3>1, RefsKeepEdits DEF Rejoin
    <3>3. \A d \in Calls : stage'[d] = "loaded" => stage[d] = "loaded"
      BY <1>2, <2>1 DEF Rejoin
    <3> QED BY <1>2, <3>2, <3>3, EditsSame DEF Rejoin
  <2>2. CASE ~entry.exists
    BY <1>2, <2>2, AcquireKeepsEdits DEF Rejoin
  <2> QED BY <2>1, <2>2
<1>3. CASE Enter(c)
  BY <1>3, AcquireKeepsEdits DEF Enter
<1>4. CASE ReadState(c)
  <2>1. writing = {} /\ ~entry.exists
    BY <1>4 DEF ReadState, Quiet, Without, OneLoad, Loading
  <2>2. received \subseteq stored
    BY <2>1 DEF EditsAreSomewhere
  <2>3. \A d \in Calls : stage'[d] = "loaded" => received' \subseteq loaded'[d]
    BY <1>4, <2>2 DEF ReadState, EditsAreSomewhere, stateVars
  <2> QED BY <1>4, <2>1, <2>2, <2>3 DEF ReadState, EditsAreSomewhere, stateVars
<1>5. CASE SetEntry(c)
  <2> DEFINE new == [edits |-> loaded[c], refs |-> 1, timer |-> FALSE, exists |-> TRUE]
  <2>1. received \subseteq loaded[c] /\ writing = {} /\ \A d \in Calls \ {c} : stage[d] # "loaded"
    BY <1>5 DEF SetEntry, EditsAreSomewhere, OneLoad, Loading
  <2>2. entry'.exists /\ received' \subseteq entry'.edits
    <3>1. CASE message[c] = "none"
      BY <1>5, <2>1, <3>1 DEF SetEntry
    <3>2. CASE message[c] # "none"
      <4>1. entry' = Released(Applied(new, message[c]))
        BY <1>5, <3>2 DEF SetEntry
      <4>2. new \in Entry /\ message[c] \in Edits
        BY <3>2 DEF Entry
      <4>3. Applied(new, message[c]) \in Entry
        BY <4>2, EntryTypes
      <4>4. /\ Applied(new, message[c]).exists
            /\ Applied(new, message[c]).edits = loaded[c] \cup {message[c]}
        BY DEF Applied
      <4>5. entry'.exists /\ entry'.edits = loaded[c] \cup {message[c]}
        BY <4>1, <4>3, <4>4, RefsKeepEdits
      <4> QED BY <1>5, <2>1, <4>5 DEF SetEntry
    <3> QED BY <3>1, <3>2
  <2>3. \A d \in Calls : stage'[d] # "loaded"
    BY <1>5, <2>1 DEF SetEntry
  <2> QED BY <1>5, <2>1, <2>2, <2>3 DEF SetEntry, EditsAreSomewhere
<1>6. CASE ApplyEdit(c)
  <2>1. CASE entry.exists
    <3>1. entry'.exists /\ entry'.edits = entry.edits \cup {message[c]}
      BY <1>6, <2>1 DEF ApplyEdit, Applied, Entry
    <3>2. received' = received \cup {message[c]}
      BY <1>6, <2>1 DEF ApplyEdit
    <3>3. \A d \in Calls : stage'[d] # "loaded"
      BY <1>6, <2>1 DEF ApplyEdit, OneLoad, Loading
    <3> QED BY <1>6, <2>1, <3>1, <3>2, <3>3 DEF ApplyEdit, EditsAreSomewhere
  <2>2. CASE ~entry.exists
    BY <1>6, <2>2, AcquireKeepsEdits DEF ApplyEdit
  <2> QED BY <2>1, <2>2
<1>7. CASE Left(c)
  <2>1. entry'.exists = entry.exists /\ entry'.edits = entry.edits
    BY <1>7, RefsKeepEdits DEF Left
  <2>2. \A d \in Calls : stage'[d] = "loaded" => stage[d] = "loaded"
    BY <1>7 DEF Left
  <2> QED BY <1>7, <2>1, <2>2, EditsSame DEF Left
<1> QED BY <1>1, <1>2, <1>3, <1>4, <1>5, <1>6, <1>7 DEF Handler

\* Only a document in memory is written, and nothing is written while one is.
LEMMA EditsWriteStep ==
    ASSUME TypedInv, OneLoad, EditsAreSomewhere, Without({"late"}),
           Persist \/ Evict \/ \E state \in writing : Land(state)
    PROVE  EditsAreSomewhere'
<1> USE DEF EditsAreSomewhere, OneLoad, Loading, sessionVars
<1>1. CASE Persist
  <2>1. entry.exists /\ writing = {}
    BY <1>1 DEF Persist, Quiet, Without, NoEntry
  <2>2. entry'.exists /\ entry'.edits = entry.edits
    BY <1>1, <2>1 DEF Persist, TypedInv, LiveTypeInv, Entry
  <2> QED BY <1>1, <2>1, <2>2 DEF Persist
<1>2. CASE Evict
  <2>1. entry.exists /\ writing = {} /\ writing' = {entry.edits}
    BY <1>2 DEF Evict, Quiet, Without
  <2>2. ~entry'.exists
    BY <1>2 DEF Evict, NoEntry
  <2> QED BY <1>2, <2>1, <2>2 DEF Evict
<1>3. ASSUME NEW x \in writing, Land(x) PROVE EditsAreSomewhere'
  <2>1. writing' = {} /\ stored' = x
    BY <1>3 DEF Land
  <2> QED BY <1>3, <2>1 DEF Land
<1> QED BY <1>1, <1>2, <1>3

LEMMA EditStep == TypedInv /\ EditInv /\ [LiveNext]_liveVars => EditInv'
<1> SUFFICES ASSUME TypedInv, EditInv, [LiveNext]_liveVars,
                    Without({"overlap", "late", "provider"})'
             PROVE  (inside = {} /\ OneLoad /\ EditsAreSomewhere)'
  BY DEF EditInv
<1>1. /\ Without({"late"}) /\ "overlap" \notin mishaps /\ "provider" \notin mishaps
      /\ inside = {} /\ OneLoad /\ EditsAreSomewhere
  BY MishapsStay DEF EditInv, Without
<1>2. OneLoad'
  BY <1>1, OneLoadStep
<1>3. ASSUME UNCHANGED liveVars PROVE (inside = {} /\ EditsAreSomewhere)'
  BY <1>1, <1>3 DEF liveVars, sessionVars, stateVars, EditsAreSomewhere
<1>4. ASSUME \/ \E c \in Calls : Message(c) \/ Handler(c)
             \/ \E s \in Sockets : Connection(s)
      PROVE  (inside = {} /\ EditsAreSomewhere)'
  <2>1. inside' = inside
    BY <1>4 DEF Message, Join, SendEdit, Leave, Handler, RefuseJoin, LeaveToJoin, Rejoin, Enter,
      ReadState, SetEntry, ApplyEdit, Left, FailLoad, Connection, Connect, Disconnect, Dropped,
      stateVars
  <2> QED BY <1>1, <1>4, <2>1, EditsClientStep, EditsHandlerStep
<1>5. ASSUME NEW p \in Providers, Provider(p) PROVE FALSE
  BY <1>1, <1>5 DEF Provider, Open, ProviderEdit, Close
<1>6. CASE BindState \/ ProviderPersist
  BY <1>1, <1>6 DEF BindState, ProviderPersist, EditsAreSomewhere, NoDoc
<1>7. ASSUME Persist \/ Evict \/ \E state \in writing : Land(state)
      PROVE  (inside = {} /\ EditsAreSomewhere)'
  <2>1. inside' = inside
    BY <1>7 DEF Persist, Evict, Land
  <2> QED BY <1>1, <1>7, <2>1, EditsWriteStep
<1> QED BY <1>2, <1>3, <1>4, <1>5, <1>6, <1>7 DEF LiveNext, Writes

\* yjs_state "represents the full doc state" (db/schema/document.ts): what a client was told
\* is applied is never lost by eviction, however calls overlap, connections break and loads fail,
\* while the y-websocket server is not used, one load runs at a time and writes land in order.
THEOREM EditsHold ==
    ASSUME NEW before \in SUBSET Edits
    PROVE  LiveSpec(before) => []EvictionLosesNothing
<1>1. LiveInit(before) => EditInv
  <2> SUFFICES ASSUME LiveInit(before) PROVE inside = {} /\ OneLoad /\ EditsAreSomewhere
    BY DEF EditInv
  <2>1. OneLoad
    BY ReferenceStart
  <2> QED BY <2>1 DEF LiveInit, EditsAreSomewhere, NoEntry
<1>2. EditInv => EvictionLosesNothing
  <2> SUFFICES ASSUME OneLoad, EditsAreSomewhere, NEW e \in received PROVE e \in Kept
    BY DEF EditInv, EvictionLosesNothing, NothingIsLost
  <2>1. CASE entry.exists
    BY <2>1 DEF EditsAreSomewhere, Kept
  <2>2. CASE ~entry.exists /\ writing = {}
    BY <2>2 DEF EditsAreSomewhere, Kept
  <2>3. CASE ~entry.exists /\ writing # {}
    BY <2>3 DEF EditsAreSomewhere, Kept
  <2> QED BY <2>1, <2>2, <2>3
<1> QED BY <1>1, <1>2, EditStep, LiveDocumentKeepsTypes, PTL DEF LiveSpec
=============================================================================
