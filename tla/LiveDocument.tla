------------------------------ MODULE LiveDocument ------------------------------
(***************************************************************************)
(* Editing one workspace's document together (src/src/collaboration):      *)
(* the sessions and presence counts of CollaborationGateway, the Y         *)
(* document that CollaborationYjsDocService keeps in memory while it is    *)
(* referenced, and the second server, y-websocket at /collab               *)
(* (collab-ws.server.ts), which keeps a Y document of its own.  Both write *)
(* the whole state to documents.yjs_state.                                 *)
(*                                                                         *)
(* A Y document is the set of edits merged into it: applying an update is  *)
(* a union, encoding its state is the set.  Nest starts a handler for each *)
(* message as it arrives, so several calls of one socket can be in         *)
(* progress; each goes from one await to the next.  How clients and the    *)
(* database may behave is chosen at the start, in mishaps, so that each    *)
(* property says what it depends on.                                       *)
(*                                                                         *)
(* Left out: authentication, quotas and sizes (a rejected message changes  *)
(* nothing), awareness, broadcasts to the room.                            *)
(***************************************************************************)
EXTENDS Naturals, FiniteSets

CONSTANTS
    Sockets,     \* socket.io clients
    Users,
    userOf,      \* whose socket it is
    Calls,       \* handler calls that can be in progress
    socketOf,    \* whose message a call handles
    Providers,   \* clients of the y-websocket server
    Edits,       \* each is made once
    Cases,       \* the combinations of mishaps to start from
    MaxCount     \* bound: nobody connects when presence or references have leaked so far

ASSUME UsersAssumption == userOf \in [Sockets -> Users]
ASSUME CallsAssumption == socketOf \in [Calls -> Sockets]
ASSUME FiniteAssumption == IsFiniteSet(Sockets) /\ IsFiniteSet(Calls) /\ IsFiniteSet(Providers)
ASSUME MaxCountAssumption == MaxCount \in Nat
ASSUME EditsAssumption == "none" \notin Edits

(***************************************************************************)
(* burst     a client joins or leaves again before it got the answer       *)
(*           (collab:joined or collab:left) to its last join or leave      *)
(* hurry     it does so between collab:joined and the sync message that    *)
(*           ends a join, while the document is being loaded               *)
(* drop      a connection breaks while a join or leave of it is handled    *)
(* overlap   the document is loaded for two calls at a time                *)
(* late      a write of the state lands after a later read or write        *)
(* fail      a load fails                                                  *)
(* provider  somebody connects to the y-websocket server                   *)
(***************************************************************************)
Mishaps == {"burst", "hurry", "drop", "overlap", "late", "fail", "provider"}

ASSUME CasesAssumption == Cases \subseteq SUBSET Mishaps

VARIABLES
    mishaps,    \* which of them can happen, never changed
    online,     \* connected sockets
    stage,      \* what a call is waiting for
    message,    \* the edit that its message brings, or "none"
    loaded,     \* the state that was read for it
    joined,     \* sockets whose client.data.collab is set
    dropping,   \* sockets in handleDisconnect, waiting for the flush
    count,      \* activeByProject: a user's active sockets
    entry,      \* the DocEntry of the workspace: edits, refs, timer; or NoEntry
    ydoc,       \* the document of the y-websocket server; or NoDoc
    inside,     \* providers that are connected
    writing,    \* states on their way to the database
    stored,     \* documents.yjs_state
    received    \* edits that a server has applied

sessionVars == <<online, stage, message, loaded, joined, dropping, count>>
stateVars == <<entry, ydoc, inside, writing, stored, received>>
liveVars == <<mishaps, sessionVars, stateVars>>

NoEntry == [edits |-> {}, refs |-> 0, timer |-> FALSE, exists |-> FALSE]
NoDoc == [edits |-> {}, bound |-> FALSE, timer |-> FALSE, exists |-> FALSE]

\* Without late writes, one that is under way lands before anything else touches yjs_state.
Quiet == "late" \in mishaps \/ writing = {}

-----------------------------------------------------------------------------
(* CollaborationYjsDocService. *)

Loading(c) == stage[c] \in {"read", "loaded"}

\* A join that has been answered, and has not got the document yet.
Entering(c) == Loading(c) /\ message[c] = "none"

\* acquire begins: the document is taken from memory, or else has to be read.
Acquire(c) ==
    IF entry.exists
    THEN /\ entry' = [entry EXCEPT !.refs = @ + 1]
         /\ stage' = [stage EXCEPT ![c] = "idle"]
    ELSE /\ "overlap" \in mishaps \/ \A d \in Calls : ~Loading(d)
         /\ stage' = [stage EXCEPT ![c] = "read"]
         /\ UNCHANGED entry

\* release.
Released(e) == [e EXCEPT !.refs = IF @ = 0 THEN 0 ELSE @ - 1]

\* A message is applied to the document: its update sets the timer of persist.
Applied(e, edit) == [e EXCEPT !.edits = @ \cup {edit}, !.timer = TRUE]

ReadState(c) ==
    /\ stage[c] = "read"
    /\ Quiet
    /\ loaded' = [loaded EXCEPT ![c] = stored]
    /\ stage' = [stage EXCEPT ![c] = "loaded"]
    /\ UNCHANGED <<mishaps, online, message, joined, dropping, count, stateVars>>

\* acquire ends: the entry is stored, over one that another load has stored since.  A
\* message is then applied and its reference released.
SetEntry(c) ==
    /\ stage[c] = "loaded"
    /\ LET new == [edits |-> loaded[c], refs |-> 1, timer |-> FALSE, exists |-> TRUE]
       IN  entry' = IF message[c] = "none" THEN new ELSE Released(Applied(new, message[c]))
    /\ received' = received \cup ({message[c]} \ {"none"})
    /\ stage' = [stage EXCEPT ![c] = "idle"]
    /\ message' = [message EXCEPT ![c] = "none"]
    /\ loaded' = [loaded EXCEPT ![c] = {}]
    /\ UNCHANGED <<mishaps, online, joined, dropping, count, ydoc, inside, writing, stored>>

\* The read fails: the client is told, and what the join did before stays done.
FailLoad(c) ==
    /\ "fail" \in mishaps
    /\ Loading(c)
    /\ stage' = [stage EXCEPT ![c] = "idle"]
    /\ message' = [message EXCEPT ![c] = "none"]
    /\ loaded' = [loaded EXCEPT ![c] = {}]
    /\ UNCHANGED <<mishaps, online, joined, dropping, count, stateVars>>

\* persist, by its timer: the whole state is encoded, then written.
Persist ==
    /\ entry.timer
    /\ Quiet
    /\ entry' = [entry EXCEPT !.timer = FALSE]
    /\ writing' = writing \cup {entry.edits}
    /\ UNCHANGED <<mishaps, sessionVars, ydoc, inside, stored, received>>

Land(state) ==
    /\ writing' = writing \ {state}
    /\ stored' = state
    /\ UNCHANGED <<mishaps, sessionVars, entry, ydoc, inside, received>>

\* Fault: the entry is gone when persist looks for it.
EvictUnsaved ==
    /\ entry.exists
    /\ entry.refs = 0
    /\ entry' = NoEntry
    /\ UNCHANGED <<mishaps, sessionVars, ydoc, inside, writing, stored, received>>

\* Fault: whoever still uses the document.
EvictInUse ==
    /\ entry.exists
    /\ Quiet
    /\ entry' = NoEntry
    /\ writing' = writing \cup {entry.edits}
    /\ UNCHANGED <<mishaps, sessionVars, ydoc, inside, stored, received>>

\* evictIdle: after five minutes without a reference; it does not wait for the write.
Evict ==
    /\ entry.exists
    /\ entry.refs = 0
    /\ Quiet
    /\ entry' = NoEntry
    /\ writing' = writing \cup {entry.edits}
    /\ UNCHANGED <<mishaps, sessionVars, ydoc, inside, stored, received>>

-----------------------------------------------------------------------------
(* CollaborationGateway. *)

CallsOf(s) == {c \in Calls : socketOf[c] = s}

\* A join or a leave that has not been answered.
Unanswered(c) == stage[c] \in {"check", "rejoin", "leave"}

\* Whether the client of s joins or leaves now; the gateway does not ask.
Ready(s) ==
    \A c \in CallsOf(s) :
        /\ Unanswered(c) => "burst" \in mishaps
        /\ Entering(c) => "hurry" \in mishaps

\* handleConnection, of a new socket.
Connect(s) ==
    /\ s \notin online
    /\ \A c \in CallsOf(s) : stage[c] = "idle"
    /\ s \notin dropping
    /\ count[userOf[s]] < MaxCount
    /\ entry.refs < MaxCount
    /\ online' = online \cup {s}
    /\ joined' = joined \ {s}
    /\ UNCHANGED <<mishaps, stage, message, loaded, dropping, count, stateVars>>

\* collab:join, which also takes a socket that has joined already.
Join(c) ==
    /\ socketOf[c] \in online
    /\ Ready(socketOf[c])
    /\ stage[c] = "idle"
    /\ stage' = [stage EXCEPT ![c] = "check"]
    /\ UNCHANGED <<mishaps, online, message, loaded, joined, dropping, count, stateVars>>

RefuseJoin(c) ==
    /\ stage[c] = "check"
    /\ stage' = [stage EXCEPT ![c] = "idle"]
    /\ UNCHANGED <<mishaps, online, message, loaded, joined, dropping, count, stateVars>>

\* leaveCurrentSession comes first; its flush of the autosave is awaited.
LeaveToJoin(c) ==
    /\ stage[c] = "check"
    /\ socketOf[c] \in joined
    /\ stage' = [stage EXCEPT ![c] = "rejoin"]
    /\ UNCHANGED <<mishaps, online, message, loaded, joined, dropping, count, stateVars>>

Minus(u) == [count EXCEPT ![u] = IF @ = 0 THEN 0 ELSE @ - 1]

Plus(u) == [count EXCEPT ![u] = @ + 1]

\* The rest of leaveCurrentSession and of onJoin: release, count down, join, count up, acquire.
\* The awaits between them have nothing to wait for.
Rejoin(c) ==
    /\ stage[c] = "rejoin"
    /\ joined' = joined \cup {socketOf[c]}
    /\ count' = [Minus(userOf[socketOf[c]]) EXCEPT ![userOf[socketOf[c]]] = @ + 1]
    /\ IF entry.exists
       THEN /\ entry' = [Released(entry) EXCEPT !.refs = @ + 1]
            /\ stage' = [stage EXCEPT ![c] = "idle"]
       ELSE Acquire(c)
    /\ UNCHANGED <<mishaps, online, message, loaded, dropping, ydoc, inside, writing, stored,
                   received>>

Enter(c) ==
    /\ stage[c] = "check"
    /\ socketOf[c] \notin joined
    /\ joined' = joined \cup {socketOf[c]}
    /\ count' = Plus(userOf[socketOf[c]])
    /\ Acquire(c)
    /\ UNCHANGED <<mishaps, online, message, loaded, dropping, ydoc, inside, writing, stored,
                   received>>

\* collab:yjs with an update, which a client sends without waiting for anything; membership is
\* looked up first.
SendEdit(c) ==
    /\ socketOf[c] \in online \cap joined
    /\ stage[c] = "idle"
    /\ \E e \in Edits \ received :
        /\ \A d \in Calls : message[d] # e
        /\ message' = [message EXCEPT ![c] = e]
    /\ stage' = [stage EXCEPT ![c] = "validate"]
    /\ UNCHANGED <<mishaps, online, loaded, joined, dropping, count, stateVars>>

\* acquire, apply, release when the document is in memory; else it is read.
ApplyEdit(c) ==
    /\ stage[c] = "validate"
    /\ IF entry.exists
       THEN /\ entry' = Applied(entry, message[c])
            /\ received' = received \cup {message[c]}
            /\ stage' = [stage EXCEPT ![c] = "idle"]
            /\ message' = [message EXCEPT ![c] = "none"]
       ELSE /\ Acquire(c)
            /\ UNCHANGED <<message, received>>
    /\ UNCHANGED <<mishaps, online, loaded, joined, dropping, count, ydoc, inside, writing, stored>>

\* collab:leave: leaveCurrentSession as far as the flush.  What is left is what was joined now.
Leave(c) ==
    /\ socketOf[c] \in online \cap joined
    /\ Ready(socketOf[c])
    /\ stage[c] = "idle"
    /\ stage' = [stage EXCEPT ![c] = "leave"]
    /\ UNCHANGED <<mishaps, online, message, loaded, joined, dropping, count, stateVars>>

\* Fault: the session ends, and the document is not released.
LeftUnreleased(c) ==
    /\ stage[c] = "leave"
    /\ count' = Minus(userOf[socketOf[c]])
    /\ joined' = joined \ {socketOf[c]}
    /\ stage' = [stage EXCEPT ![c] = "idle"]
    /\ UNCHANGED <<mishaps, online, message, loaded, dropping, stateVars>>

\* Fault: the session is left in place, as for a client that joins elsewhere.
LeftInPlace(c) ==
    /\ stage[c] = "leave"
    /\ count' = Minus(userOf[socketOf[c]])
    /\ entry' = Released(entry)
    /\ stage' = [stage EXCEPT ![c] = "idle"]
    /\ UNCHANGED <<mishaps, online, message, loaded, joined, dropping, ydoc, inside, writing,
                   stored, received>>

\* The rest of leaveCurrentSession, whoever has left or joined meanwhile.
Left(c) ==
    /\ stage[c] = "leave"
    /\ count' = Minus(userOf[socketOf[c]])
    /\ entry' = Released(entry)
    /\ joined' = joined \ {socketOf[c]}
    /\ stage' = [stage EXCEPT ![c] = "idle"]
    /\ UNCHANGED <<mishaps, online, message, loaded, dropping, ydoc, inside, writing, stored,
                   received>>

\* handleDisconnect: nothing for a socket without a session, else a flush is awaited.
Disconnect(s) ==
    /\ s \in online
    /\ "drop" \in mishaps \/ \A c \in CallsOf(s) : ~Unanswered(c) /\ ~Entering(c)
    /\ online' = online \ {s}
    /\ dropping' = IF s \in joined THEN dropping \cup {s} ELSE dropping
    /\ UNCHANGED <<mishaps, stage, message, loaded, joined, count, stateVars>>

\* The rest of handleDisconnect.
Dropped(s) ==
    /\ s \in dropping
    /\ dropping' = dropping \ {s}
    /\ count' = Minus(userOf[s])
    /\ entry' = Released(entry)
    /\ UNCHANGED <<mishaps, online, stage, message, loaded, joined, ydoc, inside, writing, stored,
                   received>>

-----------------------------------------------------------------------------
(* The y-websocket server: setupWSConnection with bindState and writeState. *)

\* The first client makes the document, and nobody waits until bindState has loaded it.
Open(p) ==
    /\ "provider" \in mishaps
    /\ p \notin inside
    /\ inside' = inside \cup {p}
    /\ ydoc' = [ydoc EXCEPT !.exists = TRUE]
    /\ UNCHANGED <<mishaps, sessionVars, entry, writing, stored, received>>

BindState ==
    /\ ydoc.exists
    /\ ~ydoc.bound
    /\ Quiet
    /\ ydoc' = [ydoc EXCEPT !.edits = @ \cup stored, !.bound = TRUE]
    /\ UNCHANGED <<mishaps, sessionVars, entry, inside, writing, stored, received>>

\* An update; only after bindState does it set a timer.
ProviderEdit(p) ==
    /\ p \in inside
    /\ \E e \in Edits \ received :
        /\ \A d \in Calls : message[d] # e
        /\ ydoc' = [ydoc EXCEPT !.edits = @ \cup {e}, !.timer = ydoc.bound]
        /\ received' = received \cup {e}
    /\ UNCHANGED <<mishaps, sessionVars, entry, inside, writing, stored>>

ProviderPersist ==
    /\ ydoc.timer
    /\ Quiet
    /\ ydoc' = [ydoc EXCEPT !.timer = FALSE]
    /\ writing' = writing \cup {ydoc.edits}
    /\ UNCHANGED <<mishaps, sessionVars, entry, inside, stored, received>>

\* When the last client leaves, writeState writes the document as it is, loaded or not.
Close(p) ==
    /\ p \in inside
    /\ inside' = inside \ {p}
    /\ IF inside = {p}
       THEN Quiet /\ ydoc' = NoDoc /\ writing' = writing \cup {ydoc.edits}
       ELSE UNCHANGED <<ydoc, writing>>
    /\ UNCHANGED <<mishaps, sessionVars, entry, stored, received>>

-----------------------------------------------------------------------------
Handler(c) ==
    \/ RefuseJoin(c)
    \/ LeaveToJoin(c)
    \/ Rejoin(c)
    \/ Enter(c)
    \/ ReadState(c)
    \/ SetEntry(c)
    \/ ApplyEdit(c)
    \/ Left(c)
    \/ FailLoad(c)

Message(c) == Join(c) \/ SendEdit(c) \/ Leave(c)

Connection(s) == Connect(s) \/ Disconnect(s) \/ Dropped(s)

Provider(p) == Open(p) \/ ProviderEdit(p) \/ Close(p)

Writes == Persist \/ ProviderPersist \/ \E state \in writing : Land(state)

LiveNext ==
    \/ \E c \in Calls : Message(c) \/ Handler(c)
    \/ \E s \in Sockets : Connection(s)
    \/ \E p \in Providers : Provider(p)
    \/ BindState
    \/ Writes
    \/ Evict

\* The document was edited before: yjs_state is set, and in nobody's memory.
LiveInit(before) ==
    /\ mishaps \in Cases
    /\ online = {}
    /\ stage = [c \in Calls |-> "idle"]
    /\ message = [c \in Calls |-> "none"]
    /\ loaded = [c \in Calls |-> {}]
    /\ joined = {}
    /\ dropping = {}
    /\ count = [u \in Users |-> 0]
    /\ entry = NoEntry
    /\ ydoc = NoDoc
    /\ inside = {}
    /\ writing = {}
    /\ stored = before
    /\ received = before

LiveSpec(before) == LiveInit(before) /\ [][LiveNext]_liveVars

\* Timers go off, and statements are answered.
LiveFairness == WF_liveVars(Writes) /\ \A c \in Calls : WF_liveVars(Handler(c))
=============================================================================
