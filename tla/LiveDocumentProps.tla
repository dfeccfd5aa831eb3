--------------------------- MODULE LiveDocumentProps ---------------------------
(***************************************************************************)
(* What editing together promises, and what each promise depends on.       *)
(***************************************************************************)
EXTENDS LiveDocument

Without(kinds) == mishaps \cap kinds = {}

\* A socket in the room, until its disconnection has been handled.
Present(s) == s \in joined /\ (s \in online \/ s \in dropping)

ActiveSockets(u) == {s \in Sockets : userOf[s] = u /\ Present(s)}

\* collaboration.gateway.ts:73: the count of a user is the number of active sockets.
ExactPresence == \A u \in Users : count[u] = Cardinality(ActiveSockets(u))

\* No user is counted more often than there are sockets, so nobody who is gone is shown.
NoGhosts == \A u \in Users : count[u] <= Cardinality(ActiveSockets(u))

\* The presence counts are exact while calls of different sockets, edits and loads overlap in
\* any way, for clients that wait for the answer to a join or a leave.  The handlers do not
\* enforce that: two leaves in a burst both read client.data.collab before the flush and both
\* count down.  Even then nobody is shown who is not there.
PresenceIsExact ==
    /\ Without({"drop", "burst"}) => ExactPresence
    /\ Without({"drop"}) => NoGhosts

\* The document is referenced once by each session that is not just loading it, so it is in
\* memory while anybody edits it: eviction never takes a document in use, and a document
\* nobody uses does not stay for ever.  It takes clients that wait until a join or leave is
\* over: a second leave in a burst releases what another session holds, and a leave that
\* hurries after collab:joined finds nothing to release yet.
SessionsHoldDocument ==
    Without({"drop", "overlap", "fail", "burst", "hurry"}) =>
        LET loading == {socketOf[c] : c \in {d \in Calls : Entering(d)}}
        IN  /\ entry.refs = Cardinality({s \in Sockets : Present(s) /\ s \notin loading})
            /\ ~entry.exists => \A s \in Sockets : Present(s) => s \in loading

\* Where an edit can be on the server.
Kept == stored \cup entry.edits \cup ydoc.edits \cup UNION writing

\* db/schema/document.ts: yjs_state "represents the full doc state".  An edit that a server
\* has applied is stored, or in the document in memory, which will be stored.
NothingIsLost == received \subseteq Kept

\* Eviction, joining and editing lose nothing, even if clients wait for no answer, connections
\* break, references are released twice and loads fail, while only one server is used, loads do
\* not overlap and writes land in order.
EvictionLosesNothing == Without({"overlap", "late", "provider"}) => NothingIsLost

\* An edit that was applied reaches the database, whether the timer or eviction writes it.
EditsAreStored ==
    \A e \in Edits :
        e \in received /\ Without({"overlap", "late", "provider"}) ~> e \in stored
=============================================================================
