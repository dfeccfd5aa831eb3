---------------------------------- MODULE Chat ----------------------------------
(***************************************************************************)
(* Direct chats, and the messages of one group chat: ChatController and    *)
(* ChatService on ChatRepository, which has no transaction anywhere.       *)
(*                                                                         *)
(* Times are ticks of the database, of which a millisecond has two: a time *)
(* that went through a JavaScript Date is the first tick of its            *)
(* millisecond.  A message's time is now() when its statement begins; it   *)
(* is seen when that commits.  "mishaps" of this module: "overlap" lets    *)
(* anything happen between the statements of a request, "fail" lets the    *)
(* opening of a chat end there, "leave" lets members leave the group.      *)
(*                                                                         *)
(* Left out: contents, names, avatars, lengths, the details of a chat, and *)
(* group chats but one: several differ in nothing.                         *)
(*                                                                         *)
(* A definition marked "Fault" is no part of the model: it is the          *)
(* definition after it with a mistake, which the properties must notice.   *)
(***************************************************************************)
EXTENDS Naturals, FiniteSets

CONSTANTS
    Users,
    MaxDms,         \* bound: direct chats made
    MaxTime,        \* bound: ticks of the clock
    PageSize,       \* messages on a page
    ChatMishaps     \* the sets of mishaps to look at

ASSUME ChatAssumption == PageSize \in Nat \ {0} /\ "none" \notin Users

VARIABLES
    dms,        \* members of the direct chats, in the order they were made
    opening,    \* the requests that open one
    members,    \* of the group chat
    lastRead,   \* chat_members.last_read_at
    messages,   \* of the group chat: <<time, sender>>
    sending,    \* time of the message a user's request inserts, 0 for none
    clock,
    pages,      \* what a user who pages back through the messages has got
    amiss       \* the mishaps

dmVars == <<dms, opening>>
groupVars == <<members, lastRead, messages, sending, clock, pages>>
chatVars == <<dmVars, groupVars, amiss>>

NotOpening == [at |-> "idle", other |-> "none", chat |-> 0]
NotPaging == [at |-> "idle", cursor |-> 0, got |-> {}, since |-> 0, twice |-> FALSE]

Millisecond(t) == t - (t % 2)

Undisturbed ==
    \/ "overlap" \in amiss
    \/ \A u \in Users : opening[u] = NotOpening /\ sending[u] = 0

-----------------------------------------------------------------------------
(* Direct chats. *)

\* findDmBetweenUsers
DmsBetween(u, v) == {c \in DOMAIN dms : {u, v} \subseteq dms[c]}

\* createChat: the chat that is there already is returned.
OpenDm(u, v) ==
    /\ Undisturbed
    /\ opening[u] = NotOpening
    /\ u # v
    /\ DmsBetween(u, v) = {}
    /\ opening' = [opening EXCEPT ![u] = [at |-> "create", other |-> v, chat |-> 0]]
    /\ UNCHANGED <<dms, groupVars, amiss>>

CreateDm(u) ==
    /\ opening[u].at = "create"
    /\ Cardinality(DOMAIN dms) < MaxDms
    /\ LET c == Cardinality(DOMAIN dms) + 1
       IN  /\ dms' = [d \in 1..c |-> IF d = c THEN {} ELSE dms[d]]
           /\ opening' = [opening EXCEPT ![u].at = "self", ![u].chat = c]
    /\ UNCHANGED <<groupVars, amiss>>

AddSelf(u) ==
    /\ opening[u].at = "self"
    /\ dms' = [dms EXCEPT ![opening[u].chat] = @ \cup {u}]
    /\ opening' = [opening EXCEPT ![u].at = "other"]
    /\ UNCHANGED <<groupVars, amiss>>

AddOther(u) ==
    /\ opening[u].at = "other"
    /\ dms' = [dms EXCEPT ![opening[u].chat] = @ \cup {opening[u].other}]
    /\ opening' = [opening EXCEPT ![u] = NotOpening]
    /\ UNCHANGED <<groupVars, amiss>>

FailToOpen(u) ==
    /\ "fail" \in amiss
    /\ opening[u] # NotOpening
    /\ opening' = [opening EXCEPT ![u] = NotOpening]
    /\ UNCHANGED <<dms, groupVars, amiss>>

\* removeMember, which is for direct chats too.
LeaveDm(u, c) ==
    /\ Undisturbed
    /\ u \in dms[c]
    /\ dms' = [dms EXCEPT ![c] = @ \ {u}]
    /\ UNCHANGED <<opening, groupVars, amiss>>

-----------------------------------------------------------------------------
(* The group chat. *)

\* addMembers: by a member, and not oneself; who is a member stays as it was.
AddMember(u, v) ==
    /\ Undisturbed
    /\ u \in members /\ v # u
    /\ members' = members \cup {v}
    /\ lastRead' = IF v \in members THEN lastRead ELSE [lastRead EXCEPT ![v] = clock]
    /\ UNCHANGED <<dmVars, messages, sending, clock, pages, amiss>>

\* removeMember: only oneself.
RemoveMember(u) ==
    /\ Undisturbed
    /\ "leave" \in amiss
    /\ u \in members
    /\ members' = members \ {u}
    /\ UNCHANGED <<dmVars, lastRead, messages, sending, clock, pages, amiss>>

Pass ==
    /\ Undisturbed
    /\ clock < MaxTime
    /\ clock' = clock + 1
    /\ UNCHANGED <<dmVars, members, lastRead, messages, sending, pages, amiss>>

\* sendMessage: membership is checked, and the statement begins.
SendMessage(u) ==
    /\ Undisturbed
    /\ u \in members
    /\ sending[u] = 0
    /\ clock < MaxTime
    /\ clock' = clock + 1
    /\ sending' = [sending EXCEPT ![u] = clock']
    /\ UNCHANGED <<dmVars, members, lastRead, messages, pages, amiss>>

CreateMessage(u) ==
    /\ sending[u] # 0
    /\ messages' = messages \cup {<<sending[u], u>>}
    /\ sending' = [sending EXCEPT ![u] = 0]
    /\ UNCHANGED <<dmVars, members, lastRead, clock, pages, amiss>>

\* markChatAsRead: the time of the message, as a Date; an earlier message too.
MarkChatAsRead(u, m) ==
    /\ Undisturbed
    /\ u \in members
    /\ m \in messages
    /\ lastRead' = [lastRead EXCEPT ![u] = Millisecond(m[1])]
    /\ UNCHANGED <<dmVars, members, messages, sending, clock, pages, amiss>>

\* The unread count of findUserChatsWithLastMessage.
Unread(u) == {m \in messages : m[1] > lastRead[u] /\ m[2] # u}

-----------------------------------------------------------------------------
(* Paging back. *)

\* The newest first, with one more to see whether there are more.
Newest(S, n) == {m \in S : Cardinality({k \in S : k[1] >= m[1]}) <= n}
Oldest(S) == CHOOSE m \in S : \A k \in S : m[1] <= k[1]

\* The page before the cursor, and whether there is more.
Found(p) == {m \in messages : p.at = "more" => m[1] < p.cursor}
HasMore(p) == Cardinality(Found(p)) > PageSize

ShowPage(u, last) ==
    LET p == pages[u]
        page == Newest(Found(p), PageSize)
    IN  /\ Undisturbed
        /\ u \in members
        /\ p.at # "done"
        /\ pages' = [pages EXCEPT ![u] =
               [at |-> IF HasMore(p) THEN "more" ELSE "done",
                cursor |-> IF HasMore(p) THEN Millisecond(last[1]) ELSE 0,
                got |-> p.got \cup page,
                since |-> IF p.at = "idle" THEN clock ELSE p.since,
                twice |-> p.twice \/ p.got \cap page # {}]]
        /\ UNCHANGED <<dmVars, members, lastRead, messages, sending, clock, amiss>>

\* Fault: the cursor is the time of the extra row.
GetPageByExtra(u) ==
    ShowPage(u, IF Found(pages[u]) = {} THEN <<0, u>>
                ELSE Oldest(Newest(Found(pages[u]), PageSize + 1)))

\* getChatMessagesPage, findMessagesByChatIdCursor: the cursor is the time of the last row
\* shown, which went through a Date.
GetPage(u) ==
    ShowPage(u, IF Found(pages[u]) = {} THEN <<0, u>>
                ELSE Oldest(Newest(Found(pages[u]), PageSize)))

-----------------------------------------------------------------------------

\* createProjectChat and the members that approval adds to it.
ChatInit ==
    /\ dms = << >>
    /\ opening = [u \in Users |-> NotOpening]
    /\ members \in SUBSET Users \ {{}}
    /\ lastRead = [u \in Users |-> 0]
    /\ messages = {}
    /\ sending = [u \in Users |-> 0]
    /\ clock = 0
    /\ pages = [u \in Users |-> NotPaging]
    /\ amiss \in ChatMishaps

DmNext ==
    \E u \in Users :
        \/ \E v \in Users : OpenDm(u, v)
        \/ CreateDm(u)
        \/ AddSelf(u)
        \/ AddOther(u)
        \/ FailToOpen(u)
        \/ \E c \in DOMAIN dms : LeaveDm(u, c)

GroupNext ==
    \/ Pass
    \/ \E u \in Users :
        \/ \E v \in Users : AddMember(u, v)
        \/ RemoveMember(u)
        \/ SendMessage(u)
        \/ CreateMessage(u)
        \/ \E m \in messages : MarkChatAsRead(u, m)
        \/ GetPage(u)
=============================================================================
