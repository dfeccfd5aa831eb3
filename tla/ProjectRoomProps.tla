----------------------------- MODULE ProjectRoomProps -----------------------------
(***************************************************************************)
(* What holds around a project: its tasks, chat, evaluation and public     *)
(* page, the accounts of its people, and the connections they share.       *)
(***************************************************************************)
EXTENDS Tasks, Realtime, Evaluations, ProjectPage, Accounts, ConnectionPool,
        MailQueue

-----------------------------------------------------------------------------
(* Tasks. *)

Idle(t) == \A m \in Members : working[m].task # t

\* The records of its creation and of its changes of status, those after one, and its comments.
Changes(t) == {i \in DOMAIN feed[t] : feed[t][i].action # "commented"}
Later(t, i) == {j \in Changes(t) : j > i}
CommentsOf(t) == DOMAIN feed[t] \ Changes(t)

\* The task was created, then each change began where the last one ended, and the last ended in
\* this status.
Tells(t, status) ==
    /\ 1 \in Changes(t) /\ feed[t][1].action = "created"
    /\ \A i \in Changes(t) \ {1} :
        /\ feed[t][i].action = "status_changed"
        /\ Later(t, i) = {} => feed[t][i].to = status
        /\ \A j \in Later(t, i) : (\A k \in Later(t, i) : j <= k) => feed[t][i].to = feed[t][j].from

\* Codes number the tasks, as long as none is deleted and requests do not overlap ("Generate
\* taskCode atomically inside a transaction to prevent race conditions", tasks.service.ts, is
\* not what READ COMMITTED does); if they neither overlap nor fail, the activity tells how each
\* task came to its status, and counts its comments; and if they do not overlap, a comment's
\* reply, which is the latest activity of the task, is that comment.
TasksAddUp ==
    /\ wrong \cap {"overlap", "delete"} = {} => {task[t].code : t \in Rows} = 1..CountTasks
    /\ wrong \cap {"overlap", "failed"} = {} =>
           \A t \in Rows : Idle(t) =>
               /\ Tells(t, task[t].status)
               /\ comments[t] = Cardinality(CommentsOf(t))
    /\ "overlap" \notin wrong => answer.commentOf = answer.to

-----------------------------------------------------------------------------
(* Chat. *)

\* Two users have one direct chat, if requests that make one do not overlap.
OneDm ==
    "overlap" \notin amiss =>
        \A u, v \in Users : u # v => Cardinality({c \in DOMAIN dms : dms[c] = {u, v}}) <= 1

\* Who pages back to the beginning gets no message twice, and, if nothing is sent meanwhile
\* with an earlier time, every message but those of the same millisecond as the last of a page.
PagesAreWhole ==
    \A u \in Users :
        LET p == pages[u]
        IN  /\ ~p.twice
            /\ "overlap" \notin amiss /\ p.at = "done" =>
                   \A m \in messages : m[1] <= p.since =>
                       \E g \in p.got : m[1] <= g[1] /\ Millisecond(m[1]) = Millisecond(g[1])

\* The client of a connected socket takes those to be online who are, and these are the users
\* with a socket, unless one was dropped while its user was looked up; and unless members
\* leave, the sockets in the room are members'.
PresenceIsTrue ==
    /\ \A s \in Sockets : handler[s] \in {"on", "join"} => told[s] = OnlineUsers
    /\ "drop" \notin amiss =>
           OnlineUsers = {UserOf[s] : s \in {x \in Sockets : handler[x] \in {"joining", "on", "join"}}}
    /\ "leave" \notin amiss => \A s \in room : UserOf[s] \in members

\* A message that appears is unread by every other member, unless it took so long that a later
\* one was read before.
NewIsUnread ==
    "overlap" \notin amiss =>
        \A m \in messages' \ messages : \A u \in members \ {m[2]} : m \in Unread(u)'

\* Whatever users do at once with their chats, pages, marks, sockets and rooms.
ChatIsSound ==
    /\ [](OneDm /\ PagesAreWhole /\ PresenceIsTrue)
    /\ [][NewIsUnread]_chatVars

-----------------------------------------------------------------------------
(* Evaluation. *)

\* As long as every list that scores a rubric gives all the students the same points ("sends
\* explicit duplicate scores for each student", evaluations.service.ts), which nothing checks,
\* and lists written in parallel neither overlap nor fail, the students have one score, to the
\* evaluator and the project, whatever transactions overlap, wait for each other or are aborted,
\* whatever else the lists score and whatever is decided meanwhile.  And so, while the proposal
\* is in one of the two lists with this rubric, the rubric is done for the one evaluator whose
\* score it is, and still asked of all the others.
Offered(r) == project = "running" \/ (standing = "open" /\ r \notin ProjectRubrics)
DoneFor(r) == {e \in Evaluators : r \notin GetProposals(e) \cup GetProjects(e)}

ScoresAddUp ==
    "parallel" \notin trouble /\ (\A e \in Evaluators : ~Parallel(e)) =>
        \A r \in Rubrics \ uneven :
            /\ Cardinality({scores[r, s] : s \in Students}) = 1
            /\ Offered(r) =>
                   Cardinality(DoneFor(r)) = IF \E s \in Students : scores[r, s] # NoScore THEN 1 ELSE 0

-----------------------------------------------------------------------------
(* The public page. *)

\* A file of the page is stored and recorded, wherever an upload stops and whatever overlaps; if
\* clients give no URLs of their own the banner's URL is its file's, and so is the public
\* file's if publishing does not overlap an upload.  What is public has a date, and a project
\* under review a defence.
PageIsSound ==
    /\ \A a \in Assets : page[a].id # "none" => page[a].id \in stored \cap records
    /\ "hand" \notin faults => page["banner"].id = page["banner"].url
    /\ faults = {} => page["file"].id = page["file"].url
    /\ page.public <=> page.published
    /\ stage = "Under_Review" => defences > 0

-----------------------------------------------------------------------------
(* Accounts. *)

MadeBy(i) == {u \in UserIds : accounts[u].by = i}

\* The role an account was made with, "none" if it is gone.
MadeWith(u) ==
    IF u \in Administrators THEN "SYSTEM_ADMIN"
    ELSE IF accounts[u].by # 0 THEN invitations[accounts[u].by].role
    ELSE "STUDENT"

\* However registrations and acceptances of one address overlap, roles are deleted and
\* transactions fail: there is one account for an address; an account has a token, and its role
\* while that exists; an invitation is accepted if and only if it made an account, and made only
\* one, unless an address was changed meanwhile; and an administrator is left to let others in,
\* as long as administrators suspend neither themselves nor each other at once, and do not delete
\* the role that makes them administrators, which nothing keeps them from.
AccountsAreSound ==
    /\ \A u \in UserIds :
        /\ FindByEmail(accounts[u].email) = {u}
        /\ \E t \in tokens : t[1] = u
        /\ MadeWith(u) \in roleRows => MadeWith(u) \in accounts[u].roles
    /\ "rename" \notin snags =>
           \A i \in DOMAIN invitations :
               Cardinality(MadeBy(i)) = IF invitations[i].accepted THEN 1 ELSE 0
    /\ "rival" \notin snags /\ "SYSTEM_ADMIN" \in roleRows => \E a \in Administrators : Authorised(a)

-----------------------------------------------------------------------------
(* What waits: for connections, and for the mail server. *)

\* The job was done, and the mail sent, or it was given up after as many attempts as its kind
\* has or after the server stopped twice.
JobEnded(i) ==
    \/ job[i].at = "completed" /\ job[i].sent > 0
    \/ job[i].at = "failed" /\ (job[i].made = Attempts(mail[i].kind) \/ job[i].stalled = 2)

\* Nothing was queued, which the administrator is told of an invitation, or the job has ended
\* and sent no more mails than it had attempts and one for each stop.
MailEnded(i) ==
    IF job[i].at = "none" THEN ~mail[i].adding /\ (mail[i].kind = "invitation" => mail[i].answer = "error")
    ELSE JobEnded(i) /\ job[i].sent <= Attempts(mail[i].kind) + stops

\* Every request that takes connections ends, as long as fewer than the connections there are
\* take a second one (saveDocument does, inside its transaction); and every mail is sent or
\* given up, whatever Redis, the mail server and the server itself do to it.
WorkEnds ==
    /\ \A r \in Requests :
           (Cardinality(nested) < PoolSize /\ phase[r] # "idle") ~> phase[r] = "idle"
    /\ \A i \in Mails : mail[i].kind # "none" ~> MailEnded(i)
=============================================================================
