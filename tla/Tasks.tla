---------------------------------- MODULE Tasks ----------------------------------
(***************************************************************************)
(* The tasks of one project, their activity and their comments: every      *)
(* operation of TasksService that writes.                                  *)
(*                                                                         *)
(* A request is the sequence of its statements, each of which commits by   *)
(* itself; createTask counts and inserts in a transaction, but under READ  *)
(* COMMITTED the count is a statement like any other.  "mishaps" of this   *)
(* module: "overlap" lets anything happen between the statements of a      *)
(* request, "fail" lets it end there, "delete" lets tasks be deleted.      *)
(*                                                                         *)
(* Left out: titles, descriptions, due dates, filters, names, lists;       *)
(* priorities and assignees, which are recorded as the status is (of an    *)
(* assignee without saying who); the summary, which reads only, and cannot *)
(* be had once a task has an assignee (see the README); who is asking, as  *)
(* members of a project stay members and others get no further.            *)
(*                                                                         *)
(* A definition marked "Fault" is no part of the model: it is the          *)
(* definition after it with a mistake, which the properties must notice.   *)
(***************************************************************************)
EXTENDS Naturals, Sequences, FiniteSets

CONSTANTS
    Tasks,
    Members,        \* of the project, each with a request at the most
    TaskStatuses,   \* those of task_status to look at
    MaxActivity,    \* bound: rows of the feed, counting the requests in progress
    TaskMishaps     \* the sets of mishaps to look at

ASSUME TasksAssumption ==
    /\ "none" \notin Members
    /\ TaskStatuses \subseteq {"todo", "in_progress", "review", "done"}

VARIABLES
    task,       \* tasks: task_code, status, created_by; NoTaskRow for no row
    feed,       \* task_activity, which is read by task: its records, the latest last
    comments,   \* how many rows of task_comments a task has
    working,    \* the requests in progress
    answer,     \* what the last request returned, until the next one begins
    wrong       \* the mishaps

taskVars == <<task, feed, comments, working, answer, wrong>>

NoTaskRow == [code |-> 0, status |-> "none", by |-> "none"]
NotWorking == [at |-> "idle", task |-> "none", status |-> "none", before |-> "none", count |-> 0]
NoAnswer == [to |-> "none", commentOf |-> "none"]
Rows == {t \in Tasks : task[t] # NoTaskRow}
CountTasks == Cardinality(Rows)
Activity == UNION {{t} \X DOMAIN feed[t] : t \in Tasks}

Quiet == "overlap" \in wrong \/ \A m \in Members : working[m] = NotWorking
Start(m, w) ==
    /\ Quiet
    /\ working[m] = NotWorking
    /\ Cardinality(Activity) + Cardinality({n \in Members : working[n] # NotWorking}) < MaxActivity
    /\ working' = [working EXCEPT ![m] = w]
    /\ answer' = NoAnswer
Continue(m, at) == working' = [working EXCEPT ![m].at = at]
Finish(m) == working' = [working EXCEPT ![m] = NotWorking]

\* createActivity: from and to are the words of detail; task_activity has a foreign key.
CreateActivity(t, m, action, from, to) ==
    feed' = [feed EXCEPT ![t] = Append(@, [by |-> m, action |-> action, from |-> from, to |-> to])]

-----------------------------------------------------------------------------
(* createTask *)

\* Fault: what is done does not count.
CountOpen(m) ==
    /\ Start(m, [NotWorking EXCEPT !.at = "insert",
                                   !.count = Cardinality({t \in Rows : task[t].status # "done"})])
    /\ UNCHANGED <<task, feed, comments, wrong>>

Count(m) ==
    /\ Start(m, [NotWorking EXCEPT !.at = "insert", !.count = CountTasks])
    /\ UNCHANGED <<task, feed, comments, wrong>>

InsertTask(m, t, status) ==
    /\ working[m].at = "insert"
    /\ t \notin Rows
    /\ \A n \in Members : working[n].task # t      \* ids are not used again
    /\ task' = [task EXCEPT ![t] = [code |-> working[m].count + 1, status |-> status, by |-> m]]
    /\ working' = [working EXCEPT ![m].at = "created", ![m].task = t]
    /\ UNCHANGED <<feed, comments, answer, wrong>>

RecordCreated(m) ==
    LET t == working[m].task
    IN  /\ working[m].at = "created"
        /\ IF t \in Rows THEN CreateActivity(t, m, "created", "none", "none")
                         ELSE UNCHANGED feed
        /\ Finish(m)
        /\ UNCHANGED <<task, comments, answer, wrong>>

-----------------------------------------------------------------------------
(* updateTask; the status is "same" if the request does not name it. *)

ReadTask(m, t, status) ==
    /\ t \in Rows
    /\ Start(m, [NotWorking EXCEPT !.at = "update", !.task = t, !.status = status,
                                   !.before = task[t].status])
    /\ UNCHANGED <<task, feed, comments, wrong>>

UpdateTask(m) ==
    LET w == working[m]
    IN  /\ w.at = "update"
        /\ task' = IF w.task \notin Rows \/ w.status = "same" THEN task
                   ELSE [task EXCEPT ![w.task].status = w.status]
        /\ IF w.status \in {"same", w.before} THEN Finish(m) ELSE Continue(m, "updated")
        /\ UNCHANGED <<feed, comments, answer, wrong>>

\* "from" is the status that was read before the update.
RecordUpdate(m) ==
    LET w == working[m]
    IN  /\ w.at = "updated"
        /\ IF w.task \in Rows THEN CreateActivity(w.task, m, "status_changed", w.before, w.status)
                              ELSE UNCHANGED feed
        /\ Finish(m)
        /\ UNCHANGED <<task, comments, answer, wrong>>

\* deleteTask: by its creator; activity and comments go with it.
DeleteTask(m, t) ==
    /\ Quiet
    /\ working[m] = NotWorking
    /\ "delete" \in wrong
    /\ t \in Rows
    /\ task[t].by = m
    /\ task' = [task EXCEPT ![t] = NoTaskRow]
    /\ feed' = [feed EXCEPT ![t] = <<>>]
    /\ comments' = [comments EXCEPT ![t] = 0]
    /\ UNCHANGED <<working, answer, wrong>>

-----------------------------------------------------------------------------
(* addComment *)

CreateComment(m, t) ==
    /\ t \in Rows
    /\ Start(m, [NotWorking EXCEPT !.at = "comment", !.task = t])
    /\ comments[t] < MaxActivity
    /\ comments' = [comments EXCEPT ![t] = @ + 1]
    /\ UNCHANGED <<task, feed, wrong>>

RecordComment(m) ==
    LET t == working[m].task
    IN  /\ working[m].at = "comment"
        /\ IF t \in Rows
           THEN CreateActivity(t, m, "commented", "none", "none") /\ Continue(m, "reply")
           ELSE UNCHANGED feed /\ Finish(m)
        /\ UNCHANGED <<task, comments, answer, wrong>>

\* The latest activity of the task, whoever's it is.
ReplyComment(m) ==
    LET of == feed[working[m].task]
    IN  /\ working[m].at = "reply"
        /\ answer' = [NoAnswer EXCEPT !.to = m, !.commentOf =
               IF of # <<>> /\ of[Len(of)].action = "commented" THEN of[Len(of)].by ELSE "none"]
        /\ Finish(m)
        /\ UNCHANGED <<task, feed, comments, wrong>>

\* A statement fails or the server stops; bound: once.
Abort(m) ==
    /\ "fail" \in wrong
    /\ working[m] # NotWorking
    /\ wrong' = (wrong \ {"fail"}) \cup {"failed"}
    /\ Finish(m)
    /\ UNCHANGED <<task, feed, comments, answer>>

-----------------------------------------------------------------------------

TasksInit ==
    /\ task = [t \in Tasks |-> NoTaskRow]
    /\ feed = [t \in Tasks |-> <<>>]
    /\ comments = [t \in Tasks |-> 0]
    /\ working = [m \in Members |-> NotWorking]
    /\ answer = NoAnswer
    /\ wrong \in TaskMishaps

TasksNext ==
    \E m \in Members :
        \/ Count(m)
        \/ \E t \in Tasks, s \in TaskStatuses : InsertTask(m, t, s)
        \/ \E t \in Tasks, s \in TaskStatuses \cup {"same"} : ReadTask(m, t, s)
        \/ RecordCreated(m)
        \/ UpdateTask(m)
        \/ RecordUpdate(m)
        \/ \E t \in Tasks : DeleteTask(m, t) \/ CreateComment(m, t)
        \/ RecordComment(m)
        \/ ReplyComment(m)
        \/ Abort(m)

TasksSpec == TasksInit /\ [][TasksNext]_taskVars
=============================================================================
