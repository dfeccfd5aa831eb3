------------------------------ MODULE MCProjectRoom ------------------------------
(***************************************************************************)
(* An instance of what is around a project.  The modules write different   *)
(* tables, so a behaviour exercises one part and leaves the others in an   *)
(* initial state; chat is three parts, and so is its room with the sockets *)
(* in it, and accounts are two.                                            *)
(***************************************************************************)
EXTENDS ProjectRoomProps

VARIABLE part   \* the one that is exercised

\* For each clause of a property the most that may go wrong.
WorstTasks == {{"overlap"}, {"fail"}, {"delete"}}
WorstChats == {{"fail", "leave"}, {"overlap"}, {"drop"}}
WorstScores == {{}, {"parallel"}}
WorstPages == {{}, {"overlap"}, {"hand"}}
WorstSnags == {{}, {"rename"}, {"rival"}}

\* Bob has two clients.
Owners == [s \in Sockets |-> IF s = "s1" THEN "ann" ELSE "bob"]

\* One address, written in two ways.
Lower == [e \in Emails |-> "ann"]

\* Two lists that give all the students of a rubric the same, in opposite orders; one that tells
\* them apart; two that leave one of them out, one of which scores the other twice.
Entry(r, s, n) == [cell |-> <<r, s>>, points |-> n]
SampleBatches ==
    {<<Entry("first", "s1", 1), Entry("first", "s2", 1)>>,
     <<Entry("last", "s2", 1), Entry("last", "s1", 1), Entry("first", "s2", 2), Entry("first", "s1", 2)>>,
     <<Entry("first", "s1", 1), Entry("first", "s2", 2)>>,
     <<Entry("first", "s1", 2), Entry("first", "s1", 1), Entry("last", "s1", 1)>>,
     <<Entry("last", "s2", 2)>>}

allVars == <<part, taskVars, chatVars, realtimeVars, evaluationVars, pageVars, accountVars, poolVars, mailVars>>

Only(p, mishaps, first) == part = p \/ mishaps = first

Init ==
    /\ part \in {"tasks", "dm", "group", "sockets", "scores", "page", "accounts", "admins", "pool", "mail"}
    /\ TasksInit /\ Only("tasks", wrong, {"fail"})
    /\ ChatInit
    /\ RealtimeInit
    /\ part = "dm" => amiss # {"drop"}
    /\ part = "group" => amiss # {"drop"}
    /\ part = "sockets" => amiss # {"overlap"}
    /\ part \notin {"dm", "group", "sockets"} => amiss = {"drop"}
    /\ part \notin {"group", "sockets"} => members = Users
    /\ EvaluationsInit /\ Only("scores", trouble, {})
    /\ PageInit /\ Only("page", faults, {})
    /\ AccountsInit /\ (part \in {"accounts", "admins"} \/ snags = {})
    /\ part = "accounts" => snags # {"rival"}
    /\ part = "admins" => snags # {"rename"}
    /\ PoolInit /\ Only("pool", nested, {})
    /\ MailInit

Next ==
    \/ /\ part = "tasks" /\ TasksNext
       /\ UNCHANGED <<part, chatVars, realtimeVars, evaluationVars, pageVars, accountVars, poolVars, mailVars>>
    \/ /\ \/ part = "dm" /\ DmNext /\ UNCHANGED realtimeVars
          \/ part = "group" /\ GroupNext /\ UNCHANGED realtimeVars
          \/ part = "sockets" /\ RealtimeNext
       /\ UNCHANGED <<part, taskVars, evaluationVars, pageVars, accountVars, poolVars, mailVars>>
    \/ /\ part = "scores" /\ EvaluationsNext
       /\ UNCHANGED <<part, taskVars, chatVars, realtimeVars, pageVars, accountVars, poolVars, mailVars>>
    \/ /\ part = "page" /\ PageNext
       /\ UNCHANGED <<part, taskVars, chatVars, realtimeVars, evaluationVars, accountVars, poolVars, mailVars>>
    \/ /\ \/ part = "accounts" /\ JoinNext
          \/ part = "admins" /\ StatusNext
       /\ UNCHANGED <<part, taskVars, chatVars, realtimeVars, evaluationVars, pageVars, poolVars, mailVars>>
    \/ /\ part = "pool" /\ PoolNext
       /\ UNCHANGED <<part, taskVars, chatVars, realtimeVars, evaluationVars, pageVars, accountVars, mailVars>>
    \/ /\ part = "mail" /\ MailNext
       /\ UNCHANGED <<part, taskVars, chatVars, realtimeVars, evaluationVars, pageVars, accountVars, poolVars>>

Spec == Init /\ [][Next]_allVars /\ PoolFairness /\ MailFairness
=============================================================================
