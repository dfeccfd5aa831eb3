------------------------------- MODULE MailQueue -------------------------------
(***************************************************************************)
(* Mails: the requests that queue one when their own work is committed     *)
(* (MailProducer), and the queue's jobs, each tried by MailProcessor and   *)
(* MailService as often as its kind allows.                                *)
(*                                                                         *)
(* Bull keeps the jobs in Redis, tries a job again while it throws and has *)
(* attempts left, and starts a job again, once, when the server stopped    *)
(* working on it; this is modelled as the options of the code use it.  An  *)
(* attempt is answered by the mail server: accepted, refused, or accepted  *)
(* without the answer arriving.                                            *)
(*                                                                         *)
(* Left out: the text of mails, backoff times, the order of mails, which   *)
(* nothing keeps; addresses that are none, for which no mail is sent;      *)
(* mails of defences and of passwords, which nothing queues.               *)
(*                                                                         *)
(* A definition marked "Fault" is no part of the model: it is the          *)
(* definition after it with a mistake, which the properties must notice.   *)
(***************************************************************************)
EXTENDS Naturals

CONSTANTS
    MaxMails,       \* bound: mails to send
    MaxStops        \* bound: how often the server stops

ASSUME MailAssumption == MaxMails \in Nat /\ MaxStops \in Nat

VARIABLES
    mail,       \* what is sent, by which request, and what the request answered
    job,        \* of the queue: where it is, attempts made, times started over, times sent
    stops

mailVars == <<mail, job, stops>>

Mails == 1..MaxMails
Kinds == {"welcome", "status", "invitation"}
NoMail == [kind |-> "none", adding |-> FALSE, answer |-> "none"]
NoJob == [at |-> "none", made |-> 0, stalled |-> 0, sent |-> 0]

\* The option attempts of add...EmailJob.
Attempts(kind) == IF kind = "status" THEN 2 ELSE 3

Move(i, at) == job' = [job EXCEPT ![i].at = at]

-----------------------------------------------------------------------------
(* Requests *)

\* register does not wait for the queue; what it does is answered at once.
Welcome(i) ==
    /\ mail[i] = NoMail
    /\ mail' = [mail EXCEPT ![i] = [kind |-> "welcome", adding |-> TRUE, answer |-> "done"]]
    /\ UNCHANGED <<job, stops>>

\* acceptStep and the other decisions, when they are committed: the creator is looked up.
DecisionMade(i) ==
    /\ mail[i] = NoMail
    /\ \/ mail' = [mail EXCEPT ![i] = [kind |-> "status", adding |-> TRUE, answer |-> "none"]]
       \/ mail' = [mail EXCEPT ![i] = [kind |-> "status", adding |-> FALSE, answer |-> "error"]]
    /\ UNCHANGED <<job, stops>>

\* inviteUser: the invitation's row is there.
Invite(i) ==
    /\ mail[i] = NoMail
    /\ mail' = [mail EXCEPT ![i] = [kind |-> "invitation", adding |-> TRUE, answer |-> "none"]]
    /\ UNCHANGED <<job, stops>>

AddJob(i) ==
    /\ mail[i].adding
    /\ mail' = [mail EXCEPT ![i].adding = FALSE, ![i].answer = "done"]
    /\ Move(i, "waiting")
    /\ UNCHANGED stops

\* Redis fails: only inviteUser tells.
FailToAdd(i) ==
    /\ mail[i].adding
    /\ mail' = [mail EXCEPT ![i].adding = FALSE,
                            ![i].answer = IF mail[i].kind = "invitation" THEN "error" ELSE "done"]
    /\ UNCHANGED <<job, stops>>

-----------------------------------------------------------------------------
(* Jobs *)

\* Bull calls the handler of the job's kind.
Process(i) ==
    /\ job[i].at = "waiting"
    /\ Move(i, "active")
    /\ UNCHANGED <<mail, stops>>

\* Thrown by sendEmail, and by the handler again: another attempt later, or none.
Throw(i, sent) ==
    job' = [job EXCEPT ![i].made = @ + 1, ![i].sent = @ + sent,
                       ![i].at = IF job[i].made + 1 < Attempts(mail[i].kind) THEN "delayed"
                                 ELSE "failed"]

\* sendEmail: the mail server accepts the mail, and says so.
SendEmail(i) ==
    /\ job[i].at = "active"
    /\ job' = [job EXCEPT ![i].made = @ + 1, ![i].sent = @ + 1, ![i].at = "completed"]
    /\ UNCHANGED <<mail, stops>>

\* Fault: the handler does not throw the error again.
SwallowError(i) ==
    /\ job[i].at = "active"
    /\ job' = [job EXCEPT ![i].made = @ + 1, ![i].at = "completed"]
    /\ UNCHANGED <<mail, stops>>

\* The mail server does not accept it, or nobody hears that it does.
HandlerFails(i) ==
    /\ job[i].at = "active"
    /\ \E sent \in {0, 1} : Throw(i, sent)
    /\ UNCHANGED <<mail, stops>>

\* The backoff is over.
Retry(i) ==
    /\ job[i].at = "delayed"
    /\ Move(i, "waiting")
    /\ UNCHANGED <<mail, stops>>

\* What is not in Redis yet is lost; a job in progress, whose mail may be sent, stalls, and is
\* started over once.
StopServer ==
    /\ stops < MaxStops
    /\ stops' = stops + 1
    /\ mail' = [i \in Mails |->
           IF ~mail[i].adding THEN mail[i]
           ELSE [mail[i] EXCEPT !.adding = FALSE,
                                !.answer = IF @ = "none" THEN "error" ELSE @]]
    /\ \E sent \in [Mails -> {0, 1}] :
           /\ \A i \in Mails : job[i].at # "active" => sent[i] = 0
           /\ job' = [i \in Mails |->
                  IF job[i].at # "active" THEN job[i]
                  ELSE [job[i] EXCEPT !.stalled = @ + 1, !.sent = @ + sent[i],
                                      !.at = IF job[i].stalled = 0 THEN "waiting" ELSE "failed"]]

-----------------------------------------------------------------------------

MailInit ==
    /\ mail = [i \in Mails |-> NoMail]
    /\ job = [i \in Mails |-> NoJob]
    /\ stops = 0

\* Redis answers, the queue is worked on, and so is the mail server.
JobStep(i) == AddJob(i) \/ FailToAdd(i) \/ Process(i) \/ SendEmail(i) \/ HandlerFails(i) \/ Retry(i)

MailNext ==
    \/ \E i \in Mails : Welcome(i) \/ DecisionMade(i) \/ Invite(i) \/ JobStep(i)
    \/ StopServer

MailFairness == \A i \in Mails : WF_mailVars(JobStep(i))
=============================================================================
