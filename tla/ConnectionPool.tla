----------------------------- MODULE ConnectionPool -----------------------------
(***************************************************************************)
(* The pool of connections that all requests share (DrizzleService): as    *)
(* many connections as pg's Pool makes unless told otherwise, first come   *)
(* first served, and no limit on waiting.                                  *)
(*                                                                         *)
(* A statement takes a connection and gives it back; a transaction keeps   *)
(* its connection until it ends.  Some handlers run statements of their    *)
(* repositories inside the callback of a transaction, but not on it: these *)
(* take a second connection while they keep the first.  Such a request is  *)
(* "nested" here; any request is one transaction or one statement.         *)
(*                                                                         *)
(* Left out: connections that break, and how long statements take.         *)
(*                                                                         *)
(* A definition marked "Fault" is no part of the model: it is the          *)
(* definition after it with a mistake, which the properties must notice.   *)
(***************************************************************************)
EXTENDS Naturals, Sequences, FiniteSets

CONSTANTS
    Requests,       \* that may be in progress at once
    PoolSize

ASSUME PoolAssumption == IsFiniteSet(Requests) /\ PoolSize \in Nat \ {0}

VARIABLES
    phase,      \* "idle", "begin" waits, "in" has one, "inner" waits for a second, "last" had it
    extra,      \* the requests that have a second connection
    queue,      \* who waits, the first in line first
    nested      \* the requests that take a second connection

poolVars == <<phase, extra, queue, nested>>

Phases == {"idle", "begin", "in", "inner", "last"}

Holding == {r \in Requests : phase[r] \in {"in", "inner", "last"}}
InUse == Cardinality(Holding) + Cardinality(extra)
Free == InUse < PoolSize
Waiting(r) == \E i \in 1..Len(queue) : queue[i] = r

-----------------------------------------------------------------------------

\* transaction(), or a statement on the pool
Connect(r) ==
    /\ phase[r] = "idle"
    /\ phase' = [phase EXCEPT ![r] = "begin"]
    /\ queue' = Append(queue, r)
    /\ UNCHANGED <<extra, nested>>

\* Fault: the handler first waits for something that happens when the transaction has ended.
ConnectAfterwards(r) ==
    /\ phase[r] = "in"
    /\ r \in nested
    /\ phase' = [phase EXCEPT ![r] = "inner"]
    /\ UNCHANGED <<extra, queue, nested>>

\* A statement that is not on the transaction.
ConnectAgain(r) ==
    /\ phase[r] = "in"
    /\ r \in nested
    /\ phase' = [phase EXCEPT ![r] = "inner"]
    /\ queue' = Append(queue, r)
    /\ UNCHANGED <<extra, nested>>

\* The pool serves the first in line.
Grant ==
    /\ Free
    /\ queue # <<>>
    /\ LET r == Head(queue)
       IN  IF phase[r] = "begin"
           THEN phase' = [phase EXCEPT ![r] = "in"] /\ UNCHANGED extra
           ELSE extra' = extra \cup {r} /\ UNCHANGED phase
    /\ queue' = Tail(queue)
    /\ UNCHANGED nested

\* The statement has been answered.
ReleaseSecond(r) ==
    /\ r \in extra
    /\ extra' = extra \ {r}
    /\ phase' = [phase EXCEPT ![r] = "last"]
    /\ UNCHANGED <<queue, nested>>

\* Committed or rolled back.
Release(r) ==
    /\ \/ phase[r] = "last"
       \/ phase[r] = "in" /\ r \notin nested
    /\ phase' = [phase EXCEPT ![r] = "idle"]
    /\ UNCHANGED <<extra, queue, nested>>

PoolInit ==
    /\ phase = [r \in Requests |-> "idle"]
    /\ extra = {}
    /\ queue = <<>>
    /\ nested \in SUBSET Requests

Advance(r) == ConnectAgain(r) \/ ReleaseSecond(r) \/ Release(r)

PoolNext ==
    \/ Grant
    \/ \E r \in Requests : Connect(r) \/ Advance(r)

\* The pool serves, the database answers, and handlers go on; nobody need begin.
PoolFairness ==
    /\ WF_poolVars(Grant)
    /\ \A r \in Requests : WF_poolVars(Advance(r))

PoolSpec == PoolInit /\ [][PoolNext]_poolVars /\ PoolFairness
=============================================================================
