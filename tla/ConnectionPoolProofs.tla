-------------------------- MODULE ConnectionPoolProofs --------------------------
(***************************************************************************)
(* Requests cannot all wait for each other's connections, as long as fewer *)
(* of them take a second connection than the pool has.                     *)
(*                                                                         *)
(* When everybody who holds a connection waits for a second one, each of   *)
(* them is one of those that take a second and none has it yet: so there   *)
(* are at least as many of them as connections.  For this PoolInv says who *)
(* waits in line, that nobody waits twice, and that a second connection is *)
(* had only by those who asked for it; InUse <= PoolSize goes with it.     *)
(***************************************************************************)
EXTENDS ConnectionPool, FiniteSetTheorems, SequenceTheorems, TLAPS

PoolTypeOK ==
    /\ phase \in [Requests -> Phases]
    /\ extra \subseteq Requests
    /\ queue \in Seq(Requests)
    /\ nested \subseteq Requests

\* Who is in line waits, and has not been served; and is there once.
InLine ==
    /\ \A i \in 1..Len(queue) : phase[queue[i]] \in {"begin", "inner"} /\ queue[i] \notin extra
    /\ \A i, j \in 1..Len(queue) : queue[i] = queue[j] => i = j

\* Who waits is in line.
AreInLine ==
    \A r \in Requests :
        /\ phase[r] = "begin" => Waiting(r)
        /\ phase[r] = "inner" /\ r \notin extra => Waiting(r)

\* A second connection is for the requests that take one, while they use it.
SecondConnections ==
    /\ \A r \in extra : phase[r] = "inner"
    /\ \A r \in Requests : phase[r] = "inner" => r \in nested

\* The pool makes no more connections than it may.
WithinPool == InUse <= PoolSize

PoolInv ==
    /\ PoolTypeOK
    /\ InLine
    /\ AreInLine
    /\ SecondConnections
    /\ WithinPool

\* A request in progress that needs nobody else for its next step, or the pool can serve.
SomebodyMoves ==
    \/ Free /\ queue # <<>>
    \/ \E r \in Requests : phase[r] \in {"in", "last"} \/ r \in extra

\* Not everybody waits for everybody.
NoGridlock ==
    Cardinality(nested) < PoolSize /\ (\E r \in Requests : phase[r] # "idle") => SomebodyMoves
-----------------------------------------------------------------------------
(* The line. *)

\* Whoever joins the line is last in it.
LEMMA LineGrows ==
    ASSUME NEW r \in Requests, PoolTypeOK, queue' = Append(queue, r)
    PROVE  /\ queue' \in Seq(Requests)
           /\ Len(queue') = Len(queue) + 1
           /\ \A i \in 1..Len(queue) : queue'[i] = queue[i]
           /\ queue'[Len(queue) + 1] = r
           /\ \A q \in Requests : Waiting(q)' <=> Waiting(q) \/ q = r
<1>1. /\ queue' \in Seq(Requests)
      /\ Len(queue') = Len(queue) + 1
      /\ \A i \in 1..Len(queue) : queue'[i] = queue[i]
      /\ queue'[Len(queue) + 1] = r
      /\ Len(queue) \in Nat
  BY AppendProperties DEF PoolTypeOK
<1>2. ASSUME NEW q \in Requests PROVE Waiting(q)' <=> Waiting(q) \/ q = r
  <2>1. ASSUME Waiting(q)' PROVE Waiting(q) \/ q = r
    <3>1. PICK i \in 1..Len(queue') : queue'[i] = q
      BY <2>1 DEF Waiting
    <3>2. CASE i = Len(queue) + 1
      BY <3>1, <3>2, <1>1
    <3>3. CASE i # Len(queue) + 1
      <4>1. i \in 1..Len(queue)
        BY <3>3, <1>1
      <4> QED BY <4>1, <3>1, <1>1 DEF Waiting
    <3> QED BY <3>2, <3>3
  <2>2. ASSUME Waiting(q) PROVE Waiting(q)'
    <3>1. PICK i \in 1..Len(queue) : queue[i] = q
      BY <2>2 DEF Waiting
    <3>2. i \in 1..Len(queue')
      BY <1>1
    <3> QED BY <3>1, <3>2, <1>1 DEF Waiting
  <2>3. ASSUME q = r PROVE Waiting(q)'
    <3>1. Len(queue) + 1 \in 1..Len(queue')
      BY <1>1
    <3> QED BY <3>1, <2>3, <1>1 DEF Waiting
  <2> QED BY <2>1, <2>2, <2>3
<1> QED BY <1>1, <1>2

\* Serving the first in line takes that one out of it, and moves the others up.
LEMMA LineAdvances ==
    ASSUME PoolTypeOK, InLine, queue # <<>>, queue' = Tail(queue)
    PROVE  /\ Head(queue) \in Requests
           /\ Head(queue) = queue[1]
           /\ 1 \in 1..Len(queue)
           /\ queue' \in Seq(Requests)
           /\ Len(queue') = Len(queue) - 1
           /\ \A i \in 1..Len(queue') : queue'[i] = queue[i + 1] /\ i + 1 \in 1..Len(queue)
           /\ \A q \in Requests : Waiting(q)' <=> Waiting(q) /\ q # Head(queue)
<1>1. /\ Head(queue) \in Requests
      /\ queue' \in Seq(Requests)
      /\ Len(queue') = Len(queue) - 1
      /\ \A i \in 1..Len(queue') : queue'[i] = queue[i + 1]
  BY HeadTailProperties DEF PoolTypeOK
<1>2. Len(queue) \in Nat /\ Len(queue) # 0
  BY EmptySeq, LenProperties DEF PoolTypeOK
<1>3. Head(queue) = queue[1]
  BY DEF PoolTypeOK
<1>4. /\ 1 \in 1..Len(queue)
      /\ \A i \in 1..Len(queue') : i + 1 \in 1..Len(queue)
  BY <1>1, <1>2
<1>5. ASSUME NEW q \in Requests PROVE Waiting(q)' <=> Waiting(q) /\ q # Head(queue)
  <2>1. ASSUME Waiting(q)' PROVE Waiting(q) /\ q # Head(queue)
    <3>1. PICK i \in 1..Len(queue') : queue'[i] = q
      BY <2>1 DEF Waiting
    <3>2. queue[i + 1] = q /\ i + 1 \in 1..Len(queue) /\ i + 1 # 1
      BY <3>1, <1>1, <1>2, <1>4
    <3>3. queue[1] # q
      BY <3>2, <1>4 DEF InLine
    <3> QED BY <3>2, <3>3, <1>3 DEF Waiting
  <2>2. ASSUME Waiting(q), q # Head(queue) PROVE Waiting(q)'
    <3>1. PICK i \in 1..Len(queue) : queue[i] = q
      BY <2>2 DEF Waiting
    <3>2. i # 1
      BY <3>1, <2>2, <1>3
    <3>3. i - 1 \in 1..Len(queue') /\ (i - 1) + 1 = i
      BY <3>2, <1>1, <1>2
    <3>4. queue'[i - 1] = q
      BY <3>1, <3>3, <1>1
    <3> QED BY <3>3, <3>4 DEF Waiting
  <2> QED BY <2>1, <2>2
<1> QED BY <1>1, <1>3, <1>4, <1>5

-----------------------------------------------------------------------------
(* The connections. *)

LEMMA HoldersAreFinite ==
    ASSUME PoolTypeOK
    PROVE  /\ IsFiniteSet(Holding) /\ Cardinality(Holding) \in Nat
           /\ IsFiniteSet(extra) /\ Cardinality(extra) \in Nat
           /\ IsFiniteSet(nested) /\ Cardinality(nested) \in Nat
<1>1. Holding \in SUBSET Requests /\ extra \in SUBSET Requests /\ nested \in SUBSET Requests
  BY DEF Holding, PoolTypeOK
<1>2. \A S \in SUBSET Requests : IsFiniteSet(S)
  BY FS_Subset, PoolAssumption
<1> QED BY <1>1, <1>2, FS_CardinalityType

LEMMA OneMore ==
    \A S, T, x : IsFiniteSet(S) /\ T = S \cup {x} =>
        Cardinality(T) <= Cardinality(S) + 1 /\ Cardinality(T) \in Nat
<1> SUFFICES ASSUME NEW S, NEW x, IsFiniteSet(S)
             PROVE  /\ Cardinality(S \cup {x}) <= Cardinality(S) + 1
                    /\ Cardinality(S \cup {x}) \in Nat
  OBVIOUS
<1>1. Cardinality(S) \in Nat
  BY FS_CardinalityType
<1>2. Cardinality(S \cup {x}) = IF x \in S THEN Cardinality(S) ELSE Cardinality(S) + 1
  BY FS_AddElement
<1> QED BY <1>1, <1>2

LEMMA OneLess ==
    \A S, T, x : IsFiniteSet(S) /\ T = S \ {x} =>
        Cardinality(T) <= Cardinality(S) /\ Cardinality(T) \in Nat
<1> SUFFICES ASSUME NEW S, NEW x, IsFiniteSet(S)
             PROVE  Cardinality(S \ {x}) <= Cardinality(S) /\ Cardinality(S \ {x}) \in Nat
  OBVIOUS
<1>1. IsFiniteSet(S \ {x}) /\ S \ {x} \in SUBSET S
  BY FS_RemoveElement
<1> QED BY <1>1, FS_Subset, FS_CardinalityType

\* The pool never exceeds its limit, and everything that the argument needs besides.
THEOREM PoolInvHolds == PoolSpec => []PoolInv
<1>1. PoolInit => PoolInv
  <2> SUFFICES ASSUME PoolInit PROVE PoolInv
    OBVIOUS
  <2>1. PoolTypeOK
    BY DEF PoolInit, PoolTypeOK, Phases
  <2>2. Holding = {} /\ extra = {}
    BY DEF PoolInit, Holding
  <2>3. WithinPool
    BY <2>2, FS_EmptySet, PoolAssumption DEF WithinPool, InUse
  <2>4. InLine /\ AreInLine /\ SecondConnections
    BY DEF PoolInit, InLine, AreInLine, SecondConnections
  <2> QED BY <2>1, <2>3, <2>4 DEF PoolInv
<1>2. PoolInv /\ [PoolNext]_poolVars => PoolInv'
  <2> SUFFICES ASSUME PoolInv, [PoolNext]_poolVars PROVE PoolInv'
    OBVIOUS
  <2> USE DEF PoolInv
  <2>0. /\ IsFiniteSet(Holding) /\ Cardinality(Holding) \in Nat
        /\ IsFiniteSet(extra) /\ Cardinality(extra) \in Nat
    BY HoldersAreFinite
  <2>1. ASSUME NEW r \in Requests, Connect(r) PROVE PoolInv'
    <3>1. /\ queue' \in Seq(Requests)
          /\ Len(queue') = Len(queue) + 1
          /\ \A i \in 1..Len(queue) : queue'[i] = queue[i]
          /\ queue'[Len(queue) + 1] = r
          /\ \A q \in Requests : Waiting(q)' <=> Waiting(q) \/ q = r
      BY <2>1, LineGrows DEF Connect
    <3>2. /\ phase' \in [Requests -> Phases] /\ phase'[r] = "begin" /\ phase[r] = "idle"
          /\ \A q \in Requests : q # r => phase'[q] = phase[q]
          /\ UNCHANGED <<extra, nested>>
      BY <2>1 DEF Connect, PoolTypeOK, Phases
    <3>3. PoolTypeOK'
      BY <3>1, <3>2 DEF PoolTypeOK
    <3>4. r \notin extra /\ Len(queue) \in Nat
      BY <3>2, LenProperties DEF SecondConnections, PoolTypeOK
    <3>5. \A i \in 1..Len(queue) : queue[i] \in Requests /\ queue[i] # r
      BY <3>2, ElementOfSeq DEF InLine, PoolTypeOK
    <3>6. InLine'
      BY <3>1, <3>2, <3>4, <3>5 DEF InLine
    <3>7. AreInLine' /\ SecondConnections'
      BY <3>1, <3>2, <3>4 DEF AreInLine, SecondConnections, PoolTypeOK
    <3>8. Holding' = Holding
      BY <3>2 DEF Holding
    <3>9. WithinPool'
      BY <3>8, <3>2 DEF WithinPool, InUse
    <3> QED BY <3>3, <3>6, <3>7, <3>9
  <2>2. ASSUME NEW r \in Requests, ConnectAgain(r) PROVE PoolInv'
    <3>1. /\ queue' \in Seq(Requests)
          /\ Len(queue') = Len(queue) + 1
          /\ \A i \in 1..Len(queue) : queue'[i] = queue[i]
          /\ queue'[Len(queue) + 1] = r
          /\ \A q \in Requests : Waiting(q)' <=> Waiting(q) \/ q = r
      BY <2>2, LineGrows DEF ConnectAgain
    <3>2. /\ phase' \in [Requests -> Phases] /\ phase'[r] = "inner" /\ phase[r] = "in"
          /\ \A q \in Requests : q # r => phase'[q] = phase[q]
          /\ UNCHANGED <<extra, nested>>
          /\ r \in nested
      BY <2>2 DEF ConnectAgain, PoolTypeOK, Phases
    <3>3. PoolTypeOK'
      BY <3>1, <3>2 DEF PoolTypeOK
    <3>4. r \notin extra /\ Len(queue) \in Nat
      BY <3>2, LenProperties DEF SecondConnections, PoolTypeOK
    <3>5. \A i \in 1..Len(queue) : queue[i] \in Requests /\ queue[i] # r
      BY <3>2, ElementOfSeq DEF InLine, PoolTypeOK
    <3>6. InLine'
      BY <3>1, <3>2, <3>4, <3>5 DEF InLine
    <3>7. AreInLine' /\ SecondConnections'
      BY <3>1, <3>2, <3>4 DEF AreInLine, SecondConnections, PoolTypeOK
    <3>8. Holding' = Holding
      BY <3>2 DEF Holding
    <3>9. WithinPool'
      BY <3>8, <3>2 DEF WithinPool, InUse
    <3> QED BY <3>3, <3>6, <3>7, <3>9
  <2>3. ASSUME Grant PROVE PoolInv'
    <3> DEFINE r == Head(queue)
    <3>1. /\ r \in Requests
          /\ r = queue[1]
          /\ 1 \in 1..Len(queue)
          /\ queue' \in Seq(Requests)
          /\ Len(queue') = Len(queue) - 1
          /\ \A i \in 1..Len(queue') : queue'[i] = queue[i + 1] /\ i + 1 \in 1..Len(queue)
          /\ \A q \in Requests : Waiting(q)' <=> Waiting(q) /\ q # r
      BY <2>3, LineAdvances DEF Grant
    <3>2. phase[r] \in {"begin", "inner"} /\ r \notin extra /\ Len(queue') \in Nat
      BY <3>1, LenProperties DEF InLine
    <3>3. \A i \in 1..Len(queue') : /\ queue'[i] \in Requests /\ queue'[i] # r
                                    /\ phase[queue'[i]] \in {"begin", "inner"}
                                    /\ queue'[i] \notin extra
      <4> SUFFICES ASSUME NEW i \in 1..Len(queue')
                   PROVE  /\ queue'[i] \in Requests /\ queue'[i] # r
                          /\ phase[queue'[i]] \in {"begin", "inner"}
                          /\ queue'[i] \notin extra
        OBVIOUS
      <4>1. queue'[i] = queue[i + 1] /\ i + 1 \in 1..Len(queue) /\ i + 1 # 1
        BY <3>1, <3>2
      <4> QED BY <4>1, <3>1, ElementOfSeq DEF InLine, PoolTypeOK
    <3>4. \A i, j \in 1..Len(queue') : queue'[i] = queue'[j] => i = j
      <4> SUFFICES ASSUME NEW i \in 1..Len(queue'), NEW j \in 1..Len(queue'), queue'[i] = queue'[j]
                   PROVE  i = j
        OBVIOUS
      <4>1. /\ queue[i + 1] = queue[j + 1] /\ i + 1 \in 1..Len(queue) /\ j + 1 \in 1..Len(queue)
        BY <3>1
      <4>2. i + 1 = j + 1
        BY <4>1 DEF InLine
      <4> QED BY <4>2, <3>2
    <3>5. Cardinality(Holding) + Cardinality(extra) < PoolSize /\ UNCHANGED nested
      BY <2>3 DEF Grant, Free, InUse
    <3>6. CASE phase[r] = "begin"
      <4>1. /\ phase' \in [Requests -> Phases] /\ phase'[r] = "in"
            /\ \A q \in Requests : q # r => phase'[q] = phase[q]
            /\ extra' = extra
        BY <2>3, <3>6, <3>1 DEF Grant, PoolTypeOK, Phases
      <4>2. PoolTypeOK'
        BY <4>1, <3>1, <3>5 DEF PoolTypeOK
      <4>3. InLine'
        BY <4>1, <3>3, <3>4 DEF InLine
      <4>4. AreInLine' /\ SecondConnections'
        BY <4>1, <3>1, <3>2, <3>5 DEF AreInLine, SecondConnections, PoolTypeOK
      <4>5. Holding' = Holding \cup {r}
        BY <4>1, <3>1 DEF Holding
      <4>6. Cardinality(Holding') <= Cardinality(Holding) + 1 /\ Cardinality(Holding') \in Nat
        BY <4>5, <2>0, OneMore
      <4>7. WithinPool'
        BY <4>6, <4>1, <3>5, <2>0, PoolAssumption DEF WithinPool, InUse
      <4> QED BY <4>2, <4>3, <4>4, <4>7
    <3>7. CASE phase[r] = "inner"
      <4>1. phase' = phase /\ extra' = extra \cup {r}
        BY <2>3, <3>7 DEF Grant
      <4>2. PoolTypeOK'
        BY <4>1, <3>1, <3>5 DEF PoolTypeOK
      <4>3. InLine'
        BY <4>1, <3>3, <3>4 DEF InLine
      <4>4. AreInLine' /\ SecondConnections'
        BY <4>1, <3>1, <3>5, <3>7 DEF AreInLine, SecondConnections, PoolTypeOK
      <4>5. Holding' = Holding
        BY <4>1 DEF Holding
      <4>6. Cardinality(extra') <= Cardinality(extra) + 1 /\ Cardinality(extra') \in Nat
        BY <4>1, <2>0, OneMore
      <4>7. WithinPool'
        BY <4>5, <4>6, <3>5, <2>0, PoolAssumption DEF WithinPool, InUse
      <4> QED BY <4>2, <4>3, <4>4, <4>7
    <3> QED BY <3>2, <3>6, <3>7
  <2>4. ASSUME NEW r \in Requests, ReleaseSecond(r) PROVE PoolInv'
    <3>1. /\ phase' \in [Requests -> Phases] /\ phase'[r] = "last" /\ phase[r] = "inner"
          /\ \A q \in Requests : q # r => phase'[q] = phase[q]
          /\ r \in extra /\ extra' = extra \ {r} /\ UNCHANGED <<queue, nested>>
      BY <2>4 DEF ReleaseSecond, SecondConnections, PoolTypeOK, Phases
    <3>2. PoolTypeOK'
      BY <3>1 DEF PoolTypeOK
    <3>3. \A i \in 1..Len(queue) : queue[i] \in Requests /\ queue[i] # r
      BY <3>1, ElementOfSeq DEF InLine, PoolTypeOK
    <3>4. InLine'
      BY <3>1, <3>3 DEF InLine
    <3>5. \A q \in Requests : Waiting(q)' <=> Waiting(q)
      BY <3>1 DEF Waiting
    <3>6. AreInLine' /\ SecondConnections'
      BY <3>1, <3>5 DEF AreInLine, SecondConnections, PoolTypeOK
    <3>7. Holding' = Holding
      BY <3>1 DEF Holding
    <3>8. Cardinality(extra') <= Cardinality(extra) /\ Cardinality(extra') \in Nat
      BY <3>1, <2>0, OneLess
    <3>9. WithinPool'
      BY <3>7, <3>8, <2>0, PoolAssumption DEF WithinPool, InUse
    <3> QED BY <3>2, <3>4, <3>6, <3>9
  <2>5. ASSUME NEW r \in Requests, Release(r) PROVE PoolInv'
    <3>1. /\ phase' \in [Requests -> Phases] /\ phase'[r] = "idle" /\ phase[r] \in {"in", "last"}
          /\ \A q \in Requests : q # r => phase'[q] = phase[q]
          /\ UNCHANGED <<extra, queue, nested>>
      BY <2>5 DEF Release, PoolTypeOK, Phases
    <3>2. PoolTypeOK'
      BY <3>1 DEF PoolTypeOK
    <3>3. \A i \in 1..Len(queue) : queue[i] \in Requests /\ queue[i] # r
      BY <3>1, ElementOfSeq DEF InLine, PoolTypeOK
    <3>4. InLine'
      BY <3>1, <3>3 DEF InLine
    <3>5. \A q \in Requests : Waiting(q)' <=> Waiting(q)
      BY <3>1 DEF Waiting
    <3>6. AreInLine' /\ SecondConnections'
      BY <3>1, <3>5 DEF AreInLine, SecondConnections, PoolTypeOK
    <3>7. Holding' = Holding \ {r}
      BY <3>1 DEF Holding
    <3>8. Cardinality(Holding') <= Cardinality(Holding) /\ Cardinality(Holding') \in Nat
      BY <3>7, <2>0, OneLess
    <3>9. WithinPool'
      BY <3>1, <3>8, <2>0, PoolAssumption DEF WithinPool, InUse
    <3> QED BY <3>2, <3>4, <3>6, <3>9
  <2>6. CASE UNCHANGED poolVars
    BY <2>6 DEF poolVars, PoolTypeOK, InLine, AreInLine, SecondConnections, WithinPool,
                InUse, Holding, Waiting
  <2> QED BY <2>1, <2>2, <2>3, <2>4, <2>5, <2>6 DEF PoolNext, Advance
<1> QED BY <1>1, <1>2, PTL DEF PoolSpec

\* As many requests as there are may be in progress: while fewer of them take a second
\* connection than the pool has, one of them can go on, or the pool can serve the first in line.
THEOREM NobodyWaitsForEver == PoolSpec => []NoGridlock
<1>1. PoolInv => NoGridlock
  <2> SUFFICES ASSUME PoolInv, Cardinality(nested) < PoolSize,
                      NEW s \in Requests, phase[s] # "idle",
                      \A r \in Requests : phase[r] \notin {"in", "last"} /\ r \notin extra
               PROVE  Free /\ queue # <<>>
    BY DEF NoGridlock, SomebodyMoves
  <2> USE DEF PoolInv
  <2>1. Waiting(s)
    <3>1. phase[s] \in Phases
      BY DEF PoolTypeOK
    <3> QED BY <3>1 DEF AreInLine, Phases
  <2>2. queue # <<>>
    <3>1. PICK i \in 1..Len(queue) : queue[i] = s
      BY <2>1 DEF Waiting
    <3>2. Len(queue) # 0
      BY <3>1
    <3> QED BY <3>2
  <2>3. extra = {} /\ Cardinality(extra) = 0
    BY FS_EmptySet DEF PoolTypeOK
  <2>4. Holding \in SUBSET nested
    BY DEF Holding, SecondConnections
  <2>5. Cardinality(Holding) <= Cardinality(nested)
    BY <2>4, HoldersAreFinite, FS_Subset
  <2>6. Free
    BY <2>3, <2>5, HoldersAreFinite, PoolAssumption DEF Free, InUse
  <2> QED BY <2>2, <2>6
<1> QED BY <1>1, PoolInvHolds, PTL
=============================================================================
