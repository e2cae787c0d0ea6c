-------------------------- MODULE SlicePoolProofs --------------------------
(***************************************************************************)
(* Proofs about the pool of part buffers, for any set of uploads, any      *)
(* number of goroutines and any capacities: no capacity is lost when       *)
(* uploads come and go, no channel overflows, and a private pool is a      *)
(* bounded counter of buffers.                                             *)
(***************************************************************************)
EXTENDS SlicePool, TLAPS, FiniteSetTheorems

\* What a private pool knows of the upload that owns it: its buffers are the
\* ones the upload holds, it has no capacity before the upload opens it, and
\* it is closed only when the upload is quiet.
PrivateInv ==
    private # NoOwner =>
        /\ \A o \in Owners \ {private} : owner[o] = "ended" /\ Quiet(o)
        /\ held[private] = out
        /\ owner[private] \in {"ended", "opening"} => max = 0
        /\ owner[private] = "closing" => Quiet(private)

IInv == TypeOK /\ ChannelsFit /\ CapacityKept /\ MemoryBounded /\ PrivateInv

\* The resize of the channels, whatever the change is: it keeps every promise
\* the counters of the pool make.
LEMMA ResizeKeepsCapacity ==
    ASSUME max \in Nat, slices \in Nat, allocations \in Nat, out \in Nat,
           ChannelsFit, CapacityKept, NEW delta \in Int, ModifyCapacity(delta),
           max + delta # 0
    PROVE  /\ max' \in Nat /\ slices' \in Nat /\ allocations' \in Nat
           /\ capacityChange' = 0
           /\ allocations' <= max' /\ slices' <= max'
           /\ allocations' + slices' + out >= max'
  BY DEF ModifyCapacity, ChannelsFit, CapacityKept, NewAllocations, KeptSlices

\* A pool is shared or private for good.
LEMMA PrivateFixed == [Next]_vars => private' = private
<1> SUFFICES ASSUME Next PROVE private' = private
  BY DEF vars, users
<1>1. ASSUME NEW c \in Getters, GetCall(c) \/ GetStep(c) \/ Cancel(c) PROVE private' = private
  BY <1>1 DEF GetCall, GetStep, GetSlice, GetAllocation, GetWait, Cancel, users
<1>2. ASSUME NEW w \in Putters, PutStep(w) PROVE private' = private
  BY <1>2 DEF PutStep, PutSlice, notifyCapacity, users
<1>3. ASSUME NEW o \in Owners, OpenLock(o) \/ CloseLock(o) \/ OwnerStep(o) PROVE private' = private
  BY <1>3 DEF OpenLock, CloseLock, OwnerStep, Open, Close
<1> QED
  BY <1>1, <1>2, <1>3 DEF Next

\* The pool starts with nothing in it.
LEMMA InitIInv == Init => IInv
  BY OwnersAssumption DEF Init, IInv, TypeOK, ChannelsFit, CapacityKept, MemoryBounded, PrivateInv,
                              Quiet

\* Every operation of the pool, and every step of its users, keeps the invariant.
LEMMA NextIInv == IInv /\ [Next]_vars => IInv'
<1> SUFFICES ASSUME IInv, [Next]_vars PROVE IInv'
  OBVIOUS
<1> USE OwnersAssumption
<1>1. CASE UNCHANGED vars
  BY <1>1 DEF IInv, TypeOK, ChannelsFit, CapacityKept, MemoryBounded, PrivateInv, Quiet, vars, chans, users
<1>2. ASSUME NEW c \in Getters, GetCall(c) PROVE IInv'
  <2>1. TypeOK'
    BY <1>2 DEF users, GetCall, GetFails, chans, IInv, TypeOK
  <2>2. ChannelsFit' /\ CapacityKept' /\ MemoryBounded'
    BY <1>2 DEF users, GetCall, GetFails, chans, IInv, TypeOK,
                 ChannelsFit, CapacityKept, MemoryBounded
  <2>3. PrivateInv'
    BY <1>2, <2>1 DEF users, GetCall, GetFails, chans, IInv, TypeOK,
                 PrivateInv, Quiet
  <2> QED BY <2>1, <2>2, <2>3 DEF IInv
<1>3. ASSUME NEW c \in Getters, GetSlice(c) PROVE IInv'
  <2>1. TypeOK'
    BY <1>3 DEF users, GetSlice, Got, GetFails, IInv, TypeOK
  <2>2. ChannelsFit' /\ CapacityKept' /\ MemoryBounded'
    BY <1>3 DEF users, GetSlice, Got, GetFails, IInv, TypeOK,
                 ChannelsFit, CapacityKept, MemoryBounded
  <2>3. PrivateInv'
    BY <1>3, <2>1 DEF users, GetSlice, Got, GetFails, IInv, TypeOK,
                 PrivateInv, Quiet
  <2> QED BY <2>1, <2>2, <2>3 DEF IInv
<1>4. ASSUME NEW c \in Getters, GetAllocation(c) PROVE IInv'
  <2>1. TypeOK'
    BY <1>4 DEF users, GetAllocation, Got, GetFails, IInv, TypeOK
  <2>2. ChannelsFit' /\ CapacityKept' /\ MemoryBounded'
    BY <1>4 DEF users, GetAllocation, Got, GetFails, IInv, TypeOK,
                 ChannelsFit, CapacityKept, MemoryBounded
  <2>3. PrivateInv'
    BY <1>4, <2>1 DEF users, GetAllocation, Got, GetFails, IInv, TypeOK,
                 PrivateInv, Quiet
  <2> QED BY <2>1, <2>2, <2>3 DEF IInv
<1>5. ASSUME NEW c \in Getters, GetWait(c) PROVE IInv'
  <2>1. TypeOK'
    BY <1>5 DEF users, GetWait, GetFails, IInv, TypeOK
  <2>2. ChannelsFit' /\ CapacityKept' /\ MemoryBounded'
    BY <1>5 DEF users, GetWait, GetFails, IInv, TypeOK,
                 ChannelsFit, CapacityKept, MemoryBounded
  <2>3. PrivateInv'
    BY <1>5, <2>1 DEF users, GetWait, GetFails, IInv, TypeOK,
                 PrivateInv, Quiet
  <2> QED BY <2>1, <2>2, <2>3 DEF IInv
<1>6. ASSUME NEW c \in Getters, Cancel(c) PROVE IInv'
  <2>1. TypeOK'
    BY <1>6 DEF users, Cancel, chans, IInv, TypeOK
  <2>2. ChannelsFit' /\ CapacityKept' /\ MemoryBounded'
    BY <1>6 DEF users, Cancel, chans, IInv, TypeOK,
                 ChannelsFit, CapacityKept, MemoryBounded
  <2>3. PrivateInv'
    BY <1>6, <2>1 DEF users, Cancel, chans, IInv, TypeOK,
                 PrivateInv, Quiet
  <2> QED BY <2>1, <2>2, <2>3 DEF IInv
<1>7. ASSUME NEW w \in Putters, PutSlice(w) PROVE IInv'
  <2>1. TypeOK'
    BY <1>7 DEF users, PutSlice, IInv, TypeOK
  <2>2. ChannelsFit' /\ CapacityKept' /\ MemoryBounded'
    BY <1>7 DEF users, PutSlice, IInv, TypeOK,
                 ChannelsFit, CapacityKept, MemoryBounded
  <2>3. PrivateInv'
    BY <1>7, <2>1 DEF users, PutSlice, IInv, TypeOK,
                 PrivateInv, Quiet
  <2> QED BY <2>1, <2>2, <2>3 DEF IInv
<1>8. ASSUME NEW w \in Putters, notifyCapacity(w) PROVE IInv'
  <2>1. TypeOK'
    BY <1>8 DEF users, notifyCapacity, IInv, TypeOK
  <2>2. ChannelsFit' /\ CapacityKept' /\ MemoryBounded'
    BY <1>8 DEF users, notifyCapacity, IInv, TypeOK,
                 ChannelsFit, CapacityKept, MemoryBounded
  <2>3. PrivateInv'
    BY <1>8, <2>1 DEF users, notifyCapacity, IInv, TypeOK,
                 PrivateInv, Quiet
  <2> QED BY <2>1, <2>2, <2>3 DEF IInv
<1>9. ASSUME NEW o \in Owners, OpenLock(o) PROVE IInv'
  <2>1. TypeOK'
    BY <1>9 DEF OpenLock, chans, IInv, TypeOK
  <2>2. ChannelsFit' /\ CapacityKept' /\ MemoryBounded'
    BY <1>9 DEF OpenLock, chans, IInv, TypeOK,
                 ChannelsFit, CapacityKept, MemoryBounded
  <2>3. PrivateInv'
    BY <1>9, <2>1 DEF OpenLock, chans, IInv, TypeOK,
                 PrivateInv, Quiet
  <2> QED BY <2>1, <2>2, <2>3 DEF IInv
<1>10. ASSUME NEW o \in Owners, CloseLock(o) PROVE IInv'
  <2>1. TypeOK'
    BY <1>10 DEF CloseLock, chans, IInv, TypeOK
  <2>2. ChannelsFit' /\ CapacityKept' /\ MemoryBounded'
    BY <1>10 DEF CloseLock, chans, IInv, TypeOK,
                 ChannelsFit, CapacityKept, MemoryBounded
  <2>3. PrivateInv'
    BY <1>10, <2>1 DEF CloseLock, chans, IInv, TypeOK,
                 PrivateInv, Quiet
  <2> QED BY <2>1, <2>2, <2>3 DEF IInv
<1>11. ASSUME NEW o \in Owners, Open(o) PROVE IInv'
  <2>1. Cap[o] \in Nat \ {0} /\ max + Cap[o] # 0 /\ ModifyCapacity(Cap[o])
    BY <1>11 DEF Open, IInv, TypeOK
  <2>2. /\ max' \in Nat /\ slices' \in Nat /\ allocations' \in Nat /\ capacityChange' = 0
        /\ allocations' <= max' /\ slices' <= max'
        /\ allocations' + slices' + out >= max'
    BY <2>1, ResizeKeepsCapacity DEF IInv, TypeOK
  <2>3. TypeOK' /\ ChannelsFit' /\ CapacityKept'
    BY <1>11, <2>1, <2>2 DEF Open, ModifyCapacity, CloseCapacityChange, IInv, TypeOK,
                             ChannelsFit, CapacityKept
  <2>4. MemoryBounded' /\ PrivateInv'
    BY <1>11, <2>1, <2>2 DEF Open, ModifyCapacity, NewAllocations, KeptSlices, IInv, TypeOK,
                             MemoryBounded, PrivateInv, Quiet
  <2> QED BY <2>3, <2>4 DEF IInv
<1>12. ASSUME NEW o \in Owners, Close(o) PROVE IInv'
  <2>1. CASE empty
    BY <1>12, <2>1 DEF Close, empty, CloseCapacityChange, IInv, TypeOK, ChannelsFit,
                       CapacityKept, MemoryBounded, PrivateInv, Quiet
  <2>2. CASE private = NoOwner /\ max + (-Cap[o]) # 0
    <3>1. /\ max' \in Nat /\ slices' \in Nat /\ allocations' \in Nat /\ capacityChange' = 0
          /\ allocations' <= max' /\ slices' <= max'
          /\ allocations' + slices' + out >= max'
      BY <1>12, <2>2, ResizeKeepsCapacity DEF Close, IInv, TypeOK
    <3> QED
      BY <1>12, <2>2, <3>1 DEF Close, ModifyCapacity, CloseCapacityChange, IInv, TypeOK,
                               ChannelsFit, CapacityKept, MemoryBounded, PrivateInv, Quiet
  <2> QED
    BY <1>12, <2>1, <2>2 DEF Close, ModifyCapacity
<1> QED
  BY <1>1, <1>2, <1>3, <1>4, <1>5, <1>6, <1>7, <1>8, <1>9, <1>10, <1>11, <1>12
     DEF Next, GetStep, PutStep, OwnerStep

THEOREM InductiveInvariant == Spec => []IInv
  BY InitIInv, NextIInv, PTL DEF Spec

\* Each variable keeps its type: no channel length and no capacity goes below
\* zero, which make(chan, n) would answer with a panic.
THEOREM TypeCorrect == Spec => []TypeOK
  BY InductiveInvariant, PTL DEF IInv

\* However many uploads share the pool, and whatever is dropped or forgotten
\* when it shrinks, buffers and permits never fall below the capacity.
THEOREM NoCapacityLost == Spec => []CapacityKept
  BY InductiveInvariant, PTL DEF IInv

\* No send of ModifyCapacity blocks with the write lock taken.
THEOREM NoChannelOverflows == Spec => []ChannelsFit
  BY InductiveInvariant, PTL DEF IInv

\* A private pool has exactly its capacity in buffers and permits.
THEOREM PrivateMemoryBounded == Spec => []MemoryBounded
  BY InductiveInvariant, PTL DEF IInv

\* To its upload, a private pool is the bounded counter of BoundedPool.
THEOREM ImplementsBoundedPool == Spec => BoundedPoolSpec
<1>1. Init => Bounded!Init
  BY DEF Init, Bounded!Init, IfPrivate
<1>2. IInv /\ [Next]_vars => [Bounded!Next]_<<IfPrivate(max), IfPrivate(out)>>
  <2> SUFFICES ASSUME IInv, Next, private # NoOwner
               PROVE  Bounded!Next \/ UNCHANGED <<max, out>>
    BY PrivateFixed DEF vars, chans, users, IfPrivate
  <2>a. private' = private /\ IfPrivate(max) = max /\ IfPrivate(out) = out
    BY PrivateFixed DEF IfPrivate
  <2>b. IfPrivate(max)' = max' /\ IfPrivate(out)' = out'
    BY <2>a DEF IfPrivate
  <2> USE OwnersAssumption, <2>a, <2>b DEF Bounded!Next, IInv, TypeOK
  <2>1. ASSUME NEW c \in Getters, GetCall(c) \/ GetStep(c) \/ Cancel(c)
        PROVE  Bounded!Next \/ UNCHANGED <<max, out>>
    BY <2>1 DEF GetCall, GetStep, GetSlice, GetAllocation, GetWait, Cancel, Got, GetFails,
                MemoryBounded, chans, Bounded!Take
  <2>2. ASSUME NEW w \in Putters, PutStep(w)
        PROVE  Bounded!Next \/ UNCHANGED <<max, out>>
    BY <2>2 DEF PutStep, PutSlice, notifyCapacity, Bounded!Give
  <2>3. ASSUME NEW o \in Owners, OpenLock(o) \/ CloseLock(o)
        PROVE  UNCHANGED <<max, out>>
    BY <2>3 DEF OpenLock, CloseLock, chans
  <2>4. ASSUME NEW o \in Owners, Open(o) PROVE Bounded!Resize
    BY <2>4 DEF Open, ModifyCapacity, empty, MemoryBounded, PrivateInv, Bounded!Resize
  <2>5. ASSUME NEW o \in Owners, Close(o) PROVE Bounded!Resize
    BY <2>5 DEF Close, empty, PrivateInv, Quiet, Bounded!Resize
  <2> QED
    BY <2>1, <2>2, <2>3, <2>4, <2>5 DEF Next, OwnerStep
<1> QED
  BY <1>1, <1>2, InductiveInvariant, PTL DEF Spec, BoundedPoolSpec, Bounded!Spec

-----------------------------------------------------------------------------
(* The capacity of the uploads that come and go. It is a sum over them: the   *)
(* size of a set that has as many units of each upload as it adds, or holds.  *)

Active == {o \in Owners : owner[o] \in {"running", "closing"}}
Units(n, uploads) == UNION {{o} \X (1..n[o]) : o \in uploads}

\* An upload that does not run has no goroutine in the pool and no buffer.
QuietInv == \A o \in Owners : owner[o] # "running" => Quiet(o)

\* The buffers outside the pool are those the uploads hold, and the capacity
\* of a shared pool is what the uploads have added and not taken back.
SumInv ==
    /\ IsFiniteSet(Units(held, Owners)) /\ out = Cardinality(Units(held, Owners))
    /\ private = NoOwner =>
          IsFiniteSet(Units(Cap, Active)) /\ max = Cardinality(Units(Cap, Active))

\* The units of an upload are no others', and one more or less is one unit.
LEMMA UnitFacts ==
    ASSUME NEW S, NEW n \in [S -> Nat], NEW uploads \in SUBSET S
    PROVE  \A p : p \in Units(n, uploads)
                    <=> \E o \in uploads, k \in Nat : p = <<o, k>> /\ 1 <= k /\ k <= n[o]
<1>1. ASSUME NEW p, p \in Units(n, uploads)
      PROVE  \E o \in uploads, k \in Nat : p = <<o, k>> /\ 1 <= k /\ k <= n[o]
  <2>1. PICK o \in uploads : p \in {o} \X (1..n[o])
    BY <1>1 DEF Units
  <2>2. PICK k \in 1..n[o] : p = <<o, k>>
    BY <2>1
  <2> QED
    BY <2>2
<1>2. ASSUME NEW o \in uploads, NEW k \in Nat, 1 <= k, k <= n[o]
      PROVE  <<o, k>> \in Units(n, uploads)
  <2>1. k \in 1..n[o]
    BY <1>2
  <2>2. <<o, k>> \in {o} \X (1..n[o])
    BY <2>1
  <2> QED
    BY <2>2 DEF Units
<1> QED
  BY <1>1, <1>2

LEMMA UnitMore ==
    ASSUME NEW S, NEW n \in [S -> Nat], NEW m \in [S -> Nat], NEW o \in S,
           m[o] = n[o] + 1, \A x \in S \ {o} : m[x] = n[x], IsFiniteSet(Units(n, S))
    PROVE  IsFiniteSet(Units(m, S)) /\ Cardinality(Units(m, S)) = Cardinality(Units(n, S)) + 1
<1>1. \A p : p \in Units(n, S) <=> \E x \in S, k \in Nat : p = <<x, k>> /\ 1 <= k /\ k <= n[x]
  BY UnitFacts
<1>2. \A p : p \in Units(m, S) <=> \E x \in S, k \in Nat : p = <<x, k>> /\ 1 <= k /\ k <= m[x]
  BY UnitFacts
<1>3. m[o] = n[o] + 1 /\ n[o] \in Nat /\ \A x \in S \ {o} : m[x] = n[x]
  OBVIOUS
<1> DEFINE more == <<o, n[o] + 1>>
<1>4. more \notin Units(n, S)
  <2> SUFFICES ASSUME more \in Units(n, S) PROVE FALSE
    OBVIOUS
  <2>1. PICK x \in S, k \in Nat : more = <<x, k>> /\ k <= n[x]
    BY <1>1
  <2>2. x = o /\ k = n[o] + 1
    BY <2>1
  <2> QED
    BY <1>3, <2>1, <2>2
<1>5. more \in Units(m, S)
  <2>1. n[o] + 1 \in Nat /\ 1 <= n[o] + 1 /\ n[o] + 1 <= m[o]
    BY <1>3
  <2> QED
    BY <1>2, <2>1
<1>6. ASSUME NEW p \in Units(n, S) PROVE p \in Units(m, S)
  <2>1. PICK x \in S, k \in Nat : p = <<x, k>> /\ 1 <= k /\ k <= n[x]
    BY <1>1
  <2>2. k <= m[x]
    <3>1. n[x] \in Nat /\ m[x] \in Nat
      OBVIOUS
    <3>2. CASE x = o
      BY <1>3, <2>1, <3>2
    <3>3. CASE x # o
      BY <1>3, <2>1, <3>3
    <3> QED
      BY <3>2, <3>3
  <2> QED
    BY <1>2, <2>1, <2>2
<1>7. ASSUME NEW p \in Units(m, S), p # more PROVE p \in Units(n, S)
  <2>1. PICK x \in S, k \in Nat : p = <<x, k>> /\ 1 <= k /\ k <= m[x]
    BY <1>2
  <2>2. k <= n[x]
    <3>1. CASE x = o
      <4>1. k # n[o] + 1
        BY <1>7, <2>1, <3>1
      <4> QED
        BY <1>3, <2>1, <3>1, <4>1
    <3>2. CASE x # o
      BY <1>3, <2>1, <3>2
    <3> QED
      BY <3>1, <3>2
  <2> QED
    BY <1>1, <2>1, <2>2
<1> HIDE DEF more
<1>8. Units(m, S) = Units(n, S) \cup {more}
  BY <1>5, <1>6, <1>7
<1>9. /\ IsFiniteSet(Units(n, S) \cup {more})
      /\ Cardinality(Units(n, S) \cup {more}) =
           IF more \in Units(n, S) THEN Cardinality(Units(n, S)) ELSE Cardinality(Units(n, S)) + 1
  BY FS_AddElement
<1> QED
  BY <1>4, <1>8, <1>9

LEMMA UnitLess ==
    ASSUME NEW S, NEW n \in [S -> Nat], NEW m \in [S -> Nat], NEW o \in S, n[o] > 0,
           m[o] = n[o] - 1, \A x \in S \ {o} : m[x] = n[x], IsFiniteSet(Units(n, S))
    PROVE  IsFiniteSet(Units(m, S)) /\ Cardinality(Units(m, S)) = Cardinality(Units(n, S)) - 1
<1>1. n[o] = m[o] + 1 /\ n[o] \in Nat /\ m[o] \in Nat
  OBVIOUS
<1>2. Units(m, S) \subseteq Units(n, S)
  <2>1. \A p : p \in Units(n, S) <=> \E x \in S, k \in Nat : p = <<x, k>> /\ 1 <= k /\ k <= n[x]
    BY UnitFacts
  <2>2. \A p : p \in Units(m, S) <=> \E x \in S, k \in Nat : p = <<x, k>> /\ 1 <= k /\ k <= m[x]
    BY UnitFacts
  <2>3. ASSUME NEW x \in S, NEW k \in Nat, k <= m[x] PROVE k <= n[x]
    <3>1. n[x] \in Nat /\ m[x] \in Nat
      OBVIOUS
    <3>2. m[x] <= n[x]
      BY <1>1, <3>1
    <3> QED
      BY <2>3, <3>1, <3>2
  <2> QED
    BY <2>1, <2>2, <2>3
<1>3. IsFiniteSet(Units(m, S))
  BY <1>2, FS_Subset
<1>4. Cardinality(Units(n, S)) = Cardinality(Units(m, S)) + 1
  BY <1>1, <1>3, UnitMore
<1> QED
  BY <1>3, <1>4, FS_CardinalityType

\* What one upload adds is as many units as its number says.
LEMMA UnitsOfOne ==
    ASSUME NEW S, NEW n \in [S -> Nat], NEW o \in S, NEW uploads \in SUBSET S, o \notin uploads,
           IsFiniteSet(Units(n, uploads)) \/ IsFiniteSet(Units(n, uploads \cup {o}))
    PROVE  /\ IsFiniteSet(Units(n, uploads)) /\ IsFiniteSet(Units(n, uploads \cup {o}))
           /\ Cardinality(Units(n, uploads \cup {o})) = Cardinality(Units(n, uploads)) + n[o]
<1> DEFINE one == {o} \X (1..n[o])
<1>1. Units(n, uploads \cup {o}) = Units(n, uploads) \cup one
  BY DEF Units
<1>2. Units(n, uploads) \cap one = {}
  BY DEF Units
<1>3. IsFiniteSet(one) /\ Cardinality(one) = n[o]
  <2>1. n[o] \in Nat
    OBVIOUS
  <2>2. IsFiniteSet(1..n[o]) /\ Cardinality(1..n[o]) = n[o]
    <3>1. IsFiniteSet(1..n[o]) /\ Cardinality(1..n[o]) = IF 1 > n[o] THEN 0 ELSE n[o] - 1 + 1
      BY <2>1, FS_Interval
    <3> QED
      BY <2>1, <3>1
  <2>3. IsFiniteSet({o}) /\ Cardinality({o}) = 1
    BY FS_Singleton
  <2>4. IsFiniteSet(one) /\ Cardinality(one) = 1 * n[o]
    BY <2>2, <2>3, FS_Product
  <2> QED
    BY <2>1, <2>4
<1> HIDE DEF one
<1>4. IsFiniteSet(Units(n, uploads))
  BY <1>1, FS_Subset
<1>5. /\ IsFiniteSet(Units(n, uploads) \cup one)
      /\ Cardinality(Units(n, uploads) \cup one)
           = Cardinality(Units(n, uploads)) + Cardinality(one) - Cardinality(Units(n, uploads) \cap one)
  BY <1>3, <1>4, FS_Union
<1>6. Cardinality({}) = 0 /\ Cardinality(Units(n, uploads)) \in Nat /\ n[o] \in Nat
  BY <1>4, FS_EmptySet, FS_CardinalityType
<1>7. Cardinality(Units(n, uploads) \cap one) = 0
  BY <1>2, <1>6
<1>8. IsFiniteSet(Units(n, uploads \cup {o}))
  BY <1>1, <1>5
<1>9. Cardinality(Units(n, uploads \cup {o})) = Cardinality(Units(n, uploads)) + n[o] - 0
  BY <1>1, <1>3, <1>5, <1>7
<1> QED
  BY <1>4, <1>6, <1>8, <1>9

\* An upload that is not running stays out of the pool.
LEMMA NextQuietInv ==
    ASSUME TypeOK, QuietInv, [Next]_vars
    PROVE  QuietInv'
<1> USE OwnersAssumption
<1> SUFFICES ASSUME NEW o \in Owners, owner'[o] # "running"
             PROVE  /\ held'[o] = 0
                    /\ \A c \in Getters : OwnerOf[c] = o => get'[c] \in {"idle", "failed"}
                    /\ \A w \in Putters : OwnerOf[w] = o => put'[w] = "idle"
  BY DEF QuietInv, Quiet
<1>0. /\ \A c \in Getters : OwnerOf[c] \in Owners
      /\ \A w \in Putters : OwnerOf[w] \in Owners
      /\ owner \in [Owners -> {"ended", "opening", "running", "closing"}] /\ held \in [Owners -> Nat]
      /\ get \in [Getters -> {"idle", "rlock", "allocations", "wait", "failed"}]
      /\ put \in [Putters -> {"idle", "notify"}]
  BY DEF TypeOK
<1>1. owner[o] # "running" =>
         /\ held[o] = 0
         /\ \A c \in Getters : OwnerOf[c] = o => get[c] \in {"idle", "failed"}
         /\ \A w \in Putters : OwnerOf[w] = o => put[w] = "idle"
  BY DEF QuietInv, Quiet
<1>2. ASSUME NEW c \in Getters, GetCall(c) \/ GetStep(c) \/ Cancel(c)
      PROVE  /\ held'[o] = 0
             /\ \A d \in Getters : OwnerOf[d] = o => get'[d] \in {"idle", "failed"}
             /\ \A w \in Putters : OwnerOf[w] = o => put'[w] = "idle"
  <2>1. owner' = owner /\ put' = put
    BY <1>2 DEF GetCall, GetStep, GetSlice, GetAllocation, GetWait, Cancel, users
  <2>2. CASE Cancel(c)
    BY <1>1, <2>1, <2>2 DEF Cancel
  <2>3. CASE GetCall(c) \/ GetStep(c)
    <3>1. OwnerOf[c] # o
      BY <1>0, <1>1, <2>1, <2>3 DEF GetCall, GetStep, GetSlice, GetAllocation, GetWait
    <3>2. \A d \in Getters \ {c} : get'[d] = get[d]
      BY <1>0, <2>3 DEF GetCall, GetStep, GetSlice, GetAllocation, GetWait, Got, GetFails
    <3>3. held'[o] = held[o]
      BY <1>0, <2>3, <3>1 DEF GetCall, GetStep, GetSlice, GetAllocation, GetWait, Got, GetFails
    <3> QED
      BY <1>1, <2>1, <3>1, <3>2, <3>3
  <2> QED
    BY <1>2, <2>2, <2>3
<1>3. ASSUME NEW w \in Putters, PutStep(w)
      PROVE  /\ held'[o] = 0
             /\ \A d \in Getters : OwnerOf[d] = o => get'[d] \in {"idle", "failed"}
             /\ \A v \in Putters : OwnerOf[v] = o => put'[v] = "idle"
  <2>1. owner' = owner /\ get' = get
    BY <1>3 DEF PutStep, PutSlice, notifyCapacity, users
  <2>2. OwnerOf[w] # o
    BY <1>0, <1>1, <1>3, <2>1 DEF PutStep, PutSlice, notifyCapacity
  <2>3. \A v \in Putters \ {w} : put'[v] = put[v]
    BY <1>0, <1>3 DEF PutStep, PutSlice, notifyCapacity
  <2>4. held'[o] = held[o]
    BY <1>0, <1>3, <2>2 DEF PutStep, PutSlice, notifyCapacity
  <2> QED
    BY <1>1, <2>1, <2>2, <2>3, <2>4
<1>4. ASSUME NEW u \in Owners, OpenLock(u) \/ CloseLock(u) \/ OwnerStep(u)
      PROVE  /\ held'[o] = 0
             /\ \A d \in Getters : OwnerOf[d] = o => get'[d] \in {"idle", "failed"}
             /\ \A v \in Putters : OwnerOf[v] = o => put'[v] = "idle"
  <2>1. held' = held /\ put' = put
    BY <1>4 DEF OpenLock, CloseLock, OwnerStep, Open, Close
  <2>2. \A d \in Getters : OwnerOf[d] = o => get'[d] = get[d] \/ get'[d] = "idle"
    BY <1>4 DEF OpenLock, CloseLock, OwnerStep, Open, Close
  <2>3. owner[o] # "running" \/ Quiet(o)
    BY <1>0, <1>4 DEF OpenLock, CloseLock, OwnerStep, Open, Close
  <2> QED
    BY <1>1, <2>1, <2>2, <2>3 DEF Quiet
<1>5. CASE UNCHANGED vars
  BY <1>1, <1>5 DEF vars, users
<1> QED
  BY <1>2, <1>3, <1>4, <1>5 DEF Next

LEMMA NextSumInv ==
    ASSUME IInv, QuietInv, SumInv, [Next]_vars
    PROVE  SumInv'
<1> USE OwnersAssumption
<1>0. /\ \A c \in Getters : OwnerOf[c] \in Owners
      /\ \A w \in Putters : OwnerOf[w] \in Owners
      /\ owner \in [Owners -> {"ended", "opening", "running", "closing"}] /\ held \in [Owners -> Nat]
      /\ max \in Nat /\ out \in Nat /\ Cap \in [Owners -> Nat]
      /\ TypeOK' /\ held' \in [Owners -> Nat]
  BY NextIInv DEF IInv, TypeOK
<1>1. /\ IsFiniteSet(Units(held, Owners)) /\ out = Cardinality(Units(held, Owners))
      /\ private = NoOwner =>
            IsFiniteSet(Units(Cap, Active)) /\ max = Cardinality(Units(Cap, Active))
  BY DEF SumInv
<1>2. private' = private
  BY PrivateFixed
<1>3. SUFFICES
      /\ IsFiniteSet(Units(held', Owners)) /\ out' = Cardinality(Units(held', Owners))
      /\ private = NoOwner =>
            IsFiniteSet(Units(Cap, Active')) /\ max' = Cardinality(Units(Cap, Active'))
  BY <1>2 DEF SumInv, Units
<1>4. ASSUME owner' = owner PROVE Active' = Active
  BY <1>4 DEF Active
<1>5. ASSUME NEW o \in Owners, held' = [held EXCEPT ![o] = @ + 1], out' = out + 1
      PROVE  IsFiniteSet(Units(held', Owners)) /\ out' = Cardinality(Units(held', Owners))
  <2>1. held'[o] = held[o] + 1 /\ \A x \in Owners \ {o} : held'[x] = held[x]
    BY <1>0, <1>5
  <2> QED
    <3>1. held \in [Owners -> Nat] /\ held' \in [Owners -> Nat] /\ IsFiniteSet(Units(held, Owners))
      BY <1>0, <1>1
    <3>2. /\ IsFiniteSet(Units(held', Owners))
          /\ Cardinality(Units(held', Owners)) = Cardinality(Units(held, Owners)) + 1
      BY <2>1, <3>1, UnitMore
    <3> QED
      BY <1>1, <1>5, <3>2
<1>6. ASSUME NEW o \in Owners, held' = [held EXCEPT ![o] = @ - 1], out' = out - 1, held[o] > 0
      PROVE  IsFiniteSet(Units(held', Owners)) /\ out' = Cardinality(Units(held', Owners))
  <2>1. held'[o] = held[o] - 1 /\ \A x \in Owners \ {o} : held'[x] = held[x]
    BY <1>0, <1>6
  <2> QED
    <3>1. held \in [Owners -> Nat] /\ held' \in [Owners -> Nat] /\ IsFiniteSet(Units(held, Owners))
      BY <1>0, <1>1
    <3>2. /\ IsFiniteSet(Units(held', Owners))
          /\ Cardinality(Units(held', Owners)) = Cardinality(Units(held, Owners)) - 1
      <4>1. held[o] > 0
        BY <1>6
      <4> QED
        BY <2>1, <3>1, <4>1, UnitLess
    <3> QED
      BY <1>1, <1>6, <3>2
<1>7. CASE \E c \in Getters : GetCall(c) \/ GetStep(c) \/ Cancel(c)
  <2>1. PICK c \in Getters : GetCall(c) \/ GetStep(c) \/ Cancel(c)
    BY <1>7
  <2>2. owner' = owner /\ max' = max
    BY <2>1 DEF GetCall, GetStep, GetSlice, GetAllocation, GetWait, Cancel, users, chans
  <2>3. \/ held' = held /\ out' = out
        \/ held' = [held EXCEPT ![OwnerOf[c]] = @ + 1] /\ out' = out + 1
    BY <2>1 DEF GetCall, GetStep, GetSlice, GetAllocation, GetWait, Cancel, Got, GetFails
  <2> QED
    BY <1>0, <1>1, <1>4, <1>5, <2>2, <2>3
<1>8. CASE \E w \in Putters : PutStep(w)
  <2>1. PICK w \in Putters : PutStep(w)
    BY <1>8
  <2>2. owner' = owner /\ max' = max
    BY <2>1 DEF PutStep, PutSlice, notifyCapacity, users, chans
  <2>3. \/ held' = held /\ out' = out
        \/ /\ held' = [held EXCEPT ![OwnerOf[w]] = @ - 1] /\ out' = out - 1
           /\ held[OwnerOf[w]] > 0
    BY <2>1 DEF PutStep, PutSlice, notifyCapacity
  <2> QED
    BY <1>0, <1>1, <1>4, <1>6, <2>2, <2>3
<1>9. CASE \E o \in Owners : OpenLock(o) \/ CloseLock(o)
  <2>1. PICK o \in Owners : OpenLock(o) \/ CloseLock(o)
    BY <1>9
  <2>2. held' = held /\ out' = out /\ max' = max
    BY <2>1 DEF OpenLock, CloseLock, chans
  <2>3. Active' = Active
    BY <1>0, <2>1 DEF OpenLock, CloseLock, Active
  <2> QED
    BY <1>1, <2>2, <2>3
<1>10. CASE \E o \in Owners : Open(o)
  <2>1. PICK o \in Owners : Open(o)
    BY <1>10
  <2>2. held' = held /\ out' = out /\ max' = max + Cap[o] /\ Cap[o] \in Nat
    BY <1>0, <2>1 DEF Open, ModifyCapacity, empty
  <2>3. Active' = Active \cup {o} /\ o \notin Active /\ Active \in SUBSET Owners
    BY <1>0, <2>1 DEF Open, Active
  <2>4. private = NoOwner =>
          IsFiniteSet(Units(Cap, Active')) /\ max' = Cardinality(Units(Cap, Active'))
    BY <1>0, <1>1, <2>2, <2>3, UnitsOfOne
  <2> QED
    BY <1>1, <2>2, <2>4
<1>11. CASE \E o \in Owners : Close(o)
  <2>1. PICK o \in Owners : Close(o)
    BY <1>11
  <2>2. held' = held /\ out' = out /\ Cap[o] \in Nat
    BY <1>0, <2>1 DEF Close
  <2>3. Active = Active' \cup {o} /\ o \notin Active' /\ Active' \in SUBSET Owners
    BY <1>0, <2>1 DEF Close, Active
  <2>4. ASSUME private = NoOwner
        PROVE  IsFiniteSet(Units(Cap, Active')) /\ max' = Cardinality(Units(Cap, Active'))
    <3>1. max' = max - Cap[o]
      BY <1>0, <2>1, <2>2, <2>4 DEF Close, ModifyCapacity, empty
    <3>2. /\ IsFiniteSet(Units(Cap, Active'))
          /\ Cardinality(Units(Cap, Active)) = Cardinality(Units(Cap, Active')) + Cap[o]
      BY <1>0, <1>1, <2>3, <2>4, UnitsOfOne
    <3>3. Cardinality(Units(Cap, Active')) \in Nat
      BY <3>2, FS_CardinalityType
    <3> QED
      BY <1>1, <2>2, <2>4, <3>1, <3>2, <3>3
  <2> QED
    BY <1>1, <2>2, <2>4
<1>12. CASE UNCHANGED vars
  BY <1>1, <1>4, <1>12 DEF vars, users, chans
<1> QED
  BY <1>7, <1>8, <1>9, <1>10, <1>11, <1>12 DEF Next, OwnerStep

\* The capacity of a pool is the sum of what the uploads that run have added,
\* and the buffers outside it are theirs.
THEOREM CapacityIsSum == Spec => [](QuietInv /\ SumInv)
<1>1. Init => QuietInv /\ SumInv
  <2> SUFFICES ASSUME Init PROVE QuietInv /\ SumInv
    OBVIOUS
  <2>1. QuietInv
    BY OwnersAssumption DEF Init, QuietInv, Quiet
  <2>2. held \in [Owners -> Nat] /\ \A o \in Owners : held[o] = 0
    BY DEF Init
  <2>3. Units(held, Owners) = {} /\ Units(Cap, Active) = {}
    <3>1. Active = {}
      BY DEF Init, Active
    <3>2. \A p \in Units(held, Owners) : FALSE
      BY <2>2 DEF Units
    <3> QED
      BY <3>1, <3>2 DEF Units
  <2>4. out = 0 /\ max = 0
    BY DEF Init
  <2> QED
    BY <2>1, <2>3, <2>4, FS_EmptySet DEF SumInv
<1>2. IInv /\ QuietInv /\ SumInv /\ [Next]_vars => (QuietInv /\ SumInv)'
  BY NextQuietInv, NextSumInv DEF IInv
<1> QED
  BY <1>1, <1>2, InductiveInvariant, PTL DEF Spec

\* A pool that no upload uses has no capacity, no buffer and no permit, however
\* many uploads used it and in whatever order they came and went
\* (pool.go 131-178, 200-223, 235-256, pool_test.go 73-81).
THEOREM AllCapacityReturned == Spec => []CapacityReturned
<1>1. IInv /\ QuietInv /\ SumInv => CapacityReturned
  <2> SUFFICES ASSUME IInv, QuietInv, SumInv,
                      \A o \in Owners : owner[o] \in {"ended", "opening"}
               PROVE  max = 0 /\ slices = 0 /\ allocations = 0 /\ out = 0
    BY DEF CapacityReturned
  <2>1. \A o \in Owners : held[o] = 0
    BY DEF QuietInv, Quiet
  <2>2. Units(held, Owners) = {}
    <3>1. \A p \in Units(held, Owners) : FALSE
      BY <2>1 DEF Units
    <3> QED
      BY <3>1
  <2>3. out = 0
    BY <2>2, FS_EmptySet DEF SumInv
  <2>4. max = 0
    <3>1. CASE private = NoOwner
      <4>1. Active = {}
        BY DEF Active
      <4>2. Units(Cap, Active) = {}
        BY <4>1 DEF Units
      <4> QED
        BY <3>1, <4>2, FS_EmptySet DEF SumInv
    <3>2. CASE private # NoOwner
      BY <3>2 DEF IInv, TypeOK, PrivateInv
    <3> QED
      BY <3>1, <3>2
  <2>5. slices = 0 /\ allocations = 0
    BY <2>4 DEF IInv, TypeOK, ChannelsFit
  <2> QED
    BY <2>3, <2>4, <2>5
<1> QED
  BY <1>1, InductiveInvariant, CapacityIsSum, PTL

-----------------------------------------------------------------------------
(* No wake-up is lost.                                                       *)

\* The goroutines that look again for a buffer, or have given up and make
\* their upload close the pool, and those that will send a wake-up.
Looking == {c \in Getters : get[c] \in {"rlock", "failed"}}
Notifying == {w \in Putters : put[w] = "notify"}

\* A Get found no buffer, and its channel was not closed since.
Missed(c) == \/ get[c] = "allocations"
             \/ get[c] = "wait" /\ waitsOn[c] = "open"

\* While a Get has found none there is a wake-up for each idle buffer: sent,
\* about to be sent, or taken by a goroutine that looks.
WakeInv ==
    /\ IsFiniteSet(Looking) /\ IsFiniteSet(Notifying)
    /\ (\E c \in Getters : Missed(c)) =>
          slices <= capacityChange + Cardinality(Looking) + Cardinality(Notifying)

\* A Get waits only while there is no permit, in a pool that has capacity.
NoPermit == \A c \in Getters : get[c] = "wait" /\ waitsOn[c] = "open" => allocations = 0 /\ max > 0

\* What a Get that waits can count on.
WaitsRightly ==
    \A c \in Getters : get[c] = "wait" /\ waitsOn[c] = "open" =>
        /\ allocations = 0 /\ slices + out >= max /\ max > 0
        /\ slices > 0 => capacityChange > 0 \/ Looking # {} \/ Notifying # {}

\* A goroutine more, or less.
LEMMA OneMore ==
    ASSUME NEW S, NEW x, IsFiniteSet(S), x \notin S
    PROVE  /\ IsFiniteSet(S \cup {x}) /\ Cardinality(S) \in Nat
           /\ Cardinality(S \cup {x}) = Cardinality(S) + 1
  BY FS_AddElement, FS_CardinalityType

LEMMA OneLess ==
    ASSUME NEW S, NEW x, IsFiniteSet(S), x \in S
    PROVE  /\ IsFiniteSet(S \ {x}) /\ Cardinality(S) \in Nat
           /\ Cardinality(S \ {x}) = Cardinality(S) - 1
  BY FS_RemoveElement, FS_CardinalityType

\* A step of a Get.
LEMMA GetWakes ==
    ASSUME TypeOK, WakeInv, NEW c \in Getters, GetCall(c) \/ GetStep(c) \/ Cancel(c)
    PROVE  WakeInv'
<1> USE DEF TypeOK
<1>1. Notifying' = Notifying
  BY DEF GetCall, GetStep, GetSlice, GetAllocation, GetWait, Cancel, users, Notifying
<1>2. /\ IsFiniteSet(Looking) /\ IsFiniteSet(Notifying)
      /\ Cardinality(Looking) \in Nat /\ Cardinality(Notifying) \in Nat
  BY FS_CardinalityType DEF WakeInv
<1>3. \A d \in Getters \ {c} : get'[d] = get[d] /\ waitsOn'[d] = waitsOn[d]
  BY DEF GetCall, GetStep, GetSlice, GetAllocation, GetWait, Cancel, Got, GetFails
<1>4. c \in Looking \/ get'[c] \notin {"rlock", "failed"} => Looking' = Looking \/ Looking' = Looking \ {c}
  BY <1>3 DEF Looking
<1>5. c \notin Looking /\ get'[c] \in {"rlock", "failed"} => Looking' = Looking \cup {c}
  BY <1>3 DEF Looking
<1>6. IsFiniteSet(Looking')
  BY <1>2, <1>4, <1>5, OneMore, FS_Subset
<1>7. CASE c \notin Looking
  <2>1. /\ slices' = slices
        /\ \/ capacityChange' = capacityChange
           \/ capacityChange' = capacityChange - 1 /\ get'[c] = "rlock"
    BY <1>7 DEF GetCall, GetStep, GetSlice, GetAllocation, GetWait, Cancel, chans, Looking, GetFails
  <2>2. Cardinality(Looking') = Cardinality(Looking) + (IF get'[c] \in {"rlock", "failed"} THEN 1 ELSE 0)
    <3>1. get'[c] \notin {"rlock", "failed"} => Looking' = Looking
      BY <1>4, <1>7
    <3> QED
      BY <1>2, <1>5, <1>7, <3>1, OneMore
  <2>3. Missed(c)' => Missed(c)
    BY <1>7 DEF GetCall, GetStep, GetSlice, GetAllocation, GetWait, Cancel, Got, GetFails, Missed, Looking
  <2>4. (\E d \in Getters : Missed(d)') => \E d \in Getters : Missed(d)
    BY <1>3, <2>3 DEF Missed
  <2> QED
    BY <1>1, <1>2, <1>6, <2>1, <2>2, <2>4 DEF WakeInv
<1>8. CASE c \in Looking
  <2>1. CASE slices' = slices /\ get'[c] \in {"rlock", "failed"} /\ capacityChange' = capacityChange
    <3>1. Looking' = Looking
      BY <1>3, <1>8, <2>1 DEF Looking
    <3>2. (\E d \in Getters : Missed(d)') => \E d \in Getters : Missed(d)
      BY <1>3, <2>1 DEF Missed
    <3> QED
      BY <1>1, <1>2, <2>1, <3>1, <3>2 DEF WakeInv
  <2>2. CASE slices > 0 /\ slices' = slices - 1 /\ get'[c] = "idle" /\ capacityChange' = capacityChange
    <3>1. Looking' = Looking \ {c}
      BY <1>3, <2>2 DEF Looking
    <3>2. Cardinality(Looking') = Cardinality(Looking) - 1
      BY <1>2, <1>8, <3>1, OneLess
    <3>3. (\E d \in Getters : Missed(d)') => \E d \in Getters : Missed(d)
      BY <1>3, <2>2 DEF Missed
    <3> QED
      BY <1>1, <1>2, <1>6, <2>2, <3>2, <3>3 DEF WakeInv
  <2>3. CASE slices' = 0
    <3>1. Cardinality(Looking') \in Nat
      BY <1>6, FS_CardinalityType
    <3>2. capacityChange' = capacityChange
      BY <1>8 DEF GetCall, GetStep, GetSlice, GetAllocation, GetWait, Cancel, chans, Looking
    <3> QED
      BY <1>1, <1>2, <1>6, <2>3, <3>1, <3>2 DEF WakeInv
  <2> QED
    BY <1>8, <2>1, <2>2, <2>3
       DEF GetCall, GetStep, GetSlice, GetAllocation, GetWait, Cancel, Got, GetFails, chans, Looking
<1> QED
  BY <1>7, <1>8

\* A step of a Put: the wake-up follows the buffer, and is left out only when
\* there are as many as the channel has places for.
LEMMA PutWakes ==
    ASSUME TypeOK, ChannelsFit, WakeInv, NEW w \in Putters, PutStep(w)
    PROVE  WakeInv'
<1> USE DEF TypeOK
<1>1. /\ Looking' = Looking /\ \A c \in Getters : Missed(c)' = Missed(c)
  BY DEF PutStep, PutSlice, notifyCapacity, Looking, Missed
<1>2. /\ IsFiniteSet(Looking) /\ IsFiniteSet(Notifying)
      /\ Cardinality(Looking) \in Nat /\ Cardinality(Notifying) \in Nat
  BY FS_CardinalityType DEF WakeInv
<1>3. CASE notifyCapacity(w)
  <2>1. Notifying' = Notifying \ {w} /\ w \in Notifying
    BY <1>3 DEF notifyCapacity, Notifying
  <2>2. IsFiniteSet(Notifying') /\ Cardinality(Notifying') = Cardinality(Notifying) - 1
    BY <1>2, <2>1, OneLess
  <2>3. /\ slices' = slices
        /\ \/ capacityChange' = capacityChange + 1
           \/ capacityChange' = capacityChange /\ slices <= capacityChange
    BY <1>3 DEF notifyCapacity, ChannelsFit
  <2>4. Cardinality(Notifying') \in Nat
    BY <2>2, FS_CardinalityType
  <2> QED
    BY <1>1, <1>2, <2>2, <2>3, <2>4 DEF WakeInv
<1>4. CASE PutSlice(w)
  <2>1. capacityChange' = capacityChange
    BY <1>4 DEF PutSlice
  <2>2. CASE slices' = slices /\ put' = put
    BY <1>1, <1>2, <2>1, <2>2 DEF WakeInv, Notifying
  <2>3. CASE slices' = slices + 1 /\ put' = [put EXCEPT ![w] = "notify"]
    <3>1. Notifying' = Notifying \cup {w} /\ w \notin Notifying
      BY <1>4, <2>3 DEF PutSlice, Notifying
    <3>2. IsFiniteSet(Notifying') /\ Cardinality(Notifying') = Cardinality(Notifying) + 1
      BY <1>2, <3>1, OneMore
    <3> QED
      BY <1>1, <1>2, <2>1, <2>3, <3>2 DEF WakeInv
  <2> QED
    BY <1>4, <2>2, <2>3 DEF PutSlice
<1> QED
  BY <1>3, <1>4 DEF PutStep

\* A step of an upload: a change of the capacity wakes every Get that waits.
LEMMA OwnerWakes ==
    ASSUME TypeOK, WakeInv, NEW o \in Owners, OpenLock(o) \/ CloseLock(o) \/ OwnerStep(o)
    PROVE  WakeInv'
<1> USE DEF TypeOK
<1>1. Notifying' = Notifying
  BY DEF OpenLock, CloseLock, OwnerStep, Open, Close, Notifying
<1>2. /\ IsFiniteSet(Looking) /\ IsFiniteSet(Notifying)
  BY DEF WakeInv
<1>3. CASE OpenLock(o) \/ CloseLock(o)
  BY <1>1, <1>3 DEF OpenLock, CloseLock, chans, WakeInv, Looking, Missed
<1>4. CASE OwnerStep(o)
  <2>1. \A c \in Getters : get[c] # "allocations" /\ get'[c] \in {get[c], "idle"}
    BY <1>4 DEF OwnerStep, Open, Close, CanLock, Readers
  <2>2. \A c \in Getters : waitsOn'[c] = "closed"
    BY <1>4 DEF OwnerStep, Open, Close, ModifyCapacity, empty, CloseCapacityChange
  <2>3. \A c \in Getters : ~ Missed(c)'
    BY <2>1, <2>2 DEF Missed
  <2>4. Looking' \subseteq Looking
    BY <2>1 DEF Looking
  <2> QED
    BY <1>1, <1>2, <2>3, <2>4, FS_Subset DEF WakeInv
<1> QED
  BY <1>3, <1>4

\* Permits come only with a change of the capacity.
LEMMA NextNoPermit ==
    ASSUME TypeOK, NoPermit, [Next]_vars
    PROVE  NoPermit'
<1> SUFFICES ASSUME NEW d \in Getters, get'[d] = "wait", waitsOn'[d] = "open"
             PROVE  allocations' = 0 /\ max' > 0
  BY DEF NoPermit
<1> USE DEF TypeOK
<1>1. get[d] = "wait" /\ waitsOn[d] = "open" => allocations = 0 /\ max > 0
  BY DEF NoPermit
<1>2. ASSUME NEW c \in Getters, GetCall(c) \/ GetStep(c) \/ Cancel(c)
      PROVE  allocations' = 0 /\ max' > 0
  BY <1>1, <1>2 DEF GetCall, GetStep, GetSlice, GetAllocation, GetWait, Cancel, Got, GetFails, chans
<1>3. ASSUME NEW w \in Putters, PutStep(w) PROVE allocations' = 0 /\ max' > 0
  BY <1>1, <1>3 DEF PutStep, PutSlice, notifyCapacity
<1>4. ASSUME NEW o \in Owners, OpenLock(o) \/ CloseLock(o) PROVE allocations' = 0 /\ max' > 0
  BY <1>1, <1>4 DEF OpenLock, CloseLock, chans
<1>5. ASSUME NEW o \in Owners, OwnerStep(o) PROVE FALSE
  BY <1>5 DEF OwnerStep, Open, Close, ModifyCapacity, empty, CloseCapacityChange
<1>6. CASE UNCHANGED vars
  BY <1>1, <1>6 DEF vars, chans
<1> QED
  BY <1>2, <1>3, <1>4, <1>5, <1>6 DEF Next

\* No wake-up is lost: when a Get waits there is no permit but a buffer to wait
\* for, and while buffers lie idle as well, a wake-up is in the channel, a Put
\* is about to send one, or a Get looks for a buffer or has failed, which makes
\* its upload close the pool (pool.go 70-110, 122-129, 139-148, 181-188).
THEOREM NoWakeUpLost == Spec => []WaitsRightly
<1>1. Init => WakeInv /\ NoPermit
  <2> SUFFICES ASSUME Init PROVE WakeInv /\ NoPermit
    OBVIOUS
  <2>1. Looking = {} /\ Notifying = {} /\ \A c \in Getters : ~Missed(c)
    BY DEF Init, Looking, Notifying, Missed
  <2> QED
    BY <2>1, FS_EmptySet DEF Init, WakeInv, NoPermit
<1>2. IInv /\ WakeInv /\ NoPermit /\ [Next]_vars => (WakeInv /\ NoPermit)'
  <2> SUFFICES ASSUME TypeOK, ChannelsFit, WakeInv, [Next]_vars PROVE WakeInv'
    BY NextNoPermit DEF IInv
  <2>1. CASE UNCHANGED vars
    BY <2>1 DEF vars, chans, WakeInv, Looking, Notifying, Missed
  <2> QED
    BY <2>1, GetWakes, PutWakes, OwnerWakes DEF Next
<1>3. IInv /\ WakeInv /\ NoPermit => WaitsRightly
  <2> SUFFICES ASSUME IInv, WakeInv, NoPermit, NEW c \in Getters,
                      get[c] = "wait", waitsOn[c] = "open"
               PROVE  /\ allocations = 0 /\ slices + out >= max /\ max > 0
                      /\ slices > 0 => capacityChange > 0 \/ Looking # {} \/ Notifying # {}
    BY DEF WaitsRightly
  <2>1. allocations = 0 /\ max > 0
    BY DEF NoPermit
  <2>2. slices <= capacityChange + Cardinality(Looking) + Cardinality(Notifying)
    BY DEF WakeInv, Missed
  <2>3. slices + out >= max
    BY <2>1 DEF IInv, TypeOK, CapacityKept
  <2>4. ASSUME slices > 0, Looking = {}, Notifying = {} PROVE capacityChange > 0
    <3>1. Cardinality(Looking) = 0 /\ Cardinality(Notifying) = 0
      BY <2>4, FS_EmptySet
    <3> QED
      BY <2>2, <2>4, <3>1 DEF IInv, TypeOK
  <2>5. capacityChange \in Nat /\ slices \in Nat
    BY DEF IInv, TypeOK
  <2> QED
    BY <2>1, <2>3, <2>4, <2>5
<1> QED
  BY <1>1, <1>2, <1>3, InductiveInvariant, PTL DEF Spec
=============================================================================
