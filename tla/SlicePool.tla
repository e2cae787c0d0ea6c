----------------------------- MODULE SlicePool -----------------------------
(***************************************************************************)
(* The pool of part buffers of the upload manager: type maxSlicePool and   *)
(* its wrapper returnCapacityPoolCloser, service/s3/s3manager/pool.go.     *)
(*                                                                         *)
(* The pool is three buffered channels behind an RWMutex:                  *)
(*   slices          buffers that were used and are idle now;              *)
(*   allocations     permits to allocate a buffer that does not exist yet; *)
(*   capacityChange  wake-up tokens for the callers that found neither.    *)
(* ModifyCapacity replaces all three under the write lock and closes the   *)
(* old ones; Get, Put work under the read lock, and Get waits without it.  *)
(*                                                                         *)
(* Owners are the uploads that share the pool: each adds its capacity when *)
(* it starts and takes it back when it ends. Getters are the goroutines    *)
(* of an upload that call Get, Putters those that call Put.                *)
(***************************************************************************)
EXTENDS Integers, FiniteSets

CONSTANTS
    Owners,      \* the uploads that use this pool
    Getters,     \* goroutines that call Get
    Putters,     \* goroutines that call Put
    OwnerOf,     \* the upload of each getter and putter
    Cap,         \* Cap[o]: the capacity upload o adds (Concurrency + 1)
    Cancellable, \* the getters whose context may be cancelled
    NoOwner      \* not an upload

ASSUME OwnersAssumption ==
    /\ NoOwner \notin Owners
    /\ Cap \in [Owners -> Nat \ {0}]
    /\ OwnerOf \in [Getters \cup Putters -> Owners]
    /\ Cancellable \subseteq Getters

VARIABLES
    max,            \* p.max, also the buffer size of the three channels
    slices,         \* len(p.slices)
    allocations,    \* len(p.allocations)
    capacityChange, \* len(p.capacityChange)
    out,            \* buffers outside the pool
    held,           \* held[o]: those of upload o
    get,            \* get[c]: where getter c is in Get
    waitsOn,        \* the capacityChange channel c took: still "open" or "closed"
    put,            \* put[w]: where putter w is in Put
    cancelled,      \* the getters whose context is done
    owner,          \* owner[o]: where upload o is
    writer,         \* the goroutine that has announced p.mtx.Lock()
    private         \* the upload that made the pool for itself, or NoOwner:
                    \* the pool of the Uploader, shared by all of them behind
                    \* a returnCapacityPoolCloser

chans == <<max, slices, allocations, capacityChange>>
users == <<owner, writer, private>>
vars == <<chans, out, held, get, waitsOn, put, cancelled, users>>

-----------------------------------------------------------------------------

Init ==
    /\ max = 0 /\ slices = 0 /\ allocations = 0 /\ capacityChange = 0
    /\ out = 0
    /\ held = [o \in Owners |-> 0]
    /\ get = [c \in Getters |-> "idle"]
    /\ waitsOn = [c \in Getters |-> "closed"]
    /\ put = [w \in Putters |-> "idle"]
    /\ cancelled = {}
    /\ owner = [o \in Owners |-> "ended"]
    /\ writer = NoOwner
    /\ private \in Owners \cup {NoOwner}

\* sync.RWMutex: an announced writer blocks new readers, and enters when the
\* readers that were already inside have left.
CanRLock == writer = NoOwner

\* Mutant of Readers: Get waits with the read lock taken.
ReadersThatWait == {c \in Getters : get[c] \in {"allocations", "wait"}}
                     \cup {w \in Putters : put[w] = "notify"}

Readers == {c \in Getters : get[c] = "allocations"}
             \cup {w \in Putters : put[w] = "notify"}
CanLock(o) == writer = o /\ Readers = {}

-----------------------------------------------------------------------------
(* Get. *)

\* Get returns a buffer to the upload of c.
Got(c) ==
    /\ get' = [get EXCEPT ![c] = "idle"]
    /\ out' = out + 1
    /\ held' = [held EXCEPT ![OwnerOf[c]] = @ + 1]

\* Get returns an error: the upload of c makes no further call.
GetFails(c) ==
    /\ get' = [get EXCEPT ![c] = "failed"]
    /\ UNCHANGED <<out, held>>

\* The chunks an upload has in hand: one in the producer, Concurrency in the
\* channel to the workers and one in each worker (upload.go 592-622), where
\* Cap[o] = Concurrency + 1. It gets no other buffer while it has them.
Places(o) == 2 * Cap[o] - 1

\* The context is looked at before the lock is asked for.
GetCall(c) ==
    /\ get[c] = "idle"
    /\ owner[OwnerOf[c]] = "running"
    /\ held[OwnerOf[c]] < Places(OwnerOf[c])
    /\ IF c \in cancelled
         THEN GetFails(c)
         ELSE get' = [get EXCEPT ![c] = "rlock"] /\ UNCHANGED <<out, held>>
    /\ UNCHANGED <<chans, waitsOn, put, cancelled, users>>

\* RLock and the first select. A select with several ready cases takes any.
GetSlice(c) ==
    /\ get[c] = "rlock"
    /\ CanRLock
    /\ \/ /\ slices > 0
          /\ slices' = slices - 1
          /\ Got(c)
       \/ /\ c \in cancelled
          /\ GetFails(c)
          /\ UNCHANGED slices
       \/ /\ slices = 0 /\ c \notin cancelled
          /\ get' = [get EXCEPT ![c] = "allocations"]
          /\ UNCHANGED <<slices, out, held>>
    /\ UNCHANGED <<max, allocations, capacityChange, waitsOn, put, cancelled, users>>

\* The second select; its default takes a reference to the capacityChange
\* channel and gives the read lock up.
GetAllocation(c) ==
    /\ get[c] = "allocations"
    /\ \/ /\ allocations > 0
          /\ allocations' = allocations - 1
          /\ Got(c)
          /\ UNCHANGED waitsOn
       \/ /\ c \in cancelled
          /\ GetFails(c)
          /\ UNCHANGED <<allocations, waitsOn>>
       \/ /\ allocations = 0 /\ c \notin cancelled
          /\ IF max = 0
               THEN GetFails(c) /\ UNCHANGED waitsOn
               ELSE /\ get' = [get EXCEPT ![c] = "wait"]
                    /\ waitsOn' = [waitsOn EXCEPT ![c] = "open"]
                    /\ UNCHANGED <<out, held>>
          /\ UNCHANGED allocations
    /\ UNCHANGED <<max, slices, capacityChange, put, cancelled, users>>

\* The third select, without the lock: a token, the close of the channel, or
\* the end of the context.
GetWait(c) ==
    /\ get[c] = "wait"
    /\ \/ /\ waitsOn[c] = "closed"
          /\ get' = [get EXCEPT ![c] = "rlock"]
          /\ UNCHANGED <<capacityChange, out, held>>
       \/ /\ waitsOn[c] = "open" /\ capacityChange > 0
          /\ capacityChange' = capacityChange - 1
          /\ get' = [get EXCEPT ![c] = "rlock"]
          /\ UNCHANGED <<out, held>>
       \/ /\ c \in cancelled
          /\ GetFails(c)
          /\ UNCHANGED capacityChange
    /\ UNCHANGED <<max, slices, allocations, waitsOn, put, cancelled, users>>

-----------------------------------------------------------------------------
(* Put. *)

\* RLock, the test for a pool without capacity, and the non-blocking send.
PutSlice(w) ==
    LET o == OwnerOf[w] IN
    /\ put[w] = "idle"
    /\ held[o] > 0 /\ out > 0
    /\ CanRLock
    /\ held' = [held EXCEPT ![o] = @ - 1]
    /\ out' = out - 1
    /\ IF slices < max
         THEN slices' = slices + 1 /\ put' = [put EXCEPT ![w] = "notify"]
         ELSE UNCHANGED <<slices, put>>
    /\ UNCHANGED <<max, allocations, capacityChange, get, waitsOn, cancelled, users>>

\* Mutant of notifyCapacity: Put returns without the token.
PutWithoutNotify(w) ==
    /\ put[w] = "notify"
    /\ put' = [put EXCEPT ![w] = "idle"]
    /\ UNCHANGED <<chans, out, held, get, waitsOn, cancelled, users>>

\* notifyCapacity: the send does not block either.
notifyCapacity(w) ==
    /\ put[w] = "notify"
    /\ put' = [put EXCEPT ![w] = "idle"]
    /\ capacityChange' = IF capacityChange < max THEN capacityChange + 1 ELSE capacityChange
    /\ UNCHANGED <<max, slices, allocations, out, held, get, waitsOn, cancelled, users>>

-----------------------------------------------------------------------------
(* ModifyCapacity and Close. *)

\* Every goroutine that waits has the old channel, and it is closed.
CloseCapacityChange == waitsOn' = [c \in Getters |-> "closed"]

empty ==
    /\ max' = 0 /\ slices' = 0 /\ allocations' = 0 /\ capacityChange' = 0
    /\ CloseCapacityChange

\* Mutants of KeptSlices: the idle buffers all lost, or all kept.
NoSlicesKept(newMax) == 0
AllSlicesKept(newMax) == slices

\* The permits are the old ones plus delta, never less than none, and what
\* the smaller channel has no room for of the idle buffers is dropped. The
\* sends of the permits block when the new channel is full.
NewAllocations(delta) == IF allocations + delta > 0 THEN allocations + delta ELSE 0
KeptSlices(newMax) == IF slices < newMax THEN slices ELSE newMax

ModifyCapacity(delta) ==
    IF max + delta = 0
      THEN empty
      ELSE /\ NewAllocations(delta) <= max + delta
           /\ max' = max + delta
           /\ allocations' = NewAllocations(delta)
           /\ slices' = KeptSlices(max + delta)
           /\ capacityChange' = 0
           /\ CloseCapacityChange

\* Lock() for the capacity an upload adds when it starts.
OpenLock(o) ==
    /\ private \in {NoOwner, o}
    /\ owner[o] = "ended"
    /\ writer = NoOwner
    /\ writer' = o
    /\ owner' = [owner EXCEPT ![o] = "opening"]
    /\ UNCHANGED <<chans, out, held, get, waitsOn, put, cancelled, private>>

Open(o) ==
    /\ owner[o] = "opening"
    /\ CanLock(o)
    /\ ModifyCapacity(Cap[o])
    /\ owner' = [owner EXCEPT ![o] = "running"]
    /\ writer' = NoOwner
    /\ get' = [c \in Getters |-> IF OwnerOf[c] = o THEN "idle" ELSE get[c]]
    /\ cancelled' = {c \in cancelled : OwnerOf[c] # o}
    /\ UNCHANGED <<out, held, put, private>>

\* Mutant of Quiet: the workers are not waited for.
QuietGetters(o) == \A c \in Getters : OwnerOf[c] = o => get[c] \in {"idle", "failed"}

\* An upload closes its pool when its goroutines are done with it: the close
\* is deferred in upload, after the workers were waited for.
Quiet(o) ==
    /\ held[o] = 0
    /\ \A c \in Getters : OwnerOf[c] = o => get[c] \in {"idle", "failed"}
    /\ \A w \in Putters : OwnerOf[w] = o => put[w] = "idle"

CloseLock(o) ==
    /\ owner[o] = "running"
    /\ Quiet(o)
    /\ writer = NoOwner
    /\ writer' = o
    /\ owner' = [owner EXCEPT ![o] = "closing"]
    /\ UNCHANGED <<chans, out, held, get, waitsOn, put, cancelled, private>>

\* Mutant of Close: the capacity to return was never noted.
CloseKeepsCapacity(o) ==
    /\ owner[o] = "closing"
    /\ CanLock(o)
    /\ owner' = [owner EXCEPT ![o] = "ended"]
    /\ writer' = NoOwner
    /\ UNCHANGED <<chans, waitsOn, out, held, get, put, cancelled, private>>

\* Close of a private pool empties it; returnCapacityPoolCloser gives back
\* what its upload added.
Close(o) ==
    /\ owner[o] = "closing"
    /\ CanLock(o)
    /\ IF private = NoOwner THEN ModifyCapacity(-Cap[o]) ELSE empty
    /\ owner' = [owner EXCEPT ![o] = "ended"]
    /\ writer' = NoOwner
    /\ UNCHANGED <<out, held, get, put, cancelled, private>>

\* The caller of an upload cancels the context of one of its goroutines.
Cancel(c) ==
    /\ c \in Cancellable \ cancelled
    /\ owner[OwnerOf[c]] = "running"
    /\ cancelled' = cancelled \cup {c}
    /\ UNCHANGED <<chans, out, held, get, waitsOn, put, users>>

-----------------------------------------------------------------------------

GetStep(c) == GetSlice(c) \/ GetAllocation(c) \/ GetWait(c)
PutStep(w) == PutSlice(w) \/ notifyCapacity(w)
OwnerStep(o) == Open(o) \/ Close(o)

Next ==
    \/ \E c \in Getters : GetCall(c) \/ GetStep(c) \/ Cancel(c)
    \/ \E w \in Putters : PutStep(w)
    \/ \E o \in Owners : OpenLock(o) \/ CloseLock(o) \/ OwnerStep(o)

Spec == Init /\ [][Next]_vars

\* What the Go scheduler owes the calls that are under way, and what the
\* users of the pool owe it: a buffer is put back some day. A goroutine that
\* waits for the read lock gets it when the writer unlocks, even if another
\* writer is announced right after: strong fairness.
CallsFair ==
    /\ \A c \in Getters : SF_vars(GetStep(c))
    /\ \A w \in Putters : SF_vars(PutStep(w))
    /\ \A o \in Owners : WF_vars(OwnerStep(o))

\* An upload one of whose calls of Get failed ends and closes its pool.
CloseAfterError(o) ==
    /\ \E c \in Getters : OwnerOf[c] = o /\ get[c] = "failed"
    /\ CloseLock(o)
UploadsFair == \A o \in Owners : SF_vars(CloseAfterError(o))

PoolSpec == Spec /\ CallsFair
UploadsSpec == Spec /\ CallsFair /\ UploadsFair

-----------------------------------------------------------------------------
(* What the pool promises. *)

TypeOK ==
    /\ max \in Nat /\ slices \in Nat /\ allocations \in Nat /\ capacityChange \in Nat
    /\ out \in Nat
    /\ held \in [Owners -> Nat]
    /\ get \in [Getters -> {"idle", "rlock", "allocations", "wait", "failed"}]
    /\ waitsOn \in [Getters -> {"open", "closed"}]
    /\ put \in [Putters -> {"idle", "notify"}]
    /\ cancelled \subseteq Getters
    /\ owner \in [Owners -> {"ended", "opening", "running", "closing"}]
    /\ writer \in Owners \cup {NoOwner}
    /\ private \in Owners \cup {NoOwner}

\* No capacity is lost: while uploads come and go, buffers are dropped and
\* permits are forgotten (pool.go 126, 154, 174), the buffers and the permits
\* there are never fall below max, so a Get that waits has something to wait for.
CapacityKept == allocations + slices + out >= max

\* A pool that is private to an upload never has more buffers in use and idle
\* than its capacity: the memory an upload takes is bounded.
MemoryBounded == private # NoOwner => out + slices + allocations = max

\* To its upload a private pool is no more than a bounded counter of buffers:
\* the channels, the locks and the wake-ups implement that. It says nothing of
\* a shared pool.
IfPrivate(n) == IF private = NoOwner THEN 0 ELSE n
Bounded == INSTANCE BoundedPool WITH capacity <- IfPrivate(max), used <- IfPrivate(out)
BoundedPoolSpec == Bounded!Spec

\* The permits, the idle buffers and the tokens fit their channels: no send
\* of ModifyCapacity can block with the write lock taken (pool.go 156).
ChannelsFit == allocations <= max /\ slices <= max /\ capacityChange <= max

\* The capacity of the pool is that of the uploads that run, and a pool that
\* no upload uses has nothing in it and nothing out (pool_test.go 73-81).
CapacityReturned ==
    (\A o \in Owners : owner[o] \in {"ended", "opening"})
        => max = 0 /\ slices = 0 /\ allocations = 0 /\ out = 0

\* ModifyCapacity gets its lock: Get waits for a buffer without the read lock
\* (the deadlock of pool.go 82-87 does not happen).
CapacityModified ==
    \A o \in Owners : owner[o] \in {"opening", "closing"} ~> owner[o] \notin {"opening", "closing"}

\* "we will still get notified if slices are added" (pool.go 96): a buffer
\* that lies idle while a Get waits does not stay so.
SlicesNotified ==
    \A c \in Getters : (get[c] = "wait" /\ slices > 0) ~> (get[c] # "wait" \/ slices = 0)
=============================================================================
