--------------------------- MODULE UploaderProofs ---------------------------
(***************************************************************************)
(* Proofs about Uploader, for any number of workers, any limit of parts    *)
(* and bodies of any size: the object is the whole body or absent, the     *)
(* call returns with its workers ended and its buffers back, and no part   *)
(* number passes the limit. The heart of the invariant is that a chunk is  *)
(* in one place at a time: the queue has the chunks that follow the ones   *)
(* that were taken, and a chunk that was taken is with one worker or in    *)
(* the list of parts, until an error is noted.                             *)
(***************************************************************************)
EXTENDS Uploader, TLAPS, FiniteSetTheorems

Alone == {"first", "single", "create"}
Busy == {"check", "send", "seterr", "cleanup"}
Unanswered == {"check", "send", "seterr"}

\* The number of chunks that were put on the channel, and taken from it.
Offered == IF pc \in {"single", "create", "queue"} THEN num - 1 ELSE num
Taken == Offered - Len(ch)

\* The caller's goroutine: which chunk it has, and what it knows of the rest.
ReaderInv ==
    /\ num <= MaxUploadParts
    /\ pc = "first" => num = 0 /\ ~last
    /\ pc \in {"single", "create"} => num = 1
    /\ pc \notin {"first", "done"} => num >= 1
    /\ pc \notin {"first", "single", "done"} => HasData(num)
    /\ last \/ pc = "single" => Left(num) <= ChunkSize
    /\ pc \in {"close", "wait", "complete"} /\ err = "none" => Left(num) <= ChunkSize
    /\ pc = "complete" => err = "none"
    /\ KnownSizeFits

\* Before the multipart upload nothing has happened; after it all is quiet.
PhaseInv ==
    /\ pc \in Alone => /\ \A w \in Workers : worker[w] = "none"
                       /\ ch = <<>> /\ parts = <<>> /\ stored = {} /\ err = "none" /\ ~closed
    /\ closed => pc \in {"wait", "complete", "fail", "done"}
    /\ \A w \in Workers : worker[w] = "ended" => closed /\ ch = <<>>
    /\ pc \in {"complete", "fail"} => WorkersEnded
    /\ pc = "done" => ch = <<>> /\ \A w \in Workers : worker[w] \in {"none", "ended"}
    /\ pc = "done" <=> result # "pending"
    /\ object # <<>> => pc \in {"fail", "done"}

\* The channel holds the chunks that follow the ones that were taken.
QueueInv == Taken >= 0 /\ \A i \in 1 .. Len(ch) : ch[i] = Taken + i

\* A chunk that was taken is with one worker, or is a part, once.
ChunkInv ==
    /\ \A w \in Workers : worker[w] \in Busy =>
          /\ job[w] \in 1 .. Taken
          /\ \A v \in Workers : worker[v] \in Busy /\ job[v] = job[w] => v = w
    /\ \A i \in 1 .. Len(parts) :
          /\ parts[i] \in 1 .. Taken
          /\ \A j \in 1 .. Len(parts) : parts[i] = parts[j] => i = j
          /\ \A w \in Workers : worker[w] \in Unanswered => job[w] # parts[i]
    /\ err = "none" /\ pc # "done" =>
          \A n \in 1 .. Taken :
             \/ \E i \in 1 .. Len(parts) : parts[i] = n
             \/ \E w \in Workers : worker[w] \in Unanswered /\ job[w] = n
    /\ stored \subseteq 1 .. Taken

\* A buffer that is out belongs to a chunk that is on its way.
BufferInv ==
    \A n \in buffers :
        \/ pc \in {"single", "create", "queue"} /\ n = num
        \/ \E i \in 1 .. Len(ch) : ch[i] = n
        \/ \E w \in Workers : worker[w] \in Busy /\ job[w] = n

\* No object is made of a part of the body.
WholeOrAbsent == object \in {<<>>, WholeBody}

IInv == TypeOK /\ ReaderInv /\ PhaseInv /\ QueueInv /\ ChunkInv /\ BufferInv /\ WholeOrAbsent

-----------------------------------------------------------------------------
(* What the arithmetic of UploadParts gives for every size of body, part and
   limit. The facts about integer division the proofs need are those of
   DivisionBounds; the rest is linear in products that are named. *)

\* Integer division: the quotient is the last multiple that fits.
LEMMA DivisionBounds ==
    ASSUME NEW a \in Nat, NEW b \in Nat \ {0}
    PROVE  /\ a \div b \in Nat
           /\ b * (a \div b) <= a
           /\ a < b * (a \div b) + b
  OBVIOUS

\* Products keep the order of their factors.
LEMMA ProductOrder ==
    ASSUME NEW a \in Nat, NEW b \in Nat, NEW c \in Nat, a <= b
    PROVE  c * a <= c * b
  OBVIOUS

\* initSize never makes the parts smaller than they were configured, so the
\* minimum part size still holds after it.
THEOREM PartSizeOnlyGrows ==
    ASSUME NEW total \in Nat, NEW partSize \in Nat \ {0}, NEW maxParts \in Nat \ {0}
    PROVE  /\ AdjustedPartSize(total, partSize, maxParts) \in Nat
           /\ AdjustedPartSize(total, partSize, maxParts) >= partSize
<1> DEFINE q == total \div partSize
           r == total \div maxParts
<1>1. CASE q >= maxParts
  <2>1. q \in Nat /\ partSize * q <= total
    BY DivisionBounds
  <2>2. r \in Nat /\ total < maxParts * r + maxParts
    BY DivisionBounds
  <2>3. partSize * maxParts <= partSize * q
    BY <1>1, <2>1, ProductOrder
  <2>4. maxParts * partSize < maxParts * (r + 1)
    BY <2>1, <2>2, <2>3
  <2>5. partSize < r + 1
    <3> SUFFICES ASSUME r + 1 <= partSize PROVE FALSE
      BY <2>2
    <3>1. maxParts * (r + 1) <= maxParts * partSize
      BY <2>2, ProductOrder
    <3> QED
      BY <2>2, <2>4, <3>1
  <2> QED
    BY <1>1, <2>2, <2>5 DEF AdjustedPartSize
<1>2. CASE ~(q >= maxParts)
  BY <1>2 DEF AdjustedPartSize
<1> QED
  BY <1>1, <1>2

\* A body of known size fits the limit of parts: with the part size initSize
\* chose, the read number maxParts, if there is one, is the last.
THEOREM KnownSizeIsCut ==
    ASSUME NEW total \in Nat, NEW partSize \in Nat \ {0}, NEW maxParts \in Nat \ {0}
    PROVE  LastRead(total, AdjustedPartSize(total, partSize, maxParts), maxParts)
<1> DEFINE q == total \div partSize
           r == total \div maxParts
           p == AdjustedPartSize(total, partSize, maxParts)
<1>1. p \in Nat
  BY PartSizeOnlyGrows
<1>2. total <= maxParts * p
  <2>1. CASE q >= maxParts
    <3>1. r \in Nat /\ total < maxParts * r + maxParts
      BY DivisionBounds
    <3>2. p = r + 1
      BY <2>1 DEF AdjustedPartSize
    <3>3. maxParts * (r + 1) = maxParts * r + maxParts
      BY <3>1
    <3> QED
      BY <3>1, <3>2, <3>3
  <2>2. CASE ~(q >= maxParts)
    <3>1. q \in Nat /\ total < partSize * q + partSize
      BY DivisionBounds
    <3>2. p = partSize
      BY <2>2 DEF AdjustedPartSize
    <3>3. q + 1 <= maxParts
      BY <2>2, <3>1
    <3>4. partSize * (q + 1) <= partSize * maxParts
      BY <3>1, <3>3, ProductOrder
    <3>5. partSize * (q + 1) = partSize * q + partSize
      BY <3>1
    <3>6. partSize * maxParts = maxParts * partSize
      OBVIOUS
    <3> HIDE DEF p
    <3> QED
      BY <3>1, <3>2, <3>4, <3>5, <3>6
  <2> QED
    BY <2>1, <2>2
<1> HIDE DEF p
<1>3. (maxParts - 1) * p = maxParts * p - p
  BY <1>1
<1>4. LastRead(total, p, maxParts)
  BY <1>1, <1>2, <1>3 DEF LastRead, BytesLeft
<1> QED
  BY <1>4 DEF p

\* The reads before the last one tile the body: byte number "byte" is in the
\* read number byte \div partSize + 1, and in no other.
THEOREM ReadsTileTheBody ==
    ASSUME NEW total \in Nat, NEW partSize \in Nat \ {0},
           NEW byte \in Nat, byte < total,
           NEW n \in Nat \ {0}
    PROVE  Covers(total, partSize, n, byte) <=> n = byte \div partSize + 1
<1> DEFINE q == byte \div partSize
<1>1. q \in Nat /\ partSize * q <= byte /\ byte < partSize * q + partSize
  BY DivisionBounds
<1>2. partSize * (q + 1) = partSize * q + partSize
  BY <1>1
<1>3. ASSUME n = q + 1 PROVE Covers(total, partSize, n, byte)
  <2>1. Offset(partSize, n) = partSize * q
    BY <1>1, <1>3 DEF Offset
  <2>2. BytesLeft(total, partSize, n) = total - partSize * q
    BY <1>1, <1>3 DEF BytesLeft
  <2> QED
    BY <1>1, <2>1, <2>2 DEF Covers, ReadLength
<1>4. ASSUME Covers(total, partSize, n, byte) PROVE n = q + 1
  <2> DEFINE m == n - 1
  <2>1. m \in Nat
    OBVIOUS
  <2>2. partSize * m <= byte /\ byte < partSize * m + partSize
    BY <1>4, <2>1 DEF Covers, ReadLength, LastRead, BytesLeft, Offset
  <2>3. partSize * (m + 1) = partSize * m + partSize
    BY <2>1
  <2>4. ~(q + 1 <= m)
    BY <1>1, <1>2, <2>1, <2>2, ProductOrder
  <2>5. ~(m + 1 <= q)
    BY <1>1, <2>1, <2>2, <2>3, ProductOrder
  <2> QED
    BY <1>1, <2>1, <2>4, <2>5
<1> QED
  BY <1>3, <1>4

-----------------------------------------------------------------------------
(* Sizes. *)

\* Each read takes a chunk off what is left, and a body of known size has no
\* more than a chunk left at the last read that is allowed.
LEMMA SizeFacts ==
    ASSUME body \in Bodies
    PROVE  /\ ChunkSize \in Nat \ {0}
           /\ \A n \in Nat : /\ Left(n) \in Int
                             /\ Left(n + 1) = Left(n) - ChunkSize
           /\ Left(1) = body.size /\ body.size \in Nat
           /\ SizeKnown => Left(MaxUploadParts) <= ChunkSize
<1>1. body.size \in Nat
  BY BodiesAssumption DEF Body
<1>2. ChunkSize \in Nat \ {0}
  <2>1. PartSize \in Nat \ {0} /\ MaxUploadParts \in Nat \ {0}
    BY PartsAssumption
  <2>2. AdjustedPartSize(body.size, PartSize, MaxUploadParts) \in Nat \ {0}
    BY <1>1, <2>1, PartSizeOnlyGrows
  <2> QED
    BY <2>1, <2>2 DEF ChunkSize
<1> DEFINE c == ChunkSize
<1>3. ASSUME NEW n \in Nat
      PROVE  Left(n) \in Int /\ Left(n + 1) = Left(n) - ChunkSize
  <2>1. (n + 1 - 1) * c = (n - 1) * c + c
    BY <1>2
  <2>2. (n - 1) * c \in Int
    BY <1>2
  <2> QED
    BY <1>1, <1>2, <2>1, <2>2 DEF Left, BytesLeft
<1>4. Left(1) = body.size
  BY <1>1, <1>2 DEF Left, BytesLeft
<1>5. SizeKnown => Left(MaxUploadParts) <= ChunkSize
  BY <1>1, PartsAssumption, KnownSizeIsCut DEF Left, ChunkSize, LastRead
<1> QED
  BY <1>1, <1>2, <1>3, <1>4, <1>5

\* The number of chunks is that of the last read that finds data.
LEMMA LastChunk ==
    ASSUME body \in Bodies, NEW n \in Nat \ {0}, HasData(n), Left(n) <= ChunkSize
    PROVE  NumChunks = n
<1> DEFINE c == ChunkSize
           t == body.size + c - 1
           q == t \div c
<1>1. c \in Nat \ {0} /\ body.size \in Nat
  BY SizeFacts
<1>2. Left(n) = body.size - (n - 1) * c /\ 0 < Left(n)
  BY DEF Left, BytesLeft, HasData
<1>3. q \in Nat /\ c * q <= t /\ t < c * q + c
  <2>1. t \in Nat
    BY <1>1
  <2> QED
    BY <1>1, <2>1, DivisionBounds
<1>4. (n - 1) * c = c * n - c /\ c * n \in Nat
  BY <1>1
<1>5. c * n <= t /\ t < c * n + c
  BY <1>1, <1>2, <1>4
<1>6. ~(q + 1 <= n)
  <2>1. c * (q + 1) = c * q + c
    BY <1>1, <1>3
  <2> QED
    BY <1>1, <1>3, <1>5, <2>1, ProductOrder
<1>7. ~(n + 1 <= q)
  <2>1. c * (n + 1) = c * n + c
    BY <1>1
  <2> QED
    BY <1>1, <1>3, <1>5, <2>1, ProductOrder
<1>8. q = n
  BY <1>3, <1>6, <1>7
<1> QED
  BY <1>8 DEF NumChunks

\* A body whose first read is the last is one chunk.
LEMMA OneChunk ==
    ASSUME body \in Bodies, Left(1) <= ChunkSize
    PROVE  WholeBody = <<1>>
<1>1. NumChunks = 0 \/ NumChunks = 1
  <2>1. CASE HasData(1)
    BY <2>1, LastChunk
  <2>2. CASE ~HasData(1)
    <3>1. body.size = 0 /\ ChunkSize \in Nat \ {0}
      BY <2>2, SizeFacts DEF HasData
    <3>2. ChunkSize - 1 \in Nat /\ ChunkSize - 1 < ChunkSize
      BY <3>1
    <3>3. NumChunks = (ChunkSize - 1) \div ChunkSize
      BY <3>1 DEF NumChunks
    <3> QED
      BY <3>1, <3>2, <3>3
  <2> QED
    BY <2>1, <2>2
<1>2. WholeBody = [i \in 1 .. 1 |-> i]
  BY <1>1 DEF WholeBody
<1> QED
  BY <1>2

\* The whole body is a list of one chunk or more.
LEMMA WholeBodyType ==
    ASSUME body \in Bodies
    PROVE  WholeBody \in Seq(Nat) /\ WholeBody # <<>>
<1> DEFINE n == IF NumChunks = 0 THEN 1 ELSE NumChunks
<1>1. ChunkSize \in Nat \ {0} /\ body.size \in Nat
  BY SizeFacts
<1>2. NumChunks \in Nat
  <2>1. body.size + ChunkSize - 1 \in Nat
    BY <1>1
  <2> QED
    BY <1>1, <2>1, DivisionBounds DEF NumChunks
<1>3. n \in Nat /\ n >= 1
  BY <1>2
<1>4. WholeBody = [i \in 1 .. n |-> i]
  BY DEF WholeBody
<1> HIDE DEF n
<1>5. WholeBody \in Seq(Nat) /\ Len(WholeBody) = n
  BY <1>3, <1>4
<1> QED
  BY <1>3, <1>5

\* When the list of parts is to be completed it has every chunk of the body
\* once; sorted, it is the body.
LEMMA PartsMakeTheBody ==
    ASSUME IInv, pc = "complete"
    PROVE  SortedParts(parts) = WholeBody
<1>1. /\ body \in Bodies /\ num \in Nat /\ num >= 1 /\ parts \in Seq(Nat)
      /\ HasData(num) /\ Left(num) <= ChunkSize /\ err = "none"
  BY DEF IInv, TypeOK, CallerTypeOK, ChunksTypeOK, ReaderInv
<1>2. /\ \A w \in Workers : worker[w] = "ended"
      /\ ch = <<>>
  BY WorkersAssumption DEF IInv, PhaseInv, WorkersEnded
<1>3. Taken = num
  BY <1>1, <1>2 DEF Taken, Offered
<1>4. NumChunks = num
  BY <1>1, LastChunk
<1> DEFINE L == Len(parts)
<1>5. L \in Nat /\ parts \in [1 .. L -> Nat]
  BY <1>1
<1>6. \A i \in 1 .. L : parts[i] \in 1 .. num /\ \A j \in 1 .. L : parts[i] = parts[j] => i = j
  BY <1>3 DEF IInv, ChunkInv
<1>7. \A n \in 1 .. num : \E i \in 1 .. L : parts[i] = n
  BY <1>1, <1>2, <1>3 DEF IInv, ChunkInv, Unanswered
<1>8. Elements(parts) = 1 .. num
  BY <1>5, <1>6, <1>7 DEF Elements
<1>9. L = num
  <2>1. parts \in Bijection(1 .. L, 1 .. num)
    BY <1>5, <1>6, <1>7 DEF Bijection, Injection, Surjection, IsInjective
  <2>2. ExistsBijection(1 .. L, 1 .. num)
    BY <2>1 DEF ExistsBijection
  <2>3. /\ IsFiniteSet(1 .. L) /\ Cardinality(1 .. L) = L
        /\ Cardinality(1 .. num) = num
    <3>1. L >= 0 /\ num >= 1 /\ L \in Int /\ num \in Int /\ 1 \in Int
      BY <1>1, <1>5
    <3>2. Cardinality(1 .. L) = (IF 1 > L THEN 0 ELSE L - 1 + 1) /\ IsFiniteSet(1 .. L)
      BY <3>1, FS_Interval
    <3>3. Cardinality(1 .. num) = (IF 1 > num THEN 0 ELSE num - 1 + 1)
      BY <3>1, FS_Interval
    <3> QED
      BY <3>1, <3>2, <3>3
  <2> QED
    BY <2>2, <2>3, FS_Bijection
<1>10. ASSUME NEW i \in 1 .. num
       PROVE  (CHOOSE n \in 1 .. num : Cardinality({m \in 1 .. num : m < n}) = i - 1) = i
  <2>1. \A n \in 1 .. num : Cardinality({m \in 1 .. num : m < n}) = n - 1
    <3> TAKE n \in 1 .. num
    <3>1. {m \in 1 .. num : m < n} = 1 .. (n - 1)
      BY <1>1
    <3>2. n - 1 \in Nat /\ 1 \in Int /\ n - 1 \in Int
      BY <1>1
    <3>3. Cardinality(1 .. (n - 1)) = (IF 1 > n - 1 THEN 0 ELSE (n - 1) - 1 + 1)
      BY <3>2, FS_Interval
    <3>4. (IF 1 > n - 1 THEN 0 ELSE (n - 1) - 1 + 1) = n - 1
      BY <3>2
    <3>5. Cardinality(1 .. (n - 1)) = n - 1
      BY <3>3, <3>4
    <3> QED
      BY <3>1, <3>5
  <2>2. ASSUME NEW n \in 1 .. num
        PROVE  Cardinality({m \in 1 .. num : m < n}) = i - 1 <=> n = i
    <3>1. Cardinality({m \in 1 .. num : m < n}) = n - 1
      BY <2>1
    <3>2. n - 1 = i - 1 <=> n = i
      BY <1>1
    <3> QED
      BY <3>1, <3>2
  <2> DEFINE P(n) == Cardinality({m \in 1 .. num : m < n}) = i - 1
  <2>3. \A n \in 1 .. num : P(n) <=> n = i
    BY <2>2
  <2> HIDE DEF P
  <2>4. (CHOOSE n \in 1 .. num : P(n)) = i
    BY <2>3
  <2> QED
    BY <2>4 DEF P
<1>11. SortedParts(parts) = [i \in 1 .. num |-> i]
  <2> DEFINE C(S, i) == CHOOSE n \in S : Cardinality({m \in S : m < n}) = i - 1
  <2>1. SortedParts(parts) = [i \in 1 .. Len(parts) |-> C(Elements(parts), i)]
    BY DEF SortedParts
  <2>2. \A i \in 1 .. num : C(1 .. num, i) = i
    BY <1>10
  <2> HIDE DEF C
  <2> QED
    BY <1>8, <1>9, <2>1, <2>2
<1>12. WholeBody = [i \in 1 .. num |-> i]
  BY <1>1, <1>4 DEF WholeBody
<1> QED
  BY <1>11, <1>12

\* Every step of the caller, of a worker and of the world keeps the invariant.
LEMMA NextIInv == IInv /\ [Next]_vars => IInv'
<1> SUFFICES ASSUME IInv, [Next]_vars PROVE IInv'
  OBVIOUS
<1>1. CallerTypeOK
  BY DEF IInv, TypeOK
<1>2. ChunksTypeOK
  BY DEF IInv, TypeOK
<1>3. ServiceTypeOK
  BY DEF IInv, TypeOK
<1>4. ReaderInv
  BY DEF IInv, TypeOK
<1>5. PhaseInv
  BY DEF IInv, TypeOK
<1>6. QueueInv
  BY DEF IInv, TypeOK
<1>7. ChunkInv
  BY DEF IInv, TypeOK
<1>8. BufferInv
  BY DEF IInv, TypeOK
<1>9. WholeOrAbsent
  BY DEF IInv, TypeOK
<1>10. ASSUME Taken' = Taken, UNCHANGED <<parts, worker, job, stored>>,
             err' # "none" \/ pc' = "done" \/ (err = "none" /\ pc # "done")
      PROVE  ChunkInv'
  BY <1>7, <1>10 DEF ChunkInv, Busy, Unanswered
<1>11. CASE UNCHANGED vars
  <2>1. CallerTypeOK'
    BY <1>1, <1>11 DEF CallerTypeOK, vars, uvars, mainvars, s3vars
  <2>2. ChunksTypeOK'
    BY <1>1, <1>2, <1>11 DEF CallerTypeOK, ChunksTypeOK, vars, uvars, mainvars, s3vars
  <2>3. ServiceTypeOK'
    BY <1>2, <1>3, <1>11 DEF ChunksTypeOK, ServiceTypeOK, vars, uvars, mainvars, s3vars
  <2>4. ReaderInv'
    BY <1>1, <1>4, <1>11 DEF ReaderInv, CallerTypeOK, KnownSizeFits, SizeKnown, HasData, Left, ChunkSize, vars, uvars, mainvars, s3vars
  <2>5. PhaseInv'
    BY <1>2, <1>5, <1>11 DEF PhaseInv, WorkersEnded, ChunksTypeOK, Alone, vars, uvars, mainvars, s3vars
  <2>6. QueueInv'
    BY <1>1, <1>2, <1>5, <1>6, <1>11 DEF QueueInv, Taken, Offered, CallerTypeOK, ChunksTypeOK, PhaseInv, Alone, vars, uvars, mainvars, s3vars
  <2>7. ChunkInv'
    BY <1>7, <1>11 DEF ChunkInv, Taken, Offered, Busy, Unanswered, vars, uvars, mainvars, s3vars
  <2>8. BufferInv'
    BY <1>8, <1>11 DEF BufferInv, Busy, vars, uvars, mainvars, s3vars
  <2>9. WholeOrAbsent'
    BY <1>9, <1>11 DEF WholeOrAbsent, WholeBody, NumChunks, ChunkSize, SizeKnown, vars, uvars, mainvars, s3vars
  <2> QED
    BY <2>1, <2>2, <2>3, <2>4, <2>5, <2>6, <2>7, <2>8, <2>9 DEF IInv, TypeOK
<1>12. CASE Refused
  <2>1. CallerTypeOK'
    BY <1>1, <1>12 DEF CallerTypeOK, Refused, Returns, vars, uvars, mainvars, s3vars
  <2>2. ChunksTypeOK'
    BY <1>1, <1>2, <1>12 DEF CallerTypeOK, ChunksTypeOK, Refused, Returns, vars, uvars, mainvars, s3vars
  <2>3. ServiceTypeOK'
    BY <1>2, <1>3, <1>12 DEF ChunksTypeOK, ServiceTypeOK, Refused, Returns, vars, uvars, mainvars, s3vars
  <2>4. ReaderInv'
    BY <1>1, <1>4, <1>12 DEF ReaderInv, CallerTypeOK, KnownSizeFits, SizeKnown, HasData, Left, ChunkSize, Refused, Returns, vars, uvars, mainvars, s3vars
  <2>5. PhaseInv'
    BY <1>2, <1>5, <1>12 DEF PhaseInv, WorkersEnded, ChunksTypeOK, Alone, Refused, Returns, vars, uvars, mainvars, s3vars
  <2>6. QueueInv'
    BY <1>1, <1>2, <1>5, <1>6, <1>12 DEF QueueInv, Taken, Offered, CallerTypeOK, ChunksTypeOK, PhaseInv, Alone, Refused, Returns, vars, uvars, mainvars, s3vars
  <2>7. ChunkInv'
    BY <1>7, <1>12 DEF ChunkInv, Taken, Offered, Busy, Unanswered, Refused, Returns, vars, uvars, mainvars, s3vars
  <2>8. BufferInv'
    BY <1>8, <1>12 DEF BufferInv, Busy, Refused, Returns, vars, uvars, mainvars, s3vars
  <2>9. WholeOrAbsent'
    BY <1>9, <1>12 DEF WholeOrAbsent, WholeBody, NumChunks, ChunkSize, SizeKnown, Refused, Returns, vars, uvars, mainvars, s3vars
  <2> QED
    BY <2>1, <2>2, <2>3, <2>4, <2>5, <2>6, <2>7, <2>8, <2>9 DEF IInv, TypeOK
<1>13. CASE FirstRead
  <2>1. CallerTypeOK'
    <3>1. UNCHANGED <<body, leave, cancelled, closed>>
      BY <1>13 DEF FirstRead, uvars
    <3>2. /\ pc' \in {"done", "single", "create"} /\ num' \in {num, 1}
          /\ result' \in {result, "error"}
      BY <1>13 DEF FirstRead, Returns
    <3>3. last' = last \/ last' = TRUE
      BY Zenon, <1>13 DEF FirstRead
    <3>4. last' \in BOOLEAN
      BY Zenon, <1>1, <3>3 DEF CallerTypeOK
    <3> QED
      BY <1>1, <3>1, <3>2, <3>4 DEF CallerTypeOK
  <2>2. ChunksTypeOK'
    <3>1. buffers' \in {buffers, buffers \cup {1}}
      BY <1>13 DEF FirstRead, Take
    <3>2. UNCHANGED <<ch, parts, worker, job, err>>
      BY <1>13 DEF FirstRead
    <3>3. buffers' \subseteq Nat /\ err' = err
      BY <1>2, <3>1, <3>2 DEF ChunksTypeOK
    <3>4. UNCHANGED ch /\ UNCHANGED parts /\ UNCHANGED worker /\ UNCHANGED job
      BY <3>2
    <3> QED
      BY <1>2, <3>3, <3>4 DEF ChunksTypeOK
  <2>3. ServiceTypeOK'
    BY <1>2, <1>3, <1>13 DEF ChunksTypeOK, ServiceTypeOK, FirstRead, Returns, Take, vars, uvars, mainvars, s3vars
  <2>4. ReaderInv'
    <3>1. /\ ChunkSize \in Nat \ {0} /\ Left(1) \in Int /\ Left(1) = body.size
          /\ body.size \in Nat /\ MaxUploadParts \in Nat /\ 1 <= MaxUploadParts
      BY <1>1, SizeFacts, PartsAssumption DEF CallerTypeOK
    <3>2. err = "none" /\ num = 0 /\ ~last
      BY <1>4, <1>5, <1>13 DEF FirstRead, PhaseInv, ReaderInv, Alone
    <3>3. UNCHANGED <<body, err>>
      BY <1>13 DEF FirstRead, uvars
    <3>4. CASE pc' = "done"
      <4>1. num' = num
        BY <3>4, <1>13 DEF FirstRead, Returns
      <4>2. last' = last
        BY <3>4, <1>13 DEF FirstRead, Returns
      <4>3. ~last'
        BY Zenon, <3>2, <4>2
      <4> QED
        BY <3>1, <3>2, <3>3, <3>4, <4>1, <4>3 DEF ReaderInv, KnownSizeFits
    <3>5. CASE pc' = "single"
      <4>1. num' = 1 /\ ReadError(1) = "EOF"
        BY <3>5, <1>13 DEF FirstRead, Returns
      <4>2. Left(1) <= ChunkSize
        BY <3>1, <4>1 DEF ReadError
      <4> QED
        BY <3>1, <3>2, <3>3, <3>5, <4>1, <4>2
           DEF ReaderInv, KnownSizeFits, Left, ChunkSize, SizeKnown
    <3>6. CASE pc' = "create"
      <4>1. num' = 1 /\ ReadError(1) = "none" /\ last' = last
        BY <3>6, <1>13 DEF FirstRead, Returns, ReadError
      <4>2. HasData(1)
        BY <3>1, <4>1 DEF ReadError, HasData
      <4> QED
        BY <3>1, <3>2, <3>3, <3>6, <4>1, <4>2
           DEF ReaderInv, KnownSizeFits, HasData, Left, ChunkSize, SizeKnown
    <3> QED
      BY <3>4, <3>5, <3>6, <1>13 DEF FirstRead, Returns
  <2>5. PhaseInv'
    BY <1>2, <1>5, <1>13 DEF PhaseInv, WorkersEnded, ChunksTypeOK, Alone, FirstRead, Returns, Take, vars, uvars, mainvars, s3vars
  <2>6. QueueInv'
    BY <1>1, <1>2, <1>5, <1>6, <1>13 DEF QueueInv, Taken, Offered, CallerTypeOK, ChunksTypeOK, PhaseInv, Alone, FirstRead, Returns, Take, vars, uvars, mainvars, s3vars
  <2>7. ChunkInv'
    <3>1. ch = <<>> /\ num = 0
      BY <1>4, <1>5, <1>13 DEF FirstRead, PhaseInv, ReaderInv, Alone
    <3>2. Taken' = Taken
      BY <3>1, <1>13 DEF FirstRead, Returns, Taken, Offered
    <3> QED
      BY <3>2, <1>10, <1>13 DEF FirstRead, Returns, s3vars
  <2>8. BufferInv'
    BY <1>8, <1>13 DEF BufferInv, Busy, FirstRead, Returns, Take, vars, uvars, mainvars, s3vars
  <2>9. WholeOrAbsent'
    BY <1>9, <1>13 DEF WholeOrAbsent, WholeBody, NumChunks, ChunkSize, SizeKnown, FirstRead, Returns, Take, vars, uvars, mainvars, s3vars
  <2> QED
    BY <2>1, <2>2, <2>3, <2>4, <2>5, <2>6, <2>7, <2>8, <2>9 DEF IInv, TypeOK
<1>14. CASE singlePart
  <2>1. CallerTypeOK'
    BY <1>1, <1>14 DEF CallerTypeOK, singlePart, PutBack, vars, uvars, mainvars, s3vars
  <2>2. ChunksTypeOK'
    BY <1>1, <1>2, <1>14 DEF CallerTypeOK, ChunksTypeOK, singlePart, PutBack, vars, uvars, mainvars, s3vars
  <2>3. ServiceTypeOK'
    <3>1. <<1>> \in Seq(Nat)
      OBVIOUS
    <3> QED
      BY <1>3, <3>1, <1>14 DEF singlePart, ServiceTypeOK, s3vars
  <2>4. ReaderInv'
    BY <1>1, <1>4, <1>14 DEF ReaderInv, CallerTypeOK, KnownSizeFits, SizeKnown, HasData, Left, ChunkSize, singlePart, PutBack, vars, uvars, mainvars, s3vars
  <2>5. PhaseInv'
    BY <1>2, <1>5, <1>14 DEF PhaseInv, WorkersEnded, ChunksTypeOK, Alone, singlePart, PutBack, vars, uvars, mainvars, s3vars
  <2>6. QueueInv'
    BY <1>1, <1>2, <1>5, <1>6, <1>14 DEF QueueInv, Taken, Offered, CallerTypeOK, ChunksTypeOK, PhaseInv, Alone, singlePart, PutBack, vars, uvars, mainvars, s3vars
  <2>7. ChunkInv'
    <3>1. /\ \A w \in Workers : worker[w] = "none"
          /\ ch = <<>> /\ parts = <<>> /\ stored = {} /\ num = 1
      BY <1>4, <1>5, <1>14 DEF singlePart, PhaseInv, ReaderInv, Alone
    <3>2. Taken' = 1 /\ pc' = "done"
      BY <3>1, <1>14 DEF singlePart, Taken, Offered
    <3> QED
      BY <3>1, <3>2, <1>14 DEF singlePart, ChunkInv, Busy, Unanswered, s3vars
  <2>8. BufferInv'
    <3>1. /\ \A w \in Workers : worker[w] = "none"
          /\ ch = <<>> /\ parts = <<>> /\ stored = {} /\ num = 1
      BY <1>4, <1>5, <1>14 DEF singlePart, PhaseInv, ReaderInv, Alone
    <3> QED
      BY <1>8, <3>1, <1>14 DEF singlePart, BufferInv, Busy, PutBack
  <2>9. WholeOrAbsent'
    <3>1. Left(1) <= ChunkSize
      BY <1>4, <1>14 DEF singlePart, ReaderInv
    <3>2. WholeBody = <<1>>
      BY <1>1, <3>1, OneChunk DEF CallerTypeOK
    <3>3. WholeBody' = WholeBody
      BY <1>14 DEF singlePart, WholeBody, NumChunks, ChunkSize, SizeKnown, uvars
    <3> QED
      BY <1>9, <3>2, <3>3, <1>14 DEF singlePart, WholeOrAbsent
  <2> QED
    BY <2>1, <2>2, <2>3, <2>4, <2>5, <2>6, <2>7, <2>8, <2>9 DEF IInv, TypeOK
<1>15. CASE CreateMultipartUpload
  <2>1. CallerTypeOK'
    BY <1>1, <1>15 DEF CallerTypeOK, CreateMultipartUpload, Returns, PutBack, vars, uvars, mainvars, s3vars
  <2>2. ChunksTypeOK'
    BY <1>1, <1>2, <1>15 DEF CallerTypeOK, ChunksTypeOK, CreateMultipartUpload, Returns, PutBack, vars, uvars, mainvars, s3vars
  <2>3. ServiceTypeOK'
    BY <1>2, <1>3, <1>15 DEF ChunksTypeOK, ServiceTypeOK, CreateMultipartUpload, Returns, PutBack, vars, uvars, mainvars, s3vars
  <2>4. ReaderInv'
    BY <1>1, <1>4, <1>15 DEF ReaderInv, CallerTypeOK, KnownSizeFits, SizeKnown, HasData, Left, ChunkSize, CreateMultipartUpload, Returns, PutBack, vars, uvars, mainvars, s3vars
  <2>5. PhaseInv'
    BY <1>2, <1>5, <1>15 DEF PhaseInv, WorkersEnded, ChunksTypeOK, Alone, CreateMultipartUpload, Returns, PutBack, vars, uvars, mainvars, s3vars
  <2>6. QueueInv'
    BY <1>1, <1>2, <1>5, <1>6, <1>15 DEF QueueInv, Taken, Offered, CallerTypeOK, ChunksTypeOK, PhaseInv, Alone, CreateMultipartUpload, Returns, PutBack, vars, uvars, mainvars, s3vars
  <2>7. ChunkInv'
    <3>1. /\ \A w \in Workers : worker[w] = "none"
          /\ ch = <<>> /\ parts = <<>> /\ stored = {} /\ num = 1
      BY <1>4, <1>5, <1>15 DEF CreateMultipartUpload, PhaseInv, ReaderInv, Alone
    <3>2. Taken' \in {0, 1} /\ (pc' = "done" \/ Taken' = 0)
      BY <3>1, <1>15 DEF CreateMultipartUpload, Returns, Taken, Offered
    <3>3. \A v \in Workers : worker'[v] \notin Busy
      BY <3>1, <1>15 DEF CreateMultipartUpload, Busy
    <3> QED
      BY <3>1, <3>2, <3>3, <1>15 DEF CreateMultipartUpload, ChunkInv, Busy, Unanswered
  <2>8. BufferInv'
    <3>1. /\ \A w \in Workers : worker[w] = "none"
          /\ ch = <<>> /\ parts = <<>> /\ stored = {} /\ num = 1
      BY <1>4, <1>5, <1>15 DEF CreateMultipartUpload, PhaseInv, ReaderInv, Alone
    <3> QED
      BY <1>8, <3>1, <1>15 DEF CreateMultipartUpload, Returns, BufferInv, Busy, PutBack
  <2>9. WholeOrAbsent'
    BY <1>9, <1>15 DEF WholeOrAbsent, WholeBody, NumChunks, ChunkSize, SizeKnown, CreateMultipartUpload, Returns, PutBack, vars, uvars, mainvars, s3vars
  <2> QED
    BY <2>1, <2>2, <2>3, <2>4, <2>5, <2>6, <2>7, <2>8, <2>9 DEF IInv, TypeOK
<1>16. CASE Queue
  <2>1. CallerTypeOK'
    BY <1>1, <1>16 DEF CallerTypeOK, Queue, vars, uvars, mainvars, s3vars
  <2>2. ChunksTypeOK'
    BY <1>1, <1>2, <1>16 DEF CallerTypeOK, ChunksTypeOK, Queue, vars, uvars, mainvars, s3vars
  <2>3. ServiceTypeOK'
    BY <1>2, <1>3, <1>16 DEF ChunksTypeOK, ServiceTypeOK, Queue, vars, uvars, mainvars, s3vars
  <2>4. ReaderInv'
    BY <1>1, <1>4, <1>16 DEF ReaderInv, CallerTypeOK, KnownSizeFits, SizeKnown, HasData, Left, ChunkSize, Queue, vars, uvars, mainvars, s3vars
  <2>5. PhaseInv'
    BY <1>2, <1>5, <1>16 DEF PhaseInv, WorkersEnded, ChunksTypeOK, Alone, Queue, vars, uvars, mainvars, s3vars
  <2>6. QueueInv'
    <3>1. /\ Len(ch) \in Nat /\ num \in Nat /\ pc = "queue" /\ pc' = "loop" /\ num' = num
          /\ ch' = Append(ch, num) /\ ch \in Seq(Nat)
      BY <1>1, <1>2, <1>16 DEF Queue, CallerTypeOK, ChunksTypeOK
    <3>2. /\ Len(ch') = Len(ch) + 1 /\ ch'[Len(ch) + 1] = num
          /\ \A i \in 1 .. Len(ch) : ch'[i] = ch[i]
      BY <3>1
    <3>3. Taken' = Taken /\ Taken = num - 1 - Len(ch)
      BY <3>1, <3>2 DEF Taken, Offered
    <3>4. Taken >= 0 /\ \A i \in 1 .. Len(ch) : ch[i] = Taken + i
      BY <1>6 DEF QueueInv
    <3>5. ASSUME NEW i \in 1 .. Len(ch') PROVE ch'[i] = Taken + i
      <4>1. CASE i = Len(ch) + 1
        BY <3>1, <3>2, <3>3, <4>1
      <4>2. CASE i # Len(ch) + 1
        BY <3>1, <3>2, <3>4, <4>2
      <4> QED
        BY <4>1, <4>2
    <3> QED
      BY <3>3, <3>4, <3>5 DEF QueueInv
  <2>7. ChunkInv'
    <3>1. /\ Len(ch) \in Nat /\ num \in Nat /\ pc = "queue" /\ pc' = "loop" /\ num' = num
          /\ ch' = Append(ch, num) /\ ch \in Seq(Nat)
      BY <1>1, <1>2, <1>16 DEF Queue, CallerTypeOK, ChunksTypeOK
    <3>2. /\ Len(ch') = Len(ch) + 1 /\ ch'[Len(ch) + 1] = num
          /\ \A i \in 1 .. Len(ch) : ch'[i] = ch[i]
      BY <3>1
    <3>3. Taken' = Taken /\ Taken = num - 1 - Len(ch)
      BY <3>1, <3>2 DEF Taken, Offered
    <3> QED
      BY <3>1, <3>3, <1>10, <1>16 DEF Queue, s3vars
  <2>8. BufferInv'
    BY <1>8, <1>16 DEF BufferInv, Busy, Queue, vars, uvars, mainvars, s3vars
  <2>9. WholeOrAbsent'
    BY <1>9, <1>16 DEF WholeOrAbsent, WholeBody, NumChunks, ChunkSize, SizeKnown, Queue, vars, uvars, mainvars, s3vars
  <2> QED
    BY <2>1, <2>2, <2>3, <2>4, <2>5, <2>6, <2>7, <2>8, <2>9 DEF IInv, TypeOK
<1>17. CASE Loop
  <2>1. CallerTypeOK'
    BY <1>1, <1>17 DEF CallerTypeOK, Loop, vars, uvars, mainvars, s3vars
  <2>2. ChunksTypeOK'
    BY <1>1, <1>2, <1>17 DEF CallerTypeOK, ChunksTypeOK, Loop, vars, uvars, mainvars, s3vars
  <2>3. ServiceTypeOK'
    BY <1>2, <1>3, <1>17 DEF ChunksTypeOK, ServiceTypeOK, Loop, vars, uvars, mainvars, s3vars
  <2>4. ReaderInv'
    BY <1>1, <1>4, <1>17 DEF ReaderInv, CallerTypeOK, KnownSizeFits, SizeKnown, HasData, Left, ChunkSize, Loop, vars, uvars, mainvars, s3vars
  <2>5. PhaseInv'
    BY <1>2, <1>5, <1>17 DEF PhaseInv, WorkersEnded, ChunksTypeOK, Alone, Loop, vars, uvars, mainvars, s3vars
  <2>6. QueueInv'
    BY <1>1, <1>2, <1>5, <1>6, <1>17 DEF QueueInv, Taken, Offered, CallerTypeOK, ChunksTypeOK, PhaseInv, Alone, Loop, vars, uvars, mainvars, s3vars
  <2>7. ChunkInv'
    BY <1>7, <1>17 DEF ChunkInv, Taken, Offered, Busy, Unanswered, Loop, vars, uvars, mainvars, s3vars
  <2>8. BufferInv'
    BY <1>8, <1>17 DEF BufferInv, Busy, Loop, vars, uvars, mainvars, s3vars
  <2>9. WholeOrAbsent'
    BY <1>9, <1>17 DEF WholeOrAbsent, WholeBody, NumChunks, ChunkSize, SizeKnown, Loop, vars, uvars, mainvars, s3vars
  <2> QED
    BY <2>1, <2>2, <2>3, <2>4, <2>5, <2>6, <2>7, <2>8, <2>9 DEF IInv, TypeOK
<1>18. CASE NextChunk
  <2>1. CallerTypeOK'
    <3>1. UNCHANGED <<body, leave, cancelled, closed, result>>
      BY <1>18 DEF NextChunk, uvars
    <3>2. pc' \in {"queue", "close"} /\ num' \in {num, num + 1}
      BY <1>18 DEF NextChunk, Break
    <3>3. last' = last \/ last' = TRUE
      BY Zenon, <1>18 DEF NextChunk, Break
    <3>4. last' \in BOOLEAN
      BY Zenon, <1>1, <3>3 DEF CallerTypeOK
    <3> QED
      BY <1>1, <3>1, <3>2, <3>4 DEF CallerTypeOK
  <2>2. ChunksTypeOK'
    <3>1. buffers' \in {buffers, buffers \cup {num + 1}}
      BY <1>18 DEF NextChunk, Take, Break
    <3>2. UNCHANGED <<ch, parts, worker, job>>
      BY <1>18 DEF NextChunk
    <3>3. err' \in {err, "cancelled", "read", "parts"}
      BY <1>18 DEF NextChunk, Break
    <3>4. num + 1 \in Nat
      BY <1>1 DEF CallerTypeOK
    <3>5. buffers' \subseteq Nat
      BY <1>2, <3>1, <3>4 DEF ChunksTypeOK
    <3>6. err' \in {"none", "cancelled", "read", "parts", "part", "complete"}
      BY <1>2, <3>3 DEF ChunksTypeOK
    <3>7. UNCHANGED ch /\ UNCHANGED parts /\ UNCHANGED worker /\ UNCHANGED job
      BY <3>2
    <3> QED
      BY <1>2, <3>5, <3>6, <3>7 DEF ChunksTypeOK
  <2>3. ServiceTypeOK'
    BY <1>2, <1>3, <1>18 DEF ChunksTypeOK, ServiceTypeOK, NextChunk, Break, TooMany, Take, vars, uvars, mainvars, s3vars
  <2>4. ReaderInv'
    <3>1. /\ ChunkSize \in Nat \ {0} /\ num \in Nat
          /\ Left(num) \in Int /\ Left(num + 1) = Left(num) - ChunkSize
          /\ SizeKnown => Left(MaxUploadParts) <= ChunkSize
          /\ MaxUploadParts \in Nat
      BY <1>1, SizeFacts, PartsAssumption DEF CallerTypeOK
    <3>2. pc = "read" /\ num >= 1 /\ HasData(num) /\ num <= MaxUploadParts
      BY <1>4, <1>18 DEF NextChunk, ReaderInv
    <3>3. CASE pc' = "queue"
      <4>1. HasData(num + 1) /\ num + 1 <= MaxUploadParts /\ num' = num + 1 /\ err' = err
        BY <3>1, <3>2, <3>3, <1>18 DEF NextChunk, Break, TooMany
      <4>2. last' => Left(num + 1) <= ChunkSize
        <5>1. CASE ReadError(num + 1) = "EOF"
          BY <3>1, <5>1 DEF ReadError
        <5>2. CASE ReadError(num + 1) # "EOF"
          <6>1. last' = last /\ (last => Left(num) <= ChunkSize) /\ Left(num + 1) > 0
            BY <1>4, <3>3, <4>1, <5>2, <1>18 DEF NextChunk, Break, ReaderInv, HasData
          <6> QED
            BY <3>1, <6>1
        <5> QED
          BY <5>1, <5>2
      <4> QED
        BY <1>4, <3>1, <3>2, <3>3, <4>1, <4>2, <1>18
           DEF NextChunk, ReaderInv, KnownSizeFits, SizeKnown, HasData, Left, ChunkSize, uvars
    <3>4. CASE pc' = "close"
      <4>1. num' = num /\ last' = last
        BY <3>4, <1>18 DEF NextChunk, Break
      <4>2. err' = "none" => Left(num) <= ChunkSize
        <5>1. err' = "none" => ~HasData(num + 1)
          BY <3>4, <1>18 DEF NextChunk, Break
        <5> QED
          BY <3>1, <5>1, SizeFacts, <1>1 DEF HasData, CallerTypeOK
      <4>3. SizeKnown => err' # "parts"
        <5>1. err' = "parts" => err = "parts" \/ (HasData(num + 1) /\ num + 1 > MaxUploadParts)
          BY <3>4, <1>18 DEF NextChunk, Break, TooMany
        <5>2. num + 1 > MaxUploadParts => num = MaxUploadParts
          BY <3>1, <3>2
        <5>3. SizeKnown /\ num = MaxUploadParts => ~HasData(num + 1)
          BY <3>1 DEF HasData
        <5> QED
          BY <1>4, <5>1, <5>2, <5>3 DEF ReaderInv, KnownSizeFits
      <4> QED
        BY <1>4, <3>1, <3>2, <3>4, <4>1, <4>2, <4>3, <1>18
           DEF NextChunk, ReaderInv, KnownSizeFits, SizeKnown, HasData, Left, ChunkSize, uvars
    <3> QED
      BY <3>3, <3>4, <1>18 DEF NextChunk, Break
  <2>5. PhaseInv'
    BY <1>2, <1>5, <1>18 DEF PhaseInv, WorkersEnded, ChunksTypeOK, Alone, NextChunk, Break, TooMany, Take, vars, uvars, mainvars, s3vars
  <2>6. QueueInv'
    BY <1>1, <1>2, <1>5, <1>6, <1>18 DEF QueueInv, Taken, Offered, CallerTypeOK, ChunksTypeOK, PhaseInv, Alone, NextChunk, Break, TooMany, Take, vars, uvars, mainvars, s3vars
  <2>7. ChunkInv'
    <3>1. num \in Nat /\ pc = "read" /\ ch' = ch
      BY <1>1, <1>18 DEF NextChunk, CallerTypeOK
    <3>2. (pc' = "queue" /\ num' = num + 1) \/ (pc' = "close" /\ num' = num)
      BY <1>18 DEF NextChunk, Break
    <3>3. Taken' = Taken
      BY <3>1, <3>2 DEF Taken, Offered
    <3>4. err' # "none" \/ err = "none"
      BY <1>18 DEF NextChunk, Break
    <3> QED
      BY <1>10, <3>1, <3>3, <3>4, <1>18 DEF NextChunk, s3vars
  <2>8. BufferInv'
    BY <1>8, <1>18 DEF BufferInv, Busy, NextChunk, Break, TooMany, Take, vars, uvars, mainvars, s3vars
  <2>9. WholeOrAbsent'
    BY <1>9, <1>18 DEF WholeOrAbsent, WholeBody, NumChunks, ChunkSize, SizeKnown, NextChunk, Break, TooMany, Take, vars, uvars, mainvars, s3vars
  <2> QED
    BY <2>1, <2>2, <2>3, <2>4, <2>5, <2>6, <2>7, <2>8, <2>9 DEF IInv, TypeOK
<1>19. CASE Close
  <2>1. CallerTypeOK'
    BY <1>1, <1>19 DEF CallerTypeOK, Close, vars, uvars, mainvars, s3vars
  <2>2. ChunksTypeOK'
    BY <1>1, <1>2, <1>19 DEF CallerTypeOK, ChunksTypeOK, Close, vars, uvars, mainvars, s3vars
  <2>3. ServiceTypeOK'
    BY <1>2, <1>3, <1>19 DEF ChunksTypeOK, ServiceTypeOK, Close, vars, uvars, mainvars, s3vars
  <2>4. ReaderInv'
    BY <1>1, <1>4, <1>19 DEF ReaderInv, CallerTypeOK, KnownSizeFits, SizeKnown, HasData, Left, ChunkSize, Close, vars, uvars, mainvars, s3vars
  <2>5. PhaseInv'
    BY <1>2, <1>5, <1>19 DEF PhaseInv, WorkersEnded, ChunksTypeOK, Alone, Close, vars, uvars, mainvars, s3vars
  <2>6. QueueInv'
    BY <1>1, <1>2, <1>5, <1>6, <1>19 DEF QueueInv, Taken, Offered, CallerTypeOK, ChunksTypeOK, PhaseInv, Alone, Close, vars, uvars, mainvars, s3vars
  <2>7. ChunkInv'
    BY <1>7, <1>19 DEF ChunkInv, Taken, Offered, Busy, Unanswered, Close, vars, uvars, mainvars, s3vars
  <2>8. BufferInv'
    BY <1>8, <1>19 DEF BufferInv, Busy, Close, vars, uvars, mainvars, s3vars
  <2>9. WholeOrAbsent'
    BY <1>9, <1>19 DEF WholeOrAbsent, WholeBody, NumChunks, ChunkSize, SizeKnown, Close, vars, uvars, mainvars, s3vars
  <2> QED
    BY <2>1, <2>2, <2>3, <2>4, <2>5, <2>6, <2>7, <2>8, <2>9 DEF IInv, TypeOK
<1>20. CASE Wait
  <2>1. CallerTypeOK'
    BY <1>1, <1>20 DEF CallerTypeOK, Wait, WorkersEnded, vars, uvars, mainvars, s3vars
  <2>2. ChunksTypeOK'
    BY <1>1, <1>2, <1>20 DEF CallerTypeOK, ChunksTypeOK, Wait, WorkersEnded, vars, uvars, mainvars, s3vars
  <2>3. ServiceTypeOK'
    BY <1>2, <1>3, <1>20 DEF ChunksTypeOK, ServiceTypeOK, Wait, WorkersEnded, vars, uvars, mainvars, s3vars
  <2>4. ReaderInv'
    BY <1>1, <1>4, <1>20 DEF ReaderInv, CallerTypeOK, KnownSizeFits, SizeKnown, HasData, Left, ChunkSize, Wait, WorkersEnded, vars, uvars, mainvars, s3vars
  <2>5. PhaseInv'
    BY <1>2, <1>5, <1>20 DEF PhaseInv, WorkersEnded, ChunksTypeOK, Alone, Wait, vars, uvars, mainvars, s3vars
  <2>6. QueueInv'
    BY <1>1, <1>2, <1>5, <1>6, <1>20 DEF QueueInv, Taken, Offered, CallerTypeOK, ChunksTypeOK, PhaseInv, Alone, Wait, WorkersEnded, vars, uvars, mainvars, s3vars
  <2>7. ChunkInv'
    BY <1>7, <1>20 DEF ChunkInv, Taken, Offered, Busy, Unanswered, Wait, WorkersEnded, vars, uvars, mainvars, s3vars
  <2>8. BufferInv'
    BY <1>8, <1>20 DEF BufferInv, Busy, Wait, WorkersEnded, vars, uvars, mainvars, s3vars
  <2>9. WholeOrAbsent'
    BY <1>9, <1>20 DEF WholeOrAbsent, WholeBody, NumChunks, ChunkSize, SizeKnown, Wait, WorkersEnded, vars, uvars, mainvars, s3vars
  <2> QED
    BY <2>1, <2>2, <2>3, <2>4, <2>5, <2>6, <2>7, <2>8, <2>9 DEF IInv, TypeOK
<1>21. CASE CompleteMultipartUpload
  <2>1. CallerTypeOK'
    BY <1>1, <1>21 DEF CallerTypeOK, CompleteMultipartUpload, Returns, vars, uvars, mainvars, s3vars
  <2>2. ChunksTypeOK'
    BY <1>1, <1>2, <1>21 DEF CallerTypeOK, ChunksTypeOK, CompleteMultipartUpload, Returns, vars, uvars, mainvars, s3vars
  <2>3. ServiceTypeOK'
    <3>1. SortedParts(parts) \in Seq(Nat)
      BY PartsMakeTheBody, WholeBodyType, <1>1, <1>21 DEF CompleteMultipartUpload, CallerTypeOK
    <3> QED
      BY <1>3, <3>1, <1>21 DEF CompleteMultipartUpload, ServiceTypeOK
  <2>4. ReaderInv'
    BY <1>1, <1>4, <1>21 DEF ReaderInv, CallerTypeOK, KnownSizeFits, SizeKnown, HasData, Left, ChunkSize, CompleteMultipartUpload, Returns, vars, uvars, mainvars, s3vars
  <2>5. PhaseInv'
    <3>1. WorkersEnded /\ ch = <<>> /\ closed
      BY <1>5, WorkersAssumption, <1>21 DEF CompleteMultipartUpload, PhaseInv, WorkersEnded
    <3>2. \A v \in Workers : worker[v] = "ended"
      BY <3>1 DEF WorkersEnded
    <3>3. result = "pending"
      BY <1>5, <1>21 DEF CompleteMultipartUpload, PhaseInv
    <3> QED
      BY <1>5, <3>1, <3>2, <3>3, <1>21 DEF CompleteMultipartUpload, Returns, PhaseInv, WorkersEnded, Alone
  <2>6. QueueInv'
    BY <1>1, <1>2, <1>5, <1>6, <1>21 DEF QueueInv, Taken, Offered, CallerTypeOK, ChunksTypeOK, PhaseInv, Alone, CompleteMultipartUpload, Returns, vars, uvars, mainvars, s3vars
  <2>7. ChunkInv'
    BY <1>7, <1>21 DEF ChunkInv, Taken, Offered, Busy, Unanswered, CompleteMultipartUpload, Returns, vars, uvars, mainvars, s3vars
  <2>8. BufferInv'
    BY <1>8, <1>21 DEF BufferInv, Busy, CompleteMultipartUpload, Returns, vars, uvars, mainvars, s3vars
  <2>9. WholeOrAbsent'
    <3>1. SortedParts(parts) = WholeBody
      BY PartsMakeTheBody, <1>21 DEF CompleteMultipartUpload
    <3>2. WholeBody' = WholeBody
      BY <1>21 DEF CompleteMultipartUpload, WholeBody, NumChunks, ChunkSize, SizeKnown, uvars
    <3> QED
      BY <1>9, <3>1, <3>2, <1>21 DEF CompleteMultipartUpload, WholeOrAbsent
  <2> QED
    BY <2>1, <2>2, <2>3, <2>4, <2>5, <2>6, <2>7, <2>8, <2>9 DEF IInv, TypeOK
<1>22. CASE fail
  <2>1. CallerTypeOK'
    BY <1>1, <1>22 DEF CallerTypeOK, fail, Returns, vars, uvars, mainvars, s3vars
  <2>2. ChunksTypeOK'
    BY <1>1, <1>2, <1>22 DEF CallerTypeOK, ChunksTypeOK, fail, Returns, vars, uvars, mainvars, s3vars
  <2>3. ServiceTypeOK'
    BY <1>2, <1>3, <1>22 DEF ChunksTypeOK, ServiceTypeOK, fail, Returns, vars, uvars, mainvars, s3vars
  <2>4. ReaderInv'
    BY <1>1, <1>4, <1>22 DEF ReaderInv, CallerTypeOK, KnownSizeFits, SizeKnown, HasData, Left, ChunkSize, fail, Returns, vars, uvars, mainvars, s3vars
  <2>5. PhaseInv'
    <3>1. WorkersEnded /\ ch = <<>> /\ closed
      BY <1>5, WorkersAssumption, <1>22 DEF fail, PhaseInv, WorkersEnded
    <3>2. \A v \in Workers : worker[v] = "ended"
      BY <3>1 DEF WorkersEnded
    <3>3. result = "pending"
      BY <1>5, <1>22 DEF fail, PhaseInv
    <3> QED
      BY <1>5, <3>1, <3>2, <3>3, <1>22 DEF fail, Returns, PhaseInv, WorkersEnded, Alone
  <2>6. QueueInv'
    BY <1>1, <1>2, <1>5, <1>6, <1>22 DEF QueueInv, Taken, Offered, CallerTypeOK, ChunksTypeOK, PhaseInv, Alone, fail, Returns, vars, uvars, mainvars, s3vars
  <2>7. ChunkInv'
    BY <1>7, <1>22 DEF ChunkInv, Taken, Offered, Busy, Unanswered, fail, Returns, vars, uvars, mainvars, s3vars
  <2>8. BufferInv'
    BY <1>8, <1>22 DEF BufferInv, Busy, fail, Returns, vars, uvars, mainvars, s3vars
  <2>9. WholeOrAbsent'
    BY <1>9, <1>22 DEF WholeOrAbsent, WholeBody, NumChunks, ChunkSize, SizeKnown, fail, Returns, vars, uvars, mainvars, s3vars
  <2> QED
    BY <2>1, <2>2, <2>3, <2>4, <2>5, <2>6, <2>7, <2>8, <2>9 DEF IInv, TypeOK
<1>23. CASE Cancel
  <2>1. CallerTypeOK'
    BY <1>1, <1>23 DEF CallerTypeOK, Cancel, vars, uvars, mainvars, s3vars
  <2>2. ChunksTypeOK'
    BY <1>1, <1>2, <1>23 DEF CallerTypeOK, ChunksTypeOK, Cancel, vars, uvars, mainvars, s3vars
  <2>3. ServiceTypeOK'
    BY <1>2, <1>3, <1>23 DEF ChunksTypeOK, ServiceTypeOK, Cancel, vars, uvars, mainvars, s3vars
  <2>4. ReaderInv'
    BY <1>1, <1>4, <1>23 DEF ReaderInv, CallerTypeOK, KnownSizeFits, SizeKnown, HasData, Left, ChunkSize, Cancel, vars, uvars, mainvars, s3vars
  <2>5. PhaseInv'
    BY <1>2, <1>5, <1>23 DEF PhaseInv, WorkersEnded, ChunksTypeOK, Alone, Cancel, vars, uvars, mainvars, s3vars
  <2>6. QueueInv'
    BY <1>1, <1>2, <1>5, <1>6, <1>23 DEF QueueInv, Taken, Offered, CallerTypeOK, ChunksTypeOK, PhaseInv, Alone, Cancel, vars, uvars, mainvars, s3vars
  <2>7. ChunkInv'
    BY <1>7, <1>23 DEF ChunkInv, Taken, Offered, Busy, Unanswered, Cancel, vars, uvars, mainvars, s3vars
  <2>8. BufferInv'
    BY <1>8, <1>23 DEF BufferInv, Busy, Cancel, vars, uvars, mainvars, s3vars
  <2>9. WholeOrAbsent'
    BY <1>9, <1>23 DEF WholeOrAbsent, WholeBody, NumChunks, ChunkSize, SizeKnown, Cancel, vars, uvars, mainvars, s3vars
  <2> QED
    BY <2>1, <2>2, <2>3, <2>4, <2>5, <2>6, <2>7, <2>8, <2>9 DEF IInv, TypeOK
<1>24. ASSUME NEW w \in Workers, Receive(w) PROVE IInv'
  <2>1. CallerTypeOK'
    BY <1>1, <1>24 DEF CallerTypeOK, Receive, vars, uvars, mainvars, s3vars
  <2>2. ChunksTypeOK'
    <3>1. CASE ch = <<>>
      BY <1>2, <3>1, <1>24 DEF Receive, ChunksTypeOK
    <3>2. CASE ch # <<>>
      <4>1. /\ ch \in Seq(Nat) /\ ch # <<>> /\ Len(ch) \in Nat /\ Len(ch) >= 1
            /\ ch' = Tail(ch) /\ Head(ch) = ch[1] /\ ch[1] \in Nat
        BY <1>2, <3>2, <1>24 DEF Receive, ChunksTypeOK
      <4>2. /\ ch' \in Seq(Nat) /\ Len(ch') = Len(ch) - 1
            /\ \A i \in 1 .. Len(ch') : ch'[i] = ch[i + 1]
        BY <4>1
      <4> QED
        BY <1>2, <3>2, <4>1, <4>2, <1>24 DEF Receive, ChunksTypeOK
    <3> QED
      BY <3>1, <3>2
  <2>3. ServiceTypeOK'
    BY <1>2, <1>3, <1>24 DEF ChunksTypeOK, ServiceTypeOK, Receive, vars, uvars, mainvars, s3vars
  <2>4. ReaderInv'
    BY <1>1, <1>4, <1>24 DEF ReaderInv, CallerTypeOK, KnownSizeFits, SizeKnown, HasData, Left, ChunkSize, Receive, vars, uvars, mainvars, s3vars
  <2>5. PhaseInv'
    BY <1>2, <1>5, <1>24 DEF PhaseInv, WorkersEnded, ChunksTypeOK, Alone, Receive, vars, uvars, mainvars, s3vars
  <2>6. QueueInv'
    <3>1. CASE ch = <<>>
      BY <1>6, <3>1, <1>24 DEF Receive, QueueInv, Taken, Offered, mainvars
    <3>2. CASE ch # <<>>
      <4>1. /\ ch \in Seq(Nat) /\ ch # <<>> /\ Len(ch) \in Nat /\ Len(ch) >= 1
            /\ ch' = Tail(ch) /\ Head(ch) = ch[1] /\ ch[1] \in Nat
        BY <1>2, <3>2, <1>24 DEF Receive, ChunksTypeOK
      <4>2. /\ ch' \in Seq(Nat) /\ Len(ch') = Len(ch) - 1
            /\ \A i \in 1 .. Len(ch') : ch'[i] = ch[i + 1]
        BY <4>1
      <4>3. Taken' = Taken + 1 /\ Taken \in Nat /\ Offered \in Int
        <5>1. Offered' = Offered
          BY <1>24 DEF Receive, Offered, mainvars
        <5>2. Offered \in Int
          BY <1>1 DEF Offered, CallerTypeOK
        <5> QED
          BY <1>6, <4>1, <4>2, <5>1, <5>2 DEF Taken, QueueInv
      <4> QED
        BY <1>6, <4>1, <4>2, <4>3 DEF QueueInv
    <3> QED
      BY <3>1, <3>2
  <2>7. ChunkInv'
    <3>1. CASE ch = <<>>
      <4>1. Taken' = Taken /\ worker' = [worker EXCEPT ![w] = "ended"] /\ job' = job
        BY <3>1, <1>24 DEF Receive, Taken, Offered, mainvars
      <4> QED
        BY <1>2, <1>7, <3>1, <4>1, <1>24 DEF Receive, ChunkInv, Busy, Unanswered, ChunksTypeOK, mainvars, s3vars
    <3>2. CASE ch # <<>>
      <4>1. /\ ch \in Seq(Nat) /\ ch # <<>> /\ Len(ch) \in Nat /\ Len(ch) >= 1
            /\ ch' = Tail(ch) /\ Head(ch) = ch[1] /\ ch[1] \in Nat
        BY <1>2, <3>2, <1>24 DEF Receive, ChunksTypeOK
      <4>2. /\ ch' \in Seq(Nat) /\ Len(ch') = Len(ch) - 1
            /\ \A i \in 1 .. Len(ch') : ch'[i] = ch[i + 1]
        BY <4>1
      <4>3. Taken' = Taken + 1 /\ Taken \in Nat /\ Offered \in Int
        <5>1. Offered' = Offered
          BY <1>24 DEF Receive, Offered, mainvars
        <5>2. Offered \in Int
          BY <1>1 DEF Offered, CallerTypeOK
        <5> QED
          BY <1>6, <4>1, <4>2, <5>1, <5>2 DEF Taken, QueueInv
      <4>4. /\ worker' = [worker EXCEPT ![w] = "check"] /\ job' = [job EXCEPT ![w] = Taken + 1]
            /\ worker[w] = "receive"
        BY <1>6, <3>2, <4>1, <4>3, <1>24 DEF Receive, QueueInv
      <4>5. \A v \in Workers : v # w => worker'[v] = worker[v] /\ job'[v] = job[v]
        BY <1>2, <4>4 DEF ChunksTypeOK
      <4>6. worker'[w] = "check" /\ job'[w] = Taken + 1
        BY <1>2, <4>4 DEF ChunksTypeOK
      <4>7. UNCHANGED <<parts, stored, err, pc>>
        BY <1>24 DEF Receive, s3vars, mainvars
      <4>8. ASSUME NEW v \in Workers, worker'[v] \in Busy
            PROVE  /\ job'[v] \in 1 .. Taken'
                   /\ \A u \in Workers : worker'[u] \in Busy /\ job'[u] = job'[v] => u = v
        BY <1>7, <4>3, <4>5, <4>6, <4>8 DEF ChunkInv
      <4>9. ASSUME NEW i \in 1 .. Len(parts)
            PROVE  /\ parts[i] \in 1 .. Taken'
                   /\ \A j \in 1 .. Len(parts) : parts[i] = parts[j] => i = j
                   /\ \A v \in Workers : worker'[v] \in Unanswered => job'[v] # parts[i]
        BY <1>7, <4>3, <4>5, <4>6 DEF ChunkInv
      <4>10. ASSUME err = "none", pc # "done", NEW n \in 1 .. Taken'
             PROVE  \/ \E i \in 1 .. Len(parts) : parts[i] = n
                    \/ \E v \in Workers : worker'[v] \in Unanswered /\ job'[v] = n
        <5>1. CASE n = Taken + 1
          BY <4>6, <5>1 DEF Unanswered
        <5>2. CASE n # Taken + 1
          <6>1. n \in 1 .. Taken
            BY <4>3, <5>2
          <6> QED
            BY <1>7, <4>4, <4>5, <4>10, <6>1 DEF ChunkInv, Unanswered
        <5> QED
          BY <5>1, <5>2
      <4>11. stored \subseteq 1 .. Taken'
        BY <1>7, <4>3 DEF ChunkInv
      <4> QED
        BY <4>7, <4>8, <4>9, <4>10, <4>11 DEF ChunkInv
    <3> QED
      BY <3>1, <3>2
  <2>8. BufferInv'
    <3>1. CASE ch = <<>>
      BY <1>2, <1>8, <3>1, <1>24 DEF Receive, BufferInv, Busy, ChunksTypeOK, mainvars
    <3>2. CASE ch # <<>>
      <4>1. /\ ch \in Seq(Nat) /\ ch # <<>> /\ Len(ch) \in Nat /\ Len(ch) >= 1
            /\ ch' = Tail(ch) /\ Head(ch) = ch[1] /\ ch[1] \in Nat
        BY <1>2, <3>2, <1>24 DEF Receive, ChunksTypeOK
      <4>2. /\ ch' \in Seq(Nat) /\ Len(ch') = Len(ch) - 1
            /\ \A i \in 1 .. Len(ch') : ch'[i] = ch[i + 1]
        BY <4>1
      <4>3. /\ worker'[w] = "check" /\ job'[w] = ch[1] /\ worker[w] = "receive"
            /\ \A v \in Workers : v # w => worker'[v] = worker[v] /\ job'[v] = job[v]
        BY <1>2, <3>2, <4>1, <1>24 DEF Receive, ChunksTypeOK
      <4>4. ASSUME NEW i \in 1 .. Len(ch), i # 1
            PROVE  \E j \in 1 .. Len(ch') : ch'[j] = ch[i]
        <5>1. i - 1 \in 1 .. Len(ch') /\ ch'[i - 1] = ch[i]
          BY <4>1, <4>2, <4>4
        <5> QED
          BY <5>1
      <4> QED
        BY <1>8, <4>3, <4>4, <1>24 DEF Receive, BufferInv, Busy, mainvars
    <3> QED
      BY <3>1, <3>2
  <2>9. WholeOrAbsent'
    BY <1>9, <1>24 DEF WholeOrAbsent, WholeBody, NumChunks, ChunkSize, SizeKnown, Receive, vars, uvars, mainvars, s3vars
  <2> QED
    BY <2>1, <2>2, <2>3, <2>4, <2>5, <2>6, <2>7, <2>8, <2>9 DEF IInv, TypeOK
<1>25. ASSUME NEW w \in Workers, CheckError(w) PROVE IInv'
  <2>1. CallerTypeOK'
    BY <1>1, <1>25 DEF CallerTypeOK, CheckError, vars, uvars, mainvars, s3vars
  <2>2. ChunksTypeOK'
    BY <1>1, <1>2, <1>25 DEF CallerTypeOK, ChunksTypeOK, CheckError, vars, uvars, mainvars, s3vars
  <2>3. ServiceTypeOK'
    BY <1>2, <1>3, <1>25 DEF ChunksTypeOK, ServiceTypeOK, CheckError, vars, uvars, mainvars, s3vars
  <2>4. ReaderInv'
    BY <1>1, <1>4, <1>25 DEF ReaderInv, CallerTypeOK, KnownSizeFits, SizeKnown, HasData, Left, ChunkSize, CheckError, vars, uvars, mainvars, s3vars
  <2>5. PhaseInv'
    BY <1>2, <1>5, <1>25 DEF PhaseInv, WorkersEnded, ChunksTypeOK, Alone, CheckError, vars, uvars, mainvars, s3vars
  <2>6. QueueInv'
    BY <1>1, <1>2, <1>5, <1>6, <1>25 DEF QueueInv, Taken, Offered, CallerTypeOK, ChunksTypeOK, PhaseInv, Alone, CheckError, vars, uvars, mainvars, s3vars
  <2>7. ChunkInv'
    BY <1>7, <1>25 DEF ChunkInv, Taken, Offered, Busy, Unanswered, CheckError, vars, uvars, mainvars, s3vars
  <2>8. BufferInv'
    BY <1>8, <1>25 DEF BufferInv, Busy, CheckError, vars, uvars, mainvars, s3vars
  <2>9. WholeOrAbsent'
    BY <1>9, <1>25 DEF WholeOrAbsent, WholeBody, NumChunks, ChunkSize, SizeKnown, CheckError, vars, uvars, mainvars, s3vars
  <2> QED
    BY <2>1, <2>2, <2>3, <2>4, <2>5, <2>6, <2>7, <2>8, <2>9 DEF IInv, TypeOK
<1>26. ASSUME NEW w \in Workers, send(w) PROVE IInv'
  <2>1. CallerTypeOK'
    BY <1>1, <1>26 DEF CallerTypeOK, send, vars, uvars, mainvars, s3vars
  <2>2. ChunksTypeOK'
    <3>1. job[w] \in Nat /\ parts \in Seq(Nat)
      BY <1>2 DEF ChunksTypeOK
    <3>2. Append(parts, job[w]) \in Seq(Nat)
      BY <3>1
    <3> QED
      BY <1>2, <3>2, <1>26 DEF send, ChunksTypeOK
  <2>3. ServiceTypeOK'
    BY <1>2, <1>3, <1>26 DEF ChunksTypeOK, ServiceTypeOK, send, vars, uvars, mainvars, s3vars
  <2>4. ReaderInv'
    BY <1>1, <1>4, <1>26 DEF ReaderInv, CallerTypeOK, KnownSizeFits, SizeKnown, HasData, Left, ChunkSize, send, vars, uvars, mainvars, s3vars
  <2>5. PhaseInv'
    BY <1>2, <1>5, <1>26 DEF PhaseInv, WorkersEnded, ChunksTypeOK, Alone, send, vars, uvars, mainvars, s3vars
  <2>6. QueueInv'
    BY <1>1, <1>2, <1>5, <1>6, <1>26 DEF QueueInv, Taken, Offered, CallerTypeOK, ChunksTypeOK, PhaseInv, Alone, send, vars, uvars, mainvars, s3vars
  <2>7. ChunkInv'
    <3>1. /\ \A v \in Workers : v # w => worker'[v] = worker[v]
          /\ worker[w] = "send" /\ worker'[w] \in {"cleanup", "seterr"} /\ job' = job
          /\ job[w] \in 1 .. Taken
      BY <1>2, <1>7, <1>26 DEF send, ChunksTypeOK, ChunkInv, Busy
    <3>2. Taken' = Taken /\ UNCHANGED <<err, pc>>
      BY <1>26 DEF send, Taken, Offered, mainvars
    <3>3. \A v \in Workers : worker'[v] \in Busy => worker[v] \in Busy
      BY <3>1 DEF Busy
    <3>4. stored' \subseteq 1 .. Taken
      <4>1. stored' \in {stored, stored \cup {job[w]}}
        BY <1>26 DEF send
      <4>2. stored \subseteq 1 .. Taken
        BY <1>7 DEF ChunkInv
      <4> QED
        BY <3>1, <4>1, <4>2
    <3>5. CASE parts' = parts /\ worker'[w] = "seterr"
      BY <1>7, <3>1, <3>2, <3>3, <3>4, <3>5 DEF ChunkInv, Unanswered
    <3>6. CASE parts' = Append(parts, job[w]) /\ worker'[w] = "cleanup"
      <4>1. /\ Len(parts') = Len(parts) + 1 /\ Len(parts) \in Nat
            /\ parts'[Len(parts) + 1] = job[w]
            /\ \A i \in 1 .. Len(parts) : parts'[i] = parts[i]
        BY <1>2, <3>6 DEF ChunksTypeOK
      <4>2. \A i \in 1 .. Len(parts') : i = Len(parts) + 1 \/ i \in 1 .. Len(parts)
        BY <4>1
      <4>3. ASSUME NEW v \in Workers, worker'[v] \in Busy
            PROVE  /\ job[v] \in 1 .. Taken
                   /\ \A u \in Workers : worker'[u] \in Busy /\ job[u] = job[v] => u = v
        BY <1>7, <3>3, <4>3 DEF ChunkInv
      <4>4. ASSUME NEW v \in Workers, worker'[v] \in Unanswered
            PROVE  v # w /\ worker[v] \in Unanswered /\ job[v] # job[w]
        BY <1>7, <3>1, <3>6, <4>4 DEF ChunkInv, Busy, Unanswered
      <4>5. ASSUME NEW i \in 1 .. Len(parts')
            PROVE  /\ parts'[i] \in 1 .. Taken
                   /\ \A j \in 1 .. Len(parts') : parts'[i] = parts'[j] => i = j
                   /\ \A v \in Workers : worker'[v] \in Unanswered => job[v] # parts'[i]
        <5>1. \A k \in 1 .. Len(parts) : parts[k] # job[w]
          BY <1>7, <3>1 DEF ChunkInv, Unanswered
        <5> QED
          BY <1>7, <3>1, <4>1, <4>2, <4>4, <5>1 DEF ChunkInv
      <4>6. ASSUME err = "none", pc # "done", NEW n \in 1 .. Taken
            PROVE  \/ \E i \in 1 .. Len(parts') : parts'[i] = n
                   \/ \E v \in Workers : worker'[v] \in Unanswered /\ job[v] = n
        <5>1. CASE n = job[w]
          BY <4>1, <5>1
        <5>2. CASE \E i \in 1 .. Len(parts) : parts[i] = n
          <6>1. \A i \in 1 .. Len(parts) : i \in 1 .. Len(parts')
            BY <4>1
          <6> QED
            BY <4>1, <5>2, <6>1
        <5>3. CASE \E v \in Workers : v # w /\ worker[v] \in Unanswered /\ job[v] = n
          BY <3>1, <5>3
        <5> QED
          BY <1>7, <4>6, <5>1, <5>2, <5>3 DEF ChunkInv
      <4> QED
        BY <3>1, <3>2, <3>4, <4>3, <4>5, <4>6 DEF ChunkInv
    <3> QED
      BY <1>2, <3>5, <3>6, <1>26 DEF send, ChunksTypeOK
  <2>8. BufferInv'
    BY <1>8, <1>2, <1>26 DEF BufferInv, Busy, ChunksTypeOK, send, vars, uvars, mainvars, s3vars
  <2>9. WholeOrAbsent'
    BY <1>9, <1>26 DEF WholeOrAbsent, WholeBody, NumChunks, ChunkSize, SizeKnown, send, vars, uvars, mainvars, s3vars
  <2> QED
    BY <2>1, <2>2, <2>3, <2>4, <2>5, <2>6, <2>7, <2>8, <2>9 DEF IInv, TypeOK
<1>27. ASSUME NEW w \in Workers, seterr(w) PROVE IInv'
  <2>1. CallerTypeOK'
    BY <1>1, <1>27 DEF CallerTypeOK, seterr, vars, uvars, mainvars, s3vars
  <2>2. ChunksTypeOK'
    BY <1>1, <1>2, <1>27 DEF CallerTypeOK, ChunksTypeOK, seterr, vars, uvars, mainvars, s3vars
  <2>3. ServiceTypeOK'
    BY <1>2, <1>3, <1>27 DEF ChunksTypeOK, ServiceTypeOK, seterr, vars, uvars, mainvars, s3vars
  <2>4. ReaderInv'
    <3>1. pc # "complete"
      BY <1>5, <1>27 DEF seterr, PhaseInv, WorkersEnded
    <3> QED
      BY <1>4, <3>1, <1>27 DEF seterr, ReaderInv, KnownSizeFits, SizeKnown, HasData, Left, ChunkSize, uvars, mainvars
  <2>5. PhaseInv'
    BY <1>2, <1>5, <1>27 DEF PhaseInv, WorkersEnded, ChunksTypeOK, Alone, seterr, vars, uvars, mainvars, s3vars
  <2>6. QueueInv'
    BY <1>1, <1>2, <1>5, <1>6, <1>27 DEF QueueInv, Taken, Offered, CallerTypeOK, ChunksTypeOK, PhaseInv, Alone, seterr, vars, uvars, mainvars, s3vars
  <2>7. ChunkInv'
    BY <1>7, <1>27 DEF ChunkInv, Taken, Offered, Busy, Unanswered, seterr, vars, uvars, mainvars, s3vars
  <2>8. BufferInv'
    BY <1>8, <1>27 DEF BufferInv, Busy, seterr, vars, uvars, mainvars, s3vars
  <2>9. WholeOrAbsent'
    BY <1>9, <1>27 DEF WholeOrAbsent, WholeBody, NumChunks, ChunkSize, SizeKnown, seterr, vars, uvars, mainvars, s3vars
  <2> QED
    BY <2>1, <2>2, <2>3, <2>4, <2>5, <2>6, <2>7, <2>8, <2>9 DEF IInv, TypeOK
<1>28. ASSUME NEW w \in Workers, cleanup(w) PROVE IInv'
  <2>1. CallerTypeOK'
    BY <1>1, <1>28 DEF CallerTypeOK, cleanup, PutBack, vars, uvars, mainvars, s3vars
  <2>2. ChunksTypeOK'
    BY <1>1, <1>2, <1>28 DEF CallerTypeOK, ChunksTypeOK, cleanup, PutBack, vars, uvars, mainvars, s3vars
  <2>3. ServiceTypeOK'
    BY <1>2, <1>3, <1>28 DEF ChunksTypeOK, ServiceTypeOK, cleanup, PutBack, vars, uvars, mainvars, s3vars
  <2>4. ReaderInv'
    BY <1>1, <1>4, <1>28 DEF ReaderInv, CallerTypeOK, KnownSizeFits, SizeKnown, HasData, Left, ChunkSize, cleanup, PutBack, vars, uvars, mainvars, s3vars
  <2>5. PhaseInv'
    BY <1>2, <1>5, <1>28 DEF PhaseInv, WorkersEnded, ChunksTypeOK, Alone, cleanup, PutBack, vars, uvars, mainvars, s3vars
  <2>6. QueueInv'
    BY <1>1, <1>2, <1>5, <1>6, <1>28 DEF QueueInv, Taken, Offered, CallerTypeOK, ChunksTypeOK, PhaseInv, Alone, cleanup, PutBack, vars, uvars, mainvars, s3vars
  <2>7. ChunkInv'
    BY <1>7, <1>28 DEF ChunkInv, Taken, Offered, Busy, Unanswered, cleanup, PutBack, vars, uvars, mainvars, s3vars
  <2>8. BufferInv'
    BY <1>8, <1>28 DEF BufferInv, Busy, cleanup, PutBack, vars, uvars, mainvars, s3vars
  <2>9. WholeOrAbsent'
    BY <1>9, <1>28 DEF WholeOrAbsent, WholeBody, NumChunks, ChunkSize, SizeKnown, cleanup, PutBack, vars, uvars, mainvars, s3vars
  <2> QED
    BY <2>1, <2>2, <2>3, <2>4, <2>5, <2>6, <2>7, <2>8, <2>9 DEF IInv, TypeOK
<1> QED
  BY <1>11, <1>12, <1>13, <1>14, <1>15, <1>16, <1>17, <1>18, <1>19, <1>20, <1>21, <1>22, <1>23, <1>24, <1>25, <1>26, <1>27, <1>28 DEF Next, MainStep, WorkerStep

\* A call starts with nothing read, queued or stored.
LEMMA InitIInv == Init => IInv
<1> SUFFICES ASSUME Init PROVE IInv
  OBVIOUS
<1> USE DEF Init
<1>1. TypeOK
  <2>1. CallerTypeOK
    BY DEF CallerTypeOK
  <2>2. ChunksTypeOK
    BY DEF ChunksTypeOK
  <2>3. ServiceTypeOK
    BY DEF ServiceTypeOK
  <2> QED
    BY <2>1, <2>2, <2>3 DEF TypeOK
<1>2. ReaderInv
  BY PartsAssumption DEF ReaderInv, KnownSizeFits
<1>3. PhaseInv
  BY DEF PhaseInv, Alone
<1>4. Taken = 0
  BY DEF Taken, Offered
<1>5. QueueInv /\ ChunkInv /\ BufferInv
  BY <1>4 DEF QueueInv, ChunkInv, BufferInv, Busy, Unanswered
<1> QED
  BY <1>1, <1>2, <1>3, <1>5 DEF IInv, WholeOrAbsent

THEOREM UploadInvariant == Spec => []IInv
  BY InitIInv, NextIInv, PTL DEF Spec

\* Each variable of a call keeps its type.
THEOREM UploadTypeCorrect == Spec => []TypeOK
  BY UploadInvariant, PTL DEF IInv

\* The object is the body or there is none: whatever order the workers send
\* the chunks and the answers come in, the sorted list of parts has each chunk
\* once when it is completed.
THEOREM NoTornObject == Spec => []ObjectIsBody
<1>1. IInv => ObjectIsBody
  BY PartsMakeTheBody DEF IInv, WholeOrAbsent, ObjectIsBody
<1> QED
  BY <1>1, UploadInvariant, PTL

\* No worker has a request on its way when the upload is completed or aborted.
THEOREM NoLateParts == Spec => []QuietAtEnd
<1>1. IInv => QuietAtEnd
  BY Zenon DEF IInv, PhaseInv, QuietAtEnd, WorkersEnded
<1> QED
  BY <1>1, UploadInvariant, PTL

\* Whatever failed, a call that returned has put its buffers back.
THEOREM NoBufferKept == Spec => []BuffersReturned
<1>1. ASSUME IInv, pc = "done" PROVE buffers = {}
  <2>1. ch = <<>> /\ \A w \in Workers : worker[w] \notin Busy
    BY <1>1 DEF IInv, PhaseInv, Busy
  <2> QED
    BY <1>1, <2>1 DEF IInv, BufferInv
<1>2. IInv => BuffersReturned
  BY <1>1 DEF BuffersReturned
<1> QED
  BY <1>2, UploadInvariant, PTL

\* The part numbers of an upload stay within the configured limit.
THEOREM NoPartPastTheLimit == Spec => []PartsWithinLimit
<1>1. ASSUME IInv PROVE PartsWithinLimit
  <2>1. Len(ch) \in Nat /\ num \in Nat /\ num <= MaxUploadParts
    BY <1>1 DEF IInv, TypeOK, CallerTypeOK, ChunksTypeOK, ReaderInv
  <2>2. Taken \in Int /\ Taken <= num
    BY <2>1 DEF Taken, Offered
  <2>3. stored \subseteq 1 .. Taken
    BY <1>1 DEF IInv, ChunkInv
  <2> QED
    BY <2>1, <2>2, <2>3, PartsAssumption DEF PartsWithinLimit
<1> QED
  BY <1>1, UploadInvariant, PTL

\* The part size that initSize chose is never too small for a body whose size
\* it knew.
THEOREM NoKnownSizeRefused == Spec => []KnownSizeFits
  BY UploadInvariant, PTL DEF IInv, ReaderInv

-----------------------------------------------------------------------------
(* What is left on the service. *)

\* The multipart upload is open from the answer that created it until it is
\* completed or aborted, and parts are stored in an open upload only.
ServiceInv ==
    /\ stored # {} => upload = "open"
    /\ pc \in Alone => upload = "none"
    /\ pc \in {"queue", "loop", "read", "close", "wait", "complete"} => upload = "open"
    /\ NoPartsLeft

LEMMA NextServiceInv == IInv /\ ServiceInv /\ [Next]_vars => ServiceInv'
<1> SUFFICES ASSUME IInv, ServiceInv, [Next]_vars PROVE ServiceInv'
  OBVIOUS
<1>1. PhaseInv /\ (stored # {} => upload = "open") /\ NoPartsLeft
  BY DEF IInv, ServiceInv
<1>2. stored \subseteq Nat /\ (pc \in Alone => upload = "none" /\ stored = {})
  BY DEF IInv, TypeOK, ServiceTypeOK, PhaseInv, ServiceInv
<1>3. ASSUME UNCHANGED <<upload, stored, abort, leave>>,
             \/ pc' = pc
             \/ /\ pc \in {"queue", "loop", "read", "close", "wait"}
                /\ pc' \in {"queue", "loop", "read", "close", "wait", "complete", "fail"}
      PROVE  ServiceInv'
  <2>1. CASE pc' = pc
    BY <1>3, <2>1 DEF ServiceInv, NoPartsLeft, Explained
  <2>2. CASE pc \in {"queue", "loop", "read", "close", "wait"}
             /\ pc' \in {"queue", "loop", "read", "close", "wait", "complete", "fail"}
    BY <1>3, <2>2 DEF ServiceInv, NoPartsLeft, Alone
  <2> QED
    BY <1>3, <2>1, <2>2
<1>4. CASE UNCHANGED vars
  BY <1>3, <1>4 DEF vars, uvars, mainvars, s3vars
<1>5. CASE Refused \/ FirstRead \/ singlePart
  BY <1>2, <1>5 DEF ServiceInv, NoPartsLeft, Explained, Alone, Refused, FirstRead, singlePart,
                    Returns, uvars, s3vars
<1>6. CASE CreateMultipartUpload
  BY <1>2, <1>6 DEF ServiceInv, NoPartsLeft, Explained, Alone, CreateMultipartUpload,
                    Returns, uvars
<1>7. CASE Queue \/ Loop \/ NextChunk \/ Close \/ Cancel
  <2>1. UNCHANGED <<upload, stored, abort, leave>>
    BY <1>7 DEF Queue, Loop, NextChunk, Close, Cancel, uvars, s3vars
  <2>2. \/ pc' = pc
        \/ /\ pc \in {"queue", "loop", "read", "close"}
           /\ pc' \in {"queue", "loop", "read", "close", "wait"}
    BY <1>7 DEF Queue, Loop, NextChunk, Break, Close, Cancel, mainvars
  <2> QED
    BY <1>3, <2>1, <2>2
<1>8. CASE Wait
  BY <1>3, <1>8 DEF Wait, uvars, s3vars
<1>9. CASE CompleteMultipartUpload
  BY <1>1, <1>9 DEF ServiceInv, NoPartsLeft, Alone, CompleteMultipartUpload, Returns
<1>10. CASE fail
  BY <1>1, <1>10 DEF ServiceInv, NoPartsLeft, Explained, Alone, fail, LeaveParts, Returns, uvars
<1>11. ASSUME NEW w \in Workers, Receive(w) \/ CheckError(w) \/ seterr(w) \/ cleanup(w)
       PROVE  ServiceInv'
  BY <1>3, <1>11 DEF Receive, CheckError, seterr, cleanup, uvars, mainvars, s3vars
<1>12. ASSUME NEW w \in Workers, send(w) PROVE ServiceInv'
  <2>1. pc \notin Alone \cup {"complete", "fail", "done"}
    BY <1>1, <1>12 DEF send, PhaseInv, WorkersEnded
  <2> QED
    BY <1>12, <2>1 DEF ServiceInv, NoPartsLeft, send, mainvars
<1> QED
  BY <1>4, <1>5, <1>6, <1>7, <1>8, <1>9, <1>10, <1>11, <1>12 DEF Next, MainStep, WorkerStep

\* A call that failed leaves no part on the service, unless it was told to,
\* never learned of its upload, or its abort got lost: no part arrives after
\* the abort, and none before the upload is open.
THEOREM NoPartsForgotten == Spec => []NoPartsLeft
<1>1. Init => ServiceInv
  BY DEF Init, ServiceInv, Alone, NoPartsLeft
<1> QED
  BY <1>1, NextServiceInv, UploadInvariant, PTL DEF Spec, ServiceInv

\* A step of the upload returns an error, or stores the whole body while none
\* is stored, or is not seen by the caller.
LEMMA StepOfUpload ==
    ASSUME IInv, Next
    PROVE  /\ body' = body
           /\ \/ UNCHANGED <<object, result>>
              \/ UNCHANGED object /\ result = "pending" /\ result' = "error"
              \/ /\ object = <<>> /\ object' = WholeBody
                 /\ result = "pending" /\ result' \in {"pending", "ok", "error"}
<1>1. body \in Bodies /\ (pc # "done" => result = "pending")
  BY DEF IInv, TypeOK, CallerTypeOK, PhaseInv
<1>2. pc \notin {"fail", "done"} => object = <<>>
  BY DEF IInv, PhaseInv
<1>3. CASE singlePart
  <2>1. Left(1) <= ChunkSize
    BY <1>3 DEF singlePart, IInv, ReaderInv
  <2>2. WholeBody = <<1>>
    BY <1>1, <2>1, OneChunk
  <2> QED
    BY <1>1, <1>2, <1>3, <2>2 DEF singlePart, uvars
<1>4. CASE CompleteMultipartUpload
  <2>1. SortedParts(parts) = WholeBody
    BY <1>4, PartsMakeTheBody DEF CompleteMultipartUpload
  <2> QED
    BY <1>1, <1>2, <1>4, <2>1 DEF CompleteMultipartUpload, Returns, uvars
<1>5. CASE Refused \/ FirstRead \/ CreateMultipartUpload \/ fail
  BY <1>1, <1>5 DEF Refused, FirstRead, CreateMultipartUpload, fail, Returns, uvars, s3vars
<1>6. CASE Queue \/ Loop \/ NextChunk \/ Close \/ Wait \/ Cancel
  BY <1>6 DEF Queue, Loop, NextChunk, Close, Wait, Cancel, uvars, s3vars
<1>7. ASSUME NEW w \in Workers, WorkerStep(w)
      PROVE  UNCHANGED <<body, object, result>>
  BY <1>7 DEF WorkerStep, Receive, CheckError, send, seterr, cleanup, uvars, s3vars
<1> QED
  BY <1>3, <1>4, <1>5, <1>6, <1>7 DEF Next, MainStep

\* To its caller an upload is a store that happens whole, in one step, or not
\* at all, and an upload that returned no error is there.
THEOREM ImplementsAtomicUpload == Spec => AtomicSpec
<1>1. ASSUME Init PROVE Atomic!Init
  <2>1. object = <<>> /\ result = "pending" /\ body \in Bodies
    BY <1>1 DEF Init
  <2>2. WholeBody # <<>>
    BY <2>1, WholeBodyType
  <2>3. ObjectState = "absent"
    BY <2>1, <2>2 DEF ObjectState
  <2> QED
    BY <2>1, <2>3 DEF Atomic!Init
<1>2. ASSUME IInv, Next
      PROVE  Atomic!Next \/ UNCHANGED <<ObjectState, result>>
  <2>1. body \in Bodies /\ (result = "ok" => pc = "done")
    BY <1>2 DEF IInv, TypeOK, CallerTypeOK, PhaseInv
  <2>2. WholeBody' = WholeBody
    BY <1>2, StepOfUpload DEF WholeBody, NumChunks, ChunkSize, SizeKnown
  <2>3. WholeBody # <<>>
    BY <2>1, WholeBodyType
  <2>4. CASE UNCHANGED <<object, result>>
    BY <2>2, <2>4 DEF ObjectState
  <2>5. CASE UNCHANGED object /\ result = "pending" /\ result' = "error"
    <3>1. ObjectState' = ObjectState
      BY <2>2, <2>5 DEF ObjectState
    <3> QED
      BY <2>5, <3>1 DEF Atomic!Next, Atomic!Return
  <2>6. CASE /\ object = <<>> /\ object' = WholeBody
             /\ result = "pending" /\ result' \in {"pending", "ok", "error"}
    <3>1. ObjectState = "absent" /\ ObjectState' = "whole"
      BY <2>2, <2>3, <2>6 DEF ObjectState
    <3> QED
      BY <2>6, <3>1 DEF Atomic!Next, Atomic!Store, Atomic!StoreAndReturn
  <2> QED
    BY <1>2, <2>4, <2>5, <2>6, StepOfUpload
<1>3. IInv /\ [Next]_vars => [Atomic!Next]_(Atomic!vars)
  <2>1. vars' = vars => UNCHANGED <<ObjectState, result>>
    BY DEF vars, uvars, s3vars, ObjectState, WholeBody, NumChunks, ChunkSize, SizeKnown
  <2> QED
    BY <1>2, <2>1 DEF Atomic!vars
<1> QED
  BY <1>1, <1>3, UploadInvariant, PTL DEF Spec, AtomicSpec, Atomic!Spec
=============================================================================
