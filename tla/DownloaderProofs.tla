-------------------------- MODULE DownloaderProofs --------------------------
(***************************************************************************)
(* What holds of Downloader for any number of workers, any part size,      *)
(* number of retries and sizes of objects. A byte of the object is waiting *)
(* while its chunk is not assigned, queued, or with a worker that has not  *)
(* counted it; the other bytes that were written are settled, and the      *)
(* count is theirs: no more than there are, and as long as nothing has     *)
(* failed, all of them. At the end nothing waits.                          *)
(***************************************************************************)
EXTENDS Downloader, TLAPS, FiniteSetTheorems

\* The bytes of a chunk, and of the object that are in w.
Bytes(s) == s .. s + Length(s) - 1
Copied == {b \in 0 .. size - 1 : <<b, b>> \in w}

\* Goroutine p has a chunk whose bytes are not counted yet.
Holds(p) == act[p] \in {"check", "get", "copy", "count"}

Assigned(b) == IF ranged THEN main # "first" ELSE b < pos
Waiting(b) ==
    \/ ~Assigned(b)
    \/ \E p \in Goroutines : Holds(p) /\ b \in Bytes(start[p])
    \/ \E i \in 1 .. Len(ch) : b \in Bytes(ch[i])
Settled == {b \in Copied : ~Waiting(b)}

\* Nothing has failed, but for the 416 that tells the end.
Clean ==
    /\ err \in {"none", "416"}
    /\ \A p \in Goroutines : act[p] = "fail" => cause[p] = "416"
    /\ \A p \in Goroutines : act[p] = "count" => cause[p] = "none"

Before == {"first", "range", "second", "alone"}
During == {"assign", "send", "wait"}

\* Where the goroutines are together, and what the caller knows there.
StageInv ==
    /\ main \in Before => ch = <<>> /\ ~closed /\ \A p \in Workers : act[p] = "none"
    /\ main \in During \cup {"first", "done"} => act[Caller] = "rest"
    /\ main \in During => total >= 0 /\ \A p \in Workers : act[p] # "none"
    /\ main = "done" => ch = <<>> /\ \A p \in Workers : act[p] \in {"none", "ended"}
    /\ closed => main \in {"wait", "done"}
    /\ \A p \in Workers : act[p] = "ended" => closed /\ ch = <<>>
    /\ act[Caller] \notin {"none", "check", "ended"}

\* How far the caller is.
PosInv ==
    /\ main = "first" => pos = 0 /\ total = -1 /\ err = "none"
    /\ main = "range" => ranged /\ start[Caller] = 0
    /\ ranged => main \in {"first", "range", "done"}
    /\ main \in {"second", "alone"} => start[Caller] + PartSize = pos
    /\ main = "second" => start[Caller] = 0
    /\ main = "send" => pos < size
    /\ main \in {"wait", "done"} /\ ~ranged /\ err = "none" => pos >= size
    /\ total >= 0 => total = size /\ size > 0

\* What failed: only a request for a range beyond the end is answered with a
\* 416, and only the caller makes one.
ErrInv ==
    /\ \A p \in Goroutines :
          /\ act[p] \in {"get", "copy"} => cause[p] = "none"
          /\ act[p] \in {"copy", "count"} => start[p] < size
          /\ act[p] = "count" => cause[p] # "416"
          /\ act[p] = "fail" => cause[p] # "none"
          /\ act[p] = "fail" /\ cause[p] = "416" => p = Caller /\ err = "none" /\ start[p] >= size
    /\ \A p \in Workers : Holds(p) \/ act[p] = "fail" => start[p] < size
    /\ \A i \in 1 .. Len(ch) : ch[i] < size
    /\ act[Caller] # "rest" => err \in {"none", "malformed"}
    /\ act[Caller] # "rest" /\ err = "malformed" => start[Caller] < size
    /\ err = "416" => main \in {"range", "second", "alone", "done"} /\ start[Caller] >= size
    /\ err = "416" /\ main = "done" => ranged

\* Chunks that wait do not overlap.
Apart(s, t) == s + PartSize <= t
OrderInv ==
    /\ \A i \in 1 .. Len(ch) : Apart(ch[i], pos)
    /\ \A i, j \in 1 .. Len(ch) : i < j => Apart(ch[i], ch[j])
    /\ \A p \in Goroutines : Holds(p) =>
          IF ranged THEN p = Caller /\ start[p] = 0
          ELSE /\ Apart(start[p], pos)
               /\ \A i \in 1 .. Len(ch) : Apart(start[p], ch[i])
               /\ \A q \in Goroutines : q # p /\ Holds(q) =>
                     Apart(start[p], start[q]) \/ Apart(start[q], start[p])

\* What is in w are bytes of the object, at their offsets.
CopyInv ==
    /\ w = {<<b, b>> : b \in Copied}
    /\ \A p \in Goroutines : cur[p] = 0
    /\ \A p \in Goroutines : act[p] = "count" =>
          /\ count[p] <= Length(start[p])
          /\ start[p] .. start[p] + count[p] - 1 \subseteq Copied
          /\ cause[p] = "none" => count[p] = Length(start[p])

\* What is counted.
CountInv ==
    /\ written <= Cardinality(Settled)
    /\ Clean => /\ \A b \in 0 .. size - 1 : b \in Copied \/ Waiting(b)
                /\ written = Cardinality(Settled)

IInv == TypeOK /\ StageInv /\ PosInv /\ ErrInv /\ OrderInv /\ CopyInv /\ CountInv

USE ConstantsAssumption

-----------------------------------------------------------------------------
(* Types. *)

Acts == {"none", "rest", "check", "get", "copy", "count", "fail", "ended"}
Causes == {"none", "request", "416", "body"}

ActsOK ==
    /\ main \in {"first", "range", "second", "alone", "assign", "send", "wait", "done"}
    /\ closed \in BOOLEAN
    /\ act \in [Goroutines -> Acts]
    /\ cause \in [Goroutines -> Causes]
    /\ err \in {"none", "bucket", "request", "416", "body", "malformed"}

NumbersOK ==
    /\ size \in Sizes /\ ranged \in BOOLEAN /\ told \in {"number", "star", "malformed"}
    /\ pos \in Nat /\ written \in Nat /\ total \in Nat \cup {-1}
    /\ start \in [Goroutines -> Nat] /\ cur \in [Goroutines -> Nat] /\ count \in [Goroutines -> Nat]
    /\ retry \in [Goroutines -> 0 .. partBodyMaxRetries]

ChannelOK == ch \in Seq(Nat) /\ Len(ch) <= Concurrency

WriterOK == w \subseteq Nat \X Nat

\* The types of the variables in four parts.
LEMMA TypeParts == TypeOK <=> ActsOK /\ NumbersOK /\ ChannelOK /\ WriterOK
  BY DEF TypeOK, ActsOK, NumbersOK, ChannelOK, WriterOK, Acts, Causes

\* The numbers of goroutines and bytes are numbers.
LEMMA Numbers ==
    /\ Concurrency \in Nat /\ Caller \in Goroutines /\ Workers \subseteq Goroutines
    /\ Goroutines = Workers \cup {Caller}
  BY FS_CardinalityType DEF Concurrency, Goroutines

\* The length of a chunk.
LEMMA LengthIs ==
    ASSUME NumbersOK, NEW s \in Nat
    PROVE  /\ Length(s) \in Int
           /\ ranged => Length(s) = size
           /\ ~ranged => Length(s) = IF PartSize <= size - s THEN PartSize ELSE size - s
<1>1. size \in Nat
  BY DEF NumbersOK
<1>2. ASSUME NEW a \in Int, NEW b \in Int PROVE Min({a, b}) = IF a <= b THEN a ELSE b
  BY DEF Min
<1> QED
  BY <1>1, <1>2 DEF Length

\* Steps of the caller that only move it on.
CallerMoves == Refused \/ RangeDone \/ AssignChunk \/ CloseChannel \/ Wait \/ AloneDone

\* The steps, as the lemmas below take them.
LEMMA StepCases ==
    ASSUME Next
    PROVE  \/ CallerMoves \/ downloadRange \/ getChunk \/ Spawn \/ SendChunk
           \/ \E p \in Goroutines : GetObject(p) \/ CopyBody(p) \/ incrWritten(p) \/ setErr(p)
           \/ \E p \in Workers : Receive(p) \/ CheckErr(p)
  BY Numbers DEF Next, MainStep, WorkerStep, ChunkStep, CallerMoves

\* Where the goroutines are, and what failed, is one of the places and causes.
LEMMA StepActs ==
    ASSUME ActsOK, NumbersOK, Next
    PROVE  ActsOK'
<1> USE DEF ActsOK, Acts, Causes
<1>1. CASE CallerMoves
  BY <1>1 DEF CallerMoves, Refused, RangeDone, AssignChunk, CloseChannel, Wait, AloneDone, AloneError, chunk
<1>2. CASE downloadRange
  BY <1>2, Numbers DEF downloadRange, Begin
<1>3. CASE getChunk
  BY <1>3, Numbers DEF getChunk, Begin
<1>4. CASE Spawn
  BY <1>4 DEF Spawn, chunk
<1>5. CASE SendChunk
  BY <1>5 DEF SendChunk, chunk
<1>6. ASSUME NEW p \in Goroutines, GetObject(p) PROVE ActsOK'
  BY <1>6 DEF GetObject, setTotalBytes, NumbersOK
<1>7. ASSUME NEW p \in Goroutines, CopyBody(p) PROVE ActsOK'
  BY <1>7 DEF CopyBody
<1>8. ASSUME NEW p \in Goroutines, incrWritten(p) PROVE ActsOK'
  BY <1>8 DEF incrWritten, chunk
<1>9. ASSUME NEW p \in Goroutines, setErr(p) PROVE ActsOK'
  BY <1>9 DEF setErr, chunk
<1>10. ASSUME NEW p \in Workers, Receive(p) PROVE ActsOK'
  BY <1>10, Numbers DEF Receive
<1>11. ASSUME NEW p \in Workers, CheckErr(p) PROVE ActsOK'
  BY <1>11, Numbers DEF CheckErr, Begin, chunk
<1> QED
  BY <1>1, <1>2, <1>3, <1>4, <1>5, <1>6, <1>7, <1>8, <1>9, <1>10, <1>11, StepCases

\* Positions and counts do not fall below zero.
LEMMA StepNumbers ==
    ASSUME NumbersOK, ChannelOK, Next
    PROVE  NumbersOK'
<1> USE DEF NumbersOK
<1>1. CASE CallerMoves
  BY <1>1 DEF CallerMoves, Refused, RangeDone, AssignChunk, CloseChannel, Wait, AloneDone, object, chunk
<1>2. CASE downloadRange
  BY <1>2, Numbers DEF downloadRange, Begin, object
<1>3. CASE getChunk
  BY <1>3, Numbers DEF getChunk, Begin, object
<1>4. CASE Spawn
  BY <1>4 DEF Spawn, object, chunk
<1>5. CASE SendChunk
  BY <1>5 DEF SendChunk, object, chunk
<1>6. ASSUME NEW p \in Goroutines, GetObject(p) PROVE NumbersOK'
  BY <1>6 DEF GetObject, setTotalBytes, object
<1>7. ASSUME NEW p \in Goroutines, CopyBody(p) PROVE NumbersOK'
  <2>1. PICK n \in 0 .. Length(start[p]) :
          /\ count' = [count EXCEPT ![p] = n]
          /\ cur' \in {cur, [cur EXCEPT ![p] = 0]}
          /\ retry' \in {retry, [retry EXCEPT ![p] = @ + 1]}
          /\ retry' # retry => TriesLeft(p)
    BY <1>7 DEF CopyBody, Counted, Rewind
  <2>2. n \in Nat
    BY LengthIs
  <2>3. count' \in [Goroutines -> Nat] /\ cur' \in [Goroutines -> Nat]
    BY <2>1, <2>2
  <2>4. retry' \in [Goroutines -> 0 .. partBodyMaxRetries]
    BY <2>1 DEF TriesLeft
  <2> QED
    BY <1>7, <2>3, <2>4 DEF CopyBody, object
<1>8. ASSUME NEW p \in Goroutines, incrWritten(p) PROVE NumbersOK'
  BY <1>8 DEF incrWritten, object, chunk
<1>9. ASSUME NEW p \in Goroutines, setErr(p) PROVE NumbersOK'
  BY <1>9 DEF setErr, object, chunk
<1>10. ASSUME NEW p \in Workers, Receive(p) PROVE NumbersOK'
  <2>1. ch # <<>> => Head(ch) \in Nat
    BY DEF ChannelOK
  <2> QED
    BY <1>10, <2>1, Numbers DEF Receive, object
<1>11. ASSUME NEW p \in Workers, CheckErr(p) PROVE NumbersOK'
  BY <1>11, Numbers DEF CheckErr, Begin, object, chunk
<1> QED
  BY <1>1, <1>2, <1>3, <1>4, <1>5, <1>6, <1>7, <1>8, <1>9, <1>10, <1>11, StepCases

\* The channel has a place for each chunk that is sent.
LEMMA StepChannel ==
    ASSUME NumbersOK, ChannelOK, Next
    PROVE  ChannelOK'
<1>1. Concurrency' = Concurrency
  BY DEF Concurrency
<1>2. CASE SendChunk
  BY <1>1, <1>2, Numbers DEF SendChunk, ChannelOK, NumbersOK
<1>3. ASSUME NEW p \in Workers, Receive(p) PROVE ChannelOK'
  <2>1. CASE ch # <<>> /\ ch' = Tail(ch)
    <3>1. Tail(ch) \in Seq(Nat) /\ Len(Tail(ch)) <= Len(ch)
      BY <2>1 DEF ChannelOK
    <3> QED
      BY <1>1, <2>1, <3>1, Numbers DEF ChannelOK
  <2>2. CASE ch' = ch
    BY <1>1, <2>2 DEF ChannelOK
  <2> QED
    BY <1>3, <2>1, <2>2 DEF Receive
<1>4. CASE ch' = ch
  BY <1>1, <1>4 DEF ChannelOK
<1> QED
  BY <1>2, <1>3, <1>4, StepCases
     DEF CallerMoves, Refused, RangeDone, AssignChunk, CloseChannel, Wait, AloneDone,
         downloadRange, getChunk, Spawn, GetObject, CopyBody, incrWritten, setErr, CheckErr

\* What is written are bytes, at offsets.
LEMMA StepWriter ==
    ASSUME NumbersOK, WriterOK, Next
    PROVE  WriterOK'
<1>1. ASSUME NEW p \in Goroutines, CopyBody(p) PROVE WriterOK'
  <2>1. PICK n \in 0 .. Length(start[p]) : Write(p, n)
    BY <1>1 DEF CopyBody
  <2>2. n \in Nat /\ start[p] \in Nat /\ cur[p] \in Nat
    BY LengthIs DEF NumbersOK
  <2> QED
    BY <2>1, <2>2 DEF Write, WriterOK
<1>2. CASE w' = w
  BY <1>2 DEF WriterOK
<1> QED
  BY <1>1, <1>2, StepCases
     DEF CallerMoves, Refused, RangeDone, AssignChunk, CloseChannel, Wait, AloneDone,
         downloadRange, getChunk, Spawn, SendChunk, GetObject, incrWritten, setErr, Receive, CheckErr

-----------------------------------------------------------------------------
(* The goroutines together. *)

\* A step keeps the stages in order: nothing is queued or taken before the
\* workers were started, nor after they ended.
LEMMA StepStage ==
    ASSUME ActsOK, NumbersOK, ChannelOK, StageInv, Next
    PROVE  StageInv'
<1> USE Numbers DEF StageInv, Before, During
<1>a. act \in [Goroutines -> Acts] /\ total \in Nat \cup {-1}
  BY DEF ActsOK, NumbersOK
<1>1. CASE CallerMoves
  <2>1. CASE Refused
    BY <2>1 DEF Refused
  <2>2. CASE RangeDone
    BY <2>2 DEF RangeDone, AtRest
  <2>3. CASE AssignChunk
    BY <2>3 DEF AssignChunk
  <2>4. CASE CloseChannel
    BY <2>4 DEF CloseChannel
  <2>5. CASE Wait
    BY <2>5 DEF Wait, WorkersEnded
  <2>6. CASE AloneDone
    BY <2>6 DEF AloneDone, AtRest
  <2> QED
    BY <1>1, <2>1, <2>2, <2>3, <2>4, <2>5, <2>6 DEF CallerMoves
<1>2. CASE downloadRange
  BY <1>2, <1>a DEF downloadRange, Begin
<1>3. CASE getChunk
  BY <1>3, <1>a DEF getChunk, Begin
<1>4. CASE Spawn
  BY <1>4, <1>a DEF Spawn, AtRest
<1>5. CASE SendChunk
  BY <1>5 DEF SendChunk
<1>6. ASSUME NEW p \in Goroutines, GetObject(p) PROVE StageInv'
  <2>1. total >= 0 => total' = total
    BY <1>6 DEF GetObject, setTotalBytes
  <2> QED
    BY <1>6, <1>a, <2>1 DEF GetObject
<1>7. ASSUME NEW p \in Goroutines, CopyBody(p) PROVE StageInv'
  <2>1. PICK a \in {"get", "count"} : act' = [act EXCEPT ![p] = a]
    BY <1>7 DEF CopyBody
  <2> QED
    BY <1>7, <1>a, <2>1 DEF CopyBody
<1>8. ASSUME NEW p \in Goroutines, incrWritten(p) PROVE StageInv'
  BY <1>8, <1>a DEF incrWritten
<1>9. ASSUME NEW p \in Goroutines, setErr(p) PROVE StageInv'
  BY <1>9, <1>a DEF setErr
<1>10. ASSUME NEW p \in Workers, Receive(p) PROVE StageInv'
  <2>1. main \notin Before
    BY <1>10 DEF Receive
  <2>2. main # "done"
    BY <1>10 DEF Receive
  <2>3. ch # <<>> => \A q \in Workers : act[q] # "ended"
    OBVIOUS
  <2>4. CASE ch # <<>> /\ act' = [act EXCEPT ![p] = "check"]
    BY <1>10, <1>a, <2>1, <2>2, <2>3, <2>4 DEF Receive
  <2>5. CASE ch = <<>> /\ closed /\ act' = [act EXCEPT ![p] = "ended"] /\ ch' = ch
    BY <1>10, <1>a, <2>1, <2>2, <2>5 DEF Receive
  <2> QED
    BY <1>10, <2>4, <2>5 DEF Receive
<1>11. ASSUME NEW p \in Workers, CheckErr(p) PROVE StageInv'
  <2>1. PICK a \in {"get", "rest"} : act' = [act EXCEPT ![p] = a]
    BY <1>11 DEF CheckErr, Begin
  <2> QED
    BY <1>11, <1>a, <2>1 DEF CheckErr
<1> QED
  BY <1>1, <1>2, <1>3, <1>4, <1>5, <1>6, <1>7, <1>8, <1>9, <1>10, <1>11, StepCases

\* What setTotalBytes learns is the size, of an object that has bytes.
LEMMA TotalIsSize ==
    ASSUME NumbersOK, PosInv, NEW p \in Goroutines, GetObject(p)
    PROVE  /\ total' >= 0 => total' = size /\ size > 0
           /\ err' \in {err, "malformed"}
           /\ err' # err => Satisfiable(start[p])
<1>1. start[p] \in Nat /\ size \in Nat
  BY DEF NumbersOK
<1>2. total >= 0 => total = size /\ size > 0
  BY DEF PosInv
<1>3. CASE UNCHANGED <<total, err>>
  BY <1>2, <1>3 DEF NumbersOK, GetObject, object
<1>4. CASE Satisfiable(start[p]) /\ setTotalBytes
  <2>1. size > 0
    BY <1>1, <1>4 DEF Satisfiable
  <2>2. size' = size
    BY DEF GetObject, object
  <2>3. CASE total >= 0
    BY <1>2, <1>4, <2>2, <2>3 DEF setTotalBytes
  <2>4. CASE ~(total >= 0)
    <3>1. \/ told = "number" /\ total' = size /\ err' = err
          \/ told = "star" /\ total' = total /\ err' = err
          \/ told = "malformed" /\ err' = "malformed" /\ total' = total
      BY <1>4, <2>4 DEF setTotalBytes, NumbersOK
    <3> QED
      BY <1>4, <2>1, <2>4, <3>1
  <2> QED
    BY <2>3, <2>4
<1> QED
  BY <1>3, <1>4 DEF GetObject

\* A step keeps what the caller knows of its position.
LEMMA StepPos ==
    ASSUME ActsOK, NumbersOK, StageInv, PosInv, ErrInv, Next
    PROVE  PosInv'
<1> USE Numbers DEF PosInv
<1>a. start \in [Goroutines -> Nat] /\ total \in Nat \cup {-1} /\ pos \in Nat /\ size \in Nat
  BY DEF NumbersOK
<1>b. main \in During => total = size
  BY DEF StageInv
<1>c. \A p \in Goroutines : act[p] # "rest" /\ act[p] # "none" => main # "first"
  BY DEF StageInv, Before
<1>1. CASE CallerMoves
  <2>1. CASE Refused
    BY <2>1 DEF Refused, object, chunk
  <2>2. CASE RangeDone
    BY <2>2 DEF RangeDone, object, chunk
  <2>3. CASE AssignChunk
    BY <1>a, <1>b, <2>3 DEF AssignChunk, object, chunk, During, Finished
  <2>4. CASE CloseChannel
    BY <1>a, <1>b, <2>4 DEF CloseChannel, object, chunk, During, Finished
  <2>5. CASE Wait
    BY <2>5 DEF Wait, object, chunk
  <2>6. CASE AloneDone
    BY <1>a, <2>6 DEF AloneDone, object, chunk, AloneError, ErrInv
  <2> QED
    BY <1>1, <2>1, <2>2, <2>3, <2>4, <2>5, <2>6 DEF CallerMoves
<1>2. CASE downloadRange
  BY <1>2, <1>a DEF downloadRange, Begin, object
<1>3. CASE getChunk
  BY <1>3, <1>a DEF getChunk, Begin, object
<1>4. CASE Spawn
  BY <1>4, <1>a DEF Spawn, object, chunk
<1>5. CASE SendChunk
  BY <1>5, <1>a DEF SendChunk, object, chunk
<1>6. ASSUME NEW p \in Goroutines, GetObject(p) PROVE PosInv'
  <2>1. main # "first"
    BY <1>6, <1>c DEF GetObject
  <2>2. /\ total' >= 0 => total' = size /\ size > 0
        /\ err' \in {err, "malformed"}
    BY <1>6, TotalIsSize
  <2> QED
    BY <1>6, <2>1, <2>2 DEF GetObject, object
<1>7. ASSUME NEW p \in Goroutines, CopyBody(p) PROVE PosInv'
  BY <1>7 DEF CopyBody, object
<1>8. ASSUME NEW p \in Goroutines, incrWritten(p) PROVE PosInv'
  BY <1>8 DEF incrWritten, object, chunk
<1>9. ASSUME NEW p \in Goroutines, setErr(p) PROVE PosInv'
  <2>1. err' # "none" /\ main # "first"
    BY <1>9, <1>c DEF setErr, ErrInv
  <2> QED
    BY <1>9, <2>1 DEF setErr, object, chunk
<1>10. ASSUME NEW p \in Workers, Receive(p) PROVE PosInv'
  BY <1>10, <1>a DEF Receive, object
<1>11. ASSUME NEW p \in Workers, CheckErr(p) PROVE PosInv'
  BY <1>11, <1>a DEF CheckErr, Begin, object, chunk
<1> QED
  BY <1>1, <1>2, <1>3, <1>4, <1>5, <1>6, <1>7, <1>8, <1>9, <1>10, <1>11, StepCases

\* While the caller gets a chunk there is no worker that does.
LEMMA OneSide ==
    ASSUME StageInv, ActsOK, NEW p \in Goroutines, act[p] \notin {"none", "rest", "ended"}
    PROVE  /\ main \in {"range", "second", "alone"} \cup During
           /\ p # Caller => main \in During /\ act[Caller] = "rest"
           /\ p = Caller => /\ main \in {"range", "second", "alone"} /\ ch = <<>>
                            /\ \A q \in Workers : act[q] = "none"
  BY Numbers DEF StageInv, ActsOK, Before, During

\* A step fails as the chunk and the caller's position let it.
LEMMA StepErr ==
    ASSUME ActsOK, NumbersOK, ChannelOK, StageInv, PosInv, ErrInv, Next
    PROVE  ErrInv'
<1> USE Numbers DEF ErrInv, Holds
<1>a. /\ act \in [Goroutines -> Acts] /\ cause \in [Goroutines -> Causes]
      /\ start \in [Goroutines -> Nat] /\ pos \in Nat /\ size \in Nat
      /\ err \in {"none", "bucket", "request", "416", "body", "malformed"}
  BY DEF ActsOK, NumbersOK
<1>1. CASE CallerMoves
  <2>1. CASE Refused
    <3>1. act[Caller] = "rest" /\ err' # "416"
      BY <2>1 DEF Refused, StageInv
    <3> QED
      BY <2>1, <3>1 DEF Refused, object, chunk
  <2>2. CASE RangeDone
    BY <2>2 DEF RangeDone, object, chunk, PosInv
  <2>3. CASE AssignChunk
    BY <2>3 DEF AssignChunk, object, chunk
  <2>4. CASE CloseChannel
    BY <2>4 DEF CloseChannel, object, chunk
  <2>5. CASE Wait
    BY <2>5 DEF Wait, object, chunk
  <2>6. CASE AloneDone
    <3>1. act[Caller] = "rest" /\ err' # "416"
      BY <2>6 DEF AloneDone, AtRest, AloneError
    <3> QED
      BY <2>6, <3>1 DEF AloneDone, object, chunk
  <2> QED
    BY <1>1, <2>1, <2>2, <2>3, <2>4, <2>5, <2>6 DEF CallerMoves
<1>2. CASE downloadRange
  <2>1. err = "none" /\ ch = <<>> /\ \A q \in Workers : act[q] = "none"
    BY <1>2 DEF downloadRange, PosInv, StageInv, Before
  <2> QED
    BY <1>2, <1>a, <2>1 DEF downloadRange, Begin, object
<1>3. CASE getChunk
  <2>1. err = "none" /\ ch = <<>> /\ \A q \in Workers : act[q] = "none"
    BY <1>3 DEF getChunk, PosInv, StageInv, Before
  <2> QED
    BY <1>3, <1>a, <2>1 DEF getChunk, Begin, object
<1>4. CASE Spawn
  <2>1. total >= 0 => err # "416"
    BY <1>4, <1>a DEF Spawn, PosInv
  <2>2. main = "second" /\ act[Caller] = "rest" /\ \A q \in Workers : act[q] = "none"
    BY <1>4 DEF Spawn, AtRest, StageInv, Before
  <2>3. \A q \in Goroutines : act'[q] \in {"rest", "none"}
    BY <1>4, <2>2 DEF Spawn
  <2>4. act'[Caller] = "rest"
    BY <1>4, <2>2 DEF Spawn
  <2> QED
    BY <1>4, <2>1, <2>3, <2>4 DEF Spawn, object, chunk
<1>5. CASE SendChunk
  <2>1. \A i \in 1 .. Len(ch') : ch'[i] < size
    BY <1>5, <1>a DEF SendChunk, ChannelOK, PosInv
  <2> QED
    BY <1>5, <2>1 DEF SendChunk, object, chunk
<1>6. ASSUME NEW p \in Goroutines, GetObject(p) PROVE ErrInv'
  <2>1. /\ err' \in {err, "malformed"}
        /\ err' # err => start[p] < size
    BY <1>6, TotalIsSize DEF Satisfiable
  <2>2. p # Caller => act[Caller] = "rest"
    BY <1>6, OneSide DEF GetObject
  <2>3. CASE start[p] < size /\ act' = [act EXCEPT ![p] = "copy"] /\ cause' = cause
    BY <1>6, <1>a, <2>1, <2>2, <2>3 DEF GetObject, object
  <2>4. CASE act' = [act EXCEPT ![p] = "fail"] /\ cause' = [cause EXCEPT ![p] = "request"] /\ err' = err
    BY <1>6, <1>a, <2>2, <2>4 DEF GetObject, object
  <2>5. CASE /\ act' = [act EXCEPT ![p] = "fail"] /\ cause' = [cause EXCEPT ![p] = "416"] /\ err' = err
             /\ ~(start[p] < size)
    <3>1. p = Caller
      BY <1>6, <2>5 DEF GetObject
    <3>2. err = "none"
      BY <1>6, <2>5, <3>1 DEF GetObject
    <3> QED
      BY <1>6, <1>a, <2>5, <3>1, <3>2 DEF GetObject, object
  <2> QED
    BY <1>6, <2>3, <2>4, <2>5 DEF GetObject, Satisfiable
<1>7. ASSUME NEW p \in Goroutines, CopyBody(p) PROVE ErrInv'
  <2>1. /\ act[p] = "copy" /\ UNCHANGED <<err, start, size, ranged, main, ch>>
        /\ \/ act' = [act EXCEPT ![p] = "count"] /\ cause' = cause
           \/ act' = [act EXCEPT ![p] = "get"] /\ cause' = cause
           \/ act' = [act EXCEPT ![p] = "count"] /\ cause' = [cause EXCEPT ![p] = "body"]
    BY <1>7 DEF CopyBody, object
  <2> QED
    BY <1>a, <2>1
<1>8. ASSUME NEW p \in Goroutines, incrWritten(p) PROVE ErrInv'
  BY <1>8, <1>a DEF incrWritten, object, chunk
<1>9. ASSUME NEW p \in Goroutines, setErr(p) PROVE ErrInv'
  <2>1. /\ act[p] = "fail" /\ act' = [act EXCEPT ![p] = "rest"] /\ err' = cause[p]
        /\ UNCHANGED <<start, cause, size, ranged, main, ch>>
    BY <1>9 DEF setErr, object, chunk
  <2>2. main \in {"range", "second", "alone"} \cup During
    BY <2>1, OneSide
  <2>3. p # Caller => act[Caller] = "rest"
    BY <2>1, OneSide
  <2>4. p = Caller => main \in {"range", "second", "alone"} /\ \A q \in Workers : act[q] = "none"
    BY <2>1, OneSide
  <2> QED
    BY <1>a, <2>1, <2>2, <2>3, <2>4 DEF During
<1>10. ASSUME NEW p \in Workers, Receive(p) PROVE ErrInv'
  <2>1. ch \in Seq(Nat)
    BY DEF ChannelOK
  <2>2. CASE /\ ch # <<>> /\ ch' = Tail(ch)
             /\ start' = [start EXCEPT ![p] = Head(ch)] /\ act' = [act EXCEPT ![p] = "check"]
    <3>1. Head(ch) < size /\ \A i \in 1 .. Len(ch') : ch'[i] < size
      BY <2>1, <2>2
    <3> QED
      BY <1>10, <1>a, <2>2, <3>1 DEF Receive, object
  <2>3. CASE act' = [act EXCEPT ![p] = "ended"] /\ ch' = ch /\ start' = start
    BY <1>10, <1>a, <2>3 DEF Receive, object
  <2> QED
    BY <1>10, <2>2, <2>3 DEF Receive
<1>11. ASSUME NEW p \in Workers, CheckErr(p) PROVE ErrInv'
  <2>1. CASE Begin(p, start[p])
    BY <1>11, <1>a, <2>1 DEF CheckErr, Begin, object
  <2>2. CASE act' = [act EXCEPT ![p] = "rest"] /\ UNCHANGED chunk
    BY <1>11, <1>a, <2>2 DEF CheckErr, object, chunk
  <2> QED
    BY <1>11, <2>1, <2>2 DEF CheckErr
<1> QED
  BY <1>1, <1>2, <1>3, <1>4, <1>5, <1>6, <1>7, <1>8, <1>9, <1>10, <1>11, StepCases

\* Where no chunk begins and none moves, the ones that wait stay apart.
LEMMA OrderKept ==
    ASSUME OrderInv, UNCHANGED <<start, ch, pos, ranged>>,
           \A p \in Goroutines : Holds(p)' => Holds(p)
    PROVE  OrderInv'
  BY DEF OrderInv, Apart, Goroutines

\* A step keeps the chunks apart: one is cut behind the others.
LEMMA StepOrder ==
    ASSUME ActsOK, NumbersOK, ChannelOK, StageInv, PosInv, OrderInv, Next
    PROVE  OrderInv'
<1> USE Numbers
<1>a. /\ act \in [Goroutines -> Acts] /\ start \in [Goroutines -> Nat] /\ pos \in Nat
      /\ ch \in Seq(Nat) /\ PartSize \in Nat /\ PartSize > 0
  BY DEF ActsOK, NumbersOK, ChannelOK
<1>1. CASE CallerMoves
  <2>1. CASE RangeDone
    <3>1. ch = <<>> /\ ranged
      BY <2>1 DEF RangeDone, StageInv, PosInv, Before
    <3> QED
      BY <2>1, <3>1 DEF RangeDone, OrderInv, Holds, object, chunk
  <2>2. CASE ~RangeDone
    <3>1. UNCHANGED <<start, ch, pos, ranged, act>>
      BY <1>1, <2>2 DEF CallerMoves, Refused, AssignChunk, CloseChannel, Wait, AloneDone, object, chunk
    <3> QED
      BY <3>1, OrderKept DEF Holds
  <2> QED
    BY <2>1, <2>2
<1>2. CASE downloadRange
  <2>1. ch = <<>> /\ pos = 0 /\ \A q \in Workers : ~Holds(q)
    BY <1>2 DEF downloadRange, PosInv, StageInv, Before, Holds
  <2> QED
    BY <1>2, <1>a, <2>1 DEF downloadRange, Begin, object, OrderInv, Holds
<1>3. CASE getChunk
  <2>1. ch = <<>> /\ ~ranged /\ \A q \in Workers : ~Holds(q)
    BY <1>3 DEF getChunk, PosInv, StageInv, Before, Holds
  <2>2. /\ start' = [start EXCEPT ![Caller] = pos] /\ pos' = pos + PartSize
        /\ act' = [act EXCEPT ![Caller] = "get"] /\ UNCHANGED <<ch, ranged>>
    BY <1>3 DEF getChunk, Begin, object
  <2> QED
    BY <1>a, <2>1, <2>2 DEF OrderInv, Holds, Apart
<1>4. CASE Spawn
  <2>1. UNCHANGED <<start, ch, pos, ranged>> /\ \A p \in Goroutines : Holds(p)' => Holds(p)
    BY <1>4 DEF Spawn, object, chunk, Holds
  <2> QED
    BY <2>1, OrderKept
<1>5. CASE SendChunk
  <2>1. ch' = Append(ch, pos) /\ pos' = pos + PartSize /\ UNCHANGED <<start, act, ranged>>
    BY <1>5 DEF SendChunk, object, chunk
  <2>2. ~ranged
    BY <1>5 DEF SendChunk, PosInv
  <2>3. /\ Len(ch') = Len(ch) + 1 /\ ch'[Len(ch) + 1] = pos
        /\ \A i \in 1 .. Len(ch) : ch'[i] = ch[i] /\ ch[i] \in Nat
    BY <1>a, <2>1
  <2>4. \A i \in 1 .. Len(ch') : Apart(ch'[i], pos')
    BY <1>a, <2>1, <2>3 DEF OrderInv, Apart
  <2>5. ASSUME NEW i \in 1 .. Len(ch'), NEW j \in 1 .. Len(ch'), i < j
        PROVE  Apart(ch'[i], ch'[j])
    <3>1. i \in 1 .. Len(ch) /\ ch'[i] = ch[i]
      BY <1>a, <2>3, <2>5
    <3>2. CASE j = Len(ch) + 1
      BY <2>3, <3>1, <3>2 DEF OrderInv
    <3>3. CASE j \in 1 .. Len(ch)
      <4>1. Apart(ch[i], ch[j])
        BY <2>5, <3>1, <3>3 DEF OrderInv
      <4> QED
        BY <2>3, <3>1, <3>3, <4>1
    <3> QED
      BY <1>a, <2>3, <3>2, <3>3
  <2>6. \A p \in Goroutines : Holds(p)' => Holds(p) /\ start'[p] = start[p] /\ start[p] \in Nat
    BY <1>a, <2>1 DEF Holds
  <2>7. \A p \in Goroutines : Holds(p)' =>
          /\ Apart(start'[p], pos')
          /\ \A i \in 1 .. Len(ch') : Apart(start'[p], ch'[i])
    BY <1>a, <2>1, <2>2, <2>3, <2>6 DEF OrderInv, Apart
  <2> QED
    BY <2>1, <2>2, <2>4, <2>5, <2>6, <2>7 DEF OrderInv
<1>6. ASSUME NEW p \in Goroutines, GetObject(p) \/ CopyBody(p) PROVE OrderInv'
  <2>1. UNCHANGED <<start, ch, pos, ranged>> /\ Holds(p)
    BY <1>6 DEF GetObject, CopyBody, object, Holds
  <2>2. \A q \in Goroutines : q # p => act'[q] = act[q]
    BY <1>6, <1>a DEF GetObject, CopyBody
  <2> QED
    BY <2>1, <2>2, OrderKept DEF Holds
<1>7. ASSUME NEW p \in Goroutines, incrWritten(p) \/ setErr(p) PROVE OrderInv'
  <2>1. UNCHANGED <<start, ch, pos, ranged>>
    BY <1>7 DEF incrWritten, setErr, object, chunk
  <2>2. \A q \in Goroutines : act'[q] = act[q] \/ act'[q] \in {"rest", "fail"}
    BY <1>7, <1>a DEF incrWritten, setErr
  <2> QED
    BY <2>1, <2>2, OrderKept DEF Holds
<1>8. ASSUME NEW p \in Workers, Receive(p) PROVE OrderInv'
  <2>0. ~ranged
    <3>1. main \in During
      BY <1>8 DEF Receive, StageInv, ActsOK, Before, During
    <3> QED
      BY <3>1 DEF PosInv, During
  <2>1. CASE /\ ch # <<>> /\ ch' = Tail(ch)
             /\ start' = [start EXCEPT ![p] = Head(ch)] /\ act' = [act EXCEPT ![p] = "check"]
    <3>1. /\ Len(ch') = Len(ch) - 1 /\ Head(ch) = ch[1] /\ ch[1] \in Nat /\ Len(ch) >= 1
          /\ \A i \in 1 .. Len(ch') : ch'[i] = ch[i + 1] /\ ch'[i] \in Nat
      BY <1>a, <2>1
    <3>2. pos' = pos /\ ranged' = ranged
      BY <1>8 DEF Receive, object
    <3>3. \A i \in 1 .. Len(ch') : Apart(ch'[i], pos')
      BY <3>1, <3>2 DEF OrderInv
    <3>4. ASSUME NEW i \in 1 .. Len(ch'), NEW j \in 1 .. Len(ch'), i < j
          PROVE  Apart(ch'[i], ch'[j])
      <4>1. i + 1 \in 1 .. Len(ch) /\ j + 1 \in 1 .. Len(ch) /\ i + 1 < j + 1
        BY <1>a, <3>1, <3>4
      <4>2. Apart(ch[i + 1], ch[j + 1])
        BY <4>1 DEF OrderInv
      <4> QED
        BY <3>1, <4>2
    <3>5. start'[p] = ch[1] /\ \A q \in Goroutines : q # p => start'[q] = start[q] /\ Holds(q)' = Holds(q)
      BY <1>a, <2>1, <3>1 DEF Holds
    <3>6. \A i \in 1 .. Len(ch') : Apart(ch[1], ch'[i])
      BY <3>1 DEF OrderInv
    <3>7. \A q \in Goroutines : q # p /\ Holds(q) =>
            /\ Apart(start[q], pos) /\ Apart(start[q], ch[1])
            /\ \A i \in 1 .. Len(ch') : Apart(start[q], ch'[i])
            /\ \A r \in Goroutines : r # q /\ Holds(r) =>
                  Apart(start[q], start[r]) \/ Apart(start[r], start[q])
      BY <2>0, <3>1 DEF OrderInv
    <3>8. Apart(ch[1], pos)
      BY <3>1 DEF OrderInv
    <3> QED
      BY <2>0, <3>2, <3>3, <3>4, <3>5, <3>6, <3>7, <3>8 DEF OrderInv
  <2>2. CASE act' = [act EXCEPT ![p] = "ended"] /\ ch' = ch /\ start' = start
    <3>1. UNCHANGED <<start, ch, pos, ranged>> /\ \A q \in Goroutines : Holds(q)' => Holds(q)
      BY <1>8, <1>a, <2>2 DEF Receive, object, Holds
    <3> QED
      BY <3>1, OrderKept
  <2> QED
    BY <1>8, <2>1, <2>2 DEF Receive
<1>9. ASSUME NEW p \in Workers, CheckErr(p) PROVE OrderInv'
  <2>1. UNCHANGED <<start, ch, pos, ranged>>
    BY <1>9, <1>a DEF CheckErr, Begin, object, chunk
  <2>2. Holds(p) /\ \A q \in Goroutines : q # p => act'[q] = act[q]
    BY <1>9, <1>a DEF CheckErr, Begin, Holds
  <2> QED
    BY <2>1, <2>2, OrderKept DEF Holds
<1> QED
  BY <1>1, <1>2, <1>3, <1>4, <1>5, <1>6, <1>7, <1>8, <1>9, StepCases

-----------------------------------------------------------------------------
(* What is written. *)

\* A chunk that is being read lies in the object.
LEMMA InObject ==
    ASSUME NumbersOK, ErrInv, OrderInv, NEW p \in Goroutines, act[p] \in {"copy", "count"}
    PROVE  /\ start[p] \in Nat /\ size \in Nat /\ Length(start[p]) \in Nat
           /\ start[p] + Length(start[p]) <= size
<1>1. start[p] \in Nat /\ size \in Nat /\ start[p] < size
  BY DEF NumbersOK, ErrInv
<1>2. ranged => start[p] = 0
  BY DEF OrderInv, Holds
<1> QED
  BY <1>1, <1>2, LengthIs DEF NumbersOK

\* The bytes that a read of a body brings are then in w.
LEMMA WriteAdds ==
    ASSUME NumbersOK, CopyInv, UNCHANGED size,
           NEW p \in Goroutines, NEW n \in Nat, start[p] + n <= size, Write(p, n)
    PROVE  /\ w' = {<<b, b>> : b \in Copied'}
           /\ Copied' = Copied \cup (start[p] .. start[p] + n - 1)
<1> DEFINE R == start[p] .. start[p] + n - 1
<1>1. start[p] \in Nat /\ size \in Nat /\ cur[p] = 0
  BY DEF NumbersOK, CopyInv
<1>2. w' = {x \in w : x[1] \notin R} \cup {<<start[p] + i, start[p] + i>> : i \in 0 .. n - 1}
  BY <1>1 DEF Write
<1>3. w = {<<b, b>> : b \in Copied}
  BY DEF CopyInv
<1>4. {x \in w : x[1] \notin R} = {<<b, b>> : b \in Copied \ R}
  BY <1>3
<1>5. {<<start[p] + i, start[p] + i>> : i \in 0 .. n - 1} = {<<b, b>> : b \in R}
  <2>1. ASSUME NEW i \in 0 .. n - 1 PROVE start[p] + i \in R
    BY <1>1
  <2>2. ASSUME NEW b \in R PROVE b - start[p] \in 0 .. n - 1 /\ b = start[p] + (b - start[p])
    BY <1>1
  <2> QED
    BY <2>1, <2>2
<1>6. w' = {<<b, b>> : b \in Copied \cup R}
  BY <1>2, <1>4, <1>5
<1>7. Copied \cup R \subseteq 0 .. size - 1
  BY <1>1 DEF Copied
<1>8. Copied' = {b \in 0 .. size - 1 : <<b, b>> \in w'}
  BY DEF Copied
<1>9. Copied' = Copied \cup R
  BY <1>6, <1>7, <1>8
<1> QED
  BY <1>6, <1>9

\* Where nothing is written and no body ends.
LEMMA CopyKept ==
    ASSUME CopyInv, UNCHANGED <<w, size, ranged>>,
           \A p \in Goroutines : cur'[p] = 0,
           \A p \in Goroutines : act'[p] = "count" =>
              act[p] = "count" /\ start'[p] = start[p] /\ count'[p] = count[p] /\ cause'[p] = cause[p]
    PROVE  CopyInv'
<1>1. Copied' = Copied
  BY DEF Copied
<1>2. w' = {<<b, b>> : b \in Copied'}
  BY <1>1 DEF CopyInv
<1>3. ASSUME NEW p \in Goroutines, act'[p] = "count"
      PROVE  /\ count'[p] <= Length(start[p])'
             /\ start'[p] .. start'[p] + count'[p] - 1 \subseteq Copied'
             /\ cause'[p] = "none" => count'[p] = Length(start[p])'
  <2>1. Length(start[p])' = Length(start[p])
    BY <1>3 DEF Length
  <2> QED
    BY <1>1, <1>3, <2>1 DEF CopyInv
<1> QED
  BY <1>2, <1>3 DEF CopyInv, Goroutines

\* A step writes bytes of the object only, each at its offset.
LEMMA StepCopy ==
    ASSUME ActsOK, NumbersOK, ErrInv, OrderInv, CopyInv, Next
    PROVE  CopyInv'
<1> USE Numbers
<1>a. /\ act \in [Goroutines -> Acts] /\ start \in [Goroutines -> Nat] /\ cur \in [Goroutines -> Nat]
      /\ count \in [Goroutines -> Nat] /\ cause \in [Goroutines -> Causes]
      /\ \A p \in Goroutines : cur[p] = 0
  BY DEF ActsOK, NumbersOK, CopyInv
<1>1. CASE CallerMoves \/ SendChunk
  <2>1. UNCHANGED <<w, size, ranged, act, start, cur, count, cause>>
    BY <1>1 DEF CallerMoves, Refused, RangeDone, AssignChunk, CloseChannel, Wait, AloneDone,
                SendChunk, object, chunk
  <2> QED
    BY <1>a, <2>1, CopyKept
<1>2. CASE downloadRange \/ getChunk
  <2>1. UNCHANGED <<w, size, ranged, count>> /\ Begin(Caller, pos)
    BY <1>2 DEF downloadRange, getChunk, Begin, object
  <2>2. /\ \A p \in Goroutines : cur'[p] = 0
        /\ \A p \in Goroutines : act'[p] = "count" =>
              act[p] = "count" /\ start'[p] = start[p] /\ cause'[p] = cause[p]
    BY <1>a, <2>1 DEF Begin
  <2> QED
    BY <2>1, <2>2, CopyKept
<1>3. CASE Spawn
  <2>1. /\ UNCHANGED <<w, size, ranged, start, cur, count, cause>>
        /\ act' = act \/ act' = [p \in Goroutines |-> "rest"]
    BY <1>3 DEF Spawn, object, chunk
  <2> QED
    BY <1>a, <2>1, CopyKept
<1>4. ASSUME NEW p \in Goroutines, GetObject(p) PROVE CopyInv'
  <2>1. /\ UNCHANGED <<w, size, ranged, start, cur, count>>
        /\ act' = [act EXCEPT ![p] = "copy"] \/ act' = [act EXCEPT ![p] = "fail"]
        /\ \A q \in Goroutines : q # p => cause'[q] = cause[q]
    BY <1>4, <1>a DEF GetObject, object
  <2> QED
    BY <1>a, <2>1, CopyKept
<1>5. ASSUME NEW p \in Goroutines, CopyBody(p) PROVE CopyInv'
  <2>1. PICK n \in 0 .. Length(start[p]) :
          /\ Write(p, n)
          /\ count' = [count EXCEPT ![p] = n]
          /\ \/ n = Length(start[p]) /\ act' = [act EXCEPT ![p] = "count"] /\ UNCHANGED <<cur, cause>>
             \/ /\ cur' = [cur EXCEPT ![p] = 0]
                /\ \/ act' = [act EXCEPT ![p] = "get"] /\ UNCHANGED cause
                   \/ act' = [act EXCEPT ![p] = "count"] /\ cause' = [cause EXCEPT ![p] = "body"]
    BY <1>5 DEF CopyBody, Counted, Rewind
  <2>2. UNCHANGED <<size, ranged, start>> /\ act[p] = "copy"
    BY <1>5 DEF CopyBody, object
  <2>3. /\ start[p] \in Nat /\ size \in Nat /\ Length(start[p]) \in Nat
        /\ start[p] + Length(start[p]) <= size
    BY <2>2, InObject
  <2>4. n \in Nat /\ start[p] + n <= size /\ n <= Length(start[p])
    BY <2>3
  <2>5. /\ w' = {<<b, b>> : b \in Copied'}
        /\ Copied' = Copied \cup (start[p] .. start[p] + n - 1)
    BY <2>1, <2>2, <2>4, WriteAdds
  <2>6. \A q \in Goroutines : cur'[q] = 0
    BY <1>a, <2>1
  <2>7. ASSUME NEW q \in Goroutines, act'[q] = "count"
        PROVE  /\ count'[q] <= Length(start[q])'
               /\ start'[q] .. start'[q] + count'[q] - 1 \subseteq Copied'
               /\ cause'[q] = "none" => count'[q] = Length(start[q])'
    <3>1. Length(start[q])' = Length(start[q])
      BY <2>2 DEF Length
    <3>2. CASE q = p
      <4>1. count'[p] = n /\ start'[p] = start[p]
        BY <1>a, <2>1, <2>2
      <4>2. cause'[p] = "none" => n = Length(start[p])
        BY <1>a, <2>1, <2>7, <3>2
      <4> QED
        BY <2>4, <2>5, <3>1, <3>2, <4>1, <4>2
    <3>3. CASE q # p
      <4>1. act[q] = "count" /\ count'[q] = count[q] /\ start'[q] = start[q] /\ cause'[q] = cause[q]
        BY <1>a, <2>1, <2>2, <2>7, <3>3
      <4> QED
        BY <2>5, <3>1, <4>1 DEF CopyInv
    <3> QED
      BY <3>2, <3>3
  <2> QED
    BY <2>5, <2>6, <2>7 DEF CopyInv, Goroutines
<1>6. ASSUME NEW p \in Goroutines, incrWritten(p) \/ setErr(p) PROVE CopyInv'
  <2>1. UNCHANGED <<w, size, ranged, start, cur, count, cause>>
    BY <1>6 DEF incrWritten, setErr, object, chunk
  <2>2. \A q \in Goroutines : act'[q] = act[q] \/ act'[q] \in {"rest", "fail"}
    BY <1>6, <1>a DEF incrWritten, setErr
  <2> QED
    BY <1>a, <2>1, <2>2, CopyKept
<1>7. ASSUME NEW p \in Workers, Receive(p) PROVE CopyInv'
  <2>1. UNCHANGED <<w, size, ranged, cur, count, cause>>
    BY <1>7 DEF Receive, object
  <2>2. \A q \in Goroutines : act'[q] = "count" => act[q] = "count" /\ start'[q] = start[q]
    BY <1>7, <1>a DEF Receive
  <2> QED
    BY <1>a, <2>1, <2>2, CopyKept
<1>8. ASSUME NEW p \in Workers, CheckErr(p) PROVE CopyInv'
  <2>1. UNCHANGED <<w, size, ranged, count>>
    BY <1>8 DEF CheckErr, Begin, object, chunk
  <2>2. /\ \A q \in Goroutines : cur'[q] = 0
        /\ \A q \in Goroutines : act'[q] = "count" =>
              act[q] = "count" /\ start'[q] = start[q] /\ cause'[q] = cause[q]
    BY <1>8, <1>a DEF CheckErr, Begin, chunk
  <2> QED
    BY <2>1, <2>2, CopyKept
<1> QED
  BY <1>1, <1>2, <1>3, <1>4, <1>5, <1>6, <1>7, <1>8, StepCases

-----------------------------------------------------------------------------
(* What is counted. *)

\* Part of a part of the numbers below n.
LEMMA PartsFinite ==
    ASSUME NEW n \in Nat, NEW C \in SUBSET (0 .. n - 1), NEW S \in SUBSET C
    PROVE  /\ IsFiniteSet(C) /\ IsFiniteSet(S)
           /\ Cardinality(C) \in Nat /\ Cardinality(S) \in Nat /\ Cardinality(S) <= Cardinality(C)
<1>1. IsFiniteSet(0 .. n - 1)
  BY FS_Interval
<1>2. IsFiniteSet(C)
  BY <1>1, FS_Subset
<1> QED
  BY <1>2, FS_Subset, FS_CardinalityType

\* The number of the first n bytes from s on.
LEMMA IntervalSize ==
    ASSUME NEW s \in Nat, NEW n \in Nat
    PROVE  Cardinality(s .. s + n - 1) = n
<1>1. PICK e \in Int : e = s + n - 1
  OBVIOUS
<1>2. Cardinality(s .. e) = IF s > e THEN 0 ELSE e - s + 1
  BY FS_Interval
<1> QED
  BY <1>1, <1>2

\* What was copied, and what of it is settled, is finite.
LEMMA Finite ==
    ASSUME NumbersOK
    PROVE  /\ IsFiniteSet(Copied) /\ IsFiniteSet(Settled)
           /\ Cardinality(Copied) \in Nat /\ Cardinality(Settled) \in Nat
           /\ Cardinality(Settled) <= Cardinality(Copied)
  BY PartsFinite DEF Copied, Settled, NumbersOK

\* Where nothing is written or counted, and no byte waits that did not.
LEMMA CountKept ==
    ASSUME NumbersOK, NumbersOK', CountInv, UNCHANGED <<size, w, written>>,
           \A b \in 0 .. size - 1 : Waiting(b)' => Waiting(b),
           Clean' => Clean /\ \A b \in 0 .. size - 1 : Waiting(b) => Waiting(b)'
    PROVE  CountInv'
<1>0. IsFiniteSet(Settled') /\ Cardinality(Settled') \in Nat
  <2>1. size' \in Nat /\ Copied' \in SUBSET (0 .. size' - 1) /\ Settled' \in SUBSET (Copied')
    BY DEF Copied, Settled, NumbersOK
  <2> QED
    BY <2>1, PartsFinite
<1>1. Copied' = Copied
  BY DEF Copied
<1>2. Settled \in SUBSET (Settled')
  BY <1>1 DEF Settled, Copied
<1>3. Cardinality(Settled) <= Cardinality(Settled')
  <2>1. IsFiniteSet(Settled')
    BY <1>0
  <2> QED
    BY <1>2, <2>1, FS_Subset
<1>4. Cardinality(Settled) \in Nat /\ Cardinality(Settled') \in Nat
  BY <1>0, Finite
<1>5. written \in Nat
  BY DEF NumbersOK
<1>6. written' <= Cardinality(Settled')
  BY <1>3, <1>4, <1>5 DEF CountInv
<1>7. ASSUME Clean'
      PROVE  /\ \A b \in 0 .. size' - 1 : b \in Copied' \/ Waiting(b)'
             /\ written' = Cardinality(Settled')
  <2>1. Settled' = Settled
    BY <1>1, <1>7 DEF Settled, Copied
  <2> QED
    BY <1>1, <1>7, <2>1 DEF CountInv
<1> QED
  BY <1>6, <1>7 DEF CountInv

\* The bytes of a chunk.
LEMMA BytesAre ==
    ASSUME NumbersOK, NEW s \in Nat
    PROVE  /\ \A b \in Bytes(s) : b >= s
           /\ ~ranged => /\ \A b \in Bytes(s) : b < s + PartSize
                         /\ \A b \in 0 .. size - 1 : b >= s /\ b < s + PartSize => b \in Bytes(s)
           /\ ranged /\ s = 0 => Bytes(s) = 0 .. size - 1
           /\ s >= size /\ (ranged => s = 0) => Bytes(s) = {}
<1>1. size \in Nat /\ Length(s) \in Int /\ PartSize \in Nat
  BY LengthIs DEF NumbersOK
<1>2. Bytes(s) = s .. s + Length(s) - 1
  BY DEF Bytes
<1>3. CASE ranged
  <2>1. Length(s) = size
    BY <1>3, LengthIs
  <2> QED
    BY <1>1, <1>2, <1>3, <2>1
<1>4. CASE ~ranged
  <2>1. Length(s) = IF PartSize <= size - s THEN PartSize ELSE size - s
    BY <1>4, LengthIs
  <2> QED
    BY <1>1, <1>2, <1>4, <2>1
<1> QED
  BY <1>3, <1>4

\* The bytes that a goroutine counts wait for it alone.
LEMMA NobodyElses ==
    ASSUME ActsOK, NumbersOK, ChannelOK, StageInv, OrderInv,
           NEW p \in Goroutines, act[p] = "count", NEW b \in Bytes(start[p])
    PROVE  /\ Assigned(b)
           /\ \A q \in Goroutines : q # p /\ Holds(q) => b \notin Bytes(start[q])
           /\ \A i \in 1 .. Len(ch) : b \notin Bytes(ch[i])
<1> USE Numbers
<1>1. Holds(p) /\ start[p] \in Nat /\ pos \in Nat /\ PartSize \in Nat
  BY DEF Holds, NumbersOK
<1>2. main # "first" /\ (p = Caller => ch = <<>> /\ \A q \in Workers : act[q] = "none")
  BY OneSide DEF During
<1>3. b \in Int /\ b >= start[p]
  BY <1>1, BytesAre, LengthIs DEF Bytes
<1>4. CASE ranged
  BY <1>1, <1>2, <1>4 DEF OrderInv, Assigned, Holds
<1>5. CASE ~ranged
  <2>1. b < start[p] + PartSize
    BY <1>1, <1>5, BytesAre
  <2>2. Assigned(b)
    BY <1>1, <1>3, <1>5, <2>1 DEF OrderInv, Apart, Assigned
  <2>3. ASSUME NEW q \in Goroutines, q # p, Holds(q), b \in Bytes(start[q]) PROVE FALSE
    <3>1. start[q] \in Nat
      BY DEF NumbersOK
    <3>2. b >= start[q] /\ b < start[q] + PartSize
      BY <1>5, <2>3, <3>1, BytesAre
    <3>3. Apart(start[p], start[q]) \/ Apart(start[q], start[p])
      BY <1>1, <1>5, <2>3 DEF OrderInv
    <3> QED
      BY <1>1, <1>3, <2>1, <3>1, <3>2, <3>3 DEF Apart
  <2>4. ASSUME NEW i \in 1 .. Len(ch), b \in Bytes(ch[i]) PROVE FALSE
    <3>1. ch[i] \in Nat
      BY DEF ChannelOK
    <3>2. b >= ch[i]
      BY <2>4, <3>1, BytesAre
    <3>3. Apart(start[p], ch[i])
      BY <1>1, <1>5 DEF OrderInv
    <3> QED
      BY <1>1, <1>3, <2>1, <3>1, <3>2, <3>3 DEF Apart
  <2> QED
    BY <2>2, <2>3, <2>4
<1> QED
  BY <1>4, <1>5

\* A chunk is counted: its bytes wait no more, and no more are counted than
\* were copied.
LEMMA StepIncr ==
    ASSUME ActsOK, NumbersOK, NumbersOK', ChannelOK, StageInv, ErrInv, OrderInv, CopyInv, CountInv,
           NEW p \in Goroutines, incrWritten(p)
    PROVE  CountInv'
<1> USE Numbers
<1> DEFINE B == Bytes(start[p])
           A == Copied \cap B
           C == start[p] .. start[p] + count[p] - 1
<1>1. /\ UNCHANGED <<size, ranged, main, pos, ch, start, cause, err, w>>
      /\ act[p] = "count" /\ written' = written + count[p]
      /\ act' = [act EXCEPT ![p] = IF cause[p] = "none" THEN "rest" ELSE "fail"]
  BY DEF incrWritten, object, chunk
<1>2. /\ start[p] \in Nat /\ size \in Nat /\ Length(start[p]) \in Nat
      /\ start[p] + Length(start[p]) <= size /\ count[p] \in Nat /\ written \in Nat
  BY <1>1, InObject DEF NumbersOK
<1>3. Copied' = Copied
  BY <1>1 DEF Copied
<1>4. ~Holds(p)' /\ \A q \in Goroutines : q # p => act'[q] = act[q]
  BY <1>1 DEF ActsOK, Holds
<1>5. \A b \in B : ~Waiting(b)' /\ Waiting(b)
  <2>1. ASSUME NEW b \in B PROVE ~Waiting(b)'
    <3>1. /\ Assigned(b)
          /\ \A q \in Goroutines : q # p /\ Holds(q) => b \notin Bytes(start[q])
          /\ \A i \in 1 .. Len(ch) : b \notin Bytes(ch[i])
      BY <1>1, NobodyElses
    <3> QED
      BY <1>1, <1>4, <3>1 DEF Waiting, Assigned, Holds, Bytes, Length, Goroutines
  <2>2. ASSUME NEW b \in B PROVE Waiting(b)
    BY <1>1 DEF Waiting, Holds
  <2> QED
    BY <2>1, <2>2
<1>6. \A b \in 0 .. size - 1 : b \notin B => (Waiting(b) => Waiting(b)') /\ (Waiting(b)' => Waiting(b))
  BY <1>1, <1>4 DEF Waiting, Assigned, Holds, Bytes, Length, Goroutines
<1>7. Settled' = Settled \cup A /\ Settled \cap A = {}
  BY <1>3, <1>5, <1>6 DEF Settled, Copied
<1>8. IsFiniteSet(A) /\ IsFiniteSet(Settled) /\ C \in SUBSET A
  <2>1. C \subseteq Copied
    BY <1>1 DEF CopyInv
  <2>2. C \subseteq B
    BY <1>1, <1>2 DEF CopyInv, Bytes
  <2> QED
    BY <2>1, <2>2, Finite, FS_Intersection
<1>9. Cardinality(C) = count[p]
  BY <1>2, IntervalSize
<1>10. /\ Cardinality(Settled') = Cardinality(Settled) + Cardinality(A)
       /\ Cardinality(Settled) \in Nat /\ Cardinality(A) \in Nat /\ Cardinality(A) >= count[p]
  <2>1. Cardinality(Settled \cup A) = Cardinality(Settled) + Cardinality(A) - Cardinality(Settled \cap A)
    BY <1>8, FS_Union
  <2>2. Cardinality(Settled \cap A) = 0
    BY <1>7, FS_EmptySet
  <2>3. Cardinality(Settled) \in Nat /\ Cardinality(A) \in Nat
    BY <1>8, FS_CardinalityType
  <2>4. Cardinality(C) <= Cardinality(A)
    BY <1>8, FS_Subset
  <2> QED
    BY <1>2, <1>7, <1>9, <2>1, <2>2, <2>3, <2>4
<1>11. written' <= Cardinality(Settled')
  BY <1>1, <1>2, <1>10 DEF CountInv
<1>12. ASSUME Clean'
       PROVE  /\ \A b \in 0 .. size' - 1 : b \in Copied' \/ Waiting(b)'
              /\ written' = Cardinality(Settled')
  <2>1. cause[p] = "none"
    <3>1. cause[p] # "416"
      BY <1>1 DEF ErrInv
    <3> QED
      BY <1>1, <1>12, <3>1 DEF Clean, ActsOK
  <2>2. Clean
    BY <1>1, <1>4, <1>12, <2>1 DEF Clean
  <2>3. count[p] = Length(start[p])
    BY <1>1, <2>1 DEF CopyInv
  <2>4. B \subseteq Copied
    BY <1>1, <2>3 DEF CopyInv, Bytes
  <2>5. A = C
    BY <2>3, <2>4 DEF Bytes
  <2> QED
    BY <1>1, <1>3, <1>6, <1>9, <1>10, <2>2, <2>4, <2>5 DEF CountInv
<1> QED
  BY <1>11, <1>12 DEF CountInv

\* The other steps of a chunk.
LEMMA ChunkCount ==
    ASSUME ActsOK, NumbersOK, NumbersOK', ChannelOK, StageInv, PosInv, ErrInv, OrderInv, CopyInv, CountInv,
           NEW p \in Goroutines, GetObject(p) \/ CopyBody(p) \/ setErr(p)
    PROVE  CountInv'
<1> USE Numbers
<1>a. act \in [Goroutines -> Acts] /\ cause \in [Goroutines -> Causes] /\ start[p] \in Nat
  BY DEF ActsOK, NumbersOK
<1>1. UNCHANGED <<size, ranged, main, pos, ch, start, written>>
  BY DEF GetObject, CopyBody, setErr, object, chunk
<1>2. ASSUME \A q \in Goroutines : Holds(q)' => Holds(q)
      PROVE  \A b \in 0 .. size - 1 : Waiting(b)' => Waiting(b)
  BY <1>1, <1>2 DEF Waiting, Assigned, Bytes, Length, Goroutines
<1>3. ASSUME \A q \in Goroutines : Holds(q) => Holds(q)' \/ Bytes(start[q]) = {}
      PROVE  \A b \in 0 .. size - 1 : Waiting(b) => Waiting(b)'
  BY <1>1, <1>3 DEF Waiting, Assigned, Bytes, Length, Goroutines
<1>4. CASE GetObject(p)
  <2>1. w' = w /\ act[p] = "get" /\ err' \in {err, "malformed"}
    BY <1>4, TotalIsSize DEF GetObject
  <2>2. CASE act' = [act EXCEPT ![p] = "copy"] /\ cause' = cause
    <3>1. \A q \in Goroutines : (Holds(q)' => Holds(q)) /\ (Holds(q) => Holds(q)')
      BY <1>a, <2>1, <2>2 DEF Holds
    <3>2. Clean' => Clean
      BY <1>a, <2>1, <2>2 DEF Clean
    <3> QED
      BY <1>1, <1>2, <1>3, <2>1, <3>1, <3>2, CountKept
  <2>3. CASE act' = [act EXCEPT ![p] = "fail"] /\ cause' = [cause EXCEPT ![p] = "request"]
    <3>1. \A q \in Goroutines : Holds(q)' => Holds(q)
      BY <1>a, <2>1, <2>3 DEF Holds
    <3>2. ~Clean'
      BY <1>a, <2>3 DEF Clean
    <3> QED
      BY <1>1, <1>2, <2>1, <3>1, <3>2, CountKept
  <2>4. CASE /\ act' = [act EXCEPT ![p] = "fail"] /\ cause' = [cause EXCEPT ![p] = "416"]
             /\ ~Satisfiable(start[p])
    <3>0. ranged => start[p] = 0
      BY <2>1 DEF OrderInv, Holds
    <3>1. start[p] >= size
      BY <1>a, <2>4 DEF Satisfiable, NumbersOK
    <3>2. Bytes(start[p]) = {}
      BY <1>a, <3>0, <3>1, BytesAre
    <3>3. \A q \in Goroutines : (Holds(q)' => Holds(q)) /\ (Holds(q) => Holds(q)' \/ Bytes(start[q]) = {})
      BY <1>a, <2>1, <2>4, <3>2 DEF Holds
    <3>4. Clean' => Clean
      BY <1>a, <2>1, <2>4 DEF Clean
    <3> QED
      BY <1>1, <1>2, <1>3, <2>1, <3>3, <3>4, CountKept
  <2> QED
    BY <1>4, <2>2, <2>3, <2>4 DEF GetObject
<1>5. CASE CopyBody(p)
  <2>1. PICK n \in 0 .. Length(start[p]) :
          /\ Write(p, n)
          /\ \/ act' = [act EXCEPT ![p] = "count"] /\ UNCHANGED cause
             \/ act' = [act EXCEPT ![p] = "get"] /\ UNCHANGED cause
             \/ act' = [act EXCEPT ![p] = "count"] /\ cause' = [cause EXCEPT ![p] = "body"]
    BY <1>5 DEF CopyBody
  <2>2. act[p] = "copy" /\ err' = err
    BY <1>5 DEF CopyBody
  <2>3. /\ size \in Nat /\ Length(start[p]) \in Nat /\ start[p] + Length(start[p]) <= size
        /\ n \in Nat /\ start[p] + n <= size /\ n <= Length(start[p])
    BY <1>a, <2>2, InObject
  <2>4. Copied' = Copied \cup (start[p] .. start[p] + n - 1)
    BY <1>1, <2>1, <2>3, WriteAdds
  <2>5. \A q \in Goroutines : (Holds(q)' => Holds(q)) /\ (Holds(q) => Holds(q)')
    BY <1>a, <2>1, <2>2 DEF Holds
  <2>6. \A b \in 0 .. size - 1 : (Waiting(b)' => Waiting(b)) /\ (Waiting(b) => Waiting(b)')
    BY <1>2, <1>3, <2>5
  <2>7. \A b \in start[p] .. start[p] + n - 1 : b \in 0 .. size - 1 /\ Waiting(b)
    <3>1. \A b \in start[p] .. start[p] + n - 1 : b \in 0 .. size - 1 /\ b \in Bytes(start[p])
      BY <1>a, <2>3 DEF Bytes
    <3> QED
      BY <2>2, <3>1 DEF Waiting, Holds
  <2>8. Settled' = Settled
    BY <1>1, <2>4, <2>6, <2>7 DEF Settled, Copied
  <2>9. Clean' => Clean
    BY <1>a, <2>1, <2>2 DEF Clean
  <2> QED
    BY <1>1, <2>4, <2>6, <2>8, <2>9 DEF CountInv
<1>6. CASE setErr(p)
  <2>1. /\ w' = w /\ act[p] = "fail" /\ act' = [act EXCEPT ![p] = "rest"]
        /\ err' = cause[p] /\ cause' = cause
    BY <1>6 DEF setErr, chunk
  <2>2. \A q \in Goroutines : (Holds(q)' => Holds(q)) /\ (Holds(q) => Holds(q)')
    BY <1>a, <2>1 DEF Holds
  <2>3. cause[p] # "none" /\ (cause[p] = "416" => err = "none")
    BY <2>1 DEF ErrInv
  <2>4. Clean' => Clean
    BY <1>a, <2>1, <2>3 DEF Clean
  <2> QED
    BY <1>1, <1>2, <1>3, <2>1, <2>2, <2>4, CountKept
<1> QED
  BY <1>4, <1>5, <1>6

\* A chunk begins or is queued at pos: what was not assigned waits in it.
LEMMA CutCount ==
    ASSUME ActsOK, NumbersOK, NumbersOK', ChannelOK, StageInv, PosInv, ErrInv, CountInv,
           downloadRange \/ getChunk \/ SendChunk
    PROVE  CountInv'
<1> USE Numbers
<1>a. /\ act \in [Goroutines -> Acts] /\ start \in [Goroutines -> Nat] /\ cause \in [Goroutines -> Causes]
      /\ pos \in Nat /\ size \in Nat /\ ch \in Seq(Nat) /\ PartSize \in Nat
  BY DEF ActsOK, NumbersOK, ChannelOK
<1>1. UNCHANGED <<size, ranged, w, written, err>>
  BY DEF downloadRange, getChunk, SendChunk, object
<1>2. CASE SendChunk
  <2>1. /\ UNCHANGED <<act, start, cause>> /\ pos' = pos + PartSize /\ ch' = Append(ch, pos)
        /\ main # "first" /\ main' # "first"
    BY <1>2 DEF SendChunk, chunk
  <2>2. ~ranged
    BY <1>2 DEF SendChunk, PosInv
  <2>3. /\ Len(ch') = Len(ch) + 1 /\ ch'[Len(ch) + 1] = pos /\ Len(ch) \in Nat
        /\ \A i \in 1 .. Len(ch) : ch'[i] = ch[i]
    BY <1>a, <2>1
  <2>4. ASSUME NEW b \in 0 .. size - 1 PROVE Waiting(b) => Waiting(b)'
    <3>1. CASE ~Assigned(b)
      <4>1. CASE b < pos + PartSize
        <5>1. b \in Bytes(pos)
          BY <1>a, <2>2, <3>1, <4>1, BytesAre DEF Assigned
        <5>2. Bytes(ch'[Len(ch) + 1]) = Bytes(pos)
          BY <2>3
        <5>3. \E i \in 1 .. Len(ch') : b \in Bytes(ch'[i])
          BY <2>3, <5>1, <5>2
        <5> QED
          BY <1>1, <5>3 DEF Waiting, Bytes, Length
      <4>2. CASE ~(b < pos + PartSize)
        BY <1>1, <2>1, <2>2, <4>2 DEF Waiting, Assigned
      <4> QED
        BY <4>1, <4>2
    <3>2. CASE \E p \in Goroutines : Holds(p) /\ b \in Bytes(start[p])
      BY <1>1, <2>1, <3>2 DEF Waiting, Holds, Bytes, Length, Goroutines
    <3>3. CASE \E i \in 1 .. Len(ch) : b \in Bytes(ch[i])
      <4>1. PICK i \in 1 .. Len(ch) : b \in Bytes(ch[i])
        BY <3>3
      <4>2. i \in 1 .. Len(ch') /\ ch'[i] = ch[i]
        BY <2>3
      <4> QED
        BY <1>1, <4>1, <4>2 DEF Waiting, Bytes, Length
    <3> QED
      BY <3>1, <3>2, <3>3 DEF Waiting
  <2>5. ASSUME NEW b \in 0 .. size - 1, Waiting(b)' PROVE Waiting(b)
    <3>1. CASE ~Assigned(b)'
      BY <1>a, <1>1, <2>1, <2>2, <3>1 DEF Waiting, Assigned
    <3>2. CASE \E p \in Goroutines : Holds(p) /\ b \in Bytes(start[p])
      BY <3>2 DEF Waiting
    <3>3. CASE \E i \in 1 .. Len(ch') : b \in Bytes(ch'[i])
      <4>1. PICK i \in 1 .. Len(ch') : b \in Bytes(ch'[i])
        BY <3>3
      <4>2. CASE i \in 1 .. Len(ch)
        BY <2>3, <4>1, <4>2 DEF Waiting
      <4>3. CASE i = Len(ch) + 1
        <5>1. b >= pos
          BY <1>a, <2>3, <4>1, <4>3, BytesAre
        <5> QED
          BY <1>a, <2>2, <5>1 DEF Waiting, Assigned
      <4> QED
        BY <2>3, <4>2, <4>3
    <3>4. \/ ~Assigned(b)'
          \/ \E p \in Goroutines : Holds(p) /\ b \in Bytes(start[p])
          \/ \E i \in 1 .. Len(ch') : b \in Bytes(ch'[i])
      BY <1>1, <2>1, <2>5 DEF Waiting, Holds, Bytes, Length, Goroutines
    <3> QED
      BY <3>1, <3>2, <3>3, <3>4
  <2>6. Clean' => Clean
    BY <1>1, <2>1 DEF Clean
  <2> QED
    BY <1>1, <2>4, <2>5, <2>6, CountKept
<1>3. CASE downloadRange \/ getChunk
  <2>1. /\ act' = [act EXCEPT ![Caller] = "get"] /\ start' = [start EXCEPT ![Caller] = pos]
        /\ cause' = [cause EXCEPT ![Caller] = "none"] /\ ch' = ch /\ main' # "first"
    BY <1>3 DEF downloadRange, getChunk, Begin
  <2>2. act[Caller] = "rest" /\ ch = <<>> /\ \A p \in Goroutines : ~Holds(p)
    BY <1>3 DEF downloadRange, getChunk, AtRest, StageInv, Before, Holds
  <2>3. /\ Holds(Caller)' /\ start'[Caller] = pos /\ \A p \in Workers : ~Holds(p)'
        /\ Len(ch) = 0 /\ Len(ch') = 0
    BY <1>a, <2>1, <2>2 DEF Holds
  <2>4. ASSUME NEW b \in 0 .. size - 1
        PROVE  /\ Waiting(b) => ~Assigned(b)
               /\ ~Assigned(b) => Waiting(b)
               /\ Waiting(b)' => ~Assigned(b)' \/ b \in Bytes(pos)
               /\ ~Assigned(b)' \/ b \in Bytes(pos) => Waiting(b)'
    <3>1. Bytes(start[Caller])' = Bytes(pos)
      BY <1>1, <2>3 DEF Bytes, Length
    <3> QED
      BY <2>2, <2>3, <3>1 DEF Waiting, Goroutines
  <2>5. ASSUME NEW b \in 0 .. size - 1
        PROVE  /\ ~Assigned(b) => ~Assigned(b)' \/ b \in Bytes(pos)
               /\ ~Assigned(b)' \/ b \in Bytes(pos) => ~Assigned(b)
    <3>1. CASE downloadRange
      <4>1. ranged /\ pos = 0 /\ main = "first" /\ main' = "range"
        BY <3>1 DEF downloadRange, PosInv
      <4>2. b \in Bytes(pos)
        BY <1>a, <4>1, BytesAre
      <4> QED
        BY <1>1, <4>1, <4>2 DEF Assigned
    <3>2. CASE getChunk
      <4>1. ~ranged /\ pos' = pos + PartSize
        BY <3>2 DEF getChunk, PosInv
      <4>2. b \in Bytes(pos) => b >= pos
        BY <1>a, BytesAre
      <4>3. b >= pos /\ b < pos + PartSize => b \in Bytes(pos)
        BY <1>a, <4>1, BytesAre
      <4> QED
        BY <1>a, <1>1, <4>1, <4>2, <4>3 DEF Assigned
    <3> QED
      BY <1>3, <3>1, <3>2
  <2>6. Clean' => Clean
    BY <1>a, <1>1, <2>1, <2>2 DEF Clean
  <2> QED
    BY <1>1, <2>4, <2>5, <2>6, CountKept
<1> QED
  BY <1>2, <1>3

\* A step counts no byte that is not there, and while nothing has failed it
\* leaves none of those it takes out of the queue behind.
LEMMA StepCount ==
    ASSUME ActsOK, NumbersOK, NumbersOK', ChannelOK, StageInv, PosInv, ErrInv, OrderInv, CopyInv, CountInv,
           Next
    PROVE  CountInv'
<1> USE Numbers
<1>a. act \in [Goroutines -> Acts] /\ start \in [Goroutines -> Nat] /\ ch \in Seq(Nat)
  BY DEF ActsOK, NumbersOK, ChannelOK
<1>1. CASE CallerMoves
  <2>1. UNCHANGED <<size, ranged, w, written, act, start, cause, ch>>
    BY <1>1 DEF CallerMoves, Refused, RangeDone, AssignChunk, CloseChannel, Wait, AloneDone, object, chunk
  <2>2. \A b \in 0 .. size - 1 : Assigned(b) => Assigned(b)'
    BY <1>1 DEF CallerMoves, Refused, RangeDone, AssignChunk, CloseChannel, Wait, AloneDone,
                object, Assigned, PosInv
  <2>3. \A b \in 0 .. size - 1 : Waiting(b)' => Waiting(b)
    BY <2>1, <2>2 DEF Waiting, Holds, Bytes, Length, Goroutines
  <2>4. CASE Refused
    <3>1. ~Clean'
      BY <2>4 DEF Refused, Clean
    <3> QED
      BY <2>1, <2>3, <3>1, CountKept
  <2>5. CASE ~Refused
    <3>1. \A b \in 0 .. size - 1 : Assigned(b)' => Assigned(b)
      BY <1>1, <2>5 DEF CallerMoves, RangeDone, AssignChunk, CloseChannel, Wait, AloneDone,
                        object, Assigned, PosInv
    <3>2. \A b \in 0 .. size - 1 : Waiting(b) => Waiting(b)'
      BY <2>1, <3>1 DEF Waiting, Holds, Bytes, Length, Goroutines
    <3>3. err' = err \/ (err' = "none" /\ err = "416") \/ err' \notin {"none", "416"}
      BY <1>1, <2>5 DEF CallerMoves, RangeDone, AssignChunk, CloseChannel, Wait, AloneDone, AloneError
    <3>4. err' \notin {"none", "416"} => err' = err
      BY <1>1, <2>5 DEF CallerMoves, RangeDone, AssignChunk, CloseChannel, Wait, AloneDone, AloneError
    <3>5. Clean' => Clean
      BY <2>1, <3>3, <3>4 DEF Clean
    <3> QED
      BY <2>1, <2>3, <3>2, <3>5, CountKept
  <2> QED
    BY <2>4, <2>5
<1>2. CASE downloadRange \/ getChunk \/ SendChunk
  BY <1>2, CutCount
<1>3. CASE Spawn
  <2>1. UNCHANGED <<size, ranged, pos, w, written, start, cause, ch, err>> /\ main # "first" /\ main' # "first"
    BY <1>3 DEF Spawn, object, chunk
  <2>2. \A p \in Goroutines : act[p] \in {"rest", "none"} /\ act'[p] \in {"rest", "none"}
    BY <1>3 DEF Spawn, AtRest, StageInv, Before
  <2>3. \A b \in 0 .. size - 1 : (Waiting(b)' => Waiting(b)) /\ (Waiting(b) => Waiting(b)')
    BY <2>1, <2>2 DEF Waiting, Assigned, Holds, Bytes, Length, Goroutines
  <2>4. Clean' => Clean
    BY <2>1, <2>2 DEF Clean
  <2> QED
    BY <2>1, <2>3, <2>4, CountKept
<1>4. ASSUME NEW p \in Goroutines, GetObject(p) \/ CopyBody(p) \/ setErr(p) PROVE CountInv'
  BY <1>4, ChunkCount
<1>5. ASSUME NEW p \in Goroutines, incrWritten(p) PROVE CountInv'
  BY <1>5, StepIncr
<1>6. ASSUME NEW p \in Workers, Receive(p) PROVE CountInv'
  <2>1. UNCHANGED <<size, ranged, main, pos, w, written, cause, err>> /\ act[p] = "rest"
    BY <1>6 DEF Receive, object
  <2>2. CASE /\ ch # <<>> /\ ch' = Tail(ch)
             /\ start' = [start EXCEPT ![p] = Head(ch)] /\ act' = [act EXCEPT ![p] = "check"]
    <3>1. /\ Len(ch) >= 1 /\ Len(ch') = Len(ch) - 1 /\ Len(ch) \in Nat
          /\ \A i \in 1 .. Len(ch') : ch'[i] = ch[i + 1] /\ i + 1 \in 1 .. Len(ch)
      BY <1>a, <2>2
    <3>2. /\ Holds(p)' /\ ~Holds(p) /\ start'[p] = ch[1]
          /\ \A q \in Goroutines : q # p => start'[q] = start[q] /\ act'[q] = act[q]
      BY <1>a, <2>1, <2>2 DEF Holds
    <3>3. ASSUME NEW b \in 0 .. size - 1 PROVE Waiting(b)' => Waiting(b)
      <4>1. CASE ~Assigned(b)'
        BY <2>1, <4>1 DEF Waiting, Assigned
      <4>2. CASE \E q \in Goroutines : Holds(q)' /\ b \in Bytes(start[q])'
        <5>1. PICK q \in Goroutines : Holds(q)' /\ b \in Bytes(start[q])'
          BY <4>2
        <5>2. CASE q = p
          <6>1. b \in Bytes(ch[1])
            BY <2>1, <3>2, <5>1, <5>2 DEF Bytes, Length
          <6> QED
            BY <3>1, <6>1 DEF Waiting
        <5>3. CASE q # p
          BY <2>1, <3>2, <5>1, <5>3 DEF Waiting, Holds, Bytes, Length
        <5> QED
          BY <5>2, <5>3
      <4>3. CASE \E i \in 1 .. Len(ch') : b \in Bytes(ch[i])'
        <5>1. PICK i \in 1 .. Len(ch') : b \in Bytes(ch[i])'
          BY <4>3
        <5>2. b \in Bytes(ch[i + 1])
          BY <2>1, <3>1, <5>1 DEF Bytes, Length
        <5> QED
          BY <3>1, <5>2 DEF Waiting
      <4> QED
        BY <4>1, <4>2, <4>3 DEF Waiting, Goroutines
    <3>4. ASSUME NEW b \in 0 .. size - 1 PROVE Waiting(b) => Waiting(b)'
      <4>1. CASE ~Assigned(b)
        BY <2>1, <4>1 DEF Waiting, Assigned
      <4>2. CASE \E q \in Goroutines : Holds(q) /\ b \in Bytes(start[q])
        BY <2>1, <3>2, <4>2 DEF Waiting, Holds, Bytes, Length, Goroutines
      <4>3. CASE \E i \in 1 .. Len(ch) : b \in Bytes(ch[i])
        <5>1. PICK i \in 1 .. Len(ch) : b \in Bytes(ch[i])
          BY <4>3
        <5>2. CASE i = 1
          <6>1. b \in Bytes(start[p])'
            BY <2>1, <3>2, <5>1, <5>2 DEF Bytes, Length
          <6> QED
            BY <3>2, <6>1 DEF Waiting, Goroutines
        <5>3. CASE i # 1
          <6>1. i - 1 \in 1 .. Len(ch') /\ ch'[i - 1] = ch[i]
            BY <3>1, <5>3
          <6> QED
            BY <2>1, <5>1, <6>1 DEF Waiting, Bytes, Length
        <5> QED
          BY <5>2, <5>3
      <4> QED
        BY <4>1, <4>2, <4>3 DEF Waiting
    <3>5. Clean' => Clean
      BY <1>a, <2>1, <2>2 DEF Clean
    <3> QED
      BY <2>1, <3>3, <3>4, <3>5, CountKept
  <2>3. CASE act' = [act EXCEPT ![p] = "ended"] /\ ch' = ch /\ start' = start
    <3>1. \A q \in Goroutines : (Holds(q)' => Holds(q)) /\ (Holds(q) => Holds(q)')
      BY <1>a, <2>1, <2>3 DEF Holds
    <3>2. \A b \in 0 .. size - 1 : (Waiting(b)' => Waiting(b)) /\ (Waiting(b) => Waiting(b)')
      BY <2>1, <2>3, <3>1 DEF Waiting, Assigned, Bytes, Length, Goroutines
    <3>3. Clean' => Clean
      BY <1>a, <2>1, <2>3 DEF Clean
    <3> QED
      BY <2>1, <3>2, <3>3, CountKept
  <2> QED
    BY <1>6, <2>2, <2>3 DEF Receive
<1>7. ASSUME NEW p \in Workers, CheckErr(p) PROVE CountInv'
  <2>0. start' = start
    BY <1>7, <1>a DEF CheckErr, Begin, chunk
  <2>a. \A q \in Goroutines : q # p => act'[q] = act[q] /\ cause'[q] = cause[q]
    BY <1>7, <1>a DEF CheckErr, Begin, chunk, ActsOK
  <2>1. /\ UNCHANGED <<size, ranged, main, pos, w, written, ch, start, err>> /\ act[p] = "check"
        /\ \A q \in Goroutines : q # p => act'[q] = act[q] /\ cause'[q] = cause[q]
    BY <1>7, <2>0, <2>a DEF CheckErr, object
  <2>2. \A q \in Goroutines : Holds(q)' => Holds(q)
    BY <2>1 DEF Holds
  <2>3. \A b \in 0 .. size - 1 : Waiting(b)' => Waiting(b)
    BY <2>1, <2>2 DEF Waiting, Assigned, Bytes, Length, Goroutines
  <2>4. CASE act' = [act EXCEPT ![p] = "get"]
    <3>1. \A q \in Goroutines : Holds(q) => Holds(q)'
      BY <1>a, <2>4 DEF Holds
    <3>2. \A b \in 0 .. size - 1 : Waiting(b) => Waiting(b)'
      BY <2>1, <3>1 DEF Waiting, Assigned, Bytes, Length, Goroutines
    <3>3. Clean' => Clean
      BY <1>a, <2>1, <2>4 DEF Clean
    <3> QED
      BY <2>1, <2>3, <3>2, <3>3, CountKept
  <2>5. CASE err # "none"
    <3>1. main \in During
      BY <2>1, OneSide, Numbers DEF StageInv
    <3>2. err # "416"
      BY <3>1 DEF ErrInv, During
    <3>3. ~Clean'
      BY <2>1, <2>5, <3>2 DEF Clean
    <3> QED
      BY <2>1, <2>3, <3>3, CountKept
  <2> QED
    BY <1>7, <2>4, <2>5 DEF CheckErr, Begin
<1> QED
  BY <1>1, <1>2, <1>3, <1>4, <1>5, <1>6, <1>7, StepCases

-----------------------------------------------------------------------------

\* It holds at the beginning.
LEMMA InitIInv == Init => IInv
<1> SUFFICES ASSUME Init PROVE IInv
  OBVIOUS
<1> USE Numbers DEF Init
<1>1. TypeOK
  <2>1. ActsOK
    BY DEF ActsOK, Acts, Causes
  <2>2. NumbersOK
    BY DEF NumbersOK
  <2>3. ChannelOK /\ WriterOK
    BY DEF ChannelOK, WriterOK
  <2> QED
    BY <2>1, <2>2, <2>3, TypeParts
<1>2. size \in Nat /\ NumbersOK
  BY <1>1, TypeParts DEF NumbersOK
<1>3. \A p \in Goroutines : act[p] \in {"rest", "none"}
  OBVIOUS
<1>4. StageInv
  BY DEF StageInv, Before, During
<1>5. PosInv
  BY <1>2 DEF PosInv
<1>6. ErrInv
  BY <1>3 DEF ErrInv, Holds
<1>7. OrderInv
  BY <1>3 DEF OrderInv, Holds
<1>8. Copied = {}
  BY DEF Copied
<1>9. CopyInv
  BY <1>3, <1>8 DEF CopyInv
<1>10. CountInv
  <2>1. Settled = {}
    BY <1>8 DEF Settled
  <2>2. \A b \in 0 .. size - 1 : Waiting(b)
    BY DEF Waiting, Assigned
  <2> QED
    BY <2>1, <2>2, FS_EmptySet DEF CountInv
<1> QED
  BY <1>1, <1>4, <1>5, <1>6, <1>7, <1>9, <1>10 DEF IInv

\* Every step keeps it.
LEMMA NextIInv == IInv /\ [Next]_vars => IInv'
<1> SUFFICES ASSUME IInv, [Next]_vars PROVE IInv'
  OBVIOUS
<1>1. /\ ActsOK /\ NumbersOK /\ ChannelOK /\ WriterOK
      /\ StageInv /\ PosInv /\ ErrInv /\ OrderInv /\ CopyInv /\ CountInv
  BY TypeParts DEF IInv
<1>2. CASE Next
  <2>1. ActsOK' /\ NumbersOK' /\ ChannelOK' /\ WriterOK'
    BY <1>1, <1>2, StepActs, StepNumbers, StepChannel, StepWriter
  <2>2. StageInv' /\ PosInv' /\ ErrInv'
    BY <1>1, <1>2, StepStage, StepPos, StepErr
  <2>3. OrderInv' /\ CopyInv' /\ CountInv'
    BY <1>1, <1>2, <2>1, StepOrder, StepCopy, StepCount
  <2>4. TypeOK'
    BY <2>1 DEF TypeOK, ActsOK, NumbersOK, ChannelOK, WriterOK, Acts, Causes, Goroutines, Concurrency
  <2> QED
    BY <2>2, <2>3, <2>4 DEF IInv
<1>3. CASE UNCHANGED vars
  <2>1. UNCHANGED <<size, ranged, told, main, pos, total, ch, closed, act, start, cur, retry, count, cause,
                    err, written, w>>
    BY <1>3 DEF vars, object, chunk
  <2>2. TypeOK'
    BY <1>1, <2>1 DEF TypeOK, ActsOK, NumbersOK, ChannelOK, WriterOK, Acts, Causes, Goroutines, Concurrency
  <2>3. StageInv' /\ PosInv' /\ ErrInv' /\ OrderInv'
    BY <1>1, <2>1 DEF StageInv, PosInv, ErrInv, OrderInv, Holds, Goroutines
  <2>4. CopyInv'
    BY <1>1, <2>1 DEF CopyInv, Copied, Length, Goroutines
  <2>5. CountInv'
    BY <1>1, <2>1 DEF CountInv, Copied, Settled, Waiting, Assigned, Holds, Bytes, Length, Clean, Goroutines
  <2> QED
    BY <2>2, <2>3, <2>4, <2>5 DEF IInv
<1> QED
  BY <1>2, <1>3

\* The inductive invariant holds in every download.
THEOREM DownloadInvariant == Spec => []IInv
  BY InitIInv, NextIInv, PTL DEF Spec

\* The variables keep their types in every download.
THEOREM DownloadTypeCorrect == Spec => []TypeOK
<1>1. IInv => TypeOK
  BY DEF IInv
<1> QED
  BY <1>1, DownloadInvariant, PTL

\* When the call returns no worker of downloadPart will write to the WriterAt
\* any more, whatever failed.
THEOREM NoWriteAfterReturn == Spec => []QuietAtEnd
<1>1. IInv => QuietAtEnd
  BY DEF IInv, StageInv, QuietAtEnd
<1> QED
  BY <1>1, DownloadInvariant, PTL

\* To run off the end of the object is no error of a download without a range,
\* be the object empty or of unknown size.
THEOREM EndReached == Spec => []EndIsNoError
<1>1. IInv => EndIsNoError
  BY DEF IInv, ErrInv, EndIsNoError
<1> QED
  BY <1>1, DownloadInvariant, PTL

\* A download without an error has written each byte of the object at its
\* offset, and returns its size, for any number of workers and retries and any
\* size of the parts.
THEOREM ObjectComplete == Spec => []WholeObject
<1>1. IInv => WholeObject
  <2> SUFFICES ASSUME IInv, main = "done", err = "none"
               PROVE  w = {<<b, b>> : b \in 0 .. size - 1} /\ written = size
    BY DEF WholeObject
  <2>1. NumbersOK /\ size \in Nat /\ pos \in Nat
    BY TypeParts DEF IInv, NumbersOK
  <2>2. ch = <<>> /\ \A p \in Goroutines : act[p] \in {"none", "rest", "ended"}
    BY Numbers DEF IInv, StageInv
  <2>3. Clean
    BY <2>2 DEF Clean
  <2>4. ~ranged => pos >= size
    BY DEF IInv, PosInv
  <2>5. \A b \in 0 .. size - 1 : ~Waiting(b)
    BY <2>1, <2>2, <2>4 DEF Waiting, Assigned, Holds
  <2>6. Copied = 0 .. size - 1 /\ Settled = 0 .. size - 1
    BY <2>3, <2>5 DEF IInv, CountInv, Copied, Settled
  <2>7. w = {<<b, b>> : b \in Copied} /\ written = Cardinality(Settled)
    BY <2>3 DEF IInv, CopyInv, CountInv
  <2>8. Cardinality(0 .. size - 1) = size
    <3>1. PICK e \in Int : e = size - 1
      BY <2>1
    <3>2. Cardinality(0 .. e) = IF 0 > e THEN 0 ELSE e - 0 + 1
      BY FS_Interval
    <3> QED
      BY <2>1, <3>1, <3>2
  <2> QED
    BY <2>6, <2>7, <2>8
<1> QED
  BY <1>1, DownloadInvariant, PTL

\* The count that is returned with an error is of bytes that are in w.
THEOREM CountIsHonest == Spec => []CountedIsWritten
<1>1. IInv => CountedIsWritten
  <2> SUFFICES ASSUME IInv PROVE written <= Cardinality(w)
    BY DEF CountedIsWritten
  <2>1. NumbersOK /\ written \in Nat
    BY TypeParts DEF IInv, NumbersOK
  <2>2. /\ IsFiniteSet(Copied) /\ Cardinality(Copied) \in Nat /\ Cardinality(Settled) \in Nat
        /\ Cardinality(Settled) <= Cardinality(Copied)
    BY <2>1, Finite
  <2>3. w = {<<b, b>> : b \in Copied} /\ written <= Cardinality(Settled)
    BY DEF IInv, CopyInv, CountInv
  <2> DEFINE f == [b \in Copied |-> <<b, b>>]
  <2>4. f \in [Copied -> w] /\ \A x \in w : \E b \in Copied : f[b] = x
    BY <2>3
  <2>5. f \in Surjection(Copied, w)
    BY <2>4 DEF Surjection
  <2>6. f \in Injection(Copied, w)
    BY <2>4 DEF Injection, IsInjective
  <2>7. Cardinality(w) = Cardinality(Copied)
    BY <2>2, <2>5, <2>6, FS_Surjection
  <2> QED
    BY <2>1, <2>2, <2>3, <2>7
<1> QED
  BY <1>1, DownloadInvariant, PTL
=============================================================================
