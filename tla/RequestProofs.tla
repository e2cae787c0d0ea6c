--------------------------- MODULE RequestProofs ---------------------------
(***************************************************************************)
(* What holds of Request for every body, any number of retries and any     *)
(* number of hops. The invariants of the run are not inductive: that a     *)
(* request starts at the start needs to know that at most the newest       *)
(* offsetReader is open and that the reader of the caller stands where it  *)
(* left off; that it is whole needs the same of the end.                   *)
(***************************************************************************)
EXTENDS Request, FiniteSetTheorems, TLAPS

\* prepareRetry is about to make an offsetReader.
Preparing == pc \in {"close", "rewind"} /\ ~inDo

\* Each offsetReader after the first was made for a retry or for a hop.
ReadersCounted ==
    /\ IsFiniteSet(hops) /\ Cardinality(hops) <= MaxHops
    /\ reader <= 1 + retryCount + Cardinality(hops)
    /\ Preparing => reader <= retryCount + Cardinality(hops)
    /\ pc \in {"close", "rewind"} /\ inDo => Cardinality(hops) < MaxHops

\* Each try after the first was made for a retry.
TriesCounted ==
    /\ retryCount <= MaxRetries
    /\ tries <= retryCount + 1
    /\ pc \in {"sign", "send"} \/ Preparing => tries <= retryCount
    /\ pc = "sleep" => retryCount < MaxRetries
    /\ ~body.seekable /\ ~NoBody => retryCount = 0 /\ pc # "sleep" /\ ~Preparing

\* The offsetReader o sends the body from its start.
Rewound(o) == body.seekable \/ o \notin hops

\* Only the newest offsetReader may be open, and while it is, the reader of the
\* caller stands behind what was read from it.
OneOpen ==
    /\ body.start <= pos
    /\ \A o \in 1 .. reader : o \in closed \/ o = reader
    /\ \A o \in Readers : o > reader => sent[o] = <<>>
    /\ pc = "rewind" => reader \in closed
    /\ pc \in {"sign", "send"} => reader \notin closed /\ reader \notin reading
    /\ reader \notin closed /\ Rewound(reader) => pos = body.start + Len(sent[reader])

\* In Do the transport has either an open reader or the whole body.
WholeOrOpen ==
    /\ pc = "do" /\ reader \in reading => reader \notin closed
    /\ pc = "do" /\ reader \notin reading /\ Rewound(reader) =>
           Len(sent[reader]) = ToSend
    /\ NoBody => reading = {} /\ pos = body.start
    /\ pc = "done" /\ err = "none" => reader \notin reading

\* What Send does with an error, and with a context that is done.
ErrorKept ==
    /\ pc \in {"retry", "sleep"} => err # "none"
    /\ late => cancelled /\ pc \in {"do", "retry", "done"}
    /\ late /\ pc = "retry" => err = "canceled"

IInv ==
    /\ TypeOK /\ ReadersCounted /\ TriesCounted /\ OneOpen /\ WholeOrOpen /\ ErrorKept
    /\ EachTryFromTheStart /\ AcceptedIsWhole

USE RequestAssumption

\* A sequence with one more element.
LEMMA AppendOne ==
    ASSUME NEW S, NEW s \in Seq(S), NEW x \in S
    PROVE  /\ Append(s, x) \in Seq(S) /\ Len(Append(s, x)) = Len(s) + 1 /\ Len(s) \in Nat
           /\ \A i \in 1 .. Len(s) : Append(s, x)[i] = s[i]
           /\ Append(s, x)[Len(s) + 1] = x
  OBVIOUS

LEMMA InitIInv == Init => IInv
<1> SUFFICES ASSUME Init PROVE IInv
  OBVIOUS
<1>1. body \in Body /\ body.start <= body.size
  BY DEF Init
<1>2. 1 \in Readers /\ Readers \subseteq Nat
  BY DEF Readers
<1>3. TypeOK
  <2>1. sent \in [Readers -> Seq(1 .. body.size)]
    BY DEF Init
  <2>2. pos \in 0 .. body.size
    BY <1>1 DEF Init, Body
  <2> QED
    BY <1>2, <2>1, <2>2 DEF Init, TypeOK, Errors
<1>4. IsFiniteSet(hops) /\ Cardinality(hops) = 0
  BY FS_EmptySet DEF Init
<1>5. ReadersCounted /\ TriesCounted /\ ErrorKept
  BY <1>4 DEF Init, ReadersCounted, TriesCounted, ErrorKept, Preparing
<1>6. OneOpen /\ WholeOrOpen /\ EachTryFromTheStart /\ AcceptedIsWhole
  BY <1>1, <1>2 DEF Init, OneOpen, WholeOrOpen, EachTryFromTheStart, AcceptedIsWhole,
                    Rewound, FromTheStart, NoBody, ToSend, Body
<1> QED
  BY <1>3, <1>5, <1>6 DEF IInv

LEMMA NextIInv == IInv /\ [Next]_vars => IInv'
<1> SUFFICES ASSUME IInv, [Next]_vars PROVE IInv'
  OBVIOUS
<1>b. /\ body.start <= body.size /\ body.seekable \in BOOLEAN
      /\ body.start \in Nat /\ body.size \in Nat /\ NoBody \in BOOLEAN
  BY DEF IInv, TypeOK, Body, NoBody
<1>r. Readers \subseteq Nat
  BY DEF Readers
<1>c. Cardinality(hops) \in Nat
  BY FS_CardinalityType DEF IInv, ReadersCounted
<1> USE <1>b, <1>r, <1>c DEF IInv
<1>1. CASE UNCHANGED vars
  BY <1>1 DEF vars, offsetReaders, transport, counts, TypeOK, ReadersCounted, TriesCounted,
              OneOpen, WholeOrOpen, ErrorKept, EachTryFromTheStart, AcceptedIsWhole,
              Preparing, Rewound, FromTheStart, NoBody, ToSend
<1>2. ASSUME Sign PROVE IInv'
  BY <1>2 DEF Sign, Goto, Fails, offsetReaders, transport, counts, TypeOK, ReadersCounted,
              TriesCounted, OneOpen, WholeOrOpen, ErrorKept, EachTryFromTheStart,
              AcceptedIsWhole, Preparing, Rewound, FromTheStart, NoBody, ToSend, Errors
<1>3. ASSUME SendHandlers PROVE IInv'
  <2>1. TypeOK' /\ ErrorKept'
    <3>1. reading' \subseteq 1 .. reader /\ tries' \in Nat /\ err' \in Errors
      BY <1>3 DEF SendHandlers, TypeOK, Errors, Readers
    <3> QED
      BY <1>3, <3>1 DEF SendHandlers, Goto, offsetReaders, TypeOK, ErrorKept
  <2>4. ReadersCounted' /\ TriesCounted'
    BY <1>3 DEF SendHandlers, Goto, offsetReaders, TypeOK, ReadersCounted, TriesCounted,
                Preparing, NoBody
  <2>2. OneOpen' /\ EachTryFromTheStart' /\ AcceptedIsWhole'
    BY <1>3 DEF SendHandlers, Goto, offsetReaders, OneOpen, EachTryFromTheStart,
                AcceptedIsWhole, Rewound, FromTheStart
  <2>3. WholeOrOpen'
    BY <1>3 DEF SendHandlers, Goto, offsetReaders, TypeOK, OneOpen, WholeOrOpen, Rewound,
                NoBody, ToSend
  <2> QED BY <2>1, <2>2, <2>3, <2>4
<1>4. ASSUME DoFails PROVE IInv'
  BY <1>4 DEF DoFails, SendError, Goto, Fails, offsetReaders, transport, counts, TypeOK,
              ReadersCounted, TriesCounted, OneOpen, WholeOrOpen, ErrorKept,
              EachTryFromTheStart, AcceptedIsWhole, Preparing, Rewound, FromTheStart,
              NoBody, ToSend, Errors
<1>5. ASSUME Answered PROVE IInv'
  BY <1>5 DEF Answered, Goto, Fails, offsetReaders, transport, counts, TypeOK,
              ReadersCounted, TriesCounted, OneOpen, WholeOrOpen, ErrorKept,
              EachTryFromTheStart, AcceptedIsWhole, Preparing, Rewound, FromTheStart,
              NoBody, ToSend, Errors
<1>6. ASSUME Accepted PROVE IInv'
  <2>1. TypeOK' /\ ReadersCounted' /\ TriesCounted' /\ ErrorKept' /\ OneOpen'
    BY <1>6 DEF Accepted, Goto, Fails, offsetReaders, transport, counts, TypeOK,
                ReadersCounted, TriesCounted, OneOpen, ErrorKept, Preparing, Rewound, NoBody,
                Errors
  <2>2. WholeOrOpen' /\ EachTryFromTheStart' /\ AcceptedIsWhole'
    BY <1>6 DEF Accepted, Goto, Fails, offsetReaders, transport, WholeOrOpen,
                EachTryFromTheStart, AcceptedIsWhole, Rewound, FromTheStart, NoBody, ToSend
  <2> QED BY <2>1, <2>2
<1>7. ASSUME Hop PROVE IInv'
  BY <1>7 DEF Hop, offsetReaders, transport, counts, TypeOK, ReadersCounted, TriesCounted,
              OneOpen, WholeOrOpen, ErrorKept, EachTryFromTheStart, AcceptedIsWhole,
              Preparing, Rewound, FromTheStart, NoBody, ToSend
<1>8. ASSUME AfterRetry PROVE IInv'
  <2>1. PICK retryable \in ShouldRetry(err) :
            Goto(IF WillRetry(retryable) THEN "sleep" ELSE "done")
    BY <1>8 DEF AfterRetry
  <2>2. err = "canceled" => ~WillRetry(retryable)
    BY <2>1 DEF ShouldRetry, WillRetry
  <2> QED
    BY <1>8, <2>1, <2>2 DEF AfterRetry, WillRetry, Goto, offsetReaders, transport, counts,
              TypeOK, ReadersCounted, TriesCounted, OneOpen, WholeOrOpen, ErrorKept,
              EachTryFromTheStart, AcceptedIsWhole, Preparing, Rewound, FromTheStart,
              NoBody, ToSend
<1>9. ASSUME Sleep PROVE IInv'
  <2>1. TypeOK'
    <3>1. retryCount' \in Nat /\ pc' = "close" /\ inDo' = FALSE /\ err' \in Errors
      BY <1>9 DEF Sleep, TypeOK, Errors
    <3>2. UNCHANGED <<body, pos, reader, closed, hops, reading, sent, tries, cancelled, late>>
      BY <1>9 DEF Sleep, offsetReaders, transport
    <3> QED
      BY <3>1, <3>2 DEF TypeOK
  <2>6. ErrorKept'
    <3>1. ~late
      BY <1>9 DEF Sleep, ErrorKept
    <3> QED
      BY <1>9, <3>1 DEF Sleep, ErrorKept
  <2>4. TriesCounted'
    BY <1>9 DEF Sleep, offsetReaders, transport, TypeOK, TriesCounted, Preparing, NoBody
  <2>5. ReadersCounted'
    BY <1>9 DEF Sleep, offsetReaders, transport, TypeOK, ReadersCounted, Preparing
  <2>2. OneOpen' /\ WholeOrOpen'
    BY <1>9 DEF Sleep, offsetReaders, transport, OneOpen, WholeOrOpen, Rewound, NoBody, ToSend
  <2>3. EachTryFromTheStart' /\ AcceptedIsWhole'
    BY <1>9 DEF Sleep, offsetReaders, transport, EachTryFromTheStart, AcceptedIsWhole,
                FromTheStart
  <2> QED BY <2>1, <2>2, <2>3, <2>4, <2>5, <2>6
<1>10. ASSUME SleepCancelled PROVE IInv'
  BY <1>10 DEF SleepCancelled, Goto, Fails, offsetReaders, transport, counts, TypeOK,
               ReadersCounted, TriesCounted, OneOpen, WholeOrOpen, ErrorKept,
               EachTryFromTheStart, AcceptedIsWhole, Preparing, Rewound, FromTheStart,
               NoBody, ToSend, Errors
<1>11. ASSUME CloseBody PROVE IInv'
  <2>1. closed' \subseteq 1 .. reader /\ closed' = closed \cup {reader}
    BY <1>11 DEF CloseBody, TypeOK, Readers
  <2>2. TypeOK' /\ ErrorKept'
    BY <1>11, <2>1 DEF CloseBody, Goto, transport, counts, TypeOK, ErrorKept
  <2>3. ReadersCounted' /\ TriesCounted'
    BY <1>11 DEF CloseBody, Goto, counts, ReadersCounted, TriesCounted, Preparing, NoBody
  <2>4. OneOpen' /\ WholeOrOpen'
    BY <1>11, <2>1 DEF CloseBody, Goto, transport, OneOpen, WholeOrOpen, Rewound, NoBody, ToSend
  <2>5. EachTryFromTheStart' /\ AcceptedIsWhole'
    BY <1>11 DEF CloseBody, Goto, transport, EachTryFromTheStart, AcceptedIsWhole, FromTheStart
  <2> QED BY <2>2, <2>3, <2>4, <2>5
<1>12. ASSUME NewReader PROVE IInv'
  <2>1. /\ pc = "rewind" /\ reader' = reader + 1 /\ pos' = SeekStart
        /\ UNCHANGED <<body, closed, sent, err, retryCount, tries, cancelled, late>>
    BY <1>12 DEF NewReader, counts
  <2>2. reader \in Nat /\ hops \subseteq 2 .. reader /\ reader + 1 \notin hops
    BY DEF TypeOK
  <2>3. /\ IsFiniteSet(hops')
        /\ Cardinality(hops') = IF inDo THEN Cardinality(hops) + 1 ELSE Cardinality(hops)
    BY <1>12, <2>2, FS_AddElement DEF NewReader, ReadersCounted
  <2>4. ReadersCounted' /\ TriesCounted' /\ ErrorKept'
    BY <1>12, <2>1, <2>3 DEF NewReader, Goto, TypeOK, ReadersCounted, TriesCounted, ErrorKept,
                             Preparing, NoBody
  <2>5. reader' \in Readers
    BY <2>1, <2>2, <2>4, <1>12, <2>3 DEF ReadersCounted, TriesCounted, Readers, TypeOK
  <2>6. TypeOK'
    BY <1>12, <2>1, <2>2, <2>5 DEF NewReader, SeekStart, Goto, TypeOK, OneOpen
  <2>7. OneOpen'
    BY <1>12, <2>1, <2>2, <2>5 DEF NewReader, SeekStart, Goto, TypeOK, OneOpen, TriesCounted,
                                   WholeOrOpen, Preparing, Rewound
  <2>8. sent[reader + 1] = <<>>
    BY <2>1, <2>2, <2>5 DEF OneOpen
  <2>9. WholeOrOpen'
    <3>1. pc' # "done" /\ (pc' = "do" => inDo)
      BY <1>12 DEF NewReader, Goto
    <3>2. reader + 1 \notin closed /\ reader + 1 \notin reading
      BY <2>2 DEF TypeOK
    <3>3. NoBody => reading' = {} /\ pos' = body.start
      BY <1>12, <2>1 DEF NewReader, SeekStart, WholeOrOpen
    <3>4. inDo /\ ~NoBody => reader + 1 \in reading'
      BY <1>12, <2>1 DEF NewReader
    <3>5. NoBody => Len(sent[reader + 1]) = ToSend
      BY <2>8 DEF ToSend
    <3> QED
      BY <2>1, <3>1, <3>2, <3>3, <3>4, <3>5 DEF WholeOrOpen, NoBody, ToSend
  <2>10. EachTryFromTheStart'
    BY <1>12, <2>1, <2>2, <2>8 DEF NewReader, EachTryFromTheStart, FromTheStart, TypeOK
  <2>11. AcceptedIsWhole'
    BY <1>12 DEF NewReader, Goto, AcceptedIsWhole
  <2> QED BY <2>4, <2>6, <2>7, <2>9, <2>10, <2>11
<1>13. ASSUME SeekFails PROVE IInv'
  BY <1>13 DEF SeekFails, SendError, Goto, Fails, offsetReaders, transport, counts, TypeOK,
               ReadersCounted, TriesCounted, OneOpen, WholeOrOpen, ErrorKept,
               EachTryFromTheStart, AcceptedIsWhole, Preparing, Rewound, FromTheStart,
               NoBody, ToSend, Errors
<1>14. ASSUME NEW o \in Readers, Read(o) PROVE IInv'
  <2>1. /\ o = reader /\ o \in reading /\ o \notin closed /\ pos < body.size
        /\ sent' = [sent EXCEPT ![o] = Append(sent[o], pos + 1)] /\ pos' = pos + 1
        /\ UNCHANGED <<body, reader, closed, hops, reading, pc, inDo, err, retryCount, tries,
                       cancelled, late>>
    BY <1>14 DEF Read, OneOpen, TypeOK, counts
  <2>2. /\ sent[o] \in Seq(1 .. body.size) /\ pos + 1 \in 1 .. body.size
        /\ sent'[o] = Append(sent[o], pos + 1)
        /\ \A p \in Readers : p # o => sent'[p] = sent[p]
    BY <2>1 DEF TypeOK
  <2>3. /\ sent'[o] \in Seq(1 .. body.size)
        /\ Len(sent'[o]) = Len(sent[o]) + 1 /\ Len(sent[o]) \in Nat
        /\ \A i \in 1 .. Len(sent[o]) : sent'[o][i] = sent[o][i]
        /\ sent'[o][Len(sent[o]) + 1] = pos + 1
    BY <2>2, AppendOne
  <2>4. TypeOK' /\ ReadersCounted' /\ TriesCounted' /\ ErrorKept'
    BY <2>1, <2>2, <2>3 DEF TypeOK, ReadersCounted, TriesCounted, ErrorKept, Preparing,
                          NoBody
  <2>5. OneOpen'
    <3>1. Rewound(reader) => pos' = body.start + Len(sent'[reader])
      <4>1. Rewound(reader) => pos = body.start + Len(sent[o])
        BY <2>1 DEF OneOpen
      <4>2. Len(sent'[reader]) = Len(sent[o]) + 1 /\ Len(sent[o]) \in Nat
        BY <2>1, <2>3
      <4> QED
        BY <2>1, <4>1, <4>2
    <3>2. body.start <= pos'
      BY <2>1 DEF OneOpen, TypeOK
    <3>3. \A p \in Readers : p > reader => sent'[p] = <<>>
      BY <2>1, <2>2 DEF OneOpen, TypeOK
    <3> QED
      BY <2>1, <3>1, <3>2, <3>3 DEF OneOpen, Rewound
  <2>6. EachTryFromTheStart'
    <3>1. ASSUME Rewound(o), NEW i \in 1 .. Len(sent'[o])
          PROVE  sent'[o][i] = body.start + i
      <4>1. FromTheStart(sent[o]) /\ pos = body.start + Len(sent[o])
        BY <2>1, <3>1 DEF EachTryFromTheStart, OneOpen, Rewound
      <4>2. CASE i \in 1 .. Len(sent[o])
        BY <2>3, <4>1, <4>2 DEF FromTheStart
      <4>3. CASE i = Len(sent[o]) + 1
        BY <2>3, <4>1, <4>3 DEF TypeOK
      <4> QED
        BY <2>3, <3>1, <4>2, <4>3
    <3> QED
      BY <2>1, <2>2, <3>1 DEF EachTryFromTheStart, FromTheStart, Rewound
  <2>7. WholeOrOpen' /\ AcceptedIsWhole'
    BY <2>1, <2>2, <2>3 DEF WholeOrOpen, AcceptedIsWhole, Rewound, NoBody, ToSend
  <2> QED BY <2>4, <2>5, <2>6, <2>7
<1>15. ASSUME NEW o \in Readers, ReadEOF(o) PROVE IInv'
  <2>1. /\ o \in reading /\ (o \in closed \/ pos = body.size)
        /\ reading' = reading \ {o} /\ closed' = closed \cup {o}
        /\ UNCHANGED <<body, pos, reader, hops, sent, pc, inDo, err, retryCount, tries,
                       cancelled, late>>
    BY <1>15 DEF ReadEOF, counts
  <2>2. TypeOK' /\ ReadersCounted' /\ TriesCounted' /\ ErrorKept'
    BY <2>1 DEF TypeOK, ReadersCounted, TriesCounted, ErrorKept, Preparing, NoBody
  <2>3. OneOpen' /\ EachTryFromTheStart' /\ AcceptedIsWhole'
    BY <2>1 DEF OneOpen, EachTryFromTheStart, AcceptedIsWhole, FromTheStart, Rewound, TypeOK,
                NoBody, ToSend
  <2>4. WholeOrOpen'
    BY <2>1 DEF WholeOrOpen, OneOpen, Rewound, TypeOK, NoBody, ToSend
  <2> QED BY <2>2, <2>3, <2>4
<1>16. ASSUME Cancel PROVE IInv'
  BY <1>16 DEF Cancel, offsetReaders, transport, counts, TypeOK, ReadersCounted, TriesCounted,
               OneOpen, WholeOrOpen, ErrorKept, EachTryFromTheStart, AcceptedIsWhole,
               Preparing, Rewound, FromTheStart, NoBody, ToSend
<1> QED
  BY <1>1, <1>2, <1>3, <1>4, <1>5, <1>6, <1>7, <1>8, <1>9, <1>10, <1>11, <1>12, <1>13, <1>14,
     <1>15, <1>16 DEF Next, Send, Transport

THEOREM SendInvariant == Spec => []IInv
  BY InitIInv, NextIInv, PTL DEF Spec

\* Every variable of a request keeps its type, and the offsetReaders of a call
\* of Send are never more than one for each try and each hop.
THEOREM RequestTypeCorrect == Spec => []TypeOK
  BY SendInvariant, PTL DEF IInv

\* For any body, any number of retries and hops, and whatever the goroutines of
\* earlier tries still read, every request that is written sends the body from
\* its start, in order.
THEOREM NoTornRequest == Spec => []EachTryFromTheStart
  BY SendInvariant, PTL DEF IInv

\* Send returns no error only if the whole body was sent.
THEOREM NoShortRequest == Spec => []AcceptedIsWhole
  BY SendInvariant, PTL DEF IInv

\* There is one try, and one more for each retry the retryer allows.
THEOREM NoTryTooMany == Spec => []TriesBounded
<1>1. IInv => TriesBounded
  BY DEF IInv, TypeOK, TriesCounted, TriesBounded
<1> QED
  BY <1>1, SendInvariant, PTL

\* After a try that began with a context that was done there is no other.
THEOREM NoTryAfterCancel == Spec => CancelIsFinal
<1>1. IInv /\ [Next]_vars => [late => tries' = tries]_vars
  <2> SUFFICES ASSUME IInv, Next, late PROVE tries' = tries
    OBVIOUS
  <2>1. pc # "send"
    BY DEF IInv, ErrorKept
  <2> QED
    BY <2>1 DEF Next, Send, Transport, Sign, SendHandlers, DoFails, Answered, Accepted, Hop,
                AfterRetry, Sleep, SleepCancelled, CloseBody, NewReader, SeekFails, Read,
                ReadEOF, Cancel, counts
<1> QED
  BY <1>1, SendInvariant, PTL DEF Spec, CancelIsFinal

-----------------------------------------------------------------------------
(* Send ends. *)

\* How far a place is from the end of its turn of the loop.
Place ==
    CASE pc = "close"  -> IF inDo THEN 4 ELSE 9
      [] pc = "rewind" -> IF inDo THEN 3 ELSE 8
      [] pc = "sign"   -> 7
      [] pc = "send"   -> 6
      [] pc = "do"     -> 5
      [] pc = "retry"  -> 2
      [] pc = "sleep"  -> 1
      [] OTHER         -> 0

\* What Send may still do: retries, bodies that net/http may ask for, and the
\* rest of the turn.
Left == 9 * (MaxRetries - retryCount) + 3 * (MaxHops - Cardinality(hops)) + Place

\* Each step of Send leaves less of it, and nothing that net/http reads or the
\* caller cancels adds to it.
SendGetsOn == [][IF pc' = pc THEN Left' = Left ELSE Left' < Left]_vars

\* The parts of Left are numbers.
LEMMA LeftFacts ==
    ASSUME IInv
    PROVE  /\ Cardinality(hops) \in Nat /\ MaxHops - Cardinality(hops) \in Nat
           /\ retryCount \in Nat /\ MaxRetries - retryCount \in Nat
           /\ Place \in Nat /\ Left \in Nat
<1>1. /\ Cardinality(hops) \in Nat /\ MaxHops - Cardinality(hops) \in Nat
      /\ retryCount \in Nat /\ MaxRetries - retryCount \in Nat
  BY FS_CardinalityType DEF IInv, ReadersCounted, TriesCounted, TypeOK
<1>2. Place \in Nat
  BY DEF Place
<1> QED
  BY <1>1, <1>2 DEF Left

LEMMA NextLeft ==
    ASSUME IInv, Next
    PROVE  IF pc' = pc THEN Left' = Left ELSE Left' < Left
<1>1. /\ Cardinality(hops) \in Nat /\ retryCount \in Nat /\ Place \in Nat /\ inDo \in BOOLEAN
      /\ IsFiniteSet(hops) /\ hops \subseteq 2 .. reader /\ reader \in Nat
  BY LeftFacts DEF IInv, ReadersCounted, TypeOK, Readers
<1>2. CASE Transport \/ Cancel
  BY <1>2 DEF Transport, Cancel, Read, ReadEOF, offsetReaders, counts, Left, Place
<1>3. CASE Sign \/ SendHandlers \/ DoFails \/ Answered \/ Accepted \/ Hop
  <2>1. UNCHANGED <<hops, retryCount>>
    BY <1>3 DEF Sign, SendHandlers, DoFails, Answered, Accepted, Hop, offsetReaders, counts
  <2>2. pc' # pc /\ Place' \in Nat /\ Place' < Place
    BY <1>3 DEF Sign, SendHandlers, DoFails, Answered, Accepted, Hop, Goto, Fails, Place
  <2> QED
    BY <1>1, <2>1, <2>2 DEF Left
<1>4. CASE AfterRetry \/ SleepCancelled \/ CloseBody \/ SeekFails
  <2>1. UNCHANGED <<hops, retryCount>>
    BY <1>4 DEF AfterRetry, SleepCancelled, CloseBody, SeekFails, offsetReaders, counts
  <2>2. pc' # pc /\ Place' \in Nat /\ Place' < Place
    BY <1>1, <1>4 DEF AfterRetry, SleepCancelled, CloseBody, SeekFails, Goto, Fails, Place
  <2> QED
    BY <1>1, <2>1, <2>2 DEF Left
<1>5. CASE Sleep
  <2>1. hops' = hops /\ retryCount' = retryCount + 1 /\ pc' # pc
    BY <1>5 DEF Sleep, offsetReaders
  <2>2. Place = 1 /\ Place' = 9
    BY <1>5 DEF Sleep, Place
  <2> QED
    BY <1>1, <2>1, <2>2 DEF Left
<1>6. CASE NewReader
  <2>1. retryCount' = retryCount /\ pc' # pc
    BY <1>6 DEF NewReader, Goto, counts
  <2>2. CASE ~inDo
    <3>1. hops' = hops
      BY <1>6, <2>2 DEF NewReader
    <3>2. Place = 8 /\ Place' = 7
      BY <1>6, <2>2 DEF NewReader, Goto, Place
    <3> QED
      BY <1>1, <2>1, <3>1, <3>2 DEF Left
  <2>3. CASE inDo
    <3>1. hops' = hops \cup {reader + 1} /\ reader + 1 \notin hops
      BY <1>1, <1>6, <2>3 DEF NewReader
    <3>2. Cardinality(hops') = Cardinality(hops) + 1
      BY <1>1, <3>1, FS_AddElement
    <3>3. Place = 3 /\ Place' = 5
      BY <1>6, <2>3 DEF NewReader, Goto, Place
    <3> QED
      BY <1>1, <2>1, <3>2, <3>3 DEF Left
  <2> QED
    BY <1>1, <2>2, <2>3
<1> QED
  BY <1>2, <1>3, <1>4, <1>5, <1>6 DEF Next, Send

\* Send has finitely many steps to make, whatever body it sends, whatever fails
\* and whatever net/http still does with earlier bodies, if net/http asks for
\* the body again finitely often (request.go 527-629).
THEOREM SendEnds == Spec => [](Left \in Nat) /\ SendGetsOn
<1>1. IInv => Left \in Nat
  BY LeftFacts
<1>2. IInv /\ [Next]_vars => [IF pc' = pc THEN Left' = Left ELSE Left' < Left]_vars
  BY NextLeft
<1> QED
  BY <1>1, <1>2, SendInvariant, PTL DEF Spec, SendGetsOn
=============================================================================
