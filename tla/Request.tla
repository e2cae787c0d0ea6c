------------------------------ MODULE Request ------------------------------
(***************************************************************************)
(* One call of Send of a request, aws/request/request.go, with the         *)
(* handlers defaults.Handlers installs (aws/corehandlers/handlers.go), the *)
(* retryer of aws/client and the offsetReader that stands between the body *)
(* of the caller and net/http. The goroutine that calls Send runs beside   *)
(* the goroutines of net/http that write a request: such a goroutine may   *)
(* go on reading the body after Do has returned.                           *)
(*                                                                         *)
(* A body is bytes 1..size, and a request sends those after `start', where *)
(* the reader stood when it was given. net/http and the service are        *)
(* external; signing is one step, whatever it reads it puts back. The body *)
(* of an event stream, which no operation of this SDK sends, is left out.  *)
(***************************************************************************)
EXTENDS Integers, Sequences, FiniteSets

CONSTANTS
    Bodies,     \* the bodies to send
    MaxRetries, \* r.MaxRetries()
    MaxHops     \* bound of the model: how often net/http asks for the body again

\* aws.SeekerLen tells the length of a body that is sized: one that can seek, or
\* has a Len of its own. One that is not is ignored by an operation whose method
\* is GET, HEAD or DELETE.
Body == [seekable : BOOLEAN, sized : BOOLEAN, ignored : BOOLEAN, size : Nat, start : Nat]

ASSUME RequestAssumption ==
    /\ Bodies \subseteq Body
    /\ \A b \in Bodies : b.start <= b.size /\ (b.seekable => b.sized)
    /\ MaxRetries \in Nat /\ MaxHops \in Nat

VARIABLES
    body,       \* r.Body, r.BodyStart
    pos,        \* where the reader of the caller stands
    reader,     \* the number of r.safeBody: one for each newOffsetReader
    closed,     \* the offsetReaders with closed set
    hops,       \* the offsetReaders made by GetBody, inside Do
    reading,    \* the offsetReaders a goroutine of net/http reads from
    sent,       \* sent[o]: the bytes it read from o
    pc,         \* where the caller is in Send
    inDo,       \* the body is reset inside Do, not by prepareRetry
    err,        \* r.Error; "none" is nil
    retryCount, \* r.RetryCount
    tries,      \* the calls of sendRequest
    cancelled,  \* r.Context() is done
    late        \* this call of sendRequest began with a context that was done

offsetReaders == <<pos, reader, closed, hops>>
transport == <<reading, sent>>
counts == <<retryCount, tries>>
vars == <<body, offsetReaders, transport, pc, inDo, err, counts, cancelled, late>>

Readers == 1 .. (MaxRetries + 1 + MaxHops)

\* The request goes out without a body.
NoBody == IF body.sized THEN body.size = body.start ELSE body.ignored

\* SetReaderBody, before Send.
Init ==
    /\ body \in Bodies
    /\ pos = body.start
    /\ reader = 1 /\ closed = {} /\ hops = {}
    /\ reading = {} /\ sent = [o \in Readers |-> <<>>]
    /\ pc = "sign" /\ inDo = FALSE /\ err = "none"
    /\ retryCount = 0 /\ tries = 0
    /\ cancelled = FALSE /\ late = FALSE

Goto(p) == pc' = p /\ UNCHANGED inDo
Fails(e, p) == err' = e /\ Goto(p)

-----------------------------------------------------------------------------
(* The loop of Send. *)

\* The head of the loop clears r.Error; Sign builds and signs.
Sign ==
    /\ pc = "sign"
    /\ \/ err' = "none" /\ Goto("send")
       \/ Fails("sign", "done")
    /\ UNCHANGED <<body, offsetReaders, transport, counts, cancelled, late>>

\* The Send handlers up to the call of Do. A signature that is too old is
\* renewed; the list does not stop when that fails.
SendHandlers ==
    /\ pc = "send"
    /\ err' \in {"none", "sign"}
    /\ tries' = tries + 1 /\ late' = cancelled
    /\ reading' = IF NoBody THEN reading ELSE reading \cup {reader}
    /\ Goto("do")
    /\ UNCHANGED <<body, offsetReaders, sent, retryCount, cancelled>>

\* Mutant of SendError: handleSendError does not look at the context.
SendErrorKept == "net"

\* handleSendError: an error of a done context is replaced.
SendError == IF cancelled THEN "canceled" ELSE "net"

DoFails ==
    /\ pc = "do"
    /\ Fails(SendError, "retry")
    /\ UNCHANGED <<body, offsetReaders, transport, counts, cancelled, late>>

\* Do returns an answer with a status of 300 or above, maybe before the body
\* was sent. An error of the Send handlers hides it.
Answered ==
    /\ pc = "do" /\ ~late
    /\ \E e \in {"server", "refused"} : Fails(IF err = "sign" THEN err ELSE e, "retry")
    /\ UNCHANGED <<body, offsetReaders, transport, counts, cancelled, late>>

\* The service has the body and answers with success; reading the answer may
\* fail.
Accepted ==
    /\ pc = "do" /\ ~late /\ reader \notin reading
    /\ \/ err = "none" /\ Goto("done") /\ UNCHANGED err
       \/ err = "none" /\ Fails("read", "retry")
       \/ err = "sign" /\ Goto("retry") /\ UNCHANGED err
    /\ UNCHANGED <<body, offsetReaders, transport, counts, cancelled, late>>

\* A redirect, or another connection: net/http calls http.Request.GetBody,
\* which is getNextRequestBody.
Hop ==
    /\ pc = "do" /\ ~late /\ Cardinality(hops) < MaxHops
    /\ pc' = "close" /\ inDo' = TRUE
    /\ UNCHANGED <<body, offsetReaders, transport, err, counts, cancelled, late>>

\* The answers of ShouldRetry, which also stand for the Retryable that
\* handleSendError sets. An error of the network, or of reading the answer, is
\* refused if its cause is not temporary; that of a failed signature may be any.
ShouldRetry(e) ==
    IF e \in {"sign", "net", "read"} THEN BOOLEAN ELSE {e = "server"}

\* Mutant of WillRetry: one retry too many.
WillRetryAtMax(retryable) ==
    /\ body.seekable \/ NoBody
    /\ retryable /\ retryCount <= MaxRetries

WillRetry(retryable) ==
    /\ body.seekable \/ NoBody
    /\ retryable /\ retryCount < MaxRetries

AfterRetry ==
    /\ pc = "retry"
    /\ \E retryable \in ShouldRetry(err) :
           Goto(IF WillRetry(retryable) THEN "sleep" ELSE "done")
    /\ UNCHANGED <<body, offsetReaders, transport, err, counts, cancelled, late>>

\* SleepWithContext takes the timer, or the context if that is done.
Sleep ==
    /\ pc = "sleep"
    /\ err' = "none" /\ retryCount' = retryCount + 1
    /\ pc' = "close" /\ inDo' = FALSE
    /\ UNCHANGED <<body, offsetReaders, transport, tries, cancelled, late>>

\* Mutant of SleepCancelled: r.Error is cleared before the sleep.
SleepCleared ==
    /\ pc = "sleep" /\ cancelled
    /\ Fails("none", "done")
    /\ UNCHANGED <<body, offsetReaders, transport, counts, cancelled, late>>

SleepCancelled ==
    /\ pc = "sleep" /\ cancelled
    /\ Fails("canceled", "done")
    /\ UNCHANGED <<body, offsetReaders, transport, counts, cancelled, late>>

-----------------------------------------------------------------------------
(* getNextRequestBody, called by prepareRetry and inside Do. *)

\* Mutant of CloseBody: getNextRequestBody does not close the reader before.
CloseNothing ==
    /\ pc = "close"
    /\ Goto("rewind")
    /\ UNCHANGED <<body, offsetReaders, transport, err, counts, cancelled, late>>

\* Mutant of CloseBody: it waits for the transport to be done with the body.
CloseWaits ==
    /\ pc = "close" /\ reader \notin reading
    /\ closed' = closed \cup {reader}
    /\ Goto("rewind")
    /\ UNCHANGED <<body, pos, reader, hops, transport, err, counts, cancelled, late>>

\* r.safeBody.Close(), which waits for a Read to end.
CloseBody ==
    /\ pc = "close"
    /\ closed' = closed \cup {reader}
    /\ Goto("rewind")
    /\ UNCHANGED <<body, pos, reader, hops, transport, err, counts, cancelled, late>>

\* Where Seek(r.BodyStart, SeekStart) leaves the reader of the caller: a reader
\* that cannot seek stays.
SeekStart == IF body.seekable THEN body.start ELSE pos

\* newOffsetReader. Inside Do the transport starts to read it at once.
NewReader ==
    /\ pc = "rewind"
    /\ pos' = SeekStart
    /\ reader' = reader + 1
    /\ hops' = IF inDo THEN hops \cup {reader'} ELSE hops
    /\ reading' = IF inDo /\ ~NoBody THEN reading \cup {reader'} ELSE reading
    /\ Goto(IF inDo THEN "do" ELSE "sign")
    /\ UNCHANGED <<body, closed, sent, err, counts, cancelled, late>>

\* Seek fails: prepareRetry gives up, and Do fails.
SeekFails ==
    /\ pc = "rewind" /\ body.seekable
    /\ IF inDo THEN Fails(SendError, "retry") ELSE Fails("serialization", "done")
    /\ UNCHANGED <<body, offsetReaders, transport, counts, cancelled, late>>

-----------------------------------------------------------------------------
(* net/http, and the caller's context. *)

\* One Read of offsetReader o, which has its lock.
Read(o) ==
    /\ o \in reading \ closed /\ pos < body.size
    /\ sent' = [sent EXCEPT ![o] = Append(@, pos + 1)]
    /\ pos' = pos + 1
    /\ UNCHANGED <<body, reader, closed, hops, reading, pc, inDo, err, counts, cancelled, late>>

\* A Read that returns io.EOF; after it the transport closes its body.
ReadEOF(o) ==
    /\ o \in reading
    /\ o \in closed \/ pos = body.size
    /\ reading' = reading \ {o}
    /\ closed' = closed \cup {o}
    /\ UNCHANGED <<body, pos, reader, hops, sent, pc, inDo, err, counts, cancelled, late>>

Cancel ==
    /\ ~cancelled /\ pc # "done"
    /\ cancelled' = TRUE
    /\ UNCHANGED <<body, offsetReaders, transport, pc, inDo, err, counts, late>>

-----------------------------------------------------------------------------
Send ==
    \/ Sign \/ SendHandlers \/ DoFails \/ Answered \/ Accepted \/ Hop
    \/ AfterRetry \/ Sleep \/ SleepCancelled \/ CloseBody \/ NewReader \/ SeekFails

Transport == \E o \in Readers : Read(o) \/ ReadEOF(o)

Next == Send \/ Transport \/ Cancel

Spec == Init /\ [][Next]_vars

\* Do returns some day, with an answer or an error; the goroutines of net/http
\* owe nothing.
Fairness == WF_vars(Send)
FairSpec == Spec /\ Fairness

-----------------------------------------------------------------------------
Errors == {"none", "sign", "net", "canceled", "server", "refused", "read", "serialization"}

\* Every variable keeps its type; a position is one of the body, and a
\* goroutine of net/http reads an offsetReader that was made.
TypeOK ==
    /\ body \in Bodies /\ pos \in 0 .. body.size
    /\ reader \in Readers /\ closed \subseteq 1 .. reader /\ hops \subseteq 2 .. reader
    /\ reading \subseteq 1 .. reader
    /\ sent \in [Readers -> Seq(1 .. body.size)]
    /\ pc \in {"sign", "send", "do", "retry", "sleep", "close", "rewind", "done"}
    /\ inDo \in BOOLEAN /\ err \in Errors
    /\ retryCount \in Nat /\ tries \in Nat
    /\ cancelled \in BOOLEAN /\ late \in BOOLEAN

\* s is what the body has after its start, as far as s goes.
FromTheStart(s) == \A i \in 1 .. Len(s) : s[i] = body.start + i

\* Every request that is written sends the bytes of the body from its start,
\* each once and in order, although the goroutine that wrote an earlier one may
\* still be reading. Only a hop with a body that cannot seek sends what is left
\* of it (getNextRequestBody, offsetReader).
EachTryFromTheStart ==
    \A o \in Readers : body.seekable \/ o \notin hops => FromTheStart(sent[o])

ToSend == IF NoBody THEN 0 ELSE body.size - body.start

\* Send returns no error only if the last request that was written had the
\* whole body, or went out without one (sendRequest, AfterRetryHandler).
AcceptedIsWhole ==
    pc = "done" /\ err = "none" /\ (body.seekable \/ reader \notin hops) =>
        Len(sent[reader]) = ToSend

\* No more requests than the retryer allows, and no second one with a body that
\* cannot be rewound (WillRetry).
TriesBounded ==
    /\ tries <= MaxRetries + 1
    /\ ~body.seekable /\ ~NoBody => tries <= 1

\* A try that began after the context was done is the last one
\* (handleSendError, SleepWithContext).
CancelIsFinal == [][late => tries' = tries]_vars

\* Send returns if each call of Do does, whatever the goroutines of net/http
\* still do with the body.
SendReturns == <>(pc = "done")
=============================================================================
