------------------------------ MODULE Uploader ------------------------------
(***************************************************************************)
(* One call of UploadWithContext of the upload manager,                    *)
(* service/s3/s3manager/upload.go: the goroutine of the caller reads the   *)
(* body chunk by chunk and queues the chunks, Concurrency workers send     *)
(* them as UploadPart requests, and the caller completes the multipart     *)
(* upload, or aborts it, when the workers have ended.                      *)
(*                                                                         *)
(* A chunk is its part number: chunk n stands for the n-th read of the     *)
(* body, as UploadParts cuts it. The S3 service is external: what it       *)
(* stores and the answers it gives, or that get lost, are modelled from    *)
(* the calls of the uploader. The pool of part buffers is a bounded        *)
(* counter, which is what SlicePool implements for a pool of one upload    *)
(* (BoundedPool).                                                          *)
(***************************************************************************)
EXTENDS UploadParts, Integers, Sequences, FiniteSets

CONSTANTS
    Workers,        \* the goroutines of readChunk
    PartSize,       \* u.cfg.PartSize as it was configured
    MaxUploadParts, \* u.cfg.MaxUploadParts, at most the 10,000 of S3 that its doc asks for
    Bodies          \* the bodies that may be uploaded

\* A body is read at offsets ("at"), or into buffers of the pool, with a size
\* that is known because it can seek ("seeker") or not ("stream"). What is read
\* into buffers reports io.EOF with the last bytes of a full buffer, or alone
\* after it; reading chunk number "fails" gives an error (0: no read fails).
Body == [size : Nat, kind : {"at", "seeker", "stream"}, eofAlone : BOOLEAN, fails : Nat]

ASSUME BodiesAssumption ==
    /\ Bodies \subseteq Body
    /\ \A b \in Bodies : b.kind = "at" => ~b.eofAlone /\ b.fails = 0

ASSUME WorkersAssumption == IsFiniteSet(Workers) /\ Workers # {}

ASSUME PartsAssumption == {PartSize, MaxUploadParts} \subseteq Nat \ {0}

VARIABLES
    body,      \* u.in.Body
    leave,     \* u.cfg.LeavePartsOnError
    cancelled, \* u.ctx is done
    pc,        \* where the caller's goroutine is
    num,       \* the number of the last chunk it queued or has in hand
    last,      \* its local err is io.EOF: that chunk is the last one
    ch,        \* the channel of chunks
    closed,    \* close(ch) was called
    worker,    \* worker[w]: where goroutine w is in readChunk
    job,       \* job[w]: its chunk
    err,       \* u.err; "none" is nil
    parts,     \* u.parts, in the order the answers came
    buffers,   \* the chunks whose pool buffer was not put back
    result,    \* what the call returned
    upload,    \* S3: the multipart upload
    stored,    \* S3: its parts
    object,    \* S3: the chunks the object was made of; <<>> if there is none
    abort      \* what became of the call of AbortMultipartUpload

uvars == <<body, leave>>
mainvars == <<pc, num, last, closed>>
s3vars == <<upload, stored, object, abort>>
vars == <<uvars, cancelled, mainvars, ch, worker, job, err, parts, buffers, result, s3vars>>

Concurrency == Cardinality(Workers)
Elements(s) == {s[i] : i \in DOMAIN s}

Init ==
    /\ body \in Bodies /\ leave \in BOOLEAN
    /\ cancelled = FALSE
    /\ pc = "first" /\ num = 0 /\ last = FALSE
    /\ ch = <<>> /\ closed = FALSE
    /\ worker = [w \in Workers |-> "none"]
    /\ job = [w \in Workers |-> 0]
    /\ err = "none" /\ parts = <<>> /\ buffers = {}
    /\ result = "pending"
    /\ upload = "none" /\ stored = {} /\ object = <<>> /\ abort = "none"

-----------------------------------------------------------------------------
(* Reading the body. *)

Buffered == body.kind # "at"
SizeKnown == body.kind # "stream"

\* u.cfg.PartSize after initSize.
ChunkSize ==
    IF SizeKnown THEN AdjustedPartSize(body.size, PartSize, MaxUploadParts) ELSE PartSize

Left(n) == BytesLeft(body.size, ChunkSize, n)

\* The error of reading chunk n: "read", "EOF" or none, and whether it has data.
ReadError(n) ==
    IF body.fails = n THEN "read"
    ELSE IF Left(n) < ChunkSize \/ (Left(n) = ChunkSize /\ ~body.eofAlone) THEN "EOF"
    ELSE "none"
HasData(n) == Left(n) > 0

\* nextReader takes a buffer for a chunk that is not read at an offset, and
\* waits for one.
BufferFree == ~Buffered \/ Cardinality(buffers) < Concurrency + 1
Take(n) == buffers' = IF Buffered THEN buffers \cup {n} ELSE buffers
PutBack(n) == buffers' = buffers \ {n}

\* The pool looks at the context first, and while it waits.
GetCancelled == Buffered /\ cancelled

Returns(r) == pc' = "done" /\ result' = r

\* upload returns before it reads: init refuses the bucket or cannot tell the
\* size of the body, or the part size is below the minimum.
Refused ==
    /\ pc = "first"
    /\ Returns("error")
    /\ UNCHANGED <<uvars, cancelled, num, last, closed, ch, worker, job, err, parts, buffers, s3vars>>

\* upload: the first chunk decides between one PutObject and a multipart upload.
FirstRead ==
    /\ pc = "first"
    /\ \/ /\ GetCancelled
          /\ Returns("error")
          /\ UNCHANGED <<num, last, buffers>>
       \/ /\ ~GetCancelled
          /\ ReadError(1) = "read"
          /\ Returns("error")
          /\ UNCHANGED <<num, last, buffers>>
       \/ /\ ~GetCancelled
          /\ ReadError(1) # "read"
          /\ num' = 1
          /\ Take(1)
          /\ IF ReadError(1) = "EOF"
               THEN last' = TRUE /\ pc' = "single"
               ELSE UNCHANGED last /\ pc' = "create"
          /\ UNCHANGED result
    /\ UNCHANGED <<uvars, cancelled, closed, ch, worker, job, err, parts, s3vars>>

\* A request fails without reaching the service when the context is done;
\* else the service may answer, refuse, or its answer may be lost.
Delivered == ~cancelled

\* The object made of a list of chunks. A body without data is one empty chunk.
NumChunks == (body.size + ChunkSize - 1) \div ChunkSize
WholeBody == [i \in 1 .. (IF NumChunks = 0 THEN 1 ELSE NumChunks) |-> i]

\* singlePart: PutObject, and the deferred cleanup.
singlePart ==
    /\ pc = "single"
    /\ \/ Delivered /\ object' = <<1>> /\ result' = "ok"
       \/ Delivered /\ object' = <<1>> /\ result' = "error"
       \/ UNCHANGED object /\ result' = "error"
    /\ pc' = "done"
    /\ PutBack(1)
    /\ UNCHANGED <<uvars, cancelled, num, last, closed, ch, worker, job, err, parts, upload, stored, abort>>

-----------------------------------------------------------------------------
(* The multipart upload: the goroutine of the caller. *)

\* CreateMultipartUpload; its answer may be lost.
CreateMultipartUpload ==
    /\ pc = "create"
    /\ \/ /\ Delivered
          /\ upload' = "open"
          /\ pc' = "queue"
          /\ worker' = [w \in Workers |-> "receive"]
          /\ UNCHANGED <<result, buffers>>
       \/ /\ \/ UNCHANGED upload
             \/ Delivered /\ upload' = "unknown"
          /\ Returns("error")
          /\ PutBack(1)
          /\ UNCHANGED worker
    /\ UNCHANGED <<uvars, cancelled, num, last, closed, ch, job, err, parts, stored, object, abort>>

\* ch <- chunk: it waits while Concurrency chunks are queued.
Queue ==
    /\ pc = "queue"
    /\ Len(ch) < Concurrency
    /\ ch' = Append(ch, num)
    /\ pc' = "loop"
    /\ UNCHANGED <<uvars, cancelled, num, last, closed, worker, job, err, parts, buffers, result, s3vars>>

\* The condition of the loop.
Loop ==
    /\ pc = "loop"
    /\ pc' = IF err = "none" /\ ~last THEN "read" ELSE "close"
    /\ UNCHANGED <<uvars, cancelled, num, last, closed, ch, worker, job, err, parts, buffers, result, s3vars>>

\* Mutant of Break: an error of the reader ends the loop and is not noted.
BreakUnnoted(e) == pc' = "close" /\ UNCHANGED <<err, num, last, buffers>>

\* The loop ends on an error of its own (u.seterr), or without one.
Break(e) ==
    /\ pc' = "close"
    /\ err' = IF e = "none" THEN err ELSE e
    /\ UNCHANGED <<num, last, buffers>>

\* Mutant of TooMany: the part is counted after the test.
TooManyLate(n) == n - 1 > MaxUploadParts

TooMany(n) == n > MaxUploadParts

\* nextReader and shouldContinue. A chunk that is not sent gives its buffer
\* back at once.
NextChunk ==
    LET n == num + 1 IN
    /\ pc = "read"
    /\ \/ GetCancelled /\ Break("cancelled")
       \/ /\ ~GetCancelled /\ BufferFree
          /\ \/ ReadError(n) = "read" /\ Break("read")
             \/ ReadError(n) # "read" /\ ~HasData(n) /\ Break("none")
             \/ ReadError(n) # "read" /\ HasData(n) /\ TooMany(n) /\ Break("parts")
             \/ /\ ReadError(n) # "read" /\ HasData(n) /\ ~TooMany(n)
                /\ num' = n
                /\ Take(n)
                /\ IF ReadError(n) = "EOF" THEN last' = TRUE ELSE UNCHANGED last
                /\ pc' = "queue"
                /\ UNCHANGED err
    /\ UNCHANGED <<uvars, cancelled, closed, ch, worker, job, parts, result, s3vars>>

\* Mutant of Close: the channel stays open.
CloseForgotten ==
    /\ pc = "close"
    /\ pc' = "wait"
    /\ UNCHANGED <<uvars, cancelled, num, last, closed, ch, worker, job, err, parts, buffers, result, s3vars>>

Close ==
    /\ pc = "close"
    /\ closed' = TRUE
    /\ pc' = "wait"
    /\ UNCHANGED <<uvars, cancelled, num, last, ch, worker, job, err, parts, buffers, result, s3vars>>

\* Mutant of WorkersEnded: a worker in the middle of a request is not waited for.
WorkersEndedButSending == \A w \in Workers : worker[w] \in {"send", "ended"}

\* u.wg.Wait(), and the test at the head of complete.
WorkersEnded == \A w \in Workers : worker[w] = "ended"

\* Mutant of Wait: complete does not look at the error first.
WaitIgnoresErrors ==
    /\ pc = "wait"
    /\ WorkersEnded
    /\ pc' = "complete"
    /\ UNCHANGED <<uvars, cancelled, num, last, closed, ch, worker, job, err, parts, buffers, result, s3vars>>

Wait ==
    /\ pc = "wait"
    /\ WorkersEnded
    /\ pc' = IF err = "none" THEN "complete" ELSE "fail"
    /\ UNCHANGED <<uvars, cancelled, num, last, closed, ch, worker, job, err, parts, buffers, result, s3vars>>

\* Mutant of SortedParts: the parts stay in the order the answers came.
UnsortedParts(s) == s

\* sort.Sort(u.parts): the part numbers are distinct, so the i-th is the one
\* that has i - 1 smaller ones.
SortedParts(s) ==
    [i \in 1 .. Len(s) |->
        CHOOSE n \in Elements(s) : Cardinality({m \in Elements(s) : m < n}) = i - 1]

\* The service makes the object of parts it has, listed in ascending order.
ListAccepted(list) ==
    /\ list # <<>>
    /\ Elements(list) \subseteq stored
    /\ \A i, j \in DOMAIN list : i < j => list[i] < list[j]

\* CompleteMultipartUpload; its answer may be lost.
CompleteMultipartUpload ==
    LET list == SortedParts(parts) IN
    /\ pc = "complete"
    /\ \/ /\ Delivered /\ ListAccepted(list)
          /\ object' = list /\ upload' = "completed" /\ stored' = {}
          /\ \/ Returns("ok") /\ UNCHANGED err
             \/ pc' = "fail" /\ err' = "complete" /\ UNCHANGED result
       \/ /\ pc' = "fail" /\ err' = "complete"
          /\ UNCHANGED <<object, upload, stored, result>>
    /\ UNCHANGED <<uvars, cancelled, num, last, closed, ch, worker, job, parts, buffers, abort>>

\* Mutant of LeaveParts: the flag is read the other way.
LeavePartsNegated == ~leave

LeaveParts == leave

\* fail: AbortMultipartUpload, unless the parts are to be left. Its error is
\* logged and dropped.
fail ==
    /\ pc = "fail"
    /\ \/ LeaveParts /\ UNCHANGED <<upload, stored, abort>>
       \/ /\ ~LeaveParts /\ Delivered
          /\ abort' = "answered"
          /\ IF upload = "open"
               THEN upload' = "aborted" /\ stored' = {}
               ELSE UNCHANGED <<upload, stored>>
       \/ /\ ~LeaveParts /\ Delivered
          /\ abort' = "lost"
          /\ UNCHANGED <<upload, stored>>
       \/ /\ ~LeaveParts /\ ~Delivered
          /\ abort' = "unsent"
          /\ UNCHANGED <<upload, stored>>
    /\ Returns("error")
    /\ UNCHANGED <<uvars, cancelled, num, last, closed, ch, worker, job, err, parts, buffers, object>>

-----------------------------------------------------------------------------
(* The workers: readChunk. *)

Receive(w) ==
    /\ worker[w] = "receive"
    /\ \/ /\ ch # <<>>
          /\ job' = [job EXCEPT ![w] = Head(ch)]
          /\ ch' = Tail(ch)
          /\ worker' = [worker EXCEPT ![w] = "check"]
       \/ /\ ch = <<>> /\ closed
          /\ worker' = [worker EXCEPT ![w] = "ended"]
          /\ UNCHANGED <<ch, job>>
    /\ UNCHANGED <<uvars, cancelled, mainvars, err, parts, buffers, result, s3vars>>

\* A chunk is sent only while no error was noted; the request of a context
\* that is done fails at once.
CheckError(w) ==
    /\ worker[w] = "check"
    /\ worker' = [worker EXCEPT ![w] =
                    IF err # "none" THEN "cleanup" ELSE IF Delivered THEN "send" ELSE "seterr"]
    /\ UNCHANGED <<uvars, cancelled, mainvars, ch, job, err, parts, buffers, result, s3vars>>

\* UploadPart: the service stores the part and answers, stores it and the
\* answer is lost, or does not store it. The context may end on the way.
send(w) ==
    /\ worker[w] = "send"
    /\ \/ /\ upload = "open"
          /\ stored' = stored \cup {job[w]}
          /\ \/ /\ parts' = Append(parts, job[w])
                /\ worker' = [worker EXCEPT ![w] = "cleanup"]
             \/ /\ worker' = [worker EXCEPT ![w] = "seterr"]
                /\ UNCHANGED parts
       \/ /\ worker' = [worker EXCEPT ![w] = "seterr"]
          /\ UNCHANGED <<stored, parts>>
    /\ UNCHANGED <<uvars, cancelled, mainvars, ch, job, err, buffers, result, upload, object, abort>>

\* Mutant of seterr: the worker goes on to its next chunk.
seterrContinues(w) ==
    /\ worker[w] = "seterr"
    /\ err' = "part"
    /\ worker' = [worker EXCEPT ![w] = "receive"]
    /\ UNCHANGED <<uvars, cancelled, mainvars, ch, job, parts, buffers, result, s3vars>>

seterr(w) ==
    /\ worker[w] = "seterr"
    /\ err' = "part"
    /\ worker' = [worker EXCEPT ![w] = "cleanup"]
    /\ UNCHANGED <<uvars, cancelled, mainvars, ch, job, parts, buffers, result, s3vars>>

cleanup(w) ==
    /\ worker[w] = "cleanup"
    /\ PutBack(job[w])
    /\ worker' = [worker EXCEPT ![w] = "receive"]
    /\ UNCHANGED <<uvars, cancelled, mainvars, ch, job, err, parts, result, s3vars>>

-----------------------------------------------------------------------------

\* The caller, or its deadline, ends the context.
Cancel ==
    /\ ~cancelled /\ pc # "done"
    /\ cancelled' = TRUE
    /\ UNCHANGED <<uvars, mainvars, ch, worker, job, err, parts, buffers, result, s3vars>>

MainStep ==
    \/ Refused \/ FirstRead \/ singlePart \/ CreateMultipartUpload \/ Queue \/ Loop \/ NextChunk
    \/ Close \/ Wait \/ CompleteMultipartUpload \/ fail
WorkerStep(w) == Receive(w) \/ CheckError(w) \/ send(w) \/ seterr(w) \/ cleanup(w)

Next == MainStep \/ (\E w \in Workers : WorkerStep(w)) \/ Cancel

\* The goroutines are scheduled and every request ends, with an answer or an
\* error. Nothing makes a caller cancel.
Fairness == WF_vars(MainStep) /\ \A w \in Workers : WF_vars(WorkerStep(w))

Spec == Init /\ [][Next]_vars
FairSpec == Spec /\ Fairness

-----------------------------------------------------------------------------
(* What the upload promises. *)

CallerTypeOK ==
    /\ body \in Bodies /\ leave \in BOOLEAN /\ cancelled \in BOOLEAN
    /\ pc \in {"first", "single", "create", "queue", "loop", "read", "close", "wait",
               "complete", "fail", "done"}
    /\ num \in Nat /\ last \in BOOLEAN /\ closed \in BOOLEAN
    /\ result \in {"pending", "ok", "error"}

ChunksTypeOK ==
    /\ ch \in Seq(Nat) /\ parts \in Seq(Nat)
    /\ worker \in [Workers -> {"none", "receive", "check", "send", "seterr", "cleanup", "ended"}]
    /\ job \in [Workers -> Nat]
    /\ err \in {"none", "cancelled", "read", "parts", "part", "complete"}
    /\ buffers \subseteq Nat

ServiceTypeOK ==
    /\ upload \in {"none", "open", "unknown", "completed", "aborted"}
    /\ stored \subseteq Nat
    /\ object \in Seq(Nat)
    /\ abort \in {"none", "answered", "lost", "unsent"}

TypeOK == CallerTypeOK /\ ChunksTypeOK /\ ServiceTypeOK

\* The object is the body: each chunk of it once and in order, although the
\* workers send the chunks in any order and any answer may be lost, and there
\* is no object made of a part of the body. The same is true of the list that
\* complete is about to ask for, before the service judges it (upload.go 777).
ObjectIsBody ==
    /\ object \in {<<>>, WholeBody}
    /\ pc = "complete" => SortedParts(parts) = WholeBody

\* The upload implements a store that is atomic for its caller.
ObjectState ==
    CASE object = <<>> -> "absent" [] object = WholeBody -> "whole" [] OTHER -> "torn"
Atomic == INSTANCE AtomicUpload WITH object <- ObjectState, result <- result
AtomicSpec == Atomic!Spec

\* The call returns: the caller and the workers never wait for each other for
\* ever, on the channel or on the buffers, whatever fails.
CallReturns == Atomic!Returns

\* Nothing is sent to a multipart upload that is about to be completed or
\* aborted: a part that comes after the abort would be stored for ever.
QuietAtEnd ==
    pc \in {"complete", "fail", "done"} => \A w \in Workers : worker[w] \in {"none", "ended"}

\* When the call returns every buffer is back in the pool, on each error path.
BuffersReturned == pc = "done" => buffers = {}

\* A part number never passes the configured limit.
PartsWithinLimit == stored \subseteq 1 .. MaxUploadParts

\* A body of known size is never refused for having too many chunks: the part
\* size was adjusted for that, remainders included (upload.go 451-457).
KnownSizeFits == SizeKnown => err # "parts"

\* No parts are left on the service by a call that failed, unless it was told
\* to leave them, could not know of the upload, or its abort got lost.
Explained == leave \/ upload = "unknown" \/ abort \in {"lost", "unsent"}
NoPartsLeft == pc = "done" /\ ~Explained => upload # "open" /\ stored = {}

\* "fail will abort the multipart unless LeavePartsOnError is set to true"
\* (upload.go 752): the request to abort is sent.
FailAborts == pc = "done" /\ upload = "open" /\ ~leave => abort # "unsent"
=============================================================================
