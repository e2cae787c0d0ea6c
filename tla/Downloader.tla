----------------------------- MODULE Downloader -----------------------------
(***************************************************************************)
(* One call of DownloadWithContext of the download manager,                *)
(* service/s3/s3manager/download.go. The goroutine of the caller gets the  *)
(* first chunk itself and learns the size of the object from the answer;   *)
(* then Concurrency workers get the other chunks, or, if the answer does   *)
(* not tell the size, the caller goes on alone until the service refuses a *)
(* range with status 416.                                                  *)
(*                                                                         *)
(* Byte number b of the object has the value b, and what was written is a  *)
(* set of pairs of an offset in w and a byte. The S3 service is external;  *)
(* the object does not change during the call.                             *)
(***************************************************************************)
EXTENDS Integers, Sequences, FiniteSets, FiniteSetsExt

CONSTANTS
    Workers,            \* the goroutines of downloadPart
    Caller,             \* the goroutine of the caller
    PartSize,           \* d.cfg.PartSize
    partBodyMaxRetries, \* d.partBodyMaxRetries
    Sizes               \* the sizes the object may have

ASSUME ConstantsAssumption ==
    /\ IsFiniteSet(Workers) /\ Workers # {} /\ Caller \notin Workers
    /\ PartSize \in Nat \ {0} /\ partBodyMaxRetries \in Nat /\ Sizes \subseteq Nat

VARIABLES
    size,   \* the size of the object, or of the range the caller asks for
    ranged, \* d.in.Range is given
    told,   \* how an answer tells the size: a "number", "star" (not), or "malformed"
    main,   \* where the caller's goroutine is
    pos,    \* d.pos
    total,  \* d.totalBytes
    ch,     \* the channel of chunks: their first bytes
    closed, \* close(ch) was called
    act,    \* act[p]: where goroutine p is with its chunk
    start,  \* start[p]: the first byte of its chunk
    cur,    \* cur[p]: chunk.cur, where it writes next
    retry,  \* retry[p]: the body reads that failed
    count,  \* count[p]: n of its last body read
    cause,  \* cause[p]: why its chunk failed
    err,    \* d.err
    written,\* d.written
    w       \* what is in the io.WriterAt

object == <<size, ranged, told>>
chunk == <<start, cur, retry, count, cause>>
vars == <<object, main, pos, total, ch, closed, act, chunk, err, written, w>>

Goroutines == Workers \cup {Caller}
Concurrency == Cardinality(Workers)

Init ==
    /\ size \in Sizes /\ ranged \in BOOLEAN
    /\ told \in {"number", "star", "malformed"}
    /\ main = "first" /\ pos = 0 /\ total = -1
    /\ ch = <<>> /\ closed = FALSE
    /\ act = [p \in Goroutines |-> IF p = Caller THEN "rest" ELSE "none"]
    /\ start = [p \in Goroutines |-> 0]
    /\ cur = [p \in Goroutines |-> 0]
    /\ retry = [p \in Goroutines |-> 0]
    /\ count = [p \in Goroutines |-> 0]
    /\ cause = [p \in Goroutines |-> "none"]
    /\ err = "none" /\ written = 0 /\ w = {}

-----------------------------------------------------------------------------
(* downloadChunk, by any of the goroutines. *)

\* The bytes a request for the chunk at s is answered with: none if there are
\* none, which is status 416.
Length(s) == IF ranged THEN size ELSE Min({PartSize, size - s})
Satisfiable(s) == s < size

\* downloadChunk begins.
Begin(p, s) ==
    /\ act' = [act EXCEPT ![p] = "get"]
    /\ start' = [start EXCEPT ![p] = s]
    /\ cur' = [cur EXCEPT ![p] = 0]
    /\ retry' = [retry EXCEPT ![p] = 0]
    /\ cause' = [cause EXCEPT ![p] = "none"]
    /\ UNCHANGED count

\* setTotalBytes, once the size is not known; a number that cannot be parsed is
\* an error.
setTotalBytes ==
    IF total >= 0 THEN UNCHANGED <<total, err>>
    ELSE CASE told = "number" -> total' = size /\ UNCHANGED err
           [] told = "star" -> UNCHANGED <<total, err>>
           [] told = "malformed" -> err' = "malformed" /\ UNCHANGED total

\* GetObject: an error of the request is not tried again here.
GetObject(p) ==
    /\ act[p] = "get"
    /\ \/ /\ Satisfiable(start[p])
          /\ act' = [act EXCEPT ![p] = "copy"]
          /\ setTotalBytes
          /\ UNCHANGED cause
       \/ /\ act' = [act EXCEPT ![p] = "fail"]
          /\ \/ ~Satisfiable(start[p]) /\ cause' = [cause EXCEPT ![p] = "416"]
             \/ cause' = [cause EXCEPT ![p] = "request"]
          /\ UNCHANGED <<total, err>>
    /\ UNCHANGED <<object, main, pos, ch, closed, start, cur, retry, count, written, w>>

\* dlchunk.Write: n bytes of the body, from its first.
Write(p, n) ==
    LET at == start[p] + cur[p] IN
    w' = {x \in w : x[1] \notin at .. at + n - 1}
           \cup {<<at + i, start[p] + i>> : i \in 0 .. n - 1}

\* Mutant of Rewind: a retry goes on writing where the failed read stopped.
ForgetToRewind(p, n) == cur[p] + n

\* chunk.cur when the next try begins.
Rewind(p, n) == 0

\* Mutant of Counted: the bytes of the reads that failed count too.
CountedEachTime(p, n) == count[p] + n

\* n of downloadChunk is that of the last try.
Counted(p, n) == n

TriesLeft(p) == retry[p] < partBodyMaxRetries

\* The body is copied to w, or breaks off after some bytes; then it is tried
\* again, partBodyMaxRetries times.
CopyBody(p) ==
    /\ act[p] = "copy"
    /\ \E n \in 0 .. Length(start[p]) :
          /\ Write(p, n)
          /\ count' = [count EXCEPT ![p] = Counted(p, n)]
          /\ \/ /\ n = Length(start[p])
                /\ act' = [act EXCEPT ![p] = "count"]
                /\ UNCHANGED <<cur, retry, cause>>
             \/ /\ cur' = [cur EXCEPT ![p] = Rewind(p, n)]
                /\ IF TriesLeft(p)
                     THEN /\ act' = [act EXCEPT ![p] = "get"]
                          /\ retry' = [retry EXCEPT ![p] = @ + 1]
                          /\ UNCHANGED cause
                     ELSE /\ act' = [act EXCEPT ![p] = "count"]
                          /\ cause' = [cause EXCEPT ![p] = "body"]
                          /\ UNCHANGED retry
    /\ UNCHANGED <<object, main, pos, total, ch, closed, start, err, written>>

incrWritten(p) ==
    /\ act[p] = "count"
    /\ written' = written + count[p]
    /\ act' = [act EXCEPT ![p] = IF cause[p] = "none" THEN "rest" ELSE "fail"]
    /\ UNCHANGED <<object, main, pos, total, ch, closed, chunk, err, w>>

\* Mutant of setErr: a worker whose chunk failed ends.
setErrEnds(p) ==
    /\ act[p] = "fail"
    /\ err' = cause[p]
    /\ act' = [act EXCEPT ![p] = IF p = Caller THEN "rest" ELSE "ended"]
    /\ UNCHANGED <<object, main, pos, total, ch, closed, chunk, written, w>>

setErr(p) ==
    /\ act[p] = "fail"
    /\ err' = cause[p]
    /\ act' = [act EXCEPT ![p] = "rest"]
    /\ UNCHANGED <<object, main, pos, total, ch, closed, chunk, written, w>>

-----------------------------------------------------------------------------
(* download, by the goroutine of the caller. *)

AtRest == act[Caller] = "rest"

\* The bucket is an ARN that is not supported.
Refused ==
    /\ main = "first"
    /\ main' = "done"
    /\ err' = "bucket"
    /\ UNCHANGED <<object, pos, total, ch, closed, act, chunk, written, w>>

\* downloadRange: one request, whatever its size.
downloadRange ==
    /\ main = "first" /\ ranged
    /\ Begin(Caller, pos)
    /\ main' = "range"
    /\ UNCHANGED <<object, pos, total, ch, closed, err, written, w>>
RangeDone ==
    /\ main = "range" /\ AtRest
    /\ pos' = written
    /\ main' = "done"
    /\ UNCHANGED <<object, total, ch, closed, act, chunk, err, written, w>>

\* getChunk, for the first chunk and for each of an object of unknown size.
getChunk ==
    /\ \/ main = "first" /\ ~ranged
       \/ main = "alone" /\ AtRest /\ err = "none"
    /\ Begin(Caller, pos)
    /\ pos' = pos + PartSize
    /\ main' = IF main = "first" THEN "second" ELSE "alone"
    /\ UNCHANGED <<object, total, ch, closed, err, written, w>>

\* The size is known: the workers begin. Else the caller goes on alone.
Spawn ==
    /\ main = "second" /\ AtRest
    /\ IF total >= 0
         THEN /\ main' = "assign"
              /\ act' = [p \in Goroutines |-> "rest"]
         ELSE main' = "alone" /\ UNCHANGED act
    /\ UNCHANGED <<object, pos, total, ch, closed, chunk, err, written, w>>
Finished == pos >= total

\* ch <- chunk: it waits while Concurrency chunks are queued. An error ends the
\* loop, also one that came while it waited.
AssignChunk ==
    /\ main = "assign" /\ err = "none" /\ ~Finished
    /\ main' = "send"
    /\ UNCHANGED <<object, pos, total, ch, closed, act, chunk, err, written, w>>
SendChunk ==
    /\ main = "send"
    /\ Len(ch) < Concurrency
    /\ ch' = Append(ch, pos)
    /\ pos' = pos + PartSize
    /\ main' = "assign"
    /\ UNCHANGED <<object, total, closed, act, chunk, err, written, w>>
CloseChannel ==
    /\ main = "assign" /\ (err # "none" \/ Finished)
    /\ closed' = TRUE
    /\ main' = "wait"
    /\ UNCHANGED <<object, pos, total, ch, act, chunk, err, written, w>>

\* Mutant of WorkersEnded: the last chunks of the workers are not waited for.
NothingQueued == ch = <<>>

\* d.wg.Wait()
WorkersEnded == \A p \in Workers : act[p] = "ended"
Wait ==
    /\ main = "wait" /\ WorkersEnded
    /\ main' = "done"
    /\ UNCHANGED <<object, pos, total, ch, closed, act, chunk, err, written, w>>

\* Mutant of AloneError: the 416 that ends the object stays an error.
AloneErrorKept(e) == e

\* The 416 that tells the end of an object of unknown size is no error.
AloneError(e) == IF e = "416" THEN "none" ELSE e

AloneDone ==
    /\ main = "alone" /\ AtRest /\ err # "none"
    /\ err' = AloneError(err)
    /\ main' = "done"
    /\ UNCHANGED <<object, pos, total, ch, closed, act, chunk, written, w>>

-----------------------------------------------------------------------------
(* downloadPart, by the workers. *)

Receive(p) ==
    /\ act[p] = "rest"
    /\ \/ /\ ch # <<>>
          /\ ch' = Tail(ch)
          /\ start' = [start EXCEPT ![p] = Head(ch)]
          /\ act' = [act EXCEPT ![p] = "check"]
       \/ /\ ch = <<>> /\ closed
          /\ act' = [act EXCEPT ![p] = "ended"]
          /\ UNCHANGED <<ch, start>>
    /\ UNCHANGED <<object, main, pos, total, closed, cur, retry, count, cause, err, written, w>>

\* After an error the chunks are drained.
CheckErr(p) ==
    /\ act[p] = "check"
    /\ \/ err = "none" /\ Begin(p, start[p])
       \/ err # "none" /\ act' = [act EXCEPT ![p] = "rest"] /\ UNCHANGED chunk
    /\ UNCHANGED <<object, main, pos, total, ch, closed, err, written, w>>

-----------------------------------------------------------------------------

ChunkStep(p) == GetObject(p) \/ CopyBody(p) \/ incrWritten(p) \/ setErr(p)
MainStep ==
    \/ Refused \/ downloadRange \/ RangeDone \/ getChunk \/ Spawn \/ AssignChunk \/ SendChunk
    \/ CloseChannel \/ Wait \/ AloneDone \/ ChunkStep(Caller)
WorkerStep(p) == Receive(p) \/ CheckErr(p) \/ ChunkStep(p)

Next == MainStep \/ \E p \in Workers : WorkerStep(p)

\* The goroutines are scheduled, and every request and every body ends.
Spec == Init /\ [][Next]_vars
FairSpec == Spec /\ WF_vars(MainStep) /\ \A p \in Workers : WF_vars(WorkerStep(p))

-----------------------------------------------------------------------------
(* What a download promises. *)

TypeOK ==
    /\ size \in Sizes /\ ranged \in BOOLEAN /\ told \in {"number", "star", "malformed"}
    /\ main \in {"first", "range", "second", "alone", "assign", "send", "wait", "done"}
    /\ {pos, written} \subseteq Nat /\ total \in Nat \cup {-1}
    /\ ch \in Seq(Nat) /\ Len(ch) <= Concurrency /\ closed \in BOOLEAN
    /\ act \in [Goroutines -> {"none", "rest", "check", "get", "copy", "count", "fail", "ended"}]
    /\ {start, cur, count} \subseteq [Goroutines -> Nat]
    /\ retry \in [Goroutines -> 0 .. partBodyMaxRetries]
    /\ cause \in [Goroutines -> {"none", "request", "416", "body"}]
    /\ err \in {"none", "bucket", "request", "416", "body", "malformed"}
    /\ w \subseteq Nat \X Nat

\* A download without an error has written the object, each byte of it at its
\* offset, and tells its size, although chunks end in any order and are tried
\* again after any number of bytes.
WholeObject ==
    main = "done" /\ err = "none" => w = {<<b, b>> : b \in 0 .. size - 1} /\ written = size

\* The bytes that are counted are in w: what is returned with an error tells
\* the caller no more than there is.
CountedIsWritten == written <= Cardinality(w)

\* When the call returns no worker will write to w any more.
QuietAtEnd == main = "done" => \A p \in Workers : act[p] \in {"none", "ended"}

\* A 416 is what tells that an object of unknown size has ended (348-354): to
\* run off the end of the object is no error, be it empty or of unknown size.
EndIsNoError == main = "done" /\ ~ranged => err # "416"

\* The call returns: the workers go on taking chunks after an error.
CallReturns == <>(main = "done")
=============================================================================
