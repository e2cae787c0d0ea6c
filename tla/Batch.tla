------------------------------- MODULE Batch -------------------------------
(***************************************************************************)
(* Batch operations, service/s3/s3manager/batch.go: BatchDelete.Delete     *)
(* with its iterators, DownloadWithIterator and UploadWithIterator, and    *)
(* the Pagination (aws/request/request_pagination.go) behind the iterator  *)
(* that lists a bucket.                                                    *)
(*                                                                         *)
(* An operation asks an iterator for one object after the other. A delete  *)
(* collects them until it has BatchSize of them, or until one differs from *)
(* the others in bucket, MFA or payer, and sends them in one DeleteObjects *)
(* request, which fails as a whole or for some of them. An upload or a     *)
(* download, "transfer" here, is made for each object at once. In both the *)
(* After functions of the objects run whatever became of the request, and  *)
(* all errors are collected and returned together.                         *)
(*                                                                         *)
(* An object is its position in what the caller gave, or in the bucket     *)
(* that is listed; given[i] stands for all that hasParity compares of it.  *)
(***************************************************************************)
EXTENDS Naturals, SequencesExt

CONSTANTS
    MaxGiven,   \* bound: objects given, or entries of the bucket
    Classes,    \* the values of bucket, MFA and payer together
    BatchSizes, \* the batch sizes to look at; 0 is that of BatchDelete{}
    MaxKeys     \* entries in a page of a listing

ASSUME BatchAssumption ==
    /\ MaxGiven \in Nat
    /\ BatchSizes \subseteq Nat
    /\ MaxKeys \in Nat \ {0}

VARIABLES
    op,         \* "delete" or "transfer"
    iter,       \* the iterator: "objects" (a slice of them), "list" (the
                \* bucket) or "own" (the caller's, which may fail)
    batchSize,  \* d.BatchSize
    given,      \* what the caller gave
    prefixes,   \* entries of the listing that are common prefixes, no keys
    pc,         \* where the operation is
    index, inc, \* of the iterator of a slice
    contents,   \* iter.objects: what is left of the page, in the order of keys
    started,    \* p.started
    nextToken,  \* p.nextTokens: the marker of the next page, 0 for none
    iterErr,    \* iter.Err() is not nil
    ended,      \* the loop over the iterator has ended
    object,     \* the object the iterator stands on
    batch,      \* the objects collected, in input and in objects
    carried,    \* the one that opens the next batch, if any
    pending,    \* objects whose After has not run yet
    errs,       \* how often each <<object, cause>> is among the errors collected
    sent,       \* history: the requests that were sent
    ran,        \* history: the objects whose After ran
    done,       \* the objects that are deleted, or transferred
    afterFailed \* those whose After returned an error

asked == <<op, iter, batchSize, given, prefixes>>
iterator == <<index, inc, contents, started, nextToken, iterErr>>
outcome == <<errs, sent, ran, done, afterFailed>>
vars == <<asked, pc, ended, iterator, object, batch, carried, pending, outcome>>

\* The objects among the entries after a, up to b.
Keys(a, b) == ((a + 1)..b) \ prefixes

Causes == {"request", "after", "iterator"}
Errors == (0..Len(given)) \X Causes

\* Only a delete has an iterator that lists a bucket.
Init ==
    /\ op \in {"delete", "transfer"}
    /\ iter \in {"objects", "list", "own"}
    /\ batchSize \in BatchSizes
    /\ given \in SeqOf(Classes, MaxGiven)
    /\ prefixes \in SUBSET (1..Len(given))
    /\ IF iter = "list"
         THEN op = "delete" /\ \A i, j \in DOMAIN given : given[i] = given[j]
         ELSE prefixes = {}
    /\ pc = "next" /\ ended = FALSE
    /\ index = 0 /\ inc = FALSE
    /\ contents = {} /\ started = FALSE /\ nextToken = 0 /\ iterErr = FALSE
    /\ object = 0 /\ batch = <<>> /\ carried = <<>> /\ pending = <<>>
    /\ errs = [e \in Errors |-> 0] /\ sent = <<>> /\ ran = <<>>
    /\ done = {} /\ afterFailed = {}

-----------------------------------------------------------------------------
(* The iterators. *)

\* iter.Next() says that there is object o, or no more.
Yields(o) == pc' = "object" /\ object' = o
Ends == pc' = "end" /\ UNCHANGED object

\* Next and DeleteObject of an iterator over a slice. An iterator of the
\* caller that does not fail is one of these.
NextOfSlice ==
    /\ pc = "next" /\ iter # "list"
    /\ inc' = TRUE
    /\ index' = IF inc THEN index + 1 ELSE index
    /\ IF index' < Len(given) THEN Yields(index' + 1) ELSE Ends
    /\ UNCHANGED <<asked, ended, contents, started, nextToken, iterErr, batch, carried, pending, outcome>>

\* Next of an iterator of the caller returns false, and Err an error.
NextFails ==
    /\ pc = "next" /\ iter = "own"
    /\ iterErr' = TRUE
    /\ Ends
    /\ UNCHANGED <<asked, ended, index, inc, contents, started, nextToken, batch, carried, pending, outcome>>

\* Mutant of HasNextPage: the last page, which has no token, is not seen as it.
AlwaysNextPage == TRUE

HasNextPage == ~started \/ nextToken # 0

\* The first object of a page, if there is one.
First(page) == {o \in page : \A x \in page : o <= x}

\* Next of the iterator that lists: the next object of the page, or a request
\* for the next page.
NextOfList ==
    /\ pc = "next" /\ iter = "list"
    /\ contents' = contents \ First(contents)
    /\ \/ \E o \in First(contents') : Yields(o)
       \/ contents' = {} /\ HasNextPage /\ pc' = "list" /\ UNCHANGED object
       \/ contents' = {} /\ ~HasNextPage /\ Ends
    /\ UNCHANGED <<asked, ended, index, inc, started, nextToken, iterErr, batch, carried, pending, outcome>>

\* The entries a page may end at: at least one entry, and no more than MaxKeys.
PageEnds ==
    {last \in nextToken..Len(given) :
        /\ last <= nextToken + MaxKeys
        /\ last > nextToken \/ last = Len(given)}

\* Mutant of nextPageTokens: a truncated page is taken for the last one.
NoTokens(last) == 0

\* The tokens of the next page: none when the page is not truncated. A
\* truncated page has NextMarker, or its last key is the marker.
nextPageTokens(last) == IF last < Len(given) THEN last ELSE 0

\* Pagination.Next gets a page. What the iterator answers depends on whether
\* there is an object on it.
ListAnswers ==
    /\ pc = "list"
    /\ started' = TRUE
    /\ \E last \in PageEnds :
         /\ contents' = Keys(nextToken, last)
         /\ nextToken' = nextPageTokens(last)
    /\ \/ \E o \in First(contents') : Yields(o)
       \/ contents' = {} /\ Ends
    /\ UNCHANGED <<asked, ended, index, inc, iterErr, batch, carried, pending, outcome>>

\* Pagination.Next gets an error.
ListFails ==
    /\ pc = "list"
    /\ started' = TRUE
    /\ iterErr' = TRUE
    /\ Ends
    /\ UNCHANGED <<asked, ended, index, inc, contents, nextToken, batch, carried, pending, outcome>>

-----------------------------------------------------------------------------
(* Delete. *)

\* Mutant of hasParity: only the size ends a batch.
AnyParity(b, o) == TRUE

\* The bucket, the MFA and the payer of a request are those of its first object.
hasParity(b, o) == b = <<>> \/ given[Head(b)] = given[o]

\* Mutant of Queue: the object that ended the batch is not carried over.
QueueDrops ==
    /\ pc = "object" /\ op = "delete"
    /\ batch' = IF hasParity(batch, object) THEN Append(batch, object) ELSE batch
    /\ pc' = IF Len(batch') = batchSize \/ ~hasParity(batch, object) THEN "delete" ELSE "next"
    /\ UNCHANGED <<asked, ended, iterator, object, carried, pending, outcome>>

\* The object joins the batch, or ends it and opens the next one.
Queue ==
    LET parity == hasParity(batch, object) IN
    /\ pc = "object" /\ op = "delete"
    /\ batch' = IF parity THEN Append(batch, object) ELSE batch
    /\ carried' = IF parity THEN <<>> ELSE <<object>>
    /\ pc' = IF Len(batch') = batchSize \/ ~parity THEN "delete" ELSE "next"
    /\ UNCHANGED <<asked, ended, iterator, object, pending, outcome>>

\* An error more for each of some objects.
Fails(objects, cause) ==
    errs' = [e \in Errors |->
                IF e[1] \in objects /\ e[2] = cause THEN errs[e] + 1 ELSE errs[e]]

\* What follows a request: its errors, then the After functions.
Answered(failed) ==
    /\ sent' = Append(sent, batch)
    /\ Fails(failed, "request")
    /\ pending' = batch
    /\ pc' = "after"
    /\ UNCHANGED <<asked, ended, iterator, object, batch, carried, ran, afterFailed>>

\* DeleteObjects answers: some objects are deleted and the others are listed
\* as errors.
DeleteAnswers ==
    /\ pc = "delete"
    /\ \E failed \in SUBSET ToSet(batch) :
         /\ done' = done \cup (ToSet(batch) \ failed)
         /\ Answered(failed)

\* Mutant of DeleteFails: one error for the whole batch.
DeleteFailsOnce ==
    /\ pc = "delete"
    /\ \E deleted \in {{}, ToSet(batch)} : done' = done \cup deleted
    /\ Answered({Head(batch)})

\* DeleteObjects fails: what it did by then is not known, and every object of
\* the batch gets the error.
DeleteFails ==
    /\ pc = "delete"
    /\ \E deleted \in {{}, ToSet(batch)} : done' = done \cup deleted
    /\ Answered(ToSet(batch))

\* Mutant of AfterRuns: an error of After ends the loop over the others.
AfterRunsUntilError(ok) ==
    /\ pc = "after" /\ pending # <<>>
    /\ pending' = IF ok THEN Tail(pending) ELSE <<>>
    /\ ran' = Append(ran, Head(pending))
    /\ IF ok
         THEN UNCHANGED <<errs, afterFailed>>
         ELSE /\ Fails({Head(pending)}, "after")
              /\ afterFailed' = afterFailed \cup {Head(pending)}
    /\ UNCHANGED <<asked, ended, pc, iterator, object, batch, carried, sent, done>>

\* After of the next object; no After is one that returns nil.
AfterRuns(ok) ==
    /\ pc = "after" /\ pending # <<>>
    /\ pending' = Tail(pending)
    /\ ran' = Append(ran, Head(pending))
    /\ IF ok
         THEN UNCHANGED <<errs, afterFailed>>
         ELSE /\ Fails({Head(pending)}, "after")
              /\ afterFailed' = afterFailed \cup {Head(pending)}
    /\ UNCHANGED <<asked, ended, pc, iterator, object, batch, carried, sent, done>>

\* The batch is dropped; the object that ended it opens the next one.
NextBatch ==
    /\ pc = "after" /\ pending = <<>>
    /\ batch' = carried
    /\ carried' = <<>>
    /\ pc' = IF ended THEN "returned" ELSE "next"
    /\ UNCHANGED <<asked, ended, iterator, object, pending, outcome>>

\* The iterator has ended: a delete looks at its error and sends what it has
\* collected. UploadWithIterator and DownloadWithIterator return, and do not
\* look at Err.
End ==
    /\ pc = "end"
    /\ ended' = TRUE
    /\ IF iterErr /\ op = "delete" THEN Fails({0}, "iterator") ELSE UNCHANGED errs
    /\ pc' = IF batch # <<>> THEN "delete" ELSE "returned"
    /\ UNCHANGED <<asked, iterator, object, batch, carried, pending, sent, ran, done, afterFailed>>

-----------------------------------------------------------------------------
(* UploadWithIterator and DownloadWithIterator. *)

\* One object is uploaded or downloaded, or the call for it fails.
Transfer(ok) ==
    /\ pc = "object" /\ op = "transfer"
    /\ sent' = Append(sent, <<object>>)
    /\ IF ok
         THEN done' = done \cup {object} /\ UNCHANGED errs
         ELSE Fails({object}, "request") /\ UNCHANGED done
    /\ pending' = <<object>>
    /\ pc' = "after"
    /\ UNCHANGED <<asked, ended, iterator, object, batch, carried, ran, afterFailed>>

-----------------------------------------------------------------------------

Next ==
    \/ NextOfSlice \/ NextFails \/ NextOfList \/ ListAnswers \/ ListFails
    \/ Queue \/ DeleteAnswers \/ DeleteFails \/ NextBatch \/ End
    \/ \E ok \in BOOLEAN : AfterRuns(ok) \/ Transfer(ok)

Spec == Init /\ [][Next]_vars

-----------------------------------------------------------------------------
(* What the operations promise. *)

TypeOK ==
    /\ op \in {"delete", "transfer"}
    /\ iter \in {"objects", "list", "own"}
    /\ batchSize \in BatchSizes
    /\ given \in Seq(Classes)
    /\ prefixes \subseteq 1..Len(given)
    /\ pc \in {"next", "list", "object", "delete", "after", "end", "returned"}
    /\ index \in Nat /\ object \in 0..Len(given) /\ nextToken \in 0..Len(given)
    /\ inc \in BOOLEAN /\ started \in BOOLEAN /\ iterErr \in BOOLEAN /\ ended \in BOOLEAN
    /\ contents \subseteq 1..Len(given)
    /\ batch \in Seq(1..Len(given)) /\ carried \in Seq(1..Len(given))
    /\ pending \in Seq(1..Len(given)) /\ ran \in Seq(1..Len(given))
    /\ sent \in Seq(Seq(1..Len(given)))
    /\ errs \in [Errors -> Nat]
    /\ done \subseteq 1..Len(given) /\ afterFailed \subseteq 1..Len(given)

Sent == UNION {ToSet(sent[i]) : i \in DOMAIN sent}

InOrder(os) == \A i, j \in DOMAIN os : i < j => os[i] < os[j]
Before(S, T) == \A x \in S, y \in T : x < y

\* What was collected and not sent: the batch, and the object that comes after it.
Waiting ==
    (IF pc = "after" THEN <<>> ELSE batch)
        \o carried
        \o (IF pc = "object" THEN <<object>> ELSE <<>>)

\* Every object the iterator yields is sent in exactly one request, in the
\* order of the iterator, also when its bucket differs from that of the batch
\* before it (batch.go 325-346) and when the iterator ends with a batch open.
EachSentOnce ==
    /\ \A i \in DOMAIN sent :
          /\ InOrder(sent[i])
          /\ \A j \in DOMAIN sent : i < j => Before(ToSet(sent[i]), ToSet(sent[j]))
    /\ InOrder(Waiting) /\ Before(Sent, ToSet(Waiting))
    /\ Sent \cup ToSet(Waiting) = Keys(0, object)
    /\ pc = "returned" => Waiting = <<>>

\* A request deletes from one bucket, for one payer and with one MFA, those of
\* each of its objects; it has at most BatchSize objects, and fewer only when
\* the next object differs or there is none. A BatchSize of 0, which a
\* BatchDelete made without its constructor has, bounds nothing.
BatchesFit ==
    \A i \in DOMAIN sent :
        /\ \A x \in ToSet(sent[i]) : given[x] = given[Head(sent[i])]
        /\ batchSize > 0 => Len(sent[i]) <= batchSize
        /\ op = "delete" /\ i < Len(sent) /\ Len(sent[i]) # batchSize
             => given[Head(sent[i])] # given[Head(sent[i + 1])]

Reported(cause) == {o \in 0..Len(given) : errs[<<o, cause>>] > 0}

\* The error that is returned tells the truth, object by object, and each
\* thing that went wrong is in it once: an object that is not named was
\* deleted or transferred, whatever happened to the others of its batch.
FailuresReported ==
    pc = "returned" =>
        /\ Sent \subseteq done \cup Reported("request")
        /\ Reported("after") = afterFailed
        /\ iterErr /\ op = "delete" => Reported("iterator") # {}
        /\ \A e \in Errors : errs[e] <= 1

\* "After will run after each iteration during the batch process. This
\* function will be executed whether or not the request was successful."
\* (batch.go 261-262): once for each object, in order and after its request.
AfterRunsOnce ==
    /\ InOrder(ran) /\ ToSet(ran) \subseteq Sent
    /\ Before(ToSet(ran), Sent \ ToSet(ran))
    /\ pc # "after" => ToSet(ran) = Sent

\* A delete that returns nil has deleted all that the caller gave, unless the
\* listing had a page without keys before its end (batch.go 174-178).
NilMeansAll ==
    pc = "returned" /\ op = "delete" /\ nextToken = 0 /\ (\A e \in Errors : errs[e] = 0)
        => done = (1..Len(given)) \ prefixes

\* What there is to do: objects to ask the iterator for, objects to send, After
\* functions to run, and where the operation is in the turn of its loop.
Unsent == Len(carried) + IF pc = "after" THEN 0 ELSE Len(batch)
Turn ==
    CASE pc = "object" -> 7
      [] pc = "next"   -> 3
      [] pc = "list"   -> 2
      [] pc = "after"  -> IF ended THEN 1 ELSE 4
      [] pc = "delete" -> IF ended THEN 0 ELSE 3
      [] pc = "end"    -> 1
      [] OTHER         -> 0
Remaining == 6 * (Len(given) - object) + 3 * Unsent + Len(pending) + Turn

\* An operation does not go on for ever, and none of its loops turns without
\* getting on: no page is listed again and no batch sent again, whatever
\* fails (batch.go 309-343, request_pagination.go 57-67, 89-118).
Progress == [][Remaining' < Remaining]_vars
=============================================================================
