# IBM COS SDK for Go: a formal model

TLA+ specifications of the concurrent and failure-handling core of this
repository, configurations that model-check them with TLC on small instances, and
theorems about them that the TLAPS proof system checks for every value of the
constants. File names below are relative to `src/` of the repository. Line numbers
are those of the commit the models were written from.

Contents: [1 The system](#1-the-system) ·
[2 The modules](#2-the-modules-and-the-code) ·
[3 The runs](#3-the-runs) · [4 Fairness](#4-fairness) ·
[5 What is proved](#5-what-is-proved) ·
[6 Disagreements](#6-where-the-code-and-its-documentation-disagree) ·
[7 What is not modelled](#7-what-is-not-modelled) ·
[8 The plan](#8-the-plan)

## 1 The system

The SDK is a library. Most of its lines are generated (the operations of S3 and KMS,
the tables of endpoints, the code of the generator's own tests) or pure (marshalling,
configuration). Its own logic, and everything that is hard to test in it, is in the
parts through which an object gets from the caller to the service and back:

```
             UploadWithIterator, BatchDelete, DownloadWithIterator  (one object or batch at a time)
                        │                              │
   caller ──> Uploader ─┬─ workers ──┐            ┌── Downloader ─ workers <── caller
                        │            │            │
              SlicePool (buffers)    └──> Request <┘  (one per call of the service)
                                            │  ├── offsetReader ── net/http goroutines
                                            │  └── Retryer, AfterRetry (may expire the credentials)
                                            v
                                   router, signers
                                            v
                                      Credentials ── singleflight
                                            v
                 ChainProvider ── IAM Provider ── TokenManager ── timer goroutine
                        │                              v
                  other providers                 HTTP client ── IAM
```

| part | state it keeps | operations | what it interacts with |
|---|---|---|---|
| **part buffer pool** `s3manager/pool.go` | three channels (idle buffers, permits, wake-up tokens), `max`, an RWMutex | `Get`, `Put`, `ModifyCapacity`, `Close` | shared by all uploads of an Uploader, private to one when the part size differs |
| **Uploader** `s3manager/upload.go` | reader position, channel of chunks, `err`, list of parts, the multipart upload on the service | `UploadWithContext`; per worker `readChunk` | pool (buffers), service (Create, UploadPart, Complete, Abort, PutObject), the caller's body and context |
| **Downloader** `s3manager/download.go` | `pos`, `totalBytes`, `written`, `err`, channel of chunks | `DownloadWithContext`; per worker `downloadPart` | service (ranged GETs), the caller's `io.WriterAt` |
| **batch operations** `s3manager/batch.go`, `aws/request/request_pagination.go` | the batch being made, the object that opens the next, the errors; the page and its token | `BatchDelete.Delete`, `UploadWithIterator`, `DownloadWithIterator`; `Next` of the iterators | the managers, DeleteObjects, ListObjects |
| **request life cycle** `aws/request`, `aws/corehandlers` | `Error`, `RetryCount`, `Retryable`, body and its start, the current `offsetReader` | `Send` (Sign, Send, Retry, AfterRetry, `prepareRetry`), `GetBody` | net/http, which may go on reading the body after it answered; the caller's context |
| **router and signers** `aws/signer` | none | `delegateRequestToSigner`, the signers of IAM and v4 | ask the credentials for their type, then again for the keys |
| **credentials cache** `aws/credentials`, `internal/sync/singleflight` | the cached value, an RWMutex, the call in the group and its channels | `GetWithContext`, `Expire` | one provider, which may be a chain; the request life cycle expires it |
| **credential providers** `aws/credentials`, `ibmiam` | the current provider of a chain; an error | `Retrieve`, `IsExpired` | the token manager |
| **IAM token manager** `ibmiam/tokenmanager/token_manager.go` | one token, an RWMutex, a timer, the switch of the background refresh | `Get`, `Refresh`, `Stop…`/`StartBackgroundRefresh`, the timer's callback | the HTTP client; the clock |
| **IAM HTTP client** `ibmiam/tokenmanager/client.go` | the request and how often it was tried | `Do` | IAM |
| waiters, upload and download buffers, EC2 metadata, session, configuration, endpoints, protocols, generated clients, encryption client | a counter, a configuration, or none | loops and handlers of one request, pure functions | the request life cycle |

What is hard about each, and what makes it correct:

* **Pool.** `Get` looks at two channels under a read lock, then waits on a third
  without it, while `ModifyCapacity` replaces all three. Capacity is taken back while
  its buffers are out. Correct: capacity is never lost, nothing blocks with the
  write lock taken, memory is bounded, and nobody waits while a buffer lies idle.
* **Uploader.** A producer and `Concurrency` workers meet on a channel and on the
  buffers; any request may fail or lose its answer; the context may end at any
  point. Correct: the object is the body or absent; nothing is sent after Complete
  or Abort; every buffer goes back; the call returns; parts are not left behind; the
  cutting of the body respects the limits.
* **Downloader.** The same shape in the other direction, with the size learned on
  the way and bodies that break off. Correct: what was written without an error is
  the object; what is counted is written; nobody writes after the return.
* **Batch.** One object of look-ahead that belongs to the next batch, requests that
  fail in part, iterators that fail, pages without keys. Correct: each object is in one
  request, with its own bucket; each failure is told once; each `After` runs once; nil
  means that all of it was done.
* **Request.** The goroutines of net/http share the caller's reader with the next
  try. Correct: each try sends the body from its start; success means all of it was
  sent; tries are bounded; a cancellation is final; `Send` returns.
* **Credentials.** Goroutines that find the value expired together share one
  retrieval. Correct: the provider is asked only when there is a reason; a
  cancellation stays with its caller; `Get` returns; `Expire` is obeyed.
* **Requests with credentials.** A request asks for credentials twice for each try, and
  another request may expire or change them in between. Correct: the signature is of the
  type of the credentials, unless those the router saw expired before the signer asked
  (section 6); a retry after an expired-token error has new ones.
* **Token manager.** Lock escalation with a second look, a timer that is stopped
  and set on many paths, callbacks that were on their way when it was stopped; a client
  whose retries consume their body. Correct: one request at a time and only when
  needed; the timer is never lost and never left on; tokens are renewed in the
  background; `Get` returns a token or an error; the init function is for a refresh
  token that was refused.

The hazards, each at its line with the properties that cover it, are `hazards` in
`PROJECT.json`. Smaller ones that no module reaches: a failed signature renewal whose
request is sent all the same (handlers.go 83); the body of an answer that stays open
when the rewind fails (request.go 583); a redirect that resends only what is left of
a body that cannot seek (request_1_8.go 36); the goroutine of a timed-out read that
writes into a buffer its caller has back (timeout_read_closer.go 35).

## 2 The modules and the code

Each definition that models code is listed under `map` in `PROJECT.json` with its
lines. Definitions have the source's names where TLA+ allows. Each module ends with
the properties it promises. A definition that begins with the comment "Mutant of" is
a plausible mistake in the definition it names; it is used only to see that a
property would notice.

### SlicePool, BoundedPool (pool.go)

The lengths of the three channels, `max`, where each goroutine is in `Get` or `Put`,
and which capacityChange channel it has in hand (still open, or closed by a resize).
One action per lock or channel operation: `GetCall` (context first), `GetSlice` and
`GetAllocation` (the two selects under the read lock), `GetWait` (the third,
without it), `PutSlice`, `notifyCapacity`, `ModifyCapacity` behind `Open` and
`Close`. `CanRLock`/`CanLock` are the rules of `sync.RWMutex`, an announced writer
keeping new readers out included. A `select` with several ready cases takes any of
them. `OpenLock`, `CloseLock` and `Quiet` are how the Uploader uses a pool:
`Close` is deferred until after `wg.Wait`. Each behaviour chooses whether the pool is
shared by the uploads, so that `Close` gives back what the upload added
(`returnCapacityPoolCloser`), or `private` to one of them, so that it empties the pool.

`BoundedPool` is all an upload needs to know of a pool of its own: a counter that
never passes its capacity. `SlicePool` implements it (`BoundedPoolSpec`), and
`Uploader` uses exactly that: the guard `BufferFree` and the set `buffers`.

### UploadParts, Uploader, AtomicUpload (upload.go)

`UploadParts` is the arithmetic of `initSize` and `nextReader`, in bytes and for any
sizes. `Uploader` is one call: the caller's goroutine (`FirstRead`, `singlePart`,
`CreateMultipartUpload`, `Queue`, `Loop`, `NextChunk`, `Close`, `Wait`,
`CompleteMultipartUpload`, `fail`), the workers (`Receive`, `CheckError`, `send`,
`seterr`, `cleanup`), and a service that may store and answer, store and lose the
answer, or refuse. A chunk is its part number, a body is its size, the way it is
read (at offsets; into buffers, size known or not), whether its `io.EOF` comes with
the last bytes, and which read fails. `Refused` is every return of `init` and the
check of the part size. `AtomicUpload` is the promise to the caller: the object
appears in one step and whole, or not at all, and success is reported only for an
object that is there. `AtomicSpec` is that refinement.

### Downloader (download.go)

One call: `getChunk` for the first chunk, then either the loop that assigns chunks
(`AssignChunk`, `SendChunk`, `CloseChannel`, `Wait`) or, with an unknown size, the caller alone until
a 416 (`AloneDone`); `downloadRange` when the caller gave a range. Every goroutine
runs `downloadChunk`: `GetObject`, `CopyBody` (all of the body, or a part of it and a
retry), `incrWritten`, `setErr`. Byte number b has the value b, so the set `w` of
pairs (offset, byte) shows a misplaced byte.

### Batch (batch.go, request_pagination.go)

One operation over one iterator: a slice (`NextOfSlice`), the caller's own, which may
fail (`NextFails`), or the listing of a bucket (`NextOfList`, `ListAnswers`,
`ListFails`), where a page may end after any entry and hold common prefixes only. For a
delete, `Queue` puts the object in the batch or, when it differs (`hasParity`),
carries it over; `DeleteAnswers` and `DeleteFails` are what DeleteObjects may say;
`AfterRuns` goes through the objects of the batch, `NextBatch` and `End` go on. For
the managers' iterators, `Transfer` is one upload or download. The page of the listing
is the set of its objects that are left (`contents`), and the errors collected are how
often each object has each cause (`errs`); the order of the errors is not looked at.
The steps are sequential: what there is to get wrong is the data carried from one to
the next. `Remaining` measures what an operation has left to do.

### Request (request.go, handlers.go, retryer.go, offset_reader.go)

The loop of `Send` in the places `sign`, `send`, `do`, `retry`, `sleep`, `close`,
`rewind`: `Sign`, `SendHandlers`, the outcomes of `Do` (`DoFails`, `Answered`,
`Accepted`, `Hop`), `AfterRetry` with `ShouldRetry` and `WillRetry`, `Sleep` or
`SleepCancelled`, then `prepareRetry` with `CloseBody` and `NewReader` or
`SeekFails`. `Hop` is net/http asking `GetBody` for the body again (a redirect, a
new connection): the same `getNextRequestBody` inside `Do`. Beside it the
goroutines of net/http `Read` from any offsetReader they were given, also long after
`Do` returned, all from the one reader of the caller (`pos`); `closed` is what makes that safe.

### Credentials (credentials.go, singleflight.go)

`Get`, `asyncIsExpired`, `DoChan`, `Receive`, `Canceled` of a getter;
`singleRetrieve`, `RetrieveSucceeds`/`RetrieveFails`, `doCall` of the call; `Expire`.
The map has one key, so the call is one variable. A value is the number of the
retrieval it came from; `causes` counts the reasons there were to ask the provider.

### SignedRequests (the composition: request.go, handlers.go, signer_router.go, chain_provider.go, common.go)

Extends `Credentials`: its getters are requests. `Build` is the `Get` of
`ValidateEndpointHandler`, `Route` that of the router, `Sign` that of the signer it
chose, `SendTry` the try; then the service answers (`Answered`), fails (`Retried`) or
refuses the keys (`RefusedAsExpired`), after which `ExpireLocally` is `Expire` by
`AfterRetryHandler`. The provider of the cache is here a chain: `IAMRetrieves` gives
the token the token manager has, or a new one; `HmacRetrieves` is the fall-back to
static keys; `OtherRetrieves` stands for a provider whose keys expire; `ChainFails`
when none has any. Each action contains the whole action of `Credentials` it causes,
so `SignedSpec` implements the specification of the cache (proved, see section 5).

### TokenManager (token_manager.go, client.go)

One step for what `Get` does under the read lock; `retrieveInit`, `retrieveFetch`,
`Refresh`, `StopBackgroundRefresh`, `StartBackgroundRefresh`,
`backgroundRefreshFunc` for what a goroutine does when it is granted the write lock;
the answers of IAM while it has it. A token is the time at which it expires. The
timer is absent, stopped or armed for a time; a callback that was started before a
stop still runs. `request` is the request of the client under the lock: how often it
was retried and whether a try has read its form, which the copy of `copyRequest` then
lacks. `Owners` are the callers that use the methods other than `Get`.

### The modules that hold proofs, and the instances

`SlicePoolProofs`, `UploaderProofs` (with the arithmetic of `UploadParts`),
`DownloaderProofs`, `RequestProofs`, `CredentialsProofs`, `SignedProofs`,
`TokenManagerProofs` and `BatchProofs` extend their component and hold nothing else
but its proofs. The `MC…` modules define the
values TLC gives the constants.

## 3 The runs

`tlc -config X.cfg MCModule` runs one. Sizes are distinct states.

| run | instance | states | shows |
|---|---|---|---|
| `pool` | 2 uploads, capacities 1 and 2, a getter and a putter each, sharing the pool or one alone with it, any context cancelled | 35 k | `CapacityKept`, `ChannelsFit`, `CapacityReturned`, `BoundedPoolSpec`, `CapacityModified`, `SlicesNotified` |
| `uploader` | 2 workers, streams of 0 to 4 chunks and sized bodies, limit of 3 parts | 536 k | `ObjectIsBody`, `AtomicSpec`, `QuietAtEnd`, `BuffersReturned`, `PartsWithinLimit`, `KnownSizeFits`, `NoPartsLeft`, `CallReturns` |
| `downloader` | 2 workers, objects of 0, 1, 2, 5 and 11 bytes in parts of 2, one retry | 849 k | `WholeObject`, `CountedIsWritten`, `QuietAtEnd`, `EndIsNoError`, `CallReturns` |
| `batch` | up to 4 objects of 2 classes, batch sizes 0 to 3, pages of up to 2 entries | 1,015 k | `EachSentOnce`, `BatchesFit`, `FailuresReported`, `AfterRunsOnce`, `NilMeansAll`, `Progress` |
| `request` | 2 retries, 1 hop, five bodies | 184 k | `EachTryFromTheStart`, `AcceptedIsWhole`, `TriesBounded`, `CancelIsFinal`, `SendReturns` |
| `signed` | 2 requests, 3 tries together, a chain of IAM and static keys, a provider whose keys expire, one context that ends | 660 k | `RetrievesJustified`, `OwnCancelOnly`, `ExpireForces`, `SignerFits`, `SendReturns` |
| `token_manager` | 2 callers, 1 callback, a clock of 5, one retry of the client | 31 k | `TokenWatched`, `StopDisarms`, `RefreshNeeded`, `GetReturns`, `TokenRenewed` |
| `uploader_abort` | as `uploader`, smaller | 23 k | **violation** of `FailAborts` |
| `token_manager_loop` | the init function may fail for ever | 49 k | **violation** of `GetReturns` |
| `token_manager_nil` | tokens that are short-lived | 130 | **violation** of `TokenOrError` |
| `token_manager_client` | one caller, a client with one retry | 85 | **violation** of `InitMeansRefused` |
| `signed_retry` | one request, IAM alone | 221 | **violation** of `RetryHasNewKeys` |

Every property of a passing run is broken by at least one mutant of the code it is
about (`mutants` in `PROJECT.json`). The type invariants are proved instead of run.
A violation run stops at its counterexample, and its size depends on the search.

### Bounds, and why they are enough

* *Two workers, two requests, two uploads.* Each component has one shared thing (a
  channel, a lock, a call); its races are between two goroutines and the owner of
  the thing. Two workers can each hold a chunk while two more are queued and the
  producer waits with a fifth: four chunks of a stream reach that, and the pool of
  three buffers is exhausted before. In `signed` one request has two tries, so that the
  other can expire or change the credentials between the looks of its second; the other
  was built before (`Built`) and is the one whose context may end (`MayEnd`).
* *Chunks.* Bodies end empty, in the middle of a chunk, at its end with the `EOF`, or at its
  end with the `EOF` alone; any read may fail; the limit of three parts lies
  below the longest stream. Sized bodies of 7 and 8 bytes have their parts enlarged
  with and without a remainder. An object of 11 bytes in parts of 2 has six chunks.
* *Retries.* One retry of a body and two of a request show a second failure after a
  first, and the last allowed one. One retry of the IAM client (`MaxRetries`) is where
  its copy first differs from the request.
* *Batches.* Four objects (`MaxGiven`) fill a batch of one, two or three and open the
  next; with two classes a batch ends by its size, by a difference, by both at
  once, or with the iterator. Two entries in a page (`MaxKeys`) make pages with keys,
  with prefixes, with both.
* *`MaxHops`, `MaxCauses`, `MaxTokens`, `MaxNow`* bound counters the code does not: how often
  net/http asks for the body again, how often there is a reason to retrieve (20, which the
  Gets of `signed` do not reach), the tokens IAM gives, and the clock. At `MaxNow` the
  clock stops and what is due later fires: a token that lives 5 units on a clock of 5 is
  fetched, gets old, and is renewed.
* *`Owners`* is one of the two callers of the token manager: the other only calls
  `Get`. Methods that meet are met by the callback too, and the theorems of section 5 are for
  any number of both.

Runs with `CHECK_DEADLOCK FALSE` are those of systems that stop: a call of the
managers, a batch and a `Send` end, and goroutines of the token manager may all have
panicked.

## 4 Fairness

* *Goroutines run*: weak fairness of each goroutine's next step, in every module.
* *Mutexes*: a goroutine that waits for an `RWMutex` gets it although others pass
  it by meanwhile: strong fairness of the steps that take a lock (`CallsFair` of the pool,
  `Granted` of the token manager, the steps of a request in `SignedFairness`).
  `sync.RWMutex` guarantees it: readers that wait when a writer leaves go before the
  next writer.
* *Requests end*, with an answer or an error, and nothing says which: weak fairness of
  the outcomes together. `Request` owes nothing to the goroutines of net/http: they
  may read on for ever, and `SendReturns` holds all the same.
* *Uploads end*: an upload one of whose `Get`s failed closes its pool
  (`CloseAfterError`), which is what wakes the others in `pool`. `PoolSpec` alone
  does not have it.
* *IAM recovers* (`RecoverySpec`) is assumed in `token_manager` and not in
  `token_manager_loop`: the first asks whether the manager gets a token when IAM
  gives one, the second whether a caller gets an answer when it does not.
* Nothing is owed by callers: nobody has to call, to cancel or to expire.

## 5 What is proved

`tlapm X.tla` checks the proofs of module X. The only assumptions are the named
`ASSUME`s of the modules, which TLC also evaluates in each run: the constants have
their types, sets of workers are finite and not empty, a private pool has one owner,
bodies are well-formed, part size and part limit are positive.

* **SlicePoolProofs**, for any uploads, goroutines and capacities: `TypeOK` (no
  length or capacity falls below zero), `CapacityKept`, `ChannelsFit`, the memory
  bound of a private pool, and that it implements `BoundedPool`. *Argument:* the
  counters alone are inductive for a shared pool (`ResizeKeepsCapacity` is the one
  lemma about arithmetic). For a private one `PrivateInv` adds what the pool knows of
  its only upload: the buffers out are the ones it holds, and it closes when quiet, so that
  emptying the channels loses nothing. `CapacityReturned` needs more: the capacity of a
  shared pool is the *sum* of what the running uploads added, and the buffers out are
  the sum of those they hold (`SumInv`, with `QuietInv`: an upload that does not run has
  nothing in the pool). A sum over a set of unknown size is recursive, and a proof about
  it an induction, so the sum is stated as the cardinality of a set that has as many
  units of each upload as it adds (`Units`); a unit more or less is then one element.
  `NoWakeUpLost` is what safety there is in `SlicesNotified`: `WakeInv` counts a wake-up
  for each idle buffer while some `Get` has found none, be it in the channel, with a `Put`
  that is about to send it, or with a `Get` that looks again or has failed.
* **UploaderProofs**. The arithmetic of `UploadParts`, for any sizes: the part size only
  grows, after `initSize` the last read that is allowed reaches the end of the body
  (`KnownSizeIsCut`), and the reads are disjoint, in order, and cover each byte
  (`ReadsTileTheBody`). It is non-linear; `DivisionBounds` and `ProductOrder` are the
  two facts the solver is given. The upload, for any number of workers, any limit and
  any bodies: `TypeOK`, `ObjectIsBody`, `QuietAtEnd`, `BuffersReturned`, `PartsWithinLimit`,
  `KnownSizeFits`, `NoPartsLeft`, and `AtomicSpec`. *Argument:* a chunk is in one place at a time.
  `QueueInv`: the channel has the chunks that follow those that were taken.
  `ChunkInv`: a chunk that was taken is with one worker or in the list of parts,
  once, as long as no error was noted. `PhaseInv`: nothing happened before the
  upload was created and all is quiet after the wait. `ReaderInv`: when the loop ended
  without an error nothing is left of the body. `BufferInv`: a buffer belongs to a
  chunk on its way. Together, at Complete, the list is a permutation of all
  chunks, and sorting it gives the body (`PartsMakeTheBody`): that is the half of
  `ObjectIsBody` about the list, and `WholeOrAbsent` is the half about the object. `ServiceInv` adds what the service has: parts only in an
  upload that is open, and no worker sends one once the producer has passed the wait, so
  an abort that succeeds is the last word (`NoPartsLeft`).
* **DownloaderProofs**, for any number of workers and retries, any part size and
  objects: `TypeOK`, `WholeObject`, `CountedIsWritten`, `QuietAtEnd`, `EndIsNoError`.
  *Argument:* a byte waits while its chunk is not cut, is queued, or is with a
  goroutine that has not counted it; a byte that was copied and does not wait is
  settled. `CountInv`: the count never exceeds the settled bytes, and while nothing has
  failed it is their number and every byte is copied or waits. That counting a chunk
  settles exactly its bytes is `OrderInv`: chunks that wait do not overlap. `CopyInv`:
  only bytes of the object are in w, each at its offset, whatever was tried again.
  `StageInv` and `PosInv` say that at the end nobody holds anything and the position
  has passed the size, so nothing waits. `ErrInv`: a 416 comes only to the caller,
  past the end, when nothing else has failed.
* **RequestProofs**, for any bodies, retries and hops: `TypeOK`,
  `EachTryFromTheStart`, `AcceptedIsWhole`, `TriesBounded`, `CancelIsFinal`.
  *Argument:* `OneOpen`: only the newest offsetReader can be open, and while it is,
  the caller's reader stands where it left off, so old goroutines cannot move it.
  `WholeOrOpen`: in `Do`, net/http has an open reader or has read to the end, and a
  request without a body moves nothing.
  `ReadersCounted` and `TriesCounted` tie the readers and the tries to the retry
  count. `ErrorKept`: from a failure to its retry there is an error, and a late try
  has the one that is not retried. `SendEnds` is what safety there is in `SendReturns`: each
  step of `Send` makes `Left`, a number, less, and no goroutine of net/http adds to it.
* **CredentialsProofs**, for any number of goroutines and of reasons to retrieve:
  `TypeOK`, `RetrievesJustified`, `OwnCancelOnly`, `ExpireForces`. *Argument:*
  `CausesLeft`: while the value is bad and nobody retrieves, there is one reason more
  than there were retrievals, and the second look of `singleRetrieve` uses it up under
  the lock. `SharedNotCanceled`: no result a call sends to its channels is a
  cancellation, since the context of its first getter is suppressed. `NothingRuledOut`:
  wherever a value is that a `Get` may still return, it is newer than what the `Expire`s
  before that `Get` rule out; a call that `Expire` overtook counts as new (`Overtaken`).
  `NoGetterForgotten`: a getter that waits has its result, or is among the channels of the
  call in the map (`CallInv`); that the call gets on is left to `GetReturns`.
* **SignedProofs**: every step of `SignedRequests` is a step of `Credentials` or leaves
  the cache alone (`SignedUsesCache`), for any chains and any tries, so the theorems
  of the cache hold of the requests: `RetrievesJustified`, `OwnCancelOnly`, `ExpireForces`.
  `SignerFits` is a property of the cache and the chain together. *Argument:* `RouterInv`:
  static keys that nobody expired are the last that were retrieved, so nothing newer can
  come between the look of the router and that of the signer; and nothing older either,
  since a call leaves the map before the next one retrieves (`CameInOrder`).
* **TokenManagerProofs**, for any callers, callbacks and lifetimes: `TypeOK`,
  `TokenWatched`, `StopDisarms`, `RefreshNeeded`, and that one goroutine at most is in a
  request (`OneRequest`). *Argument:* a goroutine is in a request to IAM or in the init
  function exactly while it has the write lock (`OneRequest`), and there is a token
  wherever one is dereferenced, and wherever a timer is armed (`HasToken`). So each
  release of the lock can be looked at alone: it leaves the timer armed, a callback on
  its way, or nothing to refresh.
* **BatchProofs**, for any number of objects, classes, batch sizes and pages: `TypeOK`,
  `EachSentOnce`, `BatchesFit`, `FailuresReported`, `AfterRunsOnce`, `NilMeansAll`,
  `Progress`. *Argument:* `OrderInv`: what the iterator has yielded is in a request, in
  the batch, carried over, or in hand, in this order. `IteratorInv`: where the iterator
  of a slice stands is the object, and what is left of a page are the keys from it to the
  end of the page. `BatchInv`: why the batch was cut where it was, which decides how the next
  one begins. `AfterInv` and `ErrorInv` do the same for the After functions and the errors.
  `ControlInv` says what each place of the loop implies. None of it is an induction over
  sequences: each step appends one object or takes one, and `AppendFacts`, `TailFacts` and
  `SmallFacts` are all that is used of them. `AlwaysProgress` shows termination without
  fairness: `Remaining` is a number, and each step makes it less. The weights say why: an
  object that is yielded pays for its turn through the batch and its After function.

The type invariants, `OneRequest`, `MemoryBounded`, `NoWakeUpLost`, `NobodyForgotten` and `SendGetsOn` are
proved only; each other property these theorems are about is also checked by a run, and the arithmetic of
`UploadParts` is checked through `KnownSizeFits` and `ObjectIsBody`.

Only model-checked: the liveness properties (`CallReturns`, `SendReturns`,
`GetReturns`, `CapacityModified`, `SlicesNotified`, `TokenRenewed`), since fairness
and ENABLED are outside what the proof system does. Every other property of a passing
run is stated by a theorem.

## 6 Where the code and its documentation disagree

Five runs end in a violation. Each checks one statement of a comment against what
the code does.

1. *upload.go 752, "fail will abort the multipart unless LeavePartsOnError is set
   to true".* The abort is sent with the context of the upload (763), so when that is what
   failed the upload the abort fails before it is sent and the parts stay.
2. *token_manager.go 279, "if not valid does a refresh and then returns it".* When IAM
   refuses the refresh token and then the init function, `refresh` reports success (349),
   and `Get` refreshes again without end, with the write lock taken.
3. The same comment: the second look of `retrieveInit` (228) may find a token that is
   there but too old, and returns neither a token nor an error; the IAM provider
   dereferences it (`ibmiam/common.go` 133).
4. *token_manager.go 345, "Initialize new token when REFRESH TOKEN got invalid".* A
   retry of the client copies a request whose body was read (`client.go` 179), so a lost
   answer becomes an empty form, a 400, and a new login although the refresh token is good.
5. *corehandlers/handlers.go 209, "the next request to get credentials will trigger a
   credentials refresh".* Behind IAM it triggers only a question to the token
   manager, which hands out the refused token again (`ibmiam/common.go` 123): the retries
   are sent with it.

Seen while modelling, without a run of their own:

* A getter of the pool that took the wake-up token may leave with its cancelled
  context, and another waits while a buffer lies idle (pool.go 96). In the Uploader the
  upload whose `Get` failed closes its pool, which wakes it: `SlicesNotified` holds.
* An `Expire` between the unlock of the cache and the deletion of the call from the
  group is overtaken: the next `Get` joins the old call. It is the exception in
  `ExpireForces`.
* `UploadWithIterator` and `DownloadWithIterator` never look at `Err` of their iterator;
  `DeleteListIterator` ends at a page without keys even when more follow (batch.go 169);
  a `BatchDelete` made without its constructor has a `BatchSize` of 0, which bounds
  nothing. They are the exceptions in `FailuresReported`, `NilMeansAll` and
  `BatchesFit`.
* The signer of v4 may be given an IAM token, and signs with its empty keys, when the keys
  for which the router chose it expired, or another request expired them, before the
  signer asked (signer_router.go 84). It is the exception in `SignerFits`.

## 7 What is not modelled

`components` in `PROJECT.json` lists every part with the reason. In short: session,
configuration, endpoints, marshalling, generated clients, the encryption client and
the reading of keys by the credential providers are pure or do I/O without control of
their own, and appear in the models as an outcome (signing fails, the provider fails,
the service refuses); waiters, the optional buffers, the response timeout and the EC2
token provider are small and off the path of an object; code generation, examples and
integration tests are not part of the program. Nine tenths of the repository's lines are
the generated clients of S3 and KMS, the endpoint tables and the generator with its test
services: the share of lines that the `map` names is small for that reason.

Assumptions of the modelled parts:

* `Uploader` starts after `init`. `MaxUploadParts` is at most the 10,000 of S3, as
  its documentation asks for; `Concurrency` is at least 1. A body is read from its
  beginning (see the hazard at upload.go 487). The request options are those of the call
  alone: the slices that `append` may share between workers (upload.go 305, download.go 206)
  are not modelled.
* `Downloader`: the object does not change during the call and the service honours
  ranges; the number of retries of a body is not negative.
* `Batch`: requests are one step each (they are `Request`), iterators are used by one
  goroutine, and what `After` does is only whether it fails.
* `Request`: the delays have no length; a try that begins with a done context is not
  answered (net/http looks at the context first); `SetReaderBody` did not fail; there is
  no `streamingBody` (request.go 450), which only the code of event streams would set and
  no operation of this SDK does; the expiry of credentials after an expired-token error is in `SignedRequests`.
* `SignedRequests`: a try is one step (its inside is `Request`); the token manager is the
  token it has (its inside is `TokenManager`). The IAM provider says of itself that it is
  always expired, so with it the cache never hits and every `Get` is a retrieval.
* `TokenManager`: a Go timer that is reset does not fire for its old time; a call
  that dereferences a nil cache ends that goroutine in the place "panic"; IAM answers
  an empty form with status 400; the delays between tries, and the tries inside the init
  function, have no steps of their own.

## 8 The plan

The order was that of importance: the upload path (pool, cutting, Uploader), the request
life cycle, the credentials cache, the token manager with its client, the Downloader, then
the composition of requests with credentials and the batch operations. All have proofs.

Left to model:

1. *Body with a start*: the hazard at upload.go 487; the caller's reuse of a body
   after `Send` (request.go 527).
2. *Shared options*: the aliasing of the slices of request options at upload.go 305.
3. *Upload and download buffers*, *waiters* and the *EC2 token provider*, if they earn a run.

Left to prove: what safety there is in the other liveness properties, as measures of
what a call has left to do (as `Remaining` of `Batch` and `Left` of `Send`) or as what a
goroutine that waits can count on (as `NoWakeUpLost` of the pool and `NoGetterForgotten` of
the cache), for the Uploader, the Downloader and the token manager.
