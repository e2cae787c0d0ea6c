---------------------------- MODULE Credentials ----------------------------
(***************************************************************************)
(* The credentials cache: aws/credentials/credentials.go, and the          *)
(* singleflight group it retrieves through,                                *)
(* internal/sync/singleflight/singleflight.go. A Get first looks at the    *)
(* cached value under the read lock of c.m; if that is empty or expired it *)
(* joins the call the group has in its map, or puts a new call there, and  *)
(* waits for the result on a channel of its own. The goroutine of a call   *)
(* looks again and retrieves under the write lock of c.m, and only after   *)
(* it has given that lock up takes g.mu, deletes the call from the map and *)
(* sends the results. So the map has at most one call, and a call, its     *)
(* entry in the map and its list of channels are one variable.             *)
(*                                                                         *)
(* A value is the number of the retrieval it came from. The provider is    *)
(* external: it may expire at any time, and a retrieval may fail or bring  *)
(* a value that has expired.                                               *)
(***************************************************************************)
EXTENDS Integers, FiniteSets

CONSTANTS
    Getters,   \* goroutines that call GetWithContext
    MaxCauses, \* bound: how often there may be a reason to retrieve
    NoGetter   \* not a getter

ASSUME ConstantsAssumption == MaxCauses \in Nat \ {0} /\ NoGetter \notin Getters

VARIABLES
    creds,     \* c.creds
    expired,   \* what c.provider.IsExpired() answers
    call,      \* the call in g.m: stage, result, context and channels
    pc,        \* where each getter is
    resCh,     \* the result in the channel of each getter that waits
    ctxDone,   \* the getters whose context is cancelled
    ret,       \* what the last Get of each getter returned
    retrieved, \* history: retrievals so far
    causes,    \* history: reasons there were to retrieve
    expireAt,  \* history: the last value the Expires so far rule out
    forced     \* history: expireAt when the Get of each getter began

cache == <<creds, expired>>
history == <<retrieved, causes, expireAt, forced>>
vars == <<cache, call, pc, resCh, ctxDone, ret, history>>

Empty == 0
Result(kind, val) == [kind |-> kind, val |-> val]
NoResult == Result("none", Empty)
NoCall == [stage |-> "none", res |-> NoResult, ctx |-> NoGetter, chans |-> {}]

Init ==
    /\ creds = Empty
    /\ expired \in BOOLEAN
    /\ call = NoCall
    /\ pc = [g \in Getters |-> "idle"]
    /\ resCh = [g \in Getters |-> NoResult]
    /\ ctxDone = {}
    /\ ret = [g \in Getters |-> NoResult]
    /\ retrieved = 0 /\ causes = 1
    /\ expireAt = 0
    /\ forced = [g \in Getters |-> 0]

\* isExpiredLocked says no.
Good == creds # Empty /\ ~expired

\* The write lock of c.m is free, and so is the read lock.
Unlocked == call.stage # "retrieves"

\* One more reason to retrieve, when the credentials were good until now.
Spoil ==
    IF Good THEN causes < MaxCauses /\ causes' = causes + 1
            ELSE UNCHANGED causes

-----------------------------------------------------------------------------
(* GetWithContext. *)

\* done: the context is done from the beginning.
Get(g, done) ==
    /\ pc[g] = "idle"
    /\ pc' = [pc EXCEPT ![g] = "check"]
    /\ ctxDone' = IF done THEN ctxDone \cup {g} ELSE ctxDone \ {g}
    /\ resCh' = [resCh EXCEPT ![g] = NoResult]
    /\ ret' = [ret EXCEPT ![g] = NoResult]
    /\ forced' = [forced EXCEPT ![g] = expireAt]
    /\ UNCHANGED <<cache, call, retrieved, causes, expireAt>>

Return(g, r) ==
    /\ pc' = [pc EXCEPT ![g] = "idle"]
    /\ ret' = [ret EXCEPT ![g] = r]

\* asyncIsExpired, and the first select finds its answer.
asyncIsExpired(g) ==
    /\ pc[g] = "check"
    /\ Unlocked
    /\ IF Good THEN Return(g, Result("creds", creds))
               ELSE pc' = [pc EXCEPT ![g] = "join"] /\ UNCHANGED ret
    /\ UNCHANGED <<cache, call, resCh, ctxDone, history>>

\* The call in the map, with the channel of g added; a new one if there is none.
DoChan(g) ==
    /\ pc[g] = "join"
    /\ pc' = [pc EXCEPT ![g] = "wait"]
    /\ call' = IF call = NoCall
                 THEN [stage |-> "starts", res |-> NoResult, ctx |-> g, chans |-> {g}]
                 ELSE [call EXCEPT !.chans = @ \cup {g}]
    /\ UNCHANGED <<cache, resCh, ctxDone, ret, history>>

\* The second select finds the result.
Receive(g) ==
    /\ pc[g] = "wait" /\ resCh[g] # NoResult
    /\ Return(g, resCh[g])
    /\ resCh' = [resCh EXCEPT ![g] = NoResult]
    /\ UNCHANGED <<cache, call, ctxDone, history>>

\* Either select finds the context done. What the goroutine of asyncIsExpired
\* or the call still sends stays in the buffer of a channel nobody reads.
Canceled(g) ==
    /\ pc[g] \in {"check", "wait"} /\ g \in ctxDone
    /\ Return(g, Result("canceled", Empty))
    /\ UNCHANGED <<cache, call, resCh, ctxDone, history>>

-----------------------------------------------------------------------------
(* doCall and singleRetrieve. *)

\* The call while the provider is asked, and when singleRetrieve has returned r.
Retrieves == [call EXCEPT !.stage = "retrieves"]
Returned(r) == [stage |-> "returned", res |-> r, ctx |-> call.ctx, chans |-> call.chans]

\* Mutant of singleRetrieve: without the second look.
RetrieveAnyway ==
    /\ call.stage = "starts"
    /\ call' = Retrieves
    /\ retrieved' = retrieved + 1
    /\ UNCHANGED <<cache, pc, resCh, ctxDone, ret, causes, expireAt, forced>>

\* singleRetrieve gets the lock and looks again.
singleRetrieve ==
    /\ call.stage = "starts"
    /\ IF Good
         THEN /\ call' = Returned(Result("creds", creds))
              /\ UNCHANGED retrieved
         ELSE /\ call' = Retrieves
              /\ retrieved' = retrieved + 1
    /\ UNCHANGED <<cache, pc, resCh, ctxDone, ret, causes, expireAt, forced>>

\* The provider returns a value, which may have expired already.
RetrieveSucceeds ==
    /\ call.stage = "retrieves"
    /\ creds' = retrieved
    /\ \/ expired' = FALSE /\ UNCHANGED causes
       \/ expired' = TRUE /\ causes < MaxCauses /\ causes' = causes + 1
    /\ call' = Returned(Result("creds", retrieved))
    /\ UNCHANGED <<pc, resCh, ctxDone, ret, retrieved, expireAt, forced>>

\* Mutant of RetrieveErrors: the context is passed on as it is.
ErrorsOfContext(g) == IF g \in ctxDone THEN {"error", "canceled"} ELSE {"error"}

\* The errors a retrieval under the context of g may end with: that context is
\* suppressed, so its end is not among them.
RetrieveErrors(g) == {"error"}

\* A provider that fails may have lost the credentials it had (chain_provider.go 81).
RetrieveFails ==
    /\ call.stage = "retrieves"
    /\ expired' \in {expired, TRUE}
    /\ \E e \in RetrieveErrors(call.ctx) :
          call' = Returned(Result(e, Empty))
    /\ causes < MaxCauses /\ causes' = causes + 1
    /\ UNCHANGED <<creds, pc, resCh, ctxDone, ret, retrieved, expireAt, forced>>

\* Mutant of ChanCap: channels without a buffer.
NoChanCap == 0

\* How many results a channel of DoChan holds that nobody receives.
ChanCap == 1

\* doCall, with g.mu: the call leaves the map and its result goes to every
\* channel, those of the getters that are gone included.
doCall ==
    /\ call.stage = "returned"
    /\ ChanCap > 0 \/ \A g \in call.chans : pc[g] = "wait"
    /\ resCh' = [g \in Getters |->
                    IF g \in call.chans /\ pc[g] = "wait" THEN call.res ELSE resCh[g]]
    /\ call' = NoCall
    /\ UNCHANGED <<cache, pc, ctxDone, ret, history>>

-----------------------------------------------------------------------------
(* Expire, and what happens outside. *)

\* The call in the map has its value, and a Get that begins now may join it
\* and be given that value, Expire or not (singleflight.go 97-103).
Overtaken == call.stage = "returned" /\ call.res.kind = "creds"

\* Mutant of Expire: only the provider is told.
ExpireKeeps ==
    /\ Unlocked
    /\ Spoil
    /\ expireAt' = IF Overtaken THEN call.res.val - 1 ELSE retrieved
    /\ UNCHANGED <<cache, call, pc, resCh, ctxDone, ret, retrieved, forced>>

Expire ==
    /\ Unlocked
    /\ Spoil
    /\ creds' = Empty
    /\ expireAt' = IF Overtaken THEN call.res.val - 1 ELSE retrieved
    /\ UNCHANGED <<expired, call, pc, resCh, ctxDone, ret, retrieved, forced>>

ProviderExpires ==
    /\ ~expired
    /\ Spoil
    /\ expired' = TRUE
    /\ UNCHANGED <<creds, call, pc, resCh, ctxDone, ret, retrieved, expireAt, forced>>

Cancel(g) ==
    /\ pc[g] # "idle"
    /\ g \notin ctxDone
    /\ ctxDone' = ctxDone \cup {g}
    /\ UNCHANGED <<cache, call, pc, resCh, ret, history>>

-----------------------------------------------------------------------------

CallStep == singleRetrieve \/ RetrieveSucceeds \/ RetrieveFails \/ doCall

Next ==
    \/ \E g \in Getters :
          (\E done \in BOOLEAN : Get(g, done)) \/ asyncIsExpired(g) \/ DoChan(g) \/ Receive(g) \/ Canceled(g) \/ Cancel(g)
    \/ CallStep
    \/ Expire
    \/ ProviderExpires

Spec == Init /\ [][Next]_vars

\* Goroutines run, a waiting reader of c.m gets in when its writer is done, and
\* Retrieve returns. Nobody has to cancel, and Receive is owed to those who wait.
Fairness ==
    /\ \A g \in Getters : SF_vars(asyncIsExpired(g)) /\ WF_vars(DoChan(g)) /\ WF_vars(Receive(g))
    /\ WF_vars(CallStep)

FairSpec == Spec /\ Fairness

-----------------------------------------------------------------------------
(* What the cache promises. *)

Kinds == {"creds", "error", "canceled"}

TypeOK ==
    /\ creds \in Nat /\ expired \in BOOLEAN
    /\ call \in [stage : {"none", "starts", "retrieves", "returned"},
                 res : [kind : Kinds \cup {"none"}, val : Nat],
                 ctx : Getters \cup {NoGetter}, chans : SUBSET Getters]
    /\ pc \in [Getters -> {"idle", "check", "join", "wait"}]
    /\ resCh \in [Getters -> [kind : Kinds \cup {"none"}, val : Nat]]
    /\ ctxDone \subseteq Getters
    /\ ret \in [Getters -> [kind : Kinds \cup {"none"}, val : Nat]]
    /\ retrieved \in Nat /\ causes \in Nat /\ expireAt \in Int
    /\ forced \in [Getters -> Int]

\* However many goroutines find the credentials expired together, the provider
\* is asked once for each reason there was to ask: an empty cache, an Expire, an
\* expiry, a failure (the second look of credentials.go 284).
RetrievesJustified == retrieved <= causes

\* A Get ends as cancelled only if its own context is: not because the first
\* getter of the call it shares was cancelled (credentials.go 265-267).
OwnCancelOnly ==
    \A g \in Getters : ret[g].kind = "canceled" => g \in ctxDone

\* Every Get returns, also when getters of the same call are cancelled
\* before its result is sent.
GetReturns == \A g \in Getters : pc[g] # "idle" ~> pc[g] = "idle"

\* A Get that begins after Expire does not return what was retrieved before it,
\* except for the value of a call that had retrieved and was still in the map:
\* Expire does not take that away, although "Expire expires the credentials and
\* forces them to be retrieved on the next call to Get()" (credentials.go 315).
ExpireForces ==
    \A g \in Getters : ret[g].kind = "creds" => ret[g].val > forced[g]
=============================================================================
