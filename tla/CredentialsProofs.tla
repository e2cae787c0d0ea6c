------------------------- MODULE CredentialsProofs -------------------------
(***************************************************************************)
(* What holds of Credentials for any number of getters and any number of   *)
(* reasons to retrieve. That the provider is not asked more often than     *)
(* there was a reason is not inductive: the reason for a retrieval must be *)
(* there before it begins, while the credentials are bad and nobody asks.  *)
(***************************************************************************)
EXTENDS Credentials, TLAPS

\* A reason is left over for the retrieval that bad credentials will cause,
\* and the retrieval that is under way has used up its own.
CausesLeft ==
    /\ retrieved <= causes
    /\ ~Good /\ Unlocked => retrieved < causes
    /\ ~Unlocked => retrieved > 0

\* No result that is shared says that somebody was cancelled.
SharedNotCanceled ==
    /\ call.res.kind # "canceled"
    /\ \A g \in Getters : resCh[g].kind # "canceled"

IInv == TypeOK /\ CausesLeft /\ SharedNotCanceled /\ OwnCancelOnly

USE ConstantsAssumption

-----------------------------------------------------------------------------
(* What DoChan puts in the map and doCall sends. *)

Results == [kind : Kinds \cup {"none"}, val : Nat]

Calls == [stage : {"none", "starts", "retrieves", "returned"}, res : Results,
          ctx : Getters \cup {NoGetter}, chans : SUBSET Getters]

\* A result a Get can return is a result of the call, of the kind it was given.
LEMMA ResultType ==
    ASSUME NEW k \in Kinds, NEW v \in Nat
    PROVE  Result(k, v) \in Results /\ Result(k, v).kind = k
<1>1. k \in Kinds \cup {"none"}
  OBVIOUS
<1> QED
  BY <1>1 DEF Result, Results

\* A call keeps its type from stage to stage.
LEMMA CallAdvances ==
    ASSUME call \in Calls, NEW r \in Results
    PROVE  /\ Retrieves \in Calls
           /\ Retrieves.res = call.res
           /\ Retrieves.stage = "retrieves"
           /\ Returned(r) \in Calls
           /\ Returned(r).res = r
           /\ Returned(r).stage = "returned"
<1>1. Retrieves =
        [stage |-> "retrieves", res |-> call.res, ctx |-> call.ctx, chans |-> call.chans]
  BY DEF Calls, Retrieves
<1>2. call.res \in Results /\ call.ctx \in Getters \cup {NoGetter} /\ call.chans \in SUBSET Getters
  BY DEF Calls
<1> QED
  BY <1>1, <1>2 DEF Calls, Returned

\* The cache starts empty, which is a reason to retrieve.
LEMMA InitIInv == Init => IInv
<1> SUFFICES ASSUME Init PROVE IInv
  OBVIOUS
<1>1. TypeOK
  BY DEF Init, TypeOK, NoCall, NoResult, Result, Kinds, Empty
<1>2. CausesLeft
  BY DEF Init, CausesLeft, Good, Unlocked, NoCall, Empty
<1>3. SharedNotCanceled /\ OwnCancelOnly
  BY DEF Init, SharedNotCanceled, OwnCancelOnly, NoCall, NoResult, Result
<1> QED
  BY <1>1, <1>2, <1>3 DEF IInv

\* The credentials are lost: there is a reason more.
LEMMA SpoilKeepsCauses ==
    ASSUME TypeOK, CausesLeft, Spoil
    PROVE  causes' \in Nat /\ retrieved <= causes' /\ (Unlocked => retrieved < causes')
  BY DEF TypeOK, CausesLeft, Spoil

\* Every step of a getter, of the call they share and of their surroundings
\* keeps the invariant.
LEMMA NextIInv == IInv /\ [Next]_vars => IInv'
<1> SUFFICES ASSUME IInv, [Next]_vars PROVE IInv'
  OBVIOUS
<1> USE DEF IInv
<1>1. CASE UNCHANGED vars
  <2>1. TypeOK'
    BY <1>1 DEF TypeOK, vars, cache, history
  <2>2. CausesLeft'
    BY <1>1 DEF CausesLeft, Good, Unlocked, vars, cache, history
  <2>3. SharedNotCanceled' /\ OwnCancelOnly'
    BY <1>1 DEF SharedNotCanceled, OwnCancelOnly, vars
  <2> QED BY <2>1, <2>2, <2>3
<1>2. ASSUME NEW g \in Getters, NEW done \in BOOLEAN, Get(g, done) PROVE IInv'
  <2>1. TypeOK'
    BY <1>2 DEF Get, TypeOK, NoResult, Result, Kinds, Empty, cache
  <2>2. CausesLeft'
    BY <1>2 DEF Get, CausesLeft, Good, Unlocked, cache
  <2>3. SharedNotCanceled' /\ OwnCancelOnly'
    BY <1>2 DEF Get, SharedNotCanceled, OwnCancelOnly, NoResult, Result, TypeOK
  <2> QED BY <2>1, <2>2, <2>3
<1>3. ASSUME NEW g \in Getters, asyncIsExpired(g) PROVE IInv'
  <2>1. TypeOK'
    <3>1. Result("creds", creds) \in Results
      BY ResultType DEF TypeOK, Kinds
    <3>2. ret \in [Getters -> Results]
      BY DEF TypeOK, Results
    <3>3. ret' \in [Getters -> Results]
      BY <1>3, <3>1, <3>2 DEF asyncIsExpired, Return
    <3>4. pc' \in [Getters -> {"idle", "check", "join", "wait"}]
      BY <1>3 DEF asyncIsExpired, Return, TypeOK
    <3> QED
      BY <1>3, <3>3, <3>4 DEF asyncIsExpired, TypeOK, Results, cache, history
  <2>2. CausesLeft'
    BY <1>3 DEF asyncIsExpired, CausesLeft, Good, Unlocked, cache, history
  <2>3. SharedNotCanceled' /\ OwnCancelOnly'
    BY <1>3 DEF asyncIsExpired, Return, SharedNotCanceled, OwnCancelOnly, Result, TypeOK
  <2> QED BY <2>1, <2>2, <2>3
<1>4. ASSUME NEW g \in Getters, DoChan(g) PROVE IInv'
  <2>1. TypeOK'
    BY <1>4 DEF DoChan, TypeOK, NoResult, Result, Kinds, Empty, cache, history
  <2>2. call'.stage = "retrieves" <=> call.stage = "retrieves"
    BY <1>4 DEF DoChan, NoCall, TypeOK
  <2>3. CausesLeft'
    BY <1>4, <2>2 DEF DoChan, CausesLeft, Good, Unlocked, cache, history
  <2>4. SharedNotCanceled' /\ OwnCancelOnly'
    BY <1>4 DEF DoChan, SharedNotCanceled, OwnCancelOnly, NoResult, Result, TypeOK
  <2> QED BY <2>1, <2>3, <2>4
<1>5. ASSUME NEW g \in Getters, Receive(g) PROVE IInv'
  <2>1. TypeOK'
    BY <1>5 DEF Receive, Return, TypeOK, NoResult, Result, Empty, cache, history
  <2>2. CausesLeft'
    BY <1>5 DEF Receive, CausesLeft, Good, Unlocked, cache, history
  <2>3. SharedNotCanceled' /\ OwnCancelOnly'
    BY <1>5 DEF Receive, Return, SharedNotCanceled, OwnCancelOnly, NoResult, Result, TypeOK
  <2> QED BY <2>1, <2>2, <2>3
<1>6. ASSUME NEW g \in Getters, Canceled(g) PROVE IInv'
  <2>1. TypeOK'
    BY <1>6 DEF Canceled, Return, Result, TypeOK, Kinds, Empty, cache, history
  <2>2. CausesLeft'
    BY <1>6 DEF Canceled, CausesLeft, Good, Unlocked, cache, history
  <2>3. SharedNotCanceled' /\ OwnCancelOnly'
    BY <1>6 DEF Canceled, Return, SharedNotCanceled, OwnCancelOnly, Result, TypeOK
  <2> QED BY <2>1, <2>2, <2>3
<1>7. ASSUME NEW g \in Getters, Cancel(g) PROVE IInv'
  <2>1. TypeOK'
    BY <1>7 DEF Cancel, TypeOK, cache, history
  <2>2. CausesLeft'
    BY <1>7 DEF Cancel, CausesLeft, Good, Unlocked, cache, history
  <2>3. SharedNotCanceled' /\ OwnCancelOnly'
    BY <1>7 DEF Cancel, SharedNotCanceled, OwnCancelOnly
  <2> QED BY <2>1, <2>2, <2>3
<1>8. CASE singleRetrieve
  <2>1. /\ call \in Calls /\ Result("creds", creds) \in Results
        /\ Result("creds", creds).kind = "creds"
    BY ResultType DEF TypeOK, Calls, Results, Kinds
  <2>2. CASE Good
    <3>1. /\ call' = Returned(Result("creds", creds)) /\ retrieved' = retrieved
          /\ call.stage = "starts"
      BY <1>8, <2>2 DEF singleRetrieve
    <3>2. /\ call' \in Calls /\ call'.stage = "returned"
          /\ call'.res = Result("creds", creds)
      BY <2>1, <3>1, CallAdvances
    <3>3. TypeOK'
      BY <1>8, <3>1, <3>2 DEF singleRetrieve, TypeOK, Calls, Results, cache
    <3>4. CausesLeft'
      BY <1>8, <2>2, <3>1, <3>2 DEF singleRetrieve, CausesLeft, Good, Unlocked, cache
    <3>5. SharedNotCanceled' /\ OwnCancelOnly'
      BY <1>8, <2>1, <3>2 DEF singleRetrieve, SharedNotCanceled, OwnCancelOnly
    <3> QED BY <3>3, <3>4, <3>5
  <2>3. CASE ~Good
    <3>1. call' = Retrieves /\ retrieved' = retrieved + 1 /\ call.stage = "starts"
      BY <1>8, <2>3 DEF singleRetrieve
    <3>2. call' \in Calls /\ call'.stage = "retrieves" /\ call'.res = call.res
      BY <2>1, <3>1, CallAdvances
    <3>3. TypeOK'
      BY <1>8, <3>1, <3>2 DEF singleRetrieve, TypeOK, Calls, Results, cache
    <3>4. CausesLeft'
      BY <1>8, <2>3, <3>1, <3>2 DEF singleRetrieve, CausesLeft, Unlocked, TypeOK
    <3>5. SharedNotCanceled' /\ OwnCancelOnly'
      BY <1>8, <3>2 DEF singleRetrieve, SharedNotCanceled, OwnCancelOnly
    <3> QED BY <3>3, <3>4, <3>5
  <2> QED BY <2>2, <2>3
<1>9. CASE RetrieveSucceeds
  <2>1. /\ call \in Calls /\ Result("creds", retrieved) \in Results
        /\ Result("creds", retrieved).kind = "creds"
    BY ResultType DEF TypeOK, Calls, Results, Kinds
  <2>2. /\ call' \in Calls /\ call'.stage = "returned"
        /\ call'.res = Result("creds", retrieved)
    BY <1>9, <2>1, CallAdvances DEF RetrieveSucceeds
  <2>3. /\ creds' = retrieved /\ retrieved' = retrieved
        /\ \/ ~expired' /\ causes' = causes
           \/ causes' = causes + 1
    BY <1>9 DEF RetrieveSucceeds
  <2>4. expired' \in BOOLEAN
    BY <1>9 DEF RetrieveSucceeds
  <2>5. TypeOK'
    BY <1>9, <2>2, <2>3, <2>4 DEF RetrieveSucceeds, TypeOK, Calls, Results
  <2>6. CausesLeft'
    <3>1. retrieved <= causes /\ retrieved > 0
      BY <1>9 DEF RetrieveSucceeds, CausesLeft, Unlocked
    <3> QED
      BY <2>3, <3>1 DEF CausesLeft, Good, Unlocked, Empty, TypeOK
  <2>7. SharedNotCanceled' /\ OwnCancelOnly'
    BY <1>9, <2>1, <2>2 DEF RetrieveSucceeds, SharedNotCanceled, OwnCancelOnly
  <2> QED BY <2>5, <2>6, <2>7
<1>10. CASE RetrieveFails
  <2>1. /\ call \in Calls /\ Result("error", Empty) \in Results
        /\ Result("error", Empty).kind = "error"
    BY ResultType DEF TypeOK, Calls, Results, Kinds, Empty
  <2>2. call' = Returned(Result("error", Empty))
    BY <1>10 DEF RetrieveFails, RetrieveErrors
  <2>3. /\ call' \in Calls /\ call'.stage = "returned"
        /\ call'.res = Result("error", Empty)
    BY <2>1, <2>2, CallAdvances
  <2>4. TypeOK'
    <3>1. expired \in BOOLEAN
      BY DEF TypeOK
    <3>2. expired' = expired \/ expired' = TRUE
      BY <1>10 DEF RetrieveFails
    <3>3. expired' \in BOOLEAN
      BY <3>1, <3>2
    <3>4. causes' \in Nat
      BY <1>10 DEF RetrieveFails, TypeOK
    <3> QED
      BY <1>10, <2>3, <3>3, <3>4 DEF RetrieveFails, TypeOK, Calls, Results
  <2>5. CausesLeft'
    BY <1>10, <2>3 DEF RetrieveFails, CausesLeft, Unlocked, TypeOK
  <2>6. SharedNotCanceled' /\ OwnCancelOnly'
    BY <1>10, <2>1, <2>3 DEF RetrieveFails, SharedNotCanceled, OwnCancelOnly
  <2> QED BY <2>4, <2>5, <2>6
<1>11. CASE doCall
  <2>1. TypeOK'
    BY <1>11 DEF doCall, TypeOK, NoCall, NoResult, Result, Kinds, Empty, cache, history
  <2>2. CausesLeft'
    BY <1>11 DEF doCall, NoCall, CausesLeft, Good, Unlocked, cache, history
  <2>3. SharedNotCanceled' /\ OwnCancelOnly'
    BY <1>11 DEF doCall, NoCall, NoResult, Result, SharedNotCanceled, OwnCancelOnly
  <2> QED BY <2>1, <2>2, <2>3
<1>12. CASE Expire
  <2>1. TypeOK'
    <3>1. expireAt' \in Int
      BY <1>12 DEF Expire, TypeOK
    <3> QED
      BY <1>12, <3>1, SpoilKeepsCauses DEF Expire, TypeOK, Empty
  <2>2. CausesLeft'
    BY <1>12, SpoilKeepsCauses DEF Expire, CausesLeft, Unlocked
  <2>3. SharedNotCanceled' /\ OwnCancelOnly'
    BY <1>12 DEF Expire, SharedNotCanceled, OwnCancelOnly
  <2> QED BY <2>1, <2>2, <2>3
<1>13. CASE ProviderExpires
  <2>1. TypeOK'
    BY <1>13, SpoilKeepsCauses DEF ProviderExpires, TypeOK
  <2>2. CausesLeft'
    BY <1>13, SpoilKeepsCauses DEF ProviderExpires, CausesLeft, Unlocked
  <2>3. SharedNotCanceled' /\ OwnCancelOnly'
    BY <1>13 DEF ProviderExpires, SharedNotCanceled, OwnCancelOnly
  <2> QED BY <2>1, <2>2, <2>3
<1> QED
  BY <1>1, <1>2, <1>3, <1>4, <1>5, <1>6, <1>7, <1>8, <1>9, <1>10, <1>11, <1>12, <1>13
     DEF Next, CallStep

-----------------------------------------------------------------------------
(* What an Expire leaves. *)

\* Wherever a value is that a Get may still return, it was retrieved after the
\* last retrieval that the Expires before that Get rule out.
NothingRuledOut ==
    /\ expireAt <= retrieved
    /\ \A g \in Getters : forced[g] <= expireAt
    /\ creds = Empty \/ creds > expireAt
    /\ ~Unlocked => retrieved > expireAt
    /\ call.res.kind = "creds" => call.stage = "returned" /\ call.res.val > expireAt
    /\ call.res.kind = "creds" => call.res.val <= retrieved
    /\ creds <= retrieved
    /\ \A g \in Getters : resCh[g].kind = "creds" => resCh[g].val > forced[g]
    /\ ExpireForces

\* Nothing is ruled out before the first Expire.
LEMMA InitRuledOut == Init => NothingRuledOut
  BY DEF Init, NothingRuledOut, ExpireForces, Unlocked, NoCall, NoResult, Result, Empty

\* An Expire empties the cache and counts the value of a call that has returned
\* as new; every other step only hands values on, or brings a newer one.
LEMMA NextRuledOut == IInv /\ NothingRuledOut /\ [Next]_vars => NothingRuledOut'
<1> SUFFICES ASSUME TypeOK, NothingRuledOut, [Next]_vars PROVE NothingRuledOut'
  BY DEF IInv
<1> USE DEF NothingRuledOut
<1>1. CASE UNCHANGED vars
  BY <1>1 DEF ExpireForces, Unlocked, vars, cache, history
<1>2. ASSUME NEW g \in Getters, NEW done \in BOOLEAN, Get(g, done) PROVE NothingRuledOut'
  BY <1>2 DEF Get, ExpireForces, Unlocked, NoResult, Result, TypeOK, cache
<1>3. ASSUME NEW g \in Getters, asyncIsExpired(g) PROVE NothingRuledOut'
  <2>1. ret' = ret \/ (creds # Empty /\ ret' = [ret EXCEPT ![g] = Result("creds", creds)])
    BY <1>3 DEF asyncIsExpired, Return, Good
  <2>2. ExpireForces'
    BY <1>3, <2>1 DEF asyncIsExpired, ExpireForces, Result, TypeOK, cache, history
  <2> QED
    BY <1>3, <2>2 DEF asyncIsExpired, Unlocked, cache, history
<1>4. ASSUME NEW g \in Getters, DoChan(g) PROVE NothingRuledOut'
  <2>1. \/ call'.res = call.res /\ call'.stage = call.stage
        \/ call'.res = NoResult /\ call'.stage = "starts"
    BY <1>4 DEF DoChan, TypeOK
  <2> QED
    BY <1>4, <2>1 DEF DoChan, ExpireForces, Unlocked, NoResult, Result, cache, history
<1>5. ASSUME NEW g \in Getters, Receive(g) PROVE NothingRuledOut'
  BY <1>5 DEF Receive, Return, ExpireForces, Unlocked, NoResult, Result, TypeOK, cache, history
<1>6. ASSUME NEW g \in Getters, Canceled(g) PROVE NothingRuledOut'
  BY <1>6 DEF Canceled, Return, ExpireForces, Unlocked, Result, TypeOK, cache, history
<1>7. ASSUME NEW g \in Getters, Cancel(g) PROVE NothingRuledOut'
  BY <1>7 DEF Cancel, ExpireForces, Unlocked, cache, history
<1>8. CASE singleRetrieve
  <2>1. call \in Calls /\ Result("creds", creds) \in Results
    BY ResultType DEF TypeOK, Calls, Results, Kinds
  <2>2. \/ /\ Good /\ retrieved' = retrieved
           /\ call'.stage = "returned" /\ call'.res = Result("creds", creds)
        \/ /\ retrieved' = retrieved + 1
           /\ call'.stage = "retrieves" /\ call'.res = call.res /\ call.stage = "starts"
    BY <1>8, <2>1, CallAdvances DEF singleRetrieve
  <2> QED
    BY <1>8, <2>2 DEF singleRetrieve, Good, ExpireForces, Unlocked, Result, TypeOK, cache
<1>9. CASE RetrieveSucceeds
  <2>1. call \in Calls /\ Result("creds", retrieved) \in Results
    BY ResultType DEF TypeOK, Calls, Results, Kinds
  <2>2. call'.stage = "returned" /\ call'.res = Result("creds", retrieved)
    BY <1>9, <2>1, CallAdvances DEF RetrieveSucceeds
  <2> QED
    BY <1>9, <2>2 DEF RetrieveSucceeds, ExpireForces, Unlocked, Result, TypeOK
<1>10. CASE RetrieveFails
  <2>1. call \in Calls /\ Result("error", Empty) \in Results
    BY ResultType DEF TypeOK, Calls, Results, Kinds, Empty
  <2>2. call'.stage = "returned" /\ call'.res = Result("error", Empty)
    BY <1>10, <2>1, CallAdvances DEF RetrieveFails, RetrieveErrors
  <2> QED
    BY <1>10, <2>2 DEF RetrieveFails, ExpireForces, Unlocked, Result
<1>11. CASE doCall
  <2>1. \A g \in Getters : resCh'[g] = resCh[g] \/ resCh'[g] = call.res
    BY <1>11 DEF doCall
  <2>2. call'.stage = "none" /\ call'.res.kind = "none"
    BY <1>11 DEF doCall, NoCall, NoResult, Result
  <2> QED
    BY <1>11, <2>1, <2>2 DEF doCall, ExpireForces, Unlocked, TypeOK, cache, history
<1>12. CASE Expire
  <2>1. /\ creds' = Empty /\ retrieved' = retrieved /\ forced' = forced /\ ret' = ret
        /\ resCh' = resCh /\ call' = call /\ Unlocked /\ Unlocked'
    BY <1>12 DEF Expire, Unlocked
  <2>2. /\ call.res.val \in Nat /\ expireAt \in Int /\ retrieved \in Nat
        /\ \A g \in Getters : forced[g] \in Int
    BY DEF TypeOK
  <2>3. CASE Overtaken
    <3>1. expireAt' = call.res.val - 1 /\ call.res.kind = "creds"
      BY <1>12, <2>3 DEF Expire, Overtaken
    <3>2. expireAt <= expireAt' /\ expireAt' <= retrieved /\ call.res.val > expireAt'
      BY <2>2, <3>1
    <3> QED
      BY <2>1, <2>2, <3>1, <3>2 DEF ExpireForces, Empty
  <2>4. CASE ~Overtaken
    <3>1. expireAt' = retrieved /\ call.res.kind # "creds"
      BY <1>12, <2>4 DEF Expire, Overtaken
    <3> QED
      BY <2>1, <2>2, <3>1 DEF ExpireForces, Empty
  <2> QED BY <2>3, <2>4
<1>13. CASE ProviderExpires
  BY <1>13 DEF ProviderExpires, ExpireForces, Unlocked
<1> QED
  BY <1>1, <1>2, <1>3, <1>4, <1>5, <1>6, <1>7, <1>8, <1>9, <1>10, <1>11, <1>12, <1>13
     DEF Next, CallStep

-----------------------------------------------------------------------------

\* The invariant above holds of every behaviour of the cache.
THEOREM CacheInvariant == Spec => []IInv
  BY InitIInv, NextIInv, PTL DEF Spec

\* Every variable of the cache keeps its type.
THEOREM CacheTypeCorrect == Spec => []TypeOK
  BY CacheInvariant, PTL DEF IInv

\* The provider is asked no more often than there was a reason to ask it,
\* however many getters find the credentials expired together (the second look
\* of singleRetrieve).
THEOREM NoStampede == Spec => []RetrievesJustified
<1>1. IInv => RetrievesJustified
  BY DEF IInv, CausesLeft, RetrievesJustified
<1> QED
  BY <1>1, CacheInvariant, PTL

\* A Get ends as cancelled only by its own context (suppressedContext).
THEOREM NoForeignCancel == Spec => []OwnCancelOnly
  BY CacheInvariant, PTL DEF IInv

\* A Get that begins after Expire does not return what was retrieved before it,
\* but for the value of a call that had retrieved and not yet left the map.
THEOREM ExpireTakesEffect == Spec => []ExpireForces
<1>1. IInv /\ IInv' /\ NothingRuledOut /\ [Next]_vars => NothingRuledOut'
  BY NextRuledOut
<1>2. NothingRuledOut => ExpireForces
  BY DEF NothingRuledOut
<1> QED
  BY InitRuledOut, CacheInvariant, <1>1, <1>2, PTL DEF Spec

-----------------------------------------------------------------------------
(* No getter is left waiting for a call that is gone. *)

\* A getter that waits has its result, or its channel is among those of the
\* call that is in the map.
WaitsForCall(g) == resCh[g] # NoResult \/ (call # NoCall /\ g \in call.chans)
NobodyForgotten == \A g \in Getters : pc[g] = "wait" => WaitsForCall(g)

\* The call that is sent to the channels has a result.
CallInv ==
    /\ call.stage = "none" => call = NoCall
    /\ call.stage = "returned" => call.res.kind # "none"
    /\ \A g \in Getters : pc[g] = "wait" => resCh[g].kind # "none" \/ g \in call.chans

LEMMA NextCallInv ==
    ASSUME TypeOK, CallInv, [Next]_vars
    PROVE  CallInv'
<1>1. /\ call \in Calls /\ \A g \in Getters : resCh[g] \in Results
      /\ pc \in [Getters -> {"idle", "check", "join", "wait"}] /\ resCh \in [Getters -> Results]
  BY DEF TypeOK, Calls, Results
<1>2. /\ NoCall.stage = "none" /\ NoCall.chans = {} /\ NoResult.kind = "none"
  BY DEF NoCall, NoResult, Result
<1>3. ASSUME NEW g \in Getters, call' = call, resCh' = resCh,
             \A h \in Getters : pc'[h] = "wait" => pc[h] = "wait"
      PROVE  CallInv'
  BY <1>3 DEF CallInv
<1>4. CASE UNCHANGED vars
  BY <1>4 DEF vars, CallInv
<1>5. ASSUME NEW g \in Getters, NEW done \in BOOLEAN, Get(g, done) PROVE CallInv'
  BY <1>1, <1>5 DEF Get, CallInv
<1>6. ASSUME NEW g \in Getters, asyncIsExpired(g) \/ Canceled(g) \/ Cancel(g) PROVE CallInv'
  <2>1. call' = call /\ resCh' = resCh
    BY <1>6 DEF asyncIsExpired, Canceled, Cancel
  <2>2. \A h \in Getters : pc'[h] = "wait" => pc[h] = "wait"
    BY <1>1, <1>6 DEF asyncIsExpired, Canceled, Cancel, Return
  <2> QED
    BY <1>3, <2>1, <2>2
<1>7. ASSUME NEW g \in Getters, DoChan(g) PROVE CallInv'
  <2>1. resCh' = resCh /\ \A h \in Getters \ {g} : pc'[h] = pc[h]
    BY <1>1, <1>7 DEF DoChan
  <2>2. CASE call = NoCall
    <3>1. call'.stage = "starts" /\ call'.chans = {g}
      BY <1>7, <2>2 DEF DoChan
    <3> QED
      BY <1>2, <2>1, <2>2, <3>1 DEF CallInv
  <2>3. CASE call # NoCall
    <3>1. /\ call'.stage = call.stage /\ call'.res = call.res
          /\ call'.chans = call.chans \cup {g}
      BY <1>1, <1>7, <2>3 DEF DoChan, Calls
    <3> QED
      BY <2>1, <2>3, <3>1 DEF CallInv
  <2> QED
    BY <2>2, <2>3
<1>8. ASSUME NEW g \in Getters, Receive(g) PROVE CallInv'
  <2>1. call' = call /\ pc'[g] = "idle"
        /\ \A h \in Getters \ {g} : pc'[h] = pc[h] /\ resCh'[h] = resCh[h]
    BY <1>1, <1>8 DEF Receive, Return
  <2> QED
    BY <2>1 DEF CallInv
<1>9. CASE singleRetrieve \/ RetrieveSucceeds \/ RetrieveFails
  <2>1. pc' = pc /\ resCh' = resCh
    BY <1>9 DEF singleRetrieve, RetrieveSucceeds, RetrieveFails
  <2>2. Retrieves.stage = "retrieves" /\ Retrieves.chans = call.chans
    BY <1>1 DEF Retrieves, Calls
  <2>3. ASSUME NEW k \in Kinds, NEW v, call' = Returned(Result(k, v))
        PROVE  call'.stage = "returned" /\ call'.chans = call.chans /\ call'.res.kind # "none"
    BY <2>3 DEF Returned, Result, Kinds
  <2>4. \/ call' = Retrieves
        \/ \E k \in Kinds : \E v \in {creds, retrieved, Empty} : call' = Returned(Result(k, v))
    BY <1>9 DEF singleRetrieve, RetrieveSucceeds, RetrieveFails, RetrieveErrors, Kinds
  <2> QED
    BY <2>1, <2>2, <2>3, <2>4 DEF CallInv
<1>10. CASE doCall
  <2>1. call' = NoCall /\ pc' = pc /\ call.res.kind # "none"
    BY <1>10 DEF doCall, CallInv
  <2>2. ASSUME NEW g \in Getters, pc[g] = "wait" PROVE resCh'[g].kind # "none"
    BY <1>10, <2>1, <2>2 DEF doCall, CallInv
  <2> QED
    BY <1>2, <2>1, <2>2 DEF CallInv
<1>11. CASE Expire \/ ProviderExpires
  BY <1>11 DEF Expire, ProviderExpires, CallInv
<1> QED
  BY <1>4, <1>5, <1>6, <1>7, <1>8, <1>9, <1>10, <1>11 DEF Next, CallStep

\* However many getters join, leave and come back: one that waits has its
\* result, or there is a call that will send it (credentials.go 268-277,
\* singleflight.go 73-111).
THEOREM NoGetterForgotten == Spec => []NobodyForgotten
<1>1. Init => CallInv
  BY DEF Init, CallInv, NoCall
<1>2. IInv /\ CallInv => NobodyForgotten
  <2> SUFFICES ASSUME CallInv, NEW g \in Getters, pc[g] = "wait" PROVE WaitsForCall(g)
    BY DEF NobodyForgotten
  <2>1. NoResult.kind = "none" /\ NoCall.chans = {}
    BY DEF NoCall, NoResult, Result
  <2> QED
    BY <2>1 DEF CallInv, WaitsForCall
<1>3. IInv /\ CallInv /\ [Next]_vars => CallInv'
  BY NextCallInv DEF IInv
<1> QED
  BY <1>1, <1>2, <1>3, CacheInvariant, PTL DEF Spec
=============================================================================
