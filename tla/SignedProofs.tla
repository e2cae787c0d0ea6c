---------------------------- MODULE SignedProofs ----------------------------
(***************************************************************************)
(* Requests use the cache as CredentialsProofs lets any getters use it:    *)
(* whatever the chain of providers, the number of requests and the number  *)
(* of their tries, each step of theirs is a step of the cache, or leaves   *)
(* it alone. So what is proved of the cache holds of them.                 *)
(*                                                                         *)
(* That a try has the signature of its credentials' type rests on the      *)
(* cache and the chain together: static keys that nobody expired are the   *)
(* last ones retrieved, so nothing newer can reach the signer behind the   *)
(* router's back, and nothing older either, since a call leaves the map    *)
(* before the next one retrieves.                                          *)
(***************************************************************************)
EXTENDS SignedRequests, CredentialsProofs

\* The calls of Get, Expire and the provider are the only ways to the cache.
LEMMA StepIsCacheStep == [SignedNext]_allVars => [Next]_vars
<1> SUFFICES ASSUME SignedNext PROVE Next \/ UNCHANGED vars
  BY DEF allVars
<1>1. ASSUME NEW g \in Getters, GetStep(g) PROVE Next
  BY <1>1 DEF GetStep, Next
<1>2. ASSUME NEW g \in Getters, SendStep(g) PROVE Next \/ UNCHANGED vars
  <2>1. CASE Build(g)
    BY <2>1 DEF Build, Next
  <2>2. CASE Route(g)
    BY <2>2 DEF Route, Next
  <2>3. CASE Sign(g)
    <3>1. (TypeOf(ret[g].val) = "v4" /\ g \in canceled) \in BOOLEAN
      OBVIOUS
    <3> QED
      BY <2>3, <3>1 DEF Sign, Next
  <2>4. CASE SendTry(g)
    BY <2>4 DEF SendTry
  <2>5. CASE SignFails(g)
    BY <2>5 DEF SignFails, Finish
  <2>6. CASE ExpireLocally(g)
    BY <2>6 DEF ExpireLocally, Next
  <2> QED
    BY <1>2, <2>1, <2>2, <2>3, <2>4, <2>5, <2>6 DEF SendStep
<1>3. ASSUME NEW g \in Getters, ServiceStep(g) \/ CancelRequest(g) PROVE Next \/ UNCHANGED vars
  <2>1. ServiceStep(g) => UNCHANGED vars
    BY DEF ServiceStep, Answered, Finish, Retried, RefusedAsExpired
  <2>2. CancelRequest(g) => Cancel(g) \/ UNCHANGED vars
    BY DEF CancelRequest
  <2> QED
    BY <1>3, <2>1, <2>2 DEF Next
<1>4. CASE RetrieveStep
  BY <1>4 DEF RetrieveStep, IAMRetrieves, HmacRetrieves, OtherRetrieves, ChainFails, Next, CallStep
<1>5. CASE OtherExpires
  BY <1>5 DEF OtherExpires, Next
<1> QED
  BY <1>1, <1>2, <1>3, <1>4, <1>5 DEF SignedNext

\* Requests that share credentials behave, as far as the cache sees, as its
\* specification allows (the composition of corehandlers, the router of the
\* signers and the providers with aws/credentials).
THEOREM SignedUsesCache == SignedSpec => Spec
<1>1. SignedInit => Init
  BY DEF SignedInit
<1> QED
  BY <1>1, StepIsCacheStep, PTL DEF SignedSpec, Spec

\* The providers behind requests are asked no more often than there was reason.
THEOREM SignedNoStampede == SignedSpec => []RetrievesJustified
  BY SignedUsesCache, NoStampede, PTL

\* The context of one request does not end the Get of another.
THEOREM SignedOwnCancel == SignedSpec => []OwnCancelOnly
  BY SignedUsesCache, NoForeignCancel, PTL

\* After ExpireLocally no request is given what was retrieved before, but for
\* the value of a call that had retrieved and not yet left the map.
THEOREM SignedExpireTakesEffect == SignedSpec => []ExpireForces
  BY SignedUsesCache, ExpireTakesEffect, PTL

-----------------------------------------------------------------------------
(* The router and the signer. *)

Sources == [type : {"none", "oauth", "v4"}, key : Int]
Stages == {"new", "validate", "route", "sign", "sent", "expire", "again", "done"}

\* What has come is what was retrieved, but for the retrieval under way.
CameInOrder ==
    /\ Len(source) = IF Unlocked THEN retrieved ELSE retrieved - 1
    /\ ruledOut <= retrieved

\* Good credentials, and those the call in the map has, are the last retrieved.
LastRetrieved ==
    /\ Good => Unlocked /\ creds = retrieved
    /\ call.res.kind = "creds" => /\ call.stage = "returned"
                                  /\ call.res.val = retrieved /\ call.res.val # Empty

\* A value that came has a type.
Typed(n) == n # Empty => n \in 1 .. Len(source) /\ TypeOf(n) # "none"

\* Whatever somebody may still look at is nothing, or came.
ValuesCame ==
    /\ Typed(creds) /\ Typed(call.res.val)
    /\ \A g \in Getters :
          /\ Typed(ret[g].val) /\ Typed(resCh[g].val) /\ Typed(routed[g]) /\ Typed(signed[g])
          /\ ret[g].kind = "creds" => ret[g].val # Empty
          /\ resCh[g].kind = "creds" => resCh[g].val # Empty
          /\ stage[g] = "sent" => signed[g] # Empty /\ routed[g] # Empty

\* Keys that were not ruled out are good, and nothing was retrieved since.
StaticKeysLast ==
    \A n \in 1 .. Len(source) :
        TypeOf(n) = "v4" /\ n > ruledOut => n = retrieved /\ creds = n /\ ~expired

\* The signer is given nothing older than what the router saw.
SignerNotBehind ==
    \A g \in Getters : stage[g] = "sign" =>
        /\ routed[g] # Empty
        /\ ret[g].kind = "creds" => ret[g].val >= routed[g]
        /\ resCh[g].kind = "creds" => resCh[g].val >= routed[g]

RouterInv == CameInOrder /\ ValuesCame /\ StaticKeysLast /\ SignerNotBehind /\ SignerFits

-----------------------------------------------------------------------------

\* A retrieval begins when there is nothing good, and nothing gets good again
\* but by what it brings; the call in the map is alone there.
LEMMA NextLastRetrieved == IInv /\ LastRetrieved /\ [Next]_vars => LastRetrieved'
<1> SUFFICES ASSUME TypeOK, CausesLeft, LastRetrieved, [Next]_vars PROVE LastRetrieved'
  BY DEF IInv
<1> USE DEF LastRetrieved, Good, Unlocked
<1>1. CASE UNCHANGED vars
  BY <1>1 DEF vars, cache, history
<1>2. ASSUME NEW g \in Getters,
             \/ \E done \in BOOLEAN : Get(g, done)
             \/ asyncIsExpired(g) \/ Receive(g) \/ Canceled(g) \/ Cancel(g)
      PROVE  LastRetrieved'
  BY <1>2 DEF Get, asyncIsExpired, Receive, Canceled, Cancel, cache, history
<1>3. ASSUME NEW g \in Getters, DoChan(g) PROVE LastRetrieved'
  <2>1. \/ call'.res = call.res /\ call'.stage = call.stage
        \/ call = NoCall /\ call'.res = NoResult /\ call'.stage = "starts"
    BY <1>3 DEF DoChan, TypeOK
  <2> QED
    BY <1>3, <2>1 DEF DoChan, NoCall, NoResult, Result, cache, history
<1>4. CASE singleRetrieve
  <2>1. call \in Calls /\ Result("creds", creds) \in Results
    BY ResultType DEF TypeOK, Calls, Results, Kinds
  <2>2. \/ /\ Good /\ retrieved' = retrieved
           /\ call'.stage = "returned" /\ call'.res = Result("creds", creds)
        \/ /\ ~Good
           /\ call'.stage = "retrieves" /\ call'.res = call.res /\ call.stage = "starts"
    BY <1>4, <2>1, CallAdvances DEF singleRetrieve
  <2> QED
    BY <1>4, <2>2 DEF singleRetrieve, Result, TypeOK, cache
<1>5. CASE RetrieveSucceeds
  <2>1. call \in Calls /\ Result("creds", retrieved) \in Results
    BY ResultType DEF TypeOK, Calls, Results, Kinds
  <2>2. call'.stage = "returned" /\ call'.res = Result("creds", retrieved)
    BY <1>5, <2>1, CallAdvances DEF RetrieveSucceeds
  <2> QED
    BY <1>5, <2>2 DEF RetrieveSucceeds, CausesLeft, Result, TypeOK, Empty
<1>6. CASE RetrieveFails
  <2>1. call \in Calls /\ Result("error", Empty) \in Results
    BY ResultType DEF TypeOK, Calls, Results, Kinds, Empty
  <2>2. call'.stage = "returned" /\ call'.res = Result("error", Empty)
    BY <1>6, <2>1, CallAdvances DEF RetrieveFails, RetrieveErrors
  <2>3. expired' = expired \/ expired' = TRUE
    BY <1>6 DEF RetrieveFails
  <2>4. creds = Empty \/ expired = TRUE
    BY <1>6 DEF RetrieveFails, TypeOK
  <2>5. creds' = creds
    BY <1>6 DEF RetrieveFails
  <2>6. creds' = Empty \/ expired' = TRUE
    BY <2>3, <2>4, <2>5
  <2> QED
    BY <2>2, <2>6 DEF Result
<1>7. CASE doCall
  <2>1. call'.stage = "none" /\ call'.res.kind = "none"
    BY <1>7 DEF doCall, NoCall, NoResult, Result
  <2> QED
    BY <1>7, <2>1 DEF doCall, cache, history
<1>8. CASE Expire \/ ProviderExpires
  BY <1>8 DEF Expire, ProviderExpires
<1> QED
  BY <1>1, <1>2, <1>3, <1>4, <1>5, <1>6, <1>7, <1>8 DEF Next, CallStep

LEMMA SourcesAre ==
    ASSUME SignedTypeOK
    PROVE  source \in Seq(Sources) /\ \A n \in 1 .. Len(source) : source[n] \in Sources
<1>1. source \in Seq(Sources)
  BY DEF SignedTypeOK, Sources
<1> QED
  BY <1>1

\* A retrieval that ends adds its value at the end, and what somebody may still
\* look at stays.
LEMMA CameFacts ==
    ASSUME source \in Seq(Sources), NEW type \in {"none", "oauth", "v4"}, NEW key \in Int,
           Came(type, key)
    PROVE  /\ source' \in Seq(Sources)
           /\ Len(source') = Len(source) + 1
           /\ source'[Len(source) + 1].type = type
           /\ \A n \in 1 .. Len(source) :
                 /\ source'[n].type \in {source[n].type, "none"}
                 /\ n \in Held => source'[n] = source[n]
<1> DEFINE old == [n \in DOMAIN source |-> IF n \in Held THEN source[n] ELSE NoSource]
           new == [type |-> type, key |-> key]
<1>1. NoSource \in Sources /\ NoSource.type = "none" /\ new \in Sources /\ new.type = type
  BY DEF NoSource, NoKey, Sources
<1>2. /\ old \in Seq(Sources) /\ Len(old) = Len(source)
      /\ \A n \in 1 .. Len(source) : old[n] = IF n \in Held THEN source[n] ELSE NoSource
  <2>1. DOMAIN source = 1 .. Len(source) /\ \A n \in 1 .. Len(source) : source[n] \in Sources
    OBVIOUS
  <2>2. old \in [1 .. Len(source) -> Sources]
    BY <1>1, <2>1
  <2> QED
    BY <2>1, <2>2
<1>3. source' = Append(old, new)
  BY DEF Came
<1> HIDE DEF old, new
<1>4. /\ source' \in Seq(Sources) /\ Len(source') = Len(old) + 1
      /\ source'[Len(old) + 1] = new
      /\ \A n \in 1 .. Len(old) : source'[n] = old[n]
  BY <1>1, <1>2, <1>3
<1> QED
  BY <1>1, <1>2, <1>4

\* The variables of requests and providers keep their types.
LEMMA NextSignedType ==
    SignedTypeOK /\ ValuesCame /\ TypeOK' /\ [SignedNext]_allVars => SignedTypeOK'
<1> SUFFICES ASSUME SignedTypeOK, ValuesCame, TypeOK', [SignedNext]_allVars
             PROVE  SignedTypeOK'
  OBVIOUS
<1>0. \A n \in 1 .. Len(source) : source[n] \in Sources
  BY SourcesAre
<1> USE DEF SignedTypeOK
<1>1. CASE UNCHANGED allVars
  BY <1>1 DEF allVars, chainVars, requestVars, signing
<1>2. ASSUME NEW g \in Getters, GetStep(g) PROVE SignedTypeOK'
  BY <1>2 DEF GetStep, chainVars, requestVars, signing
<1>3. ASSUME NEW g \in Getters, Build(g) \/ Route(g) \/ Retried(g) PROVE SignedTypeOK'
  BY <1>3 DEF Build, Route, Retried, Enter, chainVars, signing
<1>4. ASSUME NEW g \in Getters, Sign(g) PROVE SignedTypeOK'
  <2>1. ret[g].val \in Nat
    BY DEF TypeOK
  <2> QED
    BY <1>4, <2>1 DEF Sign, Enter, chainVars
<1>5. ASSUME NEW g \in Getters, SendTry(g) PROVE SignedTypeOK'
  <2>1. ret[g].val \in Nat
    BY DEF TypeOK
  <2> QED
    BY <1>5, <2>1 DEF SendTry, Enter, chainVars
<1>6. ASSUME NEW g \in Getters, Finish(g) PROVE SignedTypeOK'
  BY <1>6 DEF Finish, Enter, NoKey, chainVars
<1>7. ASSUME NEW g \in Getters, RefusedAsExpired(g) PROVE SignedTypeOK'
  <2>1. signed[g] \in 1 .. Len(source) /\ refused' = [refused EXCEPT ![g] = source[signed[g]].key]
    BY <1>7 DEF RefusedAsExpired, KeyOf, ValuesCame, Typed
  <2>2. source[signed[g]] \in Sources
    BY <1>0, <2>1
  <2>3. source[signed[g]].key \in Int
    BY <2>2 DEF Sources
  <2> QED
    BY <1>7, <2>1, <2>3 DEF RefusedAsExpired, Enter, chainVars
<1>8. ASSUME NEW g \in Getters, ExpireLocally(g) PROVE SignedTypeOK'
  <2>1. ruledOut' \in Nat
    BY <1>8 DEF ExpireLocally, TypeOK
  <2> QED
    BY <1>8, <2>1 DEF ExpireLocally, Enter, chainVars
<1>9. ASSUME NEW g \in Getters, CancelRequest(g) PROVE SignedTypeOK'
  BY <1>9 DEF CancelRequest, chainVars
<1>10. CASE (singleRetrieve \/ doCall) /\ UNCHANGED <<chainVars, requestVars>>
  BY <1>10 DEF chainVars, requestVars, signing
<1>11. CASE IAMRetrieves \/ HmacRetrieves \/ OtherRetrieves \/ ChainFails
  <2>1. token' \in Nat
    <3>1. token' = token \/ token' = token + 1
      BY <1>11 DEF IAMRetrieves, HmacRetrieves, OtherRetrieves, ChainFails, CachedToken
    <3> QED
      BY <3>1
  <2>2. \E type \in {"none", "oauth", "v4"}, key \in Int : Came(type, key)
    <3>1. retrieved \in Int
      BY DEF TypeOK
    <3> QED
      BY <1>11, <2>1, <3>1 DEF IAMRetrieves, HmacRetrieves, OtherRetrieves, ChainFails, NoKey
  <2>3. source' \in Seq(Sources)
    BY <2>2, CameFacts DEF Sources
  <2>4. chain' = chain /\ UNCHANGED requestVars
    BY <1>11 DEF IAMRetrieves, HmacRetrieves, OtherRetrieves, ChainFails
  <2> QED
    BY <2>1, <2>3, <2>4 DEF Sources, requestVars, signing
<1>12. CASE OtherExpires
  <2>1. ruledOut' \in Nat
    BY <1>12 DEF OtherExpires, TypeOK
  <2> QED
    BY <1>12, <2>1 DEF OtherExpires, chainVars
<1> QED
  BY <1>1, <1>2, <1>3, <1>4, <1>5, <1>6, <1>7, <1>8, <1>9, <1>10, <1>11, <1>12
     DEF SignedNext, SendStep, ServiceStep, RetrieveStep, SignFails, Answered

\* The steps of Get hand on good credentials, which are the last retrieved.
LEMMA GetKeepsRouter ==
    ASSUME SignedTypeOK, LastRetrieved, RouterInv, NEW g \in Getters, GetStep(g)
    PROVE  RouterInv'
<1> USE DEF RouterInv
<1>1. /\ UNCHANGED <<cache, retrieved, source, stage, routed, signed, ruledOut>>
      /\ creds' = creds /\ expired' = expired
  BY DEF GetStep, asyncIsExpired, DoChan, Receive, Canceled, history, cache, chainVars,
         requestVars, signing
<1>2. \/ call' = call
      \/ call'.stage = "starts" /\ call'.res.val = Empty /\ call.stage # "retrieves"
      \/ call'.stage = call.stage /\ call'.res = call.res
  <2>1. CASE DoChan(g)
    <3>1. CASE call = NoCall
      BY <2>1, <3>1 DEF DoChan, NoCall, NoResult, Result
    <3>2. CASE call # NoCall
      BY <2>1, <3>2 DEF DoChan, SignedTypeOK, TypeOK
    <3> QED
      BY <3>1, <3>2
  <2>2. CASE asyncIsExpired(g) \/ Receive(g) \/ Canceled(g)
    BY <2>2 DEF asyncIsExpired, Receive, Canceled
  <2> QED
    BY <2>1, <2>2 DEF GetStep
<1>3. Len(source) \in Nat /\ retrieved \in Nat /\ Len(source) <= retrieved
  BY DEF SignedTypeOK, TypeOK, CameInOrder
<1>4. \A h \in Getters :
            \/ ret'[h] = ret[h] \/ ret'[h] = resCh[h] \/ ret'[h] = Result("canceled", Empty)
            \/ ret'[h] = Result("creds", creds) /\ creds # Empty /\ creds = retrieved
  <2>0. ret \in [Getters -> [kind : Kinds \cup {"none"}, val : Nat]]
    BY DEF SignedTypeOK, TypeOK
  <2>1. CASE asyncIsExpired(g)
    <3>1. ret' = ret \/ (Good /\ ret' = [ret EXCEPT ![g] = Result("creds", creds)])
      BY <2>1 DEF asyncIsExpired, Return
    <3> QED
      BY <2>0, <3>1 DEF LastRetrieved, Good
  <2>2. CASE DoChan(g) \/ Receive(g) \/ Canceled(g)
    BY <2>0, <2>2 DEF DoChan, Receive, Canceled, Return
  <2> QED
    BY <2>1, <2>2 DEF GetStep
<1>5. \A h \in Getters : resCh'[h] = resCh[h] \/ resCh'[h] = NoResult
  BY DEF GetStep, asyncIsExpired, DoChan, Receive, Canceled, SignedTypeOK, TypeOK
<1>6. CameInOrder'
  BY <1>1, <1>2 DEF CameInOrder, Unlocked
<1>7. ValuesCame'
  <2>1. \A n \in Nat : Typed(n) <=> Typed(n)'
    BY <1>1 DEF Typed, TypeOf
  <2>2. Typed(Empty) /\ Empty \in Nat
    <3>1. Typed(Empty)
      BY DEF Typed
    <3> QED
      BY <3>1 DEF Empty
  <2>3. /\ creds \in Nat /\ call.res.val \in Nat
        /\ \A h \in Getters : /\ ret[h].val \in Nat /\ resCh[h].val \in Nat
                              /\ routed[h] \in Nat /\ signed[h] \in Nat
    BY DEF SignedTypeOK, TypeOK
  <2>4. \A h \in Getters : /\ Typed(ret'[h].val)
                           /\ ret'[h].kind = "creds" => ret'[h].val # Empty
    BY <1>4, <2>2 DEF ValuesCame, Result
  <2>5. \A h \in Getters : /\ Typed(resCh'[h].val)
                           /\ resCh'[h].kind = "creds" => resCh'[h].val # Empty
    BY <1>5, <2>2 DEF ValuesCame, NoResult, Result
  <2>6. Typed(call'.res.val)
    BY <1>2, <2>2 DEF ValuesCame
  <2>7. \A h \in Getters : ret'[h].val \in Nat /\ resCh'[h].val \in Nat
    BY <1>4, <1>5, <2>2, <2>3 DEF NoResult, Result
  <2>8. call'.res.val \in Nat
    BY <1>2, <2>2, <2>3
  <2> QED
    BY <1>1, <2>1, <2>3, <2>4, <2>5, <2>6, <2>7, <2>8 DEF ValuesCame
<1>8. StaticKeysLast'
  BY <1>1 DEF StaticKeysLast, TypeOf
<1>9. SignerNotBehind'
  <2>1. \A h \in Getters : routed[h] # Empty => routed[h] <= retrieved
    BY <1>3 DEF ValuesCame, Typed
  <2> QED
    BY <1>1, <1>4, <1>5, <2>1 DEF SignerNotBehind, NoResult, Result
<1>10. SignerFits'
  BY <1>1 DEF SignerFits, Signer, TypeOf
<1> QED
  BY <1>6, <1>7, <1>8, <1>9, <1>10

\* What a step of Send or of the service may change of the router's business:
\* the values of its own request, and the cache by an Expire.
RouterStep(g) ==
    /\ UNCHANGED <<source, retrieved, expired, call>>
    /\ \/ creds' = creds /\ ruledOut' = ruledOut
       \/ creds' \in {creds, Empty} /\ ruledOut' = retrieved
    /\ \A h \in Getters : /\ ret'[h] \in {ret[h], NoResult}
                          /\ resCh'[h] \in {resCh[h], NoResult}
    /\ \A h \in Getters \ {g} :
          stage'[h] = stage[h] /\ routed'[h] = routed[h] /\ signed'[h] = signed[h]

LEMMA RouterStepKeeps ==
    ASSUME SignedTypeOK, RouterInv, NEW g \in Getters, RouterStep(g),
           routed'[g] \in Nat, Typed(routed'[g]), signed'[g] \in Nat, Typed(signed'[g]),
           stage'[g] = "sign" => /\ routed'[g] # Empty
                                 /\ \/ ret'[g] = NoResult /\ resCh'[g] = NoResult
                                    \/ stage[g] = "sign" /\ routed'[g] = routed[g],
           stage'[g] = "sent" =>
              /\ signed'[g] # Empty /\ routed'[g] # Empty
              /\ \/ TypeOf(routed'[g]) = TypeOf(signed'[g])
                 \/ TypeOf(routed'[g]) = "v4" /\ routed'[g] <= ruledOut'
    PROVE  RouterInv'
<1> USE DEF RouterInv, RouterStep
<1>1. /\ creds \in Nat /\ call.res.val \in Nat /\ retrieved \in Nat /\ ruledOut \in Nat
      /\ \A h \in Getters : /\ ret[h].val \in Nat /\ resCh[h].val \in Nat
                            /\ routed[h] \in Nat /\ signed[h] \in Nat
  BY DEF SignedTypeOK, TypeOK
<1>2. Len(source) \in Nat /\ Len(source) <= retrieved /\ ruledOut <= retrieved
  BY <1>1 DEF SignedTypeOK, CameInOrder
<1>3. ruledOut' \in Nat /\ ruledOut <= ruledOut' /\ ruledOut' <= retrieved
  BY <1>1, <1>2
<1>4. CameInOrder'
  BY <1>3 DEF CameInOrder, Unlocked
<1>5. ValuesCame'
  <2>1. \A n \in Nat : Typed(n) <=> Typed(n)'
    BY DEF Typed, TypeOf
  <2>2. Typed(Empty) /\ Empty \in Nat /\ NoResult.val = Empty /\ NoResult.kind = "none"
    <3>1. Typed(Empty)
      BY DEF Typed
    <3> QED
      BY <3>1 DEF Empty, NoResult, Result
  <2>3. \A h \in Getters : /\ Typed(ret'[h].val) /\ ret'[h].val \in Nat
                           /\ ret'[h].kind = "creds" => ret'[h].val # Empty
    BY <1>1, <2>2 DEF ValuesCame
  <2>4. \A h \in Getters : /\ Typed(resCh'[h].val) /\ resCh'[h].val \in Nat
                           /\ resCh'[h].kind = "creds" => resCh'[h].val # Empty
    BY <1>1, <2>2 DEF ValuesCame
  <2>5. \A h \in Getters : /\ Typed(routed'[h]) /\ routed'[h] \in Nat
                           /\ Typed(signed'[h]) /\ signed'[h] \in Nat
                           /\ stage'[h] = "sent" => signed'[h] # Empty /\ routed'[h] # Empty
    BY <1>1 DEF ValuesCame
  <2>6. Typed(creds') /\ creds' \in Nat /\ Typed(call'.res.val) /\ call'.res.val \in Nat
    BY <1>1, <2>2 DEF ValuesCame
  <2> QED
    BY <2>1, <2>3, <2>4, <2>5, <2>6 DEF ValuesCame
<1>6. StaticKeysLast'
  <2>1. CASE creds' = creds /\ ruledOut' = ruledOut
    BY <2>1 DEF StaticKeysLast, TypeOf
  <2>2. CASE ruledOut' = retrieved
    BY <1>1, <1>2, <2>2 DEF StaticKeysLast
  <2> QED
    BY <2>1, <2>2
<1>7. SignerNotBehind'
  BY DEF SignerNotBehind, NoResult, Result
<1>8. SignerFits'
  <2>1. ASSUME NEW h \in Getters \ {g}, stage'[h] = "sent"
        PROVE  Signer(h)' = TypeOf(signed[h])' \/ (Signer(h)' = "v4" /\ routed'[h] <= ruledOut')
    <3>1. Signer(h) = TypeOf(signed[h]) \/ (Signer(h) = "v4" /\ routed[h] <= ruledOut)
      BY <2>1 DEF SignerFits
    <3> QED
      BY <1>1, <1>3, <3>1 DEF Signer, TypeOf
  <2>2. ASSUME stage'[g] = "sent"
        PROVE  Signer(g)' = TypeOf(signed[g])' \/ (Signer(g)' = "v4" /\ routed'[g] <= ruledOut')
    BY <2>2 DEF Signer, TypeOf
  <2> QED
    BY <2>1, <2>2 DEF SignerFits
<1> QED
  BY <1>4, <1>5, <1>6, <1>7, <1>8

\* The steps of a request, and what the service answers it.
LEMMA RequestKeepsRouter ==
    ASSUME SignedTypeOK, LastRetrieved, RouterInv, NEW g \in Getters,
           SendStep(g) \/ ServiceStep(g) \/ CancelRequest(g)
    PROVE  RouterInv'
<1>1. /\ routed \in [Getters -> Nat] /\ signed \in [Getters -> Nat]
      /\ stage \in [Getters -> Stages] /\ retrieved \in Nat /\ Len(source) \in Nat
      /\ ret[g].val \in Nat
      /\ ret \in [Getters -> [kind : Kinds \cup {"none"}, val : Nat]]
      /\ resCh \in [Getters -> [kind : Kinds \cup {"none"}, val : Nat]]
  <2>1. /\ ret \in [Getters -> [kind : Kinds \cup {"none"}, val : Nat]]
        /\ resCh \in [Getters -> [kind : Kinds \cup {"none"}, val : Nat]]
        /\ routed \in [Getters -> Nat] /\ signed \in [Getters -> Nat] /\ retrieved \in Nat
    BY DEF SignedTypeOK, TypeOK
  <2>2. stage \in [Getters -> Stages]
    BY DEF SignedTypeOK, Stages
  <2>3. Len(source) \in Nat
    BY SourcesAre
  <2>4. ret[g].val \in Nat
    BY <2>1
  <2> QED
    BY <2>1, <2>2, <2>3, <2>4
<1>2. Typed(routed[g]) /\ Typed(signed[g]) /\ Typed(ret[g].val) /\ Typed(0) /\ 0 \in Nat
  <2>1. Typed(Empty)
    BY DEF Typed
  <2> QED
    BY <2>1 DEF RouterInv, ValuesCame, Empty
<1>3. ASSUME NEW done \in BOOLEAN, Get(g, done)
      PROVE  /\ UNCHANGED <<creds, expired, call, retrieved>>
             /\ \A h \in Getters : /\ ret'[h] \in {ret[h], NoResult}
                                   /\ resCh'[h] \in {resCh[h], NoResult}
             /\ ret'[g] = NoResult /\ resCh'[g] = NoResult
  BY <1>1, <1>3 DEF Get, cache
<1>4. ASSUME NEW s \in Stages, Enter(g, s)
      PROVE  stage'[g] = s /\ \A h \in Getters \ {g} : stage'[h] = stage[h]
  BY <1>1, <1>4 DEF Enter
<1>5. CASE Build(g) \/ Route(g)
  <2>1. Get(g, FALSE) /\ (Enter(g, "validate") \/ Enter(g, "route")) /\ UNCHANGED <<chainVars, signing>>
    BY <1>5 DEF Build, Route
  <2>2. RouterStep(g) /\ stage'[g] \in {"validate", "route"}
    BY <1>3, <1>4, <2>1 DEF RouterStep, Stages, chainVars, signing
  <2> QED
    BY <1>1, <1>2, <2>1, <2>2, RouterStepKeeps DEF signing
<1>6. CASE Sign(g)
  <2>1. PICK done \in BOOLEAN : Get(g, done)
    BY <1>6 DEF Sign
  <2>2. /\ routed' = [routed EXCEPT ![g] = ret[g].val] /\ Enter(g, "sign")
        /\ UNCHANGED <<chainVars, signed, ruledOut>> /\ ret[g].kind = "creds"
    BY <1>6 DEF Sign, Has
  <2>3. RouterStep(g) /\ stage'[g] = "sign" /\ routed'[g] = ret[g].val
    BY <1>1, <1>3, <1>4, <2>1, <2>2 DEF RouterStep, Stages, chainVars
  <2>4. ret[g].val # Empty
    BY <2>2 DEF RouterInv, ValuesCame
  <2> QED
    BY <1>1, <1>2, <1>3, <2>1, <2>2, <2>3, <2>4, RouterStepKeeps
<1>7. CASE SendTry(g)
  <2>1. /\ signed' = [signed EXCEPT ![g] = ret[g].val] /\ Enter(g, "sent")
        /\ UNCHANGED <<vars, chainVars, routed, ruledOut>>
        /\ stage[g] = "sign" /\ ret[g].kind = "creds"
        /\ SignerTakes(TypeOf(routed[g]), TypeOf(ret[g].val))
    BY <1>7 DEF SendTry, Has, Signer
  <2>2. RouterStep(g) /\ stage'[g] = "sent" /\ signed'[g] = ret[g].val /\ routed'[g] = routed[g]
    BY <1>1, <1>4, <2>1 DEF RouterStep, Stages, vars, cache, history, chainVars
  <2>3. ret[g].val # Empty /\ routed[g] # Empty /\ ret[g].val >= routed[g]
    BY <2>1 DEF RouterInv, ValuesCame, SignerNotBehind
  <2>4. routed[g] \in 1 .. Len(source) /\ ret[g].val \in 1 .. Len(source)
    BY <1>2, <2>3 DEF Typed
  <2>5. TypeOf(routed[g]) \in {"oauth", "v4"}
    <3>1. source[routed[g]] \in Sources
      BY <2>4, SourcesAre
    <3> QED
      BY <1>2, <2>3, <3>1 DEF Typed, TypeOf, Sources
  <2>6. Len(source) <= retrieved
    BY <1>1 DEF RouterInv, CameInOrder
  <2>7. \/ TypeOf(routed[g]) = TypeOf(ret[g].val)
        \/ TypeOf(routed[g]) = "v4" /\ routed[g] <= ruledOut
    <3>1. CASE TypeOf(routed[g]) = "oauth"
      BY <2>1, <3>1 DEF SignerTakes
    <3>2. CASE TypeOf(routed[g]) = "v4" /\ routed[g] > ruledOut
      <4>1. routed[g] = retrieved
        BY <2>4, <3>2 DEF RouterInv, StaticKeysLast
      <4> QED
        BY <1>1, <2>3, <2>4, <2>6, <4>1
    <3>3. ruledOut \in Nat
      BY DEF SignedTypeOK
    <3> QED
      BY <1>1, <2>5, <3>1, <3>2, <3>3
  <2>8. ruledOut' = ruledOut
    BY <2>1
  <2> QED
    BY <1>1, <1>2, <2>2, <2>3, <2>7, <2>8, RouterStepKeeps
<1>8. CASE Finish(g)
  <2>1. /\ Enter(g, "done") /\ UNCHANGED <<vars, chainVars, ruledOut>>
        /\ routed' = [routed EXCEPT ![g] = 0] /\ signed' = [signed EXCEPT ![g] = 0]
    BY <1>8 DEF Finish
  <2>2. RouterStep(g) /\ stage'[g] = "done" /\ routed'[g] = 0 /\ signed'[g] = 0
    BY <1>1, <1>4, <2>1 DEF RouterStep, Stages, vars, cache, history, chainVars
  <2> QED
    BY <1>2, <2>2, RouterStepKeeps
<1>9. CASE ExpireLocally(g)
  <2>1. /\ Enter(g, "again") /\ UNCHANGED <<chainVars, routed, signed>> /\ ruledOut' = retrieved
        /\ creds' = Empty /\ UNCHANGED <<expired, call, retrieved, resCh, ret>>
    BY <1>9 DEF ExpireLocally, Expire
  <2>2. RouterStep(g) /\ stage'[g] = "again"
    BY <1>4, <2>1 DEF RouterStep, Stages, chainVars
  <2> QED
    BY <1>1, <1>2, <2>1, <2>2, RouterStepKeeps
<1>10. CASE Retried(g) \/ RefusedAsExpired(g)
  <2>1. /\ Enter(g, "again") \/ Enter(g, "expire")
        /\ UNCHANGED <<vars, chainVars, routed, signed, ruledOut>>
    BY <1>10 DEF Retried, RefusedAsExpired, signing
  <2>2. RouterStep(g) /\ stage'[g] \in {"again", "expire"}
    BY <1>4, <2>1 DEF RouterStep, Stages, vars, cache, history, chainVars
  <2> QED
    BY <1>1, <1>2, <2>1, <2>2, RouterStepKeeps
<1>11. CASE CancelRequest(g)
  <2>1. UNCHANGED <<chainVars, stage, routed, signed, ruledOut, cache, call, retrieved, resCh, ret>>
    BY <1>11 DEF CancelRequest, Cancel, vars, history
  <2>2. RouterStep(g) /\ stage'[g] = stage[g]
    BY <2>1 DEF RouterStep, cache, chainVars
  <2>3. stage[g] = "sign" => routed[g] # Empty
    BY DEF RouterInv, SignerNotBehind
  <2>4. stage[g] = "sent" =>
              /\ signed[g] # Empty /\ routed[g] # Empty
              /\ \/ TypeOf(routed[g]) = TypeOf(signed[g])
                 \/ TypeOf(routed[g]) = "v4" /\ routed[g] <= ruledOut
    BY DEF RouterInv, ValuesCame, SignerFits, Signer
  <2> QED
    BY <1>1, <1>2, <2>1, <2>2, <2>3, <2>4, RouterStepKeeps
<1> QED
  BY <1>5, <1>6, <1>7, <1>8, <1>9, <1>10, <1>11 DEF SendStep, ServiceStep, SignFails, Answered

\* A retrieval that ends brings a value that is newer than all others, and only
\* while none of them is good.
LEMMA RetrieveKeepsRouter ==
    ASSUME SignedTypeOK, CausesLeft, LastRetrieved, RouterInv,
           NEW type \in {"none", "oauth", "v4"}, NEW key \in Int, Came(type, key),
           call.stage = "retrieves", UNCHANGED <<retrieved, requestVars, resCh, ret>>,
           \/ /\ type # "none" /\ creds' = retrieved /\ call' = Returned(Result("creds", retrieved))
              /\ type = "v4" => ~expired'
           \/ type = "none" /\ creds' = creds /\ call' = Returned(Result("error", Empty))
    PROVE  RouterInv'
<1> USE DEF RouterInv
<1>1. /\ creds \in Nat /\ retrieved \in Nat /\ retrieved # 0 /\ ruledOut \in Nat
      /\ \A h \in Getters : /\ ret[h].val \in Nat /\ resCh[h].val \in Nat
                            /\ routed[h] \in Nat /\ signed[h] \in Nat
  BY DEF SignedTypeOK, TypeOK, CausesLeft, Unlocked
<1>2. /\ source \in Seq(Sources) /\ Len(source) = retrieved - 1 /\ ruledOut <= retrieved
      /\ Len(source) \in Nat
  BY SourcesAre DEF CameInOrder, Unlocked
<1>3. /\ Len(source') = retrieved
      /\ TypeOf(retrieved)' = type
      /\ \A n \in 1 .. Len(source) : /\ TypeOf(n)' \in {TypeOf(n), "none"}
                                     /\ n \in Held => TypeOf(n)' = TypeOf(n)
  BY <1>1, <1>2, CameFacts DEF TypeOf
<1>4. UNCHANGED <<stage, routed, signed, ruledOut, ret, resCh>>
  BY DEF requestVars, signing
<1>5. call'.stage = "returned" /\ call'.res.val \in {retrieved, Empty}
  BY DEF Returned, Result
<1>6. CameInOrder'
  BY <1>1, <1>2, <1>3, <1>4, <1>5 DEF CameInOrder, Unlocked
<1>7. ASSUME NEW n \in Held, Typed(n), n \in Nat PROVE Typed(n)'
  BY <1>1, <1>2, <1>3, <1>7 DEF Typed
<1>8. /\ creds \in Held /\ call.res.val \in Held
      /\ \A h \in Getters : /\ ret[h].val \in Held /\ resCh[h].val \in Held
                            /\ routed[h] \in Held /\ signed[h] \in Held
  BY DEF Held
<1>9. ValuesCame'
  <2>1. \A h \in Getters : /\ Typed(ret[h].val)' /\ Typed(resCh[h].val)'
                           /\ Typed(routed[h])' /\ Typed(signed[h])'
    <3> SUFFICES ASSUME NEW h \in Getters
                 PROVE  /\ Typed(ret[h].val)' /\ Typed(resCh[h].val)'
                        /\ Typed(routed[h])' /\ Typed(signed[h])'
      OBVIOUS
    <3>1. /\ Typed(ret[h].val) /\ Typed(resCh[h].val) /\ Typed(routed[h]) /\ Typed(signed[h])
          /\ ret[h].val \in Held /\ resCh[h].val \in Held
          /\ routed[h] \in Held /\ signed[h] \in Held
      BY <1>8 DEF ValuesCame
    <3>2. ret'[h] = ret[h] /\ resCh'[h] = resCh[h] /\ routed'[h] = routed[h] /\ signed'[h] = signed[h]
      BY <1>4
    <3> QED
      BY <1>1, <1>7, <3>1, <3>2
  <2>2. Typed(creds) /\ Typed(call.res.val) /\ creds \in Held
    BY <1>8 DEF ValuesCame
  <2>3. CASE type # "none" /\ creds' = retrieved /\ call' = Returned(Result("creds", retrieved))
    <3>1. call'.res.val = retrieved
      BY <2>3 DEF Returned, Result
    <3>2. Typed(creds)' /\ Typed(call.res.val)'
      BY <1>1, <1>3, <2>3, <3>1 DEF Typed
    <3> QED
      BY <1>4, <2>1, <3>2 DEF ValuesCame
  <2>4. CASE type = "none" /\ creds' = creds /\ call' = Returned(Result("error", Empty))
    <3>1. call'.res.val = Empty
      BY <2>4 DEF Returned, Result
    <3>2. Typed(call.res.val)'
      BY <3>1 DEF Typed
    <3>3. Typed(creds)'
      BY <1>1, <1>7, <2>2, <2>4
    <3> QED
      BY <1>4, <2>1, <3>2, <3>3 DEF ValuesCame
  <2> QED
    BY <2>3, <2>4
<1>10. \A n \in 1 .. Len(source) : TypeOf(n) = "v4" => n <= ruledOut
  BY <1>1, <1>2 DEF StaticKeysLast
<1>11. StaticKeysLast'
  <2> SUFFICES ASSUME NEW n \in 1 .. retrieved, TypeOf(n)' = "v4", n > ruledOut
               PROVE  n = retrieved /\ creds' = n /\ ~expired'
    BY <1>3, <1>4 DEF StaticKeysLast
  <2>1. n = retrieved
    BY <1>1, <1>2, <1>3, <1>10
  <2> QED
    BY <1>3, <2>1
<1>12. SignerNotBehind'
  BY <1>4 DEF SignerNotBehind
<1>13. SignerFits'
  <2> SUFFICES ASSUME NEW h \in Getters, stage[h] = "sent"
               PROVE  \/ TypeOf(routed[h])' = TypeOf(signed[h])'
                      \/ TypeOf(routed[h])' = "v4" /\ routed[h] <= ruledOut
    BY <1>4 DEF SignerFits, Signer
  <2>1. /\ signed[h] \in 1 .. Len(source) /\ signed[h] \in Held
        /\ routed[h] \in 1 .. Len(source) /\ routed[h] \in Held
    BY <1>8 DEF ValuesCame, Typed
  <2>2. TypeOf(signed[h])' = TypeOf(signed[h]) /\ TypeOf(routed[h])' = TypeOf(routed[h])
    BY <1>3, <1>4, <2>1 DEF TypeOf
  <2> QED
    BY <2>2 DEF SignerFits, Signer
<1> QED
  BY <1>6, <1>9, <1>11, <1>12, <1>13

\* A request, the cache or a provider takes a step.
LEMMA NextRouterInv ==
    IInv /\ LastRetrieved /\ SignedTypeOK /\ RouterInv /\ [SignedNext]_allVars => RouterInv'
<1> SUFFICES ASSUME CausesLeft, LastRetrieved, SignedTypeOK, RouterInv, [SignedNext]_allVars
             PROVE  RouterInv'
  BY DEF IInv
<1>0. call \in Calls /\ retrieved \in Nat /\ Empty \in Nat
  BY DEF SignedTypeOK, TypeOK, Calls, Results, Empty
<1>1. CASE UNCHANGED allVars
  BY <1>1 DEF RouterInv, CameInOrder, Unlocked, ValuesCame, Typed, TypeOf, StaticKeysLast,
              SignerNotBehind, SignerFits, Signer, allVars, vars, cache, history, chainVars,
              requestVars, signing
<1>2. ASSUME NEW g \in Getters, GetStep(g) PROVE RouterInv'
  BY <1>2, GetKeepsRouter
<1>3. ASSUME NEW g \in Getters, SendStep(g) \/ ServiceStep(g) \/ CancelRequest(g)
      PROVE  RouterInv'
  BY <1>3, RequestKeepsRouter
<1>4. CASE IAMRetrieves
  <2>1. Came("oauth", token') /\ token' \in Int
    BY <1>4 DEF IAMRetrieves, CachedToken, SignedTypeOK
  <2> QED
    BY <1>4, <2>1, RetrieveKeepsRouter DEF IAMRetrieves, RetrieveSucceeds
<1>5. CASE HmacRetrieves \/ OtherRetrieves
  <2>1. Came("v4", 0) \/ Came("v4", retrieved)
    BY <1>5 DEF HmacRetrieves, OtherRetrieves
  <2>2. RetrieveSucceeds /\ ~expired' /\ UNCHANGED requestVars
    BY <1>5 DEF HmacRetrieves, OtherRetrieves
  <2> QED
    BY <1>0, <2>1, <2>2, RetrieveKeepsRouter DEF RetrieveSucceeds
<1>6. CASE ChainFails
  <2>1. Came("none", NoKey) /\ RetrieveFails /\ UNCHANGED requestVars /\ NoKey \in Int
    BY <1>6 DEF ChainFails, NoKey
  <2> QED
    BY <2>1, RetrieveKeepsRouter DEF RetrieveFails, RetrieveErrors
<1>7. CASE singleRetrieve /\ UNCHANGED <<chainVars, requestVars>>
  <2>1. Result("creds", creds) \in Results
    BY ResultType DEF SignedTypeOK, TypeOK, Kinds
  <2>2. \/ /\ Good /\ retrieved' = retrieved
           /\ call'.stage = "returned" /\ call'.res = Result("creds", creds)
        \/ /\ ~Good /\ retrieved' = retrieved + 1
           /\ call'.stage = "retrieves" /\ call'.res = call.res
    BY <1>0, <1>7, <2>1, CallAdvances DEF singleRetrieve
  <2>3. /\ UNCHANGED <<source, stage, routed, signed, ruledOut, ret, resCh, creds, expired>>
        /\ call.stage = "starts" /\ creds' = creds /\ expired' = expired
    BY <1>7 DEF singleRetrieve, chainVars, requestVars, signing, cache
  <2>4. CameInOrder'
    BY <1>0, <2>2, <2>3 DEF RouterInv, CameInOrder, Unlocked, SignedTypeOK
  <2>5. Typed(call'.res.val) /\ \A n \in Nat : Typed(n) <=> Typed(n)'
    BY <2>2, <2>3 DEF RouterInv, ValuesCame, Result, Typed, TypeOf
  <2>6. call'.res.val \in Nat
    BY <1>0, <2>2 DEF Calls, Results, Result, SignedTypeOK, TypeOK
  <2>7. ValuesCame'
    BY <2>3, <2>5, <2>6 DEF RouterInv, ValuesCame, Typed, TypeOf
  <2>8. StaticKeysLast'
    <3>1. CASE Good
      BY <2>2, <2>3, <3>1 DEF RouterInv, StaticKeysLast, TypeOf
    <3>2. CASE ~Good
      <4>1. \A n \in 1 .. Len(source) : ~(TypeOf(n) = "v4" /\ n > ruledOut)
        BY <3>2 DEF RouterInv, StaticKeysLast, Good, Empty
      <4> QED
        BY <2>3, <4>1 DEF StaticKeysLast, TypeOf
    <3> QED
      BY <3>1, <3>2
  <2>9. SignerNotBehind' /\ SignerFits'
    BY <2>3 DEF RouterInv, SignerNotBehind, SignerFits, Signer, TypeOf
  <2> QED
    BY <2>4, <2>7, <2>8, <2>9 DEF RouterInv
<1>8. CASE doCall /\ UNCHANGED <<chainVars, requestVars>>
  <2>1. \A g \in Getters : resCh'[g] = resCh[g] \/ resCh'[g] = call.res
    BY <1>8 DEF doCall
  <2>2. call'.stage = "none" /\ call'.res.val = Empty /\ call.stage = "returned"
    BY <1>8 DEF doCall, NoCall, NoResult, Result
  <2>3. /\ UNCHANGED <<source, stage, routed, signed, ruledOut, ret, retrieved, creds, expired>>
        /\ creds' = creds /\ expired' = expired
    BY <1>8 DEF doCall, chainVars, requestVars, signing, cache, history
  <2>4. CameInOrder'
    BY <2>2, <2>3 DEF RouterInv, CameInOrder, Unlocked
  <2>5. ValuesCame'
    <3>1. \A g \in Getters : /\ Typed(resCh'[g].val)
                             /\ resCh'[g].kind = "creds" => resCh'[g].val # Empty
      BY <2>1 DEF RouterInv, ValuesCame, LastRetrieved
    <3>2. \A n \in Nat : Typed(n) <=> Typed(n)'
      BY <2>3 DEF Typed, TypeOf
    <3>3. Typed(Empty)
      BY DEF Typed
    <3>4. /\ creds \in Nat /\ call.res.val \in Nat
          /\ \A g \in Getters : /\ ret[g].val \in Nat /\ resCh[g].val \in Nat
                                /\ routed[g] \in Nat /\ signed[g] \in Nat
      BY DEF SignedTypeOK, TypeOK
    <3>5. \A g \in Getters : resCh'[g].val \in Nat
      BY <2>1, <3>4
    <3> QED
      BY <1>0, <2>2, <2>3, <3>1, <3>2, <3>3, <3>4, <3>5 DEF RouterInv, ValuesCame
  <2>6. StaticKeysLast' /\ SignerFits'
    BY <2>3 DEF RouterInv, StaticKeysLast, SignerFits, Signer, TypeOf
  <2>7. SignerNotBehind'
    <3>1. \A g \in Getters : routed[g] # Empty => routed[g] <= retrieved
      BY <1>0 DEF RouterInv, ValuesCame, Typed, CameInOrder, SignedTypeOK
    <3> QED
      BY <2>1, <2>3, <3>1 DEF RouterInv, SignerNotBehind, LastRetrieved
  <2> QED
    BY <2>4, <2>5, <2>6, <2>7 DEF RouterInv
<1>9. CASE OtherExpires
  <2>1. /\ UNCHANGED <<source, stage, routed, signed, ret, resCh, call, creds, retrieved>>
        /\ ruledOut' = retrieved
    BY <1>9 DEF OtherExpires, ProviderExpires, chainVars
  <2>2. CameInOrder' /\ ruledOut <= ruledOut' /\ ruledOut \in Nat /\ Len(source) <= retrieved
    BY <1>0, <2>1 DEF RouterInv, CameInOrder, Unlocked, SignedTypeOK
  <2>3. ValuesCame'
    BY <2>1 DEF RouterInv, ValuesCame, Typed, TypeOf
  <2>4. StaticKeysLast'
    BY <1>0, <2>1, <2>2 DEF StaticKeysLast, SignedTypeOK
  <2>5. SignerNotBehind'
    BY <2>1 DEF RouterInv, SignerNotBehind
  <2>6. SignerFits'
    <3>1. \A g \in Getters : routed[g] \in Nat
      BY DEF SignedTypeOK
    <3> QED
      BY <1>0, <2>1, <2>2, <3>1 DEF RouterInv, SignerFits, Signer, TypeOf
  <2> QED
    BY <2>2, <2>3, <2>4, <2>5, <2>6 DEF RouterInv
<1> QED
  BY <1>1, <1>2, <1>3, <1>4, <1>5, <1>6, <1>7, <1>8, <1>9 DEF SignedNext, RetrieveStep

\* Nothing has come and nobody has asked.
LEMMA InitRouterInv == SignedInit => LastRetrieved /\ SignedTypeOK /\ RouterInv
<1> SUFFICES ASSUME SignedInit PROVE LastRetrieved /\ SignedTypeOK /\ RouterInv
  OBVIOUS
<1>1. TypeOK
  BY InitIInv DEF SignedInit, IInv
<1>2. SignedTypeOK
  BY <1>1 DEF SignedInit, SignedTypeOK, NoKey
<1>3. LastRetrieved
  BY DEF SignedInit, Init, LastRetrieved, Good, NoCall, NoResult, Result
<1>4. RouterInv
  BY DEF SignedInit, Init, RouterInv, CameInOrder, Unlocked, ValuesCame, Typed, StaticKeysLast,
         SignerNotBehind, SignerFits, NoCall, NoResult, Result, Empty
<1> QED
  BY <1>2, <1>3, <1>4

\* The requests, the cache and the providers together keep the invariant.
THEOREM RouterInvariant == SignedSpec => [](LastRetrieved /\ SignedTypeOK /\ RouterInv)
<1>1. SignedSpec => [](IInv /\ TypeOK)
  <2>1. IInv => TypeOK
    BY DEF IInv
  <2> QED
    BY <2>1, SignedUsesCache, CacheInvariant, PTL
<1>2. IInv /\ LastRetrieved /\ [SignedNext]_allVars => LastRetrieved'
  BY StepIsCacheStep, NextLastRetrieved
<1>3. SignedTypeOK /\ RouterInv /\ TypeOK' /\ [SignedNext]_allVars => SignedTypeOK'
  BY NextSignedType DEF RouterInv
<1> QED
  BY <1>1, <1>2, <1>3, NextRouterInv, InitRouterInv, PTL DEF SignedSpec

\* Every variable of the requests and the providers keeps its type.
THEOREM SignedTypeCorrect == SignedSpec => []SignedTypeOK
  BY RouterInvariant, PTL

\* A try is signed as its credentials require, though the router and the signer
\* get them one after the other; or the keys the router saw had expired.
THEOREM SignerFitsKeys == SignedSpec => []SignerFits
<1>1. RouterInv => SignerFits
  BY DEF RouterInv
<1> QED
  BY <1>1, RouterInvariant, PTL
=============================================================================
