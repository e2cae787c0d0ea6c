--------------------------- MODULE SignedRequests ---------------------------
(***************************************************************************)
(* Requests that share credentials, and the providers behind them: the     *)
(* composition of the loop of Request.Send (aws/request/request.go), the   *)
(* handlers that read and expire credentials (aws/corehandlers), the       *)
(* router of the signers (aws/signer), the cache of Credentials.tla, and   *)
(* the ChainProvider with the IAM provider in front (aws/credentials).     *)
(*                                                                         *)
(* A request is a getter of the cache. It calls Get when it is built, to   *)
(* learn whether it needs a region; and for each try once in the router,   *)
(* to choose the signer, and once in the signer, to sign.                  *)
(*                                                                         *)
(* The body, the retryer and net/http are those of Request.tla; here a try *)
(* is one step.                                                            *)
(***************************************************************************)
EXTENDS Credentials, Sequences

CONSTANTS
    MaxTries,  \* MaxTries[g]: r.MaxRetries() + 1
    Built,     \* the requests their caller built before Send
    MayEnd,    \* the requests whose context may end
    MaxTokens, \* bound: the tokens IAM gives
    Chains     \* the chains of providers to look at: sets of "iam", "hmac", "other"

\* "iam" is the IAM provider, first in the chain; "hmac" a provider of static
\* keys that follows it; "other" any provider that knows when its keys expire.
ASSUME SignedAssumption ==
    /\ MaxTries \in [Getters -> Nat \ {0}]
    /\ MaxTokens \in Nat \ {0}
    /\ Built \subseteq Getters /\ MayEnd \subseteq Getters
    /\ Chains \subseteq (SUBSET {"iam", "hmac", "other"}) \ {{}}

VARIABLES
    chain,     \* c.Providers of the ChainProvider
    token,     \* the token the IAM token manager has: 0 is none yet
    source,    \* source[n]: type and key of the value of retrieval n
    stage,     \* where each request is in Send
    routed,    \* the retrieval the router chose the signer of its try by
    signed,    \* the retrieval its current try is signed with, 0 for none
    tries,     \* the tries it made
    canceled,  \* the requests whose context is done
    refused,   \* history: the key of its last try that was refused as expired
    ruledOut   \* history: the retrievals begun by the time keys were last expired

chainVars == <<chain, token, source>>
signing == <<routed, signed, tries, canceled, refused, ruledOut>>
requestVars == <<stage, signing>>
allVars == <<vars, chainVars, requestVars>>

NoKey == -1
NoSource == [type |-> "none", key |-> NoKey]
TypeOf(n) == source[n].type
KeyOf(n) == source[n].key

SignedInit ==
    /\ Init /\ expired
    /\ chain \in Chains
    /\ token = 0 /\ source = <<>>
    /\ stage = [g \in Getters |-> "new"]
    /\ routed = [g \in Getters |-> 0]
    /\ signed = [g \in Getters |-> 0]
    /\ tries = [g \in Getters |-> 0]
    /\ canceled = {}
    /\ refused = [g \in Getters |-> NoKey]
    /\ ruledOut = 0

-----------------------------------------------------------------------------
(* Send. *)

Enter(g, s) == stage' = [stage EXCEPT ![g] = s]

\* Send returns.
Finish(g) ==
    /\ Enter(g, "done")
    /\ routed' = [routed EXCEPT ![g] = 0]
    /\ signed' = [signed EXCEPT ![g] = 0]
    /\ refused' = [refused EXCEPT ![g] = NoKey]
    /\ canceled' = canceled \ {g}
    /\ UNCHANGED <<vars, chainVars, tries, ruledOut>>

\* Send builds the request: ValidateEndpointHandler gets the credentials, not
\* under the context of the request.
Build(g) ==
    /\ stage[g] = "new" /\ g \notin Built
    /\ Get(g, FALSE)
    /\ Enter(g, "validate")
    /\ UNCHANGED <<chainVars, signing>>

\* The Get of request g has returned credentials, or an error.
Has(g) == pc[g] = "idle" /\ ret[g].kind = "creds"
HasError(g) == pc[g] = "idle" /\ ret[g].kind \notin {"creds", "none"}

\* Sign: delegateRequestToSigner gets the credentials for their type.
Route(g) ==
    /\ \/ stage[g] = "validate" /\ Has(g)
       \/ stage[g] = "new" /\ g \in Built
       \/ stage[g] = "again"
    /\ Get(g, FALSE)
    /\ Enter(g, "route")
    /\ UNCHANGED <<chainVars, signing>>

\* The router has the type and calls its signer, which gets the credentials
\* itself: that of v4 under the context of the request.
Sign(g) ==
    /\ stage[g] = "route" /\ Has(g)
    /\ routed' = [routed EXCEPT ![g] = ret[g].val]
    /\ Get(g, TypeOf(ret[g].val) = "v4" /\ g \in canceled)
    /\ Enter(g, "sign")
    /\ UNCHANGED <<chainVars, signed, tries, canceled, refused, ruledOut>>

\* The signer of the current try of g.
Signer(g) == TypeOf(routed[g])

\* Mutant of SignerTakes: the signer of IAM does not look for a token.
SignerTakesAny(s, type) == TRUE

\* The signer of IAM refuses credentials without a token, that of v4 signs
\* with the keys it finds, which an IAM token leaves empty.
SignerTakes(s, type) == s = "oauth" => type = "oauth"

\* The try is signed and sent.
SendTry(g) ==
    /\ stage[g] = "sign" /\ Has(g)
    /\ SignerTakes(Signer(g), TypeOf(ret[g].val))
    /\ signed' = [signed EXCEPT ![g] = ret[g].val]
    /\ tries' = [tries EXCEPT ![g] = @ + 1]
    /\ Enter(g, "sent")
    /\ UNCHANGED <<vars, chainVars, routed, canceled, refused, ruledOut>>

\* Build or Sign fails, and Send returns: no credentials, or the wrong ones.
SignFails(g) ==
    /\ stage[g] \in {"validate", "route", "sign"}
    /\ \/ HasError(g)
       \/ stage[g] = "sign" /\ Has(g) /\ ~SignerTakes(Signer(g), TypeOf(ret[g].val))
    /\ Finish(g)

\* The service answers, with success or an error that is not retried. Keys that
\* were refused then stay in the cache (handlers.go 196).
Answered(g) == stage[g] = "sent" /\ Finish(g)

\* WillRetry, and the context is not done by the end of the sleep.
WillRetry(g) == tries[g] < MaxTries[g] /\ g \notin canceled

\* An error that is retried and says nothing of the credentials.
Retried(g) ==
    /\ stage[g] = "sent" /\ WillRetry(g)
    /\ Enter(g, "again")
    /\ UNCHANGED <<vars, chainVars, signing>>

\* The service refuses the keys as expired, which static keys never are.
RefusedAsExpired(g) ==
    /\ stage[g] = "sent"
    /\ KeyOf(signed[g]) # 0
    /\ WillRetry(g)
    /\ refused' = [refused EXCEPT ![g] = KeyOf(signed[g])]
    /\ Enter(g, "expire")
    /\ UNCHANGED <<vars, chainVars, routed, signed, tries, canceled, ruledOut>>

\* AfterRetryHandler expires the credentials, which waits for their lock.
ExpireLocally(g) ==
    /\ stage[g] = "expire"
    /\ Expire
    /\ Enter(g, "again")
    /\ ruledOut' = retrieved
    /\ UNCHANGED <<chainVars, routed, signed, tries, canceled, refused>>

\* The context of the request is done; the Get of its signer has that context.
\* Before the router looks nobody asks the context.
CancelRequest(g) ==
    /\ stage[g] \in {"route", "sign", "sent", "expire"} /\ g \in MayEnd \ canceled
    /\ canceled' = canceled \cup {g}
    /\ IF stage[g] = "sign" /\ Signer(g) = "v4" /\ pc[g] # "idle"
         THEN Cancel(g)
         ELSE UNCHANGED vars
    /\ UNCHANGED <<chainVars, stage, routed, signed, tries, refused, ruledOut>>

-----------------------------------------------------------------------------
(* The providers. *)

\* The values somebody may still look at.
Held ==
    {creds} \cup {call.res.val} \cup UNION {{ret[g].val, resCh[g].val, routed[g], signed[g]} : g \in Getters}

\* A retrieval has ended with a value of that type and key, or without one.
Came(type, key) ==
    source' = Append([n \in DOMAIN source |-> IF n \in Held THEN source[n] ELSE NoSource],
                     [type |-> type, key |-> key])

\* The token manager has a token that is good for long enough.
CachedToken == {token} \ {0}

\* Provider.Retrieve of IAM: the token the token manager has, or a new one. Its
\* IsExpired is always true.
IAMRetrieves ==
    /\ "iam" \in chain
    /\ RetrieveSucceeds /\ expired'
    /\ token' \in CachedToken \cup {token + 1}
    /\ token' <= MaxTokens
    /\ Came("oauth", token')
    /\ UNCHANGED <<chain, requestVars>>

\* The provider of IAM fails, and the chain goes on to the static keys, which
\* never expire.
HmacRetrieves ==
    /\ "hmac" \in chain
    /\ RetrieveSucceeds /\ ~expired'
    /\ Came("v4", 0)
    /\ UNCHANGED <<chain, token, requestVars>>

\* A provider that makes new keys each time, which may expire at once.
OtherRetrieves ==
    /\ "other" \in chain
    /\ RetrieveSucceeds /\ ~expired'
    /\ Came("v4", retrieved)
    /\ UNCHANGED <<chain, token, requestVars>>

\* No provider of the chain has credentials, and the chain has no current one.
ChainFails ==
    /\ "hmac" \notin chain
    /\ RetrieveFails /\ expired'
    /\ Came("none", NoKey)
    /\ UNCHANGED <<chain, token, requestVars>>

\* The keys of such a provider expire, which static keys never do.
OtherExpires ==
    /\ "other" \in chain
    /\ Good /\ KeyOf(creds) # 0
    /\ ProviderExpires
    /\ ruledOut' = retrieved
    /\ UNCHANGED <<chainVars, stage, routed, signed, tries, canceled, refused>>

-----------------------------------------------------------------------------

GetStep(g) ==
    /\ asyncIsExpired(g) \/ DoChan(g) \/ Receive(g) \/ Canceled(g)
    /\ UNCHANGED <<chainVars, requestVars>>

SendStep(g) ==
    Build(g) \/ Route(g) \/ Sign(g) \/ SendTry(g) \/ SignFails(g) \/ ExpireLocally(g)

ServiceStep(g) == Answered(g) \/ Retried(g) \/ RefusedAsExpired(g)

RetrieveStep ==
    \/ IAMRetrieves \/ HmacRetrieves \/ OtherRetrieves \/ ChainFails
    \/ (singleRetrieve \/ doCall) /\ UNCHANGED <<chainVars, requestVars>>

SignedNext ==
    \/ \E g \in Getters : GetStep(g) \/ SendStep(g) \/ ServiceStep(g) \/ CancelRequest(g)
    \/ RetrieveStep
    \/ OtherExpires

SignedSpec == SignedInit /\ [][SignedNext]_allVars

\* The goroutines of the requests and of the call run, a reader or writer that
\* waits for c.m gets in when the call that has it is done, and the providers
\* and the service answer. Nobody has to cancel.
SignedFairness ==
    /\ \A g \in Getters : SF_allVars(GetStep(g) \/ SendStep(g) \/ ServiceStep(g))
    /\ WF_allVars(RetrieveStep)

FairSignedSpec == SignedSpec /\ SignedFairness

-----------------------------------------------------------------------------
(* What requests may rely on. *)

SignedTypeOK ==
    /\ TypeOK
    /\ chain \in Chains /\ token \in Nat
    /\ source \in Seq([type : {"none", "oauth", "v4"}, key : Int])
    /\ stage \in [Getters -> {"new", "validate", "route", "sign", "sent", "expire", "again", "done"}]
    /\ routed \in [Getters -> Nat] /\ signed \in [Getters -> Nat]
    /\ tries \in [Getters -> Nat] /\ canceled \subseteq MayEnd
    /\ refused \in [Getters -> Int] /\ ruledOut \in Nat

\* A try is sent with the signature of its credentials' own type: the router
\* and the signer each get the credentials (signer_router.go 84), and what they
\* get may differ when the chain falls back, or comes back. The one exception
\* is the signer of v4 when the keys the router saw have expired since, or were
\* expired: it may then be given an IAM token, and signs with its empty keys.
SignerFits ==
    \A g \in Getters : stage[g] = "sent" =>
        \/ Signer(g) = TypeOf(signed[g])
        \/ Signer(g) = "v4" /\ routed[g] <= ruledOut

\* A retry after the keys were refused as expired has other keys: "when the
\* expired token exception occurs the credentials need to be expired locally so
\* that the next request to get credentials will trigger a credentials refresh"
\* (corehandlers/handlers.go 209-211).
RetryHasNewKeys ==
    \A g \in Getters : stage[g] = "sent" => KeyOf(signed[g]) # refused[g]

\* Send returns: no request waits for credentials for ever, also when the one
\* that began the call they share is canceled, and when others expire them.
SendReturns == <>(\A g \in Getters : stage[g] = "done")
=============================================================================
