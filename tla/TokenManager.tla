---------------------------- MODULE TokenManager ----------------------------
(***************************************************************************)
(* The IAM token manager: type defaultTMImplementation,                    *)
(* aws/credentials/ibmiam/tokenmanager/token_manager.go. It caches one     *)
(* token, renews it when a Get finds it too old, and renews it earlier in  *)
(* the background, from the callback of a timer. Everything that writes    *)
(* runs under the write lock of an RWMutex, the requests to IAM included;  *)
(* a Get gives its read lock up before it asks for the write lock, and     *)
(* looks again when it has it.                                             *)
(*                                                                         *)
(* A token is the time it expires at; 0 is a token that never does. What a *)
(* Get does under the read lock is one step: it blocks on nothing and      *)
(* nothing can be written meanwhile. IAM is external: a refresh gives a    *)
(* token, status 400 (the refresh token is invalid), or another error; the *)
(* client that asks it (client.go) tries again after either. The requests  *)
(* of the init function are not told apart.                                *)
(***************************************************************************)
EXTENDS Integers, FiniteSets

CONSTANTS
    Callers,      \* goroutines that call Get
    Owners,       \* those of them that call the other methods too
    Callbacks,    \* goroutines the timer starts
    TTLs,         \* lifetimes IAM and the init function may give a token
    Advisory,     \* advisoryRefreshTimeout(ttl)
    Mandatory,    \* mandatoryRefreshTimeout(ttl)
    MinimumDelta, \* minimumDelta
    MinimumWait,  \* minimumWait
    MaxRetries,   \* c.MaxRetries of the client
    MaxNow,       \* bound: the clock stops there
    InitMayFail,  \* the init function may return an error
    NoToken,      \* the nil Cache
    Nobody        \* not a goroutine

ASSUME TimesAssumption ==
    /\ TTLs \subseteq Nat
    /\ {Advisory, Mandatory, MinimumDelta, MinimumWait, MaxRetries, MaxNow} \subseteq Nat

ASSUME NamesAssumption ==
    /\ NoToken \notin Int
    /\ Nobody \notin Callers \cup Callbacks
    /\ Callers \cap Callbacks = {} /\ Owners \subseteq Callers
    /\ InitMayFail \in BOOLEAN

VARIABLES
    now,     \* the time
    Cache,   \* tm.Cache
    enabled, \* tm.enableBackgroundRefresh: "nil", "true" or "false"
    timer,   \* tm.timer: whether it is there and runs, and when it fires
    pc,      \* where each goroutine is
    ret,     \* what the last Get of each caller returned
    holder,  \* the goroutine that has the write lock
    request  \* its refresh: the retries so far, whether the form it would send
             \* is whole, and whether IAM has refused the refresh token

vars == <<now, Cache, enabled, timer, pc, ret, holder, request>>

Goroutines == Callers \cup Callbacks

\* The method a caller is in and waits for the write lock of, or, when it has
\* the lock, the request that is under way.
Waits == {"init", "fetch", "refresh", "stop", "start", "background"}
InGet == {"get calls init", "get refreshes", "get calls init again"}
InRefresh == {"refreshes", "calls init again"}

NewRequest == [retries |-> 0, whole |-> TRUE, refused |-> FALSE]

Init ==
    /\ now = 1
    /\ Cache = NoToken
    /\ enabled = "nil"
    /\ timer = [state |-> "nil", at |-> 0]
    /\ pc = [t \in Goroutines |-> "idle"]
    /\ ret = [t \in Callers |-> "none"]
    /\ holder = Nobody /\ request = NewRequest

-----------------------------------------------------------------------------
(* Time left, and the timer. *)

Larger(a, b) == IF a > b THEN a ELSE b

\* waitingTime without and with the advisory timeout; a token that never
\* expires has none.
Expires(token) == token # 0
UntilMandatory(token) == token - now - Larger(MinimumDelta, Mandatory)
UntilAdvisory(token) == token - now - Larger(Larger(MinimumDelta, Advisory), Mandatory)

\* retrieveCheckGet gives the cached token.
Valid(token) == Expires(token) => UntilMandatory(token) > MinimumDelta

\* The test of backgroundRefreshFunc.
NeedsUpdate(token) == Expires(token) /\ UntilAdvisory(token) < MinimumDelta

NilTimer == [state |-> "nil", at |-> 0]
StoppedTimer == [state |-> "stopped", at |-> 0]
Armed(tmr) == tmr.state = "armed"
Stopped(tmr) == IF tmr = NilTimer THEN NilTimer ELSE StoppedTimer

\* Mutant of ResetTimer: the switch is not looked at.
ResetTimerAlways(tmr, token, on) ==
    IF ~Expires(token) THEN NilTimer
    ELSE [state |-> "armed",
          at |-> now + Larger(UntilAdvisory(token), IF tmr = NilTimer THEN 0 ELSE MinimumWait)]

\* resetTimer: what becomes of timer tmr for a token. An existing timer is not
\* set to less than MinimumWait.
ResetTimer(tmr, token, on) ==
    IF on # "true" THEN tmr
    ELSE IF ~Expires(token) THEN NilTimer
    ELSE [state |-> "armed",
          at |-> now + Larger(UntilAdvisory(token), IF tmr = NilTimer THEN 0 ELSE MinimumWait)]

\* A new token, at the present time.
NewToken(ttl) == IF ttl = 0 THEN 0 ELSE now + ttl

-----------------------------------------------------------------------------
(* The lock. *)

At(t, place) == pc[t] = place
Goto(t, place) == pc' = [pc EXCEPT ![t] = place]
Lock(t) == holder = Nobody /\ holder' = t /\ UNCHANGED request
Unlock == holder' = Nobody /\ request' = NewRequest
PassesLock == holder = Nobody /\ UNCHANGED <<holder, request>>
Return(t, r) == Goto(t, "idle") /\ ret' = [ret EXCEPT ![t] = r]

-----------------------------------------------------------------------------
(* Get. *)

\* Under the read lock: the cached token, or one of the two slow paths.
Get(t) ==
    /\ At(t, "idle")
    /\ PassesLock
    /\ CASE Cache = NoToken -> Goto(t, "init") /\ UNCHANGED ret
         [] Cache # NoToken /\ Valid(Cache) -> Return(t, "token")
         [] OTHER -> Goto(t, "fetch") /\ UNCHANGED ret
    /\ UNCHANGED <<now, Cache, enabled, timer>>

\* retrieveInit looks again when it has the write lock.
retrieveInit(t) ==
    /\ At(t, "init")
    /\ IF Cache = NoToken
         THEN Lock(t) /\ Goto(t, "get calls init") /\ UNCHANGED ret
         ELSE PassesLock /\ Return(t, IF Valid(Cache) THEN "token" ELSE "nil")
    /\ UNCHANGED <<now, Cache, enabled, timer>>

\* init: the init function gives a token.
Initialized(ttl) ==
    LET on == IF enabled = "nil" THEN "true" ELSE enabled IN
    /\ Cache' = NewToken(ttl)
    /\ enabled' = on
    /\ timer' = ResetTimer(timer, NewToken(ttl), on)

InitSucceeds(t) ==
    /\ At(t, "get calls init")
    /\ \E ttl \in TTLs : Initialized(ttl)
    /\ Unlock /\ Return(t, "token")
    /\ UNCHANGED now

InitFails(t) ==
    /\ InitMayFail
    /\ At(t, "get calls init")
    /\ Unlock /\ Return(t, "error")
    /\ UNCHANGED <<now, Cache, enabled, timer>>

\* Mutant of retrieveFetch: no second look.
FetchWithoutLook(t) ==
    /\ At(t, "fetch")
    /\ Lock(t) /\ Goto(t, "get refreshes") /\ timer' = Stopped(timer) /\ UNCHANGED ret
    /\ UNCHANGED <<now, Cache, enabled>>

\* retrieveFetch looks again, and starts to refresh if it must.
retrieveFetch(t) ==
    /\ At(t, "fetch")
    /\ IF Valid(Cache)
         THEN PassesLock /\ Return(t, "token") /\ UNCHANGED timer
         ELSE Lock(t) /\ Goto(t, "get refreshes") /\ timer' = Stopped(timer) /\ UNCHANGED ret
    /\ UNCHANGED <<now, Cache, enabled>>

-----------------------------------------------------------------------------
(* refresh, for a Get, for Refresh, and for the background. *)

Refreshing(t) == pc[t] \in {"get refreshes", "refreshes"}
InitAgain(t) == pc[t] \in {"get calls init again", "calls init again"}

\* refresh returned nil: a Get looks at the token, and refreshes again while
\* it is not valid; tmr is the timer that resetTimer left.
Refreshed(t, token, tmr) ==
    IF pc[t] \in InGet /\ ~Valid(token)
      THEN /\ Goto(t, "get refreshes")
           /\ timer' = Stopped(tmr)
           /\ request' = NewRequest
           /\ UNCHANGED <<ret, holder>>
      ELSE /\ Unlock
           /\ timer' = tmr
           /\ IF pc[t] \in InGet THEN Return(t, "token") ELSE Goto(t, "idle") /\ UNCHANGED ret

\* Whether the copy of a request has the whole form: it is made from what its
\* last try left unread.
copyRequest(read) == request.whole /\ ~read

\* A try fails, and the client makes another. IAM may have refused the refresh
\* token, or the connection been lost, with the form read or not.
RefreshRetried(t) ==
    /\ Refreshing(t)
    /\ request.retries < MaxRetries
    /\ \E read, refuses \in BOOLEAN :
          /\ refuses => read /\ request.whole
          /\ request' = [retries |-> request.retries + 1,
                         whole   |-> copyRequest(read),
                         refused |-> request.refused \/ refuses]
    /\ UNCHANGED <<now, Cache, enabled, timer, pc, ret, holder>>

LastTry == request.retries = MaxRetries

RefreshSucceeds(t) ==
    /\ Refreshing(t)
    /\ request.whole
    /\ \E ttl \in TTLs :
          /\ Cache' = NewToken(ttl)
          /\ Refreshed(t, NewToken(ttl), ResetTimer(timer, NewToken(ttl), enabled))
    /\ UNCHANGED <<now, enabled>>

\* Status 400, of which IAM makes no difference between a refresh token that is
\* invalid and a form without one: refresh calls init, and does not look at its
\* result.
RefreshTokenInvalid(t) ==
    /\ Refreshing(t)
    /\ LastTry
    /\ Goto(t, IF pc[t] \in InGet THEN "get calls init again" ELSE "calls init again")
    /\ request' = NewRequest
    /\ UNCHANGED <<now, Cache, enabled, timer, ret, holder>>

InitAgainSucceeds(t) ==
    /\ InitAgain(t)
    /\ \E ttl \in TTLs :
          LET on == IF enabled = "nil" THEN "true" ELSE enabled
              once == ResetTimer(timer, NewToken(ttl), on)
          IN  /\ Cache' = NewToken(ttl)
              /\ enabled' = on
              /\ Refreshed(t, NewToken(ttl), ResetTimer(once, NewToken(ttl), on))
    /\ UNCHANGED now

InitAgainFails(t) ==
    /\ InitMayFail
    /\ InitAgain(t)
    /\ Refreshed(t, Cache, ResetTimer(timer, Cache, enabled))
    /\ UNCHANGED <<now, Cache, enabled>>

\* Mutant of TimerAfterError: the timer is reset only after a success.
TimerLeft == timer

\* Any other error is returned; the timer is reset all the same (deferred).
TimerAfterError == ResetTimer(timer, Cache, enabled)

\* Mutant of RefreshFails: the write lock is not given back.
RefreshFailsLocked(t) ==
    /\ Refreshing(t)
    /\ LastTry
    /\ request' = NewRequest
    /\ timer' = TimerAfterError
    /\ IF pc[t] \in InGet THEN Return(t, "error") ELSE Goto(t, "idle") /\ UNCHANGED ret
    /\ UNCHANGED <<now, Cache, enabled, holder>>

RefreshFails(t) ==
    /\ Refreshing(t)
    /\ LastTry
    /\ timer' = TimerAfterError
    /\ Unlock
    /\ IF pc[t] \in InGet THEN Return(t, "error") ELSE Goto(t, "idle") /\ UNCHANGED ret
    /\ UNCHANGED <<now, Cache, enabled>>

-----------------------------------------------------------------------------
(* Refresh, StopBackgroundRefresh, StartBackgroundRefresh, and the timer. *)

\* A caller calls the method and waits for the write lock.
Call(t) ==
    /\ At(t, "idle")
    /\ \E method \in {"refresh", "stop", "start"} : Goto(t, method)
    /\ UNCHANGED <<now, Cache, enabled, timer, ret, holder, request>>

\* Refresh dereferences tm.Cache, whether there is one or not.
Refresh(t) ==
    /\ At(t, "refresh")
    /\ IF Cache = NoToken
         THEN PassesLock /\ Goto(t, "panic") /\ UNCHANGED timer
         ELSE Lock(t) /\ Goto(t, "refreshes") /\ timer' = Stopped(timer)
    /\ UNCHANGED <<now, Cache, enabled, ret>>

StopBackgroundRefresh(t) ==
    /\ At(t, "stop")
    /\ PassesLock
    /\ timer' = Stopped(timer)
    /\ enabled' = "false"
    /\ Goto(t, "idle")
    /\ UNCHANGED <<now, Cache, ret>>

StartBackgroundRefresh(t) ==
    /\ At(t, "start")
    /\ PassesLock
    /\ enabled' = "true"
    /\ IF Cache = NoToken
         THEN Goto(t, "panic") /\ UNCHANGED timer
         ELSE Goto(t, "idle") /\ timer' = ResetTimer(timer, Cache, "true")
    /\ UNCHANGED <<now, Cache, ret>>

\* The timer fires and starts a goroutine, which asks for the lock. What is
\* due after the clock's bound fires when the clock has stopped.
TimerFires(b) ==
    /\ Armed(timer) /\ (timer.at <= now \/ now = MaxNow)
    /\ At(b, "idle")
    /\ timer' = StoppedTimer
    /\ Goto(b, "background")
    /\ UNCHANGED <<now, Cache, enabled, ret, holder, request>>

backgroundRefreshFunc(b) ==
    /\ At(b, "background")
    /\ IF NeedsUpdate(Cache)
         THEN Lock(b) /\ Goto(b, "refreshes") /\ timer' = Stopped(timer)
         ELSE PassesLock /\ Goto(b, "idle") /\ timer' = ResetTimer(timer, Cache, enabled)
    /\ UNCHANGED <<now, Cache, enabled, ret>>

Tick ==
    /\ now < MaxNow
    /\ now' = now + 1
    /\ UNCHANGED <<Cache, enabled, timer, pc, ret, holder, request>>

-----------------------------------------------------------------------------

\* The lock is granted to a goroutine that waits for it.
Granted(t) ==
    IF t \in Callers
      THEN \/ retrieveInit(t) \/ retrieveFetch(t) \/ Refresh(t)
           \/ StopBackgroundRefresh(t) \/ StartBackgroundRefresh(t)
      ELSE backgroundRefreshFunc(t)

\* A request to IAM, or the init function, returns.
Renewed(t) == RefreshSucceeds(t) \/ InitAgainSucceeds(t)
Answered(t) ==
    \/ Renewed(t) \/ RefreshRetried(t) \/ RefreshTokenInvalid(t) \/ RefreshFails(t) \/ InitAgainFails(t)
    \/ (t \in Callers /\ (InitSucceeds(t) \/ InitFails(t)))

Next ==
    \/ \E t \in Callers : Get(t)
    \/ \E t \in Owners : Call(t)
    \/ \E t \in Goroutines : Granted(t) \/ Answered(t)
    \/ \E b \in Callbacks : TimerFires(b)
    \/ Tick

\* A Go mutex is not kept from a goroutine for ever, every request ends, and
\* the timer fires when it is due.
Fairness ==
    /\ \A t \in Goroutines : SF_vars(Granted(t) \/ Answered(t))
    /\ WF_vars(Tick)
    /\ WF_vars(\E b \in Callbacks : TimerFires(b))

\* IAM does not refuse for ever.
IAMRecovers == \A t \in Goroutines : SF_vars(Renewed(t))

Spec == Init /\ [][Next]_vars
FairSpec == Spec /\ Fairness
RecoverySpec == FairSpec /\ IAMRecovers

-----------------------------------------------------------------------------
(* What the token manager promises. *)

TypeOK ==
    /\ now \in Nat
    /\ Cache \in Nat \cup {NoToken}
    /\ enabled \in {"nil", "true", "false"}
    /\ timer \in [state : {"nil", "stopped", "armed"}, at : Nat]
    /\ pc \in [Goroutines -> {"idle", "panic"} \cup Waits \cup InGet \cup InRefresh]
    /\ ret \in [Callers -> {"none", "token", "nil", "error"}]
    /\ holder \in Goroutines \cup {Nobody}
    /\ request \in [retries : 0 .. MaxRetries, whole : BOOLEAN, refused : BOOLEAN]

\* "Initialize new token when REFRESH TOKEN got invalid" (token_manager.go 345):
\* init inside refresh means that IAM was sent the refresh token and refused it.
InitMeansRefused ==
    [][\A t \in Goroutines : RefreshTokenInvalid(t) => request.whole \/ request.refused]_vars

\* A Get asks IAM for a token only if there is none that is valid: of the
\* callers that find an old token together one refreshes, and the others find
\* what it brought (the second look of token_manager.go 223 and 249).
RefreshNeeded ==
    [][\A t \in Callers :
          /\ pc[t] # "get refreshes" /\ pc'[t] = "get refreshes" => ~Valid(Cache')
          /\ pc'[t] = "get calls init" => Cache' = NoToken]_vars

\* While background refresh is on, the token that will expire is watched: the
\* timer is armed or its callback is on its way, after every outcome of every
\* request and every order of Stop and Start.
TokenWatched ==
    enabled = "true" /\ Cache # NoToken /\ Cache # 0 /\ holder = Nobody =>
        Armed(timer) \/ \E b \in Callbacks : pc[b] = "background"

\* A manager whose background refresh is off has no timer running, whichever
\* refresh is under way or ends after the stop.
StopDisarms == enabled = "false" => ~Armed(timer)

\* A token that is near its end is renewed in the background, without a Get.
TokenOld == Cache # NoToken /\ NeedsUpdate(Cache)
TokenRenewed == (enabled = "true" /\ TokenOld) ~> (enabled # "true" \/ ~TokenOld)

\* Get returns.
GetReturns ==
    \A t \in Callers : pc[t] \in {"init", "fetch"} \cup InGet ~> pc[t] = "idle"

\* "checks the cache if the token is valid returns it, if not valid does a
\* refresh and then returns it" (token_manager.go 279): Get gives a token or an error.
TokenOrError == \A t \in Callers : ret[t] # "nil"
=============================================================================
