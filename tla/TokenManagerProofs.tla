------------------------ MODULE TokenManagerProofs ------------------------
(***************************************************************************)
(* What holds of TokenManager for any number of callers, owners and        *)
(* callbacks of the timer, and for any lifetimes and delays. The promises  *)
(* about the timer rest on two facts: who is inside a request has the      *)
(* write lock (OneRequest), and where the code dereferences the cached     *)
(* token without a test there is one (HasToken).                           *)
(***************************************************************************)
EXTENDS TokenManager, TLAPS

Working == InGet \cup InRefresh

\* A goroutine is inside a request to IAM, or the init function, exactly while
\* it has the write lock: there is one of them at most.
OneRequest == \A t \in Goroutines : pc[t] \in Working <=> holder = t

\* There is a token wherever Get has seen one, a refresh is under way, or the
\* timer was set for one; there is none while a Get makes the first.
Dereferences == {"fetch", "background"} \cup (Working \ {"get calls init"})
HasToken ==
    /\ \A t \in Goroutines : pc[t] \in Dereferences => Cache # NoToken
    /\ \A t \in Goroutines : pc[t] = "get calls init" => Cache = NoToken
    /\ Armed(timer) => Cache # NoToken

IInv == TypeOK /\ OneRequest /\ HasToken /\ StopDisarms /\ TokenWatched

USE TimesAssumption, NamesAssumption

Places == {"idle", "panic"} \cup Waits \cup Working
Timers == [state : {"nil", "stopped", "armed"}, at : Nat]

\* The work is told apart from the other places.
LEMMA PlacesDiffer ==
    /\ Working = {"get calls init", "get refreshes", "get calls init again",
                  "refreshes", "calls init again"}
    /\ Places = {"idle", "panic", "init", "fetch", "refresh", "stop", "start", "background"}
                  \cup Working
  BY DEF Working, InGet, InRefresh, Places, Waits

-----------------------------------------------------------------------------
(* The timer and the token. *)

\* What resetTimer leaves, and a stop.
LEMMA ResetTimerSets ==
    ASSUME now \in Nat, NEW tmr \in Timers, NEW token \in Nat, NEW on
    PROVE  /\ ResetTimer(tmr, token, on) \in Timers
           /\ on # "true" => ResetTimer(tmr, token, on) = tmr
           /\ on = "true" /\ token # 0 => Armed(ResetTimer(tmr, token, on))
<1>1. UntilAdvisory(token) \in Int
  BY DEF UntilAdvisory, Larger
<1>2. \A m \in Nat : now + Larger(UntilAdvisory(token), m) \in Nat
  BY <1>1 DEF Larger
<1>3. NilTimer \in Timers
  BY DEF NilTimer, Timers
<1>4. now + Larger(UntilAdvisory(token), IF tmr = NilTimer THEN 0 ELSE MinimumWait) \in Nat
  BY <1>2
<1> QED
  BY <1>3, <1>4 DEF ResetTimer, Expires, Armed, Timers

\* A timer that was stopped is not armed.
LEMMA StoppedIsStopped ==
    ASSUME NEW tmr
    PROVE  Stopped(tmr) \in Timers /\ ~Armed(Stopped(tmr))
  BY DEF Stopped, NilTimer, StoppedTimer, Timers, Armed

\* A new token is a time, and never the nil Cache.
LEMMA TokenType ==
    ASSUME now \in Nat, NEW ttl \in TTLs
    PROVE  NewToken(ttl) \in Nat /\ NewToken(ttl) # NoToken
  BY DEF NewToken

-----------------------------------------------------------------------------
(* The conjuncts of the invariant, one after the other. *)

\* There is no token, no timer, and nobody who does anything.
LEMMA InitIInv == Init => IInv
<1> SUFFICES ASSUME Init PROVE IInv
  OBVIOUS
<1>1. TypeOK
  BY DEF Init, TypeOK, Waits, InGet, InRefresh, NewRequest
<1>2. OneRequest
  BY PlacesDiffer DEF Init, OneRequest, Goroutines
<1>3. HasToken /\ StopDisarms /\ TokenWatched
  BY PlacesDiffer DEF Init, HasToken, Dereferences, StopDisarms, TokenWatched, Armed
<1> QED
  BY <1>1, <1>2, <1>3 DEF IInv
-----------------------------------------------------------------------------
(* One goroutine at a time is in a request. *)

\* Who waited takes the lock and begins to work.
LEMMA LockKeepsOne ==
    ASSUME TypeOK, OneRequest, NEW t \in Goroutines, NEW p \in Working, Lock(t), Goto(t, p)
    PROVE  OneRequest'
<1>1. t # Nobody
  BY DEF Goroutines
<1>2. holder = Nobody /\ holder' = t
  BY DEF Lock
<1>3. pc' = [pc EXCEPT ![t] = p] /\ DOMAIN pc = Goroutines
  BY DEF Goto, TypeOK
<1> SUFFICES ASSUME NEW u \in Goroutines PROVE pc'[u] \in Working <=> holder' = u
  BY DEF OneRequest
<1>4. CASE u = t
  BY <1>2, <1>3, <1>4
<1>5. CASE u # t
  <2>1. pc'[u] = pc[u] /\ u # Nobody
    BY <1>3, <1>5 DEF Goroutines
  <2> QED
    BY <1>2, <1>5, <2>1 DEF OneRequest
<1> QED
  BY <1>4, <1>5

\* A goroutine enters a request with the lock, and leaves it when it gives the lock up.
LEMMA StepOneRequest ==
    ASSUME TypeOK, OneRequest, Next
    PROVE  OneRequest'
<1>1. ASSUME NEW t \in Callers, Get(t) PROVE OneRequest'
  BY <1>1, PlacesDiffer DEF Get, PassesLock, At, Goto, Return, OneRequest, TypeOK,
     Goroutines
<1>2. ASSUME NEW t \in Owners, Call(t) PROVE OneRequest'
  BY <1>2, PlacesDiffer DEF Call, At, Goto, OneRequest, TypeOK, Goroutines
<1>3. ASSUME NEW t \in Callers, retrieveInit(t) PROVE OneRequest'
  <2>1. CASE Cache = NoToken
    BY <1>3, <2>1, PlacesDiffer, LockKeepsOne DEF retrieveInit, Goroutines
  <2>2. CASE Cache # NoToken
    BY <1>3, <2>2, PlacesDiffer DEF retrieveInit, PassesLock, At, Goto, Return, OneRequest,
       TypeOK, Goroutines
  <2> QED
    BY <2>1, <2>2
<1>4. ASSUME NEW t \in Callers, InitSucceeds(t) PROVE OneRequest'
  BY <1>4, PlacesDiffer DEF InitSucceeds, Initialized, Unlock, At, Goto, Return, OneRequest,
     TypeOK, Goroutines
<1>5. ASSUME NEW t \in Callers, InitFails(t) PROVE OneRequest'
  BY <1>5, PlacesDiffer DEF InitFails, Unlock, At, Goto, Return, OneRequest, TypeOK,
     Goroutines
<1>6. ASSUME NEW t \in Callers, retrieveFetch(t) PROVE OneRequest'
  <2>1. CASE Valid(Cache)
    BY <1>6, <2>1, PlacesDiffer DEF retrieveFetch, PassesLock, At, Goto, Return, OneRequest,
       TypeOK, Goroutines
  <2>2. CASE ~Valid(Cache)
    BY <1>6, <2>2, PlacesDiffer, LockKeepsOne DEF retrieveFetch, Goroutines
  <2> QED
    BY <2>1, <2>2
<1>7. ASSUME NEW t \in Goroutines, RefreshRetried(t) PROVE OneRequest'
  BY <1>7, PlacesDiffer DEF RefreshRetried, Refreshing, OneRequest, TypeOK, Goroutines
<1>8. ASSUME NEW t \in Goroutines, RefreshSucceeds(t) PROVE OneRequest'
  BY <1>8, PlacesDiffer DEF RefreshSucceeds, Refreshed, Refreshing, Unlock, Goto, Return,
     OneRequest, TypeOK, Goroutines
<1>9. ASSUME NEW t \in Goroutines, RefreshTokenInvalid(t) PROVE OneRequest'
  BY <1>9, PlacesDiffer DEF RefreshTokenInvalid, Refreshing, Goto, OneRequest, TypeOK,
     Goroutines
<1>10. ASSUME NEW t \in Goroutines, InitAgainSucceeds(t) PROVE OneRequest'
  BY <1>10, PlacesDiffer DEF InitAgainSucceeds, InitAgain, Refreshed, Unlock, Goto, Return,
     OneRequest, TypeOK, Goroutines
<1>11. ASSUME NEW t \in Goroutines, InitAgainFails(t) PROVE OneRequest'
  BY <1>11, PlacesDiffer DEF InitAgainFails, InitAgain, Refreshed, Unlock, Goto, Return,
     OneRequest, TypeOK, Goroutines
<1>12. ASSUME NEW t \in Goroutines, RefreshFails(t) PROVE OneRequest'
  BY <1>12, PlacesDiffer DEF RefreshFails, Refreshing, Unlock, Goto, Return, OneRequest,
     TypeOK, Goroutines
<1>13. ASSUME NEW t \in Callers, Refresh(t) PROVE OneRequest'
  <2>1. CASE Cache = NoToken
    BY <1>13, <2>1, PlacesDiffer DEF Refresh, PassesLock, At, Goto, OneRequest, TypeOK,
       Goroutines
  <2>2. CASE Cache # NoToken
    BY <1>13, <2>2, PlacesDiffer, LockKeepsOne DEF Refresh, Goroutines
  <2> QED
    BY <2>1, <2>2
<1>14. ASSUME NEW t \in Callers, StopBackgroundRefresh(t) PROVE OneRequest'
  BY <1>14, PlacesDiffer DEF StopBackgroundRefresh, PassesLock, At, Goto, OneRequest,
     TypeOK, Goroutines
<1>15. ASSUME NEW t \in Callers, StartBackgroundRefresh(t) PROVE OneRequest'
  BY <1>15, PlacesDiffer DEF StartBackgroundRefresh, PassesLock, At, Goto, OneRequest,
     TypeOK, Goroutines
<1>16. ASSUME NEW b \in Callbacks, TimerFires(b) PROVE OneRequest'
  BY <1>16, PlacesDiffer DEF TimerFires, At, Goto, OneRequest, TypeOK, Goroutines
<1>17. ASSUME NEW b \in Callbacks, backgroundRefreshFunc(b) PROVE OneRequest'
  <2>1. CASE NeedsUpdate(Cache)
    BY <1>17, <2>1, PlacesDiffer, LockKeepsOne DEF backgroundRefreshFunc, Goroutines
  <2>2. CASE ~NeedsUpdate(Cache)
    BY <1>17, <2>2, PlacesDiffer DEF backgroundRefreshFunc, PassesLock, At, Goto,
       OneRequest, TypeOK, Goroutines
  <2> QED
    BY <2>1, <2>2
<1>18. CASE Tick
  BY <1>18, PlacesDiffer DEF Tick, OneRequest, TypeOK, Goroutines
<1> QED
  BY <1>1, <1>2, <1>3, <1>4, <1>5, <1>6, <1>7, <1>8, <1>9, <1>10, <1>11, <1>12, <1>13,
     <1>14, <1>15, <1>16, <1>17, <1>18 DEF Next, Granted, Answered, Renewed, Goroutines

-----------------------------------------------------------------------------
(* There is a token where one is dereferenced. *)

\* A goroutine goes to a place that suits the token there is, or is not.
LEMMA MoveKeepsToken ==
    ASSUME TypeOK, HasToken, NEW t \in Goroutines, NEW p, Goto(t, p), Cache' = Cache,
           p \in Dereferences => Cache # NoToken,
           p = "get calls init" => Cache = NoToken,
           Armed(timer)' => Cache # NoToken
    PROVE  HasToken'
<1>1. pc' = [pc EXCEPT ![t] = p] /\ DOMAIN pc = Goroutines
  BY DEF Goto, TypeOK
<1>2. \A u \in Goroutines : pc'[u] = IF u = t THEN p ELSE pc[u]
  BY <1>1
<1> QED
  BY <1>2 DEF HasToken

\* Who has the lock makes a token: no other goroutine is in the init function.
LEMMA MadeToken ==
    ASSUME TypeOK, OneRequest, NEW t \in Goroutines, pc[t] \in Working, NEW p, Goto(t, p),
           p # "get calls init", Cache' # NoToken
    PROVE  HasToken'
<1>1. pc' = [pc EXCEPT ![t] = p] /\ DOMAIN pc = Goroutines
  BY DEF Goto, TypeOK
<1>2. \A u \in Goroutines : pc'[u] # "get calls init"
  <2> SUFFICES ASSUME NEW u \in Goroutines, u # t PROVE pc'[u] # "get calls init"
    BY <1>1
  <2>1. pc'[u] = pc[u]
    BY <1>1
  <2>2. pc[u] \notin Working
    BY DEF OneRequest
  <2> QED
    BY <2>1, <2>2, PlacesDiffer
<1> QED
  BY <1>2 DEF HasToken

\* The result of a refresh sends a goroutine to its caller, or back to refresh.
LEMMA RefreshedGoes ==
    ASSUME NEW t \in Goroutines, NEW token, NEW tmr, Refreshed(t, token, tmr)
    PROVE  Goto(t, "idle") \/ Goto(t, "get refreshes")
  BY DEF Refreshed, Return

\* Each step keeps a token where one is dereferenced.
LEMMA StepHasToken ==
    ASSUME TypeOK, OneRequest, HasToken, Next
    PROVE  HasToken'
<1> USE DEF Goroutines
<1>0. Dereferences = {"fetch", "background", "get refreshes", "get calls init again",
                      "refreshes", "calls init again"}
  BY PlacesDiffer DEF Dereferences
<1>a. \A t \in Goroutines : pc[t] \in Dereferences => Cache # NoToken
  BY DEF HasToken
<1>b. Armed(timer) => Cache # NoToken
  BY DEF HasToken
<1>c. now \in Nat /\ timer \in Timers
  BY DEF TypeOK, Timers
<1>1. ASSUME NEW t \in Callers, Get(t) PROVE HasToken'
  <2>1. timer' = timer /\ Cache' = Cache
    BY <1>1 DEF Get
  <2>2. PICK p \in {"init", "idle", "fetch"} : Goto(t, p) /\ (p = "fetch" => Cache # NoToken)
    BY <1>1 DEF Get, Return
  <2> QED
    BY <1>0, <1>b, <2>1, <2>2, MoveKeepsToken
<1>2. ASSUME NEW t \in Owners, Call(t) PROVE HasToken'
  <2>1. timer' = timer /\ Cache' = Cache
    BY <1>2 DEF Call
  <2>2. PICK p \in {"refresh", "stop", "start"} : Goto(t, p)
    BY <1>2 DEF Call
  <2> QED
    BY <1>0, <1>b, <2>1, <2>2, MoveKeepsToken
<1>3. ASSUME NEW t \in Callers, retrieveInit(t) PROVE HasToken'
  <2>1. timer' = timer /\ Cache' = Cache
    BY <1>3 DEF retrieveInit
  <2>2. PICK p \in {"get calls init", "idle"} : Goto(t, p) /\ (p # "idle" => Cache = NoToken)
    BY <1>3 DEF retrieveInit, Return
  <2> QED
    BY <1>0, <1>b, <2>1, <2>2, MoveKeepsToken
<1>4. ASSUME NEW t \in Callers, InitSucceeds(t) PROVE HasToken'
  <2>1. Cache' # NoToken /\ Goto(t, "idle") /\ pc[t] \in Working
    BY <1>4, <1>c, TokenType, PlacesDiffer DEF InitSucceeds, Initialized, Return, At
  <2> QED
    BY <2>1, MadeToken
<1>5. ASSUME NEW t \in Callers, InitFails(t) PROVE HasToken'
  <2>1. timer' = timer /\ Cache' = Cache /\ Goto(t, "idle")
    BY <1>5 DEF InitFails, Return
  <2> QED
    BY <1>0, <1>b, <2>1, MoveKeepsToken
<1>6. ASSUME NEW t \in Callers, retrieveFetch(t) PROVE HasToken'
  <2>1. Cache' = Cache /\ Cache # NoToken
    BY <1>0, <1>6, <1>a DEF retrieveFetch, At
  <2>2. PICK p \in {"idle", "get refreshes"} : Goto(t, p)
    BY <1>6 DEF retrieveFetch, Return
  <2> QED
    BY <2>1, <2>2, MoveKeepsToken
<1>7. ASSUME NEW t \in Goroutines, RefreshRetried(t) PROVE HasToken'
  BY <1>7 DEF RefreshRetried, HasToken
<1>8. ASSUME NEW t \in Goroutines, RefreshSucceeds(t) PROVE HasToken'
  <2>1. Cache' # NoToken
    BY <1>8, <1>c, TokenType DEF RefreshSucceeds
  <2>2. PICK p \in {"idle", "get refreshes"} : Goto(t, p)
    BY <1>8, RefreshedGoes DEF RefreshSucceeds
  <2>3. pc[t] \in Working
    BY <1>8, PlacesDiffer DEF RefreshSucceeds, Refreshing
  <2> QED
    BY <2>1, <2>2, <2>3, MadeToken
<1>9. ASSUME NEW t \in Goroutines, RefreshTokenInvalid(t) PROVE HasToken'
  <2>1. Cache' = Cache /\ Cache # NoToken
    BY <1>0, <1>9, <1>a DEF RefreshTokenInvalid, Refreshing
  <2>2. PICK p \in {"get calls init again", "calls init again"} : Goto(t, p)
    BY <1>9 DEF RefreshTokenInvalid
  <2> QED
    BY <2>1, <2>2, MoveKeepsToken
<1>10. ASSUME NEW t \in Goroutines, InitAgainSucceeds(t) PROVE HasToken'
  <2>1. Cache' # NoToken
    BY <1>10, <1>c, TokenType DEF InitAgainSucceeds
  <2>2. PICK p \in {"idle", "get refreshes"} : Goto(t, p)
    BY <1>10, RefreshedGoes DEF InitAgainSucceeds
  <2>3. pc[t] \in Working
    BY <1>10, PlacesDiffer DEF InitAgainSucceeds, InitAgain
  <2> QED
    BY <2>1, <2>2, <2>3, MadeToken
<1>11. ASSUME NEW t \in Goroutines, InitAgainFails(t) PROVE HasToken'
  <2>1. Cache' = Cache /\ Cache # NoToken
    BY <1>0, <1>11, <1>a DEF InitAgainFails, InitAgain
  <2>2. PICK p \in {"idle", "get refreshes"} : Goto(t, p)
    BY <1>11, RefreshedGoes DEF InitAgainFails
  <2> QED
    BY <2>1, <2>2, MoveKeepsToken
<1>12. ASSUME NEW t \in Goroutines, RefreshFails(t) PROVE HasToken'
  <2>1. Cache' = Cache /\ Cache # NoToken
    BY <1>0, <1>12, <1>a DEF RefreshFails, Refreshing
  <2>2. Goto(t, "idle")
    BY <1>12 DEF RefreshFails, Return
  <2> QED
    BY <2>1, <2>2, MoveKeepsToken
<1>13. ASSUME NEW t \in Callers, Refresh(t) PROVE HasToken'
  <2>1. Cache' = Cache
    BY <1>13 DEF Refresh
  <2>2. CASE Cache = NoToken
    <3>1. timer' = timer /\ Goto(t, "panic")
      BY <1>13, <2>2 DEF Refresh
    <3> QED
      BY <1>0, <1>b, <2>1, <3>1, MoveKeepsToken
  <2>3. CASE Cache # NoToken
    <3>1. Goto(t, "refreshes")
      BY <1>13, <2>3 DEF Refresh
    <3> QED
      BY <2>1, <2>3, <3>1, MoveKeepsToken
  <2> QED
    BY <2>2, <2>3
<1>14. ASSUME NEW t \in Callers, StopBackgroundRefresh(t) PROVE HasToken'
  <2>1. Cache' = Cache /\ timer' = Stopped(timer) /\ Goto(t, "idle")
    BY <1>14 DEF StopBackgroundRefresh
  <2>2. ~Armed(timer')
    BY <2>1, StoppedIsStopped
  <2> QED
    BY <1>0, <2>1, <2>2, MoveKeepsToken
<1>15. ASSUME NEW t \in Callers, StartBackgroundRefresh(t) PROVE HasToken'
  <2>1. Cache' = Cache
    BY <1>15 DEF StartBackgroundRefresh
  <2>2. CASE Cache = NoToken
    <3>1. timer' = timer /\ Goto(t, "panic")
      BY <1>15, <2>2 DEF StartBackgroundRefresh
    <3> QED
      BY <1>0, <1>b, <2>1, <3>1, MoveKeepsToken
  <2>3. CASE Cache # NoToken
    <3>1. Goto(t, "idle")
      BY <1>15, <2>3 DEF StartBackgroundRefresh
    <3> QED
      BY <2>1, <2>3, <3>1, MoveKeepsToken
  <2> QED
    BY <2>2, <2>3
<1>16. ASSUME NEW b \in Callbacks, TimerFires(b) PROVE HasToken'
  <2>1. Cache' = Cache /\ Cache # NoToken /\ Goto(b, "background")
    BY <1>16, <1>b DEF TimerFires
  <2> QED
    BY <2>1, MoveKeepsToken
<1>17. ASSUME NEW b \in Callbacks, backgroundRefreshFunc(b) PROVE HasToken'
  <2>1. Cache' = Cache /\ Cache # NoToken
    BY <1>0, <1>17, <1>a DEF backgroundRefreshFunc, At
  <2>2. PICK p \in {"refreshes", "idle"} : Goto(b, p)
    BY <1>17 DEF backgroundRefreshFunc
  <2> QED
    BY <2>1, <2>2, MoveKeepsToken
<1>18. CASE Tick
  BY <1>18 DEF Tick, HasToken
<1> QED
  BY <1>1, <1>2, <1>3, <1>4, <1>5, <1>6, <1>7, <1>8, <1>9, <1>10, <1>11, <1>12, <1>13,
     <1>14, <1>15, <1>16, <1>17, <1>18 DEF Next, Granted, Answered, Renewed

-----------------------------------------------------------------------------
(* The timer. *)

TimerInv == timer \in Timers /\ StopDisarms /\ TokenWatched

\* A goroutine that is no callback moves, or takes the lock.
LEMMA MoveKeepsWatch ==
    ASSUME TypeOK, TimerInv, NEW t \in Goroutines, NEW p, Goto(t, p), pc[t] # "background",
           timer' = timer, Cache' = Cache, enabled' = enabled, holder' = holder
    PROVE  TimerInv'
<1>1. pc' = [pc EXCEPT ![t] = p] /\ DOMAIN pc = Goroutines
  BY DEF Goto, TypeOK
<1>2. \A b \in Callbacks : pc[b] = "background" => pc'[b] = "background"
  BY <1>1 DEF Goroutines
<1> QED
  BY <1>2 DEF TimerInv, StopDisarms, TokenWatched

\* Nobody has to watch while the lock is taken, and a timer that is stopped is
\* not armed.
LEMMA LockStopsWatch ==
    ASSUME TimerInv, NEW t \in Goroutines, holder' = t, enabled' = enabled,
           timer' \in {timer, Stopped(timer)}
    PROVE  TimerInv'
<1>1. t # Nobody
  BY DEF Goroutines
<1>2. CASE timer' = timer
  BY <1>1, <1>2 DEF TimerInv, StopDisarms, TokenWatched
<1>3. CASE timer' = Stopped(timer)
  BY <1>1, <1>3, StoppedIsStopped DEF TimerInv, StopDisarms, TokenWatched
<1> QED
  BY <1>2, <1>3

\* The timer is set for the token there is, as the switch says.
LEMMA ResetKeepsWatch ==
    ASSUME now \in Nat, TimerInv, enabled' \in {"nil", "true", "false"},
           enabled' = "true" \/ enabled' = enabled,
           Cache' \in Nat, timer' = ResetTimer(timer, Cache', enabled')
    PROVE  TimerInv'
<1>1. /\ timer' \in Timers
      /\ enabled' # "true" => timer' = timer
      /\ enabled' = "true" /\ Cache' # 0 => Armed(timer')
  BY ResetTimerSets DEF TimerInv
<1>2. StopDisarms'
  BY <1>1 DEF TimerInv, StopDisarms
<1>3. TokenWatched'
  BY <1>1 DEF TokenWatched
<1> QED
  BY <1>1, <1>2, <1>3 DEF TimerInv

\* The same when a refresh has returned to a Get that may have to do it again,
\* which stops the timer and keeps the lock.
LEMMA RefreshedKeepsWatch ==
    ASSUME now \in Nat, TimerInv, OneRequest, NEW t \in Goroutines, pc[t] \in Working,
           enabled' \in {"nil", "true", "false"}, enabled' = "true" \/ enabled' = enabled,
           Cache' \in Nat, NEW tmr \in Timers,
           enabled' # "true" => tmr = timer,
           enabled' = "true" /\ Cache' # 0 => Armed(tmr),
           Refreshed(t, Cache', tmr)
    PROVE  TimerInv'
<1>1. holder = t /\ t # Nobody
  BY DEF OneRequest, Goroutines
<1>2. CASE pc[t] \in InGet /\ ~Valid(Cache')
  <2>1. timer' = Stopped(tmr) /\ holder' = holder
    BY <1>2 DEF Refreshed
  <2> QED
    BY <1>1, <2>1, StoppedIsStopped DEF TimerInv, StopDisarms, TokenWatched
<1>3. CASE ~(pc[t] \in InGet /\ ~Valid(Cache'))
  <2>1. timer' = tmr
    BY <1>3 DEF Refreshed
  <2>2. StopDisarms'
    BY <2>1 DEF TimerInv, StopDisarms
  <2>3. TokenWatched'
    BY <2>1 DEF TokenWatched
  <2> QED
    BY <2>1, <2>2, <2>3 DEF TimerInv
<1> QED
  BY <1>2, <1>3

\* Every step leaves the timer as the switch and the token say.
LEMMA StepTimer ==
    ASSUME TypeOK, OneRequest, HasToken, TimerInv, Next
    PROVE  TimerInv'
<1> USE DEF Goroutines
<1>0. Dereferences = {"fetch", "background", "get refreshes", "get calls init again",
                      "refreshes", "calls init again"}
  BY PlacesDiffer DEF Dereferences
<1>a. now \in Nat /\ timer \in Timers /\ Cache \in Nat \cup {NoToken}
        /\ enabled \in {"nil", "true", "false"}
  BY DEF TypeOK, Timers
<1>b. \A t \in Goroutines : pc[t] \in Dereferences => Cache \in Nat
  BY <1>a DEF HasToken
<1>c. \A t \in Goroutines : pc[t] \in Working => holder = t
  BY DEF OneRequest
<1>1. ASSUME NEW t \in Callers, Get(t) PROVE TimerInv'
  <2>1. timer' = timer /\ Cache' = Cache /\ enabled' = enabled /\ holder' = holder
          /\ pc[t] # "background"
    BY <1>1 DEF Get, PassesLock, At
  <2>2. PICK p : Goto(t, p)
    BY <1>1 DEF Get, Return
  <2> QED
    BY <2>1, <2>2, MoveKeepsWatch
<1>2. ASSUME NEW t \in Owners, Call(t) PROVE TimerInv'
  <2>1. timer' = timer /\ Cache' = Cache /\ enabled' = enabled /\ holder' = holder
          /\ pc[t] # "background"
    BY <1>2 DEF Call, At
  <2>2. PICK p : Goto(t, p)
    BY <1>2 DEF Call
  <2> QED
    BY <2>1, <2>2, MoveKeepsWatch
<1>3. ASSUME NEW t \in Callers, retrieveInit(t) PROVE TimerInv'
  <2>1. timer' = timer /\ Cache' = Cache /\ enabled' = enabled /\ pc[t] # "background"
    BY <1>3 DEF retrieveInit, At
  <2>2. CASE Cache = NoToken
    <3>1. holder' = t
      BY <1>3, <2>2 DEF retrieveInit, Lock
    <3> QED
      BY <2>1, <3>1, LockStopsWatch
  <2>3. CASE Cache # NoToken
    <3>1. holder' = holder /\ Goto(t, "idle")
      BY <1>3, <2>3 DEF retrieveInit, PassesLock, Return
    <3> QED
      BY <2>1, <3>1, MoveKeepsWatch
  <2> QED
    BY <2>2, <2>3
<1>4. ASSUME NEW t \in Callers, InitSucceeds(t) PROVE TimerInv'
  <2>1. PICK ttl \in TTLs : Initialized(ttl)
    BY <1>4 DEF InitSucceeds
  <2>2. Cache' \in Nat /\ timer' = ResetTimer(timer, Cache', enabled')
    BY <1>a, <2>1, TokenType DEF Initialized
  <2>3. enabled' \in {"nil", "true", "false"} /\ (enabled' = "true" \/ enabled' = enabled)
    BY <1>a, <2>1 DEF Initialized
  <2> QED
    BY <1>a, <2>2, <2>3, ResetKeepsWatch
<1>5. ASSUME NEW t \in Callers, InitFails(t) PROVE TimerInv'
  <2>1. timer' = timer /\ Cache' = Cache /\ enabled' = enabled /\ Cache = NoToken
    BY <1>5 DEF InitFails, At, HasToken
  <2> QED
    BY <2>1 DEF TimerInv, StopDisarms, TokenWatched
<1>6. ASSUME NEW t \in Callers, retrieveFetch(t) PROVE TimerInv'
  <2>1. Cache' = Cache /\ enabled' = enabled /\ pc[t] # "background"
    BY <1>6 DEF retrieveFetch, At
  <2>2. CASE Valid(Cache)
    <3>1. timer' = timer /\ holder' = holder /\ Goto(t, "idle")
      BY <1>6, <2>2 DEF retrieveFetch, PassesLock, Return
    <3> QED
      BY <2>1, <3>1, MoveKeepsWatch
  <2>3. CASE ~Valid(Cache)
    <3>1. timer' = Stopped(timer) /\ holder' = t
      BY <1>6, <2>3 DEF retrieveFetch, Lock
    <3> QED
      BY <2>1, <3>1, LockStopsWatch
  <2> QED
    BY <2>2, <2>3
<1>7. ASSUME NEW t \in Goroutines, RefreshRetried(t) PROVE TimerInv'
  BY <1>7 DEF RefreshRetried, TimerInv, StopDisarms, TokenWatched
<1>8. ASSUME NEW t \in Goroutines, RefreshSucceeds(t) PROVE TimerInv'
  <2>1. PICK ttl \in TTLs :
          Cache' = NewToken(ttl) /\ Refreshed(t, Cache', ResetTimer(timer, Cache', enabled))
    BY <1>8 DEF RefreshSucceeds
  <2>2. Cache' \in Nat /\ enabled' = enabled /\ pc[t] \in Working
    BY <1>8, <1>a, <2>1, TokenType, PlacesDiffer DEF RefreshSucceeds, Refreshing
  <2> DEFINE tmr == ResetTimer(timer, Cache', enabled)
  <2>3. /\ tmr \in Timers
        /\ enabled' # "true" => tmr = timer
        /\ enabled' = "true" /\ Cache' # 0 => Armed(tmr)
    BY <1>a, <2>2, ResetTimerSets
  <2> HIDE DEF tmr
  <2>4. Refreshed(t, Cache', tmr)
    BY <2>1 DEF tmr
  <2> QED
    BY <1>a, <2>2, <2>3, <2>4, RefreshedKeepsWatch
<1>9. ASSUME NEW t \in Goroutines, RefreshTokenInvalid(t) PROVE TimerInv'
  <2>1. timer' = timer /\ enabled' = enabled /\ holder' = holder /\ pc[t] \in Working
    BY <1>9, PlacesDiffer DEF RefreshTokenInvalid, Refreshing
  <2> QED
    BY <1>c, <2>1, LockStopsWatch
<1>10. ASSUME NEW t \in Goroutines, InitAgainSucceeds(t) PROVE TimerInv'
  <2>1. PICK ttl \in TTLs :
          /\ Cache' = NewToken(ttl)
          /\ enabled' = IF enabled = "nil" THEN "true" ELSE enabled
          /\ Refreshed(t, Cache', ResetTimer(ResetTimer(timer, Cache', enabled'), Cache', enabled'))
    BY <1>10 DEF InitAgainSucceeds
  <2>2. Cache' \in Nat /\ enabled' \in {"nil", "true", "false"}
          /\ (enabled' = "true" \/ enabled' = enabled)
    BY <1>a, <2>1, TokenType
  <2>3. pc[t] \in Working
    BY <1>10, PlacesDiffer DEF InitAgainSucceeds, InitAgain
  <2> DEFINE once == ResetTimer(timer, Cache', enabled')
             tmr == ResetTimer(once, Cache', enabled')
  <2>4. once \in Timers /\ (enabled' # "true" => once = timer)
    BY <1>a, <2>2, ResetTimerSets
  <2> HIDE DEF once
  <2>5. /\ tmr \in Timers
        /\ enabled' # "true" => tmr = once
        /\ enabled' = "true" /\ Cache' # 0 => Armed(tmr)
    BY <1>a, <2>2, <2>4, ResetTimerSets
  <2> HIDE DEF tmr
  <2>6. Refreshed(t, Cache', tmr)
    BY <2>1 DEF tmr, once
  <2> QED
    BY <1>a, <2>2, <2>3, <2>4, <2>5, <2>6, RefreshedKeepsWatch
<1>11. ASSUME NEW t \in Goroutines, InitAgainFails(t) PROVE TimerInv'
  <2>1. Cache' = Cache /\ enabled' = enabled
          /\ Refreshed(t, Cache', ResetTimer(timer, Cache', enabled))
    BY <1>11 DEF InitAgainFails
  <2>2. Cache' \in Nat /\ pc[t] \in Working
    BY <1>0, <1>11, <1>b, <2>1, PlacesDiffer DEF InitAgainFails, InitAgain
  <2> DEFINE tmr == ResetTimer(timer, Cache', enabled)
  <2>3. /\ tmr \in Timers
        /\ enabled' # "true" => tmr = timer
        /\ enabled' = "true" /\ Cache' # 0 => Armed(tmr)
    BY <1>a, <2>1, <2>2, ResetTimerSets
  <2> HIDE DEF tmr
  <2>4. Refreshed(t, Cache', tmr)
    BY <2>1 DEF tmr
  <2> QED
    BY <1>a, <2>1, <2>2, <2>3, <2>4, RefreshedKeepsWatch
<1>12. ASSUME NEW t \in Goroutines, RefreshFails(t) PROVE TimerInv'
  <2>1. Cache' = Cache /\ enabled' = enabled /\ timer' = ResetTimer(timer, Cache, enabled)
    BY <1>12 DEF RefreshFails, TimerAfterError
  <2>2. Cache \in Nat
    BY <1>0, <1>12, <1>b DEF RefreshFails, Refreshing
  <2> QED
    BY <1>a, <2>1, <2>2, ResetKeepsWatch
<1>13. ASSUME NEW t \in Callers, Refresh(t) PROVE TimerInv'
  <2>1. Cache' = Cache /\ enabled' = enabled /\ pc[t] # "background"
    BY <1>13 DEF Refresh, At
  <2>2. CASE Cache = NoToken
    <3>1. timer' = timer /\ holder' = holder /\ Goto(t, "panic")
      BY <1>13, <2>2 DEF Refresh, PassesLock
    <3> QED
      BY <2>1, <3>1, MoveKeepsWatch
  <2>3. CASE Cache # NoToken
    <3>1. timer' = Stopped(timer) /\ holder' = t
      BY <1>13, <2>3 DEF Refresh, Lock
    <3> QED
      BY <2>1, <3>1, LockStopsWatch
  <2> QED
    BY <2>2, <2>3
<1>14. ASSUME NEW t \in Callers, StopBackgroundRefresh(t) PROVE TimerInv'
  <2>1. timer' = Stopped(timer) /\ enabled' = "false"
    BY <1>14 DEF StopBackgroundRefresh
  <2> QED
    BY <2>1, StoppedIsStopped DEF TimerInv, StopDisarms, TokenWatched
<1>15. ASSUME NEW t \in Callers, StartBackgroundRefresh(t) PROVE TimerInv'
  <2>1. Cache' = Cache /\ enabled' = "true"
    BY <1>15 DEF StartBackgroundRefresh
  <2>2. CASE Cache = NoToken
    <3>1. timer' = timer
      BY <1>15, <2>2 DEF StartBackgroundRefresh
    <3> QED
      BY <2>1, <2>2, <3>1 DEF TimerInv, StopDisarms, TokenWatched
  <2>3. CASE Cache # NoToken
    <3>1. timer' = ResetTimer(timer, Cache', enabled') /\ Cache' \in Nat
      BY <1>15, <1>a, <2>1, <2>3 DEF StartBackgroundRefresh
    <3> QED
      BY <1>a, <2>1, <3>1, ResetKeepsWatch
  <2> QED
    BY <2>2, <2>3
<1>16. ASSUME NEW b \in Callbacks, TimerFires(b) PROVE TimerInv'
  <2>1. timer' = StoppedTimer /\ pc'[b] = "background"
    BY <1>16 DEF TimerFires, Goto, TypeOK
  <2>2. timer' \in Timers /\ ~Armed(timer')
    BY <2>1 DEF StoppedTimer, Timers, Armed
  <2> QED
    BY <2>1, <2>2 DEF TimerInv, StopDisarms, TokenWatched
<1>17. ASSUME NEW b \in Callbacks, backgroundRefreshFunc(b) PROVE TimerInv'
  <2>1. Cache' = Cache /\ enabled' = enabled
    BY <1>17 DEF backgroundRefreshFunc
  <2>2. Cache \in Nat
    BY <1>0, <1>17, <1>b DEF backgroundRefreshFunc, At
  <2>3. CASE NeedsUpdate(Cache)
    <3>1. timer' = Stopped(timer) /\ holder' = b
      BY <1>17, <2>3 DEF backgroundRefreshFunc, Lock
    <3> QED
      BY <2>1, <3>1, LockStopsWatch
  <2>4. CASE ~NeedsUpdate(Cache)
    <3>1. timer' = ResetTimer(timer, Cache', enabled')
      BY <1>17, <2>1, <2>4 DEF backgroundRefreshFunc
    <3> QED
      BY <1>a, <2>1, <2>2, <3>1, ResetKeepsWatch
  <2> QED
    BY <2>3, <2>4
<1>18. CASE Tick
  BY <1>18 DEF Tick, TimerInv, StopDisarms, TokenWatched
<1> QED
  BY <1>1, <1>2, <1>3, <1>4, <1>5, <1>6, <1>7, <1>8, <1>9, <1>10, <1>11, <1>12, <1>13,
     <1>14, <1>15, <1>16, <1>17, <1>18 DEF Next, Granted, Answered, Renewed

-----------------------------------------------------------------------------
(* Types. *)

PlacesOK ==
    /\ pc \in [Goroutines -> Places]
    /\ ret \in [Callers -> {"none", "token", "nil", "error"}]
    /\ holder \in Goroutines \cup {Nobody}

Requests == [retries : 0 .. MaxRetries, whole : BOOLEAN, refused : BOOLEAN]

DataOK ==
    /\ now \in Nat
    /\ Cache \in Nat \cup {NoToken}
    /\ enabled \in {"nil", "true", "false"}
    /\ request \in Requests

\* The types of the variables in three parts.
LEMMA TypeParts == TypeOK <=> PlacesOK /\ DataOK /\ timer \in Timers
  BY DEF TypeOK, PlacesOK, DataOK, Timers, Places, Working, Requests

\* A request begins with values its variable may have.
LEMMA NewRequestType == NewRequest \in Requests
  BY DEF NewRequest, Requests

\* Whoever goes to a place is at one.
LEMMA GotoType ==
    ASSUME PlacesOK
    PROVE  /\ \A t \in Goroutines : \A p \in Places : Goto(t, p) => pc' \in [Goroutines -> Places]
           /\ {"idle", "panic", "init", "fetch", "refresh", "stop", "start", "background",
                "get calls init", "get refreshes", "get calls init again", "refreshes",
                "calls init again"} \subseteq Places
  BY PlacesDiffer DEF PlacesOK, Goto

\* A result that is returned is one of those there are.
LEMMA ReturnType ==
    ASSUME PlacesOK
    PROVE  \A t \in Goroutines : \A r \in {"token", "nil", "error"} : Return(t, r) =>
              /\ pc' \in [Goroutines -> Places]
              /\ ret' \in [Callers -> {"none", "token", "nil", "error"}]
  BY GotoType DEF PlacesOK, Return

\* Goroutines go to places, and return results.
LEMMA StepPlaces ==
    ASSUME PlacesOK, Next
    PROVE  PlacesOK'
<1>1. ASSUME NEW t \in Callers, Get(t) PROVE PlacesOK'
  BY <1>1, GotoType, ReturnType DEF Get, PassesLock, PlacesOK, Goroutines
<1>2. ASSUME NEW t \in Owners, Call(t) PROVE PlacesOK'
  BY <1>2, GotoType DEF Call, PlacesOK, Goroutines
<1>3. ASSUME NEW t \in Callers, retrieveInit(t) PROVE PlacesOK'
  <2>1. CASE Cache = NoToken
    BY <1>3, <2>1, GotoType, ReturnType DEF retrieveInit, Lock, PlacesOK, Goroutines
  <2>2. CASE Cache # NoToken
    BY <1>3, <2>2, GotoType, ReturnType DEF retrieveInit, PassesLock, PlacesOK, Goroutines
  <2> QED
    BY <2>1, <2>2
<1>4. ASSUME NEW t \in Callers, InitSucceeds(t) PROVE PlacesOK'
  BY <1>4, GotoType, ReturnType DEF InitSucceeds, Unlock, PlacesOK, Goroutines
<1>5. ASSUME NEW t \in Callers, InitFails(t) PROVE PlacesOK'
  BY <1>5, GotoType, ReturnType DEF InitFails, Unlock, PlacesOK, Goroutines
<1>6. ASSUME NEW t \in Callers, retrieveFetch(t) PROVE PlacesOK'
  <2>1. CASE Valid(Cache)
    BY <1>6, <2>1, GotoType, ReturnType DEF retrieveFetch, PassesLock, PlacesOK, Goroutines
  <2>2. CASE ~Valid(Cache)
    BY <1>6, <2>2, GotoType, ReturnType DEF retrieveFetch, Lock, PlacesOK, Goroutines
  <2> QED
    BY <2>1, <2>2
<1>7. ASSUME NEW t \in Goroutines, RefreshRetried(t) PROVE PlacesOK'
  BY <1>7 DEF RefreshRetried, PlacesOK, Goroutines
<1>8. ASSUME NEW t \in Goroutines, RefreshSucceeds(t) PROVE PlacesOK'
  BY <1>8, GotoType, ReturnType DEF RefreshSucceeds, Refreshed, Unlock, PlacesOK, Goroutines
<1>9. ASSUME NEW t \in Goroutines, RefreshTokenInvalid(t) PROVE PlacesOK'
  BY <1>9, GotoType DEF RefreshTokenInvalid, PlacesOK, Goroutines
<1>10. ASSUME NEW t \in Goroutines, InitAgainSucceeds(t) PROVE PlacesOK'
  BY <1>10, GotoType, ReturnType DEF InitAgainSucceeds, Refreshed, Unlock, PlacesOK,
     Goroutines
<1>11. ASSUME NEW t \in Goroutines, InitAgainFails(t) PROVE PlacesOK'
  BY <1>11, GotoType, ReturnType DEF InitAgainFails, Refreshed, Unlock, PlacesOK, Goroutines
<1>12. ASSUME NEW t \in Goroutines, RefreshFails(t) PROVE PlacesOK'
  BY <1>12, GotoType, ReturnType DEF RefreshFails, Unlock, PlacesOK, Goroutines
<1>13. ASSUME NEW t \in Callers, Refresh(t) PROVE PlacesOK'
  <2>1. CASE Cache = NoToken
    BY <1>13, <2>1, GotoType DEF Refresh, PassesLock, PlacesOK, Goroutines
  <2>2. CASE Cache # NoToken
    BY <1>13, <2>2, GotoType DEF Refresh, Lock, PlacesOK, Goroutines
  <2> QED
    BY <2>1, <2>2
<1>14. ASSUME NEW t \in Callers, StopBackgroundRefresh(t) PROVE PlacesOK'
  BY <1>14, GotoType DEF StopBackgroundRefresh, PassesLock, PlacesOK, Goroutines
<1>15. ASSUME NEW t \in Callers, StartBackgroundRefresh(t) PROVE PlacesOK'
  BY <1>15, GotoType DEF StartBackgroundRefresh, PassesLock, PlacesOK, Goroutines
<1>16. ASSUME NEW b \in Callbacks, TimerFires(b) PROVE PlacesOK'
  BY <1>16, GotoType DEF TimerFires, PlacesOK, Goroutines
<1>17. ASSUME NEW b \in Callbacks, backgroundRefreshFunc(b) PROVE PlacesOK'
  <2>1. CASE NeedsUpdate(Cache)
    BY <1>17, <2>1, GotoType DEF backgroundRefreshFunc, Lock, PlacesOK, Goroutines
  <2>2. CASE ~NeedsUpdate(Cache)
    BY <1>17, <2>2, GotoType DEF backgroundRefreshFunc, PassesLock, PlacesOK, Goroutines
  <2> QED
    BY <2>1, <2>2
<1>18. CASE Tick
  BY <1>18, GotoType, ReturnType DEF Tick, PlacesOK, Goroutines
<1> QED
  BY <1>1, <1>2, <1>3, <1>4, <1>5, <1>6, <1>7, <1>8, <1>9, <1>10, <1>11, <1>12, <1>13,
     <1>14, <1>15, <1>16, <1>17, <1>18 DEF Next, Granted, Answered, Renewed, Goroutines

\* Tokens, times and the state of a request keep their types.
LEMMA StepData ==
    ASSUME DataOK, Next
    PROVE  DataOK'
<1>1. ASSUME NEW t \in Callers, Get(t) PROVE DataOK'
  BY <1>1 DEF Get, PassesLock, DataOK
<1>2. ASSUME NEW t \in Owners, Call(t) PROVE DataOK'
  BY <1>2 DEF Call, DataOK
<1>3. ASSUME NEW t \in Callers, retrieveInit(t) PROVE DataOK'
  <2>1. CASE Cache = NoToken
    BY <1>3, <2>1 DEF retrieveInit, Lock, DataOK
  <2>2. CASE Cache # NoToken
    BY <1>3, <2>2 DEF retrieveInit, PassesLock, DataOK
  <2> QED
    BY <2>1, <2>2
<1>4. ASSUME NEW t \in Callers, InitSucceeds(t) PROVE DataOK'
  BY <1>4, NewRequestType, TokenType DEF InitSucceeds, Initialized, Unlock, DataOK
<1>5. ASSUME NEW t \in Callers, InitFails(t) PROVE DataOK'
  BY <1>5, NewRequestType DEF InitFails, Unlock, DataOK
<1>6. ASSUME NEW t \in Callers, retrieveFetch(t) PROVE DataOK'
  <2>1. CASE Valid(Cache)
    BY <1>6, <2>1 DEF retrieveFetch, PassesLock, DataOK
  <2>2. CASE ~Valid(Cache)
    BY <1>6, <2>2 DEF retrieveFetch, Lock, DataOK
  <2> QED
    BY <2>1, <2>2
<1>7. ASSUME NEW t \in Goroutines, RefreshRetried(t) PROVE DataOK'
  <2>1. PICK read \in BOOLEAN, refuses \in BOOLEAN :
          request' = [retries |-> request.retries + 1,
                      whole   |-> copyRequest(read),
                      refused |-> request.refused \/ refuses]
    BY <1>7 DEF RefreshRetried
  <2>2. request.retries + 1 \in 0 .. MaxRetries
    BY <1>7 DEF RefreshRetried, DataOK, Requests
  <2>3. copyRequest(read) \in BOOLEAN /\ (request.refused \/ refuses) \in BOOLEAN
    BY DEF copyRequest
  <2>4. request' \in Requests
    BY <2>1, <2>2, <2>3 DEF Requests
  <2> QED
    BY <1>7, <2>4 DEF RefreshRetried, DataOK
<1>8. ASSUME NEW t \in Goroutines, RefreshSucceeds(t) PROVE DataOK'
  BY <1>8, NewRequestType, TokenType DEF RefreshSucceeds, Refreshed, Unlock, DataOK
<1>9. ASSUME NEW t \in Goroutines, RefreshTokenInvalid(t) PROVE DataOK'
  BY <1>9, NewRequestType DEF RefreshTokenInvalid, DataOK
<1>10. ASSUME NEW t \in Goroutines, InitAgainSucceeds(t) PROVE DataOK'
  BY <1>10, NewRequestType, TokenType DEF InitAgainSucceeds, Refreshed, Unlock, DataOK
<1>11. ASSUME NEW t \in Goroutines, InitAgainFails(t) PROVE DataOK'
  BY <1>11, NewRequestType DEF InitAgainFails, Refreshed, Unlock, DataOK
<1>12. ASSUME NEW t \in Goroutines, RefreshFails(t) PROVE DataOK'
  BY <1>12, NewRequestType DEF RefreshFails, Unlock, DataOK
<1>13. ASSUME NEW t \in Callers, Refresh(t) PROVE DataOK'
  <2>1. CASE Cache = NoToken
    BY <1>13, <2>1 DEF Refresh, PassesLock, DataOK
  <2>2. CASE Cache # NoToken
    BY <1>13, <2>2 DEF Refresh, Lock, DataOK
  <2> QED
    BY <2>1, <2>2
<1>14. ASSUME NEW t \in Callers, StopBackgroundRefresh(t) PROVE DataOK'
  BY <1>14 DEF StopBackgroundRefresh, PassesLock, DataOK
<1>15. ASSUME NEW t \in Callers, StartBackgroundRefresh(t) PROVE DataOK'
  BY <1>15 DEF StartBackgroundRefresh, PassesLock, DataOK
<1>16. ASSUME NEW b \in Callbacks, TimerFires(b) PROVE DataOK'
  BY <1>16 DEF TimerFires, DataOK
<1>17. ASSUME NEW b \in Callbacks, backgroundRefreshFunc(b) PROVE DataOK'
  <2>1. CASE NeedsUpdate(Cache)
    BY <1>17, <2>1 DEF backgroundRefreshFunc, Lock, DataOK
  <2>2. CASE ~NeedsUpdate(Cache)
    BY <1>17, <2>2 DEF backgroundRefreshFunc, PassesLock, DataOK
  <2> QED
    BY <2>1, <2>2
<1>18. CASE Tick
  BY <1>18, TokenType DEF Tick, DataOK
<1> QED
  BY <1>1, <1>2, <1>3, <1>4, <1>5, <1>6, <1>7, <1>8, <1>9, <1>10, <1>11, <1>12, <1>13,
     <1>14, <1>15, <1>16, <1>17, <1>18 DEF Next, Granted, Answered, Renewed, Goroutines

-----------------------------------------------------------------------------
(* The theorems. *)

\* Every step keeps the invariant.
LEMMA NextIInv == IInv /\ [Next]_vars => IInv'
<1>1. ASSUME IInv, Next PROVE IInv'
  <2>1. TypeOK /\ OneRequest /\ HasToken /\ TimerInv /\ PlacesOK /\ DataOK
    BY <1>1, TypeParts DEF IInv, TimerInv
  <2>2. OneRequest' /\ HasToken' /\ TimerInv'
    BY <1>1, <2>1, StepOneRequest, StepHasToken, StepTimer
  <2>3. PlacesOK' /\ DataOK'
    BY <1>1, <2>1, StepPlaces, StepData
  <2>4. TypeOK'
    <3>1. TypeOK' <=> PlacesOK' /\ DataOK' /\ timer' \in Timers
      BY DEF TypeOK, PlacesOK, DataOK, Timers, Places, Working, Requests
    <3> QED
      BY <2>2, <2>3, <3>1 DEF TimerInv
  <2> QED
    BY <2>2, <2>4 DEF IInv, TimerInv
<1>2. ASSUME IInv, UNCHANGED vars PROVE IInv'
  BY <1>2 DEF vars, IInv, TypeOK, OneRequest, HasToken, StopDisarms, TokenWatched, Armed
<1> QED
  BY <1>1, <1>2

\* The invariant holds, for any callers, callbacks and delays.
THEOREM ManagerInvariant == Spec => []IInv
  BY InitIInv, NextIInv, PTL DEF Spec

\* Every variable of the token manager keeps its type: no time the timer is set
\* to is before the beginning, whatever the delays and the lifetimes of tokens.
THEOREM ManagerTypeCorrect == Spec => []TypeOK
  BY ManagerInvariant, PTL DEF IInv

\* However many callers and callbacks there are, one of them at most is in a
\* request to IAM or in the init function, and it is the one with the lock.
THEOREM NoRequestsTogether == Spec => []OneRequest
  BY ManagerInvariant, PTL DEF IInv

\* While background refresh is on, a token that will expire is watched whenever
\* nobody has the lock, after every outcome of every request and every order of
\* Stop, Start, Refresh and the timer.
THEOREM NoTokenForgotten == Spec => []TokenWatched
  BY ManagerInvariant, PTL DEF IInv

\* While background refresh is off, no timer runs.
THEOREM NoTimerAfterStop == Spec => []StopDisarms
  BY ManagerInvariant, PTL DEF IInv

\* A caller begins to ask IAM only when there is no token that is valid.
THEOREM NoNeedlessRefresh == Spec => RefreshNeeded
<1> DEFINE Needed(t) ==
      /\ pc[t] # "get refreshes" /\ pc'[t] = "get refreshes" => ~Valid(Cache')
      /\ pc'[t] = "get calls init" => Cache' = NoToken
<1>1. ASSUME IInv, IInv', Next, NEW t \in Callers PROVE Needed(t)
  <2>1. pc'[t] = "get calls init" => Cache' = NoToken
    BY <1>1 DEF IInv, HasToken, Goroutines
  <2>2. ASSUME pc[t] # "get refreshes", pc'[t] = "get refreshes" PROVE ~Valid(Cache')
    <3> USE DEF Goroutines
    <3>0. ASSUME NEW u \in Goroutines,
                 NEW p \in {"idle", "panic", "init", "fetch", "refresh", "stop", "start",
                            "background", "get calls init", "get calls init again",
                            "refreshes", "calls init again"},
                 Goto(u, p)
          PROVE  FALSE
      BY <1>1, <2>2, <3>0 DEF IInv, TypeOK, Goto
    <3>a. ASSUME NEW u \in Goroutines, NEW r, Return(u, r) PROVE FALSE
      BY <3>0, <3>a DEF Return
    <3>b. ASSUME NEW u \in Goroutines, NEW token, NEW tmr, Refreshed(u, token, tmr)
          PROVE  ~Valid(token)
      BY <3>0, <3>a, <3>b DEF Refreshed
    <3>1. ASSUME NEW u \in Callers, Get(u) PROVE FALSE
      BY <3>0, <3>a, <3>1 DEF Get
    <3>2. ASSUME NEW u \in Owners, Call(u) PROVE FALSE
      BY <3>0, <3>2 DEF Call
    <3>3. ASSUME NEW u \in Callers, retrieveInit(u) PROVE FALSE
      BY <3>0, <3>a, <3>3 DEF retrieveInit
    <3>4. ASSUME NEW u \in Callers, retrieveFetch(u) PROVE ~Valid(Cache')
      BY <3>a, <3>4 DEF retrieveFetch
    <3>5. ASSUME NEW u \in Callers, InitSucceeds(u) \/ InitFails(u) PROVE FALSE
      BY <3>a, <3>5 DEF InitSucceeds, InitFails
    <3>6. ASSUME NEW u \in Goroutines, Renewed(u) \/ InitAgainFails(u) PROVE ~Valid(Cache')
      BY <3>b, <3>6 DEF Renewed, RefreshSucceeds, InitAgainSucceeds, InitAgainFails
    <3>7. ASSUME NEW u \in Goroutines, RefreshTokenInvalid(u) PROVE FALSE
      BY <3>0, <3>7 DEF RefreshTokenInvalid
    <3>8. ASSUME NEW u \in Goroutines, RefreshRetried(u) PROVE FALSE
      BY <2>2, <3>8 DEF RefreshRetried
    <3>9. ASSUME NEW u \in Goroutines, RefreshFails(u) PROVE FALSE
      BY <3>0, <3>a, <3>9 DEF RefreshFails
    <3>10. ASSUME NEW u \in Callers,
                  Refresh(u) \/ StopBackgroundRefresh(u) \/ StartBackgroundRefresh(u)
           PROVE  FALSE
      BY <3>0, <3>10 DEF Refresh, StopBackgroundRefresh, StartBackgroundRefresh
    <3>11. ASSUME NEW b \in Callbacks, TimerFires(b) \/ backgroundRefreshFunc(b) PROVE FALSE
      BY <3>0, <3>11 DEF TimerFires, backgroundRefreshFunc
    <3>12. CASE Tick
      BY <2>2, <3>12 DEF Tick
    <3> QED
      BY <1>1, <3>1, <3>2, <3>3, <3>4, <3>5, <3>6, <3>7, <3>8, <3>9, <3>10, <3>11, <3>12
         DEF Next, Granted, Answered
  <2> QED
    BY <2>1, <2>2
<1>2. IInv /\ IInv' /\ [Next]_vars => [\A t \in Callers : Needed(t)]_vars
  BY <1>1
<1> QED
  BY <1>2, ManagerInvariant, PTL DEF Spec, RefreshNeeded
=============================================================================
