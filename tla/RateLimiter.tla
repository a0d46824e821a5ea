---------------------------- MODULE RateLimiter ----------------------------
(***************************************************************************)
(* The in-memory rate limiter and the middleware that asks it              *)
(* (internal/middleware/rate_limiter.go).                                  *)
(*                                                                         *)
(* Every HTTP request runs Allow in a goroutine of its own; a cleanup      *)
(* goroutine, woken by a ticker, deletes the windows that are over.  Both  *)
(* read the clock BEFORE they take the mutex, so what is done under the    *)
(* mutex is done with a time that may be long past, and in any order.      *)
(*                                                                         *)
(* Each critical section is one action: the mutex makes it one step.       *)
(***************************************************************************)
EXTENDS Naturals, Sequences

CONSTANTS
    Callers,        \* goroutines that handle requests
    Keys,           \* rate limit keys (client addresses)
    Limit,          \* requests per window
    Window,         \* length of a window
    Interval,       \* cleanupInterval, the period of the ticker
    MaxLag,         \* bound: how late a goroutine gets the mutex
    MaxClock,       \* bound: when time stops
    MaxRequests     \* bound: counts from this one on are not told apart

ASSUME LimitAssumption == Limit \in Nat \ {0}
ASSUME WindowAssumption == Window \in Nat \ {0}
(* The builder sets windows of a minute and leaves the default interval of *)
(* five minutes.                                                           *)
ASSUME IntervalAssumption == Interval \in Nat /\ Window < Interval
(* A goroutine that has read the clock waits for the mutex about half as   *)
(* long as a window lasts at most: the critical sections are short, and a  *)
(* window is a minute.                                                     *)
ASSUME MaxLagAssumption == MaxLag \in Nat /\ 2 * MaxLag <= Window + 1
ASSUME MaxClockAssumption == MaxClock \in Nat
ASSUME MaxRequestsAssumption == MaxRequests \in Nat /\ MaxRequests > Limit

VARIABLES
    clock,
    requests, resetTime,    \* the limiter's two maps
    pc, key, now,           \* a request: where it is, its key, its time
    cleaner, cleanerNow,    \* the cleanup goroutine
    tick,                   \* the ticker's channel holds a tick
    stopping,               \* stopCleanup is closed
    admitted                \* history: when the requests of a key were admitted

maps == <<requests, resetTime>>
callerVars == <<pc, key, now>>
cleanerVars == <<cleaner, cleanerNow, tick, stopping>>
vars == <<clock, maps, callerVars, cleanerVars, admitted>>

Times == 0..MaxClock

(* The history admitted[k] is a sequence of times, oldest first, and keeps *)
(* those that are at most a window old: at time t, the longest suffix of   *)
(* such times.                                                             *)
RecentFrom(times, t) ==
    {i \in 1..(Len(times) + 1) : \A j \in i..Len(times) : times[j] + Window >= t}
Recent(times, t) ==
    LET first == CHOOSE i \in RecentFrom(times, t) : \A j \in RecentFrom(times, t) : i <= j
    IN  SubSeq(times, first, Len(times))

(* Assignment to a key of a Go map, and delete.                            *)
Put(m, k, v) == [x \in DOMAIN m \cup {k} |-> IF x = k THEN v ELSE m[x]]
Delete(m, ks) == [x \in DOMAIN m \ ks |-> m[x]]

Init ==
    /\ clock = 0
    /\ requests = [x \in {} |-> 0] /\ resetTime = [x \in {} |-> 0]
    /\ pc = [c \in Callers |-> "idle"]
    /\ key \in [Callers -> Keys]
    /\ now = [c \in Callers |-> 0]
    /\ cleaner = "waiting" /\ cleanerNow = 0
    /\ tick = FALSE
    /\ stopping = FALSE
    /\ admitted = [k \in Keys |-> <<>>]

-----------------------------------------------------------------------------
(* Allow: now := time.Now(), and then the critical section.                *)

AllowReadsClock(c, k) ==
    /\ pc[c] = "idle"
    /\ pc' = [pc EXCEPT ![c] = "locking"]
    /\ key' = [key EXCEPT ![c] = k]
    /\ now' = [now EXCEPT ![c] = clock]
    /\ UNCHANGED <<clock, maps, cleanerVars, admitted>>

(* The key has no window, or its window is over: !exists ||                *)
(* now.After(reset).                                                       *)
WindowOver(k, t) == k \notin DOMAIN resetTime \/ t > resetTime[k]

Count(k, t) ==
    IF WindowOver(k, t) THEN 1
    ELSE IF requests[k] < MaxRequests THEN requests[k] + 1 ELSE MaxRequests

(* Mutant: the count is compared before it is incremented.                 *)
AdmitsOneMore(k, t) == Count(k, t) <= Limit + 1

(* Allowed: currentCount <= r.limit                                        *)
Admits(k, t) == Count(k, t) <= Limit

(* The middleware passes an admitted request on (ctx.Next) and answers the *)
(* others itself.                                                          *)
Allow(c) ==
    LET k == key[c] IN
    /\ pc[c] = "locking"
    /\ requests' = Put(requests, k, Count(k, now[c]))
    /\ resetTime' = IF WindowOver(k, now[c]) THEN Put(resetTime, k, now[c] + Window)
                                             ELSE resetTime
    /\ admitted' = IF Admits(k, now[c]) THEN [admitted EXCEPT ![k] = Append(@, clock)]
                                        ELSE admitted
    /\ pc' = [pc EXCEPT ![c] = "idle"]
    /\ now' = [now EXCEPT ![c] = 0]
    /\ UNCHANGED <<clock, key, cleanerVars>>

(* Mutant: Reset leaves the count behind.                                  *)
ResetKeepsCount(k) ==
    /\ resetTime' = Delete(resetTime, {k})
    /\ admitted' = [admitted EXCEPT ![k] = <<>>]
    /\ UNCHANGED <<clock, requests, callerVars, cleanerVars>>

(* Reset forgets the key; so does the history, whose bounds hold from then *)
(* on.                                                                     *)
Reset(k) ==
    /\ requests' = Delete(requests, {k})
    /\ resetTime' = Delete(resetTime, {k})
    /\ admitted' = [admitted EXCEPT ![k] = <<>>]
    /\ UNCHANGED <<clock, callerVars, cleanerVars>>

-----------------------------------------------------------------------------
(* startCleanup and cleanup.                                               *)

(* case <-ticker.C, and cleanup's now := time.Now().                       *)
CleanupReadsClock ==
    /\ cleaner = "waiting" /\ tick
    /\ tick' = FALSE
    /\ cleaner' = "locking"
    /\ cleanerNow' = clock
    /\ UNCHANGED <<clock, maps, callerVars, stopping, admitted>>

(* Mutant: a window whose last instant is now is deleted.                  *)
ExpiredEarly == {k \in DOMAIN resetTime : cleanerNow >= resetTime[k]}

Expired == {k \in DOMAIN resetTime : cleanerNow > resetTime[k]}

(* Mutant: the windows that are over are left in the maps.                 *)
CleanupKeepsAll ==
    /\ cleaner = "locking"
    /\ cleaner' = "waiting" /\ cleanerNow' = 0
    /\ UNCHANGED <<clock, maps, callerVars, tick, stopping, admitted>>

Cleanup ==
    /\ cleaner = "locking"
    /\ requests' = Delete(requests, Expired)
    /\ resetTime' = Delete(resetTime, Expired)
    /\ cleaner' = "waiting" /\ cleanerNow' = 0
    /\ UNCHANGED <<clock, callerVars, tick, stopping, admitted>>

(* Mutant: the loop does not listen to stopCleanup.                        *)
CleanupIgnoresStop == FALSE /\ UNCHANGED vars

(* case <-r.stopCleanup: return                                            *)
CleanupReturns ==
    /\ cleaner = "waiting" /\ stopping
    /\ cleaner' = "done"
    /\ UNCHANGED <<clock, maps, callerVars, cleanerNow, tick, stopping, admitted>>

(* Stop closes the channel once, however often it is called.               *)
Stop ==
    /\ stopping' = TRUE
    /\ UNCHANGED <<clock, maps, callerVars, cleaner, cleanerNow, tick, admitted>>

(* External: time passes.  The ticker's channel has room for one tick;     *)
(* ticks that find it full are dropped.                                    *)
Tick ==
    /\ clock < MaxClock
    /\ \A c \in Callers : pc[c] = "locking" => clock < now[c] + MaxLag
    /\ cleaner = "locking" => clock < cleanerNow + MaxLag
    /\ clock' = clock + 1
    /\ tick' = (tick \/ (clock + 1) % Interval = 0)
    /\ admitted' = [k \in Keys |-> Recent(admitted[k], clock + 1)]
    /\ UNCHANGED <<maps, callerVars, cleaner, cleanerNow, stopping>>

-----------------------------------------------------------------------------
Next ==
    \/ \E c \in Callers : (\E k \in Keys : AllowReadsClock(c, k)) \/ Allow(c)
    \/ \E k \in Keys : Reset(k)
    \/ CleanupReadsClock
    \/ Cleanup
    \/ CleanupReturns
    \/ Stop
    \/ Tick

Spec == Init /\ [][Next]_vars

(* Time passes, the cleanup goroutine runs when it can, and a goroutine    *)
(* that waits for the mutex gets it.  Go's select chooses among the ready  *)
(* cases at random, so a channel that stays closed is chosen in the end.   *)
Fairness ==
    /\ WF_vars(Tick)
    /\ \A c \in Callers : WF_vars(Allow(c))
    /\ WF_vars(CleanupReadsClock) /\ WF_vars(Cleanup)
    /\ SF_vars(CleanupReturns)

FairSpec == Spec /\ Fairness

-----------------------------------------------------------------------------
(* Properties.                                                             *)

(* The type invariant; the two maps have the same keys.                    *)
TypeOK ==
    /\ clock \in Times
    /\ DOMAIN requests \subseteq Keys /\ DOMAIN resetTime = DOMAIN requests
    /\ \A k \in DOMAIN requests : requests[k] \in 1..MaxRequests /\ resetTime[k] \in Nat
    /\ pc \in [Callers -> {"idle", "locking"}]
    /\ key \in [Callers -> Keys]
    /\ now \in [Callers -> Times]
    /\ cleaner \in {"waiting", "locking", "done"} /\ cleanerNow \in Times
    /\ tick \in BOOLEAN /\ stopping \in BOOLEAN
    /\ admitted \in [Keys -> Seq(Times)]

(* Fewer requests of a key than three quotas pass in any stretch of time   *)
(* as long as a window, although requests and the cleanup act on clock     *)
(* readings that are old and out of order.  (Two quotas are no bound: the  *)
(* cleanup may delete a window that is just over before a request whose    *)
(* clock reading is old opens the next one, the sooner by its lag.  And    *)
(* the bound on the lag is needed: the windows of a key may open Window -  *)
(* MaxLag + 1 apart, so that with a longer lag three of them, each with a  *)
(* quota, open in one stretch.)                                            *)
BurstBound == \A k \in Keys : Len(admitted[k]) < 3 * Limit

(* The cleanup never deletes a window that is still open, however late the *)
(* goroutine gets the mutex and whatever happened since it read the clock. *)
CleanupKeepsOpenWindows ==
    [][Cleanup => \A k \in DOMAIN resetTime \ DOMAIN resetTime' : resetTime[k] < clock]_vars

(* A window that is over does not stay in the maps: it is cleaned up, or   *)
(* replaced by a new one, unless the cleanup is stopped.                   *)
ExpiredWindowsGo ==
    \A k \in Keys :
        /\ k \in DOMAIN resetTime /\ resetTime[k] < clock
        /\ clock + Interval <= MaxClock
        ~> k \notin DOMAIN resetTime \/ resetTime[k] >= clock \/ stopping

(* After Stop the cleanup goroutine ends.                                  *)
StopEndsCleanup == stopping ~> cleaner = "done"
=============================================================================
