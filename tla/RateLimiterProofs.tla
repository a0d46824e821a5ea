------------------------- MODULE RateLimiterProofs -------------------------
(***************************************************************************)
(* Theorems of module RateLimiter, for any number of callers and keys, any *)
(* limit, window and lag.  That the cleanup spares open windows rests on   *)
(* one fact about its clock reading: however late the goroutine gets the   *)
(* mutex, the reading is not ahead of the clock.                           *)
(*                                                                         *)
(* The bound on bursts rests on where the windows of a key opened: the     *)
(* last one at o and the one before at p, at least Window - MaxLag + 1     *)
(* apart.  The history of a key is cut in three by them, and no part holds *)
(* more than a quota.                                                      *)
(***************************************************************************)
EXTENDS RateLimiter, Integers, WellFoundedInduction, TLAPS

USE DEF maps, callerVars, cleanerVars

(* A clock reading that waits for the mutex is at most MaxLag old.         *)
ReadingsOK ==
    /\ cleanerNow <= clock
    /\ \A c \in Callers : pc[c] = "locking" => now[c] <= clock /\ clock <= now[c] + MaxLag

Inv == TypeOK /\ ReadingsOK

-----------------------------------------------------------------------------
(* The maps: their keys, and what they hold at each.                       *)

MapsOK(rq, rt) ==
    /\ DOMAIN rq \subseteq Keys /\ DOMAIN rt = DOMAIN rq
    /\ \A k \in DOMAIN rq : rq[k] \in 1..MaxRequests /\ rt[k] \in Nat

(* Deleting keys from both maps keeps them in step.                        *)
LEMMA DeleteKeepsMaps ==
    ASSUME NEW rq, NEW rt, MapsOK(rq, rt), NEW ks
    PROVE  MapsOK(Delete(rq, ks), Delete(rt, ks))
  BY DEF MapsOK, Delete

(* Opening a window in both maps keeps them in step.                       *)
LEMMA PutKeepsMaps ==
    ASSUME NEW rq, NEW rt, MapsOK(rq, rt), NEW k \in Keys, NEW n \in 1..MaxRequests, NEW t \in Nat
    PROVE  MapsOK(Put(rq, k, n), Put(rt, k, t))
  BY DEF MapsOK, Put

(* Counting in an open window keeps them in step.                          *)
LEMMA CountKeepsMaps ==
    ASSUME NEW rq, NEW rt, MapsOK(rq, rt), NEW k \in DOMAIN rq, NEW n \in 1..MaxRequests
    PROVE  MapsOK(Put(rq, k, n), rt)
  BY DEF MapsOK, Put

(* The count after a request.                                              *)
LEMMA CountIsBounded ==
    ASSUME TypeOK, NEW k \in Keys, NEW t \in Times
    PROVE  Count(k, t) \in 1..MaxRequests
<1>1. CASE WindowOver(k, t)
  BY <1>1, MaxRequestsAssumption, LimitAssumption DEF Count
<1>2. CASE ~WindowOver(k, t)
  <2>1. requests[k] \in 1..MaxRequests
    BY <1>2 DEF TypeOK, WindowOver
  <2> QED
    BY <1>2, <2>1, MaxRequestsAssumption DEF Count
<1> QED
  BY <1>1, <1>2

-----------------------------------------------------------------------------
(* The history.  A set of numbers that is not empty has a least one.       *)

(* The induction of this module: the least of a set of positions.          *)
LEMMA LeastExists ==
    ASSUME NEW T \in SUBSET Nat, T # {}
    PROVE  \E x \in T : \A y \in T : x <= y
<1>1. IsWellFoundedOn(OpToRel(<, Nat), Nat)
  BY NatLessThanWellFounded
<1>2. \E x \in T : \A y \in T : ~ (<<y, x>> \in OpToRel(<, Nat))
  BY <1>1, WFMin
<1>3. PICK x \in T : \A y \in T : ~ (<<y, x>> \in OpToRel(<, Nat))
  BY <1>2
<1>4. \A y \in T : <<y, x>> \in Nat \X Nat
  OBVIOUS
<1>5. \A y \in T : ~ (y < x)
  BY <1>3, <1>4 DEF OpToRel
<1> QED
  BY <1>5

(* What Recent keeps: all but the first d times, and all of them recent.   *)
LEMMA RecentIsSuffix ==
    ASSUME NEW s \in Seq(Times), NEW t \in Nat
    PROVE  \E d \in 0..Len(s) :
              /\ Recent(s, t) \in Seq(Times)
              /\ Len(Recent(s, t)) = Len(s) - d
              /\ \A i \in 1..(Len(s) - d) :
                    Recent(s, t)[i] = s[i + d] /\ t <= s[i + d] + Window
<1> DEFINE T == RecentFrom(s, t)
           least(x) == x \in T /\ \A y \in T : x <= y
           first == CHOOSE x \in T : \A y \in T : x <= y
<1>1. PICK n \in Nat : n = Len(s)
  OBVIOUS
<1>2. T \in SUBSET Nat /\ n + 1 \in T
  BY <1>1 DEF RecentFrom
<1>3. \E x \in T : \A y \in T : x <= y
  BY <1>2, LeastExists
<1>4. first \in T
  BY <1>3
<1> HIDE DEF first
<1>5. first \in 1..(n + 1) /\ \A j \in first..n : s[j] + Window >= t
  BY <1>1, <1>4 DEF RecentFrom
<1>6. Recent(s, t) = SubSeq(s, first, n)
  BY <1>1 DEF Recent, first
<1>7. PICK f \in 1..(n + 1) : f = first
  BY <1>5
<1>8. /\ SubSeq(s, f, n) \in Seq(Times)
      /\ Len(SubSeq(s, f, n)) = n - (f - 1)
      /\ \A i \in 1..(n - (f - 1)) : SubSeq(s, f, n)[i] = s[i + (f - 1)]
  BY <1>1, <1>7
<1>9. f - 1 \in 0..n
  BY <1>7
<1>10. ASSUME NEW i \in 1..(n - (f - 1))
       PROVE  t <= s[i + (f - 1)] + Window
  <2>1. i + (f - 1) \in f..n /\ i + (f - 1) \in 1..n
    BY <1>7
  <2>2. s[i + (f - 1)] \in Nat
    <3>1. \A j \in 1..n : s[j] \in Times
      BY <1>1
    <3> QED
      BY <2>1, <3>1 DEF Times
  <2> QED
    BY <1>5, <1>7, <2>1, <2>2, WindowAssumption
<1> QED
  BY <1>1, <1>6, <1>7, <1>8, <1>9, <1>10

-----------------------------------------------------------------------------
(* The invariant holds before the first request.                           *)
LEMMA InitHasInv == Init => Inv
<1> SUFFICES ASSUME Init PROVE Inv
  OBVIOUS
<1>1. admitted \in [Keys -> Seq(Times)]
  BY DEF Init
<1>2. 0 \in Times
  BY MaxClockAssumption DEF Times
<1>3. DOMAIN requests = {} /\ DOMAIN resetTime = {}
  BY DEF Init
<1>4. pc \in [Callers -> {"idle", "locking"}] /\ now \in [Callers -> Times]
  BY <1>2 DEF Init
<1>5. clock \in Times /\ cleanerNow \in Times /\ cleanerNow <= clock
  BY <1>2 DEF Init, Times
<1>6. key \in [Callers -> Keys] /\ cleaner = "waiting" /\ tick = FALSE /\ stopping = FALSE
  BY DEF Init
<1>7. \A c \in Callers : pc[c] # "locking"
  BY DEF Init
<1> QED
  BY <1>1, <1>3, <1>4, <1>5, <1>6, <1>7 DEF Inv, TypeOK, ReadingsOK

(* The maps of TypeOK.                                                     *)
LEMMA TypedMaps == TypeOK => MapsOK(requests, resetTime)
  BY DEF TypeOK, MapsOK

(* A request that takes the mutex keeps the invariant.                     *)
LEMMA AllowKeepsInv ==
    ASSUME Inv, NEW c \in Callers, Allow(c)
    PROVE  Inv'
<1> USE DEF Inv, ReadingsOK
<1>1. /\ requests' = Put(requests, key[c], Count(key[c], now[c]))
      /\ resetTime' = IF WindowOver(key[c], now[c])
                      THEN Put(resetTime, key[c], now[c] + Window) ELSE resetTime
      /\ admitted' = IF Admits(key[c], now[c]) THEN [admitted EXCEPT ![key[c]] = Append(@, clock)]
                                               ELSE admitted
      /\ pc' = [pc EXCEPT ![c] = "idle"] /\ now' = [now EXCEPT ![c] = 0]
      /\ clock' = clock /\ key' = key /\ cleaner' = cleaner /\ cleanerNow' = cleanerNow
      /\ tick' = tick /\ stopping' = stopping
  BY DEF Allow
<1>2. key[c] \in Keys /\ now[c] \in Times /\ now[c] \in Nat /\ 0 \in Times
  BY MaxClockAssumption DEF TypeOK, Times
<1>3. Count(key[c], now[c]) \in 1..MaxRequests
  BY <1>2, CountIsBounded
<1>4. MapsOK(requests', resetTime')
  <2>1. CASE WindowOver(key[c], now[c])
    BY <1>1, <1>2, <1>3, <2>1, TypedMaps, PutKeepsMaps, WindowAssumption
  <2>2. CASE ~WindowOver(key[c], now[c])
    <3>1. key[c] \in DOMAIN requests
      BY <2>2 DEF WindowOver, TypeOK
    <3> QED
      BY <1>1, <1>3, <2>2, <3>1, TypedMaps, CountKeepsMaps
  <2> QED
    BY <2>1, <2>2
<1>5. admitted' \in [Keys -> Seq(Times)]
  BY <1>1, <1>2 DEF TypeOK
<1>6. pc' \in [Callers -> {"idle", "locking"}] /\ now' \in [Callers -> Times]
  BY <1>1, <1>2 DEF TypeOK
<1> QED
  BY <1>1, <1>4, <1>5, <1>6 DEF TypeOK, MapsOK

(* Every step keeps the invariant.                                         *)
LEMMA NextKeepsInv == Inv /\ [Next]_vars => Inv'
<1> SUFFICES ASSUME Inv, [Next]_vars PROVE Inv'
  OBVIOUS
<1> USE DEF Inv, ReadingsOK
<1>1. CASE UNCHANGED vars
  BY <1>1 DEF vars, TypeOK
<1>2. ASSUME NEW c \in Callers, NEW k \in Keys, AllowReadsClock(c, k)
      PROVE  Inv'
  <2>1. clock \in Nat /\ clock <= clock + MaxLag
    BY MaxLagAssumption DEF TypeOK, Times
  <2> QED
    BY <1>2, <2>1 DEF AllowReadsClock, TypeOK
<1>3. ASSUME NEW c \in Callers, Allow(c)
      PROVE  Inv'
  BY <1>3, AllowKeepsInv
<1>4. ASSUME NEW k \in Keys, Reset(k)
      PROVE  Inv'
  <2>1. MapsOK(requests', resetTime')
    BY <1>4, TypedMaps, DeleteKeepsMaps DEF Reset
  <2>2. admitted' \in [Keys -> Seq(Times)]
    BY <1>4 DEF Reset, TypeOK
  <2> QED
    BY <1>4, <2>1, <2>2 DEF Reset, TypeOK, MapsOK
<1>5. CASE CleanupReadsClock
  <2>1. cleanerNow' \in Times /\ cleanerNow' <= clock' /\ clock' \in Times
    BY <1>5 DEF CleanupReadsClock, TypeOK, Times
  <2> QED
    BY <1>5, <2>1 DEF CleanupReadsClock, TypeOK
<1>6. CASE Cleanup
  <2>1. MapsOK(requests', resetTime')
    BY <1>6, TypedMaps, DeleteKeepsMaps DEF Cleanup
  <2>2. 0 \in Times /\ clock \in Nat
    BY MaxClockAssumption DEF Times, TypeOK
  <2> QED
    BY <1>6, <2>1, <2>2 DEF Cleanup, TypeOK, MapsOK
<1>7. CASE CleanupReturns
  BY <1>7 DEF CleanupReturns, TypeOK
<1>8. CASE Stop
  BY <1>8 DEF Stop, TypeOK
<1>9. CASE Tick
  <2>1. clock' \in Times /\ cleanerNow' <= clock' /\ tick' \in BOOLEAN
    BY <1>9, MaxClockAssumption DEF Tick, TypeOK, Times
  <2>2. admitted' \in [Keys -> Seq(Times)]
    <3>1. clock + 1 \in Nat
      BY DEF TypeOK, Times
    <3>2. \A k \in Keys : Recent(admitted[k], clock + 1) \in Seq(Times)
      BY <3>1, RecentIsSuffix DEF TypeOK
    <3> QED
      BY <1>9, <3>2 DEF Tick
  <2>3. ASSUME NEW c \in Callers, pc'[c] = "locking"
        PROVE  now'[c] <= clock' /\ clock' <= now'[c] + MaxLag
    <3>1. now[c] \in Nat /\ clock \in Nat
      BY DEF TypeOK, Times
    <3> QED
      BY <1>9, <2>3, <3>1, MaxLagAssumption DEF Tick
  <2> QED
    BY <1>9, <2>1, <2>2, <2>3 DEF Tick, TypeOK
<1> QED
  BY <1>1, <1>2, <1>3, <1>4, <1>5, <1>6, <1>7, <1>8, <1>9 DEF Next

(* The maps, the clock readings and the history keep their types, and no   *)
(* reading that waits for the mutex is ahead of the clock or older than    *)
(* MaxLag (rate_limiter.go:57, :115).                                      *)
THEOREM InvHolds == Spec => []Inv
  BY InitHasInv, NextKeepsInv, PTL DEF Spec

(* The limiter's maps have the same keys, and no count leaves its range.   *)
THEOREM TypeCorrect == Spec => []TypeOK
<1>1. Inv => TypeOK
  BY DEF Inv
<1> QED
  BY InvHolds, <1>1, PTL

(* The cleanup never deletes an open window, for every lag of its          *)
(* goroutine and any number of callers that open windows meanwhile.        *)
THEOREM OpenWindowsStay == Spec => CleanupKeepsOpenWindows
<1>1. Inv /\ [Next]_vars =>
        [Cleanup => \A k \in DOMAIN resetTime \ DOMAIN resetTime' : resetTime[k] < clock]_vars
  <2> SUFFICES ASSUME Inv, Cleanup, NEW k \in DOMAIN resetTime \ DOMAIN resetTime'
               PROVE  resetTime[k] < clock
    OBVIOUS
  <2>1. k \in Expired
    BY DEF Cleanup, Delete
  <2>2. cleanerNow > resetTime[k]
    BY <2>1 DEF Expired
  <2> QED
    BY <2>2 DEF Inv, ReadingsOK, TypeOK, Times
<1> QED
  BY <1>1, InvHolds, PTL DEF Spec, CleanupKeepsOpenWindows

-----------------------------------------------------------------------------
(* Bursts.  The windows of a key open more than Span apart.                *)
Span == Window - MaxLag

(* The history s of a key, cut where its last window opened (at o: after   *)
(* position b) and where the one before opened (at p: after position a).   *)
(* A window that has given its whole quota gave the first request when it  *)
(* opened; of the windows before p a request is already forgotten.         *)
Cut(s, o, p, a, b) ==
    /\ o \in Int /\ p \in Int /\ p + Span < o
    /\ a \in Nat /\ b \in Nat /\ a <= b /\ b <= Len(s)
    /\ \A i \in 1..a : s[i] <= p
    /\ \A i \in 1..b : s[i] <= o
    /\ a < Limit /\ b - a <= Limit /\ Len(s) - b <= Limit
    /\ b - a = Limit => s[a + 1] = p
    /\ Len(s) - b = Limit => s[b + 1] = o

(* The limiter's entry of a key k whose last window opened at o and has    *)
(* admitted the requests of s after position b.                            *)
Entry(k, s, o, b) ==
    IF k \in DOMAIN resetTime
    THEN /\ Len(s) - b <= requests[k]
         /\ Len(s) - b = requests[k] /\ requests[k] <= Limit => s[b + 1] = o
         /\ o + Span <= resetTime[k]
    ELSE o + Span < clock

(* Every time of the history is at most a window old.                      *)
Fresh(s) == \A i \in 1..Len(s) : s[i] <= clock /\ clock <= s[i] + Window

History(k) ==
    /\ Fresh(admitted[k])
    /\ \E o, p \in Int, a, b \in Nat :
          /\ Cut(admitted[k], o, p, a, b)
          /\ o <= clock
          /\ Entry(k, admitted[k], o, b)

Histories == \A k \in Keys : History(k)

(* Two spans and a little more are longer than a window.                   *)
LEMMA SpanFact == Span \in Int /\ 2 * Span + 2 > Window /\ Span + 1 > 0
  BY MaxLagAssumption, WindowAssumption DEF Span

(* r is s without its first d members.                                     *)
Suffix(r, s, d) ==
    Len(r) = Len(s) - d /\ \A i \in 1..(Len(s) - d) : r[i] = s[i + d]

(* Time takes d requests from the front.                                   *)
LEMMA CutAges ==
    ASSUME NEW s \in Seq(Times), NEW r \in Seq(Times), NEW d \in 0..Len(s), Suffix(r, s, d),
           NEW o \in Int, NEW p \in Int, NEW a \in Nat, NEW b \in Nat,
           Cut(s, o, p, a, b)
    PROVE  \E a2, b2 \in Nat :
              /\ Cut(r, o, p, a2, b2)
              /\ Len(r) - b2 <= Len(s) - b
              /\ Len(r) - b2 = Len(s) - b /\ b < Len(s) => r[b2 + 1] = s[b + 1]
<1>1. PICK n \in Nat : n = Len(s)
  OBVIOUS
<1>2. /\ a \in Nat /\ b \in Nat /\ a <= b /\ b <= n /\ d \in Nat /\ d <= n
      /\ Len(r) = n - d
      /\ Limit \in Nat /\ Limit > 0
  BY <1>1, LimitAssumption DEF Cut, Suffix
<1> DEFINE a2 == IF d <= a THEN a - d ELSE 0
           b2 == IF d <= b THEN b - d ELSE 0
<1>3. a2 \in Nat /\ b2 \in Nat /\ a2 <= b2 /\ b2 <= n - d
  BY <1>2
<1>4. /\ a2 < Limit /\ b2 - a2 <= Limit /\ (n - d) - b2 <= Limit
      /\ (n - d) - b2 <= n - b
      /\ b2 - a2 = Limit => d <= a /\ b - a = Limit
      /\ (n - d) - b2 = Limit => d <= b /\ n - b = Limit
      /\ (n - d) - b2 = n - b => d <= b
  BY <1>1, <1>2 DEF Cut
<1>5. ASSUME NEW i \in 1..(n - d)
      PROVE  i + d \in 1..n /\ r[i] = s[i + d]
  BY <1>1, <1>2 DEF Suffix
<1>6. \A i \in 1..a2 : r[i] <= p
  <2>1. \A i \in 1..a2 : i \in 1..(n - d) /\ i + d \in 1..a
    BY <1>2
  <2> QED
    BY <1>5, <2>1 DEF Cut
<1>7. \A i \in 1..b2 : r[i] <= o
  <2>1. \A i \in 1..b2 : i \in 1..(n - d) /\ i + d \in 1..b
    BY <1>2
  <2> QED
    BY <1>5, <2>1 DEF Cut
<1>8. b2 - a2 = Limit => r[a2 + 1] = p
  <2>1. SUFFICES ASSUME b2 - a2 = Limit PROVE r[a2 + 1] = p
    OBVIOUS
  <2>2. d <= a /\ b - a = Limit /\ a2 + 1 \in 1..(n - d) /\ (a2 + 1) + d = a + 1
    BY <1>2, <1>3, <1>4, <2>1
  <2> QED
    BY <1>5, <2>2 DEF Cut
<1>9. (n - d) - b2 = n - b /\ b < n => r[b2 + 1] = s[b + 1]
  <2>1. SUFFICES ASSUME (n - d) - b2 = n - b, b < n PROVE r[b2 + 1] = s[b + 1]
    OBVIOUS
  <2>2. d <= b /\ b2 + 1 \in 1..(n - d) /\ (b2 + 1) + d = b + 1
    BY <1>2, <1>3, <1>4, <2>1
  <2> QED
    BY <1>5, <2>2
<1>10. (n - d) - b2 = Limit => r[b2 + 1] = o
  BY <1>1, <1>2, <1>4, <1>9 DEF Cut
<1> HIDE DEF a2, b2
<1>11. Cut(r, o, p, a2, b2)
  BY <1>2, <1>3, <1>4, <1>6, <1>7, <1>8, <1>10 DEF Cut
<1> QED
  BY <1>1, <1>2, <1>3, <1>4, <1>9, <1>11

(* A new window opens at c, when the window opened at o is over: what was  *)
(* admitted before p is forgotten by then, and so is a request of p.       *)
LEMMA CutOpens ==
    ASSUME NEW s \in Seq(Times), NEW c \in Nat,
           \A i \in 1..Len(s) : s[i] <= c /\ c <= s[i] + Window,
           NEW o \in Int, NEW p \in Int, NEW a \in Nat, NEW b \in Nat,
           Cut(s, o, p, a, b), o + Span < c
    PROVE  Cut(Append(s, c), c, o, b, Len(s))
<1>1. PICK n \in Nat : n = Len(s)
  OBVIOUS
<1>2. /\ a \in Nat /\ b \in Nat /\ a <= b /\ b <= n
      /\ o \in Int /\ p \in Int /\ p + Span < o
      /\ Limit \in Nat /\ Limit > 0
  BY <1>1, LimitAssumption DEF Cut
<1>3. \A i \in 1..n : s[i] \in Nat /\ s[i] <= c /\ c <= s[i] + Window
  <2>1. \A i \in 1..n : s[i] \in Times
    BY <1>1
  <2> QED
    BY <1>1, <2>1 DEF Times
<1>4. p + Window < c
  BY <1>2, SpanFact, WindowAssumption
<1>5. a = 0
  <2>1. ASSUME a > 0 PROVE FALSE
    <3>1. s[1] <= p /\ 1 \in 1..n
      BY <1>2, <2>1 DEF Cut
    <3> QED
      BY <1>2, <1>3, <1>4, <3>1, WindowAssumption
  <2> QED
    BY <1>2, <2>1
<1>6. b < Limit
  <2>1. ASSUME b = Limit PROVE FALSE
    <3>1. s[1] = p /\ 1 \in 1..n
      BY <1>2, <1>5, <2>1 DEF Cut
    <3> QED
      BY <1>2, <1>3, <1>4, <3>1, WindowAssumption
  <2>2. b <= Limit
    BY <1>2, <1>5 DEF Cut
  <2> QED
    BY <1>2, <2>1, <2>2
<1>7. /\ Len(Append(s, c)) = n + 1
      /\ \A i \in 1..n : Append(s, c)[i] = s[i]
      /\ Append(s, c)[n + 1] = c
  BY <1>1
<1>8. \A i \in 1..b : Append(s, c)[i] <= o
  <2>1. \A i \in 1..b : i \in 1..n
    BY <1>2
  <2> QED
    BY <1>7, <2>1 DEF Cut
<1>9. n - b <= Limit /\ (n - b = Limit => s[b + 1] = o)
  BY <1>1 DEF Cut
<1>10. n - b = Limit => Append(s, c)[b + 1] = o
  <2>1. n - b = Limit => b + 1 \in 1..n
    BY <1>2
  <2> QED
    BY <1>7, <1>9, <2>1
<1> QED
  BY <1>1, <1>2, <1>3, <1>6, <1>7, <1>8, <1>9, <1>10 DEF Cut

(* The last window has room for one more.                                  *)
Room(s, o, b) ==
    /\ Len(s) - b < Limit
    /\ Len(s) - b + 1 = Limit => b < Len(s) /\ s[b + 1] = o

(* The last window admits one more.                                        *)
LEMMA CutGrows ==
    ASSUME NEW s \in Seq(Times), NEW c \in Nat,
           NEW o \in Int, NEW p \in Int, NEW a \in Nat, NEW b \in Nat,
           Cut(s, o, p, a, b), Room(s, o, b)
    PROVE  /\ Cut(Append(s, c), o, p, a, b)
           /\ Len(Append(s, c)) = Len(s) + 1
           /\ b < Len(s) => Append(s, c)[b + 1] = s[b + 1]
<1>1. PICK n \in Nat : n = Len(s)
  OBVIOUS
<1>2. /\ a \in Nat /\ b \in Nat /\ a <= b /\ b <= n
      /\ Limit \in Nat /\ Limit > 0
  BY <1>1, LimitAssumption DEF Cut
<1>3. /\ Len(Append(s, c)) = n + 1
      /\ \A i \in 1..n : Append(s, c)[i] = s[i]
  BY <1>1
<1>4. /\ \A i \in 1..a : i \in 1..n
      /\ \A i \in 1..b : i \in 1..n
      /\ b - a = Limit => a + 1 \in 1..n
      /\ b < n => b + 1 \in 1..n
  BY <1>2
<1>5. /\ \A i \in 1..a : Append(s, c)[i] <= p
      /\ \A i \in 1..b : Append(s, c)[i] <= o
      /\ b - a = Limit => Append(s, c)[a + 1] = p
  BY <1>3, <1>4 DEF Cut
<1>6. (n + 1) - b <= Limit /\ ((n + 1) - b = Limit => Append(s, c)[b + 1] = o)
  BY <1>1, <1>2, <1>3, <1>4 DEF Room
<1> QED
  BY <1>1, <1>2, <1>3, <1>4, <1>5, <1>6 DEF Cut

-----------------------------------------------------------------------------
(* A key without history and without an entry.                             *)
EmptyHistories ==
    \A k \in Keys : admitted[k] = <<>> /\ k \notin DOMAIN resetTime => History(k)

(* A key nobody asked for has a history with nothing in it.                *)
LEMMA EmptyHistory == TypeOK => EmptyHistories
<1> SUFFICES ASSUME TypeOK, NEW k \in Keys, admitted[k] = <<>>, k \notin DOMAIN resetTime
             PROVE  History(k)
  BY DEF EmptyHistories
<1> DEFINE o == clock - Span - 1
           p == o - Span - 1
<1>1. clock \in Nat
  BY DEF TypeOK, Times
<1>2. o \in Int /\ p \in Int /\ p + Span < o /\ o <= clock /\ o + Span < clock
  BY <1>1, SpanFact
<1> HIDE DEF o, p
<1>3. Cut(admitted[k], o, p, 0, 0)
  BY <1>2, LimitAssumption DEF Cut
<1>4. Entry(k, admitted[k], o, 0)
  BY <1>2 DEF Entry
<1> QED
  BY <1>2, <1>3, <1>4 DEF History, Fresh

(* A step that leaves the clock and a key's entry and history alone.       *)
LEMMA SameHistory ==
    ASSUME NEW k \in Keys, TypeOK, TypeOK', History(k),
           clock' = clock, admitted'[k] = admitted[k],
           k \in DOMAIN resetTime' <=> k \in DOMAIN resetTime,
           k \in DOMAIN resetTime => resetTime'[k] = resetTime[k] /\ requests'[k] = requests[k]
    PROVE  History(k)'
  BY DEF History, Fresh, Entry

(* A request that opens a window.                                          *)
LEMMA OpeningKeepsHistory ==
    ASSUME Inv, NEW c \in Callers, Allow(c), WindowOver(key[c], now[c]), TypeOK',
           History(key[c])
    PROVE  History(key[c])'
<1> DEFINE k == key[c]
           s == admitted[k]
<1>1. PICK n \in Nat : n = Len(s)
  <2>1. s \in Seq(Times)
    BY DEF Inv, TypeOK
  <2> QED
    BY <2>1
<1>2. /\ k \in Keys /\ s \in Seq(Times) /\ clock \in Nat /\ now[c] \in Nat
      /\ now[c] <= clock /\ clock <= now[c] + MaxLag
      /\ Limit \in Nat /\ Limit > 0 /\ MaxRequests \in Nat
  BY LimitAssumption, MaxRequestsAssumption DEF Inv, TypeOK, Times, ReadingsOK, Allow
<1>3. Count(k, now[c]) = 1 /\ Admits(k, now[c])
  BY <1>2 DEF Count, Admits
<1>4. /\ clock' = clock /\ key' = key
      /\ admitted'[k] = Append(s, clock)
      /\ k \in DOMAIN resetTime'
      /\ requests'[k] = 1 /\ resetTime'[k] = now[c] + Window
  BY <1>2, <1>3 DEF Allow, Put, Inv, TypeOK
<1>5. PICK o \in Int, p \in Int, a \in Nat, b \in Nat :
        Cut(s, o, p, a, b) /\ o <= clock /\ Entry(k, s, o, b)
  BY DEF History
<1>6. o + Span < clock
  <2>1. CASE k \in DOMAIN resetTime
    <3>1. resetTime[k] \in Nat /\ now[c] > resetTime[k] /\ o + Span <= resetTime[k]
      BY <1>5, <2>1 DEF WindowOver, Entry, Inv, TypeOK
    <3> QED
      BY <1>2, <3>1, SpanFact
  <2> QED
    BY <1>5, <2>1 DEF Entry
<1>7. \A i \in 1..Len(s) : s[i] <= clock /\ clock <= s[i] + Window
  BY DEF History, Fresh
<1>8. Cut(Append(s, clock), clock, o, b, n)
  BY <1>1, <1>2, <1>5, <1>6, <1>7, CutOpens
<1>9. /\ Len(Append(s, clock)) = n + 1
      /\ \A i \in 1..n : Append(s, clock)[i] = s[i]
      /\ Append(s, clock)[n + 1] = clock
  BY <1>1, <1>2
<1>10. Fresh(admitted[k])'
  <2>1. \A i \in 1..(n + 1) : Append(s, clock)[i] <= clock /\ clock <= Append(s, clock)[i] + Window
    BY <1>1, <1>2, <1>7, <1>9, WindowAssumption
  <2> QED
    BY <1>4, <1>9, <2>1 DEF Fresh
<1>11. Entry(k, admitted[k], clock, n)'
  <2>1. clock + Span <= now[c] + Window
    BY <1>2, MaxLagAssumption, WindowAssumption DEF Span
  <2>2. (n + 1) - n = 1
    OBVIOUS
  <2>3. Entry(k, admitted[k], clock, n)' <=>
          /\ Len(admitted'[k]) - n <= requests'[k]
          /\ Len(admitted'[k]) - n = requests'[k] /\ requests'[k] <= Limit
                => admitted'[k][n + 1] = clock'
          /\ clock' + Span <= resetTime'[k]
    BY <1>4 DEF Entry
  <2> QED
    BY <1>4, <1>9, <2>1, <2>2, <2>3
<1>12. clock \in Int /\ o \in Int /\ b \in Nat
  BY <1>2, <1>5
<1> QED
  BY <1>1, <1>4, <1>8, <1>10, <1>11, <1>12 DEF History

(* A request that finds its window open.                                   *)
LEMMA CountingKeepsHistory ==
    ASSUME Inv, NEW c \in Callers, Allow(c), ~WindowOver(key[c], now[c]), TypeOK',
           History(key[c])
    PROVE  History(key[c])'
<1> DEFINE k == key[c]
           s == admitted[k]
           m == Count(k, now[c])
<1>1. PICK n \in Nat : n = Len(s)
  <2>1. s \in Seq(Times)
    BY DEF Inv, TypeOK
  <2> QED
    BY <2>1
<1>2. /\ k \in Keys /\ s \in Seq(Times) /\ clock \in Nat
      /\ Limit \in Nat /\ Limit > 0 /\ MaxRequests \in Nat /\ MaxRequests > Limit
      /\ k \in DOMAIN resetTime /\ requests[k] \in 1..MaxRequests
  BY LimitAssumption, MaxRequestsAssumption DEF Inv, TypeOK, Times, WindowOver
<1>3. /\ m = (IF requests[k] < MaxRequests THEN requests[k] + 1 ELSE MaxRequests)
      /\ Admits(k, now[c]) <=> m <= Limit
  BY <1>2 DEF Count, Admits
<1> HIDE DEF m
<1>4. /\ clock' = clock /\ key' = key
      /\ admitted'[k] = (IF m <= Limit THEN Append(s, clock) ELSE s)
      /\ k \in DOMAIN resetTime'
      /\ requests'[k] = m /\ resetTime'[k] = resetTime[k]
  BY <1>2, <1>3 DEF Allow, Put, Inv, TypeOK, m
<1>5. PICK o \in Int, p \in Int, a \in Nat, b \in Nat :
        Cut(s, o, p, a, b) /\ o <= clock /\ Entry(k, s, o, b)
  BY DEF History
<1>6. /\ n - b <= requests[k]
      /\ n - b = requests[k] /\ requests[k] <= Limit => s[b + 1] = o
      /\ o + Span <= resetTime[k]
      /\ b <= n
  BY <1>1, <1>2, <1>5 DEF Entry, Cut
<1>7. \A i \in 1..Len(s) : s[i] <= clock /\ clock <= s[i] + Window
  BY DEF History, Fresh
<1>8. CASE m <= Limit
  <2>1. m = requests[k] + 1 /\ n - b < Limit
    BY <1>2, <1>3, <1>6, <1>8
  <2>2. n - b + 1 = m => b < n /\ s[b + 1] = o
    BY <1>2, <1>6, <1>8, <2>1
  <2>3. Room(s, o, b)
    <3>1. n - b + 1 = Limit => n - b + 1 = m
      BY <1>2, <1>5, <1>6, <1>8, <2>1
    <3> QED
      BY <1>1, <2>1, <2>2, <3>1 DEF Room
  <2>4. /\ Cut(Append(s, clock), o, p, a, b)
        /\ Len(Append(s, clock)) = n + 1
        /\ b < n => Append(s, clock)[b + 1] = s[b + 1]
    <3>1. s \in Seq(Times) /\ clock \in Nat /\ Cut(s, o, p, a, b)
      BY <1>2, <1>5
    <3>2. /\ Cut(Append(s, clock), o, p, a, b)
          /\ Len(Append(s, clock)) = Len(s) + 1
          /\ b < Len(s) => Append(s, clock)[b + 1] = s[b + 1]
      BY <2>3, <3>1, CutGrows
    <3> QED
      BY <1>1, <3>2
  <2>5. /\ \A i \in 1..n : Append(s, clock)[i] = s[i]
        /\ Append(s, clock)[n + 1] = clock
    BY <1>1, <1>2
  <2>6. Fresh(admitted[k])'
    <3>1. \A i \in 1..(n + 1) : Append(s, clock)[i] <= clock /\ clock <= Append(s, clock)[i] + Window
      BY <1>1, <1>2, <1>7, <2>5, WindowAssumption
    <3> QED
      BY <1>4, <1>8, <2>4, <3>1 DEF Fresh
  <2>7. Entry(k, admitted[k], o, b)'
    <3>1. Entry(k, admitted[k], o, b)' <=>
            /\ Len(admitted'[k]) - b <= requests'[k]
            /\ Len(admitted'[k]) - b = requests'[k] /\ requests'[k] <= Limit
                  => admitted'[k][b + 1] = o
            /\ o + Span <= resetTime'[k]
      BY <1>4 DEF Entry
    <3>2. (n + 1) - b <= m /\ ((n + 1) - b = m => n - b + 1 = m)
      BY <1>2, <1>5, <1>6, <2>1
    <3>3. (n + 1) - b = m => Append(s, clock)[b + 1] = o
      BY <2>2, <2>4, <3>2
    <3> QED
      BY <1>4, <1>6, <1>8, <2>4, <3>1, <3>2, <3>3
  <2> QED
    BY <1>4, <1>5, <1>8, <2>4, <2>6, <2>7 DEF History
<1>9. CASE ~(m <= Limit)
  <2>1. Entry(k, admitted[k], o, b)'
    <3>1. Entry(k, admitted[k], o, b)' <=>
            /\ Len(admitted'[k]) - b <= requests'[k]
            /\ Len(admitted'[k]) - b = requests'[k] /\ requests'[k] <= Limit
                  => admitted'[k][b + 1] = o
            /\ o + Span <= resetTime'[k]
      BY <1>4 DEF Entry
    <3>2. n - b <= Limit /\ m \in Int
      BY <1>1, <1>2, <1>3, <1>5 DEF Cut
    <3> QED
      BY <1>1, <1>2, <1>4, <1>5, <1>6, <1>9, <3>1, <3>2
  <2>2. Fresh(admitted[k])'
    BY <1>4, <1>7, <1>9 DEF Fresh
  <2> QED
    BY <1>4, <1>5, <1>9, <2>1, <2>2 DEF History
<1> QED
  BY <1>8, <1>9

(* A request that takes the mutex: it is refused, counts in the open       *)
(* window, or opens the next one, which cuts the history anew.             *)
LEMMA AllowKeepsHistories ==
    ASSUME Inv, NEW c \in Callers, Allow(c), TypeOK', Histories, NEW k \in Keys
    PROVE  History(k)'
<1>1. CASE k = key[c] /\ WindowOver(key[c], now[c])
  BY <1>1, OpeningKeepsHistory DEF Histories, Allow
<1>2. CASE k = key[c] /\ ~WindowOver(key[c], now[c])
  BY <1>2, CountingKeepsHistory DEF Histories, Allow
<1>3. CASE k # key[c]
  <2>1. clock' = clock /\ admitted'[k] = admitted[k]
    BY <1>3 DEF Allow, Inv, TypeOK
  <2>2. /\ k \in DOMAIN resetTime' <=> k \in DOMAIN resetTime
        /\ k \in DOMAIN resetTime => resetTime'[k] = resetTime[k] /\ requests'[k] = requests[k]
    BY <1>3 DEF Allow, Put, Inv, TypeOK
  <2> QED
    BY <2>1, <2>2, SameHistory DEF Histories, Inv
<1> QED
  BY <1>1, <1>2, <1>3

(* The cleanup deletes entries whose window is over.                       *)
LEMMA CleanupKeepsHistories ==
    ASSUME Inv, Cleanup, TypeOK', Histories, NEW k \in Keys
    PROVE  History(k)'
<1>1. clock' = clock /\ admitted' = admitted
  BY DEF Cleanup
<1>2. CASE k \in Expired
  <2>1. /\ k \in DOMAIN resetTime /\ resetTime[k] < cleanerNow /\ cleanerNow <= clock
        /\ resetTime[k] \in Nat /\ cleanerNow \in Nat /\ clock \in Nat
    BY <1>2 DEF Expired, Inv, ReadingsOK, TypeOK, Times
  <2>2. k \notin DOMAIN resetTime'
    BY <1>2 DEF Cleanup, Delete
  <2>3. PICK o \in Int, p \in Int, a \in Nat, b \in Nat :
          Cut(admitted[k], o, p, a, b) /\ o <= clock /\ Entry(k, admitted[k], o, b)
    BY DEF Histories, History
  <2>4. o + Span < clock
    BY <2>1, <2>3, SpanFact DEF Entry
  <2>5. Entry(k, admitted[k], o, b)'
    BY <1>1, <2>2, <2>4 DEF Entry
  <2>6. Fresh(admitted[k])'
    BY <1>1 DEF Histories, History, Fresh
  <2> QED
    BY <1>1, <2>3, <2>5, <2>6 DEF History
<1>3. CASE k \notin Expired
  <2>1. /\ k \in DOMAIN resetTime' <=> k \in DOMAIN resetTime
        /\ k \in DOMAIN resetTime => resetTime'[k] = resetTime[k] /\ requests'[k] = requests[k]
    BY <1>3 DEF Cleanup, Delete, Inv, TypeOK
  <2> QED
    BY <1>1, <2>1, SameHistory DEF Histories, Inv
<1> QED
  BY <1>2, <1>3

(* Time passes and takes requests from the front of the history.           *)
LEMMA TickKeepsHistories ==
    ASSUME Inv, Tick, TypeOK', Histories, NEW k \in Keys
    PROVE  History(k)'
<1> DEFINE s == admitted[k]
           r == Recent(s, clock + 1)
<1>1. /\ clock \in Nat /\ s \in Seq(Times) /\ clock' = clock + 1
      /\ admitted'[k] = r
      /\ resetTime' = resetTime /\ requests' = requests
  BY DEF Tick, Inv, TypeOK, Times
<1>2. PICK n \in Nat : n = Len(s)
  BY <1>1
<1>3. PICK d \in 0..Len(s) :
        /\ r \in Seq(Times)
        /\ Len(r) = Len(s) - d
        /\ \A i \in 1..(Len(s) - d) : r[i] = s[i + d] /\ clock + 1 <= s[i + d] + Window
  <2>1. clock + 1 \in Nat
    BY <1>1
  <2> QED
    BY <1>1, <2>1, RecentIsSuffix
<1> HIDE DEF r
<1>4. PICK o \in Int, p \in Int, a \in Nat, b \in Nat :
        Cut(s, o, p, a, b) /\ o <= clock /\ Entry(k, s, o, b)
  BY DEF Histories, History
<1>5. PICK a2 \in Nat, b2 \in Nat :
        /\ Cut(r, o, p, a2, b2)
        /\ Len(r) - b2 <= Len(s) - b
        /\ Len(r) - b2 = Len(s) - b /\ b < Len(s) => r[b2 + 1] = s[b + 1]
  <2>1. Suffix(r, s, d)
    BY <1>3 DEF Suffix
  <2>2. s \in Seq(Times) /\ r \in Seq(Times) /\ d \in 0..Len(s) /\ Cut(s, o, p, a, b)
    BY <1>1, <1>3, <1>4
  <2> HIDE DEF s
  <2> QED
    BY <2>1, <2>2, CutAges
<1>6. Fresh(admitted[k])'
  <2>1. ASSUME NEW i \in 1..(n - d)
        PROVE  r[i] <= clock + 1 /\ clock + 1 <= r[i] + Window
    <3>1. i + d \in 1..n
      BY <1>2, <1>3
    <3>2. \A j \in 1..n : s[j] \in Nat /\ s[j] <= clock
      <4>1. \A j \in 1..n : s[j] \in Times
        BY <1>1, <1>2
      <4> QED
        BY <1>2, <4>1 DEF Histories, History, Fresh, Times
    <3>3. s[i + d] \in Nat /\ s[i + d] <= clock /\ i \in 1..(Len(s) - d)
      BY <1>2, <3>1, <3>2
    <3> QED
      BY <1>1, <1>3, <3>3
  <2> QED
    BY <1>1, <1>2, <1>3, <2>1 DEF Fresh
<1>7. Entry(k, admitted[k], o, b2)'
  <2>1. PICK q \in Nat : q = Len(r)
    <3>1. r \in Seq(Times)
      BY <1>3
    <3>2. Len(r) \in Nat
      BY ONLY <3>1
    <3> QED
      BY ONLY <3>2
  <2>2. CASE k \in DOMAIN resetTime
    <3>1. /\ requests[k] \in Nat /\ requests[k] >= 1
      BY <2>2, MaxRequestsAssumption DEF Inv, TypeOK
    <3>2. /\ n - b <= requests[k]
          /\ n - b = requests[k] /\ requests[k] <= Limit => s[b + 1] = o
          /\ o + Span <= resetTime[k]
      BY <1>2, <1>4, <2>2 DEF Entry
    <3>3. q - b2 <= n - b /\ (q - b2 = n - b /\ b < n => r[b2 + 1] = s[b + 1])
      BY <1>2, <1>5, <2>1
    <3>4. q - b2 <= requests[k]
      BY <3>1, <3>2, <3>3
    <3>5. q - b2 = requests[k] => q - b2 = n - b /\ n - b = requests[k] /\ b < n
      BY <3>1, <3>2, <3>3
    <3> QED
      BY <1>1, <2>1, <2>2, <3>2, <3>3, <3>4, <3>5 DEF Entry
  <2>3. CASE k \notin DOMAIN resetTime
    BY <1>1, <1>4, <2>3, SpanFact DEF Entry
  <2> QED
    BY <2>2, <2>3
<1>8. o <= clock'
  BY <1>1, <1>4
<1> QED
  BY <1>1, <1>4, <1>5, <1>6, <1>7, <1>8 DEF History

(* Every step keeps the cut of every history.                              *)
LEMMA NextKeepsHistories == Inv /\ Inv' /\ Histories /\ [Next]_vars => Histories'
<1> SUFFICES ASSUME Inv, Inv', Histories, [Next]_vars, NEW k \in Keys
             PROVE  History(k)'
  BY DEF Histories
<1>1. TypeOK /\ TypeOK' /\ History(k)
  BY DEF Inv, Histories
<1>2. CASE UNCHANGED <<clock, maps, admitted>>
  BY <1>1, <1>2, SameHistory
<1>3. ASSUME NEW c \in Callers, Allow(c)
      PROVE  History(k)'
  BY <1>1, <1>3, AllowKeepsHistories
<1>4. ASSUME NEW j \in Keys, Reset(j)
      PROVE  History(k)'
  <2>1. CASE j = k
    <3>1. admitted'[k] = <<>> /\ k \notin DOMAIN resetTime'
      BY <1>1, <1>4, <2>1 DEF Reset, Delete, TypeOK
    <3>2. TypeOK' => EmptyHistories'
      BY EmptyHistory, PTL
    <3> QED
      BY <1>1, <3>1, <3>2 DEF EmptyHistories
  <2>2. CASE j # k
    <3>1. clock' = clock /\ admitted'[k] = admitted[k]
      BY <1>1, <1>4, <2>2 DEF Reset, TypeOK
    <3>2. /\ k \in DOMAIN resetTime' <=> k \in DOMAIN resetTime
          /\ k \in DOMAIN resetTime => resetTime'[k] = resetTime[k] /\ requests'[k] = requests[k]
      BY <1>1, <1>4, <2>2 DEF Reset, Delete, TypeOK
    <3> QED
      BY <1>1, <3>1, <3>2, SameHistory
  <2> QED
    BY <2>1, <2>2
<1>5. CASE Cleanup
  BY <1>1, <1>5, CleanupKeepsHistories
<1>6. CASE Tick
  BY <1>1, <1>6, TickKeepsHistories
<1>7. ASSUME NEW c \in Callers, NEW j \in Keys, AllowReadsClock(c, j)
      PROVE  UNCHANGED <<clock, maps, admitted>>
  BY <1>7 DEF AllowReadsClock
<1>8. CleanupReadsClock \/ CleanupReturns \/ Stop \/ UNCHANGED vars
        => UNCHANGED <<clock, maps, admitted>>
  BY DEF CleanupReadsClock, CleanupReturns, Stop, vars
<1> QED
  BY <1>2, <1>3, <1>4, <1>5, <1>6, <1>7, <1>8 DEF Next

(* No key has a history before the first request.                          *)
LEMMA InitHasHistories == Init => Histories
<1> SUFFICES ASSUME Init, NEW k \in Keys PROVE History(k)
  BY DEF Histories
<1>1. TypeOK
  BY InitHasInv DEF Inv
<1>2. admitted[k] = <<>> /\ k \notin DOMAIN resetTime
  BY DEF Init
<1> QED
  BY <1>1, <1>2, EmptyHistory DEF EmptyHistories

(* The history of every key can be cut where its last two windows opened,  *)
(* at most a quota in each of the three parts, and the limiter's entry     *)
(* counts what the last part holds (rate_limiter.go:57-89).                *)
THEOREM HistoriesHold == Spec => []Histories
<1>1. Inv /\ Inv' /\ Histories /\ [Next]_vars => Histories'
  BY NextKeepsHistories
<1> QED
  BY <1>1, InitHasHistories, InvHolds, PTL DEF Spec

(* Fewer than three quotas of a key's requests pass in any stretch as long *)
(* as a window: what the history holds, cut where the last two windows     *)
(* opened.                                                                 *)
THEOREM BurstsAreBounded == Spec => []BurstBound
<1>1. Inv /\ Histories => BurstBound
  <2> SUFFICES ASSUME Inv, NEW k \in Keys, History(k)
               PROVE  Len(admitted[k]) < 3 * Limit
    BY DEF Histories, BurstBound
  <2>1. PICK n \in Nat : n = Len(admitted[k])
    BY DEF Inv, TypeOK
  <2>2. PICK o \in Int, p \in Int, a \in Nat, b \in Nat : Cut(admitted[k], o, p, a, b)
    BY DEF History
  <2> QED
    BY <2>1, <2>2, LimitAssumption DEF Cut
<1> QED
  BY <1>1, InvHolds, HistoriesHold, PTL
=============================================================================
