-------------------------- MODULE HealthCacheProofs --------------------------
(***************************************************************************)
(* Proofs about module HealthCache, for any set of callers and any TTL:    *)
(* the race never makes a method return nil, and without an overlap no     *)
(* answer is older than the TTL.                                           *)
(***************************************************************************)
EXTENDS HealthCache, TLAPS

(* Once there is a response there is always one: a caller past its check   *)
(* for nil, or past its store, finds it.                                   *)
CacheFilled ==
    \A c \in Callers :
        /\ pc[c] \in {"checkAge", "storeFlag", "storeReading", "return"} => last # Nil
        /\ pc[c] = "store" => fresh[c] # Nil

Active(c) == pc[c] \notin {"idle", "answered"}

(* Without an overlap one caller is active at most; its response is no     *)
(* older than its own reading of the clock, and the cache's time, unless   *)
(* it is just being written, no later than the response it belongs to.     *)
Serial ==
    ~overlap =>
        /\ \A c, d \in Callers : Active(c) /\ Active(d) => c = d
        /\ \A c \in Callers :
              /\ now[c] <= clock
              /\ pc[c] = "store" => now[c] <= fresh[c].at
              /\ pc[c] \in {"storeFlag", "storeReading"} => now[c] <= last.at
              /\ pc[c] = "return" => now[c] <= last.at + TTL
        /\ (\A c \in Callers : pc[c] \notin {"storeFlag", "storeReading"})
              => lastReading <= last.at

Inv == TypeOK /\ CacheFilled /\ NeverNil /\ Serial /\ SerialAnswersAreFresh

(* Responses, Nil among them, and their times.                             *)
LEMMA ResponseFacts ==
  /\ Nil \in Responses
  /\ \A t \in Times : Response(t) \in Responses /\ Response(t) # Nil /\ Response(t).at = t
  /\ \A m \in Responses : m.at \in Times
  <1>1. Nil \in Responses
    BY DEF Responses
  <1>2. ASSUME NEW t \in Times
        PROVE  Response(t) \in Responses /\ Response(t) # Nil /\ Response(t).at = t
    <2>1. Response(t) \in Responses
      BY DEF Responses
    <2>2. Response(t).nil # Nil.nil /\ Response(t).at = t
      BY DEF Response, Nil
    <2>. QED BY <2>1, <2>2
  <1>3. Nil.at \in Times
    BY MaxClockAssumption DEF Nil, Times
  <1>4. ASSUME NEW m \in Responses PROVE m.at \in Times
    BY <1>2, <1>3 DEF Responses
  <1>. QED BY <1>1, <1>2, <1>4

(* The invariant holds while the cache is empty.                           *)
LEMMA InitInv == Init => Inv
  <1>. SUFFICES ASSUME Init PROVE Inv
    OBVIOUS
  <1>. USE TTLAssumption, MaxClockAssumption, ResponseFacts DEF Init
  <1>1. TypeOK
    <2>1. 0 \in Times
      BY DEF Times
    <2>. QED BY <2>1 DEF TypeOK
  <1>2. CacheFilled /\ NeverNil /\ SerialAnswersAreFresh
    BY DEF CacheFilled, NeverNil, SerialAnswersAreFresh
  <1>3. Serial
    BY DEF Serial, Active, Nil
  <1>. QED BY <1>1, <1>2, <1>3 DEF Inv

(* Every step keeps the types, a torn time included.                       *)
LEMMA TypeStep == TypeOK /\ [Next]_vars => TypeOK'
  <1>. SUFFICES ASSUME TypeOK, [Next]_vars PROVE TypeOK'
    OBVIOUS
  <1>. USE TTLAssumption, MaxClockAssumption, ResponseFacts DEF TypeOK, Goto, cache
  <1>1. ASSUME NEW c \in Callers, Call(c) PROVE TypeOK'
    BY <1>1 DEF Call
  <1>2. ASSUME NEW c \in Callers, CheckNil(c) PROVE TypeOK'
    BY <1>2 DEF CheckNil
  <1>3. ASSUME NEW c \in Callers, CheckAge(c) PROVE TypeOK'
    BY <1>3 DEF CheckAge
  <1>4. ASSUME NEW c \in Callers, Probe(c) PROVE TypeOK'
    BY <1>4 DEF Probe
  <1>5. ASSUME NEW c \in Callers, Store(c) PROVE TypeOK'
    BY <1>5 DEF Store
  <1>6. ASSUME NEW c \in Callers, StoreFlag(c) PROVE TypeOK'
    BY <1>6 DEF StoreFlag
  <1>7. ASSUME NEW c \in Callers, StoreReading(c) PROVE TypeOK'
    BY <1>7 DEF StoreReading
  <1>8. ASSUME NEW c \in Callers, Return(c) PROVE TypeOK'
    BY <1>8 DEF Return
  <1>9. ASSUME NEW c \in Callers, Done(c) PROVE TypeOK'
    BY <1>9 DEF Done, Times
  <1>10. CASE Tick
    BY <1>10 DEF Tick, Times
  <1>11. CASE UNCHANGED vars
    BY <1>11 DEF vars
  <1>. QED
    BY <1>1, <1>2, <1>3, <1>4, <1>5, <1>6, <1>7, <1>8, <1>9, <1>10, <1>11
       DEF Next, Method

(* Nobody empties the cache, so nobody who found it filled returns nil.    *)
LEMMA FilledStep == Inv /\ [Next]_vars => CacheFilled' /\ NeverNil'
  <1>. SUFFICES ASSUME Inv, [Next]_vars PROVE CacheFilled' /\ NeverNil'
    OBVIOUS
  <1>. USE ResponseFacts DEF Inv, TypeOK, CacheFilled, NeverNil, Goto, cache
  <1>1. ASSUME NEW c \in Callers, Call(c) PROVE CacheFilled' /\ NeverNil'
    BY <1>1 DEF Call
  <1>2. ASSUME NEW c \in Callers, CheckNil(c) PROVE CacheFilled' /\ NeverNil'
    BY <1>2 DEF CheckNil
  <1>3. ASSUME NEW c \in Callers, CheckAge(c) PROVE CacheFilled' /\ NeverNil'
    BY <1>3 DEF CheckAge
  <1>4. ASSUME NEW c \in Callers, Probe(c) PROVE CacheFilled' /\ NeverNil'
    BY <1>4 DEF Probe
  <1>5. ASSUME NEW c \in Callers, Store(c) PROVE CacheFilled' /\ NeverNil'
    BY <1>5 DEF Store
  <1>6. ASSUME NEW c \in Callers, StoreFlag(c) PROVE CacheFilled' /\ NeverNil'
    BY <1>6 DEF StoreFlag
  <1>7. ASSUME NEW c \in Callers, StoreReading(c) PROVE CacheFilled' /\ NeverNil'
    BY <1>7 DEF StoreReading
  <1>8. ASSUME NEW c \in Callers, Return(c) PROVE CacheFilled' /\ NeverNil'
    BY <1>8 DEF Return
  <1>9. ASSUME NEW c \in Callers, Done(c) PROVE CacheFilled' /\ NeverNil'
    BY <1>9 DEF Done
  <1>10. CASE Tick
    BY <1>10 DEF Tick
  <1>11. CASE UNCHANGED vars
    BY <1>11 DEF vars
  <1>. QED
    BY <1>1, <1>2, <1>3, <1>4, <1>5, <1>6, <1>7, <1>8, <1>9, <1>10, <1>11
       DEF Next, Method

(* Until two calls overlap, the time of the cache is that of its response  *)
(* or earlier, and an answer is no older than the TTL.                     *)
LEMMA SerialStep == Inv /\ [Next]_vars => Serial' /\ SerialAnswersAreFresh'
  <1>. DEFINE Goal == Serial' /\ SerialAnswersAreFresh'
  <1>. SUFFICES ASSUME Inv, [Next]_vars PROVE Goal
    OBVIOUS
  <1>. USE TTLAssumption, MaxClockAssumption, ResponseFacts
       DEF Inv, TypeOK, Serial, SerialAnswersAreFresh, Active, Goto, cache, Times
  <1>1. ASSUME NEW c \in Callers, Call(c) PROVE Goal
    <2>1. overlap' \/ \A d \in Callers : pc[d] \in {"idle", "answered"}
      BY <1>1 DEF Call
    <2>2. /\ pc' = [pc EXCEPT ![c] = "checkNil"]
          /\ now' = [now EXCEPT ![c] = clock]
          /\ overlap => overlap'
          /\ UNCHANGED <<clock, last, lastFlag, lastReading, fresh, answer>>
      BY <1>1 DEF Call
    <2>3. Serial'
      BY <2>1, <2>2
    <2>4. SerialAnswersAreFresh'
      BY <2>2
    <2>. QED BY <2>3, <2>4
  <1>2. ASSUME NEW c \in Callers, CheckNil(c) PROVE Goal
    BY <1>2 DEF CheckNil
  <1>3. ASSUME NEW c \in Callers, CheckAge(c) PROVE Goal
    BY <1>3 DEF CheckAge, Stale
  <1>4. ASSUME NEW c \in Callers, Probe(c) PROVE Goal
    BY <1>4 DEF Probe
  <1>5. ASSUME NEW c \in Callers, Store(c) PROVE Goal
    BY <1>5 DEF Store
  <1>6. ASSUME NEW c \in Callers, StoreFlag(c) PROVE Goal
    BY <1>6 DEF StoreFlag
  <1>7. ASSUME NEW c \in Callers, StoreReading(c) PROVE Goal
    BY <1>7 DEF StoreReading
  <1>8. ASSUME NEW c \in Callers, Return(c) PROVE Goal
    BY <1>8 DEF Return
  <1>9. ASSUME NEW c \in Callers, Done(c) PROVE Goal
    BY <1>9 DEF Done
  <1>10. CASE Tick
    BY <1>10 DEF Tick
  <1>11. CASE UNCHANGED vars
    BY <1>11 DEF vars
  <1>. QED
    BY <1>1, <1>2, <1>3, <1>4, <1>5, <1>6, <1>7, <1>8, <1>9, <1>10, <1>11
       DEF Next, Method

(* The invariant holds in every reachable state.                           *)
LEMMA Invariance == Spec => []Inv
  <1>1. Inv /\ [Next]_vars => Inv'
    BY TypeStep, FilledStep, SerialStep DEF Inv
  <1>. QED BY InitInv, <1>1, PTL DEF Spec

(* Every field of the cache and of its callers keeps its type, torn times  *)
(* included.                                                               *)
THEOREM TypeCorrect == Spec => []TypeOK
  <1>1. Inv => TypeOK
    BY DEF Inv
  <1>. QED BY Invariance, <1>1, PTL

(* However many callers race on the unguarded fields, no method returns    *)
(* nil (graph/health.go:144-171).                                          *)
THEOREM NoNilAnswer == Spec => []NeverNil
  <1>1. Inv => NeverNil
    BY DEF Inv
  <1>. QED BY Invariance, <1>1, PTL

(* Until two calls overlap, no answer is older than the TTL.               *)
THEOREM SerialFreshness == Spec => []SerialAnswersAreFresh
  <1>1. Inv => SerialAnswersAreFresh
    BY DEF Inv
  <1>. QED BY Invariance, <1>1, PTL
=============================================================================
