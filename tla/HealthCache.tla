---------------------------- MODULE HealthCache ----------------------------
(***************************************************************************)
(* CachedHealthService of graph/health.go.  Its three methods have the     *)
(* same text over a pair of fields each (lastHealth, lastReadiness,        *)
(* lastInfo, with their times); one pair is modelled.                      *)
(*                                                                         *)
(* The resolver shares the cache between all requests and nothing guards   *)
(* it: every read and write of a field is a step of its own.  The time is  *)
(* a time.Time of two words, written one after the other: a flag that says *)
(* that it is a monotonic reading, and the reading.  Between the two a     *)
(* first reading looks like the instant the process started.               *)
(***************************************************************************)
EXTENDS Naturals

CONSTANTS
    Callers,        \* goroutines that resolve health, readiness or info
    TTL,            \* cacheTTL (30 seconds in the code)
    MaxClock        \* bound: when time stops

ASSUME TTLAssumption == TTL \in Nat
ASSUME MaxClockAssumption == MaxClock \in Nat

Times == 0..MaxClock

VARIABLES
    clock,
    last,                   \* a response, or Nil
    lastFlag, lastReading,  \* the two words of its time
    pc, now,                \* a caller: where it is, its now
    fresh,                  \* what the wrapped service answered it
    answer,                 \* what the method returned to it
    overlap                 \* history: a call began while another was going on

cache == <<last, lastFlag, lastReading>>
vars == <<clock, cache, pc, now, fresh, answer, overlap>>

(* A response is told from another by the time at which the wrapped        *)
(* service looked at the system.                                           *)
Nil == [nil |-> TRUE, at |-> 0]
Response(t) == [nil |-> FALSE, at |-> t]
Responses == {Nil} \cup {Response(t) : t \in Times}

Init ==
    /\ clock = 0
    /\ last = Nil /\ lastFlag = FALSE /\ lastReading = 0
    /\ pc = [c \in Callers |-> "idle"]
    /\ now = [c \in Callers |-> 0]
    /\ fresh = [c \in Callers |-> Nil]
    /\ answer = [c \in Callers |-> Nil]
    /\ overlap = FALSE

Goto(c, l) == pc' = [pc EXCEPT ![c] = l]

-----------------------------------------------------------------------------
(* now := time.Now()                                                       *)
Call(c) ==
    /\ pc[c] = "idle"
    /\ now' = [now EXCEPT ![c] = clock]
    /\ overlap' = (overlap \/ \E d \in Callers : pc[d] \notin {"idle", "answered"})
    /\ Goto(c, "checkNil")
    /\ UNCHANGED <<clock, cache, fresh, answer>>

(* c.lastReadiness == nil                                                  *)
CheckNil(c) ==
    /\ pc[c] = "checkNil"
    /\ Goto(c, IF last = Nil THEN "probe" ELSE "checkAge")
    /\ UNCHANGED <<clock, cache, now, fresh, answer, overlap>>

(* now.Sub(c.lastReadinessTime) > c.cacheTTL.  A time without the flag is  *)
(* the year 1, and longer ago than any TTL.                                *)
Stale(t) == ~lastFlag \/ t > lastReading + TTL

(* Mutant: a stale response is thrown away before it is replaced.          *)
CheckAgeInvalidates(c) ==
    /\ pc[c] = "checkAge"
    /\ Goto(c, IF Stale(now[c]) THEN "probe" ELSE "return")
    /\ last' = IF Stale(now[c]) THEN Nil ELSE last
    /\ UNCHANGED <<clock, lastFlag, lastReading, now, fresh, answer, overlap>>

CheckAge(c) ==
    /\ pc[c] = "checkAge"
    /\ Goto(c, IF Stale(now[c]) THEN "probe" ELSE "return")
    /\ UNCHANGED <<clock, cache, now, fresh, answer, overlap>>

(* c.wrapped.GetReadiness() looks at the database and at the cluster; the  *)
(* answer may take its time.                                               *)
Probe(c) ==
    /\ pc[c] = "probe"
    /\ fresh' = [fresh EXCEPT ![c] = Response(clock)]
    /\ Goto(c, "store")
    /\ UNCHANGED <<clock, cache, now, answer, overlap>>

(* c.lastReadiness = ...                                                   *)
Store(c) ==
    /\ pc[c] = "store"
    /\ last' = fresh[c]
    /\ fresh' = [fresh EXCEPT ![c] = Nil]
    /\ Goto(c, "storeFlag")
    /\ UNCHANGED <<clock, lastFlag, lastReading, now, answer, overlap>>

(* c.lastReadinessTime = now, its first and its second word.               *)
StoreFlag(c) ==
    /\ pc[c] = "storeFlag"
    /\ lastFlag' = TRUE
    /\ Goto(c, "storeReading")
    /\ UNCHANGED <<clock, last, lastReading, now, fresh, answer, overlap>>

(* Mutant: the time stored is the time when the response came.             *)
StoreReadingLate(c) ==
    /\ pc[c] = "storeReading"
    /\ lastReading' = clock
    /\ Goto(c, "return")
    /\ UNCHANGED <<clock, last, lastFlag, now, fresh, answer, overlap>>

(* Mutant: the time stored is the one at which the response expires.       *)
StoreReadingExpiry(c) ==
    /\ pc[c] = "storeReading"
    /\ lastReading' = now[c] + TTL
    /\ Goto(c, "return")
    /\ UNCHANGED <<clock, last, lastFlag, now, fresh, answer, overlap>>

StoreReading(c) ==
    /\ pc[c] = "storeReading"
    /\ lastReading' = now[c]
    /\ Goto(c, "return")
    /\ UNCHANGED <<clock, last, lastFlag, now, fresh, answer, overlap>>

(* return c.lastReadiness                                                  *)
Return(c) ==
    /\ pc[c] = "return"
    /\ answer' = [answer EXCEPT ![c] = last]
    /\ Goto(c, "answered")
    /\ UNCHANGED <<clock, cache, now, fresh, overlap>>

(* The request is over; the next one may come.                             *)
Done(c) ==
    /\ pc[c] = "answered"
    /\ Goto(c, "idle")
    /\ now' = [now EXCEPT ![c] = 0]
    /\ answer' = [answer EXCEPT ![c] = Nil]
    /\ UNCHANGED <<clock, cache, fresh, overlap>>

(* External: time passes.                                                  *)
Tick ==
    /\ clock < MaxClock
    /\ clock' = clock + 1
    /\ UNCHANGED <<cache, pc, now, fresh, answer, overlap>>

-----------------------------------------------------------------------------
Method(c) ==
    \/ CheckNil(c) \/ CheckAge(c) \/ Probe(c)
    \/ Store(c) \/ StoreFlag(c) \/ StoreReading(c) \/ Return(c)

Next ==
    \/ \E c \in Callers : Call(c) \/ Method(c) \/ Done(c)
    \/ Tick

Spec == Init /\ [][Next]_vars

-----------------------------------------------------------------------------
(* Properties.                                                             *)

(* The type invariant.                                                     *)
TypeOK ==
    /\ clock \in Times
    /\ last \in Responses /\ lastFlag \in BOOLEAN /\ lastReading \in Times
    /\ pc \in [Callers -> {"idle", "checkNil", "checkAge", "probe", "store",
                           "storeFlag", "storeReading", "return", "answered"}]
    /\ now \in [Callers -> Times]
    /\ fresh \in [Callers -> Responses]
    /\ answer \in [Callers -> Responses]
    /\ overlap \in BOOLEAN

(* A method never returns nil, although other callers write the field      *)
(* between its check and its return.                                       *)
NeverNil == \A c \in Callers : pc[c] = "answered" => answer[c] # Nil

(* As long as no two calls overlap, no answer is older than the TTL at the *)
(* time its caller asked.                                                  *)
SerialAnswersAreFresh ==
    ~overlap =>
        \A c \in Callers : pc[c] = "answered" => now[c] <= answer[c].at + TTL
=============================================================================
