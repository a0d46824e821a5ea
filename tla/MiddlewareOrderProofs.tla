----------------------- MODULE MiddlewareOrderProofs -----------------------
(***************************************************************************)
(* Theorems of module Middleware about the order of a stack: which Handles *)
(* are around a panic, an answer or an audit entry.  In front of the       *)
(* application the Handles run in the order of the stack, and those that   *)
(* always call Next are waiting when a later one runs; so a recovery in    *)
(* front of a panic is there to recover it, a logging middleware comes     *)
(* back once, and an id that is made early is known later.                 *)
(***************************************************************************)
EXTENDS MiddlewareProofs

USE DEF request, reply, control, logs

(* Behind which position has every Handle been called, in front of the     *)
(* application?                                                            *)
Reached ==
  IF pc = "handle" THEN at
  ELSE IF pc = "adapter" THEN index + 1
  ELSE IF install = "handlers" THEN index
  ELSE IF index < N THEN 1 ELSE AppPosition

(* No Handle but these returns without Next, unless it was an abort.       *)
Passing == Kinds \ {"custom", "rateLimit"}

(* Before the first panic of a request that nothing stopped.               *)
Covered ==
  panics = <<>> /\ ~Stopped /\ index <= N =>
    /\ pc \in {"loop", "handle", "adapter"} /\ (pc = "adapter" => install = "handlers")
    /\ \A j \in Positions : stack[j] \in Passing /\ j < Reached => Contains(waiting, j)

(* While its first panic unwinds, and when nobody recovered.               *)
Unwound ==
  /\ pc \in {"unwind", "crashed"} => panics # <<>>
  /\ Len(panics) = 1 /\ ~Stopped =>
       \A j \in 1 .. panics[1] - 1 : stack[j] = "recovery" =>
         pc # "crashed" /\ (pc = "unwind" => Contains(waiting, j))

(* Is the logging middleware at l still to come?                           *)
NotYet(l) ==
  \/ pc = "handle" /\ at <= l
  \/ pc = "loop" /\ IF install = "handlers" THEN index <= l ELSE index < N
  \/ pc = "adapter" /\ install = "handlers" /\ index < l

Accounted ==
  /\ install = "handlers" => err = "none"
  /\ pc = "done" => waiting = <<>>
  /\ panics = <<>> /\ ~EndedBeforeLogging /\ ~skip =>
       \A l \in Positions : stack[l] = "logging" =>
         \/ entry # NoEntry
         \/ Contains(waiting, l)
         \/ pc = "resume" /\ at = l
         \/ NotYet(l)

(* As Gin handlers only the limiter and a custom handler return without Next. *)
Skipped ==
  install = "handlers" =>
    /\ pc = "resume" => index > N
    /\ pc \in {"adapter", "unwind"} /\ index < N => stack[index] \in {"rateLimit", "custom"}

(* Handles in Next, and the one that has just come back from it.           *)
Held(j) == Contains(waiting, j) \/ (pc = "resume" /\ at = j)

(* The ids in the context, in the logger and in the entry: where they come *)
(* from, and that they are there when a requestID is in front.             *)
Sourced ==
  \A id \in {ctxID, logID, entry.id} :
    /\ id = "client" => hasID
    /\ id = "generated" => header \/ Stopped \/ panics # <<>>

(* Has the Handle at r been called, as far as the id in the context tells? *)
Passed(r) ==
  \/ install = "handlers" /\ index <= N /\ r < index
  \/ install = "chain" /\ pc = "handle" /\ r < at

Identified ==
  \A r \in Positions : stack[r] = "requestID" =>
    /\ Passed(r) => ctxID # "none"
    /\ \A l \in Positions : stack[l] = "logging" /\ r < l /\ Held(l) /\ ~skip => logID # "none"

Named == entry # NoEntry /\ Before("requestID", "logging") => entry.id # "none"

(* A record is handed to the audit logger, if there is one.                *)
Handed == entry # NoEntry /\ auditor # "nil" => audit # "none"

Ordered == /\ Covered /\ Unwound /\ Accounted /\ Skipped /\ Sourced /\ Identified
           /\ Named /\ Handed

-----------------------------------------------------------------------------
(* Members of sequences of positions.                                      *)

(* What a position pushed on a sequence adds to its members.               *)
LEMMA MemberOn ==
  ASSUME NEW S, NEW w \in Seq(S), NEW p \in S
  PROVE  \A j : Contains(Append(w, p), j) <=> Contains(w, j) \/ j = p
<1>1. /\ Len(w) \in Nat /\ Len(Append(w, p)) = Len(w) + 1
      /\ \A i \in 1 .. Len(w) : Append(w, p)[i] = w[i]
      /\ Append(w, p)[Len(w) + 1] = p
  OBVIOUS
<1>2. TAKE j
<1>3. Contains(Append(w, p), j) => Contains(w, j) \/ j = p
  BY <1>1 DEF Contains
<1>4. Contains(w, j) => Contains(Append(w, p), j)
  BY <1>1 DEF Contains
<1>5. j = p => Contains(Append(w, p), j)
  BY <1>1 DEF Contains
<1> QED
  BY <1>3, <1>4, <1>5

(* What the last position popped from a sequence takes away.               *)
LEMMA MemberLess ==
  ASSUME NEW S, NEW w \in Seq(S), w # <<>>
  PROVE  \A j : Contains(w, j) <=> Contains(Front(w), j) \/ j = Last(w)
<1>1. Len(w) \in Nat \ {0} /\ Last(w) = w[Len(w)] /\ Front(w) = SubSeq(w, 1, Len(w) - 1)
  BY DEF Last, Front
<1>2. PICK k \in Nat : k = Len(w) - 1
  <2>1. Len(w) - 1 \in Nat
    BY <1>1
  <2> QED
    BY <2>1
<1>3. \A i \in 1 .. k : w[i] \in S
  BY <1>1, <1>2
<1>4. Len(SubSeq(w, 1, k)) = k /\ \A i \in 1 .. k : SubSeq(w, 1, k)[i] = w[i]
  BY <1>2, <1>3, SubSeqProperties
<1>5. Len(Front(w)) = k /\ \A i \in 1 .. k : Front(w)[i] = w[i]
  BY <1>1, <1>2, <1>4
<1>6. TAKE j
<1>7. Contains(w, j) => Contains(Front(w), j) \/ j = Last(w)
  BY <1>1, <1>2, <1>5 DEF Contains
<1>8. Contains(Front(w), j) => Contains(w, j)
  BY <1>1, <1>2, <1>5 DEF Contains
<1>9. j = Last(w) => Contains(w, j)
  BY <1>1 DEF Contains
<1> QED
  BY <1>7, <1>8, <1>9

(* A prefix has no member the sequence has not.                            *)
LEMMA MemberPrefix ==
  ASSUME NEW S, NEW w \in Seq(S), NEW i \in 1 .. Len(w)
  PROVE  \A j : Contains(SubSeq(w, 1, i - 1), j) => Contains(w, j)
<1>1. Len(w) \in Nat /\ i - 1 \in Nat /\ i - 1 <= Len(w)
  OBVIOUS
<1>2. PICK k \in Nat : k = i - 1
  BY <1>1
<1>3. \A h \in 1 .. k : w[h] \in S
  BY <1>1, <1>2
<1>4. Len(SubSeq(w, 1, k)) = k /\ \A h \in 1 .. k : SubSeq(w, 1, k)[h] = w[h]
  BY <1>2, <1>3, SubSeqProperties
<1> QED
  BY <1>1, <1>2, <1>4 DEF Contains

(* What every invariant below needs of the types.                          *)
LEMMA Here ==
  ASSUME Typed, UNCHANGED request
  PROVE  /\ Len(stack) \in 1 .. 6 /\ Len(stack) \in Nat /\ AppPosition = Len(stack) + 1
         /\ N \in 2 .. 7 /\ N \in Int /\ N' = N /\ AbortIndex = 63
         /\ index \in Nat \ {0} /\ index \in Int /\ Positions = 1 .. Len(stack) /\ Positions' = Positions
         /\ AppPosition' = AppPosition /\ stack' = stack /\ install' = install /\ skip' = skip
         /\ hasID' = hasID
         /\ at \in Positions /\ waiting \in Seq(Positions)
         /\ install \in {"handlers", "chain"}
         /\ (install = "chain" => N = 2) /\ (install = "handlers" => N = Len(stack) + 1)
<1>1. /\ Len(stack) \in 1 .. 6 /\ Len(stack) \in Nat /\ AppPosition = Len(stack) + 1
      /\ N \in 2 .. 7 /\ AbortIndex = 63 /\ stack' = stack /\ install' = install
      /\ AppPosition' = AppPosition /\ N' = N /\ Positions' = Positions
      /\ (install = "chain" => N = 2) /\ (install # "chain" => N = Len(stack) + 1)
  BY Same DEF Typed
<1>2. /\ index \in Nat \ {0} /\ at \in Positions /\ waiting \in Seq(Positions)
      /\ install \in {"handlers", "chain"}
  BY DEF Typed, Control, Placed
<1>3. N \in Int /\ index \in Int /\ Positions = 1 .. Len(stack) /\ skip' = skip /\ hasID' = hasID
  BY <1>1, <1>2 DEF Positions
<1> QED
  BY <1>1, <1>2, <1>3

(* Where CallNext leads.                                                   *)
LEMMA Called ==
  ASSUME Typed, UNCHANGED request, pc = "handle", CallNext
  PROVE  /\ \A j : Contains(waiting', j) <=> Contains(waiting, j) \/ j = at
         /\ pc' \in {"handle", "loop"} /\ err' = err
         /\ pc' = "handle" => install = "chain" /\ at' = at + 1 /\ index' = index
         /\ pc' = "loop" => index' = index + 1
         /\ pc' = "loop" /\ install = "chain" => index' = N /\ at = Len(stack)
         /\ install = "handlers" => at = index
         /\ Reached' = at + 1
<1>1. /\ Len(stack) \in 1 .. 6 /\ AppPosition = Len(stack) + 1 /\ AppPosition' = AppPosition
      /\ N \in 2 .. 7 /\ N' = N /\ index \in Nat \ {0} /\ Positions = 1 .. Len(stack)
      /\ at \in Positions /\ waiting \in Seq(Positions) /\ install' = install
      /\ install \in {"handlers", "chain"}
      /\ (install = "chain" => N = 2)
  BY Here
<1>2. /\ IF install = "chain" THEN link = at + 1 ELSE at = index
      /\ index < N /\ link \in 2 .. AppPosition
  BY DEF Typed, Control, Nested, Bounded, Placed
<1>3. waiting' = Append(waiting, at) /\ err' = err
  BY DEF CallNext
<1>4. \A j : Contains(waiting', j) <=> Contains(waiting, j) \/ j = at
  BY <1>1, <1>3, MemberOn
<1>5. CASE install = "chain" /\ link <= Len(stack)
  <2>1. pc' = "handle" /\ at' = link /\ index' = index
    BY <1>5 DEF CallNext
  <2> QED
    BY <1>1, <1>2, <1>3, <1>4, <1>5, <2>1 DEF Reached
<1>6. CASE install = "chain" /\ ~(link <= Len(stack))
  <2>1. pc' = "loop" /\ index' = index + 1
    BY <1>6 DEF CallNext
  <2>2. index' = N /\ at = Len(stack)
    BY <1>1, <1>2, <1>6, <2>1
  <2> QED
    BY <1>1, <1>2, <1>3, <1>4, <1>6, <2>1, <2>2 DEF Reached
<1>7. CASE install = "handlers"
  <2>1. pc' = "loop" /\ index' = index + 1
    BY <1>7 DEF CallNext
  <2> QED
    BY <1>1, <1>2, <1>3, <1>4, <1>7, <2>1 DEF Reached
<1> QED
  BY <1>1, <1>5, <1>6, <1>7

(* Where Return leads.                                                     *)
LEMMA Returned ==
  ASSUME Typed, NEW w \in Seq(Positions), NEW e, Return(w, e)
  PROVE  /\ err' = e /\ index' = index /\ pc' \in {"resume", "adapter"}
         /\ install # "chain" => pc' = "adapter" /\ at' = at
         /\ \A j : Held(j)' <=> Contains(w, j)
         /\ \A j : Contains(w, j) <=> Contains(waiting', j) \/ (pc' = "resume" /\ at' = j)
<1>1. CASE install = "chain" /\ w # <<>>
  <2>1. err' = e /\ index' = index /\ pc' = "resume" /\ at' = Last(w) /\ waiting' = Front(w)
    BY <1>1 DEF Return
  <2>2. \A j : Contains(w, j) <=> Contains(waiting', j) \/ j = at'
    BY <1>1, <2>1, MemberLess
  <2> QED
    BY <1>1, <2>1, <2>2 DEF Held
<1>2. CASE ~(install = "chain" /\ w # <<>>)
  <2>1. err' = e /\ index' = index /\ pc' = "adapter" /\ at' = at /\ waiting' = w
    BY <1>2 DEF Return
  <2> QED
    BY <1>2, <2>1 DEF Held
<1> QED
  BY <1>1, <1>2

(* Where the end of Gin's loop leads.                                      *)
LEMMA Ended ==
  ASSUME Typed, LoopEnds
  PROVE  /\ pc' \in {"done", "resume"} /\ index' = index
         /\ pc' = "done" => waiting' = <<>> /\ \A j : ~Contains(waiting, j)
         /\ \A j : Contains(waiting, j) <=> Contains(waiting', j) \/ (pc' = "resume" /\ at' = j)
         /\ \A j : Held(j)' <=> Contains(waiting, j)
<1>1. CASE waiting = <<>> /\ pc' = "done" /\ UNCHANGED waiting
  <2>1. \A j : ~Contains(waiting, j) /\ ~Contains(waiting', j)
    BY <1>1 DEF Contains
  <2>2. index' = index
    BY DEF LoopEnds
  <2> QED
    BY <1>1, <2>1, <2>2 DEF Held
<1>2. CASE waiting # <<>> /\ pc' = "resume" /\ at' = Last(waiting) /\ waiting' = Front(waiting)
  <2>1. waiting \in Seq(Positions)
    BY DEF Typed, Control, Placed
  <2>2. \A j : Contains(waiting, j) <=> Contains(waiting', j) \/ j = at'
    BY <1>2, <2>1, MemberLess
  <2>3. index' = index
    BY DEF LoopEnds
  <2> QED
    BY <1>2, <2>2, <2>3 DEF Held
<1> QED
  BY <1>1, <1>2 DEF LoopEnds

(* What a step may add: a body, a panic.                                   *)
LEMMA Grows ==
  ASSUME Typed, Next
  PROVE  /\ UNCHANGED request
         /\ bodies' = bodies \/ \E w \in Writers : bodies' = Append(bodies, w)
         /\ panics' = panics \/ \E p \in 1 .. AppPosition : panics' = Append(panics, p)
<1> USE DEF Write, WriteJSON, Panic, Writers, Kinds
<1>0. at \in 1 .. AppPosition /\ AppPosition \in 1 .. AppPosition
  <2>1. stack \in Stacks /\ install \in {"handlers", "chain"} /\ at \in 1 .. Len(stack)
    BY DEF Typed, Control, Placed, Positions
  <2>2. Len(stack) \in 1 .. 6 /\ AppPosition = Len(stack) + 1
    BY <2>1, Bound
  <2> QED
    BY <2>1, <2>2
<1>1. CASE Gin
  BY <1>0, <1>1 DEF Gin, RunHandler, AppAnswers, AppPanics, LoopEnds, ToGinHandler
<1>2. CASE Handle
  <2>1. CASE RequestID \/ Recovery \/ Errors \/ Logging \/ RateLimitPasses
    BY <2>1 DEF RequestID, Recovery, Errors, Logging, RateLimitPasses
  <2>2. CASE RateLimitRefuses \/ CustomInChain \/ CustomRuns \/ CustomAborts
    BY <1>0, <2>2 DEF RateLimitRefuses, CustomInChain, CustomRuns, CustomAborts
  <2> QED
    BY <1>2, <2>1, <2>2 DEF Handle
<1>3. CASE Resume
  BY <1>3 DEF Resume, ReturnsErr, ErrorsReturns, LoggingReturns
<1>4. CASE LogRequest \/ Recover \/ Crash
  BY <1>4 DEF LogRequest, Recover, Crash
<1> QED
  BY <1>1, <1>2, <1>3, <1>4 DEF Next

(* Bodies, refusals and panics are never taken back.                       *)
LEMMA Monotone ==
  ASSUME Typed, Next
  PROVE  /\ \A v : Wrote(v) => Wrote(v)'
         /\ Stopped => Stopped'
         /\ EndedBeforeLogging => EndedBeforeLogging'
         /\ panics # <<>> => panics' # <<>>
<1>1. UNCHANGED request
  BY Grows
<1>2. ASSUME NEW v
      PROVE  Wrote(v) => Wrote(v)'
  <2>1. CASE bodies' = bodies
    BY <2>1 DEF Wrote
  <2>2. CASE \E w \in Writers : bodies' = Append(bodies, w)
    BY <2>2, Written DEF Wrote, Typed
  <2> QED
    BY <2>1, <2>2, Grows
<1>3. panics # <<>> => panics' # <<>>
  <2>1. panics \in Seq(1 .. AppPosition)
    BY DEF Typed, Logged
  <2>2. \A p \in 1 .. AppPosition : Append(panics, p) # <<>>
    BY <2>1
  <2> QED
    BY <2>2, Grows
<1>4. Before("custom", "logging")' <=> Before("custom", "logging")
  BY <1>1 DEF Before
<1>5. Before("rateLimit", "logging")' <=> Before("rateLimit", "logging")
  BY <1>1 DEF Before
<1>6. Stopped => Stopped'
  BY <1>1, <1>2 DEF Stopped
<1>7. EndedBeforeLogging => EndedBeforeLogging'
  BY <1>1, <1>2, <1>4, <1>5 DEF EndedBeforeLogging
<1> QED
  BY <1>2, <1>3, <1>6, <1>7

-----------------------------------------------------------------------------
(* Initially nothing has run.                                              *)
LEMMA OrderedInit ==
  ASSUME Init
  PROVE  Ordered
<1>1. /\ index = 1 /\ waiting = <<>> /\ at = 1 /\ pc = "loop" /\ err = "none" /\ bodies = <<>>
      /\ ctxID = "none" /\ logID = "none" /\ entry = NoEntry /\ audit = "none" /\ panics = <<>>
      /\ stack \in Stacks /\ install \in {"handlers", "chain"}
  BY DEF Init
<1>2. /\ Len(stack) \in 1 .. 6 /\ N \in 2 .. 7
  BY <1>1, Bound
<1>3. \A j \in Positions : j \in Nat /\ 1 <= j
  BY <1>2 DEF Positions
<1>4. Reached = 1
  BY <1>1, <1>2 DEF Reached
<1>5. Covered
  BY <1>1, <1>3, <1>4 DEF Covered
<1>6. Len(panics) = 0
  BY <1>1
<1>7. Unwound
  BY <1>1, <1>6 DEF Unwound
<1>8. \A l \in Positions : NotYet(l)
  BY <1>1, <1>2, <1>3 DEF NotYet
<1>9. Accounted
  BY <1>1, <1>8 DEF Accounted, Contains
<1>10. Skipped
  BY <1>1 DEF Skipped
<1>11. Sourced
  BY <1>1 DEF Sourced, NoEntry
<1>12. \A j : ~Held(j)
  BY <1>1 DEF Held, Contains
<1>13. Identified
  BY <1>1, <1>3, <1>12 DEF Identified, Passed
<1>14. Named /\ Handed
  BY <1>1 DEF Named, Handed
<1> QED
  BY <1>5, <1>7, <1>9, <1>10, <1>11, <1>13, <1>14 DEF Ordered

-----------------------------------------------------------------------------
(* Those who always call Next are waiting.                                 *)

(* What is calm, and in front of the application, has no answer yet.       *)
LEMMA Quiet ==
  ASSUME Typed, Answers, panics = <<>>, ~Stopped, ~(index > N)
  PROVE  bodies = <<>> /\ err = "none" /\ pc \notin {"unwind", "crashed", "resume", "done"}
  BY DEF Answers, Smooth, Indexed

(* Gin's loop leaves every passing Handle in front waiting.                *)
LEMMA CoveredGin ==
  ASSUME Typed, Answers, Covered, Gin
  PROVE  Covered'
<1> SUFFICES ASSUME panics' = <<>>, ~Stopped', index' <= N'
             PROVE  /\ pc' \in {"loop", "handle", "adapter"}
                    /\ pc' = "adapter" => install' = "handlers"
                    /\ \A j \in Positions' : stack'[j] \in Passing /\ j < Reached' => Contains(waiting', j)
  BY DEF Covered
<1>1. UNCHANGED request /\ panics = <<>> /\ ~Stopped
  BY Grows, Monotone DEF Next
<1>2. /\ Len(stack) \in 1 .. 6 /\ AppPosition = Len(stack) + 1 /\ AppPosition' = AppPosition
      /\ N \in 2 .. 7 /\ N' = N /\ AbortIndex = 63 /\ index \in Nat \ {0}
      /\ Positions = 1 .. Len(stack) /\ Positions' = Positions
      /\ stack' = stack /\ install' = install /\ install \in {"handlers", "chain"}
      /\ (install = "chain" => N = 2) /\ (install = "handlers" => N = Len(stack) + 1)
  BY <1>1, Here
<1>3. CASE RunHandler
  <2>1. /\ pc = "loop" /\ pc' = "handle" /\ index' = index /\ index < N /\ index <= N /\ waiting' = waiting
        /\ at' = IF install = "chain" THEN 1 ELSE index
    BY <1>2, <1>3 DEF RunHandler
  <2>2. Reached' = Reached
    BY <1>2, <2>1 DEF Reached
  <2> QED
    BY <1>1, <1>2, <2>1, <2>2 DEF Covered
<1>4. CASE AppAnswers
  <2>1. index' = N + 1
    BY <1>4 DEF AppAnswers
  <2> QED
    BY <1>2, <2>1
<1>5. CASE AppPanics
  <2>1. panics' = Append(panics, AppPosition)
    BY <1>5 DEF AppPanics, Panic
  <2>2. panics' # <<>>
    BY <2>1 DEF Typed, Logged
  <2> QED
    BY <2>2
<1>6. CASE LoopEnds
  <2>1. index' = index /\ index > N
    BY <1>6 DEF LoopEnds
  <2> QED
    BY <1>2, <2>1
<1>7. CASE ToGinHandler
  <2>1. pc = "adapter" /\ pc' = "loop" /\ waiting' = waiting
        /\ (index' = index + 1 \/ index' = AbortIndex + 1)
    BY <1>7 DEF ToGinHandler
  <2>2. index' = index + 1 /\ index <= N
    BY <1>2, <2>1
  <2>3. install = "handlers"
    BY <1>1, <2>1, <2>2 DEF Covered
  <2>4. Reached' = Reached
    BY <1>2, <2>1, <2>2, <2>3 DEF Reached
  <2> QED
    BY <1>1, <1>2, <2>1, <2>2, <2>4 DEF Covered
<1> QED
  BY <1>3, <1>4, <1>5, <1>6, <1>7 DEF Gin

(* A Handle that calls Next joins those in front that wait.                *)
LEMMA CoveredHandle ==
  ASSUME Typed, Answers, Covered, Handle
  PROVE  Covered'
<1> USE DEF Handles
<1> SUFFICES ASSUME panics' = <<>>, ~Stopped', index' <= N'
             PROVE  /\ pc' \in {"loop", "handle", "adapter"}
                    /\ pc' = "adapter" => install' = "handlers"
                    /\ \A j \in Positions' : stack'[j] \in Passing /\ j < Reached' => Contains(waiting', j)
  BY DEF Covered
<1>1. UNCHANGED request /\ panics = <<>> /\ ~Stopped
  BY Grows, Monotone DEF Next
<1>2. /\ Len(stack) \in 1 .. 6 /\ AppPosition = Len(stack) + 1 /\ AppPosition' = AppPosition
      /\ N \in 2 .. 7 /\ N' = N /\ AbortIndex = 63 /\ index \in Nat \ {0}
      /\ Positions = 1 .. Len(stack) /\ Positions' = Positions /\ at \in Positions
      /\ stack' = stack /\ install' = install /\ install \in {"handlers", "chain"}
      /\ waiting \in Seq(Positions)
  BY <1>1, Here
<1>3. pc = "handle"
  BY DEF Handle, RequestID, Recovery, Errors, Logging, RateLimitPasses, RateLimitRefuses,
         CustomInChain, CustomRuns, CustomAborts
<1>4. index <= N /\ Reached = at
  BY <1>1, <1>2, <1>3, Start DEF Reached
<1>5. \A j \in Positions : stack[j] \in Passing /\ j < at => Contains(waiting, j)
  BY <1>1, <1>4 DEF Covered
<1>6. CASE CallNext
  <2>1. /\ \A j : Contains(waiting', j) <=> Contains(waiting, j) \/ j = at
        /\ pc' \in {"handle", "loop"} /\ Reached' = at + 1
    BY <1>1, <1>3, <1>6, Called
  <2>2. \A j \in Positions : j < at + 1 => j < at \/ j = at
    BY <1>2
  <2> QED
    BY <1>2, <1>5, <2>1, <2>2
<1>7. CASE RateLimitRefuses
  <2>1. bodies' = Append(bodies, "rateLimit")
    BY <1>7 DEF RateLimitRefuses, WriteJSON, Write
  <2>2. Told /\ "rateLimit" \in Writers
    BY DEF Typed, Writers, Kinds
  <2>3. Stopped'
    BY <2>1, <2>2, Wrote4 DEF Stopped
  <2> QED
    BY <2>3
<1>8. CASE CustomInChain
  <2>1. Contains(stack, "custom")
    BY <1>2, <1>8 DEF CustomInChain, Contains
  <2>2. Stopped
    BY <1>8, <2>1 DEF CustomInChain, Stopped
  <2> QED
    BY <1>1, <2>2
<1>9. CASE CustomRuns /\ Return(waiting, "none")
  <2>1. pc' = "adapter" /\ index' = index /\ at' = at /\ waiting' = waiting /\ install = "handlers"
    BY <1>9 DEF CustomRuns, Return
  <2>2. at = index /\ stack[at] = "custom"
    BY <1>3, <1>9, <2>1 DEF Typed, Control, Nested, CustomRuns
  <2>3. Reached' = at + 1
    BY <2>1, <2>2 DEF Reached
  <2>4. \A j \in Positions : j < at + 1 /\ stack[j] \in Passing => j < at
    BY <1>2, <2>2 DEF Passing
  <2> QED
    BY <1>2, <1>5, <2>1, <2>3, <2>4
<1>10. CASE CustomRuns /\ Panic(at)
  <2>1. panics' # <<>>
    <3>1. panics' = Append(panics, at) /\ at \in 1 .. AppPosition
      BY <1>2, <1>10 DEF Panic
    <3>2. panics \in Seq(1 .. AppPosition)
      BY DEF Typed, Logged
    <3> QED
      BY <3>1, <3>2
  <2> QED
    BY <2>1
<1>11. CASE CustomAborts
  <2>1. index' = AbortIndex
    BY <1>11 DEF CustomAborts
  <2> QED
    BY <1>2, <2>1
<1> QED
  BY <1>6, <1>7, <1>8, <1>9, <1>10, <1>11
     DEF Handle, RequestID, Recovery, Errors, Logging, RateLimitPasses, CustomRuns

(* What follows an answer or a panic does not disturb Covered.             *)
LEMMA CoveredRest ==
  ASSUME Typed, Answers, Covered, Resume \/ LogRequest \/ Recover \/ Crash
  PROVE  Covered'
<1> SUFFICES ASSUME panics' = <<>>, ~Stopped', index' <= N'
             PROVE  Covered'
  BY DEF Covered
<1>1. UNCHANGED request /\ panics = <<>> /\ ~Stopped
  BY Grows, Monotone DEF Next
<1>2. N' = N /\ N \in Int /\ index \in Int /\ Positions' = Positions /\ AppPosition' = AppPosition
  BY <1>1, Here
<1>3. CASE LogRequest
  <2>1. UNCHANGED control
    BY <1>3 DEF LogRequest
  <2>2. Reached' = Reached
    BY <1>1, <1>2, <2>1 DEF Reached
  <2> QED
    BY <1>1, <1>2, <2>1, <2>2 DEF Covered
<1>4. CASE Resume \/ Recover \/ Crash
  <2>1. pc \in {"resume", "unwind"} /\ index' = index
    BY <1>4 DEF Resume, ReturnsErr, ErrorsReturns, LoggingReturns, Recover, Crash, Return, Resumes
  <2>2. ~(index > N)
    BY <1>2, <2>1
  <2> QED
    BY <1>1, <2>1, <2>2, Quiet
<1> QED
  BY <1>3, <1>4

-----------------------------------------------------------------------------
(* A first panic unwinds through the recoveries in front of it.            *)

(* A first panic meets every recovery in front of it that waits.           *)
LEMMA UnwoundStep ==
  ASSUME Typed, Answers, Covered, Unwound, Next
  PROVE  Unwound'
<1>1. UNCHANGED request
  BY Grows
<1>2. /\ Len(stack) \in 1 .. 6 /\ AppPosition = Len(stack) + 1
      /\ N \in 2 .. 7 /\ N' = N /\ index \in Nat \ {0}
      /\ Positions = 1 .. Len(stack) /\ at \in Positions
      /\ stack' = stack /\ install' = install /\ install \in {"handlers", "chain"}
      /\ waiting \in Seq(Positions)
      /\ (install = "handlers" => N = Len(stack) + 1)
  BY <1>1, Here
<1>3. CASE pc' \notin {"unwind", "crashed"}
  BY <1>3 DEF Unwound
<1>4. ASSUME NEW p \in 1 .. AppPosition, Panic(p), index <= N, pc \in {"loop", "handle"}, Reached = p
      PROVE  Unwound'
  <2>1. panics' = Append(panics, p) /\ pc' = "unwind" /\ waiting' = waiting
    BY <1>4 DEF Panic
  <2>2. /\ panics' # <<>> /\ (panics # <<>> => Len(panics') # 1)
        /\ (panics = <<>> => panics'[1] = p)
    BY <2>1 DEF Typed, Logged
  <2>3. ASSUME panics = <<>>, ~Stopped, NEW j \in 1 .. p - 1, stack[j] = "recovery"
        PROVE  Contains(waiting, j)
    <3>1. j \in Positions /\ j < p /\ stack[j] \in Passing
      BY <1>2, <2>3 DEF Passing, Kinds
    <3> QED
      BY <1>4, <2>3, <3>1 DEF Covered
  <2>4. ~Stopped' => ~Stopped
    BY Monotone
  <2> QED
    BY <1>2, <2>1, <2>2, <2>3, <2>4 DEF Unwound
<1>5. CASE AppPanics
  <2>1. pc = "loop" /\ index = N /\ Panic(AppPosition)
    BY <1>5 DEF AppPanics
  <2>2. AppPosition \in 1 .. AppPosition /\ index <= N
    BY <1>2, <2>1
  <2>3. Reached = AppPosition
    BY <1>2, <2>1 DEF Reached
  <2> QED
    BY <1>4, <2>1, <2>2, <2>3
<1>6. CASE CustomRuns /\ Panic(at)
  <2>1. pc = "handle" /\ Reached = at
    BY <1>6 DEF CustomRuns, Handles, Reached
  <2>2. at \in 1 .. AppPosition /\ index <= N
    BY <1>1, <1>2, <2>1, Start
  <2> QED
    BY <1>4, <1>6, <2>1, <2>2
<1>7. CASE Crash
  <2>1. /\ pc = "unwind" /\ pc' = "crashed" /\ panics' = panics /\ Stopped' = Stopped
        /\ \A i \in 1 .. Len(waiting) : stack[waiting[i]] # "recovery"
    BY <1>7 DEF Crash, Recovers, Stopped, Wrote
  <2>2. \A j : Contains(waiting, j) => stack[j] # "recovery"
    BY <2>1 DEF Contains
  <2> QED
    BY <1>2, <2>1, <2>2 DEF Unwound
<1>8. CASE LogRequest
  <2>1. pc' = pc /\ panics' = panics /\ Stopped' = Stopped /\ waiting' = waiting
    BY <1>8 DEF LogRequest, Stopped, Wrote
  <2> QED
    BY <1>2, <2>1 DEF Unwound
<1>9. CASE Gin /\ ~AppPanics
  <2>1. pc' \notin {"unwind", "crashed"}
    BY <1>9 DEF Gin, RunHandler, AppAnswers, LoopEnds, ToGinHandler
  <2> QED
    BY <1>3, <2>1
<1>10. CASE Handle /\ ~(CustomRuns /\ Panic(at))
  <2>1. pc' \notin {"unwind", "crashed"}
    BY <1>10 DEF Handle, RequestID, Recovery, Errors, Logging, RateLimitPasses, RateLimitRefuses,
                 CustomInChain, CustomRuns, CustomAborts, CallNext, Return
  <2> QED
    BY <1>3, <2>1
<1>11. CASE Resume \/ Recover
  <2>1. pc' \notin {"unwind", "crashed"}
    BY <1>11 DEF Resume, ReturnsErr, ErrorsReturns, LoggingReturns, Recover, Return
  <2> QED
    BY <1>3, <2>1
<1> QED
  BY <1>5, <1>6, <1>7, <1>8, <1>9, <1>10, <1>11 DEF Next

-----------------------------------------------------------------------------
(* The logging middleware comes back once.                                 *)

(* What the middleware at l was told, without its premises.                *)
Settled(l) ==
  \/ entry # NoEntry
  \/ Contains(waiting, l)
  \/ pc = "resume" /\ at = l
  \/ NotYet(l)

(* As Gin handlers, no middleware sees an error of a later one.            *)
LEMMA AccountedErr ==
  ASSUME Typed, Accounted, Next
  PROVE  install' = "handlers" => err' = "none"
<1>1. UNCHANGED request
  BY Grows
<1>2. install' = install /\ (install = "handlers" => err = "none")
  BY <1>1 DEF Accounted
<1>3. CASE Gin
  BY <1>2, <1>3 DEF Gin, RunHandler, AppAnswers, AppPanics, LoopEnds, ToGinHandler, Panic
<1>4. CASE Handle
  BY <1>2, <1>4 DEF Handle, RequestID, Recovery, Errors, Logging, RateLimitPasses, RateLimitRefuses,
                    CustomInChain, CustomRuns, CustomAborts, CallNext, Return, Panic
<1>5. CASE Resume \/ LogRequest \/ Recover \/ Crash
  BY <1>2, <1>5 DEF Resume, ReturnsErr, ErrorsReturns, LoggingReturns, LogRequest, Recover, Crash, Return
<1> QED
  BY <1>3, <1>4, <1>5 DEF Next

(* Gin's loop does not pass a logging middleware that is to come.          *)
LEMMA SettledGin ==
  ASSUME Typed, install = "handlers" => err = "none", Gin, panics' = <<>>,
         NEW l \in Positions, Settled(l)
  PROVE  Settled(l)'
<1>1. UNCHANGED request
  BY Grows DEF Next
<1>2. /\ Len(stack) \in 1 .. 6 /\ N \in 2 .. 7 /\ N' = N /\ AbortIndex = 63
      /\ index \in Nat \ {0} /\ Positions = 1 .. Len(stack) /\ l \in 1 .. Len(stack)
      /\ install' = install /\ install \in {"handlers", "chain"}
      /\ (install = "chain" => N = 2) /\ (install = "handlers" => N = Len(stack) + 1)
  BY <1>1, Here
<1>3. entry' = entry
  BY DEF Gin, RunHandler, AppAnswers, AppPanics, LoopEnds, ToGinHandler
<1>4. CASE RunHandler
  <2>1. /\ pc = "loop" /\ pc' = "handle" /\ index < N /\ waiting' = waiting
        /\ at' = IF install = "chain" THEN 1 ELSE index
    BY <1>4 DEF RunHandler
  <2>2. NotYet(l) => NotYet(l)'
    BY <1>2, <2>1 DEF NotYet
  <2> QED
    BY <1>3, <2>1, <2>2 DEF Settled
<1>5. CASE AppAnswers
  <2>1. pc = "loop" /\ pc' = "loop" /\ index = N /\ waiting' = waiting
    BY <1>5 DEF AppAnswers
  <2>2. ~NotYet(l)
    BY <1>2, <2>1 DEF NotYet
  <2> QED
    BY <1>3, <2>1, <2>2 DEF Settled
<1>6. CASE AppPanics
  <2>1. panics' = Append(panics, AppPosition)
    BY <1>6 DEF AppPanics, Panic
  <2> QED
    BY <2>1 DEF Typed, Logged
<1>7. CASE LoopEnds
  <2>1. pc = "loop" /\ index > N
    BY <1>7 DEF LoopEnds
  <2>2. ~NotYet(l)
    BY <1>2, <2>1 DEF NotYet
  <2>3. Contains(waiting, l) => Contains(waiting', l) \/ (pc' = "resume" /\ at' = l)
    BY <1>7, Ended
  <2> QED
    BY <1>3, <2>1, <2>2, <2>3 DEF Settled
<1>8. CASE ToGinHandler
  <2>1. /\ pc = "adapter" /\ pc' = "loop" /\ waiting' = waiting
        /\ index' = index + 1 \/ (err # "none" /\ index' = AbortIndex + 1)
    BY <1>8 DEF ToGinHandler
  <2>2. CASE index' = index + 1
    <3>1. NotYet(l) => NotYet(l)'
      BY <1>2, <2>1, <2>2 DEF NotYet
    <3> QED
      BY <1>3, <2>1, <3>1 DEF Settled
  <2>3. CASE err # "none" /\ index' = AbortIndex + 1 /\ install = "chain"
    <3>1. ~NotYet(l)
      BY <2>1, <2>3 DEF NotYet
    <3> QED
      BY <1>3, <2>1, <3>1 DEF Settled
  <2> QED
    BY <1>2, <2>1, <2>2, <2>3
<1> QED
  BY <1>4, <1>5, <1>6, <1>7, <1>8 DEF Gin

(* A Handle brings a logging middleware nearer, or is it.                  *)
LEMMA SettledHandle ==
  ASSUME Typed, Handle, panics' = <<>>, ~EndedBeforeLogging',
         NEW l \in Positions, stack[l] = "logging", Settled(l)
  PROVE  Settled(l)'
<1> USE DEF Handles
<1>1. UNCHANGED request /\ ~EndedBeforeLogging
  BY Grows, Monotone DEF Next
<1>2. /\ Len(stack) \in 1 .. 6 /\ N \in 2 .. 7 /\ N' = N /\ AbortIndex = 63
      /\ index \in Nat \ {0} /\ Positions = 1 .. Len(stack) /\ l \in 1 .. Len(stack)
      /\ at \in 1 .. Len(stack) /\ waiting \in Seq(Positions) /\ stack' = stack
      /\ install' = install /\ install \in {"handlers", "chain"}
      /\ (install = "chain" => N = 2) /\ (install = "handlers" => N = Len(stack) + 1)
  BY <1>1, Here
<1>3. pc = "handle" /\ entry' = entry
  BY DEF Handle, RequestID, Recovery, Errors, Logging, RateLimitPasses, RateLimitRefuses,
         CustomInChain, CustomRuns, CustomAborts
<1>4. NotYet(l) <=> at <= l
  BY <1>3 DEF NotYet
<1>5. entry # NoEntry \/ Contains(waiting, l) \/ at <= l
  BY <1>3, <1>4 DEF Settled
<1>6. CASE CallNext
  <2>1. /\ Contains(waiting', l) <=> Contains(waiting, l) \/ l = at
        /\ pc' \in {"handle", "loop"}
        /\ pc' = "handle" => install = "chain" /\ at' = at + 1 /\ index' = index
        /\ pc' = "loop" => index' = index + 1
        /\ pc' = "loop" /\ install = "chain" => index' = N /\ at = Len(stack)
        /\ install = "handlers" => at = index
    BY <1>1, <1>3, <1>6, Called
  <2>2. at < l => NotYet(l)'
    BY <1>2, <2>1 DEF NotYet
  <2> QED
    BY <1>2, <1>3, <1>5, <2>1, <2>2 DEF Settled
<1>7. ASSUME Return(waiting, err'), at < l => install = "handlers", stack[at] # "logging"
      PROVE  Settled(l)'
  <2>1. /\ index' = index /\ pc' \in {"resume", "adapter"}
        /\ install # "chain" => pc' = "adapter" /\ at' = at
        /\ Contains(waiting, l) => Contains(waiting', l) \/ (pc' = "resume" /\ at' = l)
    BY <1>2, <1>7, Returned
  <2>2. install = "handlers" => at = index
    BY <1>3 DEF Typed, Control, Nested
  <2>3. at < l => NotYet(l)'
    BY <1>2, <1>7, <2>1, <2>2 DEF NotYet
  <2>4. at # l
    BY <1>7
  <2> QED
    BY <1>2, <1>3, <1>5, <2>1, <2>3, <2>4 DEF Settled
<1>8. ASSUME NEW kind, stack[at] = kind, at < l
      PROVE  Before(kind, "logging")'
  BY <1>2, <1>8 DEF Before
<1>9. CASE RateLimitRefuses
  <2>1. stack[at] = "rateLimit" /\ Return(waiting, err') /\ bodies' = Append(bodies, "rateLimit")
    BY <1>9 DEF RateLimitRefuses, Return, WriteJSON, Write
  <2>2. Wrote("rateLimit")'
    <3>1. Told /\ "rateLimit" \in Writers
      BY DEF Typed, Writers, Kinds
    <3> QED
      BY <2>1, <3>1, Wrote4
  <2>3. at < l => install = "handlers"
    BY <1>2, <1>8, <2>1, <2>2 DEF EndedBeforeLogging
  <2> QED
    BY <1>7, <2>1, <2>3
<1>10. CASE CustomInChain
  <2>1. stack[at] = "custom" /\ install = "chain" /\ Return(waiting, err')
    BY <1>10 DEF CustomInChain, Return
  <2>2. ~(at < l)
    BY <1>2, <1>8, <2>1 DEF EndedBeforeLogging
  <2> QED
    BY <1>7, <2>1, <2>2
<1>11. CASE CustomRuns /\ Return(waiting, "none")
  <2>1. stack[at] = "custom" /\ install = "handlers" /\ Return(waiting, err')
    BY <1>11 DEF CustomRuns, Return
  <2> QED
    BY <1>7, <2>1
<1>12. CASE CustomRuns /\ Panic(at)
  <2>1. panics' = Append(panics, at) /\ at \in 1 .. AppPosition
    BY <1>2, <1>12 DEF Panic, AppPosition
  <2> QED
    BY <2>1 DEF Typed, Logged
<1>13. CASE CustomAborts
  <2>1. stack[at] = "custom" /\ waiting' = waiting /\ bodies' = Append(bodies, "custom")
    BY <1>13 DEF CustomAborts, Write
  <2>2. Wrote("custom")'
    <3>1. Told /\ "custom" \in Writers
      BY DEF Typed, Writers, Kinds
    <3> QED
      BY <2>1, <3>1, Written DEF Wrote
  <2>3. ~(at < l) /\ at # l
    BY <1>8, <2>1, <2>2 DEF EndedBeforeLogging
  <2> QED
    BY <1>2, <1>3, <1>5, <2>1, <2>3 DEF Settled
<1> QED
  BY <1>6, <1>9, <1>10, <1>11, <1>12, <1>13
     DEF Handle, RequestID, Recovery, Errors, Logging, RateLimitPasses, CustomRuns

(* A logging middleware that is back has made its entry.                   *)
LEMMA SettledRest ==
  ASSUME Typed, Unwound, Resume \/ LogRequest \/ Recover \/ Crash, panics' = <<>>, ~skip,
         NEW l \in Positions, stack[l] = "logging", Settled(l)
  PROVE  Settled(l)'
<1> USE DEF Resumes
<1>1. UNCHANGED request /\ panics = <<>>
  BY Grows, Monotone DEF Next
<1>2. waiting \in Seq(Positions) /\ N' = N
  BY <1>1, Here
<1>3. CASE LogRequest
  <2>1. UNCHANGED control /\ entry' = entry
    BY <1>3 DEF LogRequest
  <2> QED
    BY <1>1, <1>2, <2>1 DEF Settled, NotYet
<1>4. CASE Recover \/ Crash
  <2>1. pc = "unwind"
    BY <1>4 DEF Recover, Crash
  <2> QED
    BY <1>1, <2>1 DEF Unwound
<1>5. CASE Resume
  <2>1. pc = "resume" /\ Return(waiting, err')
    BY <1>5 DEF Resume, ReturnsErr, ErrorsReturns, LoggingReturns, Return
  <2>2. Contains(waiting, l) => Contains(waiting', l) \/ (pc' = "resume" /\ at' = l)
    BY <1>2, <2>1, Returned
  <2>3. ~NotYet(l)
    BY <2>1 DEF NotYet
  <2>4. CASE entry' = [id |-> logID, status |-> IF err = "none" THEN 200 ELSE 500,
                       answered |-> bodies # <<>>]
    <3>1. entry'.status \in {200, 500}
      BY <2>4
    <3>2. entry' # NoEntry
      BY <3>1 DEF NoEntry
    <3> QED
      BY <3>2 DEF Settled, NoEntry
  <2>5. CASE entry' = entry /\ stack[at] # "logging"
    BY <2>1, <2>2, <2>3, <2>5 DEF Settled, NoEntry
  <2> QED
    BY <1>5, <2>4, <2>5 DEF Resume, ReturnsErr, ErrorsReturns, LoggingReturns
<1> QED
  BY <1>3, <1>4, <1>5

(* Every step keeps track of every logging middleware.                     *)
LEMMA AccountedStep ==
  ASSUME Typed, Unwound, Accounted, Next
  PROVE  Accounted'
<1>1. UNCHANGED request
  BY Grows
<1>2. Positions' = Positions /\ stack' = stack /\ skip' = skip
  BY <1>1, Here
<1>3. pc' = "done" => waiting' = <<>>
  <2>1. CASE LoopEnds
    BY <2>1, Ended
  <2>2. CASE LogRequest
    BY <2>2 DEF LogRequest, Accounted
  <2>3. CASE ~LoopEnds /\ ~LogRequest
    <3>1. pc' # "done"
      BY <2>3 DEF Next, Gin, RunHandler, AppAnswers, AppPanics, ToGinHandler,
                Handle, RequestID, Recovery, Errors, Logging, RateLimitPasses, RateLimitRefuses,
                CustomInChain, CustomRuns, CustomAborts,
                Resume, ReturnsErr, ErrorsReturns, LoggingReturns, Recover, Crash,
                CallNext, Return, Panic
    <3> QED
      BY <3>1
  <2> QED
    BY <2>1, <2>2, <2>3
<1>4. ASSUME panics' = <<>>, ~EndedBeforeLogging', ~skip,
             NEW l \in Positions, stack[l] = "logging"
      PROVE  Settled(l)'
  <2>1. Settled(l)
    BY <1>4, Monotone DEF Accounted, Settled
  <2>2. install = "handlers" => err = "none"
    BY DEF Accounted
  <2> QED
    BY <1>4, <2>1, <2>2, SettledGin, SettledHandle, SettledRest DEF Next
<1> QED
  BY <1>2, <1>4, <1>3, AccountedErr DEF Accounted, Settled

-----------------------------------------------------------------------------
(* Where ids come from.                                                    *)

(* As Gin handlers, a Handle that has returned early was a limiter or a    *)
(* custom one.                                                             *)
LEMMA SkippedStep ==
  ASSUME Typed, Answers, Skipped, Next
  PROVE  Skipped'
<1>1. UNCHANGED request
  BY Grows
<1>2. /\ N \in 2 .. 7 /\ N' = N /\ AbortIndex = 63 /\ index \in Nat \ {0}
      /\ stack' = stack /\ install' = install
  BY <1>1, Here
<1> SUFFICES ASSUME install = "handlers"
             PROVE  Skipped'
  BY <1>2 DEF Skipped
<1>3. CASE Gin
  <2>1. CASE RunHandler \/ AppAnswers \/ ToGinHandler
    <3>1. pc' \in {"handle", "loop"}
      BY <2>1 DEF RunHandler, AppAnswers, ToGinHandler
    <3> QED
      BY <3>1 DEF Skipped
  <2>2. CASE AppPanics
    <3>1. pc' = "unwind" /\ index' = N
      BY <2>2 DEF AppPanics, Panic
    <3> QED
      BY <1>2, <3>1 DEF Skipped
  <2>3. CASE LoopEnds
    <3>1. pc' \in {"resume", "done"} /\ index' = index /\ index > N
      BY <2>3 DEF LoopEnds
    <3> QED
      BY <1>2, <3>1 DEF Skipped
  <2> QED
    BY <1>3, <2>1, <2>2, <2>3 DEF Gin
<1>4. CASE Handle
  <2>1. at = index /\ pc = "handle"
    BY <1>4 DEF Handle, RequestID, Recovery, Errors, Logging, RateLimitPasses, RateLimitRefuses,
                CustomInChain, CustomRuns, CustomAborts, Handles, Typed, Control, Nested
  <2>2. CASE CallNext
    <3>1. pc' \in {"handle", "loop"}
      BY <2>2 DEF CallNext
    <3> QED
      BY <3>1 DEF Skipped
  <2>3. CASE RateLimitRefuses \/ (CustomRuns /\ Return(waiting, "none")) \/ (CustomRuns /\ Panic(at))
    <3>1. /\ stack[at] \in {"rateLimit", "custom"} /\ index' = index
          /\ pc' \in {"adapter", "unwind"}
      BY <2>3 DEF RateLimitRefuses, CustomRuns, Handles, Return, Panic
    <3> QED
      BY <1>2, <2>1, <3>1 DEF Skipped
  <2>4. CASE CustomAborts
    <3>1. index' = AbortIndex /\ pc' = "adapter"
      BY <2>4 DEF CustomAborts
    <3> QED
      BY <1>2, <3>1 DEF Skipped
  <2> QED
    BY <1>4, <2>2, <2>3, <2>4
       DEF Handle, RequestID, Recovery, Errors, Logging, RateLimitPasses, CustomInChain, CustomRuns
<1>5. CASE Resume \/ Recover
  <2>1. /\ pc \in {"resume", "unwind"} /\ pc' = "adapter" /\ index' = index
    BY <1>5 DEF Resume, ReturnsErr, ErrorsReturns, LoggingReturns, Recover, Return, Resumes
  <2> QED
    BY <1>2, <2>1 DEF Skipped
<1>6. CASE LogRequest \/ Crash
  <2>1. (pc' = pc \/ pc' = "crashed") /\ index' = index
    BY <1>6 DEF LogRequest, Crash
  <2> QED
    BY <1>2, <2>1 DEF Skipped
<1> QED
  BY <1>3, <1>4, <1>5, <1>6 DEF Next

(* An id comes from the client, or was told to it.                         *)
LEMMA SourcedStep ==
  ASSUME Typed, Answers, Sourced, Next
  PROVE  Sourced'
<1>1. UNCHANGED request
  BY Grows
<1>2. hasID' = hasID /\ hasID \in BOOLEAN
  BY <1>1 DEF Typed, Logged
<1>3. /\ Stopped => Stopped'
      /\ panics # <<>> => panics' # <<>>
  BY Monotone
<1>4. CASE RequestID
  <2>1. /\ ctxID' = IF hasID THEN "client" ELSE "generated"
        /\ header' = (header \/ (~hasID /\ bodies = <<>>))
        /\ logID' = logID /\ entry' = entry /\ pc = "handle"
    BY <1>4 DEF RequestID, Handles
  <2>2. bodies = <<>> \/ Stopped \/ panics # <<>>
    BY <1>1, <2>1, Start, Quiet
  <2>3. header => header'
    BY <2>1
  <2>4. ~hasID => header' \/ Stopped' \/ panics' # <<>>
    BY <1>3, <2>1, <2>2
  <2>5. /\ ctxID' = "client" => hasID
        /\ ctxID' = "generated" => header' \/ Stopped' \/ panics' # <<>>
    BY <2>1, <2>4
  <2> QED
    BY <1>2, <1>3, <2>1, <2>3, <2>5 DEF Sourced
<1>5. CASE Next /\ ~RequestID
  <2>1. header' = header /\ ctxID' = ctxID
    BY <1>5 DEF Next, Gin, RunHandler, AppAnswers, AppPanics, LoopEnds, ToGinHandler,
                Handle, Recovery, Errors, Logging, RateLimitPasses, RateLimitRefuses,
                CustomInChain, CustomRuns, CustomAborts,
                Resume, ReturnsErr, ErrorsReturns, LoggingReturns, LogRequest, Recover, Crash
  <2>2. logID' \in {logID, ctxID}
    BY <1>5 DEF Next, Gin, RunHandler, AppAnswers, AppPanics, LoopEnds, ToGinHandler,
                Handle, Recovery, Errors, Logging, RateLimitPasses, RateLimitRefuses,
                CustomInChain, CustomRuns, CustomAborts,
                Resume, ReturnsErr, ErrorsReturns, LoggingReturns, LogRequest, Recover, Crash
  <2>3. entry'.id \in {entry.id, logID}
    <3>1. CASE LoggingReturns
      BY <3>1 DEF LoggingReturns
    <3>2. CASE ~LoggingReturns
      <4>1. entry' = entry
        BY <1>5, <3>2 DEF Next, Gin, RunHandler, AppAnswers, AppPanics, LoopEnds, ToGinHandler,
                Handle, Recovery, Errors, Logging, RateLimitPasses, RateLimitRefuses,
                CustomInChain, CustomRuns, CustomAborts,
                Resume, ReturnsErr, ErrorsReturns, LogRequest, Recover, Crash
      <4> QED
        BY <4>1
    <3> QED
      BY <3>1, <3>2
  <2> QED
    BY <1>2, <1>3, <2>1, <2>2, <2>3 DEF Sourced
<1> QED
  BY <1>4, <1>5

(* A requestID that was passed has put its id in the context.              *)
LEMMA PassedStep ==
  ASSUME Typed, Skipped, Next, NEW r \in Positions, stack[r] = "requestID",
         Passed(r) => ctxID # "none", Passed(r)'
  PROVE  ctxID' # "none"
<1>1. UNCHANGED request
  BY Grows
<1>2. /\ Len(stack) \in 1 .. 6 /\ N \in 2 .. 7 /\ N' = N /\ AbortIndex = 63
      /\ index \in Nat \ {0} /\ Positions = 1 .. Len(stack) /\ r \in 1 .. Len(stack)
      /\ at \in 1 .. Len(stack) /\ install' = install /\ install \in {"handlers", "chain"}
  BY <1>1, Here
<1>3. CASE Gin
  <2>1. ctxID' = ctxID
    BY <1>3 DEF Gin, RunHandler, AppAnswers, AppPanics, LoopEnds, ToGinHandler
  <2>2. CASE RunHandler
    <3>1. index' = index /\ at' = IF install = "chain" THEN 1 ELSE index
      BY <2>2 DEF RunHandler
    <3> QED
      BY <1>2, <2>1, <3>1 DEF Passed
  <2>3. CASE AppAnswers
    <3>1. index' = N + 1 /\ pc' = "loop"
      BY <2>3 DEF AppAnswers
    <3> QED
      BY <1>2, <3>1 DEF Passed
  <2>4. CASE AppPanics \/ LoopEnds
    <3>1. index' = index /\ pc' \in {"unwind", "resume", "done"}
      BY <2>4 DEF AppPanics, LoopEnds, Panic
    <3> QED
      BY <1>2, <2>1, <3>1 DEF Passed
  <2>5. CASE ToGinHandler
    <3>1. pc = "adapter" /\ pc' = "loop" /\ (index' = index + 1 \/ index' = AbortIndex + 1)
      BY <2>5 DEF ToGinHandler
    <3>2. install = "handlers" /\ index' = index + 1 /\ index < N /\ r < index + 1
      BY <1>2, <3>1 DEF Passed
    <3>3. r # index
      BY <3>1, <3>2 DEF Skipped
    <3> QED
      BY <1>2, <2>1, <3>2, <3>3 DEF Passed
  <2> QED
    BY <1>3, <2>2, <2>3, <2>4, <2>5 DEF Gin
<1>4. CASE RequestID
  BY <1>4 DEF RequestID
<1>5. CASE Handle /\ ~RequestID
  <2>1. ctxID' = ctxID /\ pc = "handle" /\ stack[at] # "requestID"
    BY <1>5 DEF Handle, Recovery, Errors, Logging, RateLimitPasses, RateLimitRefuses,
                CustomInChain, CustomRuns, CustomAborts, Handles
  <2>2. at # r /\ index <= N /\ (install = "handlers" => at = index)
    BY <1>1, <1>2, <2>1, Start DEF Typed, Control, Nested
  <2>3. r < at => ctxID # "none"
    BY <1>2, <2>1, <2>2 DEF Passed
  <2>4. CASE CallNext
    <3>1. /\ pc' \in {"handle", "loop"}
          /\ pc' = "handle" => install = "chain" /\ at' = at + 1
          /\ pc' = "loop" => index' = index + 1
      BY <1>1, <2>1, <2>4, Called
    <3>2. r < at + 1
      BY <1>2, <2>2, <3>1 DEF Passed
    <3> QED
      BY <1>2, <2>1, <2>2, <2>3, <3>2
  <2>5. CASE CustomAborts
    <3>1. index' = AbortIndex /\ install = "handlers"
      BY <2>5 DEF CustomAborts
    <3> QED
      BY <1>2, <3>1 DEF Passed
  <2>6. CASE pc' \in {"resume", "adapter", "unwind"} /\ index' = index
    BY <1>2, <2>1, <2>2, <2>3, <2>6 DEF Passed
  <2> QED
    BY <1>5, <2>4, <2>5, <2>6
       DEF Handle, Recovery, Errors, Logging, RateLimitPasses, RateLimitRefuses,
           CustomInChain, CustomRuns, Return, Panic
<1>6. CASE Resume \/ Recover \/ Crash
  <2>1. ctxID' = ctxID /\ index' = index /\ pc' \in {"resume", "adapter", "crashed"}
    BY <1>6 DEF Resume, ReturnsErr, ErrorsReturns, LoggingReturns, Recover, Crash, Return
  <2> QED
    BY <1>2, <2>1 DEF Passed
<1>7. CASE LogRequest
  <2>1. ctxID' = ctxID /\ index' = index /\ pc' = pc /\ at' = at
    BY <1>7 DEF LogRequest
  <2> QED
    BY <1>2, <2>1 DEF Passed
<1> QED
  BY <1>3, <1>4, <1>5, <1>6, <1>7 DEF Next

(* A logging middleware behind a requestID has taken its id.               *)
LEMMA HeldStep ==
  ASSUME Typed, Next, ~skip,
         NEW r \in Positions, NEW l \in Positions, stack[l] = "logging", r < l,
         Passed(r) => ctxID # "none", Held(l) => logID # "none", Held(l)'
  PROVE  logID' # "none"
<1>1. UNCHANGED request
  BY Grows
<1>2. /\ Len(stack) \in 1 .. 6 /\ N \in 2 .. 7 /\ Positions = 1 .. Len(stack)
      /\ r \in 1 .. Len(stack) /\ l \in 1 .. Len(stack) /\ at \in 1 .. Len(stack)
      /\ index \in Nat \ {0} /\ install \in {"handlers", "chain"} /\ waiting \in Seq(Positions)
  BY <1>1, Here
<1>3. CASE Gin
  <2>1. logID' = logID
    BY <1>3 DEF Gin, RunHandler, AppAnswers, AppPanics, LoopEnds, ToGinHandler
  <2>2. CASE LoopEnds
    BY <2>1, <2>2, Ended DEF Held
  <2>3. CASE ~LoopEnds
    <3>1. waiting' = waiting /\ pc' # "resume"
      BY <1>3, <2>3 DEF Gin, RunHandler, AppAnswers, AppPanics, ToGinHandler, Panic
    <3> QED
      BY <2>1, <3>1 DEF Held
  <2> QED
    BY <2>2, <2>3
<1>4. CASE Handle
  <2>1. pc = "handle"
    BY <1>4 DEF Handle, RequestID, Recovery, Errors, Logging, RateLimitPasses, RateLimitRefuses,
                CustomInChain, CustomRuns, CustomAborts, Handles
  <2>2. index <= N /\ (install = "handlers" => at = index) /\ Climbs(waiting, at)
    BY <1>1, <1>2, <2>1, Start DEF Typed, Control, Nested
  <2>3. r < at => ctxID # "none"
    BY <1>2, <2>1, <2>2 DEF Passed
  <2>4. Contains(waiting, l) => l < at /\ r < at
    <3>1. Contains(waiting, l) => l < at
      BY <2>2 DEF Contains, Climbs
    <3> QED
      BY <1>2, <3>1
  <2>5. CASE Logging
    <3>1. logID' = ctxID /\ CallNext
      BY <2>5 DEF Logging
    <3>2. Contains(waiting, l) \/ l = at
      BY <1>1, <2>1, <3>1, Called DEF Held
    <3> QED
      BY <1>2, <2>3, <2>4, <3>1, <3>2
  <2>6. CASE CallNext /\ ~Logging
    <3>1. logID' = logID /\ stack[at] # "logging"
      BY <1>4, <2>6 DEF Handle, RequestID, Recovery, Errors, RateLimitPasses, RateLimitRefuses,
                        CustomInChain, CustomRuns, CustomAborts, Handles
    <3>2. Contains(waiting, l) \/ l = at
      BY <1>1, <2>1, <2>6, Called DEF Held
    <3> QED
      BY <3>1, <3>2 DEF Held
  <2>7. CASE logID' = logID /\ \E e : Return(waiting, e)
    BY <1>2, <2>7, Returned DEF Held
  <2>8. CASE logID' = logID /\ waiting' = waiting /\ pc' # "resume"
    BY <2>8 DEF Held
  <2> QED
    BY <1>4, <2>5, <2>6, <2>7, <2>8
       DEF Handle, RequestID, Recovery, Errors, RateLimitPasses, RateLimitRefuses,
           CustomInChain, CustomRuns, CustomAborts, Panic
<1>5. CASE Resume
  <2>1. logID' = logID /\ \E e : Return(waiting, e)
    BY <1>5 DEF Resume, ReturnsErr, ErrorsReturns, LoggingReturns
  <2> QED
    BY <1>2, <2>1, Returned DEF Held
<1>6. CASE Recover
  <2>1. PICK i \in 1 .. Len(waiting) : Return(SubSeq(waiting, 1, i - 1), "none")
    BY <1>6 DEF Recover
  <2>2. SubSeq(waiting, 1, i - 1) \in Seq(Positions)
    BY Around DEF Typed
  <2>3. Contains(SubSeq(waiting, 1, i - 1), l)
    BY <2>1, <2>2, Returned
  <2>4. Contains(waiting, l)
    BY <1>2, <2>3, MemberPrefix
  <2>5. logID' = logID
    BY <1>6 DEF Recover
  <2> QED
    BY <2>4, <2>5 DEF Held
<1>7. CASE LogRequest \/ Crash
  <2>1. logID' = logID /\ waiting' = waiting /\ at' = at /\ (pc' = pc \/ pc' = "crashed")
    BY <1>7 DEF LogRequest, Crash
  <2> QED
    BY <2>1 DEF Held
<1> QED
  BY <1>3, <1>4, <1>5, <1>6, <1>7 DEF Next

(* Both facts about ids, at every pair of positions.                       *)
LEMMA IdentifiedStep ==
  ASSUME Typed, Skipped, Identified, Next
  PROVE  Identified'
<1>1. UNCHANGED request
  BY Grows
<1>2. Positions' = Positions /\ stack' = stack /\ skip' = skip
  BY <1>1, Here
<1>3. ASSUME NEW r \in Positions, stack[r] = "requestID", Passed(r)'
      PROVE  ctxID' # "none"
  BY <1>3, PassedStep DEF Identified
<1>4. ASSUME NEW r \in Positions, stack[r] = "requestID",
             NEW l \in Positions, stack[l] = "logging", r < l, Held(l)', ~skip
      PROVE  logID' # "none"
  BY <1>4, HeldStep DEF Identified
<1> QED
  BY <1>2, <1>3, <1>4 DEF Identified

(* So an entry made behind a requestID has an id.                          *)
LEMMA NamedStep ==
  ASSUME Typed, Identified, Named, Next
  PROVE  Named'
<1>1. UNCHANGED request
  BY Grows
<1>2. Before("requestID", "logging")' <=> Before("requestID", "logging")
  BY <1>1 DEF Before
<1>3. CASE LoggingReturns /\ ~skip
  <2>1. pc = "resume" /\ stack[at] = "logging" /\ entry'.id = logID
    BY <1>3 DEF LoggingReturns, Resumes
  <2>2. stack \in Stacks /\ at \in Positions /\ Positions = 1 .. Len(stack)
    BY DEF Typed, Control, Placed, Positions
  <2>3. IsInjective(stack) /\ stack \in Seq(Kinds)
    BY <2>2, StacksAssumption
  <2>4. DOMAIN stack = 1 .. Len(stack)
    BY <2>3
  <2>5. ASSUME NEW i \in Positions, NEW j \in Positions, i < j,
               stack[i] = "requestID", stack[j] = "logging"
        PROVE  logID # "none"
    <3>1. j = at
      BY <2>1, <2>2, <2>3, <2>4, <2>5 DEF IsInjective
    <3> QED
      BY <1>3, <2>1, <2>2, <2>5, <3>1 DEF Identified, Held
  <2> QED
    BY <1>2, <2>1, <2>2, <2>5 DEF Named, Before
<1>4. CASE ~(LoggingReturns /\ ~skip)
  <2>1. entry' = entry
    BY <1>4 DEF Next, Gin, RunHandler, AppAnswers, AppPanics, LoopEnds, ToGinHandler,
                Handle, RequestID, Recovery, Errors, Logging, RateLimitPasses, RateLimitRefuses,
                CustomInChain, CustomRuns, CustomAborts,
                Resume, ReturnsErr, ErrorsReturns, LoggingReturns, LogRequest, Recover, Crash
  <2> QED
    BY <1>2, <2>1 DEF Named
<1> QED
  BY <1>3, <1>4

(* And it goes to the audit logger in the step that makes it.              *)
LEMMA HandedStep ==
  ASSUME Typed, Handed, Next
  PROVE  Handed'
<1>1. auditor' = auditor
  BY Grows DEF request
<1>2. CASE LoggingReturns
  <2>1. \/ entry' = entry /\ audit' = audit
        \/ auditor # "nil" => audit' # "none"
    BY <1>2 DEF LoggingReturns
  <2> QED
    BY <1>1, <2>1 DEF Handed
<1>3. CASE LogRequest
  <2>1. entry' = entry /\ audit # "none" /\ audit' # "none"
    BY <1>3 DEF LogRequest
  <2> QED
    BY <1>1, <2>1 DEF Handed
<1>4. CASE ~LoggingReturns /\ ~LogRequest
  <2>1. entry' = entry /\ audit' = audit
    BY <1>4 DEF Next, Gin, RunHandler, AppAnswers, AppPanics, LoopEnds, ToGinHandler,
                Handle, RequestID, Recovery, Errors, Logging, RateLimitPasses, RateLimitRefuses,
                CustomInChain, CustomRuns, CustomAborts,
                Resume, ReturnsErr, ErrorsReturns, Recover, Crash, logs
  <2> QED
    BY <1>1, <2>1 DEF Handed
<1> QED
  BY <1>2, <1>3, <1>4

-----------------------------------------------------------------------------
(* The theorems.                                                           *)

OInv == Inv /\ Ordered

(* Every step keeps the invariant of the order.                            *)
LEMMA OInvStep ==
  ASSUME OInv, [Next]_vars
  PROVE  OInv'
<1> USE DEF OInv, Inv, Ordered
<1>1. Inv'
  BY InvStep
<1>2. CASE Next
  <2>1. Covered'
    BY <1>2, CoveredGin, CoveredHandle, CoveredRest DEF Next
  <2> QED
    BY <1>1, <1>2, <2>1, UnwoundStep, AccountedStep, SkippedStep, SourcedStep, IdentifiedStep, NamedStep,
       HandedStep
<1>3. CASE UNCHANGED vars
  <2>1. UNCHANGED request /\ UNCHANGED control /\ bodies' = bodies /\ header' = header
        /\ ctxID' = ctxID /\ UNCHANGED logs /\ panics' = panics
    BY <1>3 DEF vars
  <2>2. /\ N' = N /\ Positions' = Positions /\ AppPosition' = AppPosition
    BY <2>1, Here
  <2>3. Stopped' = Stopped /\ EndedBeforeLogging' = EndedBeforeLogging
        /\ Before("requestID", "logging")' = Before("requestID", "logging")
    BY <2>1 DEF Stopped, EndedBeforeLogging, Wrote, Before
  <2>4. Covered'
    BY <2>1, <2>2, <2>3 DEF Covered, Reached
  <2>5. Unwound'
    BY <2>1, <2>2, <2>3 DEF Unwound
  <2>6. Accounted'
    BY <2>1, <2>2, <2>3 DEF Accounted, NotYet
  <2>7. Skipped' /\ Sourced'
    BY <2>1, <2>2, <2>3 DEF Skipped, Sourced
  <2>8. Identified' /\ Named' /\ Handed'
    BY <2>1, <2>2, <2>3 DEF Identified, Passed, Held, Named, Handed
  <2> QED
    BY <1>1, <2>4, <2>5, <2>6, <2>7, <2>8
<1> QED
  BY <1>2, <1>3

(* The invariant of the order of Handles, answers, panics and entries      *)
(* holds in every reachable state, for any stack and both installs         *)
(* (builder.go:200, gin_adapter.go:107).                                   *)
THEOREM OInvHolds == Spec => []OInv
<1>1. Init => OInv
  BY TypedInit, AnswersInit, OrderedInit DEF OInv, Inv
<1>2. OInv /\ [Next]_vars => OInv'
  BY OInvStep
<1> QED
  BY <1>1, <1>2, PTL DEF Spec

(* In any stack, the first panic of a request that nothing stopped drops   *)
(* the connection only if no recovery stands in front of the handler that  *)
(* panicked (error_handler.go:262).                                        *)
THEOREM RecoveriesRecover == Spec => []PanicsAreRecovered
<1>1. OInv => PanicsAreRecovered
  BY DEF OInv, Ordered, Unwound, PanicsAreRecovered
<1> QED
  BY <1>1, OInvHolds, PTL

(* In any stack, a request that reaches the logging middleware and ends    *)
(* without a panic leaves its record, which goes to the audit logger if    *)
(* there is one, and no record says success before an answer was written   *)
(* (logging.go:114-173).                                                   *)
THEOREM EntriesFollowAnswers == Spec => []AuditedAfterAnswer
<1>1. OInv => AuditedAfterAnswer
  <2> SUFFICES ASSUME OInv
               PROVE  AuditedAfterAnswer
    OBVIOUS
  <2>1. entry # NoEntry => entry.answered \/ entry.status = 500
    BY DEF OInv, Inv, Answers, Recorded
  <2>2. ASSUME pc = "done", ~skip, panics = <<>>, Contains(stack, "logging"), ~EndedBeforeLogging
        PROVE  entry # NoEntry /\ (auditor # "nil" => audit # "none")
    <3>1. PICK l \in Positions : stack[l] = "logging"
      BY <2>2 DEF Contains, Positions
    <3>2. ~NotYet(l)
      BY <2>2 DEF NotYet
    <3>3. ~Contains(waiting, l)
      BY <2>2 DEF OInv, Ordered, Accounted, Contains
    <3> QED
      BY <2>2, <3>1, <3>2, <3>3 DEF OInv, Ordered, Accounted, Handed
  <2> QED
    BY <2>1, <2>2 DEF AuditedAfterAnswer
<1> QED
  BY <1>1, OInvHolds, PTL

(* In any stack, the record that ends a request in the log names, behind   *)
(* requestID, an id the client can quote (request_id.go:57-66).            *)
THEOREM IdsAreKnown == Spec => []IdIsKnown
<1>1. OInv => IdIsKnown
  BY DEF OInv, Ordered, Sourced, Named, IdIsKnown
<1> QED
  BY <1>1, OInvHolds, PTL
=============================================================================
