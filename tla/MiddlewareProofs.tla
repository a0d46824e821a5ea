-------------------------- MODULE MiddlewareProofs --------------------------
(***************************************************************************)
(* Theorems of module Middleware, for any stack a builder may be asked for *)
(* and both installs.  The Handles that wait in Next climb the stack, which *)
(* types the state and bounds Gin's index.  The answers follow from little *)
(* more: a Handle that has not called Next runs only while the index is in *)
(* front of the application, the application and an abort move the index   *)
(* behind it, and an error travels outwards until someone answers it.      *)
(***************************************************************************)
EXTENDS Middleware, FiniteSetTheorems, SequenceTheorems, TLAPS

USE DEF request, reply, control, logs

Places == {"loop", "handle", "resume", "adapter", "unwind", "done", "crashed"}
Positions == 1 .. Len(stack)
Errs == {"none", "incompatible"}

(* The positions of w climb and stay below top.                            *)
Climbs(w, top) ==
  /\ \A i, j \in 1 .. Len(w) : i < j => w[i] < w[j]
  /\ \A i \in 1 .. Len(w) : w[i] < top

Placed ==
  /\ install \in {"handlers", "chain"} /\ stack \in Stacks
  /\ index \in Nat \ {0} /\ link \in 2 .. AppPosition
  /\ waiting \in Seq(Positions) /\ at \in Positions
  /\ pc \in Places /\ err \in Errs

(* Whoever counts the Handles, the chain or Gin, is ahead of those in Next. *)
Top == IF install = "chain" THEN link ELSE index

Nested ==
  /\ Climbs(waiting, Top)
  /\ pc = "handle" => /\ Climbs(waiting, at)
                      /\ IF install = "chain" THEN link = at + 1 ELSE at = index
  /\ install = "chain" /\ pc = "loop" /\ index < N => link = 2 /\ waiting = <<>>

(* Only in front of the application a Handle starts; behind it the index    *)
(* moves once for each Handle that returns.                                *)
Bounded ==
  /\ pc = "handle" => index < N
  /\ \/ index <= N
     \/ index + Len(waiting) + (IF pc \in {"loop", "done"} THEN 0 ELSE 1)
          <= AbortIndex + AppPosition

Control == Placed /\ Nested /\ Bounded

Told ==
  /\ bodies \in Seq(Writers)
  /\ sent \in {0, 200, 403, 500} /\ (sent = 0 <=> bodies = <<>>)

Logged ==
  /\ skip \in BOOLEAN /\ hasID \in BOOLEAN /\ auditor \in Auditors
  /\ header \in BOOLEAN /\ ctxID \in IDs /\ logID \in IDs
  /\ entry \in [id : IDs, status : {0, 200, 500}, answered : BOOLEAN]
  /\ audit \in {"none", "pending", "stored", "skipped", "lost"}
  /\ panics \in Seq(1 .. AppPosition)

Typed == Control /\ Told /\ Logged

-----------------------------------------------------------------------------
(* A stack has at most as many middlewares as there are kinds, so that     *)
(* Abort moves the index behind the last handler.                          *)
LEMMA StackIsShort ==
  ASSUME NEW s \in Stacks
  PROVE  s \in Seq(Kinds) /\ Len(s) \in 1 .. 6
<1>1. s \in Seq(Kinds) /\ s # <<>> /\ IsInjective(s)
  BY StacksAssumption
<1>2. IsFiniteSet(Kinds) /\ Cardinality(Kinds) <= 6
  <2> DEFINE F == {"requestID", "recovery", "errors", "logging", "rateLimit"}
             E == {"requestID", "recovery", "errors", "logging"}
             D == {"requestID", "recovery", "errors"}
             C == {"requestID", "recovery"}
             B == {"requestID"}
  <2>0. IsFiniteSet({}) /\ Cardinality({}) = 0
    BY FS_EmptySet
  <2>1. B = {} \cup {"requestID"} /\ C = B \cup {"recovery"} /\ D = C \cup {"errors"}
        /\ E = D \cup {"logging"} /\ F = E \cup {"rateLimit"} /\ Kinds = F \cup {"custom"}
    BY DEF Kinds
  <2> HIDE DEF B, C, D, E, F
  <2>2. IsFiniteSet(B) /\ Cardinality(B) \in 0 .. 1
    BY <2>0, <2>1, FS_AddElement
  <2>3. IsFiniteSet(C) /\ Cardinality(C) \in 0 .. 2
    BY <2>1, <2>2, FS_AddElement
  <2>4. IsFiniteSet(D) /\ Cardinality(D) \in 0 .. 3
    BY <2>1, <2>3, FS_AddElement
  <2>5. IsFiniteSet(E) /\ Cardinality(E) \in 0 .. 4
    BY <2>1, <2>4, FS_AddElement
  <2>6. IsFiniteSet(F) /\ Cardinality(F) \in 0 .. 5
    BY <2>1, <2>5, FS_AddElement
  <2> QED
    BY <2>1, <2>6, FS_AddElement
<1>3. s \in Injection(1 .. Len(s), Kinds)
  BY <1>1 DEF Injection, IsInjective
<1>4. Cardinality(1 .. Len(s)) <= Cardinality(Kinds)
  BY <1>2, <1>3, FS_Injection
<1>5. Len(s) \in Nat /\ Len(s) # 0
  BY <1>1
<1>6. Cardinality(1 .. Len(s)) = Len(s)
  BY <1>5, FS_Interval
<1>7. Cardinality(Kinds) \in Nat
  BY <1>2, FS_CardinalityType
<1>8. Len(s) <= 6
  BY <1>2, <1>4, <1>5, <1>6, <1>7
<1>9. Len(s) \in 1 .. 6
  <2>1. PICK n \in Nat : n = Len(s)
    BY <1>5
  <2>2. n # 0 /\ n <= 6
    BY <1>5, <1>8, <2>1
  <2>3. n \in 1 .. 6
    BY <2>2
  <2> QED
    BY <2>1, <2>3
<1> QED
  BY <1>1, <1>9

(* How long a stack, and Gin's list, can be.                               *)
LEMMA Bound ==
  ASSUME stack \in Stacks, install \in {"handlers", "chain"}
  PROVE  /\ Len(stack) \in 1 .. 6
         /\ AppPosition = Len(stack) + 1
         /\ N = (IF install = "chain" THEN 2 ELSE Len(stack) + 1)
         /\ N \in 2 .. 7 /\ N <= AppPosition /\ AbortIndex = 63
<1>1. Len(stack) \in 1 .. 6
  BY StackIsShort
<1>2. /\ AppPosition = Len(stack) + 1 /\ AbortIndex = 63
      /\ N = (IF install = "chain" THEN 2 ELSE Len(stack) + 1)
  BY DEF N, AppPosition, AbortIndex
<1>3. N \in 2 .. 7 /\ N <= AppPosition
  <2>1. CASE install = "chain"
    BY <1>1, <1>2, <2>1
  <2>2. CASE install # "chain"
    <3>1. N = Len(stack) + 1 /\ N = AppPosition
      BY <1>2, <2>2
    <3>2. PICK k \in 1 .. 6 : k = Len(stack)
      BY <1>1
    <3>3. k + 1 \in 2 .. 7
      OBVIOUS
    <3> QED
      BY <3>1, <3>2, <3>3
  <2> QED
    BY <2>1, <2>2
<1> QED
  BY <1>1, <1>2, <1>3

(* Climbing sequences: one more on top, a prefix, and their length.        *)
LEMMA ClimbOn ==
  ASSUME NEW n \in Nat, NEW w \in Seq(1 .. n), NEW p \in 1 .. n, NEW top \in Int,
         Climbs(w, p), p < top
  PROVE  Append(w, p) \in Seq(1 .. n) /\ Climbs(Append(w, p), top)
<1>1. /\ Append(w, p) \in Seq(1 .. n) /\ Len(Append(w, p)) = Len(w) + 1
      /\ \A i \in 1 .. Len(w) : Append(w, p)[i] = w[i] /\ w[i] \in 1 .. n
      /\ Append(w, p)[Len(w) + 1] = p /\ Len(w) \in Nat
  OBVIOUS
<1>2. \A i \in 1 .. Len(w) : Append(w, p)[i] < p
  BY <1>1 DEF Climbs
<1>3. \A i, j \in 1 .. Len(w) + 1 : i < j => Append(w, p)[i] < Append(w, p)[j]
  <2> TAKE i, j \in 1 .. Len(w) + 1
  <2> HAVE i < j
  <2>1. i \in 1 .. Len(w)
    BY <1>1
  <2>2. CASE j = Len(w) + 1
    BY <2>1, <2>2, <1>1, <1>2
  <2>3. CASE j \in 1 .. Len(w)
    BY <2>1, <2>3, <1>1 DEF Climbs
  <2> QED
    BY <2>2, <2>3, <1>1
<1>4. \A i \in 1 .. Len(w) + 1 : Append(w, p)[i] < top
  <2> TAKE i \in 1 .. Len(w) + 1
  <2>1. CASE i = Len(w) + 1
    BY <2>1, <1>1
  <2>2. CASE i \in 1 .. Len(w)
    BY <2>2, <1>1, <1>2
  <2> QED
    BY <2>1, <2>2, <1>1
<1> QED
  BY <1>1, <1>3, <1>4 DEF Climbs

(* A prefix of positions that climb climbs.                                *)
LEMMA ClimbLess ==
  ASSUME NEW n \in Nat, NEW w \in Seq(1 .. n), NEW k \in 0 .. Len(w), NEW top \in Int,
         Climbs(w, top)
  PROVE  /\ SubSeq(w, 1, k) \in Seq(1 .. n) /\ Len(SubSeq(w, 1, k)) = k
         /\ Climbs(SubSeq(w, 1, k), top)
<1>1. Len(w) \in Nat /\ k \in Nat /\ \A i \in 1 .. k : w[i] \in 1 .. n
  OBVIOUS
<1>2. /\ SubSeq(w, 1, k) \in Seq(1 .. n) /\ Len(SubSeq(w, 1, k)) = k
      /\ \A i \in 1 .. k : SubSeq(w, 1, k)[i] = w[i]
  BY <1>1, SubSeqProperties
<1>3. \A i \in 1 .. k : i \in 1 .. Len(w)
  BY <1>1
<1>4. PICK u : u = SubSeq(w, 1, k)
  OBVIOUS
<1>5. Climbs(u, top)
  BY <1>2, <1>3, <1>4 DEF Climbs
<1> QED
  BY <1>2, <1>4, <1>5

(* Positions that climb stay below a higher top.                           *)
LEMMA ClimbHigher ==
  ASSUME NEW n \in Nat, NEW w \in Seq(1 .. n), NEW top \in Int, NEW more \in Int,
         Climbs(w, top), top <= more \/ n < more
  PROVE  Climbs(w, more)
<1>1. \A i \in 1 .. Len(w) : w[i] < more
  <2> TAKE i \in 1 .. Len(w)
  <2>1. w[i] \in 1 .. n /\ w[i] < top
    BY DEF Climbs
  <2> QED
    BY <2>1
<1> QED
  BY <1>1 DEF Climbs

(* No more positions can climb than there are.                             *)
LEMMA ClimbEnds ==
  ASSUME NEW n \in Nat, NEW w \in Seq(1 .. n), NEW top, Climbs(w, top)
  PROVE  Len(w) <= n
<1>1. Len(w) \in Nat /\ \A i \in 1 .. Len(w) : w[i] \in 1 .. n
  OBVIOUS
<1>2. \A i, j \in 1 .. Len(w) : w[i] = w[j] => i = j
  <2> TAKE i, j \in 1 .. Len(w)
  <2>1. i < j => w[i] < w[j]
    BY DEF Climbs
  <2>2. j < i => w[j] < w[i]
    BY DEF Climbs
  <2> QED
    BY <2>1, <2>2, <1>1
<1>3. w \in Injection(1 .. Len(w), 1 .. n)
  BY <1>1, <1>2 DEF Injection, IsInjective
<1>4. IsFiniteSet(1 .. n) /\ Cardinality(1 .. n) = n
  <2>1. 1 \in Int /\ n \in Int
    OBVIOUS
  <2>2. Cardinality(1 .. n) = IF 1 > n THEN 0 ELSE n - 1 + 1
    BY <2>1, FS_Interval
  <2> QED
    BY <2>1, <2>2, FS_Interval
<1>5. Cardinality(1 .. Len(w)) = Len(w)
  <2>0. 1 \in Int /\ Len(w) \in Int
    BY <1>1
  <2>1. Cardinality(1 .. Len(w)) = IF 1 > Len(w) THEN 0 ELSE Len(w) - 1 + 1
    BY <2>0, FS_Interval
  <2> QED
    BY <2>1, <1>1
<1> QED
  BY <1>1, <1>3, <1>4, <1>5, FS_Injection

(* Handles that wait still climb when the last one is back.                *)
LEMMA Popped ==
  ASSUME NEW n \in Nat, NEW w \in Seq(1 .. n), w # <<>>, NEW top \in Int, Climbs(w, top)
  PROVE  /\ Last(w) \in 1 .. n /\ Front(w) \in Seq(1 .. n)
         /\ Len(Front(w)) = Len(w) - 1 /\ Climbs(Front(w), top)
<1>1. Len(w) \in Nat \ {0}
  OBVIOUS
<1>2. Front(w) = SubSeq(w, 1, Len(w) - 1) /\ Last(w) = w[Len(w)]
  BY DEF Front, Last
<1> DEFINE k == Len(w) - 1
<1>3. k \in 0 .. Len(w)
  BY <1>1
<1>4. /\ SubSeq(w, 1, k) \in Seq(1 .. n) /\ Len(SubSeq(w, 1, k)) = k
      /\ Climbs(SubSeq(w, 1, k), top)
  <2> HIDE DEF k
  <2> QED
    BY <1>3, ClimbLess
<1>5. w[Len(w)] \in 1 .. n
  BY <1>1
<1> QED
  BY <1>2, <1>3, <1>4, <1>5

-----------------------------------------------------------------------------
(* The moves of the control, one lemma for each.                           *)

(* What they share: the request is what it was, and so are its bounds.     *)
LEMMA Same ==
  ASSUME Control, UNCHANGED request
  PROVE  /\ Len(stack) \in 1 .. 6 /\ Len(stack) \in Nat /\ AppPosition = Len(stack) + 1
         /\ N \in 2 .. 7 /\ N <= AppPosition /\ AbortIndex = 63
         /\ stack' = stack /\ install' = install /\ AppPosition' = AppPosition
         /\ N' = N /\ AbortIndex' = AbortIndex /\ Positions' = Positions
         /\ (install = "chain" => N = 2) /\ (install # "chain" => N = Len(stack) + 1)
         /\ Len(waiting) \in Nat /\ Len(waiting) <= Len(stack)
<1>1. stack \in Stacks /\ install \in {"handlers", "chain"}
  BY DEF Control, Placed
<1>2. /\ Len(stack) \in 1 .. 6 /\ AppPosition = Len(stack) + 1
      /\ N = (IF install = "chain" THEN 2 ELSE Len(stack) + 1)
      /\ N \in 2 .. 7 /\ N <= AppPosition /\ AbortIndex = 63
  BY <1>1, Bound
<1>3. Len(stack) \in Nat
  BY <1>2
<1>4. waiting \in Seq(1 .. Len(stack)) /\ Climbs(waiting, Top)
  BY DEF Control, Placed, Nested, Positions
<1>5. Len(waiting) <= Len(stack)
  BY <1>3, <1>4, ClimbEnds
<1>6. Len(waiting) \in Nat
  BY <1>4
<1>7. stack' = stack /\ install' = install
  OBVIOUS
<1>8. AppPosition' = AppPosition /\ N' = N /\ AbortIndex' = AbortIndex /\ Positions' = Positions
  BY <1>7 DEF AppPosition, N, AbortIndex, Positions
<1> QED
  BY <1>2, <1>3, <1>5, <1>6, <1>7, <1>8

(* Control speaks of nothing else.                                         *)
LEMMA ControlKept ==
  ASSUME Control, UNCHANGED request, UNCHANGED control
  PROVE  Control'
  BY DEF Control, Placed, Nested, Bounded, Top, Climbs, Positions, N, AppPosition, AbortIndex

(* A call of Next: in a chain, of the next Handle, or of the rest of Gin's *)
(* list.                                                                   *)
LEMMA ControlAhead ==
  ASSUME Control, pc = "handle", CallNext, UNCHANGED request
  PROVE  Control'
<1> DEFINE n == Len(stack)
<1>1. /\ n \in 1 .. 6 /\ n \in Nat /\ AppPosition = n + 1
      /\ N \in 2 .. 7 /\ N <= AppPosition
      /\ stack' = stack /\ install' = install /\ AppPosition' = AppPosition
      /\ N' = N /\ Positions' = Positions
  BY Same
<1>2. /\ waiting \in Seq(1 .. n) /\ at \in 1 .. n /\ Positions = 1 .. n
      /\ index \in Nat \ {0} /\ link \in 2 .. n + 1 /\ link \in Int /\ index < N
      /\ stack \in Stacks /\ install \in {"handlers", "chain"} /\ err \in Errs
  BY <1>1 DEF Control, Placed, Bounded, Positions
<1>3. Climbs(waiting, at) /\ IF install = "chain" THEN link = at + 1 ELSE at = index
  BY DEF Control, Nested
<1>4. waiting' = Append(waiting, at) /\ err' = err
  BY DEF CallNext
<1>5. \A top \in Int : at < top => waiting' \in Seq(1 .. n) /\ Climbs(waiting', top)
  <2> HIDE DEF n
  <2> QED
    BY <1>1, <1>2, <1>3, <1>4, ClimbOn
<1> HIDE DEF n
<1>6. CASE install = "chain" /\ link <= Len(stack)
  <2>1. pc' = "handle" /\ at' = link /\ link' = link + 1 /\ index' = index
    BY <1>6 DEF CallNext
  <2>2. at < link /\ link + 1 \in Int /\ at < link + 1 /\ link \in 1 .. n /\ link + 1 \in 2 .. n + 1
    BY <1>1, <1>2, <1>3, <1>6 DEF n
  <2>3. Placed'
    BY <1>1, <1>2, <1>4, <1>5, <2>1, <2>2 DEF Placed, Places
  <2>4. Top' = link + 1
    BY <1>1, <1>6, <2>1 DEF Top
  <2>5. Climbs(waiting', Top') /\ Climbs(waiting', at')
    BY <1>2, <1>5, <2>1, <2>2, <2>4
  <2>6. Nested'
    BY <1>1, <1>6, <2>1, <2>2, <2>5 DEF Nested, Climbs
  <2>7. Bounded'
    BY <1>1, <1>2, <2>1 DEF Bounded
  <2> QED
    BY <2>3, <2>6, <2>7 DEF Control
<1>7. CASE ~(install = "chain" /\ link <= Len(stack))
  <2>1. pc' = "loop" /\ at' = at /\ link' = link /\ index' = index + 1
    BY <1>7 DEF CallNext
  <2>2. index + 1 \in Nat \ {0} /\ index + 1 <= N /\ index + 1 \in Int /\ at < (IF install = "chain" THEN link ELSE index + 1)
    BY <1>1, <1>2, <1>3
  <2>3. Top' = (IF install = "chain" THEN link ELSE index + 1) /\ Top' \in Int
    BY <1>1, <1>2, <2>1, <2>2 DEF Top
  <2>4. waiting' \in Seq(1 .. n) /\ Climbs(waiting', Top')
    BY <1>5, <2>2, <2>3
  <2>5. Placed'
    BY <1>1, <1>2, <1>4, <2>1, <2>2, <2>4 DEF Placed, Places
  <2>6. install = "chain" => ~(index + 1 < N)
    BY <1>2, Same
  <2>7. Nested'
    BY <1>1, <2>1, <2>4, <2>6 DEF Nested, Climbs
  <2>8. Bounded'
    BY <1>1, <2>1, <2>2 DEF Bounded
  <2> QED
    BY <2>5, <2>7, <2>8 DEF Control
<1> QED
  BY <1>6, <1>7

(* A Handle that returns hands on to one of those that wait.               *)
LEMMA ControlBack ==
  ASSUME Control, pc # "loop", pc # "done", UNCHANGED request,
         NEW w, w \in Seq(Positions), Climbs(w, Top), Len(w) <= Len(waiting),
         NEW e \in Errs, Return(w, e)
  PROVE  Control'
<1> DEFINE n == Len(stack)
<1>1. /\ n \in 1 .. 6 /\ n \in Nat /\ AppPosition = n + 1
      /\ N \in 2 .. 7 /\ N <= AppPosition /\ AbortIndex = 63
      /\ stack' = stack /\ install' = install /\ AppPosition' = AppPosition
      /\ N' = N /\ Positions' = Positions /\ AbortIndex' = AbortIndex
      /\ Len(waiting) \in Nat
  BY Same
<1>2. /\ at \in 1 .. n /\ Positions = 1 .. n /\ w \in Seq(1 .. n)
      /\ index \in Nat \ {0} /\ link \in 2 .. n + 1 /\ Top \in Int
      /\ stack \in Stacks /\ install \in {"handlers", "chain"}
  BY <1>1 DEF Control, Placed, Positions, Top
<1>3. err' = e /\ index' = index /\ link' = link /\ Top' = Top
  BY <1>1 DEF Return, Top
<1>4. /\ pc' \in {"resume", "adapter"} /\ at' \in 1 .. n /\ waiting' \in Seq(1 .. n)
      /\ Climbs(waiting', Top) /\ Len(waiting') <= Len(waiting) /\ Len(waiting') \in Nat
  <2> HIDE DEF n
  <2>1. CASE install = "chain" /\ w # <<>>
    <3>1. pc' = "resume" /\ at' = Last(w) /\ waiting' = Front(w)
      BY <2>1 DEF Return
    <3>2. Last(w) \in 1 .. n /\ Front(w) \in Seq(1 .. n) /\ Len(Front(w)) = Len(w) - 1 /\ Climbs(Front(w), Top)
      BY <1>1, <1>2, <2>1, Popped
    <3>3. Len(Front(w)) \in Nat /\ Len(w) \in Nat
      BY <1>2, <3>2
    <3> QED
      BY <1>1, <3>1, <3>2, <3>3
  <2>2. CASE ~(install = "chain" /\ w # <<>>)
    <3>1. pc' = "adapter" /\ at' = at /\ waiting' = w
      BY <2>2 DEF Return
    <3> QED
      BY <1>2, <3>1
  <2> QED
    BY <2>1, <2>2
<1> HIDE DEF n
<1>5. Placed'
  BY <1>1, <1>2, <1>3, <1>4 DEF Placed, Places
<1>6. Nested'
  BY <1>1, <1>3, <1>4 DEF Nested, Climbs
<1>7. index <= N \/ index + Len(waiting) + 1 <= AbortIndex + AppPosition
  BY DEF Control, Bounded
<1>8. Bounded'
  BY <1>1, <1>2, <1>3, <1>4, <1>7 DEF Bounded
<1> QED
  BY <1>5, <1>6, <1>8 DEF Control

(* A request that is over, or unwinds, stays where it is.                  *)
LEMMA ControlHalts ==
  ASSUME Control, UNCHANGED request, UNCHANGED <<index, link, waiting, at, err>>,
         pc' \in {"unwind", "done", "crashed"},
         pc \notin {"loop", "done"} \/ pc' = "done" \/ index <= N
  PROVE  Control'
<1>1. /\ stack' = stack /\ install' = install /\ AppPosition' = AppPosition
      /\ N' = N /\ Positions' = Positions /\ AbortIndex' = AbortIndex
      /\ N \in 2 .. 7 /\ AppPosition = Len(stack) + 1 /\ Len(stack) \in Nat
      /\ AbortIndex = 63 /\ Len(waiting) \in Nat
  BY Same
<1>2. Placed'
  BY <1>1 DEF Control, Placed, Places
<1>3. Nested'
  BY <1>1 DEF Control, Nested, Top, Climbs
<1>4. index \in Nat
  BY DEF Control, Placed
<1>5. Bounded'
  BY <1>1, <1>4 DEF Control, Bounded
<1> QED
  BY <1>2, <1>3, <1>5 DEF Control

(* Gin's loop calls the next handler.                                      *)
LEMMA ControlRuns ==
  ASSUME Control, UNCHANGED request, UNCHANGED <<index, link, waiting, err>>,
         pc = "loop", index < N, pc' = "handle", at' = IF install = "chain" THEN 1 ELSE index
  PROVE  Control'
<1>1. /\ stack' = stack /\ install' = install /\ AppPosition' = AppPosition
      /\ N' = N /\ Positions' = Positions
      /\ N \in 2 .. 7 /\ Len(stack) \in 1 .. 6 /\ Positions = 1 .. Len(stack)
      /\ (install = "chain" => N = 2) /\ (install # "chain" => N = Len(stack) + 1)
  BY Same DEF Positions
<1>2. index \in Nat \ {0} /\ Top' = Top
  BY <1>1 DEF Control, Placed, Top
<1>3. at' \in Positions
  <2>1. CASE install = "chain"
    BY <1>1, <2>1
  <2>2. CASE install # "chain"
    BY <1>1, <1>2, <2>2
  <2> QED
    BY <2>1, <2>2
<1>4. Placed'
  BY <1>1, <1>3 DEF Control, Placed, Places
<1>5. Nested'
  <2>1. CASE install = "chain"
    <3>1. link = 2 /\ waiting = <<>> /\ at' = 1
      BY <2>1 DEF Control, Nested
    <3> QED
      BY <1>1, <1>2, <2>1, <3>1 DEF Control, Nested, Climbs
  <2>2. CASE install # "chain"
    BY <1>1, <1>2, <2>2 DEF Control, Nested, Climbs, Top
  <2> QED
    BY <2>1, <2>2
<1>6. Bounded'
  BY <1>1, <1>2 DEF Control, Bounded
<1> QED
  BY <1>4, <1>5, <1>6 DEF Control

(* The index moves up, and nothing else but pc and err.                    *)
LEMMA ControlUp ==
  ASSUME Control, UNCHANGED request, UNCHANGED <<link, waiting, at>>,
         err' \in Errs, index' \in Nat, index < index' \/ N < index',
         pc' \in {"loop", "adapter"}, install = "chain" => index' >= N,
         index' <= N \/ index' + Len(waiting) + (IF pc' = "loop" THEN 0 ELSE 1)
                           <= AbortIndex + AppPosition
  PROVE  Control'
<1> DEFINE n == Len(stack)
<1>1. /\ n \in 1 .. 6 /\ n \in Nat /\ AppPosition = n + 1 /\ AppPosition' = AppPosition
      /\ stack' = stack /\ install' = install
      /\ N \in 2 .. 7 /\ N' = N /\ Positions' = Positions /\ AbortIndex' = AbortIndex
      /\ (install # "chain" => N = n + 1)
  BY Same
<1>2. /\ waiting \in Seq(1 .. n) /\ Positions = 1 .. n
      /\ index \in Nat \ {0} /\ Top \in Int
      /\ Climbs(waiting, Top)
  BY <1>1 DEF Control, Placed, Nested, Positions, Top
<1>3. Placed'
  <2>1. index' # 0
    BY <1>1, <1>2
  <2> QED
    BY <1>1, <2>1 DEF Control, Placed, Places
<1>4. Climbs(waiting, Top')
  <2>1. CASE install = "chain"
    BY <1>1, <1>2, <2>1 DEF Top
  <2>2. CASE install # "chain"
    <3>1. Top = index /\ Top' = index'
      BY <1>1, <2>2 DEF Top
    <3>2. (index <= index' \/ n < index') /\ index' \in Int
      BY <1>1, <1>2, <2>2
    <3> QED
      BY <1>1, <1>2, <3>1, <3>2, ClimbHigher
  <2> QED
    BY <2>1, <2>2
<1>5. Nested'
  <2>1. ~(install = "chain" /\ index' < N)
    BY <1>1
  <2> QED
    BY <1>1, <1>4, <2>1 DEF Nested, Climbs
<1>6. Bounded'
  BY <1>1 DEF Bounded
<1> QED
  BY <1>3, <1>5, <1>6 DEF Control

(* Gin's list is at its end, and the last Handle that waits is back.       *)
LEMMA ControlEnds ==
  ASSUME Control, UNCHANGED request, UNCHANGED <<index, link>>,
         pc = "loop", index > N, waiting # <<>>,
         pc' = "resume", at' = Last(waiting), waiting' = Front(waiting), err' = "none"
  PROVE  Control'
<1> DEFINE n == Len(stack)
<1>1. /\ n \in 1 .. 6 /\ n \in Nat /\ AppPosition = n + 1 /\ AppPosition' = AppPosition
      /\ stack' = stack /\ install' = install /\ Len(waiting) \in Nat /\ AbortIndex = 63
      /\ N \in 2 .. 7 /\ N' = N /\ Positions' = Positions /\ AbortIndex' = AbortIndex
  BY Same
<1>2. /\ waiting \in Seq(1 .. n) /\ Positions = 1 .. n
      /\ index \in Nat \ {0} /\ Top \in Int /\ Climbs(waiting, Top) /\ Top' = Top
  BY <1>1 DEF Control, Placed, Nested, Positions, Top
<1>3. /\ at' \in 1 .. n /\ waiting' \in Seq(1 .. n)
      /\ Len(waiting') = Len(waiting) - 1 /\ Climbs(waiting', Top)
  <2> HIDE DEF n
  <2> QED
    BY <1>1, <1>2, Popped
<1>4. Placed'
  BY <1>1, <1>2, <1>3 DEF Control, Placed, Places, Errs
<1>5. Nested'
  BY <1>1, <1>2, <1>3 DEF Nested, Climbs
<1>6. index + Len(waiting) <= AbortIndex + AppPosition
  BY <1>1, <1>2 DEF Control, Bounded
<1>7. Bounded'
  BY <1>1, <1>2, <1>3, <1>6 DEF Bounded
<1> QED
  BY <1>4, <1>5, <1>7 DEF Control

-----------------------------------------------------------------------------
(* Every action keeps the types.                                           *)

(* A body that is written fixes the status, once.                          *)
LEMMA ToldMore ==
  ASSUME Told, NEW who \in Writers, NEW status \in {200, 403, 500}, Write(who, status)
  PROVE  Told'
<1>1. bodies' = Append(bodies, who) /\ sent' = IF bodies = <<>> THEN status ELSE sent
  BY DEF Write
<1>2. bodies' \in Seq(Writers) /\ bodies' # <<>>
  BY <1>1 DEF Told
<1>3. sent' \in {0, 200, 403, 500} /\ sent' # 0
  BY <1>1 DEF Told
<1> QED
  BY <1>2, <1>3 DEF Told

(* JSON writes a body.                                                     *)
LEMMA ToldJSON ==
  ASSUME Told, NEW who \in Writers, WriteJSON(who)
  PROVE  Told'
  BY ToldMore DEF WriteJSON

(* Told speaks of the response only.                                       *)
LEMMA ToldSame ==
  ASSUME Told, UNCHANGED reply
  PROVE  Told'
  BY DEF Told

(* Logged speaks of what is recorded, and a panic adds to it.              *)
LEMMA LoggedSame ==
  ASSUME Control, Logged, UNCHANGED request, UNCHANGED <<header, ctxID, logs>>,
         panics' = panics \/ \E p \in 1 .. AppPosition : panics' = Append(panics, p)
  PROVE  Logged'
<1>1. AppPosition' = AppPosition
  BY Same
<1>2. panics \in Seq(1 .. AppPosition)
  BY DEF Logged
<1>3. panics' \in Seq(1 .. AppPosition)
  <2> DEFINE S == 1 .. AppPosition
  <2>1. panics \in Seq(S) /\ (panics' = panics \/ \E p \in S : panics' = Append(panics, p))
    BY <1>2
  <2> HIDE DEF S
  <2>2. panics' \in Seq(S)
    BY <2>1
  <2> QED
    BY <2>2 DEF S
<1> QED
  BY <1>1, <1>3 DEF Logged

(* A request begins with its types.                                        *)
LEMMA TypedInit ==
  ASSUME Init
  PROVE  Typed
<1>1. stack \in Stacks /\ install \in {"handlers", "chain"}
  BY DEF Init
<1>2. /\ Len(stack) \in 1 .. 6 /\ AppPosition = Len(stack) + 1
      /\ N \in 2 .. 7
  BY <1>1, Bound
<1>3. Placed
  <2>1. waiting \in Seq(Positions)
    BY DEF Init
  <2>2. link \in 2 .. AppPosition /\ index \in Nat \ {0} /\ at \in Positions
    <3>1. PICK k \in 1 .. 6 : k = Len(stack)
      BY <1>2
    <3>2. 2 \in 2 .. k + 1 /\ 1 \in 1 .. k
      OBVIOUS
    <3> QED
      BY <1>2, <3>1, <3>2 DEF Init, Positions
  <2>3. pc \in Places /\ err \in Errs
    BY DEF Init, Places, Errs
  <2> QED
    BY <1>1, <2>1, <2>2, <2>3 DEF Placed
<1>4. Len(waiting) = 0 /\ waiting = <<>> /\ pc = "loop" /\ link = 2 /\ index = 1
  BY DEF Init
<1>5. Nested
  BY <1>4 DEF Nested, Climbs
<1>6. Bounded
  BY <1>2, <1>4 DEF Bounded
<1>7. Told
  BY DEF Init, Told
<1>8. Logged
  <2>1. panics \in Seq(1 .. AppPosition)
    BY DEF Init
  <2>2. entry \in [id : IDs, status : {0, 200, 500}, answered : BOOLEAN]
    BY DEF Init, NoEntry, IDs
  <2>3. ctxID \in IDs /\ logID \in IDs
    BY DEF Init, IDs
  <2> QED
    BY <2>1, <2>2, <2>3 DEF Init, Logged
<1> QED
  BY <1>3, <1>5, <1>6, <1>7, <1>8 DEF Typed, Control

(* Gin's steps keep the types.                                             *)
LEMMA TypedGin ==
  ASSUME Typed, Gin
  PROVE  Typed'
<1> USE DEF Typed
<1>0. /\ N \in 2 .. 7 /\ N <= AppPosition /\ AbortIndex = 63 /\ AppPosition = Len(stack) + 1
      /\ Len(stack) \in 1 .. 6
      /\ Len(waiting) \in Nat /\ Len(waiting) <= Len(stack) /\ index \in Nat \ {0}
      /\ AppPosition \in 1 .. AppPosition
  <2>1. stack \in Stacks /\ install \in {"handlers", "chain"} /\ index \in Nat \ {0}
    BY DEF Control, Placed
  <2>2. waiting \in Seq(1 .. Len(stack)) /\ Climbs(waiting, Top)
    BY DEF Control, Placed, Nested, Positions
  <2>3. /\ N \in 2 .. 7 /\ N <= AppPosition /\ AbortIndex = 63 /\ AppPosition = Len(stack) + 1
        /\ Len(stack) \in 1 .. 6
    BY <2>1, Bound
  <2>4. Len(stack) \in Nat
    BY <2>3
  <2>5. Len(waiting) <= Len(stack)
    BY <2>2, <2>4, ClimbEnds
  <2>6. Len(waiting) \in Nat
    BY <2>2
  <2> QED
    BY <2>1, <2>3, <2>5, <2>6
<1>1. CASE RunHandler
  <2>1. Control'
    BY <1>1, ControlRuns DEF RunHandler
  <2>2. Told' /\ Logged'
    BY <1>1, ToldSame, LoggedSame DEF RunHandler
  <2> QED
    BY <2>1, <2>2
<1>2. CASE AppAnswers
  <2>1. index' = N + 1 /\ index = N /\ pc' = "loop" /\ err' \in Errs /\ UNCHANGED <<link, waiting, at>>
        /\ UNCHANGED request
    BY <1>2 DEF AppAnswers, Control, Placed
  <2>2. index' \in Nat /\ index < index' /\ index' >= N /\ index' + Len(waiting) + 0 <= AbortIndex + AppPosition
    BY <1>0, <2>1
  <2>3. Control'
    BY <2>1, <2>2, ControlUp
  <2>4. Told'
    BY <1>2, ToldMore DEF AppAnswers, Writers
  <2>5. Logged'
    BY <1>2, LoggedSame DEF AppAnswers
  <2> QED
    BY <2>3, <2>4, <2>5
<1>3. CASE AppPanics
  <2>1. Control'
    <3>1. index <= N
      BY <1>0, <1>3 DEF AppPanics
    <3> QED
      BY <1>3, <3>1, ControlHalts DEF AppPanics, Panic
  <2>2. Told'
    <3>1. CASE Write("app", 200)
      BY <3>1, ToldMore DEF Writers
    <3>2. CASE UNCHANGED reply
      BY <3>2, ToldSame
    <3> QED
      BY <1>3, <3>1, <3>2 DEF AppPanics
  <2>3. Logged'
    BY <1>0, <1>3, LoggedSame DEF AppPanics, Panic
  <2> QED
    BY <2>1, <2>2, <2>3
<1>4. CASE LoopEnds
  <2>1. Control'
    <3>1. CASE waiting = <<>> /\ pc' = "done" /\ UNCHANGED <<waiting, at, err>>
      BY <1>4, <3>1, ControlHalts DEF LoopEnds
    <3>2. CASE waiting # <<>> /\ pc' = "resume" /\ at' = Last(waiting) /\ waiting' = Front(waiting)
               /\ err' = "none"
      BY <1>4, <3>2, ControlEnds DEF LoopEnds
    <3> QED
      BY <1>4, <3>1, <3>2 DEF LoopEnds
  <2>2. Told' /\ Logged'
    BY <1>4, ToldSame, LoggedSame DEF LoopEnds
  <2> QED
    BY <2>1, <2>2
<1>5. CASE ToGinHandler
  <2>1. /\ pc' = "loop" /\ err' \in Errs /\ UNCHANGED <<link, waiting, at>> /\ UNCHANGED request
        /\ pc = "adapter"
    BY <1>5 DEF ToGinHandler, Errs
  <2>2. index <= N \/ index + Len(waiting) + 1 <= AbortIndex + AppPosition
    BY <2>1 DEF Control, Bounded
  <2>3. CASE err = "none" /\ index' = index + 1 /\ UNCHANGED reply
    <3>1. index' \in Nat /\ index < index'
      BY <1>0, <2>3
    <3>2. index' <= N \/ index' + Len(waiting) + 0 <= AbortIndex + AppPosition
      BY <1>0, <2>2, <2>3
    <3>3. install = "chain" => index' >= N
      BY <1>0, <2>3 DEF N
    <3>4. Control'
      BY <2>1, <3>1, <3>2, <3>3, ControlUp
    <3> QED
      BY <1>5, <2>3, <3>4, ToldSame, LoggedSame DEF ToGinHandler
  <2>4. CASE index' = AbortIndex + 1 /\ Write("adapter", 500)
    <3>1. index' \in Nat /\ N < index' /\ index' >= N
          /\ index' + Len(waiting) + 0 <= AbortIndex + AppPosition
      BY <1>0, <2>4
    <3>2. Control'
      BY <2>1, <3>1, ControlUp
    <3>3. Told'
      BY <2>4, ToldMore DEF Writers
    <3> QED
      BY <1>5, <3>2, <3>3, LoggedSame DEF ToGinHandler
  <2> QED
    BY <1>5, <2>3, <2>4 DEF ToGinHandler
<1> QED
  BY <1>1, <1>2, <1>3, <1>4, <1>5 DEF Gin

(* A Handle up to its Next keeps the types.                                *)
LEMMA TypedHandle ==
  ASSUME Typed, Handle
  PROVE  Typed'
<1> USE DEF Typed, Handles
<1>0. /\ N \in 2 .. 7 /\ AbortIndex = 63 /\ AppPosition = Len(stack) + 1
      /\ Len(stack) \in 1 .. 6 /\ at \in 1 .. Len(stack) /\ at \in 1 .. AppPosition
      /\ Len(waiting) \in Nat /\ Len(waiting) <= Len(stack)
      /\ waiting \in Seq(Positions) /\ Climbs(waiting, Top)
  <2>1. stack \in Stacks /\ install \in {"handlers", "chain"}
    BY DEF Control, Placed
  <2>2. waiting \in Seq(1 .. Len(stack)) /\ Climbs(waiting, Top) /\ at \in 1 .. Len(stack)
    BY DEF Control, Placed, Nested, Positions
  <2>3. /\ N \in 2 .. 7 /\ AbortIndex = 63 /\ AppPosition = Len(stack) + 1
        /\ Len(stack) \in 1 .. 6
    BY <2>1, Bound
  <2>4. Len(stack) \in Nat
    BY <2>3
  <2>5. Len(waiting) <= Len(stack)
    BY <2>2, <2>4, ClimbEnds
  <2>6. Len(waiting) \in Nat
    BY <2>2
  <2>7. at \in 1 .. AppPosition
    BY <2>2, <2>3
  <2> QED
    BY <2>2, <2>3, <2>5, <2>6, <2>7 DEF Positions
<1>1. CASE RequestID
  <2>1. Control' /\ Told'
    BY <1>1, ControlAhead, ToldSame DEF RequestID
  <2>2. ctxID' \in IDs /\ header' \in BOOLEAN
    BY <1>1 DEF RequestID, IDs, Logged
  <2>3. AppPosition' = AppPosition
    BY <1>1, Same DEF RequestID
  <2>4. Logged'
    BY <1>1, <2>2, <2>3 DEF RequestID, Logged
  <2> QED
    BY <2>1, <2>4
<1>2. CASE Recovery
  BY <1>2, ControlAhead, ToldSame, LoggedSame DEF Recovery
<1>3. CASE Errors
  BY <1>3, ControlAhead, ToldSame, LoggedSame DEF Errors
<1>4. CASE Logging
  <2>1. Control' /\ Told'
    BY <1>4, ControlAhead, ToldSame DEF Logging
  <2>2. logID' \in IDs
    BY <1>4 DEF Logging, Logged
  <2>3. AppPosition' = AppPosition
    BY <1>4, Same DEF Logging
  <2>4. Logged'
    BY <1>4, <2>2, <2>3 DEF Logging, Logged
  <2> QED
    BY <2>1, <2>4
<1>5. CASE RateLimitPasses
  BY <1>5, ControlAhead, ToldSame, LoggedSame DEF RateLimitPasses
<1>6. CASE RateLimitRefuses
  <2>1. Control'
    <3>1. "none" \in Errs /\ Len(waiting) <= Len(waiting)
      BY <1>0 DEF Errs
    <3> QED
      BY <1>0, <1>6, <3>1, ControlBack DEF RateLimitRefuses
  <2>2. Told'
    BY <1>6, ToldJSON DEF RateLimitRefuses, Writers, Kinds
  <2>3. Logged'
    BY <1>6, LoggedSame DEF RateLimitRefuses
  <2> QED
    BY <2>1, <2>2, <2>3
<1>7. CASE CustomInChain
  <2>1. Control'
    <3>1. "incompatible" \in Errs /\ Len(waiting) <= Len(waiting)
      BY <1>0 DEF Errs
    <3> QED
      BY <1>0, <1>7, <3>1, ControlBack DEF CustomInChain
  <2>2. Told' /\ Logged'
    BY <1>7, ToldSame, LoggedSame DEF CustomInChain
  <2> QED
    BY <2>1, <2>2
<1>8. CASE CustomRuns
  <2>1. Told'
    BY <1>8, ToldSame DEF CustomRuns
  <2>2. CASE Return(waiting, "none") /\ UNCHANGED panics
    <3>1. "none" \in Errs /\ Len(waiting) <= Len(waiting)
      BY <1>0 DEF Errs
    <3>2. Control'
      BY <1>0, <1>8, <2>2, <3>1, ControlBack DEF CustomRuns
    <3>3. Logged'
      BY <1>8, <2>2, LoggedSame DEF CustomRuns
    <3> QED
      BY <2>1, <3>2, <3>3
  <2>3. CASE CallNext /\ UNCHANGED panics
    BY <1>8, <2>1, <2>3, ControlAhead, LoggedSame DEF CustomRuns
  <2>4. CASE Panic(at)
    <3>1. Control'
      BY <1>8, <2>4, ControlHalts DEF CustomRuns, Panic
    <3>2. Logged'
      BY <1>0, <1>8, <2>4, LoggedSame DEF CustomRuns, Panic
    <3> QED
      BY <2>1, <3>1, <3>2
  <2> QED
    BY <1>8, <2>2, <2>3, <2>4 DEF CustomRuns
<1>9. CASE CustomAborts
  <2>1. /\ index' = AbortIndex /\ pc' = "adapter" /\ err' \in Errs
        /\ UNCHANGED <<link, waiting, at>> /\ UNCHANGED request
    BY <1>9 DEF CustomAborts, Errs
  <2>2. index' \in Nat /\ N < index' /\ index' >= N
        /\ index' + Len(waiting) + 1 <= AbortIndex + AppPosition
    BY <1>0, <2>1
  <2>3. Control'
    BY <2>1, <2>2, ControlUp
  <2>4. Told'
    BY <1>9, ToldMore DEF CustomAborts, Writers, Kinds
  <2>5. Logged'
    BY <1>9, LoggedSame DEF CustomAborts
  <2> QED
    BY <2>3, <2>4, <2>5
<1> QED
  BY <1>1, <1>2, <1>3, <1>4, <1>5, <1>6, <1>7, <1>8, <1>9 DEF Handle

(* The prefix of the Handles in Next that stays when one of them recovers. *)
LEMMA Around ==
  ASSUME Control
  PROVE  /\ waiting \in Seq(Positions) /\ Climbs(waiting, Top) /\ Len(waiting) <= Len(waiting)
         /\ \A i \in 1 .. Len(waiting) :
              /\ SubSeq(waiting, 1, i - 1) \in Seq(Positions)
              /\ Climbs(SubSeq(waiting, 1, i - 1), Top)
              /\ Len(SubSeq(waiting, 1, i - 1)) <= Len(waiting)
<1>1. waiting \in Seq(1 .. Len(stack)) /\ Climbs(waiting, Top) /\ stack \in Stacks
  BY DEF Control, Placed, Nested, Positions
<1>2. Len(stack) \in Nat
  <2>1. Len(stack) \in 1 .. 6
    BY <1>1, StackIsShort
  <2> QED
    BY <2>1
<1>3. Top \in Int
  BY DEF Control, Placed, Top
<1>4. Len(waiting) \in Nat
  BY <1>1
<1>5. \A k \in 0 .. Len(waiting) :
         /\ SubSeq(waiting, 1, k) \in Seq(1 .. Len(stack))
         /\ Climbs(SubSeq(waiting, 1, k), Top)
         /\ Len(SubSeq(waiting, 1, k)) = k
  BY <1>1, <1>2, <1>3, ClimbLess
<1>6. ASSUME NEW i \in 1 .. Len(waiting)
      PROVE  /\ SubSeq(waiting, 1, i - 1) \in Seq(Positions)
             /\ Climbs(SubSeq(waiting, 1, i - 1), Top)
             /\ Len(SubSeq(waiting, 1, i - 1)) <= Len(waiting)
  <2>1. i - 1 \in 0 .. Len(waiting) /\ i - 1 <= Len(waiting)
    BY <1>4
  <2>2. /\ SubSeq(waiting, 1, i - 1) \in Seq(1 .. Len(stack))
        /\ Climbs(SubSeq(waiting, 1, i - 1), Top)
        /\ Len(SubSeq(waiting, 1, i - 1)) = i - 1
    BY <1>5, <2>1
  <2> QED
    BY <2>1, <2>2 DEF Positions
<1> QED
  BY <1>1, <1>4, <1>6 DEF Positions

(* A Handle after its Next, a recovery and a crash keep the types.         *)
LEMMA TypedBack ==
  ASSUME Typed, Resume \/ LogRequest \/ Recover \/ Crash
  PROVE  Typed'
<1> USE DEF Typed, Resumes
<1>0. /\ waiting \in Seq(Positions) /\ Climbs(waiting, Top) /\ Len(waiting) <= Len(waiting)
      /\ err \in Errs /\ "none" \in Errs
  BY Around DEF Control, Placed, Errs
<1>1. CASE ReturnsErr
  <2>1. Control'
    BY <1>0, <1>1, ControlBack DEF ReturnsErr
  <2> QED
    BY <1>1, <2>1, ToldSame, LoggedSame DEF ReturnsErr
<1>2. CASE ErrorsReturns
  <2>1. Control'
    BY <1>0, <1>2, ControlBack DEF ErrorsReturns
  <2>2. Told'
    BY <1>2, ToldSame, ToldJSON DEF ErrorsReturns, Writers, Kinds
  <2>3. Logged'
    BY <1>2, LoggedSame DEF ErrorsReturns
  <2> QED
    BY <2>1, <2>2, <2>3
<1>3. CASE LoggingReturns
  <2>1. Control'
    BY <1>0, <1>3, ControlBack DEF LoggingReturns
  <2>2. Told'
    BY <1>3, ToldSame DEF LoggingReturns
  <2>3. entry' \in [id : IDs, status : {0, 200, 500}, answered : BOOLEAN]
    <3>1. CASE UNCHANGED entry
      BY <3>1 DEF Logged
    <3>2. CASE entry' = [id |-> logID, status |-> IF err = "none" THEN 200 ELSE 500,
                         answered |-> bodies # <<>>]
      <4>1. PICK s \in {0, 200, 500} : s = IF err = "none" THEN 200 ELSE 500
        OBVIOUS
      <4>2. PICK b \in BOOLEAN : b = (bodies # <<>>)
        OBVIOUS
      <4>3. entry' = [id |-> logID, status |-> s, answered |-> b]
        BY <3>2, <4>1, <4>2
      <4> QED
        BY <4>3 DEF Logged
    <3> QED
      BY <1>3, <3>1, <3>2 DEF LoggingReturns
  <2>4. audit' \in {"none", "pending", "stored", "skipped", "lost"}
    BY <1>3 DEF LoggingReturns, Logged
  <2>5. AppPosition' = AppPosition
    BY <1>3, Same DEF LoggingReturns
  <2>6. Logged'
    BY <1>3, <2>3, <2>4, <2>5 DEF LoggingReturns, Logged
  <2> QED
    BY <2>1, <2>2, <2>6
<1>4. CASE LogRequest
  <2>1. Control' /\ Told'
    BY <1>4, ControlKept, ToldSame DEF LogRequest
  <2>2. AppPosition' = AppPosition
    BY <1>4, Same DEF LogRequest
  <2>3. Logged'
    BY <1>4, <2>2 DEF LogRequest, Logged
  <2> QED
    BY <2>1, <2>3
<1>5. CASE Recover
  <2>1. PICK i \in 1 .. Len(waiting) :
          WriteJSON("recovery") /\ Return(SubSeq(waiting, 1, i - 1), "none")
    BY <1>5 DEF Recover
  <2>2. Control'
    BY <1>0, <1>5, <2>1, Around, ControlBack DEF Recover
  <2>3. Told'
    BY <2>1, ToldJSON DEF Writers, Kinds
  <2>4. Logged'
    BY <1>5, LoggedSame DEF Recover
  <2> QED
    BY <2>2, <2>3, <2>4
<1>6. CASE Crash
  <2>1. Control'
    BY <1>6, ControlHalts DEF Crash
  <2> QED
    BY <1>6, <2>1, ToldSame, LoggedSame DEF Crash
<1> QED
  BY <1>1, <1>2, <1>3, <1>4, <1>5, <1>6 DEF Resume

(* What the types say of TypeOK.                                           *)
LEMMA TypedIsTypeOK ==
  ASSUME Typed
  PROVE  TypeOK
<1> USE DEF Typed
<1>1. stack \in Stacks /\ install \in {"handlers", "chain"} /\ index \in Nat \ {0}
  BY DEF Control, Placed
<1>2. /\ N <= AppPosition /\ N \in 2 .. 7 /\ AbortIndex = 63 /\ AppPosition = Len(stack) + 1
      /\ Len(stack) \in 1 .. 6
  BY <1>1, Bound
<1>3. waiting \in Seq(1 .. Len(stack)) /\ Climbs(waiting, Top) /\ at \in 1 .. Len(stack)
  BY DEF Control, Placed, Nested, Positions
<1>4. Len(waiting) \in Nat
  BY <1>3
<1>5. index \in 1 .. AbortIndex + AppPosition
  <2>1. PICK l \in Nat : l = Len(waiting)
    BY <1>4
  <2>2. PICK a \in 2 .. 7 : a = AppPosition
    <3>1. PICK k \in 1 .. 6 : k = Len(stack)
      BY <1>2
    <3>2. k + 1 \in 2 .. 7
      OBVIOUS
    <3> QED
      BY <1>2, <3>1, <3>2
  <2>3. index <= N \/ index + l + (IF pc \in {"loop", "done"} THEN 0 ELSE 1) <= AbortIndex + a
    BY <2>1, <2>2 DEF Control, Bounded
  <2> QED
    BY <1>1, <1>2, <2>2, <2>3
<1>6. \A i, j \in 1 .. Len(waiting) : i < j => waiting[i] < waiting[j]
  BY <1>3 DEF Climbs
<1>7. link \in 2 .. AppPosition /\ pc \in Places /\ err \in Errs
  BY DEF Control, Placed
<1> QED
  BY <1>1, <1>3, <1>5, <1>6, <1>7 DEF Told, Logged, Places, Errs, TypeOK

-----------------------------------------------------------------------------
(* The answers.                                                            *)

(* Where the index may be, before an answer and after the application's.   *)
Indexed ==
  /\ bodies = <<>> =>
       /\ pc = "loop" => index <= N
       /\ pc = "resume" => err # "none"
       /\ pc = "adapter" => index < N \/ err # "none"
       /\ pc # "done"
  /\ Wrote("app") =>
       index > N \/ (index = N /\ pc \in {"unwind", "resume", "adapter", "crashed"})

(* The entry, and the error it tells of.                                   *)
Recorded ==
  /\ entry # NoEntry => entry.answered \/ entry.status = 500
  /\ entry.status = 500 =>
       Wrote("errors") \/ Wrote("adapter") \/ (err # "none" /\ pc \in {"resume", "adapter"})

(* The application runs once.                                              *)
Once == \A i, j \in 1 .. Len(bodies) : bodies[i] = "app" /\ bodies[j] = "app" => i = j

(* A request that nothing stopped and nobody panicked in.                  *)
Smooth ==
  panics = <<>> /\ ~Stopped =>
    /\ err = "none" /\ pc \notin {"unwind", "crashed"}
    /\ bodies = <<>> \/ (bodies \in {<<"app">>, <<"custom">>} /\ index > N)

Answers == Indexed /\ Recorded /\ Once /\ Smooth

(* What is appended to the bodies.                                         *)
LEMMA Written ==
  ASSUME Told, NEW w \in Writers, bodies' = Append(bodies, w)
  PROVE  /\ bodies' # <<>>
         /\ bodies = <<>> => bodies' = <<w>>
         /\ \A v : Contains(bodies', v) <=> Contains(bodies, v) \/ v = w
         /\ Once /\ (w = "app" => ~Wrote("app")) => Once'
<1>1. /\ bodies \in Seq(Writers) /\ Len(bodies) \in Nat /\ Len(bodies') = Len(bodies) + 1
      /\ \A i \in 1 .. Len(bodies) : bodies'[i] = bodies[i]
      /\ bodies'[Len(bodies) + 1] = w
  BY DEF Told
<1>2. bodies' # <<>>
  BY <1>1
<1>3. bodies = <<>> => bodies' = <<w>>
  BY <1>1
<1>4. ASSUME NEW v
      PROVE  Contains(bodies', v) <=> Contains(bodies, v) \/ v = w
  <2>1. Contains(bodies', v) => Contains(bodies, v) \/ v = w
    BY <1>1 DEF Contains
  <2>2. Contains(bodies, v) => Contains(bodies', v)
    BY <1>1 DEF Contains
  <2>3. v = w => Contains(bodies', v)
    BY <1>1 DEF Contains
  <2> QED
    BY <2>1, <2>2, <2>3
<1>5. ASSUME Once, w = "app" => ~Wrote("app")
      PROVE  Once'
  <2>1. w = "app" => \A i \in 1 .. Len(bodies) : bodies[i] # "app"
    BY <1>1, <1>5 DEF Contains, Wrote
  <2>2. ASSUME NEW i \in 1 .. Len(bodies) + 1, NEW j \in 1 .. Len(bodies) + 1,
               bodies'[i] = "app", bodies'[j] = "app"
        PROVE  i = j
    <3>1. CASE i \in 1 .. Len(bodies) /\ j \in 1 .. Len(bodies)
      BY <1>1, <1>5, <2>2, <3>1 DEF Once
    <3>2. CASE i = Len(bodies) + 1
      BY <1>1, <2>1, <2>2, <3>2
    <3>3. CASE j = Len(bodies) + 1
      BY <1>1, <2>1, <2>2, <3>3
    <3> QED
      BY <1>1, <3>1, <3>2, <3>3
  <2> QED
    BY <1>1, <2>2 DEF Once
<1> QED
  BY <1>2, <1>3, <1>4, <1>5

(* What one more body changes of who has answered.                         *)
LEMMA Wrote4 ==
  ASSUME Told, NEW w \in Writers, bodies' = Append(bodies, w)
  PROVE  /\ Wrote("app")' <=> Wrote("app") \/ w = "app"
         /\ Wrote("errors")' <=> Wrote("errors") \/ w = "errors"
         /\ Wrote("adapter")' <=> Wrote("adapter") \/ w = "adapter"
         /\ Wrote("rateLimit")' <=> Wrote("rateLimit") \/ w = "rateLimit"
  BY Written DEF Wrote

(* Where a call of Next leads.                                             *)
LEMMA CallNextMoves ==
  ASSUME CallNext
  PROVE  /\ err' = err
         /\ \/ pc' = "handle" /\ index' = index
            \/ pc' = "loop" /\ index' = index + 1
  BY DEF CallNext

(* Where a return leads.                                                   *)
LEMMA ReturnMoves ==
  ASSUME NEW w, NEW e, Return(w, e)
  PROVE  /\ err' = e /\ index' = index /\ pc' \in {"resume", "adapter"}
         /\ install # "chain" => pc' = "adapter"
  BY DEF Return

(* A step that writes nothing and records nothing.                         *)
LEMMA AnswersSame ==
  ASSUME Typed, Answers, UNCHANGED request, bodies' = bodies, entry' = entry,
         panics' = panics \/ panics' # <<>>,
         bodies = <<>> => /\ pc' = "loop" => index' <= N
                          /\ pc' = "resume" => err' # "none"
                          /\ pc' = "adapter" => index' < N \/ err' # "none"
                          /\ pc' # "done",
         Wrote("app") =>
           index' > N \/ (index' = N /\ pc' \in {"unwind", "resume", "adapter", "crashed"}),
         entry.status = 500 =>
           Wrote("errors") \/ Wrote("adapter") \/ (err' # "none" /\ pc' \in {"resume", "adapter"}),
         panics' = <<>> /\ ~Stopped =>
           err' = "none" /\ pc' \notin {"unwind", "crashed"} /\ (bodies = <<>> \/ index' > N)
  PROVE  Answers'
<1>1. N' = N
  BY Same DEF Typed
<1>2. /\ Wrote("app")' = Wrote("app") /\ Wrote("errors")' = Wrote("errors")
      /\ Wrote("adapter")' = Wrote("adapter") /\ Stopped' = Stopped
  BY DEF Wrote, Stopped
<1>3. Indexed'
  BY <1>1, <1>2 DEF Answers, Indexed
<1>4. Recorded'
  BY <1>2 DEF Answers, Recorded, NoEntry
<1>5. Once'
  BY DEF Answers, Once
<1>6. Smooth'
  BY <1>1, <1>2 DEF Answers, Smooth
<1> QED
  BY <1>3, <1>4, <1>5, <1>6 DEF Answers

(* A step that writes a body other than the application's, and records nothing. *)
LEMMA AnswersMore ==
  ASSUME Typed, Answers, UNCHANGED request, entry' = entry, panics' = panics,
         NEW w \in Writers, w # "app", bodies' = Append(bodies, w),
         Wrote("app") =>
           index' > N \/ (index' = N /\ pc' \in {"unwind", "resume", "adapter", "crashed"}),
         entry.status = 500 =>
           \/ Wrote("errors") \/ Wrote("adapter") \/ w \in {"errors", "adapter"}
           \/ err' # "none" /\ pc' \in {"resume", "adapter"},
         panics = <<>> /\ ~Stopped /\ w # "rateLimit" =>
           /\ err' = "none" /\ pc' \notin {"unwind", "crashed"}
           /\ w = "custom" /\ bodies = <<>> /\ index' > N
  PROVE  Answers'
<1>1. N' = N
  BY Same DEF Typed
<1>2. Told
  BY DEF Typed
<1>3. /\ Wrote("app")' <=> Wrote("app")
      /\ (Wrote("errors") \/ Wrote("adapter") \/ w \in {"errors", "adapter"})
            => Wrote("errors")' \/ Wrote("adapter")'
      /\ Wrote("rateLimit")' <=> Wrote("rateLimit") \/ w = "rateLimit"
  BY <1>2, Wrote4
<1>4. ~Stopped' => ~Stopped /\ w # "rateLimit"
  BY <1>3 DEF Stopped
<1>5. bodies' # <<>> /\ (bodies = <<>> => bodies' = <<w>>) /\ Once'
  BY <1>2, Written DEF Answers
<1>6. Indexed'
  BY <1>1, <1>3, <1>5 DEF Indexed
<1>7. Recorded'
  BY <1>3 DEF Answers, Recorded, NoEntry
<1>8. Smooth'
  BY <1>1, <1>4, <1>5 DEF Smooth
<1> QED
  BY <1>5, <1>6, <1>7, <1>8 DEF Answers

(* Nobody has answered yet.                                                *)
LEMMA AnswersInit ==
  ASSUME Init
  PROVE  Answers
<1>1. bodies = <<>> /\ pc = "loop" /\ index = 1 /\ err = "none" /\ panics = <<>> /\ entry = NoEntry
  BY DEF Init
<1>2. \A v : ~Wrote(v)
  BY <1>1 DEF Wrote, Contains
<1>3. 1 <= N
  <2>1. N \in 2 .. 7
    BY Bound DEF Init
  <2> QED
    BY <2>1
<1>4. Indexed
  BY <1>1, <1>2, <1>3 DEF Indexed
<1>5. Recorded
  BY <1>1 DEF Recorded, NoEntry
<1>6. Once
  BY <1>1 DEF Once
<1>7. Smooth
  BY <1>1 DEF Smooth
<1> QED
  BY <1>4, <1>5, <1>6, <1>7 DEF Answers

(* The facts every step starts from.                                       *)
LEMMA Start ==
  ASSUME Typed, UNCHANGED request
  PROVE  /\ N \in 2 .. 7 /\ N \in Int /\ N' = N /\ AbortIndex = 63 /\ index \in Nat /\ index \in Int
         /\ pc = "handle" => index < N /\ ~(index > N) /\ index # N /\ index + 1 <= N
<1>1. N \in 2 .. 7 /\ N' = N /\ AbortIndex = 63
  BY Same DEF Typed
<1>2. index \in Nat /\ (pc = "handle" => index < N)
  BY DEF Typed, Control, Placed, Bounded
<1> QED
  BY <1>1, <1>2

(* Gin's steps keep account of the answers.                                *)
LEMMA AnswersGin ==
  ASSUME Typed, Answers, Gin
  PROVE  Answers'
<1>0. /\ N \in 2 .. 7 /\ N \in Int /\ N' = N /\ AbortIndex = 63 /\ index \in Nat /\ index \in Int
      /\ UNCHANGED request
  <2>1. UNCHANGED request
    BY DEF Gin, RunHandler, AppAnswers, AppPanics, LoopEnds, ToGinHandler
  <2> QED
    BY <2>1, Start
<1>1. CASE RunHandler
  <2>1. /\ pc = "loop" /\ pc' = "handle" /\ index' = index /\ err' = err /\ index < N
        /\ bodies' = bodies /\ entry' = entry /\ panics' = panics
    BY <1>1 DEF RunHandler
  <2> QED
    BY <1>0, <2>1, AnswersSame DEF Answers, Indexed, Recorded, Smooth
<1>2. CASE AppAnswers
  <2>1. /\ pc = "loop" /\ pc' = "loop" /\ index = N /\ index' = N + 1 /\ err' = err
        /\ bodies' = Append(bodies, "app") /\ entry' = entry /\ panics' = panics
    BY <1>2 DEF AppAnswers, Write
  <2>2. ~Wrote("app")
    BY <1>0, <2>1 DEF Answers, Indexed
  <2>3. Told /\ "app" \in Writers
    BY DEF Typed, Writers
  <2>4. /\ Wrote("errors")' <=> Wrote("errors")
        /\ Wrote("adapter")' <=> Wrote("adapter")
        /\ Wrote("rateLimit")' <=> Wrote("rateLimit")
    BY <2>1, <2>3, Wrote4
  <2>5. bodies' # <<>> /\ (bodies = <<>> => bodies' = <<"app">>) /\ Once'
    BY <2>1, <2>2, <2>3, Written DEF Answers
  <2>6. index' > N
    BY <1>0, <2>1
  <2>7. Indexed'
    BY <1>0, <2>5, <2>6 DEF Indexed
  <2>8. Recorded'
    BY <2>1, <2>4 DEF Answers, Recorded, NoEntry
  <2>9. Smooth'
    <3>1. Stopped' <=> Stopped
      BY <1>0, <2>4 DEF Stopped
    <3>2. panics = <<>> /\ ~Stopped => err = "none" /\ bodies = <<>>
      BY <1>0, <2>1 DEF Answers, Smooth
    <3> QED
      BY <1>0, <2>1, <2>5, <2>6, <3>1, <3>2 DEF Smooth
  <2> QED
    BY <2>5, <2>7, <2>8, <2>9 DEF Answers
<1>3. CASE AppPanics
  <2>1. /\ pc = "loop" /\ pc' = "unwind" /\ index = N /\ index' = N /\ err' = err
        /\ bodies' = bodies \/ bodies' = Append(bodies, "app")
        /\ entry' = entry /\ panics' = Append(panics, AppPosition)
    BY <1>3 DEF AppPanics, Panic, Write
  <2>2. panics' # <<>>
    BY <2>1 DEF Typed, Logged
  <2>3. ~Wrote("app")
    BY <1>0, <2>1 DEF Answers, Indexed
  <2>4. Told /\ "app" \in Writers
    BY DEF Typed, Writers
  <2>5. /\ Wrote("errors")' <=> Wrote("errors")
        /\ Wrote("adapter")' <=> Wrote("adapter")
    <3>1. CASE bodies' = bodies
      BY <3>1 DEF Wrote
    <3>2. CASE bodies' = Append(bodies, "app")
      BY <2>4, <3>2, Wrote4
    <3> QED
      BY <2>1, <3>1, <3>2
  <2>6. Once'
    <3>1. CASE bodies' = bodies
      BY <3>1 DEF Answers, Once
    <3>2. CASE bodies' = Append(bodies, "app")
      BY <2>3, <2>4, <3>2, Written DEF Answers
    <3> QED
      BY <2>1, <3>1, <3>2
  <2>7. Indexed'
    BY <1>0, <2>1 DEF Indexed
  <2>8. Recorded'
    BY <2>1, <2>5 DEF Answers, Recorded, NoEntry
  <2>9. Smooth'
    BY <2>2 DEF Smooth
  <2> QED
    BY <2>6, <2>7, <2>8, <2>9 DEF Answers
<1>4. CASE LoopEnds
  <2>1. /\ pc = "loop" /\ index > N /\ index' = index /\ bodies' = bodies
        /\ entry' = entry /\ panics' = panics
        /\ (pc' = "done" /\ err' = err) \/ (pc' = "resume" /\ err' = "none")
    BY <1>4 DEF LoopEnds
  <2>2. bodies # <<>>
    BY <1>0, <2>1 DEF Answers, Indexed
  <2> QED
    BY <1>0, <2>1, <2>2, AnswersSame DEF Answers, Indexed, Recorded, Smooth
<1>5. CASE ToGinHandler
  <2>1. pc = "adapter" /\ pc' = "loop" /\ err' = "none" /\ entry' = entry /\ panics' = panics
    BY <1>5 DEF ToGinHandler
  <2>2. CASE err = "none" /\ index' = index + 1 /\ bodies' = bodies
    <3>1. (index < N => index' <= N) /\ (index > N => index' > N) /\ (index = N => index' > N)
      BY <1>0, <2>2
    <3> QED
      BY <1>0, <2>1, <2>2, <3>1, AnswersSame DEF Answers, Indexed, Recorded, Smooth
  <2>3. CASE err # "none" /\ index' = AbortIndex + 1 /\ bodies' = Append(bodies, "adapter")
    <3>1. index' > N
      BY <1>0, <2>3
    <3>2. "adapter" \in Writers
      BY DEF Writers
    <3> QED
      BY <1>0, <2>1, <2>3, <3>1, <3>2, AnswersMore DEF Answers, Smooth
  <2> QED
    BY <1>5, <2>2, <2>3 DEF ToGinHandler, Write
<1> QED
  BY <1>1, <1>2, <1>3, <1>4, <1>5 DEF Gin

(* A Handle up to its Next keeps account of the answers.                   *)
LEMMA AnswersHandle ==
  ASSUME Typed, Answers, Handle
  PROVE  Answers'
<1> USE DEF Handles
<1>0. /\ N \in 2 .. 7 /\ N \in Int /\ N' = N /\ AbortIndex = 63 /\ index \in Nat /\ index \in Int
      /\ UNCHANGED request /\ entry' = entry /\ pc = "handle"
      /\ index < N /\ index + 1 <= N /\ ~Wrote("app")
      /\ panics = <<>> /\ ~Stopped => err = "none" /\ bodies = <<>>
      /\ entry.status = 500 => Wrote("errors") \/ Wrote("adapter")
  <2>1. UNCHANGED request /\ entry' = entry /\ pc = "handle"
    BY DEF Handle, RequestID, Recovery, Errors, Logging, RateLimitPasses, RateLimitRefuses,
           CustomInChain, CustomRuns, CustomAborts
  <2>2. /\ N \in 2 .. 7 /\ N \in Int /\ N' = N /\ AbortIndex = 63 /\ index \in Nat /\ index \in Int
        /\ index < N /\ ~(index > N) /\ index # N /\ index + 1 <= N
    BY <2>1, Start
  <2>3. ~Wrote("app")
    BY <2>1, <2>2 DEF Answers, Indexed
  <2> QED
    BY <2>1, <2>2, <2>3 DEF Answers, Smooth, Recorded
<1>1. CASE CallNext /\ bodies' = bodies /\ panics' = panics
  <2>1. /\ err' = err
        /\ \/ pc' = "handle" /\ index' = index
           \/ pc' = "loop" /\ index' = index + 1
    BY <1>1, CallNextMoves
  <2> QED
    BY <1>0, <1>1, <2>1, AnswersSame
<1>2. CASE RateLimitRefuses
  <2>1. /\ err' = "none" /\ index' = index /\ pc' \in {"resume", "adapter"}
        /\ bodies' = Append(bodies, "rateLimit") /\ panics' = panics
    BY <1>2, ReturnMoves DEF RateLimitRefuses, WriteJSON, Write
  <2>2. "rateLimit" \in Writers
    BY DEF Writers, Kinds
  <2> QED
    BY <1>0, <2>1, <2>2, AnswersMore
<1>3. CASE CustomInChain
  <2>1. /\ err' = "incompatible" /\ index' = index /\ pc' \in {"resume", "adapter"}
        /\ bodies' = bodies /\ panics' = panics
    BY <1>3, ReturnMoves DEF CustomInChain
  <2>2. Stopped
    <3>1. stack \in Stacks /\ at \in 1 .. Len(stack)
      BY DEF Typed, Control, Placed, Positions
    <3>2. Contains(stack, "custom")
      BY <1>3, <3>1 DEF CustomInChain, Contains
    <3> QED
      BY <1>3, <3>2 DEF CustomInChain, Stopped
  <2> QED
    BY <1>0, <2>1, <2>2, AnswersSame
<1>4. CASE CustomRuns
  <2>1. bodies' = bodies /\ install = "handlers"
    BY <1>4 DEF CustomRuns
  <2>2. CASE Return(waiting, "none") /\ panics' = panics
    <3>1. err' = "none" /\ index' = index /\ pc' = "adapter"
      BY <2>1, <2>2, ReturnMoves
    <3> QED
      BY <1>0, <2>1, <2>2, <3>1, AnswersSame
  <2>3. CASE Panic(at)
    <3>1. pc' = "unwind" /\ err' = err /\ index' = index /\ panics' = Append(panics, at)
      BY <2>3 DEF Panic
    <3>2. panics' # <<>>
      BY <3>1 DEF Typed, Logged
    <3> QED
      BY <1>0, <2>1, <3>1, <3>2, AnswersSame
  <2> QED
    BY <1>1, <1>4, <2>1, <2>2, <2>3 DEF CustomRuns
<1>5. CASE CustomAborts
  <2>1. /\ err' = "none" /\ index' = AbortIndex /\ pc' = "adapter"
        /\ bodies' = Append(bodies, "custom") /\ panics' = panics
    BY <1>5 DEF CustomAborts, Write
  <2>2. index' > N
    BY <1>0, <2>1
  <2>3. "custom" \in Writers
    BY DEF Writers, Kinds
  <2> QED
    BY <1>0, <2>1, <2>2, <2>3, AnswersMore
<1> QED
  BY <1>1, <1>2, <1>3, <1>4, <1>5
     DEF Handle, RequestID, Recovery, Errors, Logging, RateLimitPasses

(* A Handle after its Next keeps account of the answers.                   *)
LEMMA AnswersResume ==
  ASSUME Typed, Answers, Resume
  PROVE  Answers'
<1> USE DEF Resumes
<1>0. /\ N' = N /\ N \in Int /\ index \in Int /\ UNCHANGED request /\ pc = "resume" /\ panics' = panics
      /\ bodies = <<>> => err # "none"
      /\ Wrote("app") => index > N \/ index = N
      /\ entry.status = 500 => Wrote("errors") \/ Wrote("adapter") \/ err # "none"
      /\ panics = <<>> /\ ~Stopped => err = "none" /\ (bodies = <<>> \/ index > N)
  <2>1. UNCHANGED request /\ pc = "resume" /\ panics' = panics
    BY DEF Resume, ReturnsErr, ErrorsReturns, LoggingReturns
  <2> QED
    BY <2>1, Start DEF Answers, Indexed, Recorded, Smooth
<1>1. CASE ReturnsErr
  <2>1. /\ err' = err /\ index' = index /\ pc' \in {"resume", "adapter"}
        /\ bodies' = bodies /\ entry' = entry
    BY <1>1, ReturnMoves DEF ReturnsErr
  <2> QED
    BY <1>0, <2>1, AnswersSame
<1>2. CASE ErrorsReturns
  <2>1. err' = "none" /\ index' = index /\ pc' \in {"resume", "adapter"} /\ entry' = entry
    BY <1>2, ReturnMoves DEF ErrorsReturns
  <2>2. CASE err = "none" /\ bodies' = bodies
    BY <1>0, <2>1, <2>2, AnswersSame
  <2>3. CASE err # "none" /\ bodies' = Append(bodies, "errors")
    <3>1. "errors" \in Writers
      BY DEF Writers, Kinds
    <3> QED
      BY <1>0, <2>1, <2>3, <3>1, AnswersMore
  <2> QED
    BY <1>2, <2>2, <2>3 DEF ErrorsReturns, WriteJSON, Write
<1>3. CASE LoggingReturns
  <2>1. err' = err /\ index' = index /\ pc' \in {"resume", "adapter"} /\ bodies' = bodies
    BY <1>3, ReturnMoves DEF LoggingReturns
  <2>2. CASE entry' = entry
    BY <1>0, <2>1, <2>2, AnswersSame
  <2>3. CASE entry' = [id |-> logID, status |-> IF err = "none" THEN 200 ELSE 500,
                       answered |-> bodies # <<>>]
    <3>1. /\ entry'.status = 500 => err # "none"
          /\ entry'.answered \/ entry'.status = 500
      <4>1. CASE err = "none"
        <5>1. (bodies # <<>>) = TRUE
          BY <1>0, <4>1
        <5>2. entry' = [id |-> logID, status |-> 200, answered |-> TRUE]
          BY <2>3, <4>1, <5>1
        <5> QED
          BY <5>2
      <4>2. CASE err # "none"
        <5>1. entry'.status = 500
          BY <2>3, <4>2
        <5> QED
          BY <4>2, <5>1
      <4> QED
        BY <4>1, <4>2
    <3>2. /\ Wrote("app")' <=> Wrote("app")
          /\ Stopped' <=> Stopped
      BY <1>0, <2>1 DEF Wrote, Stopped
    <3>3. Recorded'
      BY <2>1, <3>1 DEF Recorded, NoEntry
    <3>4. Indexed'
      BY <1>0, <2>1, <3>2 DEF Indexed
    <3>5. Once'
      BY <2>1 DEF Answers, Once
    <3>6. Smooth'
      BY <1>0, <2>1, <3>2 DEF Answers, Smooth
    <3> QED
      BY <3>3, <3>4, <3>5, <3>6 DEF Answers
  <2> QED
    BY <1>3, <2>2, <2>3 DEF LoggingReturns
<1> QED
  BY <1>1, <1>2, <1>3 DEF Resume

(* The entry, a recovery and a crash keep account of the answers.          *)
LEMMA AnswersRest ==
  ASSUME Typed, Answers, LogRequest \/ Recover \/ Crash
  PROVE  Answers'
<1>0. UNCHANGED request /\ N' = N /\ N \in Int /\ index \in Int
  <2>1. UNCHANGED request
    BY DEF LogRequest, Recover, Crash
  <2> QED
    BY <2>1, Start
<1>1. CASE LogRequest
  <2>1. /\ pc' = pc /\ err' = err /\ index' = index /\ bodies' = bodies
        /\ entry' = entry /\ panics' = panics
    BY <1>1 DEF LogRequest
  <2> QED
    BY <1>0, <2>1, AnswersSame DEF Answers, Indexed, Recorded, Smooth
<1>2. CASE Recover
  <2>1. /\ pc = "unwind" /\ err' = "none" /\ index' = index /\ pc' \in {"resume", "adapter"}
        /\ bodies' = Append(bodies, "recovery") /\ entry' = entry /\ panics' = panics
    BY <1>2, ReturnMoves DEF Recover, WriteJSON, Write
  <2>2. "recovery" \in Writers
    BY DEF Writers, Kinds
  <2> QED
    BY <1>0, <2>1, <2>2, AnswersMore DEF Answers, Indexed, Recorded, Smooth
<1>3. CASE Crash
  <2>1. /\ pc = "unwind" /\ pc' = "crashed" /\ err' = err /\ index' = index /\ bodies' = bodies
        /\ entry' = entry /\ panics' = panics
    BY <1>3 DEF Crash
  <2> QED
    BY <1>0, <2>1, AnswersSame DEF Answers, Indexed, Recorded, Smooth
<1> QED
  BY <1>1, <1>2, <1>3

-----------------------------------------------------------------------------
(* The theorems.                                                           *)

Inv == Typed /\ Answers

(* Every step keeps the invariant.                                         *)
LEMMA InvStep ==
  ASSUME Inv, [Next]_vars
  PROVE  Inv'
<1> USE DEF Inv
<1>1. CASE Gin
  BY <1>1, TypedGin, AnswersGin
<1>2. CASE Handle
  BY <1>2, TypedHandle, AnswersHandle
<1>3. CASE Resume
  BY <1>3, TypedBack, AnswersResume
<1>4. CASE LogRequest \/ Recover \/ Crash
  BY <1>4, TypedBack, AnswersRest
<1>5. CASE UNCHANGED vars
  <2>1. UNCHANGED request /\ UNCHANGED control /\ UNCHANGED reply
        /\ UNCHANGED <<header, ctxID, logs>> /\ panics' = panics
    BY <1>5 DEF vars
  <2>2. Typed'
    BY <2>1, ControlKept, ToldSame, LoggedSame DEF Typed
  <2>3. N' = N
    BY <2>1, Start
  <2>4. Answers'
    BY <2>1, <2>3 DEF Answers, Indexed, Recorded, Once, Smooth, Stopped, Wrote, NoEntry
  <2> QED
    BY <2>2, <2>4
<1> QED
  BY <1>1, <1>2, <1>3, <1>4, <1>5 DEF Next

(* The invariant of one request holds in every state.                      *)
THEOREM InvHolds == Spec => []Inv
<1>1. Init => Inv
  BY TypedInit, AnswersInit DEF Inv
<1>2. Inv /\ [Next]_vars => Inv'
  BY InvStep
<1> QED
  BY <1>1, <1>2, PTL DEF Spec

(* Every state of a request has the types of module Middleware: whatever   *)
(* stack was built, Gin's int8 index never passes AbortIndex by more than  *)
(* the stack is long, and the waiting Handles are nested in stack order.   *)
THEOREM TypeCorrect == Spec => []TypeOK
<1>1. Inv => TypeOK
  BY TypedIsTypeOK DEF Inv
<1> QED
  BY <1>1, InvHolds, PTL

(* A request that nothing stops is answered by exactly one body, and the   *)
(* application runs at most once, for every stack (builder.go:200).        *)
THEOREM OneAnswer == Spec => []AnsweredOnce
<1>1. Inv => AnsweredOnce
  <2> SUFFICES ASSUME Inv
               PROVE  AnsweredOnce
    OBVIOUS
  <2>1. pc = "done" /\ panics = <<>> /\ ~Stopped => bodies \in {<<"app">>, <<"custom">>}
    BY DEF Inv, Answers, Indexed, Smooth
  <2> QED
    BY <2>1 DEF Inv, Answers, Once, AnsweredOnce
<1> QED
  BY <1>1, InvHolds, PTL

(* Whenever the audit entry says 500, the client was told of the error, by *)
(* the error middleware or by ToGinHandler (logging.go:141).               *)
THEOREM FailuresAreTold == Spec => []FailureIsTold
<1>1. Inv => FailureIsTold
  BY DEF Inv, Answers, Recorded, FailureIsTold, Over
<1> QED
  BY <1>1, InvHolds, PTL
=============================================================================
