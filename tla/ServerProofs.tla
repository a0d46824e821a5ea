---------------------------- MODULE ServerProofs ----------------------------
(***************************************************************************)
(* Theorems of module Server, for any number of requests, any operations,  *)
(* any content of the cluster and any reasons of failure.                  *)
(*                                                                         *)
(* First what the converters and the marshallers make of any content: Sum  *)
(* is a recursive function, about which induction over the numbers shows   *)
(* what it adds up to; the ages are read back by the cases of their units; *)
(* no answer is marshalled to null, type by type; and the lists are told   *)
(* object by object.                                                       *)
(*                                                                         *)
(* Then the steps.  Every step but Accept is a step of main, of the        *)
(* quitter, of a request's response or of one slot.  The invariant says of *)
(* every slot on its own that its record is consistent (GoodRecord),       *)
(* relates slots by their place in the operation (Placed) and by the turns *)
(* of mutations (InTurn), and a response to its slots (Responded).  Lemma  *)
(* StepKeepsInv reduces a step of a slot to its new record.  What is       *)
(* answered matters in one place only, when a field is marshalled: there   *)
(* lemma AnswersAreData says that it is not null.                          *)
(***************************************************************************)
EXTENDS Server, FiniteSetTheorems, SequenceTheorems, WellFoundedInduction, TLAPS

USE DEF cluster, process, request

(* The record of a slot: nothing is known before the resolver is called;   *)
(* then the row, the code and the effect agree with the outcome, and in    *)
(* the end so does the null.                                               *)
Before == {"unused", "idle", "resolve"}
GoodRecord(x) ==
    /\ x.pc \in Before =>
        /\ x.out = "none" /\ x.code = "none" /\ x.effect = FALSE
        /\ x.row = NoRow /\ x.lost = FALSE
    /\ x.pc \notin Before => x.out # "none"
    /\ x.pc = "log" => Audited(x.field) /\ x.row = NoRow /\ x.lost = FALSE
    /\ x.row # NoRow =>
        /\ Audited(x.field) /\ x.lost = FALSE
        /\ x.row.status = 500 <=> x.out = "error" /\ x.field \in MutationFields
    /\ x.pc \in {"marshal", "stream", "done"} /\ Audited(x.field) /\ x.code # "ARGUMENT" =>
        x.lost = TRUE \/ x.row # NoRow
    /\ x.effect = TRUE => x.field \in MutationFields
    /\ x.out = "error" /\ x.effect = TRUE => x.code \in {"SERVICE_ERROR", "TIMEOUT"}
    /\ x.code = "NOT_FOUND" => x.why = "NotFound"
    /\ x.code = "FORBIDDEN" => x.why = "Forbidden"
    /\ x.out = "ok" => x.code = "none"
    /\ x.pc \in {"stream", "done"} => (x.null = TRUE <=> x.out = "error")

(* A slot in use holds the field of the operation at its place.            *)
Placed(s) ==
    IF slot[s].pc = "unused" THEN slot[s].field = "none"
    ELSE s[2] \in 1..Len(op[s[1]]) /\ slot[s].field = op[s[1]][s[2]]

(* A mutation that was begun finds those before it done.                   *)
InTurn(s) ==
    slot[s].field \in MutationFields /\ slot[s].pc # "idle" =>
        \A i \in 1..(s[2] - 1) : slot[<<s[1], i>>].pc = "done"

(* A response is made of fields that are done, and of their nulls.         *)
Responded(r) ==
    data[r] # "none" =>
        op[r] # <<>> /\ Finished(r) /\ (data[r] = "null" <=> Invalids(r) # {})

Inv ==
    /\ TypeOK
    /\ \A s \in Slots : GoodRecord(slot[s]) /\ Placed(s) /\ InTurn(s)
    /\ answer = Marshalled(content)
    /\ \A r \in Requests : Responded(r)

-----------------------------------------------------------------------------
(* Sums.                                                                   *)

(* A set of numbers that is not empty has a least one: the induction of    *)
(* this module.                                                            *)
LEMMA LeastExists ==
    ASSUME NEW T \in SUBSET Nat, T # {}
    PROVE  \E x \in T : \A y \in T : x <= y
<1>1. IsWellFoundedOn(OpToRel(<, Nat), Nat)
  BY NatLessThanWellFounded
<1>2. \E x \in T : \A y \in T : ~ (<<y, x>> \in OpToRel(<, Nat))
  BY <1>1, WFMin
<1>3. PICK x \in T : \A y \in T : ~ (<<y, x>> \in OpToRel(<, Nat))
  BY <1>2
<1>4. \A y \in T : <<y, x>> \in Nat \X Nat
  OBVIOUS
<1>5. \A y \in T : ~ (y < x)
  BY <1>3, <1>4 DEF OpToRel
<1> QED
  BY <1>5

(* Induction up to n: a set with 0 that has k whenever it has k - 1.       *)
LEMMA Reaches ==
    ASSUME NEW n \in Nat, NEW T, 0 \in T, \A k \in 1..n : k - 1 \in T => k \in T
    PROVE  \A k \in 0..n : k \in T
<1> DEFINE F == {k \in 0..n : k \notin T}
<1>1. ASSUME F # {} PROVE FALSE
  <2>1. F \in SUBSET Nat
    OBVIOUS
  <2>2. PICK k \in F : \A y \in F : k <= y
    BY <1>1, <2>1, LeastExists
  <2>3. k \in 1..n /\ k - 1 \in 0..n /\ k - 1 \notin F
    BY <2>2
  <2> QED
    BY <2>2, <2>3
<1> QED
  BY <1>1

(* The running totals of the first n numbers.                              *)
Totals(f, s, n) ==
    /\ f = [i \in 0..n |-> f[i]]
    /\ f[0] = 0 /\ \A i \in 1..n : f[i] = f[i - 1] + s[i]

(* Numbers have running totals.                                            *)
LEMMA TotalsExist ==
    ASSUME NEW n \in Nat, NEW s
    PROVE  \E f : Totals(f, s, n)
<1> DEFINE T == {k \in 0..n : \E f : Totals(f, s, k)}
<1>1. 0 \in T
  <2> DEFINE f == [i \in 0..0 |-> 0]
  <2>1. Totals(f, s, 0)
    BY DEF Totals
  <2> QED
    BY <2>1
<1>2. ASSUME NEW k \in 1..n, k - 1 \in T PROVE k \in T
  <2>1. PICK g : Totals(g, s, k - 1)
    BY <1>2
  <2> DEFINE f == [i \in 0..k |-> IF i = k THEN g[k - 1] + s[k] ELSE g[i]]
  <2>2. f[0] = 0 /\ f = [i \in 0..k |-> f[i]]
    BY <2>1 DEF Totals
  <2>3. ASSUME NEW i \in 1..k PROVE f[i] = f[i - 1] + s[i]
    <3>1. i - 1 \in 0..k /\ i \in 0..k /\ i - 1 # k
      OBVIOUS
    <3>2. f[i - 1] = g[i - 1]
      BY <3>1
    <3>3. CASE i = k
      BY <3>2, <3>3
    <3>4. CASE i # k
      <4>1. i \in 1..(k - 1) /\ f[i] = g[i]
        BY <3>1, <3>4
      <4> QED
        BY <2>1, <3>2, <4>1 DEF Totals
    <3> QED
      BY <3>3, <3>4
  <2>4. Totals(f, s, k)
    BY <2>2, <2>3 DEF Totals
  <2> QED
    BY <2>4
<1> HIDE DEF T
<1>3. n \in T
  BY <1>1, <1>2, Reaches
<1> QED
  BY <1>3 DEF T

(* And only one sequence of them.                                          *)
LEMMA TotalsAreOne ==
    ASSUME NEW n \in Nat, NEW s, NEW f, NEW g, Totals(f, s, n), Totals(g, s, n)
    PROVE  \A k \in 0..n : f[k] = g[k]
<1> DEFINE T == {k \in 0..n : f[k] = g[k]}
<1>1. 0 \in T
  BY DEF Totals
<1>2. ASSUME NEW k \in 1..n, k - 1 \in T PROVE k \in T
  <2>1. f[k] = f[k - 1] + s[k] /\ g[k] = g[k - 1] + s[k] /\ f[k - 1] = g[k - 1]
    BY <1>2 DEF Totals
  <2> QED
    BY <2>1
<1> HIDE DEF T
<1>3. \A k \in 0..n : k \in T
  BY <1>1, <1>2, Reaches
<1> QED
  BY <1>3 DEF T

(* Sum, whose recursive function is chosen, is the last of the totals.     *)
LEMMA SumIsTotal ==
    ASSUME NEW s, NEW n \in Nat, Len(s) = n, NEW f, Totals(f, s, n)
    PROVE  Sum(s) = f[n]
<1> DEFINE Is(g) == g = [i \in 0..Len(s) |-> IF i = 0 THEN 0 ELSE g[i - 1] + s[i]]
           total == CHOOSE g : Is(g)
<1>1. Is(f)
  <2>1. ASSUME NEW i \in 0..n
        PROVE  f[i] = IF i = 0 THEN 0 ELSE f[i - 1] + s[i]
    <3>1. f[0] = 0 /\ (i # 0 => i \in 1..n) /\ \A j \in 1..n : f[j] = f[j - 1] + s[j]
      BY DEF Totals
    <3> QED
      BY <3>1
  <2>2. f = [i \in 0..n |-> f[i]]
    BY DEF Totals
  <2> QED
    BY <2>1, <2>2, Zenon
<1>2. Is(total)
  BY <1>1
<1>3. Sum(s) = total[n]
  BY DEF Sum
<1> HIDE DEF total
<1>4. Totals(total, s, n)
  BY <1>2 DEF Totals
<1> QED
  BY <1>3, <1>4, TotalsAreOne

-----------------------------------------------------------------------------
(* The containers of a pod, and its labels.                               *)

(* One number, and two.                                                    *)
LEMMA SumOfOne ==
    ASSUME NEW s, Len(s) = 1, s[1] \in Int
    PROVE  Sum(s) = s[1]
<1> DEFINE f == [i \in 0..1 |-> IF i = 0 THEN 0 ELSE s[1]]
<1>1. Totals(f, s, 1)
  BY DEF Totals
<1>2. f[1] = s[1]
  OBVIOUS
<1> HIDE DEF f
<1> QED
  BY <1>1, <1>2, SumIsTotal

(* Two numbers.                                                            *)
LEMMA SumOfTwo ==
    ASSUME NEW s, Len(s) = 2, s[1] \in Int, s[2] \in Int
    PROVE  Sum(s) = s[1] + s[2]
<1> DEFINE f == [i \in 0..2 |-> IF i = 0 THEN 0 ELSE IF i = 1 THEN s[1] ELSE s[1] + s[2]]
<1>1. Totals(f, s, 2)
  BY DEF Totals
<1>2. f[2] = s[1] + s[2]
  OBVIOUS
<1> HIDE DEF f
<1> QED
  BY <1>1, <1>2, SumIsTotal

(* Natural numbers have natural totals.                                    *)
LEMMA TotalsAreNat ==
    ASSUME NEW n \in Nat, NEW s, NEW f, Totals(f, s, n), \A i \in 1..n : s[i] \in Nat
    PROVE  \A k \in 0..n : f[k] \in Nat
<1> DEFINE T == {k \in 0..n : f[k] \in Nat}
<1>1. 0 \in T
  BY DEF Totals
<1>2. ASSUME NEW k \in 1..n, k - 1 \in T PROVE k \in T
  <2>1. f[k] = f[k - 1] + s[k] /\ f[k - 1] \in Nat /\ s[k] \in Nat
    BY <1>2 DEF Totals
  <2> QED
    BY <2>1
<1> HIDE DEF T
<1>3. \A k \in 0..n : k \in T
  BY <1>1, <1>2, Reaches
<1> QED
  BY <1>3 DEF T

(* Zeros at the end add nothing.                                           *)
LEMMA SumOfPadded ==
    ASSUME NEW m \in Nat, NEW n \in Nat, m <= n, NEW s, NEW t, Len(s) = m, Len(t) = n,
           \A i \in 1..m : s[i] \in Nat,
           \A i \in 1..n : t[i] = IF i <= m THEN s[i] ELSE 0
    PROVE  Sum(t) = Sum(s)
<1>1. PICK f : Totals(f, s, m)
  BY TotalsExist
<1>2. \A k \in 0..m : f[k] \in Nat
  BY <1>1, TotalsAreNat
<1> DEFINE g == [i \in 0..n |-> IF i <= m THEN f[i] ELSE f[m]]
<1>3. g[0] = 0 /\ g = [i \in 0..n |-> g[i]]
  BY <1>1 DEF Totals
<1>4. ASSUME NEW i \in 1..n PROVE g[i] = g[i - 1] + t[i]
  <2>1. CASE i <= m
    <3>1. i \in 1..m /\ i - 1 <= m /\ i - 1 \in 0..n
      BY <2>1
    <3>2. f[i] = f[i - 1] + s[i] /\ t[i] = s[i]
      BY <1>1, <2>1, <3>1 DEF Totals
    <3> QED
      BY <2>1, <3>1, <3>2
  <2>2. CASE i > m
    <3>1. t[i] = 0 /\ f[m] \in Nat /\ i - 1 \in 0..n
      BY <1>2, <2>2
    <3>2. g[i] = f[m] /\ g[i - 1] = f[m]
      <4>1. CASE i - 1 = m
        BY <2>2, <3>1, <4>1
      <4>2. CASE i - 1 # m
        BY <2>2, <3>1, <4>2
      <4> QED
        BY <4>1, <4>2
    <3> QED
      BY <3>1, <3>2
  <2> QED
    BY <2>1, <2>2
<1>5. Totals(g, t, n)
  BY <1>3, <1>4 DEF Totals
<1>6. g[n] = f[m]
  <2>1. CASE n = m
    BY <2>1
  <2>2. CASE n # m
    BY <2>2
  <2> QED
    BY <2>1, <2>2
<1>7. Sum(t) = g[n]
  BY <1>5, SumIsTotal
<1>8. Sum(s) = f[m]
  BY <1>1, SumIsTotal
<1> QED
  BY <1>6, <1>7, <1>8

(* A sum of ones counts the members of a set.                              *)
LEMMA SumCounts ==
    ASSUME NEW n \in Nat, NEW s, Len(s) = n, NEW S \in SUBSET (1..n),
           \A i \in 1..n : s[i] = IF i \in S THEN 1 ELSE 0
    PROVE  Sum(s) = Cardinality(S)
<1> DEFINE f == [k \in 0..n |-> Cardinality(S \cap 1..k)]
<1>1. \A k \in 0..n : IsFiniteSet(S \cap 1..k)
  <2>1. \A k \in 0..n : IsFiniteSet(1..k)
    BY FS_Interval
  <2> QED
    BY <2>1, FS_Intersection
<1>2. f[0] = 0
  <2>1. S \cap 1..0 = {}
    OBVIOUS
  <2>2. Cardinality(S \cap 1..0) = 0
    BY <2>1, FS_EmptySet
  <2> QED
    BY <2>2
<1>3. ASSUME NEW i \in 1..n PROVE f[i] = f[i - 1] + s[i]
  <2>1. i - 1 \in 0..n /\ i \in 0..n
    OBVIOUS
  <2>2. Cardinality(S \cap 1..(i - 1)) \in Nat
    BY <1>1, <2>1, FS_CardinalityType
  <2>3. f[i] = Cardinality(S \cap 1..i) /\ f[i - 1] = Cardinality(S \cap 1..(i - 1))
    BY <2>1
  <2>4. CASE i \in S
    <3>1. S \cap 1..i = (S \cap 1..(i - 1)) \cup {i} /\ i \notin S \cap 1..(i - 1)
      BY <2>4
    <3>2. Cardinality((S \cap 1..(i - 1)) \cup {i}) = Cardinality(S \cap 1..(i - 1)) + 1
      BY <1>1, <2>1, <3>1, FS_AddElement
    <3> QED
      BY <2>3, <2>4, <3>1, <3>2
  <2>5. CASE i \notin S
    <3>1. S \cap 1..i = S \cap 1..(i - 1)
      BY <2>5
    <3>2. f[i] = f[i - 1] /\ f[i - 1] \in Nat /\ s[i] = 0
      BY <2>2, <2>3, <2>5, <3>1
    <3> QED
      BY <3>2
  <2> QED
    BY <2>4, <2>5
<1>4. Totals(f, s, n)
  BY <1>2, <1>3 DEF Totals
<1>5. f[n] = Cardinality(S)
  <2>1. S \cap 1..n = S
    OBVIOUS
  <2>2. f[n] = Cardinality(S \cap 1..n)
    OBVIOUS
  <2> QED
    BY ONLY <2>1, <2>2
<1> HIDE DEF f
<1> QED
  BY <1>4, <1>5, SumIsTotal

(* The loops over a pod's containers.                                      *)
LEMMA RestartsOfContainers ==
    ASSUME NEW pod, NEW m \in Nat, NEW n \in Nat, m <= n,
           DOMAIN pod.statuses = 1..m, Len(pod.statuses) = m,
           DOMAIN pod.containers = 1..n,
           \A i \in 1..m : pod.statuses[i].restarts \in Nat
    PROVE  TotalRestarts(ExtractContainerInfo(pod)) =
               Sum([i \in DOMAIN pod.statuses |-> pod.statuses[i].restarts])
<1> DEFINE s == [i \in 1..m |-> pod.statuses[i].restarts]
           containers == ExtractContainerInfo(pod)
           t == [i \in 1..n |-> containers[i].restartCount]
<1>1. DOMAIN containers = 1..n
  BY DEF ExtractContainerInfo
<1>2. \A i \in 1..n : containers[i].restartCount =
                          IF i <= m THEN pod.statuses[i].restarts ELSE 0
  BY DEF ExtractContainerInfo
<1>3. TotalRestarts(containers) = Sum(t)
  BY <1>1 DEF TotalRestarts
<1> HIDE DEF containers
<1>4. Len(s) = m /\ Len(t) = n
  OBVIOUS
<1>5. \A i \in 1..m : s[i] \in Nat
  OBVIOUS
<1>6. \A i \in 1..n : t[i] = IF i <= m THEN s[i] ELSE 0
  BY <1>2
<1> HIDE DEF s, t
<1>7. Sum(t) = Sum(s)
  BY <1>4, <1>5, <1>6, SumOfPadded
<1> QED
  BY <1>3, <1>7 DEF s, containers

(* No more containers are ready than there are, and as many as statuses    *)
(* are.                                                                    *)
LEMMA ReadyAmongContainers ==
    ASSUME NEW pod, NEW m \in Nat, NEW n \in Nat, m <= n,
           DOMAIN pod.statuses = 1..m, Len(pod.statuses) = m,
           DOMAIN pod.containers = 1..n,
           \A i \in 1..m : pod.statuses[i].ready \in BOOLEAN
    PROVE  LET ready == ReadyContainers(ExtractContainerInfo(pod)) IN
           /\ ready = Cardinality({i \in DOMAIN pod.statuses : pod.statuses[i].ready})
           /\ ready <= n
<1> DEFINE S == {i \in DOMAIN pod.statuses : pod.statuses[i].ready}
           containers == ExtractContainerInfo(pod)
           t == [i \in 1..n |-> IF containers[i].ready THEN 1 ELSE 0]
<1>1. DOMAIN containers = 1..n
  BY DEF ExtractContainerInfo
<1>2. ASSUME NEW i \in 1..n
      PROVE  containers[i].ready <=> i \in S
  <2>1. containers[i].ready = (i <= m /\ pod.statuses[i].ready)
    BY DEF ExtractContainerInfo
  <2>2. i \in S <=> i <= m /\ pod.statuses[i].ready
    OBVIOUS
  <2> QED
    BY <2>1, <2>2, Zenon
<1>3. ReadyContainers(containers) = Sum(t)
  BY <1>1 DEF ReadyContainers
<1> HIDE DEF containers
<1>4. Len(t) = n
  OBVIOUS
<1>5. \A i \in 1..n : t[i] = IF i \in S THEN 1 ELSE 0
  BY <1>2
<1>6. S \in SUBSET (1..n)
  OBVIOUS
<1> HIDE DEF S, t
<1>7. Sum(t) = Cardinality(S)
  BY <1>4, <1>5, <1>6, SumCounts
<1>8. Cardinality(S) <= n
  <2>1. IsFiniteSet(1..n) /\ Cardinality(1..n) = n
    BY FS_Interval
  <2>2. Cardinality(S) <= Cardinality(1..n)
    BY ONLY <1>6, <2>1, FS_Subset
  <2> QED
    BY ONLY <2>1, <2>2
<1> QED
  BY <1>3, <1>7, <1>8 DEF S, containers

(* The pairs of a map are all there.                                       *)
LEMMA PairsAreAll ==
    ASSUME NEW S, IsFiniteSet(S)
    PROVE  Range(SetToSeq(S)) = S /\ SetToSeq(S) \in Seq(S)
<1> PICK n \in Nat : n = Cardinality(S)
  BY FS_CardinalityType
<1>1. \E f \in [1..n -> S] : IsInjective(f)
  BY FS_CardinalityType DEF ExistsBijection, Bijection, Injection
<1>2. SetToSeq(S) \in [1..n -> S] /\ IsInjective(SetToSeq(S))
  BY <1>1 DEF SetToSeq
<1>3. SetToSeq(S) \in Injection(1..n, S)
  BY <1>2 DEF Injection
<1>4. Cardinality(1..n) = n
  BY FS_Interval
<1>5. SetToSeq(S) \in Surjection(1..n, S)
  BY <1>3, <1>4, FS_Injection
<1> QED
  BY <1>2, <1>5 DEF Surjection, Range

-----------------------------------------------------------------------------
(* Ages.                                                                   *)

(* Sequences of up to three elements.  A sequence of two is a pair.        *)
LEMMA IsPair ==
    ASSUME NEW S, NEW s \in Seq(S), Len(s) = 2
    PROVE  s = <<s[1], s[2]>>
<1>1. s[1] \in S /\ s[2] \in S
  BY ElementOfSeq
<1>2. <<s[1], s[2]>> \in Seq(S)
  BY <1>1
<1>3. Len(<<s[1], s[2]>>) = 2 /\ <<s[1], s[2]>>[1] = s[1] /\ <<s[1], s[2]>>[2] = s[2]
  OBVIOUS
<1>4. \A i \in 1..2 : s[i] = <<s[1], s[2]>>[i]
  <2>1. \A i \in 1..2 : i = 1 \/ i = 2
    OBVIOUS
  <2> QED
    BY <1>3, <2>1
<1> QED
  BY <1>2, <1>3, <1>4, SeqEqual

(* Two ways to make a pair.                                                *)
LEMMA Pairs ==
    ASSUME NEW x, NEW y
    PROVE  <<x>> \o <<y>> = <<x, y>> /\ Append(<<x>>, y) = <<x, y>>
<1> DEFINE S == {x, y}
<1>1. <<x>> \in Seq(S) /\ <<y>> \in Seq(S) /\ Len(<<x>>) = 1 /\ Len(<<y>>) = 1
  OBVIOUS
<1>2. <<x>> \o <<y>> = <<x, y>>
  <2>1. /\ <<x>> \o <<y>> \in Seq(S) /\ Len(<<x>> \o <<y>>) = 2
        /\ (<<x>> \o <<y>>)[1] = x /\ (<<x>> \o <<y>>)[2] = y
    BY <1>1, ConcatProperties
  <2> HIDE DEF S
  <2> QED
    BY ONLY <2>1, IsPair
<1>3. Append(<<x>>, y) = <<x, y>>
  <2>1. /\ Append(<<x>>, y) \in Seq(S) /\ Len(Append(<<x>>, y)) = 2
        /\ Append(<<x>>, y)[1] = x /\ Append(<<x>>, y)[2] = y
    BY <1>1
  <2> HIDE DEF S
  <2> QED
    BY ONLY <2>1, IsPair
<1> QED
  BY <1>2, <1>3

(* The first two of three.                                                 *)
LEMMA Triples ==
    ASSUME NEW x, NEW y, NEW z
    PROVE  LET s == <<x, y>> \o <<z>> IN Len(s) = 3 /\ SubSeq(s, 1, 2) = <<x, y>>
<1> DEFINE S == {x, y, z}
           s == <<x, y>> \o <<z>>
<1>1. <<x, y>> \in Seq(S) /\ <<z>> \in Seq(S) /\ Len(<<x, y>>) = 2 /\ Len(<<z>>) = 1
  OBVIOUS
<1>2. s \in Seq(S) /\ Len(s) = 3 /\ s[1] = x /\ s[2] = y
  BY <1>1, ConcatProperties
<1> HIDE DEF s, S
<1>3. /\ SubSeq(s, 1, 2) \in Seq(S) /\ Len(SubSeq(s, 1, 2)) = 2
      /\ SubSeq(s, 1, 2)[1] = x /\ SubSeq(s, 1, 2)[2] = y
  <2>1. \A i \in 1..2 : s[i] \in S
    <3>1. x \in S /\ y \in S
      BY DEF S
    <3>2. \A i \in 1..2 : i = 1 \/ i = 2
      OBVIOUS
    <3> QED
      BY ONLY <1>2, <3>1, <3>2
  <2>2. /\ SubSeq(s, 1, 2) \in Seq(S)
        /\ Len(SubSeq(s, 1, 2)) = IF 1 <= 2 THEN 2 - 1 + 1 ELSE 0
        /\ \A i \in 1..(2 - 1 + 1) : SubSeq(s, 1, 2)[i] = s[1 + i - 1]
    BY <2>1, SubSeqProperties
  <2>3. SubSeq(s, 1, 2)[1] = s[1] /\ SubSeq(s, 1, 2)[2] = s[2]
    <3>1. 1 \in 1..(2 - 1 + 1) /\ 2 \in 1..(2 - 1 + 1) /\ 1 + 1 - 1 = 1 /\ 1 + 2 - 1 = 2
      OBVIOUS
    <3> QED
      BY ONLY <2>2, <3>1
  <2>4. Len(SubSeq(s, 1, 2)) = 2
    BY ONLY <2>2
  <2> QED
    BY ONLY <1>2, <2>2, <2>3, <2>4
<1>4. SubSeq(s, 1, 2) = <<x, y>>
  BY ONLY <1>3, IsPair
<1> QED
  BY <1>2, <1>4 DEF s

(* An empty sequence adds nothing.                                         *)
LEMMA Empties ==
    ASSUME NEW x, NEW y
    PROVE  /\ <<>> \o <<x>> = <<x>> /\ <<x>> \o <<>> = <<x>> /\ <<x, y>> \o <<>> = <<x, y>>
           /\ <<>> \o <<>> = <<>> /\ Append(<<>>, x) = <<x>>
<1>1. Append(<<>>, x) = <<x>>
  OBVIOUS
<1> QED
  BY <1>1

(* An age of one unit, and of two.                                         *)
LEMMA OneUnitReadsBack ==
    ASSUME NEW seconds \in Nat, NEW n \in Int, NEW unit \in Nat \ {0},
           n * unit \in Int, n * unit <= seconds, seconds < n * unit + unit
    PROVE  AgeReadsBack(<< <<n, unit>> >>, seconds)
<1> DEFINE age == << <<n, unit>> >>
           s == [i \in DOMAIN age |-> age[i][1] * age[i][2]]
<1>1. age # Unknown /\ Len(age) = 1 /\ age[Len(age)][2] = unit
  BY DEF Unknown
<1>2. Len(s) = 1 /\ s[1] = n * unit
  OBVIOUS
<1>3. Seconds(age) = n * unit
  BY <1>2, SumOfOne DEF Seconds
<1> HIDE DEF age
<1> QED
  BY <1>1, <1>3 DEF AgeReadsBack, age

(* Two units.                                                              *)
LEMMA TwoUnitsReadBack ==
    ASSUME NEW seconds \in Nat, NEW n \in Int, NEW k \in Int, NEW u \in Nat \ {0},
           NEW v \in Nat \ {0}, n * u \in Int, k * v \in Int, k * v < u,
           n * u + k * v <= seconds, seconds < n * u + k * v + v
    PROVE  AgeReadsBack(<< <<n, u>>, <<k, v>> >>, seconds)
<1> DEFINE age == << <<n, u>>, <<k, v>> >>
           s == [i \in DOMAIN age |-> age[i][1] * age[i][2]]
<1>1. /\ age # Unknown /\ Len(age) = 2 /\ age[Len(age)][2] = v
      /\ \A i \in 1..(Len(age) - 1) : age[i + 1][1] * age[i + 1][2] < age[i][2]
  BY DEF Unknown
<1>2. Len(s) = 2 /\ s[1] = n * u /\ s[2] = k * v
  OBVIOUS
<1>3. Seconds(age) = n * u + k * v
  BY <1>2, SumOfTwo DEF Seconds
<1> HIDE DEF age
<1> QED
  BY <1>1, <1>3 DEF AgeReadsBack, age

(* Division by the units, and the units of an age.                         *)
LEMMA Quotients ==
    ASSUME NEW x \in Int, 0 <= x, NEW q \in Int, NEW r \in Int
    PROVE  /\ q = x \div 60 /\ r = x % 60 => x = q * 60 + r /\ 0 <= q /\ 0 <= r /\ r < 60
           /\ q = x \div 24 /\ r = x % 24 => x = q * 24 + r /\ 0 <= q /\ 0 <= r /\ r < 24
           /\ x = q * 3600 + r /\ 0 <= r /\ r < 3600 => x \div 3600 = q
           /\ x = q * 86400 + r /\ 0 <= r /\ r < 86400 => x \div 86400 = q
<1>1. q = x \div 60 /\ r = x % 60 => x = q * 60 + r /\ 0 <= q /\ 0 <= r /\ r < 60
  OBVIOUS
<1>2. q = x \div 24 /\ r = x % 24 => x = q * 24 + r /\ 0 <= q /\ 0 <= r /\ r < 24
  OBVIOUS
<1>3. x = q * 3600 + r /\ 0 <= r /\ r < 3600 => x \div 3600 = q
  OBVIOUS
<1>4. x = q * 86400 + r /\ 0 <= r /\ r < 86400 => x \div 86400 = q
  OBVIOUS
<1> QED
  BY ONLY <1>1, <1>2, <1>3, <1>4

(* d days, h hours, m minutes and s seconds.                               *)
Composed(age, d, h, m, s) ==
    /\ d \in Int /\ h \in Int /\ m \in Int /\ s \in Int
    /\ 0 <= d /\ 0 <= h /\ h < 24 /\ 0 <= m /\ m < 60 /\ 0 <= s /\ s < 60
    /\ age = d * 86400 + h * 3600 + m * 60 + s

(* The quotients and remainders that the units are computed from.          *)
Divided(age, a, b, d, h, m, s) ==
    /\ a \in Int /\ s \in Int /\ a = age \div 60 /\ s = age % 60
    /\ b \in Int /\ m \in Int /\ b = a \div 60 /\ m = a % 60
    /\ d \in Int /\ h \in Int /\ d = b \div 24 /\ h = b % 24

(* Every age has these quotients and remainders.                           *)
LEMMA AgeIsDivided ==
    ASSUME NEW age \in Int
    PROVE  \E a, b, d, h, m, s : Divided(age, a, b, d, h, m, s)
<1>1. PICK a \in Int, s \in Int : a = age \div 60 /\ s = age % 60
  OBVIOUS
<1>2. PICK b \in Int, m \in Int : b = a \div 60 /\ m = a % 60
  OBVIOUS
<1>3. PICK d \in Int, h \in Int : d = b \div 24 /\ h = b % 24
  OBVIOUS
<1>4. Divided(age, a, b, d, h, m, s)
  BY <1>1, <1>2, <1>3 DEF Divided
<1> QED
  BY ONLY <1>4

(* AgeUnits computes the days, hours and minutes of an age.                *)
LEMMA UnitsAreComposed ==
    ASSUME NEW age \in Int, 0 <= age, NEW a, NEW b, NEW d, NEW h, NEW m, NEW s,
           Divided(age, a, b, d, h, m, s)
    PROVE  /\ Composed(age, d, h, m, s) /\ age % 60 = s
           /\ AgeUnits(age) = << <<d, Day>>, <<h, Hour>>, <<m, Minute>> >>
<1>0. /\ a \in Int /\ s \in Int /\ a = age \div 60 /\ s = age % 60
      /\ b \in Int /\ m \in Int /\ b = a \div 60 /\ m = a % 60
      /\ d \in Int /\ h \in Int /\ d = b \div 24 /\ h = b % 24
  BY DEF Divided
<1>1. age = a * 60 + s /\ 0 <= a /\ 0 <= s /\ s < 60
  BY <1>0, Quotients
<1>2. a = b * 60 + m /\ 0 <= b /\ 0 <= m /\ m < 60
  BY <1>0, <1>1, Quotients
<1>3. b = d * 24 + h /\ 0 <= d /\ 0 <= h /\ h < 24
  BY <1>0, <1>2, Quotients
<1>4. age \div 3600 = b
  <2>1. ASSUME NEW r \in Int, r = m * 60 + s
        PROVE  0 <= r /\ r < 3600 /\ age = b * 3600 + r
    BY <1>0, <1>1, <1>2, <2>1
  <2>2. m * 60 + s \in Int
    BY <1>0
  <2> QED
    BY <1>0, <2>1, <2>2, Quotients
<1>5. age \div 86400 = d
  <2>1. ASSUME NEW r \in Int, r = h * 3600 + m * 60 + s
        PROVE  0 <= r /\ r < 86400 /\ age = d * 86400 + r
    BY <1>0, <1>1, <1>2, <1>3, <2>1
  <2>2. h * 3600 + m * 60 + s \in Int
    BY <1>0
  <2> QED
    BY <1>0, <2>1, <2>2, Quotients
<1>6. Composed(age, d, h, m, s)
  BY <1>0, <1>1, <1>2, <1>3 DEF Composed
<1>7. AgeUnits(age) = << <<d, Day>>, <<h, Hour>>, <<m, Minute>> >>
  BY <1>0, <1>4, <1>5 DEF AgeUnits, Day, Hour, Minute
<1> QED
  BY <1>0, <1>6, <1>7

(* So every age is composed of its units.                                  *)
LEMMA UnitsOfAge ==
    ASSUME NEW age \in Int, 0 <= age
    PROVE  \E d, h, m, s :
              /\ Composed(age, d, h, m, s) /\ age % 60 = s
              /\ AgeUnits(age) = << <<d, Day>>, <<h, Hour>>, <<m, Minute>> >>
<1>1. PICK a, b, d, h, m, s : Divided(age, a, b, d, h, m, s)
  BY AgeIsDivided
<1>2. /\ Composed(age, d, h, m, s) /\ age % 60 = s
      /\ AgeUnits(age) = << <<d, Day>>, <<h, Hour>>, <<m, Minute>> >>
  BY <1>1, UnitsAreComposed
<1> QED
  BY ONLY <1>2

(* An age of whole units reads back, whatever was cut off.                 *)
LEMMA DaysAndHours ==
    ASSUME NEW age \in Int, 0 <= age, NEW d, NEW h, NEW m, NEW s, Composed(age, d, h, m, s)
    PROVE  /\ AgeReadsBack(<< <<d, 86400>>, <<h, 3600>> >>, age)
           /\ h = 0 => AgeReadsBack(<< <<d, 86400>>, <<m, 60>> >>, age)
           /\ h = 0 => AgeReadsBack(<< <<d, 86400>> >>, age)
           /\ d = 0 => AgeReadsBack(<< <<h, 3600>>, <<m, 60>> >>, age)
           /\ d = 0 /\ m = 0 => AgeReadsBack(<< <<h, 3600>> >>, age)
           /\ d = 0 /\ h = 0 => AgeReadsBack(<< <<m, 60>>, <<s, 1>> >>, age)
           /\ d = 0 /\ h = 0 => AgeReadsBack(<< <<m, 60>> >>, age)
           /\ d = 0 /\ h = 0 /\ m = 0 => AgeReadsBack(<< <<s, 1>> >>, age)
<1>1. /\ d \in Int /\ h \in Int /\ m \in Int /\ s \in Int
      /\ 0 <= d /\ 0 <= h /\ h < 24 /\ 0 <= m /\ m < 60 /\ 0 <= s /\ s < 60
      /\ age = d * 86400 + h * 3600 + m * 60 + s
  BY DEF Composed
<1>2. AgeReadsBack(<< <<d, 86400>>, <<h, 3600>> >>, age)
  BY <1>1, TwoUnitsReadBack
<1>3. h = 0 => AgeReadsBack(<< <<d, 86400>>, <<m, 60>> >>, age)
  BY <1>1, TwoUnitsReadBack
<1>4. h = 0 => AgeReadsBack(<< <<d, 86400>> >>, age)
  BY <1>1, OneUnitReadsBack
<1>5. d = 0 => AgeReadsBack(<< <<h, 3600>>, <<m, 60>> >>, age)
  BY <1>1, TwoUnitsReadBack
<1>6. d = 0 /\ m = 0 => AgeReadsBack(<< <<h, 3600>> >>, age)
  BY <1>1, OneUnitReadsBack
<1>7. d = 0 /\ h = 0 => AgeReadsBack(<< <<m, 60>>, <<s, 1>> >>, age)
  BY <1>1, TwoUnitsReadBack
<1>8. d = 0 /\ h = 0 => AgeReadsBack(<< <<m, 60>> >>, age)
  BY <1>1, OneUnitReadsBack
<1>9. d = 0 /\ h = 0 /\ m = 0 => AgeReadsBack(<< <<s, 1>> >>, age)
  BY <1>1, OneUnitReadsBack
<1> QED
  BY <1>2, <1>3, <1>4, <1>5, <1>6, <1>7, <1>8, <1>9

(* One or two units are never cut off.                                     *)
LEMMA Lengths ==
    /\ \A x : Len(<<x>>) = 1 /\ ~(Len(<<x>>) > 2)
    /\ \A x, y : Len(<<x, y>>) = 2 /\ ~(Len(<<x, y>>) > 2)
  OBVIOUS

(* The age of a pod, by which of its units are zero                        *)
(* (pod_converter.go:277).                                                 *)
LEMMA PodAgeReadsBack ==
    ASSUME NEW age \in Int
    PROVE  AgeReadsBack(PodAge(age), age)
<1>1. CASE age < 0
  BY <1>1 DEF PodAge, AgeReadsBack
<1>2. CASE 0 <= age
  <2>1. PICK d, h, m, s :
            /\ Composed(age, d, h, m, s) /\ age % 60 = s
            /\ AgeUnits(age) = << <<d, Day>>, <<h, Hour>>, <<m, Minute>> >>
    BY <1>2, UnitsOfAge
  <2>2. /\ d \in Int /\ h \in Int /\ m \in Int /\ s \in Int
        /\ 0 <= d /\ 0 <= h /\ h < 24 /\ 0 <= m /\ m < 60 /\ 0 <= s /\ s < 60
        /\ age = d * 86400 + h * 3600 + m * 60 + s
    BY <2>1 DEF Composed
  <2>3. (d = 0 \/ d > 0) /\ (h = 0 \/ h > 0) /\ (m = 0 \/ m > 0)
    BY <2>2
  <2> DEFINE D == <<d, 86400>>
             H == <<h, 3600>>
             M == <<m, 60>>
  <2>4. Composed(age, d, h, m, s)
    BY ONLY <2>1
  <2>5. /\ AgeReadsBack(<<D, H>>, age)
        /\ h = 0 => AgeReadsBack(<<D, M>>, age) /\ AgeReadsBack(<<D>>, age)
        /\ d = 0 => AgeReadsBack(<<H, M>>, age)
        /\ d = 0 /\ m = 0 => AgeReadsBack(<<H>>, age)
        /\ d = 0 /\ h = 0 => AgeReadsBack(<<M, <<s, 1>> >>, age) /\ AgeReadsBack(<<M>>, age)
        /\ d = 0 /\ h = 0 /\ m = 0 => AgeReadsBack(<< <<s, 1>> >>, age)
    BY ONLY <1>2, <2>4, DaysAndHours, age \in Int
  <2>6. /\ d = 0 => Part(D) = <<>>
        /\ d > 0 => Part(D) = <<D>>
        /\ h = 0 => Part(H) = <<>>
        /\ h > 0 => Part(H) = <<H>>
        /\ m = 0 => Part(M) = <<>>
        /\ m > 0 => Part(M) = <<M>>
    BY <2>2 DEF Part
  <2> DEFINE parts == Part(D) \o Part(H) \o Part(M)
             all == IF age < 3600 THEN Append(parts, <<s, 1>>) ELSE parts
  <2>7. PodAge(age) = IF Len(all) > 2 THEN SubSeq(all, 1, 2) ELSE all
    BY <1>2, <2>1 DEF PodAge, Day, Hour, Minute
  <2>8. /\ d > 0 \/ h > 0 => all = parts
        /\ d = 0 /\ h = 0 => all = Append(parts, <<s, 1>>)
    <3>1. (d > 0 \/ h > 0 => ~(age < 3600)) /\ (d = 0 /\ h = 0 => age < 3600)
      BY ONLY <2>2
    <3> HIDE DEF parts
    <3> QED
      BY ONLY <3>1
  <2>9. parts = Part(D) \o Part(H) \o Part(M)
    OBVIOUS
  <2> HIDE DEF D, H, M, parts, all
  <2>10. CASE d > 0 /\ h > 0
    <3>1. all = <<D, H>> \o Part(M)
      BY ONLY <2>6, <2>8, <2>9, <2>10, Pairs
    <3>2. PodAge(age) = <<D, H>>
      <4>1. CASE m > 0
        <5>1. all = <<D, H>> \o <<M>>
          BY ONLY <2>6, <3>1, <4>1
        <5>2. Len(all) = 3 /\ SubSeq(all, 1, 2) = <<D, H>>
          BY ONLY <5>1, Triples
        <5> QED
          BY ONLY <2>7, <5>2
      <4>2. CASE m = 0
        <5>1. all = <<D, H>>
          BY ONLY <2>6, <3>1, <4>2, Empties
        <5> QED
          BY ONLY <2>7, <5>1, Lengths
      <4> QED
        BY ONLY <2>3, <4>1, <4>2
    <3> QED
      BY ONLY <2>5, <3>2
  <2>11. CASE d > 0 /\ h = 0 /\ m > 0
    <3>1. parts = <<D>> \o <<>> \o <<M>>
      BY ONLY <2>6, <2>9, <2>11
    <3>2. all = <<D, M>>
      BY ONLY <2>8, <2>11, <3>1, Pairs, Empties
    <3>3. PodAge(age) = <<D, M>>
      BY ONLY <2>7, <3>2, Lengths
    <3> QED
      BY ONLY <2>5, <2>11, <3>3
  <2>12. CASE d > 0 /\ h = 0 /\ m = 0
    <3>1. parts = <<D>> \o <<>> \o <<>>
      BY ONLY <2>6, <2>9, <2>12
    <3>2. all = <<D>>
      BY ONLY <2>8, <2>12, <3>1, Pairs, Empties
    <3>3. PodAge(age) = <<D>>
      BY ONLY <2>7, <3>2, Lengths
    <3> QED
      BY ONLY <2>5, <2>12, <3>3
  <2>13. CASE d = 0 /\ h > 0 /\ m > 0
    <3>1. parts = <<>> \o <<H>> \o <<M>>
      BY ONLY <2>6, <2>9, <2>13
    <3>2. all = <<H, M>>
      BY ONLY <2>8, <2>13, <3>1, Pairs, Empties
    <3>3. PodAge(age) = <<H, M>>
      BY ONLY <2>7, <3>2, Lengths
    <3> QED
      BY ONLY <2>5, <2>13, <3>3
  <2>14. CASE d = 0 /\ h > 0 /\ m = 0
    <3>1. parts = <<>> \o <<H>> \o <<>>
      BY ONLY <2>6, <2>9, <2>14
    <3>2. all = <<H>>
      BY ONLY <2>8, <2>14, <3>1, Pairs, Empties
    <3>3. PodAge(age) = <<H>>
      BY ONLY <2>7, <3>2, Lengths
    <3> QED
      BY ONLY <2>5, <2>14, <3>3
  <2>15. CASE d = 0 /\ h = 0 /\ m > 0
    <3>1. parts = <<>> \o <<>> \o <<M>>
      BY ONLY <2>6, <2>9, <2>15
    <3>2. all = <<M, <<s, 1>> >>
      BY ONLY <2>8, <2>15, <3>1, Pairs, Empties
    <3>3. PodAge(age) = <<M, <<s, 1>> >>
      BY ONLY <2>7, <3>2, Lengths
    <3> QED
      BY ONLY <2>5, <2>15, <3>3
  <2>16. CASE d = 0 /\ h = 0 /\ m = 0
    <3>1. parts = <<>> \o <<>> \o <<>>
      BY ONLY <2>6, <2>9, <2>16
    <3>2. all = << <<s, 1>> >>
      BY ONLY <2>8, <2>16, <3>1, Pairs, Empties
    <3>3. PodAge(age) = << <<s, 1>> >>
      BY ONLY <2>7, <3>2, Lengths
    <3> QED
      BY ONLY <2>5, <2>16, <3>3
  <2> QED
    BY ONLY <2>3, <2>10, <2>11, <2>12, <2>13, <2>14, <2>15, <2>16
<1> QED
  BY <1>1, <1>2

(* The age of a namespace (namespace_service_impl.go:89).                  *)
LEMMA NamespaceAgeReadsBack ==
    ASSUME NEW age \in Int
    PROVE  AgeReadsBack(NamespaceAge(age), age)
<1>1. CASE age < 0
  BY <1>1 DEF NamespaceAge, AgeReadsBack
<1>2. CASE 0 <= age
  <2>1. PICK d, h, m, s :
            /\ Composed(age, d, h, m, s) /\ age % 60 = s
            /\ AgeUnits(age) = << <<d, Day>>, <<h, Hour>>, <<m, Minute>> >>
    BY <1>2, UnitsOfAge
  <2>2. /\ d \in Int /\ h \in Int /\ m \in Int /\ s \in Int
        /\ 0 <= d /\ 0 <= h /\ h < 24 /\ 0 <= m /\ m < 60 /\ 0 <= s /\ s < 60
        /\ age = d * 86400 + h * 3600 + m * 60 + s
    BY <2>1 DEF Composed
  <2>3. (d = 0 \/ d > 0) /\ (h = 0 \/ h > 0) /\ (m = 0 \/ m > 0)
    BY <2>2
  <2> DEFINE D == <<d, 86400>>
             H == <<h, 3600>>
             M == <<m, 60>>
  <2>4. Composed(age, d, h, m, s)
    BY ONLY <2>1
  <2>5. /\ AgeReadsBack(<<D, H>>, age)
        /\ h = 0 => AgeReadsBack(<<D, M>>, age) /\ AgeReadsBack(<<D>>, age)
        /\ d = 0 => AgeReadsBack(<<H, M>>, age)
        /\ d = 0 /\ m = 0 => AgeReadsBack(<<H>>, age)
        /\ d = 0 /\ h = 0 => AgeReadsBack(<<M, <<s, 1>> >>, age) /\ AgeReadsBack(<<M>>, age)
        /\ d = 0 /\ h = 0 /\ m = 0 => AgeReadsBack(<< <<s, 1>> >>, age)
    BY ONLY <1>2, <2>4, DaysAndHours, age \in Int
  <2>6. /\ d = 0 => Part(D) = <<>>
        /\ d > 0 => Part(D) = <<D>>
        /\ h = 0 => Part(H) = <<>>
        /\ h > 0 => Part(H) = <<H>>
        /\ m = 0 => Part(M) = <<>>
        /\ m > 0 => Part(M) = <<M>>
    BY <2>2 DEF Part
  <2> DEFINE long == IF d > 0 THEN Part(D) \o Part(H) ELSE Part(H) \o Part(M)
  <2>7. NamespaceAge(age) = IF age < 60 THEN << <<age, 1>> >> ELSE long
    BY <1>2, <2>1 DEF NamespaceAge, Day, Hour, Minute
  <2>8. /\ d > 0 => long = Part(D) \o Part(H)
        /\ d = 0 => long = Part(H) \o Part(M)
    BY <2>2
  <2> HIDE DEF D, H, M, long
  <2>9. /\ d > 0 \/ h > 0 \/ m > 0 => NamespaceAge(age) = long
        /\ d = 0 /\ h = 0 /\ m = 0 => NamespaceAge(age) = << <<s, 1>> >>
    <3>1. /\ d > 0 \/ h > 0 \/ m > 0 => ~(age < 60)
          /\ d = 0 /\ h = 0 /\ m = 0 => age < 60 /\ age = s
      BY ONLY <2>2
    <3> QED
      BY ONLY <2>7, <3>1
  <2>10. CASE d > 0 /\ h > 0
    <3>1. NamespaceAge(age) = <<D>> \o <<H>>
      BY ONLY <2>6, <2>8, <2>9, <2>10
    <3>2. NamespaceAge(age) = <<D, H>>
      BY ONLY <3>1, Pairs, Empties
    <3> QED
      BY ONLY <2>5, <2>10, <3>2
  <2>11. CASE d > 0 /\ h = 0
    <3>1. NamespaceAge(age) = <<D>> \o <<>>
      BY ONLY <2>6, <2>8, <2>9, <2>11
    <3>2. NamespaceAge(age) = <<D>>
      BY ONLY <3>1, Pairs, Empties
    <3> QED
      BY ONLY <2>5, <2>11, <3>2
  <2>12. CASE d = 0 /\ h > 0 /\ m > 0
    <3>1. NamespaceAge(age) = <<H>> \o <<M>>
      BY ONLY <2>6, <2>8, <2>9, <2>12
    <3>2. NamespaceAge(age) = <<H, M>>
      BY ONLY <3>1, Pairs, Empties
    <3> QED
      BY ONLY <2>5, <2>12, <3>2
  <2>13. CASE d = 0 /\ h > 0 /\ m = 0
    <3>1. NamespaceAge(age) = <<H>> \o <<>>
      BY ONLY <2>6, <2>8, <2>9, <2>13
    <3>2. NamespaceAge(age) = <<H>>
      BY ONLY <3>1, Pairs, Empties
    <3> QED
      BY ONLY <2>5, <2>13, <3>2
  <2>14. CASE d = 0 /\ h = 0 /\ m > 0
    <3>1. NamespaceAge(age) = <<>> \o <<M>>
      BY ONLY <2>6, <2>8, <2>9, <2>14
    <3>2. NamespaceAge(age) = <<M>>
      BY ONLY <3>1, Pairs, Empties
    <3> QED
      BY ONLY <2>5, <2>14, <3>2
  <2>15. CASE d = 0 /\ h = 0 /\ m = 0
    <3>1. NamespaceAge(age) = << <<s, 1>> >>
      BY ONLY <2>9, <2>15
    <3> QED
      BY ONLY <2>5, <2>15, <3>1
  <2> QED
    BY ONLY <2>3, <2>10, <2>11, <2>12, <2>13, <2>14, <2>15
<1> QED
  BY <1>1, <1>2

-----------------------------------------------------------------------------
(* Nulls in answers: the converters leave no pointer nil that the schema   *)
(* does not permit to be null.                                             *)

(* No pointer of a field's value is nil.                                   *)
SetField(f, v) ==
    f.of \notin Scalars => IF f.list THEN \A i \in DOMAIN v : v[i] # Null ELSE v # Null

Flat(type) == \A n \in DOMAIN Types[type] : Types[type][n].of \in Scalars

SetObject(type, p) ==
    /\ p # Null
    /\ \A n \in DOMAIN Types[type] : SetField(Types[type][n], p[1][n])

(* A reference is not nil.                                                 *)
LEMMA RefIsSet == \A v : Ref(v) # Null
  BY DEF Ref, Null

(* The data of a type is there when all that may not be null is.           *)
LEMMA DispatchIsData ==
    ASSUME NEW type, NEW out,
           \A n \in DOMAIN out : out[n] # Null \/ Types[type][n].null
    PROVE  Dispatch(type, out) # Null
  BY RefIsSet DEF Dispatch

(* A flat object is marshalled to data if its members are set.             *)
LEMMA FlatIsData ==
    ASSUME NEW type, Flat(type), NEW p, p # Null
    PROVE  MarshalFlat(type, p) # Null
<1> DEFINE out == [n \in DOMAIN Types[type] |-> MarshalField(Types[type][n], p[1][n], <<>>)]
<1>1. ASSUME NEW n \in DOMAIN Types[type]
      PROVE  out[n] # Null \/ Types[type][n].null
  BY RefIsSet DEF Flat, MarshalField
<1> HIDE DEF out
<1>2. DOMAIN out = DOMAIN Types[type]
  BY DEF out
<1>3. Dispatch(type, out) # Null
  BY <1>1, <1>2, DispatchIsData
<1> QED
  BY <1>3 DEF MarshalFlat, out

(* A field that holds no null object is marshalled to data.                *)
LEMMA FieldIsData ==
    ASSUME NEW f, NEW v, SetField(f, v), NEW marshalled,
           \A i \in DOMAIN Objects(f, v) : Objects(f, v)[i] # Null => marshalled[i] # Null,
           DOMAIN marshalled = DOMAIN Objects(f, v)
    PROVE  MarshalField(f, v, marshalled) # Null \/ f.null
<1>1. CASE f.of \in Scalars
  BY <1>1, RefIsSet DEF MarshalField
<1>2. CASE f.of \notin Scalars /\ f.list
  BY <1>2, RefIsSet DEF MarshalField, MarshalList, SetField, Objects
<1>3. CASE f.of \notin Scalars /\ ~f.list
  BY <1>3, RefIsSet DEF MarshalField, SetField, Objects
<1> QED
  BY <1>1, <1>2, <1>3

(* An object whose objects are flat, and an answer.                        *)
LEMMA NestedIsData ==
    ASSUME NEW type, NEW p, SetObject(type, p),
           \A n \in DOMAIN Types[type] :
              Types[type][n].of \notin Scalars => Flat(Types[type][n].of)
    PROVE  MarshalNested(type, p) # Null
<1> DEFINE out == [n \in DOMAIN Types[type] |-> NestedField(Types[type][n], p[1][n])]
<1>1. ASSUME NEW n \in DOMAIN Types[type]
      PROVE  out[n] # Null \/ Types[type][n].null
  <2> DEFINE f == Types[type][n]
             v == p[1][n]
             objects == Objects(f, v)
             marshalled == [i \in DOMAIN objects |-> MarshalFlat(f.of, objects[i])]
  <2>1. f.of \notin Scalars => Flat(f.of)
    OBVIOUS
  <2>2. SetField(f, v)
    BY DEF SetObject
  <2>3. out[n] = MarshalField(f, v, marshalled)
    BY DEF NestedField
  <2> HIDE DEF f, v
  <2>4. DOMAIN marshalled = DOMAIN objects
    OBVIOUS
  <2>5. \A i \in DOMAIN objects : objects[i] # Null => marshalled[i] # Null
    <3>1. CASE f.of \in Scalars
      BY <3>1 DEF Objects
    <3>2. CASE f.of \notin Scalars
      BY <2>1, <3>2, FlatIsData
    <3> QED
      BY <3>1, <3>2
  <2> HIDE DEF marshalled, objects
  <2>6. MarshalField(f, v, marshalled) # Null \/ f.null
    BY <2>2, <2>4, <2>5, FieldIsData DEF objects
  <2> QED
    BY <2>3, <2>6 DEF f
<1> HIDE DEF out
<1>2. DOMAIN out = DOMAIN Types[type]
  BY DEF out
<1>3. Dispatch(type, out) # Null
  BY <1>1, <1>2, DispatchIsData
<1> QED
  BY <1>3 DEF MarshalNested, SetObject, out

(* What the answers of the schema need: pointers that are not nil, two     *)
(* levels deep.                                                            *)
SetAnswer(type, p) ==
    /\ SetObject(type, p)
    /\ \A n \in DOMAIN Types[type] :
         LET f == Types[type][n]
             objects == Objects(f, p[1][n])
         IN  \A i \in DOMAIN objects : SetObject(f.of, objects[i])

(* The objects in an answer hold flat objects only.                        *)
Shallow(type) ==
    \A n \in DOMAIN Types[type] :
        LET of == Types[type][n].of IN
        of \notin Scalars =>
            \A m \in DOMAIN Types[of] : Types[of][m].of \notin Scalars => Flat(Types[of][m].of)

(* So is an answer whose objects, and their own objects, are set.          *)
LEMMA AnswerIsData ==
    ASSUME NEW type, Shallow(type), NEW p, SetAnswer(type, p)
    PROVE  MarshalAnswer(type, p) # Null
<1> DEFINE out == [n \in DOMAIN Types[type] |-> AnswerField(Types[type][n], p[1][n])]
<1>1. ASSUME NEW n \in DOMAIN Types[type]
      PROVE  out[n] # Null \/ Types[type][n].null
  <2> DEFINE f == Types[type][n]
             v == p[1][n]
             objects == Objects(f, v)
             marshalled == [i \in DOMAIN objects |-> MarshalNested(f.of, objects[i])]
  <2>1. f.of \notin Scalars =>
            \A m \in DOMAIN Types[f.of] : Types[f.of][m].of \notin Scalars => Flat(Types[f.of][m].of)
    BY DEF Shallow
  <2>2. SetField(f, v) /\ \A i \in DOMAIN objects : SetObject(f.of, objects[i])
    BY DEF SetAnswer, SetObject
  <2>3. out[n] = MarshalField(f, v, marshalled)
    BY DEF AnswerField
  <2> HIDE DEF f, v
  <2>4. DOMAIN marshalled = DOMAIN objects
    OBVIOUS
  <2>5. \A i \in DOMAIN objects : marshalled[i] # Null
    <3>1. CASE f.of \in Scalars
      BY <3>1 DEF Objects
    <3>2. CASE f.of \notin Scalars
      BY <2>1, <2>2, <3>2, NestedIsData
    <3> QED
      BY <3>1, <3>2
  <2> HIDE DEF marshalled, objects
  <2>6. MarshalField(f, v, marshalled) # Null \/ f.null
    BY <2>2, <2>4, <2>5, FieldIsData DEF objects
  <2> QED
    BY <2>3, <2>6 DEF f
<1> HIDE DEF out
<1>2. DOMAIN out = DOMAIN Types[type]
  BY DEF out
<1>3. Dispatch(type, out) # Null
  BY <1>1, <1>2, DispatchIsData
<1> QED
  BY <1>3 DEF MarshalAnswer, SetAnswer, SetObject, out

FlatTypes == {"HealthResponse", "ReadinessCheck", "SystemInfo", "KubernetesInfo",
              "DatabaseInfo", "KeyValue", "ContainerInfo", "RestartPodResponse",
              "ScaleResponse", "DeletePodResponse", "PodLogLine"}
NestedTypes == {"ReadinessResponse", "InfoResponse", "NamespaceInfo", "PodInfo",
                "DeploymentInfo", "StatefulSetInfo"}
RootTypes == {"NamespaceListResponse", "PodListResponse", "AllPodsResponse",
              "DeploymentListResponse", "StatefulSetListResponse", "PodWatchEvent"}

(* The fields of a type that hold objects.                                 *)
Holds(type, names) ==
    \A n \in DOMAIN Types[type] : Types[type][n].of \in Scalars \/ n \in names

(* The types by their names.                                               *)
LEMMA Entries ==
    /\ Types["HealthResponse"] = HealthResponse /\ Types["ReadinessCheck"] = ReadinessCheck
    /\ Types["ReadinessResponse"] = ReadinessResponse /\ Types["SystemInfo"] = SystemInfo
    /\ Types["KubernetesInfo"] = KubernetesInfo /\ Types["DatabaseInfo"] = DatabaseInfo
    /\ Types["InfoResponse"] = InfoResponse /\ Types["KeyValue"] = KeyValue
    /\ Types["NamespaceInfo"] = NamespaceInfo /\ Types["ContainerInfo"] = ContainerInfo
    /\ Types["PodInfo"] = PodInfo /\ Types["DeploymentInfo"] = DeploymentInfo
    /\ Types["StatefulSetInfo"] = StatefulSetInfo
    /\ Types["RestartPodResponse"] = RestartPodResponse
    /\ Types["ScaleResponse"] = ScaleResponse
    /\ Types["DeletePodResponse"] = DeletePodResponse
    /\ Types["NamespaceListResponse"] = NamespaceListResponse
    /\ Types["PodListResponse"] = PodListResponse
    /\ Types["AllPodsResponse"] = AllPodsResponse
    /\ Types["DeploymentListResponse"] = DeploymentListResponse
    /\ Types["StatefulSetListResponse"] = StatefulSetListResponse
    /\ Types["PodWatchEvent"] = PodWatchEvent /\ Types["PodLogLine"] = PodLogLine
  BY DEF Types

(* The flat types hold no objects.                                         *)
LEMMA FlatTypesAreFlat == \A type \in FlatTypes : Flat(type)
<1> USE Entries DEF Flat, Req, Opt, Many, Str, Int32, Scalars
<1>1. Flat("HealthResponse") /\ Flat("ReadinessCheck") /\ Flat("SystemInfo")
  BY DEF HealthResponse, ReadinessCheck, SystemInfo
<1>2. Flat("KubernetesInfo") /\ Flat("DatabaseInfo") /\ Flat("KeyValue")
  BY DEF KubernetesInfo, DatabaseInfo, KeyValue
<1>3. Flat("ContainerInfo") /\ Flat("RestartPodResponse") 
  BY DEF ContainerInfo, RestartPodResponse
<1>4. Flat("ScaleResponse") /\ Flat("DeletePodResponse") /\ Flat("PodLogLine")
  BY DEF ScaleResponse, DeletePodResponse, PodLogLine
<1> QED
  BY <1>1, <1>2, <1>3, <1>4 DEF FlatTypes

(* The fields of the other types that hold objects.                        *)
LEMMA ObjectsHeld ==
    /\ Holds("ReadinessResponse", {"checks"})
    /\ Holds("InfoResponse", {"service", "kubernetes", "database"})
    /\ Holds("NamespaceInfo", {"labels", "annotations"})
    /\ Holds("PodInfo", {"containers", "labels"})
    /\ Holds("DeploymentInfo", {"labels"}) /\ Holds("StatefulSetInfo", {"labels"})
    /\ Holds("NamespaceListResponse", {"namespaces"})
    /\ Holds("PodListResponse", {"pods"}) /\ Holds("AllPodsResponse", {"pods"})
    /\ Holds("DeploymentListResponse", {"deployments"})
    /\ Holds("StatefulSetListResponse", {"statefulsets"})
    /\ Holds("PodWatchEvent", {"pod"})
<1> USE Entries DEF Holds, Req, Opt, Many, Str, Int32, Scalars
<1>1. Holds("ReadinessResponse", {"checks"}) /\ Holds("PodWatchEvent", {"pod"})
  BY DEF ReadinessResponse, PodWatchEvent
<1>2. Holds("InfoResponse", {"service", "kubernetes", "database"})
  BY DEF InfoResponse
<1>3. Holds("NamespaceInfo", {"labels", "annotations"})
  BY DEF NamespaceInfo
<1>4. Holds("PodInfo", {"containers", "labels"})
  BY DEF PodInfo
<1>5. Holds("DeploymentInfo", {"labels"}) /\ Holds("StatefulSetInfo", {"labels"})
  BY DEF DeploymentInfo, StatefulSetInfo
<1>6. Holds("NamespaceListResponse", {"namespaces"})
  BY DEF NamespaceListResponse
<1>7. Holds("PodListResponse", {"pods"}) /\ Holds("AllPodsResponse", {"pods"})
  BY DEF PodListResponse, AllPodsResponse
<1>8. Holds("DeploymentListResponse", {"deployments"})
  BY DEF DeploymentListResponse
<1>9. Holds("StatefulSetListResponse", {"statefulsets"})
  BY DEF StatefulSetListResponse
<1> QED
  BY ONLY <1>1, <1>2, <1>3, <1>4, <1>5, <1>6, <1>7, <1>8, <1>9

(* And what they hold.                                                     *)
LEMMA ObjectFields ==
    /\ Types["ReadinessResponse"].checks = Req("ReadinessCheck")
    /\ Types["InfoResponse"].service = Req("SystemInfo")
    /\ Types["InfoResponse"].kubernetes = Req("KubernetesInfo")
    /\ Types["InfoResponse"].database = Req("DatabaseInfo")
    /\ Types["NamespaceInfo"].labels = Many("KeyValue")
    /\ Types["NamespaceInfo"].annotations = Many("KeyValue")
    /\ Types["PodInfo"].containers = Many("ContainerInfo")
    /\ Types["PodInfo"].labels = Many("KeyValue")
    /\ Types["DeploymentInfo"].labels = Many("KeyValue")
    /\ Types["StatefulSetInfo"].labels = Many("KeyValue")
    /\ Types["NamespaceListResponse"].namespaces = Many("NamespaceInfo")
    /\ Types["PodListResponse"].pods = Many("PodInfo")
    /\ Types["AllPodsResponse"].pods = Many("PodInfo")
    /\ Types["DeploymentListResponse"].deployments = Many("DeploymentInfo")
    /\ Types["StatefulSetListResponse"].statefulsets = Many("StatefulSetInfo")
    /\ Types["PodWatchEvent"].pod = Req("PodInfo")
  BY Entries DEF ReadinessResponse, InfoResponse, NamespaceInfo, PodInfo, DeploymentInfo,
       StatefulSetInfo, NamespaceListResponse, PodListResponse, AllPodsResponse,
       DeploymentListResponse, StatefulSetListResponse, PodWatchEvent

(* Every type but those of the lists and of the events holds flat objects  *)
(* only, and those hold objects of such types.                             *)
LEMMA NestedTypesHoldFlat ==
    \A type \in FlatTypes \cup NestedTypes : \A n \in DOMAIN Types[type] :
        Types[type][n].of \notin Scalars => Types[type][n].of \in FlatTypes
<1> SUFFICES ASSUME NEW type \in FlatTypes \cup NestedTypes, NEW n \in DOMAIN Types[type],
                    Types[type][n].of \notin Scalars
             PROVE  Types[type][n].of \in FlatTypes
  OBVIOUS
<1>1. CASE type \in FlatTypes
  BY <1>1, FlatTypesAreFlat DEF Flat
<1>2. CASE type \in NestedTypes
  BY <1>2, ObjectsHeld, ObjectFields DEF Holds, NestedTypes, FlatTypes, Req, Many
<1> QED
  BY <1>1, <1>2

(* What the root fields answer nests three deep at most.                   *)
LEMMA RootTypesAreShallow ==
    \A type \in FlatTypes \cup NestedTypes \cup RootTypes : Shallow(type)
<1> SUFFICES ASSUME NEW type \in FlatTypes \cup NestedTypes \cup RootTypes,
                    NEW n \in DOMAIN Types[type], Types[type][n].of \notin Scalars
             PROVE  Types[type][n].of \in FlatTypes \cup NestedTypes
  BY NestedTypesHoldFlat, FlatTypesAreFlat DEF Shallow
<1>1. CASE type \in FlatTypes \cup NestedTypes
  BY <1>1, NestedTypesHoldFlat
<1>2. CASE type \in RootTypes
  BY <1>2, ObjectsHeld, ObjectFields DEF Holds, RootTypes, NestedTypes, Req, Many
<1> QED
  BY <1>1, <1>2

(* A field's value with objects whose own objects are there.               *)
SetValue(f, v) ==
    f.of \in Scalars \/ IF f.list THEN \A i \in DOMAIN v : SetObject(f.of, v[i])
                        ELSE SetObject(f.of, v)

(* An answer whose objects are set is set.                                 *)
LEMMA AnswerIsSet ==
    ASSUME NEW type, NEW p, p # Null,
           \A n \in DOMAIN Types[type] : SetValue(Types[type][n], p[1][n])
    PROVE  SetAnswer(type, p)
<1>1. ASSUME NEW f, NEW v, SetValue(f, v)
      PROVE  /\ SetField(f, v)
             /\ \A i \in DOMAIN Objects(f, v) : SetObject(f.of, Objects(f, v)[i])
  <2>1. CASE f.of \in Scalars
    BY <2>1 DEF SetField, Objects
  <2>2. CASE f.of \notin Scalars /\ f.list
    BY <1>1, <2>2 DEF SetValue, SetField, Objects, SetObject
  <2>3. CASE f.of \notin Scalars /\ ~f.list
    <3>1. SetObject(f.of, v)
      BY <1>1, <2>3 DEF SetValue
    <3>2. Objects(f, v) = <<v>>
      BY <2>3 DEF Objects
    <3>3. \A i \in DOMAIN Objects(f, v) : Objects(f, v)[i] = v
      BY <3>2
    <3>4. v # Null
      BY <3>1 DEF SetObject
    <3>5. SetField(f, v)
      BY <2>3, <3>4 DEF SetField
    <3> QED
      BY <3>1, <3>3, <3>5
  <2> QED
    BY <2>1, <2>2, <2>3
<1> QED
  BY <1>1 DEF SetAnswer, SetObject

(* An object without objects is set.                                       *)
LEMMA FlatObjectIsSet ==
    ASSUME NEW type \in FlatTypes, NEW p, p # Null
    PROVE  SetObject(type, p)
  BY FlatTypesAreFlat DEF Flat, SetObject, SetField

(* The members of a slice of pointers.                                     *)
LEMMA RefsAreSet == ASSUME NEW s PROVE \A i \in DOMAIN Refs(s) : Refs(s)[i] # Null
  BY RefIsSet DEF Refs

(* What the converters make of a pod, whatever the pod.                    *)
LEMMA PodIsSet ==
    ASSUME NEW pod, NEW type
    PROVE  SetObject("PodInfo", ConvertPodInfo(ConvertPod(pod, type)))
<1> DEFINE info == ConvertPod(pod, type)
           p == ConvertPodInfo(info)
<1>1. p # Null
  BY RefIsSet DEF ConvertPodInfo
<1>2. p[1].containers = Refs(info.containers) /\ p[1].labels = Refs(SetToSeq(info.labels))
  BY DEF ConvertPodInfo, ConvertPod, Ref, MapToKeyValuePairs
<1>3. /\ \A i \in DOMAIN p[1].containers : p[1].containers[i] # Null
      /\ \A i \in DOMAIN p[1].labels : p[1].labels[i] # Null
  BY <1>2, RefsAreSet
<1> HIDE DEF p
<1>4. ASSUME NEW n \in DOMAIN Types["PodInfo"]
      PROVE  SetField(Types["PodInfo"][n], p[1][n])
  <2>1. CASE Types["PodInfo"][n].of \in Scalars
    BY <2>1 DEF SetField
  <2>2. CASE n = "containers"
    BY <1>3, <2>2, ObjectFields DEF SetField, Many
  <2>3. CASE n = "labels"
    BY <1>3, <2>3, ObjectFields DEF SetField, Many
  <2> QED
    BY <2>1, <2>2, <2>3, ObjectsHeld DEF Holds
<1> QED
  BY <1>1, <1>4 DEF SetObject, p

(* What they make of a namespace.                                          *)
LEMMA NamespaceIsSet ==
    ASSUME NEW ns
    PROVE  SetObject("NamespaceInfo", ConvertNamespaceInfo(ConvertNamespaceToInfo(ns)))
<1> DEFINE info == ConvertNamespaceToInfo(ns)
           p == ConvertNamespaceInfo(info)
<1>1. p # Null
  BY RefIsSet DEF ConvertNamespaceInfo
<1>2. /\ p[1].labels = Refs(SetToSeq(info.labels))
      /\ p[1].annotations = Refs(SetToSeq(info.annotations))
  BY DEF ConvertNamespaceInfo, ConvertNamespaceToInfo, Ref, MapToKeyValuePairs
<1>3. /\ \A i \in DOMAIN p[1].labels : p[1].labels[i] # Null
      /\ \A i \in DOMAIN p[1].annotations : p[1].annotations[i] # Null
  BY <1>2, RefsAreSet
<1> HIDE DEF p
<1>4. ASSUME NEW n \in DOMAIN Types["NamespaceInfo"]
      PROVE  SetField(Types["NamespaceInfo"][n], p[1][n])
  <2>1. CASE Types["NamespaceInfo"][n].of \in Scalars
    BY <2>1 DEF SetField
  <2>2. CASE n = "labels"
    BY <1>3, <2>2, ObjectFields DEF SetField, Many
  <2>3. CASE n = "annotations"
    BY <1>3, <2>3, ObjectFields DEF SetField, Many
  <2> QED
    BY <2>1, <2>2, <2>3, ObjectsHeld DEF Holds
<1> QED
  BY <1>1, <1>4 DEF SetObject, p

(* What they make of a deployment and of a StatefulSet.                    *)
LEMMA WorkloadIsSet ==
    ASSUME NEW w
    PROVE  /\ SetObject("DeploymentInfo", ConvertDeploymentInfo(w))
           /\ SetObject("StatefulSetInfo", ConvertStatefulSetInfo(w))
<1>1. ConvertDeploymentInfo(w) # Null /\ ConvertStatefulSetInfo(w) # Null
  BY RefIsSet DEF ConvertDeploymentInfo, ConvertStatefulSetInfo
<1>2. /\ ConvertDeploymentInfo(w)[1].labels = Refs(SetToSeq(w.labels))
      /\ ConvertStatefulSetInfo(w)[1].labels = Refs(SetToSeq(w.labels))
  BY DEF ConvertDeploymentInfo, ConvertStatefulSetInfo, Ref, MapToKeyValuePairs
<1> QED
  BY <1>1, <1>2, RefsAreSet, ObjectsHeld, ObjectFields DEF SetObject, SetField, Holds, Many

(* Values of fields.                                                       *)
LEMMA ScalarIsSet ==
    ASSUME NEW type \in FlatTypes, NEW p, p # Null
    PROVE  SetAnswer(type, p)
  BY FlatTypesAreFlat, AnswerIsSet DEF Flat, SetValue

AnswerTypes ==
    [health |-> "HealthResponse", readiness |-> "ReadinessResponse", info |-> "InfoResponse",
     namespaces |-> "NamespaceListResponse", pods |-> "PodListResponse",
     allPods |-> "AllPodsResponse", pod |-> "PodInfo",
     deployments |-> "DeploymentListResponse", statefulsets |-> "StatefulSetListResponse",
     restartPod |-> "RestartPodResponse", deletePod |-> "DeletePodResponse",
     scaleDeployment |-> "ScaleResponse", scaleStatefulSet |-> "ScaleResponse",
     watchPods |-> "PodWatchEvent", watchAllPods |-> "PodWatchEvent",
     streamPodLogs |-> "PodLogLine"]

(* The type of every root field.                                           *)
LEMMA TypesOfAnswers ==
    /\ RootFields = DOMAIN AnswerTypes
    /\ \A f \in RootFields : TypeOf(f) = AnswerTypes[f]
  BY DEF RootFields, QueryFields, MutationFields, SubscriptionFields, Query, Mutation,
         Subscription, TypeOf, AnswerTypes, Req

(* The answers of the three health fields.                                 *)
LEMMA HealthIsSet ==
    ASSUME NEW c
    PROVE  /\ SetAnswer("HealthResponse", Answer("health", c))
           /\ SetAnswer("ReadinessResponse", Answer("readiness", c))
           /\ SetAnswer("InfoResponse", Answer("info", c))
<1>1. SetAnswer("HealthResponse", Answer("health", c))
  <2>1. Answer("health", c) # Null /\ "HealthResponse" \in FlatTypes
    BY RefIsSet DEF Answer, GetHealth, FlatTypes
  <2> QED
    BY <2>1, ScalarIsSet
<1>2. SetAnswer("ReadinessResponse", Answer("readiness", c))
  <2> DEFINE p == Answer("readiness", c)
  <2>1. p = GetReadiness(c.checks, Now)
    BY DEF Answer
  <2>2. PICK status : p = Ref([status |-> status, checks |-> Ref(c.checks), timestamp |-> Now])
    BY <2>1, Zenon DEF GetReadiness
  <2>3. p # Null /\ p[1].checks = Ref(c.checks)
    BY <2>2, RefIsSet DEF Ref
  <2> HIDE DEF p
  <2>4. SetObject("ReadinessCheck", p[1].checks)
    BY <2>3, RefIsSet, FlatObjectIsSet DEF FlatTypes
  <2>5. \A n \in DOMAIN Types["ReadinessResponse"] :
            SetValue(Types["ReadinessResponse"][n], p[1][n])
    BY <2>4, ObjectsHeld, ObjectFields DEF Holds, SetValue, Req
  <2> QED
    BY <2>3, <2>5, AnswerIsSet DEF p
<1>3. SetAnswer("InfoResponse", Answer("info", c))
  <2> DEFINE p == Answer("info", c)
  <2>1. p = GetSystemInfo(c.checks, Now)
    BY DEF Answer
  <2>2. PICK service, kubernetes, database :
            p = Ref([service |-> Ref(service), kubernetes |-> Ref(kubernetes),
                     database |-> Ref(database), timestamp |-> Now])
    BY <2>1, Zenon DEF GetSystemInfo
  <2>3. /\ p # Null /\ p[1].service = Ref(service) /\ p[1].kubernetes = Ref(kubernetes)
        /\ p[1].database = Ref(database)
    BY <2>2, RefIsSet DEF Ref
  <2> HIDE DEF p
  <2>4. /\ SetObject("SystemInfo", p[1].service) /\ SetObject("DatabaseInfo", p[1].database)
        /\ SetObject("KubernetesInfo", p[1].kubernetes)
    BY <2>3, RefIsSet, FlatObjectIsSet DEF FlatTypes
  <2>5. \A n \in DOMAIN Types["InfoResponse"] :
            SetValue(Types["InfoResponse"][n], p[1][n])
    BY <2>4, ObjectsHeld, ObjectFields DEF Holds, SetValue, Req
  <2> QED
    BY <2>3, <2>5, AnswerIsSet DEF p
<1> QED
  BY <1>1, <1>2, <1>3

(* The answers of the five lists.                                          *)
LEMMA ListsAreSet ==
    ASSUME NEW c
    PROVE  /\ SetAnswer("NamespaceListResponse", Answer("namespaces", c))
           /\ SetAnswer("PodListResponse", Answer("pods", c))
           /\ SetAnswer("AllPodsResponse", Answer("allPods", c))
           /\ SetAnswer("DeploymentListResponse", Answer("deployments", c))
           /\ SetAnswer("StatefulSetListResponse", Answer("statefulsets", c))
<1>1. \A i \in DOMAIN NamespaceList(c) : SetObject("NamespaceInfo", NamespaceList(c)[i])
  BY NamespaceIsSet DEF NamespaceList
<1>2. \A i \in DOMAIN PodList(c) : SetObject("PodInfo", PodList(c)[i])
  BY PodIsSet DEF PodList, ConvertPods
<1>3. /\ \A i \in DOMAIN DeploymentList(c) : SetObject("DeploymentInfo", DeploymentList(c)[i])
      /\ \A i \in DOMAIN StatefulSetList(c) : SetObject("StatefulSetInfo", StatefulSetList(c)[i])
  BY WorkloadIsSet DEF DeploymentList, StatefulSetList
<1>4. /\ Answer("namespaces", c) # Null
      /\ Answer("namespaces", c)[1].namespaces = NamespaceList(c)
  BY RefIsSet DEF Answer, Ref
<1>5. Answer("pods", c) # Null /\ Answer("pods", c)[1].pods = PodList(c)
  BY RefIsSet DEF Answer, Ref
<1>6. Answer("allPods", c) # Null /\ Answer("allPods", c)[1].pods = PodList(c)
  BY RefIsSet DEF Answer, Ref
<1>7. /\ Answer("deployments", c) # Null
      /\ Answer("deployments", c)[1].deployments = DeploymentList(c)
  BY RefIsSet DEF Answer, Ref
<1>8. /\ Answer("statefulsets", c) # Null
      /\ Answer("statefulsets", c)[1].statefulsets = StatefulSetList(c)
  BY RefIsSet DEF Answer, Ref
<1> USE ObjectsHeld, ObjectFields, AnswerIsSet DEF Holds, SetValue, Many
<1>9. SetAnswer("NamespaceListResponse", Answer("namespaces", c))
  BY <1>1, <1>4
<1>10. SetAnswer("PodListResponse", Answer("pods", c))
  BY <1>2, <1>5
<1>11. SetAnswer("AllPodsResponse", Answer("allPods", c))
  BY <1>2, <1>6
<1>12. SetAnswer("DeploymentListResponse", Answer("deployments", c))
  BY <1>3, <1>7
<1>13. SetAnswer("StatefulSetListResponse", Answer("statefulsets", c))
  BY <1>3, <1>8
<1> QED
  BY ONLY <1>9, <1>10, <1>11, <1>12, <1>13

(* The answers of the mutations, and a log line.                           *)
LEMMA ResponsesAreSet ==
    ASSUME NEW c
    PROVE  /\ SetAnswer("RestartPodResponse", Answer("restartPod", c))
           /\ SetAnswer("DeletePodResponse", Answer("deletePod", c))
           /\ SetAnswer("ScaleResponse", Answer("scaleDeployment", c))
           /\ SetAnswer("ScaleResponse", Answer("scaleStatefulSet", c))
           /\ SetAnswer("PodLogLine", Answer("streamPodLogs", c))
<1>1. /\ Answer("restartPod", c) # Null /\ Answer("deletePod", c) # Null
      /\ Answer("scaleDeployment", c) # Null /\ Answer("scaleStatefulSet", c) # Null
      /\ Answer("streamPodLogs", c) # Null
  BY RefIsSet DEF Answer, RestartResponse, DeleteResponse, ScaledResponse, ConvertPodLogLine
<1> QED
  BY <1>1, ScalarIsSet DEF FlatTypes

(* The answers with one pod.                                               *)
LEMMA EventsAreSet ==
    ASSUME NEW c
    PROVE  /\ SetAnswer("PodInfo", Answer("pod", c))
           /\ SetAnswer("PodWatchEvent", Answer("watchPods", c))
           /\ SetAnswer("PodWatchEvent", Answer("watchAllPods", c))
<1> DEFINE p == ConvertPodInfo(ConvertPod(Head(c.pods), c.controller))
<1>1. SetObject("PodInfo", p)
  BY PodIsSet
<1>2. Answer("pod", c) = p
  BY DEF Answer
<1>3. /\ Answer("watchPods", c) # Null /\ Answer("watchPods", c)[1].pod = p
      /\ Answer("watchAllPods", c) # Null /\ Answer("watchAllPods", c)[1].pod = p
  BY RefIsSet DEF Answer, ConvertPodWatchEvent, WatchEvent, Ref
<1> HIDE DEF p
<1>4. SetAnswer("PodInfo", p)
  <2>1. /\ "containers" \in DOMAIN PodInfo /\ "labels" \in DOMAIN PodInfo
    BY DEF PodInfo
  <2>2. /\ \A i \in DOMAIN p[1].containers : SetObject("ContainerInfo", p[1].containers[i])
        /\ \A i \in DOMAIN p[1].labels : SetObject("KeyValue", p[1].labels[i])
    BY <1>1, <2>1, Entries, ObjectFields, FlatObjectIsSet
       DEF SetObject, SetField, Many, FlatTypes, Scalars
  <2> QED
    BY <1>1, <2>2, ObjectsHeld, ObjectFields, AnswerIsSet
       DEF Holds, SetValue, SetObject, Many
<1> USE ObjectsHeld, ObjectFields, AnswerIsSet DEF Holds, SetValue, Req
<1>5. SetAnswer("PodWatchEvent", Answer("watchPods", c))
  BY <1>1, <1>3
<1>6. SetAnswer("PodWatchEvent", Answer("watchAllPods", c))
  BY <1>1, <1>3
<1> QED
  BY ONLY <1>2, <1>4, <1>5, <1>6

(* No answer is marshalled to null, whatever the cluster holds.            *)
LEMMA AnswersAreData ==
    ASSUME NEW c, NEW f \in RootFields
    PROVE  Marshalled(c)[f] # Null
<1>1. SetAnswer(TypeOf(f), Answer(f, c))
  BY TypesOfAnswers, HealthIsSet, ListsAreSet, ResponsesAreSet, EventsAreSet DEF AnswerTypes
<1>2. Shallow(TypeOf(f))
  BY TypesOfAnswers, RootTypesAreShallow DEF AnswerTypes, FlatTypes, NestedTypes, RootTypes
<1>3. Marshalled(c)[f] = MarshalAnswer(TypeOf(f), Answer(f, c))
  BY DEF Marshalled
<1> QED
  BY <1>1, <1>2, <1>3, AnswerIsData

-----------------------------------------------------------------------------
(* What the lists tell of the cluster.                                     *)

(* What is not null was not made null: the fields of the data are those of *)
(* the object.                                                             *)
LEMMA DispatchedData ==
    ASSUME NEW type, NEW out, Dispatch(type, out) # Null
    PROVE  /\ DOMAIN Dispatch(type, out)[1] = DOMAIN out
           /\ \A n \in DOMAIN out :
                 ~Types[type][n].null =>
                    out[n] # Null /\ Dispatch(type, out)[1][n] = out[n][1]
<1> DEFINE invalids == {n \in DOMAIN out : out[n] = Null /\ ~Types[type][n].null}
           told == [n \in DOMAIN out |-> IF Types[type][n].null THEN out[n] ELSE out[n][1]]
<1>1. Dispatch(type, out) = IF invalids # {} THEN Null ELSE Ref(told)
  BY DEF Dispatch
<1>2. invalids = {} /\ Dispatch(type, out) = Ref(told)
  BY <1>1
<1>3. Dispatch(type, out)[1] = told
  BY <1>2 DEF Ref
<1> QED
  BY <1>2, <1>3

(* The fields of an answer,                                                *)
LEMMA AnswerData ==
    ASSUME NEW type, NEW p, MarshalAnswer(type, p) # Null
    PROVE  /\ DOMAIN MarshalAnswer(type, p)[1] = DOMAIN Types[type]
           /\ \A n \in DOMAIN Types[type] :
                 ~Types[type][n].null =>
                    LET field == AnswerField(Types[type][n], p[1][n]) IN
                    field # Null /\ MarshalAnswer(type, p)[1][n] = field[1]
<1> DEFINE out == [n \in DOMAIN Types[type] |-> AnswerField(Types[type][n], p[1][n])]
<1>1. MarshalAnswer(type, p) = Dispatch(type, out) /\ Dispatch(type, out) # Null
  BY DEF MarshalAnswer
<1>2. DOMAIN out = DOMAIN Types[type]
  OBVIOUS
<1>3. \A n \in DOMAIN out : out[n] = AnswerField(Types[type][n], p[1][n])
  OBVIOUS
<1> HIDE DEF out
<1> QED
  BY <1>1, <1>2, <1>3, DispatchedData

(* and those of its objects.                                               *)
LEMMA NestedData ==
    ASSUME NEW type, NEW p, MarshalNested(type, p) # Null
    PROVE  \A n \in DOMAIN Types[type] :
               ~Types[type][n].null =>
                  LET field == NestedField(Types[type][n], p[1][n]) IN
                  field # Null /\ MarshalNested(type, p)[1][n] = field[1]
<1> DEFINE out == [n \in DOMAIN Types[type] |-> NestedField(Types[type][n], p[1][n])]
<1>1. MarshalNested(type, p) = Dispatch(type, out) /\ Dispatch(type, out) # Null
  BY DEF MarshalNested
<1>2. DOMAIN out = DOMAIN Types[type]
  OBVIOUS
<1>3. \A n \in DOMAIN out : out[n] = NestedField(Types[type][n], p[1][n])
  OBVIOUS
<1> HIDE DEF out
<1> QED
  BY <1>1, <1>2, <1>3, DispatchedData

(* A value that is not null is its own data, and so are the members of a   *)
(* list.                                                                   *)
LEMMA ScalarData ==
    ASSUME NEW f, f.of \in Scalars, ~f.null, NEW v
    PROVE  AnswerField(f, v)[1] = v /\ NestedField(f, v)[1] = v
  BY DEF AnswerField, NestedField, MarshalField, Ref

(* The members of a list that is not null.                                 *)
LEMMA MarshalledList ==
    ASSUME NEW elements, MarshalList(elements) # Null
    PROVE  /\ \A i \in DOMAIN elements : elements[i] # Null
           /\ MarshalList(elements)[1] = [i \in DOMAIN elements |-> elements[i][1]]
  BY DEF MarshalList, Ref

Nests(type, v) == [i \in DOMAIN v |-> MarshalNested(type, v[i])[1]]
Flats(type, v) == [i \in DOMAIN v |-> MarshalFlat(type, v[i])[1]]

(* A list of objects, in an answer and in one of its objects.              *)
LEMMA ListData ==
    ASSUME NEW type, type \notin Scalars, NEW v
    PROVE  /\ AnswerField(Many(type), v) # Null =>
                 /\ \A i \in DOMAIN v : MarshalNested(type, v[i]) # Null
                 /\ AnswerField(Many(type), v)[1] = Nests(type, v)
           /\ NestedField(Many(type), v) # Null =>
                 NestedField(Many(type), v)[1] = Flats(type, v)
<1>1. Many(type).of = type /\ Many(type).list = TRUE
  BY DEF Many
<1>2. Objects(Many(type), v) = v
  BY <1>1 DEF Objects
<1>3. AnswerField(Many(type), v) = MarshalList([i \in DOMAIN v |-> MarshalNested(type, v[i])])
  BY <1>1, <1>2 DEF AnswerField, MarshalField
<1>4. NestedField(Many(type), v) = MarshalList([i \in DOMAIN v |-> MarshalFlat(type, v[i])])
  BY <1>1, <1>2 DEF NestedField, MarshalField
<1>5. ASSUME AnswerField(Many(type), v) # Null
      PROVE  /\ \A i \in DOMAIN v : MarshalNested(type, v[i]) # Null
             /\ AnswerField(Many(type), v)[1] =
                        [i \in DOMAIN v |-> MarshalNested(type, v[i])[1]]
  <2> DEFINE e == [i \in DOMAIN v |-> MarshalNested(type, v[i])]
  <2>1. DOMAIN e = DOMAIN v /\ \A i \in DOMAIN v : e[i] = MarshalNested(type, v[i])
    OBVIOUS
  <2>2. AnswerField(Many(type), v) = MarshalList(e)
    BY <1>3
  <2> HIDE DEF e
  <2>3. /\ \A i \in DOMAIN e : e[i] # Null
        /\ MarshalList(e)[1] = [i \in DOMAIN e |-> e[i][1]]
    BY ONLY <1>5, <2>2, MarshalledList
  <2> QED
    BY ONLY <2>1, <2>2, <2>3
<1>6. ASSUME NestedField(Many(type), v) # Null
      PROVE  NestedField(Many(type), v)[1] = [i \in DOMAIN v |-> MarshalFlat(type, v[i])[1]]
  <2> DEFINE e == [i \in DOMAIN v |-> MarshalFlat(type, v[i])]
  <2>1. DOMAIN e = DOMAIN v /\ \A i \in DOMAIN v : e[i] = MarshalFlat(type, v[i])
    OBVIOUS
  <2>2. NestedField(Many(type), v) = MarshalList(e)
    BY <1>4
  <2> HIDE DEF e
  <2>3. MarshalList(e)[1] = [i \in DOMAIN e |-> e[i][1]]
    BY ONLY <1>6, <2>2, MarshalledList
  <2> QED
    BY ONLY <2>1, <2>2, <2>3
<1> QED
  BY ONLY <1>5, <1>6 DEF Nests, Flats

(* A label is told as it is.                                               *)
LEMMA LabelData ==
    ASSUME NEW l \in [key : STRING, value : STRING]
    PROVE  MarshalFlat("KeyValue", Ref(l))[1] = l
<1> DEFINE out == [n \in DOMAIN Types["KeyValue"] |->
                      MarshalField(Types["KeyValue"][n], Ref(l)[1][n], <<>>)]
<1>1. /\ DOMAIN Types["KeyValue"] = {"key", "value"}
      /\ Types["KeyValue"].key = Str /\ Types["KeyValue"].value = Str
  BY Entries DEF KeyValue
<1>2. Ref(l)[1] = l /\ Ref(l) # Null
  BY RefIsSet DEF Ref
<1>3. \A v : MarshalField(Str, v, <<>>) = Ref(v)
  BY DEF MarshalField, Str, Req, Scalars
<1>4. DOMAIN out = {"key", "value"} /\ \A n \in {"key", "value"} : out[n] = Ref(l[n])
  BY <1>1, <1>2, <1>3
<1>5. MarshalFlat("KeyValue", Ref(l)) = Dispatch("KeyValue", out)
  BY <1>2 DEF MarshalFlat
<1> HIDE DEF out
<1>6. \A n \in DOMAIN out : out[n] # Null /\ out[n][1] = l[n] /\ ~Types["KeyValue"][n].null
  BY <1>1, <1>4, RefIsSet DEF Ref, Str, Req
<1>7. Dispatch("KeyValue", out) # Null
  BY <1>6, DispatchIsData
<1>8. Dispatch("KeyValue", out)[1] = [n \in DOMAIN out |-> out[n][1]]
  BY <1>6 DEF Dispatch, Ref
<1>9. Dispatch("KeyValue", out)[1] = [n \in {"key", "value"} |-> l[n]]
  BY <1>4, <1>6, <1>8
<1>10. l = [n \in {"key", "value"} |-> l[n]]
  OBVIOUS
<1> QED
  BY <1>5, <1>9, <1>10

(* What is told of a pod is true of it.                                    *)
GoodPod(pod) ==
    /\ IsList(pod.containers) /\ IsList(pod.statuses)
    /\ Len(pod.statuses) <= Len(pod.containers)
    /\ \A j \in 1..Len(pod.statuses) :
          pod.statuses[j].ready \in BOOLEAN /\ pod.statuses[j].restarts \in Nat
    /\ IsFiniteSet(pod.labels) /\ pod.labels \subseteq [key : STRING, value : STRING]
    /\ pod.age \in Int

(* A list is numbered from 1.                                              *)
LEMMA ListBounds ==
    ASSUME NEW s, IsList(s)
    PROVE  Len(s) \in Nat /\ DOMAIN s = 1..Len(s)
  BY DEF IsList

(* The labels of a pod are told as they are, in some order.                *)
LEMMA LabelsData ==
    ASSUME NEW S, IsFiniteSet(S), S \subseteq [key : STRING, value : STRING],
           NEW told, NEW pairs, pairs = Refs(SetToSeq(S)),
           told = Flats("KeyValue", pairs)
    PROVE  Range(told) = S
<1> USE DEF Flats
<1>1. Range(SetToSeq(S)) = S
  BY PairsAreAll
<1>2. DOMAIN pairs = DOMAIN SetToSeq(S)
  BY DEF Refs
<1>3. ASSUME NEW i \in DOMAIN SetToSeq(S)
      PROVE  told[i] = SetToSeq(S)[i]
  <2>1. pairs[i] = Ref(SetToSeq(S)[i])
    BY DEF Refs
  <2>2. SetToSeq(S)[i] \in S
    BY <1>1 DEF Range
  <2> QED
    BY <1>2, <2>1, <2>2, LabelData
<1>4. DOMAIN told = DOMAIN SetToSeq(S)
  BY <1>2
<1> QED
  BY ONLY <1>1, <1>3, <1>4 DEF Range

(* The fields of a pod that are spoken of.                                 *)
LEMMA PodFields ==
    /\ {"name", "restarts", "ready", "age", "labels"} \subseteq DOMAIN Types["PodInfo"]
    /\ Types["PodInfo"].name = Str /\ Types["PodInfo"].restarts = Int32
    /\ Types["PodInfo"].ready = Str /\ Types["PodInfo"].age = Str
    /\ Types["PodInfo"].labels = Many("KeyValue")
  BY Entries DEF PodInfo

(* ConvertPodInfo changes pointers and lists only.                         *)
LEMMA InfoObject ==
    ASSUME NEW name, NEW namespace, NEW phase, NEW podIP, NEW hostIP, NEW nodeName, NEW age,
           NEW ready, NEW restarts, NEW owners, NEW type, NEW containers, NEW labels,
           NEW info,
           info = [name |-> name, namespace |-> namespace, phase |-> phase, podIP |-> podIP,
                   hostIP |-> hostIP, nodeName |-> nodeName, age |-> age, ready |-> ready,
                   restarts |-> restarts, owners |-> owners, controllerType |-> type,
                   containers |-> containers, labels |-> labels]
    PROVE  LET o == ConvertPodInfo(info)[1] IN
           /\ o.name = name /\ o.restarts = restarts /\ o.ready = ready /\ o.age = age
           /\ o.labels = Refs(SetToSeq(labels))
  BY DEF ConvertPodInfo, MapToKeyValuePairs, Ref

(* These fields after the conversions.                                     *)
LEMMA PodObject ==
    ASSUME NEW pod, NEW type
    PROVE  LET o == ConvertPodInfo(ConvertPod(pod, type))[1]
               containers == ExtractContainerInfo(pod)
           IN
           /\ o.name = pod.name /\ o.restarts = TotalRestarts(containers)
           /\ o.ready = <<ReadyContainers(containers), Len(pod.containers)>>
           /\ o.age = PodAge(pod.age) /\ o.labels = Refs(SetToSeq(pod.labels))
<1> DEFINE containers == ExtractContainerInfo(pod)
<1> PICK ready : ready = <<ReadyContainers(containers), Len(pod.containers)>>
  OBVIOUS
<1> PICK owners :
      owners = [i \in DOMAIN pod.owners |-> <<pod.owners[i].kind, pod.owners[i].name>>]
  OBVIOUS
<1> PICK info : info = ConvertPod(pod, type)
  OBVIOUS
<1>1. info = [name |-> pod.name, namespace |-> pod.namespace, phase |-> pod.phase,
              podIP |-> pod.podIP, hostIP |-> pod.hostIP, nodeName |-> pod.nodeName,
              age |-> PodAge(pod.age), ready |-> ready, restarts |-> TotalRestarts(containers),
              owners |-> owners, controllerType |-> type, containers |-> containers,
              labels |-> pod.labels]
  BY DEF ConvertPod
<1>2. LET o == ConvertPodInfo(info)[1] IN
      /\ o.name = pod.name /\ o.restarts = TotalRestarts(containers) /\ o.ready = ready
      /\ o.age = PodAge(pod.age) /\ o.labels = Refs(SetToSeq(pod.labels))
  <2> HIDE DEF containers
  <2> QED
    BY ONLY <1>1, InfoObject
<1> QED
  BY ONLY <1>2, info = ConvertPod(pod, type),
          ready = <<ReadyContainers(containers), Len(pod.containers)>>

(* A pod is told as it is, if it is told at all.                           *)
LEMMA PodData ==
    ASSUME NEW pod, GoodPod(pod), NEW type, NEW p, p = ConvertPodInfo(ConvertPod(pod, type)),
           MarshalNested("PodInfo", p) # Null
    PROVE  PodIsFaithful(MarshalNested("PodInfo", p)[1], pod)
<1> PICK told : told = MarshalNested("PodInfo", p)[1]
  OBVIOUS
<1>1. \A n \in {"name", "restarts", "ready", "age", "labels"} :
        /\ NestedField(Types["PodInfo"][n], p[1][n]) # Null
        /\ told[n] = NestedField(Types["PodInfo"][n], p[1][n])[1]
  <2>1. \A n \in {"name", "restarts", "ready", "age", "labels"} : ~Types["PodInfo"][n].null
    BY PodFields DEF Str, Int32, Req, Many
  <2> QED
    BY <2>1, PodFields, NestedData
<1>2. \A v : NestedField(Str, v)[1] = v /\ NestedField(Int32, v)[1] = v
  BY ScalarData DEF Str, Int32, Req, Scalars
<1>3. /\ told.name = p[1].name /\ told.restarts = p[1].restarts
      /\ told.ready = p[1].ready /\ told.age = p[1].age
  <2>1. /\ told.name = NestedField(Types["PodInfo"]["name"], p[1]["name"])[1]
        /\ told.restarts = NestedField(Types["PodInfo"]["restarts"], p[1]["restarts"])[1]
        /\ told.ready = NestedField(Types["PodInfo"]["ready"], p[1]["ready"])[1]
        /\ told.age = NestedField(Types["PodInfo"]["age"], p[1]["age"])[1]
    BY ONLY <1>1
  <2> QED
    BY ONLY <1>2, <2>1, PodFields
<1>4. /\ p[1].name = pod.name /\ p[1].restarts = TotalRestarts(ExtractContainerInfo(pod))
      /\ p[1].ready = <<ReadyContainers(ExtractContainerInfo(pod)), Len(pod.containers)>>
      /\ p[1].age = PodAge(pod.age) /\ p[1].labels = Refs(SetToSeq(pod.labels))
  BY PodObject
<1> DEFINE containers == ExtractContainerInfo(pod)
<1> HIDE DEF containers
<1>5. /\ Len(pod.statuses) \in Nat /\ DOMAIN pod.statuses = 1..Len(pod.statuses)
      /\ Len(pod.containers) \in Nat /\ DOMAIN pod.containers = 1..Len(pod.containers)
      /\ Len(pod.statuses) <= Len(pod.containers)
      /\ \A j \in 1..Len(pod.statuses) :
            pod.statuses[j].ready \in BOOLEAN /\ pod.statuses[j].restarts \in Nat
  BY ListBounds DEF GoodPod
<1>6. told.restarts = Restarts(pod.statuses)
  BY <1>3, <1>4, <1>5, RestartsOfContainers DEF Restarts, containers
<1>7. /\ told.ready[1] = Cardinality({i \in DOMAIN pod.statuses : pod.statuses[i].ready})
      /\ told.ready[1] <= told.ready[2]
  <2>1. told.ready = <<ReadyContainers(ExtractContainerInfo(pod)), Len(pod.containers)>>
    BY ONLY <1>3, <1>4
  <2>3. /\ told.ready[1] = ReadyContainers(ExtractContainerInfo(pod))
        /\ told.ready[2] = Len(pod.containers)
    BY ONLY <2>1
  <2>2. /\ ReadyContainers(ExtractContainerInfo(pod)) =
              Cardinality({i \in DOMAIN pod.statuses : pod.statuses[i].ready})
        /\ ReadyContainers(ExtractContainerInfo(pod)) <= Len(pod.containers)
    <3> PICK m \in Nat : m = Len(pod.statuses)
      BY <1>5
    <3> PICK n \in Nat : n = Len(pod.containers)
      BY <1>5
    <3>1. /\ m <= n /\ DOMAIN pod.statuses = 1..m /\ Len(pod.statuses) = m
          /\ DOMAIN pod.containers = 1..n
          /\ \A i \in 1..m : pod.statuses[i].ready \in BOOLEAN
      BY ONLY <1>5, m = Len(pod.statuses), n = Len(pod.containers)
    <3>2. LET ready == ReadyContainers(ExtractContainerInfo(pod)) IN
          /\ ready = Cardinality({i \in DOMAIN pod.statuses : pod.statuses[i].ready})
          /\ ready <= n
      BY ONLY <3>1, m \in Nat, n \in Nat, ReadyAmongContainers
    <3> QED
      BY ONLY <3>2, n = Len(pod.containers)
  <2> QED
    BY ONLY <2>2, <2>3
<1>8. Range(told.labels) = pod.labels
  <2>1. NestedField(Many("KeyValue"), p[1].labels) # Null
    BY <1>1, PodFields
  <2>2. told.labels = NestedField(Many("KeyValue"), p[1].labels)[1]
    BY <1>1, PodFields
  <2>3. told.labels = Flats("KeyValue", p[1].labels)
    <3>1. "KeyValue" \notin Scalars
      BY DEF Scalars
    <3> QED
      BY ONLY <2>1, <2>2, <3>1, ListData
  <2>4. IsFiniteSet(pod.labels) /\ pod.labels \subseteq [key : STRING, value : STRING]
    BY DEF GoodPod
  <2> PICK labels, pairs : labels = told.labels /\ pairs = Refs(SetToSeq(pod.labels))
    OBVIOUS
  <2>5. labels = Flats("KeyValue", pairs)
    BY ONLY <1>4, <2>3, labels = told.labels /\ pairs = Refs(SetToSeq(pod.labels))
  <2>6. Range(labels) = pod.labels
    BY ONLY <2>4, <2>5, labels = told.labels /\ pairs = Refs(SetToSeq(pod.labels)), LabelsData
  <2> QED
    BY ONLY <2>6, labels = told.labels /\ pairs = Refs(SetToSeq(pod.labels))
<1>9. AgeReadsBack(told.age, pod.age)
  BY <1>3, <1>4, PodAgeReadsBack DEF GoodPod
<1> QED
  BY <1>3, <1>4, <1>6, <1>7, <1>8, <1>9 DEF PodIsFaithful

(* And the age of a namespace.                                             *)
LEMMA NamespaceData ==
    ASSUME NEW ns, ns.age \in Int,
           NEW p, p = ConvertNamespaceInfo(ConvertNamespaceToInfo(ns)),
           MarshalNested("NamespaceInfo", p) # Null
    PROVE  AgeReadsBack(MarshalNested("NamespaceInfo", p)[1].age, ns.age)
<1>1. "age" \in DOMAIN Types["NamespaceInfo"] /\ Types["NamespaceInfo"].age = Str
  BY Entries DEF NamespaceInfo
<1>2. MarshalNested("NamespaceInfo", p)[1].age = NestedField(Str, p[1].age)[1]
  <2>1. ~Str.null
    BY DEF Str, Req
  <2> QED
    BY <1>1, <2>1, NestedData
<1>3. NestedField(Str, p[1].age)[1] = p[1].age
  BY ScalarData DEF Str, Req, Scalars
<1>4. p[1].age = NamespaceAge(ns.age)
  BY DEF ConvertNamespaceInfo, ConvertNamespaceToInfo, Ref
<1> QED
  BY <1>2, <1>3, <1>4, NamespaceAgeReadsBack

(* Mapping a list keeps its length.                                        *)
LEMMA SameLength ==
    ASSUME NEW s, IsList(s), NEW t, DOMAIN t = DOMAIN s, NEW u, t = [i \in DOMAIN s |-> u[i]]
    PROVE  Len(t) = Len(s)
<1> PICK n \in Nat : n = Len(s)
  BY ListBounds
<1>1. DOMAIN s = 1..n
  BY ListBounds
<1>2. t = [i \in 1..n |-> u[i]]
  BY <1>1
<1> QED
  BY ONLY <1>2, n \in Nat, n = Len(s)

(* The objects of the lists.                                               *)
LEMMA PodLists ==
    ASSUME NEW c \in Contents
    PROVE  /\ DOMAIN PodList(c) = DOMAIN c.pods /\ Len(PodList(c)) = Len(c.pods)
           /\ \A i \in DOMAIN c.pods : PodList(c)[i] =
                 ConvertPodInfo(ConvertPod(c.pods[i], DetectBasicController(c.pods[i])))
<1>1. IsList(c.pods)
  BY ContentsAssumption
<1>2. /\ DOMAIN PodList(c) = DOMAIN c.pods
      /\ \A i \in DOMAIN c.pods : PodList(c)[i] =
                 ConvertPodInfo(ConvertPod(c.pods[i], DetectBasicController(c.pods[i])))
  BY DEF PodList, ConvertPods
<1>3. PodList(c) = [i \in DOMAIN c.pods |-> PodList(c)[i]]
  BY DEF PodList, ConvertPods
<1>4. Len(PodList(c)) = Len(c.pods)
  BY ONLY <1>1, <1>2, <1>3, SameLength
<1> QED
  BY ONLY <1>2, <1>4

(* The namespaces.                                                         *)
LEMMA NamespaceLists ==
    ASSUME NEW c \in Contents
    PROVE  /\ DOMAIN NamespaceList(c) = DOMAIN c.namespaces
           /\ Len(NamespaceList(c)) = Len(c.namespaces)
           /\ \A i \in DOMAIN c.namespaces :
                 NamespaceList(c)[i] = ConvertNamespaceInfo(ConvertNamespaceToInfo(c.namespaces[i]))
<1>1. IsList(c.namespaces)
  BY ContentsAssumption
<1>2. /\ DOMAIN NamespaceList(c) = DOMAIN c.namespaces
      /\ \A i \in DOMAIN c.namespaces :
            NamespaceList(c)[i] = ConvertNamespaceInfo(ConvertNamespaceToInfo(c.namespaces[i]))
  BY DEF NamespaceList
<1>3. NamespaceList(c) = [i \in DOMAIN c.namespaces |-> NamespaceList(c)[i]]
  BY DEF NamespaceList
<1>4. Len(NamespaceList(c)) = Len(c.namespaces)
  BY ONLY <1>1, <1>2, <1>3, SameLength
<1> QED
  BY ONLY <1>2, <1>4

(* The workloads.                                                          *)
LEMMA WorkloadLists ==
    ASSUME NEW c \in Contents
    PROVE  /\ Len(DeploymentList(c)) = Len(c.deployments)
           /\ Len(StatefulSetList(c)) = Len(c.statefulsets)
<1>1. IsList(c.deployments) /\ IsList(c.statefulsets)
  BY ContentsAssumption
<1>2. DeploymentList(c) = [i \in DOMAIN c.deployments |-> DeploymentList(c)[i]]
  BY DEF DeploymentList
<1>3. StatefulSetList(c) = [i \in DOMAIN c.statefulsets |-> StatefulSetList(c)[i]]
  BY DEF StatefulSetList
<1>4. Len(DeploymentList(c)) = Len(c.deployments)
  BY ONLY <1>1, <1>2, SameLength
<1>5. Len(StatefulSetList(c)) = Len(c.statefulsets)
  BY ONLY <1>1, <1>3, SameLength
<1> QED
  BY ONLY <1>4, <1>5

(* What is told of a list.                                                 *)
LEMMA CountData ==
    ASSUME NEW type, NEW p, MarshalAnswer(type, p) # Null,
           "count" \in DOMAIN Types[type], Types[type].count = Int32
    PROVE  MarshalAnswer(type, p)[1].count = p[1].count
<1>1. /\ ~Int32.null /\ Int32.of \in Scalars
  BY DEF Int32, Req, Scalars
<1>2. MarshalAnswer(type, p)[1].count = AnswerField(Int32, p[1].count)[1]
  BY <1>1, AnswerData
<1> QED
  BY <1>1, <1>2, ScalarData

(* The members of a list are told one by one.                              *)
LEMMA MembersData ==
    ASSUME NEW type, NEW p, MarshalAnswer(type, p) # Null, NEW n \in DOMAIN Types[type],
           NEW member, member \notin Scalars, Types[type][n] = Many(member),
           NEW list, list = p[1][n]
    PROVE  /\ \A i \in DOMAIN list : MarshalNested(member, list[i]) # Null
           /\ \A i \in DOMAIN list :
                 MarshalAnswer(type, p)[1][n][i] = MarshalNested(member, list[i])[1]
<1>1. ~Many(member).null
  BY DEF Many
<1>2. /\ AnswerField(Many(member), list) # Null
      /\ MarshalAnswer(type, p)[1][n] = AnswerField(Many(member), list)[1]
  BY <1>1, AnswerData
<1>3. /\ \A i \in DOMAIN list : MarshalNested(member, list[i]) # Null
      /\ MarshalAnswer(type, p)[1][n] = Nests(member, list)
  BY ONLY <1>2, member \notin Scalars, ListData
<1> QED
  BY <1>3 DEF Nests

ListTypes == {"NamespaceListResponse", "PodListResponse", "AllPodsResponse",
              "DeploymentListResponse", "StatefulSetListResponse"}

(* The five lists have a count, and no other type has.                     *)
LEMMA ListTypesCount ==
    /\ \A type \in ListTypes : "count" \in DOMAIN Types[type] /\ Types[type].count = Int32
    /\ \A type \in (FlatTypes \cup NestedTypes \cup RootTypes) \ ListTypes :
          "count" \notin DOMAIN Types[type]
<1> USE Entries
<1>1. \A type \in ListTypes : "count" \in DOMAIN Types[type] /\ Types[type].count = Int32
  BY DEF ListTypes, NamespaceListResponse, PodListResponse, AllPodsResponse,
         DeploymentListResponse, StatefulSetListResponse
<1> DEFINE Uncounted(type) == "count" \notin DOMAIN Types[type]
<1>2. \A type \in FlatTypes : Uncounted(type)
  <2>1. Uncounted("HealthResponse") /\ Uncounted("ReadinessCheck") /\ Uncounted("SystemInfo")
    BY DEF HealthResponse, ReadinessCheck, SystemInfo
  <2>2. Uncounted("KubernetesInfo") /\ Uncounted("DatabaseInfo") /\ Uncounted("KeyValue")
    BY DEF KubernetesInfo, DatabaseInfo, KeyValue
  <2>3. Uncounted("ContainerInfo") /\ Uncounted("RestartPodResponse")
    BY DEF ContainerInfo, RestartPodResponse
  <2>4. Uncounted("ScaleResponse") /\ Uncounted("DeletePodResponse") /\ Uncounted("PodLogLine")
    BY DEF ScaleResponse, DeletePodResponse, PodLogLine
  <2> HIDE DEF Uncounted
  <2> QED
    BY ONLY <2>1, <2>2, <2>3, <2>4 DEF FlatTypes
<1>3. \A type \in NestedTypes : "count" \notin DOMAIN Types[type]
  BY DEF NestedTypes, ReadinessResponse, InfoResponse, NamespaceInfo, PodInfo, DeploymentInfo,
         StatefulSetInfo
<1>4. "count" \notin DOMAIN Types["PodWatchEvent"]
  BY DEF PodWatchEvent
<1> QED
  BY ONLY <1>1, <1>2, <1>3, <1>4 DEF RootTypes, ListTypes

(* The lists and counts that the resolvers return.                         *)
LEMMA ListAnswers ==
    ASSUME NEW c
    PROVE  /\ Answer("namespaces", c)[1].count = Len(NamespaceList(c))
           /\ Answer("namespaces", c)[1].namespaces = NamespaceList(c)
           /\ Answer("pods", c)[1].count = Len(PodList(c))
           /\ Answer("pods", c)[1].pods = PodList(c)
           /\ Answer("allPods", c)[1].count = Len(PodList(c))
           /\ Answer("allPods", c)[1].pods = PodList(c)
           /\ Answer("deployments", c)[1].count = Len(DeploymentList(c))
           /\ Answer("statefulsets", c)[1].count = Len(StatefulSetList(c))
<1>1. /\ Answer("namespaces", c)[1].count = Len(NamespaceList(c))
      /\ Answer("namespaces", c)[1].namespaces = NamespaceList(c)
  BY DEF Answer, Ref
<1>2. Answer("pods", c)[1].count = Len(PodList(c)) /\ Answer("pods", c)[1].pods = PodList(c)
  BY DEF Answer, Ref
<1>3. /\ Answer("allPods", c)[1].count = Len(PodList(c))
      /\ Answer("allPods", c)[1].pods = PodList(c)
  BY DEF Answer, Ref
<1>4. /\ Answer("deployments", c)[1].count = Len(DeploymentList(c))
      /\ Answer("statefulsets", c)[1].count = Len(StatefulSetList(c))
  BY DEF Answer, Ref
<1> QED
  BY ONLY <1>1, <1>2, <1>3, <1>4

(* A list is told with the number of its objects, and nothing else has a   *)
(* count.                                                                  *)
LEMMA AnswersCount ==
    ASSUME NEW c \in Contents, NEW f \in RootFields, "count" \in DOMAIN Marshalled(c)[f][1]
    PROVE  Marshalled(c)[f][1].count = Count(f, c)
<1>1. /\ Marshalled(c)[f] = MarshalAnswer(TypeOf(f), Answer(f, c))
      /\ MarshalAnswer(TypeOf(f), Answer(f, c)) # Null
  BY AnswersAreData DEF Marshalled
<1>2. "count" \in DOMAIN Types[TypeOf(f)]
  BY <1>1, AnswerData
<1>3. TypeOf(f) \in ListTypes
  BY <1>2, ListTypesCount, TypesOfAnswers DEF AnswerTypes, FlatTypes, NestedTypes, RootTypes
<1>4. Marshalled(c)[f][1].count = Answer(f, c)[1].count
  BY <1>1, <1>3, ListTypesCount, CountData
<1>5. f \in {"namespaces", "pods", "allPods", "deployments", "statefulsets"}
  BY <1>3, TypesOfAnswers DEF AnswerTypes, ListTypes
<1>6. Answer(f, c)[1].count = Count(f, c)
  BY <1>5, ListAnswers, PodLists, NamespaceLists, WorkloadLists DEF Count
<1> QED
  BY ONLY <1>4, <1>6

(* Both lists of pods tell every pod, in its place, as it is.              *)
LEMMA PodsAreFaithful ==
    ASSUME NEW c \in Contents, NEW f \in {"pods", "allPods"},
           NEW a, a = Marshalled(c)[f][1]
    PROVE  a.count = Len(c.pods) /\ \A i \in 1..a.count : PodIsFaithful(a.pods[i], c.pods[i])
<1>1. f \in RootFields /\ TypeOf(f) \in {"PodListResponse", "AllPodsResponse"}
  BY TypesOfAnswers DEF AnswerTypes
<1>2. a = MarshalAnswer(TypeOf(f), Answer(f, c))[1] /\ MarshalAnswer(TypeOf(f), Answer(f, c)) # Null
  BY <1>1, AnswersAreData DEF Marshalled
<1>3. a.count = Len(c.pods)
  <2>1. a.count = Answer(f, c)[1].count
    BY <1>1, <1>2, ListTypesCount, CountData DEF ListTypes
  <2> QED
    BY <2>1, ListAnswers, PodLists
<1>4. ASSUME NEW i \in DOMAIN c.pods
      PROVE  PodIsFaithful(a.pods[i], c.pods[i])
  <2>1. Answer(f, c)[1].pods = PodList(c)
    BY ListAnswers
  <2>2. "pods" \in DOMAIN Types[TypeOf(f)] /\ Types[TypeOf(f)].pods = Many("PodInfo")
    BY <1>1, Entries, ObjectFields DEF PodListResponse, AllPodsResponse
  <2>3. i \in DOMAIN PodList(c) /\ "PodInfo" \notin Scalars
    BY PodLists DEF Scalars
  <2>4. /\ MarshalNested("PodInfo", PodList(c)[i]) # Null
        /\ a.pods[i] = MarshalNested("PodInfo", PodList(c)[i])[1]
    BY <1>2, <2>1, <2>2, <2>3, MembersData
  <2>5. PodList(c)[i] = ConvertPodInfo(ConvertPod(c.pods[i], DetectBasicController(c.pods[i])))
    BY PodLists
  <2>6. GoodPod(c.pods[i])
    BY ContentsAssumption, ListBounds DEF GoodPod
  <2> QED
    BY ONLY <2>4, <2>5, <2>6, PodData
<1>5. DOMAIN c.pods = 1..Len(c.pods)
  BY ContentsAssumption, ListBounds
<1> QED
  BY ONLY <1>3, <1>4, <1>5

(* The list of namespaces tells their ages.                                *)
LEMMA NamespacesAreFaithful ==
    ASSUME NEW c \in Contents, NEW a, a = Marshalled(c)["namespaces"][1]
    PROVE  \A i \in 1..Len(c.namespaces) :
               AgeReadsBack(a.namespaces[i].age, c.namespaces[i].age)
<1>1. "namespaces" \in RootFields /\ TypeOf("namespaces") = "NamespaceListResponse"
  BY TypesOfAnswers DEF AnswerTypes
<1>2. /\ a = MarshalAnswer("NamespaceListResponse", Answer("namespaces", c))[1]
      /\ MarshalAnswer("NamespaceListResponse", Answer("namespaces", c)) # Null
  BY <1>1, AnswersAreData DEF Marshalled
<1>3. DOMAIN c.namespaces = 1..Len(c.namespaces)
  BY ContentsAssumption, ListBounds
<1>4. ASSUME NEW i \in DOMAIN c.namespaces
      PROVE  AgeReadsBack(a.namespaces[i].age, c.namespaces[i].age)
  <2>1. Answer("namespaces", c)[1].namespaces = NamespaceList(c)
    BY ListAnswers
  <2>2. /\ "namespaces" \in DOMAIN Types["NamespaceListResponse"]
        /\ Types["NamespaceListResponse"].namespaces = Many("NamespaceInfo")
    BY Entries, ObjectFields DEF NamespaceListResponse
  <2>3. i \in DOMAIN NamespaceList(c) /\ "NamespaceInfo" \notin Scalars
    BY NamespaceLists DEF Scalars
  <2>4. /\ MarshalNested("NamespaceInfo", NamespaceList(c)[i]) # Null
        /\ a.namespaces[i] = MarshalNested("NamespaceInfo", NamespaceList(c)[i])[1]
    BY <1>2, <2>1, <2>2, <2>3, MembersData
  <2>5. NamespaceList(c)[i] = ConvertNamespaceInfo(ConvertNamespaceToInfo(c.namespaces[i]))
    BY NamespaceLists
  <2>6. c.namespaces[i].age \in Int
    BY <1>3, ContentsAssumption
  <2> QED
    BY ONLY <2>4, <2>5, <2>6, NamespaceData
<1> QED
  BY ONLY <1>3, <1>4

-----------------------------------------------------------------------------
(* The three kinds of root fields have no field in common.                 *)
LEMMA FieldKinds ==
    /\ QueryFields \cap MutationFields = {}
    /\ QueryFields \cap SubscriptionFields = {}
    /\ MutationFields \cap SubscriptionFields = {}
    /\ "none" \notin RootFields
    /\ MutationFields \cap (HealthFields \cup {"pod"}) = {}
  BY DEF QueryFields, MutationFields, SubscriptionFields, RootFields, HealthFields,
         Query, Mutation, Subscription

(* A mutation is audited.                                                  *)
LEMMA MutationsAreAudited == \A f \in MutationFields : Audited(f)
  BY FieldKinds DEF Audited

(* The fields of an operation with a mutation are all mutations.           *)
LEMMA MutationsAreAlone ==
    ASSUME NEW o \in Operations, NEW i \in 1..Len(o), NEW j \in 1..Len(o),
           o[j] \in MutationFields
    PROVE  o[i] \in MutationFields
  BY OperationsAssumption, FieldKinds

(* An operation is a sequence of root fields that fits the slots.          *)
LEMMA OperationFits ==
    ASSUME NEW o \in Operations
    PROVE  /\ Len(o) \in 1..MaxFields /\ o # <<>>
           /\ \A i \in 1..Len(o) : o[i] \in RootFields
<1>1. o \in Seq(RootFields) /\ Len(o) \in 1..MaxFields
  BY OperationsAssumption
<1> QED
  BY <1>1, FieldsAssumption

(* A place in an operation is a slot.                                      *)
LEMMA PlaceIsSlot ==
    ASSUME NEW r \in Requests, NEW o \in Operations, NEW i \in 1..Len(o)
    PROVE  <<r, i>> \in Slots
<1>1. PICK n \in 1..MaxFields : n = Len(o)
  BY OperationFits
<1>2. i \in 1..MaxFields
  BY <1>1, FieldsAssumption
<1> QED
  BY <1>2 DEF Slots

(* A list has as many objects as the cluster.                              *)
LEMMA CountIsNat ==
    ASSUME NEW c \in Contents, NEW f
    PROVE  Count(f, c) \in Nat
  BY ContentsAssumption DEF Count

(* The code of a failure is one of those of the answers, and names the     *)
(* API server's reason if it names one; it leaves the effect open only if  *)
(* it is that of a timeout or of no known reason.                          *)
LEMMA CodeOfFailure ==
    ASSUME NEW why \in APIReasons, NEW wrapped \in BOOLEAN
    PROVE  LET code == HandleServiceError(why, wrapped) IN
           /\ code \in Codes \ {"none", "ARGUMENT"}
           /\ code = "NOT_FOUND" => why = "NotFound"
           /\ code = "FORBIDDEN" => why = "Forbidden"
           /\ why \in {"Timeout", "Other"} => code \in {"SERVICE_ERROR", "TIMEOUT"}
<1>1. CASE wrapped = TRUE
  BY <1>1 DEF HandleServiceError, Codes
<1>2. CASE wrapped = FALSE
  BY <1>2 DEF HandleServiceError, Codes, APIReasons
<1> QED
  BY <1>1, <1>2

-----------------------------------------------------------------------------
(* A step of one slot preserves the invariant if the new record is typed   *)
(* and good, keeps the field, and a slot that leaves "idle" had its turn.  *)
LEMMA StepKeepsInv ==
    ASSUME Inv, NEW s \in Slots, NEW from \in {"idle", "resolve", "log", "marshal", "stream"},
           NEW new \in SlotStates, Step(s, from, new),
           GoodRecord(new), new.field = slot[s].field, new.pc \notin {"unused", "idle"},
           from = "idle" => Turn(s)
    PROVE  Inv'
<1>1. /\ slot \in [Slots -> SlotStates] /\ slot[s].pc = from
      /\ slot' = [slot EXCEPT ![s] = new]
      /\ op' = op
  BY DEF Inv, TypeOK, Step
<1>2. slot' \in [Slots -> SlotStates] /\ slot'[s] = new
  BY <1>1
<1>3. \A t \in Slots : t # s => slot'[t] = slot[t]
  BY <1>1
<1>4. TypeOK'
  <2>1. /\ main' = main /\ quitter' = quitter /\ signalled' = signalled
        /\ served' = served /\ pool' = pool
        /\ op' = op /\ gone' = gone /\ data' = data /\ sent' = sent /\ content' = content
    BY DEF Step
  <2> QED
    BY <1>2, <2>1 DEF Inv, TypeOK
<1>5. ASSUME NEW t \in Slots
      PROVE  GoodRecord(slot'[t]) /\ Placed(t)'
  <2>1. CASE t = s
    BY <1>1, <1>2, <2>1 DEF Inv, Placed
  <2>2. CASE t # s
    BY <1>1, <1>3, <2>2 DEF Inv, Placed
  <2> QED
    BY <2>1, <2>2
<1>6. ASSUME NEW t \in Slots
      PROVE  InTurn(t)'
  <2> SUFFICES ASSUME slot'[t].field \in MutationFields, slot'[t].pc # "idle",
                      NEW i \in 1..(t[2] - 1)
               PROVE  slot'[<<t[1], i>>].pc = "done"
    BY DEF InTurn
  <2>1. <<t[1], i>> \in Slots
    BY FieldsAssumption DEF Slots
  <2>2. slot[<<t[1], i>>].pc = "done"
    <3>1. CASE t = s
      BY <1>1, <1>2, <3>1 DEF Inv, InTurn, Turn
    <3>2. CASE t # s
      BY <1>3, <3>2 DEF Inv, InTurn
    <3> QED
      BY <3>1, <3>2
  <2>3. <<t[1], i>> # s
    BY <1>1, <2>2
  <2> QED
    BY <1>3, <2>1, <2>2, <2>3
<1>7. ASSUME NEW r \in Requests
      PROVE  Responded(r)'
  <2> SUFFICES ASSUME data[r] # "none"
               PROVE  /\ \A i \in 1..Len(op[r]) : slot'[<<r, i>>] = slot[<<r, i>>]
                      /\ op'[r] = op[r] /\ data'[r] = data[r] /\ Responded(r)
    BY DEF Step, Responded, Finished, Invalids
  <2>1. op'[r] = op[r] /\ data'[r] = data[r] /\ Responded(r)
    BY DEF Step, Inv
  <2>2. ASSUME NEW i \in 1..Len(op[r])
        PROVE  slot'[<<r, i>>] = slot[<<r, i>>]
    <3>1. <<r, i>> \in Slots
      BY <2>1, PlaceIsSlot DEF Inv, TypeOK, Responded
    <3>2. slot[<<r, i>>].pc = "done"
      BY <2>1 DEF Responded, Finished
    <3> QED
      BY <1>1, <1>3, <3>1, <3>2
  <2> QED
    BY <2>1, <2>2
<1>8. (answer = Marshalled(content))'
  BY DEF Step, Inv
<1> QED
  BY <1>4, <1>5, <1>6, <1>7, <1>8 DEF Inv

-----------------------------------------------------------------------------
(* The records of a slot, one after the other.  x is the record before the *)
(* step and y the record after it.                                         *)

Fits(x, y) ==
    y \in SlotStates /\ GoodRecord(y) /\ y.field = x.field /\ y.pc \notin {"unused", "idle"}

(* The goroutine of the field begins.                                      *)
LEMMA BeginFits ==
    ASSUME NEW x \in SlotStates, GoodRecord(x), x.pc = "idle",
           NEW y, y = [x EXCEPT !.pc = "resolve"]
    PROVE  Fits(x, y)
<1>1. "resolve" \in FieldPhases
  BY DEF FieldPhases
<1>2. y \in SlotStates
  BY <1>1 DEF SlotStates
<1>3. /\ y.field = x.field /\ y.pc = "resolve" /\ y.out = x.out /\ y.code = x.code
      /\ y.effect = x.effect /\ y.row = x.row /\ y.lost = x.lost
  BY <1>1 DEF SlotStates
<1>4. GoodRecord(y)
  BY <1>3 DEF GoodRecord, Before
<1> QED
  BY <1>2, <1>3, <1>4 DEF Fits

(* The arguments are refused, by the executor or by the resolver.          *)
LEMMA RefusedFits ==
    ASSUME NEW x \in SlotStates, GoodRecord(x), x.pc = "resolve",
           NEW code \in {"ARGUMENT", "VALIDATION_ERROR"}, NEW next \in {"log", "marshal"},
           next = "log" => Audited(x.field),
           next = "marshal" /\ Audited(x.field) => code = "ARGUMENT",
           NEW y, y = [x EXCEPT !.out = "error", !.code = code, !.why = "none", !.pc = next]
    PROVE  Fits(x, y)
<1>1. "error" \in Outcomes /\ next \in FieldPhases /\ code \in Codes /\ "none" \in Whys
  BY DEF Outcomes, FieldPhases, Codes, Whys
<1>2. y \in SlotStates
  BY <1>1 DEF SlotStates
<1>3. /\ y.field = x.field /\ y.out = "error" /\ y.code = code /\ y.why = "none"
      /\ y.pc = next /\ y.effect = x.effect /\ y.row = x.row /\ y.lost = x.lost
  BY <1>1 DEF SlotStates
<1>4. x.effect = FALSE /\ x.row = NoRow /\ x.lost = FALSE
  BY DEF GoodRecord, Before
<1>5. GoodRecord(y)
  BY <1>3, <1>4 DEF GoodRecord, Before
<1> QED
  BY <1>2, <1>3, <1>5 DEF Fits

(* The call fails.                                                         *)
LEMMA CallFailedFits ==
    ASSUME NEW x \in SlotStates, GoodRecord(x), x.pc = "resolve",
           NEW why \in APIReasons, NEW wrapped \in BOOLEAN, NEW done \in BOOLEAN,
           done = TRUE => MayHaveEffect(x.field, why, wrapped),
           NEW code, code = HandleServiceError(why, wrapped),
           NEW next, next = AfterCall(x.field),
           NEW y,
           y = [[x EXCEPT !.out = "error", !.code = code, !.why = why, !.pc = "log"] EXCEPT
                    !.pc = next, !.effect = done]
    PROVE  Fits(x, y)
<1>1. /\ code \in Codes \ {"none", "ARGUMENT"}
      /\ code = "NOT_FOUND" => why = "NotFound"
      /\ code = "FORBIDDEN" => why = "Forbidden"
      /\ why \in {"Timeout", "Other"} => code \in {"SERVICE_ERROR", "TIMEOUT"}
  BY CodeOfFailure
<1>2. next \in {"log", "marshal"} /\ (next = "log" <=> Audited(x.field))
  BY DEF AfterCall
<1>3. done = TRUE => x.field \in MutationFields /\ code \in {"SERVICE_ERROR", "TIMEOUT"}
  BY <1>1 DEF MayHaveEffect
<1>4. /\ "error" \in Outcomes /\ next \in FieldPhases /\ code \in Codes /\ why \in Whys
      /\ "log" \in FieldPhases
  BY <1>1, <1>2 DEF Outcomes, FieldPhases, Whys
<1>5. y \in SlotStates
  BY <1>4 DEF SlotStates
<1>6. /\ y.field = x.field /\ y.out = "error" /\ y.code = code /\ y.why = why
      /\ y.pc = next /\ y.effect = done /\ y.row = x.row /\ y.lost = x.lost
  BY <1>4 DEF SlotStates
<1>7. x.row = NoRow /\ x.lost = FALSE
  BY DEF GoodRecord, Before
<1>8. GoodRecord(y)
  BY <1>1, <1>2, <1>3, <1>6, <1>7 DEF GoodRecord, Before
<1> QED
  BY <1>2, <1>5, <1>6, <1>8 DEF Fits

(* The call returns.                                                       *)
LEMMA CallReturnedFits ==
    ASSUME NEW x \in SlotStates, GoodRecord(x), x.pc = "resolve",
           NEW next, next = AfterCall(x.field),
           NEW effect \in BOOLEAN, effect = TRUE => x.field \in MutationFields,
           NEW y, y = [x EXCEPT !.out = "ok", !.pc = next, !.effect = effect]
    PROVE  Fits(x, y)
<1>1. /\ next \in {"log", "marshal"} /\ (next = "log" <=> Audited(x.field))
      /\ next \in FieldPhases /\ "ok" \in Outcomes
  BY DEF AfterCall, FieldPhases, Outcomes
<1>2. y \in SlotStates
  BY <1>1 DEF SlotStates
<1>3. /\ y.field = x.field /\ y.out = "ok" /\ y.code = x.code /\ y.pc = next
      /\ y.effect = effect /\ y.row = x.row /\ y.lost = x.lost
  BY <1>1 DEF SlotStates
<1>4. x.code = "none" /\ x.row = NoRow /\ x.lost = FALSE
  BY DEF GoodRecord, Before
<1>5. GoodRecord(y)
  BY <1>1, <1>3, <1>4 DEF GoodRecord, Before
<1> QED
  BY <1>1, <1>2, <1>3, <1>5 DEF Fits

(* The row is stored or lost.                                              *)
LEMMA LoggedFits ==
    ASSUME NEW x \in SlotStates, GoodRecord(x), x.pc = "log",
           NEW stored \in BOOLEAN, NEW c \in Contents,
           NEW row, row = IF stored THEN Row(x.field, x.out, c) ELSE NoRow,
           NEW lost \in BOOLEAN, lost = TRUE <=> stored = FALSE,
           NEW y, y = [x EXCEPT !.pc = "marshal", !.lost = lost, !.row = row]
    PROVE  Fits(x, y)
<1>1. /\ row \in Rows
      /\ stored = TRUE <=> row # NoRow
      /\ row # NoRow =>
            (row.status = 500 <=> x.out = "error" /\ x.field \in MutationFields)
  <2>1. Count(x.field, c) \in Nat
    BY CountIsNat
  <2>2. CASE stored = TRUE
    BY <2>1, <2>2 DEF Row, NoRow, Rows
  <2>3. CASE stored = FALSE
    BY <2>3 DEF NoRow, Rows
  <2> QED
    BY <2>2, <2>3
<1>2. "marshal" \in FieldPhases /\ row \in Rows
  BY <1>1 DEF FieldPhases
<1>3. y \in SlotStates
  BY <1>2 DEF SlotStates
<1>4. /\ y.field = x.field /\ y.out = x.out /\ y.code = x.code /\ y.why = x.why
      /\ y.pc = "marshal" /\ y.effect = x.effect /\ y.row = row /\ y.lost = lost
  BY <1>1, <1>2 DEF SlotStates
<1>5. GoodRecord(y)
  BY <1>1, <1>4 DEF GoodRecord, Before
<1> QED
  BY <1>3, <1>4, <1>5 DEF Fits

(* The field is marshalled, and a stream goes on or ends.                  *)
LEMMA MarshalledFits ==
    ASSUME NEW x \in SlotStates, GoodRecord(x), x.pc \in {"marshal", "stream"},
           NEW next \in {"marshal", "stream", "done"}, NEW null \in BOOLEAN,
           null = TRUE <=> x.out = "error",
           NEW y, y = [x EXCEPT !.pc = next, !.null = null]
    PROVE  Fits(x, y)
<1>1. next \in FieldPhases
  BY DEF FieldPhases
<1>2. y \in SlotStates
  BY <1>1 DEF SlotStates
<1>3. /\ y.field = x.field /\ y.out = x.out /\ y.code = x.code /\ y.why = x.why
      /\ y.pc = next /\ y.effect = x.effect /\ y.row = x.row /\ y.lost = x.lost
      /\ y.null = null
  BY <1>1 DEF SlotStates
<1>4. GoodRecord(y)
  BY <1>3 DEF GoodRecord, Before
<1> QED
  BY <1>2, <1>3, <1>4 DEF Fits

-----------------------------------------------------------------------------
(* The steps of a slot.                                                    *)

(* The record of a slot has its type and is good.                          *)
LEMMA SlotRecord ==
    ASSUME Inv, NEW s \in Slots
    PROVE  slot[s] \in SlotStates /\ GoodRecord(slot[s])
  BY DEF Inv, TypeOK

(* A slot in use is one of a root field.                                   *)
LEMMA SlotInUse ==
    ASSUME Inv, NEW s \in Slots, slot[s].pc # "unused"
    PROVE  slot[s].field \in RootFields
<1>1. /\ s[2] \in 1..Len(op[s[1]]) /\ slot[s].field = op[s[1]][s[2]]
      /\ op[s[1]] \in Operations \cup {<<>>}
  BY DEF Inv, TypeOK, Placed, Slots
<1> QED
  BY <1>1, OperationFits

(* A step of a slot whose new record fits the old one.                     *)
LEMMA FitKeepsInv ==
    ASSUME Inv, NEW s \in Slots, NEW x, x = slot[s], NEW y, Fits(x, y),
           NEW from \in {"idle", "resolve", "log", "marshal", "stream"},
           Step(s, from, y), from = "idle" => Turn(s)
    PROVE  Inv'
  BY StepKeepsInv DEF Fits

(* Every step of a field, by the new record it leaves.                     *)
LEMMA FieldKeepsInv ==
    ASSUME Inv, NEW s \in Slots, Field(s) \/ Stream(s)
    PROVE  Inv'
<1> PICK x : x = slot[s]
  OBVIOUS
<1>1. x \in SlotStates /\ GoodRecord(x)
  BY SlotRecord
<1>2. CASE Begin(s)
  <2> PICK y : y = [x EXCEPT !.pc = "resolve"]
    OBVIOUS
  <2>1. Step(s, "idle", y) /\ Turn(s) /\ x.pc = "idle"
    BY <1>2 DEF Begin, Step
  <2> QED
    BY <1>1, <2>1, BeginFits, FitKeepsInv
<1>3. CASE ArgsFail(s)
  <2> PICK y : y = [x EXCEPT !.out = "error", !.code = "ARGUMENT", !.why = "none", !.pc = "marshal"]
    OBVIOUS
  <2>1. Step(s, "resolve", y) /\ x.pc = "resolve"
    BY <1>3 DEF ArgsFail, Failed, Step
  <2>2. Fits(x, y)
    BY <1>1, <2>1, RefusedFits
  <2> QED
    BY <2>1, <2>2, FitKeepsInv
<1>4. CASE Reject(s)
  <2> PICK next : next = AfterCall(x.field)
    OBVIOUS
  <2> PICK y : y = [x EXCEPT !.out = "error", !.code = "VALIDATION_ERROR", !.why = "none", !.pc = next]
    OBVIOUS
  <2>1. Step(s, "resolve", y) /\ x.pc = "resolve"
    BY <1>4 DEF Reject, Failed, Step
  <2>2. next \in {"log", "marshal"} /\ (next = "log" <=> Audited(x.field))
    BY DEF AfterCall
  <2>3. Fits(x, y)
    BY <1>1, <2>1, <2>2, RefusedFits
  <2> QED
    BY <2>1, <2>3, FitKeepsInv
<1>5. CASE CallReturns(s)
  <2> PICK next : next = AfterCall(x.field)
    OBVIOUS
  <2>1. x.pc = "resolve"
    BY <1>5 DEF CallReturns, Step
  <2>2. CASE x.field \in MutationFields
    <3> PICK y : y = [x EXCEPT !.out = "ok", !.pc = next, !.effect = TRUE]
      OBVIOUS
    <3>1. (x.field \in MutationFields) = TRUE
      BY <2>2
    <3>2. Step(s, "resolve", y)
      BY Zenon, <1>5, <3>1 DEF CallReturns
    <3>3. Fits(x, y)
      BY <1>1, <2>1, <2>2, CallReturnedFits
    <3> QED
      BY <3>2, <3>3, FitKeepsInv
  <2>3. CASE x.field \notin MutationFields
    <3> PICK y : y = [x EXCEPT !.out = "ok", !.pc = next, !.effect = FALSE]
      OBVIOUS
    <3>1. (x.field \in MutationFields) = FALSE
      BY <2>3
    <3>2. Step(s, "resolve", y)
      BY Zenon, <1>5, <3>1 DEF CallReturns
    <3>3. Fits(x, y)
      BY <1>1, <2>1, CallReturnedFits
    <3> QED
      BY <3>2, <3>3, FitKeepsInv
  <2> QED
    BY <2>2, <2>3
<1>6. CASE CallFails(s)
  <2>1. PICK why \in Reasons, wrapped \in Wrapped(slot[s].field), done \in BOOLEAN :
            /\ done => MayHaveEffect(slot[s].field, why, wrapped)
            /\ Step(s, "resolve",
                    [Failed(s, HandleServiceError(why, wrapped), why, "log") EXCEPT
                        !.pc = AfterCall(slot[s].field), !.effect = done])
    BY <1>6 DEF CallFails
  <2> PICK code : code = HandleServiceError(why, wrapped)
    OBVIOUS
  <2> PICK next : next = AfterCall(x.field)
    OBVIOUS
  <2> PICK y : y = [[x EXCEPT !.out = "error", !.code = code, !.why = why, !.pc = "log"] EXCEPT
                      !.pc = next, !.effect = done]
    OBVIOUS
  <2>2. Step(s, "resolve", y) /\ x.pc = "resolve"
    BY <2>1 DEF Failed, Step
  <2>3. why \in APIReasons /\ wrapped \in BOOLEAN
    BY ReasonsAssumption DEF Wrapped
  <2>4. done = TRUE => MayHaveEffect(x.field, why, wrapped)
    BY <2>1
  <2>5. Fits(x, y)
    BY ZenonT(60), <1>1, <2>2, <2>3, <2>4, CallFailedFits
  <2> QED
    BY <2>2, <2>5, FitKeepsInv
<1>7. CASE LogRow(s)
  <2>1. PICK stored \in BOOLEAN :
        Step(s, "log",
             [slot[s] EXCEPT !.pc = "marshal", !.lost = ~stored,
                 !.row = IF stored THEN Row(slot[s].field, slot[s].out, content) ELSE NoRow])
    BY <1>7 DEF LogRow
  <2> PICK c : c = content
    OBVIOUS
  <2> PICK row : row = IF stored THEN Row(x.field, x.out, c) ELSE NoRow
    OBVIOUS
  <2> PICK lost \in BOOLEAN : lost = ~stored
    OBVIOUS
  <2> PICK y : y = [x EXCEPT !.pc = "marshal", !.lost = lost, !.row = row]
    OBVIOUS
  <2>2. Step(s, "log", y) /\ x.pc = "log"
    BY <2>1 DEF Step
  <2>3. c \in Contents
    BY DEF Inv, TypeOK
  <2>4. Fits(x, y)
    BY <1>1, <2>2, <2>3, LoggedFits
  <2> QED
    BY <2>2, <2>4, FitKeepsInv
<1>8. CASE Complete(s)
  <2> PICK next : next = IF x.field \in SubscriptionFields /\ x.out = "ok" THEN "stream" ELSE "done"
    OBVIOUS
  <2> PICK null : null = IsNull(x.field, x.out)
    OBVIOUS
  <2> PICK y : y = [x EXCEPT !.pc = next, !.null = null]
    OBVIOUS
  <2>1. Step(s, "marshal", y) /\ x.pc = "marshal"
    BY <1>8 DEF Complete, Step
  <2>2. next \in {"marshal", "stream", "done"} /\ null \in BOOLEAN
    BY DEF IsNull
  <2>4. null = TRUE <=> x.out = "error"
    <3>1. x.field \in RootFields
      BY <1>1, <2>1, SlotInUse
    <3>2. answer[x.field] # Null
      BY <3>1, AnswersAreData DEF Inv
    <3> QED
      BY <3>2 DEF IsNull
  <2>3. Fits(x, y)
    BY <1>1, <2>1, <2>2, <2>4, MarshalledFits
  <2> QED
    BY <2>1, <2>3, FitKeepsInv
<1>9. CASE Stream(s)
  <2>1. PICK next \in {"marshal", "done"} : Step(s, "stream", [x EXCEPT !.pc = next])
    BY <1>9 DEF Stream, StreamSends, StreamEnds
  <2> PICK y : y = [x EXCEPT !.pc = next]
    OBVIOUS
  <2>2. Step(s, "stream", y) /\ x.pc = "stream"
    BY <2>1 DEF Step
  <2>3. x.null \in BOOLEAN /\ y = [x EXCEPT !.pc = next, !.null = x.null]
    BY <1>1, Zenon DEF SlotStates
  <2>5. x.null = TRUE <=> x.out = "error"
    BY <1>1, <2>2 DEF GoodRecord
  <2>4. Fits(x, y)
    BY <1>1, <2>2, <2>3, <2>5, MarshalledFits
  <2> QED
    BY <2>2, <2>4, FitKeepsInv
<1> QED
  BY <1>2, <1>3, <1>4, <1>5, <1>6, <1>7, <1>8, <1>9 DEF Field, Call

-----------------------------------------------------------------------------
(* The steps that leave the slots alone.                                   *)

(* The process starts, shuts down or ends.                                 *)
LEMMA ProcessKeepsInv ==
    ASSUME Inv, Process
    PROVE  Inv'
<1>1. /\ slot' = slot /\ op' = op /\ gone' = gone /\ data' = data /\ sent' = sent
      /\ content' = content
  BY DEF Process, Alone
<1>2. /\ main' \in MainPhases /\ quitter' \in QuitterPhases /\ signalled' \in BOOLEAN
      /\ served' \in BOOLEAN
      /\ pool' \in {"none", "open", "closed"}
      /\ main' \in {"migrate", "client", "routes", "listen", "serving", "returning"} =>
            pool' = "open"
  <2> USE DEF MainPhases, QuitterPhases
  <2>1. /\ main \in MainPhases /\ quitter \in QuitterPhases /\ signalled \in BOOLEAN
        /\ served \in BOOLEAN
        /\ pool \in {"none", "open", "closed"}
        /\ main \in {"migrate", "client", "routes", "listen", "serving", "returning"} =>
              pool = "open"
    BY DEF Inv, TypeOK
  <2>2. CASE LoadConfig \/ Connect \/ Migrate \/ InitClient \/ SetupRoutes \/ ListenAndServe
    BY <2>1, <2>2
       DEF LoadConfig, Connect, Migrate, InitClient, SetupRoutes, ListenAndServe, MainStep
  <2>3. CASE ServerClosed \/ CloseDatabase \/ Exit
    BY <2>1, <2>3 DEF ServerClosed, CloseDatabase, Exit, MainStep
  <2>4. CASE Notify \/ BeginShutdown \/ EndShutdown
    BY <2>1, <2>4 DEF Notify, BeginShutdown, EndShutdown, QuitterStep
  <2>5. CASE Fatal \/ Signal
    BY <2>1, <2>5 DEF Fatal, Signal
  <2> QED
    BY <2>2, <2>3, <2>4, <2>5 DEF Process, Alone, Startup, Teardown, Shutdown
<1>3. TypeOK'
  BY <1>1, <1>2 DEF Inv, TypeOK
<1>4. answer' = answer
  BY DEF Process, Alone
<1> QED
  BY <1>1, <1>3, <1>4 DEF Inv, Placed, InTurn, Responded, Finished, Invalids

(* A request is answered or its client leaves.                             *)
LEMMA ResponseKeepsInv ==
    ASSUME Inv, NEW r \in Requests, Respond(r) \/ ClientLeaves(r)
    PROVE  Inv'
<1>1. /\ main' = main /\ quitter' = quitter /\ signalled' = signalled
      /\ served' = served /\ pool' = pool
      /\ slot' = slot /\ op' = op /\ content' = content /\ answer' = answer
  BY DEF Respond, ClientLeaves
<1>2. /\ gone' \in [Requests -> BOOLEAN]
      /\ data' \in [Requests -> {"none", "object", "null"}]
      /\ sent' \in [Requests -> {"none", "sent", "lost"}]
  BY DEF Respond, ClientLeaves, Inv, TypeOK
<1>3. TypeOK'
  BY <1>1, <1>2 DEF Inv, TypeOK
<1>4. ASSUME NEW q \in Requests
      PROVE  Responded(q)'
  <2>1. Finished(q)' = Finished(q) /\ Invalids(q)' = Invalids(q) /\ op'[q] = op[q]
    BY <1>1 DEF Finished, Invalids
  <2>2. CASE data'[q] = data[q]
    BY <2>1, <2>2 DEF Inv, Responded
  <2>3. CASE data'[q] # data[q]
    <3>1. /\ q = r /\ op[r] # <<>> /\ Finished(r)
          /\ data'[r] = IF Invalids(r) = {} THEN "object" ELSE "null"
      BY <2>3 DEF Respond, ClientLeaves, Inv, TypeOK
    <3> QED
      BY <2>1, <3>1 DEF Responded
  <2> QED
    BY <2>2, <2>3
<1> QED
  BY <1>1, <1>3, <1>4 DEF Inv, Placed, InTurn

(* An operation that is accepted fills the slots of a request that has     *)
(* used none.                                                              *)
LEMMA AcceptKeepsInv ==
    ASSUME Inv, NEW r \in Requests, Accept(r)
    PROVE  Inv'
<1>1. PICK o \in Operations :
        /\ op' = [op EXCEPT ![r] = o]
        /\ slot' = [s \in Slots |->
                        IF s[1] = r /\ s[2] \in 1..Len(o)
                        THEN [Unused EXCEPT !.field = o[s[2]], !.pc = "idle"]
                        ELSE slot[s]]
  BY DEF Accept
<1>2. /\ main' = main /\ quitter' = quitter /\ signalled' = signalled
      /\ served' = served /\ pool' = pool
      /\ gone' = gone /\ data' = data /\ sent' = sent /\ content' = content /\ op[r] = <<>>
  BY DEF Accept
<1>3. \A s \in Slots : s[1] = r => slot[s].pc = "unused"
  BY <1>2 DEF Inv, Placed
<1>4. /\ Len(o) \in 1..MaxFields /\ o # <<>>
      /\ \A i \in 1..Len(o) : o[i] \in RootFields
  BY OperationFits
<1>5. op' \in [Requests -> Operations \cup {<<>>}] /\ op'[r] = o
      /\ \A q \in Requests \ {r} : op'[q] = op[q]
  BY <1>1 DEF Inv, TypeOK
<1>6. ASSUME NEW s \in Slots, s[1] = r, s[2] \in 1..Len(o)
      PROVE  /\ slot'[s] \in SlotStates /\ GoodRecord(slot'[s])
             /\ slot'[s].pc = "idle" /\ slot'[s].field = o[s[2]]
  <2> PICK f \in RootFields : f = o[s[2]]
    BY <1>4, <1>6
  <2> PICK y : y = [field |-> f, pc |-> "idle", out |-> "none", code |-> "none", why |-> "none",
                    effect |-> FALSE, row |-> NoRow, lost |-> FALSE, null |-> FALSE]
    OBVIOUS
  <2>1. slot'[s] = y
    BY <1>1, <1>6 DEF Unused
  <2>2. y \in SlotStates
    BY DEF SlotStates, FieldPhases, Outcomes, Codes, Whys, Rows, NoRow
  <2>3. GoodRecord(y)
    BY DEF GoodRecord, Before
  <2> QED
    BY <2>1, <2>2, <2>3
<1>7. ASSUME NEW s \in Slots, ~(s[1] = r /\ s[2] \in 1..Len(o))
      PROVE  slot'[s] = slot[s]
  BY <1>1, <1>7
<1>8. ASSUME NEW s \in Slots
      PROVE  /\ slot'[s] \in SlotStates /\ GoodRecord(slot'[s])
             /\ Placed(s)' /\ InTurn(s)'
  <2>1. slot[s] \in SlotStates /\ GoodRecord(slot[s]) /\ Placed(s) /\ InTurn(s)
    BY DEF Inv, TypeOK
  <2>2. CASE s[1] = r /\ s[2] \in 1..Len(o)
    BY <1>5, <1>6, <2>2 DEF Placed, InTurn
  <2>3. CASE s[1] = r /\ s[2] \notin 1..Len(o)
    <3>1. slot'[s] = slot[s] /\ slot[s].pc = "unused" /\ slot[s].field = "none"
      BY <1>3, <1>7, <2>1, <2>3 DEF Placed
    <3>2. "none" \notin MutationFields
      BY FieldKinds DEF RootFields
    <3> QED
      BY <2>1, <3>1, <3>2 DEF Placed, InTurn
  <2>4. CASE s[1] # r
    <3>1. slot'[s] = slot[s] /\ s[1] \in Requests /\ op'[s[1]] = op[s[1]]
      BY <1>5, <1>7, <2>4 DEF Slots
    <3>2. Placed(s)'
      BY <2>1, <3>1 DEF Placed
    <3>3. ASSUME NEW i \in 1..(s[2] - 1)
          PROVE  slot'[<<s[1], i>>] = slot[<<s[1], i>>]
      <4>1. <<s[1], i>> \in Slots
        BY FieldsAssumption DEF Slots
      <4> QED
        BY <1>7, <2>4, <4>1
    <3>4. InTurn(s)'
      BY <2>1, <3>1, <3>3 DEF InTurn
    <3> QED
      BY <2>1, <3>1, <3>2, <3>4
  <2> QED
    BY <2>2, <2>3, <2>4
<1>9. slot' \in [Slots -> SlotStates]
  BY <1>1, <1>8
<1>10. TypeOK'
  BY <1>2, <1>5, <1>9 DEF Inv, TypeOK
<1>11. ASSUME NEW q \in Requests, data[q] # "none"
       PROVE  Responded(q)'
  <2>1. q # r /\ Responded(q) /\ op[q] \in Operations
    BY <1>2, <1>11 DEF Inv, TypeOK, Responded
  <2>2. op'[q] = op[q] /\ data'[q] = data[q]
    BY <1>2, <1>5, <2>1
  <2>3. \A i \in 1..Len(op[q]) : slot'[<<q, i>>] = slot[<<q, i>>]
    BY <1>7, <2>1, PlaceIsSlot
  <2> QED
    BY <1>11, <2>1, <2>2, <2>3 DEF Responded, Finished, Invalids
<1>12. \A q \in Requests : Responded(q)'
  BY <1>2, <1>11 DEF Responded
<1>13. (answer = Marshalled(content))'
  BY DEF Accept, Inv
<1> QED
  BY <1>8, <1>10, <1>12, <1>13 DEF Inv

-----------------------------------------------------------------------------
(* The counts in the rows.                                                 *)

(* The row of a field that was answered counts the objects of the answer.  *)
Counted(x, c) == x.row # NoRow /\ x.out = "ok" => x.row.count = Count(x.field, c)
RowsCount == \A s \in Slots : Counted(slot[s], content)

(* A step of one slot, whose new record has to count.                      *)
LEMMA StepKeepsCounts ==
    ASSUME Inv, RowsCount, NEW s \in Slots, NEW from, NEW new, Step(s, from, new),
           Counted(new, content)
    PROVE  RowsCount'
<1>1. /\ slot \in [Slots -> SlotStates] /\ slot' = [slot EXCEPT ![s] = new]
      /\ content' = content
  BY DEF Inv, TypeOK, Step
<1>2. slot'[s] = new /\ \A t \in Slots : t # s => slot'[t] = slot[t]
  BY <1>1
<1>3. \A t \in Slots : Counted(slot'[t], content)
  BY <1>2 DEF RowsCount
<1> QED
  BY <1>1, <1>3 DEF RowsCount

(* Before the log there is no row, and after it the row, the outcome and   *)
(* the field stay as they are.                                             *)
LEMMA FieldKeepsCounts ==
    ASSUME Inv, RowsCount, NEW s \in Slots, Field(s) \/ Stream(s)
    PROVE  RowsCount'
<1> PICK x : x = slot[s]
  OBVIOUS
<1> PICK c : c = content
  OBVIOUS
<1>1. x \in SlotStates /\ GoodRecord(x) /\ Counted(x, c)
  BY SlotRecord DEF RowsCount
<1>2. CASE Begin(s) \/ Stream(s)
  <2>1. PICK from, next : Step(s, from, [x EXCEPT !.pc = next])
    BY <1>2 DEF Begin, Stream, StreamSends, StreamEnds
  <2> PICK y : y = [x EXCEPT !.pc = next]
    OBVIOUS
  <2>2. y.row = x.row /\ y.out = x.out /\ y.field = x.field
    BY <1>1 DEF SlotStates
  <2>3. Counted(y, c)
    BY ONLY <1>1, <2>2 DEF Counted
  <2> QED
    BY <2>1, <2>3, StepKeepsCounts
<1>3. CASE ArgsFail(s)
  <2> PICK next : next = "marshal"
    OBVIOUS
  <2> PICK y : y = [x EXCEPT !.out = "error", !.code = "ARGUMENT", !.why = "none", !.pc = next]
    OBVIOUS
  <2>1. Step(s, "resolve", y)
    BY <1>3 DEF ArgsFail, Failed, Step
  <2>2. y.out = "error"
    BY <1>1 DEF SlotStates
  <2>3. Counted(y, c)
    BY ONLY <2>2 DEF Counted
  <2> QED
    BY <2>1, <2>3, StepKeepsCounts
<1>8. CASE Reject(s)
  <2> PICK next : next = AfterCall(x.field)
    OBVIOUS
  <2> PICK y : y = [x EXCEPT !.out = "error", !.code = "VALIDATION_ERROR", !.why = "none", !.pc = next]
    OBVIOUS
  <2>1. Step(s, "resolve", y)
    BY <1>8 DEF Reject, Failed, Step
  <2>2. y.out = "error"
    BY <1>1 DEF SlotStates
  <2>3. Counted(y, c)
    BY ONLY <2>2 DEF Counted
  <2> QED
    BY <2>1, <2>3, StepKeepsCounts
<1>4. CASE CallReturns(s)
  <2> PICK next, effect : next = AfterCall(x.field) /\ effect = (x.field \in MutationFields)
    OBVIOUS
  <2> PICK y : y = [x EXCEPT !.out = "ok", !.pc = next, !.effect = effect]
    OBVIOUS
  <2>1. Step(s, "resolve", y) /\ x.pc = "resolve"
    BY <1>4 DEF CallReturns, Step
  <2>2. y.row = NoRow
    BY <1>1, <2>1 DEF SlotStates, GoodRecord, Before
  <2>3. Counted(y, c)
    BY ONLY <2>2 DEF Counted
  <2> QED
    BY <2>1, <2>3, StepKeepsCounts
<1>5. CASE CallFails(s)
  <2>1. PICK why, wrapped, done :
            Step(s, "resolve",
                    [Failed(s, HandleServiceError(why, wrapped), why, "log") EXCEPT
                        !.pc = AfterCall(slot[s].field), !.effect = done])
    BY <1>5, Zenon DEF CallFails
  <2> PICK code, next : code = HandleServiceError(why, wrapped) /\ next = AfterCall(x.field)
    OBVIOUS
  <2> PICK y : y = [[x EXCEPT !.out = "error", !.code = code, !.why = why, !.pc = "log"] EXCEPT
                      !.pc = next, !.effect = done]
    OBVIOUS
  <2>2. Step(s, "resolve", y)
    BY <2>1 DEF Failed
  <2>3. y.out = "error"
    BY <1>1 DEF SlotStates
  <2>4. Counted(y, c)
    BY ONLY <2>3 DEF Counted
  <2> QED
    BY <2>2, <2>4, StepKeepsCounts
<1>6. CASE LogRow(s)
  <2>1. PICK stored \in BOOLEAN :
        Step(s, "log",
             [slot[s] EXCEPT !.pc = "marshal", !.lost = ~stored,
                 !.row = IF stored THEN Row(slot[s].field, slot[s].out, content) ELSE NoRow])
    BY <1>6, Zenon DEF LogRow
  <2> PICK row : row = IF stored THEN Row(x.field, x.out, c) ELSE NoRow
    OBVIOUS
  <2> PICK lost : lost = ~stored
    OBVIOUS
  <2> PICK y : y = [x EXCEPT !.pc = "marshal", !.lost = lost, !.row = row]
    OBVIOUS
  <2>2. Step(s, "log", y)
    BY <2>1
  <2>3. y.row = row /\ y.out = x.out /\ y.field = x.field
    BY <1>1 DEF SlotStates
  <2>4. row # NoRow /\ x.out = "ok" => row.count = Count(x.field, c)
    BY DEF Row
  <2>5. Counted(y, c)
    BY ONLY <2>3, <2>4 DEF Counted
  <2> QED
    BY <2>2, <2>5, StepKeepsCounts
<1>7. CASE Complete(s)
  <2> PICK next, null :
        /\ next = IF x.field \in SubscriptionFields /\ x.out = "ok" THEN "stream" ELSE "done"
        /\ null = IsNull(x.field, x.out)
    OBVIOUS
  <2> PICK y : y = [x EXCEPT !.pc = next, !.null = null]
    OBVIOUS
  <2>1. Step(s, "marshal", y)
    BY <1>7 DEF Complete
  <2>2. y.row = x.row /\ y.out = x.out /\ y.field = x.field
    BY <1>1 DEF SlotStates
  <2>3. Counted(y, c)
    BY ONLY <1>1, <2>2 DEF Counted
  <2> QED
    BY <2>1, <2>3, StepKeepsCounts
<1> QED
  BY <1>2, <1>3, <1>4, <1>5, <1>6, <1>7, <1>8 DEF Field, Call

(* A slot that is filled has no row yet.                                   *)
LEMMA AcceptKeepsCounts ==
    ASSUME Inv, RowsCount, NEW r \in Requests, Accept(r)
    PROVE  RowsCount'
<1>1. PICK o \in Operations :
        /\ op' = [op EXCEPT ![r] = o]
        /\ slot' = [s \in Slots |->
                        IF s[1] = r /\ s[2] \in 1..Len(o)
                        THEN [Unused EXCEPT !.field = o[s[2]], !.pc = "idle"]
                        ELSE slot[s]]
  BY DEF Accept
<1>2. content' = content
  BY DEF Accept
<1>3. ASSUME NEW s \in Slots
      PROVE  Counted(slot'[s], content)
  <2>1. CASE s[1] = r /\ s[2] \in 1..Len(o)
    <3> PICK f : f = o[s[2]]
      OBVIOUS
    <3>1. slot'[s] = [field |-> f, pc |-> "idle", out |-> "none", code |-> "none",
                      why |-> "none", effect |-> FALSE, row |-> NoRow, lost |-> FALSE,
                      null |-> FALSE]
      BY <1>1, <2>1 DEF Unused
    <3>2. slot'[s].row = NoRow
      BY ONLY <3>1
    <3> QED
      BY ONLY <3>2 DEF Counted
  <2>2. CASE ~(s[1] = r /\ s[2] \in 1..Len(o))
    <3>1. slot'[s] = slot[s]
      BY <1>1, <2>2
    <3> QED
      BY ONLY <3>1, RowsCount, s \in Slots DEF RowsCount
  <2> QED
    BY ONLY <2>1, <2>2
<1> QED
  BY ONLY <1>2, <1>3 DEF RowsCount

(* No other step writes a row.                                             *)
LEMMA NextKeepsCounts == Inv /\ RowsCount /\ [Next]_vars => RowsCount'
<1> SUFFICES ASSUME Inv, RowsCount, [Next]_vars PROVE RowsCount'
  OBVIOUS
<1>1. CASE slot' = slot /\ content' = content
  BY <1>1 DEF RowsCount
<1>2. CASE UNCHANGED vars \/ Process
  BY <1>1, <1>2 DEF vars, Process, Alone
<1>3. CASE \E r \in Requests : Respond(r) \/ ClientLeaves(r)
  BY <1>1, <1>3 DEF Respond, ClientLeaves
<1>4. CASE \E r \in Requests : Accept(r)
  BY <1>4, AcceptKeepsCounts
<1>5. CASE \E s \in Slots : Field(s) \/ Stream(s)
  BY <1>5, FieldKeepsCounts
<1> QED
  BY <1>2, <1>3, <1>4, <1>5 DEF Next

-----------------------------------------------------------------------------
(* The invariant and the theorems.                                         *)

(* The invariant holds at the start,                                       *)
LEMMA InitHasInv == Init => Inv
<1> SUFFICES ASSUME Init PROVE Inv
  OBVIOUS
<1>1. /\ main = "config" /\ quitter = "none" /\ signalled = FALSE /\ served = FALSE
      /\ pool = "none"
      /\ content \in Contents /\ \A s \in Slots : slot[s] = Unused
  BY DEF Init
<1>2. /\ op \in [Requests -> Operations \cup {<<>>}]
      /\ gone \in [Requests -> BOOLEAN]
      /\ data \in [Requests -> {"none", "object", "null"}]
      /\ sent \in [Requests -> {"none", "sent", "lost"}]
  BY DEF Init
<1>3. Unused \in SlotStates
  BY DEF Unused, SlotStates, FieldPhases, Outcomes, Codes, Whys, Rows, NoRow
<1>4. slot \in [Slots -> SlotStates]
  BY <1>3 DEF Init
<1>5. TypeOK
  BY <1>1, <1>2, <1>4 DEF TypeOK, MainPhases, QuitterPhases
<1>6. Unused.pc = "unused" /\ Unused.field = "none" /\ GoodRecord(Unused)
  BY DEF Unused, GoodRecord, Before
<1>7. "none" \notin MutationFields
  BY FieldKinds DEF RootFields
<1>8. answer = Marshalled(content) /\ \A r \in Requests : Responded(r)
  BY DEF Init, Responded
<1> QED
  BY <1>1, <1>5, <1>6, <1>7, <1>8 DEF Inv, Placed, InTurn

(* and every step preserves it.                                            *)
LEMMA NextKeepsInv == Inv /\ [Next]_vars => Inv'
<1> SUFFICES ASSUME Inv, [Next]_vars PROVE Inv'
  OBVIOUS
<1>1. CASE UNCHANGED vars
  <2>1. /\ main' = main /\ quitter' = quitter /\ signalled' = signalled
        /\ served' = served /\ pool' = pool
        /\ op' = op /\ gone' = gone /\ data' = data /\ sent' = sent /\ slot' = slot
        /\ content' = content /\ answer' = answer
    BY <1>1 DEF vars
  <2> QED
    BY <2>1 DEF Inv, TypeOK, Placed, InTurn, Responded, Finished, Invalids
<1>2. CASE Process
  BY <1>2, ProcessKeepsInv
<1>3. CASE \E r \in Requests : Accept(r) \/ Respond(r) \/ ClientLeaves(r)
  BY <1>3, AcceptKeepsInv, ResponseKeepsInv
<1>4. CASE \E s \in Slots : Field(s) \/ Stream(s)
  BY <1>4, FieldKeepsInv
<1> QED
  BY <1>1, <1>2, <1>3, <1>4 DEF Next

(* The invariant holds in every reachable state.                           *)
THEOREM InvHolds == Spec => []Inv
  BY InitHasInv, NextKeepsInv, PTL DEF Spec

(* Every variable keeps its type, and the pool is open from Connect to the *)
(* deferred Close.                                                         *)
THEOREM TypeCorrect == Spec => []TypeOK
<1>1. Inv => TypeOK
  BY DEF Inv
<1> QED
  BY InvHolds, <1>1, PTL

(* The effect of a mutation comes after those before it in its operation   *)
(* are done and on record, for operations of any length.                   *)
THEOREM MutationsFollowEachOther == Spec => []MutationsAreSerial
<1>1. ASSUME Inv, NEW s \in Slots, NEW t \in Slots, s[1] = t[1], s[2] < t[2],
             slot[t].effect
      PROVE  /\ slot[s].pc = "done"
             /\ slot[s].code = "ARGUMENT" \/ slot[s].lost \/ slot[s].row # NoRow
  <2>1. /\ slot[t] \in SlotStates /\ GoodRecord(slot[t]) /\ Placed(t) /\ InTurn(t)
        /\ GoodRecord(slot[s]) /\ Placed(s) /\ op \in [Requests -> Operations \cup {<<>>}]
    BY <1>1 DEF Inv, TypeOK
  <2>2. slot[t].effect = TRUE
    BY <1>1, <2>1 DEF SlotStates
  <2>3. slot[t].field \in MutationFields /\ slot[t].pc \notin Before
    BY <2>1, <2>2 DEF GoodRecord
  <2>4. s[2] \in 1..(t[2] - 1) /\ s = <<t[1], s[2]>> /\ s[1] \in Requests
    BY <1>1, FieldsAssumption DEF Slots
  <2>5. slot[s].pc = "done"
    BY <2>1, <2>3, <2>4 DEF InTurn, Before
  <2>6. slot[s].field \in MutationFields
    <3> DEFINE o == op[s[1]]
    <3>1. /\ s[2] \in 1..Len(o) /\ slot[s].field = o[s[2]]
          /\ t[2] \in 1..Len(o) /\ slot[t].field = o[t[2]]
      BY <1>1, <2>1, <2>3, <2>5 DEF Placed, Before
    <3>2. o \in Operations
      BY <2>1, <2>4, <3>1
    <3> HIDE DEF o
    <3> QED
      BY <2>3, <3>1, <3>2, MutationsAreAlone
  <2> QED
    BY <2>1, <2>5, <2>6, MutationsAreAudited DEF GoodRecord
<1>2. Inv => MutationsAreSerial
  BY <1>1 DEF MutationsAreSerial
<1> QED
  BY InvHolds, <1>2, PTL

(* A field's row agrees with its answer, and is there once the field is    *)
(* past its resolver unless it is not audited or the database refused it.  *)
THEOREM RowsMatchAnswers == Spec => []AuditMatchesAnswer
<1>1. ASSUME NEW x \in SlotStates, GoodRecord(x)
      PROVE  /\ x.row # NoRow =>
                    /\ Audited(x.field) /\ x.out # "none" /\ ~x.lost
                    /\ x.row.status = 500 <=> x.out = "error" /\ x.field \in MutationFields
             /\ x.pc \in {"marshal", "stream", "done"} /\ Audited(x.field) /\ x.code # "ARGUMENT" =>
                    x.lost \/ x.row # NoRow
             /\ x.effect => x.field \in MutationFields /\ x.out # "none"
  <2>1. (x.lost <=> x.lost = TRUE) /\ (x.effect <=> x.effect = TRUE) /\ x.lost \in BOOLEAN
    BY DEF SlotStates
  <2> QED
    BY <1>1, <2>1 DEF GoodRecord
<1>2. Inv => AuditMatchesAnswer
  <2> SUFFICES ASSUME Inv PROVE AuditMatchesAnswer
    OBVIOUS
  <2>1. \A s \in Slots : slot[s] \in SlotStates /\ GoodRecord(slot[s])
    BY DEF Inv, TypeOK
  <2> QED
    BY <1>1, <2>1 DEF AuditMatchesAnswer
<1> QED
  BY InvHolds, <1>2, PTL

(* A code other than SERVICE_ERROR and TIMEOUT means that nothing was      *)
(* changed, whatever the reasons for which calls fail.                     *)
THEOREM CodesAreReliable == Spec => []CodesTellEffects
<1>1. ASSUME NEW x \in SlotStates, GoodRecord(x)
      PROVE  /\ x.out = "error" /\ x.effect => x.code \in {"SERVICE_ERROR", "TIMEOUT"}
             /\ x.code = "NOT_FOUND" => x.why = "NotFound"
             /\ x.code = "FORBIDDEN" => x.why = "Forbidden"
             /\ x.out = "ok" => x.code = "none"
  <2>1. x.effect <=> x.effect = TRUE
    BY DEF SlotStates
  <2> QED
    BY <1>1, <2>1 DEF GoodRecord
<1>2. Inv => CodesTellEffects
  <2> SUFFICES ASSUME Inv PROVE CodesTellEffects
    OBVIOUS
  <2>1. \A s \in Slots : slot[s] \in SlotStates /\ GoodRecord(slot[s])
    BY DEF Inv, TypeOK
  <2> QED
    BY <1>1, <2>1 DEF CodesTellEffects
<1> QED
  BY InvHolds, <1>2, PTL

(* The data of a response is null if and only if a field of its operation  *)
(* failed, whatever the cluster holds and however the fields interleave.   *)
THEOREM ResponsesAreAllOrNothing == Spec => []AllOrNothing
<1>1. ASSUME Inv, NEW r \in Requests, data[r] # "none"
      PROVE  data[r] = "null" <=> \E i \in 1..Len(op[r]) : slot[<<r, i>>].out = "error"
  <2>1. Responded(r) /\ op[r] \in Operations
    BY <1>1 DEF Inv, TypeOK, Responded
  <2>2. ASSUME NEW i \in 1..Len(op[r])
        PROVE  slot[<<r, i>>].null <=> slot[<<r, i>>].out = "error"
    <3>1. <<r, i>> \in Slots
      BY <2>1, PlaceIsSlot
    <3>2. slot[<<r, i>>] \in SlotStates /\ GoodRecord(slot[<<r, i>>])
      BY <1>1, <3>1 DEF Inv, TypeOK
    <3>3. slot[<<r, i>>].pc = "done"
      BY <1>1, <2>1 DEF Responded, Finished
    <3>4. slot[<<r, i>>].null <=> slot[<<r, i>>].null = TRUE
      BY <3>2 DEF SlotStates
    <3> QED
      BY <3>2, <3>3, <3>4 DEF GoodRecord
  <2> QED
    BY <1>1, <2>1, <2>2 DEF Responded, Invalids
<1>2. Inv => AllOrNothing
  BY <1>1 DEF AllOrNothing
<1> QED
  BY InvHolds, <1>2, PTL

(* Every row of an answer counts the objects the cluster holds             *)
(* (audit.go:73).                                                          *)
THEOREM CountsHold == Spec => []RowsCount
<1>1. Init => RowsCount
  BY DEF Init, RowsCount, Counted, Unused
<1> QED
  BY <1>1, InvHolds, NextKeepsCounts, PTL DEF Spec

(* ListsAreFaithful: what the lists tell of a pod or a namespace is true   *)
(* of the one in its place, and the counts of the answer and of its audit  *)
(* row agree (pod_converter.go:25, :277, namespace_service_impl.go:89,     *)
(* audit.go:73).                                                           *)
THEOREM ListsTellTheCluster == Spec => []ListsAreFaithful
<1>1. Inv /\ RowsCount => ListsAreFaithful
  <2> SUFFICES ASSUME Inv, RowsCount, NEW s \in Slots, slot[s].pc = "done", slot[s].out = "ok",
                      NEW f, f = slot[s].field, NEW a, a = answer[f][1]
               PROVE  /\ slot[s].row # NoRow /\ "count" \in DOMAIN a =>
                            slot[s].row.count = a.count
                      /\ f \in {"pods", "allPods"} =>
                            /\ a.count = Len(content.pods)
                            /\ \A i \in 1..a.count : PodIsFaithful(a.pods[i], content.pods[i])
                      /\ f = "namespaces" =>
                            \A i \in 1..Len(content.namespaces) :
                                AgeReadsBack(a.namespaces[i].age, content.namespaces[i].age)
    BY DEF ListsAreFaithful
  <2> PICK c \in Contents : c = content
    BY DEF Inv, TypeOK
  <2>1. f \in RootFields /\ a = Marshalled(c)[f][1]
    BY SlotInUse DEF Inv
  <2>2. ASSUME slot[s].row # NoRow, "count" \in DOMAIN a
        PROVE  slot[s].row.count = a.count
    <3>1. slot[s].row.count = Count(f, c)
      BY <2>2 DEF RowsCount, Counted
    <3>2. a.count = Count(f, c)
      BY ONLY <2>1, <2>2, c \in Contents, AnswersCount
    <3> QED
      BY ONLY <3>1, <3>2
  <2>3. f \in {"pods", "allPods"} =>
            a.count = Len(c.pods) /\ \A i \in 1..a.count : PodIsFaithful(a.pods[i], c.pods[i])
    BY ONLY <2>1, c \in Contents, PodsAreFaithful
  <2>4. f = "namespaces" =>
            \A i \in 1..Len(c.namespaces) :
                AgeReadsBack(a.namespaces[i].age, c.namespaces[i].age)
    BY ONLY <2>1, c \in Contents, NamespacesAreFaithful
  <2> QED
    BY ONLY <2>2, <2>3, <2>4, c = content
<1> QED
  BY <1>1, InvHolds, CountsHold, PTL
=============================================================================
