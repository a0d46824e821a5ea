---------------------------- MODULE ScaleProofs ----------------------------
(***************************************************************************)
(* Proofs about module Scale, for any set of requests, any range of        *)
(* replicas and any number of other writes: its safety properties, and     *)
(* that it implements AbstractScale.                                       *)
(***************************************************************************)
EXTENDS Scale, TLAPS

(* What a request's program counter says of its data.                      *)
RequestControl ==
    \A r \in Requests :
        /\ pc[r] \in {"resolve", "get", "update"} => res[r] = Pending /\ replaced[r] = {}
        /\ pc[r] \in {"log", "answered"} => res[r].status # "pending"
        /\ pc[r] \in {"get", "update"} => want[r] \in Replicas
        /\ pc[r] = "update" => seen[r].exists /\ seen[r].replicas # want[r]

(* No object is newer than the cluster's revision.                         *)
VersionsAreOld ==
    /\ \A k \in Kinds : obj[k].version <= revision
    /\ \A r \in Requests : seen[r].version <= revision

Inv ==
    /\ TypeOK
    /\ RequestControl
    /\ VersionsAreOld
    /\ VersionIdentifiesObject
    /\ ReportedPreviousIsReplaced
    /\ NoHiddenChange
    /\ SuccessRowIsTrue

(* The invariant holds initially.                                          *)
LEMMA InitInv == Init => Inv
  <1>. SUFFICES ASSUME Init PROVE Inv
    OBVIOUS
  <1>. USE MaxReplicasAssumption, OtherCountsAssumption
  <1>1. TypeOK
    BY DEF Init, TypeOK, Workloads, Results, Statuses, Pending, PCs, Replicas, Counts
  <1>2. RequestControl /\ ReportedPreviousIsReplaced /\ NoHiddenChange /\ SuccessRowIsTrue
    BY DEF Init, RequestControl, ReportedPreviousIsReplaced, NoHiddenChange,
       SuccessRowIsTrue, Pending
  <1>3. VersionsAreOld /\ VersionIdentifiesObject
    BY DEF Init, VersionsAreOld, VersionIdentifiesObject
  <1>. QED BY <1>1, <1>2, <1>3 DEF Inv

-----------------------------------------------------------------------------
(* The type invariant is preserved by every step.                          *)
LEMMA TypeStep == Inv /\ [Next]_vars => TypeOK'
  <1>. SUFFICES ASSUME Inv, [Next]_vars PROVE TypeOK'
    OBVIOUS
  <1>. USE MaxReplicasAssumption, OtherCountsAssumption DEF Inv, TypeOK, Workloads, Results, Statuses, PCs,
           inputs, cluster, Goto, Conclude, Store, Counts
  <1>1. ASSUME NEW r \in Requests, RejectInput(r) PROVE TypeOK'
    BY <1>1 DEF RejectInput, Replicas
  <1>2. ASSUME NEW r \in Requests, AcceptInput(r) PROVE TypeOK'
    BY <1>2 DEF AcceptInput
  <1>3. ASSUME NEW r \in Requests, GetFails(r) PROVE TypeOK'
    BY <1>3 DEF GetFails, Replicas
  <1>4. ASSUME NEW r \in Requests, GetFindsNoChange(r) PROVE TypeOK'
    BY <1>4 DEF GetFindsNoChange, RequestControl
  <1>5. ASSUME NEW r \in Requests, GetReturns(r) PROVE TypeOK'
    BY <1>5 DEF GetReturns
  <1>6. ASSUME NEW r \in Requests, UpdateSucceeds(r) PROVE TypeOK'
    BY <1>6 DEF UpdateSucceeds, Write, RequestControl
  <1>7. ASSUME NEW r \in Requests, UpdateFails(r) PROVE TypeOK'
    BY <1>7 DEF UpdateFails, Replicas
  <1>8. ASSUME NEW r \in Requests, UpdateReplyLost(r) PROVE TypeOK'
    BY <1>8 DEF UpdateReplyLost, Write, RequestControl, Replicas
  <1>9. ASSUME NEW r \in Requests, LogMutation(r) \/ LogMutationLosesRow(r) PROVE TypeOK'
    BY <1>9 DEF LogMutation, LogMutationLosesRow
  <1>10. ASSUME NEW k \in Kinds, OtherUpdate(k) \/ OtherDelete(k) \/ OtherCreate(k)
         PROVE  TypeOK'
    <2>1. CASE OtherUpdate(k) BY <2>1 DEF OtherUpdate
    <2>2. CASE OtherDelete(k) BY <2>2 DEF OtherDelete
    <2>3. CASE OtherCreate(k) BY <2>3 DEF OtherCreate
    <2>. QED BY <1>10, <2>1, <2>2, <2>3
  <1>11. CASE UNCHANGED vars
    BY <1>11 DEF vars
  <1>. QED
    BY <1>1, <1>2, <1>3, <1>4, <1>5, <1>6, <1>7, <1>8, <1>9, <1>10, <1>11
       DEF Next, ScaleDeployment, ScaleStatefulSet, Resolver, ServiceStep

-----------------------------------------------------------------------------
(* Versions: every write takes a revision that no object and no request    *)
(* has seen.                                                               *)
LEMMA VersionStep ==
    Inv /\ [Next]_vars => VersionsAreOld' /\ VersionIdentifiesObject'
  <1>. SUFFICES ASSUME Inv, [Next]_vars
                PROVE  VersionsAreOld' /\ VersionIdentifiesObject'
    OBVIOUS
  <1>. USE DEF Inv, TypeOK, Workloads, VersionsAreOld, VersionIdentifiesObject,
           inputs, cluster, Goto, Conclude
  <1>1. ASSUME NEW k \in Kinds, NEW e \in BOOLEAN, NEW n \in Counts, Store(k, e, n),
               UNCHANGED <<kind, seen>>,
               \A r \in Requests : pc'[r] = "update" => pc[r] = "update"
        PROVE  VersionsAreOld' /\ VersionIdentifiesObject'
    BY <1>1 DEF Store
  <1>2. ASSUME UNCHANGED <<kind, seen, obj, revision>>,
               \A r \in Requests : pc'[r] = "update" => pc[r] = "update"
        PROVE  VersionsAreOld' /\ VersionIdentifiesObject'
    BY <1>2
  <1>3. ASSUME NEW r \in Requests, GetReturns(r)
        PROVE  VersionsAreOld' /\ VersionIdentifiesObject'
    BY <1>3 DEF GetReturns
  <1>4. ASSUME NEW r \in Requests, UpdateSucceeds(r) \/ UpdateReplyLost(r)
        PROVE  VersionsAreOld' /\ VersionIdentifiesObject'
    <2>1. Store(kind[r], TRUE, want[r]) /\ want[r] \in Replicas /\ kind[r] \in Kinds
      BY <1>4 DEF UpdateSucceeds, UpdateReplyLost, Write, RequestControl
    <2>2. UNCHANGED <<kind, seen>> /\ \A q \in Requests : pc'[q] = "update" => pc[q] = "update"
      BY <1>4 DEF UpdateSucceeds, UpdateReplyLost
    <2>3. want[r] \in Counts
      BY <2>1 DEF Counts
    <2>. QED BY <1>1, <2>1, <2>2, <2>3
  <1>5. ASSUME NEW k \in Kinds, OtherUpdate(k) \/ OtherDelete(k) \/ OtherCreate(k)
        PROVE  VersionsAreOld' /\ VersionIdentifiesObject'
    <2>1. PICK e \in BOOLEAN, n \in Counts : Store(k, e, n)
      BY <1>5 DEF OtherUpdate, OtherDelete, OtherCreate, Counts
    <2>2. UNCHANGED <<kind, seen, pc>>
      BY <1>5 DEF OtherUpdate, OtherDelete, OtherCreate
    <2>. QED BY <1>1, <2>1, <2>2
  <1>6. ASSUME NEW r \in Requests,
               \/ RejectInput(r) \/ AcceptInput(r) \/ GetFails(r) \/ GetFindsNoChange(r)
               \/ UpdateFails(r) \/ LogMutation(r) \/ LogMutationLosesRow(r)
        PROVE  VersionsAreOld' /\ VersionIdentifiesObject'
    <2>1. /\ UNCHANGED <<kind, seen, obj, revision>>
          /\ \A q \in Requests : pc'[q] = "update" => pc[q] = "update"
      BY <1>6 DEF RejectInput, AcceptInput, GetFails, GetFindsNoChange,
         UpdateFails, LogMutation, LogMutationLosesRow
    <2>. QED BY <1>2, <2>1
  <1>7. CASE UNCHANGED vars
    BY <1>2, <1>7 DEF vars
  <1>. QED
    BY <1>3, <1>4, <1>5, <1>6, <1>7
       DEF Next, ScaleDeployment, ScaleStatefulSet, Resolver, ServiceStep

-----------------------------------------------------------------------------
RequestFacts ==
    RequestControl /\ ReportedPreviousIsReplaced /\ NoHiddenChange /\ SuccessRowIsTrue

(* What each request knows about itself.  Only a request's own steps       *)
(* change its part of the state.                                           *)
LEMMA RequestStep == Inv /\ [Next]_vars => RequestFacts'
  <1>. SUFFICES ASSUME Inv, [Next]_vars PROVE RequestFacts'
    OBVIOUS
  <1>. USE DEF Inv, TypeOK, RequestFacts, RequestControl, ReportedPreviousIsReplaced,
           NoHiddenChange, SuccessRowIsTrue, inputs, cluster, Goto, Conclude, Pending,
           Results
  <1>1. ASSUME NEW r \in Requests, RejectInput(r) PROVE RequestFacts'
    BY <1>1 DEF RejectInput
  <1>2. ASSUME NEW r \in Requests, AcceptInput(r) PROVE RequestFacts'
    BY <1>2 DEF AcceptInput, ValidInput
  <1>3. ASSUME NEW r \in Requests, GetFails(r) PROVE RequestFacts'
    BY <1>3 DEF GetFails
  <1>4. ASSUME NEW r \in Requests, GetFindsNoChange(r) PROVE RequestFacts'
    BY <1>4 DEF GetFindsNoChange
  <1>5. ASSUME NEW r \in Requests, GetReturns(r) PROVE RequestFacts'
    BY <1>5 DEF GetReturns
  <1>6. ASSUME NEW r \in Requests, UpdateSucceeds(r) PROVE RequestFacts'
    <2>1. obj[kind[r]] = seen[r]
      BY <1>6 DEF UpdateSucceeds, Write, VersionIdentifiesObject
    <2>2. replaced' = [replaced EXCEPT ![r] = {seen[r].replicas}]
      BY <1>6, <2>1 DEF UpdateSucceeds, Write
    <2>. QED BY <1>6, <2>2 DEF UpdateSucceeds
  <1>7. ASSUME NEW r \in Requests, UpdateFails(r) PROVE RequestFacts'
    BY <1>7 DEF UpdateFails
  <1>8. ASSUME NEW r \in Requests, UpdateReplyLost(r) PROVE RequestFacts'
    BY <1>8 DEF UpdateReplyLost, Write
  <1>9. ASSUME NEW r \in Requests, LogMutation(r) PROVE RequestFacts'
    BY <1>9 DEF LogMutation, Succeeded
  <1>10. ASSUME NEW r \in Requests, LogMutationLosesRow(r) PROVE RequestFacts'
    BY <1>10 DEF LogMutationLosesRow
  <1>11. ASSUME UNCHANGED <<inputs, pc, seen, res, row, replaced>> PROVE RequestFacts'
    BY <1>11
  <1>12. ASSUME NEW k \in Kinds, OtherUpdate(k) \/ OtherDelete(k) \/ OtherCreate(k)
         PROVE  RequestFacts'
    BY <1>11, <1>12 DEF OtherUpdate, OtherDelete, OtherCreate
  <1>13. CASE UNCHANGED vars
    BY <1>11, <1>13 DEF vars
  <1>. QED
    BY <1>1, <1>2, <1>3, <1>4, <1>5, <1>6, <1>7, <1>8, <1>9, <1>10, <1>12, <1>13
       DEF Next, ScaleDeployment, ScaleStatefulSet, Resolver, ServiceStep

-----------------------------------------------------------------------------
(* Theorems.                                                               *)

(* The inductive invariant holds in every reachable state, for any number  *)
(* of concurrent scale requests and other writers.                         *)
THEOREM Invariance == Spec => []Inv
  <1>1. Inv /\ [Next]_vars => Inv'
    BY TypeStep, VersionStep, RequestStep DEF Inv, RequestFacts
  <1>. QED BY InitInv, <1>1, PTL DEF Spec

(* Every variable keeps its type: whatever counts the other writers set, a *)
(* request writes, and answers as the new count, only a validated one.     *)
THEOREM TypeCorrect == Spec => []TypeOK
  <1>1. Inv => TypeOK
    BY DEF Inv
  <1>. QED BY <1>1, Invariance, PTL

(* The previousReplicas of an answer is the count the Update replaced.     *)
THEOREM PreviousIsReplaced == Spec => []ReportedPreviousIsReplaced
  <1>1. Inv => ReportedPreviousIsReplaced
    BY DEF Inv
  <1>. QED BY <1>1, Invariance, PTL

(* A request whose answer says that nothing was changed changed nothing.   *)
THEOREM UnreportedChangesAreFailures == Spec => []NoHiddenChange
  <1>1. Inv => NoHiddenChange
    BY DEF Inv
  <1>. QED BY <1>1, Invariance, PTL

(* What a request remembers of a workload is still true of it as long as   *)
(* its version is.                                                         *)
THEOREM VersionsIdentifyObjects == Spec => []VersionIdentifiesObject
  <1>1. Inv => VersionIdentifiesObject
    BY DEF Inv
  <1>. QED BY <1>1, Invariance, PTL

(* A success row in the audit table tells the truth about the cluster.     *)
THEOREM SuccessRows == Spec => []SuccessRowIsTrue
  <1>1. Inv => SuccessRowIsTrue
    BY DEF Inv
  <1>. QED BY <1>1, Invariance, PTL

-----------------------------------------------------------------------------
(* Refinement.                                                             *)

AbstractSpec == [k \in Kinds |-> IF obj[k].exists THEN obj[k].replicas ELSE -1]

(* A write to one workload changes one abstract count.                     *)
LEMMA StoreAbstract ==
    ASSUME TypeOK, NEW k \in Kinds, NEW e \in BOOLEAN, NEW n \in Counts, Store(k, e, n)
    PROVE  AbstractSpec' = [AbstractSpec EXCEPT ![k] = IF e THEN n ELSE -1]
  BY DEF TypeOK, Store, AbstractSpec, Workloads

(* Every step of a request or of another writer is a step of AbstractScale *)
(* or leaves its variables alone.                                          *)
LEMMA StepSimulation == Inv /\ [Next]_vars => [Abstract!Next]_(Abstract!vars)
  <1>. SUFFICES ASSUME Inv, [Next]_vars PROVE Abstract!Next \/ UNCHANGED Abstract!vars
    OBVIOUS
  <1>. USE DEF Inv, TypeOK, inputs, cluster, Goto, Conclude
  <1>. DEFINE Changed == Abstract!Next
  <1>1. ASSUME UNCHANGED <<obj, res>> PROVE UNCHANGED Abstract!vars
    BY <1>1 DEF Abstract!vars
  <1>2. ASSUME NEW r \in Requests, NEW s \in {"invalid", "notfound", "failed"},
               res[r] = Pending, UNCHANGED obj,
               res' = [res EXCEPT ![r] = [status |-> s, prev |-> 0, new |-> 0]]
        PROVE  Changed
    <2>1. Abstract!Refuse(r, s)
      BY <1>2 DEF Abstract!Refuse, Abstract!Decide, Abstract!Pending, Pending
    <2>. QED BY <2>1 DEF Abstract!Next
  <1>3. ASSUME NEW r \in Requests, RejectInput(r) PROVE Changed
    BY <1>2, <1>3 DEF RejectInput, RequestControl
  <1>4. ASSUME NEW r \in Requests, GetFails(r) PROVE Changed
    BY <1>2, <1>4 DEF GetFails, RequestControl
  <1>5. ASSUME NEW r \in Requests, UpdateFails(r) PROVE Changed
    BY <1>2, <1>5 DEF UpdateFails, RequestControl
  <1>6. ASSUME NEW r \in Requests, GetFindsNoChange(r) PROVE Changed
    <2>1. kind[r] \in Kinds /\ want[r] \in Replicas /\ res[r] = Pending
      BY <1>6 DEF GetFindsNoChange, RequestControl
    <2>2. Abstract!NoChange(r, kind[r], want[r])
      BY <1>6, <2>1 DEF GetFindsNoChange, Abstract!NoChange, Abstract!Decide,
         Abstract!Pending, Pending
    <2>. QED BY <2>1, <2>2 DEF Abstract!Next, Abstract!Replicas, Replicas
  <1>7. ASSUME NEW r \in Requests, UpdateSucceeds(r) \/ UpdateReplyLost(r) PROVE Changed
    <2>0. kind[r] \in Kinds /\ want[r] \in Replicas
      BY <1>7 DEF UpdateSucceeds, UpdateReplyLost, RequestControl
    <2>. PICK k \in Kinds, n \in Replicas : k = kind[r] /\ n = want[r]
      BY <2>0
    <2>1. /\ res[r] = Pending /\ obj[k] = seen[r]
          /\ obj[k].exists /\ obj[k].replicas \in Counts \ {n}
      BY <1>7 DEF UpdateSucceeds, UpdateReplyLost, Write, RequestControl,
         VersionIdentifiesObject, Workloads
    <2>2. AbstractSpec[k] = obj[k].replicas
      BY <2>1 DEF AbstractSpec
    <2>3. AbstractSpec' = [AbstractSpec EXCEPT ![k] = n]
      BY <1>7, <2>1, StoreAbstract DEF UpdateSucceeds, UpdateReplyLost, Write, Counts
    <2>4. CASE UpdateSucceeds(r)
      <3>1. Abstract!Scale(r, k, n)
        BY <2>1, <2>2, <2>3, <2>4 DEF UpdateSucceeds, Abstract!Scale, Abstract!Decide,
           Abstract!Pending, Pending, AbstractSpec, Abstract!Replicas, Replicas
      <3>. QED BY <3>1 DEF Abstract!Next, Abstract!Replicas, Replicas
    <2>5. CASE UpdateReplyLost(r)
      <3>1. Abstract!FailAfterChange(r, k, n)
        BY <2>1, <2>2, <2>3, <2>5 DEF UpdateReplyLost, Abstract!FailAfterChange,
           Abstract!Decide, Abstract!Pending, Pending, AbstractSpec,
           Abstract!Replicas, Replicas
      <3>. QED BY <3>1 DEF Abstract!Next, Abstract!Replicas, Replicas
    <2>. QED BY <1>7, <2>4, <2>5
  <1>8. ASSUME NEW k \in Kinds, OtherUpdate(k) \/ OtherDelete(k) \/ OtherCreate(k)
        PROVE  Changed
    <2>1. PICK e \in BOOLEAN, n \in Counts : Store(k, e, n)
      BY <1>8 DEF OtherUpdate, OtherDelete, OtherCreate, Workloads, Counts
    <2>2. AbstractSpec' = [AbstractSpec EXCEPT ![k] = IF e THEN n ELSE -1]
      BY <2>1, StoreAbstract
    <2>3. res' = res
      BY <1>8 DEF OtherUpdate, OtherDelete, OtherCreate
    <2>4. Abstract!Others(k)
      BY <2>1, <2>2, <2>3 DEF Abstract!Others, AbstractSpec, Abstract!Replicas,
         Replicas, Abstract!Absent
    <2>. QED BY <2>4 DEF Abstract!Next
  <1>9. ASSUME NEW r \in Requests,
               AcceptInput(r) \/ GetReturns(r) \/ LogMutation(r) \/ LogMutationLosesRow(r)
        PROVE  UNCHANGED Abstract!vars
    BY <1>1, <1>9 DEF AcceptInput, GetReturns, LogMutation, LogMutationLosesRow
  <1>10. CASE UNCHANGED vars
    BY <1>1, <1>10 DEF vars
  <1>. QED
    BY <1>3, <1>4, <1>5, <1>6, <1>7, <1>8, <1>9, <1>10
       DEF Next, ScaleDeployment, ScaleStatefulSet, Resolver, ServiceStep

(* An initial state maps to an initial state of AbstractScale.             *)
LEMMA InitSimulation == Init => Abstract!Init
  BY DEF Init, Abstract!Init, Abstract!Pending, Pending, Abstract!Absent, Counts

(* Scale requests implement the atomic requests of AbstractScale: each     *)
(* takes effect at one instant and answers with the count it found there.  *)
THEOREM Refinement == Spec => ScaleIsAtomic
  BY InitSimulation, StepSimulation, Invariance, PTL
     DEF Spec, ScaleIsAtomic, Abstract!Spec
=============================================================================
