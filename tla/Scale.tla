------------------------------- MODULE Scale -------------------------------
(***************************************************************************)
(* The scaleDeployment and scaleStatefulSet mutations: the resolvers of    *)
(* graph/schema.resolvers.go over ScaleDeployment and ScaleStatefulSet of  *)
(* internal/services.  Any number of requests run concurrently, each in    *)
(* its own goroutine, with the other writers of the cluster (controllers,  *)
(* autoscalers, kubectl, rollout restarts).                                *)
(*                                                                         *)
(* A request reads the workload (Get), compares, and writes it back        *)
(* (Update).  The API server refuses an Update of an object whose          *)
(* resourceVersion is no longer the one that was read, and the service     *)
(* does not retry.  The outcome is then recorded by LogMutation, whose     *)
(* database error is logged and otherwise ignored, and answered.           *)
(*                                                                         *)
(* The services' own LogScaleOperation goes to a stub that does nothing    *)
(* (factory.go); it is not modelled.                                       *)
(***************************************************************************)
EXTENDS Naturals, Integers

CONSTANTS
    Requests,       \* concurrent scale requests
    MaxReplicas,    \* ValidateScaleInput's upper bound (1000 in the code)
    OtherCounts,    \* replica counts the other writers set (any, in a cluster)
    MaxRevision     \* bound: revision up to which the other writers write

ASSUME MaxReplicasAssumption == MaxReplicas \in Nat \ {0}
ASSUME OtherCountsAssumption == OtherCounts \subseteq Nat
ASSUME MaxRevisionAssumption == MaxRevision \in Nat

Kinds == {"deployment", "statefulset"}

VARIABLES
    kind, want,             \* a request's field and its input.replicas
    pc,                     \* where its goroutine is
    seen,                   \* the object its Get returned
    res,                    \* its result, once decided
    row,                    \* its audit row in the database
    obj,                    \* the workloads in the cluster (external)
    revision,               \* the cluster's last resourceVersion (external)
    replaced                \* history: counts that a request's Update replaced

inputs == <<kind, want>>
cluster == <<obj, revision>>
vars == <<inputs, pc, seen, res, row, cluster, replaced>>

(* What a request may ask for, and what it may find in the cluster: no     *)
(* other writer is bound by the API's validation.                          *)
Replicas == 0..MaxReplicas
Counts == Replicas \cup OtherCounts

PCs == {"resolve", "get", "update", "log", "answered"}
Statuses == {"pending", "invalid", "notfound", "nochange", "scaled", "failed"}
Results == [status : Statuses, prev : Counts, new : Replicas]
Pending == [status |-> "pending", prev |-> 0, new |-> 0]
Workloads == [exists : BOOLEAN, replicas : Counts, version : Nat]

(* The replicas a caller may ask for range from below to above what is     *)
(* permitted.                                                              *)
Init ==
    /\ kind \in [Requests -> Kinds]
    /\ want \in [Requests -> -1..(MaxReplicas + 1)]
    /\ pc = [r \in Requests |-> "resolve"]
    /\ obj \in [Kinds -> [exists : BOOLEAN, replicas : OtherCounts, version : {0}]]
    /\ revision = 0
    /\ seen = [r \in Requests |-> [exists |-> FALSE, replicas |-> 0, version |-> 0]]
    /\ res = [r \in Requests |-> Pending]
    /\ row = [r \in Requests |-> "none"]
    /\ replaced = [r \in Requests |-> {}]

-----------------------------------------------------------------------------
Goto(r, l) == pc' = [pc EXCEPT ![r] = l]

(* A result is decided: all that is left is to log and to answer.          *)
Conclude(r, status, prev, new) ==
    /\ res' = [res EXCEPT ![r] = [status |-> status, prev |-> prev, new |-> new]]
    /\ Goto(r, "log")

(* Mutant: an upper bound that is off by one.                              *)
ValidInputOffByOne(r, argsOK) == argsOK /\ want[r] \in 0..(MaxReplicas + 1)

(* ValidateScaleInput; argsOK stands for ValidateNamespace, ValidatePodName*)
(* and ValidateUserInput, whose arguments play no further part.            *)
ValidInput(r, argsOK) == argsOK /\ want[r] \in Replicas

RejectInput(r) ==
    /\ pc[r] = "resolve"
    /\ \E argsOK \in BOOLEAN : ~ValidInput(r, argsOK)
    /\ Conclude(r, "invalid", 0, 0)
    /\ UNCHANGED <<inputs, seen, row, cluster, replaced>>

(* The service's own checks (validateScaleParams, replicas < 0) repeat the *)
(* resolver's.                                                             *)
AcceptInput(r) ==
    /\ pc[r] = "resolve"
    /\ \E argsOK \in BOOLEAN : ValidInput(r, argsOK)
    /\ Goto(r, "get")
    /\ UNCHANGED <<inputs, seen, res, row, cluster, replaced>>

(* Get fails, for whatever reason: the service reports "not found".        *)
GetFails(r) ==
    /\ pc[r] = "get"
    /\ Conclude(r, "notfound", 0, 0)
    /\ UNCHANGED <<inputs, seen, row, cluster, replaced>>

(* previousReplicas == replicas: a success that writes nothing.            *)
GetFindsNoChange(r) ==
    /\ pc[r] = "get"
    /\ obj[kind[r]].exists
    /\ obj[kind[r]].replicas = want[r]
    /\ Conclude(r, "nochange", want[r], want[r])
    /\ UNCHANGED <<inputs, seen, row, cluster, replaced>>

GetReturns(r) ==
    /\ pc[r] = "get"
    /\ obj[kind[r]].exists
    /\ obj[kind[r]].replicas # want[r]
    /\ seen' = [seen EXCEPT ![r] = obj[kind[r]]]
    /\ Goto(r, "update")
    /\ UNCHANGED <<inputs, res, row, cluster, replaced>>

(* External: every write gives the object the cluster's next revision.     *)
Store(k, exists, n) ==
    /\ obj' = [obj EXCEPT ![k] = [exists |-> exists, replicas |-> n,
                                  version |-> revision + 1]]
    /\ revision' = revision + 1

(* Mutant: an Update that carries no resourceVersion.                      *)
BlindWrite(r) ==
    LET k == kind[r] IN
    /\ obj[k].exists
    /\ Store(k, TRUE, want[r])
    /\ replaced' = [replaced EXCEPT ![r] = @ \cup {obj[k].replicas}]

(* External: the API server applies an Update only to the version it was   *)
(* made from.                                                              *)
Write(r) ==
    LET k == kind[r] IN
    /\ obj[k].exists
    /\ obj[k].version = seen[r].version
    /\ Store(k, TRUE, want[r])
    /\ replaced' = [replaced EXCEPT ![r] = @ \cup {obj[k].replicas}]

UpdateSucceeds(r) ==
    /\ pc[r] = "update"
    /\ Write(r)
    /\ Conclude(r, "scaled", seen[r].replicas, want[r])
    /\ UNCHANGED <<inputs, seen, row>>

(* Mutant: a failed Update is answered as if it had been applied.          *)
UpdateErrorIgnored(r) ==
    /\ pc[r] = "update"
    /\ Conclude(r, "scaled", seen[r].replicas, want[r])
    /\ UNCHANGED <<inputs, seen, row, cluster, replaced>>

(* A conflict, a deleted object or any other error: no retry.              *)
UpdateFails(r) ==
    /\ pc[r] = "update"
    /\ Conclude(r, "failed", 0, 0)
    /\ UNCHANGED <<inputs, seen, row, cluster, replaced>>

(* Mutant: an error of the Update is answered as "not found".              *)
UpdateReplyLostNotFound(r) ==
    /\ pc[r] = "update"
    /\ Write(r)
    /\ Conclude(r, "notfound", 0, 0)
    /\ UNCHANGED <<inputs, seen, row>>

(* The Update is applied and its reply is lost: the service sees an error. *)
UpdateReplyLost(r) ==
    /\ pc[r] = "update"
    /\ Write(r)
    /\ Conclude(r, "failed", 0, 0)
    /\ UNCHANGED <<inputs, seen, row>>

Succeeded(r) == res[r].status \in {"nochange", "scaled"}

(* Mutant: a failure is logged as a success.                               *)
LogMutationAlwaysSuccess(r) ==
    /\ pc[r] = "log"
    /\ row' = [row EXCEPT ![r] = "success"]
    /\ Goto(r, "answered")
    /\ UNCHANGED <<inputs, seen, res, cluster, replaced>>

(* LogMutation(success or not) stores its row, and the resolver answers.   *)
LogMutation(r) ==
    /\ pc[r] = "log"
    /\ row' = [row EXCEPT ![r] = IF Succeeded(r) THEN "success" ELSE "failure"]
    /\ Goto(r, "answered")
    /\ UNCHANGED <<inputs, seen, res, cluster, replaced>>

(* database.DB.Create fails: the row is lost, the answer is the same.      *)
LogMutationLosesRow(r) ==
    /\ pc[r] = "log"
    /\ row' = [row EXCEPT ![r] = "lost"]
    /\ Goto(r, "answered")
    /\ UNCHANGED <<inputs, seen, res, cluster, replaced>>

-----------------------------------------------------------------------------
(* External: the other writers of the workloads.                           *)

(* A change of the replica count, or of anything else in the object.       *)
OtherUpdate(k) ==
    /\ obj[k].exists /\ revision < MaxRevision
    /\ \E n \in OtherCounts : Store(k, TRUE, n)
    /\ UNCHANGED <<inputs, pc, seen, res, row, replaced>>

OtherDelete(k) ==
    /\ obj[k].exists /\ revision < MaxRevision
    /\ Store(k, FALSE, obj[k].replicas)
    /\ UNCHANGED <<inputs, pc, seen, res, row, replaced>>

OtherCreate(k) ==
    /\ ~obj[k].exists /\ revision < MaxRevision
    /\ \E n \in OtherCounts : Store(k, TRUE, n)
    /\ UNCHANGED <<inputs, pc, seen, res, row, replaced>>

-----------------------------------------------------------------------------
Resolver(r) == RejectInput(r) \/ AcceptInput(r) \/ LogMutation(r) \/ LogMutationLosesRow(r)

ServiceStep(r) ==
    \/ GetFails(r) \/ GetFindsNoChange(r) \/ GetReturns(r)
    \/ UpdateSucceeds(r) \/ UpdateFails(r) \/ UpdateReplyLost(r)

(* The two services have the same text but for the API group they call.    *)
ScaleDeployment(r)  == kind[r] = "deployment" /\ (Resolver(r) \/ ServiceStep(r))
ScaleStatefulSet(r) == kind[r] = "statefulset" /\ (Resolver(r) \/ ServiceStep(r))

Next ==
    \/ \E r \in Requests : ScaleDeployment(r) \/ ScaleStatefulSet(r)
    \/ \E k \in Kinds : OtherUpdate(k) \/ OtherDelete(k) \/ OtherCreate(k)

Spec == Init /\ [][Next]_vars

-----------------------------------------------------------------------------
(* Properties.                                                             *)

(* The type invariant.  The count a success answers as the new one is in   *)
(* the validated range, and a count out of that range in the cluster, or   *)
(* answered as the previous one, is another writer's.                      *)
TypeOK ==
    /\ kind \in [Requests -> Kinds]
    /\ want \in [Requests -> -1..(MaxReplicas + 1)]
    /\ pc \in [Requests -> PCs]
    /\ seen \in [Requests -> Workloads]
    /\ res \in [Requests -> Results]
    /\ row \in [Requests -> {"none", "success", "failure", "lost"}]
    /\ obj \in [Kinds -> Workloads]
    /\ revision \in Nat
    /\ replaced \in [Requests -> SUBSET Counts]

(* The previousReplicas of a successful scale is the count its Update      *)
(* really replaced, whatever the other requests and writers did between    *)
(* its Get and its Update.                                                 *)
ReportedPreviousIsReplaced ==
    \A r \in Requests :
        res[r].status = "scaled" => replaced[r] = {res[r].prev} /\ res[r].new = want[r]

(* A request that answers "invalid", "not found" or "no change" has left   *)
(* the cluster alone, and a request that has not been decided has too.     *)
NoHiddenChange ==
    \A r \in Requests :
        res[r].status \notin {"scaled", "failed"} => replaced[r] = {}

(* An object that still has the version a request read is still the object *)
(* it read: what makes the compare-and-swap of Update sound.               *)
VersionIdentifiesObject ==
    \A r \in Requests :
        pc[r] = "update" /\ obj[kind[r]].version = seen[r].version
            => obj[kind[r]] = seen[r]

(* A success row in the audit table belongs to a request that is answered  *)
(* as a success, and was either applied or had nothing to do.              *)
SuccessRowIsTrue ==
    \A r \in Requests :
        row[r] = "success" =>
            \/ res[r].status = "scaled" /\ replaced[r] # {}
            \/ res[r].status = "nochange" /\ replaced[r] = {}

(* The detailed requests implement the atomic ones.                        *)
Abstract == INSTANCE AbstractScale WITH
    spec <- [k \in Kinds |-> IF obj[k].exists THEN obj[k].replicas ELSE -1],
    outcome <- res

(* Every request takes effect in one instant between its call and its      *)
(* answer, as module AbstractScale says.                                   *)
ScaleIsAtomic == Abstract!Spec
=============================================================================
