------------------------------ MODULE Restart ------------------------------
(***************************************************************************)
(* The restartPod and deletePod mutations: the resolvers of                *)
(* graph/schema.resolvers.go, the adapter of graph/resolver.go, and        *)
(* RestartPod and DeletePod of internal/services, with the restart         *)
(* orchestrator and the controller detector.                               *)
(*                                                                         *)
(* All requests name the same pod.  A restart reads the pod, looks up its  *)
(* controller, and then patches the controller (rollout) or deletes the    *)
(* pod by its name; meanwhile the pod may be gone, or another pod may have *)
(* taken its name.  A deletion is graceful: the API server accepts it, and *)
(* the pod bears the name until its grace period is over, so that another  *)
(* request may still find it and have it deleted again.  Every API call may*)
(* fail, and the reply of one that was carried out may be lost.            *)
(***************************************************************************)
EXTENDS Naturals, ControllerDetector

CONSTANTS
    Requests,   \* concurrent restartPod and deletePod requests
    Shapes,     \* the shapes of pods that come to exist
    MaxUid      \* bound: pods that bear the name, one after the other

ASSUME ShapesAssumption == Shapes \subseteq AllShapes
ASSUME MaxUidAssumption == MaxUid \in Nat \ {0}

VARIABLES
    op,         \* op[r]: "restart" or "delete"
    pc,
    examined,   \* the pod that RestartPod's Get returned
    type,       \* the controller type detected for it
    res,        \* the response
    row,        \* the audit row
    pod,        \* the pod that bears the name now (external)
    uids,       \* how many pods have borne it (external)
    deleted,    \* history: the pods whose deletion a request had accepted
    rolled      \* history: the request patched a controller

request == <<op, pc, examined, type, res, row>>
history == <<deleted, rolled>>
vars == <<request, pod, uids, history>>

NoPod == [uid |-> 0, shape |-> [owner |-> "none", parent |-> FALSE,
                                label |-> "none", static |-> FALSE]]
Pods == [uid : 1..MaxUid, shape : Shapes]
Methods == {"none", "rollout", "delete", "warning"}
Statuses == {"pending", "invalid", "notfound", "conflict", "failed", "ok"}
NoResponse == [status |-> "pending", method |-> "none", warning |-> FALSE, type |-> ""]
Responses == [status : Statuses, method : Methods, warning : BOOLEAN,
              type : ControllerTypes \cup {""}]

Init ==
    /\ op \in [Requests -> {"restart", "delete"}]
    /\ pc = [r \in Requests |-> "resolve"]
    /\ examined = [r \in Requests |-> NoPod]
    /\ type = [r \in Requests |-> ""]
    /\ res = [r \in Requests |-> NoResponse]
    /\ row = [r \in Requests |-> "none"]
    /\ pod \in [uid : {1}, shape : Shapes]
    /\ uids = 1
    /\ deleted = [r \in Requests |-> {}]
    /\ rolled = [r \in Requests |-> FALSE]

-----------------------------------------------------------------------------
Goto(r, l) == pc' = [pc EXCEPT ![r] = l]

Conclude(r, response) ==
    /\ res' = [res EXCEPT ![r] = response]
    /\ Goto(r, "log")

(* An error: HandleValidationError or HandleServiceError.                  *)
Fail(r, status) == Conclude(r, [NoResponse EXCEPT !.status = status])

(* The response of a restart that succeeded.  The adapter hands over the   *)
(* type under the key "controller_type"; the resolver reads "type", which  *)
(* is never there, so the response's type stays empty.                     *)
AdapterKeys == {"message", "success", "method", "controller_type",
                "controller_name", "details", "warning"}

ToResponse(t) ==
    [status  |-> "ok",
     method  |-> GetRestartMethod(t),
     warning |-> GetRestartMethod(t) = "warning",
     type    |-> IF "type" \in AdapterKeys THEN t ELSE ""]

-----------------------------------------------------------------------------
(* The resolvers.                                                          *)

(* ValidateNamespace, ValidatePodName or ValidateUserInput refuses.        *)
RejectInput(r) ==
    /\ pc[r] = "resolve"
    /\ Fail(r, "invalid")
    /\ UNCHANGED <<op, examined, type, row, pod, uids, history>>

AcceptInput(r) ==
    /\ pc[r] = "resolve"
    /\ Goto(r, IF op[r] = "restart" THEN "get" ELSE "execute")
    /\ UNCHANGED <<op, examined, type, res, row, pod, uids, history>>

(* LogMutation stores its row, or loses it when the database fails; the    *)
(* resolver answers in both cases.                                         *)
LogMutation(r) ==
    /\ pc[r] = "log"
    /\ \/ row' = [row EXCEPT ![r] = IF res[r].status = "ok" THEN "success" ELSE "failure"]
       \/ row' = [row EXCEPT ![r] = "lost"]
    /\ Goto(r, "answered")
    /\ UNCHANGED <<op, examined, type, res, pod, uids, history>>

-----------------------------------------------------------------------------
(* RestartPod of the orchestrator.                                         *)

(* Get fails, for whatever reason: "not found".                            *)
GetFails(r) ==
    /\ pc[r] = "get"
    /\ Fail(r, "notfound")
    /\ UNCHANGED <<op, examined, type, row, pod, uids, history>>

GetPod(r) ==
    /\ pc[r] = "get"
    /\ pod # NoPod
    /\ examined' = [examined EXCEPT ![r] = pod]
    /\ Goto(r, "detect")
    /\ UNCHANGED <<op, type, res, row, pod, uids, history>>

(* DetectController, whose lookup of the ReplicaSet or Job may fail; then  *)
(* CanRestart.                                                             *)
Detect(r) ==
    /\ pc[r] = "detect"
    /\ \E lookupOK \in BOOLEAN :
          LET t == DetectController(examined[r].shape, lookupOK) IN
          /\ type' = [type EXCEPT ![r] = t]
          /\ IF CanRestart(t)
             THEN Goto(r, "execute") /\ UNCHANGED res
             ELSE Fail(r, "conflict")
    /\ UNCHANGED <<op, examined, row, pod, uids, history>>

-----------------------------------------------------------------------------
(* executeRestart, and the Delete of DeletePod.                            *)

Rollout(r) == op[r] = "restart" /\ GetRestartMethod(type[r]) = "rollout"

(* executeRolloutRestart: the restartedAt annotation of the controller is  *)
(* patched.  A type taken from a label has no name to patch.               *)
PatchController(r) ==
    /\ Rollout(r)
    /\ examined[r].shape.owner # "none"
    /\ rolled' = [rolled EXCEPT ![r] = TRUE]
    /\ UNCHANGED <<pod, uids, deleted>>

(* Mutant: the pod is reported as deleted when it was not there.           *)
DeleteByNameIgnoresNotFound(r) ==
    /\ ~Rollout(r)
    /\ deleted' = [deleted EXCEPT ![r] = IF pod = NoPod THEN @ ELSE @ \cup {pod}]
    /\ pod' \in {pod, NoPod}
    /\ UNCHANGED <<uids, rolled>>

(* Mutant: the delete does not look whether there is a pod.                *)
DeleteByNameUnchecked(r) ==
    /\ ~Rollout(r)
    /\ deleted' = [deleted EXCEPT ![r] = @ \cup {pod}]
    /\ pod' \in {pod, NoPod}
    /\ UNCHANGED <<uids, rolled>>

(* executeDeleteRestart, executeWarningRestart and DeletePod: whichever    *)
(* pod bears the name now is deleted.  It is gone at once, or terminates   *)
(* and goes later (PodGoes).                                               *)
DeleteByName(r) ==
    /\ ~Rollout(r)
    /\ pod # NoPod
    /\ deleted' = [deleted EXCEPT ![r] = @ \cup {pod}]
    /\ pod' \in {pod, NoPod}
    /\ UNCHANGED <<uids, rolled>>

Act(r) == PatchController(r) \/ DeleteByName(r)

ExecuteSucceeds(r) ==
    /\ pc[r] = "execute"
    /\ Act(r)
    /\ Conclude(r, IF op[r] = "restart" THEN ToResponse(type[r])
                   ELSE [NoResponse EXCEPT !.status = "ok", !.method = "delete"])
    /\ UNCHANGED <<op, examined, type, row>>

ExecuteFails(r) ==
    /\ pc[r] = "execute"
    /\ Fail(r, "failed")
    /\ UNCHANGED <<op, examined, type, row, pod, uids, history>>

(* Mutant: a lost reply is answered as "not found".                        *)
ExecuteReplyLostNotFound(r) ==
    /\ pc[r] = "execute"
    /\ Act(r)
    /\ Fail(r, "notfound")
    /\ UNCHANGED <<op, examined, type, row>>

(* The call is carried out and its reply is lost.                          *)
ExecuteReplyLost(r) ==
    /\ pc[r] = "execute"
    /\ Act(r)
    /\ Fail(r, "failed")
    /\ UNCHANGED <<op, examined, type, row>>

-----------------------------------------------------------------------------
(* External: the rest of the cluster.                                      *)

(* A terminating pod's grace period is over, or the pod is removed by force*)
(* or by somebody else.                                                    *)
PodGoes ==
    /\ pod # NoPod
    /\ pod' = NoPod
    /\ UNCHANGED <<request, uids, history>>

(* A controller or a user creates a pod of the same name.                  *)
PodComes ==
    /\ pod = NoPod /\ uids < MaxUid
    /\ uids' = uids + 1
    /\ \E s \in Shapes : pod' = [uid |-> uids + 1, shape |-> s]
    /\ UNCHANGED <<request, history>>

-----------------------------------------------------------------------------
Resolver(r) == RejectInput(r) \/ AcceptInput(r) \/ LogMutation(r)
Orchestrator(r) == GetFails(r) \/ GetPod(r) \/ Detect(r)
Execute(r) == ExecuteSucceeds(r) \/ ExecuteFails(r) \/ ExecuteReplyLost(r)

Next ==
    \/ \E r \in Requests : Resolver(r) \/ Orchestrator(r) \/ Execute(r)
    \/ PodGoes
    \/ PodComes

Spec == Init /\ [][Next]_vars

-----------------------------------------------------------------------------
(* Properties.                                                             *)

(* The type invariant.                                                     *)
TypeOK ==
    /\ op \in [Requests -> {"restart", "delete"}]
    /\ pc \in [Requests -> {"resolve", "get", "detect", "execute", "log", "answered"}]
    /\ examined \in [Requests -> Pods \cup {NoPod}]
    /\ type \in [Requests -> ControllerTypes \cup {""}]
    /\ res \in [Requests -> Responses]
    /\ row \in [Requests -> {"none", "success", "failure", "lost"}]
    /\ pod \in Pods \cup {NoPod}
    /\ uids \in 1..MaxUid
    /\ deleted \in [Requests -> SUBSET Pods]
    /\ rolled \in [Requests -> BOOLEAN]

(* What must not be restarted: the pod of a Job, a CronJob, a node or an   *)
(* unknown controller, and a pod without a controller whose labels speak of*)
(* a Job or of a tool, or which the node runs by itself.                   *)
NotRestartable(shape) ==
    \/ shape.owner \in {"Job", "CronJob", "Node", "Other"}
    \/ /\ shape.owner = "none"
       /\ \/ shape.label \in {"job", "Tool"}
          \/ shape.label = "none" /\ shape.static

(* A restart that examined such a pod deletes nothing and patches nothing, *)
(* whether the lookup of the Job succeeds or fails, and whatever bears the *)
(* name by then.                                                           *)
UnsupportedPodsAreLeftAlone ==
    \A r \in Requests :
        op[r] = "restart" /\ examined[r] # NoPod /\ NotRestartable(examined[r].shape)
            => deleted[r] = {} /\ ~rolled[r]

(* An answer of success describes what the request had the cluster do: it  *)
(* patched a controller and had no pod deleted, or it had the deletion of  *)
(* exactly one pod accepted, the one it examined or one that took the name *)
(* since, and patched nothing.                                             *)
SuccessMatchesEffect ==
    \A r \in Requests :
        res[r].status = "ok" =>
            IF res[r].method = "rollout"
            THEN rolled[r] /\ deleted[r] = {}
            ELSE /\ ~rolled[r]
                 /\ \E p \in Pods :
                       /\ deleted[r] = {p}
                       /\ p = examined[r] \/ p.uid > examined[r].uid

(* An answer of "invalid", "not found" or "conflict" changed nothing, and  *)
(* so far neither did a request that is not answered.                      *)
RefusalChangesNothing ==
    \A r \in Requests :
        res[r].status \notin {"ok", "failed"} => deleted[r] = {} /\ ~rolled[r]

(* No false alarm: a restart warns that nobody will recreate the pod only  *)
(* when the pod it examined has no controller, or one of a custom kind that*)
(* happens to be called "Standalone".                                      *)
WarningOnlyWithoutController ==
    \A r \in Requests :
        res[r].warning => examined[r] # NoPod /\ examined[r].shape.owner \in {"none", "Standalone"}
=============================================================================
