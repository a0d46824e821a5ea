------------------------- MODULE ControllerDetector -------------------------
(***************************************************************************)
(* Which controller a pod belongs to, and how a pod of that controller is  *)
(* restarted (internal/services/controller.go).  Pure operators.           *)
(*                                                                         *)
(* A pod is abstracted to what the detector looks at:                      *)
(*   owner   the kind of its controlling owner reference, or "none"        *)
(*   parent  its ReplicaSet belongs to a Deployment, its Job to a CronJob  *)
(*   label   what its labels say: "job" for a job-name label, "none", or   *)
(*           the value of app.kubernetes.io/managed-by as strings.Title    *)
(*           returns it: a type that can be restarted, or a "Tool" such as *)
(*           Helm, which stands for every other word                       *)
(*   static  it has a Node among its owners or a config.source annotation  *)
(***************************************************************************)

(* The owner is known by its kind alone, whatever its API group: a custom  *)
(* kind may be called "Deployment" or "Standalone"; "Other" stands for all *)
(* kinds that are no type of the program's.                                *)
OwnerKinds == {"none", "ReplicaSet", "Job", "DaemonSet", "StatefulSet",
               "CronJob", "Node", "Deployment", "Standalone", "Other"}
Restartable == {"Deployment", "StatefulSet", "DaemonSet", "ReplicaSet", "Standalone"}
ManagedBy == Restartable \cup {"Tool"}
Labels == ManagedBy \cup {"none", "job"}

(* Every shape a pod can have: only a ReplicaSet or a Job is looked up     *)
(* further, and only a pod of the node or of nobody is static.             *)
AllShapes ==
    {s \in [owner : OwnerKinds, parent : BOOLEAN, label : Labels, static : BOOLEAN] :
        /\ s.parent => s.owner \in {"ReplicaSet", "Job"}
        /\ s.static => s.owner \in {"none", "Node"}}

ControllerTypes == {"Deployment", "ReplicaSet", "StatefulSet", "DaemonSet",
                    "Job", "CronJob", "Node", "Standalone", "Other", "Tool"}

(* getDeploymentFromReplicaSet and getCronJobFromJob: an owner is found    *)
(* only if the lookup succeeds; any error counts as "has no owner".        *)
LookupParent(shape, lookupOK) == lookupOK /\ shape.parent

(* detectFromLabels, "" when the labels say nothing.                       *)
DetectFromLabels(shape) ==
    CASE shape.label \in ManagedBy -> shape.label
      [] shape.label = "job"       -> "Job"
      [] shape.label = "none"      -> ""

IsNodeManagedPod(shape) == shape.static

DetectController(shape, lookupOK) ==
    CASE shape.owner = "ReplicaSet" ->
            IF LookupParent(shape, lookupOK) THEN "Deployment" ELSE "ReplicaSet"
      [] shape.owner = "Job" ->
            IF LookupParent(shape, lookupOK) THEN "CronJob" ELSE "Job"
      [] shape.owner \notin {"ReplicaSet", "Job", "none"} -> shape.owner
      [] shape.owner = "none" ->
            IF DetectFromLabels(shape) # "" THEN DetectFromLabels(shape)
            ELSE IF IsNodeManagedPod(shape) THEN "Node"
            ELSE "Standalone"

(* Mutant: Jobs are restarted like ReplicaSets.                            *)
CanRestartJobs(type) == type \in Restartable \cup {"Job"}

CanRestart(type) == type \in Restartable

GetRestartMethod(type) ==
    CASE type \in {"Deployment", "StatefulSet"} -> "rollout"
      [] type \in {"DaemonSet", "ReplicaSet"}   -> "delete"
      [] OTHER                                  -> "warning"
=============================================================================
