----------------------------- MODULE Converters -----------------------------
(***************************************************************************)
(* From the objects of the cluster to the objects of the answers: the      *)
(* service layer's converters (internal/services/pod_converter.go,         *)
(* namespace_service_impl.go), the adapter of graph/resolver.go, the type  *)
(* converter (graph/converters.go) and the responses the resolvers build.  *)
(* Pure operators.                                                         *)
(*                                                                         *)
(* A pod is a record of name, namespace, phase, podIP, hostIP, nodeName    *)
(* (""  when unset), age in seconds, owners and labels, its containers     *)
(* [name, image] and their statuses [name, ready, restarts, is, reason],   *)
(* and the reasons of the conditions it fails.  Other conditions,          *)
(* annotations and resources are left out: ConvertPodInfo drops what       *)
(* ConvertPod made of them.                                                *)
(***************************************************************************)
EXTENDS Integers, SequencesExt, FiniteSets, Schema

(* A loop that adds up.                                                    *)
Sum(numbers) ==
    LET total[i \in 0..Len(numbers)] == IF i = 0 THEN 0 ELSE total[i - 1] + numbers[i]
    IN  total[Len(numbers)]

Minute == 60
Hour == 3600
Day == 86400

(* An age as <<count, unit in seconds>> pairs; Unknown when it is negative.*)
Unknown == <<>>

(* Mutant: the hours of the whole age.                                     *)
AgeUnitsWholeHours(age) ==
    << <<age \div Day, Day>>, <<age \div Hour, Hour>>, <<(age \div Minute) % 60, Minute>> >>

AgeUnits(age) ==
    << <<age \div Day, Day>>, <<(age \div Hour) % 24, Hour>>,
       <<(age \div Minute) % 60, Minute>> >>

(* A part of an age is left out if it is zero.                             *)
Part(p) == IF p[1] > 0 THEN <<p>> ELSE <<>>

(* formatDuration for pods: the first two units that are not zero, and the *)
(* seconds of an age below one hour.                                       *)
PodAge(age) ==
    LET units == AgeUnits(age)
        parts == Part(units[1]) \o Part(units[2]) \o Part(units[3])
        all   == IF age < Hour THEN Append(parts, <<age % 60, 1>>) ELSE parts
    IN  IF age < 0 THEN Unknown
        ELSE IF Len(all) > 2 THEN SubSeq(all, 1, 2)
        ELSE all

(* formatDuration for namespaces: no minutes after days, and seconds only  *)
(* below one minute.                                                       *)
NamespaceAge(age) ==
    LET units == AgeUnits(age)
    IN  IF age < 0 THEN Unknown
        ELSE IF age < Minute THEN << <<age, 1>> >>
        ELSE IF units[1][1] > 0 THEN Part(units[1]) \o Part(units[2])
        ELSE Part(units[2]) \o Part(units[3])

-----------------------------------------------------------------------------
(* "Waiting: <reason>" and "Terminated: <reason>" as pairs.                *)
GetContainerState(status) ==
    CASE status.is = "Running" -> <<"Running">>
      [] status.is \in {"Waiting", "Terminated"} ->
            <<status.is, IF status.reason = "" THEN "Unknown" ELSE status.reason>>
      [] OTHER -> <<"Unknown">>

(* Mutant: a container is ready when the last one is.                      *)
ExtractContainerInfoOffByOne(pod) ==
    [i \in DOMAIN pod.containers |->
        LET seen == i < Len(pod.statuses) IN
        [name |-> pod.containers[i].name, image |-> pod.containers[i].image,
         ready |-> seen /\ pod.statuses[i].ready,
         restartCount |-> IF seen THEN pod.statuses[i].restarts ELSE 0,
         state |-> IF seen THEN GetContainerState(pod.statuses[i]) ELSE <<"Unknown">>]]

(* The i-th container is given the i-th status, whatever its name.         *)
ExtractContainerInfo(pod) ==
    [i \in DOMAIN pod.containers |->
        LET seen == i <= Len(pod.statuses) IN
        [name |-> pod.containers[i].name, image |-> pod.containers[i].image,
         ready |-> seen /\ pod.statuses[i].ready,
         restartCount |-> IF seen THEN pod.statuses[i].restarts ELSE 0,
         state |-> IF seen THEN GetContainerState(pod.statuses[i]) ELSE <<"Unknown">>]]

TotalRestarts(containers) == Sum([i \in DOMAIN containers |-> containers[i].restartCount])
ReadyContainers(containers) ==
    Sum([i \in DOMAIN containers |-> IF containers[i].ready THEN 1 ELSE 0])

(* ConvertPod.  "1/2" is a pair; ready counts containers, not statuses.    *)
ConvertPod(pod, controllerType) ==
    LET containers == ExtractContainerInfo(pod) IN
    [name |-> pod.name, namespace |-> pod.namespace, phase |-> pod.phase,
     podIP |-> pod.podIP, hostIP |-> pod.hostIP, nodeName |-> pod.nodeName,
     age |-> PodAge(pod.age),
     ready |-> <<ReadyContainers(containers), Len(pod.containers)>>,
     restarts |-> TotalRestarts(containers),
     owners |-> [i \in DOMAIN pod.owners |-> <<pod.owners[i].kind, pod.owners[i].name>>],
     controllerType |-> controllerType,
     containers |-> containers, labels |-> pod.labels]

JobLabels == {"job-name", "batch.kubernetes.io/job-name"}

(* detectBasicControllerInfo: the kind of the controlling owner as it      *)
(* stands, without a look at the owner's owner.                            *)
DetectBasicController(pod) ==
    LET controllers == SelectSeq(pod.owners, LAMBDA o : o.controller) IN
    CASE controllers # <<>> -> Head(controllers).kind
      [] controllers = <<>> /\ (\E l \in pod.labels : l.key \in JobLabels) -> "Job"
      [] OTHER -> "Standalone"

ConvertPods(pods) ==
    [i \in DOMAIN pods |-> ConvertPod(pods[i], DetectBasicController(pods[i]))]

(* The reason of a watch event: what ended the first container of a pod    *)
(* that is over, even if that is "", or else the first failing condition.  *)
ExtractEventDetails(pod) ==
    CASE pod.phase \in {"Failed", "Succeeded"} /\ pod.statuses # <<>>
         /\ Head(pod.statuses).is \in {"Terminated", "Waiting"} -> Head(pod.statuses).reason
      [] OTHER -> IF pod.failing = <<>> THEN "" ELSE Head(pod.failing)

(* convertNamespaceToInfo.  An Active phase is reported as such and every  *)
(* other one as it is.                                                     *)
ConvertNamespaceToInfo(ns) ==
    [name |-> ns.name, status |-> ns.phase, age |-> NamespaceAge(ns.age),
     labels |-> ns.labels, annotations |-> ns.annotations]

-----------------------------------------------------------------------------
(* Service objects to GraphQL objects.                                     *)

StringPtr(s) == IF s = "" THEN Null ELSE Ref(s)

(* A slice of pointers to the members of a slice.                          *)
Refs(s) == [i \in DOMAIN s |-> Ref(s[i])]

(* A map has no order; the pairs come in whatever order range yields.      *)
MapToKeyValuePairs(map) == Refs(SetToSeq(map))

ConvertPodInfo(pod) ==
    Ref([pod EXCEPT !.podIP = StringPtr(pod.podIP), !.hostIP = StringPtr(pod.hostIP),
                    !.nodeName = StringPtr(pod.nodeName), !.containers = Refs(pod.containers),
                    !.labels = MapToKeyValuePairs(pod.labels)])

ConvertNamespaceInfo(ns) ==
    Ref([ns EXCEPT !.labels = MapToKeyValuePairs(ns.labels),
                   !.annotations = MapToKeyValuePairs(ns.annotations)])

(* A workload without spec.replicas counts as one.                         *)
SpecReplicas(workload) == IF workload.replicas = Null THEN 1 ELSE workload.replicas[1]

ConvertDeploymentInfo(d) ==
    Ref([name |-> d.name, namespace |-> d.namespace, replicas |-> SpecReplicas(d),
         updatedReplicas |-> d.updated, readyReplicas |-> d.ready,
         availableReplicas |-> d.available, labels |-> MapToKeyValuePairs(d.labels),
         createdAt |-> d.created])

ConvertStatefulSetInfo(s) ==
    Ref([name |-> s.name, namespace |-> s.namespace, replicas |-> SpecReplicas(s),
         readyReplicas |-> s.ready, currentReplicas |-> s.current,
         updatedReplicas |-> s.updated, labels |-> MapToKeyValuePairs(s.labels),
         createdAt |-> s.created])

(* Mutant: the event of a pod that gave no reason carries no pod.          *)
ConvertPodWatchEventBare(event) ==
    Ref([type |-> event.type, reason |-> StringPtr(event.reason),
         pod |-> IF event.reason = "" THEN Null ELSE ConvertPodInfo(event.pod)])

ConvertPodWatchEvent(event) ==
    Ref([type |-> event.type, pod |-> ConvertPodInfo(event.pod),
         reason |-> StringPtr(event.reason)])

ConvertPodLogLine(line) ==
    Ref([timestamp |-> line.timestamp, line |-> line.text,
         container |-> StringPtr(line.container)])

-----------------------------------------------------------------------------
(* The adapter hands the results of restart and scale on as maps, from     *)
(* which the resolvers pick what they know by key.  The keys the resolvers *)
(* ask for and the adapter never sets fall back to their defaults: the     *)
(* type of a restart is always "", the action of a scaling always "scale", *)
(* and neither answer names the workload.                                  *)
Pick(map, key, default) == IF key \in DOMAIN map THEN map[key] ELSE default

(* The result's details and the name of its controller are in the map too; *)
(* nobody asks for them.                                                   *)
RestartResultMap(result) ==
    [message |-> result.message, success |-> TRUE, method |-> result.method,
     controller_type |-> result.controllerType, warning |-> result.warning]

RestartResponse(name, namespace, map) ==
    Ref([message |-> Pick(map, "message", "Pod restart initiated"),
         type |-> Pick(map, "type", ""),
         deployment |-> StringPtr(Pick(map, "deployment", "")),
         statefulset |-> StringPtr(Pick(map, "statefulset", "")),
         controller |-> StringPtr(Pick(map, "controller", "")),
         pod |-> name, namespace |-> namespace,
         warning |-> StringPtr(Pick(map, "warning", ""))])

ScaleResultMap(result) ==
    [message |-> result.message, success |-> TRUE,
     previous_replicas |-> result.previous, new_replicas |-> result.new,
     resource_name |-> result.name, resource_type |-> result.type]

ScaledResponse(namespace, map) ==
    Ref([message |-> Pick(map, "message", "Deployment scaled successfully"),
         deployment |-> StringPtr(Pick(map, "deployment", "")),
         statefulset |-> StringPtr(Pick(map, "statefulset", "")),
         namespace |-> namespace,
         previousReplicas |-> Pick(map, "previous_replicas", 0),
         newReplicas |-> Pick(map, "new_replicas", 0),
         action |-> Pick(map, "action", "scale")])

DeleteResponse(name, namespace) ==
    Ref([message |-> "Pod deleted successfully", pod |-> name, namespace |-> namespace])

-----------------------------------------------------------------------------
(* DefaultHealthService.                                                   *)
GetHealth(now) ==
    Ref([status |-> "healthy", timestamp |-> now, uptime |-> "up", version |-> "1.0.0"])

(* checks: what Ping and ServerVersion say.  "not initialized" cannot be   *)
(* met: main ends before it serves.                                        *)
GetReadiness(checks, now) ==
    Ref([status |-> IF checks.database = "healthy" /\ checks.kubernetes = "healthy"
                    THEN "ready" ELSE "not ready",
         checks |-> Ref(checks), timestamp |-> now])

GetSystemInfo(checks, now) ==
    LET version == IF checks.kubernetes = "healthy" THEN "v1" ELSE "unknown" IN
    Ref([service |-> Ref([name |-> "K8s Pod Manager API", version |-> "1.0.0",
                          uptime |-> "up"]),
         kubernetes |-> Ref([version |-> version, platform |-> version]),
         database |-> Ref([openConnections |-> 1, inUse |-> 0, idle |-> 1]),
         timestamp |-> now])
=============================================================================
