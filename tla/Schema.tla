------------------------------- MODULE Schema -------------------------------
(***************************************************************************)
(* The GraphQL schema as graph/generated.go executes it, and what becomes  *)
(* of the nulls in an answer.  Pure definitions.                           *)
(*                                                                         *)
(* A type is a record: for every field what it holds, whether it is a list *)
(* (of elements that are never null, as all lists of this schema are), and *)
(* whether null is permitted.  The field functions of generated.go say so  *)
(* in the marshaller they name and in the last argument of ResolveField.   *)
(* The introspection types are left out: they hold no data of the program. *)
(***************************************************************************)
EXTENDS Sequences

(* A pointer: nil, or a reference to a value.  Marshalling ends in         *)
(* graphql.Null or in data; these are told apart the same way.             *)
Null == <<>>
Ref(v) == <<v>>

Req(type)  == [of |-> type, list |-> FALSE, null |-> FALSE]
Opt(type)  == [of |-> type, list |-> FALSE, null |-> TRUE]
Many(type) == [of |-> type, list |-> TRUE,  null |-> FALSE]

Scalars == {"String", "Int", "Boolean", "Time"}
Str == Req("String")
Int32 == Req("Int")

-----------------------------------------------------------------------------
(* Health.                                                                 *)
HealthResponse == [status |-> Str, timestamp |-> Req("Time"), uptime |-> Str, version |-> Str]
ReadinessCheck == [database |-> Str, kubernetes |-> Str]
ReadinessResponse ==
    [status |-> Str, checks |-> Req("ReadinessCheck"), timestamp |-> Req("Time")]
SystemInfo == [name |-> Str, version |-> Str, uptime |-> Str]
KubernetesInfo == [version |-> Str, platform |-> Str]
DatabaseInfo == [openConnections |-> Int32, inUse |-> Int32, idle |-> Int32]
InfoResponse ==
    [service |-> Req("SystemInfo"), kubernetes |-> Req("KubernetesInfo"),
     database |-> Req("DatabaseInfo"), timestamp |-> Req("Time")]

(* What the cluster holds.                                                 *)
KeyValue == [key |-> Str, value |-> Str]
NamespaceInfo ==
    [name |-> Str, status |-> Str, age |-> Str,
     labels |-> Many("KeyValue"), annotations |-> Many("KeyValue")]
ContainerInfo ==
    [name |-> Str, image |-> Str, ready |-> Req("Boolean"), restartCount |-> Int32,
     state |-> Str]
PodInfo ==
    [name |-> Str, namespace |-> Str, phase |-> Str, podIP |-> Opt("String"),
     hostIP |-> Opt("String"), nodeName |-> Opt("String"), age |-> Str, ready |-> Str,
     restarts |-> Int32, owners |-> Many("String"), controllerType |-> Str,
     containers |-> Many("ContainerInfo"), labels |-> Many("KeyValue")]
DeploymentInfo ==
    [name |-> Str, namespace |-> Str, replicas |-> Int32, updatedReplicas |-> Int32,
     readyReplicas |-> Int32, availableReplicas |-> Int32,
     labels |-> Many("KeyValue"), createdAt |-> Req("Time")]
StatefulSetInfo ==
    [name |-> Str, namespace |-> Str, replicas |-> Int32, readyReplicas |-> Int32,
     currentReplicas |-> Int32, updatedReplicas |-> Int32,
     labels |-> Many("KeyValue"), createdAt |-> Req("Time")]

(* What the mutations answer, and the lists.                               *)
RestartPodResponse ==
    [message |-> Str, type |-> Str, deployment |-> Opt("String"),
     statefulset |-> Opt("String"), controller |-> Opt("String"), pod |-> Str,
     namespace |-> Str, warning |-> Opt("String")]
ScaleResponse ==
    [message |-> Str, deployment |-> Opt("String"), statefulset |-> Opt("String"),
     namespace |-> Str, previousReplicas |-> Int32, newReplicas |-> Int32, action |-> Str]
DeletePodResponse == [message |-> Str, pod |-> Str, namespace |-> Str]
NamespaceListResponse == [count |-> Int32, namespaces |-> Many("NamespaceInfo")]
PodListResponse == [namespace |-> Str, count |-> Int32, pods |-> Many("PodInfo")]
AllPodsResponse == [count |-> Int32, pods |-> Many("PodInfo")]
DeploymentListResponse ==
    [namespace |-> Str, count |-> Int32, deployments |-> Many("DeploymentInfo")]
StatefulSetListResponse ==
    [namespace |-> Str, count |-> Int32, statefulsets |-> Many("StatefulSetInfo")]

(* What the subscriptions send.                                            *)
PodWatchEvent == [type |-> Str, pod |-> Req("PodInfo"), reason |-> Opt("String")]
PodLogLine == [timestamp |-> Req("Time"), line |-> Str, container |-> Opt("String")]

-----------------------------------------------------------------------------
(* The operations: every root field, with what it answers.                 *)
Query ==
    [health |-> Req("HealthResponse"), readiness |-> Req("ReadinessResponse"),
     info |-> Req("InfoResponse"), namespaces |-> Req("NamespaceListResponse"),
     pods |-> Req("PodListResponse"), allPods |-> Req("AllPodsResponse"),
     pod |-> Req("PodInfo"), deployments |-> Req("DeploymentListResponse"),
     statefulsets |-> Req("StatefulSetListResponse")]
Mutation ==
    [restartPod |-> Req("RestartPodResponse"), deletePod |-> Req("DeletePodResponse"),
     scaleDeployment |-> Req("ScaleResponse"), scaleStatefulSet |-> Req("ScaleResponse")]
Subscription ==
    [watchPods |-> Req("PodWatchEvent"), watchAllPods |-> Req("PodWatchEvent"),
     streamPodLogs |-> Req("PodLogLine")]

(* Their arguments; a field without arguments is not listed.               *)
ScaleInput == [replicas |-> Int32]
ScaleArgs ==
    [namespace |-> Str, name |-> Str, input |-> Req("ScaleInput"), user |-> Opt("String")]
PodArgs == [namespace |-> Str, name |-> Str, user |-> Opt("String")]
MutationArgs ==
    [restartPod |-> PodArgs, deletePod |-> PodArgs,
     scaleDeployment |-> ScaleArgs, scaleStatefulSet |-> ScaleArgs]
QueryArgs ==
    [pods |-> [namespace |-> Str], allPods |-> [namespace |-> Opt("String")],
     pod |-> [namespace |-> Str, name |-> Str],
     deployments |-> [namespace |-> Str], statefulsets |-> [namespace |-> Str]]
SubscriptionArgs == [watchPods |-> [namespace |-> Str], streamPodLogs |-> PodArgs]

Types ==
    [HealthResponse |-> HealthResponse, ReadinessCheck |-> ReadinessCheck,
     ReadinessResponse |-> ReadinessResponse, SystemInfo |-> SystemInfo,
     KubernetesInfo |-> KubernetesInfo, DatabaseInfo |-> DatabaseInfo,
     InfoResponse |-> InfoResponse, KeyValue |-> KeyValue,
     NamespaceInfo |-> NamespaceInfo, ContainerInfo |-> ContainerInfo,
     PodInfo |-> PodInfo, DeploymentInfo |-> DeploymentInfo,
     StatefulSetInfo |-> StatefulSetInfo, RestartPodResponse |-> RestartPodResponse,
     ScaleResponse |-> ScaleResponse, DeletePodResponse |-> DeletePodResponse,
     NamespaceListResponse |-> NamespaceListResponse, PodListResponse |-> PodListResponse,
     AllPodsResponse |-> AllPodsResponse,
     DeploymentListResponse |-> DeploymentListResponse,
     StatefulSetListResponse |-> StatefulSetListResponse,
     PodWatchEvent |-> PodWatchEvent, PodLogLine |-> PodLogLine]

-----------------------------------------------------------------------------
(* Marshalling: a null where none is permitted makes the enclosing object  *)
(* null, and so on to the top.  The types nest three deep, a list of pods  *)
(* with their containers being the deepest.                                *)
(*                                                                         *)
(* The objects of an answer, the members of its lists and its optional     *)
(* strings are pointers; every other string, and the numbers, the Booleans *)
(* and the times, are values, which are never null.                        *)

(* The marshaller of a list: one null element and the whole list is null.  *)
MarshalList(elements) ==
    IF \E i \in DOMAIN elements : elements[i] = Null THEN Null
    ELSE Ref([i \in DOMAIN elements |-> elements[i][1]])

(* The objects in the value of a field, and the marshalled field, given    *)
(* those objects marshalled.                                               *)
Objects(f, v) == IF f.of \in Scalars THEN <<>> ELSE IF f.list THEN v ELSE <<v>>
MarshalField(f, v, marshalled) ==
    CASE f.of \in Scalars            -> IF f.null THEN v ELSE Ref(v)
      [] f.of \notin Scalars /\ f.list -> MarshalList(marshalled)
      [] OTHER                       -> marshalled[1]

(* The end of the function of a type: out holds the marshalled fields, and *)
(* the invalid ones are counted.  All fields are selected.                 *)
Dispatch(type, out) ==
    LET invalids == {n \in DOMAIN out : out[n] = Null /\ ~Types[type][n].null}
    IN  IF invalids # {} THEN Null
        ELSE Ref([n \in DOMAIN out |-> IF Types[type][n].null THEN out[n] ELSE out[n][1]])

(* The functions of the types, by the depth of their nesting; p points to  *)
(* the object.                                                             *)
MarshalFlat(type, p) ==
    IF p = Null THEN Null
    ELSE Dispatch(type, [n \in DOMAIN Types[type] |->
                            MarshalField(Types[type][n], p[1][n], <<>>)])

NestedField(f, v) ==
    LET objects == Objects(f, v)
    IN  MarshalField(f, v, [i \in DOMAIN objects |-> MarshalFlat(f.of, objects[i])])
MarshalNested(type, p) ==
    IF p = Null THEN Null
    ELSE Dispatch(type, [n \in DOMAIN Types[type] |-> NestedField(Types[type][n], p[1][n])])

AnswerField(f, v) ==
    LET objects == Objects(f, v)
    IN  MarshalField(f, v, [i \in DOMAIN objects |-> MarshalNested(f.of, objects[i])])
MarshalAnswer(type, p) ==
    IF p = Null THEN Null
    ELSE Dispatch(type, [n \in DOMAIN Types[type] |-> AnswerField(Types[type][n], p[1][n])])
=============================================================================
