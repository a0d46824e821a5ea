------------------------------ MODULE MCServer ------------------------------
(***************************************************************************)
(* Bounds of module Server for TLC.                                        *)
(***************************************************************************)
EXTENDS Server

(* Every root field on its own, and pairs in which the fields of a query   *)
(* overlap and those of a mutation follow each other.                      *)
MCOperations ==
    {<<f>> : f \in RootFields} \cup
    {<<"pods", "health">>, <<"pod", "namespaces">>,
     <<"restartPod", "deletePod">>, <<"scaleDeployment", "scaleDeployment">>}

MutationOperations == {<<"deletePod">>}
PodOperations == {<<"pod">>, <<"allPods">>}

Container(n) == [name |-> n, image |-> "img"]
Status(n, ready, restarts, is, reason) ==
    [name |-> n, ready |-> ready, restarts |-> restarts, is |-> is, reason |-> reason]
Label(k) == [key |-> k, value |-> "v"]

(* Pods: the statuses are sorted by name, the containers are not; a pod    *)
(* that was just created has none of them, nor an address.                 *)
Web(age) ==
    [name |-> "web", namespace |-> "ns", phase |-> "Running", podIP |-> "10.0.0.1",
     hostIP |-> "10.1.0.1", nodeName |-> "node", age |-> age,
     owners |-> <<[kind |-> "ReplicaSet", name |-> "web-1", controller |-> TRUE]>>,
     labels |-> {Label("app"), Label("tier")},
     containers |-> <<Container("web"), Container("log")>>,
     statuses |-> <<Status("log", TRUE, 2, "Running", ""),
                    Status("web", FALSE, 5, "Waiting", "CrashLoopBackOff")>>,
     failing |-> <<"ContainersNotReady">>]
Fresh(age) ==
    [Web(age) EXCEPT !.name = "fresh", !.phase = "", !.podIP = "", !.hostIP = "",
                     !.nodeName = "", !.owners = <<>>, !.labels = {}, !.statuses = <<>>]
Job(age) ==
    [Web(age) EXCEPT !.name = "job", !.phase = "Succeeded", !.owners = <<>>,
                     !.labels = {Label("job-name")}, !.containers = <<Container("job")>>,
                     !.statuses = <<Status("job", FALSE, 0, "Terminated", "")>>]

Namespace(age) ==
    [name |-> "ns", phase |-> "Active", age |-> age, labels |-> {Label("team")},
     annotations |-> {}]
Deployment(replicas) ==
    [name |-> "web", namespace |-> "ns", replicas |-> replicas, updated |-> 1, ready |-> 0,
     available |-> 0, labels |-> {}, created |-> Now]
StatefulSet(replicas) ==
    [name |-> "db", namespace |-> "ns", replicas |-> replicas, updated |-> 1, ready |-> 0,
     current |-> 1, labels |-> {}, created |-> Now]

Content(pods, namespaces, workloads, checks, restart) ==
    [pods |-> pods, namespaces |-> [i \in DOMAIN namespaces |-> Namespace(namespaces[i])],
     deployments |-> [i \in DOMAIN workloads |-> Deployment(workloads[i])],
     statefulsets |-> [i \in DOMAIN workloads |-> StatefulSet(workloads[i])],
     checks |-> checks, controller |-> "Deployment", restart |-> restart,
     scale |-> [message |-> "scaled", previous |-> 0, new |-> 3, name |-> "web",
                type |-> "deployment"]]

MCContents ==
    {Content(<<Web(2 * Day + 3 * Hour + 61), Fresh(-1), Job(Hour - 1)>>,
             <<Day + 59 * Minute, Hour, 59>>, <<Null, Ref(0)>>,
             [database |-> "healthy", kubernetes |-> "healthy"],
             [message |-> "rollout", method |-> "rollout", controllerType |-> "Deployment",
              warning |-> ""]),
     Content(<<Job(Day + 5 * Minute), Web(59), Web(Hour + 7)>>,
             <<-1, 3 * Day + Hour, 5 * Hour + 61>>, <<>>,
             [database |-> "healthy", kubernetes |-> "unhealthy"],
             [message |-> "deleted", method |-> "warning", controllerType |-> "Standalone",
              warning |-> "manual"])}
=============================================================================
