------------------------------- MODULE Server -------------------------------
(***************************************************************************)
(* The process: main.go starts it, serves and shuts it down; the executor  *)
(* of graph/generated.go runs the fields of every operation, those of a    *)
(* query concurrently and those of a mutation one after the other; the     *)
(* resolvers of graph/schema.resolvers.go validate, call the services,     *)
(* convert and audit.                                                      *)
(*                                                                         *)
(* A field of an operation is a slot <<request, position>>.  What it       *)
(* answers is a function of the cluster's content, converted by module     *)
(* Converters and marshalled by module Schema.  What the calls of the      *)
(* services do to each other is the business of modules Scale, Restart and *)
(* Subscription; here a call succeeds, or fails for a reason of the API    *)
(* server's, its effect done or not.                                       *)
(***************************************************************************)
EXTENDS Converters

CONSTANTS
    Requests,           \* concurrent operations
    MaxFields,          \* bound: root fields of one operation
    Operations,         \* bound: sequences of root fields the clients send
    Contents,           \* bound: what the cluster may hold
    Reasons             \* bound: the API server's reasons to fail a call

QueryFields == DOMAIN Query
MutationFields == DOMAIN Mutation
SubscriptionFields == DOMAIN Subscription
RootFields == QueryFields \cup MutationFields \cup SubscriptionFields
AllArgs(f) ==
    CASE f \in DOMAIN QueryArgs        -> QueryArgs[f]
      [] f \in DOMAIN MutationArgs     -> MutationArgs[f]
      [] f \in DOMAIN SubscriptionArgs -> SubscriptionArgs[f]
HasArgs(f) == f \in DOMAIN QueryArgs \cup DOMAIN MutationArgs \cup DOMAIN SubscriptionArgs

APIReasons == {"NotFound", "Unauthorized", "Forbidden", "AlreadyExists", "Timeout", "Other"}

ASSUME FieldsAssumption == MaxFields \in Nat \ {0}
ASSUME ReasonsAssumption == Reasons \subseteq APIReasons
(* An operation is a query, a mutation, or a subscription of one field.    *)
ASSUME OperationsAssumption ==
    \A o \in Operations :
        /\ o \in Seq(RootFields) /\ Len(o) \in 1..MaxFields
        /\ \/ \A i \in 1..Len(o) : o[i] \in QueryFields
           \/ \A i \in 1..Len(o) : o[i] \in MutationFields
           \/ Len(o) = 1 /\ o[1] \in SubscriptionFields
(* The pod that is watched, or asked for by its name, is the first.  No    *)
(* pod has more container statuses than containers.                        *)
IsList(s) == s \in Seq(Range(s))
ASSUME ContentsAssumption ==
    \A c \in Contents :
        /\ IsList(c.pods) /\ c.pods # <<>> /\ IsList(c.namespaces)
        /\ IsList(c.deployments) /\ IsList(c.statefulsets)
        /\ \A i \in 1..Len(c.namespaces) : c.namespaces[i].age \in Int
        /\ \A i \in 1..Len(c.pods) :
            LET pod == c.pods[i] IN
            /\ IsList(pod.containers) /\ IsList(pod.statuses)
            /\ Len(pod.statuses) <= Len(pod.containers)
            /\ \A j \in 1..Len(pod.statuses) :
                  pod.statuses[j].ready \in BOOLEAN /\ pod.statuses[j].restarts \in Nat
            /\ IsFiniteSet(pod.labels) /\ pod.labels \subseteq [key : STRING, value : STRING]
            /\ pod.age \in Int

-----------------------------------------------------------------------------
(* The answers, from the content of the cluster.                           *)

Now == "now"

WatchEvent(c) ==
    [type |-> "ADDED", reason |-> ExtractEventDetails(Head(c.pods)),
     pod |-> ConvertPod(Head(c.pods), c.controller)]
LogLine == [timestamp |-> Now, text |-> "", container |-> ""]

NamespaceList(c) ==
    [i \in DOMAIN c.namespaces |->
        ConvertNamespaceInfo(ConvertNamespaceToInfo(c.namespaces[i]))]
PodList(c) ==
    LET pods == ConvertPods(c.pods) IN [i \in DOMAIN pods |-> ConvertPodInfo(pods[i])]
DeploymentList(c) == [i \in DOMAIN c.deployments |-> ConvertDeploymentInfo(c.deployments[i])]
StatefulSetList(c) ==
    [i \in DOMAIN c.statefulsets |-> ConvertStatefulSetInfo(c.statefulsets[i])]

(* What the resolver of a field returns: a pointer to an object.           *)
Answer(f, c) ==
    CASE f = "health"    -> GetHealth(Now)
      [] f = "readiness" -> GetReadiness(c.checks, Now)
      [] f = "info"      -> GetSystemInfo(c.checks, Now)
      [] f = "namespaces" ->
            Ref([count |-> Len(NamespaceList(c)), namespaces |-> NamespaceList(c)])
      [] f = "pods" ->
            Ref([namespace |-> "ns", count |-> Len(PodList(c)), pods |-> PodList(c)])
      [] f = "allPods" -> Ref([count |-> Len(PodList(c)), pods |-> PodList(c)])
      [] f = "deployments" ->
            Ref([namespace |-> "ns", count |-> Len(DeploymentList(c)),
                 deployments |-> DeploymentList(c)])
      [] f = "statefulsets" ->
            Ref([namespace |-> "ns", count |-> Len(StatefulSetList(c)),
                 statefulsets |-> StatefulSetList(c)])
      [] f = "pod" -> ConvertPodInfo(ConvertPod(Head(c.pods), c.controller))
      [] f = "restartPod" -> RestartResponse("pod", "ns", RestartResultMap(c.restart))
      [] f = "deletePod"  -> DeleteResponse("pod", "ns")
      [] f \in {"scaleDeployment", "scaleStatefulSet"} ->
            ScaledResponse("ns", ScaleResultMap(c.scale))
      [] f \in {"watchPods", "watchAllPods"} -> ConvertPodWatchEvent(WatchEvent(c))
      [] f = "streamPodLogs" -> ConvertPodLogLine(LogLine)

TypeOf(f) ==
    CASE f \in QueryFields        -> Query[f].of
      [] f \in MutationFields     -> Mutation[f].of
      [] f \in SubscriptionFields -> Subscription[f].of

Marshalled(c) == [f \in RootFields |-> MarshalAnswer(TypeOf(f), Answer(f, c))]

VARIABLES
    main,               \* where main is
    quitter,            \* where the goroutine of gracefulShutdown is
    signalled,          \* a signal waits in quit, or was taken from it
    served,             \* clients may hold connections opened while it served
    pool,               \* the connections to the database
    op,                 \* the operation of a request: its root fields
    slot,               \* the state of every field
    gone,               \* the client has left
    data,               \* the data of the response
    sent,               \* what became of the response
    content,            \* what the cluster holds (external)
    answer              \* what each root field answers of it, marshalled

cluster == <<content, answer>>
process == <<main, quitter, signalled, served, pool>>
request == <<op, gone, data, sent>>
vars == <<process, request, slot, cluster>>

Slots == Requests \X (1..MaxFields)
NoRow == [status |-> 0, count |-> 0]
Unused ==
    [field |-> "none", pc |-> "unused", out |-> "none", code |-> "none", why |-> "none",
     effect |-> FALSE, row |-> NoRow, lost |-> FALSE, null |-> FALSE]

Init ==
    /\ main = "config" /\ quitter = "none" /\ signalled = FALSE
    /\ served = FALSE /\ pool = "none"
    /\ op = [r \in Requests |-> <<>>]
    /\ slot = [s \in Slots |-> Unused]
    /\ gone = [r \in Requests |-> FALSE]
    /\ data = [r \in Requests |-> "none"]
    /\ sent = [r \in Requests |-> "none"]
    /\ content \in Contents /\ answer = Marshalled(content)

Running == main # "exited"

-----------------------------------------------------------------------------
(* The process.                                                            *)

MainStep(from, to) == main = from /\ main' = to

(* config.Load cannot fail.                                                *)
LoadConfig == MainStep("config", "connect") /\ UNCHANGED <<quitter, signalled, served, pool>>

Connect ==
    /\ MainStep("connect", "migrate")
    /\ pool' = "open"
    /\ UNCHANGED <<quitter, signalled, served>>

Migrate == MainStep("migrate", "client") /\ UNCHANGED <<quitter, signalled, served, pool>>

InitClient == MainStep("client", "routes") /\ UNCHANGED <<quitter, signalled, served, pool>>

(* The resolver and its services, the routes, and go gracefulShutdown.     *)
SetupRoutes ==
    /\ MainStep("routes", "listen")
    /\ quitter' = "starting"
    /\ UNCHANGED <<signalled, served, pool>>

ShutdownBegun == quitter \in {"draining", "done"}

(* log.Fatalf: the process ends at once, deferred functions are not run.   *)
(* The listener may fail while it serves, too, unless it was shut down.    *)
Fatal ==
    /\ \/ main \in {"connect", "migrate", "client", "listen"}
       \/ main = "serving" /\ ~ShutdownBegun
    /\ main' = "exited"
    /\ UNCHANGED <<quitter, signalled, served, pool>>

ListenAndServe ==
    /\ ~ShutdownBegun
    /\ MainStep("listen", "serving")
    /\ served' = TRUE
    /\ UNCHANGED <<quitter, signalled, pool>>

(* ListenAndServe returns ErrServerClosed as soon as Shutdown has begun,   *)
(* and main returns.                                                       *)
ServerClosed ==
    /\ ShutdownBegun
    /\ main \in {"listen", "serving"}
    /\ main' = "returning"
    /\ UNCHANGED <<quitter, signalled, served, pool>>

(* The deferred database.Close, and then the end of the process with all   *)
(* its goroutines.                                                         *)
CloseDatabase ==
    /\ MainStep("returning", "closed")
    /\ pool' = "closed"
    /\ UNCHANGED <<quitter, signalled, served>>

Exit == MainStep("closed", "exited") /\ UNCHANGED <<quitter, signalled, served, pool>>

QuitterStep(from, to) == Running /\ quitter = from /\ quitter' = to

Notify == QuitterStep("starting", "waiting") /\ UNCHANGED <<main, signalled, served, pool>>

(* Mutant: the listener is closed when no operation is left.               *)
BeginShutdownWhenIdle ==
    /\ signalled
    /\ \A r \in Requests : op[r] = <<>> \/ sent[r] # "none"
    /\ QuitterStep("waiting", "draining")
    /\ UNCHANGED <<main, signalled, served, pool>>

(* <-quit, and the listener is closed by Shutdown.                         *)
BeginShutdown ==
    /\ signalled
    /\ QuitterStep("waiting", "draining")
    /\ UNCHANGED <<main, signalled, served, pool>>

(* Mutant: the goroutine closes the database itself.                       *)
EndShutdownClosing ==
    /\ QuitterStep("draining", "done")
    /\ pool' = "closed"
    /\ UNCHANGED <<main, signalled, served>>

(* Shutdown returns when the HTTP server is idle or when 30 seconds are    *)
(* over; nobody waits for that.                                            *)
EndShutdown == QuitterStep("draining", "done") /\ UNCHANGED <<main, signalled, served, pool>>

(* External: SIGINT or SIGTERM.  Before signal.Notify it kills the process.*)
Signal ==
    /\ Running /\ ~signalled
    /\ signalled' = TRUE
    /\ main' = IF quitter = "waiting" THEN main ELSE "exited"
    /\ UNCHANGED <<quitter, served, pool>>

Startup == LoadConfig \/ Connect \/ Migrate \/ InitClient \/ SetupRoutes \/ ListenAndServe
Teardown == ServerClosed \/ CloseDatabase \/ Exit
Shutdown == Notify \/ BeginShutdown \/ EndShutdown
Alone(A) == A /\ UNCHANGED <<request, slot, cluster>>
Process == Alone(Startup \/ Teardown \/ Shutdown \/ Fatal \/ Signal)

-----------------------------------------------------------------------------
(* The executor.                                                           *)

(* Exec: an operation arrives and its fields are collected.  Shutdown      *)
(* closes the listener, but not the websocket connections, which were      *)
(* taken over from the HTTP server: any operation may come over one of     *)
(* those until the process ends.                                           *)
Accept(r) ==
    /\ served /\ Running
    /\ op[r] = <<>>
    /\ \E o \in Operations :
        /\ op' = [op EXCEPT ![r] = o]
        /\ slot' = [s \in Slots |->
                        IF s[1] = r /\ s[2] \in 1..Len(o)
                        THEN [Unused EXCEPT !.field = o[s[2]], !.pc = "idle"]
                        ELSE slot[s]]
    /\ UNCHANGED <<process, gone, data, sent, cluster>>

(* A step of one field.                                                    *)
Step(s, from, new) ==
    /\ Running
    /\ slot[s].pc = from
    /\ slot' = [slot EXCEPT ![s] = new]
    /\ UNCHANGED <<process, request, cluster>>

Failed(s, code, why, next) ==
    [slot[s] EXCEPT !.out = "error", !.code = code, !.why = why, !.pc = next]

(* Mutant: the fields of a mutation run like those of a query.             *)
TurnAtOnce(s) == TRUE

(* Mutant: a mutation waits for the success of those before it.            *)
TurnAfterSuccess(s) ==
    slot[s].field \in MutationFields =>
        \A i \in 1..(s[2] - 1) : slot[<<s[1], i>>].pc = "done" /\ slot[<<s[1], i>>].out = "ok"

(* A query's fields have a goroutine each, a mutation's follow each other  *)
(* whether they succeed or not.                                            *)
Turn(s) ==
    slot[s].field \in MutationFields =>
        \A i \in 1..(s[2] - 1) : slot[<<s[1], i>>].pc = "done"

Begin(s) == Turn(s) /\ Step(s, "idle", [slot[s] EXCEPT !.pc = "resolve"])

(* Only an Int can fail to be unmarshalled once the validator has passed   *)
(* the operation (out of range); the resolver is not called.               *)
ArgsFail(s) ==
    /\ slot[s].field \in {"scaleDeployment", "scaleStatefulSet"}
    /\ Step(s, "resolve", Failed(s, "ARGUMENT", "none", "marshal"))

-----------------------------------------------------------------------------
(* The resolvers.                                                          *)

HealthFields == {"health", "readiness", "info"}

(* The pod query is the one field with an outcome that is not audited.     *)
Audited(f) == f \notin HealthFields \cup {"pod"}
AfterCall(f) == IF Audited(f) THEN "log" ELSE "marshal"

Reject(s) ==
    /\ HasArgs(slot[s].field)
    /\ Step(s, "resolve", Failed(s, "VALIDATION_ERROR", "none", AfterCall(slot[s].field)))

(* The service call returns; a subscription has none before it answers.    *)
CallReturns(s) ==
    Step(s, "resolve",
         [slot[s] EXCEPT !.out = "ok", !.pc = AfterCall(slot[s].field),
                         !.effect = slot[s].field \in MutationFields])

(* Mutant: a timeout is taken for a refusal.                               *)
HandleServiceErrorTimeout(why, wrapped) ==
    CASE wrapped \/ why = "Other" -> "SERVICE_ERROR"
      [] why = "NotFound"     -> "NOT_FOUND"
      [] why = "Unauthorized" -> "UNAUTHORIZED"
      [] why \in {"Forbidden", "Timeout"} -> "FORBIDDEN"
      [] why = "AlreadyExists" -> "CONFLICT"

(* The code of an error.  A service that reports "not found" or a conflict *)
(* of its own making drops the API server's reason.                        *)
HandleServiceError(why, wrapped) ==
    IF wrapped THEN "SERVICE_ERROR"
    ELSE CASE why = "NotFound"      -> "NOT_FOUND"
           [] why = "Unauthorized"  -> "UNAUTHORIZED"
           [] why = "Forbidden"     -> "FORBIDDEN"
           [] why = "AlreadyExists" -> "CONFLICT"
           [] why = "Timeout"       -> "TIMEOUT"
           [] why = "Other"         -> "SERVICE_ERROR"

(* Whether a failed call's reason is dropped: always where GetPod reads,   *)
(* if it is the read that fails where a read comes before the write.       *)
Wrapped(f) ==
    CASE f = "pod" -> {TRUE}
      [] f \in {"restartPod", "scaleDeployment", "scaleStatefulSet"} -> BOOLEAN
      [] OTHER -> {FALSE}

(* A write may have been carried out although its call failed.             *)
MayHaveEffect(f, why, wrapped) ==
    f \in MutationFields /\ ~wrapped /\ why \in {"Timeout", "Other"}

CallFails(s) ==
    /\ slot[s].field \notin HealthFields \cup SubscriptionFields
    /\ \E why \in Reasons : \E wrapped \in Wrapped(slot[s].field) : \E done \in BOOLEAN :
        /\ done => MayHaveEffect(slot[s].field, why, wrapped)
        /\ Step(s, "resolve",
                [Failed(s, HandleServiceError(why, wrapped), why, "log") EXCEPT
                    !.pc = AfterCall(slot[s].field), !.effect = done])

(* How many objects a list answers.                                        *)
Count(f, c) ==
    CASE f \in {"pods", "allPods"} -> Len(c.pods)
      [] f = "namespaces"          -> Len(c.namespaces)
      [] f = "deployments"         -> Len(c.deployments)
      [] f = "statefulsets"        -> Len(c.statefulsets)
      [] OTHER                     -> 0

(* Mutant: a failed mutation is recorded like a failed query.              *)
RowAlwaysOK(f, out, c) ==
    [status |-> 200, count |-> IF out = "ok" THEN Count(f, c) ELSE 0]

(* LogMutation, LogQuery, LogSubscription.  A query that failed leaves the *)
(* row of an empty success.                                                *)
Row(f, out, c) ==
    [status |-> IF f \in MutationFields /\ out = "error" THEN 500 ELSE 200,
     count  |-> IF out = "ok" THEN Count(f, c) ELSE 0]

(* The row is stored if the database takes it; otherwise only stdout has it.*)
LogRow(s) ==
    \E stored \in BOOLEAN :
        /\ stored => pool = "open"
        /\ Step(s, "log",
                [slot[s] EXCEPT !.pc = "marshal", !.lost = ~stored,
                    !.row = IF stored THEN Row(slot[s].field, slot[s].out, content) ELSE NoRow])

-----------------------------------------------------------------------------
(* The response.                                                           *)

(* ResolveField: null for an error, for a nil result and for a result that *)
(* marshals to null.                                                       *)
IsNull(f, out) == out = "error" \/ answer[f] = Null

(* The field is marshalled and, if null, counted as invalid.  A stream     *)
(* that was opened goes on.                                                *)
Complete(s) ==
    LET f == slot[s].field
        streams == f \in SubscriptionFields /\ slot[s].out = "ok"
    IN  Step(s, "marshal",
             [slot[s] EXCEPT !.pc = IF streams THEN "stream" ELSE "done",
                             !.null = IsNull(f, slot[s].out)])

StreamSends(s) ==
    /\ ~gone[s[1]]
    /\ Step(s, "stream", [slot[s] EXCEPT !.pc = "marshal"])

(* The client or the source ends it; module Subscription has the details.  *)
StreamEnds(s) == Step(s, "stream", [slot[s] EXCEPT !.pc = "done"])

Finished(r) == \A i \in 1..Len(op[r]) : slot[<<r, i>>].pc = "done"
Invalids(r) == {i \in 1..Len(op[r]) : slot[<<r, i>>].null}

(* Mutant: Dispatch does not wait for the fields.                          *)
RespondEarly(r) ==
    /\ Running
    /\ op[r] # <<>> /\ data[r] = "none"
    /\ data' = [data EXCEPT ![r] = IF Invalids(r) = {} THEN "object" ELSE "null"]
    /\ sent' = [sent EXCEPT ![r] = IF gone[r] THEN "lost" ELSE "sent"]
    /\ UNCHANGED <<process, op, gone, slot, cluster>>

(* All fields are there; one null makes the data null, because no root     *)
(* field may be null.                                                      *)
Respond(r) ==
    /\ Running
    /\ op[r] # <<>> /\ Finished(r) /\ data[r] = "none"
    /\ data' = [data EXCEPT ![r] = IF Invalids(r) = {} THEN "object" ELSE "null"]
    /\ sent' = [sent EXCEPT ![r] = IF gone[r] THEN "lost" ELSE "sent"]
    /\ UNCHANGED <<process, op, gone, slot, cluster>>

(* External: the connection breaks, or the user cancels.                   *)
ClientLeaves(r) ==
    /\ Running
    /\ op[r] # <<>> /\ sent[r] = "none" /\ ~gone[r]
    /\ gone' = [gone EXCEPT ![r] = TRUE]
    /\ UNCHANGED <<process, op, data, sent, slot, cluster>>

-----------------------------------------------------------------------------
Call(s) == ArgsFail(s) \/ Reject(s) \/ CallReturns(s) \/ CallFails(s)
Field(s) == Begin(s) \/ Call(s) \/ LogRow(s) \/ Complete(s)
Stream(s) == StreamSends(s) \/ StreamEnds(s)

Next ==
    \/ Process
    \/ \E r \in Requests : Accept(r) \/ Respond(r) \/ ClientLeaves(r)
    \/ \E s \in Slots : Field(s) \/ Stream(s)

Spec == Init /\ [][Next]_vars

(* Goroutines that can run do run, a call of the API server returns one    *)
(* way or the other, and a stream ends once its client has left (module    *)
(* Subscription).  Signals, failures and clients are free.                 *)
FairSpec ==
    /\ Spec
    /\ WF_vars(Alone(Startup)) /\ WF_vars(Alone(Teardown)) /\ WF_vars(Alone(Shutdown))
    /\ \A s \in Slots : WF_vars(Field(s)) /\ WF_vars(gone[s[1]] /\ StreamEnds(s))
    /\ \A r \in Requests : WF_vars(Respond(r))

-----------------------------------------------------------------------------
(* Properties.                                                             *)

MainPhases == {"config", "connect", "migrate", "client", "routes", "listen", "serving",
               "returning", "closed", "exited"}
QuitterPhases == {"none", "starting", "waiting", "draining", "done"}
Codes == {"none", "ARGUMENT", "VALIDATION_ERROR", "NOT_FOUND", "UNAUTHORIZED",
          "FORBIDDEN", "CONFLICT", "TIMEOUT", "SERVICE_ERROR"}
FieldPhases == {"unused", "idle", "resolve", "log", "marshal", "stream", "done"}
Outcomes == {"none", "ok", "error"}
Whys == APIReasons \cup {"none"}
Rows == [status : {0, 200, 500}, count : Nat]
SlotStates ==
    [field : RootFields \cup {"none"}, pc : FieldPhases, out : Outcomes, code : Codes,
     why : Whys, effect : BOOLEAN, row : Rows, lost : BOOLEAN, null : BOOLEAN]

(* Every variable keeps its type, and the pool is open from Connect to the *)
(* deferred Close (main.go:30-33).                                         *)
TypeOK ==
    /\ main \in MainPhases /\ quitter \in QuitterPhases /\ signalled \in BOOLEAN
    /\ served \in BOOLEAN
    /\ pool \in {"none", "open", "closed"}
    /\ main \in {"migrate", "client", "routes", "listen", "serving", "returning"} => pool = "open"
    /\ op \in [Requests -> Operations \cup {<<>>}]
    /\ slot \in [Slots -> SlotStates]
    /\ gone \in [Requests -> BOOLEAN]
    /\ data \in [Requests -> {"none", "object", "null"}]
    /\ sent \in [Requests -> {"none", "sent", "lost"}]
    /\ content \in Contents

(* What the converters make of any content of the cluster is marshalled    *)
(* without a null where the schema forbids one: the data of a response is  *)
(* null if and only if one of its fields failed, in whatever order the     *)
(* fields of a query are done (generated.go, _Query and _Mutation).  So a  *)
(* field that failed takes its siblings' results, effects included, along. *)
AllOrNothing ==
    \A r \in Requests :
        data[r] # "none" =>
            (data[r] = "null" <=> \E i \in 1..Len(op[r]) : slot[<<r, i>>].out = "error")

(* The second of two mutations in one operation changes the cluster only   *)
(* after the first is done with and on record, whatever the verdict        *)
(* (generated.go:7404, docs of GraphQL's serial execution).                *)
MutationsAreSerial ==
    \A s, t \in Slots :
        s[1] = t[1] /\ s[2] < t[2] /\ slot[t].effect =>
            /\ slot[s].pc = "done"
            /\ slot[s].code = "ARGUMENT" \/ slot[s].lost \/ slot[s].row # NoRow

(* Once a field is past its resolver there is one row of it, with the      *)
(* verdict of its answer, whatever its siblings did and whether or not the *)
(* client still listens; a field without a row was never resolved, is not  *)
(* audited, or its row was refused by the database (audit.go:73).          *)
AuditMatchesAnswer ==
    \A s \in Slots :
        LET x == slot[s] IN
        /\ x.row # NoRow =>
              /\ Audited(x.field) /\ x.out # "none" /\ ~x.lost
              /\ x.row.status = 500 <=> x.out = "error" /\ x.field \in MutationFields
        /\ x.pc \in {"marshal", "stream", "done"} /\ Audited(x.field) /\ x.code # "ARGUMENT" =>
              x.lost \/ x.row # NoRow
        /\ x.effect => x.field \in MutationFields /\ x.out # "none"

(* The code of an error can be relied on: only SERVICE_ERROR and TIMEOUT   *)
(* leave open whether the mutation was carried out, and a code that names  *)
(* a reason is the API server's own reason (errors.go:35).                 *)
CodesTellEffects ==
    \A s \in Slots :
        LET x == slot[s] IN
        /\ x.out = "error" /\ x.effect => x.code \in {"SERVICE_ERROR", "TIMEOUT"}
        /\ x.code = "NOT_FOUND" => x.why = "NotFound"
        /\ x.code = "FORBIDDEN" => x.why = "Forbidden"
        /\ x.out = "ok" => x.code = "none"

(* The seconds an age stands for, and its smallest unit.                   *)
Seconds(age) == Sum([i \in DOMAIN age |-> age[i][1] * age[i][2]])
AgeReadsBack(age, seconds) ==
    IF seconds < 0 THEN age = Unknown
    ELSE /\ age # Unknown /\ Seconds(age) <= seconds
         /\ seconds < Seconds(age) + age[Len(age)][2]
         /\ \A i \in 1..(Len(age) - 1) : age[i + 1][1] * age[i + 1][2] < age[i][2]

Restarts(statuses) == Sum([i \in DOMAIN statuses |-> statuses[i].restarts])
PodIsFaithful(told, pod) ==
    /\ told.name = pod.name
    /\ told.restarts = Restarts(pod.statuses)
    /\ told.ready[1] = Cardinality({i \in DOMAIN pod.statuses : pod.statuses[i].ready})
    /\ told.ready[1] <= told.ready[2]
    /\ Range(told.labels) = pod.labels
    /\ AgeReadsBack(told.age, pod.age)

(* What a list tells of a pod is true of the pod in its place: the sums    *)
(* over its containers, whatever the order of the statuses, and its age to *)
(* the last unit named; a namespace's age likewise.  The count of a list   *)
(* is that of its objects and of its audit row (pod_converter.go:25, :277, *)
(* namespace_service_impl.go:89, audit.go:73).                             *)
ListsAreFaithful ==
    \A s \in Slots :
        slot[s].pc = "done" /\ slot[s].out = "ok" =>
            LET f == slot[s].field
                a == answer[f][1]
            IN
            /\ slot[s].row # NoRow /\ "count" \in DOMAIN a => slot[s].row.count = a.count
            /\ f \in {"pods", "allPods"} =>
                /\ a.count = Len(content.pods)
                /\ \A i \in 1..a.count : PodIsFaithful(a.pods[i], content.pods[i])
            /\ f = "namespaces" =>
                \A i \in 1..Len(content.namespaces) :
                    AgeReadsBack(a.namespaces[i].age, content.namespaces[i].age)

(* An operation that was accepted is answered, or the process ends; a      *)
(* subscription is once its client has left.                               *)
OperationsAreAnswered ==
    \A r \in Requests :
        op[r] # <<>> /\ (gone[r] \/ op[r][1] \notin SubscriptionFields)
            ~> sent[r] # "none" \/ main = "exited"

(* A signal ends the process, whenever it comes (main.go:143).             *)
ShutdownEnds == signalled ~> main = "exited"

(* Refuted by a run: after a graceful shutdown every mutation that changed *)
(* the cluster is in the audit trail (README.md:88), as far as the         *)
(* database took the rows it was given.                                    *)
EffectsAreAudited ==
    main = "exited" /\ ShutdownBegun =>
        \A s \in Slots : slot[s].effect => slot[s].lost \/ slot[s].row # NoRow

(* Refuted by a run: a query for a pod that does not exist is answered     *)
(* NOT_FOUND (graph/graphql_integration_test.go:868).                      *)
MissingPodIsNotFound ==
    \A s \in Slots :
        slot[s].field = "pod" /\ slot[s].why = "NotFound" => slot[s].code = "NOT_FOUND"
=============================================================================
