---------------------------- MODULE RestartProofs ----------------------------
(***************************************************************************)
(* Proofs about module Restart, for any number of requests, any shapes of  *)
(* pods and any number of pods that bear the name: its type and its safety *)
(* properties.                                                             *)
(***************************************************************************)
EXTENDS Restart, TLAPS

(* The owners of a pod that nobody is known to recreate.                   *)
Nobody == {"none", "Standalone"}

(* What the place of a request says of its data: it has done nothing and   *)
(* answered nothing before its call, and a restart arrives there only with *)
(* a type found for the pod it examined, one that can be restarted.        *)
Control(r) ==
    /\ pc[r] \in {"resolve", "get", "detect", "execute"} =>
          res[r] = NoResponse /\ deleted[r] = {} /\ ~rolled[r]
    /\ pc[r] = "detect" => examined[r] # NoPod
    /\ pc[r] = "execute" /\ op[r] = "restart" =>
          /\ examined[r] # NoPod
          /\ ~NotRestartable(examined[r].shape)
          /\ GetRestartMethod(type[r]) = "warning" => examined[r].shape.owner \in Nobody

(* The safety properties that speak of one request, with its control.      *)
Good(r) ==
    /\ Control(r)
    /\ op[r] = "restart" /\ examined[r] # NoPod /\ NotRestartable(examined[r].shape)
          => deleted[r] = {} /\ ~rolled[r]
    /\ res[r].status = "ok" =>
          IF res[r].method = "rollout"
          THEN rolled[r] /\ deleted[r] = {}
          ELSE /\ ~rolled[r]
               /\ \E p \in Pods :
                     deleted[r] = {p} /\ (p = examined[r] \/ p.uid > examined[r].uid)
    /\ res[r].status \notin {"ok", "failed"} => deleted[r] = {} /\ ~rolled[r]
    /\ res[r].warning => examined[r] # NoPod /\ examined[r].shape.owner \in Nobody

(* Uids are given once, in order: the pod of now has the last one, and a   *)
(* pod that was examined is the pod of now or an earlier one.              *)
UidsGrow ==
    /\ pod # NoPod => pod.uid = uids
    /\ \A r \in Requests :
          /\ examined[r].uid <= uids
          /\ pod # NoPod /\ examined[r].uid = uids => examined[r] = pod

Inv == TypeOK /\ UidsGrow /\ \A r \in Requests : Good(r)

-----------------------------------------------------------------------------
(* What the detector and the strategy say together.                        *)
LEMMA DetectFacts ==
  ASSUME NEW s \in AllShapes, NEW lookupOK \in BOOLEAN
  PROVE  LET t == DetectController(s, lookupOK) IN
         /\ t \in ControllerTypes
         /\ CanRestart(t) => ~NotRestartable(s)
         /\ CanRestart(t) /\ GetRestartMethod(t) = "warning" => s.owner \in Nobody
  <1>1. s.owner \in OwnerKinds /\ s.parent \in BOOLEAN /\ s.label \in Labels /\ s.static \in BOOLEAN
    BY DEF AllShapes
  <1>. QED
    BY <1>1 DEF DetectController, DetectFromLabels, LookupParent, IsNodeManagedPod, CanRestart,
       GetRestartMethod, ControllerTypes, OwnerKinds, Labels, ManagedBy, Restartable,
       NotRestartable, Nobody

(* Pods have a shape and a uid; the absent pod has uid 0.                  *)
LEMMA PodFacts ==
  /\ NoPod \notin Pods
  /\ \A p \in Pods : p.shape \in AllShapes /\ p.uid \in 1..MaxUid
  /\ NoPod.uid = 0
  BY ShapesAssumption, MaxUidAssumption DEF Pods, NoPod

(* Uids are numbers.                                                       *)
LEMMA UidFacts ==
  ASSUME TypeOK
  PROVE  /\ uids \in Nat /\ pod.uid \in Nat
         /\ \A r \in Requests : examined[r].uid \in Nat
  <1>0. 1..MaxUid \subseteq Nat
    BY MaxUidAssumption
  <1>1. uids \in Nat
    <2>1. uids \in 1..MaxUid
      BY DEF TypeOK
    <2>. QED BY <1>0, <2>1
  <1>2. \A p \in Pods : p.uid \in Nat
    BY <1>0, PodFacts
  <1>3. pod.uid \in Nat
    <2>1. pod \in Pods \/ pod = NoPod
      BY DEF TypeOK
    <2>. QED BY <1>2, <2>1, PodFacts
  <1>4. ASSUME NEW r \in Requests PROVE examined[r].uid \in Nat
    <2>1. examined[r] \in Pods \/ examined[r] = NoPod
      BY DEF TypeOK
    <2>. QED BY <1>2, <2>1, PodFacts
  <1>. QED BY <1>1, <1>2, <1>3, <1>4

(* A failure differs from the empty response in its status.                *)
LEMMA ResponseFacts ==
  /\ NoResponse \in Responses
  /\ NoResponse.status = "pending" /\ NoResponse.method = "none" /\ ~NoResponse.warning
  /\ \A s \in Statuses : [NoResponse EXCEPT !.status = s] \in Responses
  /\ \A s \in Statuses : LET f == [NoResponse EXCEPT !.status = s]
                         IN  f.status = s /\ ~f.warning
  BY DEF NoResponse, Responses, Statuses, Methods

(* The responses of a success: their method and warning.                   *)
LEMMA SuccessFacts ==
  /\ \A t \in ControllerTypes \cup {""} :
       /\ ToResponse(t) \in Responses
       /\ ToResponse(t).status = "ok"
       /\ ToResponse(t).method = GetRestartMethod(t)
       /\ ToResponse(t).warning = (GetRestartMethod(t) = "warning")
  /\ LET d == [NoResponse EXCEPT !.status = "ok", !.method = "delete"]
     IN  d \in Responses /\ d.status = "ok" /\ d.method = "delete" /\ ~d.warning
  BY DEF ToResponse, GetRestartMethod, Responses, NoResponse, Statuses, Methods,
     ControllerTypes, AdapterKeys

(* What an API call that is carried out does.                              *)
LEMMA ActFacts ==
  ASSUME TypeOK, NEW r \in Requests, Act(r), deleted[r] = {}, ~rolled[r]
  PROVE  /\ pod' \in Pods \cup {NoPod} /\ uids' = uids
         /\ deleted' \in [Requests -> SUBSET Pods] /\ rolled' \in [Requests -> BOOLEAN]
         /\ \A q \in Requests : q # r => deleted'[q] = deleted[q] /\ rolled'[q] = rolled[q]
         /\ \/ Rollout(r) /\ rolled'[r] /\ deleted'[r] = {} /\ pod' = pod
            \/ /\ ~Rollout(r) /\ ~rolled'[r] /\ pod' \in {pod, NoPod}
               /\ pod \in Pods /\ deleted'[r] = {pod}
  <1>1. CASE PatchController(r)
    BY <1>1 DEF TypeOK, PatchController
  <1>2. CASE DeleteByName(r)
    BY <1>2 DEF TypeOK, DeleteByName
  <1>. QED BY <1>1, <1>2 DEF Act

-----------------------------------------------------------------------------
(* The invariant holds before the first request.                           *)
LEMMA InitInv == Init => Inv
  <1>. SUFFICES ASSUME Init PROVE Inv
    OBVIOUS
  <1>1. pod \in Pods /\ pod.uid = 1 /\ uids = 1 /\ uids \in 1..MaxUid
    <2>1. pod \in [uid : {1}, shape : Shapes] /\ uids = 1
      BY DEF Init
    <2>2. 1 \in 1..MaxUid
      BY MaxUidAssumption
    <2>. QED BY <2>1, <2>2 DEF Pods
  <1>2. TypeOK
    <2>1. /\ op \in [Requests -> {"restart", "delete"}]
          /\ pod \in Pods \cup {NoPod} /\ uids \in 1..MaxUid
      BY <1>1 DEF Init
    <2>2. pc \in [Requests -> {"resolve", "get", "detect", "execute", "log", "answered"}]
      BY DEF Init
    <2>3. /\ examined \in [Requests -> Pods \cup {NoPod}]
          /\ type \in [Requests -> ControllerTypes \cup {""}]
      BY Zenon DEF Init
    <2>4. res \in [Requests -> Responses]
      BY ResponseFacts, Zenon DEF Init
    <2>5. row \in [Requests -> {"none", "success", "failure", "lost"}]
      BY DEF Init
    <2>6. deleted \in [Requests -> SUBSET Pods] /\ rolled \in [Requests -> BOOLEAN]
      BY DEF Init
    <2>. QED BY <2>1, <2>2, <2>3, <2>4, <2>5, <2>6 DEF TypeOK
  <1>3. UidsGrow
    <2>1. \A r \in Requests : examined[r] = NoPod
      BY Zenon DEF Init
    <2>. QED BY <1>1, <2>1, PodFacts DEF UidsGrow
  <1>4. ASSUME NEW r \in Requests PROVE Good(r)
    <2>1. pc[r] = "resolve" /\ res[r] = NoResponse /\ deleted[r] = {}
      BY Zenon DEF Init
    <2>2. rolled[r] = FALSE
      BY DEF Init
    <2>. QED BY <2>1, <2>2, ResponseFacts DEF Good, Control
  <1>. QED BY <1>2, <1>3, <1>4 DEF Inv

-----------------------------------------------------------------------------
(* A step of r leaves every other request as it was.                       *)
Others(r) ==
    \A q \in Requests : q # r =>
        /\ op'[q] = op[q] /\ pc'[q] = pc[q] /\ examined'[q] = examined[q]
        /\ type'[q] = type[q] /\ res'[q] = res[q]
        /\ deleted'[q] = deleted[q] /\ rolled'[q] = rolled[q]

(* A step of one request leaves what is said of the others alone.          *)
LEMMA OthersStayGood ==
  ASSUME NEW r \in Requests, Others(r), \A q \in Requests : Good(q), Good(r)'
  PROVE  (\A q \in Requests : Good(q))'
  <1>1. ASSUME NEW q \in Requests, q # r PROVE Good(q)'
    <2>1. /\ op'[q] = op[q] /\ pc'[q] = pc[q] /\ examined'[q] = examined[q]
          /\ type'[q] = type[q] /\ res'[q] = res[q]
          /\ deleted'[q] = deleted[q] /\ rolled'[q] = rolled[q]
      BY <1>1 DEF Others
    <2>2. Good(q)
      OBVIOUS
    <2>. QED BY <2>1, <2>2 DEF Good, Control
  <1>. QED BY <1>1

(* The steps that touch neither the cluster nor its history.               *)
Quiet(r) ==
    \/ RejectInput(r) \/ AcceptInput(r) \/ LogMutation(r)
    \/ GetFails(r) \/ GetPod(r) \/ Detect(r) \/ ExecuteFails(r)

(* What the detector decides, and where the restart goes then.             *)
LEMMA DetectOutcome ==
  ASSUME TypeOK, NEW r \in Requests, Detect(r), examined[r] # NoPod
  PROVE  /\ pc[r] = "detect" /\ UNCHANGED <<op, examined, row, pod, uids, history>>
         /\ \E t \in ControllerTypes :
              /\ type' = [type EXCEPT ![r] = t]
              /\ \/ /\ pc' = [pc EXCEPT ![r] = "execute"] /\ res' = res
                    /\ ~NotRestartable(examined[r].shape)
                    /\ GetRestartMethod(t) = "warning" => examined[r].shape.owner \in Nobody
                 \/ /\ pc' = [pc EXCEPT ![r] = "log"]
                    /\ res' = [res EXCEPT ![r] = [NoResponse EXCEPT !.status = "conflict"]]
  <1>1. examined[r].shape \in AllShapes
    BY PodFacts DEF TypeOK
  <1>2. PICK lookupOK \in BOOLEAN :
           LET t == DetectController(examined[r].shape, lookupOK) IN
           /\ type' = [type EXCEPT ![r] = t]
           /\ IF CanRestart(t)
              THEN Goto(r, "execute") /\ UNCHANGED res
              ELSE Fail(r, "conflict")
    BY DEF Detect
  <1>3. PICK t : t = DetectController(examined[r].shape, lookupOK)
    OBVIOUS
  <1>4. /\ t \in ControllerTypes
        /\ CanRestart(t) => ~NotRestartable(examined[r].shape)
        /\ CanRestart(t) /\ GetRestartMethod(t) = "warning" => examined[r].shape.owner \in Nobody
    BY <1>1, <1>3, DetectFacts
  <1>. QED BY <1>2, <1>3, <1>4 DEF Detect, Goto, Fail, Conclude

(* The steps that do not act on the cluster keep the types.                *)
LEMMA QuietType == ASSUME Inv, NEW r \in Requests, Quiet(r) PROVE TypeOK'
  <1>. USE ResponseFacts DEF Goto, Conclude, Fail, history, request
  <1>0. TypeOK /\ Good(r)
    BY DEF Inv
  <1>1. CASE RejectInput(r)
    BY <1>0, <1>1 DEF TypeOK, RejectInput, Statuses
  <1>2. CASE AcceptInput(r)
    BY <1>0, <1>2 DEF TypeOK, AcceptInput
  <1>3. CASE LogMutation(r)
    BY <1>0, <1>3 DEF TypeOK, LogMutation
  <1>4. CASE GetFails(r)
    BY <1>0, <1>4 DEF TypeOK, GetFails, Statuses
  <1>5. CASE GetPod(r)
    BY <1>0, <1>5 DEF TypeOK, GetPod
  <1>6. CASE Detect(r)
    <2>1. examined[r] # NoPod
      BY <1>0, <1>6 DEF Good, Control, Detect
    <2>2. PICK t \in ControllerTypes :
             /\ type' = [type EXCEPT ![r] = t]
             /\ \/ pc' = [pc EXCEPT ![r] = "execute"] /\ res' = res
                \/ /\ pc' = [pc EXCEPT ![r] = "log"]
                   /\ res' = [res EXCEPT ![r] = [NoResponse EXCEPT !.status = "conflict"]]
      BY <1>0, <1>6, <2>1, DetectOutcome
    <2>3. UNCHANGED <<op, examined, row, pod, uids, deleted, rolled>>
      BY <1>6 DEF Detect
    <2>4. [NoResponse EXCEPT !.status = "conflict"] \in Responses
      BY DEF Statuses
    <2>. QED BY <1>0, <2>2, <2>3, <2>4 DEF TypeOK
  <1>7. CASE ExecuteFails(r)
    BY <1>0, <1>7 DEF TypeOK, ExecuteFails, Statuses
  <1>. QED BY <1>1, <1>2, <1>3, <1>4, <1>5, <1>6, <1>7 DEF Quiet

(* And they keep what is said of their request.                            *)
LEMMA QuietStep ==
  ASSUME Inv, NEW r \in Requests, Quiet(r)
  PROVE  Others(r) /\ Good(r)' /\ UNCHANGED <<pod, uids, deleted, rolled>>
  <1>. USE DEF Goto, Conclude, Fail, history, request
  <1>0. TypeOK /\ Good(r)
    BY DEF Inv
  <1>1. CASE RejectInput(r)
    BY <1>0, <1>1, ResponseFacts DEF TypeOK, RejectInput, Statuses, Others, Good, Control
  <1>2. CASE AcceptInput(r)
    BY <1>0, <1>2 DEF TypeOK, AcceptInput, Others, Good, Control
  <1>3. CASE LogMutation(r)
    BY <1>0, <1>3 DEF TypeOK, LogMutation, Others, Good, Control
  <1>4. CASE GetFails(r)
    BY <1>0, <1>4, ResponseFacts DEF TypeOK, GetFails, Statuses, Others, Good, Control
  <1>5. CASE GetPod(r)
    <2>1. /\ pc[r] = "get" /\ pod # NoPod /\ pc' = [pc EXCEPT ![r] = "detect"]
          /\ examined' = [examined EXCEPT ![r] = pod]
          /\ UNCHANGED <<op, type, res, row, pod, uids, deleted, rolled>>
      BY <1>5 DEF GetPod
    <2>2. Others(r)
      BY <1>0, <2>1 DEF TypeOK, Others
    <2>3. Good(r)'
      BY <1>0, <2>1, ResponseFacts DEF TypeOK, Good, Control
    <2>. QED BY <2>1, <2>2, <2>3
  <1>6. CASE Detect(r)
    <2>1. pc[r] = "detect" /\ examined[r] # NoPod
      BY <1>0, <1>6 DEF Good, Control, Detect
    <2>2. PICK t \in ControllerTypes :
             /\ type' = [type EXCEPT ![r] = t]
             /\ \/ /\ pc' = [pc EXCEPT ![r] = "execute"] /\ res' = res
                   /\ ~NotRestartable(examined[r].shape)
                   /\ GetRestartMethod(t) = "warning" => examined[r].shape.owner \in Nobody
                \/ /\ pc' = [pc EXCEPT ![r] = "log"]
                   /\ res' = [res EXCEPT ![r] = [NoResponse EXCEPT !.status = "conflict"]]
      BY <1>0, <1>6, <2>1, DetectOutcome
    <2>3. UNCHANGED <<op, examined, row, pod, uids, deleted, rolled>>
      BY <1>6 DEF Detect
    <2>4. Others(r)
      BY <1>0, <2>2, <2>3 DEF TypeOK, Others
    <2>5. Good(r)'
      BY <1>0, <2>1, <2>2, <2>3, ResponseFacts DEF TypeOK, Statuses, Good, Control
    <2>. QED BY <2>3, <2>4, <2>5
  <1>7. CASE ExecuteFails(r)
    BY <1>0, <1>7, ResponseFacts DEF TypeOK, ExecuteFails, Statuses, Others, Good, Control
  <1>. QED BY <1>1, <1>2, <1>3, <1>4, <1>5, <1>6, <1>7 DEF Quiet

(* A pod that is examined is the one that bears the name, the last so far. *)
LEMMA QuietUids == ASSUME Inv, NEW r \in Requests, Quiet(r) PROVE UidsGrow'
  <1>0. TypeOK /\ UidsGrow /\ UNCHANGED <<pod, uids>>
    BY QuietStep DEF Inv
  <1>1. CASE GetPod(r)
    <2>1. pod # NoPod /\ examined' = [examined EXCEPT ![r] = pod]
      BY <1>1 DEF GetPod
    <2>2. /\ examined'[r] = pod
          /\ \A q \in Requests : q # r => examined'[q] = examined[q]
      BY <1>0, <2>1 DEF TypeOK
    <2>3. pod.uid = uids /\ uids \in Nat
      BY <1>0, <2>1, UidFacts DEF UidsGrow
    <2>. QED BY <1>0, <2>1, <2>2, <2>3 DEF UidsGrow
  <1>2. CASE ~GetPod(r)
    <2>1. examined' = examined
      BY <1>2 DEF Quiet, RejectInput, AcceptInput, LogMutation, GetFails, Detect, ExecuteFails
    <2>. QED BY <1>0, <2>1 DEF UidsGrow
  <1>. QED BY <1>1, <1>2

-----------------------------------------------------------------------------
(* The steps that act on the cluster.                                      *)
Effective(r) == ExecuteSucceeds(r) \/ ExecuteReplyLost(r)

(* What the steps that act on the cluster do and answer.                   *)
LEMMA EffectiveOutcome ==
  ASSUME Inv, NEW r \in Requests, Effective(r)
  PROVE  /\ pc[r] = "execute" /\ Act(r) /\ deleted[r] = {} /\ ~rolled[r]
         /\ pc' = [pc EXCEPT ![r] = "log"]
         /\ UNCHANGED <<op, examined, type, row>>
         /\ \E m \in Responses :
              /\ res' = [res EXCEPT ![r] = m]
              /\ m.status \in {"ok", "failed"}
              /\ m.status = "ok" => (m.method = "rollout" <=> Rollout(r))
              /\ m.warning => op[r] = "restart" /\ GetRestartMethod(type[r]) = "warning"
  <1>0. TypeOK /\ Good(r)
    BY DEF Inv
  <1>1. pc[r] = "execute" /\ Act(r) /\ UNCHANGED <<op, examined, type, row>>
    BY DEF Effective, ExecuteSucceeds, ExecuteReplyLost
  <1>2. deleted[r] = {} /\ ~rolled[r]
    BY <1>0, <1>1 DEF Good, Control
  <1>3. type[r] \in ControllerTypes \cup {""} /\ op[r] \in {"restart", "delete"}
    BY <1>0 DEF TypeOK
  <1>4. CASE ExecuteSucceeds(r) /\ op[r] = "restart"
    <2>1. /\ pc' = [pc EXCEPT ![r] = "log"]
          /\ res' = [res EXCEPT ![r] = ToResponse(type[r])]
      BY <1>4 DEF ExecuteSucceeds, Conclude, Goto
    <2>. QED BY <1>1, <1>2, <1>3, <1>4, <2>1, SuccessFacts DEF Rollout
  <1>5. CASE ExecuteSucceeds(r) /\ op[r] # "restart"
    <2>1. /\ pc' = [pc EXCEPT ![r] = "log"]
          /\ res' = [res EXCEPT ![r] = [NoResponse EXCEPT !.status = "ok", !.method = "delete"]]
      BY <1>5 DEF ExecuteSucceeds, Conclude, Goto
    <2>. QED BY <1>1, <1>2, <1>3, <1>5, <2>1, SuccessFacts DEF Rollout
  <1>6. CASE ExecuteReplyLost(r)
    <2>1. /\ pc' = [pc EXCEPT ![r] = "log"]
          /\ res' = [res EXCEPT ![r] = [NoResponse EXCEPT !.status = "failed"]]
      BY <1>6 DEF ExecuteReplyLost, Fail, Conclude, Goto
    <2>2. "failed" \in Statuses
      BY DEF Statuses
    <2>. QED BY <1>1, <1>2, <2>1, <2>2, ResponseFacts
  <1>. QED BY <1>4, <1>5, <1>6 DEF Effective

(* And they keep the invariant.                                            *)
LEMMA EffectiveStep ==
  ASSUME Inv, NEW r \in Requests, Effective(r) PROVE Inv'
  <1>0. TypeOK /\ UidsGrow /\ Good(r) /\ \A q \in Requests : Good(q)
    BY DEF Inv
  <1>1. /\ pc[r] = "execute" /\ Act(r) /\ deleted[r] = {} /\ ~rolled[r]
        /\ pc' = [pc EXCEPT ![r] = "log"]
        /\ UNCHANGED <<op, examined, type, row>>
    BY EffectiveOutcome
  <1>2. PICK m \in Responses :
           /\ res' = [res EXCEPT ![r] = m]
           /\ m.status \in {"ok", "failed"}
           /\ m.status = "ok" => (m.method = "rollout" <=> Rollout(r))
           /\ m.warning => op[r] = "restart" /\ GetRestartMethod(type[r]) = "warning"
    BY EffectiveOutcome
  <1>3. /\ pod' \in Pods \cup {NoPod} /\ uids' = uids
        /\ deleted' \in [Requests -> SUBSET Pods] /\ rolled' \in [Requests -> BOOLEAN]
        /\ \A q \in Requests : q # r => deleted'[q] = deleted[q] /\ rolled'[q] = rolled[q]
        /\ \/ Rollout(r) /\ rolled'[r] /\ deleted'[r] = {} /\ pod' = pod
           \/ /\ ~Rollout(r) /\ ~rolled'[r] /\ pod' \in {pod, NoPod}
              /\ pod \in Pods /\ deleted'[r] = {pod}
    BY <1>0, <1>1, ActFacts
  <1>4. TypeOK'
    BY <1>0, <1>1, <1>2, <1>3 DEF TypeOK
  <1>5. UidsGrow'
    <2>1. pod' \in {pod, NoPod}
      BY <1>3
    <2>. QED BY <1>0, <1>1, <1>3, <2>1 DEF UidsGrow
  <1>6. pod \in Pods => pod = examined[r] \/ pod.uid > examined[r].uid
    <2>1. SUFFICES ASSUME pod \in Pods PROVE pod = examined[r] \/ pod.uid > examined[r].uid
      OBVIOUS
    <2>2. pod.uid = uids /\ examined[r].uid <= uids /\ (examined[r].uid = uids => examined[r] = pod)
      BY <1>0, <2>1, PodFacts DEF UidsGrow
    <2>. QED BY <1>0, <2>2, UidFacts
  <1>7. Others(r)
    BY <1>0, <1>1, <1>2, <1>3 DEF TypeOK, Others
  <1>8. Good(r)'
    BY <1>0, <1>1, <1>2, <1>3, <1>6 DEF TypeOK, Good, Control
  <1>. QED BY <1>0, <1>4, <1>5, <1>7, <1>8, OthersStayGood DEF Inv

-----------------------------------------------------------------------------
(* Pods that come and go by themselves disturb nothing.                    *)
LEMMA ClusterStep == ASSUME Inv, PodGoes \/ PodComes PROVE Inv'
  <1>0. TypeOK /\ UidsGrow /\ \A q \in Requests : Good(q)
    BY DEF Inv
  <1>1. UNCHANGED <<op, pc, examined, type, res, row, deleted, rolled>>
    BY DEF PodGoes, PodComes, request, history
  <1>2. (\A q \in Requests : Good(q))'
    BY <1>0, <1>1 DEF Good, Control
  <1>3. CASE PodGoes
    <2>1. pod' = NoPod /\ uids' = uids
      BY <1>3 DEF PodGoes
    <2>2. TypeOK'
      BY <1>0, <1>1, <2>1 DEF TypeOK
    <2>3. UidsGrow'
      BY <1>0, <1>1, <2>1 DEF UidsGrow
    <2>. QED BY <1>2, <2>2, <2>3 DEF Inv
  <1>4. CASE PodComes
    <2>1. /\ uids' = uids + 1 /\ uids' \in 1..MaxUid
          /\ pod' \in Pods /\ pod'.uid = uids + 1
      <3>1. uids' = uids + 1 /\ uids < MaxUid
        BY <1>4 DEF PodComes
      <3>2. uids' \in 1..MaxUid
        BY <1>0, <3>1, UidFacts, MaxUidAssumption
      <3>3. PICK s \in Shapes : pod' = [uid |-> uids + 1, shape |-> s]
        BY <1>4 DEF PodComes
      <3>. QED BY <3>1, <3>2, <3>3 DEF Pods
    <2>2. TypeOK'
      BY <1>0, <1>1, <2>1 DEF TypeOK
    <2>3. UidsGrow'
      BY <1>0, <1>1, <2>1, UidFacts DEF UidsGrow
    <2>. QED BY <1>2, <2>2, <2>3 DEF Inv
  <1>. QED BY <1>3, <1>4

(* The invariant holds in every reachable state.                           *)
LEMMA Invariance == Spec => []Inv
  <1>1. ASSUME Inv, [Next]_vars PROVE Inv'
    <2>1. ASSUME NEW r \in Requests, Quiet(r) PROVE Inv'
      <3>1. TypeOK'
        BY <1>1, <2>1, QuietType
      <3>2. Others(r) /\ Good(r)' /\ UNCHANGED <<pod, uids, deleted, rolled>>
        BY <1>1, <2>1, QuietStep
      <3>3. UidsGrow'
        BY <1>1, <2>1, QuietUids
      <3>. QED BY <1>1, <3>1, <3>2, <3>3, OthersStayGood DEF Inv
    <2>2. ASSUME NEW r \in Requests, Effective(r) PROVE Inv'
      BY <1>1, <2>2, EffectiveStep
    <2>3. CASE PodGoes \/ PodComes
      BY <1>1, <2>3, ClusterStep
    <2>4. CASE UNCHANGED vars
      BY <1>1, <2>4 DEF vars, request, history, Inv, TypeOK, UidsGrow, Good, Control
    <2>. QED
      BY <1>1, <2>1, <2>2, <2>3, <2>4
         DEF Next, Resolver, Orchestrator, Execute, Quiet, Effective
  <1>. QED BY InitInv, <1>1, PTL DEF Spec

-----------------------------------------------------------------------------
(* The requests, their answers and the cluster keep their types.           *)
THEOREM TypeCorrect == Spec => []TypeOK
  <1>1. Inv => TypeOK
    BY DEF Inv
  <1>. QED BY Invariance, <1>1, PTL

(* A pod that is found to be a Job's, a CronJob's, a node's, a tool's or an*)
(* unknown controller's survives every restart that examined it            *)
(* (controller.go:265, restart_orchestrator.go:47).                        *)
THEOREM UnsupportedSurvive == Spec => []UnsupportedPodsAreLeftAlone
  <1>1. Inv => UnsupportedPodsAreLeftAlone
    BY DEF Inv, Good, UnsupportedPodsAreLeftAlone
  <1>. QED BY Invariance, <1>1, PTL

(* Success means that the deletion of one pod was accepted, the examined   *)
(* one or a successor, or that a controller was patched and no pod deleted,*)
(* also when deletions are graceful and several requests have the same pod *)
(* deleted.                                                                *)
THEOREM SuccessIsExact == Spec => []SuccessMatchesEffect
  <1>1. Inv => SuccessMatchesEffect
    BY DEF Inv, Good, SuccessMatchesEffect
  <1>. QED BY Invariance, <1>1, PTL

(* Refused requests change nothing.                                        *)
THEOREM RefusalsChangeNothing == Spec => []RefusalChangesNothing
  <1>1. Inv => RefusalChangesNothing
    BY DEF Inv, Good, RefusalChangesNothing
  <1>. QED BY Invariance, <1>1, PTL

(* The warning is only about pods that nobody is known to recreate.        *)
THEOREM WarningsAreDue == Spec => []WarningOnlyWithoutController
  <1>1. Inv => WarningOnlyWithoutController
    BY DEF Inv, Good, WarningOnlyWithoutController, Nobody
  <1>. QED BY Invariance, <1>1, PTL
=============================================================================
