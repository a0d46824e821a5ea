--------------------------- MODULE AbstractScale ---------------------------
(***************************************************************************)
(* What scaleDeployment and scaleStatefulSet promise to the caller: every  *)
(* request is decided in one instant.  It either replaces the replica      *)
(* count that is there at that instant and answers with exactly that       *)
(* count, or finds nothing to do, or answers that it failed.  A failure    *)
(* answer alone does not say whether the change was made (the reply of the *)
(* API server may have been lost).                                         *)
(***************************************************************************)
EXTENDS Naturals, Integers

CONSTANTS
    Requests, Kinds,
    MaxReplicas,    \* the largest count a request may ask for
    Counts          \* every count a workload may have

VARIABLES
    spec,       \* spec[k]: replicas of the workload of kind k, -1 if absent
    outcome     \* outcome[r]: how request r was decided

vars == <<spec, outcome>>

Absent == -1
Replicas == 0..MaxReplicas
Pending == [status |-> "pending", prev |-> 0, new |-> 0]
Outcomes == [status : {"pending", "invalid", "notfound", "nochange", "scaled", "failed"},
             prev : Counts, new : Replicas]

Init ==
    /\ spec \in [Kinds -> Counts \cup {Absent}]
    /\ outcome = [r \in Requests |-> Pending]

Decide(r, o) ==
    /\ outcome[r] = Pending
    /\ outcome' = [outcome EXCEPT ![r] = o]

(* The request replaces the present count and says which one it replaced.  *)
Scale(r, k, n) ==
    /\ spec[k] \in Counts \ {n}
    /\ Decide(r, [status |-> "scaled", prev |-> spec[k], new |-> n])
    /\ spec' = [spec EXCEPT ![k] = n]

(* The count is already the requested one.                                 *)
NoChange(r, k, n) ==
    /\ spec[k] = n
    /\ Decide(r, [status |-> "nochange", prev |-> n, new |-> n])
    /\ UNCHANGED spec

(* The request answers with an error and changes nothing.                  *)
Refuse(r, s) ==
    /\ Decide(r, [Pending EXCEPT !.status = s])
    /\ UNCHANGED spec

(* The request answers with an error although the change was made.         *)
FailAfterChange(r, k, n) ==
    /\ spec[k] \in Counts \ {n}
    /\ Decide(r, [Pending EXCEPT !.status = "failed"])
    /\ spec' = [spec EXCEPT ![k] = n]

(* Somebody else changes, deletes or creates the workload.                 *)
Others(k) ==
    /\ spec' \in {[spec EXCEPT ![k] = n] : n \in Counts \cup {Absent}}
    /\ UNCHANGED outcome

Next ==
    \/ \E r \in Requests, k \in Kinds, n \in Replicas :
          Scale(r, k, n) \/ NoChange(r, k, n) \/ FailAfterChange(r, k, n)
    \/ \E r \in Requests, s \in {"invalid", "notfound", "failed"} : Refuse(r, s)
    \/ \E k \in Kinds : Others(k)

Spec == Init /\ [][Next]_vars
=============================================================================
