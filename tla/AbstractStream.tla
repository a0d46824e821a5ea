--------------------------- MODULE AbstractStream ---------------------------
(***************************************************************************)
(* What a subscription promises its client, with one queue in the place of *)
(* two goroutines and two channels.  The client is sent what the service   *)
(* took from the cluster, one item at a time, in the order of the cluster, *)
(* with nothing left out in between.  It lags behind by at most two full   *)
(* channels and the two items in hand.  It is told of the end once, and    *)
(* sent nothing afterwards.  If it did not cancel, the end costs it at     *)
(* most what one channel and the converter held.                           *)
(***************************************************************************)
EXTENDS Naturals, Sequences

CONSTANTS
    Item,       \* what the service makes of the objects of the cluster
    Cap         \* capacity of each channel

VARIABLES
    phase,      \* "requested", "rejected", "running", "ended"
    cancelled,  \* the context is done
    closed,     \* the service call has returned, nothing more is taken
    taken,      \* the items the service took, oldest first
    delivered,  \* those the client was sent
    dead        \* the process died

vars == <<phase, cancelled, closed, taken, delivered, dead>>

Init ==
    /\ phase = "requested"
    /\ cancelled = FALSE /\ closed = FALSE
    /\ taken = <<>> /\ delivered = <<>>
    /\ dead = FALSE

(* The subscription is refused, or starts.                                 *)
Answer(p) ==
    /\ phase = "requested"
    /\ phase' = p
    /\ UNCHANGED <<cancelled, closed, taken, delivered, dead>>

Take(x) ==
    /\ phase \in {"running", "ended"} /\ ~closed
    /\ Len(taken) < Len(delivered) + 2 * Cap + 2
    /\ taken' = Append(taken, x)
    /\ UNCHANGED <<phase, cancelled, closed, delivered, dead>>

(* The oldest item the client has not been sent.                           *)
Deliver ==
    /\ phase = "running"
    /\ Len(delivered) < Len(taken)
    /\ delivered' = Append(delivered, taken[Len(delivered) + 1])
    /\ UNCHANGED <<phase, cancelled, closed, taken, dead>>

Cancel ==
    /\ phase # "rejected" /\ ~cancelled
    /\ cancelled' = TRUE
    /\ UNCHANGED <<phase, closed, taken, delivered, dead>>

Close ==
    /\ phase \in {"running", "ended"} /\ ~closed
    /\ closed' = TRUE
    /\ UNCHANGED <<phase, cancelled, taken, delivered, dead>>

End ==
    /\ phase = "running"
    /\ cancelled \/ (closed /\ Len(taken) <= Len(delivered) + Cap + 1)
    /\ phase' = "ended"
    /\ cancelled' = TRUE
    /\ UNCHANGED <<closed, taken, delivered, dead>>

(* The process dies: only over a subscription that is at its end.          *)
Die ==
    /\ cancelled \/ closed
    /\ dead' = TRUE
    /\ UNCHANGED <<phase, cancelled, closed, taken, delivered>>

Next ==
    /\ ~dead
    /\ \/ \E p \in {"rejected", "running"} : Answer(p)
       \/ \E x \in Item : Take(x)
       \/ Deliver
       \/ Cancel
       \/ Close
       \/ End
       \/ Die

Spec == Init /\ [][Next]_vars
=============================================================================
