----------------------------- MODULE MCRestart -----------------------------
(***************************************************************************)
(* Restart on a pod of every kind of owner, with and without a parent, on  *)
(* unowned pods of every label, and on static ones of every label.         *)
(***************************************************************************)
EXTENDS Restart

Shape(o, p, l, s) == [owner |-> o, parent |-> p, label |-> l, static |-> s]

MCShapes ==
    {Shape(o, FALSE, "none", o = "Node") : o \in OwnerKinds \ {"none"}}
        \cup {Shape("ReplicaSet", TRUE, "Tool", FALSE), Shape("Job", TRUE, "job", FALSE)}
        \cup {Shape("none", FALSE, l, static) : l \in Labels, static \in BOOLEAN}
=============================================================================
