----------------------------- MODULE Leadership -----------------------------
(***************************************************************************)
(* What the scheduler wants from an election: pods believe and stop        *)
(* believing that they lead, and nobody starts while another still does.   *)
(***************************************************************************)
CONSTANT Pods

VARIABLE believers    \* pods whose isLeader() returns true

Init == believers = {}

Gain(p) == believers = {} /\ believers' = {p}

Lose(p) == p \in believers /\ believers' = believers \ {p}

Next == \E p \in Pods : Gain(p) \/ Lose(p)

Spec == Init /\ [][Next]_believers
=============================================================================
