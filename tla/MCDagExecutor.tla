--------------------------- MODULE MCDagExecutor ---------------------------
(* Small instances of DagExecutor: every DAG over ranked nodes.            *)
EXTENDS DagExecutor

Three == 1 .. 3
Four  == 1 .. 4
Two   == {1, 2}
One   == {1}
Second == {2}
NoneOf == {}

Ranked(k) == {e \in (1 .. k) \X (1 .. k) : e[1] < e[2]}

AllDags3 == SUBSET Ranked(3)
AllDags4 == SUBSET Ranked(4)

\* A chain of two.
Chain == {{<<1, 2>>}}
=============================================================================
