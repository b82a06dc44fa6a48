------------------------------- MODULE MCTools --------------------------------
(***************************************************************************)
(* TLC instance of Tools: two managers and an operator over two units.     *)
(***************************************************************************)
EXTENDS Tools, TLC

CONSTANTS m1, m2, o1

People == {m1, m2, o1}
Roles == [u \in People |-> IF u = o1 THEN "operator" ELSE "manager"]

\* The managers are interchangeable.
Managers == Permutations({m1, m2})
===============================================================================
