--------------------------- MODULE MCBlueSelection ---------------------------
(***************************************************************************)
(* BlueSelection on small instances, and what its doc comment says of the  *)
(* proactive selection that the code does not do.                          *)
(***************************************************************************)
EXTENDS BlueSelection

\* Departments and earlier scores of at most four communes: two departments,
\* one with two communes, a commune without one, rising and falling indices.
SomeDepartments ==
  [c \in Communes |-> IF c = 2 THEN None ELSE IF c = 4 THEN 72 ELSE 71]
SomePrevious == [c \in Communes |-> IF c = 3 THEN 2 ELSE IF c = 1 THEN 1 ELSE 0]

\* crates/store/src/blue.rs:626: the call ensures a diversified proactive
\* selection for a bulletin.  Stated of every bulletin with an alert.
SelectionEnsured == Candidates # {} => <>(Selection \subseteq cases)
=============================================================================
