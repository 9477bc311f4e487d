------------------------------ MODULE MCArchive ------------------------------
(* Imports whose cases bind the same content x, so that they meet on one     *)
(* object of the store.                                                      *)
EXTENDS Archive

CONSTANTS x

MCBound == [m \in Imports |-> [k \in 1..Refs |-> x]]

=============================================================================
