----------------------------- MODULE MCGateway ------------------------------
(* The gateway with a few connections, for TLC. *)
EXTENDS Gateway, TLC

\* Connections, users and temporary ids are interchangeable.
Symmetry == Permutations(Client) \cup Permutations(UID) \cup Permutations(TempID)
=============================================================================
