---------------------------- MODULE MCUserClient ----------------------------
(* A client with a sender and two callers of Exit, for TLC. *)
EXTENDS UserClient
=============================================================================
