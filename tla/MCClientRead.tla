---------------------------- MODULE MCClientRead ----------------------------
(* Instances of the incoming side of a client. *)
EXTENDS ClientRead
=============================================================================
