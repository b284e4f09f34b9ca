------------------------------ MODULE Registry ------------------------------
(***************************************************************************)
(* What the gateway promises about the clients it manages                  *)
(* (pkg/gate/gateway.go): every connected client is known under exactly one*)
(* id at a time, no two clients share an id, and a client that has left is *)
(* never admitted again.                                                   *)
(***************************************************************************)
CONSTANTS Client,   \* connections
          UID,      \* ids of logged-in users
          TempID,   \* ids generated for anonymous connections
          NoID      \* a client that is not in the registry

ID == UID \cup TempID

VARIABLES where,    \* the id each client is known under
          joined    \* the clients that have been admitted so far

vars == <<where, joined>>

Free(i) == \A c \in Client : where[c] # i

Init == /\ where = [c \in Client |-> NoID]
        /\ joined = {}

\* A new connection is admitted under a temporary id.
Add(c) == /\ c \notin joined
          /\ \E t \in TempID : Free(t) /\ where' = [where EXCEPT ![c] = t]
          /\ joined' = joined \cup {c}

\* A client moves to an id nobody holds.
Rename(c) == /\ where[c] # NoID
             /\ \E i \in ID : Free(i) /\ where' = [where EXCEPT ![c] = i]
             /\ UNCHANGED joined

\* A client leaves.
Remove(c) == /\ where[c] # NoID
             /\ where' = [where EXCEPT ![c] = NoID]
             /\ UNCHANGED joined

Next == \E c \in Client : Add(c) \/ Rename(c) \/ Remove(c)

Spec == Init /\ [][Next]_vars
=============================================================================
