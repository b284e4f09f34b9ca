------------------------------ MODULE Gateway -------------------------------
(***************************************************************************)
(* The client registry of the gateway (pkg/gate/gateway.go), the           *)
(* authentication handshake that renames and displaces clients             *)
(* (pkg/gate/authenticator.go), and the way a client leaves the registry   *)
(* by itself (UserClient.Exit, pkg/gate/client_impl.go).                   *)
(*                                                                         *)
(* Impl.mu is held for the whole of AddClient, SetClientID, ExitClient and *)
(* EnqueueMessage, so each of them is one step.  What runs outside the     *)
(* lock is split where another goroutine can get in between: the three     *)
(* SetClientID calls of updateClient, and the test of the state, the store *)
(* of the state, the read of info.ID and the call of the manager in Exit.  *)
(*                                                                         *)
(* Per connection c there are two goroutines: HandleConnection (conn[c])   *)
(* and runRead (pc[c] with its locals seen, want and temp).  Ids are       *)
(* already normalised by ID.SetGateway.                                    *)
(***************************************************************************)
CONSTANTS
  Client,    \* connections
  UID,       \* ids a user can log in under
  TempID,    \* ids GenTempID can return (bounds the connections and the kicks)
  NoID,      \* the empty id ""
  NoClient,  \* an absent entry of the clients map
  Relogin,   \* whether a connection may authenticate more than once
  RpcRename  \* whether the RPC service is used to rename clients

ID == UID \cup TempID

ASSUME GatewayConstants ==
  /\ UID \cap TempID = {}
  /\ NoID \notin ID
  /\ NoClient \notin Client
  /\ Relogin \in BOOLEAN
  /\ RpcRename \in BOOLEAN

VARIABLES
  clients,    \* Impl.clients: id -> client
  id,         \* UserClient.info.ID
  state,      \* UserClient.state
  mgr,        \* UserClient.mgr # nil; becomes nil in the tail of Exit, which
              \* also closes closeReadCh
  cred,       \* user of UserClient.credentials, NoID when nil
  told,       \* clients a notice about a login (success or kick-out) was
              \* accepted for
  announced,  \* ids whose last presence event was internal.online
  used,       \* temporary ids handed out so far
  known,      \* temporary ids told to the peer by the hello message
  conn,       \* HandleConnection: where it is
  given,      \* HandleConnection local: the id from GenTempID
  pc,         \* runRead: where it is
  seen,       \* runRead local: the id read from info.ID (oldID, id)
  want,       \* runRead local: newID of updateClient
  temp        \* runRead local: tempID of updateClient

registry == <<clients, id, announced>>
handler  == <<conn, given>>
locals   == <<pc, seen, want, temp>>
vars == <<clients, id, state, mgr, cred, told, announced, used, known,
          conn, given, pc, seen, want, temp>>

ConnPC == {"new", "added", "running", "done"}
ReadPC == {"off", "loop", "readID", "setID", "kick", "notify", "retry",
           "success", "failure", "exitStore", "exitRead", "exitManager",
           "exitTail", "stopped"}

TypeOK ==
  /\ clients \in [ID -> Client \cup {NoClient}]
  /\ id \in [Client -> ID \cup {NoID}]
  /\ state \in [Client -> {"none", "running", "closed"}]
  /\ mgr \in [Client -> BOOLEAN]
  /\ cred \in [Client -> UID \cup {NoID}]
  /\ told \in SUBSET Client
  /\ announced \in SUBSET ID
  /\ used \in SUBSET TempID
  /\ known \in SUBSET TempID
  /\ conn \in [Client -> ConnPC]
  /\ given \in [Client -> TempID \cup {NoID}]
  /\ pc \in [Client -> ReadPC]
  /\ seen \in [Client -> ID \cup {NoID}]
  /\ want \in [Client -> UID \cup {NoID}]
  /\ temp \in [Client -> TempID \cup {NoID}]

Init ==
  /\ clients = [i \in ID |-> NoClient]
  /\ id = [c \in Client |-> NoID]
  /\ state = [c \in Client |-> "none"]
  /\ mgr = [c \in Client |-> TRUE]
  /\ cred = [c \in Client |-> NoID]
  /\ told = {}
  /\ announced = {}
  /\ used = {}
  /\ known = {}
  /\ conn = [c \in Client |-> "new"]
  /\ given = [c \in Client |-> NoID]
  /\ pc = [c \in Client |-> "off"]
  /\ seen = [c \in Client |-> NoID]
  /\ want = [c \in Client |-> NoID]
  /\ temp = [c \in Client |-> NoID]

-----------------------------------------------------------------------------
(* The sections under Impl.mu. *)

Registered(i) == i \in ID /\ clients[i] # NoClient

\* Variants of Rename: the info keeps the old id, the offline event is not raised.
RenameKeepingInfo(old, new) ==
  LET c == clients[old]
  IN /\ clients' = [clients EXCEPT ![old] = NoClient, ![new] = c]
     /\ announced' = (announced \ {id[c]}) \cup {new}
     /\ UNCHANGED id

RenameWithoutOffline(old, new) ==
  LET c == clients[old]
  IN /\ clients' = [clients EXCEPT ![old] = NoClient, ![new] = c]
     /\ id' = [id EXCEPT ![c] = new]
     /\ announced' = announced \cup {new}

\* SetClientID, the rename itself: both presence events are raised under the
\* lock, the offline one with the id found in the client's info.
Rename(old, new) ==
  LET c == clients[old]
  IN /\ clients' = [clients EXCEPT ![old] = NoClient, ![new] = c]
     /\ id' = [id EXCEPT ![c] = new]
     /\ announced' = (announced \ {id[c]}) \cup {new}

\* Variant of ExitClient: the nested Exit runs its tail for a closed client too.
ExitClientClosingTwice(i) ==
  IF ~Registered(i)
  THEN UNCHANGED <<clients, id, announced, state, mgr>>
  ELSE LET c == clients[i]
       IN /\ clients' = [clients EXCEPT ![i] = NoClient]
          /\ id' = [id EXCEPT ![c] = NoID]
          /\ announced' = announced \ {id[c]}
          /\ state' = [state EXCEPT ![c] = "closed"]
          /\ mgr' = [mgr EXCEPT ![c] = FALSE]

\* ExitClient(i).  The nested cli.Exit() finds info.ID empty, so it does not
\* call the manager again; it does nothing when the client is already closed.
ExitClient(i) ==
  IF ~Registered(i)
  THEN UNCHANGED <<clients, id, announced, state, mgr>>
  ELSE LET c == clients[i]
       IN /\ clients' = [clients EXCEPT ![i] = NoClient]
          /\ id' = [id EXCEPT ![c] = NoID]
          /\ announced' = announced \ {id[c]}
          /\ state' = [state EXCEPT ![c] = "closed"]
          /\ mgr' = [mgr EXCEPT ![c] = @ /\ state[c] = "closed"]

\* EnqueueMessage(i) of a notice about a login: refused when the client is
\* unknown or not running; otherwise handed to the pool, which may drop it.
EnqueueMessage(i) ==
  \/ /\ Registered(i)
     /\ state[clients[i]] = "running"
     /\ told' = told \cup {clients[i]}
  \/ UNCHANGED told

-----------------------------------------------------------------------------
(* HandleConnection. *)

\* Variant of AddClient: the peer is told its id before Run.
AddClientAfterHello(c) ==
  /\ conn[c] = "new"
  /\ \E t \in TempID \ used :
       /\ used' = used \cup {t}
       /\ known' = known \cup {t}
       /\ given' = [given EXCEPT ![c] = t]
       /\ id' = [id EXCEPT ![c] = t]
       /\ clients' = [clients EXCEPT ![t] = c]
       /\ announced' = announced \cup {t}
  /\ conn' = [conn EXCEPT ![c] = "added"]
  /\ UNCHANGED <<state, mgr, cred, told, locals>>

\* GenTempID, NewClientWithConfig, SetID and AddClient.
AddClient(c) ==
  /\ conn[c] = "new"
  /\ \E t \in TempID \ used :
       /\ used' = used \cup {t}
       /\ given' = [given EXCEPT ![c] = t]
       /\ id' = [id EXCEPT ![c] = t]
       /\ clients' = [clients EXCEPT ![t] = c]
       /\ announced' = announced \cup {t}
  /\ conn' = [conn EXCEPT ![c] = "added"]
  /\ UNCHANGED <<state, mgr, cred, told, known, locals>>

\* UserClient.Run: the state is set and runRead starts.
Run(c) ==
  /\ conn[c] = "added"
  /\ state' = [state EXCEPT ![c] = "running"]
  /\ pc' = [pc EXCEPT ![c] = "loop"]
  /\ conn' = [conn EXCEPT ![c] = "running"]
  /\ UNCHANGED <<registry, mgr, cred, told, used, known, given, seen, want, temp>>

\* The hello message tells the peer the temporary id the connection was given.
Hello(c) ==
  /\ conn[c] = "running"
  /\ conn' = [conn EXCEPT ![c] = "done"]
  /\ known' = IF state[c] = "closed" THEN known ELSE known \cup {given[c]}
  /\ given' = [given EXCEPT ![c] = NoID]
  /\ UNCHANGED <<registry, state, mgr, cred, told, used, locals>>

-----------------------------------------------------------------------------
(* runRead: authentication. *)

Goto(c, from, to) == pc[c] = from /\ pc' = [pc EXCEPT ![c] = to]

\* Variant of Authenticate: the credentials are not stored.
AuthenticateWithoutCredentials(c, u) ==
  /\ Goto(c, "loop", "readID")
  /\ id[c] # NoID
  /\ Relogin \/ cred[c] = NoID
  /\ want' = [want EXCEPT ![c] = u]
  /\ UNCHANGED <<registry, state, mgr, cred, told, used, known, handler, seen, temp>>

\* A valid credential for user u arrives; runRead has seen a non-empty id,
\* and updateClient stores the credentials before anything else.
Authenticate(c, u) ==
  /\ Goto(c, "loop", "readID")
  /\ id[c] # NoID
  /\ Relogin \/ cred[c] = NoID
  /\ cred' = [cred EXCEPT ![c] = u]
  /\ want' = [want EXCEPT ![c] = u]
  /\ UNCHANGED <<registry, state, mgr, told, used, known, handler, seen, temp>>

ReadOldID(c) ==
  /\ Goto(c, "readID", "setID")
  /\ seen' = [seen EXCEPT ![c] = id[c]]
  /\ UNCHANGED <<registry, state, mgr, cred, told, used, known, handler, want, temp>>

\* Variant of SetID: the temporary id of the kick is left empty.
SetIDWithoutTempID(c) ==
  /\ \/ /\ ~Registered(seen[c])
        /\ Goto(c, "setID", "failure")
        /\ UNCHANGED registry
     \/ /\ Registered(seen[c])
        /\ ~Registered(want[c])
        /\ Goto(c, "setID", "success")
        /\ Rename(seen[c], want[c])
     \/ /\ Registered(seen[c])
        /\ Registered(want[c])
        /\ Goto(c, "setID", IF seen[c] = want[c] THEN "success" ELSE "kick")
        /\ UNCHANGED registry
  /\ UNCHANGED <<state, mgr, cred, told, used, known, handler, seen, want, temp>>

\* The first SetClientID(oldID, newID) of updateClient, and GenTempID when the
\* new id is taken by another client.
SetID(c) ==
  /\ \/ /\ ~Registered(seen[c])
        /\ Goto(c, "setID", "failure")
        /\ UNCHANGED <<registry, used, temp>>
     \/ /\ Registered(seen[c])
        /\ ~Registered(want[c])
        /\ Goto(c, "setID", "success")
        /\ Rename(seen[c], want[c])
        /\ UNCHANGED <<used, temp>>
     \/ /\ Registered(seen[c])
        /\ seen[c] = want[c]
        /\ Goto(c, "setID", "success")
        /\ UNCHANGED <<registry, used, temp>>
     \/ /\ Registered(seen[c])
        /\ Registered(want[c])
        /\ seen[c] # want[c]
        /\ Goto(c, "setID", "kick")
        /\ \E t \in TempID \ used : /\ used' = used \cup {t}
                                    /\ temp' = [temp EXCEPT ![c] = t]
        /\ UNCHANGED registry
  /\ UNCHANGED <<state, mgr, cred, told, known, handler, seen, want>>

\* SetClientID(newID, tempID): the client that holds the id is displaced.
Kick(c) ==
  /\ \/ /\ Registered(want[c])
        /\ ~Registered(temp[c])
        /\ Goto(c, "kick", "notify")
        /\ Rename(want[c], temp[c])
     \/ /\ ~Registered(want[c]) \/ Registered(temp[c])
        /\ Goto(c, "kick", "failure")
        /\ UNCHANGED registry
  /\ UNCHANGED <<state, mgr, cred, told, used, known, handler, seen, want, temp>>

NotifyKickOut(c) ==
  /\ Goto(c, "notify", "retry")
  /\ EnqueueMessage(temp[c])
  /\ UNCHANGED <<registry, state, mgr, cred, used, known, handler, seen, want, temp>>

\* The second SetClientID(oldID, newID).
RetrySetID(c) ==
  /\ \/ /\ Registered(seen[c])
        /\ ~Registered(want[c])
        /\ Goto(c, "retry", "success")
        /\ Rename(seen[c], want[c])
     \/ /\ ~Registered(seen[c]) \/ Registered(want[c])
        /\ Goto(c, "retry", "failure")
        /\ UNCHANGED registry
  /\ UNCHANGED <<state, mgr, cred, told, used, known, handler, seen, want, temp>>

\* The locals of updateClient go out of scope when the reply is sent.
EndAuth(c, from) ==
  /\ Goto(c, from, "loop")
  /\ seen' = [seen EXCEPT ![c] = NoID]
  /\ want' = [want EXCEPT ![c] = NoID]
  /\ temp' = [temp EXCEPT ![c] = NoID]
  /\ UNCHANGED <<registry, state, mgr, cred, used, known, handler>>

\* The success is addressed to newID; the error goes to the id the client has
\* now and says nothing about a login.
ReplySuccess(c) == EndAuth(c, "success") /\ EnqueueMessage(want[c])
ReplyFailure(c) == EndAuth(c, "failure") /\ UNCHANGED told

-----------------------------------------------------------------------------
(* runRead: UserClient.Exit after a read error, a lost heartbeat, a closed   *)
(* reader or a message for a client without id.                              *)

\* The state is loaded ...
ExitLoad(c) ==
  /\ state[c] # "closed"
  /\ Goto(c, "loop", "exitStore")
  /\ UNCHANGED <<registry, state, mgr, cred, told, used, known, handler, seen, want, temp>>

\* ... and stored by a second atomic operation.
ExitStore(c) ==
  /\ Goto(c, "exitStore", "exitRead")
  /\ state' = [state EXCEPT ![c] = "closed"]
  /\ UNCHANGED <<registry, mgr, cred, told, used, known, handler, seen, want, temp>>

\* Variant of ExitReadID: the manager is not called.
ExitReadIDForgetManager(c) ==
  /\ Goto(c, "exitRead", "exitTail")
  /\ seen' = [seen EXCEPT ![c] = id[c]]
  /\ UNCHANGED <<registry, state, mgr, cred, told, used, known, handler, want, temp>>

ExitReadID(c) ==
  /\ Goto(c, "exitRead", IF mgr[c] /\ id[c] # NoID THEN "exitManager" ELSE "exitTail")
  /\ seen' = [seen EXCEPT ![c] = id[c]]
  /\ UNCHANGED <<registry, state, mgr, cred, told, used, known, handler, want, temp>>

\* c.mgr.ExitClient(id), with the id read before the lock was taken.
ExitManager(c) ==
  /\ Goto(c, "exitManager", "exitTail")
  /\ ExitClient(seen[c])
  /\ UNCHANGED <<cred, told, used, known, handler, seen, want, temp>>

\* SetID(""), mgr = nil and stopReadWrite; the local id goes out of scope.
ExitTail(c) ==
  /\ Goto(c, "exitTail", "loop")
  /\ id' = [id EXCEPT ![c] = NoID]
  /\ mgr' = [mgr EXCEPT ![c] = FALSE]
  /\ seen' = [seen EXCEPT ![c] = NoID]
  /\ UNCHANGED <<clients, announced, state, cred, told, used, known, handler, want, temp>>

\* runRead stops: closeReadCh is closed, or the heartbeat timer fired and the
\* client is no longer running.
StopRead(c) ==
  /\ ~mgr[c] \/ state[c] # "running"
  /\ Goto(c, "loop", "stopped")
  /\ UNCHANGED <<registry, state, mgr, cred, told, used, known, handler, seen, want, temp>>

-----------------------------------------------------------------------------
(* The RPC service (im_service/server/rpc_server.go, UpdateClient).  A       *)
(* caller can name user ids and the temporary ids peers were told.           *)

RpcID == UID \cup known

\* Variant of RpcSetClientID: the new id may be taken.
RpcSetClientIDOverwriting(old, new) ==
  /\ RpcRename
  /\ Registered(old)
  /\ Rename(old, new)
  /\ UNCHANGED <<state, mgr, cred, told, used, known, handler, locals>>

RpcSetClientID(old, new) ==
  /\ RpcRename
  /\ Registered(old)
  /\ ~Registered(new)
  /\ Rename(old, new)
  /\ UNCHANGED <<state, mgr, cred, told, used, known, handler, locals>>

RpcExitClient(i) ==
  /\ Registered(i)
  /\ ExitClient(i)
  /\ UNCHANGED <<cred, told, used, known, handler, locals>>

-----------------------------------------------------------------------------
HandleConnection(c) == AddClient(c) \/ Run(c) \/ Hello(c)

UpdateClient(c) ==
  \/ ReadOldID(c) \/ SetID(c) \/ Kick(c) \/ NotifyKickOut(c) \/ RetrySetID(c)
  \/ ReplySuccess(c) \/ ReplyFailure(c)

Exit(c) == ExitStore(c) \/ ExitReadID(c) \/ ExitManager(c) \/ ExitTail(c)

Next ==
  \/ \E c \in Client : \/ HandleConnection(c)
                       \/ \E u \in UID : Authenticate(c, u)
                       \/ UpdateClient(c)
                       \/ ExitLoad(c)
                       \/ Exit(c)
                       \/ StopRead(c)
  \/ \E old, new \in RpcID : RpcSetClientID(old, new)
  \/ \E i \in RpcID : RpcExitClient(i)

Spec == Init /\ [][Next]_vars

-----------------------------------------------------------------------------
(* Correctness. *)

\* Every connection authenticates at most once and nobody is renamed by RPC.
\* Then the id a login has read (oldID) stays the id of its own client; without
\* it a stale oldID can name, and rename, another connection.
SingleLogin == ~Relogin /\ ~RpcRename

\* A registered client that is not closed carries the id it is registered
\* under: what SetClientID, ExitClient and Exit write to info.ID never drifts
\* from the clients map while messages can still be delivered to the client.
RunningIdIsKey ==
  \A i \in ID : LET c == clients[i]
                IN c # NoClient /\ state[c] # "closed" => id[c] = i

\* Exit tests c.mgr and calls c.mgr.ExitClient later, outside any lock; no
\* concurrent Exit of the same client sets mgr to nil in between.
ManagerPresent == \A c \in Client : pc[c] = "exitManager" => mgr[c]

\* Once the tail of Exit has run, the client holds no user id, although it may
\* have been displaced by another login at any point of its exit.
ExitedHoldsNoUid ==
  SingleLogin => \A c \in Client : ~mgr[c] => \A u \in UID : clients[u] # c

\* Whoever is registered under a user id has credentials (UpdateClient of the
\* gateway dereferences them), and the success and kick-out notices reach only
\* clients that have: the reply of a login is addressed by id, and the id may
\* have changed hands since.
LoggedInHasCredentials ==
  SingleLogin =>
    /\ \A u \in UID : clients[u] # NoClient => cred[clients[u]] # NoID
    /\ \A c \in told : cred[c] # NoID

\* The presence events describe the registry: every registered id was announced
\* online last, and with single logins a user id that was announced online last
\* is registered.
PresenceMatchesRegistry ==
  /\ \A i \in ID : clients[i] # NoClient => i \in announced
  /\ SingleLogin => \A u \in UID \cap announced : clients[u] # NoClient

\* "stateClosed client is closed, cannot do anything": Run never revives a
\* client that an Exit has closed.
ClosedIsFinal ==
  [][\A c \in Client : state[c] = "closed" => state'[c] = "closed"]_state

\* The gateway implements the registry: the id of a client is the key that maps
\* to it, of which there is never more than one.
KeyOf(c) == IF \E i \in ID : clients[i] = c
            THEN CHOOSE i \in ID : clients[i] = c
            ELSE NoID

Reg == INSTANCE Registry WITH where  <- [c \in Client |-> KeyOf(c)],
                              joined <- {c \in Client : conn[c] # "new"}

ImplementsRegistry == Reg!Spec
=============================================================================
