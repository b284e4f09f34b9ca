----------------------------- MODULE LoginProofs ----------------------------
(***************************************************************************)
(* Proofs about logins to the gateway when every connection authenticates  *)
(* at most once and nobody is renamed by RPC: an exited client holds no    *)
(* user id, who holds one or is told of a login has credentials, and the   *)
(* presence events describe the registry.                                  *)
(***************************************************************************)
EXTENDS GatewayProofs

\* c holds no user id.
NoUid(c) == \A u \in UID : clients[u] # c

\* updateClient is under way and has not given c its user id.
Pending(c) == pc[c] \in {"readID", "setID", "kick", "notify", "retry"}

\* Every registered id was announced online last.
AnnouncedInv == \A i \in ID : clients[i] # NoClient => i \in announced

\* A client whose login is under way has credentials but no user id, and the id
\* it has read is a temporary one that nobody else can get.
PendingInv ==
  \A c \in Client :
    /\ Pending(c) => cred[c] # NoID /\ NoUid(c)
    /\ Pending(c) /\ pc[c] # "readID" =>
         seen[c] \in TempID \cup {NoID} /\ (seen[c] # NoID => clients[seen[c]] \in {c, NoClient})

\* The temporary id of a kick is its own, and vacant until the kick; afterwards
\* only the displaced client is under it.
KickInv ==
  \A c \in Client :
    /\ pc[c] = "kick" =>
         /\ temp[c] \in TempID
         /\ clients[temp[c]] = NoClient
         /\ \A d \in Client : seen[d] # temp[c]
         /\ \A d \in Client \ {c} : pc[d] \in {"kick", "notify"} => temp[d] # temp[c]
    /\ pc[c] = "notify" =>
         /\ temp[c] \in TempID
         /\ clients[temp[c]] # NoClient => cred[clients[temp[c]]] # NoID

\* A client without id or manager holds no user id; an Exit that has called the
\* manager has given the user id up, and one about to call it names that id.
LeaveInv ==
  \A c \in Client :
    /\ id[c] = NoID => NoUid(c)
    /\ ~mgr[c] => id[c] = NoID
    /\ ~mgr[c] /\ Pending(c) => \A i \in ID : clients[i] # c
    /\ pc[c] = "exitTail" => NoUid(c)
    /\ pc[c] = "exitManager" => \A u \in UID : clients[u] = c => u = seen[c]

\* Who holds a user id, or was told of a login, has credentials.
CredInv ==
  /\ \A u \in UID : clients[u] # NoClient => cred[clients[u]] # NoID
  /\ \A c \in told : cred[c] # NoID

OnlineInv == \A u \in UID \cap announced : clients[u] # NoClient

LInv == PendingInv /\ KickInv /\ LeaveInv /\ CredInv /\ OnlineInv

LoginInv == IInv /\ AnnouncedInv /\ (SingleLogin => LInv)

\* An abbreviation for the definitions every step needs.
USE GatewayConstants DEF ID, registry, handler, locals, ConnPC, ReadPC

LEMMA InitLoginInv == Init => LoginInv
<1> SUFFICES ASSUME Init PROVE LoginInv
  OBVIOUS
<1>1. IInv
  BY InitIInv
<1>2. AnnouncedInv
  BY DEF Init, AnnouncedInv
<1>3. PendingInv /\ KickInv /\ LeaveInv
  BY DEF Init, PendingInv, Pending, KickInv, LeaveInv, NoUid
<1>4. CredInv /\ OnlineInv
  BY DEF Init, CredInv, OnlineInv
<1> QED
  BY <1>1, <1>2, <1>3, <1>4 DEF LoginInv, LInv

\* What a step leaves unchanged when it has nothing to do with ids.
Still == UNCHANGED <<clients, id, announced, mgr, cred>>

\* HandleConnection: the connection gets a temporary id that occurs nowhere.
LEMMA AddClientLInv ==
  ASSUME IInv, LInv, NEW c \in Client, AddClient(c)
  PROVE  LInv'
<1>0. PICK t \in TempID \ used :
        /\ id' = [id EXCEPT ![c] = t]
        /\ clients' = [clients EXCEPT ![t] = c]
        /\ announced' = announced \cup {t}
  BY DEF AddClient
<1>1. /\ clients[t] = NoClient /\ \A d \in Client : seen[d] # t
      /\ pc[c] = "off" /\ mgr[c]
      /\ \A d \in Client : pc[d] \in {"kick", "notify", "retry"} => temp[d] # t
  BY <1>0 DEF IInv, FreshInv, Fresh, ConnInv, AuthInv, AddClient
<1>2. /\ UNCHANGED <<mgr, cred, told, pc, seen, temp>>
      /\ \A u \in UID : clients'[u] = clients[u]
      /\ \A i \in ID \ {t} : clients'[i] = clients[i]
      /\ \A d \in Client \ {c} : id'[d] = id[d]
      /\ id'[c] = t
  BY <1>0 DEF IInv, TypeOK, AddClient, locals
<1>3. PendingInv'
  BY <1>1, <1>2 DEF LInv, PendingInv, Pending, NoUid
<1>4. KickInv'
  BY <1>1, <1>2 DEF LInv, KickInv
<1>5. LeaveInv'
  BY <1>0, <1>1, <1>2 DEF LInv, LeaveInv, Pending, NoUid
<1>6. CredInv' /\ OnlineInv'
  BY <1>0, <1>2 DEF LInv, CredInv, OnlineInv
<1> QED
  BY <1>3, <1>4, <1>5, <1>6 DEF LInv

\* Run, Hello, and the steps of runRead that neither log in nor leave.
LEMMA LocalLInv ==
  ASSUME IInv, LInv, NEW c \in Client, Still, UNCHANGED <<told, temp>>,
         \A d \in Client \ {c} : pc'[d] = pc[d] /\ seen'[d] = seen[d],
         \/ pc'[c] \in {"loop", "exitStore", "exitRead", "stopped"} /\ seen'[c] \in {seen[c], NoID}
         \/ pc'[c] = "off" /\ seen'[c] = seen[c]
         \/ pc' = pc /\ seen' = seen
  PROVE  LInv'
<1>1. PendingInv'
  BY DEF Still, LInv, PendingInv, Pending, NoUid, IInv, TypeOK
<1>2. KickInv'
  BY DEF Still, LInv, KickInv, IInv, TypeOK
<1>3. LeaveInv'
  BY DEF Still, LInv, LeaveInv, Pending, NoUid, IInv, TypeOK
<1>4. CredInv' /\ OnlineInv'
  BY DEF Still, LInv, CredInv, OnlineInv
<1> QED
  BY <1>1, <1>2, <1>3, <1>4 DEF LInv

-----------------------------------------------------------------------------
(* The steps of a login. *)

\* A client that authenticates for the first time has an id, but no user id.
LEMMA AuthenticateLInv ==
  ASSUME IInv, LInv, ~Relogin, NEW c \in Client, NEW u \in UID, Authenticate(c, u)
  PROVE  LInv'
<1>1. /\ pc[c] = "loop" /\ id[c] # NoID /\ cred[c] = NoID /\ u # NoID
      /\ pc' = [pc EXCEPT ![c] = "readID"] /\ cred' = [cred EXCEPT ![c] = u]
      /\ UNCHANGED <<clients, id, announced, mgr, told, seen, temp>>
  BY DEF Authenticate, Goto
<1>2. NoUid(c) /\ mgr[c]
  BY <1>1 DEF LInv, CredInv, LeaveInv, NoUid
<1>3. \A d \in Client : cred[d] # NoID => cred'[d] # NoID
  BY <1>1 DEF IInv, TypeOK
<1>4. PendingInv'
  BY <1>1, <1>2, <1>3 DEF LInv, PendingInv, Pending, NoUid, IInv, TypeOK
<1>5. KickInv'
  BY <1>1, <1>3 DEF LInv, KickInv, IInv, TypeOK
<1>6. LeaveInv'
  BY <1>1, <1>2 DEF LInv, LeaveInv, Pending, NoUid, IInv, TypeOK
<1>7. CredInv' /\ OnlineInv'
  BY <1>1, <1>3 DEF LInv, CredInv, OnlineInv, IInv, TypeOK
<1> QED
  BY <1>4, <1>5, <1>6, <1>7 DEF LInv

\* The id it then reads is the temporary one it is registered under.
LEMMA ReadOldIDLInv ==
  ASSUME IInv, LInv, NEW c \in Client, ReadOldID(c)
  PROVE  LInv'
<1>1. /\ pc[c] = "readID" /\ pc' = [pc EXCEPT ![c] = "setID"]
      /\ seen' = [seen EXCEPT ![c] = id[c]]
      /\ UNCHANGED <<clients, id, announced, mgr, cred, told, temp>>
  BY DEF ReadOldID, Goto
<1>2. Pending(c) /\ NoUid(c) /\ cred[c] # NoID
  BY <1>1 DEF Pending, LInv, PendingInv
<1>3. id[c] # NoID => clients[id[c]] = c /\ id[c] \in TempID
  BY <1>2 DEF IInv, TypeOK, InfoInv, NoUid
<1>4. PendingInv'
  BY <1>1, <1>2, <1>3 DEF LInv, PendingInv, Pending, NoUid, IInv, TypeOK
<1>5. KickInv'
  <2>1. \A d \in Client : pc[d] = "kick" => id[c] # temp[d]
    BY <1>3 DEF LInv, KickInv, IInv, TypeOK
  <2> QED
    BY <1>1, <2>1 DEF LInv, KickInv, IInv, TypeOK
<1>6. LeaveInv'
  BY <1>1, <1>2 DEF LInv, LeaveInv, Pending, NoUid, IInv, TypeOK
<1>7. CredInv' /\ OnlineInv'
  BY <1>1 DEF LInv, CredInv, OnlineInv
<1> QED
  BY <1>4, <1>5, <1>6, <1>7 DEF LInv

\* SetClientID(oldID, newID) moves the client of the login itself.
LEMMA RenameLInv ==
  ASSUME IInv, LInv, NEW c \in Client, pc[c] \in {"setID", "retry"},
         Registered(seen[c]), ~Registered(want[c]), Rename(seen[c], want[c]),
         pc' = [pc EXCEPT ![c] = "success"],
         UNCHANGED <<mgr, cred, told, seen, temp>>
  PROVE  LInv'
<1>1. /\ seen[c] \in TempID /\ clients[seen[c]] = c /\ want[c] \in UID
      /\ Pending(c) /\ mgr[c] /\ cred[c] # NoID
  BY DEF Registered, Pending, LInv, PendingInv, LeaveInv, IInv, AuthInv, TypeOK
<1>2. /\ clients[want[c]] = NoClient
      /\ clients' = [clients EXCEPT ![seen[c]] = NoClient, ![want[c]] = c]
      /\ id' = [id EXCEPT ![c] = want[c]]
      /\ announced' = (announced \ {id[c]}) \cup {want[c]}
  BY <1>1 DEF Registered, Rename
<1>3. /\ clients'[seen[c]] = NoClient /\ clients'[want[c]] = c
      /\ \A i \in ID \ {seen[c], want[c]} : clients'[i] = clients[i]
      /\ id'[c] = want[c] /\ \A d \in Client \ {c} : id'[d] = id[d]
      /\ want[c] # NoID /\ want[c] \notin TempID
  BY <1>1, <1>2 DEF IInv, TypeOK
<1>4. PendingInv'
  BY <1>1, <1>3 DEF LInv, PendingInv, Pending, NoUid, IInv, TypeOK
<1>5. KickInv'
  BY <1>1, <1>3 DEF LInv, KickInv, IInv, TypeOK
<1>6. LeaveInv'
  BY <1>1, <1>3 DEF LInv, LeaveInv, Pending, NoUid, IInv, TypeOK
<1>7. CredInv'
  BY <1>1, <1>3 DEF LInv, CredInv, IInv, TypeOK
<1>8. OnlineInv'
  BY <1>1, <1>2, <1>3 DEF LInv, OnlineInv, IInv, TypeOK
<1> QED
  BY <1>4, <1>5, <1>6, <1>7, <1>8 DEF LInv

\* updateClient ends without having moved anybody, or with another attempt.
LEMMA AttemptLInv ==
  ASSUME IInv, LInv, NEW c \in Client, Still, UNCHANGED <<told, seen, temp>>,
         NEW p \in {"success", "failure"}, pc' = [pc EXCEPT ![c] = p]
  PROVE  LInv'
<1>1. PendingInv' /\ KickInv'
  BY DEF Still, LInv, PendingInv, KickInv, Pending, NoUid, IInv, TypeOK
<1>2. LeaveInv'
  BY DEF Still, LInv, LeaveInv, Pending, NoUid, IInv, TypeOK
<1>3. CredInv' /\ OnlineInv'
  BY DEF Still, LInv, CredInv, OnlineInv
<1> QED
  BY <1>1, <1>2, <1>3 DEF LInv

LEMMA SetIDLInv ==
  ASSUME IInv, LInv, NEW c \in Client, SetID(c)
  PROVE  LInv'
<1>1. pc[c] = "setID" /\ UNCHANGED <<mgr, cred, told, seen>>
  BY DEF SetID, Goto
<1>2. CASE ~Registered(seen[c]) \/ (Registered(seen[c]) /\ seen[c] = want[c])
  <2>1. \/ pc' = [pc EXCEPT ![c] = "failure"] /\ UNCHANGED <<clients, id, announced, temp>>
        \/ pc' = [pc EXCEPT ![c] = "success"] /\ UNCHANGED <<clients, id, announced, temp>>
    BY <1>2 DEF SetID, Goto
  <2> QED
    BY <1>1, <2>1, AttemptLInv DEF Still
<1>3. CASE Registered(seen[c]) /\ ~Registered(want[c])
  <2>1. seen[c] # want[c]
    BY <1>3
  <2>2. Rename(seen[c], want[c]) /\ pc' = [pc EXCEPT ![c] = "success"] /\ temp' = temp
    BY <1>3, <2>1 DEF SetID, Goto
  <2> QED
    BY <1>1, <1>3, <2>2, RenameLInv
<1>4. CASE Registered(seen[c]) /\ Registered(want[c]) /\ seen[c] # want[c]
  <2>1. PICK t \in TempID \ used : temp' = [temp EXCEPT ![c] = t]
    BY <1>4 DEF SetID
  <2>2. pc' = [pc EXCEPT ![c] = "kick"] /\ UNCHANGED <<clients, id, announced>>
    BY <1>4 DEF SetID, Goto
  <2>3. /\ clients[t] = NoClient /\ \A d \in Client : seen[d] # t
        /\ \A d \in Client : pc[d] \in {"kick", "notify", "retry"} => temp[d] # t
    BY <2>1 DEF IInv, FreshInv, Fresh, AuthInv
  <2>4. PendingInv'
    BY <1>1, <2>2 DEF LInv, PendingInv, Pending, NoUid, IInv, TypeOK
  <2>5. KickInv'
    BY <1>1, <2>1, <2>2, <2>3 DEF LInv, KickInv, IInv, TypeOK
  <2>6. LeaveInv'
    BY <1>1, <2>2 DEF LInv, LeaveInv, Pending, NoUid, IInv, TypeOK
  <2>7. CredInv' /\ OnlineInv'
    BY <1>1, <2>2 DEF LInv, CredInv, OnlineInv
  <2> QED
    BY <2>4, <2>5, <2>6, <2>7 DEF LInv
<1> QED
  BY <1>2, <1>3, <1>4

\* SetClientID(newID, tempID) moves the holder of the user id, which has logged
\* in, to the temporary id of the kick.
LEMMA KickLInv ==
  ASSUME IInv, LInv, NEW c \in Client, Kick(c)
  PROVE  LInv'
<1>1. pc[c] = "kick" /\ UNCHANGED <<mgr, cred, told, seen, temp>>
  BY DEF Kick, Goto
<1>2. CASE ~Registered(want[c]) \/ Registered(temp[c])
  <2>1. pc' = [pc EXCEPT ![c] = "failure"] /\ UNCHANGED <<clients, id, announced>>
    BY <1>2 DEF Kick, Goto
  <2> QED
    BY <1>1, <2>1, AttemptLInv DEF Still
<1>3. CASE Registered(want[c]) /\ ~Registered(temp[c])
  <2> DEFINE h == clients[want[c]]
  <2>1. /\ want[c] \in UID /\ temp[c] \in TempID /\ h \in Client /\ clients[temp[c]] = NoClient
    BY <1>1, <1>3 DEF Registered, LInv, KickInv, IInv, AuthInv, TypeOK
  <2>2. /\ pc' = [pc EXCEPT ![c] = "notify"]
        /\ clients' = [clients EXCEPT ![want[c]] = NoClient, ![temp[c]] = h]
        /\ id' = [id EXCEPT ![h] = temp[c]]
        /\ announced' = (announced \ {id[h]}) \cup {temp[c]}
    BY <1>3 DEF Kick, Goto, Rename
  <2>3. /\ clients'[want[c]] = NoClient /\ clients'[temp[c]] = h
        /\ \A i \in ID \ {want[c], temp[c]} : clients'[i] = clients[i]
        /\ id'[h] = temp[c] /\ \A d \in Client \ {h} : id'[d] = id[d]
    BY <2>1, <2>2 DEF IInv, TypeOK
  <2>4. cred[h] # NoID /\ ~Pending(h) /\ id[h] # NoID /\ mgr[h] /\ h # c
    BY <1>1, <2>1 DEF LInv, CredInv, PendingInv, LeaveInv, NoUid, Pending
  <2>5. id[h] = want[c] /\ \A u \in UID : u # want[c] => clients[u] # h
    BY <2>1, <2>4 DEF IInv, KeyInv, OneKeyInv, TypeOK
  <2>6. PendingInv'
    BY <1>1, <2>1, <2>2, <2>3, <2>4 DEF LInv, PendingInv, KickInv, Pending, NoUid, IInv, TypeOK
  <2>7. KickInv'
    BY <1>1, <2>1, <2>2, <2>3, <2>4 DEF LInv, KickInv, IInv, TypeOK
  <2>8. LeaveInv'
    BY <1>1, <2>1, <2>2, <2>3, <2>4, <2>5 DEF LInv, LeaveInv, Pending, NoUid, IInv, TypeOK
  <2>9. CredInv'
    BY <1>1, <2>1, <2>3 DEF LInv, CredInv, IInv, TypeOK
  <2>10. OnlineInv'
    BY <2>1, <2>2, <2>3, <2>5 DEF LInv, OnlineInv, IInv, TypeOK
  <2> QED
    BY <2>6, <2>7, <2>8, <2>9, <2>10 DEF LInv
<1> QED
  BY <1>2, <1>3

\* The kick-out notice reaches the displaced client or nobody.
LEMMA NotifyKickOutLInv ==
  ASSUME IInv, LInv, NEW c \in Client, NotifyKickOut(c)
  PROVE  LInv'
<1>1. /\ pc[c] = "notify" /\ pc' = [pc EXCEPT ![c] = "retry"]
      /\ UNCHANGED <<clients, id, announced, mgr, cred, seen, temp>>
      /\ told' = told \/ (Registered(temp[c]) /\ told' = told \cup {clients[temp[c]]})
  BY DEF NotifyKickOut, EnqueueMessage, Goto
<1>2. PendingInv' /\ KickInv'
  BY <1>1 DEF LInv, PendingInv, KickInv, Pending, NoUid, IInv, TypeOK
<1>3. LeaveInv'
  BY <1>1 DEF LInv, LeaveInv, Pending, NoUid, IInv, TypeOK
<1>4. CredInv' /\ OnlineInv'
  BY <1>1 DEF LInv, CredInv, OnlineInv, KickInv, Registered
<1> QED
  BY <1>2, <1>3, <1>4 DEF LInv

LEMMA RetrySetIDLInv ==
  ASSUME IInv, LInv, NEW c \in Client, RetrySetID(c)
  PROVE  LInv'
<1>1. pc[c] = "retry" /\ UNCHANGED <<mgr, cred, told, seen, temp>>
  BY DEF RetrySetID, Goto
<1>2. CASE Registered(seen[c]) /\ ~Registered(want[c])
  <2>1. Rename(seen[c], want[c]) /\ pc' = [pc EXCEPT ![c] = "success"]
    BY <1>2 DEF RetrySetID, Goto
  <2> QED
    BY <1>1, <1>2, <2>1, RenameLInv
<1>3. CASE ~Registered(seen[c]) \/ Registered(want[c])
  <2>1. pc' = [pc EXCEPT ![c] = "failure"] /\ UNCHANGED <<clients, id, announced>>
    BY <1>3 DEF RetrySetID, Goto
  <2> QED
    BY <1>1, <2>1, AttemptLInv DEF Still
<1> QED
  BY <1>2, <1>3

\* The reply goes to whoever holds the user id now, who has logged in.
LEMMA ReplyLInv ==
  ASSUME IInv, LInv, NEW c \in Client, ReplySuccess(c) \/ ReplyFailure(c)
  PROVE  LInv'
<1>1. /\ pc' = [pc EXCEPT ![c] = "loop"] /\ seen' = [seen EXCEPT ![c] = NoID]
      /\ temp' = [temp EXCEPT ![c] = NoID]
      /\ pc[c] \in {"success", "failure"}
      /\ UNCHANGED <<clients, id, announced, mgr, cred>>
  BY DEF ReplySuccess, ReplyFailure, EndAuth, Goto
<1>2. \/ told' = told
      \/ pc[c] = "success" /\ Registered(want[c]) /\ told' = told \cup {clients[want[c]]}
  BY DEF ReplySuccess, ReplyFailure, EndAuth, EnqueueMessage, Goto
<1>3. pc[c] = "success" => want[c] \in UID
  BY DEF IInv, AuthInv
<1>4. PendingInv' /\ KickInv'
  BY <1>1 DEF LInv, PendingInv, KickInv, Pending, NoUid, IInv, TypeOK
<1>5. LeaveInv'
  BY <1>1 DEF LInv, LeaveInv, Pending, NoUid, IInv, TypeOK
<1>6. CredInv' /\ OnlineInv'
  BY <1>1, <1>2, <1>3 DEF LInv, CredInv, OnlineInv, Registered
<1> QED
  BY <1>4, <1>5, <1>6 DEF LInv

-----------------------------------------------------------------------------
(* The steps of an exit. *)

\* The id that Exit reads is the user id of the client, if it has one.
LEMMA ExitReadIDLInv ==
  ASSUME IInv, LInv, NEW c \in Client, ExitReadID(c)
  PROVE  LInv'
<1>1. /\ pc[c] = "exitRead" /\ seen' = [seen EXCEPT ![c] = id[c]]
      /\ pc' = [pc EXCEPT ![c] = IF mgr[c] /\ id[c] # NoID THEN "exitManager" ELSE "exitTail"]
      /\ UNCHANGED <<clients, id, announced, mgr, cred, told, temp>>
  BY DEF ExitReadID, Goto
<1>2. \A u \in UID : clients[u] = c => u = id[c] /\ mgr[c] /\ id[c] # NoID
  BY DEF LInv, LeaveInv, NoUid, IInv, KeyInv, TypeOK
<1>3. \A d \in Client : pc[d] = "kick" => id[c] # temp[d]
  BY DEF LInv, KickInv, IInv, InfoInv, TypeOK
<1>4. PendingInv'
  BY <1>1 DEF LInv, PendingInv, Pending, NoUid, IInv, TypeOK
<1>5. KickInv'
  BY <1>1, <1>3 DEF LInv, KickInv, IInv, TypeOK
<1>6. LeaveInv'
  BY <1>1, <1>2 DEF LInv, LeaveInv, Pending, NoUid, IInv, TypeOK
<1>7. CredInv' /\ OnlineInv'
  BY <1>1 DEF LInv, CredInv, OnlineInv
<1> QED
  BY <1>4, <1>5, <1>6, <1>7 DEF LInv

\* ExitClient takes its only key and its id from the client it finds.
LEMMA ExitClientLInv ==
  ASSUME IInv, LInv, NEW i \in ID, ExitClient(i),
         UNCHANGED <<cred, told, seen, temp>>,
         \/ pc' = pc
         \/ \E c \in Client : /\ pc[c] = "exitManager" /\ seen[c] = i
                              /\ pc' = [pc EXCEPT ![c] = "exitTail"]
  PROVE  LInv'
<1>1. /\ \A d \in Client : Pending(d)' <=> Pending(d)
      /\ \A d \in Client : pc'[d] \in {"kick", "notify", "readID", "exitManager"} => pc'[d] = pc[d]
      /\ \A d \in Client : pc'[d] = "exitTail" /\ pc[d] # "exitTail"
                             => pc[d] = "exitManager" /\ seen[d] = i
      /\ \A d \in Client : pc[d] = "readID" => pc'[d] = "readID"
  BY DEF Pending, IInv, TypeOK
<1>2. CASE ~Registered(i)
  <2>1. UNCHANGED <<clients, id, announced, mgr>> /\ clients[i] = NoClient
    BY <1>2 DEF ExitClient, Registered
  <2>2. PendingInv' /\ KickInv'
    BY <1>1, <2>1 DEF LInv, PendingInv, KickInv, Pending, NoUid
  <2>3. LeaveInv'
    BY <1>1, <2>1 DEF LInv, LeaveInv, NoUid
  <2>4. CredInv' /\ OnlineInv'
    BY <2>1 DEF LInv, CredInv, OnlineInv
  <2> QED
    BY <2>2, <2>3, <2>4 DEF LInv
<1>3. CASE Registered(i)
  <2> DEFINE h == clients[i]
  <2>1. /\ h \in Client
        /\ clients'[i] = NoClient /\ \A j \in ID \ {i} : clients'[j] = clients[j]
        /\ id'[h] = NoID /\ \A d \in Client \ {h} : id'[d] = id[d] /\ mgr'[d] = mgr[d]
        /\ announced' = announced \ {id[h]}
    BY <1>3 DEF ExitClient, Registered, IInv, TypeOK
  <2>2. \A j \in ID : clients'[j] # h
    BY <2>1 DEF IInv, OneKeyInv, TypeOK
  <2>3. i \in UID => id[h] = i
    BY <2>1 DEF LInv, LeaveInv, NoUid, IInv, KeyInv
  <2>4. \A j \in ID, d \in Client : clients'[j] = d => clients[j] = d
    BY <2>1 DEF IInv, TypeOK
  <2>5. PendingInv'
    BY <1>1, <2>1, <2>4 DEF LInv, PendingInv, NoUid
  <2>6. KickInv'
    BY <1>1, <2>1 DEF LInv, KickInv
  <2>7. LeaveInv'
    BY <1>1, <2>1, <2>2, <2>4 DEF LInv, LeaveInv, NoUid
  <2>8. CredInv'
    BY <2>1 DEF LInv, CredInv
  <2>9. OnlineInv'
    BY <2>1, <2>3 DEF LInv, OnlineInv
  <2> QED
    BY <2>5, <2>6, <2>7, <2>8, <2>9 DEF LInv
<1> QED
  BY <1>2, <1>3

LEMMA ExitTailLInv ==
  ASSUME IInv, LInv, NEW c \in Client, ExitTail(c)
  PROVE  LInv'
<1>1. /\ pc[c] = "exitTail" /\ pc' = [pc EXCEPT ![c] = "loop"]
      /\ id' = [id EXCEPT ![c] = NoID] /\ mgr' = [mgr EXCEPT ![c] = FALSE]
      /\ seen' = [seen EXCEPT ![c] = NoID]
      /\ UNCHANGED <<clients, announced, cred, told, temp>>
  BY DEF ExitTail, Goto
<1>2. PendingInv' /\ KickInv'
  BY <1>1 DEF LInv, PendingInv, KickInv, Pending, NoUid, IInv, TypeOK
<1>3. LeaveInv'
  BY <1>1 DEF LInv, LeaveInv, Pending, NoUid, IInv, TypeOK
<1>4. CredInv' /\ OnlineInv'
  BY <1>1 DEF LInv, CredInv, OnlineInv
<1> QED
  BY <1>2, <1>3, <1>4 DEF LInv

-----------------------------------------------------------------------------
\* One case per action.  RpcSetClientID is excluded by SingleLogin.
LEMMA NextLInv == SingleLogin /\ IInv /\ LInv /\ [Next]_vars => LInv'
<1> SUFFICES ASSUME SingleLogin, IInv, LInv, [Next]_vars PROVE LInv'
  OBVIOUS
<1>1. ASSUME NEW c \in Client, HandleConnection(c) PROVE LInv'
  <2>1. CASE AddClient(c)
    BY <2>1, AddClientLInv
  <2>2. CASE Run(c)
    <3>1. pc' = [pc EXCEPT ![c] = "loop"] /\ Still /\ UNCHANGED <<told, seen, temp>>
      BY <2>2 DEF Run, Still
    <3> QED
      BY <3>1, LocalLInv DEF IInv, TypeOK
  <2>3. CASE Hello(c)
    BY <2>3, LocalLInv DEF Hello, Still
  <2> QED
    BY <1>1, <2>1, <2>2, <2>3 DEF HandleConnection
<1>2. ASSUME NEW c \in Client, NEW u \in UID, Authenticate(c, u) PROVE LInv'
  BY <1>2, AuthenticateLInv DEF SingleLogin
<1>3. ASSUME NEW c \in Client, UpdateClient(c) PROVE LInv'
  BY <1>3, ReadOldIDLInv, SetIDLInv, KickLInv, NotifyKickOutLInv, RetrySetIDLInv, ReplyLInv
     DEF UpdateClient
<1>4. ASSUME NEW c \in Client, ExitLoad(c) \/ ExitStore(c) \/ StopRead(c) PROVE LInv'
  <2>1. /\ Still /\ UNCHANGED <<told, seen, temp>>
        /\ \E p \in {"exitStore", "exitRead", "stopped"} : pc' = [pc EXCEPT ![c] = p]
    BY <1>4 DEF ExitLoad, ExitStore, StopRead, Goto, Still
  <2> QED
    BY <2>1, LocalLInv DEF IInv, TypeOK
<1>5. ASSUME NEW c \in Client, ExitManager(c) PROVE LInv'
  <2>1. CASE seen[c] \in ID
    BY <1>5, <2>1, ExitClientLInv DEF ExitManager, Goto
  <2>2. CASE seen[c] \notin ID
    <3>1. /\ pc[c] = "exitManager" /\ pc' = [pc EXCEPT ![c] = "exitTail"]
          /\ UNCHANGED <<clients, id, announced, mgr, cred, told, seen, temp>>
      BY <1>5, <2>2 DEF ExitManager, ExitClient, Registered, Goto
    <3>2. PendingInv' /\ KickInv'
      BY <3>1 DEF LInv, PendingInv, KickInv, Pending, NoUid, IInv, TypeOK
    <3>3. LeaveInv'
      BY <2>2, <3>1 DEF LInv, LeaveInv, Pending, NoUid, IInv, TypeOK
    <3>4. CredInv' /\ OnlineInv'
      BY <3>1 DEF LInv, CredInv, OnlineInv
    <3> QED
      BY <3>2, <3>3, <3>4 DEF LInv
  <2> QED
    BY <2>1, <2>2
<1>6. ASSUME NEW c \in Client, Exit(c) PROVE LInv'
  BY <1>4, <1>5, <1>6, ExitReadIDLInv, ExitTailLInv DEF Exit
<1>7. ASSUME NEW i \in RpcID, RpcExitClient(i) PROVE LInv'
  <2>1. i \in ID
    BY DEF RpcID, IInv, TypeOK
  <2> QED
    BY <1>7, <2>1, ExitClientLInv DEF RpcExitClient
<1>8. ASSUME NEW old \in RpcID, NEW new \in RpcID, RpcSetClientID(old, new) PROVE FALSE
  BY <1>8 DEF RpcSetClientID, SingleLogin
<1>9. CASE UNCHANGED vars
  <2>1. Still /\ UNCHANGED <<told, pc, seen, temp>>
    BY <1>9 DEF vars, Still
  <2>2. PendingInv' /\ KickInv'
    BY <2>1 DEF Still, LInv, PendingInv, KickInv, Pending, NoUid
  <2>3. LeaveInv'
    BY <2>1 DEF Still, LInv, LeaveInv, Pending, NoUid
  <2>4. CredInv' /\ OnlineInv'
    BY <2>1 DEF Still, LInv, CredInv, OnlineInv
  <2> QED
    BY <2>2, <2>3, <2>4 DEF LInv
<1> QED
  BY <1>1, <1>2, <1>3, <1>4, <1>6, <1>7, <1>8, <1>9 DEF Next

\* SetClientID announces the new id and withdraws the one in the info, which is
\* the key or empty; ExitClient likewise.
LEMMA AnnouncedStep == IInv /\ AnnouncedInv /\ [Next]_vars => AnnouncedInv'
<1> SUFFICES ASSUME IInv, AnnouncedInv, [Next]_vars PROVE AnnouncedInv'
  OBVIOUS
<1>1. CASE UNCHANGED <<clients, announced>>
  BY <1>1 DEF AnnouncedInv
<1>2. ASSUME NEW old \in ID, NEW new \in ID, Registered(old), ~Registered(new), Rename(old, new)
      PROVE  AnnouncedInv'
  <2>1. id[clients[old]] \in {old, NoID} /\ clients[old] \in Client
    BY <1>2 DEF IInv, KeyInv, Registered, TypeOK
  <2> QED
    BY <1>2, <2>1 DEF AnnouncedInv, Rename, IInv, TypeOK
<1>3. ASSUME NEW i, ExitClient(i) PROVE AnnouncedInv'
  <2>1. CASE ~Registered(i)
    BY <1>1, <1>3, <2>1 DEF ExitClient
  <2>2. CASE Registered(i)
    <3>1. id[clients[i]] \in {i, NoID} /\ clients[i] \in Client /\ i \in ID
      BY <2>2 DEF IInv, KeyInv, Registered, TypeOK
    <3> QED
      BY <1>3, <2>2, <3>1 DEF AnnouncedInv, ExitClient, IInv, TypeOK
  <2> QED
    BY <2>1, <2>2
<1>4. ASSUME NEW c \in Client, HandleConnection(c) PROVE AnnouncedInv'
  <2>1. CASE AddClient(c)
    BY <2>1 DEF AddClient, AnnouncedInv, IInv, TypeOK
  <2> QED
    BY <1>1, <1>4, <2>1 DEF HandleConnection, Run, Hello
<1>5. ASSUME NEW c \in Client, UpdateClient(c) PROVE AnnouncedInv'
  <2>1. pc[c] \in {"setID", "kick", "retry"} => want[c] \in ID
    BY DEF IInv, AuthInv
  <2>2. pc[c] = "kick" => temp[c] \in ID
    BY DEF IInv, AuthInv, TypeOK
  <2>3. CASE SetID(c)
    BY <1>1, <1>2, <2>1, <2>3 DEF SetID, Goto, Registered
  <2>4. CASE Kick(c)
    BY <1>1, <1>2, <2>1, <2>2, <2>4 DEF Kick, Goto, Registered
  <2>5. CASE RetrySetID(c)
    BY <1>1, <1>2, <2>1, <2>5 DEF RetrySetID, Goto, Registered
  <2>6. CASE ReadOldID(c) \/ NotifyKickOut(c) \/ ReplySuccess(c) \/ ReplyFailure(c)
    BY <1>1, <2>6 DEF ReadOldID, NotifyKickOut, ReplySuccess, ReplyFailure, EndAuth
  <2> QED
    BY <1>5, <2>3, <2>4, <2>5, <2>6 DEF UpdateClient
<1>6. ASSUME NEW c \in Client, Exit(c) PROVE AnnouncedInv'
  BY <1>1, <1>3, <1>6 DEF Exit, ExitStore, ExitReadID, ExitManager, ExitTail
<1>7. ASSUME NEW c \in Client, ExitLoad(c) \/ StopRead(c) \/ \E u \in UID : Authenticate(c, u)
      PROVE  AnnouncedInv'
  BY <1>1, <1>7 DEF ExitLoad, StopRead, Authenticate
<1>8. ASSUME NEW old \in RpcID, NEW new \in RpcID, RpcSetClientID(old, new) PROVE AnnouncedInv'
  <2>1. old \in ID /\ new \in ID
    BY DEF RpcID, IInv, TypeOK
  <2> QED
    BY <1>2, <1>8, <2>1 DEF RpcSetClientID
<1>9. ASSUME NEW i \in RpcID, RpcExitClient(i) PROVE AnnouncedInv'
  BY <1>3, <1>9 DEF RpcExitClient
<1> QED
  BY <1>1, <1>4, <1>5, <1>6, <1>7, <1>8, <1>9 DEF Next, vars

-----------------------------------------------------------------------------
\* The inductive invariant holds in every reachable state.
THEOREM LoginInvariance == Spec => []LoginInv
<1>1. Init => LoginInv
  BY InitLoginInv
<1>2. LoginInv /\ [Next]_vars => LoginInv'
  BY NextIInv, NextLInv, AnnouncedStep DEF LoginInv, SingleLogin
<1> QED
  BY <1>1, <1>2, PTL DEF Spec

\* Whatever kicks and exits interleave with it, an Exit that has come to its end
\* leaves the client without a user id (UserClient.Exit, updateClient).
THEOREM ExitedHoldsNoUidHolds == Spec => []ExitedHoldsNoUid
<1>1. LoginInv => ExitedHoldsNoUid
  BY DEF LoginInv, LInv, LeaveInv, NoUid, ExitedHoldsNoUid
<1> QED
  BY <1>1, LoginInvariance, PTL

\* Who is registered under a user id, and who is told of a login or a kick-out,
\* has credentials (updateClient, UpdateClient of the gateway).
THEOREM LoggedInHasCredentialsHolds == Spec => []LoggedInHasCredentials
<1>1. LoginInv => LoggedInHasCredentials
  BY DEF LoginInv, LInv, CredInv, LoggedInHasCredentials
<1> QED
  BY <1>1, LoginInvariance, PTL

\* The last presence event of every id tells whether it is registered
\* (SetClientID, AddClient, ExitClient).
THEOREM PresenceMatchesRegistryHolds == Spec => []PresenceMatchesRegistry
<1>1. LoginInv => PresenceMatchesRegistry
  BY DEF LoginInv, LInv, AnnouncedInv, OnlineInv, PresenceMatchesRegistry
<1> QED
  BY <1>1, LoginInvariance, PTL
=============================================================================
