---------------------------- MODULE GatewayProofs ---------------------------
(***************************************************************************)
(* Proofs about the gateway for any sets of connections, users and         *)
(* temporary ids.                                                          *)
(***************************************************************************)
EXTENDS Gateway, TLAPS

\* A temporary id that was not handed out yet occurs nowhere.
Fresh(t) == /\ clients[t] = NoClient
            /\ t \notin known
            /\ \A c \in Client : seen[c] # t /\ given[c] # t /\ id[c] # t

FreshInv == \A t \in TempID \ used : Fresh(t)

\* A client that carries an id is registered under it.
InfoInv == \A c \in Client : id[c] # NoID => clients[id[c]] = c

\* A registered client carries its key, or it is closed and carries no id.
KeyInv == \A i \in ID : LET c == clients[i]
                        IN c # NoClient =>
                             \/ id[c] = i
                             \/ id[c] = NoID /\ state[c] = "closed"

\* No client has two keys.
OneKeyInv == \A i, j \in ID : clients[i] # NoClient /\ clients[i] = clients[j] => i = j

\* Until HandleConnection calls Run nobody else can name the client.
ConnInv ==
  \A c \in Client :
    /\ conn[c] \in {"new", "added"} => /\ state[c] = "none"
                                       /\ pc[c] = "off"
                                       /\ mgr[c]
    /\ conn[c] = "new" => /\ id[c] = NoID
                          /\ \A i \in ID : clients[i] # c
    /\ conn[c] \in {"added", "running"} => /\ given[c] \in TempID
                                           /\ \A d \in Client : given[d] = given[c] => d = c
    /\ conn[c] = "added" => /\ id[c] = given[c]
                            /\ given[c] \notin known
                            /\ \A d \in Client : seen[d] # given[c]

\* After its store, an Exit finds the client closed; the manager it is about to
\* call is there.
ExitInv ==
  \A c \in Client :
    /\ pc[c] \in {"exitRead", "exitManager", "exitTail"} => state[c] = "closed"
    /\ pc[c] = "exitManager" => mgr[c]

\* The locals of updateClient, once assigned.
AuthInv ==
  \A c \in Client :
    /\ pc[c] \in {"readID", "setID", "kick", "notify", "retry", "success"} => want[c] \in UID
    /\ pc[c] \in {"kick", "notify", "retry"} => temp[c] \in used

IInv == TypeOK /\ FreshInv /\ InfoInv /\ KeyInv /\ OneKeyInv /\ ConnInv /\ ExitInv /\ AuthInv

\* An abbreviation for the definitions every step needs.
USE GatewayConstants DEF ID, registry, handler, locals, ConnPC, ReadPC

LEMMA InitIInv == Init => IInv
  BY DEF Init, IInv, TypeOK, FreshInv, Fresh, InfoInv, KeyInv, OneKeyInv, ConnInv, ExitInv, AuthInv

\* HandleConnection: GenTempID yields an id that occurs nowhere.
LEMMA AddClientIInv ==
  ASSUME IInv, NEW c \in Client, AddClient(c)
  PROVE  IInv'
  <1> USE DEF IInv
  <1>0. PICK t \in TempID \ used :
          /\ used' = used \cup {t}
          /\ given' = [given EXCEPT ![c] = t]
          /\ id' = [id EXCEPT ![c] = t]
          /\ clients' = [clients EXCEPT ![t] = c]
          /\ announced' = announced \cup {t}
    BY DEF AddClient
  <1>1. TypeOK'
    BY <1>0 DEF TypeOK, AddClient
  <1>2. FreshInv'
    BY <1>0 DEF TypeOK, AddClient, FreshInv, Fresh
  <1>3. InfoInv'
    BY <1>0 DEF TypeOK, AddClient, FreshInv, Fresh, InfoInv
  <1>4. KeyInv'
    BY <1>0 DEF TypeOK, AddClient, FreshInv, Fresh, KeyInv, ConnInv
  <1>5. OneKeyInv'
    BY <1>0 DEF TypeOK, AddClient, OneKeyInv, ConnInv
  <1>6. ConnInv'
    BY <1>0 DEF TypeOK, AddClient, FreshInv, Fresh, ConnInv
  <1>7. ExitInv' /\ AuthInv'
    BY <1>0 DEF TypeOK, AddClient, ExitInv, AuthInv, ConnInv
  <1>8. QED
    BY <1>1, <1>2, <1>3, <1>4, <1>5, <1>6, <1>7

LEMMA RunIInv ==
  ASSUME IInv, NEW c \in Client, Run(c)
  PROVE  IInv'
  <1> USE DEF IInv, Run
  <1>1. TypeOK'
    BY DEF TypeOK
  <1>2. FreshInv' /\ InfoInv' /\ OneKeyInv'
    BY DEF FreshInv, Fresh, InfoInv, OneKeyInv
  <1>3. KeyInv'
    BY DEF TypeOK, KeyInv, ConnInv
  <1>4. ConnInv'
    BY DEF TypeOK, ConnInv
  <1>5. ExitInv' /\ AuthInv'
    BY DEF TypeOK, ExitInv, AuthInv, ConnInv
  <1>6. QED
    BY <1>1, <1>2, <1>3, <1>4, <1>5

LEMMA HelloIInv ==
  ASSUME IInv, NEW c \in Client, Hello(c)
  PROVE  IInv'
  <1> USE DEF IInv, Hello
  <1>1. TypeOK'
    BY DEF TypeOK, ConnInv
  <1>2. FreshInv'
    BY DEF TypeOK, FreshInv, Fresh, ConnInv
  <1>3. InfoInv' /\ KeyInv' /\ OneKeyInv' /\ ExitInv' /\ AuthInv'
    BY DEF InfoInv, KeyInv, OneKeyInv, ExitInv, AuthInv
  <1>4. ConnInv'
    BY DEF TypeOK, ConnInv
  <1>5. QED
    BY <1>1, <1>2, <1>3, <1>4

-----------------------------------------------------------------------------
(* The sections under the lock. *)

\* A connection that does not run yet has no step of runRead.
PcFrame == \A c \in Client : conn[c] \in {"new", "added"} => pc'[c] = pc[c]

\* Renaming the client at old to the vacant id new keeps keys and infos together,
\* provided old is not the id of a connection that does not run yet.
LEMMA RenameInv ==
  ASSUME IInv, PcFrame,
         NEW old \in ID, NEW new \in ID,
         Registered(old), ~Registered(new),
         new \in TempID => new \in used,
         \A c \in Client : conn[c] = "added" => old # given[c],
         Rename(old, new), UNCHANGED <<state, mgr, used, known, handler, seen>>
  PROVE  FreshInv' /\ InfoInv' /\ KeyInv' /\ OneKeyInv' /\ ConnInv'
  <1> USE DEF IInv, Rename, Registered
  <1>1. FreshInv'
    BY DEF TypeOK, FreshInv, Fresh
  <1>2. InfoInv'
    BY DEF TypeOK, InfoInv, KeyInv
  <1>3. KeyInv'
    BY DEF TypeOK, KeyInv, OneKeyInv
  <1>4. OneKeyInv'
    BY DEF TypeOK, OneKeyInv
  <1>5. ConnInv'
    BY DEF TypeOK, ConnInv, InfoInv, KeyInv, PcFrame
  <1>6. QED
    BY <1>1, <1>2, <1>3, <1>4, <1>5

\* Removing the client at i, and closing it unless it is closed already.
LEMMA ExitClientInv ==
  ASSUME IInv, PcFrame,
         NEW i \in ID \cup {NoID},
         \A c \in Client : conn[c] = "added" => i # given[c],
         ExitClient(i), UNCHANGED <<used, known, handler, seen>>
  PROVE  /\ FreshInv' /\ InfoInv' /\ KeyInv' /\ OneKeyInv' /\ ConnInv'
         /\ \A c \in Client : state[c] = "closed" => state'[c] = "closed" /\ mgr'[c] = mgr[c]
  <1> USE DEF IInv, ExitClient, Registered
  <1>1. FreshInv'
    BY DEF TypeOK, FreshInv, Fresh
  <1>2. InfoInv'
    BY DEF TypeOK, InfoInv, KeyInv
  <1>3. KeyInv'
    BY DEF TypeOK, KeyInv, OneKeyInv
  <1>4. OneKeyInv'
    BY DEF TypeOK, OneKeyInv
  <1>5. ConnInv'
    BY DEF TypeOK, ConnInv, InfoInv, KeyInv, PcFrame
  <1>6. \A c \in Client : state[c] = "closed" => state'[c] = "closed" /\ mgr'[c] = mgr[c]
    BY DEF TypeOK
  <1>7. QED
    BY <1>1, <1>2, <1>3, <1>4, <1>5, <1>6

-----------------------------------------------------------------------------
(* runRead: authentication. *)

\* The steps of a login that leave the registry alone.
LEMMA AuthLocalIInv ==
  ASSUME IInv, NEW c \in Client,
         \/ \E u \in UID : Authenticate(c, u)
         \/ ReadOldID(c)
         \/ NotifyKickOut(c)
         \/ ReplySuccess(c)
         \/ ReplyFailure(c)
  PROVE  IInv'
  <1> USE DEF IInv, Authenticate, ReadOldID, NotifyKickOut, ReplySuccess, ReplyFailure,
              EndAuth, EnqueueMessage, Goto, Registered
  <1>1. TypeOK'
    BY DEF TypeOK
  <1>2. FreshInv'
    BY DEF TypeOK, FreshInv, Fresh
  <1>3. InfoInv' /\ KeyInv' /\ OneKeyInv'
    BY DEF InfoInv, KeyInv, OneKeyInv
  <1>4. ConnInv'
    BY DEF TypeOK, ConnInv, InfoInv
  <1>5. ExitInv' /\ AuthInv'
    BY DEF TypeOK, ExitInv, AuthInv
  <1>6. QED
    BY <1>1, <1>2, <1>3, <1>4, <1>5

\* A step that changes only pc, the locals and used keeps what is said of the
\* registry, as long as used only grows and seen stays.
LEMMA LocalInv ==
  ASSUME IInv, PcFrame, used \subseteq used',
         UNCHANGED <<registry, state, mgr, known, handler, seen>>
  PROVE  FreshInv' /\ InfoInv' /\ KeyInv' /\ OneKeyInv' /\ ConnInv'
  BY DEF IInv, TypeOK, FreshInv, Fresh, InfoInv, KeyInv, OneKeyInv, ConnInv, PcFrame

\* The three SetClientID calls of updateClient.
LEMMA SetIDIInv ==
  ASSUME IInv, NEW c \in Client, SetID(c)
  PROVE  IInv'
  <1> USE DEF IInv
  <1>1. PcFrame
    BY DEF SetID, Goto, TypeOK, ConnInv, PcFrame
  <1>2. TypeOK'
    <2>1. want[c] \in UID
      BY DEF SetID, Goto, AuthInv
    <2>2. QED
      BY <2>1 DEF TypeOK, SetID, Goto, Rename, Registered
  <1>3. ExitInv' /\ AuthInv'
    BY DEF TypeOK, ExitInv, AuthInv, SetID, Goto
  <1>4. CASE Registered(seen[c]) /\ ~Registered(want[c]) /\ Rename(seen[c], want[c])
             /\ UNCHANGED <<used, temp>>
    <2>1. seen[c] \in ID /\ want[c] \in UID
      BY <1>4 DEF SetID, Goto, Registered, AuthInv
    <2>2. \A d \in Client : conn[d] = "added" => seen[c] # given[d]
      BY DEF ConnInv
    <2>3. UNCHANGED <<state, mgr, used, known, handler, seen>>
      BY <1>4 DEF SetID
    <2>4. QED
      BY <1>1, <1>2, <1>3, <1>4, <2>1, <2>2, <2>3, RenameInv
  <1>5. CASE UNCHANGED registry
    BY <1>1, <1>2, <1>3, <1>5, LocalInv DEF SetID
  <1>6. QED
    BY <1>4, <1>5 DEF SetID

LEMMA KickIInv ==
  ASSUME IInv, NEW c \in Client, Kick(c)
  PROVE  IInv'
  <1> USE DEF IInv
  <1>1. PcFrame
    BY DEF Kick, Goto, TypeOK, ConnInv, PcFrame
  <1>2. TypeOK'
    BY DEF TypeOK, Kick, Goto, Rename, Registered, AuthInv
  <1>3. ExitInv' /\ AuthInv'
    BY DEF TypeOK, ExitInv, AuthInv, Kick, Goto
  <1>4. CASE Registered(want[c]) /\ ~Registered(temp[c]) /\ Rename(want[c], temp[c])
    <2>1. want[c] \in UID /\ temp[c] \in used /\ temp[c] \in TempID
      BY DEF Kick, Goto, AuthInv, TypeOK
    <2>2. \A d \in Client : conn[d] = "added" => want[c] # given[d]
      BY <2>1 DEF ConnInv
    <2>3. UNCHANGED <<state, mgr, used, known, handler, seen>>
      BY DEF Kick
    <2>4. QED
      BY <1>1, <1>2, <1>3, <1>4, <2>1, <2>2, <2>3, RenameInv
  <1>5. CASE UNCHANGED registry
    BY <1>1, <1>2, <1>3, <1>5, LocalInv DEF Kick
  <1>6. QED
    BY <1>4, <1>5 DEF Kick

LEMMA RetrySetIDIInv ==
  ASSUME IInv, NEW c \in Client, RetrySetID(c)
  PROVE  IInv'
  <1> USE DEF IInv
  <1>1. PcFrame
    BY DEF RetrySetID, Goto, TypeOK, ConnInv, PcFrame
  <1>2. TypeOK'
    BY DEF TypeOK, RetrySetID, Goto, Rename, Registered, AuthInv
  <1>3. ExitInv' /\ AuthInv'
    BY DEF TypeOK, ExitInv, AuthInv, RetrySetID, Goto
  <1>4. CASE Registered(seen[c]) /\ ~Registered(want[c]) /\ Rename(seen[c], want[c])
    <2>1. seen[c] \in ID /\ want[c] \in UID
      BY <1>4 DEF RetrySetID, Goto, Registered, AuthInv
    <2>2. \A d \in Client : conn[d] = "added" => seen[c] # given[d]
      BY DEF ConnInv
    <2>3. UNCHANGED <<state, mgr, used, known, handler, seen>>
      BY DEF RetrySetID
    <2>4. QED
      BY <1>1, <1>2, <1>3, <1>4, <2>1, <2>2, <2>3, RenameInv
  <1>5. CASE UNCHANGED registry
    BY <1>1, <1>2, <1>3, <1>5, LocalInv DEF RetrySetID
  <1>6. QED
    BY <1>4, <1>5 DEF RetrySetID

-----------------------------------------------------------------------------
(* runRead: Exit, and the end of the goroutine. *)

LEMMA ExitLocalIInv ==
  ASSUME IInv, NEW c \in Client, ExitLoad(c) \/ ExitReadID(c) \/ StopRead(c)
  PROVE  IInv'
  <1> USE DEF IInv, ExitLoad, ExitReadID, StopRead, Goto
  <1>1. TypeOK'
    BY DEF TypeOK
  <1>2. FreshInv'
    BY DEF TypeOK, FreshInv, Fresh
  <1>3. InfoInv' /\ KeyInv' /\ OneKeyInv'
    BY DEF InfoInv, KeyInv, OneKeyInv
  <1>4. ConnInv'
    BY DEF TypeOK, ConnInv, InfoInv
  <1>5. ExitInv' /\ AuthInv'
    BY DEF TypeOK, ExitInv, AuthInv
  <1>6. QED
    BY <1>1, <1>2, <1>3, <1>4, <1>5

LEMMA ExitStoreIInv ==
  ASSUME IInv, NEW c \in Client, ExitStore(c)
  PROVE  IInv'
  <1> USE DEF IInv, ExitStore, Goto
  <1>1. TypeOK'
    BY DEF TypeOK
  <1>2. FreshInv' /\ InfoInv' /\ OneKeyInv'
    BY DEF FreshInv, Fresh, InfoInv, OneKeyInv
  <1>3. KeyInv'
    BY DEF TypeOK, KeyInv
  <1>4. ConnInv'
    BY DEF TypeOK, ConnInv
  <1>5. ExitInv' /\ AuthInv'
    BY DEF TypeOK, ExitInv, AuthInv
  <1>6. QED
    BY <1>1, <1>2, <1>3, <1>4, <1>5

\* The id was read before the lock was taken, but it was told to nobody who
\* does not run, and whoever else it closes has not stored an Exit of its own.
LEMMA ExitManagerIInv ==
  ASSUME IInv, NEW c \in Client, ExitManager(c)
  PROVE  IInv'
  <1> USE DEF IInv
  <1>1. PcFrame
    BY DEF ExitManager, Goto, TypeOK, ConnInv, PcFrame
  <1>2. TypeOK'
    BY DEF TypeOK, ExitManager, Goto, ExitClient, Registered
  <1>3. seen[c] \in ID \cup {NoID} /\ \A d \in Client : conn[d] = "added" => seen[c] # given[d]
    BY DEF TypeOK, ConnInv
  <1>4. ExitClient(seen[c]) /\ UNCHANGED <<used, known, handler, seen>>
    BY DEF ExitManager
  <1>5. /\ FreshInv' /\ InfoInv' /\ KeyInv' /\ OneKeyInv' /\ ConnInv'
        /\ \A d \in Client : state[d] = "closed" => state'[d] = "closed" /\ mgr'[d] = mgr[d]
    BY <1>1, <1>3, <1>4, ExitClientInv
  <1>6. ExitInv' /\ AuthInv'
    BY <1>5 DEF TypeOK, ExitInv, AuthInv, ExitManager, Goto
  <1>7. QED
    BY <1>2, <1>5, <1>6

LEMMA ExitTailIInv ==
  ASSUME IInv, NEW c \in Client, ExitTail(c)
  PROVE  IInv'
  <1> USE DEF IInv, ExitTail, Goto
  <1>1. TypeOK'
    BY DEF TypeOK
  <1>2. FreshInv' /\ OneKeyInv'
    BY DEF TypeOK, FreshInv, Fresh, OneKeyInv
  <1>3. InfoInv'
    BY DEF TypeOK, InfoInv
  <1>4. KeyInv'
    BY DEF TypeOK, KeyInv, ExitInv
  <1>5. ConnInv'
    BY DEF TypeOK, ConnInv
  <1>6. ExitInv' /\ AuthInv'
    BY DEF TypeOK, ExitInv, AuthInv
  <1>7. QED
    BY <1>1, <1>2, <1>3, <1>4, <1>5, <1>6

-----------------------------------------------------------------------------
(* The RPC service. *)

LEMMA RpcIInv ==
  ASSUME IInv,
         \/ \E old, new \in RpcID : RpcSetClientID(old, new)
         \/ \E i \in RpcID : RpcExitClient(i)
  PROVE  IInv'
  <1> USE DEF IInv
  <1>1. PcFrame
    BY DEF RpcSetClientID, RpcExitClient, PcFrame
  <1>2. \A i \in RpcID : /\ i \in ID
                         /\ i \in TempID => i \in used
                         /\ \A d \in Client : conn[d] = "added" => i # given[d]
    BY DEF RpcID, TypeOK, FreshInv, Fresh, ConnInv
  <1>3. ASSUME NEW old \in RpcID, NEW new \in RpcID, RpcSetClientID(old, new)
        PROVE  IInv'
    <2>1. TypeOK' /\ ExitInv' /\ AuthInv'
      BY <1>2, <1>3 DEF TypeOK, ExitInv, AuthInv, RpcSetClientID, Rename, Registered
    <2>2. FreshInv' /\ InfoInv' /\ KeyInv' /\ OneKeyInv' /\ ConnInv'
      BY <1>1, <1>2, <1>3, RenameInv DEF RpcSetClientID
    <2>3. QED
      BY <2>1, <2>2
  <1>4. ASSUME NEW i \in RpcID, RpcExitClient(i)
        PROVE  IInv'
    <2>0. AuthInv'
      BY <1>4 DEF TypeOK, AuthInv, RpcExitClient
    <2>1. TypeOK'
      <3>1. i \in ID /\ clients[i] \in Client
        BY <1>2, <1>4 DEF TypeOK, RpcExitClient, Registered
      <3>2. clients' \in [ID -> Client \cup {NoClient}] /\ id' \in [Client -> ID \cup {NoID}]
        BY <1>4, <3>1 DEF TypeOK, RpcExitClient, ExitClient
      <3>3. /\ announced' \in SUBSET ID
            /\ state' \in [Client -> {"none", "running", "closed"}]
        BY <1>4, <3>1 DEF TypeOK, RpcExitClient, ExitClient
      <3>4. mgr' = [mgr EXCEPT ![clients[i]] = @ /\ state[clients[i]] = "closed"]
        BY <1>4 DEF RpcExitClient, ExitClient
      <3>5. mgr' \in [Client -> BOOLEAN]
        BY <3>1, <3>4 DEF TypeOK
      <3>6. QED
        BY <1>4, <3>2, <3>3, <3>5 DEF TypeOK, RpcExitClient
    <2>2. ExitClient(i) /\ UNCHANGED <<used, known, handler, seen>>
      BY <1>4 DEF RpcExitClient
    <2>3. /\ FreshInv' /\ InfoInv' /\ KeyInv' /\ OneKeyInv' /\ ConnInv'
          /\ \A d \in Client : state[d] = "closed" => state'[d] = "closed" /\ mgr'[d] = mgr[d]
      BY <1>1, <1>2, <2>2, ExitClientInv
    <2>4. ExitInv'
      BY <1>4, <2>3 DEF ExitInv, TypeOK, RpcExitClient
    <2>5. QED
      BY <2>0, <2>1, <2>3, <2>4
  <1>5. QED
    BY <1>3, <1>4

-----------------------------------------------------------------------------
(* The theorems. *)

LEMMA NextIInv == IInv /\ [Next]_vars => IInv'
  <1> SUFFICES ASSUME IInv, [Next]_vars PROVE IInv'
    OBVIOUS
  <1>1. CASE UNCHANGED vars
    BY <1>1 DEF vars, IInv, TypeOK, FreshInv, Fresh, InfoInv, KeyInv, OneKeyInv, ConnInv,
                ExitInv, AuthInv
  <1>2. ASSUME NEW c \in Client, HandleConnection(c) PROVE IInv'
    BY <1>2, AddClientIInv, RunIInv, HelloIInv DEF HandleConnection
  <1>3. ASSUME NEW c \in Client, (\E u \in UID : Authenticate(c, u)) \/ UpdateClient(c)
        PROVE  IInv'
    BY <1>3, AuthLocalIInv, SetIDIInv, KickIInv, RetrySetIDIInv DEF UpdateClient
  <1>4. ASSUME NEW c \in Client, ExitLoad(c) \/ Exit(c) \/ StopRead(c) PROVE IInv'
    BY <1>4, ExitLocalIInv, ExitStoreIInv, ExitManagerIInv, ExitTailIInv DEF Exit
  <1>5. QED
    BY <1>1, <1>2, <1>3, <1>4, RpcIInv DEF Next

\* The inductive invariant holds in every reachable state.
THEOREM Invariance == Spec => []IInv
  BY InitIInv, NextIInv, PTL DEF Spec

\* Every variable keeps its type.
THEOREM TypeCorrect == Spec => []TypeOK
  <1>1. IInv => TypeOK
    BY DEF IInv
  <1>2. QED
    BY <1>1, Invariance, PTL

\* A registered client that is not closed carries the id it is registered under,
\* however logins, kicks, renames and exits interleave.
THEOREM RunningIdIsKeyHolds == Spec => []RunningIdIsKey
  <1>1. IInv => RunningIdIsKey
    BY DEF IInv, KeyInv, RunningIdIsKey
  <1>2. QED
    BY <1>1, Invariance, PTL

\* The manager an Exit is about to call is not nil.
THEOREM ManagerPresentHolds == Spec => []ManagerPresent
  <1>1. IInv => ManagerPresent
    BY DEF IInv, ExitInv, ManagerPresent
  <1>2. QED
    BY <1>1, Invariance, PTL

\* A closed client is never revived by Run.
THEOREM ClosedIsFinalHolds == Spec => ClosedIsFinal
  <1>1. IInv /\ [Next]_vars
          => [\A c \in Client : state[c] = "closed" => state'[c] = "closed"]_state
    <2> SUFFICES ASSUME IInv, [Next]_vars, NEW c \in Client, state[c] = "closed"
                 PROVE  state'[c] = "closed"
      OBVIOUS
    <2>1. CASE UNCHANGED state
      BY <2>1
    <2>2. ASSUME NEW d \in Client, Run(d) PROVE state'[c] = "closed"
      BY <2>2 DEF Run, IInv, TypeOK, ConnInv
    <2>3. ASSUME NEW d \in Client, ExitStore(d) PROVE state'[c] = "closed"
      BY <2>3 DEF ExitStore, IInv, TypeOK
    <2>4. ASSUME NEW i, ExitClient(i) PROVE state'[c] = "closed"
      BY <2>4 DEF ExitClient, IInv, TypeOK
    <2>5. QED
      BY <2>1, <2>2, <2>3, <2>4
         DEF Next, vars, HandleConnection, AddClient, Hello, Authenticate, UpdateClient,
             ReadOldID, SetID, Kick, NotifyKickOut, RetrySetID, ReplySuccess, ReplyFailure,
             EndAuth, ExitLoad, Exit, ExitReadID, ExitManager, ExitTail, StopRead,
             RpcSetClientID, RpcExitClient
  <1>2. QED
    BY <1>1, Invariance, PTL DEF Spec, ClosedIsFinal

-----------------------------------------------------------------------------
(* The gateway implements the registry. *)

\* A client has at most one key, so CHOOSE finds it.
LEMMA KeyOfIsKey ==
  ASSUME IInv, NEW c \in Client
  PROVE  /\ \A i \in ID : KeyOf(c) = i <=> clients[i] = c
         /\ KeyOf(c) = NoID <=> \A i \in ID : clients[i] # c
         /\ KeyOf(c) \in ID \cup {NoID}
  BY DEF KeyOf, IInv, OneKeyInv, TypeOK

\* A client is where it was when its keys are what they were.
LEMMA KeyOfSame ==
  ASSUME IInv, IInv', NEW c \in Client, \A i \in ID : clients'[i] = c <=> clients[i] = c
  PROVE  KeyOf(c)' = KeyOf(c)
  <1>1. /\ \A i \in ID : KeyOf(c)' = i <=> clients'[i] = c
        /\ KeyOf(c)' = NoID <=> \A i \in ID : clients'[i] # c
    BY DEF KeyOf, IInv, OneKeyInv, TypeOK
  <1>2. QED
    BY <1>1, KeyOfIsKey

Where == [c \in Client |-> KeyOf(c)]
Joined == {c \in Client : conn[c] # "new"}

\* AddClient admits a client under a free temporary id.
LEMMA AddClientMaps ==
  ASSUME IInv, IInv', NEW c \in Client, AddClient(c)
  PROVE  Reg!Next
  <1>0. PICK t \in TempID \ used : clients' = [clients EXCEPT ![t] = c]
    BY DEF AddClient
  <1>1. clients[t] = NoClient /\ conn[c] = "new" /\ \A i \in ID : clients[i] # c
    BY DEF IInv, FreshInv, Fresh, ConnInv, AddClient
  <1>2. \A d \in Client : KeyOf(d) # t
    BY <1>1, KeyOfIsKey
  <1>3. \A d \in Client \ {c} : KeyOf(d)' = KeyOf(d)
    BY <1>0, <1>1, KeyOfSame DEF IInv, TypeOK
  <1>4. KeyOf(c)' = t
    BY <1>0 DEF KeyOf, IInv, OneKeyInv, TypeOK
  <1>5. Where' = [Where EXCEPT ![c] = t]
    BY <1>3, <1>4 DEF Where
  <1>6. Joined' = Joined \cup {c} /\ c \notin Joined
    BY <1>1 DEF Joined, AddClient, IInv, TypeOK
  <1>7. Reg!Add(c)
    BY <1>2, <1>5, <1>6 DEF Reg!Add, Reg!Free, Where, Joined
  <1>8. QED
    BY <1>7 DEF Reg!Next

\* A rename moves one client to a free id.
LEMMA RenameMaps ==
  ASSUME IInv, IInv', NEW old \in ID, NEW new \in ID, Registered(old), ~Registered(new),
         Rename(old, new), UNCHANGED conn
  PROVE  Reg!Next
  <1>1. PICK c \in Client : clients[old] = c
    BY DEF IInv, TypeOK, Registered
  <1>2. clients' = [clients EXCEPT ![old] = NoClient, ![new] = c]
    BY <1>1 DEF Rename
  <1>3. clients[new] = NoClient /\ old # new
    BY DEF IInv, TypeOK, Registered
  <1>4. \A d \in Client : KeyOf(d) # new
    BY <1>3, KeyOfIsKey
  <1>5. \A d \in Client \ {c} : KeyOf(d)' = KeyOf(d)
    BY <1>1, <1>2, <1>3, KeyOfSame DEF IInv, TypeOK
  <1>6. KeyOf(c)' = new
    BY <1>1, <1>2 DEF KeyOf, IInv, OneKeyInv, TypeOK
  <1>7. KeyOf(c) # NoID
    BY <1>1, KeyOfIsKey
  <1>8. Where' = [Where EXCEPT ![c] = new]
    BY <1>5, <1>6 DEF Where
  <1>9. Reg!Rename(c)
    BY <1>1, <1>4, <1>7, <1>8 DEF Reg!Rename, Reg!Free, Reg!ID, Where
  <1>10. QED
    BY <1>1, <1>9 DEF Reg!Next

\* ExitClient removes one client, or nobody when the id is unknown.
LEMMA ExitClientMaps ==
  ASSUME IInv, IInv', NEW i, Registered(i), ExitClient(i), UNCHANGED conn
  PROVE  Reg!Next
  <1>1. PICK c \in Client : clients[i] = c
    BY DEF IInv, TypeOK, Registered
  <1>2. i \in ID /\ clients' = [clients EXCEPT ![i] = NoClient]
    BY DEF Registered, ExitClient
  <1>3. \A d \in Client \ {c} : KeyOf(d)' = KeyOf(d)
    BY <1>1, <1>2, KeyOfSame DEF IInv, TypeOK
  <1>4. \A j \in ID : clients'[j] # c
    BY <1>1, <1>2 DEF IInv, OneKeyInv, TypeOK
  <1>5. KeyOf(c)' = NoID
    BY <1>4 DEF KeyOf
  <1>6. KeyOf(c) # NoID
    BY <1>1, <1>2, KeyOfIsKey
  <1>7. Where' = [Where EXCEPT ![c] = NoID]
    BY <1>3, <1>5 DEF Where
  <1>8. Reg!Remove(c)
    BY <1>1, <1>6, <1>7 DEF Reg!Remove, Where
  <1>9. QED
    BY <1>1, <1>8 DEF Reg!Next

\* Everything else is a stutter of the registry.
LEMMA StutterMaps ==
  ASSUME UNCHANGED clients, Joined' = Joined
  PROVE  UNCHANGED Reg!vars
  BY DEF Reg!vars, KeyOf, Joined

LEMMA StepMaps == IInv /\ IInv' /\ [Next]_vars => [Reg!Next]_(Reg!vars)
  <1> SUFFICES ASSUME IInv, IInv', [Next]_vars PROVE Reg!Next \/ UNCHANGED Reg!vars
    OBVIOUS
  <1>1. CASE UNCHANGED <<clients, conn>>
    BY <1>1, StutterMaps DEF Joined
  <1>2. ASSUME NEW c \in Client, HandleConnection(c) PROVE Reg!Next \/ UNCHANGED Reg!vars
    <2>1. CASE AddClient(c)
      BY <2>1, AddClientMaps
    <2>2. CASE Run(c) \/ Hello(c)
      <3>1. UNCHANGED clients /\ Joined' = Joined
        BY <2>2 DEF Run, Hello, Joined, IInv, TypeOK
      <3>2. QED
        BY <3>1, StutterMaps
    <2>3. QED
      BY <1>2, <2>1, <2>2 DEF HandleConnection
  <1>3. ASSUME NEW c \in Client, SetID(c) \/ Kick(c) \/ RetrySetID(c)
        PROVE  Reg!Next \/ UNCHANGED Reg!vars
    <2>1. UNCHANGED conn
      BY <1>3 DEF SetID, Kick, RetrySetID
    <2>2. CASE UNCHANGED clients
      BY <1>1, <2>1, <2>2
    <2>3. CASE \E old, new \in ID : Registered(old) /\ ~Registered(new) /\ Rename(old, new)
      BY <2>1, <2>3, RenameMaps
    <2>4. want[c] \in UID /\ (Kick(c) => temp[c] \in ID)
      BY <1>3 DEF SetID, Kick, RetrySetID, Goto, IInv, TypeOK, AuthInv
    <2>5. QED
      BY <1>3, <2>2, <2>3, <2>4 DEF SetID, Kick, RetrySetID, Registered
  <1>4. ASSUME NEW c \in Client, ExitManager(c) PROVE Reg!Next \/ UNCHANGED Reg!vars
    <2>1. CASE Registered(seen[c])
      BY <1>4, <2>1, ExitClientMaps DEF ExitManager
    <2>2. CASE ~Registered(seen[c])
      BY <1>1, <1>4, <2>2 DEF ExitManager, ExitClient
    <2>3. QED
      BY <2>1, <2>2
  <1>5. ASSUME NEW old \in RpcID, NEW new \in RpcID, RpcSetClientID(old, new) PROVE Reg!Next
    BY <1>5, RenameMaps DEF RpcSetClientID, RpcID, IInv, TypeOK
  <1>6. ASSUME NEW i \in RpcID, RpcExitClient(i) PROVE Reg!Next
    BY <1>6, ExitClientMaps DEF RpcExitClient
  <1>7. QED
    BY <1>1, <1>2, <1>3, <1>4, <1>5, <1>6
       DEF Next, vars, Authenticate, UpdateClient, ReadOldID, NotifyKickOut, ReplySuccess,
           ReplyFailure, EndAuth, ExitLoad, Exit, ExitStore, ExitReadID, ExitTail, StopRead

\* The gateway implements the registry: AddClient, the renames of SetClientID and
\* the removals of ExitClient are its only visible steps.
THEOREM Refinement == Spec => ImplementsRegistry
  <1>1. Init => Reg!Init
    BY DEF Init, Reg!Init, KeyOf
  <1>2. QED
    BY <1>1, StepMaps, Invariance, PTL DEF Spec, ImplementsRegistry, Reg!Spec
=============================================================================
