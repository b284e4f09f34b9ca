----------------------------- MODULE ImService -----------------------------
(***************************************************************************)
(* The IM service seen through its RPC interface: im_service/client calls  *)
(* im_service/server over rpcx, whose handlers work on the subscription    *)
(* service (pkg/subscription/subscription_impl) and on the gateway.        *)
(*                                                                         *)
(* A call is one or more attempts.  An attempt is handled by a goroutine   *)
(* of the server at any time after it was sent, also after its caller has  *)
(* given it up: the client works in Failtry mode, which sends the request  *)
(* again when the connection fails and not when the service answers.       *)
(*                                                                         *)
(* One channel id is modelled.  RemoveChannel takes the Channel out of the *)
(* map and leaves it alive, so that the channel has incarnations; inside   *)
(* each, what Channel and ChannelSeq check step by step is one step here,  *)
(* but for Publish, which numbers and stores a message before sending it.  *)
(***************************************************************************)
EXTENDS Integers, Sequences, FiniteSets, Functions

CONSTANTS Caller,    \* the goroutines of other services that make calls
          Late,      \* places for attempts given up and still to be handled
          Retries,   \* Option.Retries of the rpcx client
          Id,        \* clients of the gateway, and subscribers
          Services,  \* what callers use: operations ops for ids, channel infos
                     \* (what Update copies: blocked, muted), permissions perms
                     \* (subsets of read, write, system, admin), up to msgs
                     \* messages (a bound); and whether the channel is ever
                     \* idle for messageQueueTimeout (idle)
          MaxInc,    \* bound: incarnations of the channel
          MaxMsg,    \* the largest msgs
          QueueCap   \* capacity of Channel.messages, 100 in the code

ASSUME ImConstants ==
  /\ IsFiniteSet(Caller) /\ IsFiniteSet(Late) /\ Caller \cap Late = {}
  /\ Retries \in Nat /\ MaxInc \in Nat /\ MaxMsg \in Nat /\ QueueCap \in Nat
  /\ \A s \in Services : s.ids \subseteq Id /\ s.msgs \in 0..MaxMsg

VARIABLES
  channels,    \* realSubscription.channels: the incarnation in the map, or 0
  chan,        \* the Channels made so far
  clients,     \* Impl.clients: what the gateway knows of each id
  service,     \* what the callers use, chosen once
  att,         \* the attempt each caller waits for, and the late ones
  tries,       \* how often the caller's client has sent the request again
  alone,       \* history: nothing else has run since the call began
  tried,       \* history: attempts made for each message
  copies,      \* history: copies of each message the gateway accepted for each id
  pushed,      \* history: how many numbered messages were pushed
  failed,      \* history: how many Publish failed with after numbering them
  dropped,     \* history: how many a consumer at rest dropped
  quit         \* history: ids told that they are not subscribed any more

server == <<channels, chan, clients>>
vars == <<channels, chan, clients, service, att, tries, alone, tried, copies,
          pushed, failed, dropped, quit>>

Msg == 1..MaxMsg
Inc == 1..MaxInc
Made == DOMAIN chan
Notice == [msg |-> 0, seq |-> 0]
None == [at |-> "none"]

\* What the methods of SubscriptionRpcImpl send.  UpdateSubscriber is handled
\* by Channel.Subscribe, as Subscribe is.  Of a ChanInfo the request carries no
\* Secret: a channel of the service never asks for a ticket.  A Publish is of a
\* chat message ("publish") or of a notification ("notify"), its Type.
SubscriptionRequest(m) ==
  {[op |-> "create", info |-> i] : i \in service.infos}
  \cup {[op |-> "update", info |-> i] : i \in service.infos}
  \cup {[op |-> "remove"]}
  \cup {[op |-> "subscribe", id |-> u, perm |-> p] : u \in service.ids, p \in service.perms}
  \cup {[op |-> "unsubscribe", id |-> u] : u \in service.ids}
  \cup {[op |-> "publish", id |-> u, msg |-> m] : u \in service.ids}
  \cup {[op |-> "notify", id |-> u, msg |-> m] : u \in service.ids}

\* And those of GatewayRpcImpl.
GatewayRequest(m) ==
  {[op |-> "setID", id |-> u, new |-> v] : u, v \in service.ids}
  \cup {[op |-> "exit", id |-> u] : u \in service.ids}
  \cup {[op |-> "secret", id |-> u] : u \in service.ids}
  \cup {[op |-> "enqueue", id |-> u, msg |-> m] : u \in service.ids}

Request(m) == SubscriptionRequest(m) \cup GatewayRequest(m)

CarriesMsg(r) == r.op \in {"publish", "notify", "enqueue"}

Init ==
  /\ channels = 0
  /\ chan = <<>>
  /\ clients = [u \in Id |-> "known"]
  /\ service \in Services
  /\ att = [a \in Caller \cup Late |-> None]
  /\ tries = [p \in Caller |-> 0]
  /\ alone = [p \in Caller |-> FALSE]
  /\ tried = [m \in Msg |-> 0]
  /\ copies = [m \in Msg |-> [u \in Id |-> 0]]
  /\ pushed = [i \in Inc |-> 0]
  /\ failed = [i \in Inc |-> 0]
  /\ dropped = [i \in Inc |-> 0]
  /\ quit = {}

-----------------------------------------------------------------------------
(* The caller and the rpcx client. *)

\* A request handed to rpcx.
Sent(r) == [at |-> "sent", req |-> r]

\* A method of Client.
Call(p) ==
  /\ att[p] = None
  /\ \E m \in {n \in 1..service.msgs : tried[n] = 0} \cup {0} :
     \E r \in Request(m) :
       /\ r.op \in service.ops
       /\ CarriesMsg(r) <=> m # 0
       /\ \A n \in Msg : n < m => tried[n] > 0
       /\ att' = [att EXCEPT ![p] = Sent(r)]
       /\ tried' = IF m = 0 THEN tried ELSE [tried EXCEPT ![m] = 1]
       /\ quit' = IF r.op = "subscribe" THEN quit \ {r.id} ELSE quit
  /\ tries' = [tries EXCEPT ![p] = 0]
  /\ alone' = [q \in Caller |->
                 q = p /\ \A b \in DOMAIN att \ {p} : att[b] = None]
  /\ UNCHANGED <<server, service, copies, pushed, failed, dropped>>

\* The connection fails, before or after the request was handled: the request
\* or the reply is lost, or the request is still on its way to the server.
\* The client sends it again until its retries are used up; after that the
\* caller gets an error.
Break(p) ==
  /\ att[p] # None
  /\ LET again == IF tries[p] < Retries THEN Sent(att[p].req) ELSE None
     IN \/ /\ att[p].at \in {"sent", "done"}
           /\ att' = [att EXCEPT ![p] = again]
        \/ /\ att[p].at \in {"sent", "numbered"}
           /\ \E s \in Late :
                /\ att[s] = None
                /\ att' = [att EXCEPT ![p] = again, ![s] = att[p]]
  /\ tries' = [tries EXCEPT ![p] = IF @ < Retries THEN @ + 1 ELSE 0]
  /\ tried' = IF tries[p] < Retries /\ CarriesMsg(att[p].req)
              THEN [tried EXCEPT ![att[p].req.msg] = @ + 1] ELSE tried
  /\ UNCHANGED <<server, service, alone, copies, pushed, failed, dropped, quit>>

\* What the caller is told.  Errors of the gateway's operations come back as
\* the call's error, those of the subscription's as the code of the reply,
\* which getResponseError turns into one.
Told(p) == att[p].res

\* The reply arrives and BaseClient.Call returns.
Return(p) ==
  /\ att[p].at = "done"
  /\ att' = [att EXCEPT ![p] = None]
  /\ tries' = [tries EXCEPT ![p] = 0]
  /\ quit' = IF /\ att[p].req.op = "unsubscribe"
                /\ alone[p]
                /\ Told(p) \in {"ok", "notSubscribed", "notExist"}
             THEN quit \cup {att[p].req.id} ELSE quit
  /\ UNCHANGED <<server, service, alone, tried, copies, pushed, failed, dropped>>

-----------------------------------------------------------------------------
(* The server: IMRpcService's handlers. *)

\* The handler of attempt a has an answer, the code and the text it puts into
\* the response; nobody waits for a late one.
Answer(a, res) ==
  att' = [att EXCEPT ![a] =
            IF a \in Late THEN None
            ELSE [at |-> "done", req |-> att[a].req, res |-> res]]

\* The operation a request stands for, handed on by the wrapper.
Handles(a, op) == att[a].at = "sent" /\ att[a].req.op = op

\* realSubscription.mu is free for a writer: no Publish is under way.
NoReader == \A a \in DOMAIN att : att[a].at # "numbered"

Current == chan[channels]

NewChannel(info) ==
  [subs |-> <<>>, info |-> info, seq |-> 0, queue |-> <<>>, resting |-> FALSE]

\* Variant: the channel made again has the members of the removed one.
CreateChannelInheriting(a) ==
  /\ Handles(a, "create")
  /\ NoReader
  /\ channels = 0
  /\ Len(chan) < MaxInc
  /\ chan' = Append(chan,
       [NewChannel(att[a].req.info) EXCEPT
          !.subs = IF chan = <<>> THEN <<>> ELSE chan[Len(chan)].subs])
  /\ channels' = Len(chan')
  /\ Answer(a, "ok")
  /\ UNCHANGED clients

\* CreateChannel; the sequence store may fail in NewChannel.
CreateChannel(a) ==
  /\ Handles(a, "create")
  /\ NoReader
  /\ \/ /\ channels # 0
        /\ Answer(a, "exists")
        /\ UNCHANGED <<channels, chan>>
     \/ /\ channels = 0
        /\ Answer(a, "store")
        /\ UNCHANGED <<channels, chan>>
     \/ /\ channels = 0
        /\ Len(chan) < MaxInc
        /\ chan' = Append(chan, NewChannel(att[a].req.info))
        /\ channels' = Len(chan')
        /\ Answer(a, "ok")
  /\ UNCHANGED clients

\* RemoveChannel: the Channel is not closed, its consumer goes on.
RemoveChannel(a) ==
  /\ Handles(a, "remove")
  /\ NoReader
  /\ channels' = 0
  /\ Answer(a, IF channels = 0 THEN "notExist" ELSE "ok")
  /\ UNCHANGED <<chan, clients>>

\* enqueueNotify: a notice that finds the queue full is dropped.
EnqueueNotify(q) == IF Len(q) < QueueCap THEN Append(q, Notice) ELSE q

\* What the channel's operations do to it, and their answers; in a variant a
\* member that subscribes again keeps its permissions.
UpdateChannel(c, r) == <<[c EXCEPT !.info = r.info], "ok">>

Put(subs, u, perm) == [x \in DOMAIN subs \cup {u} |-> IF x = u THEN perm ELSE subs[x]]

SubscribeKeepingPerm(c, r) ==
  CASE c.info.blocked -> <<c, "blocked">>
    [] ~c.info.blocked /\ r.id \in DOMAIN c.subs -> <<c, "ok">>
    [] ~c.info.blocked /\ r.id \notin DOMAIN c.subs ->
         <<[c EXCEPT !.subs = Put(@, r.id, r.perm),
                     !.queue = EnqueueNotify(EnqueueNotify(@))], "ok">>

Subscribe(c, r) ==
  CASE c.info.blocked -> <<c, "blocked">>
    [] ~c.info.blocked /\ r.id \in DOMAIN c.subs ->
         <<[c EXCEPT !.subs = Put(@, r.id, r.perm)], "ok">>
    [] ~c.info.blocked /\ r.id \notin DOMAIN c.subs ->
         <<[c EXCEPT !.subs = Put(@, r.id, r.perm),
                     !.queue = EnqueueNotify(EnqueueNotify(@))], "ok">>

Unsubscribe(c, r) ==
  IF r.id \notin DOMAIN c.subs
  THEN <<c, "notSubscribed">>
  ELSE <<[c EXCEPT !.subs = Restrict(@, DOMAIN @ \ {r.id}),
                   !.queue = EnqueueNotify(@)], "ok">>

\* realSubscription's operations on a channel: they have effect e on the one in
\* the map, if there is one.
OnCurrent(e) ==
  IF channels = 0 THEN <<chan, "notExist">>
  ELSE <<[chan EXCEPT ![channels] = e[1]], e[2]>>

\* UpdateChannel, Subscribe, UpdateSubscriber and UnSubscribe, by their flags.
OnChannel(a) ==
  /\ \E op \in {"update", "subscribe", "unsubscribe"} : Handles(a, op)
  /\ LET r == att[a].req
         e == CASE r.op = "update" -> OnCurrent(UpdateChannel(Current, r))
                [] r.op = "subscribe" -> OnCurrent(Subscribe(Current, r))
                [] r.op = "unsubscribe" -> OnCurrent(Unsubscribe(Current, r))
     IN chan' = e[1] /\ Answer(a, e[2])
  /\ UNCHANGED <<channels, clients>>

\* Channel.Publish up to enqueue: why a message is failed, or "ok".
Admit(c, u) ==
  IF u \notin DOMAIN c.subs THEN "notMember"
  ELSE LET p == c.subs[u]
           muted == c.info.muted /\ ~({"system", "admin"} \subseteq p)
           blocked == c.info.blocked /\ "system" \notin p
       IN CASE "write" \notin p -> "denied"
            [] "write" \in p /\ muted -> "muted"
            [] "write" \in p /\ ~muted /\ blocked -> "blocked"
            [] "write" \in p /\ ~muted /\ ~blocked -> "ok"

\* realSubscription.Publish: whether the message may be published.
Verdict(u) == IF channels = 0 THEN "notExist" ELSE Admit(Current, u)

\* Publish: the checks; then the message gets its number, unless nextSeq has to
\* load a segment and fails, and is stored, which may fail too.  The handler keeps
\* the read lock until it answers.
PublishNumber(a) ==
  /\ Handles(a, "publish")
  /\ \/ /\ Verdict(att[a].req.id) # "ok"
        /\ Answer(a, Verdict(att[a].req.id))
        /\ UNCHANGED <<chan, failed>>
     \/ /\ Verdict(att[a].req.id) = "ok"
        /\ Answer(a, "store")
        /\ UNCHANGED <<chan, failed>>
     \/ /\ Verdict(att[a].req.id) = "ok"
        /\ chan' = [chan EXCEPT ![channels].seq = @ + 1]
        /\ \/ /\ att' = [att EXCEPT ![a] =
                   [at |-> "numbered", req |-> @.req, seq |-> Current.seq + 1]]
              /\ UNCHANGED failed
           \/ /\ Answer(a, "store")
              /\ failed' = [failed EXCEPT ![channels] = @ + 1]
  /\ UNCHANGED <<channels, clients>>

\* Variant: like a notice, a message that finds the queue full is dropped.
PublishSendSilent(a) ==
  /\ att[a].at = "numbered"
  /\ LET m == [msg |-> att[a].req.msg, seq |-> att[a].seq]
     IN chan' = [chan EXCEPT ![channels].queue =
                   IF Len(@) < QueueCap THEN Append(@, m) ELSE @]
  /\ Answer(a, "ok")
  /\ UNCHANGED <<channels, clients, failed>>

\* Publish: the message is sent to the queue, or refused when that is full.
PublishSend(a) ==
  /\ att[a].at = "numbered"
  /\ LET m == [msg |-> att[a].req.msg, seq |-> att[a].seq]
     IN IF Len(Current.queue) < QueueCap
        THEN /\ chan' = [chan EXCEPT ![channels].queue = Append(@, m)]
             /\ Answer(a, "ok")
             /\ UNCHANGED failed
        ELSE /\ failed' = [failed EXCEPT ![channels] = @ + 1]
             /\ Answer(a, "full")
             /\ UNCHANGED chan
  /\ UNCHANGED <<channels, clients>>

\* Publish of a notification: it gets no number and is not stored.
PublishNotify(a) ==
  /\ Handles(a, "notify")
  /\ LET r == att[a].req
         fits == Verdict(r.id) = "ok" /\ Len(Current.queue) < QueueCap
     IN \/ /\ fits
           /\ chan' = [chan EXCEPT ![channels].queue =
                         Append(@, [msg |-> r.msg, seq |-> 0])]
           /\ Answer(a, "ok")
        \/ /\ ~fits
           /\ Answer(a, IF Verdict(r.id) = "ok" THEN "full" ELSE Verdict(r.id))
           /\ UNCHANGED chan
  /\ UNCHANGED <<channels, clients>>

\* A client in the gateway's map is a guest without credentials, known, or
\* known with a secret sent by a service.
Registered(u) == clients[u] # "absent"

\* Impl.SetClientID, ExitClient and UpdateClient.  UpdateClient dereferences
\* the credentials of the client: for a guest the handler panics, which rpcx
\* answers with an error.
Gate(r) ==
  CASE ~Registered(r.id) -> <<clients, "notExist">>
    [] Registered(r.id) /\ r.op = "setID" ->
         IF Registered(r.new) THEN <<clients, "exists">>
         ELSE <<[clients EXCEPT ![r.id] = "absent", ![r.new] = clients[r.id]], "ok">>
    [] Registered(r.id) /\ r.op = "exit" ->
         <<[clients EXCEPT ![r.id] = "absent"], "ok">>
    [] Registered(r.id) /\ r.op = "secret" ->
         IF clients[r.id] = "guest" THEN <<clients, "panic">>
         ELSE <<[clients EXCEPT ![r.id] = "secret"], "ok">>

\* The handler UpdateClient.
UpdateClient(a) ==
  /\ \E op \in {"setID", "exit", "secret"} : Handles(a, op)
  /\ LET e == Gate(att[a].req)
     IN clients' = e[1] /\ Answer(a, e[2])
  /\ UNCHANGED <<channels, chan>>

\* EnqueueMessage: a client that is no longer running refuses a message.
EnqueueMessage(a) ==
  /\ Handles(a, "enqueue")
  /\ LET r == att[a].req
     IN \/ /\ Registered(r.id)
           /\ copies' = [copies EXCEPT ![r.msg][r.id] = @ + 1]
           /\ Answer(a, "ok")
        \/ /\ Answer(a, IF Registered(r.id) THEN "closed" ELSE "notExist")
           /\ UNCHANGED copies
  /\ UNCHANGED server

\* One step of the handler of an attempt.
Handle(a) ==
  \/ /\ \/ CreateChannel(a)
        \/ RemoveChannel(a)
        \/ OnChannel(a)
        \/ PublishNotify(a)
        \/ UpdateClient(a)
     /\ UNCHANGED <<service, tries, alone, tried, copies, pushed, failed, dropped, quit>>
  \/ /\ PublishNumber(a) \/ PublishSend(a)
     /\ UNCHANGED <<service, tries, alone, tried, copies, pushed, dropped, quit>>
  \/ /\ EnqueueMessage(a)
     /\ UNCHANGED <<service, tries, alone, tried, pushed, failed, dropped, quit>>

-----------------------------------------------------------------------------
(* What goes on beside the calls. *)

\* Variant: a message stays in the queue until the gateway has refused it.
PushUntilRefused(i) ==
  /\ chan[i].queue # <<>>
  /\ LET m == Head(chan[i].queue)
         to == {u \in DOMAIN chan[i].subs : "read" \in chan[i].subs[u] /\ Registered(u)}
     IN /\ chan' = [chan EXCEPT ![i].queue =
                      IF m # Notice /\ to # {} THEN @ ELSE Tail(@)]
        /\ copies' = IF m = Notice THEN copies
                     ELSE [copies EXCEPT ![m.msg] =
                             [u \in Id |-> @[u] + IF u \in to THEN 1 ELSE 0]]
  /\ UNCHANGED <<channels, clients, service, att, tries, alone, tried, pushed,
                 failed, dropped, quit>>

\* The consumer of incarnation i pushes the next message of its queue to the
\* subscribers it finds then; the gateway drops what is for an unknown id.  It
\* does so too while a consumer rests: Channel shows that there may be two.
Push(i) ==
  /\ chan[i].queue # <<>>
  /\ LET m == Head(chan[i].queue)
         to == {u \in DOMAIN chan[i].subs : "read" \in chan[i].subs[u] /\ Registered(u)}
     IN /\ chan' = [chan EXCEPT ![i].queue = Tail(@)]
        /\ copies' = IF m = Notice THEN copies
                     ELSE [copies EXCEPT ![m.msg] =
                             [u \in Id |-> @[u] + IF u \in to THEN 1 ELSE 0]]
        /\ pushed' = IF m.seq = 0 THEN pushed ELSE [pushed EXCEPT ![i] = @ + 1]
  /\ UNCHANGED <<channels, clients, service, att, tries, alone, tried, failed,
                 dropped, quit>>

\* The consumer has been idle for messageQueueTimeout and goes to rest when the
\* queue has something again: it will drop what it takes until the queue is
\* closed, which nobody does.  With an empty queue it ends, and the next message
\* starts another one.
Rest(i) ==
  /\ service.idle
  /\ chan[i].queue # <<>>
  /\ ~chan[i].resting
  /\ chan' = [chan EXCEPT ![i].resting = TRUE]
  /\ UNCHANGED <<channels, clients, service, att, tries, alone, tried, copies,
                 pushed, failed, dropped, quit>>

\* A consumer at rest takes a message and drops it.
Drop(i) ==
  /\ chan[i].resting
  /\ chan[i].queue # <<>>
  /\ chan' = [chan EXCEPT ![i].queue = Tail(@)]
  /\ dropped' = IF Head(chan[i].queue).seq = 0 THEN dropped
                ELSE [dropped EXCEPT ![i] = @ + 1]
  /\ UNCHANGED <<channels, clients, service, att, tries, alone, tried, copies,
                 pushed, failed, quit>>

\* A client connects or logs in under id u, or leaves by itself.
ConnectOrLeave(u) ==
  /\ "exit" \in service.ops
  /\ \E c \in IF Registered(u) THEN {"absent"} ELSE {"guest", "known"} :
       clients' = [clients EXCEPT ![u] = c]
  /\ alone' = [p \in Caller |-> FALSE]
  /\ UNCHANGED <<channels, chan, service, att, tries, tried, copies, pushed, failed,
                 dropped, quit>>

Next ==
  \/ \E p \in Caller : Call(p) \/ Break(p) \/ Return(p)
  \/ \E a \in Caller \cup Late : Handle(a)
  \/ \E i \in Made : Push(i) \/ Rest(i) \/ Drop(i)
  \/ \E u \in service.ids : ConnectOrLeave(u)

Spec == Init /\ [][Next]_vars

-----------------------------------------------------------------------------
(* Properties. *)

Answers == {"ok", "exists", "notExist", "store", "blocked", "muted", "denied",
            "notMember", "notSubscribed", "full", "closed", "panic"}

AttemptOK(a) ==
  \/ att[a] = None
  \/ /\ att[a].req \in UNION {Request(m) : m \in 0..MaxMsg}
     /\ CASE att[a].at = "sent" -> TRUE
          [] att[a].at = "numbered" -> channels # 0 /\ att[a].seq \in 1..Current.seq
          [] att[a].at = "done" -> a \in Caller /\ att[a].res \in Answers

\* Every variable has its type; the queues never exceed their capacity, the
\* incarnation in the map is the last one made, and it stays there while a
\* Publish works on it (CreateChannel, RemoveChannel, enqueue).
TypeOK ==
  /\ channels \in {0, Len(chan)}
  /\ Len(chan) <= MaxInc
  /\ \A i \in Made :
       /\ DOMAIN chan[i].subs \subseteq Id
       /\ chan[i].info \in service.infos
       /\ \A k \in DOMAIN chan[i].queue :
            chan[i].queue[k].msg \in Msg \cup {0}
       /\ Len(chan[i].queue) <= QueueCap
       /\ chan[i].resting \in BOOLEAN
  /\ clients \in [Id -> {"absent", "guest", "known", "secret"}]
  /\ \A a \in Caller \cup Late : AttemptOK(a)
  /\ tries \in [Caller -> 0..Retries]
  /\ quit \subseteq Id

GatewayOp(r) == r.op \in {"setID", "exit", "secret", "enqueue"}
ChannelOp(r) == r.op \in {"remove", "update", "subscribe", "unsubscribe",
                         "publish", "notify"}

\* What an answer says about the service when nothing else ran meanwhile.
Agrees(r, res) ==
  /\ GatewayOp(r) /\ res = "notExist" => ~Registered(r.id)
  /\ r.op = "setID" /\ res \in {"ok", "exists"} => Registered(r.new)
  /\ r.op = "exit" /\ res = "ok" => ~Registered(r.id)
  /\ r.op = "secret" /\ res = "ok" => clients[r.id] = "secret"
  /\ ChannelOp(r) /\ res = "notExist" => channels = 0
  /\ r.op = "create" /\ res \in {"ok", "exists"} => channels # 0
  /\ r.op = "remove" /\ res = "ok" => channels = 0
  /\ r.op = "update" /\ res = "ok" => channels # 0 /\ Current.info = r.info
  /\ r.op = "subscribe" /\ res = "ok" =>
       channels # 0 /\ r.id \in DOMAIN Current.subs /\ Current.subs[r.id] = r.perm
  /\ r.op = "unsubscribe" /\ res # "notExist" =>
       channels # 0 /\ r.id \notin DOMAIN Current.subs
  /\ r.op \in {"publish", "notify"} /\ res = "notMember" =>
       channels # 0 /\ r.id \notin DOMAIN Current.subs
  /\ r.op \in {"publish", "notify"} /\ res = "muted" => channels # 0 /\ Current.info.muted
  /\ r.op \in {"publish", "notify", "subscribe"} /\ res = "blocked" => channels # 0 /\ Current.info.blocked

\* The answer of a call tells what the service now is, however often the rpcx
\* client sent the request and whatever became of the earlier attempts: after
\* create the channel is there, after remove it is not, after subscribe and
\* unsubscribe the member is or is not in it, after update its info is as
\* asked; after exit the client is gone, after setID the new id is taken, after
\* a secret it is the client's.  Not so when another call was under way.
AnswerTellsState ==
  \A p \in Caller :
    att[p].at = "done" /\ alone[p] => Agrees(att[p].req, Told(p))

\* The gateway accepts a message of one Publish or EnqueueMessage for a client as
\* often as it was sent at most: without retries, never twice (Failtry,
\* Channel.push).
CopiesAreRetries ==
  \A m \in Msg, u \in Id : copies[m][u] <= tried[m]

\* The state is well typed, and every number a channel has given out was pushed,
\* waits in its queue, is in the hands of a handler, belongs to a Publish that
\* failed in the store or at a full queue, or was dropped by a consumer at rest,
\* and then the channel has one for good.  So a gap in the numbers of a channel
\* that never went to rest is a Publish whose handler answered an error; its
\* sender has heard that unless the reply was lost or came too late.  In a channel
\* at rest a message whose Publish was answered ok may be gone (enqueue,
\* checkMsgQueue).
NumbersAccounted == TypeOK /\
  \A i \in Made :
    /\ chan[i].seq = pushed[i] + failed[i] + dropped[i]
                  + Cardinality({k \in DOMAIN chan[i].queue : chan[i].queue[k].seq # 0})
                  + IF i # channels THEN 0
                    ELSE Cardinality({a \in DOMAIN att : att[a].at = "numbered"})
    /\ dropped[i] # 0 => chan[i].resting

\* A subscriber that was told that it left, and has not asked to come back,
\* gets no message of the channel any more, also when the channel was removed
\* and made again; only a removed Channel in which it is still a member goes on
\* sending it what is in the queue, because RemoveChannel does not close it.
LeftIsSilent ==
  [][\A u \in quit, m \in Msg :
       channels # 0 /\ copies'[m][u] # copies[m][u]
         => chan'[channels].queue = chan[channels].queue]_vars
=============================================================================
