----------------------------- MODULE Messaging ------------------------------
(***************************************************************************)
(* The way of a client's message through the server: the ticket check in   *)
(* the client's read loop (pkg/gate/authenticator.go, MessageInterceptor), *)
(* the pool and the chain of handlers (pkg/messaging/messaging.go,         *)
(* handler.go), the handlers (chat.go, sub.go, misc.go, cli_custom.go) and *)
(* the gateway that takes their answers and pushes (gateway.go).           *)
(*                                                                         *)
(* The clients come, move and leave as the module Registry allows, which   *)
(* the module Gateway implements.  A handler runs on the pool while they   *)
(* do.  It has a pointer to the live info of its client, so it finds the   *)
(* id of the moment; but it reads the id first and the gateway looks it up *)
(* afterwards, and those are two steps.  What the gateway takes is a task  *)
(* for its pool: the handler goes on, and the task puts the message into   *)
(* the queue of the connection later, or finds that closed or full.        *)
(*                                                                         *)
(* The module follows one message.  Others meet it only in the pools,      *)
(* which may be full at any time.  Errors are reported to the client, as   *)
(* cmd/im_service/main.go sets it (NotifyOnErr).                           *)
(***************************************************************************)
EXTENDS Integers, FiniteSets, Sequences

CONSTANTS
  Client,    \* connections
  UID,       \* ids of logged-in users, one for each of their devices
  TempID,    \* ids of anonymous connections
  NoID,      \* the empty id ""
  NoClient,  \* before a message is sent
  Devices,   \* the ids of the addressee in the order they are tried
  MaxMoves   \* changes of the registry (a bound)

ASSUME MessagingConstants ==
  /\ UID \cap TempID = {} /\ NoID \notin UID \cup TempID
  /\ NoClient \notin Client
  /\ Devices \in Seq(UID) /\ Devices # <<>>
  /\ \A m, n \in 1..Len(Devices) : Devices[m] = Devices[n] => m = n
  /\ MaxMoves \in Nat

VARIABLES
  where, joined,  \* the registry: id of each client; clients admitted so far
  open,      \* the clients in state running
  moves,     \* changes of the registry so far
  sender,    \* the client that sent the message
  msg,       \* the message
  pc,        \* where its handling is
  dest,      \* handler local: the id an answer goes to
  kind,      \* handler local: the answer
  cont,      \* handler local: what follows the answer
  todo,      \* handler local: devices to try
  stored,    \* whether StoreMessage returned without an error, and saved it
  offline,   \* whether StoreOffline took it, or failed
  taken,     \* how often the pool of the gateway took it for each client
  coming,    \* tasks of that pool that have not run: copies for each client,
  replies,   \* and answers, with the client they are for
  pushed,    \* how often it was put into the queue of each client
  answers,   \* the answers put into a queue, with the client
  acked,     \* history: an acknowledgement was sent
  moved,     \* history: clients that moved, closed or left since it was read
  refused,   \* history: the pool of the gateway refused a part of it
  dropped,   \* history: what found a full queue, with the client
  there      \* history: clients that hold a device of the addressee and are
             \* open ever since the dispatch began

registry == <<where, joined, open, moves>>
answer   == <<dest, kind, cont>>
history  == <<acked, moved, refused, there>>
results  == <<stored, offline, taken>>
pool     == <<coming, replies>>
queues   == <<pushed, answers, dropped>>
vars == <<registry, sender, msg, pc, answer, todo, results, pool, queues, history>>

Reg == INSTANCE Registry

\* The messages handlers tell apart: by action, by whether the body can be
\* decoded (sound), whether it has a server id (mid), and by whether the check
\* of the ticket lets it pass (a client without credentials needs none).
Message ==
  [action : {"chat"}, sound : BOOLEAN, mid : BOOLEAN, ticket : BOOLEAN]
  \cup [action : {"group"}, sound : BOOLEAN, ticket : BOOLEAN]
  \cup [action : {"resend"}, ticket : BOOLEAN]
  \cup [action : {"receipt", "state"}, sound : BOOLEAN]
  \cup [action : {"custom", "other", "strange"}]
NoMessage == [action |-> "none"]
Answer == {"ack", "error", "unknown", "forbidden"}
PC == {"idle", "read", "queued", "store", "answer", "push", "ackNotify",
       "storeOffline", "done"}

TypeOK ==
  /\ where \in [Client -> Reg!ID \cup {NoID}]
  /\ joined \in SUBSET Client /\ open \in SUBSET joined
  /\ moves \in 0..MaxMoves
  /\ sender \in Client \cup {NoClient}
  /\ msg \in Message \cup {NoMessage}
  /\ pc \in PC
  /\ dest \in Reg!ID \cup {NoID}
  /\ kind \in Answer \cup {""}
  /\ cont \in {"", "push", "done"}
  /\ \E n \in 1..Len(Devices) + 1 : todo = SubSeq(Devices, n, Len(Devices))
  /\ pc = "push" => todo # <<>>
  /\ stored \in {"no", "saved", "skipped"}
  /\ offline \in {"no", "stored", "failed"}
  /\ replies \in SUBSET (Client \X Answer)
  /\ answers \in SUBSET (Client \X Answer)
  /\ dropped \in SUBSET (Client \X (Answer \cup {"message"}))
  /\ \A copies \in {taken, coming, pushed} : copies \in [Client -> 0..Len(Devices)]
  /\ acked \in BOOLEAN /\ refused \in BOOLEAN
  /\ moved \in SUBSET Client /\ there \in SUBSET Client

Init ==
  /\ where \in [Client -> Reg!ID \cup {NoID}]
  /\ \A c, d \in Client : c # d /\ where[c] # NoID => where[c] # where[d]
  /\ joined = {c \in Client : where[c] # NoID}
  /\ open \in SUBSET joined
  /\ moves = 0
  /\ sender = NoClient /\ msg = NoMessage
  /\ pc = "idle"
  /\ dest = NoID /\ kind = "" /\ cont = ""
  /\ todo = <<>>
  /\ stored = "no" /\ offline = "no"
  /\ replies = {} /\ answers = {} /\ dropped = {}
  /\ taken = [c \in Client |-> 0]
  /\ coming = [c \in Client |-> 0]
  /\ pushed = [c \in Client |-> 0]
  /\ acked = FALSE /\ moved = {} /\ refused = FALSE /\ there = {}

-----------------------------------------------------------------------------
(* The registry. *)

Holder(i) == CHOOSE c \in Client : where[c] = i
Held(i)   == i # NoID /\ \E c \in Client : where[c] = i
Addressed == {Devices[n] : n \in 1..Len(Devices)}

\* The handling is over and the pool of the gateway has done its part.
Settled == pc = "done" /\ replies = {} /\ \A c \in Client : coming[c] = 0

\* What the history keeps of a change of client c.  Changes before and after the
\* message are left out: it can meet any registry at its beginning.
Note(c) ==
  /\ pc # "idle" /\ ~Settled
  /\ moves < MaxMoves /\ moves' = moves + 1
  /\ moved' = moved \cup {c}
  /\ there' = there \ {c}
  /\ UNCHANGED <<sender, msg, pc, answer, todo, results, pool, queues, acked, refused>>

Add(c)    == Reg!Add(c) /\ open' = open \cup {c} /\ Note(c)
Rename(c) == Reg!Rename(c) /\ UNCHANGED open /\ Note(c)
Remove(c) == Reg!Remove(c) /\ open' = open \ {c} /\ Note(c)

\* A client that exits by itself is closed before it is out of the registry.
Close(c) == /\ c \in open
            /\ open' = open \ {c}
            /\ UNCHANGED <<where, joined>>
            /\ Note(c)

-----------------------------------------------------------------------------
(* Impl.EnqueueMessage. *)

\* It fails if nobody holds the id, if the holder is closed ...
Reachable(i) == Held(i) /\ Holder(i) \in open

\* Variant of Answering: the answer goes to the addressee.
AnsweringAddressee(k, next) ==
  dest' = Devices[1] /\ kind' = k /\ cont' = next /\ pc' = "answer"

\* A handler begins to answer its client with k: it reads the id.
Answering(k, next) ==
  dest' = where[sender] /\ kind' = k /\ cont' = next /\ pc' = "answer"

\* A handler begins to push to the devices of the addressee.
Dispatching ==
  /\ pc' = "push"
  /\ todo' = Devices
  /\ there' = {c \in open : where[c] \in Addressed}

\* ... and if the pool of the gateway has no room.  No handler of an answer
\* looks at the error.
SendAnswer ==
  /\ pc = "answer"
  /\ \/ /\ Reachable(dest)
        /\ replies' = replies \cup {<<Holder(dest), kind>>}
        /\ UNCHANGED refused
     \/ /\ Reachable(dest)
        /\ refused' = TRUE
        /\ UNCHANGED replies
     \/ /\ ~Reachable(dest)
        /\ UNCHANGED <<replies, refused>>
  /\ \/ cont = "push" /\ Dispatching
     \/ cont = "done" /\ pc' = "done" /\ UNCHANGED <<todo, there>>
  /\ dest' = NoID /\ kind' = "" /\ cont' = ""
  /\ UNCHANGED <<registry, sender, msg, results, coming, queues, acked, moved>>

\* A task of the pool of the gateway: UserClient.EnqueueMessage puts the message
\* into the queue of its client, whose id may be another by now.  A client that
\* has closed gets nothing, and a full queue drops the message without an error;
\* the task looks at neither outcome.
Deliver(c) ==
  /\ coming[c] > 0
  /\ coming' = [coming EXCEPT ![c] = @ - 1]
  /\ \/ /\ c \in open
        /\ pushed' = [pushed EXCEPT ![c] = @ + 1]
        /\ UNCHANGED dropped
     \/ /\ c \in open
        /\ dropped' = dropped \cup {<<c, "message">>}
        /\ UNCHANGED pushed
     \/ c \notin open /\ UNCHANGED <<pushed, dropped>>
  /\ UNCHANGED <<registry, sender, msg, pc, answer, todo, results, replies, answers,
                 history>>

DeliverAnswer(a) ==
  /\ replies' = replies \ {a}
  /\ \/ /\ a[1] \in open
        /\ answers' = answers \cup {a}
        /\ UNCHANGED dropped
     \/ /\ a[1] \in open
        /\ dropped' = dropped \cup {a}
        /\ UNCHANGED answers
     \/ a[1] \notin open /\ UNCHANGED <<answers, dropped>>
  /\ UNCHANGED <<registry, sender, msg, pc, answer, todo, results, coming, pushed,
                 history>>

-----------------------------------------------------------------------------
(* The read loop of a client. *)

\* runRead takes a message; it stops at one for a client without an id.
Read(c, m) ==
  /\ pc = "idle"
  /\ where[c] # NoID
  /\ sender' = c /\ msg' = m
  /\ pc' = "read"
  /\ UNCHANGED <<registry, answer, todo, results, pool, queues, history>>

\* MessageInterceptor looks at the tickets of these messages only.
Forbidden(m) == m.action \in {"chat", "resend", "group"} /\ ~m.ticket

\* Variant of Accept: a full pool is not reported.
AcceptSilently ==
  /\ pc = "read"
  /\ \/ Forbidden(msg) /\ Answering("forbidden", "done")
     \/ ~Forbidden(msg) /\ pc' \in {"queued", "done"} /\ UNCHANGED answer
  /\ UNCHANGED <<registry, sender, msg, todo, results, pool, queues, history>>

\* MessageInterceptor turns the message away, or Handle gives it to the pool, or
\* the pool is full and the client is told.
Accept ==
  /\ pc = "read"
  /\ \/ Forbidden(msg) /\ Answering("forbidden", "done")
     \/ ~Forbidden(msg) /\ Answering("error", "done")
     \/ ~Forbidden(msg) /\ pc' = "queued" /\ UNCHANGED answer
  /\ UNCHANGED <<registry, sender, msg, todo, results, pool, queues, history>>

-----------------------------------------------------------------------------
(* The handlers. *)

Done == pc' = "done" /\ UNCHANGED answer

\* handleChatMessage: one that cannot be decoded ends in silence; one that has a
\* server id was stored before.
StartChat ==
  /\ pc = "queued" /\ msg.action = "chat"
  /\ \/ ~msg.sound /\ Done /\ UNCHANGED acked
     \/ msg.sound /\ ~msg.mid /\ pc' = "store" /\ UNCHANGED <<answer, acked>>
     \/ msg.sound /\ msg.mid /\ Answering("ack", "push") /\ acked' = TRUE
  /\ UNCHANGED <<registry, sender, msg, todo, results, pool, queues, moved, refused,
                 there>>

\* StoreMessage, then the acknowledgement; or its error, for the client.  Without
\* an error it may have saved nothing: ids that are no numbers are skipped.
Store ==
  /\ pc = "store"
  /\ \/ stored' \in {"saved", "skipped"} /\ acked' = TRUE /\ Answering("ack", "push")
     \/ Answering("error", "done") /\ UNCHANGED <<stored, acked>>
  /\ UNCHANGED <<registry, sender, msg, todo, offline, taken, pool, queues, moved,
                 refused, there>>

\* Variant of AfterPush: the message counts as delivered whatever the loop found.
AfterPushDelivered == "done"

\* After the last device: a chat message the pool took for none goes to the offline
\* store.
AfterPush == IF msg.action = "chat" /\ \A c \in Client : taken'[c] = 0
             THEN "ackNotify" ELSE "done"

\* EnqueueMessage gives the pool a copy for client c.
Take(c) == /\ taken' = [taken EXCEPT ![c] = @ + 1]
           /\ coming' = [coming EXCEPT ![c] = @ + 1]

\* Variant of Push: the loop ends with the first device.
PushFirstOnly ==
  /\ pc = "push"
  /\ IF Reachable(Head(todo)) THEN Take(Holder(Head(todo)))
                              ELSE UNCHANGED <<taken, coming>>
  /\ todo' = <<>>
  /\ pc' = AfterPush
  /\ UNCHANGED <<registry, sender, msg, answer, stored, offline, replies, queues,
                 history>>

\* dispatchAllDevice, dispatch2AllDevice: one turn of the loop.
Push ==
  /\ pc = "push"
  /\ \/ /\ Reachable(Head(todo))
        /\ Take(Holder(Head(todo)))
        /\ UNCHANGED refused
     \/ /\ Reachable(Head(todo))
        /\ refused' = TRUE
        /\ UNCHANGED <<taken, coming>>
     \/ /\ ~Reachable(Head(todo))
        /\ UNCHANGED <<taken, coming, refused>>
  /\ todo' = Tail(todo)
  /\ pc' = IF todo' = <<>> THEN AfterPush ELSE "push"
  /\ UNCHANGED <<registry, sender, msg, answer, stored, offline, replies, queues,
                 acked, moved, there>>

\* ackNotifyMessage: a notice to the first device of the addressee.  Whether it
\* arrives changes nothing for the message.
AckNotify ==
  /\ pc = "ackNotify"
  /\ pc' = "storeOffline"
  /\ UNCHANGED <<registry, sender, msg, answer, todo, results, pool, queues, history>>

\* dispatchOffline: StoreOffline takes the message, fails, or panics, which ends
\* the task (ChatMessageStore does not implement it).
StoreOffline ==
  /\ pc = "storeOffline"
  /\ \/ offline' = "stored" /\ Done
     \/ offline' = "failed" /\ Answering("error", "done")
     \/ offline' = "failed" /\ Done
  /\ UNCHANGED <<registry, sender, msg, todo, stored, taken, pool, queues, history>>

\* handleGroupMsg: PublishMessage, and its outcome for the client.
Publish ==
  /\ pc = "queued" /\ msg.action = "group"
  /\ \/ msg.sound /\ Answering("ack", "done")
     \/ Answering("error", "done")
  /\ UNCHANGED <<registry, sender, msg, todo, results, pool, queues, history>>

\* handleAckRequest, ClientCustomMessageHandler: passed on to the addressee.
PassOn ==
  /\ pc = "queued"
  /\ msg.action = "custom" \/ (msg.action = "receipt" /\ msg.sound)
  /\ Dispatching
  /\ UNCHANGED <<registry, sender, msg, answer, results, pool, queues, acked, moved,
                 refused>>

\* The end of the chain: no handler is registered for a resent message or for an
\* action the server does not know.
Unhandled ==
  /\ pc = "queued" /\ msg.action \in {"resend", "strange"}
  /\ Answering("unknown", "done")
  /\ UNCHANGED <<registry, sender, msg, todo, results, pool, queues, history>>

\* subUserStateApi returns the error of a body it cannot decode, which the client
\* is told; what it does with a sound one is in Presence.
SubUserState ==
  /\ pc = "queued" /\ msg.action = "state"
  /\ IF msg.sound THEN Done ELSE Answering("error", "done")
  /\ UNCHANGED <<registry, sender, msg, todo, results, pool, queues, history>>

\* handleHeartbeat, handleAckOffline, handleApiGroupMembers and
\* handleAckGroupMsgRequest keep and answer nothing, nor does handleAckRequest
\* for a body it cannot decode.
Ignore ==
  /\ pc = "queued"
  /\ msg.action = "other" \/ (msg.action = "receipt" /\ ~msg.sound)
  /\ Done
  /\ UNCHANGED <<registry, sender, msg, todo, results, pool, queues, history>>

-----------------------------------------------------------------------------
Step ==
  \/ Accept \/ StartChat \/ Store \/ SendAnswer \/ Push \/ AckNotify
  \/ StoreOffline \/ Publish \/ PassOn \/ Unhandled \/ SubUserState \/ Ignore

Delivery == (\E c \in Client : Deliver(c)) \/ (\E a \in replies : DeliverAnswer(a))

Move(c) == Add(c) \/ Rename(c) \/ Remove(c) \/ Close(c)

Next ==
  \/ Step
  \/ Delivery
  \/ \E c \in Client : Move(c) \/ \E m \in Message : Read(c, m)

\* The scheduler runs a read loop, and the tasks of both pools, that can run.
Spec == Init /\ [][Next]_vars /\ WF_vars(Step) /\ WF_vars(Delivery)

-----------------------------------------------------------------------------
(* Properties. *)

\* The state is well typed, and an answer (ack, error, unknown action, forbidden)
\* is on its way to, put into the queue of, or dropped by the connection that sent
\* the message, unless that connection lost its id meanwhile: the id a handler has
\* read may then be another's when the gateway looks it up.
AnswersToSender ==
  /\ TypeOK
  /\ \A a \in replies \cup answers : a[1] = sender \/ sender \in moved

\* What becomes of a chat message the server has acknowledged (chat.go).
\* StoreMessage had returned without an error, or the message came with a server
\* id.  When all is settled, a connection of the addressee has it in its queue, or
\* the offline store was asked to keep it; or the pool of the gateway took it for
\* some connections, each of which had a full queue or moved, closed or left before
\* the task ran: that is the one way in which it is lost with nothing stored for
\* later.
AckedIsAccountedFor ==
  acked => /\ stored # "no" \/ msg.mid
           /\ Settled => \/ offline # "no"
                         \/ \E c \in Client : pushed[c] > 0
                         \/ /\ \E c \in Client : taken[c] > 0
                            /\ \A c \in Client : taken[c] > 0 =>
                                 <<c, "message">> \in dropped \/ c \in moved

\* A connection that holds a device of the addressee and runs from the beginning
\* of the dispatch until all is settled has the message in its queue exactly once,
\* whoever comes and goes meanwhile, unless the queue was full when it came, or the
\* pool of the gateway refused a part; and the message is then not stored for
\* later.  No connection gets it twice, unless it changed from one device of the
\* addressee to another while the devices were tried (dispatchAllDevice).
PresentGetsItOnce ==
  /\ pc = "done" /\ ~refused /\ there # {} => offline = "no"
  /\ Settled /\ ~refused =>
       \A c \in there : pushed[c] = 1 <=> <<c, "message">> \notin dropped
  /\ \A c \in Client : pushed[c] <= 1 \/ c \in moved

\* A chat message that can be decoded, a group message, one that no handler knows, a
\* request for user states that cannot be decoded, one without the right ticket.
Expects(m) == \/ m.action \in {"group", "resend", "strange"}
              \/ m.action = "chat" /\ m.sound
              \/ m.action = "state" /\ ~m.sound
              \/ Forbidden(m)

\* Whoever sends one of these is answered in the end (Handle, handleChatMessage,
\* handleGroupMsg), if the connection stays as it is, the pool of the gateway has
\* room, and so has the connection's queue.
Answered ==
  pc = "read" /\ sender \in open /\ Expects(msg)
    ~> \/ sender \in moved \/ refused
       \/ \E k \in Answer : <<sender, k>> \in answers \cup dropped
=============================================================================
