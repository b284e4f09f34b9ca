------------------------------ MODULE Channel -------------------------------
(***************************************************************************)
(* A subscription channel (pkg/subscription/subscription_impl/chan.go):    *)
(* its subscribers, the bounded message queue, and the goroutine that      *)
(* checkMsgQueue starts to push queued messages and that stops when the    *)
(* queue is idle or closed.                                                *)
(*                                                                         *)
(* Workers are the goroutines that call the channel (the RPC server, the   *)
(* pool of the message handlers, the presence hooks).  The flag            *)
(* queueRunning, the counter queued and the Go channel messages are        *)
(* touched by workers and consumers without a common lock, so every access *)
(* is a step.  Channel.mu guards the subscribers; a worker inside          *)
(* Unsubscribe holds it while it sends its notice.                         *)
(***************************************************************************)
EXTENDS Integers, Sequences, FiniteSets

CONSTANTS
  Worker,    \* goroutines that call the channel
  Consumer,  \* goroutines of checkMsgQueue alive at the same time (a bound)
  Sub,       \* subscribers
  Member,    \* those who are subscribed, with PermRead and PermWrite, at first
  Cap,       \* capacity of the queue: 100 in NewChannel
  Uses,      \* ways the channel is used: which workers call which operations
  MaxMsg,    \* bound on the messages made
  Nobody     \* the lock is free

Read == "read"
Write == "write"
Admin == "admin"
System == "system"

\* The permissions given out by Subscribe (world_channel.go, rpc_server.go).
Perms == {{}, {Read}, {Write}, {Read, Write}, {Read, Write, Admin, System}}

Operation == {"publish", "notify", "subscribe", "unsubscribe", "update", "close"}

ASSUME ChannelConstants ==
  /\ IsFiniteSet(Worker) /\ IsFiniteSet(Consumer)
  /\ Member \subseteq Sub
  /\ Cap \in Nat \ {0}
  /\ MaxMsg \in Nat
  /\ \A u \in Uses :
       /\ u.workers \subseteq Worker
       /\ u.requests \subseteq Operation
       /\ u.msgs \in 0..MaxMsg
  /\ Nobody \notin Worker

VARIABLES
  joined,    \* keys of Channel.subscribers
  perm,      \* SubscriberInfo.Perm of each of them
  info,      \* ChanInfo: Closed (the Go channel is closed too), Muted, Blocked
  lock,      \* the worker that holds Channel.mu across steps
  queue,     \* Channel.messages
  queued,    \* Channel.queued
  running,   \* Channel.queueRunning # 0
  seq,       \* numbers given by nextSeq
  made,      \* messages made so far
  pc,        \* workers: where they are
  todo,      \* workers: the messages still to be sent by the operation
  arg,       \* workers: whom Subscribe adds, with which permission
  cpc,       \* consumers: where they are
  msg,       \* consumers: the message in hand
  got,       \* messages pushed to each subscriber, in order
  rested,    \* history: some consumer has come to REST
  use        \* the way the channel is used: workers, requests, msgs (a bound)

members == <<joined, perm, info>>
consumers == <<cpc, msg, got>>
vars == <<joined, perm, info, lock, queue, queued, running, seq, made, pc, todo, arg,
          cpc, msg, got, rested, use>>

\* A message: its identity, its sequence number (0 for a notice), and the
\* subscribers it is for (PublishMessage.To; empty for all).
Message == [id : 1..MaxMsg, seq : 0..MaxMsg, to : SUBSET Sub]
NoMsg == [id |-> 0, seq |-> 0, to |-> {}]
NoArg == [who |-> Nobody, perm |-> {}, id |-> 0]

WorkerPC == {"idle", "number", "insert", "send", "count", "check", "start"}
ConsumerPC == {"off", "loop", "uncount", "push", "rest", "drain", "dropped", "zero", "stop"}

TypeOK ==
  /\ joined \in SUBSET Sub
  /\ perm \in [Sub -> Perms]
  /\ info \in [closed : BOOLEAN, muted : BOOLEAN, blocked : BOOLEAN]
  /\ lock \in Worker \cup {Nobody}
  /\ queue \in Seq(Message) /\ Len(queue) \in 0..Cap
  /\ queued \in Int
  /\ running \in BOOLEAN
  /\ seq \in 0..MaxMsg /\ made \in 0..MaxMsg
  /\ pc \in [Worker -> WorkerPC]
  /\ todo \in [Worker -> Seq(Message)]
  /\ arg \in [Worker -> [who : Sub, perm : Perms, id : 1..MaxMsg] \cup {NoArg}]
  /\ cpc \in [Consumer -> ConsumerPC]
  /\ msg \in [Consumer -> Message \cup {NoMsg}]
  /\ got \in [Sub -> Seq(Message)]
  /\ rested \in BOOLEAN
  /\ use \in Uses

Init ==
  /\ joined = Member
  /\ perm = [s \in Sub |-> IF s \in Member THEN {Read, Write} ELSE {}]
  /\ info = [closed |-> FALSE, muted |-> FALSE, blocked |-> FALSE]
  /\ lock = Nobody
  /\ queue = <<>> /\ queued = 0 /\ running = FALSE
  /\ seq = 0 /\ made = 0
  /\ pc = [w \in Worker |-> "idle"]
  /\ todo = [w \in Worker |-> <<>>]
  /\ arg = [w \in Worker |-> NoArg]
  /\ cpc = [k \in Consumer |-> "off"]
  /\ msg = [k \in Consumer |-> NoMsg]
  /\ got = [s \in Sub |-> <<>>]
  /\ rested = FALSE
  /\ use \in Uses

-----------------------------------------------------------------------------
(* The operations up to their first message. *)

Goto(w, from, to) == pc[w] = from /\ pc' = [pc EXCEPT ![w] = to]

Calls(w, request) == w \in use.workers /\ request \in use.requests /\ pc[w] = "idle"

Begin(w, request, to) == Calls(w, request) /\ Goto(w, "idle", to)

Msg(i, to) == [id |-> i, seq |-> 0, to |-> to]

\* The checks of Publish, which returns an error when one of them fails.
MayPublish(s) ==
  /\ ~info.closed
  /\ s \in joined
  /\ Write \in perm[s]
  /\ info.muted => System \in perm[s] /\ Admin \in perm[s]
  /\ info.blocked => System \in perm[s]

\* Publish of a chat message: enqueue numbers and stores it next.
PublishMessage(w, s) ==
  /\ Begin(w, "publish", "number")
  /\ lock = Nobody
  /\ MayPublish(s)
  /\ made < use.msgs
  /\ made' = made + 1
  /\ todo' = [todo EXCEPT ![w] = <<Msg(made + 1, {})>>]
  /\ UNCHANGED <<members, lock, queue, queued, running, seq, arg, consumers>>

\* Publish of a notification for all subscribers or for some of them.
PublishNotify(w, s, to) ==
  /\ Begin(w, "notify", "send")
  /\ lock = Nobody
  /\ MayPublish(s)
  /\ made < use.msgs
  /\ made' = made + 1
  /\ todo' = [todo EXCEPT ![w] = <<Msg(made + 1, to)>>]
  /\ UNCHANGED <<members, lock, queue, queued, running, seq, arg, consumers>>

\* nextSeq, then StoreChannelMessage; when the store fails, the number is lost.
Number(w) ==
  /\ seq' = seq + 1
  /\ \/ /\ Goto(w, "number", "send")
        /\ todo' = [todo EXCEPT ![w] = <<[Head(@) EXCEPT !.seq = seq + 1]>>]
     \/ /\ Goto(w, "number", "idle")
        /\ todo' = [todo EXCEPT ![w] = <<>>]
  /\ UNCHANGED <<members, lock, queue, queued, running, made, arg, consumers>>

MaySubscribe == ~info.closed /\ ~info.blocked /\ lock = Nobody

\* Subscribe of a subscriber: the permission is replaced.
SubscribeUpdate(w, s, p) ==
  /\ Calls(w, "subscribe")
  /\ MaySubscribe
  /\ s \in joined
  /\ perm' = [perm EXCEPT ![s] = p]
  /\ UNCHANGED <<joined, info, lock, queue, queued, running, seq, made, pc, todo, arg, consumers>>

\* Subscribe of somebody else, whose ticket is valid, up to g.mu.RUnlock() ...
SubscribeNew(w, s, p) ==
  /\ Begin(w, "subscribe", "insert")
  /\ MaySubscribe
  /\ s \notin joined
  /\ made + 2 <= use.msgs
  /\ made' = made + 2
  /\ arg' = [arg EXCEPT ![w] = [who |-> s, perm |-> p, id |-> made + 1]]
  /\ UNCHANGED <<members, lock, queue, queued, running, seq, todo, consumers>>

\* ... and from g.mu.Lock() on: the subscriber, the notice to all that it is
\* online, and the notice to it of who is.
SubscribeInsert(w) ==
  LET new == arg[w]
  IN /\ Goto(w, "insert", "send")
     /\ lock = Nobody
     /\ joined' = joined \cup {new.who}
     /\ perm' = [perm EXCEPT ![new.who] = new.perm]
     /\ todo' = [todo EXCEPT ![w] = <<Msg(new.id, {}), Msg(new.id + 1, {new.who})>>]
     /\ arg' = [arg EXCEPT ![w] = NoArg]
     /\ UNCHANGED <<info, lock, queue, queued, running, seq, made, consumers>>

\* Unsubscribe keeps the lock until its notice is sent.
Unsubscribe(w, s) ==
  /\ Begin(w, "unsubscribe", "send")
  /\ lock = Nobody
  /\ s \in joined
  /\ made < use.msgs
  /\ made' = made + 1
  /\ lock' = w
  /\ joined' = joined \ {s}
  /\ perm' = [perm EXCEPT ![s] = {}]
  /\ todo' = [todo EXCEPT ![w] = <<Msg(made + 1, {})>>]
  /\ UNCHANGED <<info, queue, queued, running, seq, arg, consumers>>

\* Update takes no lock.
Update(w, muted, blocked) ==
  /\ Calls(w, "update")
  /\ info' = [info EXCEPT !.muted = muted, !.blocked = blocked]
  /\ UNCHANGED <<joined, perm, lock, queue, queued, running, seq, made, pc, todo, arg, consumers>>

\* Close; a second one would panic in close(g.messages).
Close(w) ==
  /\ Calls(w, "close")
  /\ lock = Nobody
  /\ ~info.closed
  /\ info' = [info EXCEPT !.closed = TRUE]
  /\ joined' = {}
  /\ perm' = [s \in Sub |-> {}]
  /\ UNCHANGED <<lock, queue, queued, running, seq, made, pc, todo, arg, consumers>>

-----------------------------------------------------------------------------
(* Sending a message: enqueueNotify, the end of enqueue, and checkMsgQueue. *)

\* The operation goes on with its next message or returns.
Return(w, from) ==
  /\ Goto(w, from, IF Len(todo[w]) > 1 THEN "send" ELSE "idle")
  /\ todo' = [todo EXCEPT ![w] = Tail(@)]
  /\ lock' = IF lock = w THEN Nobody ELSE lock

\* Variant of Send: a refused message is counted.
SendCountingRefused(w) ==
  /\ ~info.closed
  /\ Goto(w, "send", "count")
  /\ queue' = IF Len(queue) < Cap THEN Append(queue, Head(todo[w])) ELSE queue
  /\ UNCHANGED <<lock, todo, members, queued, running, seq, made, arg, consumers>>

\* The message is put into the queue, unless the queue is full.
Send(w) ==
  /\ ~info.closed
  /\ \/ /\ Len(queue) < Cap
        /\ Goto(w, "send", "count")
        /\ queue' = Append(queue, Head(todo[w]))
        /\ UNCHANGED <<lock, todo>>
     \/ /\ Len(queue) = Cap
        /\ Return(w, "send")
        /\ UNCHANGED queue
  /\ UNCHANGED <<members, queued, running, seq, made, arg, consumers>>

\* The channel was closed in the meantime: the send panics and the operation
\* is abandoned; the goroutine is recovered by its pool or server.
SendPanics(w) ==
  /\ info.closed
  /\ Goto(w, "send", "idle")
  /\ todo' = [todo EXCEPT ![w] = <<>>]
  /\ lock' = IF lock = w THEN Nobody ELSE lock
  /\ UNCHANGED <<members, queue, queued, running, seq, made, arg, consumers>>

Count(w) ==
  /\ Goto(w, "count", "check")
  /\ queued' = queued + 1
  /\ UNCHANGED <<members, lock, queue, running, seq, made, todo, arg, consumers>>

\* Variants of Check: the flag is ignored, only the first message starts a consumer.
CheckIgnoringFlag(w) ==
  /\ Goto(w, "check", "start")
  /\ UNCHANGED <<lock, todo, members, queue, queued, running, seq, made, arg, consumers>>

CheckFirstOnly(w) ==
  /\ \/ /\ running \/ queued # 1
        /\ Return(w, "check")
     \/ /\ ~running /\ queued = 1
        /\ Goto(w, "check", "start")
        /\ UNCHANGED <<lock, todo>>
  /\ UNCHANGED <<members, queue, queued, running, seq, made, arg, consumers>>

\* The load of queueRunning ...
Check(w) ==
  /\ \/ /\ running
        /\ Return(w, "check")
     \/ /\ ~running
        /\ Goto(w, "check", "start")
        /\ UNCHANGED <<lock, todo>>
  /\ UNCHANGED <<members, queue, queued, running, seq, made, arg, consumers>>

\* ... and its store, with the start of a consumer.
Start(w) ==
  /\ Return(w, "start")
  /\ running' = TRUE
  /\ \E k \in Consumer : cpc[k] = "off" /\ cpc' = [cpc EXCEPT ![k] = "loop"]
  /\ UNCHANGED <<members, queue, queued, seq, made, arg, msg, got>>

SendMessage(w) == Send(w) \/ SendPanics(w) \/ Count(w) \/ Check(w) \/ Start(w)

-----------------------------------------------------------------------------
(* The goroutine of checkMsgQueue. *)

CGoto(k, from, to) == cpc[k] = from /\ cpc' = [cpc EXCEPT ![k] = to]

Receive(k) ==
  /\ CGoto(k, "loop", "uncount")
  /\ queue # <<>>
  /\ msg' = [msg EXCEPT ![k] = Head(queue)]
  /\ queue' = Tail(queue)
  /\ UNCHANGED <<members, lock, queued, running, seq, made, pc, todo, arg, got>>

\* A closed and empty queue yields nil.
ReceiveNil(k) ==
  /\ CGoto(k, "loop", "rest")
  /\ info.closed
  /\ queue = <<>>
  /\ UNCHANGED <<members, lock, queue, queued, running, seq, made, pc, todo, arg, msg, got>>

\* The sleep timer fires and activeAt is older than messageQueueTimeout.  The
\* select chooses at random when there is a message too.
TimerFires(k) ==
  /\ CGoto(k, "loop", "rest")
  /\ UNCHANGED <<members, lock, queue, queued, running, seq, made, pc, todo, arg, msg, got>>

Uncount(k) ==
  /\ CGoto(k, "uncount", "push")
  /\ queued' = queued - 1
  /\ UNCHANGED <<members, lock, queue, running, seq, made, pc, todo, arg, msg, got>>

\* push, under g.mu.RLock().
Push(k) ==
  LET m == msg[k]
  IN /\ CGoto(k, "push", "loop")
     /\ lock = Nobody
     /\ got' = [s \in Sub |-> IF s \in joined /\ Read \in perm[s] /\ (m.to = {} \/ s \in m.to)
                             THEN Append(got[s], m)
                             ELSE got[s]]
     /\ msg' = [msg EXCEPT ![k] = NoMsg]
     /\ UNCHANGED <<members, lock, queue, queued, running, seq, made, pc, todo, arg>>

\* REST: with messages counted, drop what arrives until the queue is closed.
Rest(k) ==
  /\ CGoto(k, "rest", IF queued > 0 THEN "drain" ELSE "zero")
  /\ UNCHANGED <<members, lock, queue, queued, running, seq, made, pc, todo, arg, msg, got>>

\* Variant of Drain: the closed queue does not end it.
DrainForever(k) ==
  /\ queue # <<>>
  /\ queue' = Tail(queue)
  /\ CGoto(k, "drain", "dropped")
  /\ UNCHANGED <<members, lock, queued, running, seq, made, pc, todo, arg, msg, got>>

Drain(k) ==
  /\ \/ /\ queue # <<>>
        /\ queue' = Tail(queue)
        /\ CGoto(k, "drain", "dropped")
     \/ /\ queue = <<>>
        /\ info.closed
        /\ UNCHANGED queue
        /\ CGoto(k, "drain", "zero")
  /\ UNCHANGED <<members, lock, queued, running, seq, made, pc, todo, arg, msg, got>>

CountDropped(k) ==
  /\ CGoto(k, "dropped", "drain")
  /\ queued' = -1
  /\ UNCHANGED <<members, lock, queue, running, seq, made, pc, todo, arg, msg, got>>

ZeroQueued(k) ==
  /\ CGoto(k, "zero", "stop")
  /\ queued' = 0
  /\ UNCHANGED <<members, lock, queue, running, seq, made, pc, todo, arg, msg, got>>

\* Variant of Stop: the flag is left set.
StopKeepingFlag(k) ==
  /\ CGoto(k, "stop", "off")
  /\ UNCHANGED <<members, lock, queue, queued, running, seq, made, pc, todo, arg, msg, got>>

Stop(k) ==
  /\ CGoto(k, "stop", "off")
  /\ running' = FALSE
  /\ UNCHANGED <<members, lock, queue, queued, seq, made, pc, todo, arg, msg, got>>

\* What push calls hands the message to the gateway's pool and does not panic, so
\* that the goroutine's recover has nothing to do.
Consume(k) == \/ Receive(k) \/ ReceiveNil(k) \/ Uncount(k) \/ Push(k) \/ Rest(k)
              \/ Drain(k) \/ CountDropped(k) \/ ZeroQueued(k) \/ Stop(k)

-----------------------------------------------------------------------------
Request(w) ==
  \/ \E s \in Sub : \/ PublishMessage(w, s)
                   \/ \E to \in SUBSET Sub : PublishNotify(w, s, to)
                   \/ \E p \in Perms : SubscribeUpdate(w, s, p) \/ SubscribeNew(w, s, p)
                   \/ Unsubscribe(w, s)
  \/ \E muted, blocked \in BOOLEAN : Update(w, muted, blocked)
  \/ Close(w)

Proceed(w) == Number(w) \/ SubscribeInsert(w) \/ SendMessage(w)

History == /\ rested' = (rested \/ \E k \in Consumer : cpc'[k] = "rest")
           /\ UNCHANGED use

Next ==
  /\ \/ \E w \in Worker : Request(w) \/ Proceed(w)
     \/ \E k \in Consumer : TimerFires(k) \/ Consume(k)
  /\ History

\* A goroutine that can take a step takes one; nothing is said about the timer.
Fairness == /\ \A w \in Worker : WF_vars(Proceed(w) /\ History)
            /\ \A k \in Consumer : WF_vars(Consume(k) /\ History)

Spec == Init /\ [][Next]_vars /\ Fairness

-----------------------------------------------------------------------------
(* Correctness. *)

\* The state is well typed and within the capacity of the queue, and while
\* queueRunning says so there is a consumer: a flag left behind would make every
\* later checkMsgQueue return without starting one, for ever.
RunningHasConsumer == TypeOK /\ (running => \E k \in Consumer : cpc[k] # "off")

\* No message is pushed twice to the gateway for a subscriber, whatever consumers
\* overlap, and those of a single worker are pushed in the order they were sent,
\* across stops and restarts of the consumer.  What the gateway's pool makes of
\* that order is not said.
OnceAndInOrder ==
  \A s \in Sub : \A i, j \in 1..Len(got[s]) :
    /\ got[s][i].id = got[s][j].id => i = j
    /\ Cardinality(use.workers) = 1 /\ i < j => got[s][i].id < got[s][j].id

\* As long as no consumer has come to its REST, queued counts the messages in
\* the queue, up to the goroutines between the queue and the counter.
QueuedCounts ==
  ~rested =>
    queued = Len(queue) - Cardinality({w \in Worker : pc[w] = "count"})
                        + Cardinality({k \in Consumer : cpc[k] = "uncount"})

\* Every message that was accepted into the queue is taken out and pushed, unless
\* a consumer has come to REST.
QueueIsServed ==
  \A i \in 1..MaxMsg :
    (\E n \in 1..Len(queue) : queue[n].id = i)
      ~> (rested \/ \E k \in Consumer : cpc[k] = "push" /\ msg[k].id = i)

\* Closing the channel ends its consumers, also one that is waiting in its REST.
CloseStopsConsumers == info.closed ~> \A k \in Consumer : cpc[k] = "off"
=============================================================================
