---------------------------- MODULE ChannelProofs ---------------------------
(***************************************************************************)
(* Proofs about Channel, for any finite numbers of workers and consumers,  *)
(* any subscribers, any capacity of the queue and any use of the channel.  *)
(***************************************************************************)
EXTENDS ChannelSteps

-----------------------------------------------------------------------------
(* The consumers of a single worker. *)

LEMMA ConsumerMoves ==
  ASSUME IInv, NEW k \in Consumer, Consumed(k)
  PROVE  /\ cpc[k] # "off"
         /\ \A l \in Consumer : l # k => cpc'[l] = cpc[l]
         /\ (cpc'[k] # "off" /\ running' = running) \/ (cpc'[k] = "off" /\ running' = FALSE)
<1>1. cpc \in [Consumer -> ConsumerPC]
  BY Zenon DEF IInv, TypeOK
<1>2. CASE Stop(k)
  BY <1>1, <1>2, Zenon DEF Stop, CGoto
<1>3. CASE TimerFires(k) \/ (Consume(k) /\ ~Stop(k))
  <2>1. /\ cpc[k] # "off" /\ running' = running
        /\ \E to \in ConsumerPC \ {"off"} : cpc' = [cpc EXCEPT ![k] = to]
    BY <1>3, Zenon DEF TimerFires, Consume, Receive, ReceiveNil, Uncount, Push, Rest,
                Drain, CountDropped, ZeroQueued, CGoto, ConsumerPC
  <2> QED BY <1>1, <2>1, Zenon
<1> QED BY <1>2, <1>3, Zenon DEF Consumed

LEMMA SingleStep ==
  ASSUME IInv, Next
  PROVE  SingleInv'
<1> SUFFICES ASSUME Single
             PROVE  /\ \A k, l \in Consumer : cpc'[k] # "off" /\ cpc'[l] # "off" => k = l
                    /\ ~running' => \A k \in Consumer : cpc'[k] = "off"
                    /\ \A w \in Worker : pc'[w] = "start" => ~running'
  BY Steps, Zenon DEF SingleInv, Single
<1>1. /\ \A k, l \in Consumer : cpc[k] # "off" /\ cpc[l] # "off" => k = l
      /\ ~running => \A k \in Consumer : cpc[k] = "off"
      /\ \A w \in Worker : pc[w] = "start" => ~running
  BY Zenon DEF IInv, SingleInv
<1>2. /\ cpc \in [Consumer -> ConsumerPC] /\ pc \in [Worker -> WorkerPC] /\ TypeOK
      /\ \A w \in Worker : pc[w] # "idle" => w \in use.workers
  BY Zenon DEF IInv, TypeOK, LocalInv, WorkerInv
<1>3. ASSUME NEW k \in Consumer, Consumed(k)
      PROVE  /\ \A j, l \in Consumer : cpc'[j] # "off" /\ cpc'[l] # "off" => j = l
             /\ ~running' => \A l \in Consumer : cpc'[l] = "off"
             /\ \A w \in Worker : pc'[w] = "start" => ~running'
  <2>1. /\ cpc[k] # "off"
        /\ \A l \in Consumer : l # k => cpc'[l] = cpc[l]
        /\ (cpc'[k] # "off" /\ running' = running) \/ (cpc'[k] = "off" /\ running' = FALSE)
    BY <1>3, ConsumerMoves, Zenon
  <2>2. pc' = pc
    BY <1>3, ConsumedFrame, Zenon
  <2>3. running
    BY <1>1, <2>1, Zenon
  <2> QED BY <1>1, <2>1, <2>2, <2>3, Zenon
<1>4. ASSUME NEW w \in Worker, Worked(w)
      PROVE  /\ \A j, l \in Consumer : cpc'[j] # "off" /\ cpc'[l] # "off" => j = l
             /\ ~running' => \A l \in Consumer : cpc'[l] = "off"
             /\ \A v \in Worker : pc'[v] = "start" => ~running'
  <2>1. \A v \in Worker : v # w => pc'[v] = pc[v]
    BY <1>2, <1>4, OtherWorkers, Zenon
  <2>2. CASE Start(w)
    <3>1. pc[w] = "start" /\ pc'[w] # "start" /\ running' = TRUE
      BY <1>2, <2>2, Zenon DEF Start, Return, Goto
    <3>2. PICK k \in Consumer : cpc' = [cpc EXCEPT ![k] = "loop"]
      BY <2>2, Zenon DEF Start
    <3>3. \A l \in Consumer : cpc[l] = "off"
      BY <1>1, <3>1, Zenon
    <3>4. \A l \in Consumer : cpc'[l] # "off" => l = k
      BY <1>2, <3>2, <3>3, Zenon
    <3>5. \A v \in Worker : pc'[v] # "start"
      <4> SUFFICES ASSUME NEW v \in Worker, v # w, pc[v] = "start"
                   PROVE  FALSE
        BY <2>1, <3>1, Zenon
      <4>1. v \in use.workers /\ w \in use.workers
        BY <1>2, <3>1, Zenon
      <4> QED BY <1>2, <4>1, SingleWorker, Zenon
    <3> QED BY <3>1, <3>4, <3>5, Zenon
  <2>3. CASE UNCHANGED <<cpc, running>>
    <3>1. pc'[w] = "start" => pc[w] = "start" \/ ~running
      BY <1>2, <1>4, Zenon
         DEF Worked, Request, Proceed, PublishMessage, PublishNotify, SubscribeUpdate,
         SubscribeNew, Unsubscribe, Update, Close, Number, SubscribeInsert, SendMessage,
         Send, SendPanics, Count, Check, Start, Return, Begin, Goto
    <3> QED BY <1>1, <2>1, <2>3, <3>1, Zenon
  <2> QED BY <1>4, <2>2, <2>3, WorkedFrame, Zenon
<1> QED BY <1>3, <1>4, Steps, Zenon

\* The flag queueRunning and the history variable.
LEMMA FlagStep ==
  ASSUME IInv, Next
  PROVE  RunInv' /\ RestInv' /\ rested' \in BOOLEAN
<1>1. cpc \in [Consumer -> ConsumerPC] /\ RunInv /\ RestInv
  BY Zenon DEF IInv, TypeOK
<1>2. rested' \in BOOLEAN
  BY Steps, Zenon
<1>3. RunInv'
  <2>1. ASSUME NEW w \in Worker, Worked(w)
        PROVE  RunInv'
    BY <1>1, <2>1, WorkedFrame, Zenon DEF RunInv, Start
  <2>2. ASSUME NEW k \in Consumer, Consumed(k)
        PROVE  RunInv'
    BY <1>1, <2>2, ConsumerMoves, Zenon DEF RunInv
  <2> QED BY <2>1, <2>2, Steps, Zenon
<1>4. RestInv'
  <2> SUFFICES ASSUME ~rested'
               PROVE  \A k \in Consumer : cpc'[k] \in {"off", "loop", "uncount", "push"}
    BY Zenon DEF RestInv
  <2>1. ~rested /\ \A k \in Consumer : cpc'[k] # "rest"
    BY Steps, Zenon
  <2>2. \A k \in Consumer : cpc[k] \in {"off", "loop", "uncount", "push"}
    BY <1>1, <2>1, Zenon DEF RestInv
  <2>3. ASSUME NEW w \in Worker, Worked(w)
        PROVE  \A k \in Consumer : cpc'[k] \in {"off", "loop", "uncount", "push"}
    BY <1>1, <2>2, <2>3, WorkedFrame, Zenon DEF Start
  <2>4. ASSUME NEW k \in Consumer, Consumed(k)
        PROVE  \A l \in Consumer : cpc'[l] \in {"off", "loop", "uncount", "push"}
    BY <1>1, <2>1, <2>2, <2>4, Zenon
       DEF Consumed, TimerFires, Consume, Receive, ReceiveNil, Uncount, Push, Rest,
           Drain, CountDropped, ZeroQueued, Stop, CGoto
  <2> QED BY <2>3, <2>4, Steps, Zenon
<1> QED BY <1>2, <1>3, <1>4, Zenon

-----------------------------------------------------------------------------
(* The counter. *)

LEMMA CountedStep ==
  ASSUME IInv, Next
  PROVE  QueuedCounts'
<1> DEFINE W == NumberAt(Worker, pc, "count")
           C == NumberAt(Consumer, cpc, "uncount")
<1> SUFFICES ASSUME ~rested'
             PROVE  queued' = Len(queue') - W' + C'
  BY Zenon DEF QueuedCounts, NumberAt
<1>1. ~rested /\ (\A k \in Consumer : cpc'[k] # "rest")
  BY Steps, Zenon
<1>2. queued = Len(queue) - W + C
  BY <1>1, Zenon DEF IInv, QueuedCounts, NumberAt
<1>3. \A k \in Consumer : cpc[k] \in {"off", "loop", "uncount", "push"}
  BY <1>1, Zenon DEF IInv, RestInv
<1>4. /\ queue \in Seq(Message) /\ queue' \in Seq(Message) /\ TypeOK
      /\ cpc \in [Consumer -> ConsumerPC] /\ pc \in [Worker -> WorkerPC]
      /\ todo \in [Worker -> Seq(Message)]
  BY MessagesStep, Zenon DEF IInv, TypeOK
<1>5. Len(queue) \in Nat /\ Len(queue') \in Nat /\ queued \in Int
  BY <1>4, Emptiness, Zenon DEF TypeOK
<1>6. ASSUME NEW w \in Worker, Worked(w)
      PROVE  W \in Nat /\ W' = W + One(pc'[w], "count") - One(pc[w], "count")
  <2>1. \A v \in Worker : v # w => pc'[v] = pc[v]
    BY <1>4, <1>6, OtherWorkers, Zenon
  <2> QED BY <2>1, WorkersAt, Zenon
<1>7. ASSUME NEW k \in Consumer, \A l \in Consumer : l # k => cpc'[l] = cpc[l]
      PROVE  C \in Nat /\ C' = C + One(cpc'[k], "uncount") - One(cpc[k], "uncount")
  BY <1>7, ConsumersAt, Zenon
<1>8. ASSUME NEW w \in Worker, Worked(w)
      PROVE  C' = C
  <2>1. CASE cpc' = cpc
    BY <2>1, Zenon
  <2>2. CASE Start(w)
    <3>1. PICK k \in Consumer : cpc[k] = "off" /\ cpc' = [cpc EXCEPT ![k] = "loop"]
      BY <2>2, Zenon DEF Start
    <3>2. cpc'[k] = "loop" /\ \A l \in Consumer : l # k => cpc'[l] = cpc[l]
      BY <1>4, <3>1, Zenon
    <3>3. C \in Nat /\ C' = C + One(cpc'[k], "uncount") - One(cpc[k], "uncount")
      BY <1>7, <3>2, Zenon
    <3>4. One(cpc'[k], "uncount") = 0 /\ One(cpc[k], "uncount") = 0
      BY <3>1, <3>2, Zenon DEF One
    <3> HIDE DEF C
    <3> QED BY <3>3, <3>4
  <2> QED BY <1>8, <2>1, <2>2, WorkedFrame, Zenon
<1>9. C \in Nat /\ W \in Nat
  <2>1. IsFiniteSet(Worker) /\ IsFiniteSet(Consumer)
    BY ChannelConstants, Zenon
  <2> QED BY <2>1, NumberIsNat, Zenon
<1> HIDE DEF W, C
<1>10. ASSUME NEW w \in Worker, Worked(w)
       PROVE  queued' = Len(queue') - W' + C'
  <2>1. W' = W + One(pc'[w], "count") - One(pc[w], "count") /\ C' = C
    BY <1>6, <1>8, <1>10, Zenon
  <2>2. CASE Count(w)
    <3>1. pc[w] = "count" /\ pc'[w] = "check" /\ queued' = queued + 1 /\ queue' = queue
      BY <1>4, <2>2, Zenon DEF Count, Goto
    <3>2. W' = W - 1
      BY <1>9, <2>1, <3>1 DEF One
    <3> QED BY <1>2, <1>5, <1>9, <2>1, <3>1, <3>2
  <2>3. CASE /\ Goto(w, "send", "count") /\ queued' = queued
             /\ queue' = Append(queue, Head(todo[w]))
    <3>1. pc[w] = "send" /\ pc'[w] = "count"
      BY <1>4, <2>3, Zenon DEF Goto
    <3>2. W' = W + 1
      BY <1>9, <2>1, <3>1 DEF One
    <3>3. Len(queue') = Len(queue) + 1
      BY <1>4, <2>3
    <3> QED BY <1>2, <1>5, <1>9, <2>1, <2>3, <3>2, <3>3
  <2>4. CASE UNCHANGED <<pc, queue, queued>>
    BY <1>2, <1>5, <1>9, <2>1, <2>4, Zenon DEF W
  <2>5. CASE UNCHANGED <<queue, queued>> /\ pc[w] # "count" /\ pc'[w] # "count"
    <3>1. W' = W
      BY <1>9, <2>1, <2>5 DEF One
    <3> QED BY <1>2, <1>5, <1>9, <2>1, <2>5, <3>1, Zenon
  <2>6. CASE Starts(w) \/ Subscribes(w)
    BY <1>4, <2>5, <2>6, Zenon DEF Starts, Subscribes
  <2>7. CASE Number(w) \/ SubscribeInsert(w) \/ SendPanics(w) \/ Check(w) \/ Start(w)
    BY <1>4, <2>5, <2>7, Zenon DEF Number, SubscribeInsert, SendPanics, Check, Start, Return, Goto
  <2>8. CASE Send(w)
    BY <1>4, <2>3, <2>5, <2>8, Zenon DEF Send, Return, Goto
  <2> QED BY <1>10, <2>2, <2>4, <2>6, <2>7, <2>8, WorkShape, Zenon
<1>11. ASSUME NEW k \in Consumer, Consumed(k)
       PROVE  queued' = Len(queue') - W' + C'
  <2>1. W' = W
    BY <1>11, ConsumedFrame, Zenon DEF W
  <2>2. \A l \in Consumer : l # k => cpc'[l] = cpc[l]
    BY <1>11, ConsumerMoves, Zenon
  <2>3. C' = C + One(cpc'[k], "uncount") - One(cpc[k], "uncount")
    BY <1>7, <2>2, Zenon
  <2>4. CASE Receive(k)
    <3>1. cpc[k] = "loop" /\ cpc'[k] = "uncount" /\ queue # <<>> /\ queue' = Tail(queue)
          /\ queued' = queued
      BY <1>4, <2>4, Zenon DEF Receive, CGoto
    <3>2. C' = C + 1
      BY <1>9, <2>3, <3>1 DEF One
    <3>3. Len(queue') = Len(queue) - 1
      BY <1>4, <3>1, QueueTail, Zenon
    <3> QED BY <1>2, <1>5, <1>9, <2>1, <3>1, <3>2, <3>3
  <2>5. CASE Uncount(k)
    <3>1. cpc[k] = "uncount" /\ cpc'[k] = "push" /\ queue' = queue /\ queued' = queued - 1
      BY <1>4, <2>5, Zenon DEF Uncount, CGoto
    <3>2. C' = C - 1
      BY <1>9, <2>3, <3>1 DEF One
    <3> QED BY <1>2, <1>5, <1>9, <2>1, <3>1, <3>2
  <2>6. CASE Push(k)
    <3>1. cpc[k] = "push" /\ cpc'[k] = "loop" /\ queue' = queue /\ queued' = queued
      BY <1>4, <2>6, Zenon DEF Push, CGoto
    <3>2. C' = C
      BY <1>9, <2>3, <3>1 DEF One
    <3> QED BY <1>2, <1>5, <1>9, <2>1, <3>1, <3>2, Zenon
  <2>7. ~(TimerFires(k) \/ ReceiveNil(k))
    BY <1>1, <1>4, Zenon DEF TimerFires, ReceiveNil, CGoto
  <2>8. ~(Rest(k) \/ Drain(k) \/ CountDropped(k) \/ ZeroQueued(k) \/ Stop(k))
    BY <1>3, Zenon DEF Rest, Drain, CountDropped, ZeroQueued, Stop, CGoto
  <2> QED BY <1>11, <2>4, <2>5, <2>6, <2>7, <2>8, Zenon DEF Consumed, Consume
<1> QED BY <1>10, <1>11, Steps, Zenon

-----------------------------------------------------------------------------
(* The order is kept. *)

LEMMA Less ==
  ASSUME NEW ws, NEW a \in Nat, NEW b \in Nat, a < b
  PROVE  Before(ws, a, b)
BY DEF Before

LEMMA Ids ==
  ASSUME IInv
  PROVE  /\ \A w \in Worker : \A a \in Unsent(w) : a \in Nat
         /\ \A i \in 1..Len(queue) : queue[i].id \in Nat
         /\ \A k \in Consumer : msg[k].id \in Nat
         /\ \A s \in Sub : \A i \in 1..Len(got[s]) : got[s][i].id \in Nat
<1>1. /\ queue \in Seq(Message) /\ msg \in [Consumer -> Message \cup {NoMsg}]
      /\ got \in [Sub -> Seq(Message)]
  BY Zenon DEF IInv, TypeOK
<1>2. (\A m \in Message : m.id \in Nat) /\ NoMsg.id \in Nat
  BY DEF Message, NoMsg
<1>3. \A w \in Worker : \A a \in Unsent(w) : a \in Nat
  BY UnsentRange
<1>4. \A s \in Sub : \A i \in 1..Len(got[s]) : got[s][i] \in Message
  BY <1>1
<1>5. \A i \in 1..Len(queue) : queue[i] \in Message
  BY <1>1
<1> QED BY <1>1, <1>2, <1>3, <1>4, <1>5, Zenon

\* A worker that makes new messages.
LEMMA FreshKeepsOrder ==
  ASSUME IInv, NEW w \in Worker, Fresh(w), UNCHANGED <<use, msg, got>>, made <= made',
         made' \in Nat, \A v \in Worker \ {w} : Unsent(v)' = Unsent(v)
  PROVE  MadeInv' /\ UnsentInv' /\ QueueInv' /\ HandInv' /\ GotInv'
<1>1. /\ \A v \in Worker : \A a \in Unsent(v) : a \in Nat
      /\ \A i \in 1..Len(queue) : queue[i].id \in Nat
      /\ \A k \in Consumer : msg[k].id \in Nat
      /\ \A s \in Sub : \A i \in 1..Len(got[s]) : got[s][i].id \in Nat
      /\ made \in Nat
  BY Ids, Bounds, Zenon
<1>2. MadeInv /\ UnsentInv /\ QueueInv /\ HandInv /\ GotInv
  BY Zenon DEF IInv
<1>3. \A x \in Nat : x <= made => \A b \in Unsent(w)' : Before(use.workers, x, b)
  BY <1>1, Less DEF Fresh
<1>4. MadeInv'
  BY <1>1, <1>2 DEF MadeInv, Fresh
<1>5. UnsentInv'
  <2>1. ASSUME NEW v \in Worker, v # w, NEW a \in Unsent(v), NEW b \in Unsent(w)'
        PROVE  Before(use.workers, a, b) /\ Before(use.workers, b, a)
    <3>1. a <= made /\ made < b /\ a \in Nat /\ b \in Nat
      BY <1>1, <1>2, <2>1, Zenon DEF MadeInv, Fresh
    <3>2. ~Single
      BY <2>1, SingleUnsent, Zenon DEF Fresh
    <3> QED BY <1>1, <3>1, <3>2 DEF Before, Single
  <2> QED BY <1>2, <2>1, Zenon DEF UnsentInv
<1>6. QueueInv'
  BY <1>1, <1>2, <1>3, Zenon DEF QueueInv, MadeInv, Fresh
<1>7. HandInv'
  BY <1>1, <1>2, <1>3, Zenon DEF HandInv, MadeInv, Fresh
<1>8. GotInv'
  BY <1>1, <1>2, <1>3, Zenon DEF GotInv, MadeInv, Fresh
<1> QED BY <1>4, <1>5, <1>6, <1>7, <1>8, Zenon

\* A worker that goes on without sending.
LEMMA ShrinkKeepsOrder ==
  ASSUME IInv, NEW w \in Worker, Shrinks(w), UNCHANGED <<use, msg, got>>, made <= made',
         made' \in Nat, \A v \in Worker \ {w} : Unsent(v)' = Unsent(v)
  PROVE  MadeInv' /\ UnsentInv' /\ QueueInv' /\ HandInv' /\ GotInv'
<1>1. /\ \A v \in Worker : \A a \in Unsent(v) : a \in Nat
      /\ \A i \in 1..Len(queue) : queue[i].id \in Nat
      /\ \A k \in Consumer : msg[k].id \in Nat
      /\ \A s \in Sub : \A i \in 1..Len(got[s]) : got[s][i].id \in Nat
      /\ made \in Nat
  BY Ids, Bounds, Zenon
<1>2. MadeInv /\ UnsentInv /\ QueueInv /\ HandInv /\ GotInv
  BY Zenon DEF IInv
<1>3. \A v \in Worker : \A b \in Unsent(v)' : b \in Unsent(v)
  BY Zenon DEF Shrinks
<1>4. MadeInv'
  BY <1>1, <1>2, <1>3 DEF MadeInv, Shrinks
<1>5. UnsentInv'
  BY <1>2, <1>3, Zenon DEF UnsentInv
<1>6. QueueInv'
  BY <1>2, <1>3, Zenon DEF QueueInv, Shrinks
<1>7. HandInv'
  BY <1>2, <1>3, Zenon DEF HandInv, Shrinks
<1>8. GotInv'
  BY <1>2, <1>3, Zenon DEF GotInv, Shrinks
<1> QED BY <1>4, <1>5, <1>6, <1>7, <1>8, Zenon

\* A worker that sends: its message goes behind all that are in the queue.
LEMMA SendKeepsOrder ==
  ASSUME IInv, NEW w \in Worker, Sends(w), UNCHANGED <<use, msg, got>>, made <= made',
         made' \in Nat, \A v \in Worker \ {w} : Unsent(v)' = Unsent(v)
  PROVE  MadeInv' /\ UnsentInv' /\ QueueInv' /\ HandInv' /\ GotInv'
<1>1. /\ \A v \in Worker : \A a \in Unsent(v) : a \in Nat
      /\ \A i \in 1..Len(queue) : queue[i].id \in Nat
      /\ \A k \in Consumer : msg[k].id \in Nat
      /\ \A s \in Sub : \A i \in 1..Len(got[s]) : got[s][i].id \in Nat
      /\ made \in Nat
  BY Ids, Bounds, Zenon
<1>2. MadeInv /\ UnsentInv /\ QueueInv /\ HandInv /\ GotInv /\ queue \in Seq(Message)
  BY Zenon DEF IInv, TypeOK
<1>3. PICK m \in Message :
        /\ queue' = Append(queue, m) /\ m.id \in Unsent(w) /\ Unsent(w)' \subseteq Unsent(w)
        /\ \A b \in Unsent(w)' : m.id < b
  BY Zenon DEF Sends
<1>4. \A v \in Worker : \A b \in Unsent(v)' : b \in Unsent(v)
  BY <1>3, Zenon
<1>5. /\ Len(queue) \in Nat /\ Len(queue') = Len(queue) + 1
      /\ queue'[Len(queue) + 1] = m /\ \A i \in 1..Len(queue) : queue'[i] = queue[i]
  BY <1>2, <1>3, QueueAppend, Zenon
<1>6. \A i \in 1..Len(queue') : i \in 1..Len(queue) \/ (i = Len(queue) + 1 /\ queue'[i] = m)
  BY <1>5
<1>7. \A v \in Worker : \A b \in Unsent(v)' : Before(use.workers, m.id, b)
  <2>1. \A b \in Unsent(w)' : Before(use.workers, m.id, b)
    BY <1>1, <1>3, <1>4, Less, Zenon
  <2>2. \A v \in Worker \ {w} : \A b \in Unsent(v) : Before(use.workers, m.id, b)
    BY <1>2, <1>3, Zenon DEF UnsentInv
  <2> QED BY <2>1, <2>2, Zenon
<1>8. MadeInv'
  <2>1. m.id <= made /\ m.id \in Nat
    BY <1>1, <1>2, <1>3, Zenon DEF MadeInv
  <2>2. \A i \in 1..Len(queue') : queue'[i].id <= made'
    BY <1>1, <1>2, <1>5, <1>6, <2>1 DEF MadeInv
  <2>3. \A v \in Worker : \A a \in Unsent(v)' : a <= made'
    BY <1>1, <1>2, <1>4 DEF MadeInv
  <2>4. /\ \A k \in Consumer : msg[k].id <= made'
        /\ \A s \in Sub : \A i \in 1..Len(got[s]) : got[s][i].id <= made'
    BY <1>1, <1>2 DEF MadeInv
  <2> QED BY <2>2, <2>3, <2>4, Zenon DEF MadeInv
<1>9. UnsentInv'
  BY <1>2, <1>4, Zenon DEF UnsentInv
<1>10. QueueInv'
  <2>1. ASSUME NEW i \in 1..Len(queue'), NEW j \in 1..Len(queue'), i < j
        PROVE  Before(use.workers, queue'[i].id, queue'[j].id)
    <3>1. i \in 1..Len(queue) /\ queue'[i] = queue[i]
      BY <1>5, <1>6, <2>1
    <3>2. CASE j \in 1..Len(queue)
      BY <1>2, <1>5, <2>1, <3>1, <3>2, Zenon DEF QueueInv
    <3>3. CASE queue'[j] = m
      BY <1>2, <1>3, <3>1, <3>3, Zenon DEF QueueInv
    <3> QED BY <1>6, <3>2, <3>3, Zenon
  <2>2. ASSUME NEW i \in 1..Len(queue'), NEW v \in Worker, NEW b \in Unsent(v)'
        PROVE  Before(use.workers, queue'[i].id, b)
    <3>1. CASE i \in 1..Len(queue)
      BY <1>2, <1>4, <1>5, <2>2, <3>1, Zenon DEF QueueInv
    <3>2. CASE queue'[i] = m
      BY <1>7, <2>2, <3>2, Zenon
    <3> QED BY <1>6, <3>1, <3>2, Zenon
  <2> QED BY <2>1, <2>2, Zenon DEF QueueInv
<1>11. ASSUME NEW x, \A j \in 1..Len(queue) : Before(use.workers, x, queue[j].id),
              \A v \in Worker : \A b \in Unsent(v) : Before(use.workers, x, b)
       PROVE  /\ \A j \in 1..Len(queue') : Before(use.workers, x, queue'[j].id)
              /\ \A v \in Worker : \A b \in Unsent(v)' : Before(use.workers, x, b)
  BY <1>3, <1>4, <1>5, <1>6, <1>11, Zenon
<1>12. HandInv'
  BY <1>2, <1>11, Zenon DEF HandInv
<1>13. GotInv'
  BY <1>2, <1>11, Zenon DEF GotInv
<1> QED BY <1>8, <1>9, <1>10, <1>12, <1>13, Zenon

\* A consumer that takes the first message, or drops it.
LEMMA TakeKeepsOrder ==
  ASSUME IInv, NEW k \in Consumer, Takes(k) \/ Drops, cpc[k] # "off",
         UNCHANGED <<use, made>>, \A v \in Worker : Unsent(v)' = Unsent(v)
  PROVE  MadeInv' /\ UnsentInv' /\ QueueInv' /\ HandInv' /\ GotInv'
<1>1. /\ MadeInv /\ UnsentInv /\ QueueInv /\ HandInv /\ GotInv /\ queue \in Seq(Message)
      /\ msg \in [Consumer -> Message \cup {NoMsg}]
  BY Zenon DEF IInv, TypeOK
<1>2. queue # <<>> /\ queue' = Tail(queue) /\ got' = got
  BY Zenon DEF Takes, Drops
<1>3. /\ Len(queue) \in Nat \ {0} /\ Len(queue') = Len(queue) - 1 /\ queue[1] = Head(queue)
      /\ \A i \in 1..Len(queue') : i + 1 \in 1..Len(queue) /\ queue'[i] = queue[i + 1]
  BY <1>1, <1>2, QueueTail, Zenon
<1>4. \A l \in Consumer : msg'[l] = msg[l] \/ (l = k /\ msg[k] = NoMsg /\ msg'[l] = queue[1])
  BY <1>1, <1>3, Zenon DEF Takes, Drops
<1>5. 1 \in 1..Len(queue) /\ \A i \in 1..Len(queue') : 1 < i + 1
  BY <1>3
<1>6. MadeInv'
  <2>1. /\ \A v \in Worker : \A a \in Unsent(v)' : a <= made'
        /\ \A s \in Sub : \A i \in 1..Len(got'[s]) : got'[s][i].id <= made'
    BY <1>1, <1>2, Zenon DEF MadeInv
  <2>2. \A i \in 1..Len(queue') : queue'[i].id <= made'
    BY <1>1, <1>3, Zenon DEF MadeInv
  <2>3. \A l \in Consumer : msg'[l].id <= made'
    BY <1>1, <1>4, <1>5, Zenon DEF MadeInv
  <2> QED BY <2>1, <2>2, <2>3, Zenon DEF MadeInv
<1>7. UnsentInv'
  BY <1>1, Zenon DEF UnsentInv
<1>8. QueueInv'
  <2>1. ASSUME NEW i \in 1..Len(queue'), NEW j \in 1..Len(queue'), i < j
        PROVE  Before(use.workers, queue'[i].id, queue'[j].id)
    <3>1. i + 1 \in 1..Len(queue) /\ j + 1 \in 1..Len(queue) /\ i + 1 < j + 1
      BY <1>3, <2>1
    <3> QED BY <1>1, <1>3, <3>1, Zenon DEF QueueInv
  <2>2. ASSUME NEW i \in 1..Len(queue'), NEW v \in Worker, NEW b \in Unsent(v)
        PROVE  Before(use.workers, queue'[i].id, b)
    BY <1>1, <1>3, <2>2, Zenon DEF QueueInv
  <2> QED BY <2>1, <2>2, Zenon DEF QueueInv
<1>9. HandInv'
  <2>1. ASSUME NEW l \in Consumer, msg'[l] # NoMsg, NEW j \in 1..Len(queue')
        PROVE  Before(use.workers, msg'[l].id, queue'[j].id)
    <3>1. CASE msg'[l] = msg[l]
      BY <1>1, <1>3, <2>1, <3>1, Zenon DEF HandInv
    <3>2. CASE msg'[l] = queue[1]
      BY <1>1, <1>3, <1>5, <2>1, <3>2, Zenon DEF QueueInv
    <3> QED BY <1>4, <3>1, <3>2, Zenon
  <2>2. ASSUME NEW l \in Consumer, msg'[l] # NoMsg, NEW v \in Worker, NEW b \in Unsent(v)
        PROVE  Before(use.workers, msg'[l].id, b)
    BY <1>1, <1>4, <1>5, <2>2, Zenon DEF HandInv, QueueInv
  <2>3. ASSUME NEW l \in Consumer, msg'[l] # NoMsg, NEW j \in Consumer, msg'[j] # NoMsg, l # j
        PROVE  Before(use.workers, msg'[l].id, msg'[j].id)
    <3>1. CASE msg'[l] = msg[l] /\ msg'[j] = msg[j]
      BY <1>1, <2>3, <3>1, Zenon DEF HandInv
    <3>2. CASE j = k /\ msg'[j] = queue[1] /\ msg'[l] = msg[l]
      BY <1>1, <1>5, <2>3, <3>2, Zenon DEF HandInv
    <3>3. CASE l = k /\ msg'[l] = queue[1] /\ msg'[j] = msg[j]
      <4>1. Before(use.workers, msg[j].id, queue[1].id)
        BY <1>1, <1>5, <2>3, <3>3, Zenon DEF HandInv
      <4>2. cpc[j] # "off"
        BY <2>3, <3>3, Zenon DEF IInv, LocalInv
      <4>3. ~Single
        BY <2>3, <3>3, <4>2, Zenon DEF IInv, SingleInv
      <4> QED BY <3>3, <4>1, <4>3, Zenon DEF Before, Single
    <3> QED BY <1>4, <2>3, <3>1, <3>2, <3>3
  <2> QED BY <2>1, <2>2, <2>3, Zenon DEF HandInv
<1>10. GotInv'
  <2>1. ASSUME NEW s \in Sub, NEW i \in 1..Len(got[s]), NEW l \in Consumer, msg'[l] # NoMsg
        PROVE  Before(use.workers, got[s][i].id, msg'[l].id)
    BY <1>1, <1>4, <1>5, <2>1, Zenon DEF GotInv
  <2>2. ASSUME NEW s \in Sub, NEW i \in 1..Len(got[s]), NEW j \in 1..Len(queue')
        PROVE  Before(use.workers, got[s][i].id, queue'[j].id)
    BY <1>1, <1>3, <2>2, Zenon DEF GotInv
  <2>3. ASSUME NEW s \in Sub, NEW i \in 1..Len(got[s])
        PROVE  /\ \A j \in 1..Len(got[s]) : i < j =>
                    Before(use.workers, got[s][i].id, got[s][j].id)
               /\ \A v \in Worker : \A b \in Unsent(v) : Before(use.workers, got[s][i].id, b)
    BY <1>1, Zenon DEF GotInv
  <2> QED BY <1>2, <2>1, <2>2, <2>3, Zenon DEF GotInv
<1> QED BY <1>6, <1>7, <1>8, <1>9, <1>10, Zenon

\* A consumer that pushes the message in its hand.
LEMMA PushKeepsOrder ==
  ASSUME IInv, NEW k \in Consumer, Pushes(k),
         UNCHANGED <<use, made>>, \A v \in Worker : Unsent(v)' = Unsent(v)
  PROVE  MadeInv' /\ UnsentInv' /\ QueueInv' /\ HandInv' /\ GotInv'
<1>1. /\ MadeInv /\ UnsentInv /\ QueueInv /\ HandInv /\ GotInv
      /\ msg \in [Consumer -> Message \cup {NoMsg}] /\ got \in [Sub -> Seq(Message)]
  BY Zenon DEF IInv, TypeOK
<1>2. /\ queue' = queue /\ msg[k] # NoMsg /\ msg[k] \in Message /\ msg'[k] = NoMsg
      /\ \A l \in Consumer : l # k => msg'[l] = msg[l]
  BY <1>1, Zenon DEF Pushes
<1>3. ASSUME NEW s \in Sub
      PROVE  \/ got'[s] = got[s]
             \/ /\ Len(got[s]) \in Nat /\ Len(got'[s]) = Len(got[s]) + 1
                /\ got'[s][Len(got[s]) + 1] = msg[k]
                /\ \A i \in 1..Len(got[s]) : got'[s][i] = got[s][i]
  <2>1. got'[s] = got[s] \/ got'[s] = Append(got[s], msg[k])
    BY Zenon DEF Pushes
  <2>2. got[s] \in Seq(Message)
    BY <1>1, Zenon
  <2> QED BY <1>2, <2>1, <2>2, QueueAppend
<1>4. ASSUME NEW s \in Sub, NEW i \in 1..Len(got'[s])
      PROVE  \/ i \in 1..Len(got[s]) /\ got'[s][i] = got[s][i]
             \/ got'[s][i] = msg[k] /\ \A j \in 1..Len(got'[s]) : ~(i < j)
  BY <1>3
<1>5. MadeInv'
  <2>1. /\ \A v \in Worker : \A a \in Unsent(v)' : a <= made'
        /\ \A i \in 1..Len(queue') : queue'[i].id <= made'
    BY <1>1, <1>2, Zenon DEF MadeInv
  <2>2. \A s \in Sub : \A i \in 1..Len(got'[s]) : got'[s][i].id <= made'
    BY <1>1, <1>4, Zenon DEF MadeInv
  <2>3. \A l \in Consumer : msg'[l].id <= made'
    <3>1. NoMsg.id <= made
      BY Bounds DEF NoMsg
    <3> QED BY <1>1, <1>2, <3>1, Zenon DEF MadeInv
  <2> QED BY <2>1, <2>2, <2>3, Zenon DEF MadeInv
<1>6. UnsentInv'
  BY <1>1, Zenon DEF UnsentInv
<1>7. QueueInv'
  BY <1>1, <1>2, Zenon DEF QueueInv
<1>8. HandInv'
  BY <1>1, <1>2, Zenon DEF HandInv
<1>9. GotInv'
  <2>1. ASSUME NEW s \in Sub, NEW i \in 1..Len(got'[s]), NEW j \in 1..Len(got'[s]), i < j
        PROVE  Before(use.workers, got'[s][i].id, got'[s][j].id)
    <3>1. i \in 1..Len(got[s]) /\ got'[s][i] = got[s][i]
      BY <1>4, <2>1, Zenon
    <3>2. CASE j \in 1..Len(got[s]) /\ got'[s][j] = got[s][j]
      BY <1>1, <2>1, <3>1, <3>2, Zenon DEF GotInv
    <3>3. CASE got'[s][j] = msg[k]
      BY <1>1, <1>2, <3>1, <3>3, Zenon DEF GotInv
    <3> QED BY <1>4, <3>2, <3>3, Zenon
  <2>2. ASSUME NEW s \in Sub, NEW i \in 1..Len(got'[s])
        PROVE  /\ \A l \in Consumer : msg'[l] # NoMsg =>
                    Before(use.workers, got'[s][i].id, msg'[l].id)
               /\ \A j \in 1..Len(queue) : Before(use.workers, got'[s][i].id, queue[j].id)
               /\ \A v \in Worker : \A b \in Unsent(v) : Before(use.workers, got'[s][i].id, b)
    <3>1. CASE i \in 1..Len(got[s]) /\ got'[s][i] = got[s][i]
      BY <1>1, <1>2, <3>1, Zenon DEF GotInv
    <3>2. CASE got'[s][i] = msg[k]
      BY <1>1, <1>2, <3>2, Zenon DEF HandInv
    <3> QED BY <1>4, <3>1, <3>2, Zenon
  <2> QED BY <1>2, <2>1, <2>2, Zenon DEF GotInv
<1> QED BY <1>5, <1>6, <1>7, <1>8, <1>9, Zenon

LEMMA OrderStep ==
  ASSUME IInv, Next
  PROVE  MadeInv' /\ UnsentInv' /\ QueueInv' /\ HandInv' /\ GotInv'
<1>1. use' = use /\ made' \in Nat
  BY Steps, WorkersStep
<1>2. ASSUME NEW w \in Worker, Worked(w)
      PROVE  MadeInv' /\ UnsentInv' /\ QueueInv' /\ HandInv' /\ GotInv'
  <2>1. UNCHANGED <<msg, got>>
    BY <1>2, WorkedFrame, Zenon
  <2>2. /\ \A v \in Worker \ {w} : Unsent(v)' = Unsent(v)
        /\ made <= made' /\ (Fresh(w) \/ Shrinks(w) \/ Sends(w))
    BY <1>1, <1>2, UnsentStep, Zenon
  <2> QED BY <1>1, <2>1, <2>2, FreshKeepsOrder, ShrinkKeepsOrder, SendKeepsOrder, Zenon
<1>3. ASSUME NEW k \in Consumer, Consumed(k)
      PROVE  MadeInv' /\ UnsentInv' /\ QueueInv' /\ HandInv' /\ GotInv'
  <2>1. UNCHANGED <<made, pc, todo, arg>> /\ cpc[k] # "off"
    BY <1>3, ConsumedFrame, ConsumerMoves, Zenon
  <2>2. \A v \in Worker : Unsent(v)' = Unsent(v)
    BY <2>1, Zenon DEF Unsent
  <2>3. CASE UNCHANGED <<queue, msg, got>>
    <3>1. MadeInv /\ UnsentInv /\ QueueInv /\ HandInv /\ GotInv
      BY Zenon DEF IInv
    <3> QED BY <1>1, <2>1, <2>2, <2>3, <3>1, Zenon
            DEF MadeInv, UnsentInv, QueueInv, HandInv, GotInv
  <2>4. Takes(k) \/ Pushes(k) \/ Drops \/ UNCHANGED <<queue, msg, got>>
    BY <1>3, ConsumeShape, Zenon
  <2> QED BY <1>1, <2>1, <2>2, <2>3, <2>4, TakeKeepsOrder, PushKeepsOrder, Zenon
<1> QED BY <1>2, <1>3, Steps, Zenon

-----------------------------------------------------------------------------
(* The invariant. *)

LEMMA InitHolds == Init => IInv
<1> SUFFICES ASSUME Init PROVE IInv
  BY Zenon
<1>1. MaxMsg \in Nat /\ Cap \in Nat \ {0} /\ use \in Uses /\ use.msgs \in Nat
  BY ChannelConstants DEF Init
<1>2. /\ pc = [w \in Worker |-> "idle"] /\ todo = [w \in Worker |-> <<>>]
      /\ arg = [w \in Worker |-> NoArg] /\ cpc = [k \in Consumer |-> "off"]
      /\ msg = [k \in Consumer |-> NoMsg] /\ got = [s \in Sub |-> <<>>]
      /\ queue = <<>> /\ seq = 0 /\ made = 0 /\ queued = 0
  BY Zenon DEF Init
<1>3. running = FALSE /\ rested = FALSE
  BY Zenon DEF Init
<1>4. TypeOK
  <2>1. /\ joined \in SUBSET Sub /\ perm \in [Sub -> Perms]
        /\ lock \in Worker \cup {Nobody}
    BY ChannelConstants, Zenon DEF Init, Perms
  <2>2. info \in [closed : BOOLEAN, muted : BOOLEAN, blocked : BOOLEAN]
    BY Zenon DEF Init
  <2>3. running \in BOOLEAN /\ rested \in BOOLEAN
    BY <1>3, Zenon
  <2>4. queue \in Seq(Message) /\ Len(queue) \in 0..Cap
    BY <1>1, <1>2
  <2>5. pc \in [Worker -> WorkerPC] /\ cpc \in [Consumer -> ConsumerPC]
    BY <1>2, Zenon DEF WorkerPC, ConsumerPC
  <2>6. /\ todo \in [Worker -> Seq(Message)] /\ got \in [Sub -> Seq(Message)]
        /\ arg \in [Worker -> [who : Sub, perm : Perms, id : 1..MaxMsg] \cup {NoArg}]
        /\ msg \in [Consumer -> Message \cup {NoMsg}]
    BY <1>2
  <2>7. queued \in Int /\ seq \in 0..MaxMsg /\ made \in 0..MaxMsg
    BY <1>1, <1>2
  <2> QED BY <1>1, <2>1, <2>2, <2>3, <2>4, <2>5, <2>6, <2>7, Zenon DEF TypeOK
<1>5. \A w \in Worker : todo[w] = <<>> /\ pc[w] = "idle" /\ Unsent(w) = {}
  <2> TAKE w \in Worker
  <2>1. todo[w] = <<>> /\ pc[w] = "idle" /\ todo[w] \in Seq(Message)
    BY <1>2
  <2> QED BY <2>1, UnsentCases, Zenon DEF Unsent
<1>6. Len(queue) = 0 /\ \A s \in Sub : Len(got[s]) = 0
  BY <1>2, Zenon
<1>7. LocalInv
  <2>1. \A w \in Worker : Len(todo[w]) = 0
    BY <1>5
  <2>2. \A w \in Worker : WorkerInv(w)
    BY <1>5, <2>1 DEF WorkerInv
  <2> QED BY <1>2, <2>2, Zenon DEF LocalInv
<1>8. SingleInv /\ RunInv /\ RestInv
  BY <1>2, <1>3, <1>5, Zenon DEF SingleInv, RunInv, RestInv
<1>9. MadeInv
  <2>1. \A k \in Consumer : msg[k].id <= made
    BY <1>2, SMTT(20) DEF NoMsg
  <2> QED BY <1>5, <1>6, <2>1 DEF MadeInv
<1>10. UnsentInv /\ QueueInv /\ HandInv /\ GotInv
  BY <1>2, <1>5, <1>6 DEF UnsentInv, QueueInv, HandInv, GotInv
<1>11. NumberInv /\ QueuedCounts
  <2>1. /\ {w \in Worker : pc[w] = "number"} = {} /\ {w \in Worker : pc[w] = "count"} = {}
        /\ {k \in Consumer : cpc[k] = "uncount"} = {}
    BY <1>2, Zenon
  <2>2. Cardinality({}) = 0
    BY FS_EmptySet, Zenon
  <2>3. /\ Cardinality({w \in Worker : pc[w] = "number"}) = 0
        /\ Cardinality({w \in Worker : pc[w] = "count"}) = 0
        /\ Cardinality({k \in Consumer : cpc[k] = "uncount"}) = 0
    BY <2>1, <2>2, Zenon
  <2>4. NumberInv
    BY <1>2, <2>3 DEF NumberInv
  <2>5. QueuedCounts
    BY <1>2, <1>6, <2>3 DEF QueuedCounts
  <2> QED BY <2>4, <2>5, Zenon
<1>12. made <= use.msgs
  BY <1>1, <1>2
<1> QED BY <1>4, <1>7, <1>8, <1>9, <1>10, <1>11, <1>12, Zenon DEF IInv

LEMMA StepHolds == IInv /\ Next => IInv'
<1> SUFFICES ASSUME IInv, Next PROVE IInv'
  BY Zenon
<1>1. TypeOK' /\ made' <= use'.msgs
  <2>1. use' \in Uses
    BY Steps, Zenon DEF IInv, TypeOK
  <2>2. /\ joined' \in SUBSET Sub /\ perm' \in [Sub -> Perms] /\ lock' \in Worker \cup {Nobody}
        /\ info' \in [closed : BOOLEAN, muted : BOOLEAN, blocked : BOOLEAN]
    BY MemberStep, Zenon
  <2>3. queued' \in Int /\ running' \in BOOLEAN /\ rested' \in BOOLEAN
    BY ConsumersStep, FlagStep, Zenon
  <2>4. /\ queue' \in Seq(Message) /\ Len(queue') \in 0..Cap
        /\ msg' \in [Consumer -> Message \cup {NoMsg}] /\ got' \in [Sub -> Seq(Message)]
    BY MessagesStep, Zenon
  <2>5. /\ pc' \in [Worker -> WorkerPC] /\ cpc' \in [Consumer -> ConsumerPC]
        /\ todo' \in [Worker -> Seq(Message)]
        /\ arg' \in [Worker -> [who : Sub, perm : Perms, id : 1..MaxMsg] \cup {NoArg}]
        /\ made' \in 0..MaxMsg /\ seq' \in 0..MaxMsg /\ made' <= use'.msgs
    BY PcStep, WorkersStep, Zenon
  <2> QED BY <2>1, <2>2, <2>3, <2>4, <2>5, Zenon DEF TypeOK
<1>2. LocalInv'
  BY WorkersStep, ConsumersStep, Zenon DEF LocalInv
<1> QED BY <1>1, <1>2, SingleStep, OrderStep, NumberStep, FlagStep, CountedStep, Zenon DEF IInv

LEMMA StutterHolds == IInv /\ UNCHANGED vars => IInv'
<1> SUFFICES ASSUME IInv, UNCHANGED vars PROVE IInv'
  BY Zenon
<1>1. TypeOK' /\ made' <= use'.msgs
  BY Zenon DEF vars, IInv, TypeOK
<1>2. LocalInv' /\ SingleInv'
  BY Zenon DEF vars, IInv, LocalInv, WorkerInv, SingleInv, Single
<1>3. MadeInv' /\ UnsentInv' /\ QueueInv'
  BY Zenon DEF vars, IInv, MadeInv, UnsentInv, QueueInv, Unsent
<1>4. HandInv' /\ GotInv'
  BY Zenon DEF vars, IInv, HandInv, GotInv, Unsent
<1>5. NumberInv' /\ RestInv' /\ QueuedCounts' /\ RunInv'
  BY Zenon DEF vars, IInv, NumberInv, RestInv, QueuedCounts, RunInv
<1> QED BY <1>1, <1>2, <1>3, <1>4, <1>5, Zenon DEF IInv

\* The invariant holds in every reachable state of the channel.
THEOREM Invariance == Spec => []IInv
<1>1. IInv /\ [Next]_vars => IInv'
  BY StepHolds, StutterHolds, Zenon
<1> QED BY <1>1, InitHolds, PTL DEF Spec

\* While queueRunning is set there is a consumer: no order of the unlocked loads
\* and stores of checkMsgQueue leaves the flag behind.
THEOREM RunningHasConsumerHolds == Spec => []RunningHasConsumer
<1>1. IInv => RunningHasConsumer
  BY Zenon DEF IInv, RunInv, RunningHasConsumer
<1> QED BY <1>1, Invariance, PTL

\* No subscriber is pushed a message twice, and one worker's messages are pushed
\* in their order, whatever consumers overlap.
THEOREM OnceAndInOrderHolds == Spec => []OnceAndInOrder
<1>1. IInv => OnceAndInOrder
  <2> SUFFICES ASSUME IInv, NEW s \in Sub, NEW i \in 1..Len(got[s]), NEW j \in 1..Len(got[s])
               PROVE  /\ got[s][i].id = got[s][j].id => i = j
                      /\ Cardinality(use.workers) = 1 /\ i < j => got[s][i].id < got[s][j].id
    BY Zenon DEF OnceAndInOrder
  <2>1. /\ i < j => Before(use.workers, got[s][i].id, got[s][j].id)
        /\ j < i => Before(use.workers, got[s][j].id, got[s][i].id)
    BY Zenon DEF IInv, GotInv
  <2>2. i \in Int /\ j \in Int
    OBVIOUS
  <2> QED BY <2>1, <2>2 DEF Before
<1> QED BY <1>1, Invariance, PTL

\* Before the first REST, queued is the length of the queue up to the goroutines
\* between the queue and the counter.
THEOREM QueuedCountsHolds == Spec => []QueuedCounts
<1>1. IInv => QueuedCounts
  BY Zenon DEF IInv
<1> QED BY <1>1, Invariance, PTL
=============================================================================
