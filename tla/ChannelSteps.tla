---------------------------- MODULE ChannelSteps ----------------------------
(***************************************************************************)
(* The inductive invariant of Channel, and what its steps do: to the types,*)
(* to the messages that the workers still have to send, to the queue and   *)
(* to the messages in the hands of the consumers.  ChannelProofs shows     *)
(* that the invariant is kept.                                             *)
(***************************************************************************)
EXTENDS Channel, SequenceTheorems, FiniteSetTheorems, TLAPS

Single == Cardinality(use.workers) = 1

\* The order in which messages move through the channel, used by the workers ws:
\* no message is another one and, if there is one worker, the first was made
\* earlier.
Before(ws, a, b) == a # b /\ (Cardinality(ws) = 1 => a < b)

\* The messages a worker still has to send, by their ids: at p, with the
\* messages t of its operation and the argument a of Subscribe.
UnsentOf(p, t, a) ==
  IF p = "insert" THEN {a.id, a.id + 1}
  ELSE {t[i].id : i \in (IF p \in {"count", "check", "start"} THEN 2 ELSE 1)..Len(t)}

Unsent(w) == UnsentOf(pc[w], todo[w], arg[w])

\* What a worker has in hand at each of its steps.
WorkerInv(w) ==
  /\ pc[w] # "idle" => w \in use.workers
  /\ pc[w] \in {"idle", "insert"} => todo[w] = <<>>
  /\ pc[w] = "number" => Len(todo[w]) = 1
  /\ pc[w] \in {"send", "count", "check", "start"} => Len(todo[w]) \in 1..2
  /\ Len(todo[w]) = 2 => todo[w][1].id < todo[w][2].id
  /\ pc[w] = "insert" => arg[w] # NoArg /\ arg[w].id + 1 <= MaxMsg

LocalInv ==
  /\ \A w \in Worker : WorkerInv(w)
  /\ \A k \in Consumer : cpc[k] \in {"uncount", "push"} <=> msg[k] # NoMsg

\* A single worker has at most one consumer, and none without queueRunning.
SingleInv ==
  Single => /\ \A k, l \in Consumer : cpc[k] # "off" /\ cpc[l] # "off" => k = l
            /\ ~running => \A k \in Consumer : cpc[k] = "off"
            /\ \A w \in Worker : pc[w] = "start" => ~running

\* Every id was made, and is in one place.
MadeInv ==
  /\ \A w \in Worker : \A a \in Unsent(w) : a <= made
  /\ \A i \in 1..Len(queue) : queue[i].id <= made
  /\ \A k \in Consumer : msg[k].id <= made
  /\ \A s \in Sub : \A i \in 1..Len(got[s]) : got[s][i].id <= made

UnsentInv == \A v, w \in Worker : v # w =>
               \A a \in Unsent(v), b \in Unsent(w) : Before(use.workers, a, b)

QueueInv ==
  \A i \in 1..Len(queue) :
    /\ \A j \in 1..Len(queue) : i < j => Before(use.workers, queue[i].id, queue[j].id)
    /\ \A w \in Worker : \A b \in Unsent(w) : Before(use.workers, queue[i].id, b)

HandInv ==
  \A k \in Consumer : msg[k] # NoMsg =>
    /\ \A l \in Consumer : l # k /\ msg[l] # NoMsg => Before(use.workers, msg[k].id, msg[l].id)
    /\ \A j \in 1..Len(queue) : Before(use.workers, msg[k].id, queue[j].id)
    /\ \A w \in Worker : \A b \in Unsent(w) : Before(use.workers, msg[k].id, b)

GotInv ==
  \A s \in Sub : \A i \in 1..Len(got[s]) :
    /\ \A j \in 1..Len(got[s]) : i < j => Before(use.workers, got[s][i].id, got[s][j].id)
    /\ \A k \in Consumer : msg[k] # NoMsg => Before(use.workers, got[s][i].id, msg[k].id)
    /\ \A j \in 1..Len(queue) : Before(use.workers, got[s][i].id, queue[j].id)
    /\ \A w \in Worker : \A b \in Unsent(w) : Before(use.workers, got[s][i].id, b)

\* Numbers go to messages that were made.
NumberInv == seq + Cardinality({w \in Worker : pc[w] = "number"}) <= made

RestInv == ~rested => \A k \in Consumer : cpc[k] \in {"off", "loop", "uncount", "push"}

RunInv == running => \E k \in Consumer : cpc[k] # "off"

IInv == /\ TypeOK /\ made <= use.msgs /\ LocalInv /\ SingleInv /\ MadeInv /\ UnsentInv
        /\ QueueInv /\ HandInv /\ GotInv /\ NumberInv /\ RestInv /\ QueuedCounts /\ RunInv

-----------------------------------------------------------------------------
(* Counting goroutines. *)

\* How many of the goroutines S are at v.
NumberAt(S, f, v) == Cardinality({z \in S : f[z] = v})

One(a, v) == IF a = v THEN 1 ELSE 0

\* When one goroutine goes on, the number of those at a place changes by one.
LEMMA CountChange ==
  ASSUME NEW S, IsFiniteSet(S), NEW f, NEW g, NEW x \in S,
         \A z \in S : z # x => g[z] = f[z], NEW v
  PROVE  /\ NumberAt(S, f, v) \in Nat
         /\ NumberAt(S, g, v) = NumberAt(S, f, v) + One(g[x], v) - One(f[x], v)
<1> DEFINE A == {z \in S : f[z] = v}
           B == {z \in S : g[z] = v}
<1>1. IsFiniteSet(A) /\ Cardinality(A) \in Nat
  <2>1. A \in SUBSET S
    BY Zenon
  <2> QED BY <2>1, FS_Subset, FS_CardinalityType, Zenon
<1>2. B = IF g[x] = v THEN A \cup {x} ELSE A \ {x}
  BY Zenon
<1>3. x \in A <=> f[x] = v
  BY Zenon
<1> HIDE DEF A, B
<1> DEFINE Changed == Cardinality(B) = Cardinality(A)
                        + (IF g[x] = v THEN 1 ELSE 0) - (IF f[x] = v THEN 1 ELSE 0)
<1>4. g[x] = v => Changed
  <2> HAVE g[x] = v
  <2>1. Cardinality(A \cup {x}) = IF x \in A THEN Cardinality(A) ELSE Cardinality(A) + 1
    BY <1>1, FS_AddElement, Zenon
  <2> QED BY <1>1, <1>2, <1>3, <2>1
<1>5. g[x] # v => Changed
  <2> HAVE g[x] # v
  <2>1. Cardinality(A \ {x}) = IF x \in A THEN Cardinality(A) - 1 ELSE Cardinality(A)
    BY <1>1, FS_RemoveElement, Zenon
  <2> QED BY <1>1, <1>2, <1>3, <2>1
<1>6. Changed
  BY <1>4, <1>5, Zenon
<1> QED BY <1>1, <1>6, Zenon DEF A, B, NumberAt, One

LEMMA NumberIsNat ==
  ASSUME NEW S, IsFiniteSet(S), NEW f, NEW v
  PROVE  NumberAt(S, f, v) \in Nat
<1>1. {z \in S : f[z] = v} \in SUBSET S
  BY Zenon
<1> QED BY <1>1, FS_Subset, FS_CardinalityType, Zenon DEF NumberAt

\* A channel that one worker uses is used by no other.
LEMMA SingleWorker ==
  ASSUME TypeOK, Single, NEW v \in use.workers, NEW w \in use.workers
  PROVE  v = w
<1>1. use \in Uses
  BY Zenon DEF TypeOK
<1>2. use.workers \in SUBSET Worker
  BY <1>1, ChannelConstants, Zenon
<1>3. IsFiniteSet(use.workers)
  BY <1>2, ChannelConstants, FS_Subset, Zenon
<1>4. PICK x : use.workers = {x}
  BY <1>3, FS_Singleton, Zenon DEF Single
<1> QED BY <1>4, Zenon

-----------------------------------------------------------------------------
(* The steps. *)

\* All steps, of workers and of consumers.
Worked(w) == Request(w) \/ Proceed(w)
Consumed(k) == TimerFires(k) \/ Consume(k)

LEMMA Steps ==
  Next => /\ (\E w \in Worker : Worked(w)) \/ (\E k \in Consumer : Consumed(k))
          /\ use' = use
          /\ rested' = (rested \/ \E k \in Consumer : cpc'[k] = "rest")
BY Zenon DEF Next, History, Worked, Consumed

\* A consumer changes nothing of the workers, and a worker nothing of the
\* consumers but that it starts one.
LEMMA ConsumedFrame ==
  ASSUME NEW k \in Consumer, Consumed(k)
  PROVE  UNCHANGED <<joined, perm, info, lock, seq, made, pc, todo, arg>>
BY Zenon DEF Consumed, TimerFires, Consume, Receive, ReceiveNil, Uncount, Push, Rest, Drain,
       CountDropped, ZeroQueued, Stop, members

LEMMA WorkedFrame ==
  ASSUME NEW w \in Worker, Worked(w)
  PROVE  UNCHANGED <<msg, got>> /\ (UNCHANGED <<cpc, running>> \/ Start(w))
BY Zenon DEF Worked, Request, Proceed, PublishMessage, PublishNotify, SubscribeUpdate,
       SubscribeNew, Unsubscribe, Update, Close, Number, SubscribeInsert, SendMessage,
       Send, SendPanics, Count, Check, Start, members, consumers

-----------------------------------------------------------------------------
(* Types. *)

LEMMA Bounds ==
  ASSUME IInv
  PROVE  /\ made \in Nat /\ seq \in Nat /\ made <= MaxMsg /\ MaxMsg \in Nat
         /\ use.msgs \in Nat /\ use.msgs <= MaxMsg
         /\ \A w \in Worker : pc[w] = "number" => seq + 1 <= made
<1>1. use \in Uses /\ made \in 0..MaxMsg /\ seq \in 0..MaxMsg
  BY Zenon DEF IInv, TypeOK
<1>2. use.msgs \in 0..MaxMsg /\ MaxMsg \in Nat
  BY <1>1, ChannelConstants, Zenon
<1>3. ASSUME NEW w \in Worker, pc[w] = "number"
      PROVE  seq + 1 <= made
  <2> DEFINE N == {v \in Worker : pc[v] = "number"}
  <2>1. IsFiniteSet(N)
    BY ChannelConstants, FS_Subset, Zenon
  <2>2. Cardinality(N) \in Nat /\ Cardinality(N) # 0
    BY <1>3, <2>1, FS_EmptySet, FS_CardinalityType, Zenon
  <2>3. seq + Cardinality(N) <= made
    BY Zenon DEF IInv, NumberInv
  <2> HIDE DEF N
  <2> QED BY <1>1, <1>2, <2>2, <2>3
<1> QED BY <1>1, <1>2, <1>3

LEMMA MsgOK ==
  ASSUME NEW i \in 1..MaxMsg, NEW to \in SUBSET Sub
  PROVE  Msg(i, to) \in Message /\ Msg(i, to).id = i /\ Msg(i, to).seq = 0
<1>1. MaxMsg \in Nat
  BY ChannelConstants, Zenon
<1> QED BY <1>1 DEF Msg, Message

LEMMA PcStep ==
  ASSUME IInv, Next
  PROVE  pc' \in [Worker -> WorkerPC] /\ cpc' \in [Consumer -> ConsumerPC]
<1>1. pc \in [Worker -> WorkerPC] /\ cpc \in [Consumer -> ConsumerPC]
  BY Zenon DEF IInv, TypeOK
<1>2. ASSUME NEW w \in Worker, Worked(w)
      PROVE  pc' \in [Worker -> WorkerPC] /\ cpc' \in [Consumer -> ConsumerPC]
  <2>1. pc' = pc \/ \E to \in WorkerPC : pc' = [pc EXCEPT ![w] = to]
    BY <1>2, Zenon DEF Worked, Request, Proceed, PublishMessage, PublishNotify, SubscribeUpdate,
         SubscribeNew, Unsubscribe, Update, Close, Number, SubscribeInsert, SendMessage,
         Send, SendPanics, Count, Check, Start, Return, Begin, Goto, WorkerPC
  <2>2. cpc' = cpc \/ \E k \in Consumer : cpc' = [cpc EXCEPT ![k] = "loop"]
    BY <1>2, WorkedFrame, Zenon DEF Start
  <2> QED BY <1>1, <2>1, <2>2, Zenon DEF ConsumerPC
<1>3. ASSUME NEW k \in Consumer, Consumed(k)
      PROVE  pc' \in [Worker -> WorkerPC] /\ cpc' \in [Consumer -> ConsumerPC]
  <2>1. \E to \in ConsumerPC : cpc' = [cpc EXCEPT ![k] = to]
    BY <1>3, Zenon DEF Consumed, TimerFires, Consume, Receive, ReceiveNil, Uncount, Push, Rest,
                Drain, CountDropped, ZeroQueued, Stop, CGoto, ConsumerPC
  <2> QED BY <1>1, <1>3, <2>1, ConsumedFrame, Zenon
<1> QED BY <1>2, <1>3, Steps, Zenon

LEMMA MemberStep ==
  ASSUME IInv, Next
  PROVE  /\ joined' \in SUBSET Sub
         /\ perm' \in [Sub -> Perms]
         /\ info' \in [closed : BOOLEAN, muted : BOOLEAN, blocked : BOOLEAN]
         /\ lock' \in Worker \cup {Nobody}
<1>1. ASSUME NEW k \in Consumer, Consumed(k)
      PROVE  UNCHANGED <<joined, perm, info, lock>>
  BY <1>1, ConsumedFrame, Zenon
<1>2. ASSUME NEW w \in Worker, Worked(w)
      PROVE  /\ joined' \in SUBSET Sub
             /\ perm' \in [Sub -> Perms]
             /\ info' \in [closed : BOOLEAN, muted : BOOLEAN, blocked : BOOLEAN]
             /\ lock' \in Worker \cup {Nobody}
  <2>0. /\ joined \in SUBSET Sub
        /\ perm \in [Sub -> Perms]
        /\ info \in [closed : BOOLEAN, muted : BOOLEAN, blocked : BOOLEAN]
        /\ lock \in Worker \cup {Nobody}
    BY Zenon DEF IInv, TypeOK
  <2>1. lock' \in Worker \cup {Nobody}
    BY <1>2, <2>0, Zenon
       DEF Worked, Request, Proceed, PublishMessage, PublishNotify, SubscribeUpdate,
         SubscribeNew, Unsubscribe, Update, Close, Number, SubscribeInsert, SendMessage,
         Send, SendPanics, Count, Check, Start, Return
  <2>2. \/ UNCHANGED members
        \/ \E s \in Sub, p \in Perms : SubscribeUpdate(w, s, p)
        \/ SubscribeInsert(w)
        \/ \E s \in Sub : Unsubscribe(w, s)
        \/ \E muted, blocked \in BOOLEAN : Update(w, muted, blocked)
        \/ Close(w)
    BY <1>2, Zenon DEF Worked, Request, Proceed, PublishMessage, PublishNotify,
         SubscribeNew, Number, SendMessage,
         Send, SendPanics, Count, Check, Start
  <2>3. {} \in Perms
    BY Zenon DEF Perms
  <2>4. SubscribeInsert(w) => arg[w].who \in Sub /\ arg[w].perm \in Perms
    BY Zenon DEF SubscribeInsert, Goto, IInv, TypeOK, LocalInv, WorkerInv
  <2>5. joined' \in SUBSET Sub /\ perm' \in [Sub -> Perms]
    BY <2>0, <2>2, <2>3, <2>4, Zenon
       DEF members, SubscribeUpdate, SubscribeInsert, Unsubscribe, Update, Close
  <2>6. info' \in [closed : BOOLEAN, muted : BOOLEAN, blocked : BOOLEAN]
    BY <2>0, <2>2, Zenon
       DEF members, SubscribeUpdate, SubscribeInsert, Unsubscribe, Update, Close
  <2> QED BY <2>1, <2>5, <2>6, Zenon
<1> QED BY <1>1, <1>2, Steps, Zenon DEF IInv, TypeOK

\* A step of worker w as the others see it.
LEMMA OtherWorkers ==
  ASSUME TypeOK, NEW w \in Worker, Worked(w), NEW v \in Worker, v # w
  PROVE  pc'[v] = pc[v] /\ todo'[v] = todo[v] /\ arg'[v] = arg[v]
<1>1. /\ pc \in [Worker -> WorkerPC] /\ todo \in [Worker -> Seq(Message)]
      /\ arg \in [Worker -> [who : Sub, perm : Perms, id : 1..MaxMsg] \cup {NoArg}]
  BY Zenon DEF TypeOK
<1>2. pc' = pc \/ \E x : pc' = [pc EXCEPT ![w] = x]
  BY Zenon DEF Worked, Request, Proceed, PublishMessage, PublishNotify, SubscribeUpdate,
         SubscribeNew, Unsubscribe, Update, Close, Number, SubscribeInsert, SendMessage,
         Send, SendPanics, Count, Check, Start, Return, Begin, Goto
<1>3. todo' = todo \/ \E x : todo' = [todo EXCEPT ![w] = x]
  BY Zenon DEF Worked, Request, Proceed, PublishMessage, PublishNotify, SubscribeUpdate,
         SubscribeNew, Unsubscribe, Update, Close, Number, SubscribeInsert, SendMessage,
         Send, SendPanics, Count, Check, Start, Return
<1>4. arg' = arg \/ \E x : arg' = [arg EXCEPT ![w] = x]
  BY Zenon DEF Worked, Request, Proceed, PublishMessage, PublishNotify, SubscribeUpdate,
         SubscribeNew, Unsubscribe, Update, Close, Number, SubscribeInsert, SendMessage,
         Send, SendPanics, Count, Check, Start, Return
<1> QED BY <1>1, <1>2, <1>3, <1>4, Zenon

\* The steps of a worker by what they do to its messages.
Starts(w) ==
  /\ w \in use.workers /\ pc[w] = "idle"
  /\ made < use.msgs /\ made' = made + 1
  /\ \E to \in {"number", "send"} : pc' = [pc EXCEPT ![w] = to]
  /\ \E t \in SUBSET Sub : todo' = [todo EXCEPT ![w] = <<Msg(made + 1, t)>>]
  /\ UNCHANGED <<arg, seq, queue, queued>>

Subscribes(w) ==
  /\ w \in use.workers /\ pc[w] = "idle"
  /\ made + 2 <= use.msgs /\ made' = made + 2
  /\ pc' = [pc EXCEPT ![w] = "insert"]
  /\ \E s \in Sub, p \in Perms :
       arg' = [arg EXCEPT ![w] = [who |-> s, perm |-> p, id |-> made + 1]]
  /\ UNCHANGED <<todo, seq, queue, queued>>

LEMMA WorkShape ==
  ASSUME NEW w \in Worker, Worked(w)
  PROVE  \/ UNCHANGED <<pc, todo, arg, made, seq, queue, queued>>
         \/ Starts(w) \/ Subscribes(w) \/ Number(w) \/ SubscribeInsert(w)
         \/ Send(w) \/ SendPanics(w) \/ Count(w) \/ Check(w) \/ Start(w)
<1>1. CASE Proceed(w)
  BY <1>1, Zenon DEF Proceed, SendMessage
<1>2. ASSUME NEW s \in Sub, PublishMessage(w, s)
      PROVE  Starts(w)
  BY <1>2, Zenon DEF PublishMessage, Begin, Calls, Goto, Starts
<1>3. ASSUME NEW s \in Sub, NEW to \in SUBSET Sub, PublishNotify(w, s, to)
      PROVE  Starts(w)
  BY <1>3, Zenon DEF PublishNotify, Begin, Calls, Goto, Starts
<1>4. ASSUME NEW s \in Sub, Unsubscribe(w, s)
      PROVE  Starts(w)
  BY <1>4, Zenon DEF Unsubscribe, Begin, Calls, Goto, Starts
<1>5. ASSUME NEW s \in Sub, NEW p \in Perms, SubscribeNew(w, s, p)
      PROVE  Subscribes(w)
  BY <1>5, Zenon DEF SubscribeNew, Begin, Calls, Goto, Subscribes
<1>6. ASSUME \/ \E s \in Sub, p \in Perms : SubscribeUpdate(w, s, p)
             \/ \E muted, blocked \in BOOLEAN : Update(w, muted, blocked)
             \/ Close(w)
      PROVE  UNCHANGED <<pc, todo, arg, made, seq, queue, queued>>
  BY <1>6, Zenon DEF SubscribeUpdate, Update, Close
<1> QED BY <1>1, <1>2, <1>3, <1>4, <1>5, <1>6, Zenon DEF Worked, Request

LEMMA Emptiness ==
  ASSUME NEW S, NEW s \in Seq(S)
  PROVE  Len(s) \in Nat /\ (s = <<>> <=> Len(s) = 0)
<1> DEFINE Empty == <<>>
<1>1. Len(Empty) = 0 /\ (s # Empty => Len(s) \in Nat \ {0})
  BY EmptySeq, Zenon
<1> HIDE DEF Empty
<1>2. s = Empty => Len(s) = 0
  BY <1>1, Zenon
<1>3. Len(s) = 0 => s = Empty
  BY <1>1, Zenon
<1> QED BY <1>1, <1>2, <1>3, Zenon DEF Empty

\* What Return leaves of the messages of an operation.
LEMMA ReturnFacts ==
  ASSUME IInv, NEW w \in Worker, NEW from, Return(w, from), Len(todo[w]) \in 1..2
  PROVE  /\ todo' = [todo EXCEPT ![w] = Tail(todo[w])]
         /\ todo'[w] \in Seq(Message) /\ Len(todo'[w]) = Len(todo[w]) - 1
         /\ Len(todo[w]) = 2 => todo'[w][1] = todo[w][2] /\ pc'[w] = "send"
         /\ Len(todo[w]) = 1 => todo'[w] = <<>> /\ pc'[w] = "idle"
<1>1. todo \in [Worker -> Seq(Message)] /\ pc \in [Worker -> WorkerPC]
  BY Zenon DEF IInv, TypeOK
<1>2. todo[w] \in Seq(Message) /\ todo[w] # <<>>
  <2>1. todo[w] \in Seq(Message)
    BY <1>1, Zenon
  <2>2. Len(todo[w]) # 0
    OBVIOUS
  <2> QED BY <2>1, <2>2, Emptiness, Zenon
<1>3. /\ Tail(todo[w]) \in Seq(Message) /\ Len(Tail(todo[w])) = Len(todo[w]) - 1
      /\ \A i \in 1..Len(Tail(todo[w])) : Tail(todo[w])[i] = todo[w][i + 1]
  BY <1>2, HeadTailProperties, Zenon
<1>4. todo' = [todo EXCEPT ![w] = Tail(todo[w])] /\ todo'[w] = Tail(todo[w])
  BY <1>1, Zenon DEF Return
<1>5. pc'[w] = IF Len(todo[w]) > 1 THEN "send" ELSE "idle"
  BY <1>1, Zenon DEF Return, Goto
<1>6. Len(todo[w]) = 1 => Tail(todo[w]) = <<>>
  <2>1. Len(todo[w]) = 1 => Len(Tail(todo[w])) = 0
    BY <1>3
  <2> QED BY <1>3, <2>1, Emptiness, Zenon
<1>7. Len(todo[w]) = 2 => Tail(todo[w])[1] = todo[w][2]
  BY <1>3
<1>8. /\ Len(todo[w]) = 2 => pc'[w] = "send"
      /\ Len(todo[w]) = 1 => pc'[w] = "idle"
  <2>1. /\ Len(todo[w]) = 2 => Len(todo[w]) > 1
        /\ Len(todo[w]) = 1 => ~(Len(todo[w]) > 1)
    OBVIOUS
  <2> QED BY <1>5, <2>1, Zenon
<1> QED BY <1>3, <1>4, <1>6, <1>7, <1>8, Zenon

LEMMA OwnStep ==
  ASSUME IInv, NEW w \in Worker, Worked(w), use' = use
  PROVE  /\ todo'[w] \in Seq(Message) /\ WorkerInv(w)'
         /\ arg'[w] \in [who : Sub, perm : Perms, id : 1..MaxMsg] \cup {NoArg}
         /\ made' \in 0..MaxMsg /\ seq' \in 0..MaxMsg /\ made' <= use.msgs
<1>1. /\ todo \in [Worker -> Seq(Message)] /\ pc \in [Worker -> WorkerPC]
      /\ arg \in [Worker -> [who : Sub, perm : Perms, id : 1..MaxMsg] \cup {NoArg}]
      /\ made \in 0..MaxMsg /\ seq \in 0..MaxMsg /\ made <= use.msgs
  BY Zenon DEF IInv, TypeOK
<1>2. todo[w] \in Seq(Message) /\ WorkerInv(w)
  BY <1>1, Zenon DEF IInv, LocalInv
<1>3. CASE UNCHANGED <<pc, todo, arg, made, seq, queue, queued>>
  BY <1>1, <1>2, <1>3, Zenon DEF WorkerInv
<1>4. CASE Starts(w)
  <2>1. PICK t \in SUBSET Sub : todo' = [todo EXCEPT ![w] = <<Msg(made + 1, t)>>]
    BY <1>4, Zenon DEF Starts
  <2>2. Msg(made + 1, t) \in Message /\ made' \in 0..MaxMsg /\ made' <= use.msgs
    BY <1>4, Bounds, MsgOK DEF Starts
  <2>3. todo'[w] = <<Msg(made + 1, t)>> /\ pc'[w] \in {"number", "send"}
    BY <1>1, <1>4, <2>1, Zenon DEF Starts
  <2>4. todo'[w] \in Seq(Message) /\ Len(todo'[w]) = 1
    BY <2>2, <2>3
  <2> QED BY <1>1, <1>4, <2>2, <2>3, <2>4 DEF WorkerInv, Starts
<1>5. CASE Subscribes(w)
  <2>1. PICK s \in Sub, p \in Perms :
          arg' = [arg EXCEPT ![w] = [who |-> s, perm |-> p, id |-> made + 1]]
    BY <1>5, Zenon DEF Subscribes
  <2>2. made' = made + 2 /\ made' \in 0..MaxMsg /\ made' <= use.msgs /\ made + 1 \in 1..MaxMsg
    BY <1>1, <1>5, Bounds DEF Subscribes
  <2>3. /\ arg'[w] = [who |-> s, perm |-> p, id |-> made + 1]
        /\ arg'[w] \in [who : Sub, perm : Perms, id : 1..MaxMsg]
        /\ arg'[w].id = made + 1
    BY <1>1, <2>1, <2>2, Zenon
  <2>4. arg'[w] # NoArg
    <3>1. NoArg.id = 0
      BY Zenon DEF NoArg
    <3> QED BY <1>1, <2>3, <3>1
  <2>5. pc'[w] = "insert" /\ todo'[w] = <<>> /\ w \in use.workers
    BY <1>1, <1>2, <1>5, Zenon DEF Subscribes, WorkerInv
  <2>6. Len(todo'[w]) = 0
    BY <2>5
  <2>7. arg'[w].id + 1 <= MaxMsg
    BY <1>1, <2>2, <2>3
  <2> QED BY <1>1, <1>2, <1>5, <2>2, <2>3, <2>4, <2>5, <2>6, <2>7, Zenon DEF WorkerInv, Subscribes
<1>6. CASE Number(w)
  <2>1. pc[w] = "number" /\ Len(todo[w]) = 1 /\ w \in use.workers
    BY <1>2, <1>6, Zenon DEF Number, Goto, WorkerInv
  <2>2. seq' = seq + 1 /\ seq' \in 0..MaxMsg
    BY <1>1, <1>6, <2>1, Bounds DEF Number
  <2>3. CASE todo' = [todo EXCEPT ![w] = <<>>] /\ Goto(w, "number", "idle")
    BY <1>1, <1>2, <1>6, <2>2, <2>3 DEF Number, WorkerInv, Goto
  <2>4. CASE /\ todo' = [todo EXCEPT ![w] = <<[Head(@) EXCEPT !.seq = seq + 1]>>]
             /\ Goto(w, "number", "send")
    <3>1. Head(todo[w]) \in Message
      BY <1>2, <2>1
    <3>2. [Head(todo[w]) EXCEPT !.seq = seq + 1] \in Message
      BY <2>2, <3>1, Zenon DEF Message
    <3>3. /\ todo'[w] \in Seq(Message) /\ Len(todo'[w]) = 1 /\ pc'[w] = "send"
      BY <1>1, <2>4, <3>2 DEF Goto
    <3> QED BY <1>1, <1>2, <1>6, <2>1, <2>2, <3>3 DEF Number, WorkerInv
  <2> QED BY <1>6, <2>3, <2>4, Zenon DEF Number
<1>7. CASE SubscribeInsert(w)
  <2>1. /\ pc[w] = "insert" /\ arg[w] # NoArg /\ arg[w].id + 1 <= MaxMsg /\ w \in use.workers
        /\ arg[w] \in [who : Sub, perm : Perms, id : 1..MaxMsg]
    BY <1>1, <1>2, <1>7, Zenon DEF SubscribeInsert, Goto, WorkerInv
  <2>2. /\ todo' = [todo EXCEPT ![w] = <<Msg(arg[w].id, {}), Msg(arg[w].id + 1, {arg[w].who})>>]
        /\ arg' = [arg EXCEPT ![w] = NoArg] /\ pc' = [pc EXCEPT ![w] = "send"]
        /\ UNCHANGED <<seq, made>>
    BY <1>7, Zenon DEF SubscribeInsert, Goto
  <2>3. arg[w].id \in 1..MaxMsg /\ arg[w].id + 1 \in 1..MaxMsg /\ arg[w].who \in Sub
    BY <2>1, ChannelConstants
  <2>4. /\ Msg(arg[w].id, {}) \in Message /\ Msg(arg[w].id, {}).id = arg[w].id
        /\ Msg(arg[w].id + 1, {arg[w].who}) \in Message
        /\ Msg(arg[w].id + 1, {arg[w].who}).id = arg[w].id + 1
    BY <2>3, MsgOK, Zenon
  <2>5. /\ todo'[w] = <<Msg(arg[w].id, {}), Msg(arg[w].id + 1, {arg[w].who})>>
        /\ arg'[w] = NoArg /\ pc'[w] = "send"
    BY <1>1, <2>2, Zenon
  <2>6. /\ todo'[w] \in Seq(Message) /\ Len(todo'[w]) = 2
        /\ todo'[w][1].id = arg[w].id /\ todo'[w][2].id = arg[w].id + 1
    BY <2>4, <2>5
  <2> QED BY <1>1, <2>1, <2>2, <2>3, <2>5, <2>6 DEF WorkerInv
<1>8. CASE SendPanics(w)
  BY <1>1, <1>2, <1>8 DEF SendPanics, Goto, WorkerInv
<1>9. ASSUME NEW from \in {"send", "check", "start"}, Return(w, from),
             UNCHANGED <<arg, made, seq>>
      PROVE  /\ todo'[w] \in Seq(Message) /\ WorkerInv(w)'
             /\ arg'[w] \in [who : Sub, perm : Perms, id : 1..MaxMsg] \cup {NoArg}
             /\ made' \in 0..MaxMsg /\ seq' \in 0..MaxMsg /\ made' <= use.msgs
  <2>1. pc[w] = from /\ Len(todo[w]) \in 1..2 /\ w \in use.workers
    BY <1>2, <1>9, Zenon DEF Return, Goto, WorkerInv
  <2>2. /\ todo'[w] \in Seq(Message) /\ Len(todo'[w]) = Len(todo[w]) - 1
        /\ Len(todo[w]) = 2 => pc'[w] = "send"
        /\ Len(todo[w]) = 1 => todo'[w] = <<>> /\ pc'[w] = "idle"
    BY <1>9, <2>1, ReturnFacts, Zenon
  <2>3. CASE Len(todo[w]) = 1
    <3>1. Len(todo'[w]) = 0 /\ todo'[w] = <<>> /\ pc'[w] = "idle"
      BY <2>2, <2>3, Zenon
    <3>2. WorkerInv(w)'
      BY <3>1 DEF WorkerInv
    <3> QED BY <1>1, <1>9, <2>2, <3>2, Zenon
  <2>4. CASE Len(todo[w]) = 2
    <3>1. Len(todo'[w]) = 1 /\ pc'[w] = "send"
      BY <2>2, <2>4
    <3>2. WorkerInv(w)'
      BY <2>1, <3>1 DEF WorkerInv
    <3> QED BY <1>1, <1>9, <2>2, <3>2, Zenon
  <2> QED BY <2>1, <2>3, <2>4
<1>10. ASSUME NEW from \in {"send", "count", "check"}, NEW to \in {"count", "check", "start"},
              Goto(w, from, to), UNCHANGED <<todo, arg, made, seq>>
       PROVE  /\ todo'[w] \in Seq(Message) /\ WorkerInv(w)'
              /\ arg'[w] \in [who : Sub, perm : Perms, id : 1..MaxMsg] \cup {NoArg}
              /\ made' \in 0..MaxMsg /\ seq' \in 0..MaxMsg /\ made' <= use.msgs
  BY <1>1, <1>2, <1>10, Zenon DEF Goto, WorkerInv
<1>11. CASE Send(w) \/ Count(w) \/ Check(w) \/ Start(w)
  BY <1>9, <1>10, <1>11, Zenon DEF Send, Count, Check, Start
<1> QED BY <1>3, <1>4, <1>5, <1>6, <1>7, <1>8, <1>11, WorkShape, Zenon

LEMMA WorkersStep ==
  ASSUME IInv, Next
  PROVE  /\ todo' \in [Worker -> Seq(Message)]
         /\ arg' \in [Worker -> [who : Sub, perm : Perms, id : 1..MaxMsg] \cup {NoArg}]
         /\ \A w \in Worker : WorkerInv(w)'
         /\ made' \in 0..MaxMsg /\ seq' \in 0..MaxMsg /\ made' <= use'.msgs
<1>1. /\ todo \in [Worker -> Seq(Message)] /\ pc \in [Worker -> WorkerPC]
      /\ arg \in [Worker -> [who : Sub, perm : Perms, id : 1..MaxMsg] \cup {NoArg}]
      /\ made \in 0..MaxMsg /\ seq \in 0..MaxMsg /\ made <= use.msgs
      /\ \A v \in Worker : WorkerInv(v)
      /\ TypeOK
  BY Zenon DEF IInv, TypeOK, LocalInv
<1>2. use' = use
  BY Steps, Zenon
<1>3. ASSUME NEW k \in Consumer, Consumed(k)
      PROVE  /\ UNCHANGED <<todo, arg, made, seq>>
             /\ \A v \in Worker : WorkerInv(v)'
  BY <1>1, <1>2, <1>3, ConsumedFrame, Zenon DEF WorkerInv
<1>4. ASSUME NEW w \in Worker, Worked(w)
      PROVE  /\ todo' \in [Worker -> Seq(Message)]
             /\ arg' \in [Worker -> [who : Sub, perm : Perms, id : 1..MaxMsg] \cup {NoArg}]
             /\ \A v \in Worker : WorkerInv(v)'
             /\ made' \in 0..MaxMsg /\ seq' \in 0..MaxMsg /\ made' <= use'.msgs
  <2>1. /\ todo'[w] \in Seq(Message) /\ WorkerInv(w)'
        /\ arg'[w] \in [who : Sub, perm : Perms, id : 1..MaxMsg] \cup {NoArg}
        /\ made' \in 0..MaxMsg /\ seq' \in 0..MaxMsg /\ made' <= use.msgs
    BY <1>2, <1>4, OwnStep, Zenon
  <2>2. \A v \in Worker \ {w} : pc'[v] = pc[v] /\ todo'[v] = todo[v] /\ arg'[v] = arg[v]
    BY <1>1, <1>4, OtherWorkers, Zenon
  <2>3. \A v \in Worker : WorkerInv(v)'
    <3>1. ASSUME NEW v \in Worker, v # w
          PROVE  WorkerInv(v)'
      BY <1>1, <1>2, <2>2, <3>1, Zenon DEF WorkerInv
    <3> QED BY <2>1, <3>1, Zenon
  <2>4. todo' = todo \/ \E x : todo' = [todo EXCEPT ![w] = x]
    BY <1>4, Zenon DEF Worked, Request, Proceed, PublishMessage, PublishNotify, SubscribeUpdate,
         SubscribeNew, Unsubscribe, Update, Close, Number, SubscribeInsert, SendMessage,
         Send, SendPanics, Count, Check, Start, Return
  <2>5. arg' = arg \/ \E x : arg' = [arg EXCEPT ![w] = x]
    BY <1>4, Zenon DEF Worked, Request, Proceed, PublishMessage, PublishNotify, SubscribeUpdate,
         SubscribeNew, Unsubscribe, Update, Close, Number, SubscribeInsert, SendMessage,
         Send, SendPanics, Count, Check, Start, Return
  <2>6. todo' \in [Worker -> Seq(Message)]
    BY <1>1, <2>1, <2>4, Zenon
  <2>7. arg' \in [Worker -> [who : Sub, perm : Perms, id : 1..MaxMsg] \cup {NoArg}]
    BY <1>1, <2>1, <2>5, Zenon
  <2> QED BY <1>2, <2>1, <2>3, <2>6, <2>7, Zenon
<1> QED BY <1>1, <1>2, <1>3, <1>4, Steps, Zenon

LEMMA WorkersAt ==
  ASSUME NEW w \in Worker, \A v \in Worker : v # w => pc'[v] = pc[v], NEW at
  PROVE  /\ NumberAt(Worker, pc, at) \in Nat
         /\ NumberAt(Worker, pc', at) = NumberAt(Worker, pc, at)
                                          + One(pc'[w], at) - One(pc[w], at)
<1>1. IsFiniteSet(Worker)
  BY ChannelConstants, Zenon
<1>2. NumberAt(Worker, pc, at) \in Nat
  BY <1>1, CountChange, Zenon
<1>3. NumberAt(Worker, pc', at) = NumberAt(Worker, pc, at) + One(pc'[w], at) - One(pc[w], at)
  BY <1>1, CountChange
<1> QED BY <1>2, <1>3, Zenon

LEMMA ConsumersAt ==
  ASSUME NEW k \in Consumer, \A l \in Consumer : l # k => cpc'[l] = cpc[l], NEW at
  PROVE  /\ NumberAt(Consumer, cpc, at) \in Nat
         /\ NumberAt(Consumer, cpc', at) = NumberAt(Consumer, cpc, at)
                                             + One(cpc'[k], at) - One(cpc[k], at)
<1>1. IsFiniteSet(Consumer)
  BY ChannelConstants, Zenon
<1>2. NumberAt(Consumer, cpc, at) \in Nat
  BY <1>1, CountChange, Zenon
<1>3. NumberAt(Consumer, cpc', at) = NumberAt(Consumer, cpc, at)
                                       + One(cpc'[k], at) - One(cpc[k], at)
  BY <1>1, CountChange
<1> QED BY <1>2, <1>3, Zenon

LEMMA NumberStep ==
  ASSUME IInv, Next
  PROVE  NumberInv'
<1> DEFINE N(f) == NumberAt(Worker, f, "number")
<1>1. pc \in [Worker -> WorkerPC] /\ seq + N(pc) <= made
  BY Zenon DEF IInv, TypeOK, NumberInv, NumberAt
<1>2. seq \in Nat /\ made \in Nat
  BY Bounds, Zenon
<1>3. ASSUME NEW w \in Worker, NEW to, pc' = [pc EXCEPT ![w] = to]
      PROVE  /\ N(pc) \in Nat
             /\ N(pc') = N(pc) + (IF to = "number" THEN 1 ELSE 0)
                               - (IF pc[w] = "number" THEN 1 ELSE 0)
  <2>2. pc'[w] = to /\ \A v \in Worker : v # w => pc'[v] = pc[v]
    BY <1>1, <1>3, Zenon
  <2>3. /\ NumberAt(Worker, pc, "number") \in Nat
        /\ NumberAt(Worker, pc', "number") = NumberAt(Worker, pc, "number")
             + One(pc'[w], "number") - One(pc[w], "number")
    BY <2>2, WorkersAt, Zenon
  <2> QED BY <2>2, <2>3, Zenon DEF One
<1> HIDE DEF N
<1>4. ASSUME NEW k \in Consumer, Consumed(k)
      PROVE  seq' + N(pc') <= made'
  BY <1>1, <1>4, ConsumedFrame, Zenon
<1>5. ASSUME NEW w \in Worker, Worked(w)
      PROVE  seq' + N(pc') <= made'
  <2>1. CASE UNCHANGED <<pc, todo, arg, made, seq, queue, queued>>
    BY <1>1, <2>1, Zenon
  <2>2. CASE Starts(w)
    <3>1. PICK to \in {"number", "send"} : pc' = [pc EXCEPT ![w] = to]
      BY <2>2, Zenon DEF Starts
    <3>2. to \in WorkerPC
      BY Zenon DEF WorkerPC
    <3>3. /\ N(pc) \in Nat /\ pc[w] # "number"
          /\ N(pc') = N(pc) + (IF to = "number" THEN 1 ELSE 0)
                            - (IF pc[w] = "number" THEN 1 ELSE 0)
      BY <1>3, <2>2, <3>1, <3>2, Zenon DEF Starts
    <3> QED BY <1>1, <1>2, <2>2, <3>3 DEF Starts
  <2>3. CASE Number(w)
    <3>1. PICK to \in {"idle", "send"} : pc' = [pc EXCEPT ![w] = to]
      BY <2>3, Zenon DEF Number, Goto
    <3>2. to \in WorkerPC
      BY Zenon DEF WorkerPC
    <3>3. /\ N(pc) \in Nat /\ pc[w] = "number" /\ to # "number"
          /\ N(pc') = N(pc) + (IF to = "number" THEN 1 ELSE 0)
                            - (IF pc[w] = "number" THEN 1 ELSE 0)
      BY <1>3, <2>3, <3>1, <3>2, Zenon DEF Number, Goto
    <3> QED BY <1>1, <1>2, <2>3, <3>3 DEF Number
  <2>4. CASE \/ Subscribes(w) \/ SubscribeInsert(w) \/ Send(w) \/ SendPanics(w)
             \/ Count(w) \/ Check(w) \/ Start(w)
    <3>1. /\ \E to \in {"insert", "send", "count", "check", "start", "idle"} :
               pc' = [pc EXCEPT ![w] = to]
          /\ pc[w] # "number" /\ seq' = seq /\ made' \in {made, made + 2}
      BY <2>4, Zenon DEF Subscribes, SubscribeInsert, Send, SendPanics, Count, Check, Start,
                  Return, Goto
    <3>2. PICK to \in {"insert", "send", "count", "check", "start", "idle"} :
            pc' = [pc EXCEPT ![w] = to]
      BY <3>1, Zenon
    <3>3. to \in WorkerPC
      BY Zenon DEF WorkerPC
    <3>4. /\ N(pc) \in Nat /\ pc[w] # "number" /\ to # "number"
          /\ N(pc') = N(pc) + (IF to = "number" THEN 1 ELSE 0)
                            - (IF pc[w] = "number" THEN 1 ELSE 0)
      BY <1>3, <3>1, <3>2, <3>3, Zenon
    <3> QED BY <1>1, <1>2, <3>1, <3>4
  <2> QED BY <1>5, <2>1, <2>2, <2>3, <2>4, WorkShape, Zenon
<1> QED BY <1>4, <1>5, Steps, Zenon DEF NumberInv, N, NumberAt

-----------------------------------------------------------------------------
(* The order of the messages. *)

LEMMA UnsentCases ==
  ASSUME NEW p, NEW t \in Seq(Message), NEW a
  PROVE  /\ p = "idle" /\ t = <<>> => UnsentOf(p, t, a) = {}
         /\ p = "insert" => UnsentOf(p, t, a) = {a.id, a.id + 1}
         /\ p \in {"number", "send"} /\ Len(t) = 1 => UnsentOf(p, t, a) = {t[1].id}
         /\ p \in {"number", "send"} /\ Len(t) = 2 => UnsentOf(p, t, a) = {t[1].id, t[2].id}
         /\ p \in {"count", "check", "start"} /\ Len(t) = 1 => UnsentOf(p, t, a) = {}
         /\ p \in {"count", "check", "start"} /\ Len(t) = 2 => UnsentOf(p, t, a) = {t[2].id}
<1> DEFINE Ids(n) == {t[i].id : i \in n..Len(t)}
<1>1. Len(t) \in Nat /\ (t = <<>> <=> Len(t) = 0)
  BY Emptiness, Zenon
<1>2. Len(t) = 0 => Ids(1) = {}
  BY <1>1
<1>3. Len(t) = 1 => Ids(1) = {t[1].id} /\ Ids(2) = {}
  BY <1>1
<1>4. Len(t) = 2 => Ids(1) = {t[1].id, t[2].id} /\ Ids(2) = {t[2].id}
  <2> HAVE Len(t) = 2
  <2>1. 1..Len(t) = {1, 2} /\ 2..Len(t) = {2}
    OBVIOUS
  <2> QED BY <2>1, Zenon
<1>5. /\ p = "insert" => UnsentOf(p, t, a) = {a.id, a.id + 1}
      /\ p \in {"idle", "number", "send"} => UnsentOf(p, t, a) = Ids(1)
      /\ p \in {"count", "check", "start"} => UnsentOf(p, t, a) = Ids(2)
  BY Zenon DEF UnsentOf
<1> HIDE DEF Ids
<1>6. p = "idle" /\ t = <<>> => UnsentOf(p, t, a) = {}
  BY <1>1, <1>2, <1>5, Zenon
<1> QED BY <1>3, <1>4, <1>5, <1>6, Zenon

LEMMA UnsentRange ==
  ASSUME IInv, NEW w \in Worker
  PROVE  Unsent(w) \subseteq 1..MaxMsg
<1>1. /\ todo[w] \in Seq(Message) /\ MaxMsg \in Nat /\ WorkerInv(w)
      /\ arg[w] \in [who : Sub, perm : Perms, id : 1..MaxMsg] \cup {NoArg}
  BY ChannelConstants, Zenon DEF IInv, TypeOK, LocalInv
<1>2. pc[w] = "insert" => arg[w].id \in 1..MaxMsg /\ arg[w].id + 1 \in 1..MaxMsg
  BY <1>1 DEF WorkerInv
<1>3. \A i \in 1..Len(todo[w]) : todo[w][i].id \in 1..MaxMsg
  <2> TAKE i \in 1..Len(todo[w])
  <2>1. todo[w][i] \in Message
    BY <1>1
  <2> QED BY <2>1, Zenon DEF Message
<1>4. Len(todo[w]) \in Nat
  BY <1>1, Emptiness, Zenon
<1> QED BY <1>2, <1>3, <1>4 DEF Unsent, UnsentOf

\* A single worker is the only one that has messages to send.
LEMMA SingleUnsent ==
  ASSUME IInv, Single, NEW w \in Worker, w \in use.workers, NEW v \in Worker, v # w
  PROVE  Unsent(v) = {}
<1>1. TypeOK /\ todo[v] \in Seq(Message) /\ WorkerInv(v)
  BY Zenon DEF IInv, TypeOK, LocalInv
<1>2. v \notin use.workers
  BY <1>1, SingleWorker, Zenon
<1>3. pc[v] = "idle" /\ todo[v] = <<>>
  BY <1>1, <1>2, Zenon DEF WorkerInv
<1> QED BY <1>1, <1>3, UnsentCases, Zenon DEF Unsent

\* The steps of worker w by what they do to the messages it has not sent.
Fresh(w) ==
  /\ w \in use.workers /\ queue' = queue
  /\ \A b \in Unsent(w)' : b \in Nat /\ made < b /\ b <= made'

Shrinks(w) == queue' = queue /\ Unsent(w)' \subseteq Unsent(w)

Sends(w) ==
  \E m \in Message :
    /\ queue' = Append(queue, m) /\ m.id \in Unsent(w) /\ Unsent(w)' \subseteq Unsent(w)
    /\ \A b \in Unsent(w)' : m.id < b

LEMMA UnsentStep ==
  ASSUME IInv, NEW w \in Worker, Worked(w), use' = use
  PROVE  /\ \A v \in Worker \ {w} : Unsent(v)' = Unsent(v)
         /\ made <= made'
         /\ Fresh(w) \/ Shrinks(w) \/ Sends(w)
<1>1. /\ todo[w] \in Seq(Message) /\ pc \in [Worker -> WorkerPC] /\ made \in Nat
      /\ arg[w] \in [who : Sub, perm : Perms, id : 1..MaxMsg] \cup {NoArg}
      /\ WorkerInv(w) /\ TypeOK
  BY DEF IInv, TypeOK, LocalInv
<1>2. todo'[w] \in Seq(Message) /\ WorkerInv(w)'
  BY OwnStep, Zenon
<1>3. \A v \in Worker \ {w} : Unsent(v)' = Unsent(v)
  BY <1>1, OtherWorkers, Zenon DEF Unsent
<1>4. CASE UNCHANGED <<pc, todo, arg, made, seq, queue, queued>>
  BY <1>1, <1>3, <1>4 DEF Unsent, Shrinks
<1>5. CASE Starts(w)
  <2>1. PICK x \in SUBSET Sub : todo' = [todo EXCEPT ![w] = <<Msg(made + 1, x)>>]
    BY <1>5, Zenon DEF Starts
  <2>2. todo'[w] = <<Msg(made + 1, x)>> /\ Msg(made + 1, x).id = made + 1
    BY <1>1, <2>1, Zenon DEF Msg, TypeOK
  <2>3. pc'[w] \in {"number", "send"} /\ Len(todo'[w]) = 1 /\ todo'[w][1].id = made + 1
    BY <1>1, <1>5, <2>2 DEF Starts
  <2>4. Unsent(w)' = {made + 1}
    BY <1>2, <2>3, UnsentCases DEF Unsent
  <2>5. w \in use.workers /\ queue' = queue /\ made' = made + 1 /\ made \in Nat
    BY <1>1, <1>5, Zenon DEF Starts
  <2>6. Fresh(w) /\ made <= made'
    BY <2>4, <2>5 DEF Fresh
  <2> QED BY <1>3, <2>6, Zenon
<1>6. CASE Subscribes(w)
  <2>1. PICK s \in Sub, p \in Perms :
          arg' = [arg EXCEPT ![w] = [who |-> s, perm |-> p, id |-> made + 1]]
    BY <1>6, Zenon DEF Subscribes
  <2>2. arg'[w].id = made + 1 /\ pc'[w] = "insert"
    BY <1>1, <1>6, <2>1, Zenon DEF TypeOK, Subscribes
  <2>3. Unsent(w)' = {made + 1, made + 1 + 1}
    BY <1>2, <2>2, UnsentCases DEF Unsent
  <2>4. w \in use.workers /\ queue' = queue /\ made' = made + 2 /\ made \in Nat
    BY <1>1, <1>6, Zenon DEF Subscribes
  <2>5. Fresh(w) /\ made <= made'
    BY <2>3, <2>4 DEF Fresh
  <2> QED BY <1>3, <2>5, Zenon
<1>7. CASE Number(w)
  <2>1. pc[w] = "number" /\ Len(todo[w]) = 1
    BY <1>1, <1>7, Zenon DEF Number, Goto, WorkerInv
  <2>2. Unsent(w) = {todo[w][1].id}
    BY <1>1, <2>1, UnsentCases, Zenon DEF Unsent
  <2>3. CASE todo' = [todo EXCEPT ![w] = <<>>] /\ Goto(w, "number", "idle")
    <3>1. pc'[w] = "idle" /\ todo'[w] = <<>>
      BY <1>1, <2>3, Zenon DEF Goto, TypeOK
    <3>2. Unsent(w)' = {}
      BY <1>2, <3>1, UnsentCases, Zenon DEF Unsent
    <3> QED BY <1>1, <1>3, <1>7, <3>2, SMTT(20) DEF Shrinks, Number
  <2>4. CASE /\ todo' = [todo EXCEPT ![w] = <<[Head(@) EXCEPT !.seq = seq + 1]>>]
             /\ Goto(w, "number", "send")
    <3>1. pc'[w] = "send" /\ todo'[w] = <<[Head(todo[w]) EXCEPT !.seq = seq + 1]>>
      BY <1>1, <2>4, Zenon DEF Goto, TypeOK
    <3>2. todo[w][1] \in Message /\ Head(todo[w]) = todo[w][1]
      BY <1>1, <2>1
    <3>3. Len(todo'[w]) = 1 /\ todo'[w][1].id = todo[w][1].id
      BY <3>1, <3>2 DEF Message
    <3>4. pc'[w] = "send"
      BY <3>1, Zenon
    <3>5. Unsent(w)' = {todo'[w][1].id}
      BY <1>2, <3>3, <3>4, UnsentCases, Zenon DEF Unsent
    <3> QED BY <1>1, <1>3, <1>7, <2>2, <3>3, <3>5 DEF Shrinks, Number
  <2> QED BY <1>7, <2>3, <2>4, Zenon DEF Number
<1>8. CASE SubscribeInsert(w)
  <2>1. pc[w] = "insert" /\ arg[w].id + 1 <= MaxMsg /\ arg[w].id \in Nat
    BY <1>1, <1>8 DEF SubscribeInsert, Goto, WorkerInv
  <2>2. Unsent(w) = {arg[w].id, arg[w].id + 1}
    BY <1>1, <2>1, UnsentCases DEF Unsent
  <2>3. /\ pc'[w] = "send"
        /\ todo'[w] = <<Msg(arg[w].id, {}), Msg(arg[w].id + 1, {arg[w].who})>>
    BY <1>1, <1>8, Zenon DEF SubscribeInsert, Goto, TypeOK
  <2>4. /\ Msg(arg[w].id, {}).id = arg[w].id
        /\ Msg(arg[w].id + 1, {arg[w].who}).id = arg[w].id + 1
    BY Zenon DEF Msg
  <2>5. /\ Len(todo'[w]) = 2 /\ todo'[w][1].id = arg[w].id
        /\ todo'[w][2].id = arg[w].id + 1
    BY <2>3, <2>4
  <2>6. pc'[w] = "send"
    BY <2>3, Zenon
  <2>7. Unsent(w)' = {todo'[w][1].id, todo'[w][2].id}
    BY <1>2, <2>5, <2>6, UnsentCases, Zenon DEF Unsent
  <2>8. queue' = queue /\ made' = made /\ made \in Nat
    BY <1>1, <1>8, Zenon DEF SubscribeInsert
  <2> QED BY <1>3, <2>2, <2>5, <2>7, <2>8 DEF Shrinks
<1>9. CASE SendPanics(w)
  <2>1. pc'[w] = "idle" /\ todo'[w] = <<>>
    BY <1>1, <1>9, Zenon DEF SendPanics, Goto, TypeOK
  <2>2. Unsent(w)' = {}
    BY <1>2, <2>1, UnsentCases, Zenon DEF Unsent
  <2> QED BY <1>1, <1>3, <1>9, <2>2 DEF Shrinks, SendPanics
<1>10. ASSUME NEW from \in {"send", "check", "start"}, Return(w, from),
              UNCHANGED <<arg, made, queue>>
       PROVE  Shrinks(w)
  <2>1. pc[w] = from /\ Len(todo[w]) \in 1..2
    BY <1>1, <1>10, Zenon DEF Return, Goto, WorkerInv
  <2>2. /\ Len(todo'[w]) = Len(todo[w]) - 1
        /\ Len(todo[w]) = 2 => todo'[w][1] = todo[w][2] /\ pc'[w] = "send"
        /\ Len(todo[w]) = 1 => todo'[w] = <<>> /\ pc'[w] = "idle"
    BY <1>10, <2>1, ReturnFacts, Zenon
  <2>3. CASE Len(todo[w]) = 1
    <3>1. Unsent(w)' = {}
      BY <1>2, <2>2, <2>3, UnsentCases, Zenon DEF Unsent
    <3> QED BY <1>10, <3>1, Zenon DEF Shrinks
  <2>4. CASE Len(todo[w]) = 2
    <3>1. Len(todo'[w]) = 1 /\ todo'[w][1] = todo[w][2] /\ pc'[w] = "send"
      BY <2>2, <2>4
    <3>2. Unsent(w)' = {todo[w][2].id}
      BY <1>2, <3>1, UnsentCases DEF Unsent
    <3>3. Unsent(w) = {todo[w][1].id, todo[w][2].id} \/ Unsent(w) = {todo[w][2].id}
      BY <1>1, <2>1, <2>4, UnsentCases, Zenon DEF Unsent
    <3> QED BY <1>10, <3>2, <3>3, Zenon DEF Shrinks
  <2> QED BY <2>1, <2>3, <2>4
<1>11. ASSUME NEW from \in {"count", "check"}, NEW to \in {"check", "start"},
              Goto(w, from, to), UNCHANGED <<todo, arg, made, queue>>
       PROVE  Shrinks(w)
  <2>1. pc[w] = from /\ pc'[w] = to
    BY <1>1, <1>11, Zenon DEF Goto
  <2> QED BY <1>11, <2>1, Zenon DEF Shrinks, Unsent, UnsentOf
<1>12. ASSUME Goto(w, "send", "count"), UNCHANGED <<todo, arg, made>>,
              queue' = Append(queue, Head(todo[w]))
       PROVE  Sends(w)
  <2>1. pc[w] = "send" /\ pc'[w] = "count" /\ Len(todo[w]) \in 1..2 /\ todo'[w] = todo[w]
    BY <1>1, <1>12, Zenon DEF Goto, WorkerInv
  <2>2. todo[w][1] \in Message /\ Head(todo[w]) = todo[w][1]
    BY <1>1, <2>1
  <2>3. CASE Len(todo[w]) = 1
    <3>1. Unsent(w) = {todo[w][1].id} /\ Unsent(w)' = {}
      BY <1>1, <1>2, <2>1, <2>3, UnsentCases, Zenon DEF Unsent
    <3> QED BY <1>12, <2>2, <3>1, Zenon DEF Sends
  <2>4. CASE Len(todo[w]) = 2
    <3>1. Unsent(w) = {todo[w][1].id, todo[w][2].id}
      BY <1>1, <2>1, <2>4, UnsentCases, Zenon DEF Unsent
    <3>2. Unsent(w)' = {todo[w][2].id}
      <4>1. pc'[w] = "count" /\ Len(todo'[w]) = 2 /\ todo'[w][2].id = todo[w][2].id
        BY <2>1, <2>4, Zenon
      <4> QED BY <1>2, <4>1, UnsentCases DEF Unsent
    <3>3. todo[w][1].id < todo[w][2].id
      BY <1>1, <2>4, Zenon DEF WorkerInv
    <3> QED BY <1>12, <2>2, <3>1, <3>2, <3>3, Zenon DEF Sends
  <2> QED BY <2>1, <2>3, <2>4
<1>13. CASE Send(w) \/ Count(w) \/ Check(w) \/ Start(w)
  <2>1. made' = made
    BY <1>13, Zenon DEF Send, Count, Check, Start
  <2>2. Shrinks(w) \/ Sends(w)
    BY <1>10, <1>11, <1>12, <1>13, Zenon DEF Send, Count, Check, Start
  <2> QED BY <1>1, <1>3, <2>1, <2>2
<1> QED BY <1>4, <1>5, <1>6, <1>7, <1>8, <1>9, <1>13, WorkShape, Zenon

\* The steps of consumer k by what they do to the messages.
Takes(k) ==
  /\ queue # <<>> /\ msg[k] = NoMsg /\ msg' = [msg EXCEPT ![k] = Head(queue)]
  /\ queue' = Tail(queue) /\ got' = got

Pushes(k) ==
  /\ msg[k] # NoMsg /\ msg' = [msg EXCEPT ![k] = NoMsg] /\ queue' = queue
  /\ got' \in [Sub -> Seq(Message)]
  /\ \A s \in Sub : got'[s] = got[s] \/ got'[s] = Append(got[s], msg[k])

Drops == queue # <<>> /\ queue' = Tail(queue) /\ UNCHANGED <<msg, got>>

LEMMA ConsumeShape ==
  ASSUME IInv, NEW k \in Consumer, Consumed(k)
  PROVE  Takes(k) \/ Pushes(k) \/ Drops \/ UNCHANGED <<queue, msg, got>>
<1>1. /\ msg \in [Consumer -> Message \cup {NoMsg}] /\ got \in [Sub -> Seq(Message)]
      /\ cpc[k] \in {"uncount", "push"} <=> msg[k] # NoMsg
  BY Zenon DEF IInv, TypeOK, LocalInv
<1>2. CASE Receive(k)
  BY <1>1, <1>2, Zenon DEF Receive, CGoto, Takes
<1>3. CASE Push(k)
  <2>1. msg[k] # NoMsg /\ msg[k] \in Message
    BY <1>1, <1>3, Zenon DEF Push, CGoto
  <2>2. /\ msg' = [msg EXCEPT ![k] = NoMsg] /\ queue' = queue
        /\ got' = [s \in Sub |-> IF /\ s \in joined /\ Read \in perm[s]
                                    /\ msg[k].to = {} \/ s \in msg[k].to
                                 THEN Append(got[s], msg[k])
                                 ELSE got[s]]
    BY <1>3, Zenon DEF Push
  <2>3. \A s \in Sub : got[s] \in Seq(Message) /\ Append(got[s], msg[k]) \in Seq(Message)
    BY <1>1, <2>1
  <2>4. \A s \in Sub : got'[s] = got[s] \/ got'[s] = Append(got[s], msg[k])
    BY <2>2, Zenon
  <2>5. got' \in [Sub -> Seq(Message)]
    BY <2>2, <2>3, Zenon
  <2> QED BY <2>1, <2>2, <2>4, <2>5, Zenon DEF Pushes
<1>4. CASE Drain(k)
  BY <1>4, Zenon DEF Drain, Drops
<1>5. CASE \/ TimerFires(k) \/ ReceiveNil(k) \/ Uncount(k) \/ Rest(k) \/ CountDropped(k)
           \/ ZeroQueued(k) \/ Stop(k)
  BY <1>5, Zenon DEF TimerFires, ReceiveNil, Uncount, Rest, CountDropped, ZeroQueued, Stop
<1> QED BY <1>2, <1>3, <1>4, <1>5, Zenon DEF Consumed, Consume

\* What a step does to the queue.
LEMMA QueueTail ==
  ASSUME NEW q \in Seq(Message), q # <<>>
  PROVE  /\ q[1] = Head(q) /\ Head(q) \in Message /\ Tail(q) \in Seq(Message)
         /\ Len(q) \in Nat \ {0} /\ Len(Tail(q)) = Len(q) - 1
         /\ \A i \in 1..Len(Tail(q)) : i + 1 \in 1..Len(q) /\ Tail(q)[i] = q[i + 1]
<1>1. Len(q) \in Nat \ {0}
  BY Emptiness, Zenon
<1> QED BY <1>1, HeadTailProperties

LEMMA QueueAppend ==
  ASSUME NEW q \in Seq(Message), NEW m \in Message
  PROVE  /\ Append(q, m) \in Seq(Message) /\ Len(q) \in Nat /\ Len(Append(q, m)) = Len(q) + 1
         /\ Append(q, m)[Len(q) + 1] = m
         /\ \A i \in 1..Len(q) : Append(q, m)[i] = q[i]
OBVIOUS

LEMMA MessagesStep ==
  ASSUME IInv, Next
  PROVE  /\ queue' \in Seq(Message) /\ Len(queue') \in 0..Cap
         /\ msg' \in [Consumer -> Message \cup {NoMsg}]
         /\ got' \in [Sub -> Seq(Message)]
<1>1. /\ queue \in Seq(Message) /\ Len(queue) \in 0..Cap /\ Cap \in Nat \ {0}
      /\ msg \in [Consumer -> Message \cup {NoMsg}] /\ got \in [Sub -> Seq(Message)]
  BY ChannelConstants, Zenon DEF IInv, TypeOK
<1>2. use' = use
  BY Steps, Zenon
<1>3. ASSUME NEW w \in Worker, Worked(w)
      PROVE  queue' \in Seq(Message) /\ Len(queue') \in 0..Cap /\ UNCHANGED <<msg, got>>
  <2>1. UNCHANGED <<msg, got>>
    BY <1>3, WorkedFrame, Zenon
  <2>2. queue' = queue \/ \E m \in Message : queue' = Append(queue, m)
    BY <1>2, <1>3, UnsentStep, Zenon DEF Fresh, Shrinks, Sends
  <2>3. queue' = queue \/ Len(queue) < Cap
    BY <1>3, Zenon DEF Worked, Request, Proceed, PublishMessage, PublishNotify, SubscribeUpdate,
         SubscribeNew, Unsubscribe, Update, Close, Number, SubscribeInsert, SendMessage,
         Send, SendPanics, Count, Check, Start
  <2>4. ASSUME NEW m \in Message, queue' = Append(queue, m), Len(queue) < Cap
        PROVE  queue' \in Seq(Message) /\ Len(queue') \in 0..Cap
    BY <1>1, <2>4, QueueAppend
  <2> QED BY <1>1, <2>1, <2>2, <2>3, <2>4, Zenon
<1>4. ASSUME NEW k \in Consumer, Consumed(k)
      PROVE  /\ queue' \in Seq(Message) /\ Len(queue') \in 0..Cap
             /\ msg' \in [Consumer -> Message \cup {NoMsg}]
             /\ got' \in [Sub -> Seq(Message)]
  <2>1. queue # <<>> => Head(queue) \in Message
    BY <1>1, QueueTail, Zenon
  <2>2. CASE Takes(k)
    BY <1>1, <2>1, <2>2, QueueTail DEF Takes
  <2>3. CASE Pushes(k)
    BY <1>1, <2>3, Zenon DEF Pushes
  <2>4. CASE Drops
    BY <1>1, <2>4, QueueTail DEF Drops
  <2>5. CASE UNCHANGED <<queue, msg, got>>
    BY <1>1, <2>5, Zenon
  <2> QED BY <1>4, <2>2, <2>3, <2>4, <2>5, ConsumeShape, Zenon
<1> QED BY <1>1, <1>3, <1>4, Steps, Zenon

\* What the consumers have in hand, the counter and the flag.
LEMMA ConsumersStep ==
  ASSUME IInv, Next
  PROVE  /\ \A k \in Consumer : cpc'[k] \in {"uncount", "push"} <=> msg'[k] # NoMsg
         /\ queued' \in Int /\ running' \in BOOLEAN
<1>1. /\ msg \in [Consumer -> Message \cup {NoMsg}] /\ cpc \in [Consumer -> ConsumerPC]
      /\ \A k \in Consumer : cpc[k] \in {"uncount", "push"} <=> msg[k] # NoMsg
      /\ queue \in Seq(Message)
  BY Zenon DEF IInv, TypeOK, LocalInv
<1>2. queued \in Int /\ running \in BOOLEAN
  BY Zenon DEF IInv, TypeOK
<1>3. /\ \/ queued' = queued \/ queued' = queued + 1 \/ queued' = queued - 1
         \/ queued' = -1 \/ queued' = 0
      /\ running' = running \/ running' = TRUE \/ running' = FALSE
  <2>1. ASSUME NEW w \in Worker, Request(w)
        PROVE  queued' = queued /\ running' = running
    BY <2>1, Zenon DEF Request, PublishMessage, PublishNotify, SubscribeUpdate,
           SubscribeNew, Unsubscribe, Update, Close
  <2>2. ASSUME NEW w \in Worker, Proceed(w)
        PROVE  /\ queued' = queued \/ queued' = queued + 1
               /\ running' = running \/ running' = TRUE
    BY <2>2, Zenon DEF Proceed, Number, SubscribeInsert, SendMessage, Send, SendPanics,
           Count, Check, Start
  <2>3. ASSUME NEW k \in Consumer, TimerFires(k) \/ Consume(k)
        PROVE  /\ queued' = queued \/ queued' = queued - 1 \/ queued' = -1 \/ queued' = 0
               /\ running' = running \/ running' = FALSE
    BY <2>3, Zenon DEF TimerFires, Consume, Receive, ReceiveNil, Uncount, Push, Rest,
           Drain, CountDropped, ZeroQueued, Stop
  <2> QED BY <2>1, <2>2, <2>3, Zenon DEF Next
<1>4. queued' \in Int /\ running' \in BOOLEAN
  <2>1. /\ queued \in Int
        /\ \/ queued' = queued \/ queued' = queued + 1 \/ queued' = queued - 1
           \/ queued' = -1 \/ queued' = 0
    BY <1>2, <1>3, Zenon
  <2>2. running \in BOOLEAN /\ (running' = running \/ running' = TRUE \/ running' = FALSE)
    BY <1>2, <1>3, Zenon
  <2>3. queued' \in Int
    BY <2>1
  <2>4. running' \in BOOLEAN
    BY <2>2, Zenon
  <2> QED BY <2>3, <2>4, Zenon
<1>5. ASSUME NEW w \in Worker, Worked(w), NEW k \in Consumer
      PROVE  cpc'[k] \in {"uncount", "push"} <=> msg'[k] # NoMsg
  BY <1>1, <1>5, WorkedFrame, Zenon DEF Start
<1>6. ASSUME NEW k \in Consumer, Consumed(k), NEW l \in Consumer
      PROVE  cpc'[l] \in {"uncount", "push"} <=> msg'[l] # NoMsg
  <2>1. queue # <<>> => Head(queue) # NoMsg
    <3> HAVE queue # <<>>
    <3>1. Head(queue) \in Message
      BY <1>1, QueueTail, Zenon
    <3>2. Head(queue).id # NoMsg.id
      BY <3>1, ChannelConstants DEF Message, NoMsg
    <3> QED BY <3>2, Zenon
  <2>2. CASE Receive(k)
    BY <1>1, <2>1, <2>2, Zenon DEF Receive, CGoto
  <2>3. CASE Push(k)
    BY <1>1, <2>3, Zenon DEF Push, CGoto
  <2>4. CASE \/ TimerFires(k) \/ ReceiveNil(k) \/ Uncount(k) \/ Rest(k) \/ CountDropped(k)
             \/ ZeroQueued(k) \/ Stop(k) \/ Drain(k)
    BY <1>1, <2>4, Zenon DEF TimerFires, ReceiveNil, Uncount, Rest, CountDropped, ZeroQueued, Stop,
                      Drain, CGoto
  <2> QED BY <1>6, <2>2, <2>3, <2>4, Zenon DEF Consumed, Consume
<1> QED BY <1>4, <1>5, <1>6, Steps, Zenon
=============================================================================
