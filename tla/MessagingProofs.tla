--------------------------- MODULE MessagingProofs --------------------------
(***************************************************************************)
(* Proofs about Messaging, for any number of connections, any list of      *)
(* devices and any bound on the changes of the registry.                   *)
(***************************************************************************)
EXTENDS Messaging, SequenceTheorems, TLAPS

\* The part of the type invariant that is about the registry.
RegistryOK ==
  /\ where \in [Client -> Reg!ID \cup {NoID}]
  /\ joined \in SUBSET Client /\ open \in SUBSET joined
  /\ moves \in 0..MaxMoves

\* And the part about the message.
MessageOK ==
  /\ sender \in Client \cup {NoClient}
  /\ msg \in Message \cup {NoMessage}
  /\ pc \in PC
  /\ dest \in Reg!ID \cup {NoID}
  /\ kind \in Answer \cup {""}
  /\ cont \in {"", "push", "done"}
  /\ stored \in {"no", "saved", "skipped"}
  /\ offline \in {"no", "stored", "failed"}
  /\ taken \in [Client -> Nat]
  /\ acked \in BOOLEAN /\ refused \in BOOLEAN
  /\ moved \in SUBSET Client /\ there \in SUBSET Client

\* The part about the pool of the gateway and the queues of the connections.
QueueOK ==
  /\ replies \in SUBSET (Client \X Answer)
  /\ answers \in SUBSET (Client \X Answer)
  /\ dropped \in SUBSET (Client \X (Answer \cup {"message"}))
  /\ coming \in [Client -> Nat]
  /\ pushed \in [Client -> Nat]

\* No two connections have the same id.
Unique == \A c, d \in Client : c # d /\ where[c] # NoID => where[c] # where[d]

\* A message under way has a sender and a content; before, nothing has happened.
StageInv ==
  /\ pc # "idle" => sender \in Client /\ msg \in Message
  /\ pc \in {"idle", "read", "queued", "store"} => ~acked
  /\ pc = "idle" => replies = {} /\ answers = {}
  /\ pc = "store" => msg.action = "chat"
  /\ pc = "answer" => cont \in {"push", "done"} /\ kind \in Answer

\* The id read for an answer is the sender's, unless that has moved since.
AnswerInv ==
  /\ pc = "answer" => dest = where[sender] \/ sender \in moved
  /\ \A a \in replies \cup answers : a[1] = sender \/ sender \in moved

\* An acknowledged message is a chat message that the store did not refuse, and one
\* that the pool took for no device has been given to the offline store before it
\* is done.
AckInv ==
  /\ acked => msg.action = "chat" /\ (stored # "no" \/ msg.mid)
  /\ acked /\ (pc = "done" \/ (pc = "answer" /\ cont = "done"))
       => offline # "no" \/ \E c \in Client : taken[c] > 0

\* Outside the loop there is nothing left to try.  Before it and on the way to
\* the offline store the pool has no copy of the message, and those present are none
\* unless the pool refused it; the offline store comes after the loop.
IdleInv ==
  /\ pc # "push" => todo = <<>>
  /\ pc \notin {"push", "done"} => \A c \in Client : taken[c] = 0
  /\ pc \notin {"push", "done"} /\ ~refused => there = {}
  /\ offline # "no" => /\ pc = "done" \/ (pc = "answer" /\ cont = "done")
                       /\ ~refused => there = {}
  /\ pc = "done" /\ ~refused => \A c \in there : taken[c] = 1

\* Whoever is counted as present holds a device and is open.
ThereInv == \A c \in there : c \in open /\ where[c] \in Addressed

\* In the loop before the n-th device: the pool has at most one copy for c for each
\* device tried, exactly one for its own if it was present all the time and the
\* pool had room, and none for another's if it has not moved.
Tried(n, c) ==
  /\ taken[c] <= n - 1
  /\ c \in there /\ ~refused =>
       \A k \in 1..Len(Devices) :
         where[c] = Devices[k] => /\ k < n => taken[c] = 1
                                  /\ ~(k < n) => taken[c] = 0
  /\ c \notin moved =>
       /\ taken[c] <= 1
       /\ taken[c] = 1 => \E k \in 1..(n - 1) : where[c] = Devices[k]

LoopInv ==
  pc = "push" => \E n \in 1..Len(Devices) :
                   /\ todo = SubSeq(Devices, n, Len(Devices))
                   /\ \A c \in Client : Tried(n, c)

OnceInv == \A c \in Client : /\ taken[c] <= Len(Devices)
                             /\ taken[c] <= 1 \/ c \in moved

\* A copy the pool took for c is still to come, or in the queue, or lost; one is
\* lost only if the queue was full, which is remembered, or if c has closed, and
\* then c has moved and never opens again.
CopyInv(c) ==
  /\ taken[c] > 0 => c \in joined /\ (c \in open \/ c \in moved)
  /\ pushed[c] + coming[c] <= taken[c]
  /\ pushed[c] + coming[c] < taken[c] => <<c, "message">> \in dropped \/ c \notin open
  /\ <<c, "message">> \in dropped => pushed[c] + coming[c] < taken[c]

CopiesInv == \A c \in Client : CopyInv(c)

IInv == /\ RegistryOK /\ MessageOK /\ QueueOK /\ Unique /\ StageInv /\ AnswerInv
        /\ AckInv /\ IdleInv /\ ThereInv /\ LoopInv /\ OnceInv /\ CopiesInv

-----------------------------------------------------------------------------
(* What the steps leave alone. *)

\* A change of the registry is one of a single client, and keeps ids apart.
LEMMA MoveFacts ==
  ASSUME RegistryOK, Unique, NEW c \in Client, Move(c)
  PROVE  /\ UNCHANGED <<sender, msg, pc, answer, todo, results, pool, queues, acked,
                         refused>>
         /\ moved' = moved \cup {c} /\ there' = there \ {c}
         /\ \A d \in Client \ {c} : where'[d] = where[d] /\ (d \in open <=> d \in open')
         /\ joined \subseteq joined' /\ (c \in joined /\ c \notin open => c \notin open')
         /\ RegistryOK' /\ Unique'
<1>1. Note(c)
  BY Zenon DEF Move, Add, Rename, Remove, Close
<1>2. /\ UNCHANGED <<sender, msg, pc, answer, todo, results, pool, queues, acked,
                      refused>>
      /\ moved' = moved \cup {c} /\ there' = there \ {c}
      /\ moves' \in 0..MaxMoves
  BY <1>1, MessagingConstants DEF Note, RegistryOK
<1>3. \E i \in Reg!ID \cup {NoID} : /\ i # where[c] => i = NoID \/ Reg!Free(i)
                                    /\ where' = [where EXCEPT ![c] = i]
  <2>1. CASE Add(c)
    BY <2>1, Zenon DEF Add, Reg!Add, Reg!ID
  <2>2. CASE Rename(c)
    BY <2>2, Zenon DEF Rename, Reg!Rename
  <2>3. CASE Remove(c)
    BY <2>3, Zenon DEF Remove, Reg!Remove
  <2>4. CASE Close(c)
    <3>1. where' = [where EXCEPT ![c] = where[c]] /\ where[c] \in Reg!ID \cup {NoID}
      BY <2>4, Zenon DEF Close, RegistryOK
    <3> QED BY <3>1, Zenon
  <2> QED BY <2>1, <2>2, <2>3, <2>4, Zenon DEF Move
<1>4. PICK i \in Reg!ID \cup {NoID} : /\ i # where[c] => i = NoID \/ Reg!Free(i)
                                      /\ where' = [where EXCEPT ![c] = i]
  BY <1>3, Zenon
<1>5. where' \in [Client -> Reg!ID \cup {NoID}] /\ Unique'
  <2>1. /\ where' \in [Client -> Reg!ID \cup {NoID}]
        /\ where'[c] = i /\ \A d \in Client \ {c} : where'[d] = where[d]
    BY <1>4, Zenon DEF RegistryOK
  <2> QED BY <1>4, <2>1 DEF Unique, Reg!Free
<1>6. /\ joined' \in SUBSET Client /\ open' \in SUBSET joined'
      /\ \A d \in Client \ {c} : d \in open <=> d \in open'
      /\ joined \subseteq joined' /\ (c \in joined /\ c \notin open => c \notin open')
  BY Zenon DEF Move, Add, Rename, Remove, Close, Reg!Add, Reg!Rename, Reg!Remove, RegistryOK
<1> QED BY <1>2, <1>4, <1>5, <1>6, Zenon DEF RegistryOK

\* A step of the handling changes neither the registry nor who has moved.
LEMMA StepFacts ==
  Step \/ (\E c \in Client, m \in Message : Read(c, m))
    => UNCHANGED <<registry, moved>>
BY Zenon DEF Step, Read, Accept, StartChat, Store, SendAnswer, Push, AckNotify,
       StoreOffline, Publish, PassOn, Unhandled, SubUserState, Ignore, registry, history,
       Dispatching

\* A task of the pool of the gateway changes the queues only.
LEMMA DeliveryFacts ==
  Delivery => UNCHANGED <<where, joined, open, moves, sender, msg, pc, dest, kind, cont,
                          todo, stored, offline, taken, acked, moved, refused, there>>
BY Zenon DEF Delivery, Deliver, DeliverAnswer, registry, answer, results, history

\* The devices still to be tried before the n-th turn of the loop.
LEMMA Rest ==
  ASSUME NEW n \in 1..Len(Devices)
  PROVE  LET rest == SubSeq(Devices, n, Len(Devices))
         IN /\ rest # <<>> /\ Head(rest) = Devices[n]
            /\ Tail(rest) = SubSeq(Devices, n + 1, Len(Devices))
            /\ Tail(rest) = <<>> <=> n = Len(Devices)
<1>1. Devices \in Seq(UID) /\ Len(Devices) \in Nat
  BY MessagingConstants
<1>2. \A k \in 1..Len(Devices) + 1 :
        Len(SubSeq(Devices, k, Len(Devices))) = Len(Devices) - k + 1
  BY <1>1, SubSeqProperties
<1>3. /\ Head(SubSeq(Devices, n, Len(Devices))) = Devices[n]
      /\ Tail(SubSeq(Devices, n, Len(Devices))) = SubSeq(Devices, n + 1, Len(Devices))
  BY <1>1, HeadTailOfSubSeq
<1>4. n = Len(Devices) => SubSeq(Devices, n + 1, Len(Devices)) = <<>>
  BY <1>1, SubSeqEmpty
<1> DEFINE Empty == <<>>
<1>0. Len(Empty) = 0
  BY Zenon
<1> HIDE DEF Empty
<1>5. SubSeq(Devices, n, Len(Devices)) # Empty
  <2>1. Len(SubSeq(Devices, n, Len(Devices))) # 0
    BY <1>1, <1>2
  <2> QED BY <2>1, <1>0, Zenon
<1>6. SubSeq(Devices, n + 1, Len(Devices)) = Empty => n = Len(Devices)
  <2>1. n + 1 \in 1..Len(Devices) + 1
    BY <1>1
  <2>2. Len(SubSeq(Devices, n + 1, Len(Devices))) = Len(Devices) - (n + 1) + 1
    BY <1>2, <2>1, Zenon
  <2>3. SubSeq(Devices, n + 1, Len(Devices)) = Empty
          => Len(SubSeq(Devices, n + 1, Len(Devices))) = 0
    BY <1>0, Zenon
  <2> QED BY <1>1, <2>2, <2>3
<1> QED BY <1>3, <1>4, <1>5, <1>6, Zenon DEF Empty

\* Who is looked up under an id that is held is the connection that has it.
LEMMA HolderHas ==
  ASSUME Unique, NEW i, Held(i)
  PROVE  /\ Holder(i) \in Client /\ where[Holder(i)] = i
         /\ \A c \in Client : where[c] = i => c = Holder(i)
<1>1. PICK c \in Client : where[c] = i
  BY Zenon DEF Held
<1>2. Holder(i) \in Client /\ where[Holder(i)] = i
  BY <1>1, Zenon DEF Holder
<1> QED BY <1>2, Zenon DEF Unique, Held

-----------------------------------------------------------------------------
(* The invariant is inductive. *)

LEMMA InitHolds == Init => IInv
<1> SUFFICES ASSUME Init PROVE IInv
  BY Zenon
<1>1. RegistryOK /\ Unique
  <2>1. /\ where \in [Client -> Reg!ID \cup {NoID}]
        /\ joined = {c \in Client : where[c] # NoID}
        /\ open \in SUBSET joined /\ moves = 0 /\ Unique
    BY Zenon DEF Init, Unique
  <2>2. moves \in 0..MaxMoves /\ joined \in SUBSET Client
    BY <2>1, MessagingConstants
  <2> QED BY <2>1, <2>2, Zenon DEF RegistryOK
<1>4. MessageOK
  <2>1. /\ sender \in Client \cup {NoClient} /\ msg \in Message \cup {NoMessage}
        /\ dest \in Reg!ID \cup {NoID}
        /\ moved \in SUBSET Client /\ there \in SUBSET Client
    BY Zenon DEF Init
  <2>2. pc \in PC /\ kind \in Answer \cup {""} /\ taken \in [Client -> Nat]
    BY Zenon DEF Init, PC
  <2>3. acked \in BOOLEAN /\ refused \in BOOLEAN
    BY Zenon DEF Init
  <2> QED BY <2>1, <2>2, <2>3, Zenon DEF Init, MessageOK
<1>5. QueueOK
  <2>1. coming \in [Client -> Nat] /\ pushed \in [Client -> Nat]
    BY Zenon DEF Init
  <2> QED BY <2>1, Zenon DEF Init, QueueOK
<1>6. CopiesInv
  <2>1. \A c \in Client : taken[c] = 0 /\ coming[c] = 0 /\ pushed[c] = 0
    BY Zenon DEF Init
  <2>2. \A c \in Client : /\ ~(taken[c] > 0) /\ pushed[c] + coming[c] <= taken[c]
                          /\ ~(pushed[c] + coming[c] < taken[c])
    BY <2>1
  <2>3. dropped = {}
    BY Zenon DEF Init
  <2> QED BY <2>2, <2>3, Zenon DEF CopiesInv, CopyInv
<1>2. StageInv /\ AnswerInv /\ AckInv /\ IdleInv /\ ThereInv /\ LoopInv
  BY Zenon DEF Init, StageInv, AnswerInv, AckInv, IdleInv, ThereInv, LoopInv
<1>3. OnceInv
  <2>1. Len(Devices) \in Nat
    BY MessagingConstants
  <2>2. \A c \in Client : taken[c] = 0
    BY Zenon DEF Init
  <2> QED BY <2>1, <2>2 DEF OnceInv
<1> QED BY <1>1, <1>2, <1>3, <1>4, <1>5, <1>6, Zenon DEF IInv

\* One of a handler's steps, or the read of a message.
Handling == Step \/ \E c \in Client, m \in Message : Read(c, m)

LEMMA Steps ==
  Next <=> Handling \/ Delivery \/ \E c \in Client : Move(c)
BY Zenon DEF Next, Handling

LEMMA HandlingFacts == Handling => UNCHANGED <<where, joined, open, moves, moved>>
BY StepFacts, Zenon DEF Handling, registry

LEMMA TypeStep ==
  ASSUME IInv, Next
  PROVE  RegistryOK' /\ MessageOK' /\ Unique'
<1> USE DEF IInv
<1>1. ASSUME NEW c \in Client, Move(c)
      PROVE  RegistryOK' /\ MessageOK' /\ Unique'
  <2>1. RegistryOK' /\ Unique'
    BY <1>1, MoveFacts, Zenon
  <2>2. /\ UNCHANGED <<sender, msg, pc, dest, kind, cont, stored, offline, taken, acked,
                       refused>>
        /\ moved' = moved \cup {c} /\ there' = there \ {c}
    BY <1>1, MoveFacts, Zenon DEF answer, results
  <2>3. MessageOK'
    BY <2>2 DEF MessageOK
  <2> QED BY <2>1, <2>3, Zenon
<1>2. CASE Handling
  <2>1. RegistryOK' /\ Unique'
    BY <1>2, HandlingFacts, Zenon DEF RegistryOK, Unique
  <2>2. /\ sender' \in Client \cup {NoClient}
        /\ msg' \in Message \cup {NoMessage}
    BY <1>2, Zenon DEF Handling, Step, Read, Accept, StartChat, Store, SendAnswer, Push,
                AckNotify, StoreOffline, Publish, PassOn, Unhandled, SubUserState, Ignore, MessageOK
  <2>3. pc' \in PC
    BY <1>2, Zenon DEF Handling, Step, Read, Accept, StartChat, Store, SendAnswer, Push,
                AckNotify, StoreOffline, Publish, PassOn, Unhandled, SubUserState, Ignore,
                Answering, Dispatching, Done, AfterPush, PC
  <2>4. /\ dest' \in Reg!ID \cup {NoID}
        /\ kind' \in Answer \cup {""}
        /\ cont' \in {"", "push", "done"}
    <3>1. pc \notin {"idle"} => where[sender] \in Reg!ID \cup {NoID}
      BY Zenon DEF StageInv, RegistryOK
    <3> QED BY <1>2, <3>1, Zenon
            DEF Handling, Step, Read, Accept, StartChat, Store, SendAnswer, Push,
                AckNotify, StoreOffline, Publish, PassOn, Unhandled, SubUserState, Ignore,
                Answering, Done, Answer, answer, MessageOK
  <2>5. acked' \in BOOLEAN /\ refused' \in BOOLEAN
    BY <1>2, Zenon DEF Handling, Step, Read, Accept, StartChat, Store, SendAnswer, Push,
                AckNotify, StoreOffline, Publish, PassOn, Unhandled, SubUserState, Ignore,
                results, history, MessageOK
  <2>6. offline' \in {"no", "stored", "failed"} /\ stored' \in {"no", "saved", "skipped"}
    BY <1>2, Zenon DEF Handling, Step, Read, Accept, StartChat, Store, SendAnswer, Push,
                AckNotify, StoreOffline, Publish, PassOn, Unhandled, SubUserState, Ignore,
                results, MessageOK
  <2>8. taken' \in [Client -> Nat]
    <3>1. CASE Push
      <4>1. \/ taken' = taken
            \/ Held(Head(todo)) /\ taken' = [taken EXCEPT ![Holder(Head(todo))] = @ + 1]
        BY <3>1, Zenon DEF Push, Take, Reachable
      <4>2. taken \in [Client -> Nat]
        BY Zenon DEF MessageOK
      <4> QED BY <4>1, <4>2, HolderHas
    <3>2. CASE ~Push
      <4>1. taken' = taken
        BY <1>2, <3>2, Zenon
           DEF Handling, Step, Read, Accept, StartChat, Store, SendAnswer, AckNotify,
               StoreOffline, Publish, PassOn, Unhandled, SubUserState, Ignore, results
      <4> QED BY <4>1, Zenon DEF MessageOK
    <3> QED BY <3>1, <3>2, Zenon
  <2>9. moved' \in SUBSET Client /\ there' \in SUBSET Client
    <3>1. moved' = moved
      BY <1>2, HandlingFacts, Zenon
    <3>2. there' = there \/ Dispatching
      BY <1>2, Zenon DEF Handling, Step, Read, Accept, StartChat, Store, SendAnswer, Push,
                  AckNotify, StoreOffline, Publish, PassOn, Unhandled, SubUserState, Ignore, history
    <3> QED BY <3>1, <3>2, Zenon DEF Dispatching, RegistryOK, MessageOK
  <2>10. MessageOK'
    BY <2>2, <2>3, <2>4, <2>5, <2>6, <2>8, <2>9, Zenon DEF MessageOK
  <2> QED BY <2>1, <2>10, Zenon
<1>3. CASE Delivery
  BY <1>3, DeliveryFacts DEF RegistryOK, MessageOK, Unique
<1> QED BY <1>1, <1>2, <1>3, Steps, Zenon

LEMMA QueueStep ==
  ASSUME IInv, Next
  PROVE  QueueOK'
<1> USE DEF IInv
<1>1. ASSUME NEW c \in Client, Move(c)
      PROVE  QueueOK'
  BY <1>1, MoveFacts, Zenon DEF QueueOK, pool, queues
<1>2. CASE Handling
  <2>1. UNCHANGED <<answers, dropped, pushed>>
    BY <1>2, Zenon DEF Handling, Step, Read, Accept, StartChat, Store, SendAnswer, Push,
                AckNotify, StoreOffline, Publish, PassOn, Unhandled, SubUserState,
                Ignore, queues
  <2>2. replies' \in SUBSET (Client \X Answer)
    <3>1. CASE SendAnswer
      <4>1. Reachable(dest) => <<Holder(dest), kind>> \in Client \X Answer
        BY <3>1, HolderHas, Zenon DEF SendAnswer, Reachable, StageInv
      <4> QED BY <3>1, <4>1, Zenon DEF SendAnswer, QueueOK
    <3>2. CASE ~SendAnswer
      <4>1. replies' = replies
        BY <1>2, <3>2, Zenon
           DEF Handling, Step, Read, Accept, StartChat, Store, Push, AckNotify,
               StoreOffline, Publish, PassOn, Unhandled, SubUserState, Ignore, pool
      <4> QED BY <4>1, Zenon DEF QueueOK
    <3> QED BY <3>1, <3>2, Zenon
  <2>3. coming' \in [Client -> Nat]
    <3>1. CASE Push
      <4>1. \/ coming' = coming
            \/ Held(Head(todo)) /\ coming' = [coming EXCEPT ![Holder(Head(todo))] = @ + 1]
        BY <3>1, Zenon DEF Push, Take, Reachable
      <4>2. coming \in [Client -> Nat]
        BY Zenon DEF QueueOK
      <4> QED BY <4>1, <4>2, HolderHas
    <3>2. CASE ~Push
      <4>1. coming' = coming
        BY <1>2, <3>2, Zenon
           DEF Handling, Step, Read, Accept, StartChat, Store, SendAnswer, AckNotify,
               StoreOffline, Publish, PassOn, Unhandled, SubUserState, Ignore, pool
      <4> QED BY <4>1, Zenon DEF QueueOK
    <3> QED BY <3>1, <3>2, Zenon
  <2> QED BY <2>1, <2>2, <2>3, Zenon DEF QueueOK
<1>3. ASSUME NEW c \in Client, Deliver(c)
      PROVE  QueueOK'
  <2>1. coming \in [Client -> Nat] /\ coming[c] > 0 /\ pushed \in [Client -> Nat]
    BY <1>3, Zenon DEF Deliver, QueueOK
  <2>2. coming' \in [Client -> Nat]
    BY <1>3, <2>1 DEF Deliver
  <2>3. pushed' \in [Client -> Nat]
    BY <1>3, <2>1 DEF Deliver
  <2>4. UNCHANGED <<replies, answers>>
        /\ (dropped' = dropped \/ dropped' = dropped \cup {<<c, "message">>})
    BY <1>3, Zenon DEF Deliver
  <2> QED BY <2>2, <2>3, <2>4 DEF QueueOK
<1>4. ASSUME NEW a \in replies, DeliverAnswer(a)
      PROVE  QueueOK'
  <2>1. a \in Client \X Answer
    BY Zenon DEF QueueOK
  <2>2. /\ UNCHANGED <<coming, pushed>> /\ replies' \subseteq replies
        /\ answers' = answers \/ answers' = answers \cup {a}
        /\ dropped' = dropped \/ dropped' = dropped \cup {a}
    BY <1>4, Zenon DEF DeliverAnswer
  <2> QED BY <2>1, <2>2, Zenon DEF QueueOK
<1> QED BY <1>1, <1>2, <1>3, <1>4, Steps, Zenon DEF Delivery

LEMMA StageStep ==
  ASSUME IInv, Next
  PROVE  StageInv'
<1> USE DEF IInv
<1>1. ASSUME NEW c \in Client, Move(c)
      PROVE  StageInv'
  BY <1>1, MoveFacts, Zenon DEF StageInv, answer, pool, queues
<1>2. CASE Handling
  <2>1. pc' # "idle" /\ sender' \in Client /\ msg' \in Message
    BY <1>2, Zenon DEF Handling, Step, Read, Accept, StartChat, Store, SendAnswer, Push,
                AckNotify, StoreOffline, Publish, PassOn, Unhandled, SubUserState, Ignore,
                Answering, Dispatching, Done, AfterPush, StageInv
  <2>2. pc' \in {"read", "queued", "store"} => ~acked'
    BY <1>2, Zenon DEF Handling, Step, Read, Accept, StartChat, Store, SendAnswer, Push,
                AckNotify, StoreOffline, Publish, PassOn, Unhandled, SubUserState, Ignore,
                Answering, Dispatching, Done, AfterPush, StageInv, history
  <2>3. pc' = "answer" => cont' \in {"push", "done"} /\ kind' \in Answer
    BY <1>2, Zenon DEF Handling, Step, Read, Accept, StartChat, Store, SendAnswer, Push,
                AckNotify, StoreOffline, Publish, PassOn, Unhandled, SubUserState, Ignore,
                Answering, Dispatching, Done, AfterPush, Answer
  <2>4. pc' = "store" => msg'.action = "chat"
    BY <1>2, Zenon DEF Handling, Step, Read, Accept, StartChat, Store, SendAnswer, Push,
                AckNotify, StoreOffline, Publish, PassOn, Unhandled, SubUserState, Ignore,
                Answering, Dispatching, Done, AfterPush
  <2> QED BY <2>1, <2>2, <2>3, <2>4, Zenon DEF StageInv
<1>3. CASE Delivery
  <2>1. pc = "idle" => replies = {} /\ ~acked
    BY Zenon DEF StageInv
  <2>2. pc = "idle" => replies' = {} /\ answers' = {}
    <3>1. ASSUME NEW c \in Client, Deliver(c)
          PROVE  UNCHANGED <<replies, answers>>
      BY <3>1, Zenon DEF Deliver
    <3> QED BY <1>3, <2>1, <3>1, Zenon DEF Delivery, StageInv
  <2> QED BY <1>3, <2>2, DeliveryFacts DEF StageInv
<1> QED BY <1>1, <1>2, <1>3, Steps, Zenon

LEMMA AnswerStep ==
  ASSUME IInv, Next
  PROVE  AnswerInv'
<1> USE DEF IInv
<1>1. ASSUME NEW c \in Client, Move(c)
      PROVE  AnswerInv'
  <2>1. /\ UNCHANGED <<sender, pc, dest, replies, answers>> /\ moved' = moved \cup {c}
        /\ \A d \in Client \ {c} : where'[d] = where[d]
    BY <1>1, MoveFacts, Zenon DEF answer, pool, queues
  <2>2. pc = "answer" => sender \in Client
    BY Zenon DEF StageInv
  <2> QED BY <2>1, <2>2, Zenon DEF AnswerInv
<1>2. CASE Handling
  <2>1. where' = where /\ moved' = moved
    BY <1>2, HandlingFacts, Zenon
  <2>2. pc' = "answer" => sender' = sender /\ dest' = where[sender]
    BY <1>2, Zenon DEF Handling, Step, Read, Accept, StartChat, Store, SendAnswer, Push,
                AckNotify, StoreOffline, Publish, PassOn, Unhandled, SubUserState, Ignore,
                Answering, Dispatching, Done, AfterPush
  <2>3. \A a \in replies' \cup answers' : a[1] = sender' \/ sender' \in moved
    <3>1. CASE SendAnswer
      <4>1. sender' = sender /\ answers' = answers /\ replies' \subseteq
              replies \cup {a \in {<<Holder(dest), kind>>} : Held(dest)}
        BY <3>1, Zenon DEF SendAnswer, Reachable, queues
      <4>2. Held(dest) /\ sender \notin moved => Holder(dest) = sender
        <5>1. pc = "answer" /\ sender \in Client
          BY <3>1, Zenon DEF SendAnswer, StageInv
        <5> QED BY <5>1, HolderHas, Zenon DEF AnswerInv
      <4> QED BY <4>1, <4>2 DEF AnswerInv
    <3>2. ASSUME NEW c \in Client, NEW m \in Message, Read(c, m)
          PROVE  replies' = {} /\ answers' = {}
      BY <3>2, Zenon DEF Read, pool, queues, StageInv
    <3>3. CASE ~SendAnswer /\ Step
      <4>1. replies' = replies /\ answers' = answers /\ sender' = sender
        BY <3>3, Zenon DEF Step, Accept, StartChat, Store, Push, AckNotify, StoreOffline,
                    Publish, PassOn, Unhandled, SubUserState, Ignore, pool, queues
      <4> QED BY <4>1, Zenon DEF AnswerInv
    <3> QED BY <1>2, <3>1, <3>2, <3>3, Zenon DEF Handling
  <2> QED BY <2>1, <2>2, <2>3, Zenon DEF AnswerInv
<1>3. CASE Delivery
  <2>1. replies' \cup answers' \subseteq replies \cup answers
    BY <1>3, Zenon DEF Delivery, Deliver, DeliverAnswer
  <2> QED BY <1>3, <2>1, DeliveryFacts, Zenon DEF AnswerInv
<1> QED BY <1>1, <1>2, <1>3, Steps, Zenon

LEMMA AckStep ==
  ASSUME IInv, Next
  PROVE  AckInv'
<1> USE DEF IInv
<1>1. ASSUME NEW c \in Client, Move(c)
      PROVE  AckInv'
  BY <1>1, MoveFacts, Zenon DEF AckInv, answer, results
<1>2. CASE Handling
  <2>1. acked' => msg'.action = "chat" /\ (stored' # "no" \/ msg'.mid)
    BY <1>2, Zenon DEF Handling, Step, Read, Accept, StartChat, Store, SendAnswer, Push,
                AckNotify, StoreOffline, Publish, PassOn, Unhandled, SubUserState, Ignore,
                StageInv, AckInv, results, history
  <2> DEFINE Kept == offline # "no" \/ \E c \in Client : taken[c] > 0
             Over == pc = "done" \/ (pc = "answer" /\ cont = "done")
  <2>2. ASSUME pc = "queued" \/ pc = "read", Step, Over'
        PROVE  ~acked'
    BY <2>2, Zenon DEF Step, Accept, StartChat, Store, SendAnswer, Push, AckNotify,
                StoreOffline, Publish, PassOn, Unhandled, SubUserState, Ignore,
                Answering, Dispatching, Done, StageInv, history
  <2>3. Store => (acked' /\ Over' => Kept')
    BY Zenon DEF Store, Answering, StageInv
  <2>4. SendAnswer => (acked' /\ Over' => Kept')
    BY Zenon DEF SendAnswer, Dispatching, AckInv, results
  <2>5. ASSUME Push, Over', acked'
        PROVE  Kept'
    <3>1. acked /\ msg' = msg
      BY <2>5, Zenon DEF Push
    <3>2. pc' # "answer" /\ (pc' = "done" => \E c \in Client : taken'[c] # 0)
      BY <2>5, <3>1, Zenon DEF Push, AfterPush, AckInv
    <3>3. taken' \in [Client -> Nat]
      BY TypeStep, Zenon DEF MessageOK
    <3> QED BY <2>5, <3>2, <3>3
  <2>6. AckNotify => (acked' /\ Over' => Kept')
    BY Zenon DEF AckNotify
  <2>7. StoreOffline => (acked' /\ Over' => Kept')
    BY Zenon DEF StoreOffline
  <2>8. ASSUME NEW c \in Client, NEW m \in Message, Read(c, m)
        PROVE  ~Over'
    BY <2>8, Zenon DEF Read
  <2>9. acked' /\ Over' => Kept'
    <3>1. CASE Step
      <4>1. \/ pc = "queued" \/ pc = "read" \/ Store \/ SendAnswer \/ Push
            \/ AckNotify \/ StoreOffline
        BY <3>1, Zenon DEF Step, Accept, StartChat, Publish, PassOn, Unhandled, SubUserState, Ignore
      <4> QED BY <3>1, <4>1, <2>2, <2>3, <2>4, <2>5, <2>6, <2>7, Zenon
    <3> QED BY <1>2, <2>8, <3>1, Zenon DEF Handling
  <2> QED BY <2>1, <2>9, Zenon DEF AckInv
<1>3. CASE Delivery
  BY <1>3, DeliveryFacts DEF AckInv
<1> QED BY <1>1, <1>2, <1>3, Steps, Zenon

LEMMA ThereStep ==
  ASSUME IInv, Next
  PROVE  ThereInv'
<1> USE DEF IInv
<1>1. ASSUME NEW c \in Client, Move(c)
      PROVE  ThereInv'
  BY <1>1, MoveFacts, Zenon DEF ThereInv, MessageOK, Addressed
<1>2. CASE Handling
  <2>1. where' = where /\ open' = open
    BY <1>2, HandlingFacts, Zenon
  <2>2. there' = there \/ Dispatching
    BY <1>2, Zenon DEF Handling, Step, Read, Accept, StartChat, Store, SendAnswer, Push,
                AckNotify, StoreOffline, Publish, PassOn, Unhandled, SubUserState, Ignore, history
  <2> QED BY <2>1, <2>2, Zenon DEF ThereInv, Dispatching, Addressed
<1>3. CASE Delivery
  BY <1>3, DeliveryFacts, Zenon DEF ThereInv, Addressed
<1> QED BY <1>1, <1>2, <1>3, Steps, Zenon

\* A step of the handling that is not a turn of the loop pushes nothing; it may
\* begin the loop.
LEMMA OtherFacts ==
  ASSUME IInv, Handling, ~Push
  PROVE  /\ pc \notin {"push", "done"}
         /\ taken' = taken
         /\ \/ todo' = todo /\ there' = there /\ pc' # "push"
            \/ Dispatching
<1>1. /\ pc \notin {"push", "done"}
      /\ taken' = taken
  BY Zenon DEF Handling, Step, Read, Accept, StartChat, Store, SendAnswer,
         AckNotify, StoreOffline, Publish, PassOn, Unhandled, SubUserState, Ignore, results
<1>2. \/ todo' = todo /\ there' = there /\ pc' # "push"
      \/ Dispatching
  BY Zenon DEF Handling, Step, Read, Accept, StartChat, Store, SendAnswer,
         AckNotify, StoreOffline, Publish, PassOn, Unhandled, SubUserState, Ignore,
         Answering, Done, history
<1> QED BY <1>1, <1>2, Zenon

\* A connection that gets nothing from the turn for the n-th device: what Tried says
\* of the devices before it holds of it, too, unless it should have got something.
LEMMA TurnWithout ==
  ASSUME NEW n \in Nat, NEW c \in Client, Tried(n, c),
         Len(Devices) \in Nat, taken[c] \in Nat,
         taken'[c] = taken[c], where' = where, there' = there, moved' = moved,
         refused => refused',
         c \in there /\ ~refused' => where[c] # Devices[n]
  PROVE  Tried(n + 1, c)'
<1>1. taken'[c] <= (n + 1) - 1
  BY DEF Tried
<1>2. ASSUME c \in there', ~refused', NEW k \in 1..Len(Devices), where'[c] = Devices[k]
      PROVE  /\ k < n + 1 => taken'[c] = 1
             /\ ~(k < n + 1) => taken'[c] = 0
  <2>1. k # n
    BY <1>2, Zenon
  <2>2. /\ k < n => taken[c] = 1
        /\ ~(k < n) => taken[c] = 0
    BY <1>2, Zenon DEF Tried
  <2> QED BY <2>1, <2>2
<1>3. ASSUME c \notin moved'
      PROVE  /\ taken'[c] <= 1
             /\ taken'[c] = 1 => \E k \in 1..((n + 1) - 1) : where'[c] = Devices[k]
  <2>1. taken[c] <= 1 /\ (taken[c] = 1 => \E k \in 1..(n - 1) : where[c] = Devices[k])
    BY <1>3, Zenon DEF Tried
  <2>2. 1..(n - 1) \subseteq 1..((n + 1) - 1)
    OBVIOUS
  <2> QED BY <2>1, <2>2, Zenon
<1> QED BY <1>1, <1>2, <1>3, Zenon DEF Tried

\* One turn of the loop: the n-th device is tried, and what Tried says of the
\* devices before it holds of it, too.
LEMMA TurnFacts ==
  ASSUME IInv, Push
  PROVE  \E n \in 1..Len(Devices) :
           /\ todo' = SubSeq(Devices, n + 1, Len(Devices))
           /\ todo' = <<>> <=> n = Len(Devices)
           /\ \A c \in Client : Tried(n + 1, c)'
<1> USE DEF IInv
<1>1. pc = "push"
  BY Zenon DEF Push
<1>2. PICK n \in 1..Len(Devices) : /\ todo = SubSeq(Devices, n, Len(Devices))
                                   /\ \A c \in Client : Tried(n, c)
  BY <1>1, Zenon DEF LoopInv
<1>3. /\ Head(todo) = Devices[n]
      /\ todo' = SubSeq(Devices, n + 1, Len(Devices))
      /\ todo' = <<>> <=> n = Len(Devices)
  <2>1. todo' = Tail(todo)
    BY Zenon DEF Push
  <2> QED BY <1>2, <2>1, Rest, Zenon
<1>4. /\ where' = where /\ there' = there /\ moved' = moved
      /\ refused => refused'
  BY DEF Push, registry
<1>5. /\ Len(Devices) \in Nat /\ n \in Nat
      /\ \A m, k \in 1..Len(Devices) : Devices[m] = Devices[k] => m = k
  BY MessagingConstants
<1>6. taken \in [Client -> Nat]
  BY Zenon DEF MessageOK
<1>7. ASSUME NEW c \in Client
      PROVE  Tried(n + 1, c)'
  <2>1. CASE Reachable(Devices[n]) /\ taken' = [taken EXCEPT ![Holder(Devices[n])] = @ + 1]
    <3>1. Holder(Devices[n]) \in Client /\ where[Holder(Devices[n])] = Devices[n]
      BY <2>1, HolderHas, Zenon DEF Reachable
    <3>2. CASE c = Holder(Devices[n])
      <4>1. taken'[c] = taken[c] + 1 /\ where[c] = Devices[n]
        BY <1>6, <2>1, <3>1, <3>2, Zenon
      <4>2. c \notin moved => taken[c] = 0
        BY <1>2, <1>5, <1>6, <4>1 DEF Tried
      <4>3. c \in there /\ ~refused => taken[c] = 0
        BY <1>2, <1>5, <4>1 DEF Tried
      <4>4. taken'[c] <= (n + 1) - 1
        BY <1>2, <1>5, <1>6, <4>1 DEF Tried
      <4>5. ASSUME c \in there', ~refused', NEW k \in 1..Len(Devices), where'[c] = Devices[k]
            PROVE  /\ k < n + 1 => taken'[c] = 1
                   /\ ~(k < n + 1) => taken'[c] = 0
        <5>1. k = n /\ taken[c] = 0
          BY <1>4, <1>5, <4>1, <4>3, <4>5, Zenon
        <5> QED BY <1>5, <4>1, <5>1
      <4>6. ASSUME c \notin moved'
            PROVE  /\ taken'[c] <= 1
                   /\ taken'[c] = 1 => \E k \in 1..((n + 1) - 1) : where'[c] = Devices[k]
        <5>1. taken'[c] = 1 /\ where'[c] = Devices[n] /\ n \in 1..((n + 1) - 1)
          BY <1>4, <1>5, <4>1, <4>2, <4>6
        <5> QED BY <5>1
      <4> QED BY <4>4, <4>5, <4>6, Zenon DEF Tried
    <3>3. CASE c # Holder(Devices[n])
      <4>1. taken'[c] = taken[c]
        BY <1>6, <2>1, <3>3, Zenon
      <4>2. where[c] # Devices[n]
        BY <2>1, <3>3, HolderHas, Zenon DEF Reachable
      <4> QED BY <1>2, <1>4, <1>5, <1>6, <4>1, <4>2, TurnWithout, Zenon
    <3> QED BY <3>2, <3>3, Zenon
  <2>2. CASE Reachable(Devices[n]) /\ refused' /\ taken' = taken
    BY <1>2, <1>4, <1>5, <1>6, <2>2, TurnWithout, Zenon
  <2>3. CASE ~Reachable(Devices[n]) /\ taken' = taken
    <3>1. c \in there => where[c] # Devices[n]
      <4>1. SUFFICES ASSUME c \in there, where[c] = Devices[n]
                     PROVE  FALSE
        BY Zenon
      <4>2. Held(Devices[n]) /\ c \in open
        BY <4>1, MessagingConstants DEF ThereInv, Held
      <4> QED BY <2>3, <4>1, <4>2, HolderHas, Zenon DEF Reachable
    <3> QED BY <1>2, <1>4, <1>5, <1>6, <2>3, <3>1, TurnWithout, Zenon
  <2> QED BY <1>3, <2>1, <2>2, <2>3, Zenon DEF Push, Take
<1> QED BY <1>3, <1>7, Zenon

LEMMA IdleStep ==
  ASSUME IInv, Next
  PROVE  IdleInv'
<1> USE DEF IInv
<1>1. ASSUME NEW c \in Client, Move(c)
      PROVE  IdleInv'
  <2>1. UNCHANGED <<pc, cont, todo, taken, refused, offline>> /\ there' \subseteq there
    BY <1>1, MoveFacts, Zenon DEF answer, results
  <2> QED BY <2>1, Zenon DEF IdleInv
<1>2. CASE Push
  <2>1. PICK n \in 1..Len(Devices) :
          /\ todo' = <<>> <=> n = Len(Devices)
          /\ \A c \in Client : Tried(n + 1, c)'
    BY <1>2, TurnFacts, Zenon
  <2>2. /\ pc' = "push" <=> todo' # <<>>
        /\ pc' \in {"push", "ackNotify", "done"}
        /\ pc' = "ackNotify" => \A c \in Client : taken'[c] = 0
    BY <1>2, Zenon DEF Push, AfterPush
  <2>3. offline' = "no"
    BY <1>2, Zenon DEF Push, IdleInv
  <2>4. pc' # "push" /\ ~refused' => \A c \in there' : c \in Client /\ taken'[c] = 1
    <3>1. there' = there /\ where' = where
      BY <1>2, Zenon DEF Push, registry
    <3>2. ASSUME n = Len(Devices), ~refused', NEW c \in there
          PROVE  c \in Client /\ taken'[c] = 1
      <4>1. c \in Client /\ where[c] \in Addressed
        BY Zenon DEF ThereInv, MessageOK
      <4>2. PICK k \in 1..Len(Devices) : where[c] = Devices[k]
        BY <4>1, Zenon DEF Addressed
      <4>3. k < n + 1
        BY <3>2, MessagingConstants
      <4> QED BY <2>1, <3>1, <3>2, <4>1, <4>2, <4>3, Zenon DEF Tried
    <3> QED BY <2>1, <2>2, <3>1, <3>2, Zenon
  <2> QED BY <2>2, <2>3, <2>4 DEF IdleInv
<1>3. CASE Handling /\ ~Push
  <2>1. /\ pc \notin {"push", "done"}
        /\ taken' = taken
        /\ \/ todo' = todo /\ there' = there /\ pc' # "push"
           \/ Dispatching
    BY <1>3, OtherFacts, Zenon
  <2>2. refused => refused'
    BY <1>3, Zenon DEF Handling, Step, Read, Accept, StartChat, Store, SendAnswer,
                AckNotify, StoreOffline, Publish, PassOn, Unhandled, SubUserState, Ignore, history
  <2>3. offline' # "no" =>
          /\ pc' = "done" \/ (pc' = "answer" /\ cont' = "done")
          /\ ~Dispatching
    BY <1>3, Zenon DEF Handling, Step, Read, Accept, StartChat, Store, SendAnswer,
                AckNotify, StoreOffline, Publish, PassOn, Unhandled, SubUserState, Ignore,
                Answering, Dispatching, Done, IdleInv, results
  <2> QED BY <2>1, <2>2, <2>3, Zenon DEF IdleInv, Dispatching
<1>4. CASE Delivery
  BY <1>4, DeliveryFacts DEF IdleInv
<1> QED BY <1>1, <1>2, <1>3, <1>4, Steps, Zenon DEF Handling, Step

LEMMA LoopStep ==
  ASSUME IInv, Next
  PROVE  LoopInv'
<1> USE DEF IInv
<1>1. ASSUME NEW c \in Client, Move(c)
      PROVE  LoopInv'
  <2>1. /\ UNCHANGED <<pc, todo, taken, refused>>
        /\ moved' = moved \cup {c} /\ there' = there \ {c}
        /\ \A d \in Client \ {c} : where'[d] = where[d]
    BY <1>1, MoveFacts, Zenon DEF results
  <2>2. ASSUME NEW n \in 1..Len(Devices), NEW d \in Client, Tried(n, d)
        PROVE  Tried(n, d)'
    BY <2>1, <2>2, Zenon DEF Tried
  <2> QED BY <2>1, <2>2, Zenon DEF LoopInv
<1>2. CASE Push
  <2>1. PICK n \in 1..Len(Devices) :
          /\ todo' = SubSeq(Devices, n + 1, Len(Devices))
          /\ todo' = <<>> <=> n = Len(Devices)
          /\ \A c \in Client : Tried(n + 1, c)'
    BY <1>2, TurnFacts, Zenon
  <2>2. pc' = "push" => todo' # <<>>
    BY <1>2, Zenon DEF Push, AfterPush
  <2>3. todo' # <<>> => n + 1 \in 1..Len(Devices)
    BY <2>1, MessagingConstants
  <2> QED BY <2>1, <2>2, <2>3, Zenon DEF LoopInv
<1>3. CASE Handling /\ ~Push
  <2>1. SUFFICES ASSUME Dispatching, pc \notin {"push", "done"}, taken' = taken
                 PROVE  LoopInv'
    BY <1>3, OtherFacts, Zenon DEF LoopInv
  <2>2. todo' = SubSeq(Devices, 1, Len(Devices)) /\ 1 \in 1..Len(Devices)
    BY <2>1, SubSeqFull, MessagingConstants DEF Dispatching
  <2>3. ASSUME NEW c \in Client
        PROVE  Tried(1, c)'
    <3>1. taken'[c] = 0
      BY <2>1, Zenon DEF IdleInv
    <3> QED BY <3>1, MessagingConstants DEF Tried
  <2> QED BY <2>2, <2>3, Zenon DEF LoopInv
<1>4. CASE Delivery
  <2>1. ASSUME NEW n \in 1..Len(Devices), NEW c \in Client, Tried(n, c)
        PROVE  Tried(n, c)'
    BY <1>4, <2>1, DeliveryFacts, Zenon DEF Tried
  <2> QED BY <1>4, <2>1, DeliveryFacts, Zenon DEF LoopInv
<1> QED BY <1>1, <1>2, <1>3, <1>4, Steps, Zenon DEF Handling, Step

LEMMA OnceStep ==
  ASSUME IInv, Next
  PROVE  OnceInv'
<1> USE DEF IInv
<1>1. ASSUME NEW c \in Client, Move(c)
      PROVE  OnceInv'
  BY <1>1, MoveFacts, Zenon DEF OnceInv, results
<1>2. CASE Push
  <2>1. PICK n \in 1..Len(Devices) : \A c \in Client : Tried(n + 1, c)'
    BY <1>2, TurnFacts, Zenon
  <2>2. taken' \in [Client -> Nat]
    BY TypeStep, Zenon DEF MessageOK
  <2>3. Len(Devices) \in Nat
    BY MessagingConstants
  <2> QED BY <2>1, <2>2, <2>3 DEF OnceInv, Tried
<1>3. CASE Handling /\ ~Push
  BY <1>3, OtherFacts, HandlingFacts, Zenon DEF OnceInv
<1>4. CASE Delivery
  BY <1>4, DeliveryFacts, Zenon DEF OnceInv
<1> QED BY <1>1, <1>2, <1>3, <1>4, Steps, Zenon DEF Handling, Step

LEMMA CopiesStep ==
  ASSUME IInv, Next
  PROVE  CopiesInv'
<1> USE DEF IInv
<1>0. /\ taken \in [Client -> Nat] /\ coming \in [Client -> Nat] /\ pushed \in [Client -> Nat]
      /\ \A c \in Client : CopyInv(c)
  BY Zenon DEF MessageOK, QueueOK, CopiesInv
<1>1. ASSUME NEW c \in Client, Move(c), NEW d \in Client
      PROVE  CopyInv(d)'
  <2>1. /\ UNCHANGED <<taken, coming, pushed, dropped>>
        /\ moved' = moved \cup {c} /\ joined \subseteq joined'
        /\ d # c => (d \in open <=> d \in open')
        /\ d = c => (d \in joined /\ d \notin open => d \notin open')
    BY <1>1, MoveFacts, Zenon DEF results, pool, queues
  <2>2. CopyInv(d)
    BY <1>0, Zenon
  <2>3. taken[d] = 0 => ~(pushed[d] + coming[d] < taken[d])
    BY <1>0
  <2>4. taken[d] > 0 \/ taken[d] = 0
    BY <1>0
  <2> QED BY <2>1, <2>2, <2>3, <2>4, Zenon DEF CopyInv
<1>2. ASSUME Push, NEW d \in Client
      PROVE  CopyInv(d)'
  <2>1. UNCHANGED <<joined, open, moved, pushed, dropped>>
    BY <1>2, Zenon DEF Push, registry, queues
  <2>2. CopyInv(d)
    BY <1>0, Zenon
  <2>3. CASE UNCHANGED <<taken, coming>>
    BY <2>1, <2>2, <2>3, Zenon DEF CopyInv
  <2>4. CASE Reachable(Head(todo)) /\ Take(Holder(Head(todo)))
    <3>1. Holder(Head(todo)) \in Client /\ Holder(Head(todo)) \in open
      BY <2>4, HolderHas, Zenon DEF Reachable
    <3>2. CASE d = Holder(Head(todo))
      <4>1. taken'[d] = taken[d] + 1 /\ coming'[d] = coming[d] + 1
        BY <1>0, <2>4, <3>1, <3>2, Zenon DEF Take
      <4>2. d \in open /\ d \in joined
        BY <3>1, <3>2, Zenon DEF RegistryOK
      <4>3. pushed[d] + coming'[d] <= taken'[d] <=> pushed[d] + coming[d] <= taken[d]
        BY <1>0, <4>1
      <4>4. pushed[d] + coming'[d] < taken'[d] <=> pushed[d] + coming[d] < taken[d]
        BY <1>0, <4>1
      <4> QED BY <2>1, <2>2, <4>2, <4>3, <4>4, Zenon DEF CopyInv
    <3>3. CASE d # Holder(Head(todo))
      <4>1. taken'[d] = taken[d] /\ coming'[d] = coming[d]
        BY <1>0, <2>4, <3>3, Zenon DEF Take
      <4> QED BY <2>1, <2>2, <4>1, Zenon DEF CopyInv
    <3> QED BY <3>2, <3>3, Zenon
  <2> QED BY <1>2, <2>3, <2>4, Zenon DEF Push
<1>3. ASSUME Handling /\ ~Push, NEW d \in Client
      PROVE  CopyInv(d)'
  <2>1. UNCHANGED <<taken, coming, pushed, dropped>>
    BY <1>3, Zenon DEF Handling, Step, Read, Accept, StartChat, Store, SendAnswer, AckNotify,
                StoreOffline, Publish, PassOn, Unhandled, SubUserState, Ignore,
                results, pool, queues
  <2>2. UNCHANGED <<joined, open, moved>>
    BY <1>3, HandlingFacts, Zenon
  <2> QED BY <1>0, <2>1, <2>2, Zenon DEF CopyInv
<1>4. ASSUME NEW c \in Client, Deliver(c), NEW d \in Client
      PROVE  CopyInv(d)'
  <2>1. UNCHANGED <<joined, open, moved, taken>>
    BY <1>4, DeliveryFacts, Zenon DEF Delivery
  <2>2. CopyInv(d)
    BY <1>0, Zenon
  <2>3. coming[c] > 0 /\ coming' = [coming EXCEPT ![c] = @ - 1]
    BY <1>4, Zenon DEF Deliver
  <2>4. CASE d # c
    <3>1. pushed'[d] = pushed[d] /\ coming'[d] = coming[d]
      BY <1>0, <1>4, <2>4, Zenon DEF Deliver
    <3>2. <<d, "message">> \in dropped' <=> <<d, "message">> \in dropped
      BY <1>4, <2>4, Zenon DEF Deliver
    <3> QED BY <2>1, <2>2, <3>1, <3>2, Zenon DEF CopyInv
  <2>5. CASE d = c
    <3>1. coming'[c] = coming[c] - 1
      BY <1>0, <2>3, Zenon
    <3>2. CASE pushed' = [pushed EXCEPT ![c] = @ + 1] /\ dropped' = dropped
      <4>1. pushed'[c] = pushed[c] + 1
        BY <1>0, <3>2, Zenon
      <4>2. pushed'[c] + coming'[c] = pushed[c] + coming[c]
        BY <1>0, <3>1, <4>1
      <4> QED BY <2>1, <2>2, <2>5, <3>2, <4>2, Zenon DEF CopyInv
    <3>3. CASE dropped' = dropped \cup {<<c, "message">>} /\ pushed' = pushed
      <4>1. /\ pushed'[c] + coming'[c] <= taken[c]
            /\ pushed'[c] + coming'[c] < taken[c]
        BY <1>0, <2>2, <2>3, <2>5, <3>1, <3>3 DEF CopyInv
      <4> QED BY <2>1, <2>2, <2>5, <3>3, <4>1, Zenon DEF CopyInv
    <3>4. CASE c \notin open /\ pushed' = pushed /\ dropped' = dropped
      <4>1. /\ pushed'[c] + coming'[c] <= taken[c]
            /\ pushed'[c] + coming'[c] < taken[c]
        BY <1>0, <2>2, <2>3, <2>5, <3>1, <3>4 DEF CopyInv
      <4> QED BY <2>1, <2>2, <2>5, <3>4, <4>1, Zenon DEF CopyInv
    <3> QED BY <1>4, <3>2, <3>3, <3>4, Zenon DEF Deliver
  <2> QED BY <2>4, <2>5, Zenon
<1>5. ASSUME NEW a \in replies, DeliverAnswer(a), NEW d \in Client
      PROVE  CopyInv(d)'
  <2>1. UNCHANGED <<joined, open, moved, taken>>
    BY <1>5, DeliveryFacts, Zenon DEF Delivery
  <2>2. UNCHANGED <<coming, pushed>> /\ (dropped' = dropped \/ dropped' = dropped \cup {a})
    BY <1>5, Zenon DEF DeliverAnswer
  <2>3. a # <<d, "message">>
    BY DEF QueueOK, Answer
  <2>4. <<d, "message">> \in dropped' <=> <<d, "message">> \in dropped
    BY <2>2, <2>3, Zenon
  <2> QED BY <1>0, <2>1, <2>2, <2>4, Zenon DEF CopyInv
<1>6. ASSUME NEW d \in Client
      PROVE  CopyInv(d)'
  BY <1>1, <1>2, <1>3, <1>4, <1>5, Steps, Zenon DEF Delivery
<1> QED BY <1>6, Zenon DEF CopiesInv

LEMMA StutterStep ==
  ASSUME IInv, UNCHANGED vars
  PROVE  IInv'
<1> USE DEF IInv
<1>1. UNCHANGED <<where, joined, open, moves, sender, msg, pc, dest, kind, cont, todo,
                  stored, offline, taken, coming, replies, pushed, answers, dropped,
                  acked, moved, refused, there>>
  BY Zenon DEF vars, registry, answer, results, pool, queues, history
<1>2. RegistryOK' /\ Unique'
  BY <1>1, Zenon DEF RegistryOK, Unique
<1>3. MessageOK'
  BY <1>1 DEF MessageOK
<1>4. StageInv' /\ AnswerInv'
  BY <1>1, Zenon DEF StageInv, AnswerInv
<1>5. AckInv'
  BY <1>1, Zenon DEF AckInv
<1>6. IdleInv'
  BY <1>1, Zenon DEF IdleInv
<1>7. ThereInv' /\ OnceInv'
  BY <1>1, Zenon DEF ThereInv, OnceInv, Addressed
<1>8. LoopInv'
  <2>1. ASSUME NEW n \in 1..Len(Devices), NEW c \in Client, Tried(n, c)
        PROVE  Tried(n, c)'
    BY <1>1, <2>1, Zenon DEF Tried
  <2> QED BY <1>1, <2>1, Zenon DEF LoopInv
<1>9. QueueOK' /\ CopiesInv'
  BY <1>1, Zenon DEF QueueOK, CopiesInv, CopyInv
<1> QED BY <1>2, <1>3, <1>4, <1>5, <1>6, <1>7, <1>8, <1>9, Zenon

\* The inductive invariant holds in every reachable state.
THEOREM Invariance == Spec => []IInv
<1>1. Init => IInv
  BY InitHolds, Zenon
<1>2. IInv /\ [Next]_vars => IInv'
  BY TypeStep, QueueStep, CopiesStep, StageStep, AnswerStep, AckStep, ThereStep, IdleStep, LoopStep, OnceStep,
     StutterStep, Zenon DEF IInv
<1> QED BY <1>1, <1>2, PTL DEF Spec

\* An answer is queued for the connection that sent the message or, if that has
\* lost its id since the message was read, perhaps for another (handler.go,
\* Impl.EnqueueMessage); and the state is well typed.
THEOREM AnswersToSenderHolds == Spec => []AnswersToSender
<1>1. IInv => AnswersToSender
  <2>1. SUFFICES ASSUME IInv PROVE AnswersToSender
    BY Zenon
  <2>2. \E n \in 1..Len(Devices) + 1 : todo = SubSeq(Devices, n, Len(Devices))
    <3>1. Len(Devices) \in Nat
      BY MessagingConstants
    <3>2. CASE pc = "push"
      BY <2>1, <3>1, <3>2 DEF IInv, LoopInv
    <3>3. CASE pc # "push"
      <4>1. SubSeq(Devices, Len(Devices) + 1, Len(Devices)) = <<>>
        BY <3>1, SubSeqEmpty
      <4>2. todo = <<>>
        BY <2>1, <3>3, Zenon DEF IInv, IdleInv
      <4> QED BY <3>1, <4>1, <4>2
    <3> QED BY <3>2, <3>3, Zenon
  <2>3. pc = "push" => todo # <<>>
    BY <2>1, Rest, Zenon DEF IInv, LoopInv
  <2>4. \A copies \in {taken, coming, pushed} : copies \in [Client -> 0..Len(Devices)]
    <3>1. Len(Devices) \in Nat
      BY MessagingConstants
    <3>2. /\ taken \in [Client -> Nat] /\ coming \in [Client -> Nat] /\ pushed \in [Client -> Nat]
          /\ \A c \in Client : taken[c] <= Len(Devices) /\ pushed[c] + coming[c] <= taken[c]
      BY <2>1, Zenon DEF IInv, MessageOK, QueueOK, OnceInv, CopiesInv, CopyInv
    <3>3. \A c \in Client : /\ taken[c] \in 0..Len(Devices)
                            /\ coming[c] \in 0..Len(Devices)
                            /\ pushed[c] \in 0..Len(Devices)
      BY <3>1, <3>2
    <3>4. /\ taken \in [Client -> 0..Len(Devices)] /\ coming \in [Client -> 0..Len(Devices)]
          /\ pushed \in [Client -> 0..Len(Devices)]
      BY <3>2, <3>3, Zenon
    <3> QED BY <3>4, Zenon
  <2>5. TypeOK
    BY <2>1, <2>2, <2>3, <2>4, Zenon DEF IInv, RegistryOK, MessageOK, QueueOK, TypeOK
  <2> QED BY <2>1, <2>5, Zenon DEF IInv, AnswerInv, AnswersToSender
<1> QED BY <1>1, Invariance, PTL

\* What becomes of a message that was acknowledged: the message store did not
\* refuse it, and when all is settled it is in a queue of the addressee, or the
\* offline store was asked to keep it, or every connection the pool of the gateway
\* took it for had a full queue or has moved, closed or left (handleChatMessage,
\* dispatchOffline, UserClient.EnqueueMessage).
THEOREM AckedIsAccountedForHolds == Spec => []AckedIsAccountedFor
<1>1. IInv => AckedIsAccountedFor
  <2>1. SUFFICES ASSUME IInv, acked, Settled, offline = "no",
                        \A c \in Client : ~(pushed[c] > 0)
                 PROVE  /\ \E c \in Client : taken[c] > 0
                        /\ \A c \in Client : taken[c] > 0 =>
                             <<c, "message">> \in dropped \/ c \in moved
    BY Zenon DEF IInv, AckInv, AckedIsAccountedFor
  <2>2. \E c \in Client : taken[c] > 0
    BY <2>1, Zenon DEF IInv, AckInv, Settled
  <2>3. ASSUME NEW c \in Client, taken[c] > 0
        PROVE  <<c, "message">> \in dropped \/ c \in moved
    <3>1. taken[c] \in Nat /\ pushed[c] \in Nat /\ coming[c] = 0
      BY <2>1, Zenon DEF IInv, MessageOK, QueueOK, Settled
    <3>2. pushed[c] + coming[c] < taken[c]
      BY <2>1, <2>3, <3>1
    <3> QED BY <2>1, <2>3, <3>2, Zenon DEF IInv, CopiesInv, CopyInv
  <2> QED BY <2>2, <2>3, Zenon
<1> QED BY <1>1, Invariance, PTL

\* Whatever the registry does from the loop over the devices to the last task of
\* the pool, who holds one of the devices all the time has the message in its queue
\* once, or its queue was full; and nobody who keeps its id gets it twice
\* (dispatchAllDevice, dispatch2AllDevice, UserClient.EnqueueMessage).
THEOREM PresentGetsItOnceHolds == Spec => []PresentGetsItOnce
<1>1. IInv => PresentGetsItOnce
  <2> SUFFICES ASSUME IInv PROVE PresentGetsItOnce
    BY Zenon
  <2> USE DEF IInv
  <2>1. pc = "done" /\ ~refused /\ there # {} => offline = "no"
    BY Zenon DEF IdleInv
  <2>2. ASSUME Settled, ~refused, NEW c \in there
        PROVE  pushed[c] = 1 <=> <<c, "message">> \notin dropped
    <3>1. c \in Client /\ c \in open /\ taken[c] = 1
      BY <2>2, Zenon DEF IdleInv, ThereInv, MessageOK, Settled
    <3>2. coming[c] = 0 /\ pushed[c] \in Nat
      BY <2>2, <3>1, Zenon DEF Settled, QueueOK
    <3>3. pushed[c] <= 1 /\ (pushed[c] < 1 <=> <<c, "message">> \in dropped)
      BY <3>1, <3>2 DEF CopiesInv, CopyInv
    <3>4. pushed[c] = 1 <=> ~(pushed[c] < 1)
      BY <3>2, <3>3
    <3> QED BY <3>3, <3>4, Zenon
  <2>3. ASSUME NEW c \in Client
        PROVE  pushed[c] <= 1 \/ c \in moved
    <3>1. taken[c] \in Nat /\ pushed[c] \in Nat /\ coming[c] \in Nat
      BY Zenon DEF MessageOK, QueueOK
    <3>2. pushed[c] + coming[c] <= taken[c] /\ (taken[c] <= 1 \/ c \in moved)
      BY Zenon DEF CopiesInv, CopyInv, OnceInv
    <3> QED BY <3>1, <3>2
  <2> QED BY <2>1, <2>2, <2>3, Zenon DEF PresentGetsItOnce
<1> QED BY <1>1, Invariance, PTL
=============================================================================
