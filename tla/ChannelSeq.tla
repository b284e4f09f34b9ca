----------------------------- MODULE ChannelSeq -----------------------------
(***************************************************************************)
(* The sequence numbers of a channel: Channel.nextSeq and loadSeq          *)
(* (pkg/subscription/subscription_impl/chan.go).  Every publisher calls    *)
(* nextSeq from its own goroutine and no lock is held, so each atomic      *)
(* operation on seq and seqRemain is a step.                               *)
(*                                                                         *)
(* The sequence store is external.  Its k-th segment starts at             *)
(* First + k * Advance and has Length numbers: Advance = Length for a      *)
(* store of consecutive segments (the mock of chan_test.go), Advance = 0   *)
(* for the idle and the database store, which always return                *)
(* (1, MaxInt64), and all three 0 for the Kafka store.                     *)
(***************************************************************************)
EXTENDS Integers, Sequences, FiniteSets

CONSTANTS
  Caller,    \* goroutines that publish
  First,     \* start of the first segment
  Length,    \* length of a segment
  Advance,   \* distance between the starts of two segments
  MaxCalls   \* bound on the calls of nextSeq

ASSUME SeqConstants ==
  /\ IsFiniteSet(Caller)
  /\ First \in Nat /\ Length \in Nat /\ Advance \in Nat /\ MaxCalls \in Nat

VARIABLES
  seq,      \* Channel.seq
  remain,   \* Channel.seqRemain
  next,     \* the store: start of the segment it returns next
  pc,       \* nextSeq: where each caller is
  start,    \* loadSeq local: start of the segment it was given
  started,  \* calls of nextSeq begun
  issued,   \* numbers returned, in the order of the last AddInt64
  raced     \* history: a call was under way during the load of another

vars == <<seq, remain, next, pc, start, started, issued, raced>>

NextSeqTypeOK ==
  /\ seq \in Int /\ next \in Nat
  /\ remain \in Int /\ remain <= Length
  /\ pc \in [Caller -> {"idle", "take", "load", "storeRemain", "storeSeq", "back"}]
  /\ start \in [Caller -> Nat]
  /\ started \in 0..MaxCalls
  /\ issued \in Seq(Int)

TypeOK == NextSeqTypeOK /\ raced \in BOOLEAN

\* NewChannel has called loadSeq once.
Init ==
  /\ seq = First
  /\ remain = Length
  /\ next = First + Advance
  /\ pc = [c \in Caller |-> "idle"]
  /\ start = [c \in Caller |-> First]
  /\ started = 0
  /\ issued = <<>>
  /\ raced = FALSE

Goto(c, from, to) == pc[c] = from /\ pc' = [pc EXCEPT ![c] = to]

\* Variant of Reserve: a segment is used to its last number and one beyond.
ReserveOneMore(c) ==
  /\ started < MaxCalls
  /\ started' = started + 1
  /\ remain' = remain - 1
  /\ Goto(c, "idle", IF remain' < 0 THEN "load" ELSE "take")
  /\ UNCHANGED <<seq, next, start, issued>>

\* nextSeq begins: AddInt64(&seqRemain, -1) <= 0 asks for a segment.
Reserve(c) ==
  /\ started < MaxCalls
  /\ started' = started + 1
  /\ remain' = remain - 1
  /\ Goto(c, "idle", IF remain' <= 0 THEN "load" ELSE "take")
  /\ UNCHANGED <<seq, next, start, issued>>

\* NextSegmentSequence of the store.
Load(c) ==
  /\ Goto(c, "load", "storeRemain")
  /\ start' = [start EXCEPT ![c] = next]
  /\ next' = next + Advance
  /\ UNCHANGED <<seq, remain, started, issued>>

\* The store returns an error, and so does nextSeq.
LoadFails(c) ==
  /\ Goto(c, "load", "idle")
  /\ UNCHANGED <<seq, remain, next, start, started, issued>>

\* Variant of StoreRemain: the segment is added to what is left.
StoreRemainAdding(c) ==
  /\ Goto(c, "storeRemain", "storeSeq")
  /\ remain' = remain + Length
  /\ UNCHANGED <<seq, next, start, started, issued>>

StoreRemain(c) ==
  /\ Goto(c, "storeRemain", "storeSeq")
  /\ remain' = Length
  /\ UNCHANGED <<seq, next, start, started, issued>>

StoreSeq(c) ==
  /\ Goto(c, "storeSeq", "back")
  /\ seq' = start[c]
  /\ UNCHANGED <<remain, next, start, started, issued>>

\* "because seq increment before set to message"
StepBack(c) ==
  /\ Goto(c, "back", "take")
  /\ seq' = seq - 1
  /\ UNCHANGED <<remain, next, start, started, issued>>

Take(c) ==
  /\ Goto(c, "take", "idle")
  /\ seq' = seq + 1
  /\ issued' = Append(issued, seq + 1)
  /\ UNCHANGED <<remain, next, start, started>>

NextSeq(c) == \/ Reserve(c) \/ Load(c) \/ LoadFails(c) \/ StoreRemain(c)
              \/ StoreSeq(c) \/ StepBack(c) \/ Take(c)

\* A caller is in the part of nextSeq that loads a segment, and another is in it.
Race ==
  \E c, d \in Caller : /\ c # d
                       /\ pc[c] \in {"load", "storeRemain", "storeSeq", "back"}
                       /\ pc[d] # "idle"

Next ==
  /\ \E c \in Caller : NextSeq(c)
  /\ raced' = (raced \/ Race')

Spec == Init /\ [][Next]_vars

-----------------------------------------------------------------------------
(* Correctness. *)

Segments   == Advance = Length /\ Length > 0
OneSegment == Length > MaxCalls

\* The numbers are consecutive (the loop of TestChannel_nextSeq), whatever the
\* callers do and however often the store fails, as long as no call of nextSeq is
\* under way while another loads a segment; and without a condition in a segment
\* that is never used up, as the idle and the database store give.
ConsecutiveSeq ==
  (Segments /\ ~raced) \/ OneSegment =>
    \A i \in 1..Len(issued) : issued[i] = First + i

\* "message sequence for a chat, use to check message whether the message lost"
\* (pkg/messages/messages.go): two messages of a channel have two numbers.
UniqueSeq == \A i, j \in 1..Len(issued) : issued[i] = issued[j] => i = j
=============================================================================
