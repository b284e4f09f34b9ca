-------------------------- MODULE ChannelSeqProofs --------------------------
(***************************************************************************)
(* Proofs about the sequence numbers of a channel, for any store and any   *)
(* number of calls.                                                        *)
(***************************************************************************)
EXTENDS ChannelSeq, FiniteSetTheorems, TLAPS

USE SeqConstants

\* Every variable of the sequence numbers keeps its type.
THEOREM TypeCorrect == Spec => []TypeOK
  <1>1. Init => TypeOK
    <2>1. Init => NextSeqTypeOK
      BY DEF Init, NextSeqTypeOK
    <2>2. Init => raced \in BOOLEAN
      BY Zenon DEF Init
    <2>3. QED
      BY <2>1, <2>2, Zenon DEF TypeOK
  <1>2. TypeOK /\ [Next]_vars => TypeOK'
    <2> SUFFICES ASSUME NextSeqTypeOK, raced \in BOOLEAN, [Next]_vars
                 PROVE  NextSeqTypeOK' /\ raced' \in BOOLEAN
      BY Zenon DEF TypeOK
    <2>1. CASE UNCHANGED vars
      <3>1. NextSeqTypeOK'
        BY <2>1 DEF vars, NextSeqTypeOK
      <3>2. QED
        BY <2>1, <3>1, Zenon DEF vars
    <2>2. ASSUME NEW c \in Caller, NextSeq(c) PROVE NextSeqTypeOK'
      <3>1. CASE Take(c)
        BY <3>1 DEF Take, Goto, NextSeqTypeOK
      <3>2. CASE Reserve(c)
        <4>1. remain' \in Int /\ remain' <= Length /\ started' \in 0..MaxCalls
          BY <3>2 DEF Reserve, NextSeqTypeOK
        <4>2. QED
          BY <3>2, <4>1 DEF Reserve, Goto, NextSeqTypeOK
      <3>3. CASE Load(c) \/ LoadFails(c)
        <4>1. next' \in Nat /\ start' \in [Caller -> Nat]
          BY <3>3 DEF Load, LoadFails, NextSeqTypeOK
        <4>2. QED
          BY <3>3, <4>1 DEF Load, LoadFails, Goto, NextSeqTypeOK
      <3>4. CASE StoreRemain(c)
        BY <3>4 DEF StoreRemain, Goto, NextSeqTypeOK
      <3>5. CASE StoreSeq(c) \/ StepBack(c)
        <4>1. seq' \in Int
          BY <3>5 DEF StoreSeq, StepBack, NextSeqTypeOK
        <4>2. QED
          BY <3>5, <4>1 DEF StoreSeq, StepBack, Goto, NextSeqTypeOK
      <3>6. QED
        BY <2>2, <3>1, <3>2, <3>3, <3>4, <3>5 DEF NextSeq
    <2>3. CASE Next
      <3>1. raced' \in BOOLEAN
        BY <2>3, Zenon DEF Next
      <3>2. QED
        BY <2>2, <2>3, <3>1, Zenon DEF Next
    <2>4. QED
      BY <2>1, <2>3
  <1>3. QED
    BY <1>1, <1>2, PTL DEF Spec

\* The numbers issued so far.
Issued == \A i \in 1..Len(issued) : issued[i] = First + i

Last == First + Len(issued)

LEMMA TakeIssues ==
  ASSUME TypeOK, Issued, seq = Last, NEW c \in Caller, Take(c)
  PROVE  Issued' /\ Len(issued') = Len(issued) + 1 /\ seq' = Last'
  <1>1. issued \in Seq(Int) /\ Len(issued) \in Nat /\ seq \in Int
    BY DEF TypeOK, NextSeqTypeOK
  <1>2. issued' = Append(issued, seq + 1) /\ seq' = seq + 1
    BY DEF Take
  <1>3. /\ Len(issued') = Len(issued) + 1
        /\ \A i \in 1..Len(issued) : issued'[i] = issued[i]
        /\ issued'[Len(issued) + 1] = seq + 1
    BY <1>1, <1>2
  <1>4. QED
    BY <1>1, <1>2, <1>3 DEF Issued, Last

-----------------------------------------------------------------------------
(* A store of consecutive segments. *)

\* The callers that have reserved a number of the segment and not yet taken it.
Takers == {c \in Caller : pc[c] = "take"}

Loading == {"load", "storeRemain", "storeSeq", "back"}

Alone(c) == \A d \in Caller \ {c} : pc[d] = "idle"

\* Without a race a loading caller is alone, and the first number of the segment
\* it loads is the one due; otherwise what is left of the segment, and the numbers
\* reserved, reach up to the next one.
SegmentInv ==
  /\ Issued
  /\ \A c \in Caller :
       /\ pc[c] \in Loading => Alone(c)
       /\ pc[c] = "load" => seq = Last /\ remain <= 0 /\ next = seq + 1
       /\ pc[c] \in {"storeRemain", "storeSeq"}
            => seq = Last /\ start[c] = seq + 1 /\ next = start[c] + Length
       /\ pc[c] = "back" => seq = Last + 1 /\ next = seq + Length
       /\ pc[c] \in {"storeSeq", "back"} => remain = Length
  /\ (\A c \in Caller : pc[c] \notin Loading)
       => /\ seq = Last
          /\ \/ remain >= 1 /\ remain = next - seq - Cardinality(Takers)
             \/ remain <= 0 /\ next = seq + 1 /\ Takers = {}

LEMMA TakersFinite ==
  IsFiniteSet(Takers) /\ Cardinality(Takers) \in Nat /\ (Takers = {} <=> Cardinality(Takers) = 0)
  BY FS_Subset, FS_CardinalityType, FS_EmptySet DEF Takers

LEMMA TakerComes ==
  ASSUME TypeOK, NEW c \in Caller, pc[c] # "take", pc' = [pc EXCEPT ![c] = "take"]
  PROVE  Cardinality(Takers') = Cardinality(Takers) + 1
  <1>1. Takers' = Takers \cup {c} /\ c \notin Takers
    BY DEF TypeOK, NextSeqTypeOK, Takers
  <1>2. QED
    BY <1>1, TakersFinite, FS_AddElement

LEMMA TakerGoes ==
  ASSUME TypeOK, NEW c \in Caller, pc[c] = "take", pc' = [pc EXCEPT ![c] = "idle"]
  PROVE  Cardinality(Takers') = Cardinality(Takers) - 1 /\ Takers # {}
  <1>1. Takers' = Takers \ {c} /\ c \in Takers
    BY DEF TypeOK, NextSeqTypeOK, Takers
  <1>2. QED
    BY <1>1, TakersFinite, FS_RemoveElement

\* The next step of a caller, when nobody loads or the caller itself does.
LEMMA SegmentStep ==
  ASSUME Segments, TypeOK, SegmentInv, NEW c \in Caller, NextSeq(c), ~Race'
  PROVE  SegmentInv'
  <1> USE DEF Last
  <1>1. /\ seq \in Int /\ remain \in Int /\ next \in Nat /\ Len(issued) \in Nat
        /\ pc \in [Caller -> {"idle", "take", "load", "storeRemain", "storeSeq", "back"}]
        /\ start \in [Caller -> Nat]
    BY DEF TypeOK, NextSeqTypeOK
  <1>2. \A d \in Caller : pc'[d] \in Loading => Alone(d)'
    BY DEF Race, Alone, Loading
  <1>3. Issued
    BY DEF SegmentInv
  <1>4. CASE Take(c)
    <2>1. \A d \in Caller : pc[d] \notin Loading
      <3>1. pc[c] = "take"
        BY <1>4 DEF Take, Goto
      <3>2. QED
        BY <3>1 DEF SegmentInv, Alone, Loading
    <2>2. seq = Last
      BY <2>1 DEF SegmentInv
    <2>3. Issued' /\ Len(issued') = Len(issued) + 1 /\ seq' = Last'
      BY <1>3, <1>4, <2>2, TakeIssues
    <2>4. Cardinality(Takers') = Cardinality(Takers) - 1 /\ Takers # {}
      BY <1>4, TakerGoes DEF Take, Goto
    <2>5. remain >= 1 /\ remain = next - seq - Cardinality(Takers)
      BY <2>1, <2>4 DEF SegmentInv
    <2>6. /\ remain' = remain /\ next' = next /\ seq' = seq + 1
          /\ \A d \in Caller : pc'[d] \notin Loading
      BY <1>1, <1>4, <2>1 DEF Take, Goto, Loading
    <2>7. remain' = next' - seq' - Cardinality(Takers')
      BY <1>1, <2>4, <2>5, <2>6, TakersFinite
    <2>8. QED
      BY <2>3, <2>5, <2>6, <2>7 DEF SegmentInv, Loading
  <1>5. CASE UNCHANGED issued
    <2>1. Issued' /\ Last' = Last
      BY <1>3, <1>5 DEF Issued
    <2>2. CASE Reserve(c)
      <3>1. /\ pc[c] = "idle" /\ remain' = remain - 1 /\ next' = next /\ seq' = seq
            /\ start' = start
            /\ pc' = [pc EXCEPT ![c] = IF remain' <= 0 THEN "load" ELSE "take"]
        BY <2>2 DEF Reserve, Goto
      <3>2. \A d \in Caller : pc[d] \notin Loading
        BY <1>1, <1>2, <3>1 DEF SegmentInv, Alone, Loading
      <3>3. seq = Last
        BY <3>2 DEF SegmentInv
      <3>4. CASE remain' <= 0
        <4>1. pc' = [pc EXCEPT ![c] = "load"]
          BY <3>1, <3>4
        <4>2. Takers = {}
          BY <1>1, <1>2, <3>1, <4>1 DEF Alone, Loading, Takers
        <4>3. Cardinality(Takers) = 0
          BY <4>2, TakersFinite
        <4>4. next = seq + 1
          BY <1>1, <3>1, <3>2, <3>4, <4>3 DEF SegmentInv
        <4>5. QED
          BY <1>1, <1>2, <2>1, <3>1, <3>2, <3>3, <3>4, <4>1, <4>4 DEF SegmentInv, Loading
      <3>5. CASE ~(remain' <= 0)
        <4>1. pc' = [pc EXCEPT ![c] = "take"]
          BY <3>1, <3>5
        <4>2. Cardinality(Takers') = Cardinality(Takers) + 1
          BY <3>1, <4>1, TakerComes
        <4>3. remain >= 1 /\ remain = next - seq - Cardinality(Takers)
          BY <1>1, <3>1, <3>2, <3>5 DEF SegmentInv
        <4>4. remain' >= 1 /\ remain' = next' - seq' - Cardinality(Takers')
          BY <1>1, <3>1, <3>5, <4>2, <4>3, TakersFinite
        <4>5. \A d \in Caller : pc'[d] \notin Loading
          BY <1>1, <3>2, <4>1 DEF Loading
        <4>6. QED
          BY <2>1, <3>1, <3>3, <4>4, <4>5 DEF SegmentInv, Loading
      <3>6. QED
        BY <3>4, <3>5
    <2>3. CASE LoadFails(c)
      <3>1. Takers' = {} /\ pc[c] = "load" /\ Alone(c)
        BY <1>1, <2>3 DEF LoadFails, Goto, SegmentInv, Alone, Takers, Loading
      <3>2. QED
        BY <1>1, <2>1, <2>3, <3>1 DEF LoadFails, Goto, SegmentInv, Alone, Loading
    <2>4. CASE Load(c)
      BY <1>1, <1>2, <2>1, <2>4 DEF Load, Goto, SegmentInv, Alone, Loading, Segments
    <2>5. CASE StoreRemain(c)
      BY <1>1, <1>2, <2>1, <2>5 DEF StoreRemain, Goto, SegmentInv, Alone, Loading
    <2>6. CASE StoreSeq(c)
      BY <1>1, <1>2, <2>1, <2>6 DEF StoreSeq, Goto, SegmentInv, Alone, Loading
    <2>7. CASE StepBack(c)
      <3>1. pc[c] = "back" /\ Alone(c) /\ seq' = seq - 1 /\ next' = next /\ remain' = remain
        BY <2>7 DEF StepBack, Goto, SegmentInv, Loading
      <3>2. Takers = {}
        BY <3>1 DEF Alone, Takers
      <3>3. Cardinality(Takers') = 1
        <4>1. Cardinality(Takers) = 0
          BY <3>2, FS_EmptySet
        <4>2. Cardinality(Takers') = Cardinality(Takers) + 1
          BY <2>7, <3>1, TakerComes DEF StepBack, Goto
        <4>3. QED
          BY <4>1, <4>2
      <3>4. \A d \in Caller : pc'[d] \notin Loading
        BY <1>1, <2>7, <3>1 DEF StepBack, Goto, Alone, Loading
      <3>5. seq' = Last' /\ remain' >= 1 /\ remain' = next' - seq' - 1
        BY <1>1, <2>1, <3>1 DEF SegmentInv, Segments
      <3>6. QED
        BY <2>1, <3>3, <3>4, <3>5 DEF SegmentInv, Loading
    <2>8. QED
      BY <1>4, <2>2, <2>3, <2>4, <2>5, <2>6, <2>7 DEF NextSeq
  <1>6. QED
    BY <1>4, <1>5 DEF NextSeq, Reserve, Load, LoadFails, StoreRemain, StoreSeq, StepBack

-----------------------------------------------------------------------------
(* Any number of goroutines and a segment that is never used up. *)

\* Nobody loads a segment, so the numbers come from AddInt64 alone.
SharedInv ==
  /\ Issued
  /\ seq = Last
  /\ remain = Length - started
  /\ \A c \in Caller : pc[c] \in {"idle", "take"}

LEMMA SharedStep ==
  ASSUME OneSegment, TypeOK, SharedInv, NEW c \in Caller, NextSeq(c)
  PROVE  SharedInv'
  <1> USE DEF TypeOK, NextSeqTypeOK, SharedInv, Last, Goto
  <1>1. CASE Reserve(c)
    BY <1>1 DEF Reserve, OneSegment, Issued
  <1>2. CASE Take(c)
    <2>1. Issued' /\ seq' = Last'
      BY <1>2, TakeIssues
    <2>2. QED
      BY <1>2, <2>1 DEF Take
  <1>3. QED
    BY <1>1, <1>2 DEF NextSeq, Load, LoadFails, StoreRemain, StoreSeq, StepBack

-----------------------------------------------------------------------------
\* The numbers of a channel are consecutive with a store of consecutive segments
\* as long as no call overlaps with a load, and in a segment that lasts.
THEOREM Consecutive == Spec => []ConsecutiveSeq
  <1> DEFINE SInv == Segments /\ ~raced => SegmentInv
             MInv == OneSegment => SharedInv
  <1>1. Init => SInv /\ MInv
    <2> SUFFICES ASSUME Init PROVE SInv /\ MInv
      OBVIOUS
    <2>1. Takers = {} /\ Cardinality(Takers) = 0
      BY FS_EmptySet DEF Init, Takers
    <2>2. QED
      BY <2>1 DEF Init, SegmentInv, SharedInv, Issued, Last, Segments, Loading
  <1>2. TypeOK /\ SInv /\ MInv /\ [Next]_vars => SInv' /\ MInv'
    <2> SUFFICES ASSUME TypeOK, SInv, MInv, [Next]_vars PROVE SInv' /\ MInv'
      OBVIOUS
    <2>1. CASE UNCHANGED vars
      <3>1. Takers' = Takers
        BY <2>1 DEF vars, Takers
      <3>2. SegmentInv => SegmentInv'
        BY <2>1, <3>1 DEF vars, SegmentInv, Issued, Last, Alone
      <3>3. SharedInv => SharedInv'
        BY <2>1 DEF vars, SharedInv, Issued, Last
      <3>4. QED
        BY <2>1, <3>2, <3>3 DEF vars, Segments, OneSegment
    <2>2. ASSUME NEW c \in Caller, NextSeq(c), raced' = (raced \/ Race') PROVE SInv' /\ MInv'
      BY <2>2, SegmentStep, SharedStep DEF Segments, OneSegment
    <2>3. QED
      BY <2>1, <2>2 DEF Next
  <1>3. SInv /\ MInv => ConsecutiveSeq
    BY DEF ConsecutiveSeq, SegmentInv, SharedInv, Issued
  <1> HIDE DEF SInv, MInv
  <1>4. QED
    BY <1>1, <1>2, <1>3, TypeCorrect, PTL DEF Spec
=============================================================================
