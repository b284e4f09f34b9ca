-------------------------- MODULE ClientReadProofs --------------------------
(***************************************************************************)
(* Proofs about ClientRead, for any capacity of the buffer, any number of  *)
(* messages from the peer and any limit of lost heartbeats.                *)
(***************************************************************************)
EXTENDS ClientRead, SequenceTheorems, TLAPS

\* The reader has put an error only if it is gone, and its buffer is closed by
\* itself; the count is past the limit only once Exit was called.
BufferInv ==
  /\ ~chOpen => rpc = "off"
  /\ \A i \in 1..Len(ch) : ch[i] = "error" => i = Len(ch) /\ rpc = "off"

CountInv == exit = "no" => hbLost <= Limit

IInv == TypeOK /\ BufferInv /\ CountInv

LEMMA InitHolds == Init => IInv
<1> SUFFICES ASSUME Init PROVE IInv
  OBVIOUS
<1>1. ch = <<>> /\ hbLost = 0 /\ reads = 0 /\ chOpen
  BY DEF Init
<1>2. ch \in Seq(Result) /\ Len(ch) <= Buf /\ reads \in 0..MaxRead
      /\ hbLost \in 0..(Limit + 1) /\ hbLost <= Limit
  BY <1>1, ReadConstants
<1>3. TypeOK
  BY <1>2 DEF Init, TypeOK, Result
<1> QED BY <1>1, <1>2, <1>3 DEF IInv, BufferInv, CountInv

\* What ReaderPut and Receive do to the buffer.
LEMMA AppendFacts ==
  ASSUME NEW s \in Seq(Result), NEW r \in Result
  PROVE  /\ Append(s, r) \in Seq(Result) /\ Len(Append(s, r)) = Len(s) + 1
         /\ \A i \in 1..Len(s) : Append(s, r)[i] = s[i]
         /\ Append(s, r)[Len(s) + 1] = r
BY AppendProperties

LEMMA TailFacts ==
  ASSUME NEW s \in Seq(Result), s # <<>>
  PROVE  /\ Tail(s) \in Seq(Result) /\ Len(Tail(s)) = Len(s) - 1
         /\ \A i \in 1..Len(Tail(s)) : Tail(s)[i] = s[i + 1]
BY HeadTailProperties

\* The buffer after a step: as before, with one more result, or with one less.
LEMMA BufferChange ==
  ASSUME IInv, Next
  PROVE  \/ ReaderPut
         \/ ch' = ch /\ (rpc' = rpc \/ rpc # "off") /\ (chOpen' = chOpen \/ rpc' = "off")
         \/ ch # <<>> /\ ch' = Tail(ch) /\ rpc' = rpc /\ chOpen' = chOpen
BY DEF Next, Reader, ReaderSelect, ReaderRead, PeerGone, GatewayExit, ExitStep,
       StopReadWrite, CloseConn, RunRead, RunReadStop, Receive, Handled, Heartbeat,
       HeartbeatMissed, HandlerPanics, reader

LEMMA BufferStep ==
  ASSUME IInv, Next
  PROVE  /\ BufferInv'
         /\ ch' \in Seq(Result) /\ Len(ch') <= Buf
<1>1. ch \in Seq(Result) /\ Len(ch) <= Buf /\ Len(ch) \in Nat /\ res \in Result
      /\ Buf \in Nat
  BY ReadConstants DEF IInv, TypeOK
<1>2. CASE ReaderPut
  <2>1. /\ ch' = Append(ch, res) /\ Len(ch) < Buf /\ rpc = "put"
        /\ res = "error" => rpc' = "off"
        /\ ~chOpen' => ~chOpen \/ rpc' = "off"
    BY <1>2 DEF ReaderPut
  <2>2. \A i \in 1..Len(ch) : ch[i] # "error"
    BY <2>1 DEF IInv, BufferInv
  <2>3. /\ ch' \in Seq(Result) /\ Len(ch') = Len(ch) + 1 /\ Len(ch') <= Buf
        /\ \A i \in 1..Len(ch) : ch'[i] = ch[i]
        /\ ch'[Len(ch) + 1] = res
    BY <1>1, <2>1, AppendFacts
  <2>4. \A i \in 1..Len(ch') : ch'[i] = "error" => i = Len(ch') /\ rpc' = "off"
    BY <1>1, <2>1, <2>2, <2>3
  <2>5. ~chOpen' => rpc' = "off"
    BY <2>1 DEF IInv, BufferInv
  <2> QED BY <2>3, <2>4, <2>5 DEF BufferInv
<1>3. CASE ch' = ch /\ (rpc' = rpc \/ rpc # "off") /\ (chOpen' = chOpen \/ rpc' = "off")
  BY <1>1, <1>3 DEF IInv, BufferInv
<1>4. CASE ch # <<>> /\ ch' = Tail(ch) /\ rpc' = rpc /\ chOpen' = chOpen
  <2>1. /\ ch' \in Seq(Result) /\ Len(ch') = Len(ch) - 1
        /\ \A i \in 1..Len(ch') : ch'[i] = ch[i + 1]
    BY <1>1, <1>4, TailFacts
  <2>2. ASSUME NEW i \in 1..Len(ch'), ch'[i] = "error"
        PROVE  i = Len(ch') /\ rpc' = "off"
    <3>1. i + 1 \in 1..Len(ch) /\ ch[i + 1] = "error"
      BY <1>1, <2>1, <2>2
    <3>2. i + 1 = Len(ch) /\ rpc = "off"
      BY <3>1 DEF IInv, BufferInv
    <3>3. i \in Nat /\ i = Len(ch')
      BY <1>1, <2>1, <3>2
    <3>4. rpc' = "off"
      BY <1>4, <3>2
    <3> QED BY <3>3, <3>4
  <2>3. ~chOpen' => rpc' = "off"
    BY <1>4 DEF IInv, BufferInv
  <2>4. Len(ch') <= Buf
    BY <1>1, <2>1
  <2> QED BY <2>1, <2>2, <2>3, <2>4 DEF BufferInv
<1> QED BY <1>2, <1>3, <1>4, BufferChange

LEMMA TypeStep ==
  ASSUME IInv, Next
  PROVE  TypeOK' /\ CountInv'
<1> USE DEF IInv
<1>1. ch' \in Seq(Result) /\ Len(ch') <= Buf
  BY BufferStep
<1>2. conn' \in {"up", "down", "closed"} /\ reads' \in 0..MaxRead
  BY ReadConstants
     DEF Next, Reader, ReaderSelect, ReaderRead, ReaderPut, PeerGone, GatewayExit,
         ExitStep, StopReadWrite, CloseConn, RunRead, RunReadStop, Receive, Handled,
         Heartbeat, HeartbeatMissed, HandlerPanics, reader, TypeOK
<1>3. rpc' \in {"select", "read", "put", "off"} /\ res' \in Result
  BY DEF Next, Reader, ReaderSelect, ReaderRead, ReaderPut, PeerGone, GatewayExit,
         ExitStep, StopReadWrite, CloseConn, RunRead, RunReadStop, Receive, Handled,
         Heartbeat, HeartbeatMissed, HandlerPanics, reader, TypeOK, Result
<1>4. chOpen' \in BOOLEAN /\ done' \in BOOLEAN
  BY DEF Next, Reader, ReaderSelect, ReaderRead, ReaderPut, PeerGone, GatewayExit,
         ExitStep, StopReadWrite, CloseConn, RunRead, RunReadStop, Receive, Handled,
         Heartbeat, HeartbeatMissed, HandlerPanics, End, TypeOK
<1>5. /\ pc' \in {"loop", "handle", "exit", "off", "panicked"}
      /\ exit' \in {"no", "stop", "close", "done"}
      /\ hbC' \in {"armed", "missed"}
  BY DEF Next, Reader, ReaderSelect, ReaderRead, ReaderPut, PeerGone, GatewayExit,
         ExitStep, StopReadWrite, CloseConn, RunRead, RunReadStop, Receive, Handled,
         Heartbeat, HeartbeatLost, HeartbeatMissed, HandlerPanics, End, CallExit, TypeOK
<1>6. hbLost' \in 0..(Limit + 1) /\ (exit' = "no" => hbLost' <= Limit)
  <2>1. Limit \in Nat /\ hbLost \in 0..(Limit + 1) /\ (exit = "no" => hbLost <= Limit)
    BY ReadConstants DEF TypeOK, CountInv
  <2>2. \/ hbLost' = hbLost /\ (exit' = exit \/ exit' # "no")
        \/ hbLost' = 0
        \/ exit = "no" /\ hbLost' = hbLost + 1 /\ (hbLost' > Limit => exit' = "stop")
    BY DEF Next, Reader, ReaderSelect, ReaderRead, ReaderPut, PeerGone, GatewayExit,
           ExitStep, StopReadWrite, CloseConn, RunRead, RunReadStop, Receive, Handled,
           Heartbeat, HeartbeatLost, HeartbeatMissed, HandlerPanics, CallExit
  <2> QED BY <2>1, <2>2
<1> QED BY <1>1, <1>2, <1>3, <1>4, <1>5, <1>6 DEF TypeOK, CountInv

\* The inductive invariant holds in every reachable state.
THEOREM Invariance == Spec => []IInv
<1>1. IInv /\ UNCHANGED vars => IInv'
  <2>1. SUFFICES ASSUME IInv, UNCHANGED vars PROVE IInv'
    OBVIOUS
  <2>2. TypeOK'
    BY <2>1 DEF IInv, vars, TypeOK
  <2> QED BY <2>1, <2>2 DEF IInv, vars, BufferInv, CountInv
<1>2. IInv /\ [Next]_vars => IInv'
  BY <1>1, BufferStep, TypeStep DEF IInv
<1> QED BY <1>2, InitHolds, PTL DEF Spec

\* The buffer never exceeds its capacity, it is closed once and by the reader's
\* last act, and nothing follows an error in it (ReadCh), whatever runRead, its
\* timer and Exit do meanwhile.
THEOREM NothingAfterErrorHolds == Spec => []NothingAfterError
<1>1. IInv => NothingAfterError
  BY DEF IInv, BufferInv, NothingAfterError
<1> QED BY <1>1, Invariance, PTL
=============================================================================
