----------------------------- MODULE ClientRead -----------------------------
(***************************************************************************)
(* The incoming side of a client: the goroutine of defaultReader.ReadCh    *)
(* (pkg/gate/reader.go), which reads the connection into a small buffer,   *)
(* and runRead (pkg/gate/client_impl.go), which handles what it finds      *)
(* there, counts lost heartbeats, and calls Exit.                          *)
(*                                                                         *)
(* Exit is one operation here: the state and the id, then closeReadCh,     *)
(* then, when the queue of outgoing messages is written, the connection    *)
(* (see UserClient).                                                       *)
(***************************************************************************)
EXTENDS Naturals, Sequences

CONSTANTS
  Buf,      \* capacity of the buffer: 5 in ReadCh
  MaxRead,  \* bound on what the peer sends
  Limit     \* ClientConfig.HeartbeatLostLimit

ASSUME ReadConstants == Buf \in Nat \ {0} /\ MaxRead \in Nat /\ Limit \in Nat

VARIABLES
  conn,    \* the connection: "up", "down" (by the peer) or "closed" (by conn.Close)
  reads,   \* what was read from the peer so far
  rpc,     \* reader: where it is
  res,     \* reader: the result in hand
  ch,      \* the buffer of results
  chOpen,  \* it is not closed
  done,    \* the stop signal to the reader
  pc,      \* runRead: where it is
  hbLost,  \* UserClient.hbLost
  hbC,     \* its timer: "armed", or "missed" when nobody was there for the tick
  exit     \* Exit: "no" (running), "stop", "close" or "done" is next

reader == <<conn, reads, rpc, res>>
vars == <<conn, reads, rpc, res, ch, chOpen, done, pc, hbLost, hbC, exit>>

Result == {"message", "undecodable", "error"}

TypeOK ==
  /\ conn \in {"up", "down", "closed"}
  /\ reads \in 0..MaxRead
  /\ rpc \in {"select", "read", "put", "off"}
  /\ res \in Result
  /\ ch \in Seq(Result) /\ Len(ch) <= Buf
  /\ chOpen \in BOOLEAN /\ done \in BOOLEAN
  /\ pc \in {"loop", "handle", "exit", "off", "panicked"}
  /\ hbLost \in 0..(Limit + 1)
  /\ hbC \in {"armed", "missed"}
  /\ exit \in {"no", "stop", "close", "done"}

Init ==
  /\ conn = "up" /\ reads = 0
  /\ rpc = "select" /\ res = "error"
  /\ ch = <<>> /\ chOpen = TRUE /\ done = FALSE
  /\ pc = "loop" /\ hbLost = 0 /\ hbC = "armed"
  /\ exit = "no"

-----------------------------------------------------------------------------
(* The goroutine of ReadCh. *)

\* The stop signal is looked at between two reads only.
ReaderSelect ==
  /\ rpc = "select"
  /\ IF done
     THEN rpc' = "off" /\ chOpen' = FALSE
     ELSE rpc' = "read" /\ UNCHANGED chOpen
  /\ UNCHANGED <<conn, reads, res, ch, done, pc, hbLost, hbC, exit>>

\* conn.Read and codec.Decode; they block while the connection is up and silent.
ReaderRead ==
  /\ rpc = "read"
  /\ rpc' = "put"
  /\ \/ /\ conn = "up"
        /\ reads < MaxRead
        /\ reads' = reads + 1
        /\ res' \in {"message", "undecodable"}
     \/ /\ conn # "up"
        /\ res' = "error"
        /\ UNCHANGED reads
  /\ UNCHANGED <<conn, ch, chOpen, done, pc, hbLost, hbC, exit>>

\* Variant of ReaderPut: an error does not end the goroutine.
ReaderPutAndGoOn ==
  /\ rpc = "put"
  /\ Len(ch) < Buf
  /\ ch' = Append(ch, res)
  /\ rpc' = "select"
  /\ UNCHANGED <<conn, reads, res, chOpen, done, pc, hbLost, hbC, exit>>

\* c <- res blocks while the buffer is full; an error other than that of the
\* codec ends the goroutine.
ReaderPut ==
  /\ rpc = "put"
  /\ Len(ch) < Buf
  /\ ch' = Append(ch, res)
  /\ IF res = "error"
     THEN rpc' = "off" /\ chOpen' = FALSE
     ELSE rpc' = "select" /\ UNCHANGED chOpen
  /\ UNCHANGED <<conn, reads, res, done, pc, hbLost, hbC, exit>>

Reader == ReaderSelect \/ ReaderRead \/ ReaderPut

\* The peer, or the network, ends the connection.
PeerGone ==
  /\ conn = "up"
  /\ conn' = "down"
  /\ UNCHANGED <<reads, rpc, res, ch, chOpen, done, pc, hbLost, hbC, exit>>

-----------------------------------------------------------------------------
(* Exit. *)

\* c.Exit() in runRead, which goes on when closeReadCh is closed; it returns at
\* once when the client is closed already.
CallExit ==
  IF exit = "no" THEN exit' = "stop" /\ pc' = "exit"
                 ELSE UNCHANGED exit /\ pc' = "loop"

\* The gateway calls Exit from another goroutine.
GatewayExit ==
  /\ exit = "no"
  /\ exit' = "stop"
  /\ UNCHANGED <<reader, ch, chOpen, done, pc, hbLost, hbC>>

\* stopReadWrite closes closeReadCh.
StopReadWrite ==
  /\ exit = "stop"
  /\ exit' = "close"
  /\ pc' = IF pc = "exit" THEN "loop" ELSE pc
  /\ UNCHANGED <<reader, ch, chOpen, done, hbLost, hbC>>

\* Variant of CloseConn: the connection is left open.
CloseConnNever ==
  /\ exit = "close"
  /\ exit' = "done"
  /\ UNCHANGED <<reader, ch, chOpen, done, pc, hbLost, hbC>>

\* conn.Close at the end of Exit.
CloseConn ==
  /\ exit = "close"
  /\ exit' = "done"
  /\ conn' = "closed"
  /\ UNCHANGED <<reads, rpc, res, ch, chOpen, done, pc, hbLost, hbC>>

ExitStep == StopReadWrite \/ CloseConn

-----------------------------------------------------------------------------
(* runRead. *)

\* STOP: the reader is told.
End == pc' = "off" /\ done' = TRUE

RunReadStop ==
  /\ pc = "loop"
  /\ exit \in {"close", "done"}
  /\ End
  /\ UNCHANGED <<reader, ch, chOpen, hbLost, hbC, exit>>

\* runRead is parked in its select: nothing else is ready.
Parked ==
  /\ pc = "loop"
  /\ exit \in {"no", "stop"}
  /\ ch = <<>> /\ chOpen

\* Variant of HeartbeatLost: the count starts over instead of passing the limit.
HeartbeatLostForgiven ==
  /\ hbLost' = IF hbLost < Limit THEN hbLost + 1 ELSE 0
  /\ UNCHANGED <<pc, exit>>

HeartbeatLost ==
  /\ hbLost' = hbLost + 1
  /\ IF hbLost' > Limit THEN CallExit ELSE UNCHANGED <<pc, exit>>

\* The timer fires while runRead waits, and is armed again.
Heartbeat ==
  /\ hbC = "armed"
  /\ Parked
  /\ IF exit # "no"
     THEN End /\ UNCHANGED <<hbLost, exit>>
     ELSE HeartbeatLost /\ UNCHANGED done
  /\ UNCHANGED <<reader, ch, chOpen, hbC>>

\* The timer fires while runRead is busy: the timing wheel does not wait for a
\* receiver, and nothing arms the timer again but the next message.
HeartbeatMissed ==
  /\ hbC = "armed"
  /\ pc \in {"loop", "handle", "exit"} /\ ~Parked
  /\ hbC' = "missed"
  /\ UNCHANGED <<reader, ch, chOpen, done, pc, hbLost, exit>>

\* A result, or nil when the buffer is closed and empty.  A message resets the
\* heartbeat, unless the id is gone, which is so after some of the exits.
Receive ==
  /\ pc = "loop"
  /\ \/ /\ ch = <<>> /\ ~chOpen
        /\ CallExit
        /\ UNCHANGED <<ch, hbLost, hbC>>
     \/ /\ ch # <<>> /\ Head(ch) = "error"
        /\ CallExit
        /\ ch' = Tail(ch)
        /\ UNCHANGED <<hbLost, hbC>>
     \/ /\ ch # <<>>
        /\ \/ Head(ch) = "undecodable"
           \/ Head(ch) = "message" /\ exit # "no"
        /\ ch' = Tail(ch)
        /\ pc' = "handle"
        /\ UNCHANGED <<hbLost, hbC, exit>>
     \/ /\ ch # <<>> /\ Head(ch) = "message"
        /\ ch' = Tail(ch)
        /\ hbLost' = 0
        /\ hbC' = "armed"
        /\ pc' = "handle"
        /\ UNCHANGED exit
  /\ UNCHANGED <<reader, chOpen, done>>

\* The error was reported to the peer, or the message handler returned.
Handled ==
  /\ pc = "handle"
  /\ pc' = "loop"
  /\ UNCHANGED <<reader, ch, chOpen, done, hbLost, hbC, exit>>

\* The message handler panics: runRead recovers, calls Exit and is gone, without
\* the stop signal to the reader.
HandlerPanics ==
  /\ pc = "handle"
  /\ pc' = "panicked"
  /\ exit' = IF exit = "no" THEN "stop" ELSE exit
  /\ UNCHANGED <<reader, ch, chOpen, done, hbLost, hbC>>

RunRead == RunReadStop \/ Receive \/ Handled

Next ==
  \/ Reader \/ PeerGone
  \/ GatewayExit \/ ExitStep
  \/ RunRead \/ Heartbeat \/ HeartbeatMissed \/ HandlerPanics

\* Goroutines run, an armed timer fires, and the random choice of the select does
\* not pass over the closed closeReadCh for ever.
Fairness == /\ WF_vars(Reader) /\ WF_vars(ExitStep) /\ WF_vars(RunRead)
            /\ SF_vars(RunReadStop) /\ WF_vars(Heartbeat)

Spec == Init /\ [][Next]_vars /\ Fairness

-----------------------------------------------------------------------------
(* Correctness. *)

\* Whoever closes the client, runRead comes to its end, and once it is gone the
\* reader ends too, unless it is stuck on a full buffer.
GoroutinesEnd ==
  /\ exit # "no" ~> pc \in {"off", "panicked"}
  /\ pc \in {"off", "panicked"} ~> rpc = "off" \/ (rpc = "put" /\ Len(ch) = Buf)

\* A connection whose peer falls silent, or sends only what cannot be decoded, is
\* given up after HeartbeatLostLimit heartbeats, if every tick of the timer finds
\* runRead waiting for it.
SilentPeerExits == <>(exit # "no" \/ hbC = "missed")

\* The state is well typed and the buffer within its capacity.  A closed buffer
\* was closed by the reader's last act; nothing is put after it, and an error is
\* the last thing in it.
NothingAfterError ==
  /\ TypeOK
  /\ ~chOpen => rpc = "off"
  /\ \A i \in 1..Len(ch) : ch[i] = "error" => i = Len(ch) /\ rpc = "off"
=============================================================================
