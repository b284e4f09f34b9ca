----------------------------- MODULE UserClient -----------------------------
(***************************************************************************)
(* The outgoing side of a client (pkg/gate/client_impl.go): the bounded    *)
(* queue of messages, EnqueueMessage, the goroutine runWrite, and Exit,    *)
(* which leaves it to another goroutine to write what is left in the queue *)
(* before it closes the queue and the connection.                          *)
(*                                                                         *)
(* Exit may be called by runRead of the client and by the gateway at the   *)
(* same time, and there is no lock.  What Exit does to the registry is in  *)
(* module Gateway.  Heartbeats are messages of a sender.                   *)
(*                                                                         *)
(* A write takes time, and the connection is a websocket, which allows one *)
(* writer at a time: where two goroutines are in Write, the library panics *)
(* in one of them, or by luck in none.                                     *)
(***************************************************************************)
EXTENDS Naturals, Sequences, FiniteSets, Functions

CONSTANTS
  Exiter,            \* goroutines that call Exit
  Sender,            \* goroutines that call EnqueueMessage
  Cap,               \* capacity of the queue: 100 in NewClientWithConfig
  MaxMsg             \* bound on the messages

RunWrite == "runWrite"

ASSUME ClientConstants ==
  /\ IsFiniteSet(Exiter) /\ RunWrite \notin Exiter
  /\ IsFiniteSet(Sender)
  /\ Cap \in Nat \ {0}
  /\ MaxMsg \in Nat

VARIABLES
  immediately,  \* ClientConfig.CloseImmediately
  state,     \* UserClient.state: "running" or "closed"
  queue,     \* UserClient.messages
  closed,    \* close(c.messages) has been called
  connOpen,  \* conn.Close has not been called
  broken,    \* the connection is broken: writes fail
  stop,      \* closeWriteCh is closed
  made,      \* messages made so far; a message is its number
  accepted,  \* messages put into the queue, in order
  sent,      \* messages written to the connection, in order
  failed,    \* messages taken from the queue whose write failed or panicked
  bad,       \* messages taken from the queue that could not be encoded
  spc,       \* senders: where they are
  wpc,       \* runWrite: where it is
  epc,       \* exiters: where they are, including the goroutine started by Exit
  hand,      \* the message in hand of runWrite and of each exiter's goroutine
  writing,   \* the goroutines in conn.Write
  clash,     \* those of them that met another one there
  overlap,   \* history: two goroutines met in conn.Write
  crashed    \* a goroutine without recover has panicked

senders == <<made, accepted, spc>>
fixed == <<immediately, broken>>
written == <<sent, failed, bad>>
writes == <<writing, clash, overlap>>
vars == <<fixed, state, queue, closed, connOpen, stop, senders, written, wpc, epc, hand,
          writes, crashed>>

None == 0

TypeOK ==
  /\ immediately \in BOOLEAN /\ broken \in BOOLEAN
  /\ state \in {"running", "closed"}
  /\ queue \in Seq(1..MaxMsg) /\ Len(queue) <= Cap
  /\ closed \in BOOLEAN /\ connOpen \in BOOLEAN
  /\ stop \in BOOLEAN /\ crashed \in BOOLEAN
  /\ made \in 0..MaxMsg
  /\ accepted \in Seq(1..MaxMsg) /\ sent \in Seq(1..MaxMsg)
  /\ failed \in SUBSET (1..MaxMsg) /\ bad \in SUBSET (1..MaxMsg)
  /\ spc \in [Sender -> 0..MaxMsg]
  /\ wpc \in {"loop", "off"}
  /\ epc \in [Exiter -> {"idle", "store", "stop", "close", "drain", "off"}]
  /\ hand \in [Exiter \cup {RunWrite} -> 0..MaxMsg]
  /\ clash \subseteq writing /\ overlap \in BOOLEAN
  /\ writing \subseteq {g \in Exiter \cup {RunWrite} : hand[g] # None}

Init ==
  /\ immediately \in BOOLEAN
  /\ broken = FALSE
  /\ state = "running"
  /\ queue = <<>> /\ closed = FALSE /\ connOpen = TRUE /\ stop = FALSE
  /\ made = 0 /\ accepted = <<>> /\ sent = <<>> /\ failed = {} /\ bad = {}
  /\ spc = [s \in Sender |-> None]
  /\ wpc = "loop"
  /\ epc = [e \in Exiter |-> "idle"]
  /\ hand = [g \in Exiter \cup {RunWrite} |-> None]
  /\ writing = {} /\ clash = {} /\ overlap = FALSE /\ crashed = FALSE

-----------------------------------------------------------------------------
(* EnqueueMessage. *)

\* The state is loaded; a closed client refuses the message.
EnqueueCheck(s) ==
  /\ spc[s] = None
  /\ state # "closed"
  /\ made < MaxMsg
  /\ made' = made + 1
  /\ spc' = [spc EXCEPT ![s] = made + 1]
  /\ UNCHANGED <<fixed, state, queue, closed, connOpen, stop, accepted, written,
                 wpc, epc, hand, writes, crashed>>

\* The message is put into the queue, or dropped when the queue is full.  On a
\* closed queue the send panics; the pool of the gateway recovers it.
EnqueueSend(s) ==
  /\ spc[s] # None
  /\ IF ~closed /\ Len(queue) < Cap
     THEN /\ queue' = Append(queue, spc[s])
          /\ accepted' = Append(accepted, spc[s])
     ELSE UNCHANGED <<queue, accepted>>
  /\ spc' = [spc EXCEPT ![s] = None]
  /\ UNCHANGED <<fixed, state, closed, connOpen, stop, made, written, wpc, epc,
                 hand, writes, crashed>>

-----------------------------------------------------------------------------
(* Taking a message and writing it, in runWrite and in the goroutine of Exit. *)

\* Variant of Take: two goroutines may read a message before one removes it.
TakeUnsynchronised(g) ==
  /\ hand[g] = None
  /\ queue # <<>>
  /\ hand' = [hand EXCEPT ![g] = Head(queue)]
  /\ queue' \in {queue, Tail(queue)}

Take(g) ==
  /\ hand[g] = None
  /\ queue # <<>>
  /\ hand' = [hand EXCEPT ![g] = Head(queue)]
  /\ queue' = Tail(queue)

\* The message goes out of the hand of g, which is no longer in conn.Write.
Release(g) == /\ hand' = [hand EXCEPT ![g] = None]
              /\ writing' = writing \ {g} /\ clash' = clash \ {g}
              /\ UNCHANGED overlap

\* write2Conn: a message that cannot be encoded is dropped, another goes to
\* conn.Write, which need not be free.
Encode(g) ==
  /\ hand[g] # None /\ g \notin writing
  /\ \/ Release(g) /\ bad' = bad \cup {hand[g]}
     \/ /\ writing' = writing \cup {g}
        /\ clash' = IF writing = {} THEN clash ELSE writing'
        /\ overlap' = (overlap \/ writing # {})
        /\ UNCHANGED <<hand, bad>>
  /\ UNCHANGED <<sent, failed, stop>>

\* conn.Write returns; a failing write closes closeWriteCh.
Write2Conn(g) ==
  /\ g \in writing
  /\ Release(g)
  /\ \/ /\ connOpen /\ ~broken
        /\ sent' = Append(sent, hand[g])
        /\ UNCHANGED <<failed, stop>>
     \/ /\ ~connOpen \/ broken \/ g \in clash
        /\ failed' = failed \cup {hand[g]}
        /\ stop' = TRUE
        /\ UNCHANGED sent
  /\ UNCHANGED bad

\* WriteMessage panics: "concurrent write to websocket connection".
WritePanics(g) ==
  /\ g \in clash
  /\ Release(g)
  /\ failed' = failed \cup {hand[g]}
  /\ UNCHANGED <<sent, bad, stop>>

\* The network or the peer breaks the connection.
ConnBreaks ==
  /\ connOpen /\ ~broken
  /\ broken' = TRUE
  /\ UNCHANGED <<immediately, state, queue, closed, connOpen, stop, senders,
                 written, wpc, epc, hand, writes, crashed>>

RunWriteTake ==
  /\ wpc = "loop"
  /\ Take(RunWrite)
  /\ UNCHANGED <<fixed, state, closed, connOpen, stop, senders, written, wpc, epc,
                 writes, crashed>>

\* The recover of runWrite calls Exit, which returns at once: only the goroutine of
\* an Exit can be the other writer.
RunWriteWrite ==
  /\ wpc = "loop"
  /\ \/ (Encode(RunWrite) \/ Write2Conn(RunWrite)) /\ UNCHANGED wpc
     \/ WritePanics(RunWrite) /\ wpc' = "off"
  /\ UNCHANGED <<fixed, state, queue, closed, connOpen, senders, epc, crashed>>

\* closeWriteCh is closed, or the heartbeat timer finds the client not running.
\* A nil message from the closed queue only repeats Exit, which returns.
RunWriteStop ==
  /\ wpc = "loop"
  /\ hand[RunWrite] = None
  /\ stop \/ state # "running"
  /\ wpc' = "off"
  /\ UNCHANGED <<fixed, state, queue, closed, connOpen, stop, senders, written, epc,
                 hand, writes, crashed>>

-----------------------------------------------------------------------------
(* Exit. *)

Goto(e, from, to) == epc[e] = from /\ epc' = [epc EXCEPT ![e] = to]

\* Variant of ExitLoad: the queue is drained before the state is stored.
ExitLoadDrainFirst(e) ==
  /\ state # "closed"
  /\ Goto(e, "idle", "drain")
  /\ UNCHANGED <<fixed, state, queue, closed, connOpen, stop, senders, written, wpc,
                 hand, writes, crashed>>

ExitLoad(e) ==
  /\ state # "closed"
  /\ Goto(e, "idle", "store")
  /\ UNCHANGED <<fixed, state, queue, closed, connOpen, stop, senders, written, wpc,
                 hand, writes, crashed>>

ExitStore(e) ==
  /\ Goto(e, "store", "stop")
  /\ state' = "closed"
  /\ UNCHANGED <<fixed, queue, closed, connOpen, stop, senders, written, wpc, hand,
                 writes, crashed>>

\* stopReadWrite, and the start of the goroutine that writes the rest.
ExitStop(e) ==
  /\ Goto(e, "stop", IF immediately THEN "close" ELSE "drain")
  /\ stop' = TRUE
  /\ UNCHANGED <<fixed, state, queue, closed, connOpen, senders, written, wpc, hand,
                 writes, crashed>>

DrainTake(e) ==
  /\ epc[e] = "drain"
  /\ Take(e)
  /\ UNCHANGED <<fixed, state, closed, connOpen, stop, senders, written, wpc, epc,
                 writes, crashed>>

\* The goroutine of Exit has no recover.
DrainWrite(e) ==
  /\ epc[e] = "drain"
  /\ \/ (Encode(e) \/ Write2Conn(e)) /\ UNCHANGED crashed
     \/ WritePanics(e) /\ crashed' = TRUE
  /\ UNCHANGED <<fixed, state, queue, closed, connOpen, senders, wpc, epc>>

\* Variant of DrainEnd: one message is written, not all.
DrainEndEarly(e) ==
  /\ Goto(e, "drain", "close")
  /\ hand[e] = None
  /\ UNCHANGED <<fixed, state, queue, closed, connOpen, stop, senders, written, wpc,
                 hand, writes, crashed>>

\* The default case: nothing to receive.  A closed queue would always yield nil,
\* so the loop does not end there.
DrainEnd(e) ==
  /\ Goto(e, "drain", "close")
  /\ hand[e] = None
  /\ queue = <<>>
  /\ ~closed
  /\ UNCHANGED <<fixed, state, queue, closed, connOpen, stop, senders, written, wpc,
                 hand, writes, crashed>>

\* Variant of Close: the connection stays open.
CloseQueueOnly(e) ==
  /\ Goto(e, "close", "off")
  /\ closed' = TRUE
  /\ UNCHANGED <<fixed, state, queue, connOpen, stop, senders, written, wpc, hand,
                 writes, crashed>>

\* close(): close(c.messages) panics on a closed channel.  In Exit itself the
\* panic reaches the recover of runRead or of the RPC server, in the goroutine
\* started by Exit there is none.
Close(e) ==
  /\ Goto(e, "close", "off")
  /\ IF closed
     THEN /\ crashed' = ~immediately
          /\ UNCHANGED <<closed, connOpen>>
     ELSE /\ closed' = TRUE
          /\ connOpen' = FALSE
          /\ UNCHANGED crashed
  /\ UNCHANGED <<fixed, state, queue, stop, senders, written, wpc, hand, writes>>

Enqueue(s) == EnqueueCheck(s) \/ EnqueueSend(s)
RunWriteStep == RunWriteTake \/ RunWriteWrite \/ RunWriteStop
ExitStep(e) == \/ ExitStore(e) \/ ExitStop(e) \/ DrainTake(e) \/ DrainWrite(e)
               \/ DrainEnd(e) \/ Close(e)

Next ==
  /\ ~crashed
  /\ \/ \E s \in Sender : Enqueue(s)
     \/ ConnBreaks
     \/ RunWriteStep
     \/ \E e \in Exiter : ExitLoad(e) \/ ExitStep(e)

\* A goroutine that can take a step takes one; the select of runWrite is random,
\* so it does not pass over the closed closeWriteCh for ever.
Fairness == /\ \A s \in Sender : WF_vars(~crashed /\ EnqueueSend(s))
            /\ WF_vars(~crashed /\ RunWriteStep) /\ SF_vars(~crashed /\ RunWriteStop)
            /\ \A e \in Exiter : WF_vars(~crashed /\ ExitStep(e))

Spec == Init /\ [][Next]_vars /\ Fairness

-----------------------------------------------------------------------------
(* Correctness. *)

\* At most one call of Exit has gone past its test of the state.
OneExit == Cardinality({e \in Exiter : epc[e] # "idle"}) <= 1

Hands == {hand[g] : g \in Exiter \cup {RunWrite}} \ {None}

\* The state is well typed and the queue within its capacity, and every accepted
\* message is in exactly one place: in the queue, in the hand of one goroutine,
\* written once, lost by a failed write, or dropped as it could not be encoded.  In
\* particular nothing is written twice, although runWrite and the goroutines of Exit
\* share the queue.
EachInOnePlace ==
  /\ TypeOK
  /\ Range(accepted) = Range(queue) \cup Range(sent) \cup Hands \cup failed \cup bad
  /\ Len(accepted) = Len(queue) + Len(sent) + Cardinality(failed) + Cardinality(bad)
                     + Cardinality({g \in Exiter \cup {RunWrite} : hand[g] # None})

\* Until the client is closed, messages are written in the order in which they
\* were accepted, and one that is overtaken could not be encoded or its write
\* failed, which happens only on a broken connection.
InOrderWhileRunning ==
  state = "running" =>
    /\ \A i, j \in 1..Len(sent) : i < j => \E m, n \in 1..Len(accepted) :
         m < n /\ accepted[m] = sent[i] /\ accepted[n] = sent[j]
    /\ \A m, n \in 1..Len(accepted) : m < n /\ accepted[n] \in Range(sent) =>
         accepted[m] \in Range(sent) \cup failed \cup bad
    /\ ~broken => failed = {}

\* What a single Exit may do.  It crashes the process only if its goroutine and
\* runWrite have met in conn.Write, which nothing prevents: runWrite may be in the
\* middle of a write, or choose another message, when Exit starts the goroutine.
\* If they have not met, then an Exit that writes the rest of the queue loses little
\* as it closes the connection: the message runWrite has in hand, and one of every
\* sender that had found the client open and was late.  Two calls that both pass the
\* test of the state close the queue twice and panic.
SingleExitLosesLittle ==
  OneExit => /\ crashed => overlap
             /\ ~overlap /\ ~immediately /\ ~broken /\ ~connOpen =>
                  Len(accepted) - Len(sent) - Cardinality(bad)
                    <= 1 + Cardinality(Sender)

\* Exit leads to a closed connection and the end of runWrite, unless two calls of
\* it overlap or the process crashes.
ExitCloses ==
  state = "closed" ~> (~connOpen /\ wpc = "off") \/ ~OneExit \/ crashed
=============================================================================
