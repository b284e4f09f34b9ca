------------------------------ MODULE Presence ------------------------------
(***************************************************************************)
(* Presence: the online and offline events that the gateway raises under   *)
(* its lock (pkg/gate/gateway.go), their way through the pool of the       *)
(* message handlers (pkg/messaging/messaging.go), the subscriptions to the *)
(* state of users (user_state_sub.go) and the members of the world channel *)
(* (internal_action.go, internal/world_channel).                           *)
(*                                                                         *)
(* An event in flight occupies a slot until all it started has ended.  Its *)
(* task on the pool and its goroutine for the world channel run side by    *)
(* side.  The handlers of a task run in no particular order.  There are two*)
(* locks: Impl.mu, held while raise is not empty, and UserState.mu (mu).   *)
(***************************************************************************)
EXTENDS Integers, FiniteSets, Sequences

CONSTANTS
  Uid,      \* ids of logged-in users
  TempId,   \* ids of anonymous connections
  Slot,     \* events in flight (bounds them; natural numbers)
  MaxOps,   \* operations on the gateway (a bound)
  PoolCap,  \* Options.MaxMessageConcurrency, the tasks the pool runs at once
  Watch,    \* who may subscribe to whom: pairs of users
  NotifyOnErr,  \* MessageInterfaceImpl.notifyOnSrvErr
  Nobody    \* no holder of UserState.mu, no id

Id == Uid \cup TempId

ASSUME PresenceConstants ==
  /\ Uid \cap TempId = {}
  /\ Slot \subseteq Nat /\ IsFiniteSet(Slot)
  /\ PoolCap \in Nat /\ MaxOps \in Nat
  /\ Watch \subseteq Uid \X Uid
  /\ NotifyOnErr \in BOOLEAN
  /\ Nobody \notin Id \cup Slot

VARIABLES
  online,       \* keys of Impl.clients
  ops,          \* operations on the gateway so far
  raise,        \* events the holder of Impl.mu has yet to hand to the pool
  stuck,        \* whether the holder of Impl.mu waits for Impl.mu
  event,        \* the event in each slot
  pc,           \* its task on the pool: where it is
  at,           \* its goroutine for the world channel: where it is
  todo,         \* subscribers its task has yet to notify
  mu,           \* UserState.mu: the slot whose task holds it
  subscribers,  \* UserState.subscribers
  mySubs,       \* UserState.mySubs
  world,        \* subscribers of the world channel
  calm          \* history: no events of a user overlapped, none got lost

gatewayVars == <<online, ops, raise, stuck>>
stateVars   == <<mu, subscribers, mySubs>>
vars == <<online, ops, raise, stuck, event, pc, at, todo, mu,
          subscribers, mySubs, world, calm>>

Event   == [id : Id, up : BOOLEAN]
NoEvent == [id |-> Nobody, up |-> FALSE]

TypeOK ==
  /\ online \in SUBSET Id
  /\ ops \in 0..MaxOps
  /\ raise \in Seq(Event) /\ Len(raise) <= 2
  /\ stuck \in BOOLEAN
  /\ event \in [Slot -> Event \cup {NoEvent}]
  /\ pc \in [Slot -> {"free", "queued", "notify", "done"}]
  /\ at \in [Slot -> {"idle", "join", "leave", "done"}]
  /\ todo \in [Slot -> SUBSET Uid]
  /\ mu \in Slot \cup {Nobody}
  /\ subscribers \in [Uid -> SUBSET Uid]
  /\ mySubs \in [Uid -> SUBSET Uid]
  /\ world \in SUBSET Uid
  /\ calm \in BOOLEAN

Init ==
  /\ online = {} /\ ops = 0 /\ raise = <<>> /\ stuck = FALSE
  /\ event = [s \in Slot |-> NoEvent]
  /\ pc = [s \in Slot |-> "free"]
  /\ at = [s \in Slot |-> "done"]
  /\ todo = [s \in Slot |-> {}]
  /\ mu = Nobody
  /\ subscribers = [u \in Uid |-> {}]
  /\ mySubs = [u \in Uid |-> {}]
  /\ world = {}
  /\ calm = TRUE

-----------------------------------------------------------------------------
(* The gateway. *)

On(i)  == [id |-> i, up |-> TRUE]
Off(i) == [id |-> i, up |-> FALSE]

\* Variant of Locked: handlers run in the goroutine that raises the event.
LockedWhileHandling ==
  stuck \/ raise # <<>> \/ \E s \in Slot : pc[s] \in {"queued", "notify"}

\* Impl.mu is held by a writer.
Locked == stuck \/ raise # <<>>

Count == ops < MaxOps /\ ops' = ops + 1

rest == <<stuck, event, pc, at, todo, mu, subscribers, mySubs,
          world, calm>>

AddClient(i) ==
  /\ ~Locked /\ Count
  /\ i \in TempId \ online
  /\ online' = online \cup {i}
  /\ raise' = <<On(i)>>
  /\ UNCHANGED rest

\* SetClientID, by a login or by the kick that makes room for one.
SetClientID(old, new) ==
  /\ ~Locked /\ Count
  /\ old \in online /\ new \notin online
  /\ online' = (online \ {old}) \cup {new}
  /\ raise' = <<Off(old), On(new)>>
  /\ UNCHANGED rest

ExitClient(i) ==
  /\ ~Locked /\ Count
  /\ i \in online
  /\ online' = online \ {i}
  /\ raise' = <<Off(i)>>
  /\ UNCHANGED rest

-----------------------------------------------------------------------------
(* MessageInterfaceImpl.Handle for an event, called under Impl.mu. *)

Active(s) == pc[s] # "free"
InPool    == {s \in Slot : pc[s] \in {"queued", "notify"}}
PoolFull  == Cardinality(InPool) >= PoolCap
NextFree(s) == ~Active(s) /\ \A r \in Slot : ~Active(r) => s <= r
Overlaps(e) == \E s \in Slot : Active(s) /\ event[s].id = e.id

\* The goroutine for the world channel of an offline event starts with the
\* task, that of an online event at its end; neither acts on a temporary id.
WorldStart(e) == IF e.id \in TempId THEN "done" ELSE
                 IF e.up THEN "idle" ELSE "leave"

\* The pool takes the task.
Submit(s) ==
  LET e == Head(raise)
  IN /\ ~stuck /\ raise # <<>>
     /\ ~PoolFull /\ NextFree(s)
     /\ raise' = Tail(raise)
     /\ event' = [event EXCEPT ![s] = e]
     /\ pc' = [pc EXCEPT ![s] = "queued"]
     /\ at' = [at EXCEPT ![s] = WorldStart(e)]
     /\ calm' = (calm /\ ~Overlaps(e))
     /\ UNCHANGED <<online, ops, stuck, todo, stateVars, world>>

\* The pool is full.  The reply about the error asks for Impl.mu again, which
\* the goroutine itself holds; without the reply the event is lost.
Refuse ==
  LET e == Head(raise)
  IN /\ ~stuck /\ raise # <<>>
     /\ PoolFull
     /\ stuck' = NotifyOnErr
     /\ raise' = IF NotifyOnErr THEN raise ELSE Tail(raise)
     /\ calm' = FALSE
     /\ UNCHANGED <<online, ops, event, pc, at, todo, stateVars,
                    world>>

-----------------------------------------------------------------------------
(* UserState. *)

Watchers(i) == IF i \in Uid THEN subscribers[i] ELSE {}

\* Variant of Cleanup: the user itself is deleted, and its list is kept.
CleanupEntriesOnly(i) ==
  /\ subscribers' = [u \in Uid |-> subscribers[u] \ {i}]
  /\ UNCHANGED mySubs

\* onUserOffline after the notices: it drops the list of the user, and in the
\* entries of the users on that list it deletes their own id, not this user's.
Cleanup(i) ==
  /\ subscribers' = [u \in Uid |-> IF u \in mySubs[i] THEN subscribers[u] \ {u}
                                                      ELSE subscribers[u]]
  /\ mySubs' = [mySubs EXCEPT ![i] = {}]

\* The task ends.  An online event then starts its goroutine for the world
\* channel.  The event is over if that of an offline event has ended.
EndTask(s) ==
  /\ pc' = [pc EXCEPT ![s] = IF at[s] = "done" THEN "free" ELSE "done"]
  /\ event' = [event EXCEPT ![s] = IF at[s] = "done" THEN NoEvent ELSE @]
  /\ at' = [at EXCEPT ![s] = IF @ = "idle" THEN "join" ELSE @]

\* onUserOnline, onUserOffline when nobody watches the user: onUserOffline
\* returns early, onUserOnline has nobody to notify.
HandleUnwatched(s) ==
  /\ pc[s] = "queued" /\ mu = Nobody
  /\ Watchers(event[s].id) = {}
  /\ EndTask(s)
  /\ UNCHANGED <<gatewayVars, todo, stateVars, world, calm>>

\* onUserOnline, onUserOffline up to the notices.
Lock(s) ==
  /\ pc[s] = "queued" /\ mu = Nobody
  /\ Watchers(event[s].id) # {}
  /\ mu' = s
  /\ pc' = [pc EXCEPT ![s] = "notify"]
  /\ todo' = [todo EXCEPT ![s] = Watchers(event[s].id)]
  /\ UNCHANGED <<gatewayVars, event, at, subscribers, mySubs, world, calm>>

\* notifyOnline, notifyOffline: a call of EnqueueMessage, which takes Impl.mu to
\* read the map.  After the last one the handler ends.
Notify(s, w) ==
  /\ pc[s] = "notify" /\ w \in todo[s]
  /\ ~Locked
  /\ todo' = [todo EXCEPT ![s] = @ \ {w}]
  /\ IF todo[s] = {w}
     THEN /\ mu' = Nobody
          /\ EndTask(s)
          /\ IF event[s].up THEN UNCHANGED <<subscribers, mySubs>>
                            ELSE Cleanup(event[s].id)
     ELSE UNCHANGED <<event, pc, at, stateVars>>
  /\ UNCHANGED <<gatewayVars, world, calm>>

\* subUserStateApi, under the lock from its first to its last access.  Its task
\* may run after the client has gone.
Subscribe(me, uids) ==
  /\ mu = Nobody /\ ~PoolFull
  /\ {me} \X uids \subseteq Watch
  /\ subscribers' = [u \in Uid |-> IF u \in uids THEN subscribers[u] \cup {me}
                                                 ELSE subscribers[u]]
  /\ mySubs' = [mySubs EXCEPT ![me] = @ \cup uids]
  /\ UNCHANGED <<gatewayVars, event, pc, at, todo, mu, world, calm>>

-----------------------------------------------------------------------------
(* The world channel. *)

\* The goroutine ends, and with it the event if its task has ended.
EndWorld(s) ==
  /\ at' = [at EXCEPT ![s] = "done"]
  /\ pc' = [pc EXCEPT ![s] = IF @ = "done" THEN "free" ELSE @]
  /\ event' = [event EXCEPT ![s] = IF pc[s] = "done" THEN NoEvent ELSE @]

\* OnUserOnline, a second after the event.  A blocked channel refuses.  The
\* subscriber is id.UID(), which is the id itself for the ids of logins; an id
\* with a device, which only a rename over RPC gives out, is not modelled.
Join(s) ==
  /\ at[s] = "join"
  /\ \/ /\ world' = world \cup {event[s].id}
        /\ UNCHANGED calm
     \/ /\ calm' = FALSE
        /\ UNCHANGED world
  /\ EndWorld(s)
  /\ UNCHANGED <<gatewayVars, todo, stateVars>>

\* Variant of Leave: UnSubscribe is not called.
LeavePublishingOnly(s) ==
  /\ at[s] = "leave"
  /\ EndWorld(s)
  /\ UNCHANGED <<gatewayVars, todo, stateVars, world, calm>>

\* OnUserOffline.
Leave(s) ==
  /\ at[s] = "leave"
  /\ world' = world \ {event[s].id}
  /\ EndWorld(s)
  /\ UNCHANGED <<gatewayVars, todo, stateVars, calm>>

-----------------------------------------------------------------------------
Begin(s) == HandleUnwatched(s) \/ Lock(s)
Tell(s)  == \E w \in Uid : Notify(s, w)
World(s) == Join(s) \/ Leave(s)
Raise    == Refuse \/ \E s \in Slot : Submit(s)

Next ==
  \/ \E i \in Id : AddClient(i) \/ ExitClient(i)
  \/ \E old, new \in Id : SetClientID(old, new)
  \/ Raise
  \/ \E s \in Slot : Begin(s) \/ Tell(s) \/ World(s)
  \/ \E me \in Uid, uids \in SUBSET Uid : Subscribe(me, uids)

\* The scheduler runs what can run.  Weak fairness is enough: the operations on
\* the gateway are bounded, so whoever waits for a lock finds it free for good.
Fairness ==
  /\ WF_vars(Raise)
  /\ \A s \in Slot : WF_vars(Begin(s)) /\ WF_vars(Tell(s)) /\ WF_vars(World(s))

Spec == Init /\ [][Next]_vars /\ Fairness

-----------------------------------------------------------------------------
(* Properties. *)

Rest == ~Locked /\ \A s \in Slot : ~Active(s)

\* The state is well typed, and when all events have been handled the world
\* channel has exactly the users that are online (world_channel.go), provided
\* that no event of a user was raised before the one before it had been dealt
\* with to the end, the delayed join included.
WorldIsOnline == TypeOK /\ (Rest /\ calm => world = online \cap Uid)

\* Who has another user on the list of users to watch is among those told about
\* that user (subUserStateApi, onUserOffline), although the clean-up of a user
\* that goes offline works on the entries of others.
SubscriptionsAgree ==
  \A u, w \in Uid : u # w /\ u \in mySubs[w] => w \in subscribers[u]

\* The holder of UserState.mu waits for Impl.mu (notifyOnline), and who holds
\* Impl.mu hands events to the pool: still every event is handled to its end
\* and Impl.mu is released, unless the pool refuses an event and the reply about
\* that waits for the lock its own goroutine holds (messaging.go, Handle).
EventsAreHandled ==
  /\ Locked ~> (~Locked \/ stuck)
  /\ \A s \in Slot : Active(s) ~> (~Active(s) \/ stuck)
=============================================================================
