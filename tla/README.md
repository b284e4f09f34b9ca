# TLA+ models of glide

glide is an instant-messaging server: clients connect over a websocket, log in,
and exchange chat and group messages; other services steer it over RPC. This
directory models the parts of it in which several goroutines or processes share
state, and its two data structures with an algorithm of their own, checks them
with TLC on small instances, and proves most of the safety properties with TLAPS
for all instances. Paths below are relative to the repository.

## The system and where it is modelled

| Part | Source | Modules | Extent |
|---|---|---|---|
| Gateway: map of clients, ids, kick-out | `pkg/gate/gateway.go`, `client.go`, `id.go` | `Registry`, `Gateway`, `Messaging`, `ImService` | every operation that changes the map |
| Authentication | `pkg/gate/authenticator.go` | `Gateway`, `Messaging` | login and kick-out, ticket check; not the ciphers |
| Client, outgoing | `pkg/gate/client_impl.go` | `UserClient` | modelled |
| Client, incoming | `pkg/gate/client_impl.go`, `reader.go` | `ClientRead` | modelled |
| Channel | `pkg/subscription/subscription_impl/chan.go`, `perm.go`, `message.go` | `Channel` | modelled |
| Sequence numbers of a channel | `chan.go` | `ChannelSeq` | modelled |
| Subscription service | `subscription_impl/subscription.go`, `wrap.go` | `ImService` | modelled |
| Message handlers | `pkg/messaging` | `Messaging` | all handlers that are registered |
| Presence, world channel | `pkg/messaging/user_state_sub.go`, `internal_action.go`, `internal/world_channel` | `Presence` | modelled (the order of the events is in `Gateway`) |
| Timing wheel | `pkg/timingwheel` | `TimingWheel`, `ClientRead` | modelled (a dropped tick is in `ClientRead`) |
| Consistent hash | `pkg/hash` | `ConsistentHash` | one writer at a time; the hash function is a parameter |
| RPC service and its clients | `im_service/server`, `im_service/client` | `ImService`, `Gateway` | modelled |
| RPC transport | `pkg/rpc` | `Selector`, `ImService` | the selectors, with and without metadata; the retries of the library |
| Message stores | `pkg/store`, `internal/message_store_db` | `ChannelSeq`, `Messaging`, `ImService` | the segments of numbers they return, the outcome of a call; the rest is input and output |
| Connections, codec, configuration, logging, start-up, generated code, examples | `pkg/conn`, `pkg/messages`, `config`, `cmd`, `im_service/proto`, `example` | – | not modelled: no shared state of their own |

How they interact: `HandleConnection` makes a client, puts it into the gateway's
map under a temporary id and starts two goroutines for it. `runRead` passes what
the reader delivers to the interceptors of the gateway, which log the client in
(renaming it, and displacing whoever holds the id), and to the message handlers,
which run on a pool. These answer through the gateway into the outgoing queue of
a client, which `runWrite` empties, or publish to a channel. A channel numbers,
stores and queues a message, and a goroutine of its own pushes it to the
subscribers through the gateway. A client ends by `Exit`, called by its own
`runRead` or by the gateway. Other processes call the gateway and the subscription
service over RPC, through a selector that picks the server. Heartbeats and idle
timeouts come from the timing wheel.

## Modules

Every shared access that no lock protects is a step of its own; a section under
a lock is one step. Local variables of a goroutine that live across steps are
functions of the goroutine, and are reset when they go out of scope. Operators
called "Variant of ..." are altered forms of the definition that follows them.
They are not part of any specification; each shows that some property notices
the change.

**`Registry`** is the abstract specification of the gateway: each client is
known under at most one id, an id belongs to at most one client, and a client
that left is not admitted again.

**`Gateway`** has the map (`clients`), the id, state, manager pointer and
credentials of each client, and two program counters per connection, for
`HandleConnection` and `runRead`. `AddClient`, `SetClientID` (as `Rename`) and
`ExitClient` are the locked sections. `ReadOldID`, `SetID`, `Kick`,
`NotifyKickOut` and `RetrySetID` are the steps of `updateClient`; `ExitLoad`,
`ExitStore`, `ExitReadID`, `ExitManager` and `ExitTail` those of `Exit`;
`RpcSetClientID` and `RpcExitClient` are the RPC service. `announced` holds the
ids whose last presence event was "online".

**`ChannelSeq`** is `nextSeq` and `loadSeq`, one atomic operation per step. The
store is described by the first number, the length and the distance of its
segments, which covers the mock of the tests, the idle, the database and the
Kafka store. (The Kafka store returns 0, 0: every message gets the same number.)

**`Channel`** has the subscribers with their permissions, the bounded queue, the
counter `queued` and the flag `queueRunning`. Workers are the goroutines that
publish, subscribe, unsubscribe, update and close. Consumers are the goroutines
of `checkMsgQueue`; several can be alive at once because the flag is tested and
set in two steps.

**`UserClient`** has the outgoing queue, `runWrite`, the senders and up to two
overlapping `Exit`s with their draining goroutine. A message is queued, in a
hand, written, dropped because it cannot be encoded, or lost. `Encode` and
`Write2Conn` are `write2Conn`: a write takes time, and two goroutines that meet in
it break the rule of the websocket library that a connection has one writer. The
library then panics in one of them (`WritePanics`), or by luck in none; `runWrite`
recovers, the goroutine of `Exit` does not and ends the process.

**`ClientRead`** has the reader goroutine with its buffer of five, `runRead`, the
heartbeat timer and an `Exit` in three stages. A tick of the timer reaches
`runRead` only while it is parked in its select, as the timing wheel does not
wait for a receiver.

**`Presence`** follows the online and offline events. An operation on the gateway
changes the map and leaves a list of events (`raise`), which its goroutine hands
to the pool one by one while it holds `Impl.mu` (`Submit`), or which a full pool
refuses (`Refuse`). Every event in flight has a task on the pool (`Lock`,
`Notify`, `HandleUnwatched`: `UserState` under its own lock, with a call of the
gateway for every watcher) and a goroutine for the world channel (`Join`,
`Leave`). `Subscribe` is the request to watch other users.

**`Messaging`** follows one message from `runRead` to the last step of its
handler, while clients come, move and leave as `Registry` allows, which `Gateway`
implements. A handler reads the id of its client and the gateway looks that id up
in a second step, so the two may disagree. `Accept` is the ticket check and the
submission to the pool; `StartChat`, `Store`, `SendAnswer`, `Push`, `AckNotify`
and `StoreOffline` are the steps of `handleChatMessage`; `Publish`, `PassOn`,
`SubUserState`, `Ignore` and `Unhandled` are the other handlers and the end of the
chain. `EnqueueMessage` of the gateway only hands a copy to a pool (`Take`,
`SendAnswer`); a task of the pool puts it into the queue of the client later
(`Deliver`, `DeliverAnswer`), where a full queue drops it without an error. The
pools and the queues may be full at any time, every call of a store may fail, and
`StoreMessage` may return without an error although it saved nothing (`skipped`:
ids that are no numbers).

**`ImService`** is the service as its RPC clients see it: the map of channels with
one channel id and its successive incarnations, the members and info of each, and
the clients of the gateway with their secrets. A request is sent (`Call`), may
be lost or delayed and sent again (`Break`), and is answered (`Return`). A delayed
attempt goes on as one of `Late` and may still be handled after the caller has
its answer. `CreateChannel`, `RemoveChannel`, `OnChannel` (update, subscribe,
unsubscribe), `PublishNumber` and `PublishSend`, `PublishNotify`, `UpdateClient`
(set id, exit, secret) and `EnqueueMessage` are the handlers; `Push`, `Rest` and
`Drop` are a channel's consumer, which pushes messages and, once it has gone to
rest, drops them; `ConnectOrLeave` is the clients themselves. That transport errors are retried
`Option.Retries` times, errors of the service are not, and a panic of a handler is
answered with an error, is rpcx's and is modelled as the library documents it.

**`TimingWheel`** has the wheels (`slot`, `remain`), the goroutine `run` that moves
them and carries tasks from a wheel to the one below, `After` in its unlocked
steps (`ReadSlot`, `ReadRemain`, `StoreTask`), `Cancel`, and the goroutines that
run a task's function. Tasks do not affect each other, so one stands for all.

**`ConsistentHash`** has the ring (`nodes`, sorted by hash) and `nodeMap`; `Add`
and `Remove` change the ring entry by entry, and a `Get` reads an index and the
node behind it in two steps. The hash is an arbitrary function, collisions
included. **`Selector`** has both selectors of `pkg/rpc`: round robin, which is the
default, and the choice by target, then by tag, which panics in a call without
metadata. **`MCRouting`** instantiates the two; a behaviour
exercises one of them.

The `MC` modules extend a component and add symmetry sets and profiles; the
`.cfg` files give the constants their values.

## Runs

Runs that pass:

| Run | Properties | What happens in it |
|---|---|---|
| `gateway_registry` | `TypeOK`, `RunningIdIsKey`, `ManagerPresent`, `ClosedIsFinal`, `ImplementsRegistry` | two connections that log in repeatedly, kicks, exits, renames by RPC at any point |
| `gateway_login` | `ExitedHoldsNoUid`, `LoggedInHasCredentials`, `PresenceMatchesRegistry` | three connections compete for one user id |
| `seq_segments` | `TypeOK`, `ConsecutiveSeq` | three publishers across several segments, with store failures |
| `channel` | `RunningHasConsumer`, `OnceAndInOrder`, `QueuedCounts`, `QueueIsServed`, `CloseStopsConsumers` | two workers publish, unsubscribe and close, or one does everything else, against overlapping consumers and idle timeouts (safety and liveness) |
| `client_queue` | `EachInOnePlace`, `InOrderWhileRunning`, `SingleExitLosesLittle`, `ExitCloses` | a sender, `runWrite` and two exits that may overlap, also in a write, `CloseImmediately` either way, a connection that may break (safety and liveness) |
| `read_loop` | `NothingAfterError`, `GoroutinesEnd`, `SilentPeerExits` | peer, reader, heartbeat, exits and a panicking handler (safety and liveness) |
| `presence` | `WorldIsOnline`, `SubscriptionsAgree`, `EventsAreHandled` | two users and an anonymous id come, log in, are displaced and leave; events overlap, the pool fills up (safety and liveness) |
| `messaging` | `AnswersToSender`, `AckedIsAccountedFor`, `PresentGetsItOnce`, `Answered` | any message meets any registry of three connections, under two devices of the addressee and a temporary id, up to two changes on its way, full pools and full queues (safety and liveness) |
| `timing_wheel` | `NeitherLostNorTwice`, `FiresOnTime`, `CancelledIsSilent` | three wheels of three slots; a task of any delay is made, carried down, called and cancelled at any moment |
| `im_service` | `CopiesAreRetries`, `NumbersAccounted`, `AnswerTellsState`, `LeftIsSilent` | RPC calls whose requests and replies are lost, delayed and repeated, while channels are removed and made again or go to rest |
| `routing` | `RingMatchesMap`, `GetReturnsOwner`, `MovesOnlyItsKeys`, `RoutedAsAsked` | a ring of three nodes under every order of their hashes and some collisions, `Get`s overtaken by changes; the selectors under changing lists of servers, with and without metadata |

What they show, in short: a client is never reachable under an id it does not
carry; a message is neither delivered nor written twice, whichever goroutines
share its queue; flags and counters kept without a lock do not get stuck; a
timer fires at its tick whatever wheels it passes through; an RPC answer describes
the service in spite of retries. Where that fails is in the conditions below.

One run contradicts what the repository says:

| Run | Property | What TLC finds |
|---|---|---|
| `seq_reload` | `UniqueSeq` | one publisher loads a segment; another takes a number between its store of `seq` and its step back, and the number is given out again |

The conditions in the other properties say where the code promises no more. A
history variable notes the event that ends the promise:

- `ConsecutiveSeq` ends when a call of `nextSeq` overlaps with a load (`raced`).
- `QueuedCounts` and `QueueIsServed` end when a consumer comes to `REST`
  (`rested`): it then overwrites the counter, may drop what is published, and may
  leave a message in the queue that arrives before it clears the flag.
- The order in `OnceAndInOrder` is that of one worker: two publishers may number
  their messages in one order and queue them in the other. And it is the order in
  which messages are handed to the gateway, whose pool may change it.
- `SingleExitLosesLittle` and `ExitCloses` end when two `Exit`s overlap: both close
  the queue and the second panics (`client_impl.go`, line 309). A single `Exit` may
  lose the message `runWrite` holds when the goroutine of `Exit` finds the queue
  empty and closes the connection, and one of every sender that was late. When that
  goroutine and `runWrite` meet in a write (`overlap`), even a single `Exit` may
  end the process: this is the only way it can.
- `SilentPeerExits` ends when a tick of the heartbeat timer finds `runRead` busy
  (`hbC = "missed"`): the tick is dropped and only a message arms the timer again.
- `GoroutinesEnd` excludes a reader blocked on its full buffer, which never looks
  at the stop signal.
- `WorldIsOnline` ends when an event of a user is raised before the one before it
  has been dealt with, the join after a second included, or when one is lost
  (`calm`): a user that leaves within that second joins after having left.
- `SubscriptionsAgree` is one direction only: a user that goes offline stays among
  the watchers of others, because `onUserOffline` deletes another key than that of
  the user, and returns early when nobody watches it.
- `EventsAreHandled` ends when the pool refuses an event (`stuck`): the reply about
  the error asks for the lock of the gateway that its own goroutine holds.
- `AnswersToSender` and `Answered` end when the sender moves: an answer can then go
  to another connection or to none. `PresentGetsItOnce` ends likewise for who moves
  from one device of the addressee to another.
- `PresentGetsItOnce` and `Answered` end when the pool of the gateway refuses a
  task (`refused`) or the queue of the connection is full (`dropped`).
- `AckedIsAccountedFor` has two ways in which an acknowledged message reaches no
  queue. The offline store may fail: the acknowledgement is sent before it, and the
  database store does not implement it. And every connection the pool took the
  message for may drop it at a full queue, or move or close before the task runs:
  it then counts as delivered, and the offline store is not asked.
- Three properties of the gateway (those of `gateway_login`) hold in full for
  `SingleLogin` only: with repeated logins or renames by RPC a stale `oldID` can
  name another connection. And they are about user ids: a client displaced between
  the two halves of its `Exit` stays in the map under its temporary id.
- `FiresOnTime` is exact when no tick overlaps with `After`; before the first tick
  of the wheel there is one more. An overlapping tick makes the task late by up to
  a turn of the lowest wheel or early by up to a slot of the highest, or drops it.
  A delay of `Span` or more may be dropped silently, because `maxTimeout` takes
  wheels and slots the wrong way round and so lets it pass.
- `NeitherLostNorTwice` allows a second run of the function when the goroutine of
  the first is not over by the next round (`clean.prompt`). `CancelledIsSilent`
  excludes a `Cancel` while `run` carries the task down, which puts it back.
- `AnswerTellsState` is about calls with no other call under way. An update by RPC
  that carries no secret clears it, and one for a guest (no credentials) panics
  and is answered with an error.
- `NumbersAccounted` counts a failed Publish whether or not its caller heard of it:
  the reply may be lost, or the attempt be a late one. In a channel whose consumer
  has gone to rest (`resting`), which is for good as nobody closes the channel, a
  message whose Publish was answered without an error may be dropped.
- `LeftIsSilent` excludes a removed channel, which nobody closes: it goes on
  pushing what it has queued to those who were its members.
- `GetReturnsOwner`: the index of a `Get` that a `Remove` overtook may be out of
  range, and one that an `Add` overtook may answer another node than the owner.
  The ring is not closed: keys behind the last hash go to the last node.
- `MovesOnlyItsKeys` is about distinct hashes: `Remove` finds entries by hash and
  may take that of another node.
- `RoutedAsAsked` lets a target or tag reach a server that is gone, if an earlier
  list had it: `services` never shrinks. Without metadata the selector that reads it
  panics in the type assertion of its first line; none of the clients here passes
  any, and none uses that selector.

### Bounds

- `TempID` bounds the connections and the kicks together: each uses one. Four are
  enough for two connections with two kicks, or three connections with one.
- `Relogin` and `RpcRename` switch on repeated logins and renames by RPC.
- `MaxCalls = 8` uses up two segments of three and begins a third.
- `Cap` is 2 for the channel and 3 for the client (100 in the code), so that full
  queues are reached with few messages; `MaxMsg` is above `Cap`. Two consumers are
  what two workers can start before one rests; one that has stopped is used again.
  The channel is used in one of three ways: two workers publish, unsubscribe and
  close; one notifies, subscribes and unsubscribes; one publishes and updates.
- `Buf` is the code's 5; `MaxRead = 8` fills it. `Limit = 2` is the number of lost
  heartbeats (3 in the code).
- `Slot` bounds the events in flight to two and `PoolCap` is as large, so both
  overlapping events and a full pool occur. `MaxOps = 5` is enough for a login, an
  exit, a second login and a displacement. `Watch` lets each of two users
  watch the other, and one of them itself.
- One sender is enough for the client's queue, as it may be late by one message
  like every other; four messages fill the queue of three with one in a hand.
- `Devices` has two of the four devices the code tries. `MaxMoves = 2` changes of
  the registry meet a message in any of its steps; the registry it starts in is
  arbitrary, so more of them happen before it.
- Three wheels are the code's number; three slots (20 in the code) give each wheel
  a past, a current and a next slot. `After` is over before a second tick begins,
  `MaxLate` ends the count of ticks past the due one, and `Runner` bounds the
  goroutines of a called task to two.
- `MaxInc = 2` incarnations of the channel, so that what a removed one leaves meets
  its successor; one retry and one late attempt, so that a request is handled up to
  twice, once after the answer. Five profiles (`MCServices`) combine the operations
  that touch the same state; in two of them consumers go to rest.
- Three nodes with one virtual node each are six entries, in every order of their
  hashes and with keys before, between, on and behind them; three servers and a tag.
- Deadlock is checked in `routing`. Elsewhere, with the bounds used up, and in the
  code with every connection closed, the system stops.

### Fairness

Weak fairness of every goroutine that has begun an operation: the Go scheduler
runs what can run, and its mutexes do not starve a waiter. Nothing is assumed of
peers, callers, the store or the idle timer of a channel. `ClientRead` and
`UserClient` add strong fairness of the branch of `runRead` and of `runWrite` that
hears of the end, because Go's select chooses at random among the ready cases;
`ClientRead` also has weak fairness of the heartbeat: an armed timer fires for a
`runRead` that waits. In `Presence` it includes the delayed join, whose timer
fires; in `Messaging` it is that of the one message and of the tasks of the
gateway's pool. The other specifications
state safety only and have no fairness.

## Proofs

All proofs hold for any value of the constants allowed by the named assumption of
the module. In each the property is not inductive; the module defines the
invariant that is (`IInv`), proves with one case per action that every step keeps
it, and derives the properties. The runs above check the properties on small
instances.

**`GatewayProofs`**, from `GatewayConstants` (the kinds of ids are disjoint and
"no id", "no client" are neither) for any sets of connections and ids, with
`Relogin` and `RpcRename` either way. Whether a rename preserves `RunningIdIsKey`
depends on the other keys, on the info of closed clients and on what is in flight.
The inductive invariant `IInv` adds that a temporary id
not handed out is nobody's key or info (`FreshInv`), that info and key agree for
clients not in their exit (`InfoInv`, `KeyInv`), that a client has one key at
most (`OneKeyInv`), where a connection must be before it is registered or
running (`ConnInv`), what each step of an exit may assume of the state and the
manager (`ExitInv`), and that a login has its credentials and its wanted id
(`AuthInv`). From it follow `TypeCorrect`,
`RunningIdIsKeyHolds`, `ManagerPresentHolds`, `ClosedIsFinalHolds` and
`Refinement`: the key of a client, as the mapping defines it, is the abstract
registry's id, and every step maps to an abstract step or a stutter.

**`LoginProofs`** goes on from there to the three properties of `gateway_login`.
`LoginInv` adds to `IInv` that every registered id was announced
(`AnnouncedInv`), and under `SingleLogin`: a login that is under way has
credentials but no user id, and the id it has read is a temporary one that nobody
else can get (`PendingInv`); the id for a displaced client is that of its kick
alone (`KickInv`); an exit that has called the manager has given the user id up
(`LeaveInv`); who holds a user id or was told of a login has credentials
(`CredInv`); an announced user id is registered (`OnlineInv`).

**`ChannelSeqProofs`**, from `SeqConstants` (finitely many callers, natural
numbers) for any store: `TypeCorrect` and `Consecutive`. Without a race a caller
that loads is alone, and the first number of the segment it loads is the one due;
otherwise what remains of the segment and the numbers reserved but not taken
(the cardinality of `Takers`) reach exactly to the next segment (`SegmentInv`).
In a lasting segment nobody loads, as what remains is the length less the calls
begun (`SharedInv`).

**`ChannelSteps`** and **`ChannelProofs`**, from `ChannelConstants` (finitely many
workers and consumers) for any subscribers, capacity, messages and uses:
`RunningHasConsumerHolds`, `OnceAndInOrderHolds` and `QueuedCountsHolds`. The
central idea is that the ids of messages, read along the way from the subscribers
(`GotInv`) over the hands of the consumers (`HandInv`) and the queue (`QueueInv`) to
what workers have not sent yet (`UnsentInv`), are distinct, and for a single
worker increase. That the order survives the overlap of consumers rests on
`SingleInv`: a single worker has at most one consumer, none without
`queueRunning`, and is about to start one only without it. `QueuedCounts` relates
the counter to cardinalities of sets of goroutines between two steps, so each
action has a lemma on how they change. `ChannelSteps` has the definitions and
one lemma per shape of step (`Fresh`, `Shrinks` and `Sends` for workers, `Takes`,
`Pushes` and `Drops` for consumers); `ChannelProofs` has the case for every action.

**`ClientReadProofs`**: `NothingAfterErrorHolds` for any capacity, reads and limit.
A closed buffer, or an error in it, means that the reader has ended, and the error
is last (`BufferInv`); until an exit begins, no more heartbeats than the limit are
lost (`CountInv`, which the type of the count needs).

**`PresenceProofs`**: `WorldIsOnlineHolds` and `SubscriptionsAgreeHolds` for any
users, slots and pool. The events to be handed on are of different ids and tell
what the map has (`RaiseInv`); the task and the goroutine of an event are at
matching places (`SlotInv`); and while no events of a user overlap, it has one in
flight at most, the world channel agrees with the one whose goroutine has ended,
and with the map when there is none (`WorldInv`).

**`MessagingProofs`**: `AnswersToSenderHolds`, `AckedIsAccountedForHolds` and
`PresentGetsItOnceHolds` for any connections, any list of distinct devices (the
code's four are) and any number of registry changes. No two connections share an
id (`Unique`); what must have happened at each step of the handler (`StageInv`,
`AnswerInv`, `AckInv`, `IdleInv`); in the loop over the devices, the pool has taken
the message for who stays if and only if its device is among those already tried
(`LoopInv`, `OnceInv`); and a copy the pool has taken is still to come, in the
queue, or lost at a full queue or with a client that closed (`CopiesInv`), so that
what the pool took and what arrived can be compared when all is settled.

### Only model-checked

- What needs fairness or `ENABLED`, out of the prover's reach: `QueueIsServed`,
  `CloseStopsConsumers`, `ExitCloses`, `GoroutinesEnd`, `SilentPeerExits`,
  `EventsAreHandled`, `Answered`.
- `ConsistentHash`: what the binary search finds is an induction over data.
- `TimingWheel`, `ImService`, `Selector` and `UserClient`: their properties are
  checked on the instances above only.

## Not modelled

- How an id is put together from its three parts (`gate/client.go`): ids are members
  of a set. Ciphers and the contents of tickets and secrets.
- Two writers of one `ConsistentHash` at a time: its `nodeMap` is a Go map without a
  lock, so concurrent writers are a data race that may end the program; nothing in
  the repository makes two.
- Connections, websocket and TCP, encodings, the network and the discovery of
  servers under `pkg/rpc`: input and output. A connection
  is up, down or closed, a request arrives, late or not at all.
- The order in which the gateway's pool runs its tasks, and with it the order in which
  one client gets the messages of several handlers.
- The queries of the stores; their outcomes are choices in the modules that call
  them.
- The closing of a channel in `ImService`, which no RPC does; it is in `Channel`.
- The `recover` of a channel's consumer: what `push` calls hands messages to a pool
  and does not panic.
- Ids with a device in `Presence`: a user there is the id of a login, which `UID()`
  leaves as it is; only a rename by RPC gives out another.
- `offline_handler.go`, which nothing registers, and `ActionWithReplyHandler`, which
  nothing constructs
  (the selector behind `newSelector`, which nothing calls either, is in `Selector`).
- Configuration, logging, start-up, generated code and the examples: no state of
  their own after the start.
