--------------------------- MODULE PresenceProofs ---------------------------
(***************************************************************************)
(* Proofs about Presence: the world channel has exactly the users online   *)
(* once all their events are handled, and the two halves of a subscription *)
(* to the state of a user agree; for any users, slots and pools.           *)
(***************************************************************************)
EXTENDS Presence, TLAPS

\* The events the holder of Impl.mu has yet to hand on are of different ids,
\* and tell what the map now has.
RaiseInv ==
  /\ \A j, k \in 1..Len(raise) : raise[j].id = raise[k].id => j = k
  /\ \A k \in 1..Len(raise) : raise[k].up <=> raise[k].id \in online

\* Where the task and the goroutine of an event can be.
SlotInv ==
  \A s \in Slot :
    /\ event[s] = NoEvent <=> pc[s] = "free"
    /\ pc[s] = "free" => at[s] = "done"
    /\ pc[s] = "notify" => event[s].id \in Uid
    /\ pc[s] = "done" => at[s] \in {"join", "leave"}
    /\ at[s] # "done" => event[s].id \in Uid
    /\ at[s] \in {"idle", "join"} => event[s].up
    /\ at[s] = "leave" => ~event[s].up

Raised(u) == \E k \in 1..Len(raise) : raise[k].id = u
Handled(u, s) == Active(s) /\ event[s].id = u

\* As long as the events of a user do not overlap, it has at most one in flight.
\* The world channel agrees with an event whose goroutine has ended, the last
\* event with the map, and the world channel with the map when there is none.
WorldInv ==
  calm =>
    /\ ~stuck
    /\ \A s, t \in Slot : Active(s) /\ Handled(event[s].id, t) => s = t
    /\ \A u \in Uid, s \in Slot :
         Handled(u, s) => /\ at[s] = "done" => (u \in world <=> event[s].up)
                          /\ ~Raised(u) => (event[s].up <=> u \in online)
    /\ \A u \in Uid :
         ~Raised(u) /\ (\A s \in Slot : ~Handled(u, s)) => (u \in world <=> u \in online)

IInv == TypeOK /\ RaiseInv /\ SlotInv /\ WorldInv /\ SubscriptionsAgree

-----------------------------------------------------------------------------
\* In the initial state nothing is online, raised or subscribed.
LEMMA InitHolds == Init => IInv
<1> SUFFICES ASSUME Init PROVE IInv
  OBVIOUS
<1> USE PresenceConstants DEF Init
<1>1. TypeOK
  <2>1. raise \in Seq(Event) /\ Len(raise) <= 2
    OBVIOUS
  <2>2. stuck \in BOOLEAN /\ calm \in BOOLEAN
    OBVIOUS
  <2> QED
    BY <2>1, <2>2 DEF TypeOK
<1>2. RaiseInv /\ SlotInv /\ SubscriptionsAgree
  BY DEF RaiseInv, SlotInv, SubscriptionsAgree
<1>3. WorldInv
  BY DEF WorldInv, Handled, Active, Raised
<1> QED
  BY <1>1, <1>2, <1>3 DEF IInv

\* Every operation on the gateway raises one or two events, which are well
\* typed, of different ids, and tell what the map then has.
LEMMA TypeStep == IInv /\ [Next]_vars => TypeOK'
<1> SUFFICES ASSUME IInv, [Next]_vars PROVE TypeOK'
  OBVIOUS
<1> USE PresenceConstants DEF IInv, TypeOK
<1>1. ASSUME NEW i \in Id, AddClient(i) PROVE TypeOK'
  BY <1>1 DEF AddClient, Count, rest, On, Event, Id
<1>2. ASSUME NEW i \in Id, ExitClient(i) PROVE TypeOK'
  BY <1>2 DEF ExitClient, Count, rest, Off, Event, Id
<1>3. ASSUME NEW old \in Id, NEW new \in Id, SetClientID(old, new) PROVE TypeOK'
  BY <1>3 DEF SetClientID, Count, rest, On, Off, Event, Id
<1>4. CASE Refuse
  <2>1. raise' \in Seq(Event) /\ Len(raise') <= 2
    <3>1. raise # <<>> /\ (raise' = raise \/ raise' = Tail(raise))
      BY <1>4 DEF Refuse
    <3> QED
      BY <3>1
  <2>2. stuck' \in BOOLEAN /\ calm' \in BOOLEAN
    BY <1>4 DEF Refuse
  <2> QED
    BY <1>4, <2>1, <2>2 DEF Refuse, stateVars
<1>5. ASSUME NEW s \in Slot, Submit(s) PROVE TypeOK'
  <2>1. Head(raise) \in Event /\ Tail(raise) \in Seq(Event) /\ Len(Tail(raise)) <= 2
    BY <1>5 DEF Submit
  <2>2. WorldStart(Head(raise)) \in {"idle", "leave", "done"}
    BY DEF WorldStart
  <2>3. calm' \in BOOLEAN
    BY <1>5 DEF Submit
  <2> QED
    BY <1>5, <2>1, <2>2, <2>3 DEF Submit, stateVars
<1>6. ASSUME NEW s \in Slot, HandleUnwatched(s) PROVE TypeOK'
  BY <1>6 DEF HandleUnwatched, EndTask, gatewayVars, stateVars
<1>7. ASSUME NEW s \in Slot, Lock(s) PROVE TypeOK'
  BY <1>7 DEF Lock, Watchers, gatewayVars
<1>8. ASSUME NEW s \in Slot, NEW w \in Uid, Notify(s, w) PROVE TypeOK'
  <2>1. /\ event' \in [Slot -> Event \cup {NoEvent}]
        /\ pc' \in [Slot -> {"free", "queued", "notify", "done"}]
        /\ at' \in [Slot -> {"idle", "join", "leave", "done"}]
        /\ todo' \in [Slot -> SUBSET Uid]
        /\ mu' \in Slot \cup {Nobody}
    BY <1>8 DEF Notify, EndTask, stateVars
  <2>2. subscribers' \in [Uid -> SUBSET Uid] /\ mySubs' \in [Uid -> SUBSET Uid]
    BY <1>8 DEF Notify, Cleanup, stateVars
  <2> QED
    BY <1>8, <2>1, <2>2 DEF Notify, gatewayVars
<1>9. ASSUME NEW s \in Slot, Join(s) PROVE TypeOK'
  BY <1>9 DEF Join, EndWorld, SlotInv, gatewayVars, stateVars
<1>10. ASSUME NEW s \in Slot, Leave(s) PROVE TypeOK'
  BY <1>10 DEF Leave, EndWorld, gatewayVars, stateVars
<1>11. ASSUME NEW me \in Uid, NEW uids \in SUBSET Uid, Subscribe(me, uids) PROVE TypeOK'
  BY <1>11 DEF Subscribe, gatewayVars
<1>12. CASE UNCHANGED vars
  BY <1>12 DEF vars
<1> QED
  BY <1>1, <1>2, <1>3, <1>4, <1>5, <1>6, <1>7, <1>8, <1>9, <1>10, <1>11, <1>12
     DEF Next, Raise, Begin, Tell, World

\* The events still to be handed on keep telling what the map has: the map
\* changes only when there are none.
LEMMA RaiseStep == IInv /\ [Next]_vars => RaiseInv'
<1> SUFFICES ASSUME IInv, [Next]_vars PROVE RaiseInv'
  OBVIOUS
<1> USE PresenceConstants DEF IInv, TypeOK, RaiseInv
<1>1. ASSUME NEW i \in Id, AddClient(i) PROVE RaiseInv'
  BY <1>1 DEF AddClient, On
<1>2. ASSUME NEW i \in Id, ExitClient(i) PROVE RaiseInv'
  BY <1>2 DEF ExitClient, Off
<1>3. ASSUME NEW old \in Id, NEW new \in Id, SetClientID(old, new) PROVE RaiseInv'
  BY <1>3 DEF SetClientID, On, Off
<1>4. ASSUME raise # <<>>, raise' = Tail(raise), online' = online PROVE RaiseInv'
  <2>1. Len(raise') = Len(raise) - 1 /\ \A k \in 1..Len(raise') : raise'[k] = raise[k + 1]
    BY <1>4
  <2> QED
    BY <1>4, <2>1
<1>5. CASE UNCHANGED <<raise, online>>
  BY <1>5
<1>6. CASE Raise
  BY <1>4, <1>5, <1>6 DEF Raise, Refuse, Submit
<1>7. ASSUME NEW s \in Slot, Begin(s) \/ Tell(s) \/ World(s) PROVE RaiseInv'
  BY <1>5, <1>7 DEF Begin, Tell, World, HandleUnwatched, Lock, Notify, Join, Leave, gatewayVars
<1>8. ASSUME NEW me \in Uid, NEW uids \in SUBSET Uid, Subscribe(me, uids) PROVE RaiseInv'
  BY <1>5, <1>8 DEF Subscribe, gatewayVars
<1> QED
  BY <1>1, <1>2, <1>3, <1>5, <1>6, <1>7, <1>8 DEF Next, vars

\* The task and the goroutine of an event go through their steps in order.
LEMMA SlotStep == IInv /\ [Next]_vars => SlotInv'
<1> SUFFICES ASSUME IInv, [Next]_vars PROVE SlotInv'
  OBVIOUS
<1> USE PresenceConstants DEF IInv, TypeOK, SlotInv
<1>1. CASE UNCHANGED <<event, pc, at>>
  BY <1>1
<1>2. ASSUME NEW i \in Id, AddClient(i) \/ ExitClient(i) PROVE SlotInv'
  BY <1>1, <1>2 DEF AddClient, ExitClient, rest
<1>3. ASSUME NEW old \in Id, NEW new \in Id, SetClientID(old, new) PROVE SlotInv'
  BY <1>1, <1>3 DEF SetClientID, rest
<1>4. CASE Refuse
  BY <1>1, <1>4 DEF Refuse
<1>5. ASSUME NEW s \in Slot, Submit(s) PROVE SlotInv'
  <2>1. Head(raise) \in Event /\ Head(raise) # NoEvent /\ Head(raise).id \in Id
    <3>1. Head(raise) \in Event
      BY <1>5 DEF Submit
    <3> QED
      BY <3>1 DEF Event, NoEvent
  <2>2. /\ WorldStart(Head(raise)) = "idle" => Head(raise).up /\ Head(raise).id \in Uid
        /\ WorldStart(Head(raise)) = "leave" => ~Head(raise).up /\ Head(raise).id \in Uid
        /\ WorldStart(Head(raise)) \in {"idle", "leave", "done"}
    BY <2>1 DEF WorldStart, Id
  <2>3. /\ event'[s] = Head(raise) /\ pc'[s] = "queued" /\ at'[s] = WorldStart(Head(raise))
        /\ \A t \in Slot \ {s} : event'[t] = event[t] /\ pc'[t] = pc[t] /\ at'[t] = at[t]
    BY <1>5 DEF Submit
  <2> QED
    BY <2>1, <2>2, <2>3
<1>6. ASSUME NEW s \in Slot, EndTask(s), pc[s] \in {"queued", "notify"} PROVE SlotInv'
  BY <1>6 DEF EndTask
<1>7. ASSUME NEW s \in Slot, HandleUnwatched(s) PROVE SlotInv'
  BY <1>6, <1>7 DEF HandleUnwatched
<1>8. ASSUME NEW s \in Slot, Lock(s) PROVE SlotInv'
  BY <1>8 DEF Lock, Watchers
<1>9. ASSUME NEW s \in Slot, NEW w \in Uid, Notify(s, w) PROVE SlotInv'
  BY <1>1, <1>6, <1>9 DEF Notify
<1>10. ASSUME NEW s \in Slot, EndWorld(s), at[s] # "done" PROVE SlotInv'
  BY <1>10 DEF EndWorld
<1>11. ASSUME NEW s \in Slot, World(s) PROVE SlotInv'
  BY <1>10, <1>11 DEF World, Join, Leave
<1>12. ASSUME NEW me \in Uid, NEW uids \in SUBSET Uid, Subscribe(me, uids) PROVE SlotInv'
  BY <1>1, <1>12 DEF Subscribe
<1> QED
  BY <1>1, <1>2, <1>3, <1>4, <1>5, <1>7, <1>8, <1>9, <1>11, <1>12
     DEF Next, Raise, Begin, Tell, vars

\* What a Subscribe adds to the list of a user it adds to the entries of those
\* on it, and what a clean-up takes from an entry is the user of the entry.
LEMMA SubscriptionsStep == IInv /\ [Next]_vars => SubscriptionsAgree'
<1> SUFFICES ASSUME IInv, [Next]_vars PROVE SubscriptionsAgree'
  OBVIOUS
<1> USE PresenceConstants DEF IInv, TypeOK, SubscriptionsAgree
<1>1. CASE UNCHANGED <<subscribers, mySubs>>
  BY <1>1
<1>2. ASSUME NEW i \in Id, AddClient(i) \/ ExitClient(i) PROVE SubscriptionsAgree'
  BY <1>1, <1>2 DEF AddClient, ExitClient, rest
<1>3. ASSUME NEW old \in Id, NEW new \in Id, SetClientID(old, new) PROVE SubscriptionsAgree'
  BY <1>1, <1>3 DEF SetClientID, rest
<1>4. CASE Raise
  BY <1>1, <1>4 DEF Raise, Refuse, Submit, stateVars
<1>5. ASSUME NEW s \in Slot, Begin(s) \/ World(s) PROVE SubscriptionsAgree'
  BY <1>1, <1>5 DEF Begin, World, HandleUnwatched, Lock, Join, Leave, stateVars
<1>6. ASSUME NEW s \in Slot, NEW w \in Uid, Notify(s, w) PROVE SubscriptionsAgree'
  <2>1. event[s].id \in Uid
    BY <1>6 DEF Notify, SlotInv
  <2>2. UNCHANGED <<subscribers, mySubs>> \/ Cleanup(event[s].id)
    BY <1>6 DEF Notify, stateVars
  <2> QED
    BY <1>1, <2>1, <2>2 DEF Cleanup
<1>7. ASSUME NEW me \in Uid, NEW uids \in SUBSET Uid, Subscribe(me, uids)
      PROVE  SubscriptionsAgree'
  BY <1>7 DEF Subscribe
<1> QED
  BY <1>1, <1>2, <1>3, <1>4, <1>5, <1>6, <1>7 DEF Next, Tell, vars

\* While the events of a user do not overlap, the map, the last event and the
\* world channel agree through every step of an event.
LEMMA WorldStep == IInv /\ [Next]_vars => WorldInv'
<1> SUFFICES ASSUME IInv, [Next]_vars, calm' PROVE WorldInv'
  BY DEF WorldInv
<1> USE PresenceConstants DEF IInv, TypeOK
<1>1. CASE UNCHANGED <<online, raise, stuck, event, pc, at, world, calm>>
  BY <1>1 DEF WorldInv, Handled, Raised, Active
<1>2. ASSUME NEW i \in Id, AddClient(i) PROVE WorldInv'
  <2>1. /\ ~Locked /\ i \in TempId /\ online' = online \cup {i} /\ raise' = <<On(i)>>
        /\ UNCHANGED <<stuck, event, pc, at, world, calm>>
    BY <1>2 DEF AddClient, rest
  <2> QED
    BY <2>1 DEF WorldInv, Handled, Raised, Active, Locked, On
<1>3. ASSUME NEW i \in Id, ExitClient(i) PROVE WorldInv'
  <2>1. /\ ~Locked /\ online' = online \ {i} /\ raise' = <<Off(i)>>
        /\ UNCHANGED <<stuck, event, pc, at, world, calm>>
    BY <1>3 DEF ExitClient, rest
  <2> QED
    BY <2>1 DEF WorldInv, Handled, Raised, Active, Locked, Off
<1>4. ASSUME NEW old \in Id, NEW new \in Id, SetClientID(old, new) PROVE WorldInv'
  <2>1. /\ ~Locked /\ online' = (online \ {old}) \cup {new} /\ raise' = <<Off(old), On(new)>>
        /\ UNCHANGED <<stuck, event, pc, at, world, calm>>
    BY <1>4 DEF SetClientID, rest
  <2>2. \A u \in Id : Raised(u)' <=> u \in {old, new}
    BY <2>1 DEF Raised, On, Off
  <2>3. ~stuck /\ \A u \in Uid : ~Raised(u)
    BY <2>1 DEF Locked, Raised
  <2> QED
    BY <2>1, <2>2, <2>3 DEF WorldInv, Handled, Active, Id
<1>5. ASSUME NEW s \in Slot, Submit(s) PROVE WorldInv'
  <2> DEFINE e == Head(raise)
  <2>1. /\ raise # <<>> /\ ~Active(s) /\ ~Overlaps(e) /\ calm
        /\ UNCHANGED <<online, stuck, world>>
    <3>1. calm' = (calm /\ ~Overlaps(e))
      BY <1>5 DEF Submit
    <3>2. calm /\ ~Overlaps(e)
      BY <3>1
    <3> QED
      BY <1>5, <3>2 DEF Submit, NextFree
  <2>2. e \in Event /\ e.id \in Id /\ e = raise[1]
    <3>1. e \in Event /\ e = raise[1]
      BY <2>1
    <3> QED
      BY <3>1 DEF Event
  <2>3. e.up <=> e.id \in online
    BY <2>1, <2>2 DEF RaiseInv
  <2>4. /\ event'[s] = e /\ pc'[s] = "queued" /\ at'[s] = WorldStart(e)
        /\ \A t \in Slot \ {s} : event'[t] = event[t] /\ pc'[t] = pc[t] /\ at'[t] = at[t]
    BY <1>5 DEF Submit
  <2>5. e.id \in Uid => at'[s] # "done"
    BY <2>2, <2>4 DEF WorldStart
  <2>6. \A u \in Uid : Raised(u)' <=> Raised(u) /\ u # e.id
    <3>1. raise' = Tail(raise)
      BY <1>5 DEF Submit
    <3>2. Len(raise') = Len(raise) - 1 /\ \A k \in 1..Len(raise') : raise'[k] = raise[k + 1]
      BY <2>1, <3>1
    <3>3. \A k \in 2..Len(raise) : raise[k].id # e.id
      BY <2>1, <2>2 DEF RaiseInv
    <3>4. \A k \in 2..Len(raise) : k - 1 \in 1..Len(raise') /\ raise'[k - 1] = raise[k]
      BY <3>2
    <3>5. \A k \in 1..Len(raise') : k + 1 \in 2..Len(raise) /\ raise'[k] = raise[k + 1]
      BY <3>2
    <3>6. \A k \in 1..Len(raise) : k = 1 \/ k \in 2..Len(raise)
      OBVIOUS
    <3> QED
      BY <2>2, <3>3, <3>4, <3>5, <3>6 DEF Raised
  <2>7. \A u \in Uid : Handled(u, s)' <=> u = e.id
    BY <2>4 DEF Handled, Active
  <2>8. \A t \in Slot \ {s} : /\ Active(t)' <=> Active(t)
                              /\ \A u \in Id : Handled(u, t)' <=> Handled(u, t)
                              /\ ~Handled(e.id, t)
    BY <2>1, <2>4 DEF Handled, Active, Overlaps
  <2>9. \A r, t \in Slot : Active(r)' /\ Handled(event[r].id, t)' => r = t
    BY <2>1, <2>4, <2>8 DEF Handled, Active, WorldInv, Overlaps
  <2>10. \A u \in Uid, t \in Slot :
           Handled(u, t)' => /\ at'[t] = "done" => (u \in world' <=> event'[t].up)
                             /\ ~Raised(u)' => (event'[t].up <=> u \in online')
    <3>1. ASSUME NEW u \in Uid, Handled(u, s)'
          PROVE  at'[s] # "done" /\ (event'[s].up <=> u \in online')
      BY <2>1, <2>3, <2>4, <2>5, <2>7, <3>1
    <3>2. ASSUME NEW u \in Uid, NEW t \in Slot \ {s}, Handled(u, t)'
          PROVE  Handled(u, t) /\ u # e.id
      BY <2>8, <3>2 DEF Id
    <3> QED
      BY <2>1, <2>4, <2>6, <3>1, <3>2 DEF WorldInv
  <2>11. \A u \in Uid : ~Raised(u)' /\ (\A t \in Slot : ~Handled(u, t)')
                          => (u \in world' <=> u \in online')
    BY <2>1, <2>6, <2>7, <2>8 DEF WorldInv, Handled, Active, Id
  <2> QED
    BY <2>1, <2>4, <2>8, <2>9, <2>10, <2>11 DEF WorldInv, Handled, Active
<1>6. ASSUME NEW s \in Slot, EndTask(s), pc[s] \in {"queued", "notify"},
             UNCHANGED <<online, raise, stuck, world, calm>>
      PROVE  WorldInv'
  <2>1. /\ pc'[s] = (IF at[s] = "done" THEN "free" ELSE "done")
        /\ event'[s] = (IF at[s] = "done" THEN NoEvent ELSE event[s])
        /\ at'[s] = "done" <=> at[s] = "done"
        /\ \A t \in Slot \ {s} : event'[t] = event[t] /\ pc'[t] = pc[t] /\ at'[t] = at[t]
    BY <1>6 DEF EndTask
  <2>2. Active(s) /\ calm /\ \A u \in Uid : Raised(u)' <=> Raised(u)
    BY <1>6 DEF Active, Raised
  <2>3. /\ \A t \in Slot, i \in Id : Handled(i, t)' => Handled(i, t) /\ event'[t] = event[t]
        /\ \A t \in Slot : Active(t)' => Active(t) /\ event'[t] = event[t] /\ event[t].id \in Id
    BY <2>1, <2>2 DEF Handled, Active, SlotInv, Event
  <2>4. \A r, t \in Slot : Active(r)' /\ Handled(event[r].id, t)' => r = t
    BY <2>2, <2>3 DEF WorldInv, Handled, Active
  <2>5. \A u \in Uid, t \in Slot :
          Handled(u, t)' => /\ at'[t] = "done" => (u \in world' <=> event'[t].up)
                            /\ ~Raised(u)' => (event'[t].up <=> u \in online')
    BY <1>6, <2>1, <2>2, <2>3 DEF WorldInv, Id
  <2>6. \A u \in Uid : ~Raised(u)' /\ (\A t \in Slot : ~Handled(u, t)')
                         => (u \in world' <=> u \in online')
    <3> SUFFICES ASSUME NEW u \in Uid, ~Raised(u), \A t \in Slot : ~Handled(u, t)'
                 PROVE  u \in world <=> u \in online
      BY <1>6, <2>2
    <3>1. CASE Handled(u, s)
      <4>1. at[s] = "done"
        BY <2>1, <3>1 DEF Handled, Active
      <4> QED
        BY <2>2, <3>1, <4>1 DEF WorldInv
    <3>2. CASE ~Handled(u, s)
      <4>1. \A t \in Slot : ~Handled(u, t)
        BY <2>1, <3>2 DEF Handled, Active
      <4> QED
        BY <2>2, <4>1 DEF WorldInv
    <3> QED
      BY <3>1, <3>2
  <2> QED
    BY <1>6, <2>1, <2>2, <2>3, <2>4, <2>5, <2>6 DEF WorldInv
<1>7. ASSUME NEW s \in Slot, HandleUnwatched(s) PROVE WorldInv'
  BY <1>6, <1>7 DEF HandleUnwatched, gatewayVars
<1>8. ASSUME NEW s \in Slot, Lock(s) PROVE WorldInv'
  <2>1. /\ \A t \in Slot : Active(t)' <=> Active(t)
        /\ UNCHANGED <<online, raise, stuck, event, at, world, calm>>
    BY <1>8 DEF Lock, gatewayVars, Active
  <2> QED
    BY <2>1 DEF WorldInv, Handled, Raised
<1>9. ASSUME NEW s \in Slot, NEW w \in Uid, Notify(s, w) PROVE WorldInv'
  BY <1>1, <1>6, <1>9 DEF Notify, gatewayVars
<1>10. ASSUME NEW s \in Slot, World(s) PROVE WorldInv'
  <2>1. /\ calm /\ at[s] \in {"join", "leave"} /\ EndWorld(s)
        /\ UNCHANGED <<online, raise, stuck>>
        /\ event[s].up <=> event[s].id \in world'
        /\ \A u \in Uid : u # event[s].id => (u \in world' <=> u \in world)
    BY <1>10 DEF World, Join, Leave, SlotInv, gatewayVars
  <2>2. /\ pc'[s] = (IF pc[s] = "done" THEN "free" ELSE pc[s])
        /\ event'[s] = (IF pc[s] = "done" THEN NoEvent ELSE event[s])
        /\ at'[s] = "done"
        /\ \A t \in Slot \ {s} : event'[t] = event[t] /\ pc'[t] = pc[t] /\ at'[t] = at[t]
    BY <2>1 DEF EndWorld
  <2>3. Active(s) /\ event[s].id \in Uid /\ \A u \in Uid : Raised(u)' <=> Raised(u)
    BY <2>1 DEF SlotInv, Active, Raised
  <2>4. /\ \A t \in Slot, i \in Id : Handled(i, t)' => Handled(i, t) /\ event'[t] = event[t]
        /\ \A t \in Slot : Active(t)' => Active(t) /\ event'[t] = event[t] /\ event[t].id \in Id
    BY <2>2, <2>3 DEF Handled, Active, SlotInv, Event
  <2>5. \A r, t \in Slot : Active(r)' /\ Handled(event[r].id, t)' => r = t
    BY <2>1, <2>4 DEF WorldInv, Handled, Active
  <2>6. \A u \in Uid, t \in Slot : Handled(u, t) /\ t # s => u # event[s].id
    BY <2>1, <2>3 DEF WorldInv, Handled
  <2>7. \A u \in Uid, t \in Slot :
          Handled(u, t)' => /\ at'[t] = "done" => (u \in world' <=> event'[t].up)
                            /\ ~Raised(u)' => (event'[t].up <=> u \in online')
    <3>1. ASSUME NEW u \in Uid, Handled(u, s)'
          PROVE  /\ u \in world' <=> event'[s].up
                 /\ ~Raised(u)' => (event'[s].up <=> u \in online')
      <4>1. Handled(u, s) /\ event'[s] = event[s] /\ u = event[s].id
        BY <2>4, <3>1 DEF Id, Handled
      <4> QED
        BY <2>1, <2>3, <4>1 DEF WorldInv
    <3>2. ASSUME NEW u \in Uid, NEW t \in Slot \ {s}, Handled(u, t)'
          PROVE  /\ at'[t] = "done" => (u \in world' <=> event'[t].up)
                 /\ ~Raised(u)' => (event'[t].up <=> u \in online')
      <4>1. Handled(u, t) /\ event'[t] = event[t] /\ u # event[s].id
        BY <2>4, <2>6, <3>2 DEF Id
      <4> QED
        BY <2>1, <2>2, <2>3, <4>1 DEF WorldInv
    <3> QED
      BY <3>1, <3>2
  <2>8. \A u \in Uid : ~Raised(u)' /\ (\A t \in Slot : ~Handled(u, t)')
                         => (u \in world' <=> u \in online')
    <3> SUFFICES ASSUME NEW u \in Uid, ~Raised(u), \A t \in Slot : ~Handled(u, t)'
                 PROVE  u \in world' <=> u \in online
      BY <2>1, <2>3
    <3>1. CASE u = event[s].id
      BY <2>1, <2>3, <3>1 DEF WorldInv, Handled
    <3>2. CASE u # event[s].id
      <4>1. \A t \in Slot : ~Handled(u, t)
        BY <2>2, <3>2 DEF Handled, Active
      <4> QED
        BY <2>1, <3>2, <4>1 DEF WorldInv
    <3> QED
      BY <3>1, <3>2
  <2> QED
    BY <2>1, <2>4, <2>5, <2>6, <2>7, <2>8 DEF WorldInv
<1>11. ASSUME NEW me \in Uid, NEW uids \in SUBSET Uid, Subscribe(me, uids) PROVE WorldInv'
  BY <1>1, <1>11 DEF Subscribe, gatewayVars
<1>12. ~Refuse
  BY DEF Refuse
<1> QED
  BY <1>1, <1>2, <1>3, <1>4, <1>5, <1>7, <1>8, <1>9, <1>10, <1>11, <1>12
     DEF Next, Raise, Begin, Tell, vars
-----------------------------------------------------------------------------
\* The inductive invariant holds in every reachable state.
THEOREM Invariance == Spec => []IInv
<1>1. Init => IInv
  BY InitHolds
<1>2. IInv /\ [Next]_vars => IInv'
  BY TypeStep, RaiseStep, SlotStep, WorldStep, SubscriptionsStep DEF IInv
<1> QED
  BY <1>1, <1>2, PTL DEF Spec

\* When all events are handled, and the events of no user overlapped, the world
\* channel (world_channel.go) has exactly the users that are online.
THEOREM WorldIsOnlineHolds == Spec => []WorldIsOnline
<1>1. IInv => WorldIsOnline
  BY DEF IInv, WorldInv, WorldIsOnline, Rest, Locked, Raised, Handled, TypeOK
<1> QED
  BY <1>1, Invariance, PTL

\* Who has a user on its list is among those told about that user
\* (subUserStateApi, onUserOffline).
THEOREM SubscriptionsAgreeHolds == Spec => []SubscriptionsAgree
<1>1. IInv => SubscriptionsAgree
  BY DEF IInv
<1> QED
  BY <1>1, Invariance, PTL
=============================================================================
