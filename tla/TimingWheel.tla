---------------------------- MODULE TimingWheel -----------------------------
(***************************************************************************)
(* The timing wheel (pkg/timingwheel/timingwheel.go): the goroutine run,   *)
(* which moves a hierarchy of wheels by one slot per tick and carries      *)
(* tasks from the slots of a wheel down to the wheel below it, and a task  *)
(* that is put into it by After and may be cancelled.                      *)
(*                                                                         *)
(* Wheels are numbered from the lowest, 1, whose slots last one tick.      *)
(* After takes no lock, and neither does Cancel but for the slot it        *)
(* deletes from, so every access they share with run is a step.  The tasks *)
(* in a wheel do not affect one another: one task that may be made at any  *)
(* moment stands for all.                                                  *)
(***************************************************************************)
EXTENDS Integers, FiniteSets

CONSTANTS
  Wheels,   \* number of wheels (3 in the callers)
  Slots,    \* slots per wheel (20 in the callers)
  Runner    \* goroutines started by Task.call alive at once (a bound)

ASSUME WheelConstants ==
  /\ Wheels \in Nat \ {0, 1}
  /\ Slots \in Nat \ {0, 1}
  /\ Runner \subseteq Nat \ {0}

Level == 1..Wheels
Index == 0..Slots - 1
Place == Level \X Index

\* wheel.slotCap: the ticks a slot of a wheel lasts.
slotCap(l) == Slots ^ (l - 1)

\* Offsets below it find a slot in the top wheel, be s increased or not.
Span == (Slots - 1) * slotCap(Wheels)

VARIABLES
  slot,      \* wheel.slot: the index of its current slot
  remain,    \* wheel.remain: ticks until it has turned, 0 at first
  move,      \* run: where it is, at which wheel
  held,      \* run: the task is in the array of tasks it goes through
  values,    \* the slots that have the task in their values
  ptr,       \* Task.s
  offset,    \* Task.offset
  put2,      \* After: where it is, at which wheel, the slot read, slots to go
  cancel,    \* Task.Cancel by the user and by the goroutines of call
  left,      \* history: ticks until the task is due, 0 when it does not wait
  fits,      \* history: the offset asked for was below Span
  called,    \* history: the task was called
  runs,      \* history: how often its function has been run
  clean      \* history: what has not overlapped, see History

wheelVars == <<slot, remain, move, held>>
taskVars  == <<values, ptr, offset>>
histVars  == <<left, fits, called, runs>>
vars == <<wheelVars, taskVars, put2, cancel, histVars, clean>>

Nil == <<0, 0>>
User == 0
Canceller == Runner \cup {User}

\* The largest offset for which After does not panic: maxTimeout has wheels and
\* slots the wrong way round, and the offset is rounded.
MaxOffset == Wheels ^ Slots

\* The task is on its way into a slot or in one, and was not called yet.
Waits == ~called /\ (put2.at \in {"slot", "remain", "store", "call"} \/ values # {} \/ held)

\* Bound: no later than that is told apart.
MaxLate == 2 * Slots

\* Every variable has its type; remain never falls below what one tick leaves.
TypeOK ==
  /\ slot \in [Level -> Index]
  /\ remain \in [Level -> -1..Slots ^ Wheels]
  /\ move \in [at : {"idle", "sweep", "tick", "reset", "advance", "spread", "gone"}, wheel : Level]
  /\ held \in BOOLEAN
  /\ values \in SUBSET Place /\ ptr \in Place \cup {Nil}
  /\ offset \in 0..MaxOffset
  /\ put2 \in [at : {"new", "slot", "remain", "store", "call", "done"}, wheel : Level,
               sl : Index, s : 0..MaxOffset]
  /\ cancel \in [Canceller -> [at : {"idle", "load", "remove", "clear", "run", "end"},
                               s : Place \cup {Nil}]]
  /\ left \in -MaxLate..MaxOffset /\ fits \in BOOLEAN
  /\ called \in BOOLEAN /\ runs \in 0..2
  /\ clean \in [first : BOOLEAN, after : BOOLEAN, cancel : BOOLEAN, prompt : BOOLEAN]

NotPutting(at) == [at |-> at, wheel |-> Wheels, sl |-> 0, s |-> 0]

\* NewTimingWheel and newWheel: newSlot returns the last slot, and only the
\* top wheel has its remain set.
Init ==
  /\ slot = [l \in Level |-> Slots - 1]
  /\ remain = [l \in Level |-> IF l = Wheels THEN Slots ^ Wheels ELSE 0]
  /\ move = [at |-> "idle", wheel |-> Wheels] /\ held = FALSE
  /\ values = {} /\ ptr = Nil /\ offset = 0
  /\ put2 = NotPutting("new")
  /\ cancel = [k \in Canceller |-> [at |-> "idle", s |-> Nil]]
  /\ left = 0 /\ fits = TRUE /\ called = FALSE /\ runs = 0
  /\ clean = [first |-> FALSE, after |-> TRUE, cancel |-> TRUE, prompt |-> TRUE]

-----------------------------------------------------------------------------
(* Calling the task: a goroutine is started unless Task.s is nil. *)

Live == {r \in Runner : cancel[r].at \notin {"idle", "end"}}

NoCall == UNCHANGED <<cancel, called, left>>

call ==
  IF ptr = Nil
  THEN NoCall
  ELSE /\ Live # Runner
       /\ cancel' = [cancel EXCEPT ![CHOOSE r \in Runner \ Live : TRUE].at = "load"]
       /\ called' = TRUE /\ left' = 0

\* slot.put sets Task.s where it stores the task.
Point(to) == ptr' = IF to = {} THEN ptr ELSE CHOOSE p \in to : TRUE

-----------------------------------------------------------------------------
(* run: onTicker and move. *)

Go(at, l) == move' = [at |-> at, wheel |-> l]

\* A tick of the ticker.  Bound: After is over before a second tick.
onTicker ==
  /\ move.at = "idle"
  /\ put2.at \in {"new", "done"} \/ clean.after
  /\ Go("sweep", Wheels)
  /\ UNCHANGED <<slot, remain, held, taskVars, put2, cancel, histVars>>

\* Stop, when the select of run has seen the closed channel.
Stop ==
  /\ move.at = "idle"
  /\ Go("gone", Wheels)
  /\ UNCHANGED <<slot, remain, held, taskVars, put2, cancel, histVars>>

\* slot.put, s slots from slot i of wheel l: nowhere when that is a turn or more.
Slot(l, i, s) == IF s < Slots THEN {<<l, (i + s) % Slots>>} ELSE {}

\* put of a task with offset o by run, which alone writes slot and remain, into
\* wheel l or one below it: whether the task is due, the offset it is left
\* with and the slot it goes to.
put[l \in Level, o \in Int] ==
  LET s == o \div slotCap(l)
  IN CASE s = 0 /\ l = 1 -> [due |-> TRUE, offset |-> o, to |-> {}]
       [] s = 0 /\ l > 1 -> put[l - 1, o]
       [] s # 0 -> [due |-> FALSE,
                    offset |-> IF l = 1 THEN o ELSE o - ((s - 1) * slotCap(l) + remain[l - 1]),
                    to |-> Slot(l, slot[l], s)]

\* The next step of run after it has dealt with the current slot of wheel l.
AfterSweep(l) == IF l > 2 THEN Go("sweep", l - 1) ELSE Go("tick", 1)
AfterSpread(l) == IF slot[l] = 0 /\ l < Wheels THEN Go("advance", l + 1) ELSE Go("idle", Wheels)
Onward == IF move.at = "sweep" THEN AfterSweep(move.wheel) ELSE AfterSpread(move.wheel)

\* valueArray of the current slot: at the start of move for what came late, and
\* after an advance.
valueArray ==
  /\ \/ move.at = "sweep"
     \/ move.at = "spread" /\ move.wheel > 1
  /\ ~held
  /\ IF <<move.wheel, slot[move.wheel]>> \in values
     THEN held' = TRUE /\ UNCHANGED move
     ELSE UNCHANGED held /\ Onward
  /\ UNCHANGED <<slot, remain, taskVars, put2, cancel, histVars>>

\* The body of the loop: remove, and put into the child.
CarryDown ==
  LET l == move.wheel
      to == put[l - 1, offset]
      rest == values \ {<<l, slot[l]>>}
  IN /\ held
     /\ held' = FALSE
     /\ Onward
     /\ offset' = to.offset
     /\ values' = rest \cup to.to
     /\ Point(to.to)
     /\ IF to.due THEN call ELSE NoCall
     /\ UNCHANGED <<slot, remain, put2, fits, runs>>

\* tick of a wheel, remain-- and then the reset, and on to its parent; the top
\* wheel is left alone.
tick ==
  LET l == move.wheel
  IN /\ move.at = "tick"
     /\ remain' = [remain EXCEPT ![l] = @ - 1]
     /\ Go("reset", l)
     /\ left' = IF l > 1 \/ left = -MaxLate THEN left ELSE IF Waits THEN left - 1 ELSE 0
     /\ UNCHANGED <<slot, held, taskVars, put2, cancel, fits, called, runs>>

\* Variant of reset: a tick too late.
resetLate ==
  LET l == move.wheel
  IN /\ move.at = "reset"
     /\ remain' = [remain EXCEPT ![l] = IF @ <= -1 THEN slotCap(l) * Slots ELSE @]
     /\ IF l + 1 < Wheels THEN Go("tick", l + 1) ELSE Go("advance", 1)
     /\ UNCHANGED <<slot, held, taskVars, put2, cancel, histVars>>

reset ==
  LET l == move.wheel
  IN /\ move.at = "reset"
     /\ remain' = [remain EXCEPT ![l] = IF @ <= 0 THEN slotCap(l) * Slots ELSE @]
     /\ IF l + 1 < Wheels THEN Go("tick", l + 1) ELSE Go("advance", 1)
     /\ UNCHANGED <<slot, held, taskVars, put2, cancel, histVars>>

Advance ==
  LET l == move.wheel
  IN /\ move.at = "advance"
     /\ slot' = [slot EXCEPT ![l] = (@ + 1) % Slots]
     /\ Go("spread", l)
     /\ UNCHANGED <<remain, held, taskVars, put2, cancel, histVars>>

\* The lowest wheel calls what is in its slot and leaves it there: the
\* goroutines delete it.
callAndRm ==
  /\ move.at = "spread" /\ move.wheel = 1
  /\ AfterSpread(1)
  /\ IF <<1, slot[1]>> \in values THEN call ELSE NoCall
  /\ UNCHANGED <<slot, remain, held, taskVars, put2, fits, runs>>

Run == onTicker \/ valueArray \/ CarryDown \/ tick \/ reset \/ Advance \/ callAndRm

-----------------------------------------------------------------------------
(* After: put2 from the top wheel down.  Where the code reads child.remain,  *)
(* or Task.s in Cancel, twice in a row, the compiled program loads it once.  *)

After(o) ==
  /\ put2.at = "new"
  /\ put2' = [put2 EXCEPT !.at = "slot"]
  /\ offset' = o /\ left' = o /\ fits' = (o < Span)
  /\ UNCHANGED <<wheelVars, values, ptr, cancel, called, runs>>

ReadSlot ==
  LET l == put2.wheel
  IN /\ put2.at = "slot"
     /\ put2' = [put2 EXCEPT !.sl = slot[l],
                             !.at = IF l = 1 THEN "store" ELSE "remain",
                             !.s  = IF l = 1 THEN offset ELSE 0]
     /\ UNCHANGED <<wheelVars, taskVars, cancel, histVars>>

\* Variant of ReadRemain: the slot is not corrected for the turn of the child.
ReadRemainUncorrected ==
  LET l == put2.wheel
      r == remain[l - 1]
      s == offset \div slotCap(l)
  IN /\ put2.at = "remain"
     /\ IF s = 0
        THEN /\ put2' = [put2 EXCEPT !.at = "slot", !.wheel = l - 1]
             /\ UNCHANGED offset
        ELSE /\ offset' = offset - ((s - 1) * slotCap(l) + r)
             /\ put2' = [put2 EXCEPT !.at = "store", !.s = s]
     /\ UNCHANGED <<wheelVars, values, ptr, cancel, histVars>>

ReadRemain ==
  LET l == put2.wheel
      r == remain[l - 1]
      s == offset \div slotCap(l)
      o == offset - ((s - 1) * slotCap(l) + r)
      Store(o2, s2) == /\ offset' = o2
                       /\ put2' = [put2 EXCEPT !.at = "store", !.s = s2]
  IN /\ put2.at = "remain"
     /\ \/ /\ s = 0 /\ r > offset
           /\ put2' = [put2 EXCEPT !.at = "slot", !.wheel = l - 1]
           /\ UNCHANGED offset
        \/ s = 0 /\ r <= offset /\ Store(offset - r, 1)
        \/ s > 0 /\ o < slotCap(l) /\ Store(o, s)
        \/ s > 0 /\ o >= slotCap(l) /\ Store(o - slotCap(l), s + 1)
     /\ UNCHANGED <<wheelVars, values, ptr, cancel, histVars>>

StoreTask ==
  LET to == Slot(put2.wheel, put2.sl, put2.s)
  IN /\ put2.at = "store"
     /\ put2' = NotPutting(IF put2.s = 0 THEN "call" ELSE "done")
     /\ values' = values \cup to
     /\ Point(to)
     /\ UNCHANGED <<wheelVars, offset, cancel, histVars>>

\* A task that is due at once is called too.
CallAtOnce ==
  /\ put2.at = "call"
  /\ put2' = NotPutting("done")
  /\ call
  /\ UNCHANGED <<wheelVars, taskVars, fits, runs>>

-----------------------------------------------------------------------------
(* Cancel, by the user of the task once After has returned it, and at the    *)
(* start of the goroutines of call, which then run the function.             *)

Goto(k, from, to) == cancel[k].at = from /\ cancel' = [cancel EXCEPT ![k].at = to]

End(k) == IF k = User THEN "end" ELSE "run"

Cancel ==
  /\ put2.at = "done"
  /\ Goto(User, "idle", "load")
  /\ UNCHANGED <<wheelVars, taskVars, put2, histVars>>

\* Variant of CancelLoad: Cancel does nothing.
CancelLoadSkipped(k) ==
  /\ Goto(k, "load", End(k))
  /\ UNCHANGED <<wheelVars, taskVars, put2, histVars>>

CancelLoad(k) ==
  /\ cancel[k].at = "load"
  /\ cancel' = [cancel EXCEPT ![k] = [at |-> IF ptr = Nil THEN End(k) ELSE "remove", s |-> ptr]]
  /\ UNCHANGED <<wheelVars, taskVars, put2, histVars>>

CancelRemove(k) ==
  /\ cancel[k].at = "remove"
  /\ values' = values \ {cancel[k].s}
  /\ cancel' = [cancel EXCEPT ![k] = [at |-> "clear", s |-> Nil]]
  /\ UNCHANGED <<wheelVars, ptr, offset, put2, histVars>>

CancelClear(k) ==
  /\ Goto(k, "clear", End(k))
  /\ ptr' = Nil
  /\ UNCHANGED <<wheelVars, values, offset, put2, histVars>>

RunFn(r) ==
  /\ Goto(r, "run", "end")
  /\ runs' = IF runs = 2 THEN 2 ELSE runs + 1
  /\ UNCHANGED <<wheelVars, taskVars, put2, left, fits, called>>

CancelStep(k) == CancelLoad(k) \/ CancelRemove(k) \/ CancelClear(k)

-----------------------------------------------------------------------------
\* first: the first tick was over before After was called.  after: no tick went
\* on during After.  cancel: while the user was in Cancel, run did not have the
\* task in its hand and no goroutine of call was alive.  prompt: there were
\* never two of these goroutines.
History ==
  clean' = [first  |-> clean.first \/ (put2.at = "new" /\ move.at = "idle" /\ remain[1] # 0),
            after  |-> clean.after /\ (put2'.at \in {"new", "done"} \/ move'.at \in {"idle", "gone"}),
            cancel |-> /\ clean.cancel
                      /\ \/ cancel'[User].at \in {"idle", "end"}
                         \/ ~held' /\ Live' = {},
            prompt |-> clean.prompt /\ Cardinality(Live') <= 1]

Put2 == ReadSlot \/ ReadRemain \/ StoreTask \/ CallAtOnce

Next ==
  /\ \/ Run \/ Stop
     \/ \E o \in 0..MaxOffset : After(o)
     \/ Put2
     \/ Cancel
     \/ \E k \in Canceller : CancelStep(k)
     \/ \E r \in Runner : RunFn(r)
  /\ History

Spec == Init /\ [][Next]_vars

-----------------------------------------------------------------------------
(* Correctness. *)

\* How many ticks early a task may be called.
Early == CASE clean.after /\ clean.first  -> {0}
           [] clean.after /\ ~clean.first -> {-1}
           [] OTHER -> -Slots..slotCap(Wheels)

\* A task is called after exactly as many ticks as were asked for, by whatever
\* wheels it came, when no tick overlaps with its After; before the first tick
\* of the wheel there is one more.  A tick that overlaps makes it late by a turn
\* of the lowest wheel, or early by a slot of the highest, but no more.
FiresOnTime ==
  [][~called /\ called' /\ (clean.after \/ clean.first) => left \in Early]_vars

\* The state is well typed.  A task whose After met no tick is never dropped on
\* its way down the wheels, nor left behind when it is due; and its function is
\* run once, although the slot keeps a called task until its goroutine has
\* removed it, unless two of these are alive at once.
NeitherLostNorTwice ==
  /\ TypeOK
  /\ put2.at = "done" /\ fits /\ clean.after /\ ~called /\ cancel[User].at = "idle"
     => (values # {} \/ held) /\ left >= -1
  /\ clean.prompt => runs <= 1

\* A task that was cancelled in time is not called afterwards, unless run was
\* carrying it down meanwhile (it is then put into a slot again).
CancelledIsSilent ==
  [][cancel[User].at = "end" /\ ~called /\ clean.cancel => ~called']_vars
=============================================================================
