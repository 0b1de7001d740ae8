-------------------------- MODULE Debugger_proofs --------------------------
(***************************************************************************)
(* The debugger and the simulator stay in step, and the ring of snapshots  *)
(* and the screen show what the simulator has sent, for every length of    *)
(* the ring, of a group of signals and of the run, and every set of times  *)
(* that the user may ask for.                                              *)
(***************************************************************************)
EXTENDS Debugger, FiniteSetTheorems, SequenceTheorems, TLAPS

USE DEF Slots

\* The slot j places behind h, and the one after it.
Back(h, j) == IF j <= h THEN h - j ELSE h - j + NUM_HISTORY

Succ(h) == IF h + 1 = NUM_HISTORY THEN 0 ELSE h + 1

LEMMA Remainders ==
  ASSUME NEW a \in Int
  PROVE  /\ a \in Slots => a % NUM_HISTORY = a
         /\ a < 0 /\ a >= -NUM_HISTORY => a % NUM_HISTORY = a + NUM_HISTORY
         /\ a >= NUM_HISTORY /\ a < 2 * NUM_HISTORY => a % NUM_HISTORY = a - NUM_HISTORY
<1>1. ASSUME a \in Slots PROVE a % NUM_HISTORY = a
  BY <1>1, DebuggerParameters
<1>2. ASSUME a < 0, a >= -NUM_HISTORY PROVE a % NUM_HISTORY = a + NUM_HISTORY
  BY <1>2, DebuggerParameters
<1>3. ASSUME a >= NUM_HISTORY, a < 2 * NUM_HISTORY PROVE a % NUM_HISTORY = a - NUM_HISTORY
  BY <1>3, DebuggerParameters
<1> QED
  BY <1>1, <1>2, <1>3

LEMMA BackIs ==
  ASSUME NEW h \in Slots, NEW j \in 1..NUM_HISTORY
  PROVE  /\ Back(h, j) \in Slots
         /\ (h - j) % NUM_HISTORY = Back(h, j)
<1>1. h - j \in Int /\ h - j >= -NUM_HISTORY /\ h - j < NUM_HISTORY
  BY DebuggerParameters
<1>2. CASE j <= h
  <2>1. h - j \in Slots
    BY <1>2, DebuggerParameters
  <2> QED
    BY <1>1, <1>2, <2>1, Remainders DEF Back
<1>3. CASE ~(j <= h)
  <2>1. h - j < 0 /\ h - j + NUM_HISTORY \in Slots
    BY <1>3, DebuggerParameters
  <2> QED
    BY <1>1, <1>3, <2>1, Remainders DEF Back
<1> QED
  BY <1>2, <1>3

LEMMA Neighbours ==
  ASSUME NEW h \in Slots
  PROVE  /\ Succ(h) \in Slots /\ CMod(h + 1) = Succ(h)
         /\ CMod(h - 1) = h - 1
         /\ Succ(h) = 0 => h = NUM_HISTORY - 1
         /\ Succ(h) # 0 => Succ(h) = h + 1
         /\ CMod(-1) = -1
<1>1. CMod(h - 1) = h - 1
  <2>1. h - 1 < 0 \/ h - 1 \in Slots
    BY DebuggerParameters
  <2> QED
    BY <2>1, Remainders DEF CMod
<1>2. Succ(h) \in Slots /\ CMod(h + 1) = Succ(h)
  <2>1. CASE h + 1 = NUM_HISTORY
    <3>1. (h + 1) % NUM_HISTORY = (h + 1) - NUM_HISTORY
      BY <2>1, Remainders, DebuggerParameters
    <3> QED
      BY <2>1, <3>1, DebuggerParameters DEF CMod, Succ
  <2>2. CASE h + 1 # NUM_HISTORY
    <3>1. h + 1 \in Slots
      BY <2>2, DebuggerParameters
    <3> QED
      BY <2>2, <3>1, Remainders DEF CMod, Succ
  <2> QED
    BY <2>1, <2>2
<1> QED
  BY <1>1, <1>2, DebuggerParameters DEF Succ, CMod

-----------------------------------------------------------------------------
\* The variables of the debugger.

SnapshotType == [c : Nat, t : Nat, regs : [1..NumRegs -> Nat]]

Ways == {"setup", "frame", "step", "pause", "goto", "below"}

ScreenType ==
    [shown : SnapshotType, against : SnapshotType, prev : SnapshotType,
     by : Ways, clock : 0..2]

\* history_num may leave the ring within a step, when a run has met the end.
StateWith(H) ==
    [pc : {"read", "command", "exited"}, slots : [Slots -> SnapshotType],
     history_num : H, time_wrapped : BOOLEAN, setup_registers : BOOLEAN,
     reg_num : 0..NumRegs, known : 0..NumRegs, done_received : BOOLEAN,
     echo_data : BOOLEAN, running : BOOLEAN, goto_flag : BOOLEAN,
     cycle_flag : BOOLEAN, stop_time : Nat, hist_num_temp : Slots,
     i : 0..NUM_HISTORY, old : Int, cur_clock_val : 0..1,
     screen : ScreenType]

DebuggerState == StateWith(Slots)

LEMMA SnapshotsTyped ==
  /\ \A k \in Nat : Snapshot(k) \in SnapshotType
  /\ Nothing \in SnapshotType
  /\ \A s \in SnapshotType : ClockOf(s) \in 0..1
<1>1. \A k \in Nat : Snapshot(k) \in SnapshotType
  BY DEF Snapshot, SnapshotType
<1>2. Nothing \in SnapshotType
  BY <1>1 DEF Nothing
<1>3. ASSUME NEW s \in SnapshotType PROVE ClockOf(s) \in 0..1
  <2>1. s.c \in Nat
    BY DEF SnapshotType
  <2> QED
    BY <2>1 DEF ClockOf
<1> QED
  BY <1>1, <1>2, <1>3

\* What the ring and the register groups depend on is the same in x and y.
SameRing(x, y) ==
    /\ y.slots = x.slots /\ y.history_num = x.history_num
    /\ y.time_wrapped = x.time_wrapped /\ y.setup_registers = x.setup_registers
    /\ y.reg_num = x.reg_num /\ y.known = x.known
    /\ y.done_received = x.done_received

\* What the screen shows, and how it came there.
SameScreen(x, y) ==
    /\ y.hist_num_temp = x.hist_num_temp /\ y.old = x.old
    /\ y.cur_clock_val = x.cur_clock_val /\ y.screen = x.screen

Draws(x, y, h, how) ==
    /\ y.hist_num_temp = h /\ y.old = h
    /\ y.cur_clock_val = ClockOf(x.slots[h]) /\ y.screen = Drawn(x, h, how)

LEMMA DrawnTyped ==
  ASSUME NEW H, NEW x \in StateWith(H), NEW h, NEW how \in Ways
  PROVE  Drawn(x, h, how) \in ScreenType /\ ClockOf(SlotAt(x, h)) \in 0..1
<1>1. \A g : SlotAt(x, g) \in SnapshotType
  BY SnapshotsTyped DEF SlotAt, StateWith
<1>2. x.screen \in ScreenType
  BY DEF StateWith
<1>3. UpdateClock(x, ClockOf(SlotAt(x, h))) \in 0..2
  BY <1>1, <1>2, SnapshotsTyped DEF UpdateClock, ScreenType
<1>4. ClockOf(SlotAt(x, h)) \in 0..1
  BY <1>1, SnapshotsTyped
<1> QED
  BY <1>1, <1>2, <1>3, <1>4 DEF Drawn, ScreenType, Ways

\* Slot h goes on the screen.
LEMMA ParseDataDraws ==
  ASSUME NEW x \in DebuggerState, NEW h \in Slots, NEW how \in Ways
  PROVE  LET y == ParseData(x, h, how)
         IN  /\ y \in DebuggerState /\ SameRing(x, y) /\ y.pc = x.pc
             /\ y.old = h /\ y.cur_clock_val = ClockOf(x.slots[h])
             /\ y.screen = Drawn(x, h, how)
             /\ y.hist_num_temp = x.hist_num_temp
             /\ y.stop_time = x.stop_time /\ y.i = x.i
<1>1. Drawn(x, h, how) \in ScreenType /\ SlotAt(x, h) = x.slots[h]
  BY DrawnTyped DEF SlotAt, DebuggerState
<1>2. ClockOf(SlotAt(x, h)) \in 0..1
  BY DrawnTyped DEF DebuggerState
<1>3. h \in Int
  BY DebuggerParameters
<1> HIDE DEF Slots
<1> DEFINE y == ParseData(x, h, how)
<1>4. y \in DebuggerState
  BY <1>1, <1>2, <1>3 DEF ParseData, DebuggerState, StateWith
<1>5. SameRing(x, y) /\ y.pc = x.pc
  BY DEF ParseData, DebuggerState, StateWith, SameRing
<1>6. /\ y.old = h /\ y.cur_clock_val = ClockOf(SlotAt(x, h))
      /\ y.screen = Drawn(x, h, how)
      /\ y.hist_num_temp = x.hist_num_temp
      /\ y.stop_time = x.stop_time /\ y.i = x.i
  BY DEF ParseData, DebuggerState, StateWith
<1> QED
  BY <1>1, <1>4, <1>5, <1>6

\* What is drawn depends on the ring and on the screen.
LEMMA DrawnAlike ==
  ASSUME NEW x, NEW z, SameRing(x, z), z.old = x.old,
         z.cur_clock_val = x.cur_clock_val, z.screen = x.screen,
         NEW h, NEW how
  PROVE  Drawn(z, h, how) = Drawn(x, h, how)
BY DEF SameRing, Drawn, SlotAt, UpdateClock

\* The user looks at slot h, from a state with the ring and the screen of x.
LEMMA Looking ==
  ASSUME NEW x \in DebuggerState, NEW z \in DebuggerState, SameRing(x, z),
         z.pc = x.pc, z.old = x.old, z.cur_clock_val = x.cur_clock_val,
         z.screen = x.screen, NEW h \in Slots, z.hist_num_temp = h,
         NEW how \in Ways
  PROVE  LET y == ParseData(z, h, how)
         IN  /\ y \in DebuggerState /\ SameRing(x, y) /\ y.pc = x.pc
             /\ Draws(x, y, h, how)
             /\ y.stop_time = z.stop_time /\ y.i = z.i
<1> DEFINE y == ParseData(z, h, how)
<1>1. /\ y \in DebuggerState /\ SameRing(z, y) /\ y.pc = z.pc
      /\ y.old = h /\ y.cur_clock_val = ClockOf(z.slots[h])
      /\ y.screen = Drawn(z, h, how)
      /\ y.hist_num_temp = z.hist_num_temp
      /\ y.stop_time = z.stop_time /\ y.i = z.i
  BY ParseDataDraws
<1> HIDE DEF y
<1>2. y.screen = Drawn(x, h, how)
  BY <1>1, DrawnAlike
<1>3. SameRing(x, y) /\ y.cur_clock_val = ClockOf(x.slots[h])
  BY <1>1 DEF SameRing
<1> QED
  BY <1>1, <1>2, <1>3 DEF Draws, y

-----------------------------------------------------------------------------
\* Commands.

\* Slot h holds the snapshot of an edge.
Recorded(x, h) == x.time_wrapped \/ h < x.history_num

\* The user looks at a snapshot, or has searched below slot 0.
Looks(x) == x.screen.by = "below" \/ Recorded(x, x.hist_num_temp)

\* A step that leaves the ring and the screen alone.
Calm(x, y) ==
    /\ y \in DebuggerState /\ SameRing(x, y) /\ SameScreen(x, y)
    /\ y.pc \in {"command", "read"}

\* What a command may do.
Obeys(x, y) ==
    /\ y \in DebuggerState /\ SameRing(x, y) /\ y.pc \in {"command", "read"}
    /\ \/ SameScreen(x, y)
       \/ \E h \in Slots, how \in Ways \ {"frame"} :
             /\ Draws(x, y, h, how)
             /\ Looks(x) => Recorded(x, h) \/ "below" \in {how, x.screen.by}

LEMMA CalmThenObeys ==
  ASSUME NEW x, NEW y, NEW z, Calm(x, y), Obeys(y, z)
  PROVE  Obeys(x, z)
<1>1. SameRing(x, z)
  BY DEF Calm, Obeys, SameRing
<1>2. CASE SameScreen(y, z)
  BY <1>1, <1>2 DEF Calm, Obeys, SameScreen
<1>3. CASE ~SameScreen(y, z)
  <2>1. PICK h \in Slots, how \in Ways \ {"frame"} :
           /\ Draws(y, z, h, how)
           /\ Looks(y) => Recorded(y, h) \/ "below" \in {how, y.screen.by}
    BY <1>3 DEF Obeys
  <2>2. Drawn(y, h, how) = Drawn(x, h, how)
    BY DrawnAlike DEF Calm, SameScreen
  <2>3. y.slots = x.slots /\ y.screen.by = x.screen.by
        /\ (Recorded(y, h) <=> Recorded(x, h))
        /\ (Looks(y) <=> Looks(x))
    BY DEF Calm, SameRing, SameScreen, Recorded, Looks
  <2>4. Draws(x, z, h, how)
    BY <2>1, <2>2, <2>3 DEF Draws
  <2> QED
    BY <1>1, <2>1, <2>3, <2>4 DEF Obeys
<1> QED
  BY <1>2, <1>3

LEMMA ObeysThenCalm ==
  ASSUME NEW x, NEW y, NEW z, Obeys(x, y), Calm(y, z)
  PROVE  Obeys(x, z)
<1>1. SameRing(x, z)
  BY DEF Calm, Obeys, SameRing
<1>2. CASE SameScreen(x, y)
  BY <1>1, <1>2 DEF Calm, Obeys, SameScreen
<1>3. CASE ~SameScreen(x, y)
  <2>1. PICK h \in Slots, how \in Ways \ {"frame"} :
           /\ Draws(x, y, h, how)
           /\ Looks(x) => Recorded(x, h) \/ "below" \in {how, x.screen.by}
    BY <1>3 DEF Obeys
  <2>2. Draws(x, z, h, how)
    BY <2>1 DEF Draws, Calm, SameScreen
  <2> QED
    BY <1>1, <2>1, <2>2 DEF Obeys, Calm
<1> QED
  BY <1>2, <1>3

LEMMA SwitchesAreCalm ==
  ASSUME NEW x \in DebuggerState, x.pc = "command"
  PROVE  /\ Calm(x, StopRunning(x)) /\ StopRunning(x).pc = "command"
         /\ Calm(x, RunOn(x)) /\ RunOn(x).pc = "command"
         /\ Calm(x, x)
         /\ \A stop \in Nat, b \in BOOLEAN :
              LET y == [x EXCEPT !.stop_time = stop, !.cycle_flag = b]
              IN  Calm(x, y) /\ y.pc = "command"
<1> HIDE DEF Slots
<1>1. Calm(x, StopRunning(x)) /\ StopRunning(x).pc = "command"
  BY DEF StopRunning, DebuggerState, StateWith, Calm, SameRing, SameScreen
<1>2. Calm(x, RunOn(x)) /\ RunOn(x).pc = "command"
  BY DEF RunOn, DebuggerState, StateWith, Calm, SameRing, SameScreen
<1>3. ASSUME NEW stop \in Nat, NEW b \in BOOLEAN
      PROVE  LET y == [x EXCEPT !.stop_time = stop, !.cycle_flag = b]
             IN  Calm(x, y) /\ y.pc = "command"
  BY DEF DebuggerState, StateWith, Calm, SameRing, SameScreen
<1>4. Calm(x, x)
  BY DEF DebuggerState, StateWith, Calm, SameRing, SameScreen
<1> QED
  BY <1>1, <1>2, <1>3, <1>4

\* Behind the command loop.
LEMMA LeaveIsCalm ==
  ASSUME NEW x \in DebuggerState, NEW junk
  PROVE  Calm(x, Leave(x, junk)) /\ Leave(x, junk).pc = "read"
<1> HIDE DEF Slots
<1> DEFINE stopped == [StopRunning(x) EXCEPT !.goto_flag = FALSE]
<1>1. stopped \in DebuggerState /\ SameRing(x, stopped) /\ SameScreen(x, stopped)
  BY DEF StopRunning, DebuggerState, StateWith, SameRing, SameScreen
<1>2. x \in DebuggerState /\ SameRing(x, x) /\ SameScreen(x, x)
  BY DEF SameRing, SameScreen
<1> HIDE DEF stopped
<1>3. ASSUME NEW y \in DebuggerState, SameRing(x, y), SameScreen(x, y)
      PROVE  LET z == [y EXCEPT !.pc = "read"] IN Calm(x, z) /\ z.pc = "read"
  <2> DEFINE z == [y EXCEPT !.pc = "read"]
  <2>1. z \in DebuggerState /\ z.pc = "read"
    BY DEF DebuggerState, StateWith
  <2>2. SameRing(x, z) /\ SameScreen(x, z)
    BY <1>3 DEF DebuggerState, StateWith, SameRing, SameScreen
  <2> QED
    BY <2>1, <2>2 DEF Calm
<1>4. \E y \in {x, stopped} : Leave(x, junk) = [y EXCEPT !.pc = "read"]
  BY DEF Leave, stopped
<1> QED
  BY <1>1, <1>2, <1>3, <1>4

\* The user looks at slot h, as a search that goes there or stays does.
LEMMA LookingObeys ==
  ASSUME NEW x \in DebuggerState, x.pc = "command",
         NEW h \in Slots, NEW how \in Ways \ {"frame"},
         Looks(x) => Recorded(x, h) \/ "below" \in {how, x.screen.by}
  PROVE  /\ Obeys(x, ParseData([x EXCEPT !.hist_num_temp = h], h, how))
         /\ LET y == ParseData([x EXCEPT !.hist_num_temp = h, !.i = h,
                                         !.stop_time = 0], h, how)
            IN  Obeys(x, y) /\ y.pc = "command"
         /\ LET y == ParseData([x EXCEPT !.i = 0, !.stop_time = 0], h, how)
            IN  h = x.hist_num_temp => Obeys(x, y) /\ y.pc = "command"
<1>1. ASSUME NEW z \in DebuggerState, SameRing(x, z), z.pc = x.pc,
             z.old = x.old, z.cur_clock_val = x.cur_clock_val,
             z.screen = x.screen, z.hist_num_temp = h
      PROVE  LET y == ParseData(z, h, how)
             IN  Obeys(x, y) /\ y.pc = "command"
  <2> DEFINE y == ParseData(z, h, how)
  <2>1. /\ y \in DebuggerState /\ SameRing(x, y) /\ y.pc = x.pc
        /\ Draws(x, y, h, how)
    BY <1>1, Looking
  <2> HIDE DEF y
  <2> QED
    BY <2>1 DEF Obeys, y
<1>2. h \in 0..NUM_HISTORY /\ 0 \in 0..NUM_HISTORY
  BY DebuggerParameters
<1> HIDE DEF Slots
<1> DEFINE a == [x EXCEPT !.hist_num_temp = h]
           b == [x EXCEPT !.hist_num_temp = h, !.i = h, !.stop_time = 0]
           c == [x EXCEPT !.i = 0, !.stop_time = 0]
<1>3. /\ a \in DebuggerState /\ SameRing(x, a) /\ a.pc = x.pc
      /\ a.old = x.old /\ a.cur_clock_val = x.cur_clock_val
      /\ a.screen = x.screen /\ a.hist_num_temp = h
  BY DEF DebuggerState, StateWith, SameRing
<1>4. /\ b \in DebuggerState /\ SameRing(x, b) /\ b.pc = x.pc
      /\ b.old = x.old /\ b.cur_clock_val = x.cur_clock_val
      /\ b.screen = x.screen /\ b.hist_num_temp = h
  BY <1>2 DEF DebuggerState, StateWith, SameRing
<1>5. /\ c \in DebuggerState /\ SameRing(x, c) /\ c.pc = x.pc
      /\ c.old = x.old /\ c.cur_clock_val = x.cur_clock_val
      /\ c.screen = x.screen /\ c.hist_num_temp = x.hist_num_temp
  BY <1>2 DEF DebuggerState, StateWith, SameRing
<1> HIDE DEF a, b, c
<1>6. Obeys(x, ParseData(a, h, how))
  BY <1>1, <1>3
<1>7. Obeys(x, ParseData(b, h, how)) /\ ParseData(b, h, how).pc = "command"
  BY <1>1, <1>4
<1>8. ASSUME h = x.hist_num_temp
      PROVE  Obeys(x, ParseData(c, h, how)) /\ ParseData(c, h, how).pc = "command"
  BY <1>1, <1>5, <1>8
<1> QED
  BY <1>6, <1>7, <1>8 DEF a, b, c

\* 'n': the next snapshot in the ring, or on to the next edge.
LEMMA NextEdgeObeys ==
  ASSUME NEW x \in DebuggerState, x.pc = "command", NEW junk
  PROVE  Obeys(x, NextEdge(x, junk))
<1>1. x.hist_num_temp \in Slots /\ x.history_num \in Slots
  BY DEF DebuggerState, StateWith
<1>2. CASE x.hist_num_temp = CMod(x.history_num - 1)
  <2>1. Calm(x, x) /\ Calm(x, Leave(x, junk))
    BY SwitchesAreCalm, LeaveIsCalm
  <2>2. NextEdge(x, junk) \in {x, Leave(x, junk)}
    BY <1>2 DEF NextEdge
  <2>3. \A y : Calm(x, y) => Obeys(x, y)
    BY DEF Calm, Obeys
  <2> QED
    BY <2>1, <2>2, <2>3
<1>3. CASE x.hist_num_temp # CMod(x.history_num - 1)
  <2> DEFINE h == Succ(x.hist_num_temp)
  <2>1. h \in Slots /\ CMod(x.hist_num_temp + 1) = h
    BY <1>1, Neighbours
  <2>2. x.hist_num_temp # x.history_num - 1
    BY <1>1, <1>3, Neighbours
  <2>3. Looks(x) => Recorded(x, h) \/ x.screen.by = "below"
    <3>1. CASE x.time_wrapped
      BY <3>1 DEF Recorded
    <3>2. CASE x.hist_num_temp < x.history_num
      <4>1. h = x.hist_num_temp + 1 /\ h < x.history_num
        BY <1>1, <2>2, <3>2, DebuggerParameters DEF Succ
      <4> QED
        BY <4>1 DEF Recorded
    <3> QED
      BY <3>1, <3>2 DEF Looks, Recorded
  <2>4. "step" \in Ways \ {"frame"}
    BY DEF Ways
  <2>5. Obeys(x, ParseData([x EXCEPT !.hist_num_temp = h], h, "step"))
    <3> HIDE DEF h
    <3> QED
      BY <2>1, <2>3, <2>4, LookingObeys
  <2> QED
    BY <1>3, <2>1, <2>5 DEF NextEdge
<1> QED
  BY <1>2, <1>3

\* 'b': the snapshot before.
LEMMA PreviousEdgeObeys ==
  ASSUME NEW x \in DebuggerState, x.pc = "command"
  PROVE  Obeys(x, PreviousEdge(x))
<1>1. x.hist_num_temp \in Slots /\ x.history_num \in Slots
  BY DEF DebuggerState, StateWith
<1>2. "step" \in Ways \ {"frame"}
  BY DEF Ways
<1>3. CASE x.hist_num_temp > 0
  <2> DEFINE h == x.hist_num_temp - 1
  <2>1. h \in Slots
    BY <1>1, <1>3, DebuggerParameters
  <2>2. Looks(x) => Recorded(x, h) \/ x.screen.by = "below"
    BY <1>1 DEF Looks, Recorded
  <2>3. Obeys(x, ParseData([x EXCEPT !.hist_num_temp = h], h, "step"))
    <3> HIDE DEF h
    <3> QED
      BY <1>2, <2>1, <2>2, LookingObeys
  <2> QED
    BY <1>3, <2>3 DEF PreviousEdge
<1>4. CASE ~(x.hist_num_temp > 0) /\ x.time_wrapped
  <2> DEFINE h == NUM_HISTORY - 1
  <2>1. h \in Slots
    BY DebuggerParameters
  <2>2. Recorded(x, h)
    BY <1>4 DEF Recorded
  <2>3. Obeys(x, ParseData([x EXCEPT !.hist_num_temp = h], h, "step"))
    <3> HIDE DEF h
    <3> QED
      BY <1>2, <2>1, <2>2, LookingObeys
  <2> QED
    BY <1>4, <2>3 DEF PreviousEdge
<1>5. CASE ~(x.hist_num_temp > 0) /\ ~x.time_wrapped
  <2>1. Calm(x, x)
    BY SwitchesAreCalm
  <2> QED
    BY <1>5, <2>1 DEF PreviousEdge, Calm, Obeys
<1> QED
  BY <1>3, <1>4, <1>5

-----------------------------------------------------------------------------
\* The search for a time.

LEMMA LeastExists ==
  ASSUME NEW S \in SUBSET Nat, S # {}
  PROVE  \E x \in S : \A y \in S : x <= y
<1> DEFINE R == OpToRel(<, Nat)
<1>1. IsWellFoundedOn(R, Nat)
  BY NatLessThanWellFounded
<1>2. \A x, y \in Nat : <<y, x>> \in R <=> y < x
  BY DEF OpToRel
<1> HIDE DEF R
<1>3. PICK x \in S : \A y \in S : ~(<<y, x>> \in R)
  BY <1>1, WFMin
<1>4. ASSUME NEW y \in S PROVE x <= y
  <2>1. x \in Nat /\ y \in Nat /\ ~(y < x)
    BY <1>2, <1>3
  <2> QED
    BY <2>1
<1> QED
  BY <1>4

\* The slot at distance a from a slot, at most one turn of the ring away.
Around(a) == IF a < 0 THEN a + NUM_HISTORY
             ELSE IF a < NUM_HISTORY THEN a ELSE a - NUM_HISTORY

LEMMA AroundIs ==
  ASSUME NEW a \in Int, a >= -NUM_HISTORY, a < 2 * NUM_HISTORY
  PROVE  a % NUM_HISTORY = Around(a) /\ Around(a) \in Slots
<1>1. CASE a < 0
  BY <1>1, Remainders, DebuggerParameters DEF Around
<1>2. CASE a >= 0 /\ a < NUM_HISTORY
  <2>1. a \in Slots
    BY <1>2, DebuggerParameters
  <2> QED
    BY <1>2, <2>1, Remainders DEF Around
<1>3. CASE a >= NUM_HISTORY
  BY <1>3, Remainders, DebuggerParameters DEF Around
<1> QED
  BY <1>1, <1>2, <1>3, DebuggerParameters

\* The j-th slot from hist_num_temp, from 0.
Passed(x, delta, j) == Around(x.hist_num_temp + delta * (j + 1))

\* Where the search ends.
Ends(x, delta, j) ==
    \/ Passed(x, delta, j) = x.history_num
    \/ j > 0 /\ delta = -1 /\ Passed(x, delta, j - 1) = 0 /\ ~x.time_wrapped

LEMMA PassedIs ==
  ASSUME NEW x \in DebuggerState, NEW delta \in {-1, 1}, NEW j \in Slots
  PROVE  /\ (x.hist_num_temp + delta * (j + 1)) % NUM_HISTORY = Passed(x, delta, j)
         /\ Passed(x, delta, j) \in Slots
<1>1. x.hist_num_temp \in Slots
  BY DEF DebuggerState, StateWith
<1> DEFINE a == x.hist_num_temp + delta * (j + 1)
<1>2. a = IF delta = 1 THEN x.hist_num_temp + j + 1 ELSE x.hist_num_temp - j - 1
  <2>1. j \in Int /\ x.hist_num_temp \in Int
    BY <1>1, DebuggerParameters
  <2>2. CASE delta = 1
    BY <2>1, <2>2
  <2>3. CASE delta = -1
    BY <2>1, <2>3
  <2> QED
    BY <2>2, <2>3
<1> HIDE DEF a
<1>3. a \in Int /\ a >= -NUM_HISTORY /\ a < 2 * NUM_HISTORY
  BY <1>1, <1>2, DebuggerParameters
<1> QED
  BY <1>3, AroundIs DEF a, Passed

\* A search in either direction comes to the slot to be written next.
LEMMA SearchEnds ==
  ASSUME NEW x \in DebuggerState, NEW delta \in {-1, 1}
  PROVE  \E j \in Slots : Passed(x, delta, j) = x.history_num
<1> DEFINE h == x.hist_num_temp
           n == x.history_num
<1>1. h \in Slots /\ n \in Slots
  BY DEF DebuggerState, StateWith
<1> HIDE DEF h, n
<1>2. CASE delta = 1
  <2> DEFINE j == IF n > h THEN n - h - 1 ELSE n - h - 1 + NUM_HISTORY
  <2>1. j \in Slots
    BY <1>1, DebuggerParameters
  <2>2. h + delta * (j + 1) = IF n > h THEN n ELSE n + NUM_HISTORY
    BY <1>1, <1>2, DebuggerParameters
  <2>3. Around(IF n > h THEN n ELSE n + NUM_HISTORY) = n
    BY <1>1, DebuggerParameters DEF Around
  <2> QED
    BY <2>1, <2>2, <2>3 DEF Passed, h, n
<1>3. CASE delta = -1
  <2> DEFINE j == IF n < h THEN h - n - 1 ELSE h - n - 1 + NUM_HISTORY
  <2>1. j \in Slots
    BY <1>1, DebuggerParameters
  <2>2. h + delta * (j + 1) = IF n < h THEN n ELSE n - NUM_HISTORY
    BY <1>1, <1>3, DebuggerParameters
  <2>3. Around(IF n < h THEN n ELSE n - NUM_HISTORY) = n
    BY <1>1, DebuggerParameters DEF Around
  <2> QED
    BY <2>1, <2>2, <2>3 DEF Passed, h, n
<1> QED
  BY <1>2, <1>3

\* Where the search passes before its end.
LEMMA VisitedIs ==
  ASSUME NEW x \in DebuggerState, NEW delta \in {-1, 1}
  PROVE  \E len \in Slots :
           /\ Visited(x, delta) = [j \in 1..len |-> Passed(x, delta, j - 1)]
           /\ \A l \in 0..len - 1 : ~Ends(x, delta, l)
<1> DEFINE pos(j) == (x.hist_num_temp + delta * (j + 1)) % NUM_HISTORY
           ends(j) == \/ pos(j) = x.history_num
                      \/ j > 0 /\ delta = -1 /\ pos(j - 1) = 0 /\ ~x.time_wrapped
           Last(j) == ends(j) /\ \A l \in 0..j - 1 : ~ends(l)
           len == CHOOSE j \in 0..NUM_HISTORY : Last(j)
<1>1. \A j \in Slots : pos(j) = Passed(x, delta, j)
  BY PassedIs
<1>2. \A j \in Slots : ends(j) <=> Ends(x, delta, j)
  <2> SUFFICES ASSUME NEW j \in Slots PROVE ends(j) <=> Ends(x, delta, j)
    OBVIOUS
  <2>1. j > 0 => j - 1 \in Slots
    BY DebuggerParameters
  <2> HIDE DEF pos
  <2> QED
    BY <1>1, <2>1 DEF Ends
<1>3. Visited(x, delta) = [j \in 1..len |-> pos(j - 1)]
  BY DEF Visited
<1> HIDE DEF pos, ends
<1>4. PICK g \in Slots : ends(g)
  <2>1. PICK g \in Slots : Passed(x, delta, g) = x.history_num
    BY SearchEnds
  <2> QED
    BY <1>2, <2>1 DEF Ends
<1>5. \E j \in 0..NUM_HISTORY : Last(j)
  <2> DEFINE S == {j \in Slots : ends(j)}
  <2>1. S \in SUBSET Nat /\ S # {}
    BY <1>4, DebuggerParameters
  <2>2. PICK m \in S : \A y \in S : m <= y
    BY <2>1, LeastExists
  <2>3. \A l \in 0..m - 1 : ~ends(l)
    BY <2>2, DebuggerParameters
  <2> QED
    BY <2>2, <2>3, DebuggerParameters
<1>6. len \in 0..NUM_HISTORY /\ Last(len)
  BY <1>5
<1> HIDE DEF len
<1>7. len \in Slots
  BY <1>4, <1>6, DebuggerParameters
<1>8. Visited(x, delta) = [j \in 1..len |-> Passed(x, delta, j - 1)]
  BY <1>1, <1>3, <1>7, DebuggerParameters
<1>9. \A l \in 0..len - 1 : ~Ends(x, delta, l)
  BY <1>2, <1>6, <1>7, DebuggerParameters
<1> QED
  BY <1>7, <1>8, <1>9

\* A search from slot 0 towards the past, in a ring that has not wrapped.
Below(x, delta) == x.hist_num_temp = 0 /\ delta = -1 /\ ~x.time_wrapped

\* A search passes slots with snapshots only, unless it begins below slot 0.
LEMMA VisitedRecorded ==
  ASSUME NEW x \in DebuggerState, NEW delta \in {-1, 1},
         NEW len \in Slots, \A l \in 0..len - 1 : ~Ends(x, delta, l),
         NEW j \in 1..len
  PROVE  /\ Passed(x, delta, j - 1) \in Slots
         /\ Looks(x) => \/ Recorded(x, Passed(x, delta, j - 1))
                        \/ Below(x, delta) \/ x.screen.by = "below"
<1> DEFINE h == x.hist_num_temp
           n == x.history_num
<1>1. h \in Slots /\ n \in Slots /\ j - 1 \in Slots /\ len \in Nat /\ j \in Nat
  BY DebuggerParameters DEF DebuggerState, StateWith
<1>2. Passed(x, delta, j - 1) \in Slots
  BY <1>1, PassedIs
<1>3. ASSUME ~x.time_wrapped, h < n, ~Below(x, delta)
      PROVE  Passed(x, delta, j - 1) < n
  <2> HIDE DEF h, n
  <2>1. CASE delta = 1
    <3> DEFINE e == n - h - 1
    <3>1. e \in Slots /\ h + delta * (e + 1) = n
      BY <1>1, <1>3, <2>1, DebuggerParameters
    <3>2. Around(n) = n
      BY <1>1, DebuggerParameters DEF Around
    <3>3. Ends(x, delta, e)
      BY <3>1, <3>2 DEF Ends, Passed, h, n
    <3>4. ~(e < len)
      BY <3>1, <3>3, <1>1
    <3>5. j - 1 < e
      BY <3>1, <3>4, <1>1, DebuggerParameters
    <3>6. h + delta * ((j - 1) + 1) = h + j
      BY <1>1, <2>1, DebuggerParameters
    <3>7. Around(h + j) = h + j /\ h + j < n
      BY <1>1, <3>5, DebuggerParameters DEF Around
    <3> QED
      BY <3>6, <3>7 DEF Passed, h
  <2>2. CASE delta = -1
    <3>1. h > 0
      BY <1>1, <1>3, <2>2, DebuggerParameters DEF Below, h
    <3>2. h + delta * ((h - 1) + 1) = 0 /\ Around(0) = 0
      BY <1>1, <2>2, DebuggerParameters DEF Around
    <3>3. Passed(x, delta, h - 1) = 0
      BY <3>2 DEF Passed, h
    <3>4. Ends(x, delta, h)
      BY <1>3, <2>2, <3>1, <3>3 DEF Ends
    <3>5. ~(h < len)
      BY <1>1, <3>1, <3>4, DebuggerParameters
    <3>6. h + delta * ((j - 1) + 1) = h - j /\ h - j >= 0 /\ h - j < n
      BY <1>1, <1>3, <2>2, <3>5, DebuggerParameters
    <3>7. Around(h - j) = h - j
      BY <1>1, <3>6, DebuggerParameters DEF Around
    <3> QED
      BY <3>6, <3>7 DEF Passed, h
  <2> QED
    BY <2>1, <2>2
<1> QED
  BY <1>2, <1>3 DEF Looks, Recorded

LEMMA SearchedObeys ==
  ASSUME NEW x \in DebuggerState, x.pc = "command",
         NEW delta \in {-1, 1}, NEW junk
  PROVE  Obeys(x, Searched(x, delta, junk)) /\ Searched(x, delta, junk).pc = "command"
<1> DEFINE path   == Visited(x, delta)
           hit(j) == LET cur == Reading(x, path[j], junk)
                     IN  IF delta = 1 THEN cur >= x.stop_time
                         ELSE cur <= x.stop_time
           hits   == {j \in DOMAIN path : hit(j)}
           first  == CHOOSE j \in hits : \A l \in hits : j <= l
           how    == IF Below(x, delta) THEN "below" ELSE "goto"
           found  == ParseData([x EXCEPT !.hist_num_temp = path[first],
                                         !.i = path[first], !.stop_time = 0],
                               path[first], how)
           stays  == ParseData([x EXCEPT !.i = 0, !.stop_time = 0],
                               x.hist_num_temp, how)
           none   == [x EXCEPT !.i = x.history_num]
<1>1. /\ hits # {} => Searched(x, delta, junk) = found
      /\ hits = {} => Searched(x, delta, junk) \in {stays, none}
  BY DEF Searched, Below
<1>2. PICK len \in Slots :
        /\ path = [j \in 1..len |-> Passed(x, delta, j - 1)]
        /\ \A l \in 0..len - 1 : ~Ends(x, delta, l)
  BY VisitedIs
<1>3. how \in Ways \ {"frame"}
  BY DEF Ways
<1>4. x.hist_num_temp \in Slots /\ x.history_num \in Slots
  BY DEF DebuggerState, StateWith
<1>5. ASSUME hits # {} PROVE Obeys(x, found) /\ found.pc = "command"
  <2> DEFINE h == path[first]
  <2>1. hits \subseteq 1..len
    BY <1>2
  <2>2. hits \in SUBSET Nat
    BY <2>1, <1>2, DebuggerParameters
  <2>3. \E j \in hits : \A l \in hits : j <= l
    <3> HIDE DEF hits
    <3> QED
      BY <1>5, <2>2, LeastExists
  <2>4. first \in 1..len
    <3>1. first \in hits
      <4> HIDE DEF hits
      <4> QED
        BY <2>3
    <3> QED
      BY <2>1, <3>1
  <2>5. /\ h \in Slots
        /\ Looks(x) => Recorded(x, h) \/ "below" \in {how, x.screen.by}
    <3> HIDE DEF first, path
    <3>1. h = Passed(x, delta, first - 1)
      BY <1>2, <2>4
    <3> QED
      BY <1>2, <2>4, <3>1, VisitedRecorded
  <2> HIDE DEF h, how
  <2> QED
    BY <1>3, <2>5, LookingObeys DEF h
<1>6. Obeys(x, stays) /\ stays.pc = "command"
  <2>1. Looks(x) =>
           Recorded(x, x.hist_num_temp) \/ "below" \in {how, x.screen.by}
    BY DEF Looks
  <2> HIDE DEF how
  <2> QED
    BY <1>3, <1>4, <2>1, LookingObeys
<1>7. Obeys(x, none) /\ none.pc = "command"
  <2>1. x.history_num \in 0..NUM_HISTORY
    BY <1>4, DebuggerParameters
  <2> HIDE DEF Slots
  <2>2. none \in DebuggerState /\ none.pc = "command"
    BY <2>1 DEF DebuggerState, StateWith
  <2>3. SameRing(x, none) /\ SameScreen(x, none)
    BY DEF DebuggerState, StateWith, SameRing, SameScreen
  <2> HIDE DEF none
  <2> QED
    BY <2>2, <2>3 DEF Obeys
<1> HIDE DEF hits, found, stays, none
<1> QED
  BY <1>1, <1>5, <1>6, <1>7

LEMMA CalmTwice ==
  ASSUME NEW x, NEW y, NEW z, Calm(x, y), Calm(y, z)
  PROVE  Calm(x, z)
BY DEF Calm, SameRing, SameScreen

LEMMA CalmObeys ==
  ASSUME NEW x, NEW y, Calm(x, y)
  PROVE  Obeys(x, y)
BY DEF Calm, Obeys

\* 'g' and 'c': look through the ring, and run on if the time is not there.
LEMMA GotoObeys ==
  ASSUME NEW x \in DebuggerState, x.pc = "command",
         NEW stop \in Nat, NEW bycycle \in BOOLEAN, NEW junk
  PROVE  Obeys(x, Goto(x, stop, bycycle, junk))
<1> DEFINE y     == [x EXCEPT !.stop_time = stop, !.cycle_flag = bycycle]
           delta == IF stop > Reading(y, y.hist_num_temp, junk) THEN 1 ELSE -1
           z     == IF CMod(y.hist_num_temp + delta) # y.history_num
                    THEN Searched(y, delta, junk) ELSE y
           gives == z.i = z.history_num /\ (delta = -1 \/ z.done_received)
           left  == IF gives THEN 0 ELSE z.stop_time
           w     == [z EXCEPT !.stop_time = left]
           v     == [RunOn(w) EXCEPT !.goto_flag = TRUE]
<1>1. Goto(x, stop, bycycle, junk) \in {Leave(v, junk), w}
  BY DEF Goto
<1>2. Calm(x, y) /\ y.pc = "command"
  BY SwitchesAreCalm
<1>3. delta \in {-1, 1}
  OBVIOUS
<1>4. y \in DebuggerState
  BY <1>2 DEF Calm
<1>5. Obeys(x, z) /\ z.pc = "command"
  <2> HIDE DEF y, delta
  <2>1. Obeys(y, Searched(y, delta, junk)) /\ Searched(y, delta, junk).pc = "command"
    BY <1>2, <1>3, <1>4, SearchedObeys
  <2>2. Obeys(x, Searched(y, delta, junk)) /\ Obeys(x, y)
    BY <1>2, <2>1, CalmThenObeys, CalmObeys
  <2> QED
    BY <1>2, <2>1, <2>2
<1> HIDE DEF z
<1>6. z \in DebuggerState
  BY <1>5 DEF Obeys
<1>7. left \in Nat
  BY <1>6 DEF DebuggerState, StateWith
<1> HIDE DEF left
<1>8. Calm(z, w) /\ w.pc = "command"
  <2> HIDE DEF Slots
  <2>1. w \in DebuggerState /\ w.pc = "command"
    BY <1>5, <1>6, <1>7 DEF DebuggerState, StateWith
  <2>2. SameRing(z, w) /\ SameScreen(z, w)
    BY <1>6 DEF DebuggerState, StateWith, SameRing, SameScreen
  <2> HIDE DEF w
  <2> QED
    BY <2>1, <2>2 DEF Calm
<1> HIDE DEF w
<1>9. Calm(w, v)
  <2>1. w \in DebuggerState
    BY <1>8 DEF Calm
  <2> HIDE DEF Slots
  <2>2. v \in DebuggerState /\ v.pc = "command"
    BY <1>8, <2>1 DEF RunOn, DebuggerState, StateWith
  <2>3. SameRing(w, v) /\ SameScreen(w, v)
    BY <2>1 DEF RunOn, DebuggerState, StateWith, SameRing, SameScreen
  <2> HIDE DEF v
  <2> QED
    BY <2>2, <2>3 DEF Calm
<1> HIDE DEF v
<1>10. Calm(v, Leave(v, junk))
  BY <1>9, LeaveIsCalm DEF Calm
<1>11. Obeys(x, w)
  BY <1>5, <1>8, ObeysThenCalm
<1>12. Obeys(x, Leave(v, junk))
  BY <1>9, <1>10, <1>11, ObeysThenCalm
<1> QED
  BY <1>1, <1>11, <1>12

\* 'r', and 'p' while the program waits: run on, or show where it is.
LEMMA SwitchesObey ==
  ASSUME NEW x \in DebuggerState, x.pc = "command", NEW junk,
         NEW how \in {"step", "pause"}
  PROVE  /\ Obeys(x, Leave(RunOn(x), junk))
         /\ Obeys(x, Leave(x, junk))
         /\ Obeys(x, ParseData(StopRunning(x), x.hist_num_temp, how))
         /\ Obeys(x, Leave(ParseData(StopRunning(x), x.hist_num_temp, how), junk))
<1>1. Obeys(x, Leave(RunOn(x), junk)) /\ Obeys(x, Leave(x, junk))
  <2>1. Calm(x, RunOn(x)) /\ Calm(RunOn(x), Leave(RunOn(x), junk))
        /\ Calm(x, Leave(x, junk))
    BY SwitchesAreCalm, LeaveIsCalm DEF Calm
  <2> QED
    BY <2>1, CalmTwice, CalmObeys
<1> DEFINE z == StopRunning(x)
           h == x.hist_num_temp
           y == ParseData(z, h, how)
<1>2. h \in Slots /\ how \in Ways \ {"frame"}
  BY DEF DebuggerState, StateWith, Ways
<1>3. /\ z \in DebuggerState /\ SameRing(x, z) /\ z.pc = x.pc
      /\ SameScreen(x, z)
  BY SwitchesAreCalm DEF Calm
<1>4. /\ y \in DebuggerState /\ SameRing(x, y) /\ y.pc = x.pc
      /\ Draws(x, y, h, how)
  <2> HIDE DEF z
  <2> QED
    BY <1>2, <1>3, Looking DEF SameScreen
<1> HIDE DEF y
<1>5. Obeys(x, y)
  BY <1>2, <1>4 DEF Obeys, Looks
<1>6. Calm(y, Leave(y, junk))
  BY <1>4, LeaveIsCalm
<1> QED
  BY <1>1, <1>5, <1>6, ObeysThenCalm DEF y

\* Whatever the user presses, the program obeys.
LEMMA PressObeys ==
  ASSUME d \in DebuggerState, d.pc = "command", Press \/ RunThrough
  PROVE  Obeys(d, d')
<1>1. CASE Press
  <2>1. PICK junk \in Junk :
          \/ d' = NextEdge(d, junk)
          \/ d' = PreviousEdge(d)
          \/ d' = Leave(RunOn(d), junk)
          \/ d' = ParseData(StopRunning(d), d.hist_num_temp, "step")
          \/ \E stop \in Stops, bycycle \in BOOLEAN :
               d' = Goto(d, stop, bycycle, junk)
    BY <1>1 DEF Press
  <2>2. CASE d' = NextEdge(d, junk)
    BY <2>2, NextEdgeObeys
  <2>3. CASE d' = PreviousEdge(d)
    BY <2>3, PreviousEdgeObeys
  <2>4. CASE \/ d' = Leave(RunOn(d), junk)
             \/ d' = ParseData(StopRunning(d), d.hist_num_temp, "step")
    BY <2>4, SwitchesObey
  <2>5. CASE \E stop \in Stops, bycycle \in BOOLEAN :
               d' = Goto(d, stop, bycycle, junk)
    BY <2>5, GotoObeys, DebuggerParameters
  <2> QED
    BY <2>1, <2>2, <2>3, <2>4, <2>5
<1>2. CASE RunThrough
  <2>1. PICK junk \in Junk :
          \/ d' = Leave(d, junk)
          \/ d' = Leave(ParseData(StopRunning(d), d.hist_num_temp, "pause"), junk)
    BY <1>2 DEF RunThrough
  <2> QED
    BY <2>1, SwitchesObey
<1> QED
  BY <1>1, <1>2

-----------------------------------------------------------------------------
(* What the ring and the screen hold while n lines of edge R + 1 have been *)
(* read, and R edges before it.                                            *)

\* Every slot holds one of the last snapshots, in order, but for the one
\* that is being filled.
Ring(x, n, R) ==
    /\ x.time_wrapped <=> R >= NUM_HISTORY
    /\ ~x.time_wrapped => x.history_num = R
    /\ \A j \in 1..(IF n = 0 THEN NUM_HISTORY ELSE NUM_HISTORY - 1) :
          x.slots[Back(x.history_num, j)]
             = Snapshot(IF R >= j THEN R - j + 1 ELSE 0)

\* The n lines are in the slot, and the counter of the group is at the next.
Filling(x, n, R) ==
    /\ n >= 1 => x.slots[x.history_num].c = R + 1
    /\ n >= 2 => x.slots[x.history_num].t = R + 1
    /\ \A r \in 1..NumRegs :
          r <= n - 2 => x.slots[x.history_num].regs[r] = R + 1
    /\ x.reg_num = IF n <= 2 THEN 0 ELSE n - 2
    /\ x.setup_registers <=> R >= 1
    /\ x.known = IF x.setup_registers THEN NumRegs ELSE x.reg_num

\* The screen shows a snapshot that has been received, with its clock.
Shows(x, R) ==
    /\ \E k \in 0..R : /\ x.screen.shown = Snapshot(k)
                       /\ k = 0 => x.screen.by \in {"setup", "below"}
    /\ x.screen.clock \in {Undrawn, x.cur_clock_val}
    /\ x.cur_clock_val = ClockOf(x.screen.shown)

\* Slot old holds what is on the screen, unless the ring has gone round, and
\* will go on holding it while the slot to be written next is filled.
Keeps(x, R) ==
    x.screen.shown # Nothing =>
      IF x.pc = "read"
      THEN \/ x.old # x.history_num /\ x.slots[x.old] = x.screen.shown
           \/ x.screen.shown.t + NUM_HISTORY <= R + 1
      ELSE \/ x.slots[x.old] = x.screen.shown
           \/ x.screen.shown.t + NUM_HISTORY <= R

\* What was highlighted had changed.
Highlights(x, R) ==
    (x.screen.prev # Nothing /\ x.screen.prev.t + NUM_HISTORY > R)
      => x.screen.against = x.screen.prev

Screen(x, R) ==
    /\ x.old \in Slots /\ Shows(x, R) /\ Keeps(x, R) /\ Highlights(x, R)
    /\ x.pc = "command" => Looks(x)

LEMMA SnapshotFields ==
  ASSUME NEW k \in Nat
  PROVE  /\ Snapshot(k).t = k /\ Snapshot(k).c = k
         /\ Snapshot(k) = Nothing <=> k = 0
         /\ ClockOf(Snapshot(k)) = k % 2
<1>1. Snapshot(k).t = k /\ Snapshot(k).c = k
  BY DEF Snapshot
<1>2. Nothing.t = 0
  BY DEF Nothing, Snapshot
<1> QED
  BY <1>1, <1>2 DEF Nothing, ClockOf

\* Every slot is some number of places behind the next to be written.
LEMMA SlotsHold ==
  ASSUME NEW x \in DebuggerState, NEW R \in Nat, Ring(x, 0, R), NEW h \in Slots
  PROVE  \E k \in 0..R : /\ x.slots[h] = Snapshot(k)
                         /\ Recorded(x, h) => k > 0
<1> DEFINE n == x.history_num
           j == IF h < n THEN n - h ELSE n - h + NUM_HISTORY
           k == IF R >= j THEN R - j + 1 ELSE 0
<1>1. n \in Slots
  BY DEF DebuggerState, StateWith
<1> HIDE DEF n
<1>2. j \in 1..NUM_HISTORY /\ Back(n, j) = h
  BY <1>1, DebuggerParameters DEF Back
<1>3. x.slots[h] = Snapshot(k)
  BY <1>2 DEF Ring, n
<1>4. k \in 0..R
  BY <1>2, DebuggerParameters
<1>5. ASSUME Recorded(x, h) PROVE k > 0
  <2>1. CASE x.time_wrapped
    <3>1. R >= j
      BY <1>2, <2>1, DebuggerParameters DEF Ring
    <3> QED
      BY <1>2, <3>1, DebuggerParameters
  <2>2. CASE ~x.time_wrapped
    <3>1. n = R /\ h < n
      BY <1>5, <2>2 DEF Ring, Recorded, n
    <3>2. R >= j /\ j \in Nat
      BY <1>1, <3>1, <1>2, DebuggerParameters
    <3> QED
      BY <3>2
  <2> QED
    BY <2>1, <2>2
<1> QED
  BY <1>3, <1>4, <1>5

\* The slot to be written next holds the oldest snapshot of a full ring.
LEMMA OldestHere ==
  ASSUME NEW x \in DebuggerState, NEW R \in Nat, Ring(x, 0, R),
         x.slots[x.history_num] # Nothing
  PROVE  x.slots[x.history_num].t + NUM_HISTORY <= R + 1
<1>1. x.history_num \in Slots /\ NUM_HISTORY \in 1..NUM_HISTORY
  BY DebuggerParameters DEF DebuggerState, StateWith
<1>2. Back(x.history_num, NUM_HISTORY) = x.history_num
  BY <1>1, DebuggerParameters DEF Back
<1>3. x.slots[x.history_num]
        = Snapshot(IF R >= NUM_HISTORY THEN R - NUM_HISTORY + 1 ELSE 0)
  BY <1>1, <1>2 DEF Ring
<1>4. R >= NUM_HISTORY
  BY <1>3 DEF Nothing
<1>5. R - NUM_HISTORY + 1 \in Nat
  BY <1>4, DebuggerParameters
<1> QED
  BY <1>3, <1>4, <1>5, SnapshotFields, DebuggerParameters

\* The commands leave the ring as it is, and the screen shows one of its
\* snapshots.
LEMMA CommandsKeep ==
  ASSUME NEW x \in DebuggerState, NEW y, NEW R \in Nat, x.pc = "command",
         Ring(x, 0, R), Filling(x, 0, R), Screen(x, R), Obeys(x, y)
  PROVE  Ring(y, 0, R) /\ Filling(y, 0, R) /\ Screen(y, R)
<1>1. /\ y \in DebuggerState /\ SameRing(x, y) /\ y.pc \in {"command", "read"}
  BY DEF Obeys
<1>2. Ring(y, 0, R)
  BY <1>1 DEF Ring, SameRing
<1>3. Filling(y, 0, R)
  BY <1>1 DEF Filling, SameRing
<1>4. ASSUME y.old \in Slots,
             y.screen.shown # Nothing =>
               \/ y.slots[y.old] = y.screen.shown
               \/ y.screen.shown.t + NUM_HISTORY <= R
      PROVE  Keeps(y, R)
  <2>1. y.screen.shown.t \in Nat
    BY <1>1 DEF DebuggerState, StateWith, ScreenType, SnapshotType
  <2>2. CASE y.old = y.history_num
    <3>1. y.slots[y.old] = y.screen.shown /\ y.screen.shown # Nothing
             => y.screen.shown.t + NUM_HISTORY <= R + 1
      BY <1>1, <1>2, <2>2, OldestHere
    <3> QED
      BY <1>4, <2>1, <3>1, DebuggerParameters DEF Keeps
  <2>3. CASE y.old # y.history_num
    BY <1>4, <2>1, <2>3, DebuggerParameters DEF Keeps
  <2> QED
    BY <2>2, <2>3
<1>5. CASE SameScreen(x, y)
  <2>1. Shows(y, R) /\ Highlights(y, R) /\ y.old \in Slots
    BY <1>5 DEF Screen, Shows, Highlights, SameScreen
  <2>2. Keeps(y, R)
    BY <1>1, <1>4, <1>5, <2>1 DEF Screen, Keeps, SameScreen, SameRing
  <2>3. Looks(y)
    BY <1>1, <1>5 DEF Screen, Looks, Recorded, SameScreen, SameRing
  <2> QED
    BY <1>2, <1>3, <2>1, <2>2, <2>3 DEF Screen
<1>6. CASE ~SameScreen(x, y)
  <2>1. PICK h \in Slots, how \in Ways \ {"frame"} :
          /\ Draws(x, y, h, how)
          /\ Recorded(x, h) \/ "below" \in {how, x.screen.by}
    BY <1>6 DEF Obeys, Screen
  <2>2. /\ SlotAt(x, h) = x.slots[h] /\ SlotAt(x, x.old) = x.slots[x.old]
    BY DEF Screen, SlotAt
  <2>3. /\ y.screen.shown = x.slots[h] /\ y.screen.against = x.slots[x.old]
        /\ y.screen.prev = x.screen.shown
        /\ y.screen.clock = UpdateClock(x, ClockOf(x.slots[h]))
        /\ y.screen.by = IF x.screen.by = "below" THEN "below" ELSE how
        /\ y.old = h /\ y.hist_num_temp = h
        /\ y.cur_clock_val = ClockOf(x.slots[h])
    BY <2>1, <2>2 DEF Draws, Drawn
  <2>4. Shows(y, R)
    <3>1. PICK k \in 0..R : x.slots[h] = Snapshot(k) /\ (Recorded(x, h) => k > 0)
      BY SlotsHold
    <3>2. k = 0 => y.screen.by = "below"
      BY <2>1, <2>3, <3>1
    <3>3. y.screen.clock \in {Undrawn, y.cur_clock_val}
      BY <2>3 DEF UpdateClock, Screen, Shows
    <3> QED
      BY <2>3, <3>1, <3>2, <3>3 DEF Shows
  <2>5. Keeps(y, R)
    BY <1>1, <1>4, <2>3 DEF SameRing
  <2>6. Highlights(y, R)
    <3>1. x.screen.shown # Nothing =>
             \/ x.slots[x.old] = x.screen.shown
             \/ x.screen.shown.t + NUM_HISTORY <= R
      BY DEF Screen, Keeps
    <3>2. x.screen.shown.t \in Nat
      BY DEF DebuggerState, StateWith, ScreenType, SnapshotType
    <3> QED
      BY <2>3, <3>1, <3>2, DebuggerParameters DEF Highlights
  <2>7. Looks(y)
    BY <1>1, <2>1, <2>3 DEF Looks, Recorded, SameRing
  <2> QED
    BY <1>2, <1>3, <2>3, <2>4, <2>5, <2>6, <2>7 DEF Screen
<1> QED
  BY <1>5, <1>6

-----------------------------------------------------------------------------
\* Reading a snapshot: line m of edge k, and the lines from n + 1.

LineAt(k, m) ==
    Line(IF m = 1 THEN "c" ELSE IF m = 2 THEN "t"
         ELSE IF m = NumRegs + 3 THEN "break" ELSE "f", k)

Rest(k, n) == [j \in 1..(NumRegs + 3 - n) |-> LineAt(k, n + j)]

\* The slot to be written next is none of those behind it, but the last.
LEMMA BackDiffers ==
  ASSUME NEW h \in Slots, NEW j \in 1..(NUM_HISTORY - 1)
  PROVE  Back(h, j) # h /\ Back(h, j) \in Slots
<1>1. /\ j \in Nat /\ h \in Nat /\ NUM_HISTORY \in Nat
      /\ j >= 1 /\ j < NUM_HISTORY /\ h < NUM_HISTORY
  BY DebuggerParameters
<1> QED
  BY <1>1 DEF Back

\* A line goes to the slot that is being filled.
WritesSlot(x, y) ==
    /\ y \in DebuggerState /\ y.pc = x.pc
    /\ y.history_num = x.history_num /\ y.time_wrapped = x.time_wrapped
    /\ y.done_received = x.done_received
    /\ y.setup_registers = x.setup_registers
    /\ SameScreen(x, y)
    /\ \A h \in Slots \ {x.history_num} : y.slots[h] = x.slots[h]

LEMMA WritingKeeps ==
  ASSUME NEW x \in DebuggerState, NEW y, NEW R \in Nat, NEW n \in Nat,
         x.pc = "read", Ring(x, n, R), Screen(x, R), WritesSlot(x, y)
  PROVE  Ring(y, n + 1, R) /\ Screen(y, R)
<1>1. x.history_num \in Slots
  BY DEF DebuggerState, StateWith
<1>2. Ring(y, n + 1, R)
  <2>1. n + 1 # 0
    OBVIOUS
  <2>2. ASSUME NEW j \in 1..(NUM_HISTORY - 1)
        PROVE  y.slots[Back(y.history_num, j)]
                 = Snapshot(IF R >= j THEN R - j + 1 ELSE 0)
    <3>1. x.slots[Back(x.history_num, j)]
            = Snapshot(IF R >= j THEN R - j + 1 ELSE 0)
      BY DebuggerParameters DEF Ring
    <3>2. Back(x.history_num, j) # x.history_num /\ Back(x.history_num, j) \in Slots
      BY <1>1, BackDiffers
    <3> QED
      BY <3>1, <3>2 DEF WritesSlot
  <2> QED
    BY <2>1, <2>2 DEF Ring, WritesSlot
<1>3. Shows(y, R) /\ Highlights(y, R) /\ y.old \in Slots /\ y.pc = "read"
  BY DEF Screen, Shows, Highlights, WritesSlot, SameScreen
<1>4. Keeps(y, R)
  BY <1>3 DEF Screen, Keeps, WritesSlot, SameScreen
<1> QED
  BY <1>2, <1>3, <1>4 DEF Screen

\* "c" and "t": a field of the slot.
LEMMA StoredIs ==
  ASSUME NEW x \in DebuggerState, NEW k \in Nat, NEW field \in {"c", "t"}
  PROVE  LET y == Stored(x, field, k)
             n == x.history_num
         IN  /\ WritesSlot(x, y)
             /\ field = "c" => y.slots[n].c = k
             /\ field = "t" => y.slots[n].t = k /\ y.slots[n].c = x.slots[n].c
             /\ y.reg_num = x.reg_num /\ y.known = x.known
<1> DEFINE y == Stored(x, field, k)
           n == x.history_num
           v == [x.slots[n] EXCEPT ![field] = k]
<1>1. n \in Slots /\ x.slots[n] \in SnapshotType /\ x.slots \in [Slots -> SnapshotType]
  BY DEF DebuggerState, StateWith
<1>2. /\ v \in SnapshotType
      /\ field = "c" => v.c = k
      /\ field = "t" => v.t = k /\ v.c = x.slots[n].c
  <2> HIDE DEF n
  <2> QED
    BY <1>1 DEF SnapshotType
<1>3. y = [x EXCEPT !.slots = [x.slots EXCEPT ![n] = v]]
  BY DEF Stored, DebuggerState, StateWith
<1> HIDE DEF v, n, y
<1> DEFINE f == [x.slots EXCEPT ![n] = v]
<1>4. f \in [Slots -> SnapshotType] /\ f[n] = v /\ \A h \in Slots \ {n} : f[h] = x.slots[h]
  BY <1>1, <1>2
<1> HIDE DEF f, Slots
<1>5. y \in DebuggerState /\ y.slots = f
  BY <1>3, <1>4 DEF f, DebuggerState, StateWith
<1>6. /\ y.pc = x.pc
      /\ y.history_num = x.history_num /\ y.time_wrapped = x.time_wrapped
      /\ y.done_received = x.done_received
      /\ y.setup_registers = x.setup_registers
      /\ SameScreen(x, y) /\ y.reg_num = x.reg_num /\ y.known = x.known
  BY <1>3 DEF DebuggerState, StateWith, SameScreen
<1>7. WritesSlot(x, y)
  BY <1>4, <1>5, <1>6 DEF WritesSlot, n
<1> QED
  BY <1>2, <1>4, <1>5, <1>6, <1>7 DEF y, n

\* "f": the next signal of the group.
LEMMA StoreRegisterIs ==
  ASSUME NEW x \in DebuggerState, NEW k \in Nat, x.reg_num < NumRegs,
         x.known = IF x.setup_registers THEN NumRegs ELSE x.reg_num
  PROVE  LET y == StoreRegister(x, k)
             n == x.history_num
         IN  /\ WritesSlot(x, y)
             /\ y.slots[n].c = x.slots[n].c /\ y.slots[n].t = x.slots[n].t
             /\ \A r \in 1..NumRegs :
                  y.slots[n].regs[r] = IF r = x.reg_num + 1 THEN k
                                       ELSE x.slots[n].regs[r]
             /\ y.reg_num = x.reg_num + 1
             /\ y.known = IF x.setup_registers THEN NumRegs ELSE x.reg_num + 1
<1> DEFINE y == StoreRegister(x, k)
           n == x.history_num
           s == x.slots[n]
           room == IF x.setup_registers THEN x.known ELSE x.known + 1
           reg == x.reg_num + 1
           regs == [r \in 1..NumRegs |-> IF r = reg /\ r <= room THEN k ELSE s.regs[r]]
           v == [s EXCEPT !.regs = regs]
           f == [x.slots EXCEPT ![n] = v]
<1>1. n \in Slots /\ s \in SnapshotType /\ x.slots \in [Slots -> SnapshotType]
  BY DEF DebuggerState, StateWith
<1>2. /\ reg \in 0..NumRegs /\ room \in 0..NumRegs /\ reg <= room
      /\ room = IF x.setup_registers THEN NumRegs ELSE x.reg_num + 1
  BY DebuggerParameters DEF DebuggerState, StateWith
<1>3. /\ regs \in [1..NumRegs -> Nat]
      /\ \A r \in 1..NumRegs : regs[r] = IF r = reg THEN k ELSE s.regs[r]
  <2> HIDE DEF s, reg, room
  <2>1. s.regs \in [1..NumRegs -> Nat]
    BY <1>1 DEF SnapshotType
  <2> QED
    BY <1>2, <2>1, DebuggerParameters
<1>4. y = [x EXCEPT !.known = room, !.reg_num = reg, !.slots = f]
  BY DEF StoreRegister, DebuggerState, StateWith
<1> HIDE DEF y, n, s, room, regs
<1>5. v \in SnapshotType /\ v.c = s.c /\ v.t = s.t /\ v.regs = regs
  BY <1>1, <1>3 DEF SnapshotType
<1> HIDE DEF v
<1>6. f \in [Slots -> SnapshotType] /\ f[n] = v /\ \A h \in Slots \ {n} : f[h] = x.slots[h]
  BY <1>1, <1>5
<1> HIDE DEF f, Slots, reg
<1>7. y \in DebuggerState /\ y.slots = f /\ y.reg_num = reg /\ y.known = room
  BY <1>2, <1>4, <1>6 DEF DebuggerState, StateWith
<1>8. /\ y.pc = x.pc
      /\ y.history_num = x.history_num /\ y.time_wrapped = x.time_wrapped
      /\ y.done_received = x.done_received
      /\ y.setup_registers = x.setup_registers
      /\ SameScreen(x, y)
  BY <1>4 DEF DebuggerState, StateWith, SameScreen
<1>9. WritesSlot(x, y)
  BY <1>6, <1>7, <1>8 DEF WritesSlot, n
<1> QED
  BY <1>2, <1>3, <1>5, <1>6, <1>7, <1>9 DEF y, n, s, reg

\* Line n + 1 of a snapshot that is not the last.
LEMMA LineKeeps ==
  ASSUME NEW x \in DebuggerState, NEW R \in Nat, NEW n \in 0..(NumRegs + 1),
         x.pc = "read", Ring(x, n, R), Filling(x, n, R), Screen(x, R)
  PROVE  LET y == ProcessInput(x, LineAt(R + 1, n + 1))
         IN  /\ WritesSlot(x, y)
             /\ Ring(y, n + 1, R) /\ Filling(y, n + 1, R) /\ Screen(y, R)
<1> DEFINE line == LineAt(R + 1, n + 1)
           y == ProcessInput(x, line)
           h == x.history_num
<1>1. n \in Nat /\ NumRegs \in Nat /\ NumRegs > 0 /\ n <= NumRegs + 1
  BY DebuggerParameters
<1>2. ASSUME WritesSlot(x, y) PROVE Ring(y, n + 1, R) /\ Screen(y, R)
  <2> HIDE DEF y
  <2> QED
    BY <1>1, <1>2, WritingKeeps
<1>3. CASE n = 0
  <2>1. y = Stored(x, "c", R + 1)
    BY <1>1, <1>3 DEF LineAt, Line, ProcessInput
  <2>2. /\ WritesSlot(x, y) /\ y.slots[h].c = R + 1
        /\ y.reg_num = x.reg_num /\ y.known = x.known
    BY <2>1, StoredIs
  <2> HIDE DEF y
  <2>3. Filling(y, n + 1, R)
    BY <1>1, <1>3, <2>2 DEF Filling, WritesSlot
  <2> QED
    BY <1>2, <2>2, <2>3 DEF y
<1>4. CASE n = 1
  <2>1. y = Stored(x, "t", R + 1)
    BY <1>1, <1>4 DEF LineAt, Line, ProcessInput
  <2>2. /\ WritesSlot(x, y) /\ y.slots[h].t = R + 1
        /\ y.slots[h].c = x.slots[h].c
        /\ y.reg_num = x.reg_num /\ y.known = x.known
    BY <2>1, StoredIs
  <2> HIDE DEF y
  <2>3. Filling(y, n + 1, R)
    BY <1>1, <1>4, <2>2 DEF Filling, WritesSlot
  <2> QED
    BY <1>2, <2>2, <2>3 DEF y
<1>5. CASE n >= 2
  <2>1. y = StoreRegister(x, R + 1)
    <3>1. line = Line("f", R + 1)
      BY <1>1, <1>5 DEF LineAt
    <3> QED
      BY <3>1 DEF Line, ProcessInput
  <2>2. /\ x.reg_num = n - 2 /\ x.reg_num < NumRegs
        /\ x.known = IF x.setup_registers THEN NumRegs ELSE x.reg_num
    BY <1>1, <1>5 DEF Filling
  <2>3. /\ WritesSlot(x, y)
        /\ y.slots[h].c = x.slots[h].c /\ y.slots[h].t = x.slots[h].t
        /\ \A r \in 1..NumRegs :
             y.slots[h].regs[r] = IF r = x.reg_num + 1 THEN R + 1
                                  ELSE x.slots[h].regs[r]
        /\ y.reg_num = x.reg_num + 1
        /\ y.known = IF x.setup_registers THEN NumRegs ELSE x.reg_num + 1
    BY <2>1, <2>2, StoreRegisterIs
  <2> HIDE DEF y
  <2>4. y.history_num = h /\ y.setup_registers = x.setup_registers
    BY <2>3 DEF WritesSlot
  <2>5. \A r \in 1..NumRegs : r <= n - 1 => y.slots[h].regs[r] = R + 1
    BY <1>1, <2>2, <2>3 DEF Filling
  <2>6. y.reg_num = n - 1
    BY <1>1, <2>2, <2>3
  <2>7. y.slots[h].c = R + 1 /\ y.slots[h].t = R + 1
    BY <1>1, <1>5, <2>3 DEF Filling
  <2>8. y.known = IF y.setup_registers THEN NumRegs ELSE y.reg_num
    BY <2>3, <2>4
  <2>9. Filling(y, n + 1, R)
    <3>1. n + 1 >= 2 /\ (n + 1) - 2 = n - 1 /\ (n + 1 <= 2 => n - 1 = 0)
      BY <1>1, <1>5
    <3>2. y.setup_registers <=> R >= 1
      BY <2>4 DEF Filling
    <3> QED
      BY <2>4, <2>5, <2>6, <2>7, <2>8, <3>1, <3>2 DEF Filling
  <2> QED
    BY <1>2, <2>3, <2>9 DEF y
<1> QED
  BY <1>1, <1>3, <1>4, <1>5

-----------------------------------------------------------------------------
\* A snapshot is complete, or the simulation has ended.

Within == Slots \cup {-1}

LEMMA EndedTyped ==
  ASSUME NEW x \in DebuggerState
  PROVE  /\ Ended(x) \in StateWith(Within)
         /\ Ended(x).done_received = x.done_received
         /\ ~x.done_received => Ended(x) = x
<1> DEFINE z == [StopRunning(x) EXCEPT !.history_num = CMod(x.history_num - 1)]
<1>1. x.history_num \in Slots
  BY DEF DebuggerState, StateWith
<1>2. CMod(x.history_num - 1) \in Within /\ Slots \subseteq Within
  BY <1>1, Neighbours, DebuggerParameters DEF Within
<1>3. x \in StateWith(Within)
  <2> HIDE DEF Slots
  <2> QED
    BY <1>2 DEF DebuggerState, StateWith
<1>4. z \in StateWith(Within) /\ z.done_received = x.done_received
  <2> HIDE DEF Slots
  <2> QED
    BY <1>2, <1>3 DEF StopRunning, StateWith
<1> HIDE DEF z
<1> QED
  BY <1>3, <1>4 DEF Ended, z

LEMMA DisplayedTyped ==
  ASSUME NEW x \in StateWith(Within)
  PROVE  /\ Displayed(x) \in StateWith(Within)
         /\ Displayed(x).done_received = x.done_received
<1> DEFINE h == x.history_num
           y == ParseData(x, h, "frame")
<1>1. h \in Int
  BY DebuggerParameters DEF StateWith, Within
<1>2. Drawn(x, h, "frame") \in ScreenType /\ ClockOf(SlotAt(x, h)) \in 0..1
  BY DrawnTyped DEF Ways
<1>3. y \in StateWith(Within) /\ y.done_received = x.done_received
  <2> HIDE DEF Slots, h
  <2> QED
    BY <1>1, <1>2 DEF ParseData, StateWith
<1> HIDE DEF y
<1> QED
  BY <1>3 DEF Displayed, y

LEMMA ForwardIs ==
  ASSUME NEW x \in StateWith(Within)
  PROVE  LET y == Forward(x)
         IN  /\ y \in DebuggerState /\ y.done_received = x.done_received
             /\ y.time_wrapped <=> x.time_wrapped \/ x.history_num + 1 = NUM_HISTORY
             /\ x.history_num \in Slots => y.history_num = Succ(x.history_num)
             /\ y.slots = x.slots /\ y.setup_registers = x.setup_registers
             /\ y.reg_num = x.reg_num /\ y.known = x.known
             /\ y.old = x.old /\ y.cur_clock_val = x.cur_clock_val
             /\ y.screen = x.screen
<1> DEFINE h == x.history_num
           g == CMod(h + 1)
           w == x.time_wrapped \/ h + 1 = NUM_HISTORY
           y == [x EXCEPT !.history_num = g, !.time_wrapped = w]
<1>1. h \in Within
  BY DEF StateWith
<1>2. g \in Slots /\ (h \in Slots => g = Succ(h))
  <2>1. CASE h \in Slots
    BY <2>1, Neighbours
  <2>2. CASE h \notin Slots
    <3>1. h + 1 = 0 /\ 0 \in Slots
      BY <1>1, <2>2, DebuggerParameters DEF Within
    <3>2. CMod(0) = 0
      BY <3>1, Remainders DEF CMod
    <3> QED
      BY <2>2, <3>1, <3>2
  <2> QED
    BY <2>1, <2>2
<1>3. w \in BOOLEAN
  OBVIOUS
<1>4. Forward(x) = y
  BY DEF Forward
<1> HIDE DEF g, w, h
<1>5. /\ y \in DebuggerState /\ y.done_received = x.done_received
      /\ y.history_num = g /\ y.time_wrapped = w
      /\ y.slots = x.slots /\ y.setup_registers = x.setup_registers
      /\ y.reg_num = x.reg_num /\ y.known = x.known
      /\ y.old = x.old /\ y.cur_clock_val = x.cur_clock_val
      /\ y.screen = x.screen
  <2> HIDE DEF Slots
  <2> QED
    BY <1>2, <1>3 DEF DebuggerState, StateWith
<1> HIDE DEF y
<1> QED
  BY <1>2, <1>4, <1>5 DEF w, h

\* The state in which the debugger waits for a command.
LEMMA FrameIs ==
  ASSUME NEW x \in DebuggerState
  PROVE  LET y == Forward(Displayed(Ended(x)))
             z == Frame(x)
         IN  /\ z \in DebuggerState /\ z.pc = "command"
             /\ z.done_received = x.done_received
             /\ SameRing(y, z)
             /\ z.old = y.old /\ z.cur_clock_val = y.cur_clock_val
             /\ z.screen = y.screen
             /\ z.hist_num_temp = IF y.history_num = 0 THEN NUM_HISTORY - 1
                                  ELSE y.history_num - 1
<1> DEFINE y == Forward(Displayed(Ended(x)))
           t == Present(y)
           z == [y EXCEPT !.hist_num_temp = t, !.pc = "command"]
<1>1. y \in DebuggerState /\ y.done_received = x.done_received
  <2>1. /\ Displayed(Ended(x)) \in StateWith(Within)
        /\ Displayed(Ended(x)).done_received = x.done_received
    BY EndedTyped, DisplayedTyped
  <2> QED
    BY <2>1, ForwardIs
<1>2. Frame(x) = z
  BY DEF Frame
<1> HIDE DEF y
<1>3. /\ t = IF y.history_num = 0 THEN NUM_HISTORY - 1 ELSE y.history_num - 1
      /\ t \in Slots
  <2>1. y.history_num \in Slots
    BY <1>1 DEF DebuggerState, StateWith
  <2> QED
    BY <2>1, Neighbours, DebuggerParameters DEF Present
<1> HIDE DEF t, Slots
<1>4. z \in DebuggerState /\ z.pc = "command" /\ z.hist_num_temp = t
  BY <1>1, <1>3 DEF DebuggerState, StateWith
<1>5. /\ SameRing(y, z) /\ z.done_received = y.done_received
      /\ z.old = y.old /\ z.cur_clock_val = y.cur_clock_val
      /\ z.screen = y.screen
  BY <1>1 DEF DebuggerState, StateWith, SameRing
<1> HIDE DEF z
<1> QED
  BY <1>1, <1>2, <1>3, <1>4, <1>5 DEF y

\* The ring goes on by a slot that holds the whole of its snapshot.
LEMMA RingGoesOn ==
  ASSUME NEW x \in DebuggerState, NEW y \in DebuggerState, NEW R \in Nat,
         NEW n \in Nat, Ring(x, n, R),
         y.slots = x.slots, x.slots[x.history_num] = Snapshot(R + 1),
         y.history_num = Succ(x.history_num),
         y.time_wrapped <=> x.time_wrapped \/ x.history_num + 1 = NUM_HISTORY
  PROVE  Ring(y, 0, R + 1)
<1> DEFINE h == x.history_num
<1>1. h \in Slots
  BY DEF DebuggerState, StateWith
<1>2. y.time_wrapped <=> R + 1 >= NUM_HISTORY
  BY <1>1, DebuggerParameters DEF Ring
<1>3. ~y.time_wrapped => y.history_num = R + 1
  BY <1>1, DebuggerParameters DEF Ring, Succ
<1> HIDE DEF h
<1>4. ASSUME NEW j \in 1..NUM_HISTORY
      PROVE  y.slots[Back(y.history_num, j)]
               = Snapshot(IF R + 1 >= j THEN (R + 1) - j + 1 ELSE 0)
  <2>1. CASE j = 1
    <3>1. Back(y.history_num, j) = h
      BY <1>1, <2>1, DebuggerParameters DEF Back, Succ, h
    <3>2. R + 1 >= j /\ (R + 1) - j + 1 = R + 1
      BY <2>1
    <3> QED
      BY <3>1, <3>2 DEF h
  <2>2. CASE j > 1
    <3>1. j - 1 \in 1..(NUM_HISTORY - 1)
      BY <2>2, DebuggerParameters
    <3>2. Back(y.history_num, j) = Back(h, j - 1)
      BY <1>1, <2>2, DebuggerParameters DEF Back, Succ, h
    <3>3. x.slots[Back(h, j - 1)]
            = Snapshot(IF R >= j - 1 THEN R - (j - 1) + 1 ELSE 0)
      BY <3>1, DebuggerParameters DEF Ring, h
    <3>4. /\ R >= j - 1 <=> R + 1 >= j
          /\ R - (j - 1) + 1 = (R + 1) - j + 1
      BY DebuggerParameters
    <3> QED
      BY <3>2, <3>3, <3>4
  <2> QED
    BY <2>1, <2>2, DebuggerParameters
<1> QED
  BY <1>2, <1>3, <1>4 DEF Ring

\* When all lines but the last have been read, the slot holds the snapshot.
LEMMA Filled ==
  ASSUME NEW x \in DebuggerState, NEW R \in Nat, Filling(x, NumRegs + 2, R)
  PROVE  x.slots[x.history_num] = Snapshot(R + 1)
<1> DEFINE s == x.slots[x.history_num]
<1>1. s \in SnapshotType
  BY DEF DebuggerState, StateWith
<1>2. s.c = R + 1 /\ s.t = R + 1 /\ \A r \in 1..NumRegs : s.regs[r] = R + 1
  BY DebuggerParameters DEF Filling
<1> HIDE DEF s
<1>3. s.regs = [r \in 1..NumRegs |-> R + 1]
  BY <1>1, <1>2 DEF SnapshotType
<1>4. s = Snapshot(R + 1)
  BY <1>1, <1>2, <1>3 DEF SnapshotType, Snapshot
<1> QED
  BY <1>4 DEF s

LEMMA EndSnapshotIs ==
  ASSUME NEW x \in DebuggerState
  PROVE  LET y == EndSnapshot(x)
         IN  /\ y \in DebuggerState /\ y.pc = x.pc /\ SameScreen(x, y)
             /\ y.slots = x.slots /\ y.history_num = x.history_num
             /\ y.time_wrapped = x.time_wrapped
             /\ y.done_received = x.done_received
             /\ y.setup_registers = TRUE /\ y.reg_num = 0 /\ y.known = x.known
<1>1. 0 \in 0..NumRegs
  BY DebuggerParameters
<1> HIDE DEF Slots
<1> QED
  BY <1>1 DEF EndSnapshot, DebuggerState, StateWith, SameScreen

\* The last line of a snapshot: the edge is received, and may be shown.
LEMMA FrameKeeps ==
  ASSUME NEW x \in DebuggerState, NEW R \in Nat, x.pc = "read",
         ~x.done_received, Ring(x, NumRegs + 2, R),
         Filling(x, NumRegs + 2, R), Screen(x, R)
  PROVE  LET z == Frame(EndSnapshot(x))
         IN  /\ z \in DebuggerState /\ z.pc = "command" /\ ~z.done_received
             /\ Ring(z, 0, R + 1) /\ Filling(z, 0, R + 1) /\ Screen(z, R + 1)
<1> DEFINE e == EndSnapshot(x)
           v == Displayed(e)
           y == Forward(v)
           z == Frame(e)
           h == x.history_num
<1>1. /\ e \in DebuggerState /\ e.pc = x.pc /\ SameScreen(x, e)
      /\ e.slots = x.slots /\ e.history_num = x.history_num
      /\ e.time_wrapped = x.time_wrapped
      /\ e.done_received = x.done_received
      /\ e.setup_registers = TRUE /\ e.reg_num = 0 /\ e.known = x.known
  BY EndSnapshotIs
<1> HIDE DEF e
<1>2. Ended(e) = e
  BY <1>1, EndedTyped
<1>3. h \in Slots /\ h \in Within /\ Slots \subseteq Within
  BY DEF DebuggerState, StateWith, Within
<1> HIDE DEF h
<1>4. /\ SameRing(e, v) /\ v \in StateWith(Within)
      /\ \/ v = e
         \/ /\ v.old = h /\ v.cur_clock_val = ClockOf(e.slots[h])
            /\ v.screen = Drawn(e, h, "frame")
  <2>1. v \in StateWith(Within)
    BY <1>1, <1>2, EndedTyped, DisplayedTyped
  <2>2. CASE e.echo_data
    <3>1. v = ParseData(e, h, "frame") /\ "frame" \in Ways
      BY <1>1, <2>2 DEF Displayed, h, Ways
    <3>2. /\ SameRing(e, v) /\ v.old = h /\ v.cur_clock_val = ClockOf(e.slots[h])
          /\ v.screen = Drawn(e, h, "frame")
      BY <1>1, <1>3, <3>1, ParseDataDraws
    <3> QED
      BY <2>1, <3>2
  <2>3. CASE ~e.echo_data
    <3>1. v = e
      BY <2>3 DEF Displayed
    <3> QED
      BY <2>1, <3>1 DEF SameRing
  <2> QED
    BY <2>2, <2>3
<1> HIDE DEF v
<1>5. /\ y \in DebuggerState /\ y.done_received = v.done_received
      /\ y.time_wrapped <=> v.time_wrapped \/ v.history_num + 1 = NUM_HISTORY
      /\ v.history_num \in Slots => y.history_num = Succ(v.history_num)
      /\ y.slots = v.slots /\ y.setup_registers = v.setup_registers
      /\ y.reg_num = v.reg_num /\ y.known = v.known
      /\ y.old = v.old /\ y.cur_clock_val = v.cur_clock_val
      /\ y.screen = v.screen
  BY <1>4, ForwardIs
<1>6. /\ z \in DebuggerState /\ z.pc = "command"
      /\ z.done_received = e.done_received
      /\ SameRing(y, z)
      /\ z.old = y.old /\ z.cur_clock_val = y.cur_clock_val
      /\ z.screen = y.screen
      /\ z.hist_num_temp = IF y.history_num = 0 THEN NUM_HISTORY - 1
                           ELSE y.history_num - 1
  BY <1>1, <1>2, FrameIs DEF v
<1> HIDE DEF y, z
<1>7. /\ z.slots = x.slots /\ z.history_num = Succ(h)
      /\ z.time_wrapped <=> x.time_wrapped \/ h + 1 = NUM_HISTORY
      /\ z.setup_registers = TRUE /\ z.reg_num = 0 /\ z.known = x.known
      /\ ~z.done_received
  BY <1>1, <1>3, <1>4, <1>5, <1>6 DEF SameRing, h
<1>8. /\ z.old = v.old /\ z.cur_clock_val = v.cur_clock_val
      /\ z.screen = v.screen
  BY <1>5, <1>6
<1>9. x.slots[h] = Snapshot(R + 1)
  BY Filled DEF h
<1>10. Ring(z, 0, R + 1)
  BY <1>6, <1>7, <1>9, RingGoesOn, DebuggerParameters DEF h
<1>11. Filling(z, 0, R + 1)
  <2>1. x.known = NumRegs
    BY DebuggerParameters DEF Filling
  <2> QED
    BY <1>7, <2>1, DebuggerParameters DEF Filling
<1>12. Looks(z)
  BY <1>3, <1>6, <1>7, DebuggerParameters DEF Looks, Recorded, SameRing, Succ
<1>13. x.screen.shown.t \in Nat /\ x.screen.prev.t \in Nat
  BY DEF DebuggerState, StateWith, ScreenType, SnapshotType
<1>14. CASE v = e
  <2>1. /\ z.old = x.old /\ z.cur_clock_val = x.cur_clock_val
        /\ z.screen = x.screen
    BY <1>1, <1>8, <1>14 DEF SameScreen
  <2>2. Shows(z, R + 1) /\ z.old \in Slots
    BY <2>1 DEF Screen, Shows
  <2>3. Keeps(z, R + 1)
    BY <1>6, <1>7, <2>1 DEF Screen, Keeps
  <2>4. Highlights(z, R + 1)
    BY <1>13, <2>1, DebuggerParameters DEF Screen, Highlights
  <2> QED
    BY <1>6, <1>7, <1>10, <1>11, <1>12, <2>2, <2>3, <2>4 DEF Screen, z, e
<1>15. CASE v # e
  <2>1. /\ z.old = h /\ z.cur_clock_val = ClockOf(x.slots[h])
        /\ z.screen = Drawn(e, h, "frame")
    BY <1>1, <1>4, <1>8, <1>15
  <2>2. /\ z.screen.shown = x.slots[h] /\ z.screen.against = x.slots[x.old]
        /\ z.screen.prev = x.screen.shown /\ z.screen.by = "frame"
        /\ z.screen.clock \in {z.cur_clock_val, x.screen.clock}
        /\ z.screen.clock = x.screen.clock => z.screen.clock = z.cur_clock_val
              \/ z.cur_clock_val = x.cur_clock_val
    BY <1>1, <1>3, <2>1 DEF Drawn, SlotAt, UpdateClock, SameScreen, Screen
  <2>3. Shows(z, R + 1)
    <3>1. z.screen.clock \in {Undrawn, z.cur_clock_val}
      BY <2>2 DEF Screen, Shows
    <3> QED
      BY <1>9, <2>1, <2>2, <3>1 DEF Shows
  <2>4. Keeps(z, R + 1) /\ z.old \in Slots
    BY <1>3, <1>6, <1>7, <2>1, <2>2 DEF Keeps
  <2>5. Highlights(z, R + 1)
    BY <1>13, <2>2, DebuggerParameters DEF Screen, Keeps, Highlights
  <2> QED
    BY <1>6, <1>7, <1>10, <1>11, <1>12, <2>3, <2>4, <2>5 DEF Screen, z, e
<1> QED
  BY <1>14, <1>15

-----------------------------------------------------------------------------
(* The two processes.                                                      *)

\* What a debugger that has gone leaves in the pipe.
Bye == IF d.pc = "exited" THEN <<"Z">> ELSE <<>>

\* n lines of edge R + 1 have been read, and R edges before it: what the
\* simulator does and what is in the two pipes.
Talking(n, R) ==
    /\ n > 0 \/ R = 0 => d.pc = "read"
    /\ \/ /\ parent.phase = "run" /\ n = 0 /\ parent.edge = R
          /\ toChild = <<>> /\ toParent = Bye
       \/ /\ parent.phase = "wait" /\ parent.edge = R + 1
          /\ toChild = Rest(R + 1, n) /\ toParent = Bye
       \/ /\ parent.phase = "wait" /\ n = 0 /\ parent.edge = R
          /\ toChild = <<>> /\ toParent = Reply \o Bye
       \/ /\ parent.phase = "halt" /\ n = 0 /\ parent.edge = R
          /\ toChild \in {DoneLines, Tail(DoneLines)} /\ toParent = Bye
       \/ /\ parent.phase = "exited" /\ d.pc = "exited" /\ n = 0
          /\ \/ toChild \in {<<>>, DoneLines, Tail(DoneLines)} /\ parent.edge = R
             \/ toChild = Rest(R + 1, 0) /\ parent.edge = R + 1
          /\ toParent \in {<<>>, <<"Z">>}

\* After DONE nothing is answered but "Z".
Ending ==
    \/ parent.phase = "halt" /\ toParent = Bye
    \/ parent.phase = "exited" /\ d.pc = "exited" /\ toParent = <<>>

ParentState == [phase : {"run", "wait", "halt", "exited"}, edge : 0..MaxEdges]

Going(n, R) ==
    /\ Talking(n, R) /\ Ring(d, n, R) /\ Filling(d, n, R) /\ Screen(d, R)

IInv ==
    /\ parent \in ParentState /\ d \in DebuggerState
    /\ IF d.done_received THEN Ending
       ELSE \E n \in 0..(NumRegs + 2), R \in Nat : Going(n, R)

\* The lines of a snapshot, one after the other.
LinesOf(k) == {Line(kind, k) : kind \in {"c", "t", "f", "break"}}

LEMMA LinesTyped ==
  ASSUME NEW k, NEW n \in 0..(NumRegs + 3)
  PROVE  /\ Rest(k, n) \in Seq(LinesOf(k)) /\ Len(Rest(k, n)) = NumRegs + 3 - n
         /\ \A j \in 1..(NumRegs + 3 - n) : Rest(k, n)[j] = LineAt(k, n + j)
<1>1. \A m : LineAt(k, m) \in LinesOf(k)
  BY DEF LineAt, LinesOf
<1> DEFINE m == NumRegs + 3 - n
<1>2. m \in Nat
  BY DebuggerParameters
<1>3. Rest(k, n) = [j \in 1..m |-> LineAt(k, n + j)]
  BY DEF Rest
<1> HIDE DEF m
<1> QED
  BY <1>1, <1>2, <1>3 DEF m

LEMMA RestIs ==
  ASSUME NEW k \in Nat, NEW n \in 0..(NumRegs + 2)
  PROVE  /\ Rest(k, n) # <<>> /\ Head(Rest(k, n)) = LineAt(k, n + 1)
         /\ n < NumRegs + 2 => Tail(Rest(k, n)) = Rest(k, n + 1)
         /\ n = NumRegs + 2 => /\ Tail(Rest(k, n)) = <<>>
                               /\ LineAt(k, n + 1) = Line("break", k)
<1> DEFINE m == NumRegs + 3 - n
           s == Rest(k, n)
           S == LinesOf(k)
<1>1. m \in Nat /\ m > 0 /\ n \in Nat /\ NumRegs \in Nat /\ NumRegs > 0
  BY DebuggerParameters
<1>2. /\ s \in Seq(S) /\ Len(s) = m
      /\ \A j \in 1..m : s[j] = LineAt(k, n + j)
  BY <1>1, LinesTyped
<1>3. s # <<>> /\ Head(s) = LineAt(k, n + 1)
  <2> HIDE DEF s, m, S
  <2> QED
    BY <1>1, <1>2
<1>4. /\ Tail(s) \in Seq(S) /\ Len(Tail(s)) = m - 1
      /\ \A j \in 1..(m - 1) : Tail(s)[j] = LineAt(k, n + (j + 1))
  <2> HIDE DEF s, m, S
  <2>1. /\ Tail(s) \in Seq(S) /\ Len(Tail(s)) = m - 1
        /\ \A j \in 1..(m - 1) : Tail(s)[j] = s[j + 1]
    BY <1>2, <1>3, HeadTailProperties
  <2> QED
    BY <1>1, <1>2, <2>1
<1>5. ASSUME n < NumRegs + 2 PROVE Tail(s) = Rest(k, n + 1)
  <2>1. m - 1 = NumRegs + 3 - (n + 1) /\ n + 1 \in 0..(NumRegs + 3)
    BY <1>1, <1>5
  <2>2. \A j \in 1..(m - 1) : n + (j + 1) = (n + 1) + j
    BY <1>1
  <2>3. /\ Rest(k, n + 1) \in Seq(S) /\ Len(Rest(k, n + 1)) = m - 1
        /\ \A j \in 1..(m - 1) : Rest(k, n + 1)[j] = LineAt(k, (n + 1) + j)
    BY <2>1, LinesTyped
  <2> HIDE DEF s, m, S
  <2> QED
    BY <1>4, <2>2, <2>3, SeqEqual
<1>6. ASSUME n = NumRegs + 2
      PROVE  Tail(s) = <<>> /\ LineAt(k, n + 1) = Line("break", k)
  <2>1. m - 1 = 0
    BY <1>1, <1>6
  <2>2. Tail(s) = <<>>
    <3> HIDE DEF s, m, S
    <3> QED
      BY <1>4, <2>1
  <2>3. n + 1 = NumRegs + 3 /\ n + 1 # 1 /\ n + 1 # 2
    BY <1>1, <1>6
  <2> QED
    BY <2>2, <2>3 DEF LineAt
<1> QED
  BY <1>3, <1>5, <1>6

LEMMA SnapshotIsRest ==
  ASSUME NEW k \in Nat
  PROVE  SnapshotLines(k) = Rest(k, 0)
<1> DEFINE a == <<Line("c", k), Line("t", k)>>
           b == [r \in 1..NumRegs |-> Line("f", k)]
           c == <<Line("break", k)>>
           S == LinesOf(k)
           s == (a \o b) \o c
<1>1. NumRegs \in Nat /\ NumRegs > 0
  BY DebuggerParameters
<1>2. /\ Line("c", k) \in S /\ Line("t", k) \in S /\ Line("f", k) \in S
      /\ Line("break", k) \in S
  BY DEF LinesOf
<1> HIDE DEF S
<1>3. /\ a \in Seq(S) /\ Len(a) = 2 /\ a[1] = Line("c", k) /\ a[2] = Line("t", k)
  BY <1>2
<1>4. /\ b \in Seq(S) /\ Len(b) = NumRegs
      /\ \A r \in 1..NumRegs : b[r] = Line("f", k)
  BY <1>1, <1>2
<1>5. c \in Seq(S) /\ Len(c) = 1 /\ c[1] = Line("break", k)
  BY <1>2
<1>6. SnapshotLines(k) = s
  <2>1. SnapshotLines(k) = a \o b \o c
    BY DEF SnapshotLines
  <2> QED
    BY <2>1
<1> HIDE DEF a, b, c
<1>7. /\ a \o b \in Seq(S) /\ Len(a \o b) = 2 + NumRegs
      /\ \A i \in 1..(2 + NumRegs) :
           (a \o b)[i] = IF i <= 2 THEN a[i] ELSE b[i - 2]
  <2>1. /\ a \o b \in Seq(S) /\ Len(a \o b) = Len(a) + Len(b)
        /\ \A i \in 1..(Len(a) + Len(b)) :
             (a \o b)[i] = IF i <= Len(a) THEN a[i] ELSE b[i - Len(a)]
    <3>1. a \in Seq(S) /\ b \in Seq(S)
      BY <1>3, <1>4
    <3> QED
      BY <3>1, ConcatProperties, Zenon
  <2>2. Len(a) = 2 /\ Len(b) = NumRegs
    BY <1>3, <1>4
  <2> QED
    BY <2>1, <2>2, Zenon
<1>8. /\ s \in Seq(S) /\ Len(s) = (2 + NumRegs) + 1
      /\ \A i \in 1..((2 + NumRegs) + 1) :
           s[i] = IF i <= 2 + NumRegs THEN (a \o b)[i] ELSE c[i - (2 + NumRegs)]
  <2> DEFINE e == a \o b
  <2>1. e \in Seq(S) /\ c \in Seq(S) /\ Len(e) = 2 + NumRegs /\ Len(c) = 1
    BY <1>5, <1>7
  <2>2. s = e \o c
    OBVIOUS
  <2> HIDE DEF e, s
  <2>3. /\ e \o c \in Seq(S) /\ Len(e \o c) = Len(e) + Len(c)
        /\ \A i \in 1..(Len(e) + Len(c)) :
             (e \o c)[i] = IF i <= Len(e) THEN e[i] ELSE c[i - Len(e)]
    BY <2>1, ConcatProperties, Zenon
  <2> QED
    BY <2>1, <2>2, <2>3, Zenon DEF e
<1> HIDE DEF s
<1>9. ASSUME NEW j \in 1..(NumRegs + 3) PROVE s[j] = LineAt(k, 0 + j)
  <2>1. CASE j <= 2
    <3>1. s[j] = a[j] /\ j \in {1, 2}
      BY <1>1, <1>7, <1>8, <2>1
    <3> QED
      BY <1>1, <1>3, <3>1 DEF LineAt
  <2>2. CASE j > 2 /\ j < NumRegs + 3
    <3>1. /\ j - 2 \in 1..NumRegs /\ j \in 1..(2 + NumRegs) /\ ~(j <= 2)
          /\ j \in 1..((2 + NumRegs) + 1) /\ j <= 2 + NumRegs
      BY <1>1, <2>2
    <3>2. s[j] = (a \o b)[j] /\ (a \o b)[j] = b[j - 2]
      BY <1>7, <1>8, <3>1, Zenon
    <3> QED
      BY <1>1, <1>4, <2>2, <3>1, <3>2 DEF LineAt
  <2>3. CASE j = NumRegs + 3
    <3>1. s[j] = c[1]
      BY <1>1, <1>8, <2>3
    <3> QED
      BY <1>1, <1>5, <2>3, <3>1 DEF LineAt
  <2> QED
    BY <1>1, <2>1, <2>2, <2>3
<1>10. /\ Rest(k, 0) \in Seq(S) /\ Len(Rest(k, 0)) = NumRegs + 3
       /\ \A j \in 1..(NumRegs + 3) : Rest(k, 0)[j] = LineAt(k, 0 + j)
  <2>1. 0 \in 0..(NumRegs + 3) /\ NumRegs + 3 - 0 = NumRegs + 3
    BY <1>1
  <2> QED
    BY <2>1, LinesTyped DEF S
<1>11. s = Rest(k, 0)
  BY <1>1, <1>8, <1>9, <1>10, SeqEqual
<1> QED
  BY <1>6, <1>11

LEMMA Lasts ==
  /\ DoneLines # <<>> /\ Head(DoneLines) = Line("", 0)
  /\ Tail(DoneLines) # <<>> /\ Head(Tail(DoneLines)) = Line("DONE", 0)
  /\ <<>> \o Reply = Reply /\ Reply \o <<>> = Reply
  /\ Reply \o <<"Z">> = Append(Reply, "Z")
  /\ <<>> \o <<>> = <<>> /\ Append(<<>>, "Z") = <<"Z">>
  /\ <<>> \o DoneLines = DoneLines
<1>1. <<>> \o DoneLines = DoneLines
  <2>1. DoneLines \in Seq({Line("", 0), Line("DONE", 0)})
    BY DEF DoneLines
  <2> QED
    BY <2>1, ConcatEmptySeq
<1> QED
  BY <1>1 DEF DoneLines, Line, Reply

\* What is left behind an answer that has been read.
LEMMA AfterReply ==
  /\ SubSeq(Reply, 4, Len(Reply)) = <<>>
  /\ LET s == Append(Reply, "Z") IN SubSeq(s, 4, Len(s)) = <<"Z">>
<1>1. SubSeq(Reply, 4, Len(Reply)) = <<>>
  BY DEF Reply
<1> DEFINE s == Append(Reply, "Z")
           r == SubSeq(s, 4, Len(s))
<1>2. s \in Seq({"n", "0", "Z"}) /\ Len(s) = 4 /\ s[4] = "Z"
  BY DEF Reply
<1> HIDE DEF s
<1>3. r \in Seq({"n", "0", "Z"}) /\ Len(r) = 1 /\ r[1] = "Z"
  BY <1>2
<1>4. r = <<"Z">>
  <2> HIDE DEF r
  <2> QED
    BY <1>3
<1> QED
  BY <1>1, <1>4 DEF s

-----------------------------------------------------------------------------
\* Every step keeps the invariant.

\* A line of a snapshot that is not its last.
LEMMA ReadLineGoesOn ==
  ASSUME NEW R \in Nat, NEW n \in 0..(NumRegs + 1), Going(n, R),
         parent \in ParentState, d \in DebuggerState, ~d.done_received,
         ReadLine, toChild = Rest(R + 1, n), parent.phase = "wait",
         parent.edge = R + 1, toParent = Bye
  PROVE  IInv'
<1>1. n \in Nat /\ NumRegs \in Nat /\ n + 1 \in 0..(NumRegs + 2) /\ n < NumRegs + 2
  BY DebuggerParameters
<1>2. d.pc = "read" /\ Bye = <<>>
  BY DEF ReadLine, Bye
<1> DEFINE line == LineAt(R + 1, n + 1)
           y == ProcessInput(d, line)
<1>3. Head(toChild) = line /\ Tail(toChild) = Rest(R + 1, n + 1)
  <2>1. R + 1 \in Nat /\ n \in 0..(NumRegs + 2)
    BY <1>1
  <2> QED
    BY <1>1, <2>1, RestIs
<1>4. line.kind \notin {"break", "DONE"}
  BY <1>1 DEF LineAt, Line
<1>5. d' = y /\ toParent' = toParent /\ toChild' = Rest(R + 1, n + 1)
      /\ parent' = parent
  BY <1>3, <1>4 DEF ReadLine
<1>6. /\ WritesSlot(d, y)
      /\ Ring(y, n + 1, R) /\ Filling(y, n + 1, R) /\ Screen(y, R)
  BY <1>2, LineKeeps DEF Going
<1> HIDE DEF y, line
<1>7. y \in DebuggerState /\ y.pc = "read" /\ ~y.done_received
  BY <1>2, <1>6 DEF WritesSlot
<1>8. Talking(n + 1, R)'
  BY <1>1, <1>2, <1>5, <1>7 DEF Talking, Bye
<1>9. Going(n + 1, R)'
  BY <1>5, <1>6, <1>8 DEF Going
<1> QED
  BY <1>1, <1>5, <1>7, <1>9 DEF IInv

\* Its last line, which is answered.
LEMMA ReadLineEndsSnapshot ==
  ASSUME NEW R \in Nat, NEW n, n = NumRegs + 2, Going(n, R),
         parent \in ParentState, d \in DebuggerState, ~d.done_received,
         ReadLine, toChild = Rest(R + 1, n), parent.phase = "wait",
         parent.edge = R + 1, toParent = Bye
  PROVE  IInv'
<1>1. n \in 0..(NumRegs + 2) /\ NumRegs \in Nat
  BY DebuggerParameters
<1>2. d.pc = "read" /\ Bye = <<>>
  BY DEF ReadLine, Bye
<1> DEFINE line == Line("break", R + 1)
           e == EndSnapshot(d)
           y == Frame(e)
<1>3. Head(toChild) = line /\ Tail(toChild) = <<>>
  BY <1>1, RestIs
<1>4. line.kind = "break" /\ ProcessInput(d, line) = e
  BY DEF Line, ProcessInput
<1>5. ~e.done_received
  BY EndSnapshotIs
<1>6. d' = y /\ toParent' = Reply /\ toChild' = <<>> /\ parent' = parent
  BY <1>2, <1>3, <1>4, <1>5, Lasts DEF ReadLine, Answer
<1>7. /\ y \in DebuggerState /\ y.pc = "command" /\ ~y.done_received
      /\ Ring(y, 0, R + 1) /\ Filling(y, 0, R + 1) /\ Screen(y, R + 1)
  BY <1>2, FrameKeeps DEF Going
<1> HIDE DEF y
<1>8. Talking(0, R + 1)'
  <2>1. toParent' = Reply \o Bye'
    BY <1>6, <1>7, Lasts DEF Bye
  <2>2. R + 1 # 0 /\ parent'.phase = "wait" /\ parent'.edge = R + 1
    BY <1>6
  <2> QED
    BY <1>6, <2>1, <2>2 DEF Talking
<1>9. Going(0, R + 1)'
  BY <1>6, <1>7, <1>8 DEF Going
<1> QED
  BY <1>1, <1>6, <1>7, <1>9 DEF IInv

\* The lines after the last edge: an empty one, and DONE.
LEMMA ReadLineEnds ==
  ASSUME NEW R \in Nat, Going(0, R),
         parent \in ParentState, d \in DebuggerState, ~d.done_received,
         ReadLine, toChild \in {DoneLines, Tail(DoneLines)},
         parent.phase = "halt", toParent = Bye
  PROVE  IInv'
<1>1. d.pc = "read" /\ Bye = <<>>
  BY DEF ReadLine, Bye
<1>2. CASE toChild = DoneLines
  <2>1. Head(toChild) = Line("", 0) /\ Line("", 0).kind = ""
    BY <1>2, Lasts DEF Line
  <2>2. d' = d /\ toParent' = toParent /\ toChild' = Tail(DoneLines)
        /\ parent' = parent
    BY <1>2, <2>1 DEF ReadLine, ProcessInput
  <2>3. Talking(0, R)'
    BY <1>1, <2>2 DEF Going, Talking, Bye
  <2>4. Going(0, R)'
    BY <2>2, <2>3 DEF Going
  <2> QED
    BY <2>2, <2>4, DebuggerParameters DEF IInv
<1>3. CASE toChild = Tail(DoneLines)
  <2> DEFINE e == [d EXCEPT !.done_received = TRUE]
             y == Frame(e)
  <2>1. Head(toChild) = Line("DONE", 0) /\ Line("DONE", 0).kind = "DONE"
    BY <1>3, Lasts DEF Line
  <2>2. ProcessInput(d, Line("DONE", 0)) = e
    BY <2>1 DEF ProcessInput
  <2>3. e \in DebuggerState /\ e.done_received
    <3> HIDE DEF Slots
    <3> QED
      BY DEF DebuggerState, StateWith
  <2>4. d' = y /\ toParent' = <<>> /\ parent' = parent
    BY <1>1, <2>1, <2>2, <2>3, Lasts DEF ReadLine, Answer
  <2> HIDE DEF e
  <2>5. y \in DebuggerState /\ y.pc = "command" /\ y.done_received
    BY <2>3, FrameIs
  <2> HIDE DEF y
  <2>6. Ending'
    BY <2>4, <2>5 DEF Ending, Bye
  <2> QED
    BY <2>4, <2>5, <2>6 DEF IInv
<1> QED
  BY <1>2, <1>3

LEMMA ReadLineKeeps ==
  ASSUME IInv, ReadLine
  PROVE  IInv'
<1>1. ~d.done_received /\ d.pc = "read" /\ toChild # <<>>
      /\ parent \in ParentState /\ d \in DebuggerState
  BY DEF ReadLine, IInv
<1>2. PICK n \in 0..(NumRegs + 2), R \in Nat : Going(n, R)
  BY <1>1 DEF IInv
<1>3. \/ /\ parent.phase = "wait" /\ parent.edge = R + 1
         /\ toChild = Rest(R + 1, n) /\ toParent = Bye
      \/ /\ parent.phase = "halt" /\ n = 0
         /\ toChild \in {DoneLines, Tail(DoneLines)} /\ toParent = Bye
  BY <1>1, <1>2 DEF Going, Talking
<1>4. n \in 0..(NumRegs + 1) \/ n = NumRegs + 2
  BY DebuggerParameters
<1> QED
  BY <1>1, <1>2, <1>3, <1>4, ReadLineGoesOn, ReadLineEndsSnapshot, ReadLineEnds

\* A turn after the end.
LEMMA RedisplayKeeps ==
  ASSUME IInv, Redisplay
  PROVE  IInv'
<1>1. d \in DebuggerState /\ d.pc = "read" /\ d.done_received
      /\ d' = Frame(d) /\ parent' = parent /\ toParent' = toParent \o <<>>
  BY DEF IInv, Redisplay, Answer
<1>2. parent.phase = "halt" /\ toParent = <<>>
  BY <1>1 DEF IInv, Ending, Bye
<1>3. d' \in DebuggerState /\ d'.pc = "command" /\ d'.done_received
  BY <1>1, FrameIs
<1>4. Ending'
  BY <1>1, <1>2, <1>3, Lasts DEF Ending, Bye
<1> QED
  BY <1>1, <1>3, <1>4 DEF IInv

\* A command.
LEMMA CommandKeeps ==
  ASSUME IInv, Press \/ RunThrough
  PROVE  IInv'
<1>1. d \in DebuggerState /\ d.pc = "command" /\ parent \in ParentState
      /\ UNCHANGED <<parent, toChild, toParent>>
  BY DEF IInv, Press, RunThrough
<1>2. Obeys(d, d')
  BY <1>1, PressObeys
<1>3. /\ d' \in DebuggerState /\ d'.pc \in {"command", "read"}
      /\ d'.done_received = d.done_received
  BY <1>2 DEF Obeys, SameRing
<1>4. CASE d.done_received
  <2>1. Ending'
    BY <1>1, <1>3, <1>4 DEF IInv, Ending, Bye
  <2> QED
    BY <1>1, <1>3, <1>4, <2>1 DEF IInv
<1>5. CASE ~d.done_received
  <2>1. PICK n \in 0..(NumRegs + 2), R \in Nat : Going(n, R)
    BY <1>5 DEF IInv
  <2>2. n = 0 /\ R # 0
    BY <1>1, <2>1, DebuggerParameters DEF Going, Talking
  <2>3. Ring(d', 0, R) /\ Filling(d', 0, R) /\ Screen(d', R)
    <3>1. Ring(d, 0, R) /\ Filling(d, 0, R) /\ Screen(d, R)
      BY <2>1, <2>2 DEF Going
    <3> QED
      BY <1>1, <1>2, <3>1, CommandsKeep
  <2>4. Talking(0, R)'
    BY <1>1, <1>3, <2>1, <2>2 DEF Going, Talking, Bye
  <2>5. Going(0, R)'
    BY <2>3, <2>4 DEF Going
  <2> QED
    BY <1>1, <1>3, <1>5, <2>5, DebuggerParameters DEF IInv
<1> QED
  BY <1>4, <1>5

\* 'q': a byte that ends the simulation.
LEMMA QuitKeeps ==
  ASSUME IInv, Quit
  PROVE  IInv'
<1> DEFINE y == [d EXCEPT !.pc = "exited"]
<1>1. d \in DebuggerState /\ d.pc = "command" /\ parent \in ParentState
      /\ d' = y /\ toParent' = Append(toParent, "Z")
      /\ UNCHANGED <<parent, toChild>>
  BY DEF IInv, Quit
<1>2. y \in DebuggerState /\ y.pc = "exited" /\ SameRing(d, y) /\ SameScreen(d, y)
  <2> HIDE DEF Slots
  <2> QED
    BY <1>1 DEF DebuggerState, StateWith, SameRing, SameScreen
<1> HIDE DEF y
<1>3. Bye = <<>> /\ Bye' = <<"Z">>
  BY <1>1, <1>2 DEF Bye
<1>4. CASE d.done_received
  <2>1. parent.phase = "halt" /\ toParent = <<>>
    BY <1>1, <1>3, <1>4 DEF IInv, Ending
  <2>2. Ending'
    BY <1>1, <1>3, <2>1, Lasts DEF Ending
  <2> QED
    BY <1>1, <1>2, <1>4, <2>2 DEF IInv, SameRing
<1>5. CASE ~d.done_received
  <2>1. PICK n \in 0..(NumRegs + 2), R \in Nat : Going(n, R)
    BY <1>5 DEF IInv
  <2>2. n = 0 /\ R # 0
    BY <1>1, <2>1, DebuggerParameters DEF Going, Talking
  <2>3. Ring(y, 0, R) /\ Filling(y, 0, R)
    BY <1>2, <2>1, <2>2 DEF Going, Ring, Filling, SameRing
  <2>4. Screen(y, R)
    BY <1>1, <1>2, <2>1 DEF Going, Screen, Shows, Keeps, Highlights,
                            SameRing, SameScreen
  <2>5. Talking(0, R)'
    BY <1>1, <1>2, <1>3, <2>1, <2>2, Lasts DEF Going, Talking
  <2>6. Going(0, R)'
    BY <1>1, <2>3, <2>4, <2>5 DEF Going
  <2> QED
    BY <1>1, <1>2, <1>5, <2>6, DebuggerParameters DEF IInv, SameRing
<1> QED
  BY <1>4, <1>5

\* A clock edge, or an end of the run, finds all lines read.
LEMMA RunningIs ==
  ASSUME IInv, parent.phase = "run"
  PROVE  /\ ~d.done_received
         /\ \E R \in Nat : /\ Going(0, R) /\ parent.edge = R
                           /\ toChild = <<>> /\ toParent = Bye
<1>1. ~d.done_received
  BY DEF IInv, Ending
<1>2. PICK n \in 0..(NumRegs + 2), R \in Nat : Going(n, R)
  BY <1>1 DEF IInv
<1>3. n = 0 /\ parent.edge = R /\ toChild = <<>> /\ toParent = Bye
  BY <1>2 DEF Going, Talking
<1> QED
  BY <1>1, <1>2, <1>3

LEMMA EdgeKeeps ==
  ASSUME IInv, Edge
  PROVE  IInv'
<1>1. parent \in ParentState /\ d \in DebuggerState /\ parent.phase = "run"
      /\ parent.edge < MaxEdges /\ d' = d /\ toParent' = toParent
  BY DEF IInv, Edge
<1>2. /\ ~d.done_received
      /\ \E R \in Nat : /\ Going(0, R) /\ parent.edge = R
                        /\ toChild = <<>> /\ toParent = Bye
  BY <1>1, RunningIs
<1>3. PICK R \in Nat : /\ Going(0, R) /\ parent.edge = R
                       /\ toChild = <<>> /\ toParent = Bye
  BY <1>2
<1>4. Bye' = Bye
  BY <1>1 DEF Bye
<1>5. parent' \in ParentState /\ Talking(0, R)'
  <2>1. CASE d.pc = "exited"
    <3>1. parent' = [parent EXCEPT !.phase = "exited"] /\ toChild' = toChild
      BY <2>1 DEF Edge
    <3>2. parent' \in ParentState /\ parent'.phase = "exited" /\ parent'.edge = R
      BY <1>1, <1>3, <3>1 DEF ParentState
    <3>3. toParent' = <<"Z">>
      BY <1>1, <1>3, <2>1 DEF Bye
    <3>4. 0 > 0 \/ R = 0 => d'.pc = "read"
      BY <1>1, <1>3 DEF Going, Talking
    <3> QED
      BY <1>1, <1>3, <2>1, <3>1, <3>2, <3>3, <3>4 DEF Talking
  <2>2. CASE d.pc # "exited"
    <3>1. /\ parent' = [phase |-> "wait", edge |-> R + 1]
          /\ toChild' = <<>> \o SnapshotLines(R + 1)
      BY <1>3, <2>2 DEF Edge
    <3>2. parent' \in ParentState
      BY <1>1, <1>3, <3>1, DebuggerParameters DEF ParentState
    <3>3. toChild' = Rest(R + 1, 0)
      <4>1. SnapshotLines(R + 1) = Rest(R + 1, 0)
        BY SnapshotIsRest
      <4>2. 0 \in 0..(NumRegs + 3) /\ R + 1 \in Nat
        BY DebuggerParameters
      <4>3. Rest(R + 1, 0) \in Seq(LinesOf(R + 1))
        BY <4>2, LinesTyped
      <4> QED
        BY <3>1, <4>1, <4>3, ConcatEmptySeq
    <3>4. 0 > 0 \/ R = 0 => d'.pc = "read"
      BY <1>1, <1>3 DEF Going, Talking
    <3> QED
      BY <1>1, <1>3, <1>4, <3>1, <3>2, <3>3, <3>4 DEF Talking
  <2> QED
    BY <2>1, <2>2
<1>6. Going(0, R)'
  BY <1>1, <1>3, <1>5 DEF Going
<1> QED
  BY <1>1, <1>2, <1>5, <1>6, DebuggerParameters DEF IInv

LEMMA HaltKeeps ==
  ASSUME IInv, Halt
  PROVE  IInv'
<1>1. parent \in ParentState /\ d \in DebuggerState /\ parent.phase = "run"
      /\ parent' = [parent EXCEPT !.phase = "halt"] /\ d' = d
      /\ toParent' = toParent /\ toChild' = toChild \o DoneLines
  BY DEF IInv, Halt
<1>2. /\ ~d.done_received
      /\ \E R \in Nat : /\ Going(0, R) /\ parent.edge = R
                        /\ toChild = <<>> /\ toParent = Bye
  BY <1>1, RunningIs
<1>3. PICK R \in Nat : /\ Going(0, R) /\ parent.edge = R
                       /\ toChild = <<>> /\ toParent = Bye
  BY <1>2
<1>4. Bye' = Bye
  BY <1>1 DEF Bye
<1>5. parent' \in ParentState /\ parent'.phase = "halt" /\ parent'.edge = R
  BY <1>1, <1>3 DEF ParentState
<1>6. toChild' = DoneLines
  BY <1>1, <1>3, Lasts
<1>7. Talking(0, R)'
  BY <1>1, <1>3, <1>4, <1>5, <1>6 DEF Going, Talking
<1>8. Going(0, R)'
  BY <1>1, <1>3, <1>7 DEF Going
<1> QED
  BY <1>1, <1>2, <1>5, <1>8, DebuggerParameters DEF IInv

\* The first byte that counts in what may be in the pipe.
LEMMA FirstByte ==
  ASSUME NEW s \in {<<>>, <<"Z">>, Reply, Append(Reply, "Z")},
         NEW k \in DOMAIN s, s[k] \in {"n", "Z"},
         \A l \in 1..k - 1 : s[l] \notin {"n", "Z"}
  PROVE  /\ s = <<"Z">> => s[k] = "Z"
         /\ s \in {Reply, Append(Reply, "Z")} => k = 1 /\ s[k] = "n"
         /\ s # <<>>
<1>1. s # <<>>
  OBVIOUS
<1>2. CASE s = <<"Z">>
  <2>1. s # Reply /\ s # Append(Reply, "Z")
    BY <1>2 DEF Reply
  <2> QED
    BY <1>1, <1>2, <2>1
<1>3. CASE s \in {Reply, Append(Reply, "Z")}
  <2>1. s # <<"Z">> /\ s[1] = "n" /\ k \in Nat /\ k >= 1
    BY <1>3 DEF Reply
  <2>2. k = 1
    BY <2>1
  <2> QED
    BY <1>1, <2>1, <2>2
<1> QED
  BY <1>1, <1>2, <1>3

LEMMA WaitForResponseKeeps ==
  ASSUME IInv, WaitForResponse
  PROVE  IInv'
<1>1. /\ parent \in ParentState /\ d \in DebuggerState
      /\ parent.phase \in {"wait", "halt"} /\ d' = d /\ toChild' = toChild
  BY DEF IInv, WaitForResponse
<1>2. /\ Bye' = Bye
      /\ Bye = <<>> \/ (d.pc = "exited" /\ Bye = <<"Z">>)
  BY <1>1 DEF Bye
<1>3. PICK k \in DOMAIN toParent :
        /\ toParent[k] \in {"n", "Z"}
        /\ \A l \in 1..k - 1 : toParent[l] \notin {"n", "Z"}
        /\ LET used == k + (IF parent.phase = "halt" THEN 3 ELSE 2) IN
           IF toParent[k] = "Z"
           THEN /\ parent' = [parent EXCEPT !.phase = "exited"]
                /\ toParent' = <<>>
           ELSE /\ Len(toParent) >= used
                /\ parent' = [parent EXCEPT !.phase =
                                IF parent.phase = "halt" THEN "exited" ELSE "run"]
                /\ toParent' = SubSeq(toParent, used + 1, Len(toParent))
  BY DEF WaitForResponse
<1>4. ASSUME toParent = Bye
      PROVE  /\ d.pc = "exited" /\ parent' = [parent EXCEPT !.phase = "exited"]
             /\ toParent' = <<>> /\ parent' \in ParentState
             /\ parent'.phase = "exited" /\ parent'.edge = parent.edge
  <2>1. toParent[k] = "Z" /\ toParent # <<>>
    <3>1. toParent \in {<<>>, <<"Z">>}
      BY <1>2, <1>4
    <3> QED
      BY <1>3, <3>1, FirstByte
  <2>2. parent' = [parent EXCEPT !.phase = "exited"] /\ toParent' = <<>>
    BY <1>3, <2>1
  <2>3. /\ parent' \in ParentState
        /\ parent'.phase = "exited" /\ parent'.edge = parent.edge
    BY <1>1, <2>2 DEF ParentState
  <2> QED
    BY <1>2, <1>4, <2>1, <2>2, <2>3
<1>5. CASE d.done_received
  <2>1. toParent = Bye
    BY <1>1, <1>5 DEF IInv, Ending
  <2>2. Ending'
    BY <1>1, <1>4, <2>1 DEF Ending
  <2> QED
    BY <1>1, <1>4, <1>5, <2>1, <2>2 DEF IInv
<1>6. CASE ~d.done_received
  <2>1. PICK n \in 0..(NumRegs + 2), R \in Nat : Going(n, R)
    BY <1>6 DEF IInv
  <2>2. parent' \in ParentState /\ Talking(n, R)'
    <3>1. CASE toParent = Bye
      <4>1. n = 0 /\ (n > 0 \/ R = 0 => d.pc = "read")
        BY <1>4, <2>1, <3>1 DEF Going, Talking
      <4>2. \/ toChild \in {DoneLines, Tail(DoneLines)} /\ parent.edge = R
            \/ toChild = Rest(R + 1, 0) /\ parent.edge = R + 1
            \/ toChild = <<>> /\ parent.edge = R
        BY <1>1, <2>1, <4>1 DEF Going, Talking
      <4> QED
        BY <1>1, <1>4, <3>1, <4>1, <4>2 DEF Talking
    <3>2. CASE toParent # Bye
      <4>1. /\ parent.phase = "wait" /\ n = 0 /\ parent.edge = R
            /\ toChild = <<>> /\ toParent = Reply \o Bye
            /\ n > 0 \/ R = 0 => d.pc = "read"
        BY <1>1, <2>1, <3>2 DEF Going, Talking
      <4>2. toParent \in {Reply, Append(Reply, "Z")}
        BY <1>2, <4>1, Lasts
      <4>3. k = 1 /\ toParent[k] = "n"
        BY <1>3, <4>2, FirstByte
      <4>4. /\ parent' = [parent EXCEPT !.phase = "run"]
            /\ toParent' = SubSeq(toParent, 4, Len(toParent))
        BY <1>3, <4>1, <4>3
      <4>5. toParent' = Bye
        <5>1. CASE Bye = <<>>
          BY <4>1, <4>4, <5>1, Lasts, AfterReply
        <5>2. CASE Bye = <<"Z">>
          BY <4>1, <4>4, <5>2, Lasts, AfterReply
        <5> QED
          BY <1>2, <5>1, <5>2
      <4>6. /\ parent' \in ParentState
            /\ parent'.phase = "run" /\ parent'.edge = parent.edge
        BY <1>1, <4>4 DEF ParentState
      <4> QED
        BY <1>1, <1>2, <4>1, <4>5, <4>6 DEF Talking
    <3> QED
      BY <3>1, <3>2
  <2>3. Going(n, R)'
    BY <1>1, <2>1, <2>2 DEF Going
  <2> QED
    BY <1>1, <1>6, <2>2, <2>3 DEF IInv
<1> QED
  BY <1>5, <1>6

LEMMA InitIInv ==
  ASSUME Init
  PROVE  IInv
<1>1. NUM_HISTORY \in Nat /\ NUM_HISTORY > 1 /\ NumRegs \in Nat /\ 0 \in Slots
      /\ 0 \in 0..MaxEdges /\ NUM_HISTORY \in 0..NUM_HISTORY /\ 0 \in 0..NumRegs
  BY DebuggerParameters
<1>2. BlankScreen \in ScreenType
  BY SnapshotsTyped DEF BlankScreen, ScreenType, Ways, Undrawn
<1>3. [s \in Slots |-> Nothing] \in [Slots -> SnapshotType]
  BY SnapshotsTyped
<1>4. d \in DebuggerState
  <2> HIDE DEF Slots
  <2> QED
    BY <1>1, <1>2, <1>3 DEF Init, DebuggerState, StateWith
<1>5. parent \in ParentState /\ ~d.done_received
  BY <1>1 DEF Init, ParentState
<1>6. Talking(0, 0)
  BY DEF Init, Talking, Bye
<1>7. Ring(d, 0, 0)
  <2>1. d.history_num = 0 /\ d.time_wrapped = FALSE
    BY DEF Init
  <2>2. ASSUME NEW j \in 1..NUM_HISTORY
        PROVE  d.slots[Back(0, j)] = Snapshot(IF 0 >= j THEN 0 - j + 1 ELSE 0)
    <3>1. Back(0, j) \in Slots /\ ~(0 >= j)
      BY <1>1 DEF Back
    <3> QED
      BY <3>1 DEF Init, Nothing
  <2> QED
    BY <1>1, <2>1, <2>2 DEF Ring
<1>8. Filling(d, 0, 0)
  BY <1>1 DEF Init, Filling
<1>9. Screen(d, 0)
  <2>1. /\ d.old = 0 /\ d.screen.shown = Nothing /\ d.screen.prev = Nothing
        /\ d.screen.by = "setup" /\ d.screen.clock = Undrawn
        /\ d.cur_clock_val = 0 /\ d.pc = "read"
    BY DEF Init, BlankScreen
  <2>2. Nothing = Snapshot(0) /\ ClockOf(Nothing) = 0
    BY SnapshotFields DEF Nothing
  <2>3. Shows(d, 0)
    BY <2>1, <2>2 DEF Shows
  <2> QED
    BY <1>1, <2>1, <2>3 DEF Screen, Keeps, Highlights
<1>10. Going(0, 0)
  BY <1>6, <1>7, <1>8, <1>9 DEF Going
<1> QED
  BY <1>1, <1>4, <1>5, <1>10 DEF IInv

LEMMA StutterKeeps ==
  ASSUME IInv, UNCHANGED vars
  PROVE  IInv'
<1> HIDE DEF Slots
<1> QED
  BY DEF vars, IInv, Ending, Going, Talking, Bye

LEMMA NextIInv ==
  ASSUME IInv, [Next]_vars
  PROVE  IInv'
BY ReadLineKeeps, RedisplayKeeps, CommandKeeps, QuitKeeps, EdgeKeeps,
   HaltKeeps, WaitForResponseKeeps, StutterKeeps DEF Next

-----------------------------------------------------------------------------
\* What the invariant says.

LEMMA ReceivedIs ==
  ASSUME NEW n \in 0..(NumRegs + 2), NEW R \in Nat, Talking(n, R)
  PROVE  Received = R /\ R <= parent.edge
<1> DEFINE has == \E k \in DOMAIN toChild : toChild[k].kind = "break"
<1>1. Received = parent.edge - (IF has THEN 1 ELSE 0)
  BY DEF Received
<1>2. CASE /\ parent.edge = R
           /\ toChild \in {<<>>, DoneLines, Tail(DoneLines)}
  <2> DEFINE E == {Line("", 0), Line("DONE", 0)}
  <2>1. DoneLines \in Seq(E) /\ DoneLines # <<>> /\ <<>> \in Seq(E)
    BY DEF DoneLines
  <2>2. Tail(DoneLines) \in Seq(E)
    <3> HIDE DEF E
    <3> QED
      BY <2>1, HeadTailProperties
  <2>3. \A line \in E : line.kind # "break"
    <3>1. Line("", 0).kind = "" /\ Line("DONE", 0).kind = "DONE"
      BY DEF Line
    <3> QED
      BY <3>1
  <2> HIDE DEF E
  <2>4. toChild \in Seq(E)
    BY <1>2, <2>1, <2>2
  <2>5. \A k \in DOMAIN toChild : toChild[k] \in E
    BY <2>4
  <2>6. ~has
    BY <2>3, <2>5
  <2> HIDE DEF has
  <2> QED
    BY <1>1, <1>2, <2>6, DebuggerParameters
<1>3. CASE parent.edge = R + 1 /\ \E m \in 0..(NumRegs + 2) : toChild = Rest(R + 1, m)
  <2>1. PICK m \in 0..(NumRegs + 2) : toChild = Rest(R + 1, m)
    BY <1>3
  <2> DEFINE k == NumRegs + 3 - m
  <2>2. /\ m \in 0..(NumRegs + 3) /\ k \in 1..k /\ m + k = NumRegs + 3
        /\ NumRegs + 3 # 1 /\ NumRegs + 3 # 2
    BY DebuggerParameters
  <2>3. /\ toChild \in Seq(LinesOf(R + 1)) /\ Len(toChild) = k
        /\ toChild[k] = LineAt(R + 1, m + k)
    BY <2>1, <2>2, LinesTyped
  <2>4. toChild[k].kind = "break"
    BY <2>2, <2>3 DEF LineAt, Line
  <2>5. k \in DOMAIN toChild
    <3> HIDE DEF k
    <3> QED
      BY <2>2, <2>3
  <2>6. has
    BY <2>4, <2>5
  <2> HIDE DEF has
  <2> QED
    BY <1>1, <1>3, <2>6
<1>4. 0 \in 0..(NumRegs + 2)
  BY DebuggerParameters
<1> QED
  BY <1>2, <1>3, <1>4 DEF Talking

LEMMA InStepHolds ==
  ASSUME IInv
  PROVE  InStep
<1>1. Bye \in {<<>>, <<"Z">>} /\ (d.pc # "exited" => Bye = <<>>)
  BY DEF Bye
<1>2. CASE d.done_received
  BY <1>1, <1>2 DEF IInv, Ending, InStep
<1>3. CASE ~d.done_received
  <2>1. PICK n \in 0..(NumRegs + 2), R \in Nat : Talking(n, R)
    BY <1>3 DEF IInv, Going
  <2>2. Rest(R + 1, n) # <<>>
    BY RestIs
  <2>3. Reply \o Bye \in {Reply, Append(Reply, "Z")} /\ Reply \o Bye # <<>>
    <3>1. Reply # <<>> /\ Append(Reply, "Z") # <<>>
      BY DEF Reply
    <3> QED
      BY <1>1, <3>1, Lasts
  <2> QED
    BY <1>1, <2>1, <2>2, <2>3 DEF Talking, InStep
<1> QED
  BY <1>2, <1>3

LEMMA HistoryIsRecentHolds ==
  ASSUME IInv
  PROVE  HistoryIsRecent
<1> SUFFICES ASSUME ~d.done_received, NEW j \in 1..NUM_HISTORY - 1, Received >= j
             PROVE  d.slots[(d.history_num - j) % NUM_HISTORY]
                      = Snapshot(Received - j + 1)
  BY DEF HistoryIsRecent
<1>1. PICK n \in 0..(NumRegs + 2), R \in Nat : Going(n, R)
  BY DEF IInv
<1>2. Received = R
  BY <1>1, ReceivedIs DEF Going
<1>3. j \in 1..NUM_HISTORY /\ d.history_num \in Slots
  BY DebuggerParameters DEF IInv, DebuggerState, StateWith
<1>4. (d.history_num - j) % NUM_HISTORY = Back(d.history_num, j)
  BY <1>3, BackIs
<1>5. d.slots[Back(d.history_num, j)] = Snapshot(IF R >= j THEN R - j + 1 ELSE 0)
  BY <1>1, <1>3, DebuggerParameters DEF Going, Ring
<1> QED
  BY <1>2, <1>4, <1>5

LEMMA ScreenHolds ==
  ASSUME IInv
  PROVE  ShowsReceived /\ HighlightsChanges
<1> SUFFICES ASSUME ~d.done_received
             PROVE  ShowsReceived /\ HighlightsChanges
  BY DEF ShowsReceived, HighlightsChanges
<1>1. PICK n \in 0..(NumRegs + 2), R \in Nat : Going(n, R)
  BY DEF IInv
<1>2. Received = R /\ R <= parent.edge /\ parent.edge \in Nat
  BY <1>1, ReceivedIs, DebuggerParameters DEF Going, IInv, ParentState
<1>3. Screen(d, R)
  BY <1>1 DEF Going
<1>4. ShowsReceived
  <2> SUFFICES ASSUME d.screen.by \notin {"setup", "below"}
               PROVE  /\ \E k \in 1..parent.edge : d.screen.shown = Snapshot(k)
                      /\ d.screen.clock \in {Undrawn, ClockOf(d.screen.shown)}
    BY DEF ShowsReceived
  <2>1. PICK k \in 0..R : /\ d.screen.shown = Snapshot(k)
                          /\ k = 0 => d.screen.by \in {"setup", "below"}
    BY <1>3 DEF Screen, Shows
  <2>2. k \in 1..parent.edge
    BY <1>2, <2>1
  <2> QED
    BY <1>3, <2>1, <2>2 DEF Screen, Shows
<1>5. HighlightsChanges
  BY <1>2, <1>3 DEF Screen, Highlights, HighlightsChanges
<1> QED
  BY <1>4, <1>5

LEMMA AlwaysIInv == Spec => []IInv
<1>1. Init => IInv
  BY InitIInv
<1>2. IInv /\ [Next]_vars => IInv'
  BY NextIInv
<1> QED
  BY <1>1, <1>2, PTL DEF Spec

\* history_num (visual_c_hooks.cpp l.86), the indices of the main loop (l.885-1052)
\* and the counters of processinput (l.556-568) stay within their bounds, however
\* the user moves about (TypeOK).
THEOREM DebuggerTypes == Spec => []TypeOK
<1>1. IInv => TypeOK
  BY DEF IInv, ParentState, DebuggerState, StateWith, TypeOK
<1> QED
  BY <1>1, AlwaysIInv, PTL

\* The simulator and the debugger never lose step with each other: the answer of
\* the main loop (visual_c_hooks.cpp l.911-915) is in the pipe only while
\* waitforresponse (l.1074-1087) wants one, and a 'Z' at most once and behind it.
THEOREM StaysInStep == Spec => []InStep
<1>1. IInv => InStep
  BY InStepHolds
<1> QED
  BY <1>1, AlwaysIInv, PTL

\* Behind history_num the ring holds the last snapshots, whole and in order, as
\* processinput stored them (visual_c_hooks.cpp l.555-794).
THEOREM RingIsRecent == Spec => []HistoryIsRecent
<1>1. IInv => HistoryIsRecent
  BY HistoryIsRecentHolds
<1> QED
  BY <1>1, AlwaysIInv, PTL

\* The screen shows a snapshot that was sent, however the user got there: by a
\* step, a run, a step back or a search (parsedata l.362-552, getch l.921-1024).
THEOREM ScreenShowsReceived == Spec => []ShowsReceived
<1>1. IInv => ShowsReceived
  BY ScreenHolds
<1> QED
  BY <1>1, AlwaysIInv, PTL

\* What is highlighted is what changed on the screen (parsedata l.362-510), in
\* whatever order the user visits the snapshots.
THEOREM HighlightsAreChanges == Spec => []HighlightsChanges
<1>1. IInv => HighlightsChanges
  BY ScreenHolds
<1> QED
  BY <1>1, AlwaysIInv, PTL
=============================================================================
