------------------------------ MODULE Debugger ------------------------------
(***************************************************************************)
(* The visual debugger (testbench/visual_c_hooks.cpp) and the simulator it *)
(* controls (testbench/visual_testbench.v): two processes and two pipes.   *)
(* At each clock edge the simulator writes the lines of one snapshot and   *)
(* blocks for an answer.  The debugger files the lines in a ring of        *)
(* NUM_HISTORY slots, answers at once, and then obeys its user, who steps, *)
(* looks back, runs on, goes to a time, or quits.                          *)
(*                                                                         *)
(* Edges are numbered from 1.  The number of an edge stands for every      *)
(* value in its snapshot and for its time; 0 is memory nothing was stored  *)
(* in.  The "t" line stands for the lines t, z, a and p, which are stored  *)
(* the same way, and the "f" lines for those of the ten groups of signals, *)
(* whose code is one text ten times.                                       *)
(***************************************************************************)
EXTENDS Integers, Sequences

CONSTANTS NUM_HISTORY,   \* slots of the ring
          NumRegs,       \* signals in a group
          MaxEdges,      \* bound: clock edges before the program has halted
          Stops          \* bound: times the user asks for

ASSUME DebuggerParameters ==
  /\ NUM_HISTORY \in Nat \ {0, 1}
  /\ NumRegs \in Nat \ {0}
  /\ MaxEdges \in Nat \ {0}
  /\ Stops \subseteq Nat

VARIABLES parent,     \* the simulator: what it does, and its last clock edge
          toChild,    \* lines in the pipe to the debugger
          toParent,   \* bytes in the pipe to the simulator
          d           \* the variables of the debugger

vars == <<parent, toChild, toParent, d>>

Slots == 0..NUM_HISTORY - 1

Snapshot(k) == [c |-> k, t |-> k, regs |-> [r \in 1..NumRegs |-> k]]

Nothing == Snapshot(0)

\* a % NUM_HISTORY, which in C keeps the sign of a
CMod(a) == IF a < 0 THEN a ELSE a % NUM_HISTORY

Line(kind, k) == [kind |-> kind, edge |-> k]

\* What the simulator writes at an edge.
SnapshotLines(k) ==
  <<Line("c", k), Line("t", k)>> \o [r \in 1..NumRegs |-> Line("f", k)]
     \o <<Line("break", k)>>

DoneLines == <<Line("", 0), Line("DONE", 0), Line("", 0)>>

\* "n" and the two bytes of mem_addr
Reply == <<"n", "0", "0">>

Undrawn == 2

\* Nothing is on the screen; the clock is not drawn.
BlankScreen == [shown |-> Nothing, against |-> Nothing, prev |-> Nothing,
                by |-> "setup", clock |-> Undrawn]

Init ==
  /\ parent = [phase |-> "run", edge |-> 0]
  /\ toChild = <<>>
  /\ toParent = <<>>
  /\ d = [pc |-> "read", slots |-> [s \in Slots |-> Nothing],
          history_num |-> 0, time_wrapped |-> FALSE, setup_registers |-> FALSE,
          reg_num |-> 0, known |-> 0, done_received |-> FALSE,
          echo_data |-> TRUE, running |-> FALSE, goto_flag |-> FALSE,
          cycle_flag |-> FALSE, stop_time |-> 0, hist_num_temp |-> 0,
          i |-> NUM_HISTORY, old |-> 0, cur_clock_val |-> 0,
          screen |-> BlankScreen]
-----------------------------------------------------------------------------
(* Reading a line.                                                         *)

Stored(x, field, k) == [x EXCEPT !.slots[x.history_num][field] = k]

\* A signal's line: the first time its name is kept and room is made for it
\* in every slot; its value is stored where the counter of its group points.
StoreRegister(x, k) ==
  LET room == IF x.setup_registers THEN x.known ELSE x.known + 1
      reg  == x.reg_num + 1
  IN  [x EXCEPT !.known = room, !.reg_num = reg,
                !.slots[x.history_num].regs =
                   [r \in 1..NumRegs |->
                      IF r = reg /\ r <= room THEN k ELSE @[r]]]

\* mutant: the counter of a group goes on counting
EndSnapshotCounts(x) == [x EXCEPT !.setup_registers = TRUE]

EndSnapshot(x) == [x EXCEPT !.setup_registers = TRUE, !.reg_num = 0]

ProcessInput(x, line) ==
  CASE line.kind \in {"c", "t"} -> Stored(x, line.kind, line.edge)
    [] line.kind = "f"          -> StoreRegister(x, line.edge)
    [] line.kind = "break"      -> EndSnapshot(x)
    [] line.kind = "DONE"       -> [x EXCEPT !.done_received = TRUE]
    [] OTHER                    -> x
-----------------------------------------------------------------------------
(* The screen.                                                             *)

SlotAt(x, h) == IF h \in Slots THEN x.slots[h] ELSE Nothing

ClockOf(snapshot) == snapshot.c % 2

\* The edge is drawn when it differs from the one before.
UpdateClock(x, val) == IF val # x.cur_clock_val THEN val ELSE x.screen.clock

\* Slot h goes on the screen.  What differs from the slot shown before is
\* highlighted: "against" is that slot as it is now, "prev" what was on the
\* screen.  "by" observes how the user got here, and nothing depends on it:
\* "below" is a search that began below slot 0, and what followed it.
Drawn(x, h, how) ==
  [shown   |-> SlotAt(x, h),
   against |-> SlotAt(x, x.old),
   prev    |-> x.screen.shown,
   by      |-> IF x.screen.by = "below" /\ how # "frame" THEN "below" ELSE how,
   clock   |-> UpdateClock(x, ClockOf(SlotAt(x, h)))]

\* mutant: the index shown last is not kept
ParseDataForgets(x, h, how) ==
  [x EXCEPT !.cur_clock_val = ClockOf(SlotAt(x, h)),
            !.screen = Drawn(x, h, how)]

ParseData(x, h, how) ==
  [x EXCEPT !.old = h,
            !.cur_clock_val = ClockOf(SlotAt(x, h)),
            !.screen = Drawn(x, h, how)]
-----------------------------------------------------------------------------
(* The main loop: a snapshot is complete, or the simulation has ended.     *)

StopRunning(x) == [x EXCEPT !.running = FALSE, !.echo_data = TRUE]

\* A run that meets the end steps back to the last snapshot.
Ended(x) ==
  IF x.done_received /\ ~x.echo_data
  THEN [StopRunning(x) EXCEPT !.history_num = CMod(x.history_num - 1)]
  ELSE x

Displayed(x) ==
  IF x.echo_data THEN ParseData(x, x.history_num, "frame") ELSE x

Forward(x) ==
  [x EXCEPT !.history_num = CMod(x.history_num + 1),
            !.time_wrapped = @ \/ x.history_num + 1 = NUM_HISTORY]

Present(x) == IF x.history_num = 0 THEN NUM_HISTORY - 1
              ELSE CMod(x.history_num - 1)

Frame(x) ==
  LET y == Forward(Displayed(Ended(x))) IN
  [y EXCEPT !.hist_num_temp = Present(y), !.pc = "command"]

\* mutant: the end of the simulation is answered as well
AnswerAlways(x) == Reply

Answer(x) == IF x.done_received THEN <<>> ELSE Reply
-----------------------------------------------------------------------------
(* Commands.                                                               *)

\* The time or the cycle count in slot h; junk if nothing was stored there.
Reading(x, h, junk) ==
  LET k == SlotAt(x, h).t IN
  IF k = 0 THEN junk ELSE IF x.cycle_flag THEN k \div 2 ELSE k

\* Behind the command loop: has the run reached the time asked for?
Leave(x, junk) ==
  LET there == /\ x.goto_flag
               /\ \/ Reading(x, x.hist_num_temp, junk) >= x.stop_time
                  \/ x.done_received
      y == IF there THEN [StopRunning(x) EXCEPT !.goto_flag = FALSE] ELSE x
  IN  [y EXCEPT !.pc = "read"]

RunOn(x) == [x EXCEPT !.echo_data = FALSE, !.running = TRUE]

NextEdge(x, junk) ==
  IF x.hist_num_temp = CMod(x.history_num - 1)
  THEN IF x.done_received THEN x ELSE Leave(x, junk)
  ELSE LET h == CMod(x.hist_num_temp + 1)
       IN  ParseData([x EXCEPT !.hist_num_temp = h], h, "step")

\* mutant: does not ask whether the ring has wrapped
PreviousEdgeWraps(x) ==
  LET h == (x.hist_num_temp - 1) % NUM_HISTORY
  IN  ParseData([x EXCEPT !.hist_num_temp = h], h, "step")

PreviousEdge(x) ==
  LET back(h) == ParseData([x EXCEPT !.hist_num_temp = h], h, "step") IN
  IF x.hist_num_temp > 0 THEN back(x.hist_num_temp - 1)
  ELSE IF x.time_wrapped THEN back(NUM_HISTORY - 1) ELSE x

\* The slots that a search from hist_num_temp visits, in order: up to the
\* slot to be written next, or down to slot 0 of a ring that has not wrapped.
Visited(x, delta) ==
  LET pos(j) == (x.hist_num_temp + delta * (j + 1)) % NUM_HISTORY
      ends(j) == \/ pos(j) = x.history_num
                 \/ j > 0 /\ delta = -1 /\ pos(j - 1) = 0 /\ ~x.time_wrapped
      len == CHOOSE j \in 0..NUM_HISTORY :
               ends(j) /\ \A l \in 0..j - 1 : ~ends(l)
  IN  [j \in 1..len |-> pos(j - 1)]

\* Slot and remaining stop_time after a look through the history.
Searched(x, delta, junk) ==
  LET path   == Visited(x, delta)
      hit(j) == LET cur == Reading(x, path[j], junk)
                IN  IF delta = 1 THEN cur >= x.stop_time
                    ELSE cur <= x.stop_time
      hits   == {j \in DOMAIN path : hit(j)}
      first  == CHOOSE j \in hits : \A l \in hits : j <= l
      below  == x.hist_num_temp = 0 /\ delta = -1 /\ ~x.time_wrapped
      how    == IF below THEN "below" ELSE "goto"
      atZero == /\ delta = -1 /\ ~x.time_wrapped
                /\ path # <<>> /\ path[Len(path)] = 0
  IN  IF hits # {}
      THEN ParseData([x EXCEPT !.hist_num_temp = path[first],
                               !.i = path[first], !.stop_time = 0],
                     path[first], how)
      ELSE IF atZero
      THEN ParseData([x EXCEPT !.i = 0, !.stop_time = 0],
                     x.hist_num_temp, how)
      ELSE [x EXCEPT !.i = x.history_num]

\* i keeps the value of an earlier search when there is nothing to look at.
Goto(x, stop, bycycle, junk) ==
  LET y     == [x EXCEPT !.stop_time = stop, !.cycle_flag = bycycle]
      delta == IF stop > Reading(y, y.hist_num_temp, junk) THEN 1 ELSE -1
      z     == IF CMod(y.hist_num_temp + delta) # y.history_num
               THEN Searched(y, delta, junk) ELSE y
      gives == z.i = z.history_num /\ (delta = -1 \/ z.done_received)
      left  == IF gives THEN 0 ELSE z.stop_time
      w     == [z EXCEPT !.stop_time = left]
  IN  IF left > 0 THEN Leave([RunOn(w) EXCEPT !.goto_flag = TRUE], junk)
      ELSE w
-----------------------------------------------------------------------------
(* Steps of the debugger.                                                  *)

\* One turn of the main loop that reads a line.
ReadLine ==
  /\ d.pc = "read" /\ ~d.done_received /\ toChild # <<>>
  /\ LET line == Head(toChild)
         x    == ProcessInput(d, line)
     IN  /\ d' = IF line.kind \in {"break", "DONE"} THEN Frame(x) ELSE x
         /\ toParent' = IF line.kind \in {"break", "DONE"}
                        THEN toParent \o Answer(x) ELSE toParent
  /\ toChild' = Tail(toChild)
  /\ UNCHANGED parent

\* One turn after the end of the simulation, which reads nothing.
Redisplay ==
  /\ d.pc = "read" /\ d.done_received
  /\ d' = Frame(d)
  /\ toParent' = toParent \o Answer(d)
  /\ UNCHANGED <<parent, toChild>>

\* bound: what a slot without a snapshot reads as
Junk == {0, MaxEdges}

\* A key while the program waits for one.
Press ==
  /\ d.pc = "command" /\ ~d.running
  /\ \E junk \in Junk :
       \/ d' = NextEdge(d, junk)
       \/ d' = PreviousEdge(d)
       \/ d' = Leave(RunOn(d), junk)
       \/ d' = ParseData(StopRunning(d), d.hist_num_temp, "step")
       \/ \E stop \in Stops, bycycle \in BOOLEAN :
            d' = Goto(d, stop, bycycle, junk)
  /\ UNCHANGED <<parent, toChild, toParent>>

\* While it runs, only 'p' counts, and it still goes on to the next snapshot.
RunThrough ==
  /\ d.pc = "command" /\ d.running
  /\ \E junk \in Junk :
       \/ d' = Leave(d, junk)
       \/ d' = Leave(ParseData(StopRunning(d), d.hist_num_temp, "pause"), junk)
  /\ UNCHANGED <<parent, toChild, toParent>>

\* mutant: leaves without a word
QuitSilently ==
  /\ d.pc = "command" /\ ~d.running
  /\ d' = [d EXCEPT !.pc = "exited"]
  /\ UNCHANGED <<parent, toChild, toParent>>

Quit ==
  /\ d.pc = "command" /\ ~d.running
  /\ d' = [d EXCEPT !.pc = "exited"]
  /\ toParent' = Append(toParent, "Z")
  /\ UNCHANGED <<parent, toChild>>
-----------------------------------------------------------------------------
(* Steps of the simulator.                                                 *)

\* A clock edge; writing to a debugger that has gone is fatal.
Edge ==
  /\ parent.phase = "run" /\ parent.edge < MaxEdges
  /\ IF d.pc = "exited"
     THEN /\ parent' = [parent EXCEPT !.phase = "exited"]
          /\ UNCHANGED toChild
     ELSE /\ parent' = [phase |-> "wait", edge |-> parent.edge + 1]
          /\ toChild' = toChild \o SnapshotLines(parent.edge + 1)
  /\ UNCHANGED <<toParent, d>>

\* pipeline_error_status has been raised.
Halt ==
  /\ parent.phase = "run" /\ parent.edge > 0
  /\ parent' = [parent EXCEPT !.phase = "halt"]
  /\ toChild' = toChild \o DoneLines
  /\ UNCHANGED <<toParent, d>>

\* Read up to 'n' or 'Z'; after 'n', two bytes more, and a third by flushpipe
\* if the program has halted.
WaitForResponse ==
  /\ parent.phase \in {"wait", "halt"}
  /\ \E k \in DOMAIN toParent :
       /\ toParent[k] \in {"n", "Z"}
       /\ \A l \in 1..k - 1 : toParent[l] \notin {"n", "Z"}
       /\ LET used == k + (IF parent.phase = "halt" THEN 3 ELSE 2) IN
          IF toParent[k] = "Z"
          THEN /\ parent' = [parent EXCEPT !.phase = "exited"]
               /\ toParent' = <<>>
          ELSE /\ Len(toParent) >= used
               /\ parent' = [parent EXCEPT !.phase =
                               IF parent.phase = "halt" THEN "exited" ELSE "run"]
               /\ toParent' = SubSeq(toParent, used + 1, Len(toParent))
  /\ UNCHANGED <<toChild, d>>

Next == \/ ReadLine \/ Redisplay \/ Press \/ RunThrough \/ Quit
        \/ Edge \/ Halt \/ WaitForResponse

Spec == Init /\ [][Next]_vars

\* The simulator is a running process: it takes the steps it can take.
FairSpec == Spec /\ WF_vars(Edge \/ Halt \/ WaitForResponse)
-----------------------------------------------------------------------------
(* Properties.                                                             *)

\* The last edge whose snapshot is complete.
Received ==
  parent.edge - (IF \E k \in DOMAIN toChild : toChild[k].kind = "break"
                 THEN 1 ELSE 0)

\* Types of the indices and flags; history_num may be -1 only inside a step.
TypeOK ==
  /\ parent \in [phase : {"run", "wait", "halt", "exited"}, edge : 0..MaxEdges]
  /\ d.pc \in {"read", "command", "exited"}
  /\ d.history_num \in Slots /\ d.hist_num_temp \in Slots
  /\ d.reg_num \in 0..NumRegs /\ d.known \in 0..NumRegs
  /\ d.i \in 0..NUM_HISTORY

\* The two processes stay in step.  The simulator is never more than one
\* snapshot ahead, the pipe back holds at most one answer and a "Z" behind
\* it, and the answer is there only while the simulator waits: so the two
\* bytes that follow 'n' never swallow the next answer (waitforresponse).
InStep ==
  /\ toParent \in {<<>>, Reply, <<"Z">>, Append(Reply, "Z")}
  /\ (toChild # <<>> /\ ~d.done_received /\ d.pc # "exited")
        => parent.phase \in {"wait", "halt"}
  /\ parent.phase = "run" => toParent \in {<<>>, <<"Z">>}
  /\ parent.phase = "wait" /\ toChild = <<>> => toParent # <<>>

\* Behind history_num the ring holds the last snapshots in order, each of
\* them whole: no line of one edge ends up in the slot of another, or at
\* another signal of its group, however long the run (processinput).
HistoryIsRecent ==
  ~d.done_received =>
    \A j \in 1..NUM_HISTORY - 1 :
      Received >= j =>
        d.slots[(d.history_num - j) % NUM_HISTORY] = Snapshot(Received - j + 1)

\* Before the end of the simulation, what is on the screen is a snapshot the
\* simulator has sent, never a slot with nothing in it, and the clock drawn
\* is its clock; but for a search that starts below slot 0 (see README).
ShowsReceived ==
  (~d.done_received /\ d.screen.by \notin {"setup", "below"}) =>
    /\ \E k \in 1..parent.edge : d.screen.shown = Snapshot(k)
    /\ d.screen.clock \in {Undrawn, ClockOf(d.screen.shown)}

\* "If the value changed from what was previously display, the signal has
\* its display color inverted" (l.359-361): what is highlighted is found by
\* comparing with what was on the screen, as long as that is in the ring.
HighlightsChanges ==
  (~d.done_received /\ d.screen.prev # Nothing
     /\ d.screen.prev.t + NUM_HISTORY > Received)
  => d.screen.against = d.screen.prev

\* Once the user has quit, the simulator ends, wherever it is: it does not
\* wait for an answer that nobody will give.
QuitEnds == d.pc = "exited" ~> parent.phase = "exited"
=============================================================================
