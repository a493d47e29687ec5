--------------------------- MODULE SongSequencer ---------------------------
(***************************************************************************)
(* The pattern sequencer of StarPlayer: the row clock, the flow of a song  *)
(* (pattern loops, breaks, position jumps, pattern delays), the detector   *)
(* that tells when a song has been heard through once, the scan that plays *)
(* a song without sound to find its length, and the playback, seeks and    *)
(* renderer replacements that use what the scan found.                     *)
(*                                                                         *)
(* Sources: starplayer-engine/src/sequencer.rs, flow.rs, timeline.rs,      *)
(* starplayer-core/src/row_clock.rs, quirks.rs, clock.rs and the row       *)
(* functions of the MOD, S3M, XM and IT processors.                        *)
(*                                                                         *)
(* A sequencer is a record, and what the code does to a sequencer is an    *)
(* operator from such a record to another one: the scan and the playback   *)
(* drive two sequencers with the same code.  The tempo is constant, so one *)
(* tick lasts TickLength frames; the frame of the next tick is kept as the *)
(* distance `elapsed' from the start of the pass (pending_tick_frame minus *)
(* song_origin), the only form in which the song clock is ever read.       *)
(***************************************************************************)
EXTENDS Naturals, Sequences, FiniteSets

CONSTANTS
  None,          \* no value: the Option::None of the code
  Songs,         \* the modules that may be loaded
  MaxArrivals,   \* MAX_PATTERN_LOOP_ARRIVALS
  MaxTicks,      \* ScanLimits.max_ticks
  MaxEdits,      \* bound: seeks, setting changes and replacements during playback
  MaxElapsed,    \* bound: longer than every pass of these songs
  MaxOverrun     \* bound: how far a host lets a song play on while it fades out

Byte == 0..255
MaxRows == 256   \* no loader makes a taller pattern
Cells == [op : {"none", "loop", "jump", "break", "delay", "speed", "stop"}, arg : Byte]

\* What a loader makes of a file: effect parameters and speeds are bytes, every pattern
\* has its cells, and there is something to play at the top of the order list.
IsSong(s) ==
  LET Patterns == DOMAIN s.rows IN
  /\ s.orders \in Seq(Patterns \cup {"skip", "end"}) /\ {"skip", "end"} \cap Patterns = {}
  /\ \E o \in DOMAIN s.orders : /\ s.orders[o] \in Patterns
                               /\ \A k \in 1..(o - 1) : s.orders[k] = "skip"
  /\ s.channels \in Nat /\ s.speed \in Byte /\ s.restart \in Nat
  /\ \A p \in Patterns : /\ s.rows[p] \in 0..MaxRows
                         /\ s.cells[p] \in [1..s.rows[p] -> [1..s.channels -> Cells]]

\* What may be there or not: None is none of it.
OrNone(S) == S \cup {None}
Jumps == [order : OrNone(Nat), row : Nat, within : BOOLEAN]
RowMarks == [order : Nat, row : Nat, frame : Nat, speed : Byte]
Ends == {"Wrapped", "Budget", "Looped"}
Visits == [verdict : Ends \cup {"New", "Repeat"}, order : Nat, row : Nat, frame : Nat, speed : Byte]
Timelines == [marks : SUBSET RowMarks, end : Ends \cup {"Stopped", "TickLimit"},
              at : Nat \X Nat, endFrame : Nat]

ASSUME SongsAssumption == \A s \in Songs : IsSong(s)
ASSUME NoneAssumption ==
  /\ None \notin Nat \cup Ends \cup {"Stopped", "TickLimit"}
  /\ None \notin Jumps /\ None \notin Visits /\ None \notin Timelines
ASSUME BoundAssumption ==
  /\ MaxArrivals \in Nat /\ MaxTicks \in Nat /\ MaxEdits \in Nat
  /\ MaxElapsed \in Nat /\ MaxOverrun \in Nat

TickLength == 2   \* so that there is a frame between two ticks
AtEnds == {"Stop", "Continue", "FadeOut"}

VARIABLES
  song,       \* the loaded module: orders, rows, cells, policy, restart, format
  phase,      \* "scan" or "play"
  seq,        \* the sequencer being driven
  ticks,      \* ticks the scan has run
  timeline,   \* what the scan found: marks, end, endFrame, target
  edits,      \* seeks, setting changes and replacements so far
  found,      \* row marks the scan has recorded
  pass        \* history: how the pass now playing began, see Began

vars == <<song, phase, seq, ticks, timeline, found, edits, pass>>

-----------------------------------------------------------------------------
(* The order list and the patterns. *)

Orders == song.orders
Pattern(o) == Orders[o + 1]                    \* orders count from 0
RowsIn(p) == song.rows[p]
Channels == 1..song.channels
Has(flag) == flag \in song.flags               \* PatternFlow and format quirks

\* resolve_order: the first pattern at or after an order, over Skip markers.
Resolve(order) ==
  LET playable == {o \in order..(Len(Orders) - 1) :
                     /\ Orders[o + 1] # "skip"
                     /\ \A k \in order..(o - 1) : Orders[k + 1] = "skip"}
  IN IF playable = {} THEN None
     ELSE LET o == CHOOSE o \in playable : TRUE
          IN IF Orders[o + 1] = "end" THEN None ELSE o

ClampedRow(p, row) == IF row >= RowsIn(p) THEN 0 ELSE row

-----------------------------------------------------------------------------
(* RowClock. *)

TotalTicks(q) == q.speed * (1 + q.delay)
StartRow(q, speed) == [q EXCEPT !.speed = speed, !.delay = 0, !.tick = 0]
FirstOfRepeat(q) == IF q.speed = 0 THEN q.tick = 0 ELSE q.tick % q.speed = 0

SetPosition(q, order, row) ==
  StartRow([q EXCEPT !.order = order, !.row = ClampedRow(Pattern(order), row)], q.speed)

-----------------------------------------------------------------------------
(* PatternFlowState.  The row-scoped fields live in the record c that is   *)
(* folded over the channels of one row; `target', `count', `globalTarget'  *)
(* and `globalCount' outlive the row.                                      *)

FreshFlow == [target |-> [c \in Channels |-> 0], count |-> [c \in Channels |-> 0],
              globalTarget |-> None, globalCount |-> 0]

Start(c, ch) ==
  IF Has("globalTarget") THEN IF c.flow.globalTarget = None THEN 0 ELSE c.flow.globalTarget
  ELSE c.flow.target[ch]
Count(c, ch) == IF Has("globalCount") THEN c.flow.globalCount ELSE c.flow.count[ch]
SetStart(c, ch, row) ==
  IF Has("globalTarget") THEN [c EXCEPT !.flow.globalTarget = row]
  ELSE [c EXCEPT !.flow.target[ch] = row]
SetCount(c, ch, n) ==
  IF Has("globalCount") THEN [c EXCEPT !.flow.globalCount = n]
  ELSE [c EXCEPT !.flow.count[ch] = n]

PositionChanged(flow) == IF Has("patternReset") THEN FreshFlow ELSE flow

\* A loop jump has been chosen: what it does to a break seen earlier on the row.
Looped(c, ch) ==
  LET d == [c EXCEPT !.dest = Start(c, ch)]
      shared == Has("sharedBreak") /\ d.break
      unset == \/ Has("unsetBreak") /\ d.jumpOrder = None
               \/ Has("unsetJump") /\ d.jumpOrder # None
  IN [d EXCEPT !.jumpRow = IF shared THEN d.dest ELSE @,
               !.break = @ /\ ~unset,
               !.jumpOrder = IF d.break /\ Has("unsetJump") THEN None ELSE @]

MarkTarget(c, ch, row) ==
  IF Has("ignoreTarget") /\ Count(c, ch) >= 1 THEN c ELSE SetStart(c, ch, row)

\* The last arrival at the loop effect: the loop is over.
EndLoop(c, ch, row) ==
  LET d == SetCount(c, ch, 0)
      e == IF Has("endAdvances") THEN SetStart(d, ch, row + 1) ELSE d
  IN IF Has("endCancels") THEN [e EXCEPT !.dest = None] ELSE e

PatternLoop(c, ch, row, n) ==
  LET d == [c EXCEPT !.seen = TRUE]
      e == IF Has("globalTarget") /\ d.flow.globalTarget = None
           THEN SetStart(d, ch, IF Has("initSameRow") THEN row ELSE 0) ELSE d
      another == \E o \in Channels \ {ch} : e.flow.count[o] # 0
  IN IF Has("firstEffectOnly") /\ c.seen THEN c
     ELSE IF n = 0 THEN MarkTarget(d, ch, row)
     ELSE IF Count(e, ch) = 0
          THEN IF Has("oneAtATime") /\ another THEN e ELSE Looped(SetCount(e, ch, n), ch)
     ELSE IF Count(e, ch) = 1 THEN EndLoop(e, ch, row)
     ELSE Looped(SetCount(e, ch, Count(e, ch) - 1), ch)

PatternJump(c, order) ==
  IF Has("delayJump") /\ c.dest # None THEN c
  ELSE [c EXCEPT !.break = TRUE, !.jumpOrder = order, !.rowBreak = FALSE,
                 !.jumpRow = IF Has("jumpKeepsBreakRow") THEN @ ELSE 0]

PatternBreak(c, row) ==
  IF Has("delayBreak") /\ c.dest # None THEN c
  ELSE [c EXCEPT !.break = TRUE, !.jumpRow = row, !.rowBreak = TRUE]

\* EEx / SEx: the first non-zero value of a row wins in S3M and IT, the last in MOD and XM.
PatternDelay(c, n) ==
  IF Has("firstDelayWins") /\ (n = 0 \/ c.delay # 0) THEN c ELSE [c EXCEPT !.delay = n]

Effect(c, ch, row, cell) ==
  CASE cell.op = "loop"  -> PatternLoop(c, ch, row, cell.arg)
    [] cell.op = "jump"  -> PatternJump(c, cell.arg)
    [] cell.op = "break" -> PatternBreak(c, cell.arg)
    [] cell.op = "delay" -> PatternDelay(c, cell.arg)
    [] cell.op = "speed" -> [c EXCEPT !.speed = cell.arg]
    [] cell.op = "stop"  -> [c EXCEPT !.stop = TRUE]
    [] OTHER             -> c

Jump(order, row, within) == [order |-> order, row |-> row, within |-> within]

\* PatternFlowState::jump: a break or position jump wins over a loop destination.
ChosenJump(c) ==
  IF c.break THEN Jump(c.jumpOrder, c.jumpRow, FALSE)
  ELSE IF c.dest # None THEN Jump(None, c.dest, TRUE) ELSE None

\* finish_row_outcome: ProTracker skips one more row when a delayed row breaks.
DelayedBreak(q, c, jump) ==
  LET order == IF jump.order = None THEN q.order + 1 ELSE jump.order
      skips == Has("delaySkipsRow") /\ c.delay # 0 /\ c.rowBreak /\ c.break
  IN CASE ~skips                                          -> jump
       [] skips /\ jump.row + 1 < RowsIn(Pattern(q.order)) -> [jump EXCEPT !.row = @ + 1]
       [] OTHER                                           -> Jump(order + 1, 0, FALSE)

RowStart(q, flow) ==
  [flow |-> flow, dest |-> None, seen |-> FALSE, break |-> FALSE, jumpOrder |-> None,
   jumpRow |-> 0, rowBreak |-> FALSE, delay |-> q.delay, speed |-> q.speed, stop |-> FALSE]

\* The effects of a row, one channel after the other.
Performed(order, row, start) ==
  LET cells == song.cells[Pattern(order)][row + 1]
      after[ch \in 0..song.channels] ==
        IF ch = 0 THEN start ELSE Effect(after[ch - 1], ch, row, cells[ch])
  IN after[song.channels]

\* TrackerProcessor::row, and row_repeat where a repeat runs the effects again.
RowEffects(q, flow) ==
  LET c == Performed(q.order, q.row, RowStart(q, flow))
  IN [out |-> [speed |-> c.speed, delay |-> c.delay, stop |-> c.stop,
               jump |-> DelayedBreak(q, c, ChosenJump(c))],
      flow |-> c.flow]

Quiet(q) == [out |-> [speed |-> q.speed, delay |-> q.delay, stop |-> FALSE, jump |-> None],
             flow |-> q.flow]

\* run_tick: a row that is not there ends the song.
RunTick(q) ==
  LET moved == q.lastPos # None /\ q.lastPos # q.order
      missing == RowsIn(Pattern(q.order)) = 0
  IN CASE q.tick = 0 /\ missing -> [Quiet(q) EXCEPT !.out.stop = TRUE]
       [] q.tick = 0 /\ ~missing -> RowEffects(q, IF moved THEN PositionChanged(q.flow) ELSE q.flow)
       [] q.tick # 0 /\ FirstOfRepeat(q) /\ Has("repeatRunsEffects") /\ ~missing -> RowEffects(q, q.flow)
       [] OTHER -> Quiet(q)

-----------------------------------------------------------------------------
(* LoopDetector. *)

At(q) == <<q.order, q.row>>

\* Mutant of Arrive: a jump does not end a pattern loop.
ArriveStillInside(q) ==
  CASE q.arrival = "PatternLoop" -> [q EXCEPT !.inside = TRUE, !.arrivals = @ + 1]
    [] OTHER                     -> q

\* Mutant of Arrive: the arrivals of a loop that never ends are not counted.
ArriveUncounted(q) ==
  CASE q.arrival = "PatternLoop" -> [q EXCEPT !.inside = TRUE]
    [] q.arrival = "Sequential"  -> q
    [] OTHER                     -> [q EXCEPT !.inside = FALSE, !.arrivals = 0]

Arrive(q) ==
  CASE q.arrival = "PatternLoop" -> [q EXCEPT !.inside = TRUE, !.arrivals = @ + 1]
    [] q.arrival = "Sequential"  -> q
    [] OTHER                     -> [q EXCEPT !.inside = FALSE, !.arrivals = 0]

\* What visit answers, of a sequencer that has arrived.
Verdict(q) ==
  LET again == At(q) \in q.seen
  IN IF ~q.armed THEN "Repeat"
     ELSE IF q.arrival = "Wrapped" THEN "Wrapped"
     ELSE IF q.arrivals > MaxArrivals THEN "Budget"
     ELSE IF ~again THEN "New"
     ELSE IF q.inside THEN "Repeat" ELSE "Looped"

ResetDetector(q) == [q EXCEPT !.seen = {}, !.inside = FALSE, !.arrivals = 0, !.armed = TRUE]

\* Row marks of the timeline; the scan marks each row once.
Marks == IF timeline = None THEN {} ELSE timeline.marks
MarksAt(order, row) == {m \in Marks : m.order = order /\ m.row = row}
PlayedBefore(frame) == {<<m.order, m.row>> : m \in {x \in Marks : x.frame < frame}}
\* Mutant of ResetMarkingBefore: a seek forgets the rows before its target.
ResetOnly(q, frame) == ResetDetector(q)
ResetMarkingBefore(q, frame) == [ResetDetector(q) EXCEPT !.seen = PlayedBefore(frame)]

-----------------------------------------------------------------------------
(* PatternSequencer. *)

\* seek_order_row after its order has been resolved, with begin_seeked_row.
SeekTo(q, order, row) ==
  LET moved == [SetPosition(q, order, row) EXCEPT !.jump = None, !.flow = FreshFlow,
                  !.lastPos = None, !.state = "Ready", !.arrival = "Start", !.endReached = FALSE]
      mark == MarksAt(order, moved.row)
  IN IF mark = {} THEN ResetDetector(moved)
     ELSE LET m == CHOOSE m \in mark : TRUE
          IN ResetMarkingBefore(StartRow(moved, m.speed), m.frame)

Scanned(order, row) ==
  LET mark == MarksAt(order, row)
  IN IF mark = {} THEN 0 ELSE (CHOOSE m \in mark : TRUE).frame

\* wrap_at_loop_point: rebase the elapsed clock on the row now starting.
WrapAtLoopPoint(q) ==
  IF MarksAt(q.order, q.row) = {}
  THEN [ResetDetector(q) EXCEPT !.elapsed = 0]
  ELSE LET frame == Scanned(q.order, q.row)
       IN [ResetMarkingBefore(q, frame) EXCEPT !.elapsed = frame, !.seen = @ \cup {At(q)}]

\* begin_row, at the first tick of a row; `runs' says whether the tick may run.
BeginRow(q) ==
  LET a == Arrive(q)
      verdict == Verdict(a)
      ended == verdict \in Ends
      v == [a EXCEPT !.seen = @ \cup {At(q)},
                     !.armed = @ /\ ~ended,
                     !.visit = [verdict |-> verdict, order |-> q.order, row |-> q.row,
                                frame |-> q.elapsed, speed |-> q.speed],
                     !.endReached = ended \/ (@ /\ q.atEnd # "Continue"),
                     !.runs = ~ended \/ q.atEnd = "Continue"
                              \/ (q.atEnd = "FadeOut" /\ verdict # "Wrapped")]
  IN IF ended /\ q.atEnd = "Continue" THEN WrapAtLoopPoint(v) ELSE v

\* The order list ran out or a stop marker fired: Continue restarts a scanned song.
Restarts(q) == timeline # None /\ q.atEnd = "Continue" /\ Resolve(song.restart) # None

EndNaturally(q) ==
  IF Restarts(q)
  THEN [ResetDetector(SeekTo(q, Resolve(song.restart), 0)) EXCEPT !.elapsed = 0, !.due = TickLength]
  ELSE [q EXCEPT !.endReached = TRUE, !.state = "Stopped"]

\* move_to_order, with the end-of-song policy.
MoveToOrder(q, order, row) ==
  LET wrapped == [q EXCEPT !.arrival = "Wrapped"]
  IN CASE Resolve(order) # None -> SetPosition(q, Resolve(order), row)
       [] Resolve(order) = None /\ song.policy # "Stop" /\ Resolve(song.restart) # None ->
            SetPosition(wrapped, Resolve(song.restart),
                        IF song.policy = "WrapKeepingBreakRow" THEN row ELSE 0)
       [] OTHER -> EndNaturally(q)

BeginNextRow(q, jump) ==
  CASE jump # None /\ jump.within ->
         StartRow([q EXCEPT !.row = ClampedRow(Pattern(q.order), jump.row),
                            !.arrival = "PatternLoop"], q.speed)
    [] jump # None /\ ~jump.within ->
         MoveToOrder([q EXCEPT !.arrival = "Jump"],
                     IF jump.order = None THEN q.order + 1 ELSE jump.order, jump.row)
    [] jump = None /\ q.row + 1 < RowsIn(Pattern(q.order)) ->
         StartRow([q EXCEPT !.row = @ + 1, !.arrival = "Sequential"], q.speed)
    [] OTHER -> MoveToOrder([q EXCEPT !.arrival = "NextOrder"], q.order + 1, 0)

\* commit: consume the outcome of a tick and find the next one.
Commit(q, out) ==
  LET timed == [q EXCEPT !.speed = out.speed,
                         !.delay = IF q.tick = 0 THEN out.delay ELSE @,
                         !.jump = IF out.jump # None THEN out.jump ELSE @]
      next == [timed EXCEPT !.elapsed = @ + TickLength, !.due = TickLength, !.tick = @ + 1]
  IN CASE out.stop -> EndNaturally(timed)
       [] ~out.stop /\ next.tick < TotalTicks(next) -> next
       [] OTHER -> BeginNextRow([next EXCEPT !.jump = None], next.jump)

\* dispatch: one tick.
Dispatch(q) ==
  LET quiet == [q EXCEPT !.visit = None, !.runs = TRUE, !.due = 0]
      begun == IF q.tick = 0 THEN BeginRow(quiet) ELSE quiet
      ran == RunTick(begun)
      played == [begun EXCEPT !.flow = ran.flow, !.sounding = At(begun),
                              !.lastPos = IF begun.tick = 0 THEN begun.order ELSE @]
  IN IF begun.runs THEN Commit(played, ran.out)
     ELSE [begun EXCEPT !.state = "Stopped"]

\* try_new: a sequencer at the top of the order list.
NewSequencer(atEnd) ==
  LET q == [order |-> 0, row |-> 0, speed |-> song.speed, delay |-> 0, tick |-> 0,
            state |-> "Ready", jump |-> None, arrival |-> "Start", flow |-> FreshFlow,
            lastPos |-> None, seen |-> {}, inside |-> FALSE, arrivals |-> 0, armed |-> TRUE,
            elapsed |-> 0, due |-> 0, sounding |-> <<0, 0>>, atEnd |-> atEnd,
            endReached |-> FALSE, visit |-> None, runs |-> TRUE]
  IN [MoveToOrder(q, 0, 0) EXCEPT !.arrival = "Start", !.endReached = FALSE]

-----------------------------------------------------------------------------
(* The scan: scan_with_tables over a sequencer of its own, AtEnd::Stop.    *)

Init ==
  /\ song \in Songs
  /\ phase = "scan"
  /\ timeline = None
  /\ seq = NewSequencer("Stop")
  /\ ticks = 0
  /\ found = {}
  /\ edits = 0
  /\ pass = "first"

Mark(v) == [order |-> v.order, row |-> v.row, frame |-> v.frame, speed |-> v.speed]

\* The tick just dispatched has found the end of the song.
Announces(q) == q.visit # None /\ q.visit.verdict \in Ends

\* A tick of the scan: a row played for the first time is recorded.
ScanTick ==
  /\ phase = "scan" /\ seq.state = "Ready" /\ ticks < MaxTicks
  /\ ~Announces(seq)
  /\ seq' = Dispatch(seq)
  /\ ticks' = ticks + 1
  /\ found' = IF seq'.visit # None /\ seq'.visit.verdict = "New"
              THEN found \cup {Mark(seq'.visit)} ELSE found
  /\ UNCHANGED <<song, phase, timeline, edits, pass>>

\* How a scan is over: the detector fired, the song stopped, or the limit was hit.
EndReason ==
  CASE Announces(seq)           -> seq.visit.verdict
    [] seq.state = "Stopped" /\ ~Announces(seq) -> "Stopped"
    [] ticks >= MaxTicks /\ seq.state = "Ready" /\ ~Announces(seq) -> "TickLimit"
    [] OTHER                    -> None

\* Mutant of EndFrame: a natural end is put at the start of its last tick.
EndFrameOfLastTick == seq.elapsed

\* The length of one pass: a song that stops plays its last tick to its end.
EndFrame ==
  IF EndReason = "Stopped" /\ ticks > 0 THEN seq.elapsed - seq.due + TickLength ELSE seq.elapsed

\* build_module: a second sequencer, with the timeline installed, from the top.
Install ==
  /\ phase = "scan" /\ EndReason # None
  /\ UNCHANGED <<song, edits, pass>>
  /\ phase' = "play"
  /\ timeline' = [marks |-> found, end |-> EndReason, at |-> At(seq),
                  endFrame |-> EndFrame]
  /\ \E atEnd \in AtEnds :
       seq' = [(SeekTo(NewSequencer(atEnd), Resolve(0), 0))' EXCEPT !.elapsed = Scanned(Resolve(0), 0)']
  /\ ticks' = 0
  /\ found' = {}

-----------------------------------------------------------------------------
(* Playback. *)

Playing == phase = "play" /\ seq.state = "Ready"

\* A pass begins from the top, or moved to a row the scan knows, or to one it does not know.
Began(order, row) == IF MarksAt(order, row) = {} THEN "loose" ELSE "moved"

PlayTick ==
  /\ Playing /\ seq.elapsed < MaxElapsed
  /\ seq.armed \/ seq.elapsed < timeline.endFrame + MaxOverrun
  /\ seq' = Dispatch(seq)
  /\ pass' = IF Announces(seq') THEN "again"
             ELSE IF seq'.elapsed > seq.elapsed \/ seq'.state = "Stopped" THEN pass
             ELSE Began(seq'.order, seq'.row)
  /\ UNCHANGED <<song, phase, timeline, ticks, found, edits>>

\* A seek to an order, or to a frame of the song: seek_order_at, seek_frame, then
\* restart_clock_at.  A position the scan never reached starts the clock from zero.
Seek(order, row) ==
  /\ phase = "play" /\ edits < MaxEdits
  /\ seq' = [SeekTo(seq, order, row) EXCEPT !.elapsed = Scanned(order, row), !.due = 0]
  /\ edits' = edits + 1
  /\ pass' = Began(order, row)
  /\ UNCHANGED <<song, phase, timeline, ticks, found>>

SeekOrder == \E order \in 0..(Len(Orders) - 1) : Resolve(order) # None /\ Seek(Resolve(order), 0)
SeekFrame == \E m \in Marks : Seek(m.order, m.row)

SetAtEnd ==
  /\ phase = "play" /\ edits < MaxEdits
  /\ \E atEnd \in AtEnds \ {seq.atEnd} : seq' = [seq EXCEPT !.atEnd = atEnd]
  /\ edits' = edits + 1
  /\ UNCHANGED <<song, phase, timeline, ticks, found, pass>>

\* Mutant of SongFrame: the cursor is not extrapolated from the tick that took it.
SongFrameOfTick(q, paused) == IF q.elapsed < q.due THEN 0 ELSE q.elapsed - q.due

\* song_frame, one frame after the last tick: read then by a pause, or read at the
\* tick itself and extrapolated by rebuild and replacement_state while playing.
SongFrame(q, paused) ==
  LET late == q.elapsed + 1
  IN IF paused THEN IF late < q.due THEN 0 ELSE late - q.due
     ELSE IF q.elapsed < q.due THEN 1 ELSE late - q.due

\* cursor and restore_cursor: a fresh sequencer that goes on where this one is.
Restored(q, paused) ==
  LET fresh == SeekTo(NewSequencer(q.atEnd), q.order, q.row)
      frame == SongFrame(q, paused)
  IN [ResetMarkingBefore(fresh, frame) EXCEPT
        !.speed = q.speed, !.delay = q.delay, !.tick = q.tick, !.arrival = q.arrival,
        !.inside = q.inside, !.arrivals = q.arrivals, !.armed = q.armed,
        !.jump = q.jump, !.elapsed = frame + q.due - 1, !.due = q.due - 1,
        !.sounding = q.sounding, !.endReached = q.endReached, !.state = q.state]

\* The renderer is replaced, between two ticks, by one built from its cursor.
Replace ==
  /\ Playing /\ edits < MaxEdits /\ seq.due = TickLength
  /\ \E paused \in BOOLEAN : seq' = Restored(seq, paused)
  /\ edits' = edits + 1
  /\ pass' = CASE pass = "first" -> "replaced" [] pass = "moved" -> "loose" [] OTHER -> pass
  /\ UNCHANGED <<song, phase, timeline, ticks, found>>

Next == ScanTick \/ Install \/ PlayTick \/ SeekOrder \/ SeekFrame \/ SetAtEnd \/ Replace

Spec == Init /\ [][Next]_vars

-----------------------------------------------------------------------------
(* Properties. *)

TypeOK ==
  /\ phase \in {"scan", "play"} /\ pass \in {"first", "moved", "loose", "again", "replaced"}
  /\ seq.state \in {"Ready", "Stopped"} /\ seq.atEnd \in AtEnds
  /\ seq.order \in 0..(Len(Orders) - 1)
  /\ Pattern(seq.order) \notin {"skip", "end"}
  /\ seq.row < RowsIn(Pattern(seq.order)) \/ seq.row = 0
  /\ seq.state = "Ready" => seq.tick < TotalTicks(seq)
  /\ seq.arrivals <= MaxArrivals + 1
  /\ seq.due \in 0..TickLength

\* The detector gives every song an end: no scan has to be cut off at its tick limit
\* (LoopDetector::visit, MAX_PATTERN_LOOP_ARRIVALS).
ScanFindsAnEnd == timeline # None => timeline.end # "TickLimit"

\* Wherever playback was moved to, the end of the song is announced at the row where
\* the scan found it (reset_marking_before).
CanonicalEnd ==
  [][PlayTick /\ pass \in {"first", "moved", "replaced"} /\ Announces(seq') /\ timeline.end \in {"Looped", "Wrapped"} =>
       /\ seq'.visit.verdict = timeline.end
       /\ <<seq'.visit.order, seq'.visit.row>> = timeline.at]_vars

\* A renderer built from a cursor has played the same rows as the one it replaces
\* (cursor_state, "paired with timeline-based visited-row reconstruction").
KnowsThePlayedRows ==
  phase = "play" /\ pass = "first" /\ seq.due = TickLength =>
     \A paused \in BOOLEAN : Restored(seq, paused).seen = seq.seen

\* A song that is played from its start is over at the frame the scan computed, under
\* every end-of-song setting: what a progress bar and a renderer to a file rely on.
\* A turn of the tape is a tick; a natural end falls at the end of its last tick.
Tape == INSTANCE SongTape WITH
  Unknown <- None,
  Step <- TickLength,
  length <- IF timeline = None THEN None ELSE timeline.endFrame,
  head <- CASE phase = "scan" -> 0
            [] phase = "play" /\ seq.state = "Stopped" /\ ~Announces(seq) ->
                 seq.elapsed + TickLength - seq.due
            [] OTHER -> seq.elapsed,
  straight <- pass = "first",
  over <- phase = "play" /\ (seq.endReached \/ seq.state = "Stopped")
PlaysItsLength == Tape!Spec

\* However a pass began, it comes to an end: no song plays on past every bound.
EveryPassEnds == phase = "play" /\ seq.state = "Ready" => seq.elapsed < MaxElapsed

\* A song whose end is not announced is listening for it: the pulse of Continue passes,
\* and the next pass has an end as well (AtEnd::Continue, LoopDetector).
ListensForTheEnd == phase = "play" /\ seq.state = "Ready" => seq.armed \/ seq.endReached
=============================================================================
