------------------------- MODULE SongSequencer_proofs -------------------------
(***************************************************************************)
(* The pattern sequencer, for every song a loader can make and every       *)
(* limit.                                                                  *)
(*                                                                         *)
(*   1-2.  What each operator makes of a sequencer: its type, and what     *)
(*         becomes of the fields that tell when a pass is over.            *)
(*   3-4.  Types of every state; a tick of the scan does not depend on     *)
(*         the timeline.                                                   *)
(*   5-6.  Two sequencers that differ in what they do at the end only, and *)
(*         a tick of the scan.                                             *)
(*   7-8.  The scan is a run of ticks, and the first pass follows it.      *)
(*   9.    A song is as long as the scan says, and ends where it says.     *)
(*   10.   No scan is endless.                                             *)
(*   11.   Songs without pattern loops: their scans find an end.           *)
(***************************************************************************)
EXTENDS SongSequencer, NaturalsInduction, FiniteSetTheorems, WellFoundedInduction, TLAPS

USE NoneAssumption, BoundAssumption

-----------------------------------------------------------------------------
(* Small numbers *)

\* What holds at the beginning, and one place on wherever it holds, holds to the end.
LEMMA Onwards ==
    ASSUME NEW k \in Nat, NEW S, 0 \in S, \A n \in 0 .. k : n \in S /\ n # k => n + 1 \in S
    PROVE  k \in S
<1> DEFINE T == {n \in 0 .. k : n \notin S}
           R == OpToRel(<, Nat)
<1>1. CASE T = {}
  BY <1>1
<1>2. CASE T # {}
  <2>1. IsWellFoundedOn(R, Nat)
    BY NatLessThanWellFounded
  <2>2. PICK m \in T : \A n \in T : ~(<<n, m>> \in R)
    <3>1. T \subseteq Nat
      OBVIOUS
    <3> HIDE DEF T, R
    <3> QED BY <1>2, <2>1, <3>1, WFMin
  <2>3. m \in Nat /\ m # 0 /\ m <= k /\ m \notin S
    OBVIOUS
  <2>4. m - 1 \in Nat /\ m - 1 < m /\ m - 1 \in 0 .. k /\ m - 1 # k
    BY <2>3
  <2>5. m - 1 \notin T
    <3> DEFINE n == m - 1
    <3>1. n \in Nat /\ n < m
      BY <2>4
    <3> HIDE DEF n
    <3>2. <<n, m>> \in R
      BY <2>3, <3>1 DEF OpToRel
    <3>3. n \notin T
      BY <2>2, <3>2
    <3> QED BY <3>3 DEF n
  <2>6. (m - 1) + 1 \in S
    BY <2>4, <2>5
  <2> QED BY <2>3, <2>6
<1> QED BY <1>1, <1>2

-----------------------------------------------------------------------------
(* 1. Types *)

Patterns == DOMAIN song.rows

Flows == [target : [Channels -> Nat], count : [Channels -> Nat],
          globalTarget : OrNone(Nat), globalCount : Nat]

\* What the effects of a row are folded into.
RowStates == [flow : Flows, dest : OrNone(Nat), seen : BOOLEAN, break : BOOLEAN,
              jumpOrder : OrNone(Nat), jumpRow : Nat, rowBreak : BOOLEAN,
              delay : Byte, speed : Byte, stop : BOOLEAN]

Outs == [speed : Byte, delay : Byte, stop : BOOLEAN, jump : OrNone(Jumps)]

Sequencers ==
  [order : Nat, row : Nat, speed : Byte, delay : Byte, tick : Nat, state : {"Ready", "Stopped"},
   jump : OrNone(Jumps), arrival : {"Start", "Sequential", "PatternLoop", "Jump", "NextOrder", "Wrapped"},
   flow : Flows, lastPos : OrNone(Nat), seen : SUBSET (Nat \X Nat), inside : BOOLEAN, arrivals : Nat,
   armed : BOOLEAN, elapsed : Nat, due : 0 .. TickLength, sounding : Nat \X Nat, atEnd : AtEnds,
   endReached : BOOLEAN, visit : OrNone(Visits), runs : BOOLEAN]

\* The sequencer is at a row that can be played.
Placed(q) == /\ q.order + 1 \in DOMAIN Orders /\ Pattern(q.order) \in Patterns
             /\ q.row < RowsIn(Pattern(q.order)) \/ q.row = 0

LEMMA TheSong ==
    ASSUME IsSong(song)
    PROVE  /\ Orders \in Seq(Patterns \cup {"skip", "end"}) /\ {"skip", "end"} \cap Patterns = {}
           /\ song.channels \in Nat /\ song.speed \in Byte /\ song.restart \in Nat
           /\ \A p \in Patterns : /\ RowsIn(p) \in Nat /\ RowsIn(p) <= MaxRows
                                  /\ song.cells[p] \in [1..RowsIn(p) -> [Channels -> Cells]]
<1>1. \A p \in Patterns : RowsIn(p) \in 0 .. MaxRows
  BY DEF IsSong, Patterns, RowsIn
<1>2. \A p \in Patterns : RowsIn(p) \in Nat /\ RowsIn(p) <= MaxRows
  BY <1>1 DEF MaxRows
<1> QED BY <1>2 DEF IsSong, Orders, Patterns, RowsIn, Channels

\* A position of the order list resolves to a pattern that can be played.
LEMMA ResolvesToAPattern ==
    ASSUME IsSong(song), NEW order \in Nat, Resolve(order) # None
    PROVE  Resolve(order) \in Nat /\ Resolve(order) + 1 \in DOMAIN Orders /\ Pattern(Resolve(order)) \in Patterns
<1> DEFINE playable == {o \in order..(Len(Orders) - 1) :
                     /\ Orders[o + 1] # "skip"
                     /\ \A k \in order..(o - 1) : Orders[k + 1] = "skip"}
           o == CHOOSE o \in playable : TRUE
<1>1. Len(Orders) \in Nat /\ DOMAIN Orders = 1 .. Len(Orders)
      /\ \A i \in 1 .. Len(Orders) : Orders[i] \in Patterns \cup {"skip", "end"}
  BY TheSong
<1>2. playable # {} /\ o \in playable /\ Resolve(order) = o /\ Orders[o + 1] # "end"
  BY DEF Resolve
<1>3. o \in order .. (Len(Orders) - 1) /\ Orders[o + 1] # "skip"
  BY <1>2
<1> HIDE DEF o, playable
<1>4. o \in Nat /\ o + 1 \in 1 .. Len(Orders)
  BY <1>1, <1>3
<1> QED BY <1>1, <1>2, <1>3, <1>4 DEF Pattern

\* There is something to play at the top.
LEMMA TopResolves == ASSUME IsSong(song) PROVE Resolve(0) # None
<1>1. PICK i \in DOMAIN Orders : Orders[i] \in Patterns /\ \A k \in 1 .. (i - 1) : Orders[k] = "skip"
  BY DEF IsSong, Orders, Patterns
<1>2. Len(Orders) \in Nat /\ DOMAIN Orders = 1 .. Len(Orders) /\ {"skip", "end"} \cap Patterns = {}
  BY TheSong
<1> DEFINE playable == {o \in 0..(Len(Orders) - 1) :
                     /\ Orders[o + 1] # "skip"
                     /\ \A k \in 0..(o - 1) : Orders[k + 1] = "skip"}
           o == CHOOSE o \in playable : TRUE
<1>3. i - 1 \in 0 .. (Len(Orders) - 1) /\ (i - 1) + 1 = i
  BY <1>2
<1>4. Orders[(i - 1) + 1] # "skip"
  BY <1>1, <1>2, <1>3
<1>5. ASSUME NEW k \in 0 .. ((i - 1) - 1) PROVE Orders[k + 1] = "skip"
  <2>1. k + 1 \in 1 .. (i - 1)
    BY <1>2
  <2> QED BY <1>1, <2>1
<1>6. i - 1 \in playable
  BY <1>3, <1>4, <1>5
<1>7. o \in playable
  BY <1>6
<1>8. ASSUME NEW x \in playable PROVE x = i - 1
  <2>1. x \in 0 .. (Len(Orders) - 1) /\ Orders[x + 1] # "skip" /\ \A k \in 0 .. (x - 1) : Orders[k + 1] = "skip"
    OBVIOUS
  <2>2. ~(x < i - 1)
    BY <1>2, <1>5, <2>1
  <2>3. ~(i - 1 < x)
    <3>1. i - 1 < x => i - 1 \in 0 .. (x - 1)
      BY <1>2, <2>1
    <3> QED BY <1>4, <2>1, <3>1
  <2> QED BY <1>2, <2>1, <2>2, <2>3
<1>9. o = i - 1 /\ Orders[o + 1] # "end"
  BY <1>1, <1>2, <1>3, <1>7, <1>8
<1>10. Resolve(0) = o
  <2>1. Resolve(0) = IF playable = {} THEN None ELSE IF Orders[o + 1] = "end" THEN None ELSE o
    BY DEF Resolve
  <2> HIDE DEF o, playable
  <2> QED BY <1>7, <1>9, <2>1
<1>11. i - 1 \in Nat
  BY <1>2, <1>3
<1> HIDE DEF o
<1> QED BY <1>9, <1>10, <1>11

LEMMA FlowTyped == ASSUME IsSong(song) PROVE FreshFlow \in Flows
  BY TheSong DEF FreshFlow, Flows, Channels, OrNone

-----------------------------------------------------------------------------
(* The effects of a row. *)

LEMMA ClockTyped ==
    ASSUME IsSong(song), NEW q \in Sequencers, NEW speed \in Byte
    PROVE  StartRow(q, speed) \in Sequencers
<1>1. 0 \in Byte /\ 0 \in Nat
  BY DEF Byte
<1> QED BY <1>1 DEF StartRow, Sequencers

LEMMA LoopOperators ==
    ASSUME IsSong(song), NEW c \in RowStates, NEW ch \in Channels
    PROVE  /\ Start(c, ch) \in Nat /\ Count(c, ch) \in Nat
           /\ \A n \in Nat : SetStart(c, ch, n) \in RowStates /\ SetCount(c, ch, n) \in RowStates
<1>1. Start(c, ch) \in Nat /\ Count(c, ch) \in Nat
  BY DEF RowStates, Flows, OrNone, Start, Count
<1>2. ASSUME NEW n \in Nat PROVE SetStart(c, ch, n) \in RowStates /\ SetCount(c, ch, n) \in RowStates
  BY DEF RowStates, Flows, OrNone, SetStart, SetCount
<1> QED BY <1>1, <1>2

LEMMA LoopedTyped ==
    ASSUME IsSong(song), NEW c \in RowStates, NEW ch \in Channels
    PROVE  Looped(c, ch) \in RowStates
<1>1. Start(c, ch) \in Nat
  BY LoopOperators
<1> QED BY <1>1 DEF RowStates, OrNone, Looped

LEMMA EndLoopTyped ==
    ASSUME IsSong(song), NEW c \in RowStates, NEW ch \in Channels, NEW row \in Nat
    PROVE  EndLoop(c, ch, row) \in RowStates
<1> DEFINE d == SetCount(c, ch, 0)
           e == IF Has("endAdvances") THEN SetStart(d, ch, row + 1) ELSE d
<1>1. d \in RowStates
  BY LoopOperators
<1>2. e \in RowStates
  <2> HIDE DEF d
  <2> QED BY <1>1, LoopOperators
<1>3. [e EXCEPT !.dest = None] \in RowStates
  <2> HIDE DEF e
  <2> QED BY <1>2 DEF RowStates, OrNone
<1> QED BY <1>2, <1>3 DEF EndLoop

LEMMA PatternLoopTyped ==
    ASSUME IsSong(song), NEW c \in RowStates, NEW ch \in Channels, NEW row \in Nat, NEW n \in Nat
    PROVE  PatternLoop(c, ch, row, n) \in RowStates
<1> DEFINE d == [c EXCEPT !.seen = TRUE]
           e == IF Has("globalTarget") /\ d.flow.globalTarget = None
                THEN SetStart(d, ch, IF Has("initSameRow") THEN row ELSE 0) ELSE d
<1>1. d \in RowStates
  BY DEF RowStates
<1>2. e \in RowStates
  <2> HIDE DEF d
  <2> QED BY <1>1, LoopOperators
<1>3. MarkTarget(d, ch, row) \in RowStates
  <2> HIDE DEF d
  <2> QED BY <1>1, LoopOperators DEF MarkTarget
<1>4. Count(e, ch) \in Nat /\ (Count(e, ch) # 0 => Count(e, ch) - 1 \in Nat)
  <2> HIDE DEF e
  <2>1. Count(e, ch) \in Nat
    BY <1>2, LoopOperators
  <2> QED BY <2>1
<1>5. /\ SetCount(e, ch, n) \in RowStates
      /\ Count(e, ch) # 0 => SetCount(e, ch, Count(e, ch) - 1) \in RowStates
  <2> HIDE DEF e
  <2> QED BY <1>2, <1>4, LoopOperators
<1>6. /\ Looped(SetCount(e, ch, n), ch) \in RowStates
      /\ Count(e, ch) # 0 => Looped(SetCount(e, ch, Count(e, ch) - 1), ch) \in RowStates
      /\ EndLoop(e, ch, row) \in RowStates
  <2> HIDE DEF e
  <2> QED BY <1>2, <1>5, LoopedTyped, EndLoopTyped
<1> DEFINE another == \E o \in Channels \ {ch} : e.flow.count[o] # 0
<1>7. PatternLoop(c, ch, row, n) =
        IF Has("firstEffectOnly") /\ c.seen THEN c
        ELSE IF n = 0 THEN MarkTarget(d, ch, row)
        ELSE IF Count(e, ch) = 0
             THEN IF Has("oneAtATime") /\ another THEN e ELSE Looped(SetCount(e, ch, n), ch)
        ELSE IF Count(e, ch) = 1 THEN EndLoop(e, ch, row)
        ELSE Looped(SetCount(e, ch, Count(e, ch) - 1), ch)
  BY DEF PatternLoop
<1> HIDE DEF d, e, another
<1> QED BY <1>2, <1>3, <1>6, <1>7

LEMMA EffectTyped ==
    ASSUME IsSong(song), NEW c \in RowStates, NEW ch \in Channels, NEW row \in Nat, NEW cell \in Cells
    PROVE  Effect(c, ch, row, cell) \in RowStates
<1>1. cell.arg \in Byte /\ cell.arg \in Nat
  BY DEF Cells, Byte
<1>2. PatternLoop(c, ch, row, cell.arg) \in RowStates
  BY <1>1, PatternLoopTyped
<1>3. PatternJump(c, cell.arg) \in RowStates
  BY <1>1 DEF PatternJump, RowStates, OrNone
<1>4. PatternBreak(c, cell.arg) \in RowStates
  BY <1>1 DEF PatternBreak, RowStates, OrNone
<1>5. PatternDelay(c, cell.arg) \in RowStates
  BY <1>1 DEF PatternDelay, RowStates, OrNone
<1>6. [c EXCEPT !.speed = cell.arg] \in RowStates /\ [c EXCEPT !.stop = TRUE] \in RowStates
  BY <1>1 DEF RowStates
<1> QED BY <1>2, <1>3, <1>4, <1>5, <1>6 DEF Effect

\* The effects of the channels so far.
LEMMA PerformedSoFar ==
    ASSUME song.channels \in Nat, NEW order, NEW row, NEW start
    PROVE  \E f : /\ f[0] = start /\ Performed(order, row, start) = f[song.channels]
                  /\ \A ch \in Channels :
                       f[ch] = Effect(f[ch - 1], ch, row, song.cells[Pattern(order)][row + 1][ch])
<1> DEFINE cells == song.cells[Pattern(order)][row + 1]
           Fold(f, k) == f = [ch \in 0 .. k |-> IF ch = 0 THEN start ELSE Effect(f[ch - 1], ch, row, cells[ch])]
           S == {k \in Nat : \E f : Fold(f, k)}
<1>1. 0 \in S
  <2> DEFINE f == [ch \in 0 .. 0 |-> start]
  <2>1. Fold(f, 0)
    OBVIOUS
  <2> QED BY <2>1
<1>2. ASSUME NEW k \in Nat, k \in S PROVE k + 1 \in S
  <2>1. PICK f : Fold(f, k)
    BY <1>2
  <2> DEFINE g == [ch \in 0 .. k + 1 |-> IF ch = k + 1 THEN Effect(f[k], k + 1, row, cells[k + 1]) ELSE f[ch]]
             body(ch) == IF ch = 0 THEN start ELSE Effect(g[ch - 1], ch, row, cells[ch])
  <2> HIDE DEF cells
  <2>2. ASSUME NEW ch \in 0 .. k + 1 PROVE g[ch] = body(ch)
    <3>1. CASE ch = k + 1
      BY <3>1
    <3>2. CASE ch \in 0 .. k
      <4>1. f[ch] = IF ch = 0 THEN start ELSE Effect(f[ch - 1], ch, row, cells[ch])
        BY <2>1, <3>2
      <4> QED BY <3>2, <4>1
    <3> QED BY <2>2, <3>1, <3>2
  <2>3. g = [ch \in 0 .. k + 1 |-> g[ch]]
    OBVIOUS
  <2>4. Fold(g, k + 1)
    <3> HIDE DEF g, body
    <3>1. g = [ch \in 0 .. k + 1 |-> body(ch)]
      BY <2>2, <2>3
    <3> QED BY <3>1 DEF body
  <2> HIDE DEF g, Fold
  <2> QED BY <2>4
<1>3. song.channels \in S
  <2> HIDE DEF S
  <2> QED BY <1>1, <1>2, Onwards
<1> DEFINE f == CHOOSE f : Fold(f, song.channels)
<1>4. Fold(f, song.channels)
  BY <1>3
<1>5. Performed(order, row, start) = f[song.channels]
  BY DEF Performed
<1> HIDE DEF f
<1>6. f[0] = start
  BY <1>4
<1>7. ASSUME NEW ch \in Channels PROVE f[ch] = Effect(f[ch - 1], ch, row, cells[ch])
  <2> HIDE DEF cells
  <2>1. ch \in 0 .. song.channels /\ ch # 0
    BY DEF Channels
  <2> QED BY <1>4, <2>1
<1> QED BY <1>5, <1>6, <1>7

LEMMA PerformedTyped ==
    ASSUME IsSong(song), NEW order, Pattern(order) \in Patterns, NEW row \in Nat, row < RowsIn(Pattern(order)),
           NEW start \in RowStates
    PROVE  Performed(order, row, start) \in RowStates
<1>1. song.channels \in Nat /\ RowsIn(Pattern(order)) \in Nat
      /\ song.cells[Pattern(order)] \in [1..RowsIn(Pattern(order)) -> [Channels -> Cells]]
  BY TheSong
<1>2. row + 1 \in 1 .. RowsIn(Pattern(order))
  BY <1>1
<1>3. \A ch \in Channels : song.cells[Pattern(order)][row + 1][ch] \in Cells
  BY <1>1, <1>2
<1>4. PICK f : /\ f[0] = start /\ Performed(order, row, start) = f[song.channels]
               /\ \A ch \in Channels :
                       f[ch] = Effect(f[ch - 1], ch, row, song.cells[Pattern(order)][row + 1][ch])
  BY <1>1, PerformedSoFar
<1> DEFINE S == {k \in Nat : f[k] \in RowStates}
<1>5. 0 \in S
  BY <1>4
<1>6. ASSUME NEW k \in 0 .. song.channels, k \in S, k # song.channels PROVE k + 1 \in S
  <2>1. k + 1 \in Channels /\ k + 1 \in Nat /\ (k + 1) - 1 = k
    BY <1>1, <1>6 DEF Channels
  <2>2. f[k + 1] = Effect(f[k], k + 1, row, song.cells[Pattern(order)][row + 1][k + 1])
    BY <1>4, <2>1
  <2>3. f[k + 1] \in RowStates
    BY <1>3, <1>6, <2>1, <2>2, EffectTyped
  <2> QED BY <2>1, <2>3
<1>7. song.channels \in S
  <2> HIDE DEF S
  <2> QED BY <1>1, <1>5, <1>6, Onwards
<1> QED BY <1>4, <1>7

\* What a tick gives and the flow it leaves.
Ticked == [out : Outs, flow : Flows]

LEMMA RowEffectsTyped ==
    ASSUME IsSong(song), NEW q \in Sequencers, Placed(q), RowsIn(Pattern(q.order)) # 0, NEW flow \in Flows
    PROVE  RowEffects(q, flow) \in Ticked
<1> DEFINE c == Performed(q.order, q.row, RowStart(q, flow))
<1>1. q.order \in Nat /\ q.row \in Nat /\ RowsIn(Pattern(q.order)) \in Nat /\ Pattern(q.order) \in Patterns
  BY TheSong DEF Placed, Sequencers
<1>2. q.row < RowsIn(Pattern(q.order))
  BY <1>1 DEF Placed
<1>3. RowStart(q, flow) \in RowStates
  BY DEF RowStart, RowStates, OrNone, Sequencers
<1>4. c \in RowStates
  BY <1>1, <1>2, <1>3, PerformedTyped
<1> HIDE DEF c
<1>5. /\ c.jumpOrder \in OrNone(Nat) /\ c.jumpRow \in Nat /\ c.dest \in OrNone(Nat) /\ c.speed \in Byte
      /\ c.delay \in Byte /\ c.stop \in BOOLEAN /\ c.flow \in Flows /\ c.break \in BOOLEAN
  BY <1>4 DEF RowStates
<1>6. ChosenJump(c) \in OrNone(Jumps) /\ (c.break => ChosenJump(c) \in Jumps)
  BY <1>5 DEF ChosenJump, Jumps, OrNone, Jump
<1>7. DelayedBreak(q, c, ChosenJump(c)) \in OrNone(Jumps)
  <2> DEFINE j == ChosenJump(c)
  <2>1. CASE c.break
    <3>1. j \in Jumps
      BY <1>6, <2>1
    <3> HIDE DEF j
    <3>2. j.order \in OrNone(Nat) /\ j.row \in Nat
      BY <3>1 DEF Jumps
    <3>3. [j EXCEPT !.row = @ + 1] \in Jumps
      BY <3>1 DEF Jumps
    <3> DEFINE order == IF j.order = None THEN q.order + 1 ELSE j.order
    <3>4. order \in Nat
      BY <1>1, <3>2 DEF OrNone
    <3>5. Jump(order + 1, 0, FALSE) \in Jumps
      BY <3>4 DEF Jumps, Jump, OrNone
    <3>6. DelayedBreak(q, c, j) \in Jumps
      BY <3>1, <3>3, <3>5 DEF DelayedBreak
    <3> QED BY <3>6 DEF j, OrNone
  <2>2. CASE ~c.break
    BY <1>6, <2>2 DEF DelayedBreak
  <2> QED BY <2>1, <2>2
<1> QED BY <1>5, <1>7 DEF RowEffects, Ticked, Outs, c

LEMMA RunTickTyped ==
    ASSUME IsSong(song), NEW q \in Sequencers, Placed(q)
    PROVE  RunTick(q) \in Ticked
<1>1. q.flow \in Flows /\ Quiet(q) \in Ticked /\ q.speed \in Byte /\ q.delay \in Byte
  BY DEF Quiet, Ticked, Outs, OrNone, Sequencers
<1>2. PositionChanged(q.flow) \in Flows
  BY <1>1, FlowTyped DEF PositionChanged
<1>3. [Quiet(q) EXCEPT !.out.stop = TRUE] \in Ticked
  BY <1>1 DEF Ticked, Outs
<1>4. RowsIn(Pattern(q.order)) # 0 => RowEffects(q, q.flow) \in Ticked /\ RowEffects(q, PositionChanged(q.flow)) \in Ticked
  BY <1>1, <1>2, RowEffectsTyped
<1> QED BY <1>1, <1>3, <1>4 DEF RunTick

-----------------------------------------------------------------------------
(* The operations of a sequencer. *)

Good(q) == q \in Sequencers /\ Placed(q)

LEMMA SetPositionTyped ==
    ASSUME IsSong(song), NEW q \in Sequencers, NEW order \in Nat, order + 1 \in DOMAIN Orders,
           Pattern(order) \in Patterns, NEW row \in Nat
    PROVE  Good(SetPosition(q, order, row))
<1> DEFINE at == [q EXCEPT !.order = order, !.row = ClampedRow(Pattern(order), row)]
<1>1. RowsIn(Pattern(order)) \in Nat
  BY TheSong
<1>2. /\ ClampedRow(Pattern(order), row) \in Nat
      /\ ClampedRow(Pattern(order), row) < RowsIn(Pattern(order)) \/ ClampedRow(Pattern(order), row) = 0
  BY <1>1 DEF ClampedRow
<1>3. at \in Sequencers /\ at.order = order /\ at.row = ClampedRow(Pattern(order), row)
  BY <1>2 DEF Sequencers
<1> HIDE DEF at
<1>4. StartRow(at, q.speed) \in Sequencers
  BY <1>3, ClockTyped DEF Sequencers
<1>5. StartRow(at, q.speed).order = order /\ StartRow(at, q.speed).row = ClampedRow(Pattern(order), row)
  BY <1>3 DEF StartRow, Sequencers
<1>6. Placed(StartRow(at, q.speed))
  BY <1>2, <1>5 DEF Placed
<1> QED BY <1>4, <1>6 DEF Good, SetPosition, at

LEMMA ResetTyped ==
    ASSUME NEW q \in Sequencers, timeline \in OrNone(Timelines), NEW frame
    PROVE  ResetDetector(q) \in Sequencers /\ ResetMarkingBefore(q, frame) \in Sequencers
<1>1. ResetDetector(q) \in Sequencers
  BY DEF ResetDetector, Sequencers
<1>2. Marks \subseteq RowMarks
  BY DEF Marks, OrNone, Timelines
<1>3. PlayedBefore(frame) \subseteq Nat \X Nat
  <2>1. ASSUME NEW x \in PlayedBefore(frame) PROVE x \in Nat \X Nat
    <3>1. PICK m \in Marks : x = <<m.order, m.row>>
      BY DEF PlayedBefore
    <3> QED BY <1>2, <3>1 DEF RowMarks
  <2> QED BY <2>1
<1>4. ResetMarkingBefore(q, frame) \in Sequencers
  BY <1>1, <1>3 DEF ResetMarkingBefore, Sequencers
<1> QED BY <1>1, <1>4

\* What the timeline tells of a row.
LEMMA MarkedTyped ==
    ASSUME timeline \in OrNone(Timelines), NEW order, NEW row
    PROVE  /\ MarksAt(order, row) \subseteq RowMarks
           /\ Scanned(order, row) \in Nat
           /\ MarksAt(order, row) # {} =>
                LET m == CHOOSE m \in MarksAt(order, row) : TRUE
                IN  m \in MarksAt(order, row) /\ m.speed \in Byte /\ m.frame \in Nat
<1>1. MarksAt(order, row) \subseteq RowMarks
  BY DEF MarksAt, Marks, OrNone, Timelines
<1> DEFINE m == CHOOSE m \in MarksAt(order, row) : TRUE
<1>2. MarksAt(order, row) # {} => m \in MarksAt(order, row)
  OBVIOUS
<1>3. MarksAt(order, row) # {} => m.speed \in Byte /\ m.frame \in Nat
  <2> HIDE DEF m
  <2> QED BY <1>1, <1>2 DEF RowMarks
<1>4. Scanned(order, row) \in Nat
  BY <1>3 DEF Scanned
<1> QED BY <1>1, <1>2, <1>3, <1>4

\* Fields that say nothing of the position.
LEMMA PlacedAlike ==
    ASSUME NEW q, NEW p, Placed(q), p.order = q.order, p.row = q.row
    PROVE  Placed(p)
  BY DEF Placed

LEMMA SeekToTyped ==
    ASSUME IsSong(song), timeline \in OrNone(Timelines), NEW q \in Sequencers,
           NEW order \in Nat, order + 1 \in DOMAIN Orders, Pattern(order) \in Patterns, NEW row \in Nat
    PROVE  Good(SeekTo(q, order, row))
<1> DEFINE at == SetPosition(q, order, row)
           moved == [at EXCEPT !.jump = None, !.flow = FreshFlow,
                  !.lastPos = None, !.state = "Ready", !.arrival = "Start", !.endReached = FALSE]
           m == CHOOSE m \in MarksAt(order, moved.row) : TRUE
<1>1. Good(at)
  BY SetPositionTyped
<1> HIDE DEF at
<1>2. moved \in Sequencers /\ moved.order = at.order /\ moved.row = at.row
  BY <1>1, FlowTyped DEF Good, Sequencers, OrNone
<1>3. ResetDetector(moved) \in Sequencers /\ ResetDetector(moved).order = at.order /\ ResetDetector(moved).row = at.row
  <2> HIDE DEF moved
  <2>1. ResetDetector(moved) \in Sequencers
    BY <1>2, ResetTyped
  <2>2. ResetDetector(moved).order = moved.order /\ ResetDetector(moved).row = moved.row
    BY <1>2 DEF ResetDetector, Sequencers
  <2> QED BY <1>2, <2>1, <2>2
<1>4. ASSUME MarksAt(order, moved.row) # {}
      PROVE  LET r == ResetMarkingBefore(StartRow(moved, m.speed), m.frame)
             IN  r \in Sequencers /\ r.order = at.order /\ r.row = at.row
  <2>1. m.speed \in Byte /\ m.frame \in Nat
    <3> HIDE DEF moved
    <3> QED BY <1>4, MarkedTyped
  <2> HIDE DEF m, moved
  <2> DEFINE s == StartRow(moved, m.speed)
  <2>2. s \in Sequencers /\ s.order = at.order /\ s.row = at.row
    <3>1. s \in Sequencers
      BY <1>2, <2>1, ClockTyped
    <3>2. s.order = moved.order /\ s.row = moved.row
      BY <1>2 DEF StartRow, Sequencers
    <3> QED BY <1>2, <3>1, <3>2
  <2> HIDE DEF s
  <2>3. ResetMarkingBefore(s, m.frame) \in Sequencers
    BY <2>2, ResetTyped
  <2>4. ResetMarkingBefore(s, m.frame).order = at.order /\ ResetMarkingBefore(s, m.frame).row = at.row
    BY <2>2 DEF ResetMarkingBefore, ResetDetector, Sequencers
  <2> QED BY <2>3, <2>4 DEF s
<1> DEFINE r == SeekTo(q, order, row)
<1>5. r = ResetDetector(moved) \/ (MarksAt(order, moved.row) # {} /\ r = ResetMarkingBefore(StartRow(moved, m.speed), m.frame))
  BY DEF SeekTo, at
<1> HIDE DEF r, m, moved
<1>6. r \in Sequencers /\ r.order = at.order /\ r.row = at.row
  BY <1>3, <1>4, <1>5
<1>7. Good(r)
  BY <1>1, <1>6, PlacedAlike DEF Good
<1> QED BY <1>7 DEF r

LEMMA WrapTyped ==
    ASSUME timeline \in OrNone(Timelines), NEW q, Good(q)
    PROVE  Good(WrapAtLoopPoint(q))
<1> DEFINE r == WrapAtLoopPoint(q)
           frame == Scanned(q.order, q.row)
<1>1. q \in Sequencers /\ At(q) \in Nat \X Nat
  BY DEF Good, Sequencers, At
<1>2. frame \in Nat
  BY MarkedTyped
<1>3. ResetDetector(q) \in Sequencers /\ ResetMarkingBefore(q, frame) \in Sequencers
  <2> HIDE DEF frame
  <2> QED BY <1>1, ResetTyped
<1>4. ResetDetector(q).order = q.order /\ ResetDetector(q).row = q.row
      /\ ResetMarkingBefore(q, frame).order = q.order /\ ResetMarkingBefore(q, frame).row = q.row
  BY <1>1 DEF ResetMarkingBefore, ResetDetector, Sequencers
<1>5. r = [ResetDetector(q) EXCEPT !.elapsed = 0]
      \/ r = [ResetMarkingBefore(q, frame) EXCEPT !.elapsed = frame, !.seen = @ \cup {At(q)}]
  BY DEF WrapAtLoopPoint
<1> HIDE DEF frame, r
<1>6. r \in Sequencers /\ r.order = q.order /\ r.row = q.row
  <2> DEFINE a == ResetDetector(q)
             b == ResetMarkingBefore(q, frame)
  <2>1. a \in Sequencers /\ b \in Sequencers /\ a.order = q.order /\ a.row = q.row /\ b.order = q.order /\ b.row = q.row
    BY <1>3, <1>4
  <2>2. r = [a EXCEPT !.elapsed = 0] \/ r = [b EXCEPT !.elapsed = frame, !.seen = @ \cup {At(q)}]
    BY <1>5
  <2> HIDE DEF a, b
  <2>3. CASE r = [a EXCEPT !.elapsed = 0]
    BY <2>1, <2>3 DEF Sequencers
  <2>4. CASE r = [b EXCEPT !.elapsed = frame, !.seen = @ \cup {At(q)}]
    <3>1. b.seen \cup {At(q)} \in SUBSET (Nat \X Nat)
      BY <1>1, <2>1 DEF Sequencers
    <3> DEFINE seen == b.seen \cup {At(q)}
    <3>2. r = [b EXCEPT !.elapsed = frame, !.seen = seen]
      BY <2>1, <2>4 DEF Sequencers
    <3> HIDE DEF seen
    <3>3. r \in Sequencers
      BY <1>2, <2>1, <3>1, <3>2 DEF Sequencers, seen
    <3>4. r.order = b.order /\ r.row = b.row
      BY <2>1, <3>2 DEF Sequencers
    <3> QED BY <2>1, <3>3, <3>4
  <2> QED BY <2>2, <2>3, <2>4
<1>7. Good(r)
  BY <1>6, PlacedAlike DEF Good
<1> QED BY <1>7 DEF r

LEMMA ArriveTyped ==
    ASSUME NEW q, Good(q)
    PROVE  Good(Arrive(q)) /\ Arrive(q).order = q.order /\ Arrive(q).row = q.row
<1>0. q \in Sequencers /\ q.arrivals + 1 \in Nat /\ 0 \in Nat
  BY DEF Good, Sequencers
<1>1. Arrive(q) \in Sequencers
  BY <1>0 DEF Arrive, Sequencers
<1>2. Arrive(q).order = q.order /\ Arrive(q).row = q.row
  BY <1>0 DEF Arrive, Sequencers
<1> QED BY <1>1, <1>2, PlacedAlike DEF Good

\* The row now beginning, as it is written down and judged.
Judged(q) ==
  LET a == Arrive(q)
      verdict == Verdict(a)
      ended == verdict \in Ends
  IN [a EXCEPT !.seen = @ \cup {At(q)},
                     !.armed = @ /\ ~ended,
                     !.visit = [verdict |-> verdict, order |-> q.order, row |-> q.row,
                                frame |-> q.elapsed, speed |-> q.speed],
                     !.endReached = ended \/ (@ /\ q.atEnd # "Continue"),
                     !.runs = ~ended \/ q.atEnd = "Continue"
                              \/ (q.atEnd = "FadeOut" /\ verdict # "Wrapped")]

LEMMA BeginRowIs ==
    ASSUME NEW q
    PROVE  BeginRow(q) = IF Verdict(Arrive(q)) \in Ends /\ q.atEnd = "Continue"
                         THEN WrapAtLoopPoint(Judged(q)) ELSE Judged(q)
  BY DEF BeginRow, Judged

LEMMA JudgedTyped ==
    ASSUME NEW q, Good(q)
    PROVE  Good(Judged(q)) /\ Judged(q).visit \in Visits
<1> DEFINE a == Arrive(q)
           verdict == Verdict(a)
           visit == [verdict |-> verdict, order |-> q.order, row |-> q.row, frame |-> q.elapsed, speed |-> q.speed]
<1>1. a \in Sequencers /\ a.order = q.order /\ a.row = q.row
  BY ArriveTyped DEF Good
<1>2. verdict \in Ends \cup {"New", "Repeat"}
  BY DEF Verdict, Ends
<1>3. visit \in Visits /\ At(q) \in Nat \X Nat
  <2> HIDE DEF verdict
  <2> QED BY <1>2 DEF Visits, Good, Sequencers, At
<1> DEFINE r == Judged(q)
           ended == verdict \in Ends
<1>4. r = [a EXCEPT !.seen = @ \cup {At(q)},
                     !.armed = @ /\ ~ended,
                     !.visit = visit,
                     !.endReached = ended \/ (@ /\ q.atEnd # "Continue"),
                     !.runs = ~ended \/ q.atEnd = "Continue"
                              \/ (q.atEnd = "FadeOut" /\ verdict # "Wrapped")]
  BY DEF Judged
<1> DEFINE armed == a.armed /\ ~ended
           reached == ended \/ (a.endReached /\ q.atEnd # "Continue")
           runs == ~ended \/ q.atEnd = "Continue" \/ (q.atEnd = "FadeOut" /\ verdict # "Wrapped")
<1>5. armed \in BOOLEAN /\ reached \in BOOLEAN /\ runs \in BOOLEAN
  OBVIOUS
<1>6. a.seen \cup {At(q)} \in SUBSET (Nat \X Nat)
  <2> HIDE DEF a
  <2> QED BY <1>1, <1>3 DEF Sequencers
<1>7. r = [a EXCEPT !.seen = a.seen \cup {At(q)}, !.armed = armed, !.visit = visit, !.endReached = reached,
                    !.runs = runs]
  <2> HIDE DEF verdict, visit
  <2>1. r = [a EXCEPT !.seen = @ \cup {At(q)}, !.armed = @ /\ ~ended, !.visit = visit,
                      !.endReached = ended \/ (@ /\ q.atEnd # "Continue"), !.runs = runs]
    BY <1>4
  <2> HIDE DEF r
  <2> QED BY <1>1, <2>1 DEF Sequencers
<1> HIDE DEF armed, reached, runs, visit, verdict, a, r
<1>8. r \in Sequencers /\ r.order = q.order /\ r.row = q.row /\ r.visit = visit
  <2>1. visit \in OrNone(Visits)
    BY <1>3 DEF OrNone
  <2> DEFINE seen == a.seen \cup {At(q)}
             b == [a EXCEPT !.seen = seen, !.armed = armed]
  <2>2. r \in Sequencers
    <3>1. seen \in SUBSET (Nat \X Nat) /\ r = [a EXCEPT !.seen = seen, !.armed = armed, !.visit = visit,
                                                     !.endReached = reached, !.runs = runs]
      BY <1>6, <1>7
    <3> HIDE DEF seen
    <3>2. b \in Sequencers
      BY <1>1, <1>5, <3>1 DEF Sequencers
    <3>3. r = [b EXCEPT !.visit = visit, !.endReached = reached, !.runs = runs]
      BY <1>1, <3>1 DEF Sequencers
    <3> HIDE DEF b
    <3> QED BY <1>5, <2>1, <3>2, <3>3 DEF Sequencers
  <2>3. r.order = a.order /\ r.row = a.row /\ r.visit = visit
    BY <1>1, <1>7 DEF Sequencers
  <2> QED BY <1>1, <2>2, <2>3
<1>9. Good(r)
  BY <1>8, PlacedAlike DEF Good
<1> QED BY <1>3, <1>8, <1>9 DEF r

LEMMA BeginRowTyped ==
    ASSUME IsSong(song), timeline \in OrNone(Timelines), NEW q, Good(q)
    PROVE  Good(BeginRow(q))
  BY BeginRowIs, JudgedTyped, WrapTyped

LEMMA TickFacts == TickLength \in Nat /\ TickLength \in 0 .. TickLength /\ 0 \in 0 .. TickLength /\ 0 \in Nat
  BY DEF TickLength

LEMMA EndNaturallyTyped ==
    ASSUME IsSong(song), timeline \in OrNone(Timelines), NEW q, Good(q)
    PROVE  Good(EndNaturally(q))
<1>1. CASE Restarts(q)
  <2> DEFINE order == Resolve(song.restart)
             s == SeekTo(q, order, 0)
             d == ResetDetector(s)
             r == [d EXCEPT !.elapsed = 0, !.due = TickLength]
  <2>1. order \in Nat /\ order + 1 \in DOMAIN Orders /\ Pattern(order) \in Patterns
    BY <1>1, TheSong, ResolvesToAPattern DEF Restarts
  <2>2. Good(s)
    <3> HIDE DEF order
    <3> QED BY <2>1, SeekToTyped DEF Good
  <2> HIDE DEF s, order
  <2>3. d \in Sequencers
    BY <2>2, ResetTyped DEF Good
  <2>4. d.order = s.order /\ d.row = s.row
    BY <2>2 DEF Good, ResetDetector, Sequencers
  <2> HIDE DEF d
  <2>5. r \in Sequencers
    BY <2>3, TickFacts DEF Sequencers
  <2>6. r.order = d.order /\ r.row = d.row
    BY <2>3 DEF Sequencers
  <2>7. EndNaturally(q) = r
    BY <1>1 DEF EndNaturally, d, s, order
  <2> HIDE DEF r
  <2> QED BY <2>2, <2>4, <2>5, <2>6, <2>7, PlacedAlike DEF Good
<1>2. CASE ~Restarts(q)
  <2> DEFINE r == [q EXCEPT !.endReached = TRUE, !.state = "Stopped"]
  <2>1. r \in Sequencers
    BY DEF Good, Sequencers
  <2>2. r.order = q.order /\ r.row = q.row
    BY DEF Good, Sequencers
  <2>3. EndNaturally(q) = r
    BY <1>2 DEF EndNaturally
  <2> HIDE DEF r
  <2> QED BY <2>1, <2>2, <2>3, PlacedAlike DEF Good
<1> QED BY <1>1, <1>2

LEMMA MoveToOrderTyped ==
    ASSUME IsSong(song), timeline \in OrNone(Timelines), NEW q \in Sequencers,
           NEW order \in Nat, NEW row \in Nat, Placed(q) \/ Resolve(order) # None
    PROVE  Good(MoveToOrder(q, order, row))
<1>1. q \in Sequencers
  OBVIOUS
<1>2. CASE Resolve(order) # None
  <2>1. Good(SetPosition(q, Resolve(order), row))
    BY <1>1, <1>2, ResolvesToAPattern, SetPositionTyped
  <2> QED BY <1>2, <2>1 DEF MoveToOrder
<1>3. CASE Resolve(order) = None /\ song.policy # "Stop" /\ Resolve(song.restart) # None
  <2> DEFINE wrapped == [q EXCEPT !.arrival = "Wrapped"]
             at == IF song.policy = "WrapKeepingBreakRow" THEN row ELSE 0
  <2>1. wrapped \in Sequencers
    BY <1>1 DEF Sequencers
  <2>2. at \in Nat
    OBVIOUS
  <2>3. song.restart \in Nat
    BY TheSong
  <2> HIDE DEF wrapped, at
  <2>4. Good(SetPosition(wrapped, Resolve(song.restart), at))
    BY <1>3, <2>1, <2>2, <2>3, ResolvesToAPattern, SetPositionTyped
  <2> QED BY <1>3, <2>4 DEF MoveToOrder, wrapped, at
<1>4. CASE Resolve(order) = None /\ ~(song.policy # "Stop" /\ Resolve(song.restart) # None)
  BY <1>4, EndNaturallyTyped DEF MoveToOrder, Good
<1> QED BY <1>2, <1>3, <1>4

LEMMA BeginNextRowTyped ==
    ASSUME IsSong(song), timeline \in OrNone(Timelines), NEW q, Good(q), NEW jump \in OrNone(Jumps)
    PROVE  Good(BeginNextRow(q, jump))
<1>0. /\ q \in Sequencers /\ q.order \in Nat /\ q.row \in Nat /\ q.speed \in Byte
      /\ q.order + 1 \in DOMAIN Orders /\ Pattern(q.order) \in Patterns /\ RowsIn(Pattern(q.order)) \in Nat
  BY TheSong DEF Good, Placed, Sequencers
<1>1. CASE jump # None /\ jump.within
  <2> DEFINE row == ClampedRow(Pattern(q.order), jump.row)
             a == [q EXCEPT !.row = row, !.arrival = "PatternLoop"]
             r == StartRow(a, q.speed)
  <2>1. jump.row \in Nat
    BY <1>1 DEF OrNone, Jumps
  <2>2. row \in Nat /\ (row < RowsIn(Pattern(q.order)) \/ row = 0)
    BY <1>0, <2>1 DEF ClampedRow
  <2> HIDE DEF row
  <2>3. a \in Sequencers
    BY <1>0, <2>2 DEF Sequencers
  <2>4. a.order = q.order /\ a.row = row
    BY <1>0 DEF Sequencers
  <2> HIDE DEF a
  <2>5. r \in Sequencers
    BY <1>0, <2>3, ClockTyped
  <2>6. r.order = q.order /\ r.row = row
    BY <2>3, <2>4 DEF StartRow, Sequencers
  <2>7. BeginNextRow(q, jump) = r
    BY <1>1 DEF BeginNextRow, a, row
  <2> HIDE DEF r
  <2> QED BY <1>0, <2>2, <2>5, <2>6, <2>7 DEF Good, Placed
<1>2. CASE jump # None /\ ~jump.within
  <2> DEFINE a == [q EXCEPT !.arrival = "Jump"]
             order == IF jump.order = None THEN q.order + 1 ELSE jump.order
  <2>1. jump.row \in Nat /\ order \in Nat
    BY <1>0, <1>2 DEF OrNone, Jumps
  <2>2. a \in Sequencers
    BY <1>0 DEF Sequencers
  <2>3. a.order = q.order /\ a.row = q.row
    BY <1>0 DEF Sequencers
  <2> HIDE DEF a, order
  <2>4. Good(a)
    BY <2>2, <2>3, PlacedAlike DEF Good
  <2>5. Good(MoveToOrder(a, order, jump.row))
    BY <2>1, <2>4, MoveToOrderTyped DEF Good
  <2> QED BY <1>2, <2>5 DEF BeginNextRow, a, order
<1>3. CASE jump = None /\ q.row + 1 < RowsIn(Pattern(q.order))
  <2> DEFINE a == [q EXCEPT !.row = @ + 1, !.arrival = "Sequential"]
             r == StartRow(a, q.speed)
  <2>0. q.row + 1 \in Nat /\ a = [q EXCEPT !.row = q.row + 1, !.arrival = "Sequential"]
    BY <1>0 DEF Sequencers
  <2> HIDE DEF a
  <2>1. a \in Sequencers
    BY <1>0, <2>0 DEF Sequencers
  <2>2. a.order = q.order /\ a.row = q.row + 1
    BY <1>0, <2>0 DEF Sequencers
  <2> HIDE DEF a
  <2>3. r \in Sequencers
    BY <1>0, <2>1, ClockTyped
  <2>4. r.order = q.order /\ r.row = q.row + 1
    BY <2>1, <2>2 DEF StartRow, Sequencers
  <2>5. BeginNextRow(q, jump) = r
    BY <1>3 DEF BeginNextRow, a
  <2> HIDE DEF r
  <2> QED BY <1>0, <1>3, <2>3, <2>4, <2>5 DEF Good, Placed
<1>4. CASE jump = None /\ ~(q.row + 1 < RowsIn(Pattern(q.order)))
  <2> DEFINE a == [q EXCEPT !.arrival = "NextOrder"]
  <2>1. a \in Sequencers
    BY <1>0 DEF Sequencers
  <2>2. a.order = q.order /\ a.row = q.row
    BY <1>0 DEF Sequencers
  <2> HIDE DEF a
  <2>3. Good(a)
    BY <2>1, <2>2, PlacedAlike DEF Good
  <2>4. Good(MoveToOrder(a, q.order + 1, 0))
    BY <1>0, <2>3, MoveToOrderTyped DEF Good
  <2> QED BY <1>4, <2>4 DEF BeginNextRow, a
<1>5. jump # None => jump.within \in BOOLEAN
  BY DEF OrNone, Jumps
<1> QED BY <1>1, <1>2, <1>3, <1>4, <1>5

\* What the outcome of a tick sets, and the clock one tick on.
Timed(q, out) == [q EXCEPT !.speed = out.speed,
                           !.delay = IF q.tick = 0 THEN out.delay ELSE @,
                           !.jump = IF out.jump # None THEN out.jump ELSE @]
OneOn(q, out) == [Timed(q, out) EXCEPT !.elapsed = @ + TickLength, !.due = TickLength, !.tick = @ + 1]

LEMMA CommitIs ==
    ASSUME NEW q, NEW out
    PROVE  Commit(q, out) =
             CASE out.stop -> EndNaturally(Timed(q, out))
               [] ~out.stop /\ OneOn(q, out).tick < TotalTicks(OneOn(q, out)) -> OneOn(q, out)
               [] OTHER -> BeginNextRow([OneOn(q, out) EXCEPT !.jump = None], OneOn(q, out).jump)
  BY DEF Commit, Timed, OneOn

LEMMA TimedTyped ==
    ASSUME NEW q, Good(q), NEW out \in Outs
    PROVE  Good(Timed(q, out)) /\ Good(OneOn(q, out))
<1> DEFINE t == Timed(q, out)
           n == OneOn(q, out)
           delay == IF q.tick = 0 THEN out.delay ELSE q.delay
           jump == IF out.jump # None THEN out.jump ELSE q.jump
<1>0. q \in Sequencers /\ out.speed \in Byte /\ delay \in Byte /\ jump \in OrNone(Jumps)
  BY DEF Good, Sequencers, Outs
<1>1. t = [q EXCEPT !.speed = out.speed, !.delay = delay, !.jump = jump]
  BY <1>0 DEF Timed, Sequencers
<1> HIDE DEF t, delay, jump
<1>2. t \in Sequencers
  BY <1>0, <1>1 DEF Sequencers
<1>3. t.order = q.order /\ t.row = q.row
  BY <1>0, <1>1 DEF Sequencers
<1>4. n = [t EXCEPT !.elapsed = @ + TickLength, !.due = TickLength, !.tick = @ + 1]
  BY DEF OneOn, t
<1> HIDE DEF n
<1>5. n \in Sequencers
  <2>1. t.elapsed + TickLength \in Nat /\ t.tick + 1 \in Nat
    BY <1>2, TickFacts DEF Sequencers
  <2>2. n = [t EXCEPT !.elapsed = t.elapsed + TickLength, !.due = TickLength, !.tick = t.tick + 1]
    BY <1>2, <1>4 DEF Sequencers
  <2> QED BY <1>2, <2>1, <2>2, TickFacts DEF Sequencers
<1>6. n.order = q.order /\ n.row = q.row
  BY <1>2, <1>3, <1>4 DEF Sequencers
<1> QED BY <1>2, <1>3, <1>5, <1>6, PlacedAlike DEF Good, t, n

LEMMA CommitTyped ==
    ASSUME IsSong(song), timeline \in OrNone(Timelines), NEW q, Good(q), NEW out \in Outs
    PROVE  Good(Commit(q, out))
<1> DEFINE t == Timed(q, out)
           n == OneOn(q, out)
           free == [n EXCEPT !.jump = None]
<1>1. Good(t) /\ Good(n)
  BY TimedTyped
<1>2. Commit(q, out) = CASE out.stop -> EndNaturally(t)
                         [] ~out.stop /\ n.tick < TotalTicks(n) -> n
                         [] OTHER -> BeginNextRow(free, n.jump)
  BY CommitIs
<1> HIDE DEF t, n
<1>3. Good(EndNaturally(t))
  BY <1>1, EndNaturallyTyped
<1>4. Good(free)
  <2>1. free \in Sequencers
    BY <1>1 DEF Good, Sequencers, OrNone
  <2>2. free.order = n.order /\ free.row = n.row
    BY <1>1 DEF Good, Sequencers
  <2> QED BY <1>1, <2>1, <2>2, PlacedAlike DEF Good
<1>5. Good(BeginNextRow(free, n.jump))
  <2>1. n.jump \in OrNone(Jumps)
    BY <1>1 DEF Good, Sequencers
  <2> HIDE DEF free
  <2> QED BY <1>4, <2>1, BeginNextRowTyped
<1> HIDE DEF free
<1> QED BY <1>1, <1>2, <1>3, <1>5

\* A tick, in its parts: before it, at the beginning of a row, and when it has run.
Quieted(q) == [q EXCEPT !.visit = None, !.runs = TRUE, !.due = 0]
Begun(q) == IF q.tick = 0 THEN BeginRow(Quieted(q)) ELSE Quieted(q)
Ran(b) == [b EXCEPT !.flow = RunTick(b).flow, !.sounding = At(b), !.lastPos = IF b.tick = 0 THEN b.order ELSE @]

LEMMA DispatchIs ==
    ASSUME NEW q
    PROVE  Dispatch(q) = IF Begun(q).runs THEN Commit(Ran(Begun(q)), RunTick(Begun(q)).out)
                         ELSE [Begun(q) EXCEPT !.state = "Stopped"]
  BY DEF Dispatch, Quieted, Begun, Ran

LEMMA QuietedTyped == ASSUME NEW q, Good(q) PROVE Good(Quieted(q))
<1>1. Quieted(q) \in Sequencers
  BY TickFacts DEF Good, Quieted, Sequencers, OrNone
<1>2. Quieted(q).order = q.order /\ Quieted(q).row = q.row
  BY DEF Good, Quieted, Sequencers
<1> QED BY <1>1, <1>2, PlacedAlike DEF Good

LEMMA RanTyped == ASSUME IsSong(song), NEW b, Good(b) PROVE Good(Ran(b))
<1> DEFINE flow == RunTick(b).flow
           last == IF b.tick = 0 THEN b.order ELSE b.lastPos
<1>1. flow \in Flows /\ At(b) \in Nat \X Nat /\ last \in OrNone(Nat) /\ b \in Sequencers
  BY RunTickTyped DEF Good, Ticked, At, Sequencers, OrNone
<1>2. Ran(b) = [b EXCEPT !.flow = flow, !.sounding = At(b), !.lastPos = last]
  BY <1>1 DEF Ran, Sequencers
<1> HIDE DEF flow, last
<1>3. Ran(b) \in Sequencers
  BY <1>1, <1>2 DEF Sequencers
<1>4. Ran(b).order = b.order /\ Ran(b).row = b.row
  BY <1>1, <1>2 DEF Sequencers
<1> QED BY <1>3, <1>4, PlacedAlike DEF Good

LEMMA BegunTyped ==
    ASSUME IsSong(song), timeline \in OrNone(Timelines), NEW q, Good(q)
    PROVE  Good(Begun(q)) /\ RunTick(Begun(q)) \in Ticked
<1>1. Good(Begun(q))
  BY QuietedTyped, BeginRowTyped DEF Begun
<1> QED BY <1>1, RunTickTyped DEF Good

LEMMA DispatchTyped ==
    ASSUME IsSong(song), timeline \in OrNone(Timelines), NEW q, Good(q)
    PROVE  Good(Dispatch(q))
<1> DEFINE b == Begun(q)
           halted == [b EXCEPT !.state = "Stopped"]
<1>1. Good(b) /\ RunTick(b) \in Ticked
  BY BegunTyped
<1>2. Dispatch(q) = IF b.runs THEN Commit(Ran(b), RunTick(b).out) ELSE halted
  BY DispatchIs
<1> HIDE DEF b
<1>3. Good(halted)
  <2>1. halted \in Sequencers
    BY <1>1 DEF Good, Sequencers
  <2>2. halted.order = b.order /\ halted.row = b.row
    BY <1>1 DEF Good, Sequencers
  <2> QED BY <1>1, <2>1, <2>2, PlacedAlike DEF Good
<1>4. Good(Commit(Ran(b), RunTick(b).out))
  BY <1>1, RanTyped, CommitTyped DEF Ticked
<1> HIDE DEF halted
<1> QED BY <1>2, <1>3, <1>4

\* The sequencer before it has moved to the top of the order list.
Blank(atEnd) ==
  [order |-> 0, row |-> 0, speed |-> song.speed, delay |-> 0, tick |-> 0,
   state |-> "Ready", jump |-> None, arrival |-> "Start", flow |-> FreshFlow,
   lastPos |-> None, seen |-> {}, inside |-> FALSE, arrivals |-> 0, armed |-> TRUE,
   elapsed |-> 0, due |-> 0, sounding |-> <<0, 0>>, atEnd |-> atEnd,
   endReached |-> FALSE, visit |-> None, runs |-> TRUE]

LEMMA NewSequencerIs ==
    ASSUME IsSong(song), NEW atEnd \in AtEnds
    PROVE  /\ Blank(atEnd) \in Sequencers
           /\ Resolve(0) \in Nat /\ Resolve(0) + 1 \in DOMAIN Orders /\ Pattern(Resolve(0)) \in Patterns
           /\ NewSequencer(atEnd) = [SetPosition(Blank(atEnd), Resolve(0), 0)
                                       EXCEPT !.arrival = "Start", !.endReached = FALSE]
<1>1. Blank(atEnd) \in Sequencers
  <2>1. 0 \in Byte /\ song.speed \in Byte /\ FreshFlow \in Flows
    BY TheSong, FlowTyped DEF Byte
  <2> QED BY <2>1, TickFacts DEF Blank, Sequencers, OrNone
<1>2. Resolve(0) # None
  BY TopResolves
<1>3. Resolve(0) \in Nat /\ Resolve(0) + 1 \in DOMAIN Orders /\ Pattern(Resolve(0)) \in Patterns
  BY <1>2, ResolvesToAPattern
<1>4. NewSequencer(atEnd) = [MoveToOrder(Blank(atEnd), 0, 0) EXCEPT !.arrival = "Start", !.endReached = FALSE]
  BY DEF NewSequencer, Blank
<1>5. MoveToOrder(Blank(atEnd), 0, 0) = SetPosition(Blank(atEnd), Resolve(0), 0)
  BY <1>2 DEF MoveToOrder
<1> QED BY <1>1, <1>3, <1>4, <1>5

LEMMA NewSequencerTyped ==
    ASSUME IsSong(song), NEW atEnd \in AtEnds
    PROVE  Good(NewSequencer(atEnd))
<1> DEFINE s == SetPosition(Blank(atEnd), Resolve(0), 0)
           r == NewSequencer(atEnd)
<1>1. /\ Blank(atEnd) \in Sequencers
      /\ Resolve(0) \in Nat /\ Resolve(0) + 1 \in DOMAIN Orders /\ Pattern(Resolve(0)) \in Patterns
      /\ r = [s EXCEPT !.arrival = "Start", !.endReached = FALSE]
  BY NewSequencerIs
<1>2. Good(s)
  BY <1>1, SetPositionTyped
<1> HIDE DEF s, r
<1>3. r \in Sequencers
  BY <1>1, <1>2 DEF Good, Sequencers
<1>4. r.order = s.order /\ r.row = s.row
  BY <1>1, <1>2 DEF Good, Sequencers
<1> QED BY <1>2, <1>3, <1>4, PlacedAlike DEF Good, r

LEMMA SongFrameTyped ==
    ASSUME NEW q \in Sequencers, NEW paused \in BOOLEAN
    PROVE  SongFrame(q, paused) \in Nat
  BY DEF SongFrame, Sequencers, TickLength

LEMMA RestoredTyped ==
    ASSUME IsSong(song), timeline \in OrNone(Timelines), NEW q, Good(q), q.due = TickLength, NEW paused \in BOOLEAN
    PROVE  Good(Restored(q, paused))
<1> DEFINE n == NewSequencer(q.atEnd)
           fresh == SeekTo(n, q.order, q.row)
           frame == SongFrame(q, paused)
           s == ResetMarkingBefore(fresh, frame)
           due == q.due - 1
           elapsed == frame + q.due - 1
           r == Restored(q, paused)
<1>1. /\ q \in Sequencers /\ q.atEnd \in AtEnds /\ q.order \in Nat /\ q.row \in Nat
      /\ q.order + 1 \in DOMAIN Orders /\ Pattern(q.order) \in Patterns
      /\ q.row < RowsIn(Pattern(q.order)) \/ q.row = 0
  BY DEF Good, Sequencers, Placed
<1>2. due \in 0 .. TickLength /\ elapsed \in Nat
  BY <1>1, SongFrameTyped DEF TickLength
<1>3. Good(fresh)
  <2>1. n \in Sequencers
    BY <1>1, NewSequencerTyped DEF Good
  <2> HIDE DEF n
  <2> QED BY <1>1, <2>1, SeekToTyped
<1>4. fresh.order = q.order
  <2>1. n \in Sequencers
    BY <1>1, NewSequencerTyped DEF Good
  <2> HIDE DEF n
  <2> DEFINE at == SetPosition(n, q.order, q.row)
             moved == [at EXCEPT !.jump = None, !.flow = FreshFlow,
                  !.lastPos = None, !.state = "Ready", !.arrival = "Start", !.endReached = FALSE]
  <2>2. at \in Sequencers
    BY <1>1, <2>1, SetPositionTyped DEF Good
  <2>3. at.order = q.order
    BY <2>1 DEF SetPosition, StartRow, Sequencers
  <2> HIDE DEF at
  <2>4. moved \in Sequencers
    BY <2>2, FlowTyped DEF Sequencers, OrNone
  <2>5. moved.order = q.order
    BY <2>2, <2>3 DEF Sequencers
  <2>6. /\ ResetDetector(moved).order = q.order
        /\ \A speed, f : ResetMarkingBefore(StartRow(moved, speed), f).order = q.order
    <3> HIDE DEF moved
    <3> QED BY <2>4, <2>5 DEF ResetDetector, ResetMarkingBefore, StartRow, Sequencers
  <2>7. fresh = ResetDetector(moved) \/ \E speed, f : fresh = ResetMarkingBefore(StartRow(moved, speed), f)
    BY DEF SeekTo, at
  <2> HIDE DEF moved, fresh
  <2> QED BY <2>6, <2>7
<1>5. fresh.row = q.row
  <2>1. n \in Sequencers
    BY <1>1, NewSequencerTyped DEF Good
  <2> HIDE DEF n
  <2> DEFINE at == SetPosition(n, q.order, q.row)
             moved == [at EXCEPT !.jump = None, !.flow = FreshFlow,
                  !.lastPos = None, !.state = "Ready", !.arrival = "Start", !.endReached = FALSE]
  <2>2. at \in Sequencers
    BY <1>1, <2>1, SetPositionTyped DEF Good
  <2>3. at.row = q.row
    <3>1. RowsIn(Pattern(q.order)) \in Nat
      BY <1>1, TheSong
    <3>2. ClampedRow(Pattern(q.order), q.row) = q.row
      BY <1>1, <3>1 DEF ClampedRow
    <3> QED BY <2>1, <3>2 DEF SetPosition, StartRow, Sequencers
  <2> HIDE DEF at
  <2>4. moved \in Sequencers
    BY <2>2, FlowTyped DEF Sequencers, OrNone
  <2>5. moved.row = q.row
    BY <2>2, <2>3 DEF Sequencers
  <2>6. /\ ResetDetector(moved).row = q.row
        /\ \A speed, f : ResetMarkingBefore(StartRow(moved, speed), f).row = q.row
    <3> HIDE DEF moved
    <3> QED BY <2>4, <2>5 DEF ResetDetector, ResetMarkingBefore, StartRow, Sequencers
  <2>7. fresh = ResetDetector(moved) \/ \E speed, f : fresh = ResetMarkingBefore(StartRow(moved, speed), f)
    BY DEF SeekTo, at
  <2> HIDE DEF moved, fresh
  <2> QED BY <2>6, <2>7
<1> HIDE DEF n, fresh, frame
<1>6. s \in Sequencers
  BY <1>3, ResetTyped DEF Good
<1>7. s.order = q.order /\ s.row = q.row
  BY <1>3, <1>4, <1>5 DEF ResetMarkingBefore, ResetDetector, Good, Sequencers
<1>8. r = [s EXCEPT
        !.speed = q.speed, !.delay = q.delay, !.tick = q.tick, !.arrival = q.arrival,
        !.inside = q.inside, !.arrivals = q.arrivals, !.armed = q.armed,
        !.jump = q.jump, !.elapsed = elapsed, !.due = due,
        !.sounding = q.sounding, !.endReached = q.endReached, !.state = q.state]
  BY DEF Restored, n, fresh, frame
<1> HIDE DEF s, elapsed, due, r
<1> DEFINE s1 == [s EXCEPT !.speed = q.speed, !.delay = q.delay, !.tick = q.tick, !.arrival = q.arrival]
           s2 == [s1 EXCEPT !.inside = q.inside, !.arrivals = q.arrivals, !.armed = q.armed, !.jump = q.jump]
           s3 == [s2 EXCEPT !.elapsed = elapsed, !.due = due]
           s4 == [s3 EXCEPT !.sounding = q.sounding, !.endReached = q.endReached, !.state = q.state]
<1>9. /\ q.speed \in Byte /\ q.delay \in Byte /\ q.tick \in Nat /\ q.inside \in BOOLEAN /\ q.arrivals \in Nat
      /\ q.arrival \in {"Start", "Sequential", "PatternLoop", "Jump", "NextOrder", "Wrapped"}
      /\ q.armed \in BOOLEAN /\ q.jump \in OrNone(Jumps) /\ q.sounding \in Nat \X Nat /\ q.endReached \in BOOLEAN
      /\ q.state \in {"Ready", "Stopped"}
  BY <1>1 DEF Sequencers
<1>10. s1 \in Sequencers /\ s1.order = s.order /\ s1.row = s.row
  <2>1. s1 \in Sequencers
    BY <1>6, <1>9 DEF Sequencers
  <2>2. s1.order = s.order /\ s1.row = s.row
    BY <1>6 DEF Sequencers
  <2> QED BY <2>1, <2>2
<1>11. s2 \in Sequencers /\ s2.order = s.order /\ s2.row = s.row
  <2> HIDE DEF s1
  <2>1. s2 \in Sequencers
    BY <1>9, <1>10 DEF Sequencers
  <2>2. s2.order = s1.order /\ s2.row = s1.row
    BY <1>10 DEF Sequencers
  <2> QED BY <1>10, <2>1, <2>2
<1>12. s3 \in Sequencers /\ s3.order = s.order /\ s3.row = s.row
  <2> HIDE DEF s2
  <2>1. s3 \in Sequencers
    BY <1>2, <1>11 DEF Sequencers
  <2>2. s3.order = s2.order /\ s3.row = s2.row
    BY <1>11 DEF Sequencers
  <2> QED BY <1>11, <2>1, <2>2
<1>13. s4 \in Sequencers /\ s4.order = s.order /\ s4.row = s.row
  <2> HIDE DEF s3
  <2>1. s4 \in Sequencers
    BY <1>9, <1>12 DEF Sequencers
  <2>2. s4.order = s3.order /\ s4.row = s3.row
    BY <1>12 DEF Sequencers
  <2> QED BY <1>12, <2>1, <2>2
<1>14. r = s4
  BY <1>6, <1>8 DEF Sequencers
<1> HIDE DEF s4
<1>15. Placed(q)
  BY DEF Good
<1>16. Good(r)
  BY <1>7, <1>13, <1>14, <1>15, PlacedAlike DEF Good
<1> QED BY <1>16 DEF r

-----------------------------------------------------------------------------
(* 2. What a tick leaves alone *)

\* Only the place, the row clock, the flow and the jump may differ.
Goes(r, q) == /\ r.visit = q.visit /\ r.atEnd = q.atEnd /\ r.seen = q.seen /\ r.armed = q.armed
              /\ r.elapsed = q.elapsed /\ r.due = q.due /\ r.state = q.state /\ r.endReached = q.endReached
              /\ r.inside = q.inside /\ r.arrivals = q.arrivals

LEMMA GoesOn ==
    ASSUME NEW q \in Sequencers
    PROVE  /\ \A order, row : Goes(SetPosition(q, order, row), q)
           /\ \A speed : Goes(StartRow(q, speed), q)
           /\ \A v : Goes([q EXCEPT !.arrival = v], q)
           /\ \A v : Goes([q EXCEPT !.jump = v], q)
           /\ \A out : Goes(Timed(q, out), q)
<1>1. ASSUME NEW speed PROVE Goes(StartRow(q, speed), q)
  BY DEF Goes, StartRow, Sequencers
<1>2. ASSUME NEW order, NEW row PROVE Goes(SetPosition(q, order, row), q)
  <2> DEFINE clamped == ClampedRow(Pattern(order), row)
             at == [q EXCEPT !.order = order, !.row = clamped]
             r == SetPosition(q, order, row)
  <2>1. r = [at EXCEPT !.speed = q.speed, !.delay = 0, !.tick = 0]
    BY DEF SetPosition, StartRow
  <2> HIDE DEF clamped, r
  <2> QED BY <2>1 DEF Goes, Sequencers, r
<1>3. ASSUME NEW v PROVE Goes([q EXCEPT !.arrival = v], q) /\ Goes([q EXCEPT !.jump = v], q)
  BY DEF Goes, Sequencers
<1>4. ASSUME NEW out PROVE Goes(Timed(q, out), q)
  BY DEF Goes, Timed, Sequencers
<1> QED BY <1>1, <1>2, <1>3, <1>4

LEMMA GoesFurther == ASSUME NEW r, NEW q, NEW p, Goes(r, q), Goes(q, p) PROVE Goes(r, p)
  BY DEF Goes

\* The song goes on from q, or it ends there of itself.
GoesOrEnds(r, q) == \/ Goes(r, q)
                    \/ \E p : Good(p) /\ Goes(p, q) /\ r = EndNaturally(p)

LEMMA MoveToOrderGoes ==
    ASSUME NEW q, Good(q), NEW order, NEW row
    PROVE  GoesOrEnds(MoveToOrder(q, order, row), q)
<1>1. CASE Resolve(order) # None
  <2>1. Goes(SetPosition(q, Resolve(order), row), q)
    BY GoesOn DEF Good
  <2> QED BY <1>1, <2>1 DEF MoveToOrder, GoesOrEnds
<1>2. CASE Resolve(order) = None /\ song.policy # "Stop" /\ Resolve(song.restart) # None
  <2> DEFINE wrapped == [q EXCEPT !.arrival = "Wrapped"]
             at == IF song.policy = "WrapKeepingBreakRow" THEN row ELSE 0
             r == SetPosition(wrapped, Resolve(song.restart), at)
  <2>1. wrapped \in Sequencers
    BY DEF Good, Sequencers
  <2>2. Goes(wrapped, q)
    BY GoesOn DEF Good
  <2> HIDE DEF wrapped, at
  <2>3. Goes(r, wrapped)
    BY <2>1, GoesOn
  <2>4. MoveToOrder(q, order, row) = r
    BY <1>2 DEF MoveToOrder, wrapped, at
  <2> HIDE DEF r
  <2> QED BY <2>2, <2>3, <2>4, GoesFurther DEF GoesOrEnds
<1>3. CASE Resolve(order) = None /\ ~(song.policy # "Stop" /\ Resolve(song.restart) # None)
  <2>1. MoveToOrder(q, order, row) = EndNaturally(q)
    BY <1>3 DEF MoveToOrder
  <2>2. Goes(q, q)
    BY DEF Goes
  <2> QED BY <2>1, <2>2 DEF GoesOrEnds
<1> QED BY <1>1, <1>2, <1>3

LEMMA GoesThenGoesOrEnds ==
    ASSUME NEW r, NEW q, NEW p, GoesOrEnds(r, q), Goes(q, p)
    PROVE  GoesOrEnds(r, p)
  BY GoesFurther DEF GoesOrEnds

LEMMA BeginNextRowGoes ==
    ASSUME NEW q, Good(q), NEW jump \in OrNone(Jumps)
    PROVE  GoesOrEnds(BeginNextRow(q, jump), q)
<1>0. q \in Sequencers
  BY DEF Good
<1>1. CASE jump # None /\ jump.within
  <2> DEFINE row == ClampedRow(Pattern(q.order), jump.row)
             a == [q EXCEPT !.row = row, !.arrival = "PatternLoop"]
             r == BeginNextRow(q, jump)
  <2>1. r = [a EXCEPT !.speed = q.speed, !.delay = 0, !.tick = 0]
    BY <1>1 DEF BeginNextRow, StartRow
  <2> HIDE DEF row, r
  <2>2. Goes(r, q)
    BY <1>0, <2>1 DEF Goes, Sequencers
  <2> QED BY <2>2 DEF GoesOrEnds, r
<1>2. ASSUME NEW v PROVE Good([q EXCEPT !.arrival = v]) \/ v \notin {"Jump", "NextOrder"}
  <2> SUFFICES ASSUME v \in {"Jump", "NextOrder"} PROVE Good([q EXCEPT !.arrival = v])
    OBVIOUS
  <2>1. [q EXCEPT !.arrival = v] \in Sequencers
    BY <1>0 DEF Sequencers
  <2>2. [q EXCEPT !.arrival = v].order = q.order /\ [q EXCEPT !.arrival = v].row = q.row
    BY <1>0 DEF Sequencers
  <2> DEFINE a == [q EXCEPT !.arrival = v]
  <2>3. a \in Sequencers /\ a.order = q.order /\ a.row = q.row
    BY <2>1, <2>2
  <2> HIDE DEF a
  <2>4. Good(a)
    BY <2>3, PlacedAlike DEF Good
  <2> QED BY <2>4 DEF a
<1>3. CASE jump # None /\ ~jump.within
  <2> DEFINE a == [q EXCEPT !.arrival = "Jump"]
             order == IF jump.order = None THEN q.order + 1 ELSE jump.order
  <2>1. Good(a) /\ Goes(a, q)
    BY <1>0, <1>2, GoesOn
  <2>2. BeginNextRow(q, jump) = MoveToOrder(a, order, jump.row)
    BY <1>3 DEF BeginNextRow
  <2> HIDE DEF a, order
  <2> QED BY <2>1, <2>2, MoveToOrderGoes, GoesThenGoesOrEnds
<1>4. CASE jump = None /\ q.row + 1 < RowsIn(Pattern(q.order))
  <2> DEFINE a == [q EXCEPT !.row = @ + 1, !.arrival = "Sequential"]
             r == BeginNextRow(q, jump)
  <2>1. r = [a EXCEPT !.speed = q.speed, !.delay = 0, !.tick = 0]
    BY <1>4 DEF BeginNextRow, StartRow
  <2> HIDE DEF r
  <2>2. Goes(r, q)
    BY <1>0, <2>1 DEF Goes, Sequencers
  <2> QED BY <2>2 DEF GoesOrEnds, r
<1>5. CASE jump = None /\ ~(q.row + 1 < RowsIn(Pattern(q.order)))
  <2> DEFINE a == [q EXCEPT !.arrival = "NextOrder"]
  <2>1. Good(a) /\ Goes(a, q)
    BY <1>0, <1>2, GoesOn
  <2>2. BeginNextRow(q, jump) = MoveToOrder(a, q.order + 1, 0)
    BY <1>5 DEF BeginNextRow
  <2> HIDE DEF a
  <2> QED BY <2>1, <2>2, MoveToOrderGoes, GoesThenGoesOrEnds
<1>6. jump # None => jump.within \in BOOLEAN
  BY DEF OrNone, Jumps
<1> QED BY <1>1, <1>3, <1>4, <1>5, <1>6

\* A tick that has run: the song ends at the start of it, or the clock goes one tick on.
LEMMA CommitGoes ==
    ASSUME NEW q, Good(q), NEW out \in Outs
    PROVE  \/ out.stop /\ \E p : Good(p) /\ Goes(p, q) /\ Commit(q, out) = EndNaturally(p)
           \/ ~out.stop /\ GoesOrEnds(Commit(q, out), OneOn(q, out))
<1> DEFINE t == Timed(q, out)
           n == OneOn(q, out)
           free == [n EXCEPT !.jump = None]
<1>1. Good(t) /\ Good(n) /\ Goes(t, q)
  BY TimedTyped, GoesOn DEF Good
<1>2. Commit(q, out) = CASE out.stop -> EndNaturally(t)
                         [] ~out.stop /\ n.tick < TotalTicks(n) -> n
                         [] OTHER -> BeginNextRow(free, n.jump)
  BY CommitIs
<1>3. out.stop \in BOOLEAN
  BY DEF Outs
<1> HIDE DEF t, n
<1>4. Good(free) /\ Goes(free, n)
  <2>1. n \in Sequencers
    BY <1>1 DEF Good
  <2>2. free \in Sequencers
    BY <2>1 DEF Sequencers, OrNone
  <2>3. free.order = n.order /\ free.row = n.row
    BY <2>1 DEF Sequencers
  <2>4. Goes(free, n)
    BY <2>1, GoesOn
  <2> HIDE DEF free
  <2>5. Placed(n)
    BY <1>1 DEF Good
  <2> QED BY <2>2, <2>3, <2>4, <2>5, PlacedAlike DEF Good
<1>5. GoesOrEnds(BeginNextRow(free, n.jump), n)
  <2>1. n.jump \in OrNone(Jumps)
    BY <1>1 DEF Good, Sequencers
  <2> HIDE DEF free
  <2> QED BY <1>4, <2>1, BeginNextRowGoes, GoesThenGoesOrEnds
<1> HIDE DEF free
<1>6. Goes(n, n)
  BY DEF Goes
<1>7. CASE out.stop
  BY <1>1, <1>2, <1>7
<1>8. CASE ~out.stop
  <2>1. GoesOrEnds(Commit(q, out), n)
    BY <1>2, <1>5, <1>6, <1>8 DEF GoesOrEnds
  <2> QED BY <1>8, <2>1 DEF n
<1> QED BY <1>3, <1>7, <1>8

\* A seek takes neither the last announcement nor the mode away.
LEMMA SeekToKeeps ==
    ASSUME NEW q \in Sequencers, NEW order, NEW row
    PROVE  LET r == SeekTo(q, order, row)
           IN  r.visit = q.visit /\ r.atEnd = q.atEnd /\ r.state = "Ready" /\ r.armed /\ ~r.endReached /\ r.order = order
               /\ r.tick = 0 /\ r.arrival = "Start" /\ r.arrivals = 0 /\ ~r.inside /\ r.lastPos = None /\ r.flow = FreshFlow
               /\ r.elapsed = q.elapsed /\ r.row = ClampedRow(Pattern(order), row) /\ r.jump = None /\ r.delay = 0
               /\ r.due = q.due
<1> DEFINE clamped == ClampedRow(Pattern(order), row)
           at == [q EXCEPT !.order = order, !.row = clamped]
           pos == [at EXCEPT !.speed = q.speed, !.delay = 0, !.tick = 0]
           moved == [pos EXCEPT !.jump = None, !.flow = FreshFlow,
                  !.lastPos = None, !.state = "Ready", !.arrival = "Start", !.endReached = FALSE]
           r == SeekTo(q, order, row)
           Kept(x) == /\ x.visit = q.visit /\ x.atEnd = q.atEnd /\ x.state = "Ready" /\ x.armed = TRUE
                      /\ x.endReached = FALSE /\ x.order = order /\ x.tick = 0 /\ x.arrival = "Start" /\ x.arrivals = 0
                      /\ x.inside = FALSE /\ x.lastPos = None /\ x.flow = FreshFlow /\ x.elapsed = q.elapsed
                      /\ x.row = clamped /\ x.jump = None /\ x.delay = 0 /\ x.due = q.due
<1>1. r = ResetDetector(moved) \/ \E speed, f : r = ResetMarkingBefore(StartRow(moved, speed), f)
  BY DEF SeekTo, SetPosition, StartRow
<1> HIDE DEF clamped, r
<1>2. Kept(ResetDetector(moved))
  BY DEF ResetDetector, Sequencers
<1>3. ASSUME NEW speed, NEW f PROVE Kept(ResetMarkingBefore(StartRow(moved, speed), f))
  BY DEF ResetMarkingBefore, ResetDetector, StartRow, Sequencers
<1> HIDE DEF moved
<1>4. Kept(r)
  <2> HIDE DEF Kept
  <2> QED BY <1>1, <1>2, <1>3
<1> QED BY <1>4 DEF r, clamped

LEMMA EndNaturallyDoes ==
    ASSUME NEW q, Good(q)
    PROVE  LET r == EndNaturally(q)
           IN  /\ r.visit = q.visit /\ r.atEnd = q.atEnd
               /\ Restarts(q) => r.elapsed = 0 /\ r.state = "Ready" /\ r.due = TickLength
               /\ ~Restarts(q) => r = [q EXCEPT !.endReached = TRUE, !.state = "Stopped"]
<1>0. q \in Sequencers
  BY DEF Good
<1> DEFINE r == EndNaturally(q)
<1>1. CASE Restarts(q)
  <2> DEFINE s == SeekTo(q, Resolve(song.restart), 0)
             keys == DOMAIN q
  <2>1. s.visit = q.visit /\ s.atEnd = q.atEnd /\ s.state = "Ready"
    BY <1>0, SeekToKeeps
  <2>2. DOMAIN s = DOMAIN q
    BY DEF SeekTo, SetPosition, ResetDetector, ResetMarkingBefore, StartRow
  <2>3. DOMAIN q = {"order", "row", "speed", "delay", "tick", "state", "jump", "arrival", "flow", "lastPos", "seen",
                    "inside", "arrivals", "armed", "elapsed", "due", "sounding", "atEnd", "endReached", "visit", "runs"}
    BY <1>0 DEF Sequencers
  <2>4. r = [ResetDetector(s) EXCEPT !.elapsed = 0, !.due = TickLength]
    BY <1>1 DEF EndNaturally
  <2> HIDE DEF s, r
  <2>5. r.elapsed = 0 /\ r.due = TickLength /\ r.visit = s.visit /\ r.atEnd = s.atEnd /\ r.state = s.state
    BY <2>2, <2>3, <2>4 DEF ResetDetector
  <2> QED BY <1>1, <2>1, <2>5 DEF r
<1>2. CASE ~Restarts(q)
  <2>1. r = [q EXCEPT !.endReached = TRUE, !.state = "Stopped"]
    BY <1>2 DEF EndNaturally
  <2> HIDE DEF r
  <2>2. r.visit = q.visit /\ r.atEnd = q.atEnd
    BY <1>0, <2>1 DEF Sequencers
  <2> QED BY <1>2, <2>1, <2>2 DEF r
<1> QED BY <1>1, <1>2

\* What the beginning of a row writes down.
Noted(q) == [verdict |-> Verdict(Arrive(q)), order |-> q.order, row |-> q.row, frame |-> q.elapsed, speed |-> q.speed]

LEMMA QuietedIs ==
    ASSUME NEW q, Good(q)
    PROVE  LET r == Quieted(q)
           IN  /\ Verdict(Arrive(r)) = Verdict(Arrive(q)) /\ At(r) = At(q) /\ Noted(r) = Noted(q)
               /\ r.visit = None /\ r.runs = TRUE /\ r.due = 0 /\ r.atEnd = q.atEnd /\ r.seen = q.seen
               /\ r.armed = q.armed /\ r.elapsed = q.elapsed /\ r.state = q.state /\ r.endReached = q.endReached
               /\ r.order = q.order /\ r.row = q.row /\ r.tick = q.tick /\ r.flow = q.flow /\ r.speed = q.speed
               /\ r.delay = q.delay /\ r.lastPos = q.lastPos /\ r.jump = q.jump /\ r.inside = q.inside
               /\ r.arrivals = q.arrivals /\ r.arrival = q.arrival
<1> DEFINE r == Quieted(q)
<1>0. q \in Sequencers
  BY DEF Good
<1>1. /\ r.visit = None /\ r.runs = TRUE /\ r.due = 0 /\ r.atEnd = q.atEnd /\ r.seen = q.seen
      /\ r.armed = q.armed /\ r.elapsed = q.elapsed /\ r.state = q.state /\ r.endReached = q.endReached
      /\ r.order = q.order /\ r.row = q.row /\ r.tick = q.tick /\ r.flow = q.flow /\ r.speed = q.speed
      /\ r.delay = q.delay /\ r.lastPos = q.lastPos /\ r.jump = q.jump /\ r.inside = q.inside
      /\ r.arrivals = q.arrivals /\ r.arrival = q.arrival
  BY <1>0 DEF Quieted, Sequencers
<1>2. r \in Sequencers
  BY QuietedTyped DEF Good
<1> HIDE DEF r
<1> DEFINE a == Arrive(r)
           b == Arrive(q)
<1>3. a.armed = b.armed /\ a.arrival = b.arrival /\ a.arrivals = b.arrivals /\ a.order = b.order /\ a.row = b.row
      /\ a.seen = b.seen /\ a.inside = b.inside
  BY <1>0, <1>1, <1>2 DEF Arrive, Sequencers
<1>4. Verdict(a) = Verdict(b)
  <2> HIDE DEF a, b
  <2> QED BY <1>3 DEF Verdict, At
<1>5. At(r) = At(q) /\ Noted(r) = Noted(q)
  BY <1>1, <1>4 DEF At, Noted
<1> QED BY <1>1, <1>4, <1>5 DEF r

\* What Arrive leaves alone.
LEMMA ArriveKeeps ==
    ASSUME NEW q, Good(q)
    PROVE  LET r == Arrive(q)
           IN  /\ r.visit = q.visit /\ r.atEnd = q.atEnd /\ r.seen = q.seen /\ r.armed = q.armed
               /\ r.elapsed = q.elapsed /\ r.due = q.due /\ r.state = q.state /\ r.endReached = q.endReached
               /\ r.order = q.order /\ r.row = q.row /\ r.tick = q.tick /\ r.flow = q.flow /\ r.speed = q.speed
               /\ r.delay = q.delay /\ r.lastPos = q.lastPos /\ r.jump = q.jump /\ r.arrival = q.arrival
               /\ r.runs = q.runs /\ r.sounding = q.sounding
  BY DEF Good, Arrive, Sequencers

LEMMA JudgedDoes ==
    ASSUME NEW q, Good(q)
    PROVE  LET r == Judged(q)
               verdict == Verdict(Arrive(q))
           IN  /\ r.visit = Noted(q) /\ r.atEnd = q.atEnd /\ r.seen = q.seen \cup {At(q)}
               /\ r.armed = (q.armed /\ verdict \notin Ends)
               /\ r.endReached = (verdict \in Ends \/ (q.endReached /\ q.atEnd # "Continue"))
               /\ r.runs = (verdict \notin Ends \/ q.atEnd = "Continue" \/ (q.atEnd = "FadeOut" /\ verdict # "Wrapped"))
               /\ r.elapsed = q.elapsed /\ r.due = q.due /\ r.state = q.state
               /\ r.order = q.order /\ r.row = q.row /\ r.tick = q.tick /\ r.flow = q.flow /\ r.speed = q.speed
               /\ r.delay = q.delay /\ r.lastPos = q.lastPos /\ r.jump = q.jump /\ r.arrival = q.arrival
               /\ r.inside = Arrive(q).inside /\ r.arrivals = Arrive(q).arrivals /\ r.sounding = q.sounding
<1> DEFINE a == Arrive(q)
           verdict == Verdict(a)
           r == Judged(q)
<1>1. a \in Sequencers
  BY ArriveTyped DEF Good
<1>2. /\ a.visit = q.visit /\ a.atEnd = q.atEnd /\ a.seen = q.seen /\ a.armed = q.armed
               /\ a.elapsed = q.elapsed /\ a.due = q.due /\ a.state = q.state /\ a.endReached = q.endReached
               /\ a.order = q.order /\ a.row = q.row /\ a.tick = q.tick /\ a.flow = q.flow /\ a.speed = q.speed
               /\ a.delay = q.delay /\ a.lastPos = q.lastPos /\ a.jump = q.jump /\ a.arrival = q.arrival
      /\ a.sounding = q.sounding
  BY ArriveKeeps
<1>3. r = [a EXCEPT !.seen = @ \cup {At(q)},
                     !.armed = @ /\ verdict \notin Ends,
                     !.visit = Noted(q),
                     !.endReached = verdict \in Ends \/ (@ /\ q.atEnd # "Continue"),
                     !.runs = verdict \notin Ends \/ q.atEnd = "Continue"
                              \/ (q.atEnd = "FadeOut" /\ verdict # "Wrapped")]
  BY DEF Judged, Noted
<1> HIDE DEF a, verdict, r
<1>4. /\ r.visit = Noted(q) /\ r.atEnd = a.atEnd
      /\ r.elapsed = a.elapsed /\ r.due = a.due /\ r.state = a.state
      /\ r.order = a.order /\ r.row = a.row /\ r.tick = a.tick /\ r.flow = a.flow /\ r.speed = a.speed
      /\ r.delay = a.delay /\ r.lastPos = a.lastPos /\ r.jump = a.jump /\ r.arrival = a.arrival
      /\ r.inside = a.inside /\ r.arrivals = a.arrivals /\ r.sounding = a.sounding
  BY <1>1, <1>3 DEF Sequencers
<1>5. r.seen = a.seen \cup {At(q)}
  BY <1>1, <1>3 DEF Sequencers
<1>6. r.armed = (a.armed /\ verdict \notin Ends)
  BY <1>1, <1>3 DEF Sequencers
<1>7. r.endReached = (verdict \in Ends \/ (a.endReached /\ q.atEnd # "Continue"))
  BY <1>1, <1>3 DEF Sequencers
<1>8. r.runs = (verdict \notin Ends \/ q.atEnd = "Continue" \/ (q.atEnd = "FadeOut" /\ verdict # "Wrapped"))
  BY <1>1, <1>3 DEF Sequencers
<1> QED BY <1>2, <1>4, <1>5, <1>6, <1>7, <1>8 DEF r, a, verdict

LEMMA WrapKeeps ==
    ASSUME NEW q, Good(q)
    PROVE  LET r == WrapAtLoopPoint(q) IN r.visit = q.visit /\ r.atEnd = q.atEnd /\ r.runs = q.runs /\ r.state = q.state
                                          /\ r.due = q.due /\ r.order = q.order /\ r.row = q.row /\ r.tick = q.tick
                                          /\ r.endReached = q.endReached
  BY DEF Good, WrapAtLoopPoint, ResetDetector, ResetMarkingBefore, Sequencers

\* At the end of the tick the visit is the one of its beginning, and so is the mode.
LEMMA RanKeeps ==
    ASSUME NEW b, b \in Sequencers
    PROVE  LET r == Ran(b)
           IN  /\ r.visit = b.visit /\ r.atEnd = b.atEnd /\ r.seen = b.seen /\ r.armed = b.armed
               /\ r.elapsed = b.elapsed /\ r.due = b.due /\ r.state = b.state /\ r.endReached = b.endReached
               /\ r.inside = b.inside /\ r.arrivals = b.arrivals /\ r.arrival = b.arrival
               /\ r.order = b.order /\ r.row = b.row /\ r.tick = b.tick /\ r.speed = b.speed /\ r.delay = b.delay
               /\ r.jump = b.jump /\ r.flow = RunTick(b).flow
               /\ r.lastPos = IF b.tick = 0 THEN b.order ELSE b.lastPos
  BY DEF Ran, Sequencers

LEMMA OneOnDoes ==
    ASSUME NEW q, q \in Sequencers, NEW out
    PROVE  LET r == OneOn(q, out)
           IN  /\ r.visit = q.visit /\ r.atEnd = q.atEnd /\ r.seen = q.seen /\ r.armed = q.armed
               /\ r.elapsed = q.elapsed + TickLength /\ r.due = TickLength /\ r.state = q.state
               /\ r.endReached = q.endReached /\ r.inside = q.inside /\ r.arrivals = q.arrivals
               /\ r.tick = q.tick + 1 /\ r.order = q.order /\ r.row = q.row /\ r.speed = out.speed
               /\ r.delay = (IF q.tick = 0 THEN out.delay ELSE q.delay)
  BY DEF OneOn, Timed, Sequencers

LEMMA CommitKeeps ==
    ASSUME NEW q, Good(q), NEW out \in Outs
    PROVE  Commit(q, out).visit = q.visit /\ Commit(q, out).atEnd = q.atEnd
<1> DEFINE r == Commit(q, out)
           n == OneOn(q, out)
<1>1. n.visit = q.visit /\ n.atEnd = q.atEnd
  BY OneOnDoes DEF Good
<1> HIDE DEF n
<1>2. CASE \E p : Good(p) /\ (Goes(p, q) \/ Goes(p, n)) /\ r = EndNaturally(p)
  <2>1. PICK p : Good(p) /\ (Goes(p, q) \/ Goes(p, n)) /\ r = EndNaturally(p)
    BY <1>2
  <2>2. r.visit = p.visit /\ r.atEnd = p.atEnd
    BY <2>1, EndNaturallyDoes
  <2> QED BY <1>1, <2>1, <2>2 DEF Goes
<1>3. CASE Goes(r, n)
  BY <1>1, <1>3 DEF Goes
<1>4. \/ \E p : Good(p) /\ (Goes(p, q) \/ Goes(p, n)) /\ r = EndNaturally(p)
      \/ Goes(r, n)
  BY CommitGoes DEF GoesOrEnds, n
<1> QED BY <1>2, <1>3, <1>4

\* What a tick has to say of the end of the song.
LEMMA DispatchNotes ==
    ASSUME IsSong(song), timeline \in OrNone(Timelines), NEW q, Good(q)
    PROVE  /\ Dispatch(q).visit = IF q.tick = 0 THEN Noted(q) ELSE None
           /\ Dispatch(q).atEnd = q.atEnd
           /\ Begun(q).visit = Dispatch(q).visit /\ Begun(q).atEnd = q.atEnd
<1> DEFINE z == Quieted(q)
           b == Begun(q)
           r == Dispatch(q)
<1>1. Good(z) /\ Good(b) /\ RunTick(b) \in Ticked
  BY QuietedTyped, BegunTyped
<1>2. z.visit = None /\ z.atEnd = q.atEnd /\ z.tick = q.tick /\ Noted(z) = Noted(q)
  BY QuietedIs
<1>3. b = IF q.tick = 0 THEN BeginRow(z) ELSE z
  BY DEF Begun
<1> HIDE DEF z
<1>4. BeginRow(z).visit = Noted(z) /\ BeginRow(z).atEnd = z.atEnd
  <2>1. Good(Judged(z)) /\ Judged(z).visit = Noted(z) /\ Judged(z).atEnd = z.atEnd
    BY <1>1, JudgedDoes, JudgedTyped
  <2>2. WrapAtLoopPoint(Judged(z)).visit = Judged(z).visit /\ WrapAtLoopPoint(Judged(z)).atEnd = Judged(z).atEnd
    BY <2>1, WrapKeeps
  <2> QED BY <2>1, <2>2, BeginRowIs
<1>5. r = IF b.runs THEN Commit(Ran(b), RunTick(b).out) ELSE [b EXCEPT !.state = "Stopped"]
  BY DispatchIs
<1>6. b.visit = (IF q.tick = 0 THEN Noted(q) ELSE None) /\ b.atEnd = q.atEnd
  BY <1>2, <1>3, <1>4
<1> HIDE DEF b
<1>7. Commit(Ran(b), RunTick(b).out).visit = b.visit /\ Commit(Ran(b), RunTick(b).out).atEnd = b.atEnd
  <2>1. Good(Ran(b)) /\ RunTick(b).out \in Outs
    BY <1>1, RanTyped DEF Ticked
  <2>2. Ran(b).visit = b.visit /\ Ran(b).atEnd = b.atEnd
    BY <1>1, RanKeeps DEF Good
  <2> QED BY <2>1, <2>2, CommitKeeps
<1>8. [b EXCEPT !.state = "Stopped"].visit = b.visit /\ [b EXCEPT !.state = "Stopped"].atEnd = b.atEnd
  BY <1>1 DEF Good, Sequencers
<1>9. r.visit = b.visit /\ r.atEnd = b.atEnd
  <2> HIDE DEF r
  <2> QED BY <1>5, <1>7, <1>8
<1> QED BY <1>6, <1>9 DEF b

\* Only the beginning of a row is noted, and so the detector speaks only there.
LEMMA DispatchAnnounces ==
    ASSUME IsSong(song), timeline \in OrNone(Timelines), NEW q, Good(q)
    PROVE  /\ Announces(Dispatch(q)) <=> q.tick = 0 /\ Verdict(Arrive(q)) \in Ends
           /\ Dispatch(q).visit # None <=> q.tick = 0
           /\ q.tick = 0 => Noted(q) \in Visits
<1>1. Good(Quieted(q)) /\ Noted(Quieted(q)) = Noted(q) /\ Judged(Quieted(q)).visit = Noted(Quieted(q))
  BY QuietedTyped, QuietedIs, JudgedDoes
<1>2. Noted(q) \in Visits
  BY <1>1, JudgedTyped
<1>3. Noted(q) # None
  BY <1>2
<1>4. Noted(q).verdict = Verdict(Arrive(q))
  BY DEF Noted
<1> QED BY <1>2, <1>3, <1>4, DispatchNotes DEF Announces

-----------------------------------------------------------------------------
(* 3. Every state has its type *)

Playable(order) == order \in Nat /\ order + 1 \in DOMAIN Orders /\ Pattern(order) \in Patterns

\* The rows of the timeline are rows of the song.
TypeInv ==
  /\ song \in Songs /\ Good(seq) /\ ticks \in Nat /\ edits \in Nat
  /\ found \subseteq RowMarks /\ \A m \in found \cup Marks : Playable(m.order)
  /\ phase \in {"scan", "play"} /\ pass \in {"first", "moved", "loose", "again", "replaced"}
  /\ timeline \in OrNone(Timelines) /\ (phase = "scan" <=> timeline = None)
  /\ phase = "scan" => pass = "first"

LEMMA SameSong ==
    ASSUME song' = song
    PROVE  /\ IsSong(song)' = IsSong(song)
           /\ \A q : Good(q)' = Good(q)
           /\ \A order : Playable(order)' = Playable(order)
<1>1. Orders' = Orders /\ Patterns' = Patterns /\ Channels' = Channels
  BY DEF Orders, Patterns, Channels
<1>2. \A o : Pattern(o)' = Pattern(o)
  BY <1>1 DEF Pattern
<1>3. \A p : RowsIn(p)' = RowsIn(p)
  BY DEF RowsIn
<1>4. Flows' = Flows
  BY <1>1 DEF Flows
<1>5. Sequencers' = Sequencers
  BY <1>4 DEF Sequencers
<1>6. \A q : Placed(q)' = Placed(q)
  BY <1>1, <1>2, <1>3 DEF Placed
<1>7. \A q : Good(q)' = Good(q)
  BY <1>5, <1>6 DEF Good
<1>8. \A order : Playable(order)' = Playable(order)
  BY <1>1, <1>2 DEF Playable
<1>9. IsSong(song)' = IsSong(song)
  BY DEF IsSong
<1> QED BY <1>7, <1>8, <1>9

\* What is installed: the second sequencer, at the top, on the clock of the timeline.
Loaded(atEnd) == [SeekTo(NewSequencer(atEnd), Resolve(0), 0) EXCEPT !.elapsed = Scanned(Resolve(0), 0)]

\* A seek sets the clock by the timeline.
Wound(q, order, row) == [SeekTo(q, order, row) EXCEPT !.elapsed = Scanned(order, row), !.due = 0]

LEMMA LoadedTyped ==
    IsSong(song) /\ timeline \in OrNone(Timelines) => \A atEnd \in AtEnds : Good(Loaded(atEnd))
<1> SUFFICES ASSUME IsSong(song), timeline \in OrNone(Timelines), NEW atEnd \in AtEnds PROVE Good(Loaded(atEnd))
  OBVIOUS
<1> DEFINE n == NewSequencer(atEnd)
           s == SeekTo(n, Resolve(0), 0)
           frame == Scanned(Resolve(0), 0)
           r == Loaded(atEnd)
<1>1. n \in Sequencers
  BY NewSequencerTyped DEF Good
<1>2. Resolve(0) \in Nat /\ Resolve(0) + 1 \in DOMAIN Orders /\ Pattern(Resolve(0)) \in Patterns
  BY NewSequencerIs
<1>3. Good(s)
  <2> HIDE DEF n
  <2> QED BY <1>1, <1>2, SeekToTyped
<1>4. frame \in Nat
  BY MarkedTyped
<1>5. r = [s EXCEPT !.elapsed = frame]
  BY DEF Loaded
<1> HIDE DEF s, frame, r
<1>6. r \in Sequencers
  BY <1>3, <1>4, <1>5 DEF Good, Sequencers
<1>7. r.order = s.order /\ r.row = s.row
  BY <1>3, <1>5 DEF Good, Sequencers
<1>8. Good(r)
  BY <1>3, <1>6, <1>7, PlacedAlike DEF Good
<1> QED BY <1>8 DEF r

LEMMA LoadedTypedThen ==
    (IsSong(song) /\ timeline \in OrNone(Timelines) => \A atEnd \in AtEnds : Good(Loaded(atEnd)))'
<1>1. IsSong(song) /\ timeline \in OrNone(Timelines) => \A atEnd \in AtEnds : Good(Loaded(atEnd))
  BY LoadedTyped
<1> QED BY <1>1, PTL

LEMMA WoundTyped ==
    ASSUME IsSong(song), timeline \in OrNone(Timelines), NEW q, Good(q), NEW order, Playable(order), NEW row \in Nat
    PROVE  Good(Wound(q, order, row))
<1> DEFINE s == SeekTo(q, order, row)
           frame == Scanned(order, row)
           r == Wound(q, order, row)
<1>1. Good(s)
  BY SeekToTyped DEF Good, Playable
<1>2. frame \in Nat
  BY MarkedTyped
<1>3. r = [s EXCEPT !.elapsed = frame, !.due = 0]
  BY DEF Wound
<1> HIDE DEF s, frame, r
<1>4. r \in Sequencers
  BY <1>1, <1>2, <1>3, TickFacts DEF Good, Sequencers
<1>5. r.order = s.order /\ r.row = s.row
  BY <1>1, <1>3 DEF Good, Sequencers
<1>6. Good(r)
  BY <1>1, <1>4, <1>5, PlacedAlike DEF Good
<1> QED BY <1>6 DEF r

LEMMA EndsTyped ==
    ASSUME TypeInv, EndReason # None
    PROVE  EndReason \in Ends \cup {"Stopped", "TickLimit"} /\ EndFrame \in Nat /\ At(seq) \in Nat \X Nat
<1>1. seq \in Sequencers
  BY DEF TypeInv, Good
<1>2. seq.elapsed \in Nat /\ seq.due \in 0 .. TickLength /\ At(seq) \in Nat \X Nat
  BY <1>1 DEF Sequencers, At
<1>3. EndFrame \in Nat
  BY <1>2 DEF EndFrame, TickLength
<1>4. EndReason \in Ends \cup {"Stopped", "TickLimit"}
  BY DEF EndReason, Announces
<1> QED BY <1>2, <1>3, <1>4

LEMMA ScanTickTyped == ASSUME TypeInv, ScanTick PROVE TypeInv'
<1>1. /\ IsSong(song) /\ Good(seq) /\ timeline \in OrNone(Timelines) /\ seq' = Dispatch(seq) /\ song' = song
      /\ ticks' = ticks + 1 /\ UNCHANGED <<phase, timeline, edits, pass>>
  BY SongsAssumption DEF TypeInv, ScanTick
<1>2. Good(Dispatch(seq))
  BY <1>1, DispatchTyped
<1>3. Good(seq)'
  BY <1>1, <1>2, SameSong
<1>4. Marks' = Marks
  BY <1>1 DEF Marks
<1> DEFINE v == Dispatch(seq).visit
<1>5. found' = found \/ (v # None /\ found' = found \cup {Mark(v)})
  BY <1>1 DEF ScanTick
<1>6. v # None => v = Noted(seq) /\ v \in Visits
  BY <1>1, DispatchNotes, DispatchAnnounces
<1>7. v # None => Mark(v) \in RowMarks /\ Playable(Mark(v).order)
  <2>1. v # None => v.order = seq.order
    BY <1>6 DEF Noted
  <2>2. Playable(seq.order)
    BY <1>1 DEF Good, Placed, Playable, Sequencers
  <2> HIDE DEF v
  <2> QED BY <1>6, <2>1, <2>2 DEF Mark, Visits, RowMarks
<1> HIDE DEF v
<1>8. found' \subseteq RowMarks /\ \A m \in found' \cup Marks' : Playable(m.order)
  BY <1>4, <1>5, <1>7 DEF TypeInv
<1>9. \A m \in found' \cup Marks' : Playable(m.order)'
  BY <1>1, <1>8, SameSong
<1> QED BY <1>1, <1>3, <1>8, <1>9 DEF TypeInv

LEMMA InstallTyped == ASSUME TypeInv, Install PROVE TypeInv'
<1>1. /\ song' = song /\ edits' = edits /\ pass' = pass /\ phase' = "play" /\ ticks' = 0 /\ found' = {}
      /\ timeline' = [marks |-> found, end |-> EndReason, at |-> At(seq), endFrame |-> EndFrame]
      /\ EndReason # None /\ phase = "scan" /\ IsSong(song)
  BY SongsAssumption DEF TypeInv, Install
<1>2. timeline' \in Timelines /\ timeline' \in OrNone(Timelines) /\ timeline' # None
  <2>1. timeline' \in Timelines
    BY <1>1, EndsTyped DEF TypeInv, Timelines
  <2> QED BY <2>1 DEF OrNone
<1>3. (timeline \in OrNone(Timelines))' /\ IsSong(song)'
  BY <1>1, <1>2, SameSong DEF OrNone
<1>4. PICK atEnd \in AtEnds : seq' = Loaded(atEnd)'
  BY DEF Install, Loaded
<1>5. Good(seq)'
  BY <1>3, <1>4, LoadedTypedThen
<1>6. Marks' = found
  BY <1>1, <1>2 DEF Marks
<1>7. \A m \in found' \cup Marks' : Playable(m.order)'
  BY <1>1, <1>6, SameSong DEF TypeInv
<1> QED BY <1>1, <1>2, <1>5, <1>7 DEF TypeInv

LEMMA PlayTickTyped == ASSUME TypeInv, PlayTick PROVE TypeInv'
<1>1. /\ IsSong(song) /\ Good(seq) /\ timeline \in OrNone(Timelines) /\ seq' = Dispatch(seq) /\ song' = song
      /\ UNCHANGED <<phase, timeline, ticks, found, edits>> /\ phase = "play"
  BY SongsAssumption DEF TypeInv, PlayTick, Playing
<1>2. Good(seq)'
  BY <1>1, DispatchTyped, SameSong
<1>3. Marks' = Marks
  BY <1>1 DEF Marks
<1>4. \A m \in found' \cup Marks' : Playable(m.order)'
  BY <1>1, <1>3, SameSong DEF TypeInv
<1>5. pass' \in {"first", "moved", "loose", "again", "replaced"}
  BY DEF PlayTick, Began, TypeInv
<1> QED BY <1>1, <1>2, <1>4, <1>5 DEF TypeInv

\* Where a seek goes, there is a row.
LEMMA SeekIsWound ==
    ASSUME TypeInv, SeekOrder \/ SeekFrame
    PROVE  \E order, row : /\ Playable(order) /\ row \in Nat /\ seq' = Wound(seq, order, row)
                           /\ phase = "play" /\ pass' = Began(order, row) /\ edits' = edits + 1
                           /\ UNCHANGED <<song, phase, timeline, ticks, found>>
<1>1. CASE SeekOrder
  <2>1. PICK order \in 0 .. (Len(Orders) - 1) : Resolve(order) # None /\ Seek(Resolve(order), 0)
    BY <1>1 DEF SeekOrder
  <2>2. IsSong(song)
    BY SongsAssumption DEF TypeInv
  <2>3. order \in Nat
    BY <2>2, TheSong
  <2>4. Playable(Resolve(order))
    BY <2>1, <2>2, <2>3, ResolvesToAPattern DEF Playable
  <2> QED BY <2>1, <2>4 DEF Seek, Wound
<1>2. CASE SeekFrame
  <2>1. PICK m \in Marks : Seek(m.order, m.row)
    BY <1>2 DEF SeekFrame
  <2>2. m \in RowMarks /\ Playable(m.order)
    <3>1. Marks \subseteq RowMarks
      BY DEF TypeInv, Marks, OrNone, Timelines
    <3> QED BY <3>1 DEF TypeInv
  <2>3. m.row \in Nat
    BY <2>2 DEF RowMarks
  <2> QED BY <2>1, <2>2, <2>3 DEF Seek, Wound
<1> QED BY <1>1, <1>2

LEMMA SeekTyped == ASSUME TypeInv, SeekOrder \/ SeekFrame PROVE TypeInv'
<1>1. PICK order, row : /\ Playable(order) /\ row \in Nat /\ seq' = Wound(seq, order, row)
                           /\ phase = "play" /\ pass' = Began(order, row) /\ edits' = edits + 1
                           /\ UNCHANGED <<song, phase, timeline, ticks, found>>
  BY SeekIsWound
<1>2. IsSong(song) /\ timeline \in OrNone(Timelines) /\ Good(seq)
  BY SongsAssumption DEF TypeInv
<1>3. Good(seq)'
  BY <1>1, <1>2, WoundTyped, SameSong
<1>4. Marks' = Marks /\ song' = song
  BY <1>1 DEF Marks
<1>5. \A m \in found' \cup Marks' : Playable(m.order)'
  BY <1>1, <1>4, SameSong DEF TypeInv
<1>6. pass' \in {"first", "moved", "loose", "again", "replaced"}
  BY <1>1 DEF Began
<1> QED BY <1>1, <1>3, <1>5, <1>6 DEF TypeInv

LEMMA OthersTyped == ASSUME TypeInv, SetAtEnd \/ Replace \/ UNCHANGED vars PROVE TypeInv'
<1>0. IsSong(song) /\ timeline \in OrNone(Timelines) /\ Good(seq) /\ seq \in Sequencers
  BY SongsAssumption DEF TypeInv, Good
<1>1. UNCHANGED <<song, phase, timeline, ticks, found>>
  BY DEF SetAtEnd, Replace, vars
<1>2. Marks' = Marks /\ song' = song
  BY <1>1 DEF Marks
<1>3. \A m \in found' \cup Marks' : Playable(m.order)'
  BY <1>1, <1>2, SameSong DEF TypeInv
<1>4. Good(seq)'
  <2>1. CASE SetAtEnd
    <3>1. PICK atEnd \in AtEnds : seq' = [seq EXCEPT !.atEnd = atEnd]
      BY <2>1 DEF SetAtEnd
    <3> DEFINE r == [seq EXCEPT !.atEnd = atEnd]
    <3>2. r \in Sequencers
      BY <1>0 DEF Sequencers
    <3>3. r.order = seq.order /\ r.row = seq.row
      BY <1>0 DEF Sequencers
    <3>4. seq' = r
      BY <3>1
    <3> HIDE DEF r
    <3>5. Good(r)
      BY <1>0, <3>2, <3>3, PlacedAlike DEF Good
    <3> QED BY <1>2, <3>4, <3>5, SameSong
  <2>2. CASE Replace
    <3>1. PICK paused \in BOOLEAN : seq' = Restored(seq, paused)
      BY <2>2 DEF Replace
    <3>2. Good(Restored(seq, paused))
      BY <1>0, <2>2, RestoredTyped DEF Replace
    <3> QED BY <1>2, <3>1, <3>2, SameSong
  <2>3. CASE UNCHANGED vars
    <3>1. seq' = seq
      BY <2>3 DEF vars
    <3> QED BY <1>0, <1>2, <3>1, SameSong
  <2> QED BY <2>1, <2>2, <2>3
<1>5. edits' \in Nat /\ pass' \in {"first", "moved", "loose", "again", "replaced"}
  BY DEF SetAtEnd, Replace, vars, TypeInv
<1>6. phase = "scan" => pass' = "first"
  BY DEF SetAtEnd, Replace, Playing, vars, TypeInv
<1> QED BY <1>1, <1>3, <1>4, <1>5, <1>6 DEF TypeInv

LEMMA TypeInit == Init => TypeInv
<1> SUFFICES ASSUME Init PROVE TypeInv
  OBVIOUS
<1>1. IsSong(song)
  BY SongsAssumption DEF Init
<1>2. Good(seq)
  BY <1>1, NewSequencerTyped DEF Init, AtEnds
<1>3. Marks = {} /\ timeline \in OrNone(Timelines)
  BY DEF Init, Marks, OrNone
<1> QED BY <1>2, <1>3 DEF Init, TypeInv

\* Whatever song is loaded and whatever is done to it, the sequencer stands at a row that
\* is there, its speed is a byte and its clock is a number (PatternSequencer, RowClock).
THEOREM TypeCorrect == Spec => []TypeInv
<1>1. TypeInv /\ [Next]_vars => TypeInv'
  BY ScanTickTyped, InstallTyped, PlayTickTyped, SeekTyped, OthersTyped DEF Next
<1> QED BY <1>1, TypeInit, PTL DEF Spec

-----------------------------------------------------------------------------
(* 4. A tick of the scan is the same at every time: it does not depend on the timeline. *)

LEMMA SameReading ==
    ASSUME song' = song
    PROVE  /\ Orders' = Orders /\ Channels' = Channels /\ FreshFlow' = FreshFlow
           /\ \A o : Pattern(o)' = Pattern(o) /\ Resolve(o)' = Resolve(o)
           /\ \A p : RowsIn(p)' = RowsIn(p)
           /\ \A p, row : ClampedRow(p, row)' = ClampedRow(p, row)
           /\ \A flag : Has(flag)' <=> Has(flag)
<1>1. Orders' = Orders /\ Channels' = Channels
  BY DEF Orders, Channels
<1>2. FreshFlow' = FreshFlow
  BY <1>1 DEF FreshFlow
<1>3. \A o : Pattern(o)' = Pattern(o) /\ Resolve(o)' = Resolve(o)
  BY <1>1 DEF Pattern, Resolve
<1>4. \A p : RowsIn(p)' = RowsIn(p)
  BY DEF RowsIn
<1>5. \A p, row : ClampedRow(p, row)' = ClampedRow(p, row)
  BY <1>4 DEF ClampedRow
<1>6. \A flag : Has(flag)' <=> Has(flag)
  BY DEF Has
<1> QED BY <1>1, <1>2, <1>3, <1>4, <1>5, <1>6

LEMMA SameEffect ==
    ASSUME song' = song, NEW c, NEW ch, NEW row, NEW cell
    PROVE  Effect(c, ch, row, cell)' = Effect(c, ch, row, cell)
<1>0. \A flag : Has(flag)' <=> Has(flag)
  BY SameReading
<1>1. \A d : Start(d, ch)' = Start(d, ch) /\ Count(d, ch)' = Count(d, ch)
  BY <1>0 DEF Start, Count
<1>2. \A d, n : SetStart(d, ch, n)' = SetStart(d, ch, n) /\ SetCount(d, ch, n)' = SetCount(d, ch, n)
  BY <1>0 DEF SetStart, SetCount
<1>3. \A d : Looped(d, ch)' = Looped(d, ch)
  <2> TAKE x
  <2> DEFINE d == [x EXCEPT !.dest = Start(x, ch)]
             unset == \/ Has("unsetBreak") /\ d.jumpOrder = None
                      \/ Has("unsetJump") /\ d.jumpOrder # None
             row1 == IF Has("sharedBreak") /\ d.break THEN d.dest ELSE d.jumpRow
             break == d.break /\ ~unset
             order == IF d.break /\ Has("unsetJump") THEN None ELSE d.jumpOrder
  <2>1. d' = d
    BY <1>1
  <2>2. Looped(x, ch) = [d EXCEPT !.jumpRow = row1, !.break = break, !.jumpOrder = order]
    BY DEF Looped
  <2>3. Looped(x, ch)' = [d' EXCEPT !.jumpRow = row1', !.break = break', !.jumpOrder = order']
    BY DEF Looped
  <2> HIDE DEF d
  <2>4. row1' = row1
    BY <1>0, <2>1
  <2>5. order' = order
    BY <1>0, <2>1
  <2>6. break' = break
    <3>1. unset' <=> unset
      BY <1>0, <2>1
    <3> HIDE DEF unset
    <3> QED BY <2>1, <3>1
  <2> HIDE DEF row1, break, order
  <2> QED BY <2>1, <2>2, <2>3, <2>4, <2>5, <2>6
<1>4. \A d : MarkTarget(d, ch, row)' = MarkTarget(d, ch, row)
  BY <1>0, <1>1, <1>2 DEF MarkTarget
<1>5. \A d : EndLoop(d, ch, row)' = EndLoop(d, ch, row)
  BY <1>0, <1>2 DEF EndLoop
<1>6. Channels' = Channels
  BY SameReading
<1>7. PatternLoop(c, ch, row, cell.arg)' = PatternLoop(c, ch, row, cell.arg)
  <2> DEFINE n == cell.arg
             d == [c EXCEPT !.seen = TRUE]
             row1 == IF Has("initSameRow") THEN row ELSE 0
             e == IF Has("globalTarget") /\ d.flow.globalTarget = None THEN SetStart(d, ch, row1) ELSE d
             another == \E o \in Channels \ {ch} : e.flow.count[o] # 0
             body == IF Has("firstEffectOnly") /\ c.seen THEN c
                     ELSE IF n = 0 THEN MarkTarget(d, ch, row)
                     ELSE IF Count(e, ch) = 0
                          THEN IF Has("oneAtATime") /\ another THEN e ELSE Looped(SetCount(e, ch, n), ch)
                     ELSE IF Count(e, ch) = 1 THEN EndLoop(e, ch, row)
                     ELSE Looped(SetCount(e, ch, Count(e, ch) - 1), ch)
  <2>1. row1' = row1
    BY <1>0
  <2>2. e' = e
    <3>1. SetStart(d, ch, row1)' = SetStart(d, ch, row1)
      <4>1. d' = d
        OBVIOUS
      <4> HIDE DEF d, row1
      <4> QED BY <1>2, <2>1, <4>1
    <3> HIDE DEF d, row1
    <3> QED BY <1>0, <3>1
  <2>3. another' <=> another
    <3> HIDE DEF e
    <3> QED BY <1>6, <2>2
  <2> HIDE DEF d, e, another, n
  <2>4. MarkTarget(d, ch, row)' = MarkTarget(d, ch, row)
    BY <1>4 DEF d
  <2>5. Count(e, ch)' = Count(e, ch) /\ EndLoop(e, ch, row)' = EndLoop(e, ch, row)
    BY <1>1, <1>5, <2>2
  <2>6. \A k : Looped(SetCount(e, ch, k), ch)' = Looped(SetCount(e, ch, k), ch)
    BY <1>2, <1>3, <2>2
  <2>7. n' = n
    BY DEF n
  <2>8. body' = body
    BY <1>0, <2>2, <2>3, <2>4, <2>5, <2>6, <2>7
  <2>9. PatternLoop(c, ch, row, n) = body
    BY DEF PatternLoop, d, e, another
  <2>10. PatternLoop(c, ch, row, n)' = body'
    BY <2>7 DEF PatternLoop, d, e, another
  <2> HIDE DEF body
  <2> QED BY <2>7, <2>8, <2>9, <2>10 DEF n
<1>8. PatternJump(c, cell.arg)' = PatternJump(c, cell.arg)
  BY <1>0 DEF PatternJump
<1>9. PatternBreak(c, cell.arg)' = PatternBreak(c, cell.arg)
  BY <1>0 DEF PatternBreak
<1>10. PatternDelay(c, cell.arg)' = PatternDelay(c, cell.arg)
  BY <1>0 DEF PatternDelay
<1> QED BY <1>7, <1>8, <1>9, <1>10 DEF Effect

LEMMA PerformedSoFarThen ==
    (song.channels \in Nat =>
       \A order, row, start :
         \E f : /\ f[0] = start /\ Performed(order, row, start) = f[song.channels]
                /\ \A ch \in Channels :
                     f[ch] = Effect(f[ch - 1], ch, row, song.cells[Pattern(order)][row + 1][ch]))'
<1>1. song.channels \in Nat =>
       \A order, row, start :
         \E f : /\ f[0] = start /\ Performed(order, row, start) = f[song.channels]
                /\ \A ch \in Channels :
                     f[ch] = Effect(f[ch - 1], ch, row, song.cells[Pattern(order)][row + 1][ch])
  BY PerformedSoFar
<1> QED BY <1>1, PTL

LEMMA SamePerformed ==
    ASSUME song' = song, song.channels \in Nat, NEW order, NEW row, NEW start
    PROVE  Performed(order, row, start)' = Performed(order, row, start)
<1> DEFINE cells == song.cells[Pattern(order)][row + 1]
<1>1. PICK f : /\ f[0] = start /\ Performed(order, row, start) = f[song.channels]
               /\ \A ch \in Channels : f[ch] = Effect(f[ch - 1], ch, row, cells[ch])
  BY PerformedSoFar
<1>2. Channels' = Channels /\ Pattern(order)' = Pattern(order)
  BY SameReading
<1>3. \E g : /\ g[0] = start /\ Performed(order, row, start)' = g[song.channels]
             /\ \A ch \in Channels : g[ch] = Effect(g[ch - 1], ch, row, cells[ch])'
  <2>1. \E g : /\ g[0] = start /\ Performed(order, row, start)' = g[song'.channels]
             /\ \A ch \in Channels' : g[ch] = Effect(g[ch - 1], ch, row, cells[ch])'
    BY PerformedSoFarThen
  <2> QED BY <1>2, <2>1
<1>4. PICK g : /\ g[0] = start /\ Performed(order, row, start)' = g[song.channels]
             /\ \A ch \in Channels : g[ch] = Effect(g[ch - 1], ch, row, cells[ch])'
  BY <1>3
<1>5. \A ch \in Channels : g[ch] = Effect(g[ch - 1], ch, row, cells[ch])
  <2>1. cells' = cells
    BY <1>2
  <2> HIDE DEF cells
  <2> QED BY <1>4, <2>1, SameEffect
<1> DEFINE S == {k \in Nat : g[k] = f[k]}
<1>6. 0 \in S
  BY <1>1, <1>4
<1>7. ASSUME NEW k \in 0 .. song.channels, k \in S, k # song.channels PROVE k + 1 \in S
  <2>1. k + 1 \in Channels /\ k + 1 \in Nat /\ (k + 1) - 1 = k
    BY <1>7 DEF Channels
  <2> HIDE DEF cells
  <2>2. f[k + 1] = Effect(f[k], k + 1, row, cells[k + 1])
    BY <1>1, <2>1
  <2>3. g[k + 1] = Effect(g[k], k + 1, row, cells[k + 1])
    BY <1>5, <2>1
  <2> QED BY <1>7, <2>1, <2>2, <2>3
<1>8. song.channels \in S
  <2> HIDE DEF S
  <2> QED BY <1>6, <1>7, Onwards
<1> QED BY <1>1, <1>4, <1>8

LEMMA SameRunTick ==
    ASSUME song' = song, song.channels \in Nat, NEW q
    PROVE  RunTick(q)' = RunTick(q)
<1>1. \A flag : Has(flag)' <=> Has(flag)
  BY SameReading
<1>2. \A o, p : Pattern(o)' = Pattern(o) /\ RowsIn(p)' = RowsIn(p)
  BY SameReading
<1>3. \A flow : PositionChanged(flow)' = PositionChanged(flow)
  <2>1. FreshFlow' = FreshFlow
    BY SameReading
  <2> QED BY <1>1, <2>1 DEF PositionChanged
<1>4. \A c, jump : DelayedBreak(q, c, jump)' = DelayedBreak(q, c, jump)
  BY <1>1, <1>2 DEF DelayedBreak
<1>5. ASSUME NEW flow PROVE RowEffects(q, flow)' = RowEffects(q, flow)
  <2> DEFINE c == Performed(q.order, q.row, RowStart(q, flow))
  <2>1. c' = c
    BY SamePerformed
  <2>2. RowEffects(q, flow) = [out |-> [speed |-> c.speed, delay |-> c.delay, stop |-> c.stop,
                                        jump |-> DelayedBreak(q, c, ChosenJump(c))],
                               flow |-> c.flow]
    BY DEF RowEffects
  <2>3. RowEffects(q, flow)' = [out |-> [speed |-> c'.speed, delay |-> c'.delay, stop |-> c'.stop,
                                        jump |-> DelayedBreak(q, c, ChosenJump(c))'],
                               flow |-> c'.flow]
    BY DEF RowEffects
  <2>4. DelayedBreak(q, c, ChosenJump(c))' = DelayedBreak(q, c, ChosenJump(c))
    <3> DEFINE jump == ChosenJump(c)
    <3>1. jump' = jump
      BY <2>1 DEF ChosenJump
    <3> HIDE DEF c, jump
    <3> QED BY <1>4, <2>1, <3>1 DEF jump
  <2> HIDE DEF c
  <2> QED BY <2>1, <2>2, <2>3, <2>4
<1> QED BY <1>1, <1>2, <1>3, <1>5 DEF RunTick

LEMMA SameMove ==
    ASSUME song' = song, NEW q, Good(q), q.atEnd = "Stop", NEW order, NEW row
    PROVE  MoveToOrder(q, order, row)' = MoveToOrder(q, order, row)
<1> DEFINE wrapped == [q EXCEPT !.arrival = "Wrapped"]
           at == IF song.policy = "WrapKeepingBreakRow" THEN row ELSE 0
<1>1. \A o, p : Pattern(o)' = Pattern(o) /\ Resolve(o)' = Resolve(o) /\ ClampedRow(p, o)' = ClampedRow(p, o)
  BY SameReading
<1>2. \A p, o, r : SetPosition(p, o, r)' = SetPosition(p, o, r)
  <2> TAKE p, o, r
  <2>1. ClampedRow(Pattern(o), r)' = ClampedRow(Pattern(o), r)
    BY <1>1
  <2> QED BY <2>1 DEF SetPosition, StartRow
<1>3. EndNaturally(q)' = EndNaturally(q)
  BY DEF EndNaturally, Restarts
<1>4. at' = at /\ Resolve(order)' = Resolve(order) /\ Resolve(song.restart)' = Resolve(song.restart)
  BY <1>1
<1>5. SetPosition(wrapped, Resolve(song.restart), at)' = SetPosition(wrapped, Resolve(song.restart), at)
  <2>1. wrapped' = wrapped
    OBVIOUS
  <2> HIDE DEF wrapped, at
  <2> QED BY <1>2, <1>4, <2>1
<1>6. SetPosition(q, Resolve(order), row)' = SetPosition(q, Resolve(order), row)
  BY <1>2, <1>4
<1>7. MoveToOrder(q, order, row) =
        CASE Resolve(order) # None -> SetPosition(q, Resolve(order), row)
          [] Resolve(order) = None /\ song.policy # "Stop" /\ Resolve(song.restart) # None ->
               SetPosition(wrapped, Resolve(song.restart), at)
          [] OTHER -> EndNaturally(q)
  BY DEF MoveToOrder
<1>8. MoveToOrder(q, order, row)' =
        CASE Resolve(order)' # None -> SetPosition(q, Resolve(order), row)'
          [] Resolve(order)' = None /\ song'.policy # "Stop" /\ Resolve(song.restart)' # None ->
               SetPosition(wrapped, Resolve(song.restart), at)'
          [] OTHER -> EndNaturally(q)'
  BY DEF MoveToOrder
<1> HIDE DEF wrapped, at
<1> QED BY <1>3, <1>4, <1>5, <1>6, <1>7, <1>8

LEMMA SameNextRow ==
    ASSUME song' = song, NEW q, Good(q), q.atEnd = "Stop", NEW jump
    PROVE  BeginNextRow(q, jump)' = BeginNextRow(q, jump)
<1> DEFINE a(v) == [q EXCEPT !.arrival = v]
           order == IF jump.order = None THEN q.order + 1 ELSE jump.order
<1>0. q \in Sequencers
  BY DEF Good
<1>1. \A p, o, r : Pattern(o)' = Pattern(o) /\ RowsIn(p)' = RowsIn(p) /\ ClampedRow(p, r)' = ClampedRow(p, r)
  BY SameReading
<1>2. ASSUME NEW v \in {"Jump", "NextOrder"} PROVE Good(a(v)) /\ a(v).atEnd = "Stop"
  <2> DEFINE r == a(v)
  <2>1. r \in Sequencers
    BY <1>0 DEF Sequencers
  <2>2. r.order = q.order /\ r.row = q.row /\ r.atEnd = q.atEnd
    BY <1>0 DEF Sequencers
  <2> HIDE DEF r
  <2>3. Good(r) /\ r.atEnd = "Stop"
    BY <2>1, <2>2, PlacedAlike DEF Good
  <2> QED BY <2>3 DEF r
<1>3. MoveToOrder(a("Jump"), order, jump.row)' = MoveToOrder(a("Jump"), order, jump.row)
  <2> DEFINE r == a("Jump")
  <2>1. Good(r) /\ r.atEnd = "Stop"
    BY <1>2
  <2>2. r' = r /\ order' = order
    OBVIOUS
  <2> HIDE DEF r, order
  <2>3. MoveToOrder(r, order, jump.row)' = MoveToOrder(r, order, jump.row)
    BY <2>1, <2>2, SameMove
  <2> QED BY <2>3 DEF r, order
<1>4. MoveToOrder(a("NextOrder"), q.order + 1, 0)' = MoveToOrder(a("NextOrder"), q.order + 1, 0)
  <2> DEFINE r == a("NextOrder")
  <2>1. Good(r) /\ r.atEnd = "Stop"
    BY <1>2
  <2>2. r' = r
    OBVIOUS
  <2> HIDE DEF r
  <2>3. MoveToOrder(r, q.order + 1, 0)' = MoveToOrder(r, q.order + 1, 0)
    BY <2>1, <2>2, SameMove
  <2> QED BY <2>3 DEF r
<1>5. ClampedRow(Pattern(q.order), jump.row)' = ClampedRow(Pattern(q.order), jump.row)
      /\ RowsIn(Pattern(q.order))' = RowsIn(Pattern(q.order))
  BY <1>1
<1> DEFINE within == StartRow([q EXCEPT !.row = ClampedRow(Pattern(q.order), jump.row), !.arrival = "PatternLoop"], q.speed)
           next == StartRow([q EXCEPT !.row = @ + 1, !.arrival = "Sequential"], q.speed)
           jumped == MoveToOrder(a("Jump"), order, jump.row)
           moved == MoveToOrder(a("NextOrder"), q.order + 1, 0)
           more == q.row + 1 < RowsIn(Pattern(q.order))
<1>6. within' = within /\ next' = next
  BY <1>5 DEF StartRow
<1>7. more' <=> more
  BY <1>5
<1>8. BeginNextRow(q, jump) = CASE jump # None /\ jump.within -> within
                                [] jump # None /\ ~jump.within -> jumped
                                [] jump = None /\ more -> next
                                [] OTHER -> moved
  BY DEF BeginNextRow
<1>9. BeginNextRow(q, jump)' = CASE jump # None /\ jump.within -> within'
                                [] jump # None /\ ~jump.within -> jumped'
                                [] jump = None /\ more' -> next'
                                [] OTHER -> moved'
  BY DEF BeginNextRow
<1>10. jumped' = jumped /\ moved' = moved
  BY <1>3, <1>4
<1> HIDE DEF within, next, jumped, moved, more
<1> QED BY <1>6, <1>7, <1>8, <1>9, <1>10

LEMMA SameCommit ==
    ASSUME song' = song, NEW q, Good(q), q.atEnd = "Stop", NEW out, out \in Outs
    PROVE  Commit(q, out)' = Commit(q, out)
<1> DEFINE t == Timed(q, out)
           n == OneOn(q, out)
           free == [n EXCEPT !.jump = None]
<1>1. Good(t) /\ Good(n) /\ t.atEnd = "Stop" /\ n.atEnd = "Stop"
  <2>1. Good(t) /\ Good(n)
    BY TimedTyped
  <2>2. Goes(t, q)
    BY GoesOn DEF Good
  <2>3. n.atEnd = q.atEnd
    BY OneOnDoes DEF Good
  <2> QED BY <2>1, <2>2, <2>3 DEF Goes
<1>2. t' = t /\ n' = n
  BY DEF Timed, OneOn
<1>3. Commit(q, out) = CASE out.stop -> EndNaturally(t)
                         [] ~out.stop /\ n.tick < TotalTicks(n) -> n
                         [] OTHER -> BeginNextRow(free, n.jump)
  BY CommitIs
<1>4. Commit(q, out)' = CASE out.stop -> EndNaturally(t)'
                         [] ~out.stop /\ n.tick < TotalTicks(n) -> n
                         [] OTHER -> BeginNextRow(free, n.jump)'
  BY DEF Commit, Timed, OneOn, TotalTicks
<1> HIDE DEF t, n
<1>5. EndNaturally(t)' = EndNaturally(t)
  BY <1>1, <1>2 DEF EndNaturally, Restarts
<1>6. Good(free) /\ free.atEnd = "Stop"
  <2>1. n \in Sequencers
    BY <1>1 DEF Good
  <2>2. free \in Sequencers
    BY <2>1 DEF Sequencers, OrNone
  <2>3. free.order = n.order /\ free.row = n.row /\ free.atEnd = n.atEnd
    BY <2>1 DEF Sequencers
  <2> HIDE DEF free
  <2> QED BY <1>1, <2>2, <2>3, PlacedAlike DEF Good
<1>7. free' = free
  BY <1>2
<1> HIDE DEF free
<1>8. BeginNextRow(free, n.jump)' = BeginNextRow(free, n.jump)
  <2> DEFINE jump == n.jump
  <2>1. jump' = jump
    BY <1>2
  <2> HIDE DEF jump
  <2>2. BeginNextRow(free, jump)' = BeginNextRow(free, jump)
    BY <1>6, <1>7, <2>1, SameNextRow
  <2> QED BY <2>2 DEF jump
<1> QED BY <1>3, <1>4, <1>5, <1>8

\* A song that stops at its end has no use for the timeline.
LEMMA SameDispatch ==
    ASSUME song' = song, IsSong(song), timeline \in OrNone(Timelines), NEW q, Good(q), q.atEnd = "Stop"
    PROVE  Dispatch(q)' = Dispatch(q)
<1> DEFINE b == Begun(q)
           r == Ran(b)
           out == RunTick(b).out
           z == Quieted(q)
<1>1. Good(b) /\ out \in Outs /\ Good(r) /\ r.atEnd = "Stop"
  <2>1. Good(b) /\ RunTick(b) \in Ticked /\ b.atEnd = "Stop"
    BY BegunTyped, DispatchNotes
  <2> HIDE DEF b
  <2>2. Good(r) /\ r.atEnd = b.atEnd
    BY <2>1, RanTyped, RanKeeps DEF Good
  <2> QED BY <2>1, <2>2 DEF Ticked
<1>2. b' = b
  <2>1. z' = z
    BY DEF Quieted
  <2>2. z.atEnd = "Stop"
    BY QuietedIs
  <2>3. BeginRow(z) = Judged(z)
    BY <2>2, BeginRowIs
  <2>4. BeginRow(z)' = Judged(z)'
    BY <2>1, <2>2 DEF BeginRow, Judged
  <2>5. Judged(z)' = Judged(z)
    <3> HIDE DEF z
    <3> QED BY <2>1 DEF Judged, Arrive, Verdict, At
  <2> QED BY <2>1, <2>3, <2>4, <2>5 DEF Begun
<1>3. RunTick(b)' = RunTick(b)
  <2>1. song.channels \in Nat
    BY TheSong
  <2> HIDE DEF b
  <2> QED BY <1>2, <2>1, SameRunTick
<1> HIDE DEF b
<1>4. r' = r /\ out' = out
  BY <1>2, <1>3 DEF Ran, At
<1> HIDE DEF r, out
<1>5. Commit(r, out)' = Commit(r, out)
  BY <1>1, <1>4, SameCommit
<1>6. Dispatch(q) = IF b.runs THEN Commit(r, out) ELSE [b EXCEPT !.state = "Stopped"]
  BY DispatchIs DEF b, r, out
<1>7. Dispatch(q)' = IF b'.runs THEN Commit(r, out)' ELSE [b' EXCEPT !.state = "Stopped"]
  BY DEF Dispatch, Begun, Quieted, Ran, b, r, out
<1> QED BY <1>2, <1>5, <1>6, <1>7

-----------------------------------------------------------------------------
(* 5. A song that is played from the top does what the scan did. *)

\* All that a tick depends on, but for the end-of-song mode.
Alike(q, p) == /\ q.order = p.order /\ q.row = p.row /\ q.speed = p.speed /\ q.delay = p.delay /\ q.tick = p.tick
               /\ q.jump = p.jump /\ q.arrival = p.arrival /\ q.flow = p.flow /\ q.lastPos = p.lastPos
               /\ q.seen = p.seen /\ q.inside = p.inside /\ q.arrivals = p.arrivals /\ q.armed = p.armed
               /\ q.elapsed = p.elapsed /\ q.due = p.due /\ q.state = p.state /\ q.endReached = p.endReached

\* The one may begin again where the other, which stops at its end, has ended.
AlikeOrAgain(q, p) == \/ Alike(q, p)
                      \/ p.state = "Stopped" /\ q.state = "Ready" /\ q.elapsed = 0

LEMMA StartAlike ==
    ASSUME NEW q \in Sequencers, NEW p \in Sequencers, Alike(q, p)
    PROVE  /\ \A order, row : Alike(SetPosition(q, order, row), SetPosition(p, order, row))
           /\ \A v : Alike([q EXCEPT !.arrival = v], [p EXCEPT !.arrival = v])
           /\ \A v : Alike([q EXCEPT !.jump = v], [p EXCEPT !.jump = v])
           /\ \A row, v : Alike(StartRow([q EXCEPT !.row = row, !.arrival = v], q.speed),
                                StartRow([p EXCEPT !.row = row, !.arrival = v], p.speed))
<1>1. ASSUME NEW v PROVE /\ Alike([q EXCEPT !.arrival = v], [p EXCEPT !.arrival = v])
                         /\ Alike([q EXCEPT !.jump = v], [p EXCEPT !.jump = v])
  BY DEF Alike, Sequencers
<1>2. ASSUME NEW row, NEW v PROVE Alike(StartRow([q EXCEPT !.row = row, !.arrival = v], q.speed),
                                        StartRow([p EXCEPT !.row = row, !.arrival = v], p.speed))
  <2> DEFINE a == [q EXCEPT !.row = row, !.arrival = v]
             b == [p EXCEPT !.row = row, !.arrival = v]
             r == StartRow(a, q.speed)
             s == StartRow(b, p.speed)
  <2>1. r = [a EXCEPT !.speed = q.speed, !.delay = 0, !.tick = 0] /\ s = [b EXCEPT !.speed = p.speed, !.delay = 0, !.tick = 0]
    BY DEF StartRow
  <2> HIDE DEF r, s
  <2>2. Alike(r, s)
    BY <2>1 DEF Alike, Sequencers
  <2> QED BY <2>2 DEF r, s
<1>3. ASSUME NEW order, NEW row PROVE Alike(SetPosition(q, order, row), SetPosition(p, order, row))
  <2> DEFINE clamped == ClampedRow(Pattern(order), row)
             a == [q EXCEPT !.order = order, !.row = clamped]
             b == [p EXCEPT !.order = order, !.row = clamped]
             r == SetPosition(q, order, row)
             s == SetPosition(p, order, row)
  <2>1. r = [a EXCEPT !.speed = q.speed, !.delay = 0, !.tick = 0] /\ s = [b EXCEPT !.speed = p.speed, !.delay = 0, !.tick = 0]
    BY DEF SetPosition, StartRow
  <2> HIDE DEF clamped, r, s
  <2>2. Alike(r, s)
    BY <2>1 DEF Alike, Sequencers
  <2> QED BY <2>2 DEF r, s
<1> QED BY <1>1, <1>2, <1>3

LEMMA EndsAlike ==
    ASSUME NEW q, Good(q), NEW p, Good(p), Alike(q, p), p.atEnd = "Stop"
    PROVE  AlikeOrAgain(EndNaturally(q), EndNaturally(p))
<1> DEFINE r == EndNaturally(q)
           s == EndNaturally(p)
<1>0. q \in Sequencers /\ p \in Sequencers
  BY DEF Good
<1>1. ~Restarts(p)
  BY DEF Restarts
<1>2. s = [p EXCEPT !.endReached = TRUE, !.state = "Stopped"]
  BY <1>1, EndNaturallyDoes
<1>3. CASE Restarts(q)
  <2>1. r.elapsed = 0 /\ r.state = "Ready"
    BY <1>3, EndNaturallyDoes
  <2> HIDE DEF r, s
  <2>2. s.state = "Stopped"
    BY <1>0, <1>2 DEF Sequencers
  <2> QED BY <2>1, <2>2 DEF AlikeOrAgain, r, s
<1>4. CASE ~Restarts(q)
  <2>1. r = [q EXCEPT !.endReached = TRUE, !.state = "Stopped"]
    BY <1>4, EndNaturallyDoes
  <2> HIDE DEF r, s
  <2>2. Alike(r, s)
    BY <1>0, <1>2, <2>1 DEF Alike, Sequencers
  <2> QED BY <2>2 DEF AlikeOrAgain, r, s
<1> QED BY <1>3, <1>4

LEMMA MovesAlike ==
    ASSUME NEW q, Good(q), NEW p, Good(p), Alike(q, p), p.atEnd = "Stop", NEW order, NEW row
    PROVE  AlikeOrAgain(MoveToOrder(q, order, row), MoveToOrder(p, order, row))
<1>0. q \in Sequencers /\ p \in Sequencers
  BY DEF Good
<1>1. CASE Resolve(order) # None
  <2>1. Alike(SetPosition(q, Resolve(order), row), SetPosition(p, Resolve(order), row))
    BY <1>0, StartAlike
  <2> QED BY <1>1, <2>1 DEF MoveToOrder, AlikeOrAgain
<1>2. CASE Resolve(order) = None /\ song.policy # "Stop" /\ Resolve(song.restart) # None
  <2> DEFINE a == [q EXCEPT !.arrival = "Wrapped"]
             b == [p EXCEPT !.arrival = "Wrapped"]
             at == IF song.policy = "WrapKeepingBreakRow" THEN row ELSE 0
  <2>1. a \in Sequencers /\ b \in Sequencers
    BY <1>0 DEF Sequencers
  <2>2. Alike(a, b)
    BY <1>0, StartAlike
  <2> HIDE DEF a, b, at
  <2>3. Alike(SetPosition(a, Resolve(song.restart), at), SetPosition(b, Resolve(song.restart), at))
    BY <2>1, <2>2, StartAlike
  <2>4. /\ MoveToOrder(q, order, row) = SetPosition(a, Resolve(song.restart), at)
        /\ MoveToOrder(p, order, row) = SetPosition(b, Resolve(song.restart), at)
    BY <1>2 DEF MoveToOrder, a, b, at
  <2> QED BY <2>3, <2>4 DEF AlikeOrAgain
<1>3. CASE Resolve(order) = None /\ ~(song.policy # "Stop" /\ Resolve(song.restart) # None)
  <2>1. MoveToOrder(q, order, row) = EndNaturally(q) /\ MoveToOrder(p, order, row) = EndNaturally(p)
    BY <1>3 DEF MoveToOrder
  <2> QED BY <2>1, EndsAlike
<1> QED BY <1>1, <1>2, <1>3

LEMMA NextRowsAlike ==
    ASSUME NEW q, Good(q), NEW p, Good(p), Alike(q, p), p.atEnd = "Stop", NEW jump \in OrNone(Jumps)
    PROVE  AlikeOrAgain(BeginNextRow(q, jump), BeginNextRow(p, jump))
<1>0. q \in Sequencers /\ p \in Sequencers /\ q.order = p.order /\ q.row = p.row
  BY DEF Good, Alike
<1>1. CASE jump # None /\ jump.within
  <2> DEFINE row == ClampedRow(Pattern(q.order), jump.row)
  <2>1. /\ BeginNextRow(q, jump) = StartRow([q EXCEPT !.row = row, !.arrival = "PatternLoop"], q.speed)
        /\ BeginNextRow(p, jump) = StartRow([p EXCEPT !.row = row, !.arrival = "PatternLoop"], p.speed)
    BY <1>0, <1>1 DEF BeginNextRow
  <2>2. Alike(StartRow([q EXCEPT !.row = row, !.arrival = "PatternLoop"], q.speed),
              StartRow([p EXCEPT !.row = row, !.arrival = "PatternLoop"], p.speed))
    <3> HIDE DEF row
    <3> QED BY <1>0, StartAlike
  <2> QED BY <2>1, <2>2 DEF AlikeOrAgain
<1>2. ASSUME NEW v \in {"Jump", "NextOrder"}, NEW x, Good(x)
      PROVE  Good([x EXCEPT !.arrival = v]) /\ [x EXCEPT !.arrival = v].atEnd = x.atEnd
  <2> DEFINE r == [x EXCEPT !.arrival = v]
  <2>1. r \in Sequencers
    BY <1>2 DEF Good, Sequencers
  <2>2. r.order = x.order /\ r.row = x.row /\ r.atEnd = x.atEnd
    BY <1>2 DEF Good, Sequencers
  <2> HIDE DEF r
  <2>3. Good(r) /\ r.atEnd = x.atEnd
    BY <1>2, <2>1, <2>2, PlacedAlike DEF Good
  <2> QED BY <2>3 DEF r
<1>3. CASE jump # None /\ ~jump.within
  <2> DEFINE a == [q EXCEPT !.arrival = "Jump"]
             b == [p EXCEPT !.arrival = "Jump"]
             order == IF jump.order = None THEN q.order + 1 ELSE jump.order
  <2>1. Good(a) /\ Good(b) /\ b.atEnd = "Stop"
    BY <1>2
  <2>2. Alike(a, b)
    BY <1>0, StartAlike
  <2>3. BeginNextRow(q, jump) = MoveToOrder(a, order, jump.row) /\ BeginNextRow(p, jump) = MoveToOrder(b, order, jump.row)
    BY <1>0, <1>3 DEF BeginNextRow
  <2> HIDE DEF a, b, order
  <2> QED BY <2>1, <2>2, <2>3, MovesAlike
<1>4. CASE jump = None /\ q.row + 1 < RowsIn(Pattern(q.order))
  <2> DEFINE row == q.row + 1
  <2>1. /\ BeginNextRow(q, jump) = StartRow([q EXCEPT !.row = row, !.arrival = "Sequential"], q.speed)
        /\ BeginNextRow(p, jump) = StartRow([p EXCEPT !.row = row, !.arrival = "Sequential"], p.speed)
    <3>1. [q EXCEPT !.row = @ + 1, !.arrival = "Sequential"] = [q EXCEPT !.row = row, !.arrival = "Sequential"]
          /\ [p EXCEPT !.row = @ + 1, !.arrival = "Sequential"] = [p EXCEPT !.row = row, !.arrival = "Sequential"]
      BY <1>0
    <3> HIDE DEF row
    <3> QED BY <1>0, <1>4, <3>1 DEF BeginNextRow
  <2>2. Alike(StartRow([q EXCEPT !.row = row, !.arrival = "Sequential"], q.speed),
              StartRow([p EXCEPT !.row = row, !.arrival = "Sequential"], p.speed))
    <3> HIDE DEF row
    <3> QED BY <1>0, StartAlike
  <2> QED BY <2>1, <2>2 DEF AlikeOrAgain
<1>5. CASE jump = None /\ ~(q.row + 1 < RowsIn(Pattern(q.order)))
  <2> DEFINE a == [q EXCEPT !.arrival = "NextOrder"]
             b == [p EXCEPT !.arrival = "NextOrder"]
  <2>1. Good(a) /\ Good(b) /\ b.atEnd = "Stop"
    BY <1>2
  <2>2. Alike(a, b)
    BY <1>0, StartAlike
  <2>3. BeginNextRow(q, jump) = MoveToOrder(a, q.order + 1, 0) /\ BeginNextRow(p, jump) = MoveToOrder(b, q.order + 1, 0)
    BY <1>0, <1>5 DEF BeginNextRow
  <2> HIDE DEF a, b
  <2> QED BY <2>1, <2>2, <2>3, MovesAlike
<1>6. jump # None => jump.within \in BOOLEAN
  BY DEF OrNone, Jumps
<1> QED BY <1>1, <1>3, <1>4, <1>5, <1>6

LEMMA CommitsAlike ==
    ASSUME NEW q, Good(q), NEW p, Good(p), Alike(q, p), p.atEnd = "Stop", NEW out \in Outs
    PROVE  AlikeOrAgain(Commit(q, out), Commit(p, out))
<1> DEFINE t(x) == Timed(x, out)
           n(x) == OneOn(x, out)
           free(x) == [n(x) EXCEPT !.jump = None]
<1>0. q \in Sequencers /\ p \in Sequencers
  BY DEF Good
<1>1. /\ Good(t(q)) /\ Good(n(q)) /\ Good(t(p)) /\ Good(n(p))
      /\ t(p).atEnd = "Stop" /\ n(p).atEnd = "Stop"
  <2>1. Good(t(q)) /\ Good(n(q)) /\ Good(t(p)) /\ Good(n(p))
    BY TimedTyped
  <2>2. Goes(t(p), p)
    BY <1>0, GoesOn
  <2>3. n(p).atEnd = p.atEnd
    BY <1>0, OneOnDoes
  <2> QED BY <2>1, <2>2, <2>3 DEF Goes
<1>2. Alike(t(q), t(p)) /\ Alike(n(q), n(p))
  <2>1. Alike(t(q), t(p))
    BY <1>0 DEF Timed, Alike, Sequencers
  <2> DEFINE a == t(q)
             b == t(p)
  <2>2. a \in Sequencers /\ b \in Sequencers
    BY <1>1 DEF Good
  <2>3. n(q) = [a EXCEPT !.elapsed = @ + TickLength, !.due = TickLength, !.tick = @ + 1]
        /\ n(p) = [b EXCEPT !.elapsed = @ + TickLength, !.due = TickLength, !.tick = @ + 1]
    BY DEF OneOn
  <2> HIDE DEF a, b
  <2>4. Alike([a EXCEPT !.elapsed = @ + TickLength, !.due = TickLength, !.tick = @ + 1],
              [b EXCEPT !.elapsed = @ + TickLength, !.due = TickLength, !.tick = @ + 1])
    <3>1. Alike(a, b)
      BY <2>1 DEF a, b
    <3> QED BY <2>2, <3>1 DEF Alike, Sequencers
  <2> QED BY <2>1, <2>3, <2>4
<1>3. \A x : Commit(x, out) = CASE out.stop -> EndNaturally(t(x))
                                [] ~out.stop /\ n(x).tick < TotalTicks(n(x)) -> n(x)
                                [] OTHER -> BeginNextRow(free(x), n(x).jump)
  BY CommitIs
<1> DEFINE tq == t(q)
           tp == t(p)
           nq == n(q)
           np == n(p)
           fq == [nq EXCEPT !.jump = None]
           fp == [np EXCEPT !.jump = None]
<1>4. /\ Commit(q, out) = CASE out.stop -> EndNaturally(tq)
                                [] ~out.stop /\ nq.tick < TotalTicks(nq) -> nq
                                [] OTHER -> BeginNextRow(fq, nq.jump)
      /\ Commit(p, out) = CASE out.stop -> EndNaturally(tp)
                                [] ~out.stop /\ np.tick < TotalTicks(np) -> np
                                [] OTHER -> BeginNextRow(fp, np.jump)
  BY <1>3
<1>5. /\ Good(tq) /\ Good(nq) /\ Good(tp) /\ Good(np) /\ tp.atEnd = "Stop" /\ np.atEnd = "Stop"
      /\ Alike(tq, tp) /\ Alike(nq, np)
  BY <1>1, <1>2
<1> HIDE DEF tq, tp, nq, np, t, n
<1>6. nq.tick = np.tick /\ TotalTicks(nq) = TotalTicks(np) /\ nq.jump = np.jump /\ nq.jump \in OrNone(Jumps)
  BY <1>5 DEF Alike, TotalTicks, Good, Sequencers
<1>7. AlikeOrAgain(EndNaturally(tq), EndNaturally(tp))
  BY <1>5, EndsAlike
<1>8. Good(fq) /\ Good(fp) /\ fp.atEnd = "Stop" /\ Alike(fq, fp)
  <2>1. nq \in Sequencers /\ np \in Sequencers
    BY <1>5 DEF Good
  <2>2. fq \in Sequencers /\ fp \in Sequencers
    BY <2>1 DEF Sequencers, OrNone
  <2>3. fq.order = nq.order /\ fq.row = nq.row /\ fp.order = np.order /\ fp.row = np.row /\ fp.atEnd = np.atEnd
    BY <2>1 DEF Sequencers
  <2>4. Alike(fq, fp)
    BY <1>5, <2>1, StartAlike
  <2> HIDE DEF fq, fp
  <2> QED BY <1>5, <2>2, <2>3, <2>4, PlacedAlike DEF Good
<1> HIDE DEF fq, fp
<1>9. AlikeOrAgain(BeginNextRow(fq, nq.jump), BeginNextRow(fp, np.jump))
  BY <1>6, <1>8, NextRowsAlike
<1>10. AlikeOrAgain(nq, np)
  BY <1>5 DEF AlikeOrAgain
<1>11. CASE out.stop
  <2>1. Commit(q, out) = EndNaturally(tq) /\ Commit(p, out) = EndNaturally(tp)
    BY <1>4, <1>11
  <2> QED BY <1>7, <2>1
<1>12. CASE ~out.stop /\ nq.tick < TotalTicks(nq)
  <2>1. Commit(q, out) = nq /\ Commit(p, out) = np
    BY <1>4, <1>6, <1>12
  <2> QED BY <1>10, <2>1
<1>13. CASE ~out.stop /\ ~(nq.tick < TotalTicks(nq))
  <2>1. Commit(q, out) = BeginNextRow(fq, nq.jump) /\ Commit(p, out) = BeginNextRow(fp, np.jump)
    BY <1>4, <1>6, <1>13
  <2> QED BY <1>9, <2>1
<1>14. out.stop \in BOOLEAN
  BY DEF Outs
<1> QED BY <1>11, <1>12, <1>13, <1>14

LEMMA RunTickAlike == ASSUME NEW q, NEW p, Alike(q, p) PROVE RunTick(q) = RunTick(p)
<1>1. /\ q.order = p.order /\ q.row = p.row /\ q.speed = p.speed /\ q.delay = p.delay /\ q.tick = p.tick
      /\ q.flow = p.flow /\ q.lastPos = p.lastPos
  BY DEF Alike
<1>2. Quiet(q) = Quiet(p) /\ FirstOfRepeat(q) = FirstOfRepeat(p)
  BY <1>1 DEF Quiet, FirstOfRepeat
<1>3. \A flow : RowEffects(q, flow) = RowEffects(p, flow)
  <2> TAKE flow
  <2>1. RowStart(q, flow) = RowStart(p, flow)
    BY <1>1 DEF RowStart
  <2>2. \A c, jump : DelayedBreak(q, c, jump) = DelayedBreak(p, c, jump)
    BY <1>1 DEF DelayedBreak
  <2> DEFINE c == Performed(q.order, q.row, RowStart(q, flow))
  <2>3. c = Performed(p.order, p.row, RowStart(p, flow))
    BY <1>1, <2>1
  <2> HIDE DEF c
  <2> QED BY <2>2, <2>3 DEF RowEffects, c
<1> QED BY <1>1, <1>2, <1>3 DEF RunTick

LEMMA BegunAlike ==
    ASSUME NEW q, Good(q), NEW p, Good(p), Alike(q, p), ~p.endReached
    PROVE  /\ Verdict(Arrive(q)) = Verdict(Arrive(p))
           /\ Verdict(Arrive(q)) \notin Ends \/ q.tick # 0 => Alike(Begun(q), Begun(p))
<1> DEFINE a == Quieted(q)
           b == Quieted(p)
<1>1. Good(a) /\ Good(b)
  BY QuietedTyped
<1>2. Alike(a, b) /\ ~a.endReached /\ ~b.endReached
  <2>1. ASSUME NEW x, Good(x)
        PROVE  LET r == Quieted(x) IN
               /\ r.order = x.order /\ r.row = x.row /\ r.speed = x.speed /\ r.delay = x.delay /\ r.tick = x.tick
               /\ r.jump = x.jump /\ r.arrival = x.arrival /\ r.flow = x.flow /\ r.lastPos = x.lastPos
               /\ r.seen = x.seen /\ r.inside = x.inside /\ r.arrivals = x.arrivals /\ r.armed = x.armed
               /\ r.elapsed = x.elapsed /\ r.due = 0 /\ r.state = x.state /\ r.endReached = x.endReached
    BY <2>1, QuietedIs
  <2> HIDE DEF a, b
  <2>2. ~q.endReached
    BY DEF Alike
  <2>3. a.endReached = q.endReached /\ b.endReached = p.endReached /\ a.armed = q.armed /\ b.armed = p.armed
    BY <2>1 DEF a, b
  <2>4. /\ a.order = b.order /\ a.row = b.row /\ a.speed = b.speed /\ a.delay = b.delay /\ a.tick = b.tick
        /\ a.jump = b.jump /\ a.arrival = b.arrival /\ a.flow = b.flow /\ a.lastPos = b.lastPos
        /\ a.seen = b.seen /\ a.inside = b.inside /\ a.arrivals = b.arrivals
        /\ a.elapsed = b.elapsed /\ a.due = b.due /\ a.state = b.state
    BY <2>1 DEF a, b, Alike
  <2>5. a.armed = b.armed /\ a.endReached = b.endReached
    BY <2>3 DEF Alike
  <2>6. Alike(a, b)
    BY <2>4, <2>5 DEF Alike
  <2> QED BY <2>2, <2>3, <2>6
<1>3. Verdict(Arrive(a)) = Verdict(Arrive(q)) /\ Verdict(Arrive(b)) = Verdict(Arrive(p))
  BY QuietedIs
<1>4. a.tick = q.tick /\ b.tick = p.tick /\ q.tick = p.tick
  BY QuietedIs DEF Alike
<1>5. Begun(q) = (IF q.tick = 0 THEN BeginRow(a) ELSE a) /\ Begun(p) = (IF p.tick = 0 THEN BeginRow(b) ELSE b)
  BY DEF Begun
<1> HIDE DEF a, b
<1>6. Arrive(a).inside = Arrive(b).inside /\ Arrive(a).arrivals = Arrive(b).arrivals
  BY <1>1, <1>2 DEF Arrive, Alike, Good, Sequencers
<1>7. Verdict(Arrive(a)) = Verdict(Arrive(b))
  <2>1. /\ Arrive(a).armed = Arrive(b).armed /\ Arrive(a).arrival = Arrive(b).arrival
        /\ Arrive(a).seen = Arrive(b).seen /\ At(Arrive(a)) = At(Arrive(b))
    BY <1>1, <1>2, ArriveKeeps DEF Alike, At
  <2> QED BY <1>6, <2>1 DEF Verdict
<1>8. ASSUME Verdict(Arrive(a)) \notin Ends PROVE Alike(BeginRow(a), BeginRow(b))
  <2>1. BeginRow(a) = Judged(a) /\ BeginRow(b) = Judged(b)
    BY <1>7, <1>8, BeginRowIs
  <2>2. At(a) = At(b)
    BY <1>2 DEF At, Alike
  <2>3. Judged(a).armed = Judged(b).armed
    BY <1>1, <1>2, <1>7, JudgedDoes DEF Alike
  <2>4. Judged(a).endReached = FALSE /\ Judged(b).endReached = FALSE
    <3>1. (Verdict(Arrive(a)) \in Ends \/ (a.endReached /\ a.atEnd # "Continue")) = FALSE
          /\ (Verdict(Arrive(b)) \in Ends \/ (b.endReached /\ b.atEnd # "Continue")) = FALSE
      BY <1>2, <1>7, <1>8
    <3> QED BY <1>1, <3>1, JudgedDoes
  <2> DEFINE r == Judged(a)
             s == Judged(b)
  <2>5. /\ r.order = a.order /\ r.row = a.row /\ r.speed = a.speed /\ r.delay = a.delay /\ r.tick = a.tick
        /\ r.jump = a.jump /\ r.arrival = a.arrival /\ r.flow = a.flow /\ r.lastPos = a.lastPos
        /\ r.seen = a.seen \cup {At(a)} /\ r.inside = Arrive(a).inside /\ r.arrivals = Arrive(a).arrivals
        /\ r.elapsed = a.elapsed /\ r.due = a.due /\ r.state = a.state
    BY <1>1, JudgedDoes
  <2>6. /\ s.order = b.order /\ s.row = b.row /\ s.speed = b.speed /\ s.delay = b.delay /\ s.tick = b.tick
        /\ s.jump = b.jump /\ s.arrival = b.arrival /\ s.flow = b.flow /\ s.lastPos = b.lastPos
        /\ s.seen = b.seen \cup {At(b)} /\ s.inside = Arrive(b).inside /\ s.arrivals = Arrive(b).arrivals
        /\ s.elapsed = b.elapsed /\ s.due = b.due /\ s.state = b.state
    BY <1>1, JudgedDoes
  <2> HIDE DEF r, s
  <2>7. /\ r.order = s.order /\ r.row = s.row /\ r.speed = s.speed /\ r.delay = s.delay /\ r.tick = s.tick
        /\ r.jump = s.jump /\ r.arrival = s.arrival /\ r.flow = s.flow /\ r.lastPos = s.lastPos
        /\ r.seen = s.seen /\ r.inside = s.inside /\ r.arrivals = s.arrivals
        /\ r.elapsed = s.elapsed /\ r.due = s.due /\ r.state = s.state
    BY <1>2, <1>6, <2>2, <2>5, <2>6 DEF Alike
  <2>8. Alike(r, s)
    BY <2>3, <2>4, <2>7 DEF Alike, r, s
  <2> QED BY <2>1, <2>8 DEF r, s
<1> QED BY <1>2, <1>3, <1>4, <1>5, <1>7, <1>8

\* The same tick of two sequencers that differ in nothing but what they do at the end.
LEMMA TicksAlike ==
    ASSUME IsSong(song), timeline \in OrNone(Timelines), NEW q, Good(q), NEW p, Good(p), Alike(q, p),
           p.atEnd = "Stop", ~p.endReached
    PROVE  /\ Announces(Dispatch(q)) <=> Announces(Dispatch(p))
           /\ ~Announces(Dispatch(q)) => AlikeOrAgain(Dispatch(q), Dispatch(p))
<1>0. q.tick = p.tick
  BY DEF Alike
<1>1. Verdict(Arrive(q)) = Verdict(Arrive(p))
  BY BegunAlike
<1>2. Announces(Dispatch(q)) <=> Announces(Dispatch(p))
  BY <1>0, <1>1, DispatchAnnounces
<1> SUFFICES ASSUME ~Announces(Dispatch(q)) PROVE AlikeOrAgain(Dispatch(q), Dispatch(p))
  BY <1>2
<1>3. Verdict(Arrive(q)) \notin Ends \/ q.tick # 0
  BY DispatchAnnounces
<1> DEFINE a == Begun(q)
           b == Begun(p)
<1>4. Alike(a, b) /\ Good(a) /\ Good(b) /\ b.atEnd = "Stop" /\ RunTick(a) \in Ticked
  BY <1>3, BegunAlike, BegunTyped, DispatchNotes
<1>5. a.runs /\ b.runs
  <2>1. ASSUME NEW x, Good(x), Verdict(Arrive(x)) \notin Ends \/ x.tick # 0 PROVE Begun(x).runs
    <3> DEFINE y == Quieted(x)
    <3>1. Good(y) /\ Verdict(Arrive(y)) = Verdict(Arrive(x)) /\ y.runs = TRUE
      BY <2>1, QuietedTyped, QuietedIs
    <3>2. Begun(x) = IF x.tick = 0 THEN BeginRow(y) ELSE y
      BY DEF Begun
    <3> HIDE DEF y
    <3>3. CASE x.tick = 0
      <4>1. Begun(x) = Judged(y)
        BY <2>1, <3>1, <3>2, <3>3, BeginRowIs
      <4>2. Judged(y).runs = (Verdict(Arrive(y)) \notin Ends \/ y.atEnd = "Continue"
                              \/ (y.atEnd = "FadeOut" /\ Verdict(Arrive(y)) # "Wrapped"))
        BY <3>1, JudgedDoes
      <4> QED BY <2>1, <3>1, <3>3, <4>1, <4>2
    <3>4. CASE x.tick # 0
      BY <3>1, <3>2, <3>4
    <3> QED BY <3>3, <3>4
  <2> QED BY <1>0, <1>1, <1>3, <2>1
<1>6. Dispatch(q) = Commit(Ran(a), RunTick(a).out) /\ Dispatch(p) = Commit(Ran(b), RunTick(b).out)
  BY <1>5, DispatchIs
<1> HIDE DEF a, b
<1>7. RunTick(a) = RunTick(b) /\ RunTick(a).out \in Outs
  BY <1>4, RunTickAlike DEF Ticked
<1>8. Alike(Ran(a), Ran(b)) /\ Good(Ran(a)) /\ Good(Ran(b)) /\ Ran(b).atEnd = "Stop"
  <2>1. a \in Sequencers /\ b \in Sequencers
    BY <1>4 DEF Good
  <2>2. Alike(Ran(a), Ran(b))
    BY <1>4, <1>7, <2>1, RanKeeps DEF Alike
  <2> QED BY <1>4, <2>1, <2>2, RanKeeps, RanTyped
<1> QED BY <1>6, <1>7, <1>8, CommitsAlike

-----------------------------------------------------------------------------
(* 6. What a tick of the scan does *)

\* Before its end, the scan listens for it.
Steady(p) == Good(p) /\ p.state = "Ready" /\ p.armed /\ ~p.endReached /\ p.atEnd = "Stop"

\* The tick that finds the end is not heard, the one that ends of itself may be.
LEMMA DispatchDoes ==
    ASSUME IsSong(song), timeline \in OrNone(Timelines), NEW p, Steady(p)
    PROVE  LET r == Dispatch(p) IN
           /\ Good(r) /\ r.atEnd = "Stop"
           /\ Announces(r) => r.state = "Stopped" /\ r.elapsed = p.elapsed
           /\ ~Announces(r) =>
                /\ r.seen = p.seen \cup (IF p.tick = 0 THEN {At(p)} ELSE {})
                /\ \/ Steady(r) /\ r.elapsed = p.elapsed + TickLength /\ r.due = TickLength
                   \/ r.state = "Stopped" /\ r.elapsed = p.elapsed /\ r.due = 0
                   \/ r.state = "Stopped" /\ r.elapsed = p.elapsed + TickLength /\ r.due = TickLength
           /\ r.visit # None => p.tick = 0 /\ r.visit = Noted(p)
           /\ (r.visit # None /\ r.visit.verdict = "New") <=> (p.tick = 0 /\ ~Announces(r) /\ At(p) \notin p.seen)
<1> DEFINE r == Dispatch(p)
           verdict == Verdict(Arrive(p))
           b == Begun(p)
<1>0. Good(p) /\ p.armed /\ ~p.endReached /\ p.state = "Ready" /\ p.atEnd = "Stop"
  BY DEF Steady
<1>1. Good(r) /\ r.atEnd = "Stop" /\ (r.visit = IF p.tick = 0 THEN Noted(p) ELSE None)
  BY <1>0, DispatchTyped, DispatchNotes
<1>2. (Announces(r) <=> p.tick = 0 /\ verdict \in Ends) /\ (r.visit # None <=> p.tick = 0)
  BY <1>0, DispatchAnnounces
<1>3. verdict = "New" <=> (verdict \notin Ends /\ At(p) \notin p.seen)
  <2> DEFINE a == Arrive(p)
  <2>1. a.armed = p.armed /\ a.seen = p.seen /\ At(a) = At(p)
    BY <1>0, ArriveKeeps DEF At
  <2> HIDE DEF a
  <2> QED BY <1>0, <2>1 DEF Verdict, Ends, a
<1>4. (r.visit # None /\ r.visit.verdict = "New") <=> (p.tick = 0 /\ ~Announces(r) /\ At(p) \notin p.seen)
  <2>1. Noted(p).verdict = verdict
    BY DEF Noted
  <2> HIDE DEF r, verdict
  <2> QED BY <1>1, <1>2, <1>3, <2>1
<1> DEFINE z == Quieted(p)
<1>5. /\ Good(z) /\ z.armed /\ ~z.endReached /\ z.state = "Ready" /\ z.atEnd = "Stop" /\ z.due = 0
      /\ z.elapsed = p.elapsed /\ z.seen = p.seen /\ At(z) = At(p) /\ z.runs = TRUE /\ Verdict(Arrive(z)) = verdict
  BY <1>0, QuietedIs, QuietedTyped
<1>6. /\ Good(b) /\ RunTick(b) \in Ticked /\ b.atEnd = "Stop" /\ b.state = "Ready" /\ b.elapsed = p.elapsed /\ b.due = 0
      /\ b.seen = p.seen \cup (IF p.tick = 0 THEN {At(p)} ELSE {})
      /\ p.tick = 0 /\ verdict \in Ends => ~b.runs
      /\ ~(p.tick = 0 /\ verdict \in Ends) => b.runs /\ b.armed /\ ~b.endReached
  <2>1. Good(b) /\ RunTick(b) \in Ticked /\ b.atEnd = "Stop"
    BY <1>0, BegunTyped, DispatchNotes
  <2>2. CASE p.tick # 0
    <3>1. b = z
      BY <2>2 DEF Begun
    <3> HIDE DEF b, z, verdict
    <3> QED BY <1>5, <2>1, <2>2, <3>1
  <2>3. CASE p.tick = 0
    <3>1. b = Judged(z)
      BY <1>5, <2>3, BeginRowIs DEF Begun
    <3>2. /\ Judged(z).seen = z.seen \cup {At(z)} /\ Judged(z).elapsed = z.elapsed /\ Judged(z).due = z.due
          /\ Judged(z).state = z.state
          /\ Judged(z).armed = (z.armed /\ verdict \notin Ends)
          /\ Judged(z).endReached = (verdict \in Ends \/ (z.endReached /\ z.atEnd # "Continue"))
          /\ Judged(z).runs = (verdict \notin Ends \/ z.atEnd = "Continue" \/ (z.atEnd = "FadeOut" /\ verdict # "Wrapped"))
      BY <1>5, JudgedDoes
    <3> HIDE DEF b, z, verdict
    <3>3. b.seen = p.seen \cup {At(p)} /\ b.elapsed = p.elapsed /\ b.due = 0 /\ b.state = "Ready"
      BY <1>5, <3>1, <3>2
    <3>4. verdict \in Ends => ~b.runs
      BY <1>5, <3>1, <3>2
    <3>5. verdict \notin Ends => b.runs /\ b.armed /\ ~b.endReached
      BY <1>5, <3>1, <3>2
    <3> QED BY <2>1, <2>3, <3>3, <3>4, <3>5
  <2> QED BY <2>2, <2>3
<1>7. CASE Announces(r)
  <2>1. r = [b EXCEPT !.state = "Stopped"]
    BY <1>2, <1>6, <1>7, DispatchIs
  <2> HIDE DEF r, b
  <2>2. r.state = "Stopped" /\ r.elapsed = b.elapsed
    BY <1>6, <2>1 DEF Good, Sequencers
  <2> QED BY <1>1, <1>4, <1>6, <1>7, <2>2 DEF r
<1>8. CASE ~Announces(r)
  <2> DEFINE out == RunTick(b).out
             n == Ran(b)
             one == OneOn(n, out)
  <2>1. b.runs /\ b.armed /\ ~b.endReached
    BY <1>2, <1>6, <1>8
  <2>2. r = Commit(n, out)
    BY <2>1, DispatchIs
  <2>3. /\ Good(n) /\ n.armed /\ ~n.endReached /\ n.state = "Ready" /\ n.elapsed = p.elapsed /\ n.due = 0
        /\ n.seen = b.seen /\ n.atEnd = "Stop"
    <3> HIDE DEF b, r, out
    <3> QED BY <1>0, <1>6, <2>1, RanTyped, RanKeeps DEF Good
  <2>4. out \in Outs
    BY <1>6 DEF Ticked
  <2> HIDE DEF n, out, b, r, verdict, z
  <2>5. /\ one.armed /\ ~one.endReached /\ one.state = "Ready" /\ one.elapsed = p.elapsed + TickLength
        /\ one.due = TickLength /\ one.seen = b.seen /\ one.atEnd = "Stop"
    BY <2>3, OneOnDoes DEF Good
  <2> HIDE DEF one
  <2>6. ASSUME NEW x, Good(x), x.atEnd = "Stop"
        PROVE  LET e == EndNaturally(x) IN e.state = "Stopped" /\ e.elapsed = x.elapsed /\ e.due = x.due /\ e.seen = x.seen
    <3> DEFINE e == EndNaturally(x)
    <3>1. e = [x EXCEPT !.endReached = TRUE, !.state = "Stopped"]
      BY <2>6, EndNaturallyDoes DEF Restarts
    <3> HIDE DEF e
    <3>2. e.state = "Stopped" /\ e.elapsed = x.elapsed /\ e.due = x.due /\ e.seen = x.seen
      BY <2>6, <3>1 DEF Good, Sequencers
    <3> QED BY <3>2 DEF e
  <2>7. ASSUME NEW x, Good(x), Goes(x, n), r = EndNaturally(x)
        PROVE  r.seen = b.seen /\ r.state = "Stopped" /\ r.elapsed = p.elapsed /\ r.due = 0
    BY <2>3, <2>6, <2>7 DEF Goes
  <2>8. ASSUME NEW x, Good(x), Goes(x, one), r = EndNaturally(x)
        PROVE  r.seen = b.seen /\ r.state = "Stopped" /\ r.elapsed = p.elapsed + TickLength /\ r.due = TickLength
    BY <2>5, <2>6, <2>8 DEF Goes
  <2>9. ASSUME Goes(r, one)
        PROVE  r.seen = b.seen /\ Steady(r) /\ r.elapsed = p.elapsed + TickLength /\ r.due = TickLength
    BY <1>1, <2>5, <2>9 DEF Goes, Steady
  <2>10. \/ \E x : Good(x) /\ Goes(x, n) /\ r = EndNaturally(x)
         \/ Goes(r, one) \/ \E x : Good(x) /\ Goes(x, one) /\ r = EndNaturally(x)
    BY <2>2, <2>3, <2>4, CommitGoes DEF GoesOrEnds, one
  <2>11. /\ r.seen = b.seen
         /\ \/ Steady(r) /\ r.elapsed = p.elapsed + TickLength /\ r.due = TickLength
            \/ r.state = "Stopped" /\ r.elapsed = p.elapsed /\ r.due = 0
            \/ r.state = "Stopped" /\ r.elapsed = p.elapsed + TickLength /\ r.due = TickLength
    BY <2>7, <2>8, <2>9, <2>10
  <2> QED BY <1>1, <1>4, <1>6, <1>8, <2>11 DEF r
<1> QED BY <1>7, <1>8

-----------------------------------------------------------------------------
(* 7. The ticks of the scan, one after the other *)

LEMMA NewSequencerDoes ==
    ASSUME IsSong(song), NEW atEnd \in AtEnds
    PROVE  LET q == NewSequencer(atEnd)
           IN  /\ q.order = Resolve(0) /\ q.row = 0 /\ q.speed = song.speed /\ q.delay = 0 /\ q.tick = 0
               /\ q.jump = None /\ q.arrival = "Start" /\ q.flow = FreshFlow /\ q.lastPos = None
               /\ q.seen = {} /\ q.inside = FALSE /\ q.arrivals = 0 /\ q.armed = TRUE
               /\ q.elapsed = 0 /\ q.due = 0 /\ q.state = "Ready" /\ q.endReached = FALSE
               /\ q.visit = None /\ q.atEnd = atEnd
<1> DEFINE b == Blank(atEnd)
           r == NewSequencer(atEnd)
           row == ClampedRow(Pattern(Resolve(0)), 0)
           at == [b EXCEPT !.order = Resolve(0), !.row = row]
           pos == [at EXCEPT !.speed = b.speed, !.delay = 0, !.tick = 0]
<1>1. row = 0
  BY DEF ClampedRow
<1>2. r = [pos EXCEPT !.arrival = "Start", !.endReached = FALSE]
  BY NewSequencerIs DEF SetPosition, StartRow
<1> HIDE DEF r, row
<1>3. /\ r.order = Resolve(0) /\ r.row = 0 /\ r.speed = song.speed /\ r.delay = 0 /\ r.tick = 0
      /\ r.jump = None /\ r.arrival = "Start" /\ r.flow = FreshFlow /\ r.lastPos = None
      /\ r.seen = {} /\ r.inside = FALSE /\ r.arrivals = 0 /\ r.armed = TRUE
      /\ r.elapsed = 0 /\ r.due = 0 /\ r.state = "Ready" /\ r.endReached = FALSE
      /\ r.visit = None /\ r.atEnd = atEnd
  BY <1>1, <1>2 DEF Blank
<1> QED BY <1>3 DEF r

LEMMA FirstRowIsNew ==
    ASSUME IsSong(song), timeline \in OrNone(Timelines)
    PROVE  LET q == NewSequencer("Stop")
           IN  /\ Steady(q) /\ ~Announces(q) /\ ~Announces(Dispatch(q))
               /\ Dispatch(q).visit # None /\ Dispatch(q).visit.verdict = "New"
<1> DEFINE q == NewSequencer("Stop")
           a == Arrive(q)
           r == Dispatch(q)
<1>0. "Stop" \in AtEnds
  BY DEF AtEnds
<1>1. /\ q.order = Resolve(0) /\ q.row = 0 /\ q.tick = 0 /\ q.arrival = "Start" /\ q.seen = {} /\ q.armed = TRUE
      /\ q.state = "Ready" /\ q.endReached = FALSE /\ q.visit = None /\ q.atEnd = "Stop"
  BY <1>0, NewSequencerDoes
<1>2. Good(q)
  BY <1>0, NewSequencerTyped
<1> HIDE DEF q, r
<1>3. Steady(q) /\ ~Announces(q)
  BY <1>1, <1>2 DEF Steady, Announces
<1>4. a.arrivals = 0 /\ a.armed /\ a.arrival = "Start" /\ a.seen = {}
  <2>1. a = [q EXCEPT !.inside = FALSE, !.arrivals = 0]
    BY <1>1 DEF Arrive
  <2> QED BY <1>1, <1>2, <2>1 DEF Good, Sequencers
<1> HIDE DEF a
<1>5. Verdict(a) = "New"
  BY <1>4 DEF Verdict
<1>6. ~Announces(r)
  BY <1>2, <1>5, DispatchAnnounces DEF Ends, a, r
<1>7. (r.visit # None /\ r.visit.verdict = "New") <=> (q.tick = 0 /\ ~Announces(r) /\ At(q) \notin q.seen)
  BY <1>3, DispatchDoes DEF r
<1>8. r.visit # None /\ r.visit.verdict = "New"
  BY <1>1, <1>6, <1>7
<1> QED BY <1>3, <1>6, <1>8 DEF q, r

\* The rows that marks put before a frame.
Before(marks, frame) == {<<m.order, m.row>> : m \in {x \in marks : x.frame < frame}}

\* How the scan leaves a song that ends at its i-th tick.
EndedAt(q, i) == /\ i # 0 /\ q.state = "Stopped"
                 /\ \/ Announces(q) /\ q.elapsed + TickLength = i * TickLength
                    \/ ~Announces(q) /\ q.elapsed + TickLength = i * TickLength /\ q.due = 0
                    \/ ~Announces(q) /\ q.elapsed = i * TickLength /\ q.due = TickLength

StillSteady(q, i) == Steady(q) /\ ~Announces(q) /\ q.elapsed = i * TickLength /\ q.due = IF i = 0 THEN 0 ELSE TickLength

\* A sequencer that stops at its end, after i ticks.
After(q, i, marks) == /\ Good(q) /\ q.atEnd = "Stop"
                      /\ ~Announces(q) => q.seen = Before(marks, i * TickLength)
                      /\ StillSteady(q, i) \/ EndedAt(q, i)

IsTop(m) == m.order = Resolve(0) /\ m.row = 0

\* The sequencers of n ticks of a scan, and what it has written down.
RunOf(run, n, marks) ==
  /\ run[0] = NewSequencer("Stop")
  /\ \A i \in 0 .. n : After(run[i], i, marks)
  /\ \A i \in 0 .. n : i # n => run[i].state = "Ready" /\ run[i + 1] = Dispatch(run[i])
  /\ \A m \in marks : \E j \in Nat : j < n /\ m.frame = j * TickLength
  /\ n # 0 => \E m \in marks : IsTop(m)
  /\ \A m \in marks : IsTop(m) => m.frame = 0 /\ m.speed = song.speed

LEMMA RunBegins ==
    ASSUME IsSong(song), timeline \in OrNone(Timelines)
    PROVE  \E run : RunOf(run, 0, {}) /\ run[0] = NewSequencer("Stop")
<1> DEFINE q == NewSequencer("Stop")
           run == [i \in {0} |-> q]
<1>0. "Stop" \in AtEnds
  BY DEF AtEnds
<1>1. run[0] = q
  OBVIOUS
<1>2. Good(q) /\ q.atEnd = "Stop" /\ q.seen = {} /\ Steady(q) /\ ~Announces(q) /\ q.elapsed = 0 /\ q.due = 0
  BY <1>0, FirstRowIsNew, NewSequencerDoes, NewSequencerTyped
<1> HIDE DEF q
<1>3. After(q, 0, {})
  BY <1>2, TickFacts DEF After, Before, StillSteady
<1>4. \A i \in 0 .. 0 : After(run[i], i, {})
  BY <1>1, <1>3
<1> HIDE DEF run
<1>5. RunOf(run, 0, {})
  BY <1>1, <1>4 DEF RunOf, q
<1> QED BY <1>1, <1>5 DEF q

\* What the scan writes down of a tick.
Noticed(r, marks) == IF r.visit # None /\ r.visit.verdict = "New" THEN marks \cup {Mark(r.visit)} ELSE marks

LEMMA MarksGrow ==
    ASSUME NEW marks, NEW n \in Nat, \A m \in marks : \E j \in Nat : j < n /\ m.frame = j * TickLength,
           NEW mark, mark.frame = n * TickLength
    PROVE  /\ \A i \in 0 .. n : Before(marks \cup {mark}, i * TickLength) = Before(marks, i * TickLength)
           /\ Before(marks, (n + 1) * TickLength) = Before(marks, n * TickLength)
           /\ Before(marks \cup {mark}, (n + 1) * TickLength) = Before(marks, n * TickLength) \cup {<<mark.order, mark.row>>}
<1>1. ASSUME NEW i \in 0 .. n PROVE {x \in marks \cup {mark} : x.frame < i * TickLength} = {x \in marks : x.frame < i * TickLength}
  <2>1. ~(mark.frame < i * TickLength)
    BY DEF TickLength
  <2> QED BY <2>1
<1>2. \A x \in marks : x.frame < n * TickLength /\ x.frame < (n + 1) * TickLength
  BY DEF TickLength
<1>3. mark.frame < (n + 1) * TickLength
  BY DEF TickLength
<1>4. {x \in marks : x.frame < (n + 1) * TickLength} = marks /\ {x \in marks : x.frame < n * TickLength} = marks
  BY <1>2
<1>5. {x \in marks \cup {mark} : x.frame < (n + 1) * TickLength} = marks \cup {mark}
  BY <1>2, <1>3
<1>6. \A i \in 0 .. n : Before(marks \cup {mark}, i * TickLength) = Before(marks, i * TickLength)
  BY <1>1 DEF Before
<1>7. Before(marks, (n + 1) * TickLength) = Before(marks, n * TickLength)
  BY <1>4 DEF Before
<1>8. Before(marks, n * TickLength) = {<<m.order, m.row>> : m \in marks}
  BY <1>4 DEF Before
<1>9. Before(marks \cup {mark}, (n + 1) * TickLength) = {<<m.order, m.row>> : m \in marks \cup {mark}}
  BY <1>5 DEF Before
<1>10. {<<m.order, m.row>> : m \in marks \cup {mark}} = {<<m.order, m.row>> : m \in marks} \cup {<<mark.order, mark.row>>}
  OBVIOUS
<1> QED BY <1>6, <1>7, <1>8, <1>9, <1>10

LEMMA RunGoesOn ==
    ASSUME IsSong(song), timeline \in OrNone(Timelines), NEW run, NEW n \in Nat, NEW marks, RunOf(run, n, marks),
           run[n].state = "Ready"
    PROVE  \E next : /\ RunOf(next, n + 1, Noticed(Dispatch(run[n]), marks))
                     /\ next[n + 1] = Dispatch(run[n])
<1> DEFINE p == run[n]
           r == Dispatch(p)
           now == Noticed(r, marks)
           mark == Mark(Noted(p))
           new == r.visit # None /\ r.visit.verdict = "New"
           next == [i \in 0 .. (n + 1) |-> IF i = n + 1 THEN r ELSE run[i]]
<1>1. After(p, n, marks) /\ StillSteady(p, n)
  BY DEF RunOf, After, EndedAt
<1>2. Steady(p) /\ ~Announces(p) /\ p.elapsed = n * TickLength /\ Good(p) /\ p.seen = Before(marks, n * TickLength)
  BY <1>1 DEF StillSteady, After
<1>3. /\ Good(r) /\ r.atEnd = "Stop"
      /\ Announces(r) => r.state = "Stopped" /\ r.elapsed = p.elapsed
      /\ ~Announces(r) =>
           /\ r.seen = p.seen \cup (IF p.tick = 0 THEN {At(p)} ELSE {})
           /\ \/ Steady(r) /\ r.elapsed = p.elapsed + TickLength /\ r.due = TickLength
              \/ r.state = "Stopped" /\ r.elapsed = p.elapsed /\ r.due = 0
              \/ r.state = "Stopped" /\ r.elapsed = p.elapsed + TickLength /\ r.due = TickLength
      /\ r.visit # None => p.tick = 0 /\ r.visit = Noted(p)
      /\ (r.visit # None /\ r.visit.verdict = "New") <=> (p.tick = 0 /\ ~Announces(r) /\ At(p) \notin p.seen)
  BY <1>2, DispatchDoes
<1>4. now = IF new THEN marks \cup {mark} ELSE marks
  BY <1>3 DEF Noticed
<1>5. mark.frame = n * TickLength /\ mark.order = p.order /\ mark.row = p.row /\ mark.speed = p.speed
  BY <1>2 DEF Mark, Noted
<1>6. At(p) = <<p.order, p.row>>
  BY DEF At
<1>7. \A i \in 0 .. (n + 1) : next[i] = IF i = n + 1 THEN r ELSE run[i]
  OBVIOUS
<1>8. /\ run[0] = NewSequencer("Stop") /\ \A i \in 0 .. n : After(run[i], i, marks)
      /\ \A i \in 0 .. n : i # n => run[i].state = "Ready" /\ run[i + 1] = Dispatch(run[i])
      /\ \A m \in marks : \E j \in Nat : j < n /\ m.frame = j * TickLength
      /\ n # 0 => \E m \in marks : IsTop(m)
      /\ \A m \in marks : IsTop(m) => m.frame = 0 /\ m.speed = song.speed
  BY DEF RunOf
<1>9. n = 0 => new /\ mark.speed = song.speed /\ IsTop(mark)
  <2> SUFFICES ASSUME n = 0 PROVE new /\ mark.speed = song.speed /\ IsTop(mark)
    OBVIOUS
  <2>1. p = NewSequencer("Stop")
    BY <1>8
  <2>2. new
    BY <2>1, FirstRowIsNew
  <2>3. p.order = Resolve(0) /\ p.row = 0 /\ p.speed = song.speed
    BY <2>1, NewSequencerDoes DEF AtEnds
  <2> HIDE DEF p, mark, new
  <2> QED BY <1>5, <2>2, <2>3 DEF IsTop
<1> HIDE DEF p, r, now, mark, new, next
<1>10. /\ \A i \in 0 .. n : Before(now, i * TickLength) = Before(marks, i * TickLength)
       /\ ~Announces(r) => Before(now, (n + 1) * TickLength) = r.seen
  <2>1. /\ \A i \in 0 .. n : Before(marks \cup {mark}, i * TickLength) = Before(marks, i * TickLength)
        /\ Before(marks, (n + 1) * TickLength) = Before(marks, n * TickLength)
        /\ Before(marks \cup {mark}, (n + 1) * TickLength) = Before(marks, n * TickLength) \cup {At(p)}
    BY <1>5, <1>6, <1>8, MarksGrow
  <2>2. CASE new
    BY <1>2, <1>3, <1>4, <2>1, <2>2 DEF new
  <2>3. CASE ~new
    <3>1. ~Announces(r) => r.seen = p.seen
      BY <1>3, <2>3 DEF new
    <3> QED BY <1>2, <1>4, <2>1, <2>3, <3>1
  <2> QED BY <2>2, <2>3
<1>11. \A i \in 0 .. n : After(run[i], i, now)
  BY <1>8, <1>10 DEF After
<1>12. After(r, n + 1, now)
  <2> DEFINE here == n * TickLength
             there == (n + 1) * TickLength
  <2>1. there = here + TickLength /\ n + 1 # 0
    BY DEF TickLength
  <2> HIDE DEF here, there
  <2>2. p.elapsed = here
    BY <1>2 DEF here
  <2>3. CASE Announces(r)
    <3>1. r.state = "Stopped" /\ r.elapsed + TickLength = there
      BY <1>3, <2>1, <2>2, <2>3
    <3> QED BY <1>3, <2>1, <2>3, <3>1 DEF After, EndedAt, there
  <2>4. CASE ~Announces(r)
    <3>1. r.seen = Before(now, there)
      BY <1>10, <2>4 DEF there
    <3>2. \/ Steady(r) /\ r.elapsed = there /\ r.due = TickLength
          \/ r.state = "Stopped" /\ r.elapsed + TickLength = there /\ r.due = 0
          \/ r.state = "Stopped" /\ r.elapsed = there /\ r.due = TickLength
      BY <1>3, <2>1, <2>2, <2>4
    <3>3. StillSteady(r, n + 1) \/ EndedAt(r, n + 1)
      BY <2>1, <2>4, <3>2 DEF StillSteady, EndedAt, there
    <3> QED BY <1>3, <2>4, <3>1, <3>3 DEF After, there
  <2> QED BY <2>3, <2>4
<1>13. \A i \in 0 .. (n + 1) : After(next[i], i, now)
  BY <1>7, <1>11, <1>12
<1>14. \A i \in 0 .. (n + 1) : i # n + 1 => next[i].state = "Ready" /\ next[i + 1] = Dispatch(next[i])
  <2> SUFFICES ASSUME NEW i \in 0 .. (n + 1), i # n + 1 PROVE next[i].state = "Ready" /\ next[i + 1] = Dispatch(next[i])
    OBVIOUS
  <2>1. i \in 0 .. n /\ i + 1 \in 0 .. (n + 1) /\ next[i] = run[i]
    BY <1>7
  <2>2. CASE i = n
    BY <1>7, <2>1, <2>2 DEF p, r
  <2>3. CASE i # n
    <3>1. i + 1 # n + 1 /\ next[i + 1] = run[i + 1]
      BY <1>7, <2>1, <2>3
    <3> QED BY <1>8, <2>1, <2>3, <3>1
  <2> QED BY <2>2, <2>3
<1>15. \A m \in now : \E j \in Nat : j < n + 1 /\ m.frame = j * TickLength
  <2> SUFFICES ASSUME NEW m \in now PROVE \E j \in Nat : j < n + 1 /\ m.frame = j * TickLength
    OBVIOUS
  <2>1. CASE m \in marks
    <3>1. PICK j \in Nat : j < n /\ m.frame = j * TickLength
      BY <1>8, <2>1
    <3>2. j < n + 1
      BY <3>1
    <3> QED BY <3>1, <3>2
  <2>2. CASE m = mark
    <3>1. n < n + 1
      OBVIOUS
    <3> QED BY <1>5, <2>2, <3>1
  <2> QED BY <1>4, <2>1, <2>2
<1>16. \E m \in now : IsTop(m)
  BY <1>4, <1>8, <1>9
<1>17. \A m \in now : IsTop(m) => m.frame = 0 /\ m.speed = song.speed
  <2> SUFFICES ASSUME NEW m \in now, IsTop(m), m \notin marks PROVE m.frame = 0 /\ m.speed = song.speed
    BY <1>8
  <2>1. m = mark /\ new
    BY <1>4
  <2>2. CASE n = 0
    BY <1>5, <1>9, <2>1, <2>2 DEF TickLength
  <2>3. CASE n # 0
    <3>1. PICK t \in marks : IsTop(t)
      BY <1>8, <2>3
    <3>2. t.frame < n * TickLength
      BY <1>8, <2>3, <3>1 DEF TickLength
    <3>3. <<t.order, t.row>> \in Before(marks, n * TickLength)
      BY <3>2 DEF Before
    <3>4. At(p) = <<t.order, t.row>>
      BY <1>5, <1>6, <2>1, <3>1 DEF IsTop
    <3>5. At(p) \notin p.seen
      BY <1>3, <2>1 DEF new
    <3> QED BY <1>2, <3>3, <3>4, <3>5
  <2> QED BY <2>2, <2>3
<1>18. next[0] = NewSequencer("Stop")
  BY <1>7, <1>8
<1>19. RunOf(next, n + 1, now)
  BY <1>13, <1>14, <1>15, <1>16, <1>17, <1>18 DEF RunOf
<1>20. next[n + 1] = r
  BY <1>7
<1> QED BY <1>19, <1>20 DEF now, r, p

\* A step that keeps the song keeps what a scan of it does.
LEMMA SameRun ==
    ASSUME song' = song, IsSong(song), timeline \in OrNone(Timelines), NEW run, NEW n \in Nat, NEW marks, RunOf(run, n, marks)
    PROVE  RunOf(run, n, marks)'
<1>1. /\ run[0] = NewSequencer("Stop") /\ \A i \in 0 .. n : After(run[i], i, marks)
      /\ \A i \in 0 .. n : i # n => run[i].state = "Ready" /\ run[i + 1] = Dispatch(run[i])
      /\ \A m \in marks : \E j \in Nat : j < n /\ m.frame = j * TickLength
      /\ n # 0 => \E m \in marks : IsTop(m)
      /\ \A m \in marks : IsTop(m) => m.frame = 0 /\ m.speed = song.speed
  BY DEF RunOf
<1>2. \A q : Good(q)' = Good(q)
  BY SameSong
<1>3. \A q, i : (Steady(q)' <=> Steady(q)) /\ (EndedAt(q, i)' <=> EndedAt(q, i)) /\ (StillSteady(q, i)' <=> StillSteady(q, i))
  BY <1>2 DEF Steady, EndedAt, StillSteady, Announces
<1>4. \A q, i : After(q, i, marks)' <=> After(q, i, marks)
  BY <1>2, <1>3 DEF After, Before, Announces
<1>5. \A m : IsTop(m)' <=> IsTop(m)
  BY SameReading DEF IsTop
<1>6. \A i \in 0 .. n : i # n => Dispatch(run[i])' = Dispatch(run[i])
  <2> TAKE i \in 0 .. n
  <2> DEFINE q == run[i]
  <2>1. Good(q) /\ q.atEnd = "Stop"
    BY <1>1 DEF After
  <2>2. Dispatch(q)' = Dispatch(q)
    <3> HIDE DEF q
    <3> QED BY <2>1, SameDispatch
  <2> QED BY <2>2
<1>7. NewSequencer("Stop")' = NewSequencer("Stop")
  <2> DEFINE b == Blank("Stop")
  <2>1. b' = b /\ Resolve(0)' = Resolve(0)
    BY SameReading DEF Blank
  <2>2. SetPosition(b, Resolve(0), 0)' = SetPosition(b, Resolve(0), 0)
    <3>1. ClampedRow(Pattern(Resolve(0)), 0) = 0
      BY DEF ClampedRow
    <3>2. ClampedRow(Pattern(Resolve(0)), 0)' = 0
      BY DEF ClampedRow
    <3> HIDE DEF b
    <3> QED BY <2>1, <3>1, <3>2 DEF SetPosition, StartRow
  <2>3. NewSequencer("Stop") = [SetPosition(b, Resolve(0), 0) EXCEPT !.arrival = "Start", !.endReached = FALSE]
    BY NewSequencerIs DEF AtEnds
  <2>4. NewSequencer("Stop")' = [SetPosition(b, Resolve(0), 0)' EXCEPT !.arrival = "Start", !.endReached = FALSE]
    <3>1. Resolve(0) # None
      BY TopResolves
    <3>2. MoveToOrder(b, 0, 0)' = SetPosition(b, Resolve(0), 0)'
      BY <2>1, <3>1 DEF MoveToOrder
    <3>3. NewSequencer("Stop")' = [MoveToOrder(b, 0, 0)' EXCEPT !.arrival = "Start", !.endReached = FALSE]
      BY DEF NewSequencer, Blank
    <3> QED BY <3>2, <3>3
  <2> QED BY <2>2, <2>3, <2>4
<1> QED BY <1>1, <1>4, <1>5, <1>6, <1>7 DEF RunOf

-----------------------------------------------------------------------------
(* 8. The first pass follows the scan *)

\* The scan so far is the run of a sequencer that stops at its end.
ScanIsARun == phase = "scan" => \E run : RunOf(run, ticks, found) /\ run[ticks] = seq

\* The length of a song whose scan has ended so.
LengthOf(q) == IF Announces(q) THEN q.elapsed ELSE (q.elapsed + TickLength) - q.due

\* What the scan that ended so tells the player: how long the song is, where and why it ends.
TellsOf(t, q) ==
  t.endFrame = LengthOf(q) /\ t.at = At(q) /\ t.end = IF Announces(q) THEN q.visit.verdict ELSE "Stopped"

\* Undisturbed from its start, a song that is played stands where the scan of it stood.
PlaysAsScanned ==
  phase = "play" /\ pass = "first" /\ timeline.end # "TickLimit" =>
     \E run : \E n, i \in Nat :
        /\ i <= n /\ RunOf(run, n, timeline.marks) /\ EndedAt(run[n], n)
        /\ TellsOf(timeline, run[n])
        /\ Alike(seq, run[i]) /\ ~Announces(run[i]) /\ ~Announces(seq)

SequencerInv == TypeInv /\ ScanIsARun /\ PlaysAsScanned

\* The end is announced at the row that the scan stops at, and in its words.
LEMMA AnnouncedAlike ==
    ASSUME IsSong(song), timeline \in OrNone(Timelines), NEW q, Good(q), NEW p, Steady(p), Alike(q, p),
           Announces(Dispatch(q))
    PROVE  LET v == Dispatch(q).visit
           IN  v.verdict = Dispatch(p).visit.verdict /\ <<v.order, v.row>> = At(Dispatch(p))
<1> DEFINE z == Quieted(p)
           b == Begun(p)
           r == Dispatch(p)
<1>1. Good(p) /\ ~p.endReached /\ p.atEnd = "Stop"
  BY DEF Steady
<1>2. /\ q.tick = 0 /\ p.tick = 0 /\ q.order = p.order /\ q.row = p.row
      /\ Verdict(Arrive(q)) \in Ends /\ Verdict(Arrive(p)) = Verdict(Arrive(q))
  BY <1>1, DispatchAnnounces, BegunAlike DEF Alike
<1>3. Dispatch(q).visit = Noted(q) /\ r.visit = Noted(p)
  BY <1>1, <1>2, DispatchNotes
<1>4. Good(z) /\ z.atEnd = "Stop" /\ z.order = p.order /\ z.row = p.row /\ Verdict(Arrive(z)) = Verdict(Arrive(p))
  <2>1. At(z) = At(p) /\ z.order = p.order
    BY <1>1, QuietedIs DEF At
  <2>2. z.row = p.row
    BY <2>1 DEF At
  <2> QED BY <1>1, <2>1, <2>2, QuietedIs, QuietedTyped
<1>5. b = Judged(z)
  BY <1>2, <1>4, BeginRowIs DEF Begun
<1>6. ~b.runs /\ b.order = p.order /\ b.row = p.row
  <2> HIDE DEF z, b
  <2>1. b.runs = (Verdict(Arrive(z)) \notin Ends \/ z.atEnd = "Continue" \/ (z.atEnd = "FadeOut" /\ Verdict(Arrive(z)) # "Wrapped"))
        /\ b.order = z.order /\ b.row = z.row
    BY <1>4, <1>5, JudgedDoes
  <2> QED BY <1>2, <1>4, <2>1
<1>7. r = [b EXCEPT !.state = "Stopped"] /\ Good(b)
  BY <1>1, <1>6, DispatchIs, BegunTyped
<1> HIDE DEF b, r, z
<1>8. r.order = p.order /\ r.row = p.row
  BY <1>6, <1>7 DEF Good, Sequencers
<1> QED BY <1>2, <1>3, <1>8 DEF At, Noted, r

LEMMA LengthIs ==
    ASSUME NEW q \in Sequencers, NEW n \in Nat, EndedAt(q, n)
    PROVE  /\ Announces(q) => LengthOf(q) + TickLength = n * TickLength
           /\ ~Announces(q) => LengthOf(q) = n * TickLength
<1>1. q.elapsed \in Nat /\ q.due \in 0 .. TickLength
  BY DEF Sequencers
<1> QED BY <1>1 DEF EndedAt, LengthOf, TickLength

LEMMA LoadedAlike ==
    IsSong(song) /\ timeline \in Timelines /\ (\E m \in timeline.marks : IsTop(m))
    /\ (\A m \in timeline.marks : IsTop(m) => m.frame = 0 /\ m.speed = song.speed) =>
       \A atEnd \in AtEnds : Alike(Loaded(atEnd), NewSequencer("Stop")) /\ ~Announces(Loaded(atEnd))
                             /\ Loaded(atEnd).state = "Ready" /\ Loaded(atEnd).elapsed = 0 /\ ~Loaded(atEnd).endReached
<1> SUFFICES ASSUME IsSong(song), timeline \in Timelines, \E m \in timeline.marks : IsTop(m),
                    \A m \in timeline.marks : IsTop(m) => m.frame = 0 /\ m.speed = song.speed,
                    NEW atEnd \in AtEnds
             PROVE  Alike(Loaded(atEnd), NewSequencer("Stop")) /\ ~Announces(Loaded(atEnd))
                    /\ Loaded(atEnd).state = "Ready" /\ Loaded(atEnd).elapsed = 0 /\ ~Loaded(atEnd).endReached
  OBVIOUS
<1> DEFINE n == NewSequencer(atEnd)
           s == SeekTo(n, Resolve(0), 0)
           q == NewSequencer("Stop")
           r == Loaded(atEnd)
           m == CHOOSE m \in MarksAt(Resolve(0), 0) : TRUE
<1>0. timeline # None /\ timeline \in OrNone(Timelines) /\ timeline.marks \subseteq RowMarks
  BY DEF OrNone, Timelines
<1>1. Marks = timeline.marks /\ MarksAt(Resolve(0), 0) = {x \in timeline.marks : IsTop(x)}
  BY <1>0 DEF Marks, MarksAt, IsTop
<1>2. MarksAt(Resolve(0), 0) # {} /\ m.frame = 0 /\ m.speed = song.speed
  BY <1>1
<1>3. Scanned(Resolve(0), 0) = 0
  BY <1>2 DEF Scanned
<1>4. PlayedBefore(0) = {}
  BY <1>0, <1>1 DEF PlayedBefore, RowMarks
<1>5. n \in Sequencers /\ Good(n) /\ n.elapsed = 0 /\ n.due = 0 /\ n.visit = None
  BY NewSequencerDoes, NewSequencerTyped DEF Good
<1>6. /\ s.visit = None /\ s.state = "Ready" /\ s.armed /\ ~s.endReached /\ s.order = Resolve(0)
      /\ s.tick = 0 /\ s.arrival = "Start" /\ s.arrivals = 0 /\ ~s.inside /\ s.lastPos = None /\ s.flow = FreshFlow
      /\ s.elapsed = 0 /\ s.row = 0 /\ s.jump = None /\ s.delay = 0 /\ s.due = 0
  <2>1. ClampedRow(Pattern(Resolve(0)), 0) = 0
    BY DEF ClampedRow
  <2> HIDE DEF n
  <2> QED BY <1>5, <2>1, SeekToKeeps
<1>7. s \in Sequencers
  <2>1. Resolve(0) \in Nat /\ Resolve(0) + 1 \in DOMAIN Orders /\ Pattern(Resolve(0)) \in Patterns
    BY NewSequencerIs
  <2> HIDE DEF n
  <2> QED BY <1>0, <1>5, <2>1, SeekToTyped DEF Good
<1>8. s.speed = song.speed /\ s.seen = {}
  <2> DEFINE at == [n EXCEPT !.order = Resolve(0), !.row = 0]
             pos == [at EXCEPT !.speed = n.speed, !.delay = 0, !.tick = 0]
             moved == [pos EXCEPT !.jump = None, !.flow = FreshFlow,
                  !.lastPos = None, !.state = "Ready", !.arrival = "Start", !.endReached = FALSE]
             there == [moved EXCEPT !.speed = m.speed, !.delay = 0, !.tick = 0]
             reset == [there EXCEPT !.seen = {}, !.inside = FALSE, !.arrivals = 0, !.armed = TRUE]
  <2>1. SetPosition(n, Resolve(0), 0) = pos
    <3>1. ClampedRow(Pattern(Resolve(0)), 0) = 0
      BY DEF ClampedRow
    <3> HIDE DEF n
    <3> QED BY <3>1 DEF SetPosition, StartRow
  <2> HIDE DEF n
  <2>2. moved.row = 0
    BY <1>5 DEF Sequencers
  <2> HIDE DEF pos
  <2>3. s = ResetMarkingBefore(StartRow(moved, m.speed), m.frame)
    BY <1>2, <2>1, <2>2 DEF SeekTo
  <2> USE DEF pos
  <2>4. s = [reset EXCEPT !.seen = PlayedBefore(0)]
    <3> HIDE DEF moved, s, m
    <3> QED BY <1>2, <2>3 DEF ResetMarkingBefore, ResetDetector, StartRow
  <2> HIDE DEF s, m
  <2> QED BY <1>2, <1>4, <1>5, <2>4 DEF Sequencers
<1>9. r = [s EXCEPT !.elapsed = 0]
  BY <1>3 DEF Loaded
<1>10. /\ q.order = Resolve(0) /\ q.row = 0 /\ q.speed = song.speed /\ q.delay = 0 /\ q.tick = 0
       /\ q.jump = None /\ q.arrival = "Start" /\ q.flow = FreshFlow /\ q.lastPos = None
       /\ q.seen = {} /\ q.inside = FALSE /\ q.arrivals = 0 /\ q.armed = TRUE
       /\ q.elapsed = 0 /\ q.due = 0 /\ q.state = "Ready" /\ q.endReached = FALSE
  BY NewSequencerDoes DEF AtEnds
<1> HIDE DEF s, q, r, n
<1>11. s.armed = TRUE /\ s.endReached = FALSE /\ s.inside = FALSE
  BY <1>6, <1>7 DEF Sequencers
<1>12. /\ r.order = s.order /\ r.row = s.row /\ r.speed = s.speed /\ r.delay = s.delay /\ r.tick = s.tick
       /\ r.jump = s.jump /\ r.arrival = s.arrival /\ r.flow = s.flow /\ r.lastPos = s.lastPos
       /\ r.seen = s.seen /\ r.inside = s.inside /\ r.arrivals = s.arrivals /\ r.armed = s.armed
       /\ r.elapsed = 0 /\ r.due = s.due /\ r.state = s.state /\ r.endReached = s.endReached /\ r.visit = s.visit
  BY <1>7, <1>9 DEF Sequencers
<1>13. Alike(r, q)
  BY <1>6, <1>8, <1>10, <1>11, <1>12 DEF Alike
<1>14. ~Announces(r) /\ r.state = "Ready" /\ r.elapsed = 0 /\ ~r.endReached
  BY <1>6, <1>11, <1>12 DEF Announces
<1> QED BY <1>13, <1>14 DEF r, q

LEMMA LoadedAlikeThen ==
    (IsSong(song) /\ timeline \in Timelines /\ (\E m \in timeline.marks : IsTop(m))
     /\ (\A m \in timeline.marks : IsTop(m) => m.frame = 0 /\ m.speed = song.speed) =>
       \A atEnd \in AtEnds : Alike(Loaded(atEnd), NewSequencer("Stop")) /\ ~Announces(Loaded(atEnd))
                             /\ Loaded(atEnd).state = "Ready" /\ Loaded(atEnd).elapsed = 0 /\ ~Loaded(atEnd).endReached)'
<1>1. IsSong(song) /\ timeline \in Timelines /\ (\E m \in timeline.marks : IsTop(m))
      /\ (\A m \in timeline.marks : IsTop(m) => m.frame = 0 /\ m.speed = song.speed) =>
       \A atEnd \in AtEnds : Alike(Loaded(atEnd), NewSequencer("Stop")) /\ ~Announces(Loaded(atEnd))
                             /\ Loaded(atEnd).state = "Ready" /\ Loaded(atEnd).elapsed = 0 /\ ~Loaded(atEnd).endReached
  BY LoadedAlike
<1> QED BY <1>1, PTL

LEMMA ScanStaysARun == ASSUME SequencerInv, ScanTick PROVE ScanIsARun'
<1>0. /\ IsSong(song) /\ timeline \in OrNone(Timelines) /\ ticks \in Nat /\ phase = "scan" /\ seq.state = "Ready"
      /\ seq' = Dispatch(seq) /\ ticks' = ticks + 1 /\ song' = song /\ phase' = phase
      /\ found' = IF seq'.visit # None /\ seq'.visit.verdict = "New" THEN found \cup {Mark(seq'.visit)} ELSE found
      /\ timeline' = timeline
  BY SongsAssumption DEF SequencerInv, TypeInv, ScanTick
<1>1. PICK run : RunOf(run, ticks, found) /\ run[ticks] = seq
  BY <1>0 DEF SequencerInv, ScanIsARun
<1>2. PICK next : RunOf(next, ticks + 1, Noticed(Dispatch(seq), found)) /\ next[ticks + 1] = Dispatch(seq)
  BY <1>0, <1>1, RunGoesOn
<1>3. found' = Noticed(Dispatch(seq), found)
  BY <1>0 DEF Noticed
<1>4. PICK n \in Nat : n = ticks + 1
  BY <1>0
<1>5. PICK marks : marks = Noticed(Dispatch(seq), found)
  OBVIOUS
<1>6. RunOf(next, n, marks)'
  BY <1>0, <1>2, <1>4, <1>5, SameRun
<1>7. n = ticks' /\ marks = found' /\ next[n] = seq'
  BY <1>0, <1>2, <1>3, <1>4, <1>5
<1>8. \E r : RunOf(r, ticks, found)' /\ r[ticks'] = seq'
  BY <1>6, <1>7
<1> QED BY <1>8 DEF ScanIsARun

LEMMA LoadedReadyThen ==
    (IsSong(song) /\ timeline \in Timelines =>
       \A atEnd \in AtEnds : Loaded(atEnd).state = "Ready" /\ ~Announces(Loaded(atEnd)) /\ ~Loaded(atEnd).endReached)'
<1>1. IsSong(song) /\ timeline \in Timelines =>
       \A atEnd \in AtEnds : Loaded(atEnd).state = "Ready" /\ ~Announces(Loaded(atEnd)) /\ ~Loaded(atEnd).endReached
  <2> SUFFICES ASSUME IsSong(song), timeline \in Timelines, NEW atEnd \in AtEnds
               PROVE  Loaded(atEnd).state = "Ready" /\ ~Announces(Loaded(atEnd)) /\ ~Loaded(atEnd).endReached
    OBVIOUS
  <2> DEFINE n == NewSequencer(atEnd)
             s == SeekTo(n, Resolve(0), 0)
             r == Loaded(atEnd)
  <2>1. timeline \in OrNone(Timelines)
    BY DEF OrNone
  <2>2. n \in Sequencers /\ n.visit = None
    BY NewSequencerTyped, NewSequencerDoes DEF Good
  <2>3. Resolve(0) \in Nat /\ Resolve(0) + 1 \in DOMAIN Orders /\ Pattern(Resolve(0)) \in Patterns
    BY NewSequencerIs
  <2>4. r = [s EXCEPT !.elapsed = Scanned(Resolve(0), 0)]
    BY DEF Loaded
  <2> HIDE DEF n, r
  <2>5. s \in Sequencers /\ s.visit = None /\ s.state = "Ready" /\ ~s.endReached
    BY <2>1, <2>2, <2>3, SeekToTyped, SeekToKeeps DEF Good
  <2> HIDE DEF s
  <2>6. r.visit = s.visit /\ r.state = s.state /\ r.endReached = s.endReached
    BY <2>4, <2>5 DEF Sequencers
  <2>7. r.state = "Ready" /\ ~Announces(r) /\ ~r.endReached
    BY <2>5, <2>6 DEF Announces
  <2> QED BY <2>7 DEF r
<1> QED BY <1>1, PTL

LEMMA TheScanEnds ==
    ASSUME SequencerInv, phase = "scan", EndReason # None, EndReason # "TickLimit"
    PROVE  /\ EndedAt(seq, ticks) /\ EndFrame = LengthOf(seq)
           /\ EndReason = IF Announces(seq) THEN seq.visit.verdict ELSE "Stopped"
<1>1. PICK run : RunOf(run, ticks, found) /\ run[ticks] = seq
  BY DEF SequencerInv, ScanIsARun
<1>2. After(seq, ticks, found) /\ ticks \in Nat
  BY <1>1 DEF RunOf, SequencerInv, TypeInv
<1>3. seq.elapsed \in Nat /\ seq.due \in 0 .. TickLength
  BY DEF SequencerInv, TypeInv, Good, Sequencers
<1>4. CASE Announces(seq)
  <2>1. EndReason = seq.visit.verdict /\ EndReason \in Ends
    BY <1>4 DEF EndReason, Announces
  <2>2. EndReason # "Stopped"
    BY <2>1 DEF Ends
  <2>3. EndFrame = seq.elapsed
    BY <2>2 DEF EndFrame
  <2> QED BY <1>2, <1>4, <2>1, <2>3 DEF After, StillSteady, LengthOf
<1>5. CASE ~Announces(seq)
  <2>1. seq.state = "Stopped" /\ EndReason = "Stopped"
    BY <1>5 DEF EndReason
  <2>2. EndedAt(seq, ticks)
    BY <1>2, <2>1 DEF After, StillSteady, Steady
  <2>3. ticks > 0
    BY <1>2, <2>2 DEF EndedAt
  <2>4. EndFrame = seq.elapsed - seq.due + TickLength
    BY <2>1, <2>3 DEF EndFrame
  <2>5. seq.elapsed - seq.due + TickLength = (seq.elapsed + TickLength) - seq.due
    BY <1>3 DEF TickLength
  <2> QED BY <1>5, <2>1, <2>2, <2>4, <2>5 DEF LengthOf
<1> QED BY <1>4, <1>5

\* What is installed stands at the top of the song, on the clock of the scan.
LEMMA InstallStarts ==
    ASSUME SequencerInv, Install
    PROVE  /\ seq'.state = "Ready" /\ ~Announces(seq)' /\ ~seq'.endReached
           /\ EndReason # "TickLimit" => seq'.elapsed = 0
           /\ PlaysAsScanned'
<1>0. /\ IsSong(song) /\ timeline \in OrNone(Timelines) /\ ticks \in Nat /\ phase = "scan" /\ phase' = "play"
      /\ song' = song /\ EndReason # None
      /\ timeline' = [marks |-> found, end |-> EndReason, at |-> At(seq), endFrame |-> EndFrame]
  BY SongsAssumption DEF SequencerInv, TypeInv, Install
<1>1. PICK run : RunOf(run, ticks, found) /\ run[ticks] = seq
  BY <1>0 DEF SequencerInv, ScanIsARun
<1>2. PICK atEnd \in AtEnds : seq' = Loaded(atEnd)'
  BY DEF Install, Loaded
<1>3. TypeInv'
  BY InstallTyped DEF SequencerInv
<1>4. IsSong(song)' /\ (timeline \in Timelines)'
  <2>1. (timeline \in OrNone(Timelines) /\ timeline # None)'
    BY <1>0, <1>3 DEF TypeInv
  <2> QED BY <1>0, <2>1, SameSong DEF OrNone
<1>5. PICK n \in Nat : n = ticks
  BY <1>0
<1>6. PICK marks : marks = found
  OBVIOUS
<1>7. timeline'.marks = marks /\ timeline'.end = EndReason /\ timeline'.endFrame = EndFrame /\ timeline'.at = At(seq)
  BY <1>0, <1>6
<1>8. RunOf(run, n, marks)'
  BY <1>0, <1>1, <1>5, <1>6, SameRun
<1>9. \A m : IsTop(m)' <=> IsTop(m)
  BY <1>0, SameReading DEF IsTop
<1>10. CASE n # 0
  <2>1. (\E m \in marks : IsTop(m)) /\ \A m \in marks : IsTop(m) => m.frame = 0 /\ m.speed = song.speed
    BY <1>1, <1>5, <1>6, <1>10 DEF RunOf
  <2>2. (\E m \in timeline.marks : IsTop(m))' /\ (\A m \in timeline.marks : IsTop(m) => m.frame = 0 /\ m.speed = song.speed)'
    BY <1>0, <1>7, <1>9, <2>1
  <2>3. /\ Alike(seq', NewSequencer("Stop")') /\ ~Announces(seq)' /\ seq'.state = "Ready" /\ seq'.elapsed = 0
        /\ ~seq'.endReached
    BY <1>2, <1>4, <2>2, LoadedAlikeThen
  <2>4. run[0] = NewSequencer("Stop")'
    BY <1>8 DEF RunOf
  <2>5. ~Announces(run[0])
    BY <1>0, <1>1, FirstRowIsNew DEF RunOf
  <2>6. EndReason # "TickLimit" => EndedAt(run[n], n) /\ TellsOf(timeline', run[n])
    BY <1>0, <1>1, <1>5, <1>7, TheScanEnds DEF TellsOf
  <2>7. (EndedAt(run[n], n)' <=> EndedAt(run[n], n)) /\ (TellsOf(timeline, run[n])' <=> TellsOf(timeline', run[n]))
        /\ (Announces(run[0])' <=> Announces(run[0]))
    BY DEF EndedAt, TellsOf, LengthOf, Announces, At
  <2>8. ASSUME EndReason # "TickLimit"
        PROVE  /\ 0 <= n /\ RunOf(run, n, timeline.marks)' /\ EndedAt(run[n], n)'
               /\ TellsOf(timeline, run[n])' /\ Alike(seq, run[0])' /\ ~Announces(run[0])' /\ ~Announces(seq)'
    <3>1. Alike(seq, run[0])'
      BY <2>3, <2>4 DEF Alike
    <3>2. RunOf(run, n, timeline.marks)'
      BY <1>7, <1>8
    <3> QED BY <1>7, <2>3, <2>5, <2>6, <2>7, <2>8, <3>1, <3>2
  <2>9. PlaysAsScanned'
    BY <1>7, <2>8 DEF PlaysAsScanned
  <2> QED BY <2>3, <2>9
<1>11. CASE n = 0
  <2>1. seq = NewSequencer("Stop")
    BY <1>1, <1>5, <1>11 DEF RunOf
  <2>2. ~Announces(seq) /\ seq.state = "Ready"
    BY <1>0, <2>1, FirstRowIsNew DEF Steady
  <2>3. EndReason = "TickLimit"
    BY <1>0, <2>2 DEF EndReason
  <2>4. PlaysAsScanned'
    BY <1>7, <2>3 DEF PlaysAsScanned
  <2>5. seq'.state = "Ready" /\ ~Announces(seq)' /\ ~seq'.endReached
    BY <1>2, <1>4, LoadedReadyThen
  <2> QED BY <2>3, <2>4, <2>5
<1> QED BY <1>10, <1>11

\* A tick of an undisturbed first pass: where its end is found, where the song ends of
\* itself, or one tick on with the end still ahead.
LEMMA FirstPassTick ==
    ASSUME SequencerInv, PlayTick, pass = "first", timeline.end # "TickLimit"
    PROVE  \/ /\ Announces(seq)' /\ timeline.endFrame = seq.elapsed
              /\ seq'.visit.verdict = timeline.end /\ <<seq'.visit.order, seq'.visit.row>> = timeline.at
           \/ /\ ~Announces(seq)' /\ seq'.state = "Stopped" /\ timeline.endFrame = seq.elapsed + TickLength
              /\ timeline.endFrame = (seq'.elapsed + TickLength) - seq'.due
              /\ PlaysAsScanned'
           \/ /\ ~Announces(seq)' /\ seq'.state = "Ready" /\ ~seq'.endReached /\ PlaysAsScanned'
              /\ seq'.elapsed = seq.elapsed + TickLength /\ seq'.elapsed <= timeline.endFrame
           \/ /\ ~Announces(seq)' /\ seq'.state = "Ready" /\ seq'.elapsed = 0
              /\ timeline.endFrame = seq.elapsed + TickLength
<1>0. /\ IsSong(song) /\ Good(seq) /\ timeline \in OrNone(Timelines) /\ seq' = Dispatch(seq) /\ song' = song
      /\ timeline' = timeline /\ phase = "play" /\ phase' = "play" /\ seq.state = "Ready"
  BY SongsAssumption DEF SequencerInv, TypeInv, PlayTick, Playing
<1>1. PICK run : \E n, i \in Nat :
        /\ i <= n /\ RunOf(run, n, timeline.marks) /\ EndedAt(run[n], n) /\ TellsOf(timeline, run[n])
        /\ Alike(seq, run[i]) /\ ~Announces(run[i]) /\ ~Announces(seq)
  BY <1>0 DEF SequencerInv, PlaysAsScanned
<1>2. PICK n \in Nat, i \in Nat :
        /\ i <= n /\ RunOf(run, n, timeline.marks) /\ EndedAt(run[n], n) /\ TellsOf(timeline, run[n])
        /\ Alike(seq, run[i]) /\ ~Announces(run[i]) /\ ~Announces(seq)
  BY <1>1
<1> DEFINE p == run[i]
           r == run[i + 1]
<1>3. i # n /\ i + 1 <= n /\ i \in 0 .. n /\ i + 1 \in 0 .. n /\ n \in 0 .. n
  <2>1. p.state = "Ready"
    BY <1>0, <1>2 DEF Alike
  <2>2. i # n
    BY <1>2, <2>1 DEF EndedAt
  <2> QED BY <1>2, <2>2
<1>4. After(p, i, timeline.marks) /\ After(r, i + 1, timeline.marks) /\ After(run[n], n, timeline.marks)
  BY <1>2, <1>3 DEF RunOf
<1>5. r = Dispatch(p) /\ p.state = "Ready" /\ (i + 1 # n => r.state = "Ready")
  BY <1>2, <1>3 DEF RunOf
<1>6. StillSteady(p, i)
  BY <1>4, <1>5 DEF After, EndedAt
<1>7. Good(p) /\ p.atEnd = "Stop" /\ ~p.endReached /\ p.elapsed = i * TickLength
  BY <1>6 DEF StillSteady, Steady
<1>8. (Announces(Dispatch(seq)) <=> Announces(r)) /\ (~Announces(Dispatch(seq)) => AlikeOrAgain(Dispatch(seq), r))
  <2> HIDE DEF p, r
  <2>1. Alike(seq, p)
    BY <1>2 DEF p
  <2> QED BY <1>0, <1>5, <1>7, <2>1, TicksAlike
<1>9. seq.elapsed = i * TickLength
  BY <1>2, <1>7 DEF Alike
<1>10. r \in Sequencers /\ run[n] \in Sequencers
  BY <1>4 DEF After, Good
<1>11. EndedAt(r, i + 1) => i + 1 = n
  BY <1>5 DEF EndedAt
<1>12. /\ Announces(run[n]) => LengthOf(run[n]) + TickLength = n * TickLength
       /\ ~Announces(run[n]) => LengthOf(run[n]) = n * TickLength
  BY <1>2, <1>10, LengthIs
<1>13. LengthOf(run[n]) \in Nat \/ LengthOf(run[n]) + TickLength = n * TickLength
  BY <1>12 DEF TickLength
<1>14. (Announces(seq)' <=> Announces(r)) /\ (~Announces(seq)' => AlikeOrAgain(seq', r))
  BY <1>0, <1>8 DEF Announces
<1>15. timeline.endFrame \in Nat
  <2>1. timeline # None
    BY <1>0 DEF SequencerInv, TypeInv
  <2> QED BY <1>0, <2>1 DEF OrNone, Timelines
<1>16. ASSUME ~Announces(seq)', Alike(seq', r) PROVE PlaysAsScanned'
  <2>1. PICK marks : marks = timeline.marks
    OBVIOUS
  <2>2. RunOf(run, n, marks)'
    BY <1>0, <1>2, <2>1, SameRun
  <2>3. marks = timeline'.marks
    BY <1>0, <2>1
  <2>4. PICK k \in Nat : k = i + 1
    OBVIOUS
  <2>5. Alike(seq', run[k]) /\ ~Announces(run[k])
    BY <1>14, <1>16, <2>4
  <2>6. (EndedAt(run[n], n)' <=> EndedAt(run[n], n)) /\ (TellsOf(timeline, run[n])' <=> TellsOf(timeline', run[n]))
        /\ (Announces(run[k])' <=> Announces(run[k])) /\ (Alike(seq, run[k])' <=> Alike(seq', run[k]))
    BY DEF EndedAt, TellsOf, LengthOf, Announces, At, Alike
  <2>7. /\ k <= n /\ RunOf(run, n, timeline.marks)' /\ EndedAt(run[n], n)' /\ TellsOf(timeline, run[n])'
        /\ Alike(seq, run[k])' /\ ~Announces(run[k])' /\ ~Announces(seq)'
    BY <1>0, <1>2, <1>3, <1>16, <2>2, <2>3, <2>4, <2>5, <2>6
  <2> QED BY <2>7 DEF PlaysAsScanned
<1>17. CASE Announces(seq)'
  <2>1. EndedAt(r, i + 1)
    BY <1>4, <1>14, <1>17 DEF After, StillSteady
  <2>2. i + 1 = n /\ Announces(run[n])
    BY <1>11, <1>14, <1>17, <2>1
  <2>3. timeline.endFrame + TickLength = n * TickLength
    BY <1>2, <1>12, <2>2 DEF TellsOf
  <2>4. timeline.endFrame = seq.elapsed
    BY <1>9, <1>15, <2>2, <2>3 DEF TickLength
  <2>5. timeline.end = r.visit.verdict /\ timeline.at = At(r)
    BY <1>2, <2>2 DEF TellsOf
  <2>6. seq'.visit.verdict = r.visit.verdict /\ <<seq'.visit.order, seq'.visit.row>> = At(r)
    <3>1. Alike(seq, p) /\ Steady(p) /\ Announces(Dispatch(seq))
      BY <1>0, <1>2, <1>6, <1>17 DEF StillSteady, Announces
    <3> HIDE DEF p, r
    <3> QED BY <1>0, <1>5, <3>1, AnnouncedAlike
  <2> QED BY <1>17, <2>4, <2>5, <2>6
<1>18. CASE ~Announces(seq)' /\ EndedAt(r, i + 1)
  <2>1. i + 1 = n /\ ~Announces(run[n]) /\ r = run[n]
    BY <1>11, <1>14, <1>18
  <2>2. timeline.endFrame = n * TickLength
    BY <1>2, <1>12, <2>1 DEF TellsOf
  <2>3. timeline.endFrame = seq.elapsed + TickLength
    BY <1>9, <2>1, <2>2 DEF TickLength
  <2>4. timeline.endFrame = (r.elapsed + TickLength) - r.due
    BY <1>2, <2>1 DEF LengthOf, TellsOf
  <2>5. CASE Alike(seq', r)
    <3>1. seq'.state = "Stopped" /\ seq'.elapsed = r.elapsed /\ seq'.due = r.due
      BY <1>18, <2>5 DEF Alike, EndedAt
    <3> QED BY <1>16, <1>18, <2>3, <2>4, <2>5, <3>1
  <2>6. CASE ~Alike(seq', r)
    <3>1. seq'.state = "Ready" /\ seq'.elapsed = 0
      BY <1>14, <1>18, <2>6 DEF AlikeOrAgain
    <3> QED BY <1>18, <2>3, <3>1
  <2> QED BY <2>5, <2>6
<1>19. CASE ~Announces(seq)' /\ ~EndedAt(r, i + 1)
  <2>1. StillSteady(r, i + 1)
    BY <1>4, <1>19 DEF After
  <2>2. r.state = "Ready" /\ ~r.endReached /\ r.elapsed = (i + 1) * TickLength
    BY <2>1 DEF StillSteady, Steady
  <2>3. Alike(seq', r)
    BY <1>14, <1>19, <2>2 DEF AlikeOrAgain
  <2>4. seq'.state = "Ready" /\ ~seq'.endReached /\ seq'.elapsed = (i + 1) * TickLength
    BY <2>2, <2>3 DEF Alike
  <2>5. i + 1 # n
    BY <1>2, <2>2 DEF EndedAt
  <2>6. seq'.elapsed = seq.elapsed + TickLength
    BY <1>9, <2>4 DEF TickLength
  <2>7. seq'.elapsed <= timeline.endFrame
    <3>1. i + 2 <= n
      BY <1>3, <2>5
    <3>2. timeline.endFrame = n * TickLength \/ timeline.endFrame + TickLength = n * TickLength
      BY <1>2, <1>12 DEF TellsOf
    <3> QED BY <1>15, <2>4, <3>1, <3>2 DEF TickLength
  <2> QED BY <1>16, <1>19, <2>3, <2>4, <2>6, <2>7
<1> QED BY <1>17, <1>18, <1>19

\* A step that leaves the clock, the song and what was played alone.
LEMMA ChangedModePlaysOn == ASSUME SequencerInv, SetAtEnd \/ UNCHANGED vars PROVE ScanIsARun' /\ PlaysAsScanned'
<1>0. /\ IsSong(song) /\ timeline \in OrNone(Timelines) /\ seq \in Sequencers
      /\ song' = song /\ timeline' = timeline /\ phase' = phase /\ pass' = pass /\ ticks' = ticks /\ found' = found
      /\ ticks \in Nat
  BY SongsAssumption DEF SequencerInv, TypeInv, Good, SetAtEnd, vars
<1>1. phase = "scan" => seq' = seq
  BY DEF SetAtEnd, vars
<1>2. /\ \A p : Alike(seq, p) => Alike(seq', p)
      /\ seq'.visit = seq.visit
  <2>1. CASE SetAtEnd
    <3>1. PICK atEnd \in AtEnds : seq' = [seq EXCEPT !.atEnd = atEnd]
      BY <2>1 DEF SetAtEnd
    <3> DEFINE r == [seq EXCEPT !.atEnd = atEnd]
    <3>2. /\ r.order = seq.order /\ r.row = seq.row /\ r.speed = seq.speed /\ r.delay = seq.delay /\ r.tick = seq.tick
          /\ r.jump = seq.jump /\ r.arrival = seq.arrival /\ r.flow = seq.flow /\ r.lastPos = seq.lastPos
          /\ r.seen = seq.seen /\ r.inside = seq.inside /\ r.arrivals = seq.arrivals /\ r.armed = seq.armed
          /\ r.elapsed = seq.elapsed /\ r.due = seq.due /\ r.state = seq.state /\ r.endReached = seq.endReached
          /\ r.visit = seq.visit
      BY <1>0 DEF Sequencers
    <3>3. seq' = r
      BY <3>1
    <3> HIDE DEF r
    <3> QED BY <3>2, <3>3 DEF Alike
  <2>2. CASE UNCHANGED vars
    BY <2>2 DEF vars
  <2> QED BY <2>1, <2>2
<1>3. ScanIsARun'
  <2> SUFFICES ASSUME phase = "scan" PROVE \E run : RunOf(run, ticks, found)' /\ run[ticks'] = seq'
    BY <1>0 DEF ScanIsARun
  <2>1. PICK run : RunOf(run, ticks, found) /\ run[ticks] = seq
    BY DEF SequencerInv, ScanIsARun
  <2>2. PICK n \in Nat : n = ticks
    BY <1>0
  <2>3. PICK marks : marks = found
    OBVIOUS
  <2>4. RunOf(run, n, marks)'
    BY <1>0, <2>1, <2>2, <2>3, SameRun
  <2> QED BY <1>0, <1>1, <2>1, <2>2, <2>3, <2>4
<1>4. PlaysAsScanned'
  <2> SUFFICES ASSUME phase = "play", pass = "first", timeline.end # "TickLimit"
               PROVE  \E run : \E n, i \in Nat :
                        /\ i <= n /\ RunOf(run, n, timeline.marks)' /\ EndedAt(run[n], n)'
                        /\ TellsOf(timeline, run[n])'
                        /\ Alike(seq', run[i]) /\ ~Announces(run[i])' /\ ~Announces(seq)'
    BY <1>0 DEF PlaysAsScanned, Alike
  <2>1. PICK run : \E n, i \in Nat :
        /\ i <= n /\ RunOf(run, n, timeline.marks) /\ EndedAt(run[n], n) /\ TellsOf(timeline, run[n])
        /\ Alike(seq, run[i]) /\ ~Announces(run[i]) /\ ~Announces(seq)
    BY DEF SequencerInv, PlaysAsScanned
  <2>2. PICK n \in Nat, i \in Nat :
        /\ i <= n /\ RunOf(run, n, timeline.marks) /\ EndedAt(run[n], n) /\ TellsOf(timeline, run[n])
        /\ Alike(seq, run[i]) /\ ~Announces(run[i]) /\ ~Announces(seq)
    BY <2>1
  <2>3. PICK marks : marks = timeline.marks
    OBVIOUS
  <2>4. RunOf(run, n, marks)' /\ marks = timeline'.marks
    BY <1>0, <2>2, <2>3, SameRun
  <2>5. (EndedAt(run[n], n)' <=> EndedAt(run[n], n)) /\ (TellsOf(timeline, run[n])' <=> TellsOf(timeline', run[n]))
        /\ (Announces(run[i])' <=> Announces(run[i])) /\ (Announces(seq)' <=> Announces(seq))
    BY <1>2 DEF EndedAt, TellsOf, LengthOf, Announces, At
  <2> QED BY <1>0, <1>2, <2>2, <2>4, <2>5
<1> QED BY <1>3, <1>4

LEMMA SequencerInvInit == Init => SequencerInv
<1> SUFFICES ASSUME Init PROVE SequencerInv
  OBVIOUS
<1>1. IsSong(song) /\ timeline \in OrNone(Timelines)
  BY SongsAssumption DEF Init, OrNone
<1>2. ScanIsARun
  BY <1>1, RunBegins DEF Init, ScanIsARun
<1> QED BY <1>2, TypeInit DEF Init, PlaysAsScanned, SequencerInv

LEMMA SequencerInvNext == SequencerInv /\ [Next]_vars => SequencerInv'
<1> SUFFICES ASSUME SequencerInv, [Next]_vars PROVE SequencerInv'
  OBVIOUS
<1>0. TypeInv'
  BY ScanTickTyped, InstallTyped, PlayTickTyped, SeekTyped, OthersTyped DEF SequencerInv, Next
<1>1. CASE ScanTick
  <2>1. PlaysAsScanned'
    BY <1>1 DEF ScanTick, PlaysAsScanned
  <2> QED BY <1>0, <1>1, <2>1, ScanStaysARun DEF SequencerInv
<1>2. CASE Install
  <2>1. ScanIsARun'
    BY <1>2 DEF Install, ScanIsARun
  <2> QED BY <1>0, <1>2, <2>1, InstallStarts DEF SequencerInv
<1>3. CASE PlayTick
  <2>1. ScanIsARun'
    BY <1>3 DEF PlayTick, Playing, ScanIsARun
  <2>2. PlaysAsScanned'
    <3> SUFFICES ASSUME pass' = "first", timeline.end # "TickLimit", ~PlaysAsScanned' PROVE FALSE
      BY <1>3 DEF PlayTick, PlaysAsScanned
    <3>1. pass = "first" /\ ~Announces(seq)' /\ (seq'.elapsed > seq.elapsed \/ seq'.state = "Stopped")
      BY <1>3 DEF PlayTick, Began, Announces
    <3>2. seq'.state = "Ready" /\ seq'.elapsed = 0
      BY <1>3, <3>1, FirstPassTick
    <3>3. seq.elapsed \in Nat
      BY DEF SequencerInv, TypeInv, Good, Sequencers
    <3> QED BY <3>1, <3>2, <3>3
  <2> QED BY <1>0, <2>1, <2>2 DEF SequencerInv
<1>4. CASE SeekOrder \/ SeekFrame
  <2>1. phase' = "play" /\ pass' # "first"
    BY <1>4, SeekIsWound DEF SequencerInv, Began
  <2> QED BY <1>0, <2>1 DEF SequencerInv, ScanIsARun, PlaysAsScanned
<1>5. CASE Replace
  <2>1. phase' = "play" /\ pass' # "first"
    BY <1>5 DEF Replace, Playing
  <2> QED BY <1>0, <2>1 DEF SequencerInv, ScanIsARun, PlaysAsScanned
<1>6. CASE SetAtEnd \/ UNCHANGED vars
  BY <1>0, <1>6, ChangedModePlaysOn DEF SequencerInv
<1> QED BY <1>1, <1>2, <1>3, <1>4, <1>5, <1>6 DEF Next

\* A replacement goes on as the one it replaces: by the timeline it knows what was played.
LEMMA RestoredKeeps ==
    ASSUME IsSong(song), timeline \in OrNone(Timelines), NEW q, Good(q), q.due = TickLength, NEW paused \in BOOLEAN
    PROVE  LET r == Restored(q, paused)
           IN  r.state = q.state /\ r.endReached = q.endReached /\ r.seen = PlayedBefore(SongFrame(q, paused))
<1> DEFINE n == NewSequencer(q.atEnd)
           fresh == SeekTo(n, q.order, q.row)
           frame == SongFrame(q, paused)
           played == PlayedBefore(frame)
           reset == [fresh EXCEPT !.seen = {}, !.inside = FALSE, !.arrivals = 0, !.armed = TRUE]
           marked == [reset EXCEPT !.seen = played]
           r == Restored(q, paused)
<1>1. n \in Sequencers
  BY NewSequencerTyped DEF Good, Sequencers
<1>2. fresh \in Sequencers
  <2>1. q.order \in Nat /\ q.row \in Nat /\ q.order + 1 \in DOMAIN Orders /\ Pattern(q.order) \in Patterns
    BY DEF Good, Placed, Sequencers
  <2> HIDE DEF n
  <2> QED BY <1>1, <2>1, SeekToTyped DEF Good
<1>3. r = [marked EXCEPT
        !.speed = q.speed, !.delay = q.delay, !.tick = q.tick, !.arrival = q.arrival,
        !.inside = q.inside, !.arrivals = q.arrivals, !.armed = q.armed,
        !.jump = q.jump, !.elapsed = frame + q.due - 1, !.due = q.due - 1,
        !.sounding = q.sounding, !.endReached = q.endReached, !.state = q.state]
  BY DEF Restored, ResetMarkingBefore, ResetDetector
<1> HIDE DEF fresh, frame, played
<1>4. marked.seen = played /\ "state" \in DOMAIN marked /\ "endReached" \in DOMAIN marked /\ "seen" \in DOMAIN marked
  BY <1>2 DEF Sequencers
<1> HIDE DEF marked, r
<1>5. r.state = q.state /\ r.endReached = q.endReached /\ r.seen = played
  BY <1>3, <1>4
<1> QED BY <1>5 DEF r, played, frame

-----------------------------------------------------------------------------
(* 9. A song is as long as the scan says, and ends where it says *)

\* The tape: see PlaysItsLength.
HeadOf == CASE phase = "scan" -> 0
            [] phase = "play" /\ seq.state = "Stopped" /\ ~Announces(seq) ->
                 seq.elapsed + TickLength - seq.due
            [] OTHER -> seq.elapsed
OverOf == phase = "play" /\ (seq.endReached \/ seq.state = "Stopped")

LEMMA HeadIsANumber == ASSUME SequencerInv PROVE HeadOf \in Nat
<1>1. seq.elapsed \in Nat /\ seq.due \in 0 .. TickLength
  BY DEF SequencerInv, TypeInv, Good, Sequencers
<1> QED BY <1>1 DEF HeadOf, TickLength

LEMMA HeadIsANumberThen == (SequencerInv => HeadOf \in Nat)'
<1>1. SequencerInv => HeadOf \in Nat
  BY HeadIsANumber
<1> QED BY <1>1, PTL

LEMMA TapeBegins == ASSUME Init PROVE Tape!Init
  BY DEF Init, Tape!Init

LEMMA TapeTurns ==
    ASSUME SequencerInv, SequencerInv', ScanFindsAnEnd, ScanFindsAnEnd', [Next]_vars
    PROVE  [Tape!Next]_(Tape!vars)
<1> DEFINE L == IF timeline = None THEN None ELSE timeline.endFrame
           M == IF timeline' = None THEN None ELSE timeline'.endFrame
           S == pass = "first"
           T == pass' = "first"
<1>0. HeadOf \in Nat /\ HeadOf' \in Nat /\ OverOf \in BOOLEAN /\ OverOf' \in BOOLEAN
  BY HeadIsANumber, HeadIsANumberThen DEF OverOf
<1>1. /\ song \in Songs /\ Good(seq) /\ (phase = "scan" <=> timeline = None) /\ phase \in {"scan", "play"}
      /\ timeline \in OrNone(Timelines)
  BY DEF SequencerInv, TypeInv
<1>2. phase = "play" => timeline # None /\ L = timeline.endFrame /\ L # None /\ timeline.end # "TickLimit" /\ L \in Nat
  BY <1>1 DEF ScanFindsAnEnd, OrNone, Timelines
<1>3. seq.elapsed \in Nat /\ seq.due \in 0 .. TickLength
  BY <1>1 DEF Good, Sequencers
<1>4. CASE ScanTick
  <2>1. /\ phase = "scan" /\ phase' = "scan" /\ timeline' = timeline /\ pass' = pass
    BY <1>4 DEF ScanTick
  <2>2. HeadOf = 0 /\ HeadOf' = 0 /\ OverOf = FALSE /\ OverOf' = FALSE
    BY <2>1 DEF HeadOf, OverOf
  <2> QED BY <2>1, <2>2 DEF HeadOf, OverOf, Tape!vars
<1>5. CASE Install
  <2>1. /\ phase = "scan" /\ phase' = "play" /\ pass' = pass /\ timeline = None
        /\ timeline' = [marks |-> found, end |-> EndReason, at |-> At(seq), endFrame |-> EndFrame]
    BY <1>1, <1>5 DEF Install
  <2>2. timeline' \in Timelines /\ timeline' # None
    BY <2>1 DEF SequencerInv, TypeInv, OrNone
  <2>3. EndReason # "TickLimit"
    BY <2>1, <2>2 DEF ScanFindsAnEnd
  <2>4. seq'.state = "Ready" /\ ~Announces(seq)' /\ ~seq'.endReached /\ seq'.elapsed = 0
    BY <1>5, <2>3, InstallStarts
  <2>5. HeadOf = 0 /\ HeadOf' = 0 /\ OverOf = FALSE /\ OverOf' = FALSE
    BY <2>1, <2>4 DEF HeadOf, OverOf
  <2>6. L = None /\ M \in Nat
    BY <2>1, <2>2 DEF Timelines
  <2>7. Tape!Load
    BY <2>1, <2>5, <2>6 DEF Tape!Load, HeadOf, OverOf
  <2> QED BY <2>7 DEF Tape!Next
<1>6. ASSUME PlayTick PROVE Tape!Next
  <2>1. /\ phase = "play" /\ phase' = "play" /\ timeline' = timeline /\ seq.state = "Ready" /\ HeadOf = seq.elapsed
    BY <1>6 DEF PlayTick, Playing, HeadOf
  <2>2. M = L /\ L # None /\ L \in Nat /\ timeline.end # "TickLimit" /\ L = timeline.endFrame
    BY <1>2, <2>1
  <2>3. ASSUME pass # "first" PROVE Tape!Loop
    <3>1. S = FALSE /\ T = FALSE
      BY <1>6, <2>3 DEF PlayTick, Began
    <3> QED BY <1>0, <2>2, <3>1 DEF Tape!Loop, HeadOf, OverOf
  <2>4. ASSUME Announces(seq)', L = seq.elapsed PROVE Tape!Loop
    <3>1. T = FALSE
      BY <1>6, <2>4 DEF PlayTick, Announces
    <3>2. Tape!AtTheEnd
      BY <2>1, <2>4 DEF Tape!AtTheEnd, HeadOf
    <3> QED BY <1>0, <2>2, <3>1, <3>2 DEF Tape!Loop, HeadOf, OverOf
  <2>5. ASSUME pass = "first", ~Announces(seq)', seq'.state = "Ready", seq'.elapsed = 0, L = seq.elapsed + TickLength
        PROVE  Tape!Loop
    <3>1. ~(seq'.elapsed > seq.elapsed)
      BY <1>3, <2>5
    <3>2. T = FALSE
      BY <1>6, <2>5, <3>1 DEF PlayTick, Began, Announces
    <3>3. Tape!AtTheEnd
      BY <2>1, <2>5 DEF Tape!AtTheEnd, HeadOf
    <3> QED BY <1>0, <2>2, <3>2, <3>3 DEF Tape!Loop, HeadOf, OverOf
  <2>6. ASSUME pass = "first", ~Announces(seq)', seq'.state = "Stopped", L = seq.elapsed + TickLength,
               L = (seq'.elapsed + TickLength) - seq'.due
        PROVE  Tape!End
    <3>1. pass' = "first"
      BY <1>6, <2>6 DEF PlayTick, Announces
    <3>2. Tape!AtTheEnd
      BY <2>1, <2>6 DEF Tape!AtTheEnd, HeadOf
    <3>3. HeadOf' = seq'.elapsed + TickLength - seq'.due
      BY <2>1, <2>6 DEF HeadOf
    <3>4. seq'.elapsed \in Nat /\ seq'.due \in 0 .. TickLength
      BY DEF SequencerInv, TypeInv, Good, Sequencers
    <3>5. HeadOf' = (seq'.elapsed + TickLength) - seq'.due
      BY <3>3, <3>4 DEF TickLength
    <3>6. HeadOf' = M /\ HeadOf' = HeadOf + TickLength
      BY <2>1, <2>2, <2>6, <3>5
    <3>7. OverOf' = TRUE
      BY <2>1, <2>6 DEF OverOf
    <3> QED BY <2>2, <2>6, <3>1, <3>2, <3>6, <3>7 DEF Tape!End, HeadOf, OverOf
  <2>7. ASSUME pass = "first", ~Announces(seq)', seq'.state = "Ready", ~seq'.endReached,
               seq'.elapsed = seq.elapsed + TickLength, seq'.elapsed <= L
        PROVE  Tape!Play
    <3>1. seq'.elapsed > seq.elapsed
      BY <1>3, <2>7 DEF TickLength
    <3>2. pass' = pass
      BY <1>6, <2>7, <3>1 DEF PlayTick, Announces
    <3>3. HeadOf' = HeadOf + TickLength /\ HeadOf' <= L /\ OverOf' = FALSE
      BY <2>1, <2>7 DEF HeadOf, OverOf
    <3> QED BY <2>2, <2>7, <3>2, <3>3 DEF Tape!Play, HeadOf, OverOf
  <2>8. CASE pass = "first"
    <3> HIDE DEF L, M, S, T
    <3> QED BY <1>6, <2>2, <2>4, <2>5, <2>6, <2>7, <2>8, FirstPassTick DEF Tape!Next
  <2> QED BY <2>3, <2>8 DEF Tape!Next
<1>7. ASSUME phase' = "play", phase = "play", timeline' = timeline, T = FALSE, OverOf' \in {OverOf, FALSE} PROVE Tape!Wind
  BY <1>0, <1>2, <1>7 DEF Tape!Wind, HeadOf, OverOf
<1>8. CASE SeekOrder \/ SeekFrame
  <2>1. PICK order, row : /\ Playable(order) /\ row \in Nat /\ seq' = Wound(seq, order, row)
                           /\ phase = "play" /\ pass' = Began(order, row) /\ edits' = edits + 1
                           /\ UNCHANGED <<song, phase, timeline, ticks, found>>
    BY <1>8, SeekIsWound DEF SequencerInv
  <2> DEFINE s == SeekTo(seq, order, row)
             r == Wound(seq, order, row)
  <2>2. IsSong(song)
    BY <1>1, SongsAssumption
  <2>3. s \in Sequencers
    BY <1>1, <2>1, <2>2, SeekToTyped DEF Good, Playable
  <2>4. s.state = "Ready" /\ ~s.endReached
    BY <1>1, SeekToKeeps DEF Good
  <2>5. r = [s EXCEPT !.elapsed = Scanned(order, row), !.due = 0]
    BY DEF Wound
  <2> HIDE DEF s, r
  <2>6. r.state = s.state /\ r.endReached = s.endReached
    BY <2>3, <2>5 DEF Sequencers
  <2>7. seq'.state = "Ready" /\ ~seq'.endReached
    BY <2>1, <2>4, <2>6 DEF r
  <2>8. OverOf' = FALSE
    BY <2>7 DEF OverOf
  <2>9. pass' # "first"
    BY <2>1 DEF Began
  <2> QED BY <1>7, <2>1, <2>8, <2>9 DEF Tape!Next
<1>9. CASE Replace
  <2>1. PICK paused \in BOOLEAN : seq' = Restored(seq, paused)
    BY <1>9 DEF Replace
  <2>2. /\ phase = "play" /\ phase' = "play" /\ timeline' = timeline /\ pass' # "first" /\ seq.state = "Ready"
        /\ seq.due = TickLength
    BY <1>9 DEF Replace, Playing
  <2>3. Restored(seq, paused).state = seq.state /\ Restored(seq, paused).endReached = seq.endReached
    BY <1>1, <2>2, SongsAssumption, RestoredKeeps
  <2>4. OverOf' = OverOf
    BY <2>1, <2>2, <2>3 DEF OverOf
  <2> QED BY <1>7, <2>2, <2>4 DEF Tape!Next
<1>10. CASE SetAtEnd
  <2>1. PICK atEnd \in AtEnds : seq' = [seq EXCEPT !.atEnd = atEnd]
    BY <1>10 DEF SetAtEnd
  <2>2. seq'.elapsed = seq.elapsed /\ seq'.due = seq.due /\ seq'.state = seq.state /\ seq'.visit = seq.visit
        /\ seq'.endReached = seq.endReached
    BY <1>1, <2>1 DEF Good, Sequencers
  <2>3. phase' = phase /\ timeline' = timeline /\ pass' = pass
    BY <1>10 DEF SetAtEnd
  <2>4. HeadOf' = HeadOf /\ OverOf' = OverOf
    BY <2>2, <2>3 DEF HeadOf, OverOf, Announces
  <2> QED BY <2>3, <2>4 DEF HeadOf, OverOf, Tape!vars
<1>11. CASE UNCHANGED vars
  <2>1. seq' = seq /\ phase' = phase /\ timeline' = timeline /\ pass' = pass
    BY <1>11 DEF vars
  <2> QED BY <2>1 DEF Tape!vars, Announces
<1> QED BY <1>4, <1>5, <1>6, <1>8, <1>9, <1>10, <1>11 DEF Next

\* A song that is played from its start is over at the frame the scan computed, under every
\* end-of-song setting, whenever the scan has found an end at all (EndFrame, scan_with_tables).
THEOREM PlaysWhatWasScanned == Spec /\ []ScanFindsAnEnd => PlaysItsLength
<1>1. Init => Tape!Init
  BY TapeBegins
<1>2. /\ SequencerInv /\ SequencerInv' /\ ScanFindsAnEnd /\ ScanFindsAnEnd' /\ [Next]_vars
      => [Tape!Next]_(Tape!vars)
  BY TapeTurns
<1> QED BY <1>1, <1>2, SequencerInvInit, SequencerInvNext, PTL DEF Spec, PlaysItsLength, Tape!Spec

\* CanonicalEnd, of a pass that nothing has disturbed: whatever ends it, the tick that
\* announces the end says where and why, and it is what the scan has told the player.
EndsAsScanned ==
  PlayTick /\ pass = "first" /\ timeline.end # "TickLimit" /\ Announces(seq') =>
     /\ seq'.visit.verdict = timeline.end
     /\ <<seq'.visit.order, seq'.visit.row>> = timeline.at

\* In the first pass the detector fires at the row where it fired in the scan, for the same
\* reason, whatever loops, jumps and delays lie before it; a song that the scan saw stop of
\* itself never announces an end (LoopDetector::visit, EndReason).
THEOREM FirstPassEndsWhereScanned == Spec => [][EndsAsScanned]_vars
<1>1. SequencerInv /\ [Next]_vars => [EndsAsScanned]_vars
  <2> SUFFICES ASSUME SequencerInv, PlayTick, pass = "first", timeline.end # "TickLimit", Announces(seq')
               PROVE  seq'.visit.verdict = timeline.end /\ <<seq'.visit.order, seq'.visit.row>> = timeline.at
    BY DEF EndsAsScanned
  <2>1. Announces(seq)'
    BY DEF Announces
  <2> QED BY <2>1, FirstPassTick
<1> QED BY <1>1, SequencerInvInit, SequencerInvNext, PTL DEF Spec

LEMMA KnowsWhatWasPlayed == ASSUME SequencerInv, ScanFindsAnEnd PROVE KnowsThePlayedRows
<1> SUFFICES ASSUME phase = "play", pass = "first", seq.due = TickLength, NEW paused \in BOOLEAN
             PROVE  Restored(seq, paused).seen = seq.seen
  BY DEF KnowsThePlayedRows
<1>0. /\ IsSong(song) /\ timeline \in OrNone(Timelines) /\ timeline # None /\ Good(seq) /\ timeline.end # "TickLimit"
      /\ seq.elapsed \in Nat
  BY SongsAssumption DEF SequencerInv, TypeInv, ScanFindsAnEnd, Good, Sequencers
<1>1. PICK run : \E n, i \in Nat :
        /\ i <= n /\ RunOf(run, n, timeline.marks) /\ EndedAt(run[n], n) /\ TellsOf(timeline, run[n])
        /\ Alike(seq, run[i]) /\ ~Announces(run[i]) /\ ~Announces(seq)
  BY <1>0 DEF SequencerInv, PlaysAsScanned
<1>2. PICK n \in Nat, i \in Nat :
        /\ i <= n /\ RunOf(run, n, timeline.marks) /\ EndedAt(run[n], n) /\ TellsOf(timeline, run[n])
        /\ Alike(seq, run[i]) /\ ~Announces(run[i]) /\ ~Announces(seq)
  BY <1>1
<1>3. /\ After(run[i], i, timeline.marks)
      /\ \A m \in timeline.marks : \E j \in Nat : j < n /\ m.frame = j * TickLength
  <2>1. i \in 0 .. n
    BY <1>2
  <2> QED BY <1>2, <2>1 DEF RunOf
<1>4. seq.seen = run[i].seen /\ seq.elapsed = run[i].elapsed /\ run[i].due = TickLength
  BY <1>2 DEF Alike
<1>5. seq.seen = Before(timeline.marks, i * TickLength)
  BY <1>2, <1>3, <1>4 DEF After
<1>6. i # 0 /\ seq.elapsed = i * TickLength
  <2>1. CASE StillSteady(run[i], i)
    BY <1>4, <2>1 DEF StillSteady, TickLength
  <2>2. CASE EndedAt(run[i], i)
    BY <1>2, <1>4, <2>2 DEF EndedAt, TickLength
  <2> QED BY <1>3, <2>1, <2>2 DEF After
<1>7. SongFrame(seq, paused) = i * TickLength - 1
  BY <1>6 DEF SongFrame, TickLength
<1>8. Restored(seq, paused).seen = PlayedBefore(SongFrame(seq, paused))
  BY <1>0, RestoredKeeps
<1>9. \A m \in timeline.marks : m.frame < i * TickLength - 1 <=> m.frame < i * TickLength
  <2> SUFFICES ASSUME NEW m \in timeline.marks PROVE m.frame < i * TickLength - 1 <=> m.frame < i * TickLength
    OBVIOUS
  <2>1. PICK j \in Nat : m.frame = j * TickLength
    BY <1>3
  <2> QED BY <2>1 DEF TickLength
<1>10. PlayedBefore(i * TickLength - 1) = Before(timeline.marks, i * TickLength)
  <2>1. {x \in timeline.marks : x.frame < i * TickLength - 1} = {x \in timeline.marks : x.frame < i * TickLength}
    BY <1>9
  <2> QED BY <1>0, <2>1 DEF PlayedBefore, Before, Marks
<1> QED BY <1>5, <1>7, <1>8, <1>10

\* A renderer built from the cursor of one that plays its first pass has heard the same rows,
\* paused or playing (cursor_state, restore_cursor and reset_marking_before).
THEOREM ReplacementKnowsThePlayedRows == Spec /\ []ScanFindsAnEnd => []KnowsThePlayedRows
<1>1. SequencerInv /\ ScanFindsAnEnd => KnowsThePlayedRows
  BY KnowsWhatWasPlayed
<1> QED BY <1>1, SequencerInvInit, SequencerInvNext, PTL DEF Spec

-----------------------------------------------------------------------------
(* 10. No scan is endless *)

\* Where the next row is: one on, back in a loop, or elsewhere.
Moves(r, q) ==
  \/ r.tick = 0 /\ r.arrival = "Sequential" /\ r.order = q.order /\ r.row = q.row + 1
  \/ r.tick = 0 /\ r.arrival = "PatternLoop"
  \/ r.tick = 0 /\ r.arrival \in {"Jump", "NextOrder", "Wrapped"}

LEMMA StopsAtItsEnd == ASSUME NEW q, Good(q), q.atEnd = "Stop" PROVE EndNaturally(q).state = "Stopped"
<1> DEFINE r == EndNaturally(q)
<1>1. r = [q EXCEPT !.endReached = TRUE, !.state = "Stopped"]
  BY EndNaturallyDoes DEF Restarts
<1> HIDE DEF r
<1>2. r.state = "Stopped"
  BY <1>1 DEF Good, Sequencers
<1> QED BY <1>2 DEF r

LEMMA PositionMoves ==
    ASSUME NEW q \in Sequencers, NEW order, NEW row
    PROVE  SetPosition(q, order, row).tick = 0 /\ SetPosition(q, order, row).arrival = q.arrival
<1> DEFINE clamped == ClampedRow(Pattern(order), row)
           at == [q EXCEPT !.order = order, !.row = clamped]
           r == SetPosition(q, order, row)
<1>1. r = [at EXCEPT !.speed = q.speed, !.delay = 0, !.tick = 0]
  BY DEF SetPosition, StartRow
<1> HIDE DEF clamped, r
<1>2. r.tick = 0 /\ r.arrival = q.arrival
  BY <1>1 DEF Sequencers
<1> QED BY <1>2 DEF r

LEMMA MoveToOrderMoves ==
    ASSUME NEW q, Good(q), q.atEnd = "Stop", q.arrival \in {"Jump", "NextOrder", "Wrapped"}, NEW order, NEW row,
           MoveToOrder(q, order, row).state = "Ready"
    PROVE  LET r == MoveToOrder(q, order, row) IN r.tick = 0 /\ r.arrival \in {"Jump", "NextOrder", "Wrapped"}
<1>0. q \in Sequencers
  BY DEF Good
<1>1. CASE Resolve(order) # None
  <2>1. MoveToOrder(q, order, row) = SetPosition(q, Resolve(order), row)
    BY <1>1 DEF MoveToOrder
  <2> QED BY <1>0, <2>1, PositionMoves
<1>2. CASE Resolve(order) = None /\ song.policy # "Stop" /\ Resolve(song.restart) # None
  <2> DEFINE wrapped == [q EXCEPT !.arrival = "Wrapped"]
             at == IF song.policy = "WrapKeepingBreakRow" THEN row ELSE 0
  <2>1. wrapped \in Sequencers
    BY <1>0 DEF Sequencers
  <2>2. wrapped.arrival = "Wrapped"
    BY <1>0 DEF Sequencers
  <2>3. MoveToOrder(q, order, row) = SetPosition(wrapped, Resolve(song.restart), at)
    BY <1>2 DEF MoveToOrder
  <2> HIDE DEF wrapped, at
  <2> QED BY <2>1, <2>2, <2>3, PositionMoves
<1>3. CASE Resolve(order) = None /\ ~(song.policy # "Stop" /\ Resolve(song.restart) # None)
  <2>1. MoveToOrder(q, order, row) = EndNaturally(q)
    BY <1>3 DEF MoveToOrder
  <2> QED BY <2>1, StopsAtItsEnd
<1> QED BY <1>1, <1>2, <1>3

LEMMA BeginNextRowMoves ==
    ASSUME NEW q, Good(q), q.atEnd = "Stop", NEW jump \in OrNone(Jumps), BeginNextRow(q, jump).state = "Ready"
    PROVE  Moves(BeginNextRow(q, jump), q)
<1> DEFINE r == BeginNextRow(q, jump)
<1>0. q \in Sequencers
  BY DEF Good
<1>1. ASSUME NEW v \in {"Jump", "NextOrder"} PROVE Good([q EXCEPT !.arrival = v]) /\ [q EXCEPT !.arrival = v].atEnd = "Stop"
                                                   /\ [q EXCEPT !.arrival = v].arrival = v
  <2> DEFINE x == [q EXCEPT !.arrival = v]
  <2>1. x \in Sequencers
    BY <1>0 DEF Sequencers
  <2>2. x.order = q.order /\ x.row = q.row /\ x.atEnd = "Stop" /\ x.arrival = v
    BY <1>0 DEF Sequencers
  <2> HIDE DEF x
  <2>3. Good(x) /\ x.atEnd = "Stop" /\ x.arrival = v
    BY <2>1, <2>2, PlacedAlike DEF Good
  <2> QED BY <2>3 DEF x
<1>2. CASE jump # None /\ jump.within
  <2> DEFINE row == ClampedRow(Pattern(q.order), jump.row)
             x == [q EXCEPT !.row = row, !.arrival = "PatternLoop"]
  <2>1. r = [x EXCEPT !.speed = q.speed, !.delay = 0, !.tick = 0]
    BY <1>2 DEF BeginNextRow, StartRow
  <2> HIDE DEF r, row
  <2>2. r.tick = 0 /\ r.arrival = "PatternLoop"
    BY <1>0, <2>1 DEF Sequencers
  <2> QED BY <2>2 DEF Moves, r
<1>3. CASE jump # None /\ ~jump.within
  <2> DEFINE x == [q EXCEPT !.arrival = "Jump"]
             order == IF jump.order = None THEN q.order + 1 ELSE jump.order
  <2>1. Good(x) /\ x.atEnd = "Stop" /\ x.arrival = "Jump"
    BY <1>1
  <2>2. r = MoveToOrder(x, order, jump.row)
    BY <1>3 DEF BeginNextRow
  <2> HIDE DEF x, order
  <2>3. r.tick = 0 /\ r.arrival \in {"Jump", "NextOrder", "Wrapped"}
    BY <2>1, <2>2, MoveToOrderMoves
  <2> QED BY <2>3 DEF Moves
<1>4. CASE jump = None /\ q.row + 1 < RowsIn(Pattern(q.order))
  <2> DEFINE row == q.row + 1
             x == [q EXCEPT !.row = row, !.arrival = "Sequential"]
  <2>1. r = [x EXCEPT !.speed = q.speed, !.delay = 0, !.tick = 0]
    BY <1>4 DEF BeginNextRow, StartRow
  <2> HIDE DEF r, row
  <2>2. r.tick = 0 /\ r.arrival = "Sequential" /\ r.order = q.order /\ r.row = row
    BY <1>0, <2>1 DEF Sequencers
  <2> QED BY <2>2 DEF Moves, r, row
<1>5. CASE jump = None /\ ~(q.row + 1 < RowsIn(Pattern(q.order)))
  <2> DEFINE x == [q EXCEPT !.arrival = "NextOrder"]
  <2>1. Good(x) /\ x.atEnd = "Stop" /\ x.arrival = "NextOrder"
    BY <1>1
  <2>2. r = MoveToOrder(x, q.order + 1, 0)
    BY <1>5 DEF BeginNextRow
  <2> HIDE DEF x
  <2>3. r.tick = 0 /\ r.arrival \in {"Jump", "NextOrder", "Wrapped"}
    BY <2>1, <2>2, MoveToOrderMoves
  <2> QED BY <2>3 DEF Moves
<1>6. jump # None => jump.within \in BOOLEAN
  BY DEF OrNone, Jumps
<1> QED BY <1>2, <1>3, <1>4, <1>5, <1>6

LEMMA CommitMoves ==
    ASSUME NEW q, Good(q), q.atEnd = "Stop", NEW out \in Outs, Commit(q, out).state = "Ready"
    PROVE  LET r == Commit(q, out)
           IN  Moves(r, q) \/ (r.tick = q.tick + 1 /\ r.tick < TotalTicks(r) /\ r.order = q.order /\ r.row = q.row)
<1> DEFINE t == Timed(q, out)
           n == OneOn(q, out)
           free == [n EXCEPT !.jump = None]
           r == Commit(q, out)
<1>1. Good(t) /\ Good(n) /\ t.atEnd = "Stop" /\ n.atEnd = "Stop" /\ n.tick = q.tick + 1 /\ n.order = q.order /\ n.row = q.row
  <2>1. Good(t) /\ Good(n)
    BY TimedTyped
  <2>2. Goes(t, q)
    BY GoesOn DEF Good
  <2>3. n.atEnd = q.atEnd /\ n.tick = q.tick + 1 /\ n.order = q.order /\ n.row = q.row
    BY OneOnDoes DEF Good
  <2> QED BY <2>1, <2>2, <2>3 DEF Goes
<1>2. r = CASE out.stop -> EndNaturally(t)
            [] ~out.stop /\ n.tick < TotalTicks(n) -> n
            [] OTHER -> BeginNextRow(free, n.jump)
  BY CommitIs
<1>3. r.state = "Ready"
  OBVIOUS
<1> HIDE DEF t, n, r
<1>4. Good(free) /\ free.atEnd = "Stop" /\ free.order = n.order /\ free.row = n.row /\ free.tick = n.tick
  <2>1. n \in Sequencers
    BY <1>1 DEF Good
  <2>2. free \in Sequencers
    BY <2>1 DEF Sequencers, OrNone
  <2>3. free.order = n.order /\ free.row = n.row /\ free.atEnd = n.atEnd /\ free.tick = n.tick
    BY <2>1 DEF Sequencers
  <2> HIDE DEF free
  <2> QED BY <1>1, <2>2, <2>3, PlacedAlike DEF Good
<1>5. n.jump \in OrNone(Jumps) /\ out.stop \in BOOLEAN
  BY <1>1 DEF Good, Sequencers, Outs
<1> HIDE DEF free
<1>6. CASE out.stop
  BY <1>1, <1>2, <1>3, <1>6, StopsAtItsEnd
<1>7. CASE ~out.stop /\ n.tick < TotalTicks(n)
  BY <1>1, <1>2, <1>7 DEF r
<1>8. CASE ~out.stop /\ ~(n.tick < TotalTicks(n))
  <2>1. r = BeginNextRow(free, n.jump)
    BY <1>2, <1>8
  <2>2. Moves(r, free)
    BY <1>3, <1>4, <1>5, <2>1, BeginNextRowMoves
  <2> QED BY <1>1, <1>4, <2>2 DEF Moves, r
<1> QED BY <1>5, <1>6, <1>7, <1>8

\* The visits and the arrivals, with the row that a tick at its beginning is about to visit.
Played(q) == q.seen \cup (IF q.tick = 0 THEN {At(q)} ELSE {})
Arrivals(q) == IF q.tick = 0 THEN Arrive(q).arrivals ELSE q.arrivals

LEMMA DispatchMoves ==
    ASSUME IsSong(song), timeline \in OrNone(Timelines), NEW p, Steady(p), Steady(Dispatch(p)), ~Announces(Dispatch(p))
    PROVE  LET r == Dispatch(p) IN
           /\ r.seen = Played(p) /\ r.arrivals = Arrivals(p)
           /\ Moves(r, p) \/ (r.tick = p.tick + 1 /\ r.tick < TotalTicks(r) /\ r.order = p.order /\ r.row = p.row)
<1> DEFINE r == Dispatch(p)
           b == Begun(p)
           n == Ran(b)
           out == RunTick(b).out
           z == Quieted(p)
<1>0. Good(p) /\ p.armed /\ ~p.endReached /\ p.state = "Ready" /\ p.atEnd = "Stop" /\ r.state = "Ready"
  BY DEF Steady
<1>1. r.seen = Played(p)
  BY DispatchDoes DEF Played
<1>2. Good(z) /\ z.order = p.order /\ z.row = p.row /\ z.tick = p.tick /\ z.arrivals = p.arrivals /\ z.arrival = p.arrival
      /\ z.runs = TRUE /\ Verdict(Arrive(z)) = Verdict(Arrive(p))
  BY <1>0, QuietedTyped, QuietedIs
<1>3. Arrive(z).arrivals = Arrive(p).arrivals
  <2>1. z \in Sequencers /\ p \in Sequencers
    BY <1>0, <1>2 DEF Good
  <2> HIDE DEF z
  <2> QED BY <1>2, <2>1 DEF Arrive, Sequencers
<1>4. p.tick # 0 \/ Verdict(Arrive(p)) \notin Ends
  BY <1>0, DispatchAnnounces
<1>5. Good(b) /\ RunTick(b) \in Ticked /\ b.atEnd = "Stop"
  BY <1>0, BegunTyped, DispatchNotes
<1>6. b.order = p.order /\ b.row = p.row /\ b.tick = p.tick /\ b.arrivals = Arrivals(p) /\ b.runs
  <2>1. CASE p.tick # 0
    <3>1. b = z
      BY <2>1 DEF Begun
    <3> HIDE DEF b, z
    <3> QED BY <1>2, <2>1, <3>1 DEF Arrivals
  <2>2. CASE p.tick = 0
    <3>1. b = Judged(z)
      BY <1>2, <1>4, <2>2, BeginRowIs DEF Begun
    <3>2. /\ Judged(z).order = z.order /\ Judged(z).row = z.row /\ Judged(z).tick = z.tick
          /\ Judged(z).arrivals = Arrive(z).arrivals
          /\ Judged(z).runs = (Verdict(Arrive(z)) \notin Ends \/ z.atEnd = "Continue"
                              \/ (z.atEnd = "FadeOut" /\ Verdict(Arrive(z)) # "Wrapped"))
      BY <1>2, JudgedDoes
    <3> HIDE DEF b, z
    <3>3. b.runs
      BY <1>2, <1>4, <2>2, <3>1, <3>2
    <3> QED BY <1>2, <1>3, <2>2, <3>1, <3>2, <3>3 DEF Arrivals
  <2> QED BY <2>1, <2>2
<1>7. r = Commit(n, out)
  BY <1>6, DispatchIs
<1> HIDE DEF b, z, r
<1>8. Good(n) /\ n.atEnd = "Stop" /\ n.order = p.order /\ n.row = p.row /\ n.tick = p.tick /\ n.arrivals = Arrivals(p)
      /\ out \in Outs
  BY <1>5, <1>6, RanTyped, RanKeeps DEF Good, Ticked
<1> HIDE DEF n, out
<1>9. Moves(r, n) \/ (r.tick = n.tick + 1 /\ r.tick < TotalTicks(r) /\ r.order = n.order /\ r.row = n.row)
  BY <1>0, <1>7, <1>8, CommitMoves
<1>10. Moves(r, p) \/ (r.tick = p.tick + 1 /\ r.tick < TotalTicks(r) /\ r.order = p.order /\ r.row = p.row)
  BY <1>8, <1>9 DEF Moves
<1>11. r.arrivals = Arrivals(p)
  <2>1. OneOn(n, out).arrivals = n.arrivals /\ OneOn(n, out).atEnd = "Stop"
    BY <1>8, OneOnDoes DEF Good
  <2>2. ASSUME NEW x, Good(x), x.atEnd = "Stop" PROVE r # EndNaturally(x)
    BY <1>0, <2>2, StopsAtItsEnd
  <2>3. Goes(r, OneOn(n, out))
    BY <1>7, <1>8, <2>1, <2>2, CommitGoes DEF GoesOrEnds, Goes
  <2> QED BY <1>8, <2>1, <2>3 DEF Goes
<1> QED BY <1>1, <1>10, <1>11 DEF r

\* The longest row: a speed and a delay are bytes, 255 * (1 + 255) ticks.
TicksOfARow == 65280

\* What holds at every tick of a scan.
Counts(q) == q.tick < TicksOfARow /\ (q.tick # 0 => q.arrivals <= MaxArrivals)

LEMMA RowsTakeTime == TicksOfARow \in Nat /\ TicksOfARow >= 1
BY DEF TicksOfARow

LEMMA LongestRow == ASSUME NEW q \in Sequencers PROVE TotalTicks(q) \in Nat /\ TotalTicks(q) <= TicksOfARow
<1>1. q.speed \in 0 .. 255 /\ q.delay \in 0 .. 255
  BY DEF Sequencers, Byte
<1>2. \A s \in 0 .. 255 : \A d \in 1 .. 256 : s * d \in Nat /\ s * d <= 255 * d
  <2> TAKE s \in 0 .. 255
  <2> TAKE d \in 1 .. 256
  <2>1. (255 - s) * d >= 0
    BY SMTT(30)
  <2>2. (255 - s) * d = 255 * d - s * d
    BY SMTT(30)
  <2>3. s * d \in Nat
    BY SMTT(30)
  <2> QED BY <2>1, <2>2, <2>3
<1>3. 1 + q.delay \in 1 .. 256
  BY <1>1
<1> DEFINE k == 1 + q.delay
<1>4. q.speed * k \in Nat /\ q.speed * k <= 255 * k
  BY <1>1, <1>2, <1>3
<1> HIDE DEF k
<1>5. 255 * k <= 255 * 256 /\ 255 * k \in Nat
  BY <1>3 DEF k
<1>6. TotalTicks(q) = q.speed * k
  BY DEF TotalTicks, k
<1> QED BY <1>4, <1>5, <1>6 DEF TicksOfARow

\* The rows of a song whose patterns are no taller than this.
Rows(s, tall) == (0 .. (Len(s.orders) - 1)) \X (0 .. (tall - 1))

LEMMA RowsOfASong ==
    ASSUME IsSong(song), NEW tall \in Nat \ {0}, \A p \in Patterns : RowsIn(p) <= tall
    PROVE  /\ IsFiniteSet(Rows(song, tall)) /\ Cardinality(Rows(song, tall)) = Len(song.orders) * tall
           /\ Len(song.orders) \in Nat
           /\ \A q : Good(q) => At(q) \in Rows(song, tall) /\ q.row \in 0 .. (tall - 1)
<1>1. Len(song.orders) \in Nat /\ DOMAIN Orders = 1 .. Len(song.orders)
  BY TheSong DEF Orders
<1>2. ASSUME NEW k \in Nat PROVE IsFiniteSet(0 .. (k - 1)) /\ Cardinality(0 .. (k - 1)) = k
  <2>1. 0 \in Int /\ k - 1 \in Int
    OBVIOUS
  <2>2. IsFiniteSet(0 .. (k - 1)) /\ Cardinality(0 .. (k - 1)) = IF 0 > k - 1 THEN 0 ELSE (k - 1) - 0 + 1
    BY <2>1, FS_Interval
  <2> QED BY <2>2
<1>3. IsFiniteSet(Rows(song, tall)) /\ Cardinality(Rows(song, tall)) = Len(song.orders) * tall
  <2> DEFINE S == 0 .. (Len(song.orders) - 1)
             T == 0 .. (tall - 1)
  <2>1. Rows(song, tall) = S \X T
    BY DEF Rows
  <2>2. IsFiniteSet(S) /\ IsFiniteSet(T) /\ Cardinality(S) = Len(song.orders) /\ Cardinality(T) = tall
    BY <1>1, <1>2
  <2> HIDE DEF S, T
  <2>3. IsFiniteSet(S \X T) /\ Cardinality(S \X T) = Cardinality(S) * Cardinality(T)
    BY <2>2, FS_Product
  <2> QED BY <2>1, <2>2, <2>3
<1>4. ASSUME NEW q, Good(q) PROVE At(q) \in Rows(song, tall) /\ q.row \in 0 .. (tall - 1)
  <2>1. q.order \in Nat /\ q.row \in Nat /\ q.order + 1 \in DOMAIN Orders /\ Pattern(q.order) \in Patterns
        /\ (q.row < RowsIn(Pattern(q.order)) \/ q.row = 0)
    BY <1>4 DEF Good, Placed, Sequencers
  <2>2. RowsIn(Pattern(q.order)) \in Nat /\ RowsIn(Pattern(q.order)) <= tall
    BY <2>1, TheSong
  <2>3. q.row \in 0 .. (tall - 1)
    BY <2>1, <2>2
  <2>4. q.order \in 0 .. (Len(song.orders) - 1)
    BY <1>1, <2>1
  <2> QED BY <2>3, <2>4 DEF At, Rows
<1> QED BY <1>1, <1>3, <1>4

\* The rows of a song, as many as there may be.
Places(s) == Rows(s, MaxRows)

LEMMA PlacesOfASong ==
    ASSUME IsSong(song)
    PROVE  /\ IsFiniteSet(Places(song)) /\ Cardinality(Places(song)) = Len(song.orders) * MaxRows /\ Len(song.orders) \in Nat
           /\ \A q : Good(q) => At(q) \in Places(song) /\ q.row \in 0 .. (MaxRows - 1)
<1>1. MaxRows \in Nat \ {0} /\ \A p \in Patterns : RowsIn(p) <= MaxRows
  BY TheSong DEF MaxRows
<1> QED BY <1>1, RowsOfASong DEF Places

\* Digits: a number of a higher place outweighs what is below it.
LEMMA Digits ==
    ASSUME NEW w \in Nat, NEW u \in Nat, NEW x \in 0 .. (w - 1)
    PROVE  /\ u * w + x \in Nat
           /\ \A v \in Nat, y \in 0 .. (w - 1) : v < u => v * w + y < u * w + x
           /\ \A U \in Nat : u < U => u * w + x < U * w
<1>1. \A a \in Nat : a * w \in Nat
  BY SMTT(30)
<1>2. \A a, c \in Nat : a < c => a * w + w <= c * w
  <2> TAKE a, c \in Nat
  <2> SUFFICES ASSUME a < c PROVE a * w + w <= c * w
    OBVIOUS
  <2>1. c - a - 1 \in Nat
    OBVIOUS
  <2>2. (c - a - 1) * w \in Nat
    BY <1>1, <2>1
  <2>3. (c - a - 1) * w = c * w - a * w - w
    BY SMTT(30)
  <2>4. a * w \in Nat /\ c * w \in Nat
    BY <1>1
  <2> QED BY <2>2, <2>3, <2>4
<1>3. u * w + x \in Nat
  BY <1>1
<1>4. ASSUME NEW v \in Nat, NEW y \in 0 .. (w - 1), v < u PROVE v * w + y < u * w + x
  <2>1. v * w + w <= u * w /\ v * w \in Nat /\ u * w \in Nat
    BY <1>1, <1>2, <1>4
  <2> QED BY <2>1
<1>5. ASSUME NEW U \in Nat, u < U PROVE u * w + x < U * w
  <2>1. u * w + w <= U * w /\ U * w \in Nat /\ u * w \in Nat
    BY <1>1, <1>2, <1>5
  <2> QED BY <2>1
<1> QED BY <1>3, <1>4, <1>5

\* What is left of a scan: rows never played, arrivals, rows and ticks, in this order.
Number(u, a, r, t) == ((u * (MaxArrivals + 1) + a) * MaxRows + r) * TicksOfARow + t
Unplayed(q) == Cardinality(Places(song) \ Played(q))
Left(q) == Number(Unplayed(q), MaxArrivals - Arrivals(q), (MaxRows - 1) - q.row, (TicksOfARow - 1) - q.tick)

\* A scan is over by then.
MostTicks(s) == (((Len(s.orders) * MaxRows + 1) * (MaxArrivals + 1)) * MaxRows) * TicksOfARow

LEMMA NumbersGoDown ==
    ASSUME NEW u \in Nat, NEW a \in 0 .. MaxArrivals, NEW r \in 0 .. (MaxRows - 1), NEW t \in 0 .. (TicksOfARow - 1)
    PROVE  /\ Number(u, a, r, t) \in Nat
           /\ \A v \in Nat, b \in 0 .. MaxArrivals, s \in 0 .. (MaxRows - 1), z \in 0 .. (TicksOfARow - 1) :
                v < u \/ (v = u /\ (b < a \/ (b = a /\ (s < r \/ (s = r /\ z < t))))) =>
                  Number(v, b, s, z) < Number(u, a, r, t)
           /\ \A U \in Nat : u < U => Number(u, a, r, t) < ((U * (MaxArrivals + 1)) * MaxRows) * TicksOfARow
<1> DEFINE w1 == MaxArrivals + 1
           w2 == MaxRows
           w3 == TicksOfARow
           d1 == u * w1 + a
           d2 == d1 * w2 + r
           d3 == d2 * w3 + t
<1>1. w1 \in Nat /\ w2 \in Nat /\ w3 \in Nat /\ a \in 0 .. (w1 - 1)
  BY DEF MaxRows, TicksOfARow
<1>2. r \in 0 .. (w2 - 1) /\ t \in 0 .. (w3 - 1) /\ Number(u, a, r, t) = d3
  BY DEF Number
<1>3. ASSUME NEW v \in Nat, NEW b \in 0 .. MaxArrivals, NEW s \in 0 .. (MaxRows - 1), NEW z \in 0 .. (TicksOfARow - 1),
             v < u \/ (v = u /\ (b < a \/ (b = a /\ (s < r \/ (s = r /\ z < t)))))
      PROVE  Number(v, b, s, z) < d3
  <2> DEFINE e1 == v * w1 + b
             e2 == e1 * w2 + s
             e3 == e2 * w3 + z
  <2>1. b \in 0 .. (w1 - 1) /\ s \in 0 .. (w2 - 1) /\ z \in 0 .. (w3 - 1) /\ Number(v, b, s, z) = e3
    BY <1>1 DEF Number
  <2> HIDE DEF w1, w2, w3, d1, d2, d3, e1, e2, e3
  <2>2. d1 \in Nat /\ e1 \in Nat
    BY <1>1, <2>1, Digits DEF d1, e1
  <2>3. e1 < d1 \/ (e1 = d1 /\ (s < r \/ (s = r /\ z < t)))
    <3>1. CASE v < u
      BY <1>1, <2>1, <3>1, Digits DEF d1, e1
    <3>2. CASE v = u
      <4>1. v * w1 = u * w1
        BY <3>2
      <4>2. u * w1 \in Nat
        <5>1. 0 \in 0 .. (w1 - 1) /\ u * w1 + 0 \in Nat
          BY <1>1, Digits
        <5> QED BY <1>1, <5>1, SMTT(30)
      <4> QED BY <1>3, <3>2, <4>1, <4>2 DEF d1, e1
    <3> QED BY <1>3, <3>1, <3>2
  <2>4. d2 \in Nat /\ e2 \in Nat
    BY <1>1, <1>2, <2>1, <2>2, Digits DEF d2, e2
  <2>5. e2 < d2 \/ (e2 = d2 /\ z < t)
    <3>1. CASE e1 < d1
      BY <1>1, <1>2, <2>1, <2>2, <3>1, Digits DEF d2, e2
    <3>2. CASE e1 = d1
      <4>1. e1 * w2 = d1 * w2
        BY <3>2
      <4>2. d1 * w2 \in Nat
        BY <1>1, <2>2, SMTT(30)
      <4> QED BY <2>2, <2>3, <3>2, <4>1, <4>2 DEF d2, e2
    <3> QED BY <2>3, <3>1, <3>2
  <2>6. e3 < d3
    <3>1. CASE e2 < d2
      BY <1>1, <1>2, <2>1, <2>4, <3>1, Digits DEF d3, e3
    <3>2. CASE e2 = d2
      <4>1. e2 * w3 = d2 * w3
        BY <3>2
      <4>2. d2 * w3 \in Nat
        BY <1>1, <2>4, SMTT(30)
      <4> QED BY <2>4, <2>5, <3>2, <4>1, <4>2 DEF d3, e3
    <3> QED BY <2>5, <3>1, <3>2
  <2> QED BY <2>1, <2>6
<1>4. d3 \in Nat /\ \A U \in Nat : u < U => d3 < ((U * w1) * w2) * w3
  <2> HIDE DEF w1, w2, w3, d1, d2, d3
  <2>1. d1 \in Nat /\ \A U \in Nat : u < U => d1 < U * w1
    BY <1>1, Digits DEF d1
  <2>2. \A a1, b1 \in Nat : a1 * b1 \in Nat
    BY SMTT(30)
  <2>3. d2 \in Nat /\ \A U \in Nat : u < U => d2 < (U * w1) * w2
    <3>1. d2 \in Nat /\ \A V \in Nat : d1 < V => d2 < V * w2
      BY <1>1, <1>2, <2>1, Digits DEF d2
    <3> QED BY <1>1, <2>1, <2>2, <3>1
  <2>4. d3 \in Nat /\ \A V \in Nat : d2 < V => d3 < V * w3
    BY <1>1, <1>2, <2>3, Digits DEF d3
  <2> QED BY <1>1, <2>2, <2>3, <2>4
<1> HIDE DEF d3
<1> QED BY <1>2, <1>3, <1>4

\* The digits of a tick that does not find the end.
LEMMA LeftIsANumber ==
    ASSUME IsSong(song), timeline \in OrNone(Timelines), NEW q, Steady(q), Counts(q), ~Announces(Dispatch(q))
    PROVE  /\ Arrivals(q) \in 0 .. MaxArrivals /\ q.row \in 0 .. (MaxRows - 1) /\ q.tick \in 0 .. (TicksOfARow - 1)
           /\ Unplayed(q) \in Nat /\ Unplayed(q) < Len(song.orders) * MaxRows + 1
           /\ Left(q) \in Nat /\ Left(q) < MostTicks(song)
<1>0. Good(q) /\ q.armed /\ q \in Sequencers
  BY DEF Steady, Good
<1>1. Arrivals(q) \in 0 .. MaxArrivals
  <2> DEFINE a == Arrive(q)
  <2>1. a.armed = q.armed /\ a.arrival = q.arrival /\ a.arrivals \in Nat
    BY <1>0, ArriveKeeps, ArriveTyped DEF Good, Sequencers
  <2>2. q.arrivals \in Nat
    BY <1>0 DEF Sequencers
  <2>3. CASE q.tick = 0
    <3>1. Verdict(a) \notin Ends
      BY <1>0, <2>3, DispatchAnnounces
    <3> HIDE DEF a
    <3>2. ~(a.arrivals > MaxArrivals)
      BY <1>0, <2>1, <3>1 DEF Verdict, Ends
    <3> QED BY <2>1, <2>3, <3>2 DEF Arrivals, a
  <2>4. CASE q.tick # 0
    BY <2>2, <2>4 DEF Arrivals, Counts
  <2> QED BY <2>3, <2>4
<1>2. q.row \in 0 .. (MaxRows - 1)
  BY <1>0, PlacesOfASong
<1>3. q.tick \in 0 .. (TicksOfARow - 1)
  BY <1>0, RowsTakeTime DEF Counts, Sequencers
<1>4. Unplayed(q) \in Nat /\ Unplayed(q) <= Len(song.orders) * MaxRows
  <2>1. Places(song) \ Played(q) \in SUBSET Places(song)
    OBVIOUS
  <2>2. IsFiniteSet(Places(song)) /\ Cardinality(Places(song)) = Len(song.orders) * MaxRows
    BY PlacesOfASong
  <2>3. IsFiniteSet(Places(song) \ Played(q)) /\ Cardinality(Places(song) \ Played(q)) <= Cardinality(Places(song))
    BY <2>1, <2>2, FS_Subset
  <2>4. Cardinality(Places(song) \ Played(q)) \in Nat
    BY <2>3, FS_CardinalityType
  <2> QED BY <2>2, <2>3, <2>4 DEF Unplayed
<1>5. Len(song.orders) * MaxRows + 1 \in Nat /\ Unplayed(q) < Len(song.orders) * MaxRows + 1
  <2>1. Len(song.orders) \in Nat
    BY PlacesOfASong
  <2>2. Len(song.orders) * MaxRows \in Nat
    BY <2>1 DEF MaxRows
  <2> QED BY <1>4, <2>2
<1>6. /\ MaxArrivals - Arrivals(q) \in 0 .. MaxArrivals /\ (MaxRows - 1) - q.row \in 0 .. (MaxRows - 1)
      /\ (TicksOfARow - 1) - q.tick \in 0 .. (TicksOfARow - 1)
  <2>1. MaxArrivals \in Nat
    BY BoundAssumption
  <2> QED BY <1>1, <1>2, <1>3, <2>1, RowsTakeTime DEF MaxRows
<1>7. Left(q) \in Nat /\ Left(q) < MostTicks(song)
  BY <1>4, <1>5, <1>6, NumbersGoDown DEF Left, MostTicks
<1> QED BY <1>1, <1>2, <1>3, <1>4, <1>5, <1>7

\* As long as the end is not found, every tick brings it nearer.
LEMMA TheEndComesNearer ==
    ASSUME IsSong(song), timeline \in OrNone(Timelines), NEW p, Steady(p), Counts(p),
           Steady(Dispatch(p)), ~Announces(Dispatch(p))
    PROVE  LET r == Dispatch(p) IN Counts(r) /\ (~Announces(Dispatch(r)) => Left(r) < Left(p))
<1> DEFINE r == Dispatch(p)
<1>0. /\ Arrivals(p) \in 0 .. MaxArrivals /\ p.row \in 0 .. (MaxRows - 1) /\ p.tick \in 0 .. (TicksOfARow - 1)
      /\ Unplayed(p) \in Nat
  BY LeftIsANumber
<1>1. /\ r.seen = Played(p) /\ r.arrivals = Arrivals(p)
      /\ Moves(r, p) \/ (r.tick = p.tick + 1 /\ r.tick < TotalTicks(r) /\ r.order = p.order /\ r.row = p.row)
  BY DispatchMoves
<1>2. Steady(r) /\ Good(r) /\ r \in Sequencers /\ r.armed /\ p \in Sequencers
  BY DEF Steady, Good
<1> HIDE DEF r
<1>3. Counts(r)
  <2>1. CASE Moves(r, p)
    <3>1. r.tick = 0
      BY <2>1 DEF Moves
    <3> QED BY <3>1, RowsTakeTime DEF Counts
  <2>2. CASE ~Moves(r, p)
    <3>1. TotalTicks(r) \in Nat /\ TotalTicks(r) <= TicksOfARow /\ r.tick \in Nat
      BY <1>2, LongestRow DEF Sequencers
    <3>2. r.tick < TotalTicks(r) /\ r.arrivals <= MaxArrivals
      BY <1>0, <1>1, <2>2, BoundAssumption
    <3> QED BY <3>1, <3>2, RowsTakeTime DEF Counts
  <2> QED BY <2>1, <2>2
<1>4. ASSUME ~Announces(Dispatch(r)) PROVE Left(r) < Left(p)
  <2>1. /\ Arrivals(r) \in 0 .. MaxArrivals /\ r.row \in 0 .. (MaxRows - 1) /\ r.tick \in 0 .. (TicksOfARow - 1)
        /\ Unplayed(r) \in Nat
    BY <1>2, <1>3, <1>4, LeftIsANumber
  <2> DEFINE a(q) == MaxArrivals - Arrivals(q)
             w(q) == (MaxRows - 1) - q.row
             t(q) == (TicksOfARow - 1) - q.tick
  <2>2. /\ a(r) \in 0 .. MaxArrivals /\ w(r) \in 0 .. (MaxRows - 1) /\ t(r) \in 0 .. (TicksOfARow - 1)
        /\ a(p) \in 0 .. MaxArrivals /\ w(p) \in 0 .. (MaxRows - 1) /\ t(p) \in 0 .. (TicksOfARow - 1)
    BY <1>0, <2>1, BoundAssumption, RowsTakeTime DEF MaxRows
  <2>3. \/ Unplayed(r) < Unplayed(p)
        \/ Unplayed(r) = Unplayed(p) /\ \/ a(r) < a(p)
                                        \/ a(r) = a(p) /\ (w(r) < w(p) \/ (w(r) = w(p) /\ t(r) < t(p)))
    <3>1. CASE ~Moves(r, p)
      <4>1. r.tick = p.tick + 1 /\ r.row = p.row /\ r.tick # 0
        BY <1>0, <1>1, <3>1
      <4>2. Played(r) = Played(p) /\ Arrivals(r) = Arrivals(p)
        BY <1>1, <4>1 DEF Played, Arrivals
      <4>3. Unplayed(r) = Unplayed(p) /\ a(r) = a(p) /\ w(r) = w(p)
        BY <4>1, <4>2 DEF Unplayed
      <4>4. t(r) < t(p)
        <5>1. p.tick \in Nat /\ TicksOfARow \in Nat
          BY <1>0, RowsTakeTime
        <5> QED BY <4>1, <5>1
      <4> QED BY <4>3, <4>4
    <3>2. CASE Moves(r, p) /\ At(r) \notin Played(p)
      <4>1. r.tick = 0
        BY <3>2 DEF Moves
      <4>2. Places(song) \ Played(r) = (Places(song) \ Played(p)) \ {At(r)}
        BY <1>1, <4>1 DEF Played
      <4>3. At(r) \in Places(song) \ Played(p)
        BY <1>2, <3>2, PlacesOfASong
      <4>4. IsFiniteSet(Places(song) \ Played(p))
        <5>1. IsFiniteSet(Places(song)) /\ Places(song) \ Played(p) \in SUBSET Places(song)
          BY PlacesOfASong
        <5> QED BY <5>1, FS_Subset
      <4>5. Unplayed(r) = Unplayed(p) - 1
        BY <4>2, <4>3, <4>4, FS_RemoveElement DEF Unplayed
      <4> QED BY <1>0, <4>5
    <3>3. CASE Moves(r, p) /\ At(r) \in Played(p)
      <4>1. r.tick = 0
        BY <3>3 DEF Moves
      <4>2. Played(r) = Played(p)
        BY <1>1, <3>3, <4>1 DEF Played
      <4>3. Unplayed(r) = Unplayed(p)
        BY <4>2 DEF Unplayed
      <4> DEFINE x == Arrive(r)
      <4>4. x.armed = r.armed /\ x.arrival = r.arrival /\ x.seen = r.seen /\ At(x) = At(r) /\ Verdict(x) \notin Ends
        BY <1>2, <1>4, <4>1, ArriveKeeps, DispatchAnnounces DEF At
      <4>5. CASE r.arrival = "Sequential" /\ r.row = p.row + 1
        <5>1. x = r
          BY <4>5 DEF Arrive
        <5>2. Arrivals(r) = Arrivals(p)
          BY <1>1, <4>1, <5>1 DEF Arrivals
        <5>3. a(r) = a(p) /\ w(r) < w(p)
          BY <1>0, <4>5, <5>2 DEF MaxRows
        <5> QED BY <4>3, <5>3
      <4>6. CASE r.arrival = "PatternLoop"
        <5>1. x.arrivals = r.arrivals + 1
          BY <1>2, <4>6 DEF Arrive, Sequencers
        <5>2. Arrivals(r) = Arrivals(p) + 1
          BY <1>1, <4>1, <5>1 DEF Arrivals
        <5>3. a(r) < a(p)
          BY <1>0, <5>2
        <5> QED BY <4>3, <5>3
      <4>7. CASE r.arrival \in {"Jump", "NextOrder", "Wrapped"}
        <5>1. x = [r EXCEPT !.inside = FALSE, !.arrivals = 0]
          BY <4>7 DEF Arrive
        <5>2. x.inside = FALSE /\ x.arrivals = 0
          BY <1>2, <5>1 DEF Sequencers
        <5>3. At(x) \in x.seen
          BY <1>1, <3>3, <4>4
        <5> HIDE DEF x
        <5>4. Verdict(x) \in Ends
          BY <1>2, <4>4, <5>2, <5>3 DEF Verdict, Ends
        <5> QED BY <4>4, <5>4
      <4> QED BY <3>3, <4>5, <4>6, <4>7 DEF Moves
    <3> QED BY <3>1, <3>2, <3>3
  <2>4. Left(r) = Number(Unplayed(r), a(r), w(r), t(r)) /\ Left(p) = Number(Unplayed(p), a(p), w(p), t(p))
    BY DEF Left
  <2> HIDE DEF a, w, t
  <2> DEFINE u1 == Unplayed(p)
             a1 == a(p)
             w1 == w(p)
             t1 == t(p)
             u2 == Unplayed(r)
             a2 == a(r)
             w2 == w(r)
             t2 == t(r)
  <2>5. /\ u1 \in Nat /\ a1 \in 0 .. MaxArrivals /\ w1 \in 0 .. (MaxRows - 1) /\ t1 \in 0 .. (TicksOfARow - 1)
        /\ u2 \in Nat /\ a2 \in 0 .. MaxArrivals /\ w2 \in 0 .. (MaxRows - 1) /\ t2 \in 0 .. (TicksOfARow - 1)
        /\ u2 < u1 \/ (u2 = u1 /\ (a2 < a1 \/ (a2 = a1 /\ (w2 < w1 \/ (w2 = w1 /\ t2 < t1)))))
        /\ Left(r) = Number(u2, a2, w2, t2) /\ Left(p) = Number(u1, a1, w1, t1)
    BY <1>0, <2>1, <2>2, <2>3, <2>4
  <2> HIDE DEF u1, a1, w1, t1, u2, a2, w2, t2
  <2>6. Number(u2, a2, w2, t2) < Number(u1, a1, w1, t1)
    BY <2>5, NumbersGoDown
  <2> QED BY <2>5, <2>6
<1> QED BY <1>3, <1>4 DEF r

LEMMA MostIsANumber == ASSUME IsSong(song) PROVE MostTicks(song) \in Nat
<1>1. Len(song.orders) \in Nat
  BY PlacesOfASong
<1>2. \A a, b \in Nat : a * b \in Nat
  BY SMTT(30)
<1>3. MaxRows \in Nat /\ MaxArrivals + 1 \in Nat /\ TicksOfARow \in Nat
  BY BoundAssumption, RowsTakeTime DEF MaxRows
<1>4. Len(song.orders) * MaxRows + 1 \in Nat
  BY <1>1, <1>2, <1>3
<1>5. ((Len(song.orders) * MaxRows + 1) * (MaxArrivals + 1)) * MaxRows \in Nat
  BY <1>2, <1>3, <1>4
<1> QED BY <1>2, <1>3, <1>5 DEF MostTicks

\* Until a tick finds the end, what has been played and what is left stay below the bound.
LEMMA RunIsShort ==
    ASSUME IsSong(song), timeline \in OrNone(Timelines), NEW run, NEW n \in Nat, NEW marks, RunOf(run, n, marks),
           NEW k \in 0 .. n, run[k].state = "Ready"
    PROVE  Counts(run[k]) /\ (~Announces(Dispatch(run[k])) => k + Left(run[k]) < MostTicks(song))
<1> DEFINE S == {i \in 0 .. k : Counts(run[i]) /\ (~Announces(Dispatch(run[i])) => i + Left(run[i]) < MostTicks(song))}
<1>0. /\ run[0] = NewSequencer("Stop") /\ \A i \in 0 .. n : After(run[i], i, marks)
      /\ \A i \in 0 .. n : i # n => run[i].state = "Ready" /\ run[i + 1] = Dispatch(run[i])
  BY DEF RunOf
<1>1. \A i \in 0 .. k : Steady(run[i]) /\ ~Announces(run[i])
  <2> SUFFICES ASSUME NEW i \in 0 .. k PROVE Steady(run[i]) /\ ~Announces(run[i])
    OBVIOUS
  <2>1. i \in 0 .. n /\ (i = k \/ i # n)
    OBVIOUS
  <2>2. run[i].state = "Ready" /\ After(run[i], i, marks)
    BY <1>0, <2>1
  <2> QED BY <2>2 DEF After, StillSteady, EndedAt
<1>2. 0 \in S
  <2> DEFINE q == run[0]
  <2>1. q.tick = 0
    <3>1. "Stop" \in AtEnds
      BY DEF AtEnds
    <3>2. NewSequencer("Stop").tick = 0
      BY <3>1, NewSequencerDoes
    <3> QED BY <1>0, <3>2
  <2>2. Steady(q) /\ 0 \in 0 .. k
    BY <1>1
  <2> HIDE DEF q
  <2>3. Counts(q)
    BY <2>1, RowsTakeTime DEF Counts
  <2>4. ~Announces(Dispatch(q)) => 0 + Left(q) < MostTicks(song)
    <3> SUFFICES ASSUME ~Announces(Dispatch(q)) PROVE 0 + Left(q) < MostTicks(song)
      OBVIOUS
    <3>1. Left(q) \in Nat /\ Left(q) < MostTicks(song)
      BY <2>2, <2>3, LeftIsANumber
    <3> QED BY <3>1
  <2> QED BY <2>2, <2>3, <2>4 DEF q
<1>3. ASSUME NEW i \in 0 .. k, i \in S, i # k PROVE i + 1 \in S
  <2> DEFINE p == run[i]
             r == run[i + 1]
  <2>1. i + 1 \in 0 .. k /\ i \in Nat /\ i \in 0 .. n /\ i # n
    BY <1>3
  <2>2. Steady(p) /\ Steady(r) /\ r = Dispatch(p) /\ ~Announces(r)
    BY <1>0, <1>1, <1>3, <2>1
  <2>3. Counts(p) /\ (~Announces(Dispatch(p)) => i + Left(p) < MostTicks(song))
    BY <1>3
  <2> HIDE DEF p, r
  <2>4. Counts(r) /\ (~Announces(Dispatch(r)) => Left(r) < Left(p))
    BY <2>2, <2>3, TheEndComesNearer
  <2>5. ~Announces(Dispatch(r)) => (i + 1) + Left(r) < MostTicks(song)
    <3> SUFFICES ASSUME ~Announces(Dispatch(r)) PROVE (i + 1) + Left(r) < MostTicks(song)
      OBVIOUS
    <3>1. Left(r) \in Nat
      BY <2>2, <2>4, LeftIsANumber
    <3>2. Left(p) \in Nat /\ i + Left(p) < MostTicks(song)
      BY <2>2, <2>3, LeftIsANumber
    <3>3. MostTicks(song) \in Nat
      BY MostIsANumber
    <3> QED BY <2>1, <2>4, <3>1, <3>2, <3>3
  <2> QED BY <2>1, <2>4, <2>5 DEF r
<1>4. k \in S
  <2>1. k \in Nat
    OBVIOUS
  <2> HIDE DEF S
  <2> QED BY <1>2, <1>3, <2>1, Onwards
<1> QED BY <1>4

LEMMA ScansAreShort ==
    ASSUME IsSong(song), timeline \in OrNone(Timelines), NEW run, NEW n \in Nat, NEW marks, RunOf(run, n, marks),
           run[n].state = "Ready"
    PROVE  n <= MostTicks(song)
<1>0. MostTicks(song) \in Nat
  BY MostIsANumber
<1>1. CASE n = 0
  BY <1>0, <1>1
<1>2. CASE n # 0
  <2>1. PICK k \in Nat : k + 1 = n
    <3>1. n - 1 \in Nat /\ (n - 1) + 1 = n
      BY <1>2
    <3> QED BY <3>1
  <2> DEFINE p == run[k]
  <2>2. k \in 0 .. n /\ k # n /\ n \in 0 .. n
    BY <2>1
  <2>3. p.state = "Ready" /\ run[n] = Dispatch(p) /\ After(p, k, marks) /\ After(run[n], n, marks)
    BY <2>1, <2>2 DEF RunOf
  <2>4. ~Announces(run[n]) /\ Steady(p)
    BY <2>3 DEF After, StillSteady, EndedAt
  <2>5. Counts(p) /\ (~Announces(Dispatch(p)) => k + Left(p) < MostTicks(song))
    BY <2>2, <2>3, RunIsShort
  <2> HIDE DEF p
  <2>6. Left(p) \in Nat
    BY <2>3, <2>4, <2>5, LeftIsANumber
  <2> QED BY <1>0, <2>1, <2>3, <2>4, <2>5, <2>6
<1> QED BY <1>1, <1>2

\* A scan that still runs is within the bound.
ScanIsShort == phase = "scan" /\ seq.state = "Ready" => ticks <= MostTicks(song)

LEMMA ScanStaysShort == ASSUME SequencerInv PROVE ScanIsShort
<1> SUFFICES ASSUME phase = "scan", seq.state = "Ready" PROVE ticks <= MostTicks(song)
  BY DEF ScanIsShort
<1>1. IsSong(song) /\ timeline \in OrNone(Timelines) /\ ticks \in Nat
  BY SongsAssumption DEF SequencerInv, TypeInv
<1>2. PICK run : RunOf(run, ticks, found) /\ run[ticks] = seq
  BY DEF SequencerInv, ScanIsARun
<1> QED BY <1>1, <1>2, ScansAreShort

\* No song keeps the scan going for ever: whatever its loops, jumps and delays, the detector
\* fires or the song stops within a number of ticks that its length gives
\* (LoopDetector::visit, MAX_PATTERN_LOOP_ARRIVALS).
THEOREM NoScanIsEndless == Spec => []ScanIsShort
<1>1. SequencerInv => ScanIsShort
  BY ScanStaysShort
<1> QED BY <1>1, SequencerInvInit, SequencerInvNext, PTL DEF Spec

-----------------------------------------------------------------------------
(* 11. Songs without pattern loops *)

\* No pattern is taller, no row faster or longer than this, and no pattern loops.
Plain(s, tall, speed, delay) ==
  /\ tall \in 1 .. MaxRows /\ speed \in 1 .. 255 /\ delay \in Byte
  /\ s.speed <= speed
  /\ \A p \in DOMAIN s.rows : s.rows[p] <= tall
  /\ \A p \in DOMAIN s.rows : \A row \in 1 .. s.rows[p], ch \in 1 .. s.channels :
       LET cell == s.cells[p][row][ch]
       IN  /\ cell.op # "loop"
           /\ cell.op = "speed" => cell.arg <= speed
           /\ cell.op = "delay" => cell.arg <= delay

\* The ticks of a row, and of every row once.
RowTicks(speed, delay) == speed * (1 + delay)
PlainTicks(s, tall, speed, delay) == (Len(s.orders) * tall) * RowTicks(speed, delay)

LEMMA RowTicksGrow ==
    ASSUME NEW S \in Byte, NEW D \in Byte, NEW s \in Byte, NEW d \in Byte, s <= S, d <= D
    PROVE  s * (1 + d) \in Nat /\ RowTicks(S, D) \in Nat /\ s * (1 + d) <= RowTicks(S, D)
<1>0. S \in Nat /\ D \in Nat /\ s \in Nat /\ d \in Nat
  BY DEF Byte
<1>1. \A a, b \in Nat : a * b \in Nat
  BY SMTT(30)
<1> DEFINE k == 1 + d
           K == 1 + D
<1>2. k \in Nat /\ K \in Nat /\ k <= K /\ S - s \in Nat /\ K - k \in Nat
  BY <1>0
<1> HIDE DEF k, K
<1>3. (S - s) * K \in Nat /\ s * (K - k) \in Nat /\ s * k \in Nat /\ S * K \in Nat
  BY <1>0, <1>1, <1>2
<1>4. (S - s) * K = S * K - s * K /\ s * (K - k) = s * K - s * k /\ s * K \in Nat
  BY <1>0, <1>2, SMTT(30)
<1>5. s * k <= S * K
  BY <1>3, <1>4
<1> QED BY <1>3, <1>5 DEF RowTicks, k, K

\* A row of such a song as far as its effects have run, and what comes of it.
Brisk(c, speed, delay) == c.dest = None /\ c.speed <= speed /\ c.delay <= delay
Onward(out, speed, delay) == out.speed <= speed /\ out.delay <= delay /\ (out.jump # None => out.jump.within = FALSE)

LEMMA EffectBrisk ==
    ASSUME NEW speed \in Byte, NEW delay \in Byte, NEW c \in RowStates, Brisk(c, speed, delay), NEW ch, NEW row,
           NEW cell \in Cells, cell.op # "loop", cell.op = "speed" => cell.arg <= speed,
           cell.op = "delay" => cell.arg <= delay
    PROVE  Brisk(Effect(c, ch, row, cell), speed, delay)
<1>1. PatternJump(c, cell.arg).dest = c.dest /\ PatternJump(c, cell.arg).speed = c.speed
      /\ PatternJump(c, cell.arg).delay = c.delay
  BY DEF PatternJump, RowStates
<1>2. PatternBreak(c, cell.arg).dest = c.dest /\ PatternBreak(c, cell.arg).speed = c.speed
      /\ PatternBreak(c, cell.arg).delay = c.delay
  BY DEF PatternBreak, RowStates
<1>3. PatternDelay(c, cell.arg).dest = c.dest /\ PatternDelay(c, cell.arg).speed = c.speed
      /\ PatternDelay(c, cell.arg).delay \in {c.delay, cell.arg}
  BY DEF PatternDelay, RowStates
<1>4. [c EXCEPT !.speed = cell.arg].dest = c.dest /\ [c EXCEPT !.speed = cell.arg].speed = cell.arg
      /\ [c EXCEPT !.speed = cell.arg].delay = c.delay
  BY DEF RowStates
<1>5. [c EXCEPT !.stop = TRUE].dest = c.dest /\ [c EXCEPT !.stop = TRUE].speed = c.speed
      /\ [c EXCEPT !.stop = TRUE].delay = c.delay
  BY DEF RowStates
<1>6. cell.op \in {"none", "loop", "jump", "break", "delay", "speed", "stop"}
  BY DEF Cells
<1>7. CASE cell.op = "jump"
  BY <1>1, <1>7 DEF Effect, Brisk
<1>8. CASE cell.op = "break"
  BY <1>2, <1>8 DEF Effect, Brisk
<1>9. CASE cell.op = "delay"
  <2>1. Effect(c, ch, row, cell) = PatternDelay(c, cell.arg)
    BY <1>9 DEF Effect
  <2> QED BY <1>3, <1>9, <2>1 DEF Brisk
<1>10. CASE cell.op = "speed"
  <2>1. Effect(c, ch, row, cell) = [c EXCEPT !.speed = cell.arg]
    BY <1>10 DEF Effect
  <2> QED BY <1>4, <1>10, <2>1 DEF Brisk
<1>11. CASE cell.op = "stop"
  <2>1. Effect(c, ch, row, cell) = [c EXCEPT !.stop = TRUE]
    BY <1>11 DEF Effect
  <2> QED BY <1>5, <2>1 DEF Brisk
<1>12. CASE cell.op = "none"
  <2>1. Effect(c, ch, row, cell) = c
    BY <1>12 DEF Effect
  <2> QED BY <2>1
<1> QED BY <1>6, <1>7, <1>8, <1>9, <1>10, <1>11, <1>12

LEMMA PerformedBrisk ==
    ASSUME IsSong(song), NEW tall, NEW speed, NEW delay, Plain(song, tall, speed, delay),
           NEW order, Pattern(order) \in Patterns, NEW row \in Nat, row < RowsIn(Pattern(order)),
           NEW start \in RowStates, Brisk(start, speed, delay)
    PROVE  Brisk(Performed(order, row, start), speed, delay)
<1>0. speed \in Byte /\ delay \in Byte
  BY DEF Plain, Byte
<1>1. song.channels \in Nat /\ RowsIn(Pattern(order)) \in Nat
      /\ song.cells[Pattern(order)] \in [1..RowsIn(Pattern(order)) -> [Channels -> Cells]]
  BY TheSong
<1>2. row + 1 \in 1 .. RowsIn(Pattern(order))
  BY <1>1
<1> DEFINE cell(ch) == song.cells[Pattern(order)][row + 1][ch]
<1>3. \A ch \in Channels : /\ cell(ch) \in Cells /\ cell(ch).op # "loop"
                           /\ cell(ch).op = "speed" => cell(ch).arg <= speed
                           /\ cell(ch).op = "delay" => cell(ch).arg <= delay
  <2>1. \A ch \in Channels : cell(ch) \in Cells
    BY <1>1, <1>2
  <2>2. \A ch \in Channels : /\ cell(ch).op # "loop"
                             /\ cell(ch).op = "speed" => cell(ch).arg <= speed
                             /\ cell(ch).op = "delay" => cell(ch).arg <= delay
    BY <1>2 DEF Plain, Patterns, RowsIn, Channels
  <2> QED BY <2>1, <2>2
<1>4. PICK f : /\ f[0] = start /\ Performed(order, row, start) = f[song.channels]
               /\ \A ch \in Channels : f[ch] = Effect(f[ch - 1], ch, row, cell(ch))
  BY <1>1, PerformedSoFar
<1> HIDE DEF cell
<1> DEFINE S == {k \in Nat : f[k] \in RowStates /\ Brisk(f[k], speed, delay)}
<1>5. 0 \in S
  BY <1>4
<1>6. ASSUME NEW k \in 0 .. song.channels, k \in S, k # song.channels PROVE k + 1 \in S
  <2>1. k + 1 \in Channels /\ k + 1 \in Nat /\ (k + 1) - 1 = k
    BY <1>1, <1>6 DEF Channels
  <2>2. f[k + 1] = Effect(f[k], k + 1, row, cell(k + 1))
    BY <1>4, <2>1
  <2>3. f[k + 1] \in RowStates
    BY <1>3, <1>6, <2>1, <2>2, EffectTyped
  <2>4. Brisk(f[k + 1], speed, delay)
    BY <1>0, <1>3, <1>6, <2>1, <2>2, EffectBrisk
  <2> QED BY <2>1, <2>3, <2>4
<1>7. song.channels \in S
  <2> HIDE DEF S
  <2> QED BY <1>1, <1>5, <1>6, Onwards
<1> QED BY <1>4, <1>7

LEMMA RowEffectsOnward ==
    ASSUME IsSong(song), NEW tall, NEW speed, NEW delay, Plain(song, tall, speed, delay),
           NEW q \in Sequencers, Placed(q), RowsIn(Pattern(q.order)) # 0, NEW flow \in Flows,
           q.speed <= speed, q.delay <= delay
    PROVE  Onward(RowEffects(q, flow).out, speed, delay)
<1> DEFINE c == Performed(q.order, q.row, RowStart(q, flow))
<1>1. q.order \in Nat /\ q.row \in Nat /\ RowsIn(Pattern(q.order)) \in Nat /\ Pattern(q.order) \in Patterns
  BY TheSong DEF Placed, Sequencers
<1>2. q.row < RowsIn(Pattern(q.order))
  BY <1>1 DEF Placed
<1>3. RowStart(q, flow) \in RowStates /\ Brisk(RowStart(q, flow), speed, delay)
  BY DEF RowStart, RowStates, OrNone, Sequencers, Brisk
<1>4. c \in RowStates /\ Brisk(c, speed, delay)
  BY <1>1, <1>2, <1>3, PerformedTyped, PerformedBrisk
<1>5. RowEffects(q, flow).out.speed = c.speed /\ RowEffects(q, flow).out.delay = c.delay
      /\ RowEffects(q, flow).out.jump = DelayedBreak(q, c, ChosenJump(c))
  BY DEF RowEffects
<1> HIDE DEF c
<1> DEFINE j == ChosenJump(c)
<1>6. CASE ~c.break
  <2>1. j = None
    BY <1>4, <1>6 DEF ChosenJump, Brisk
  <2>2. DelayedBreak(q, c, j) = None
    BY <1>6, <2>1 DEF DelayedBreak
  <2> QED BY <1>4, <1>5, <2>2 DEF Onward, Brisk
<1>7. CASE c.break
  <2>1. j = [order |-> c.jumpOrder, row |-> c.jumpRow, within |-> FALSE]
    BY <1>7 DEF ChosenJump, Jump
  <2>2. j.within = FALSE /\ [j EXCEPT !.row = j.row + 1].within = FALSE
    BY <2>1
  <2>3. \A o : Jump(o, 0, FALSE).within = FALSE
    BY DEF Jump
  <2> DEFINE order == IF j.order = None THEN q.order + 1 ELSE j.order
             stepped == [j EXCEPT !.row = j.row + 1]
  <2>4. DelayedBreak(q, c, j) \in {j, stepped, Jump(order + 1, 0, FALSE)}
    <3>1. [j EXCEPT !.row = @ + 1] = stepped
      BY <2>1
    <3> HIDE DEF j, stepped
    <3> QED BY <3>1 DEF DelayedBreak
  <2> HIDE DEF j, stepped, order
  <2>5. DelayedBreak(q, c, j).within = FALSE
    BY <2>2, <2>3, <2>4 DEF stepped
  <2> QED BY <1>4, <1>5, <2>5 DEF Onward, Brisk, j
<1> QED BY <1>4, <1>6, <1>7 DEF RowStates

LEMMA RunTickOnward ==
    ASSUME IsSong(song), NEW tall, NEW speed, NEW delay, Plain(song, tall, speed, delay), NEW q, Good(q),
           q.speed <= speed, q.delay <= delay
    PROVE  Onward(RunTick(q).out, speed, delay)
<1>0. q \in Sequencers /\ Placed(q)
  BY DEF Good
<1>1. q.flow \in Flows /\ PositionChanged(q.flow) \in Flows
  BY <1>0, FlowTyped DEF PositionChanged, Sequencers
<1>2. Onward(Quiet(q).out, speed, delay) /\ Onward([Quiet(q) EXCEPT !.out.stop = TRUE].out, speed, delay)
  BY DEF Quiet, Onward
<1>3. RowsIn(Pattern(q.order)) # 0 => /\ Onward(RowEffects(q, q.flow).out, speed, delay)
                                      /\ Onward(RowEffects(q, PositionChanged(q.flow)).out, speed, delay)
  BY <1>0, <1>1, RowEffectsOnward
<1> QED BY <1>2, <1>3 DEF RunTick

\* A sequencer in such a song.
Slow(q, speed, delay) ==
  /\ q.speed <= speed /\ q.delay <= delay
  /\ q.jump # None => q.jump.within = FALSE
  /\ q.arrival # "PatternLoop" /\ q.inside = FALSE

LEMMA PositionSlow ==
    ASSUME NEW speed, NEW delay \in Nat, NEW q \in Sequencers, Slow(q, speed, delay), NEW order, NEW row
    PROVE  Slow(SetPosition(q, order, row), speed, delay)
<1> DEFINE clamped == ClampedRow(Pattern(order), row)
           at == [q EXCEPT !.order = order, !.row = clamped]
           r == SetPosition(q, order, row)
<1>1. r = [at EXCEPT !.speed = q.speed, !.delay = 0, !.tick = 0]
  BY DEF SetPosition, StartRow
<1> HIDE DEF clamped, r
<1>2. r.speed = q.speed /\ r.delay = 0 /\ r.jump = q.jump /\ r.arrival = q.arrival /\ r.inside = q.inside
  BY <1>1 DEF Sequencers
<1> QED BY <1>2 DEF Slow, r

LEMMA ArrivingSlow ==
    ASSUME NEW speed, NEW delay \in Nat, NEW q \in Sequencers, Slow(q, speed, delay), NEW v \in {"Jump", "NextOrder", "Wrapped"}
    PROVE  Slow([q EXCEPT !.arrival = v], speed, delay)
<1> DEFINE r == [q EXCEPT !.arrival = v]
<1>1. r.speed = q.speed /\ r.delay = q.delay /\ r.jump = q.jump /\ r.arrival = v /\ r.inside = q.inside
  BY DEF Sequencers
<1> HIDE DEF r
<1>2. Slow(r, speed, delay)
  BY <1>1 DEF Slow
<1> QED BY <1>2 DEF r

LEMMA MoveToOrderSlow ==
    ASSUME NEW speed, NEW delay \in Nat, NEW q, Good(q), q.atEnd = "Stop", Slow(q, speed, delay), NEW order, NEW row,
           MoveToOrder(q, order, row).state = "Ready"
    PROVE  Slow(MoveToOrder(q, order, row), speed, delay)
<1>0. q \in Sequencers
  BY DEF Good
<1>1. CASE Resolve(order) # None
  <2>1. MoveToOrder(q, order, row) = SetPosition(q, Resolve(order), row)
    BY <1>1 DEF MoveToOrder
  <2> QED BY <1>0, <2>1, PositionSlow
<1>2. CASE Resolve(order) = None /\ song.policy # "Stop" /\ Resolve(song.restart) # None
  <2> DEFINE wrapped == [q EXCEPT !.arrival = "Wrapped"]
             at == IF song.policy = "WrapKeepingBreakRow" THEN row ELSE 0
  <2>1. wrapped \in Sequencers
    BY <1>0 DEF Sequencers
  <2>2. Slow(wrapped, speed, delay)
    BY <1>0, ArrivingSlow
  <2>3. MoveToOrder(q, order, row) = SetPosition(wrapped, Resolve(song.restart), at)
    BY <1>2 DEF MoveToOrder
  <2> HIDE DEF wrapped, at
  <2> QED BY <2>1, <2>2, <2>3, PositionSlow
<1>3. CASE Resolve(order) = None /\ ~(song.policy # "Stop" /\ Resolve(song.restart) # None)
  <2>1. MoveToOrder(q, order, row) = EndNaturally(q)
    BY <1>3 DEF MoveToOrder
  <2> QED BY <2>1, StopsAtItsEnd
<1> QED BY <1>1, <1>2, <1>3

LEMMA BeginNextRowSlow ==
    ASSUME NEW speed, NEW delay \in Nat, NEW q, Good(q), q.atEnd = "Stop", Slow(q, speed, delay),
           NEW jump \in OrNone(Jumps), jump # None => jump.within = FALSE, BeginNextRow(q, jump).state = "Ready"
    PROVE  Slow(BeginNextRow(q, jump), speed, delay)
<1> DEFINE r == BeginNextRow(q, jump)
<1>0. q \in Sequencers
  BY DEF Good
<1>1. ASSUME NEW v \in {"Jump", "NextOrder"}
      PROVE  LET x == [q EXCEPT !.arrival = v] IN Good(x) /\ x.atEnd = "Stop" /\ Slow(x, speed, delay)
  <2> DEFINE x == [q EXCEPT !.arrival = v]
  <2>1. x \in Sequencers
    BY <1>0 DEF Sequencers
  <2>2. x.order = q.order /\ x.row = q.row /\ x.atEnd = "Stop"
    BY <1>0 DEF Sequencers
  <2>3. Slow(x, speed, delay)
    BY <1>0, ArrivingSlow
  <2> HIDE DEF x
  <2>4. Good(x) /\ x.atEnd = "Stop" /\ Slow(x, speed, delay)
    BY <2>1, <2>2, <2>3, PlacedAlike DEF Good
  <2> QED BY <2>4 DEF x
<1>2. CASE jump # None
  <2> DEFINE x == [q EXCEPT !.arrival = "Jump"]
             order == IF jump.order = None THEN q.order + 1 ELSE jump.order
  <2>1. Good(x) /\ x.atEnd = "Stop" /\ Slow(x, speed, delay)
    BY <1>1
  <2>2. r = MoveToOrder(x, order, jump.row)
    BY <1>2 DEF BeginNextRow
  <2> HIDE DEF x, order
  <2> QED BY <2>1, <2>2, MoveToOrderSlow
<1>3. CASE jump = None /\ q.row + 1 < RowsIn(Pattern(q.order))
  <2> DEFINE row == q.row + 1
             x == [q EXCEPT !.row = row, !.arrival = "Sequential"]
  <2>1. r = [x EXCEPT !.speed = q.speed, !.delay = 0, !.tick = 0]
    BY <1>3 DEF BeginNextRow, StartRow
  <2> HIDE DEF r, row
  <2>2. r.speed = q.speed /\ r.delay = 0 /\ r.jump = q.jump /\ r.arrival = "Sequential" /\ r.inside = q.inside
    BY <1>0, <2>1 DEF Sequencers
  <2> QED BY <2>2 DEF Slow, r
<1>4. CASE jump = None /\ ~(q.row + 1 < RowsIn(Pattern(q.order)))
  <2> DEFINE x == [q EXCEPT !.arrival = "NextOrder"]
  <2>1. Good(x) /\ x.atEnd = "Stop" /\ Slow(x, speed, delay)
    BY <1>1
  <2>2. r = MoveToOrder(x, q.order + 1, 0)
    BY <1>4 DEF BeginNextRow
  <2> HIDE DEF x
  <2> QED BY <2>1, <2>2, MoveToOrderSlow
<1> QED BY <1>2, <1>3, <1>4

LEMMA CommitSlow ==
    ASSUME NEW speed, NEW delay \in Nat, NEW q, Good(q), q.atEnd = "Stop", Slow(q, speed, delay),
           NEW out \in Outs, Onward(out, speed, delay), Commit(q, out).state = "Ready"
    PROVE  Slow(Commit(q, out), speed, delay)
<1> DEFINE t == Timed(q, out)
           n == OneOn(q, out)
           free == [n EXCEPT !.jump = None]
           r == Commit(q, out)
<1>1. Good(t) /\ Good(n) /\ t.atEnd = "Stop"
  <2>1. Good(t) /\ Good(n)
    BY TimedTyped
  <2>2. Goes(t, q)
    BY GoesOn DEF Good
  <2> QED BY <2>1, <2>2 DEF Goes
<1>2. n.atEnd = "Stop" /\ Slow(n, speed, delay)
  <2> DEFINE d == IF q.tick = 0 THEN out.delay ELSE q.delay
             j == IF out.jump # None THEN out.jump ELSE q.jump
  <2>1. n = [q EXCEPT !.speed = out.speed, !.delay = d, !.jump = j,
                      !.elapsed = q.elapsed + TickLength, !.due = TickLength, !.tick = q.tick + 1]
    BY DEF OneOn, Timed, Good, Sequencers
  <2> HIDE DEF n
  <2>2. d <= delay /\ (j # None => j.within = FALSE)
    BY DEF Slow, Onward
  <2> HIDE DEF d, j
  <2>3. n.speed = out.speed /\ n.delay = d /\ n.jump = j /\ n.arrival = q.arrival /\ n.inside = q.inside /\ n.atEnd = q.atEnd
    BY <2>1 DEF Good, Sequencers
  <2> QED BY <2>2, <2>3 DEF Slow, Onward
<1>3. r = CASE out.stop -> EndNaturally(t)
            [] ~out.stop /\ n.tick < TotalTicks(n) -> n
            [] OTHER -> BeginNextRow(free, n.jump)
  BY CommitIs
<1>4. r.state = "Ready"
  OBVIOUS
<1> HIDE DEF t, n, r
<1>5. Good(free) /\ free.atEnd = "Stop" /\ Slow(free, speed, delay)
  <2>1. n \in Sequencers
    BY <1>1 DEF Good
  <2>2. free \in Sequencers
    BY <2>1 DEF Sequencers, OrNone
  <2>3. /\ free.order = n.order /\ free.row = n.row /\ free.atEnd = n.atEnd /\ free.speed = n.speed
        /\ free.delay = n.delay /\ free.jump = None /\ free.arrival = n.arrival /\ free.inside = n.inside
    BY <2>1 DEF Sequencers
  <2> HIDE DEF free
  <2>4. Good(free)
    BY <1>1, <2>2, <2>3, PlacedAlike DEF Good
  <2>5. Slow(free, speed, delay)
    BY <1>2, <2>3 DEF Slow
  <2> QED BY <1>2, <2>3, <2>4, <2>5
<1>6. n.jump \in OrNone(Jumps) /\ out.stop \in BOOLEAN /\ (n.jump # None => n.jump.within = FALSE)
  BY <1>1, <1>2 DEF Good, Sequencers, Outs, Slow
<1> HIDE DEF free
<1>7. CASE out.stop
  BY <1>1, <1>3, <1>4, <1>7, StopsAtItsEnd
<1>8. CASE ~out.stop /\ n.tick < TotalTicks(n)
  BY <1>2, <1>3, <1>8 DEF r
<1>9. CASE ~out.stop /\ ~(n.tick < TotalTicks(n))
  <2>1. r = BeginNextRow(free, n.jump)
    BY <1>3, <1>9
  <2>2. Slow(r, speed, delay)
    BY <1>4, <1>5, <1>6, <2>1, BeginNextRowSlow
  <2> QED BY <2>2 DEF r
<1> QED BY <1>6, <1>7, <1>8, <1>9

LEMMA DispatchSlow ==
    ASSUME IsSong(song), timeline \in OrNone(Timelines), NEW tall, NEW speed, NEW delay, Plain(song, tall, speed, delay),
           NEW p, Steady(p), Slow(p, speed, delay), Steady(Dispatch(p)), ~Announces(Dispatch(p))
    PROVE  Slow(Dispatch(p), speed, delay)
<1> DEFINE r == Dispatch(p)
           b == Begun(p)
           n == Ran(b)
           out == RunTick(b).out
           z == Quieted(p)
<1>0. Good(p) /\ p.armed /\ ~p.endReached /\ p.state = "Ready" /\ p.atEnd = "Stop" /\ r.state = "Ready" /\ delay \in Nat
  BY DEF Steady, Plain, Byte
<1>1. Good(z) /\ z \in Sequencers /\ z.tick = p.tick /\ z.runs = TRUE /\ Verdict(Arrive(z)) = Verdict(Arrive(p))
      /\ Slow(z, speed, delay)
  <2>1. /\ Good(z) /\ z.tick = p.tick /\ z.runs = TRUE /\ Verdict(Arrive(z)) = Verdict(Arrive(p))
        /\ z.speed = p.speed /\ z.delay = p.delay /\ z.jump = p.jump /\ z.arrival = p.arrival /\ z.inside = p.inside
    BY <1>0, QuietedTyped, QuietedIs
  <2> HIDE DEF z
  <2> QED BY <2>1 DEF Good, Slow
<1>2. p.tick # 0 \/ Verdict(Arrive(p)) \notin Ends
  BY <1>0, DispatchAnnounces
<1>3. Good(b) /\ RunTick(b) \in Ticked /\ b.atEnd = "Stop"
  BY <1>0, BegunTyped, DispatchNotes
<1>4. b.runs /\ Slow(b, speed, delay)
  <2>1. CASE p.tick # 0
    <3>1. b = z
      BY <2>1 DEF Begun
    <3> HIDE DEF b, z
    <3> QED BY <1>1, <3>1
  <2>2. CASE p.tick = 0
    <3>1. b = Judged(z)
      BY <1>1, <1>2, <2>2, BeginRowIs DEF Begun
    <3>2. /\ Judged(z).speed = z.speed /\ Judged(z).delay = z.delay /\ Judged(z).jump = z.jump
          /\ Judged(z).arrival = z.arrival /\ Judged(z).inside = Arrive(z).inside
          /\ Judged(z).runs = (Verdict(Arrive(z)) \notin Ends \/ z.atEnd = "Continue"
                              \/ (z.atEnd = "FadeOut" /\ Verdict(Arrive(z)) # "Wrapped"))
      BY <1>1, JudgedDoes
    <3> HIDE DEF b, z
    <3>3. b.runs
      BY <1>1, <1>2, <2>2, <3>1, <3>2
    <3>4. Arrive(z).inside = FALSE
      <4>1. z.arrival # "PatternLoop" /\ z.inside = FALSE
        BY <1>1 DEF Slow
      <4> QED BY <1>1, <4>1 DEF Arrive, Sequencers
    <3>5. Slow(b, speed, delay)
      BY <1>1, <3>1, <3>2, <3>4 DEF Slow
    <3> QED BY <3>3, <3>5
  <2> QED BY <2>1, <2>2
<1>5. r = Commit(n, out)
  BY <1>4, DispatchIs
<1>6. Onward(out, speed, delay)
  <2> HIDE DEF b
  <2>1. b.speed <= speed /\ b.delay <= delay
    BY <1>4 DEF Slow
  <2> QED BY <1>3, <2>1, RunTickOnward
<1> HIDE DEF b, z, r
<1>7. Good(n) /\ n.atEnd = "Stop" /\ Slow(n, speed, delay) /\ out \in Outs
  <2>1. /\ Good(n) /\ n.atEnd = b.atEnd /\ n.speed = b.speed /\ n.delay = b.delay /\ n.jump = b.jump
        /\ n.arrival = b.arrival /\ n.inside = b.inside /\ out \in Outs
    BY <1>3, RanTyped, RanKeeps DEF Good, Ticked
  <2> HIDE DEF n
  <2> QED BY <1>3, <1>4, <2>1 DEF Slow
<1> HIDE DEF n, out
<1>8. Slow(r, speed, delay)
  BY <1>0, <1>5, <1>6, <1>7, CommitSlow
<1> QED BY <1>8 DEF r

\* What is left of the scan of such a song: rows never played, and ticks of this one.
Unheard(q, tall) == Cardinality(Rows(song, tall) \ Played(q))
PlainLeft(q, tall, speed, delay) == Unheard(q, tall) * RowTicks(speed, delay) + ((RowTicks(speed, delay) - 1) - q.tick)

\* At every tick of the scan of such a song.
Passes(q, speed, delay) == /\ Slow(q, speed, delay) /\ q.tick < RowTicks(speed, delay)
                           /\ q.tick # 0 => At(q) \in q.seen

LEMMA PlainRows ==
    ASSUME IsSong(song), NEW tall, NEW speed, NEW delay, Plain(song, tall, speed, delay)
    PROVE  /\ RowTicks(speed, delay) \in Nat /\ RowTicks(speed, delay) >= 1
           /\ PlainTicks(song, tall, speed, delay) \in Nat
           /\ IsFiniteSet(Rows(song, tall)) /\ Cardinality(Rows(song, tall)) = Len(song.orders) * tall
           /\ Len(song.orders) * tall \in Nat
           /\ \A q : Good(q) => At(q) \in Rows(song, tall)
<1>0. tall \in Nat \ {0} /\ speed \in Nat /\ delay \in Nat /\ speed >= 1 /\ speed \in Byte /\ delay \in Byte
  BY DEF Plain, Byte
<1>1. \A p \in Patterns : RowsIn(p) <= tall
  BY DEF Plain, Patterns, RowsIn
<1>2. /\ IsFiniteSet(Rows(song, tall)) /\ Cardinality(Rows(song, tall)) = Len(song.orders) * tall
      /\ Len(song.orders) \in Nat /\ \A q : Good(q) => At(q) \in Rows(song, tall)
  BY <1>0, <1>1, RowsOfASong
<1>3. \A a, b \in Nat : a * b \in Nat
  BY SMTT(30)
<1>4. RowTicks(speed, delay) \in Nat /\ RowTicks(speed, delay) >= 1
  <2>1. 1 \in Byte /\ 0 \in Byte /\ 1 <= speed /\ 0 <= delay
    BY <1>0 DEF Byte
  <2>2. 1 * (1 + 0) <= RowTicks(speed, delay) /\ RowTicks(speed, delay) \in Nat
    BY <1>0, <2>1, RowTicksGrow
  <2> QED BY <2>2
<1>5. Len(song.orders) * tall \in Nat
  BY <1>0, <1>2, <1>3
<1>6. PlainTicks(song, tall, speed, delay) \in Nat
  BY <1>3, <1>4, <1>5 DEF PlainTicks
<1> QED BY <1>2, <1>4, <1>5, <1>6

LEMMA PlainLeftIsANumber ==
    ASSUME IsSong(song), NEW tall, NEW speed, NEW delay, Plain(song, tall, speed, delay),
           NEW q, Good(q), Passes(q, speed, delay)
    PROVE  /\ Unheard(q, tall) \in Nat /\ (RowTicks(speed, delay) - 1) - q.tick \in 0 .. (RowTicks(speed, delay) - 1)
           /\ PlainLeft(q, tall, speed, delay) \in Nat
           /\ PlainLeft(q, tall, speed, delay) < PlainTicks(song, tall, speed, delay)
<1> DEFINE T == RowTicks(speed, delay)
           R == Rows(song, tall)
           x == (T - 1) - q.tick
           u == Unheard(q, tall)
           U == Len(song.orders) * tall
<1>1. T \in Nat /\ T >= 1 /\ IsFiniteSet(R) /\ Cardinality(R) = U /\ U \in Nat
  BY PlainRows
<1>2. q.tick \in Nat /\ q.tick < T
  BY DEF Good, Sequencers, Passes
<1>3. u \in Nat /\ u < U
  <2>1. R \ Played(q) \in SUBSET R
    OBVIOUS
  <2>2. IsFiniteSet(R \ Played(q)) /\ Cardinality(R \ Played(q)) <= Cardinality(R)
        /\ (R \ Played(q) # R => Cardinality(R \ Played(q)) < Cardinality(R))
    <3> HIDE DEF R
    <3>1. IsFiniteSet(R \ Played(q)) /\ Cardinality(R \ Played(q)) <= Cardinality(R)
          /\ (Cardinality(R) = Cardinality(R \ Played(q)) => R = R \ Played(q))
      BY <1>1, <2>1, FS_Subset
    <3>2. Cardinality(R \ Played(q)) \in Nat
      BY <3>1, FS_CardinalityType
    <3> QED BY <1>1, <3>1, <3>2
  <2>3. R \ Played(q) # R
    <3>1. At(q) \in R
      BY PlainRows
    <3>2. At(q) \in Played(q)
      BY DEF Passes, Played
    <3> QED BY <3>1, <3>2
  <2>4. Cardinality(R \ Played(q)) \in Nat
    BY <2>2, FS_CardinalityType
  <2> HIDE DEF R, U
  <2> QED BY <1>1, <2>2, <2>3, <2>4 DEF Unheard, R
<1> HIDE DEF T
<1>4. x \in 0 .. (T - 1)
  BY <1>1, <1>2
<1> HIDE DEF x, u, U
<1>5. u * T + x \in Nat /\ u * T + x < U * T
  BY <1>1, <1>3, <1>4, Digits
<1> QED BY <1>3, <1>4, <1>5 DEF PlainLeft, PlainTicks, T, x, u, U

\* Without loops a row played again is the end, so every row is played once at most.
LEMMA NoRowTwice ==
    ASSUME IsSong(song), timeline \in OrNone(Timelines), NEW speed, NEW delay, NEW r, Steady(r), Slow(r, speed, delay),
           r.tick = 0, At(r) \in r.seen
    PROVE  Announces(Dispatch(r))
<1> DEFINE x == Arrive(r)
<1>1. Good(r) /\ r \in Sequencers /\ r.armed /\ r.arrival # "PatternLoop" /\ r.inside = FALSE
  BY DEF Steady, Good, Slow
<1>2. x.armed /\ At(x) \in x.seen
  BY <1>1, ArriveKeeps DEF At
<1>3. x.inside = FALSE
  BY <1>1 DEF Arrive, Sequencers
<1> HIDE DEF x
<1>4. Verdict(x) \in Ends
  BY <1>2, <1>3 DEF Verdict, Ends
<1> QED BY <1>1, <1>4, DispatchAnnounces DEF x

LEMMA TheEndOfAPlainSongComesNearer ==
    ASSUME IsSong(song), timeline \in OrNone(Timelines), NEW tall, NEW speed, NEW delay, Plain(song, tall, speed, delay),
           NEW p, Steady(p), Passes(p, speed, delay), Steady(Dispatch(p)), ~Announces(Dispatch(p))
    PROVE  LET r == Dispatch(p)
           IN  /\ Passes(r, speed, delay)
               /\ ~Announces(Dispatch(r)) => PlainLeft(r, tall, speed, delay) < PlainLeft(p, tall, speed, delay)
<1> DEFINE r == Dispatch(p)
           T == RowTicks(speed, delay)
           R == Rows(song, tall)
<1>0. T \in Nat /\ T >= 1 /\ IsFiniteSet(R) /\ p.tick \in Nat /\ p.tick < T
  BY PlainRows DEF Steady, Good, Sequencers, Passes
<1>1. /\ r.seen = Played(p)
      /\ Moves(r, p) \/ (r.tick = p.tick + 1 /\ r.tick < TotalTicks(r) /\ r.order = p.order /\ r.row = p.row)
  BY DispatchMoves
<1>2. Slow(r, speed, delay)
  BY DispatchSlow DEF Passes
<1>3. Steady(r) /\ Good(r) /\ r \in Sequencers /\ Good(p)
  BY DEF Steady, Good
<1> HIDE DEF r, T
<1>4. CASE Moves(r, p)
  <2>1. r.tick = 0
    BY <1>4 DEF Moves
  <2>2. Passes(r, speed, delay)
    BY <1>0, <1>2, <2>1 DEF Passes, T
  <2>3. ASSUME ~Announces(Dispatch(r)) PROVE PlainLeft(r, tall, speed, delay) < PlainLeft(p, tall, speed, delay)
    <3>1. At(r) \notin Played(p)
      BY <1>1, <1>2, <1>3, <2>1, <2>3, NoRowTwice
    <3>2. R \ Played(r) = (R \ Played(p)) \ {At(r)}
      BY <1>1, <2>1 DEF Played
    <3>3. At(r) \in R \ Played(p)
      BY <1>3, <3>1, PlainRows
    <3>4. IsFiniteSet(R \ Played(p))
      <4>1. R \ Played(p) \in SUBSET R
        OBVIOUS
      <4> HIDE DEF R
      <4> QED BY <1>0, <4>1, FS_Subset
    <3>5. Unheard(r, tall) = Unheard(p, tall) - 1
      <4> DEFINE S == R \ Played(p)
                 e == At(r)
      <4>1. IsFiniteSet(S) /\ e \in S /\ R \ Played(r) = S \ {e}
        BY <3>2, <3>3, <3>4
      <4>2. Unheard(r, tall) = Cardinality(R \ Played(r)) /\ Unheard(p, tall) = Cardinality(S)
        BY DEF Unheard
      <4> HIDE DEF S, e, R
      <4>3. Cardinality(S \ {e}) = Cardinality(S) - 1
        BY <4>1, FS_RemoveElement
      <4> QED BY <4>1, <4>2, <4>3
    <3> DEFINE u == Unheard(r, tall)
               U == Unheard(p, tall)
               y == (T - 1) - r.tick
               x == (T - 1) - p.tick
    <3>6. /\ U \in Nat /\ x \in 0 .. (T - 1) /\ u \in Nat /\ y \in 0 .. (T - 1) /\ u < U
      <4>1. U \in Nat /\ x \in 0 .. (T - 1)
        BY <1>3, PlainLeftIsANumber DEF T
      <4>2. u \in Nat /\ y \in 0 .. (T - 1)
        BY <1>3, <2>2, PlainLeftIsANumber DEF T
      <4> QED BY <3>5, <4>1, <4>2
    <3> HIDE DEF u, U, x, y
    <3>7. u * T + y < U * T + x
      BY <1>0, <3>6, Digits
    <3> QED BY <3>7 DEF PlainLeft, T, u, U, x, y
  <2> QED BY <2>2, <2>3 DEF r
<1>5. CASE ~Moves(r, p)
  <2>1. r.tick = p.tick + 1 /\ r.tick < TotalTicks(r) /\ r.order = p.order /\ r.row = p.row /\ r.tick # 0
    BY <1>0, <1>1, <1>5
  <2>2. r.tick < T
    <3>1. r.speed \in Byte /\ r.delay \in Byte /\ speed \in Byte /\ delay \in Byte /\ r.tick \in Nat
      BY <1>3 DEF Sequencers, Plain, Byte
    <3>2. r.speed <= speed /\ r.delay <= delay
      BY <1>2 DEF Slow
    <3>3. TotalTicks(r) \in Nat /\ TotalTicks(r) <= T
      <4>1. r.speed * (1 + r.delay) \in Nat /\ r.speed * (1 + r.delay) <= RowTicks(speed, delay)
        BY <3>1, <3>2, RowTicksGrow
      <4> QED BY <4>1 DEF TotalTicks, T
    <3> QED BY <1>0, <2>1, <3>1, <3>3
  <2>3. At(r) = At(p) /\ At(p) \in Played(p)
    BY <2>1 DEF At, Played, Passes
  <2>4. Passes(r, speed, delay)
    BY <1>1, <1>2, <2>2, <2>3 DEF Passes, T
  <2>5. PlainLeft(r, tall, speed, delay) < PlainLeft(p, tall, speed, delay)
    <3>1. Played(r) = Played(p)
      BY <1>1, <2>1, <2>3 DEF Played
    <3>2. Unheard(r, tall) = Unheard(p, tall)
      BY <3>1 DEF Unheard
    <3> DEFINE V == Unheard(p, tall) * RowTicks(speed, delay)
    <3>3. V \in Nat
      <4>1. Unheard(p, tall) \in Nat
        BY <1>3, PlainLeftIsANumber
      <4>2. \A a, b \in Nat : a * b \in Nat
        BY SMTT(30)
      <4> QED BY <1>0, <4>1, <4>2 DEF T
    <3>4. PlainLeft(r, tall, speed, delay) = V + ((T - 1) - r.tick) /\ PlainLeft(p, tall, speed, delay) = V + ((T - 1) - p.tick)
      BY <3>2 DEF PlainLeft, T
    <3> HIDE DEF V
    <3> QED BY <1>0, <2>1, <3>3, <3>4
  <2> QED BY <2>4, <2>5 DEF r
<1> QED BY <1>4, <1>5

LEMMA PlainRunIsShort ==
    ASSUME IsSong(song), timeline \in OrNone(Timelines), NEW tall, NEW speed, NEW delay, Plain(song, tall, speed, delay),
           NEW run, NEW n \in Nat, NEW marks, RunOf(run, n, marks), NEW k \in 0 .. n, run[k].state = "Ready"
    PROVE  /\ Passes(run[k], speed, delay)
           /\ ~Announces(Dispatch(run[k])) =>
                k + PlainLeft(run[k], tall, speed, delay) < PlainTicks(song, tall, speed, delay)
<1> DEFINE left(q) == PlainLeft(q, tall, speed, delay)
           Most == PlainTicks(song, tall, speed, delay)
           S == {i \in 0 .. k : Passes(run[i], speed, delay)
                                /\ (~Announces(Dispatch(run[i])) => i + left(run[i]) < Most)}
<1>0. /\ run[0] = NewSequencer("Stop") /\ \A i \in 0 .. n : After(run[i], i, marks)
      /\ \A i \in 0 .. n : i # n => run[i].state = "Ready" /\ run[i + 1] = Dispatch(run[i])
  BY DEF RunOf
<1>1. \A i \in 0 .. k : Steady(run[i]) /\ ~Announces(run[i])
  <2> SUFFICES ASSUME NEW i \in 0 .. k PROVE Steady(run[i]) /\ ~Announces(run[i])
    OBVIOUS
  <2>1. i \in 0 .. n /\ (i = k \/ i # n)
    OBVIOUS
  <2>2. run[i].state = "Ready" /\ After(run[i], i, marks)
    BY <1>0, <2>1
  <2> QED BY <2>2 DEF After, StillSteady, EndedAt
<1>2. Most \in Nat /\ \A q : Good(q) /\ Passes(q, speed, delay) => left(q) \in Nat /\ left(q) < Most
  <2>1. Most \in Nat
    BY PlainRows
  <2>2. ASSUME NEW q, Good(q), Passes(q, speed, delay) PROVE left(q) \in Nat /\ left(q) < Most
    <3> HIDE DEF S
    <3>1. /\ PlainLeft(q, tall, speed, delay) \in Nat
          /\ PlainLeft(q, tall, speed, delay) < PlainTicks(song, tall, speed, delay)
      BY <2>2, PlainLeftIsANumber
    <3> QED BY <3>1
  <2> QED BY <2>1, <2>2
<1> HIDE DEF left, Most
<1>3. 0 \in S
  <2> DEFINE q == run[0]
  <2>1. q.tick = 0 /\ q.speed = song.speed /\ q.delay = 0 /\ q.jump = None /\ q.arrival = "Start" /\ q.inside = FALSE
    <3>1. "Stop" \in AtEnds
      BY DEF AtEnds
    <3> DEFINE b == NewSequencer("Stop")
    <3>2. b.tick = 0 /\ b.speed = song.speed /\ b.delay = 0 /\ b.jump = None /\ b.arrival = "Start" /\ b.inside = FALSE
      BY <3>1, NewSequencerDoes
    <3> HIDE DEF b
    <3> QED BY <1>0, <3>2 DEF b
  <2>2. Good(q) /\ 0 \in 0 .. k
    BY <1>1 DEF Steady
  <2>3. song.speed <= speed /\ 0 <= delay /\ 0 < RowTicks(speed, delay)
    <3>1. song.speed <= speed /\ 0 <= delay
      BY DEF Plain, Byte
    <3>2. RowTicks(speed, delay) \in Nat /\ RowTicks(speed, delay) >= 1
      BY PlainRows
    <3> QED BY <3>1, <3>2
  <2> HIDE DEF q
  <2>4. Passes(q, speed, delay)
    BY <2>1, <2>3 DEF Passes, Slow
  <2> QED BY <1>2, <2>2, <2>4 DEF q
<1>4. ASSUME NEW i \in 0 .. k, i \in S, i # k PROVE i + 1 \in S
  <2> DEFINE p == run[i]
             r == run[i + 1]
  <2>1. i + 1 \in 0 .. k /\ i \in Nat /\ i \in 0 .. n /\ i # n
    BY <1>4
  <2>2. Steady(p) /\ Steady(r) /\ r = Dispatch(p) /\ ~Announces(r)
    BY <1>0, <1>1, <1>4, <2>1
  <2>3. Passes(p, speed, delay) /\ i + left(p) < Most
    BY <1>4, <2>2
  <2>4. Good(p) /\ Good(r)
    BY <2>2 DEF Steady
  <2> HIDE DEF p, r
  <2>5. Passes(r, speed, delay) /\ (~Announces(Dispatch(r)) => left(r) < left(p))
    BY <2>2, <2>3, TheEndOfAPlainSongComesNearer DEF left
  <2>6. ~Announces(Dispatch(r)) => (i + 1) + left(r) < Most
    <3>1. left(p) \in Nat /\ left(r) \in Nat
      BY <1>2, <2>3, <2>4, <2>5
    <3> QED BY <1>2, <2>1, <2>3, <2>5, <3>1
  <2> QED BY <2>1, <2>5, <2>6 DEF r
<1>5. k \in S
  <2>1. k \in Nat
    OBVIOUS
  <2> HIDE DEF S
  <2> QED BY <1>3, <1>4, <2>1, Onwards
<1> QED BY <1>5 DEF left, Most

LEMMA PlainScansAreShort ==
    ASSUME IsSong(song), timeline \in OrNone(Timelines), NEW tall, NEW speed, NEW delay, Plain(song, tall, speed, delay),
           NEW run, NEW n \in Nat, NEW marks, RunOf(run, n, marks), run[n].state = "Ready"
    PROVE  n <= PlainTicks(song, tall, speed, delay)
<1>0. PlainTicks(song, tall, speed, delay) \in Nat
  BY PlainRows
<1>1. CASE n = 0
  BY <1>0, <1>1
<1>2. CASE n # 0
  <2>1. PICK k \in Nat : k + 1 = n
    <3>1. n - 1 \in Nat /\ (n - 1) + 1 = n
      BY <1>2
    <3> QED BY <3>1
  <2> DEFINE p == run[k]
             l == PlainLeft(p, tall, speed, delay)
  <2>2. k \in 0 .. n /\ k # n /\ n \in 0 .. n
    BY <2>1
  <2>3. p.state = "Ready" /\ run[n] = Dispatch(p) /\ After(p, k, marks) /\ After(run[n], n, marks)
    BY <2>1, <2>2 DEF RunOf
  <2>4. ~Announces(run[n]) /\ Good(p)
    BY <2>3 DEF After, StillSteady, EndedAt
  <2>5. Passes(p, speed, delay) /\ k + l < PlainTicks(song, tall, speed, delay)
    BY <2>2, <2>3, <2>4, PlainRunIsShort
  <2> HIDE DEF p
  <2>6. l \in Nat
    BY <2>4, <2>5, PlainLeftIsANumber
  <2> HIDE DEF l
  <2> QED BY <1>0, <2>1, <2>5, <2>6
<1> QED BY <1>1, <1>2

\* The limit is beyond the longest scan that the song's loops, or the rows of a song
\* without loops, can make.
Fits(s) == \/ MostTicks(s) < MaxTicks
           \/ \E tall, speed, delay : Plain(s, tall, speed, delay) /\ PlainTicks(s, tall, speed, delay) < MaxTicks

\* What fits is not cut off.
FitsFindsAnEnd == Fits(song) => ScanFindsAnEnd

LEMMA NotCutOff == ASSUME SequencerInv, phase = "scan", seq.state = "Ready", Fits(song) PROVE ticks < MaxTicks
<1>0. song \in Songs /\ IsSong(song) /\ MostTicks(song) \in Nat /\ MaxTicks \in Nat /\ ticks \in Nat
      /\ timeline \in OrNone(Timelines)
  BY SongsAssumption, BoundAssumption, MostIsANumber DEF SequencerInv, TypeInv
<1>1. CASE MostTicks(song) < MaxTicks
  <2>1. ticks <= MostTicks(song)
    BY ScanStaysShort DEF ScanIsShort
  <2> QED BY <1>0, <1>1, <2>1
<1>2. CASE \E tall, speed, delay : Plain(song, tall, speed, delay) /\ PlainTicks(song, tall, speed, delay) < MaxTicks
  <2>1. PICK tall, speed, delay : Plain(song, tall, speed, delay) /\ PlainTicks(song, tall, speed, delay) < MaxTicks
    BY <1>2
  <2>2. PICK run : RunOf(run, ticks, found) /\ run[ticks] = seq
    BY DEF SequencerInv, ScanIsARun
  <2>3. ticks <= PlainTicks(song, tall, speed, delay)
    BY <1>0, <2>1, <2>2, PlainScansAreShort
  <2>4. PlainTicks(song, tall, speed, delay) \in Nat
    BY <1>0, <2>1, PlainRows
  <2> QED BY <1>0, <2>1, <2>3, <2>4
<1> QED BY <1>1, <1>2 DEF Fits

LEMMA CutOffByALowLimit == ASSUME SequencerInv, FitsFindsAnEnd, [Next]_vars PROVE FitsFindsAnEnd'
<1>0. song' = song
  BY DEF Next, vars, ScanTick, Install, PlayTick, SeekOrder, SeekFrame, Seek, SetAtEnd, Replace
<1>1. Fits(song)' <=> Fits(song)
  BY <1>0 DEF Fits, Plain, PlainTicks, MostTicks
<1> SUFFICES ASSUME Fits(song), ScanFindsAnEnd PROVE ScanFindsAnEnd'
  BY <1>1 DEF FitsFindsAnEnd
<1>2. CASE Install
  <2>1. timeline'.end = EndReason /\ phase = "scan" /\ EndReason # None
    BY <1>2 DEF Install
  <2>2. EndReason # "TickLimit"
    <3> SUFFICES ASSUME EndReason = "TickLimit" PROVE FALSE
      OBVIOUS
    <3>1. ~Announces(seq)
      BY DEF EndReason, Announces, Ends
    <3>2. seq.state # "Stopped"
      BY <3>1 DEF EndReason
    <3>3. ticks >= MaxTicks /\ seq.state = "Ready"
      BY <2>1, <3>1, <3>2 DEF EndReason
    <3>4. ticks < MaxTicks /\ ticks \in Nat /\ MaxTicks \in Nat
      BY <2>1, <3>3, NotCutOff, BoundAssumption DEF SequencerInv, TypeInv
    <3> QED BY <3>3, <3>4
  <2> QED BY <2>1, <2>2 DEF ScanFindsAnEnd
<1>3. CASE ~Install
  <2>1. timeline' = timeline
    BY <1>3 DEF Next, vars, ScanTick, PlayTick, SeekOrder, SeekFrame, Seek, SetAtEnd, Replace
  <2> QED BY <2>1 DEF ScanFindsAnEnd
<1> QED BY <1>2, <1>3

\* Every scan of a song that fits finds its end, whatever the other songs are
\* (LoopDetector::visit; ScanLimits is a million ticks).
THEOREM EveryScanFindsAnEnd == Spec => [](Fits(song) => ScanFindsAnEnd)
<1>1. Init => FitsFindsAnEnd
  BY DEF Init, ScanFindsAnEnd, FitsFindsAnEnd
<1>2. SequencerInv /\ FitsFindsAnEnd /\ [Next]_vars => FitsFindsAnEnd'
  BY CutOffByALowLimit
<1>3. FitsFindsAnEnd => (Fits(song) => ScanFindsAnEnd)
  BY DEF FitsFindsAnEnd
<1> QED BY <1>1, <1>2, <1>3, SequencerInvInit, SequencerInvNext, PTL DEF Spec

\* All there is to load fits.
AllFit == \A s \in Songs : Fits(s)

LEMMA AllScansFindAnEnd == ASSUME AllFit PROVE Spec => []ScanFindsAnEnd
<1>1. SequencerInv /\ (Fits(song) => ScanFindsAnEnd) => ScanFindsAnEnd
  BY DEF AllFit, SequencerInv, TypeInv
<1> QED BY <1>1, EveryScanFindsAnEnd, SequencerInvInit, SequencerInvNext, PTL DEF Spec

\* Songs that fit last as long as their scans say, under every end-of-song setting, and a
\* renderer that is replaced in the first pass knows the rows played
\* (SongTimeline, PatternSequencer::restore_cursor).
THEOREM WhatFitsPlaysItsLength == ASSUME AllFit PROVE Spec => PlaysItsLength /\ []KnowsThePlayedRows
  BY AllScansFindAnEnd, PlaysWhatWasScanned, ReplacementKnowsThePlayedRows, PTL
=============================================================================
