-------------------------- MODULE MCSongSequencer --------------------------
(* Small songs for TLC: every song is two patterns of three and two rows. *)
EXTENDS SongSequencer

Effects(first, second) == <<first, second>>    \* of the two channels of a row
NoEffect == [op |-> "none", arg |-> 0]
Cell(op, arg) == Effects([op |-> op, arg |-> arg], NoEffect)
Nothing == Effects(NoEffect, NoEffect)
LoopAndDelay == Effects([op |-> "loop", arg |-> 1], [op |-> "delay", arg |-> 1])

ProTracker == {}
DelayedProTracker == {"delaySkipsRow"}
ScreamTracker321 == {"globalTarget", "globalCount", "delayBreak", "delayJump", "unsetBreak", "unsetJump",
                     "patternReset", "endAdvances", "jumpKeepsBreakRow", "repeatRunsEffects", "firstDelayWins"}
Octalyser == {"globalTarget", "globalCount", "delayBreak", "delayJump", "unsetBreak", "unsetJump",
              "ignoreTarget", "endCancels"}
ImpulseTracker104 == {"unsetBreak", "unsetJump", "jumpKeepsBreakRow", "repeatRunsEffects", "firstDelayWins"}

MCSongs ==
  {[orders |-> <<"p0", "skip", "p1", "end">>, rows |-> [p0 |-> 3, p1 |-> 2], channels |-> 2,
    speed |-> 1, policy |-> policy, restart |-> 0, flags |-> flags,
    cells |-> [p0 |-> <<Nothing, a, b>>, p1 |-> <<c, d>>]] :
      policy \in {"WrapKeepingBreakRow", "Stop"},
      flags \in {ProTracker, DelayedProTracker, ScreamTracker321, Octalyser, ImpulseTracker104},
      a \in {Nothing, Cell("loop", 0), Cell("break", 2)},
      b \in {Nothing, Cell("loop", 1), LoopAndDelay, Cell("jump", 1)},
      c \in {Nothing, Cell("loop", 1), Cell("speed", 2)},
      d \in {Nothing, Cell("jump", 0), Cell("break", 2), Cell("stop", 0)}}
=============================================================================
