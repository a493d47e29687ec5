------------------------------- MODULE EndOfSong -------------------------------
(***************************************************************************)
(* How a song ends in StarPlayer: the transport of the host                *)
(* (crates/starplayer-host: RenderState and Transport), the engine's own   *)
(* play state behind its command ring, and the sequencer that reports the  *)
(* end of the song through its telemetry.                                  *)
(*                                                                         *)
(* The host decides from the telemetry of the quantum before, its commands *)
(* reach the engine within the quantum, and a Play may come at any point   *)
(* in between.  Time is counted in quanta: a transport ramp (64 frames)    *)
(* lands within the quantum (128) it starts in, and a tick of the song is  *)
(* longer than a quantum.  The last snapshot the host reads at the top of  *)
(* a quantum is then the sequencer's state (SnapshotChannel: a prompt      *)
(* reader loses nothing), so it needs no variable of its own.              *)
(***************************************************************************)
EXTENDS Naturals, Sequences

CONSTANTS
    Transports,     \* the transports built: "Legacy", "Interactive"
    SongEnds,       \* how songs end: "Loops" jumps back, "Ends" runs out of its order list
    Length,         \* ticks from the top to the end of the song
    FadeQuanta,     \* fade_frames
    AtEndsOf,       \* the AtEnd modes the user chooses among, by transport and end
    Actions,        \* the transport buttons the user presses
    MaxCommands     \* bound: commands pushed by the user

ASSUME ModeAssumption == /\ Transports \subseteq {"Legacy", "Interactive"} /\ Transports # {}
                         /\ SongEnds \subseteq {"Loops", "Ends"} /\ SongEnds # {}
ASSUME LengthAssumption == Length \in Nat \ {0} /\ FadeQuanta \in Nat \ {0}
ASSUME AtEndAssumption == AtEndsOf \in [Transports -> [SongEnds -> (SUBSET {"Continue", "Stop", "FadeOut"}) \ {{}}]]
ASSUME ActionAssumption == Actions \subseteq {"Play", "Pause", "Stop"}
ASSUME BoundAssumption == MaxCommands \in Nat

VARIABLES
    \* between the control side and the audio side
    hostQ,            \* host commands: transport buttons and SetAtEnd
    atEnd,            \* AtEndSlot
    seek,             \* SeekMailbox: a rewind to Frame(0), or nothing
    pushed,
    \* RenderState
    phase,            \* where the quantum is
    hostState,        \* interactive_state
    awaitingStop,     \* awaiting_engine_stop
    awaitingRestart,  \* awaiting_restart
    naturalEnd,       \* PlayerTaps::natural_end
    \* Transport
    gain,             \* what the ramp is heading for: 1 is unity
    fading, elapsed, pendingStop, pendingRewind, paused,
    \* Engine
    engineQ,
    engine,           \* is_playing / interactive_transport
    \* PatternSequencer
    songEnd,          \* what the scan of the song found
    transport,        \* what the host was built with: interactive_enabled or not
    pos,              \* ticks into the current pass
    ended,            \* SequencerState::Stopped
    reached,          \* end_reached
    \* history
    restarted,        \* a Play went back to the top and its pass has not ended
    lastSent,         \* the last transport command sent to the engine
    retracted         \* a running fade was taken back after the Stop that is pending

controlVars == <<hostQ, pushed>>
hostVars == <<hostState, awaitingStop, awaitingRestart, naturalEnd>>
transportVars == <<gain, fading, elapsed, pendingStop, pendingRewind, paused>>
engineVars == <<engineQ, engine>>
songVars == <<songEnd, transport, pos, ended, reached>>
vars == <<controlVars, atEnd, seek, phase, hostVars, transportVars, engineVars, songVars,
          restarted, lastSent, retracted>>

Interactive == transport = "Interactive"

States == {"Playing", "Paused", "Stopped"}
Commands == {"Play", "Pause", "Stop"}
Requests == Commands \cup {"Continue", "FadeOut", "AtEndStop"}

TypeOK ==
    /\ hostQ \in Seq(Requests) /\ atEnd \in {"Continue", "Stop", "FadeOut"}
    /\ seek \in {"none", "top"} /\ pushed \in 0 .. MaxCommands
    /\ phase \in {"drain", "arm", "engine", "settle"}
    /\ hostState \in States
    /\ {awaitingStop, awaitingRestart, naturalEnd, fading, pendingStop, pendingRewind, paused,
        ended, reached, restarted, retracted} \subseteq BOOLEAN
    /\ gain \in {0, 1} /\ elapsed \in 0 .. FadeQuanta
    /\ engineQ \in Seq(Commands) /\ Len(engineQ) <= MaxCommands + 2 /\ engine \in States
    /\ transport \in Transports /\ songEnd \in SongEnds /\ pos \in 0 .. Length
    /\ lastSent \in Commands

Init ==
    /\ transport \in Transports /\ songEnd \in SongEnds /\ atEnd \in AtEndsOf[transport][songEnd]
    /\ hostQ = <<>> /\ seek = "none" /\ pushed = 0
    /\ phase = "drain" /\ hostState = "Stopped"
    /\ awaitingStop = FALSE /\ awaitingRestart = FALSE /\ naturalEnd = FALSE
    /\ gain = (IF Interactive THEN 1 ELSE 0)
    /\ fading = FALSE /\ elapsed = 0 /\ pendingStop = FALSE /\ pendingRewind = FALSE
    /\ paused = FALSE
    /\ engineQ = <<>> /\ engine = "Stopped"
    /\ pos = 0 /\ ended = FALSE /\ reached = FALSE
    /\ restarted = FALSE /\ lastSent = "Stop" /\ retracted = FALSE

-----------------------------------------------------------------------------
(* The control side *)

Push(request) ==
    /\ pushed < MaxCommands
    /\ pushed' = pushed + 1
    /\ hostQ' = Append(hostQ, request)
    /\ UNCHANGED <<seek, phase, hostVars, transportVars, engineVars, songVars, restarted, lastSent,
                   retracted>>

\* Player::play, stop, pause and resume.
Press(action) ==
    /\ action \in Actions
    /\ action = "Pause" => Interactive
    /\ Push(action)
    /\ UNCHANGED atEnd

AtEndRequest(mode) == IF mode = "Stop" THEN "AtEndStop" ELSE mode
AtEndOf(request) == IF request = "AtEndStop" THEN "Stop" ELSE request

\* Player::set_at_end writes the slot at once, and asks the transport to take a
\* running fade back.
SetAtEnd(mode) ==
    /\ mode \in AtEndsOf[transport][songEnd]
    /\ Push(AtEndRequest(mode))
    /\ atEnd' = mode

-----------------------------------------------------------------------------
(* The host's commands, at the top of a quantum *)

SendEngine(action) == engineQ' = Append(engineQ, action) /\ lastSent' = action

\* Mutant of LegacyPlay: a stop that is waiting for its ramp is not called off.
LegacyPlayKeepsStop ==
    LET restart == fading \/ pendingRewind
    IN  /\ seek' = IF restart THEN "top" ELSE seek
        /\ restarted' = (restarted \/ restart)
        /\ fading' = FALSE /\ pendingRewind' = FALSE
        /\ gain' = 1
        /\ awaitingStop' = FALSE
        /\ SendEngine("Play")
        /\ UNCHANGED <<elapsed, pendingStop, paused, hostState, awaitingRestart, naturalEnd>>

\* Mutant of LegacyPlay: the host goes on waiting for the engine's last stop.
LegacyPlayKeepsAwaiting ==
    LET restart == fading \/ pendingRewind
    IN  /\ seek' = IF restart THEN "top" ELSE seek
        /\ restarted' = (restarted \/ restart)
        /\ fading' = FALSE /\ pendingRewind' = FALSE
        /\ pendingStop' = FALSE /\ gain' = 1
        /\ SendEngine("Play")
        /\ UNCHANGED <<elapsed, paused, hostVars>>

\* RenderState::apply, Play: Transport::take_restart and begin_play.
LegacyPlay ==
    LET restart == fading \/ pendingRewind
    IN  /\ seek' = IF restart THEN "top" ELSE seek
        /\ restarted' = (restarted \/ restart)
        /\ fading' = FALSE /\ pendingRewind' = FALSE
        /\ pendingStop' = FALSE /\ gain' = 1
        /\ awaitingStop' = FALSE
        /\ SendEngine("Play")
        /\ UNCHANGED <<elapsed, paused, hostState, awaitingRestart, naturalEnd>>

\* RenderState::apply, Stop: Transport::begin_stop without a rewind.
LegacyStop ==
    /\ gain' = 0 /\ pendingStop' = TRUE
    /\ restarted' = FALSE
    /\ UNCHANGED <<seek, fading, elapsed, pendingRewind, paused, hostVars, engineQ, lastSent>>

InteractivePause ==
    /\ SendEngine("Pause")
    /\ hostState' = "Paused" /\ paused' = TRUE
    /\ UNCHANGED <<seek, restarted, awaitingStop, awaitingRestart, naturalEnd, gain, fading,
                   elapsed, pendingStop, pendingRewind>>

InteractivePlay ==
    /\ SendEngine("Play")
    /\ pendingRewind' = FALSE
    /\ seek' = IF pendingRewind THEN "top" ELSE seek
    /\ awaitingRestart' = (awaitingRestart \/ pendingRewind)
    /\ restarted' = (restarted \/ pendingRewind)
    /\ hostState' = "Playing" /\ paused' = FALSE
    /\ awaitingStop' = FALSE /\ naturalEnd' = FALSE
    /\ UNCHANGED <<gain, fading, elapsed, pendingStop>>

\* Transport::interactive_stop.
HoldTransport(rewind) ==
    /\ paused' = FALSE /\ fading' = FALSE /\ elapsed' = 0
    /\ pendingStop' = FALSE /\ pendingRewind' = rewind
    /\ gain' = 1

\* Mutant of InteractiveStop: the rewind a natural end has armed stays armed.
InteractiveStopKeepsRewind ==
    /\ SendEngine("Stop")
    /\ HoldTransport(pendingRewind)
    /\ hostState' = "Stopped"
    /\ awaitingRestart' = FALSE /\ awaitingStop' = FALSE /\ naturalEnd' = FALSE
    /\ restarted' = FALSE
    /\ UNCHANGED seek

InteractiveStop ==
    /\ SendEngine("Stop")
    /\ HoldTransport(FALSE)
    /\ hostState' = "Stopped"
    /\ awaitingRestart' = FALSE /\ awaitingStop' = FALSE /\ naturalEnd' = FALSE
    /\ restarted' = FALSE
    /\ UNCHANGED seek

\* RenderState::apply, SetAtEnd: the slot again, and Transport::cancel_fade.
CancelFade(mode) ==
    /\ atEnd' = mode
    /\ IF mode = "FadeOut" \/ ~fading THEN UNCHANGED <<fading, gain>>
       ELSE fading' = FALSE /\ gain' = 1
    /\ UNCHANGED <<seek, restarted, hostVars, elapsed, pendingStop, pendingRewind, paused,
                   engineQ, lastSent>>

\* drain_commands, one command.
Drain ==
    /\ phase = "drain" /\ hostQ # <<>>
    /\ hostQ' = Tail(hostQ)
    /\ LET c == Head(hostQ)
       IN  \/ ~Interactive /\ c = "Play" /\ LegacyPlay /\ UNCHANGED atEnd
           \/ ~Interactive /\ c = "Stop" /\ LegacyStop /\ UNCHANGED atEnd
           \/ Interactive /\ c = "Play" /\ InteractivePlay /\ UNCHANGED atEnd
           \/ Interactive /\ c = "Pause" /\ InteractivePause /\ UNCHANGED atEnd
           \/ Interactive /\ c = "Stop" /\ InteractiveStop /\ UNCHANGED atEnd
           \/ c \notin Commands /\ CancelFade(AtEndOf(c))
    /\ retracted' = (Head(hostQ) \notin Commands /\ (retracted \/ (pendingStop /\ fading /\ ~fading')))
    /\ UNCHANGED <<pushed, phase, engine, songVars>>

DrainDone ==
    /\ phase = "drain" /\ hostQ = <<>>
    /\ phase' = "arm"
    /\ UNCHANGED <<controlVars, atEnd, seek, hostVars, transportVars, engineVars, songVars,
                   restarted, lastSent, retracted>>

-----------------------------------------------------------------------------
(* The end of the song *)

\* finish_interactive_song.
FinishSong ==
    /\ SendEngine("Stop")
    /\ HoldTransport(TRUE)
    /\ hostState' = "Stopped"
    /\ awaitingStop' = TRUE /\ naturalEnd' = TRUE
    /\ UNCHANGED seek

\* Transport::begin_stop(true).
StopAndRewind ==
    /\ gain' = 0 /\ pendingStop' = TRUE /\ pendingRewind' = TRUE
    /\ UNCHANGED <<seek, fading, elapsed, paused, hostState, awaitingStop, naturalEnd, engineQ,
                   lastSent>>

\* Transport::begin_fade.
BeginFade ==
    /\ fading' = TRUE /\ elapsed' = 0
    /\ UNCHANGED <<seek, gain, pendingStop, pendingRewind, paused, hostState, awaitingStop,
                   naturalEnd, engineQ, lastSent>>

\* Mutant of Running: nothing remembers that a stop is on its way to the engine.
RunningForgetful == engine = "Playing" /\ ~pendingStop

Loops == songEnd = "Loops"

\* What the host believes of the engine: the stop it has sent may not have been
\* drained.
Running == engine = "Playing" /\ ~pendingStop /\ ~awaitingStop

\* Mutant of RestartPending: a rewind that has been asked for is not waited for.
RestartPendingNever == FALSE

\* After a Play from the top, the end the sequencer reports is still the old one.
RestartPending == awaitingRestart /\ reached

Armed ==
    /\ Interactive => hostState = "Playing"
    /\ Running /\ reached /\ ~fading

\* arm_end_of_song.
Arm ==
    /\ phase = "arm"
    /\ phase' = "engine"
    /\ awaitingRestart' = RestartPending
    /\ IF ~RestartPending /\ Armed /\ atEnd = "FadeOut" /\ Loops THEN BeginFade
       ELSE IF ~RestartPending /\ Armed /\ atEnd # "Continue" /\ ~Loops
         THEN IF Interactive THEN FinishSong ELSE StopAndRewind
         ELSE UNCHANGED <<seek, transportVars, hostState, awaitingStop, naturalEnd, engineQ,
                          lastSent>>
    /\ UNCHANGED <<controlVars, atEnd, engine, songVars, restarted, retracted>>

\* settle_transport.
Settle ==
    LET fadeLanded == ~paused /\ fading /\ elapsed >= FadeQuanta
        stopLanded == ~paused /\ pendingStop
        sent == (IF fadeLanded THEN <<"Stop">> ELSE <<>>)
                \o (IF stopLanded THEN <<"Stop">> ELSE <<>>)
    IN  /\ phase = "settle"
        /\ phase' = "drain"
        /\ IF Interactive
             THEN IF hostState = "Playing" /\ fadeLanded THEN FinishSong
                  ELSE UNCHANGED <<seek, transportVars, hostState, awaitingStop, naturalEnd,
                                   engineQ, lastSent>>
             ELSE /\ engineQ' = engineQ \o sent
                  /\ lastSent' = IF sent = <<>> THEN lastSent ELSE "Stop"
                  /\ awaitingStop' = (awaitingStop \/ sent # <<>>)
                  /\ fading' = (fading /\ ~fadeLanded)
                  /\ pendingStop' = (pendingStop /\ ~stopLanded)
                  /\ pendingRewind' = (pendingRewind /\ ~stopLanded)
                  /\ seek' = IF fadeLanded \/ (stopLanded /\ pendingRewind) THEN "top" ELSE seek
                  /\ UNCHANGED <<gain, elapsed, paused, hostState, naturalEnd>>
        /\ retracted' = (retracted /\ pendingStop')
        /\ UNCHANGED <<controlVars, atEnd, awaitingRestart, engine, songVars, restarted>>

-----------------------------------------------------------------------------
(* The engine's quantum *)

StateOf(action) ==
    CASE action = "Play" -> "Playing" [] action = "Pause" -> "Paused" [] OTHER -> "Stopped"

\* The engine's state once it has drained its ring.
Drained == IF engineQ = <<>> THEN engine ELSE StateOf(engineQ[Len(engineQ)])

\* SeekableModuleSource::apply_request.  An interactive source takes requests
\* while it is held; a legacy one only while it plays.
\* A held source publishes nothing for it, and neither does the host act on what
\* it last published: it arms an end only for an engine that was playing.
Rewound == seek = "top" /\ (Interactive \/ Drained = "Playing")

\* The song after the request, before the tick.
Pos == IF Rewound THEN 0 ELSE pos
Reached == reached /\ ~Rewound
Ended == ended /\ ~Rewound

\* begin_row and end_naturally: the tick that comes to the end of the pass.  Every
\* tick here is the first of a row, where begin_row looks at the end.
EndOfPass ==
    /\ reached' = TRUE
    /\ ended' = (atEnd = "Stop" \/ (atEnd = "FadeOut" /\ ~Loops))
    /\ pos' = 0
    /\ restarted' = FALSE

TickWithinPass ==
    /\ pos' = Pos + 1
    /\ reached' = (Reached /\ atEnd # "Continue")
    /\ ended' = FALSE
    /\ UNCHANGED restarted

NoTick ==
    /\ pos' = Pos /\ reached' = Reached /\ ended' = Ended
    /\ UNCHANGED restarted

\* Everything in a quantum of Engine::render that is not the sequencer's tick.
\* The transport's gain and fade advance with every frame that leaves the host,
\* whether or not the engine plays.
Quantum ==
    /\ phase = "engine"
    /\ phase' = "settle"
    /\ engine' = Drained /\ engineQ' = <<>>
    /\ seek' = IF Rewound THEN "none" ELSE seek
    /\ elapsed' = IF fading /\ ~paused /\ elapsed < FadeQuanta THEN elapsed + 1 ELSE elapsed
    /\ UNCHANGED <<controlVars, atEnd, hostVars, gain, fading, pendingStop, pendingRewind, paused,
                   lastSent, retracted, songEnd, transport>>

\* A quantum with a tick in it: a rewind always brings one, as it restarts the
\* tick clock at the frame it is applied at.
RenderTick ==
    /\ Drained = "Playing" /\ ~Ended
    /\ IF Pos + 1 >= Length THEN EndOfPass ELSE TickWithinPass
    /\ Quantum

RenderNoTick ==
    /\ Drained # "Playing" \/ Ended \/ ~Rewound
    /\ NoTick
    /\ Quantum

-----------------------------------------------------------------------------

Audio == Drain \/ DrainDone \/ Arm \/ RenderTick \/ RenderNoTick \/ Settle

User ==
    \/ \E action \in Actions : Press(action)
    \/ \E mode \in AtEndsOf[transport][songEnd] : SetAtEnd(mode)

Next == Audio \/ User

\* The device asks for block after block, and a playing song ticks.
Spec == Init /\ [][Next]_vars /\ WF_vars(Audio) /\ SF_vars(RenderTick)

-----------------------------------------------------------------------------
(* Properties *)

\* Play after the end of a song means "again": the pass it starts at the top is
\* not cut short by the end that was reached before it.  (RenderState::apply,
\* Play: "it goes back to the top, which also clears the sticky `end_reached`
\* the fade was armed from".)
RestartPlaysOn == restarted => ~fading /\ ~pendingStop /\ ~awaitingStop /\ ~naturalEnd

\* The interactive transport keeps that promise: arm_end_of_song waits until the
\* sequencer has taken the rewind (awaiting_restart).
InteractiveRestartPlaysOn == Interactive => RestartPlaysOn

\* The end of a song acts on it once: no fade, stop or natural end is armed while
\* the last thing the engine was told is to stop or to pause, even though it has
\* not got round to it yet (arm_end_of_song: "would otherwise re-arm over
\* silence").
EndsOnce ==
    [][ \/ ~fading /\ fading'
        \/ ~pendingRewind /\ pendingRewind'
        \/ ~naturalEnd /\ naturalEnd'
        => lastSent = "Play" ]_vars

\* An interactive song that came to its natural end rewinds at the next Play,
\* and only such a song does: a user's Stop takes both back together.
RewindMeansNaturalEnd == Interactive => (pendingRewind <=> naturalEnd)

\* A legacy stop cuts the sound at silence: when the engine is told to stop, the
\* ramp has gone down (Player::stop: "stops the musical clock when the ramp lands, so
\* it does not click either").
StopLandsSilent ==
    [][lastSent' # lastSent /\ lastSent' = "Stop" /\ pendingStop => gain = 0]_vars

\* The only way to break that is to take a running fade back behind the Stop, within
\* its quantum (Transport::cancel_fade turns the ramp round and leaves the stop
\* pending): no other order of Play, Stop, settings and ends of the song stops the
\* engine over a ramp that goes up.
OnlyARetractionClicks ==
    [][lastSent' # lastSent /\ lastSent' = "Stop" /\ pendingStop /\ ~retracted => gain = 0]_vars

\* What the user has chosen ends the sound: not Repeat, and not a stop at the end of a
\* song that loops, after which the sequencer stops and the transport plays on over
\* silence.
Settles == atEnd = "FadeOut" \/ (atEnd = "Stop" /\ ~Loops)

\* A song that has been heard through, with something to be done about it, does
\* not go on playing for ever over its last snapshot, whatever was chosen before.
HeardSongStops ==
    (reached /\ engine = "Playing" /\ Settles) ~> (engine # "Playing" \/ ~reached \/ ~Settles)
=============================================================================
