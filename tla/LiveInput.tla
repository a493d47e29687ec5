------------------------------- MODULE LiveInput -------------------------------
(***************************************************************************)
(* Live notes on their way into the engine: the clock they are stamped     *)
(* against and the lead they get (starplayer-host/src/events.rs), the      *)
(* recoverable event queue and its cancellation epoch (starplayer-engine/  *)
(* src/instrument.rs), the render loop that polls it and splits its quanta *)
(* at the stamps (engine.rs, ring.rs), and the keys the rack holds         *)
(* (instrument/live.rs).                                                   *)
(*                                                                         *)
(* Three parties: a sender (a MIDI callback, or the control thread), the   *)
(* control side that cancels, and the audio callback.  They share a ring   *)
(* and four atomics, each accessed in a step of its own.  In a worklet     *)
(* they run in one realm, one after the other.                             *)
(*                                                                         *)
(* Time is relative to the engine's source clock: `due` says how many      *)
(* frames are left to an event's stamp and -1 that it has gone by; `lag`   *)
(* says how far the published clock is behind.  It is the interactive      *)
(* transport's clock, which runs through Pause and Stop.                   *)
(***************************************************************************)
EXTENDS Integers, Sequences

CONSTANTS
    None,
    Realms,        \* how the parties run: "threads" or "worklet"
    Keys,
    Capacity,      \* EVENT_QUEUE_CAPACITY
    Quantum,       \* RENDER_QUANTUM
    Blocks,        \* what the device may ask for in one callback
    Requests,      \* requested leads
    MaxSends,      \* bound: events sent
    MaxCancels     \* bound: cancels, by realm

ASSUME RealmAssumption == Realms \subseteq {"threads", "worklet"} /\ MaxCancels \in [Realms -> Nat]
ASSUME SizeAssumption == {Capacity, Quantum} \cup Blocks \subseteq Nat \ {0} /\ Requests \subseteq Nat
ASSUME KeyAssumption == None \notin Keys /\ MaxSends \in Nat

\* What is in the queue.
Events ==
    [what : {"On", "Off", "Pedal", "Up", "AllOff"}, key : Keys \cup {None},
     due : Int, epoch : Nat, batch : Nat, exact : BOOLEAN]

ASSUME NoneAssumption == None \notin Events

VARIABLES
    realm,
    \* the sender
    down, pedal,     \* what the player's hands and foot do
    sending,         \* send_to under way: [pc, event, prompt]
    sends,
    \* the control side
    request,         \* requested_lead_frames
    cancelling,      \* a cancel is between its command and its epoch
    cancels,
    \* shared
    observed,        \* observed_block_frames
    lag,             \* source_frame, minus EventClock.source_frame
    epoch, recovery,
    ring,
    commands,        \* clears on their way to the engine
    \* the audio callback
    phase, goal,     \* where it is, and what the poll under way is for
    current,         \* the epoch this poll has loaded
    tries,           \* events this refresh may still drop
    owed,            \* frames the device still has to get
    ready,           \* OutputRing: rendered frames that nobody has taken
    left,            \* frames left in the quantum
    peeked, recovered,
    held, sustain,   \* the rack's instances, and its pedal
    cleared,         \* cancels whose clear has been applied
    slipped          \* history: something sounds that a Stop should have caught, see Slips

senderVars == <<down, pedal, sending, sends>>
controlVars == <<request, cancelling, cancels>>
timeVars == <<observed, lag, owed, ready, left>>
queueVars == <<epoch, recovery, ring, peeked, recovered>>
rackVars == <<held, sustain, cleared, commands, slipped>>
pollVars == <<phase, goal, current, tries>>
vars == <<realm, senderVars, controlVars, timeVars, queueVars, rackVars, pollVars>>

Larger(m, n) == IF m > n THEN m ELSE n
Smaller(m, n) == IF m < n THEN m ELSE n

\* Only one realm: the others wait for the callback, and it for them.
MayRun == realm = "worklet" => phase = "idle"
Undisturbed == realm = "worklet" => sending.pc = "idle" /\ ~cancelling

-----------------------------------------------------------------------------
(* The sender *)

Nothing == [pc |-> "idle"]

\* What a hand or a foot may do next.
Gestures ==
    [what : {"On"}, key : Keys \ down] \cup [what : {"Off"}, key : down]
        \cup [what : {IF pedal THEN "Up" ELSE "Pedal"}, key : {None}]

\* Mutant of Lead: the floor leaves out the quantum that is already rendered.
LeadOfABlock == Larger(request, observed)

\* EventClock::lead_frames.
Lead == Larger(request, observed + Quantum)

\* EventSender::send_to: the clock and the lead are read.
Stamp(gesture) ==
    /\ MayRun /\ sending = Nothing /\ sends < MaxSends
    /\ sends' = sends + 1
    /\ sending' = [pc |-> "stamped", what |-> gesture.what, key |-> gesture.key,
                   due |-> Lead - lag, prompt |-> TRUE]
    /\ down' = CASE gesture.what = "On" -> down \cup {gesture.key}
                 [] gesture.what = "Off" -> down \ {gesture.key}
                 [] OTHER -> down
    /\ pedal' = IF gesture.what \in {"Pedal", "Up"} THEN gesture.what = "Pedal" ELSE pedal
    /\ UNCHANGED <<realm, controlVars, timeVars, queueVars, rackVars, pollVars>>

\* ExternalEventProducer::send: the epoch is loaded before the push.
Admit ==
    /\ MayRun /\ sending.pc = "stamped"
    /\ sending' = [pc |-> "admitted", what |-> sending.what, key |-> sending.key,
                   due |-> sending.due, prompt |-> sending.prompt, epoch |-> epoch]
    /\ UNCHANGED <<realm, down, pedal, sends, controlVars, timeVars, queueVars, rackVars, pollVars>>

Queued == (IF peeked = None THEN <<>> ELSE <<peeked>>) \o ring

\* An event as it is queued.  It is to be in time if its sender has not slept over the end
\* of a callback, or the begin of one larger than any before, and nothing with a later
\* stamp is ahead of it.
Event ==
    [what |-> sending.what, key |-> sending.key, due |-> sending.due, epoch |-> sending.epoch,
     batch |-> cancels,
     exact |-> sending.prompt /\ \A i \in DOMAIN Queued : Queued[i].due <= sending.due]

Push ==
    /\ MayRun /\ sending.pc = "admitted"
    /\ IF Len(ring) < Capacity
         THEN ring' = Append(ring, Event) /\ sending' = Nothing
         ELSE sending' = [pc |-> "refused"] /\ UNCHANGED ring
    /\ UNCHANGED <<realm, down, pedal, sends, controlVars, timeVars, epoch, recovery, peeked,
                   recovered, rackVars, pollVars>>

\* The overflow is latched out of band, after the push has failed.
Latch ==
    /\ MayRun /\ sending.pc = "refused"
    /\ recovery' = recovery + 1
    /\ sending' = Nothing
    /\ UNCHANGED <<realm, down, pedal, sends, controlVars, timeVars, epoch, ring, peeked, recovered,
                   rackVars, pollVars>>

-----------------------------------------------------------------------------
(* The control side *)

\* EventClock::set_requested_lead_frames.
SetLead(frames) ==
    /\ MayRun /\ request' = frames
    /\ UNCHANGED <<realm, senderVars, cancelling, cancels, timeVars, queueVars, rackVars, pollVars>>

\* Player::interactive for Stop, StopPreview, AllSoundOff and a change of destination:
\* the command that clears the voices is queued, then the epoch moves.
CancelQueue ==
    /\ MayRun /\ ~cancelling /\ cancels < MaxCancels[realm]
    /\ cancelling' = TRUE
    /\ cancels' = cancels + 1
    /\ commands' = commands + 1
    /\ UNCHANGED <<realm, senderVars, request, timeVars, queueVars, held, sustain, cleared, slipped,
                   pollVars>>

CancelBump ==
    /\ MayRun /\ cancelling
    /\ cancelling' = FALSE
    /\ epoch' = epoch + 1
    /\ UNCHANGED <<realm, senderVars, request, cancels, timeVars, recovery, ring, peeked, recovered,
                   rackVars, pollVars>>

-----------------------------------------------------------------------------
(* The audio callback *)

\* The sender is not prompt any more.
Overtaken == IF sending.pc \in {"stamped", "admitted"} THEN [sending EXCEPT !.prompt = FALSE] ELSE sending

\* EventClock::observe_block.
Observe(block) == Larger(observed, block)

\* RenderState::render of a block.
Callback(block) ==
    /\ Undisturbed /\ phase = "idle"
    /\ phase' = "output"
    /\ owed' = block
    /\ observed' = Observe(block)
    /\ sending' = IF block > observed THEN Overtaken ELSE sending
    /\ UNCHANGED <<realm, down, pedal, sends, controlVars, lag, ready, left, queueVars, rackVars,
                   goal, current, tries>>

\* Engine::render: what the output ring holds goes out, then a new quantum is rendered.
Output ==
    LET taken == Smaller(ready, owed)
    IN  /\ phase = "output"
        /\ owed' = owed - taken
        /\ ready' = ready - taken
        /\ phase' = IF owed = taken THEN "publish" ELSE "commands"
        /\ UNCHANGED <<realm, senderVars, controlVars, observed, lag, left, queueVars, rackVars,
                       goal, current, tries>>

\* RenderState::publish: the clock, at the end of the callback.
Publish ==
    /\ phase = "publish"
    /\ phase' = "idle"
    /\ lag' = 0
    /\ sending' = Overtaken
    /\ UNCHANGED <<realm, down, pedal, sends, controlVars, observed, owed, ready, left, queueVars,
                   rackVars, goal, current, tries>>

Silence == [key \in Keys |-> "off"]

\* The top of a quantum: what was queued has reached the engine, and a clear takes the
\* live voices and the rack's holds (Engine::apply_interactive, clear_scope).
Commands ==
    /\ phase = "commands"
    /\ left' = Quantum
    /\ IF commands = 0 THEN UNCHANGED <<held, sustain, slipped>>
       ELSE held' = Silence /\ sustain' = FALSE /\ slipped' = FALSE
    /\ cleared' = cleared + commands
    /\ commands' = 0
    /\ phase' = "poll" /\ goal' = "render"
    /\ UNCHANGED <<realm, senderVars, controlVars, observed, lag, owed, ready, queueVars, current,
                   tries>>

AllNotesOff ==
    [what |-> "AllOff", key |-> None, due |-> 0, epoch |-> epoch, batch |-> cancels, exact |-> FALSE]

\* Mutant of Recover: what was queued is dropped, and nothing is released.
RecoverQuietly ==
    /\ recovered' = recovery
    /\ ring' = <<>> /\ peeked' = None

\* ExternalEventQueue::refresh after an overflow.
Recover ==
    /\ recovered' = recovery
    /\ ring' = <<>> /\ peeked' = AllNotesOff

\* ExternalEventQueue::refresh: the overflow latch and the lookahead ...
Refresh ==
    /\ phase = "poll"
    /\ IF recovery # recovered
         THEN Recover /\ phase' = goal
         ELSE /\ IF peeked = None /\ ring # <<>>
                   THEN peeked' = Head(ring) /\ ring' = Tail(ring)
                   ELSE UNCHANGED <<peeked, ring>>
              /\ phase' = "load"
              /\ UNCHANGED recovered
    /\ UNCHANGED <<realm, senderVars, controlVars, timeVars, epoch, recovery, rackVars, goal, current,
                   tries>>

\* Mutant of Loaded: the poll of a dispatch makes do with the epoch of the poll before it.
LoadedOnceASegment == IF goal = "render" THEN epoch ELSE current

Loaded == epoch

\* Mutant of Tries: the lookahead is not counted.
TriesOfTheRing == Capacity

Tries == Capacity + 1

\* ... then the epoch ...
Load ==
    /\ phase = "load"
    /\ current' = Loaded
    /\ tries' = Tries
    /\ phase' = "sift"
    /\ UNCHANGED <<realm, senderVars, controlVars, timeVars, queueVars, rackVars, goal>>

Cancelled == peeked # None /\ peeked.epoch # current

Drop ==
    IF ring = <<>> THEN peeked' = None /\ UNCHANGED ring
    ELSE peeked' = Head(ring) /\ ring' = Tail(ring)

\* ... and one event of another epoch is dropped, or there is none (any more), or the
\* refresh has dropped as many as there can have been when it began.
Sift ==
    /\ phase = "sift"
    /\ IF Cancelled /\ tries > 0
         THEN Drop /\ tries' = tries - 1 /\ UNCHANGED phase
         ELSE phase' = goal /\ UNCHANGED <<peeked, ring, tries>>
    /\ UNCHANGED <<realm, senderVars, controlVars, timeVars, epoch, recovery, recovered, rackVars,
                   goal, current>>

Due == peeked # None /\ peeked.due <= 0

\* PreparedRack::apply: a key that is let go under the pedal goes on.
Apply(event) ==
    CASE event.what = "On" -> held' = [held EXCEPT ![event.key] = "held"] /\ UNCHANGED sustain
      [] event.what = "Off" ->
           /\ held' = [held EXCEPT ![event.key] =
                         IF @ = "off" THEN @ ELSE IF sustain THEN "pedal" ELSE "off"]
           /\ UNCHANGED sustain
      [] event.what = "Pedal" -> sustain' = TRUE /\ UNCHANGED held
      [] event.what = "Up" ->
           /\ sustain' = FALSE
           /\ held' = [key \in Keys |-> IF held[key] = "pedal" THEN "off" ELSE held[key]]
      [] event.what = "AllOff" -> sustain' = FALSE /\ held' = Silence

\* An event whose Stop has cleared the voices already and has yet to move the epoch: what
\* it starts, that Stop does not end, and it cancels the event that would.
Slips(event) == event.what \in {"On", "Pedal"} /\ event.epoch < cleared

\* MidiSource::dispatch: pop_due polls once more and hands out what is due.
Play ==
    /\ phase = "play" /\ Due
    /\ Apply(peeked)
    /\ slipped' = (peeked.what # "AllOff" /\ (slipped \/ Slips(peeked)))
    /\ Drop
    /\ phase' = "poll" /\ goal' = "play"
    /\ UNCHANGED <<realm, senderVars, controlVars, timeVars, epoch, recovery, recovered, cleared,
                   commands, current, tries>>

Played ==
    /\ phase = "play" /\ ~Due
    /\ phase' = "render"
    /\ UNCHANGED <<realm, senderVars, controlVars, timeVars, queueVars, rackVars, goal, current,
                   tries>>

\* dispatch_due_events: the source's next frame has come.
Dispatch ==
    /\ phase = "render" /\ left > 0 /\ Due
    /\ phase' = "poll" /\ goal' = "play"
    /\ UNCHANGED <<realm, senderVars, controlVars, timeVars, queueVars, rackVars, current,
                   tries>>

Aged(event, span) == [event EXCEPT !.due = Larger(@ - span, -1)]

\* frames_until_next_event.
Gap == IF peeked = None THEN left ELSE Smaller(peeked.due, left)

\* A segment, up to the next event of this source or of another one (the song's next
\* tick or the control clock's, which may be anywhere), and the poll at its end.
Segment ==
    /\ phase = "render" /\ left > 0 /\ ~Due
    /\ \E span \in 1 .. Gap :
         /\ left' = left - span
         /\ lag' = lag + span
         /\ ring' = [i \in DOMAIN ring |-> Aged(ring[i], span)]
         /\ peeked' = IF peeked = None THEN None ELSE Aged(peeked, span)
         /\ sending' = IF sending.pc \in {"stamped", "admitted"} THEN Aged(sending, span) ELSE sending
    /\ phase' = "poll" /\ goal' = "render"
    /\ UNCHANGED <<realm, down, pedal, sends, controlVars, observed, owed, ready, epoch, recovery,
                   recovered, rackVars, current, tries>>

\* The quantum is converted into the output ring.
QuantumDone ==
    /\ phase = "render" /\ left = 0
    /\ ready' = Quantum
    /\ phase' = "output"
    /\ UNCHANGED <<realm, senderVars, controlVars, observed, lag, owed, left, queueVars, rackVars,
                   goal, current, tries>>

-----------------------------------------------------------------------------
Init ==
    /\ realm \in Realms
    /\ down = {} /\ pedal = FALSE /\ sending = Nothing /\ sends = 0
    /\ request \in Requests /\ cancelling = FALSE /\ cancels = 0
    /\ observed = 0 /\ lag = 0 /\ epoch = 0 /\ recovery = 0 /\ ring = <<>> /\ commands = 0
    /\ phase = "idle" /\ goal = "render" /\ current = 0 /\ tries = 0
    /\ owed = 0 /\ ready = 0 /\ left = 0
    /\ peeked = None /\ recovered = 0
    /\ held = Silence /\ sustain = FALSE /\ cleared = 0 /\ slipped = FALSE

Send == Admit \/ Push \/ Latch

Audio ==
    \/ \E block \in Blocks : Callback(block)
    \/ Output \/ Publish \/ Commands \/ Refresh \/ Load \/ Sift
    \/ Play \/ Played \/ Dispatch \/ Segment \/ QuantumDone

Next ==
    \/ \E gesture \in Gestures : Stamp(gesture)
    \/ Send
    \/ \E frames \in Requests : SetLead(frames)
    \/ CancelQueue \/ CancelBump
    \/ Audio

\* The device asks for block after block, and a call that was begun is carried on with.
Spec == Init /\ [][Next]_vars /\ WF_vars(Audio) /\ WF_vars(Send) /\ WF_vars(CancelBump)

-----------------------------------------------------------------------------
\* Every variable is of its kind, the ring within its capacity and the output ring
\* never fuller than a quantum.
TypeOK ==
    /\ realm \in Realms /\ down \subseteq Keys /\ pedal \in BOOLEAN
    /\ sending.pc \in {"idle", "stamped", "admitted", "refused"} /\ sends \in 0 .. MaxSends
    /\ request \in Requests /\ cancelling \in BOOLEAN /\ cancels \in 0 .. MaxCancels[realm]
    /\ observed \in Blocks \cup {0} /\ {lag, epoch, recovery, commands, current, owed} \subseteq Nat
    /\ ring \in Seq(Events) /\ Len(ring) <= Capacity
    /\ peeked = None \/ peeked \in Events
    /\ phase \in {"idle", "output", "publish", "commands", "poll", "load", "sift", "play", "render"}
    /\ goal \in {"play", "render"}
    /\ ready \in 0 .. Quantum /\ left \in 0 .. Quantum /\ recovered \in 0 .. recovery
    /\ held \in [Keys -> {"off", "held", "pedal"}] /\ sustain \in BOOLEAN /\ cleared \in 0 .. cancels
    /\ tries \in 0 .. Capacity + 1 /\ slipped \in BOOLEAN

\* A note is played on the very frame it was stamped with, in whatever blocks the device
\* asks for, if its sender got it into the queue before the end of the callback in which
\* (or before which) it read the clock, and that callback is no larger than the lead knew
\* (events.rs, "the lead, and why it has a floor": a stamp less than a block and a quantum
\* ahead may lie in audio that has been rendered already).
OnTime == \A i \in DOMAIN Queued : Queued[i].exact => Queued[i].due >= 0

\* Nothing is on its way to the rack: sent, queued, latched or half cancelled.
Settled ==
    /\ sending = Nothing /\ Queued = <<>> /\ recovery = recovered
    /\ commands = 0 /\ ~cancelling

\* Once everything has reached the rack, no key sounds that nobody holds, nor the pedal,
\* even when the queue was too full for the event that said so ("a lost key-up cannot
\* leave a held generation indefinitely", recoverable_event_channel), or when a Stop has
\* cancelled it; unless the note (or the pedal) slipped through between the two halves of
\* a Stop.
KeyUpSilences ==
    Settled => \A key \in Keys : held[key] # "off" => key \in down \/ pedal \/ slipped

\* And that comes: a key that has been let go does not sound for ever.
KeyUpSilencesInTheEnd ==
    \A key \in Keys :
        (key \notin down /\ ~pedal /\ held[key] # "off" /\ ~slipped)
            ~> (key \in down \/ pedal \/ held[key] = "off" \/ slipped)

\* Without that reservation.  On two threads it fails (LiveInput_Hang.cfg).
KeyUpAlwaysSilences ==
    \A key \in Keys :
        (key \notin down /\ ~pedal /\ held[key] # "off") ~> (key \in down \/ pedal \/ held[key] = "off")

Sounds == phase = "play" /\ Due /\ peeked.what = "On" /\ phase' = "poll"

\* A callback that finds a Stop made, its epoch moved, plays no note that was queued
\* before that Stop was begun, however many were, and whoever sends meanwhile
\* (ExternalEventQueue::refresh drops as many as the ring and the lookahead hold).
FoundStopsCancel == [][Sounds => peeked.batch >= current]_vars

\* Once a Stop has cleared the voices, no note sounds that was queued before the Stop
\* ("Cleanup invalidates already queued future input", 01-technical-architecture.md).
\* On two threads it fails (LiveInput_Stop.cfg).
StopCancelsQueued == [][Sounds => peeked.batch >= cleared]_vars

\* The queue goes on with this event; and it goes on without its first one.
Kept(event) == \E i \in DOMAIN Queued' : Queued'[i] = event
Cancels == phase = "sift" /\ Cancelled /\ tries > 0

\* One Stop takes no note that was queued after it: such a note goes only when a refresh
\* that has dropped a note of an earlier Stop meets it under an epoch that has moved
\* since the refresh loaded it, that is, with two Stops around one refresh.
OneStopKeepsLaterNotes ==
    [][Cancels => \A i \in DOMAIN Queued :
                     Queued[i].epoch >= current =>
                       Kept(Queued[i]) \/ (Queued[i].epoch > current /\ tries < Capacity + 1)]_vars

\* Whatever the Stops, no note goes that was queued after the last of them ("without
\* discarding later admissions", ExternalEventProducer::cancel_pending).  On two threads
\* it fails (LiveInput_Later.cfg).
LaterNotesKept ==
    [][Cancels => \A i \in DOMAIN Queued : Queued[i].epoch = epoch => Kept(Queued[i])]_vars
=============================================================================
