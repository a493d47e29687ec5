# StarPlayer in TLA+

A verification project kept beside StarPlayer, a module player written in Rust:
TLA+ models of its concurrent and stateful parts, TLC configurations that check
them on small instances, and theorems that TLAPS checks for every instance.

All paths below are relative to the repository. `PROJECT.json` holds the same
information for machines: the components, the runs, the line range behind every
definition, the mutants that show each property can fail, and the hazards.

## 1. The system

StarPlayer renders tracker modules (MOD, MTM, S3M, XM, IT) in quanta of 128
frames. One engine is embedded in several hosts: a native one (cpal), the
browser (an audio worklet), offline rendering, and microcontrollers. Two sides
share nothing but lock-free rings and single-word atomics:

```
 control side                             audio callback
 ------------                             -----------------------------------------------
 Player  --- commands (64) -------------> RenderState --- engine commands (64) --> Engine
         <-- retired (16) --------------              <-- garbage (8) ------------
         --- SeekMailbox, AtEndSlot, load_transport_epoch ------> sequencer, RenderState
         <-- snapshot channel (depth 3), taps ------------------- sequencer, Engine
```

The audio side must never allocate, free, block or wait. So every value it
replaces travels back for the control side to drop; a command that cannot be
carried out safely now is held back; and anything the host decides about the
engine, it decides from a snapshot taken a quantum earlier.

| Component | State it keeps | Operations | Correct when |
|---|---|---|---|
| Snapshot channel (`starplayer-rt/src/snapshot.rs`, `spsc.rs`) | bounded ring, latest value, drop count | publish, read | order is kept, time never runs back, losses are counted, a prompt reader loses nothing |
| Garbage channel (`starplayer-rt/src/garbage.rs`) | bounded ring | retire, collect | nothing dropped on the audio side |
| Seek mailbox (`starplayer-host/src/source.rs`) | three atomics | request, peek, clear | what is acted on has an argument; the next dispatch takes what is pending; a seek is lost only in one window, and only between threads |
| Host player (`starplayer-host/src/player.rs`) | rings, held command, identities, barrier | load, edit, barrier, collect; drain, apply, acknowledge | never frees in the callback, never reorders, an accepted barrier tells the truth |
| Replacement (`starplayer-host/src/replacement.rs`) | deferred build, release flag, epoch | load_replacement, finish, cancel | a new source is silent until told; a cancelled release is inert |
| Transport (`starplayer-host/src/transport.rs`) | gain ramp, fade, pending stop and rewind | play, stop, fade, settle | a stop lands in silence unless a fade is taken back behind it; the end of a song acts once |
| Event clock (`starplayer-host/src/events.rs`) | published source frame, largest block, requested lead | send_to, observe_block, publish | an event is never stamped into audio that is already rendered |
| Live event queue (`starplayer-engine/src/instrument.rs`) | ring, lookahead, cancellation epoch, overflow latch | send, cancel, refresh, pop_due | a Stop whose epoch a callback has found cancels what was queued before it, and one Stop only that; a lost key-up still silences |
| Inserts (`starplayer-host/src/insert.rs`, `starplayer-engine/src/insert.rs`) | layout, command ring, chains, bypass bits | install, remove, set, bypass, drain, replay | the engine has what the host believes; a rebuild keeps it |
| Engine (`starplayer-engine/src/engine.rs`, `ring.rs`, `control.rs`) | command ring, module, transport, frame, partial quantum | drain, render_quantum, dispatch | 32 commands a quantum; events on their frame; no frame lost between blocks |
| Sequencer, timeline, flow (`starplayer-engine/src/sequencer.rs`, `timeline.rs`, `flow.rs`, `starplayer-core/src/row_clock.rs`) | position, row clock, flow state, visited rows | tick, commit, seek, scan, restore | every module gets an end, at one place and after one length, however it is entered |
| Voice ownership (`channel.rs`, `ownership.rs`, `overlap.rs`, `starplayer-mixer/src/voice.rs`, `starplayer-it/src/processor.rs`) | voice pool, records, lanes, articulations | trigger, detach, steal, retire, clear | budgets hold, every note finds a voice, every voice has one who can end it |
| Embedded host (`starplayer-host-embedded`) | seqlock, copy of the transport | store, load, refill | a read is never torn |
| Browser (`starplayer-host-wasm`, `apps/starplayer-web/www`) | admission, applied barrier | admit, batch, replace | an admitted batch is never rejected |
| Cast (`starplayer-cast`, `starplayer-cli/src/cast.rs`) | driver thread, chunk channel, HTTP server thread, session | render, send, serve, close | the stream has no gaps; closing never hangs |

The format loaders, mixer, DSP, MIDI, enhancement, telemetry types, terminal
applications and tools are listed in `PROJECT.json` with the reason they are
not modelled. They are parsers, numerical code or user interfaces without a
protocol of their own; the effect processors of the formats are arithmetic
(but for the voices of Impulse Tracker, which `Voices` models), checked in the
repository against recorded traces.

What is hard here, and what the properties are for: two threads over three
atomics; commands in two rings in series, with a reservation made in one for a
value that comes back through the other; a put-back command; decisions from a
snapshot that is a quantum old; a rewind that has been asked for and not yet
taken; a ramp shared by stop, fade and repeat; a song that may jump anywhere and must
still have one end; a voice that four parties hold a handle to; three threads that
wait for one another when a cast closes; and everything that depends on the control
side collecting in time. `PROJECT.json` lists these under
`hazards`, each at the line where it bites.

## 2. The modules

| Module | Models | State and actions |
|---|---|---|
| `SnapshotChannel` | the latest-value channel | `ring`, `latest`, `dropped` as in the code; `Publish` is one publish, a read is `ReadBegin`, any number of `ReadPop`, `ReadEnd`, so a publish can come between any two pops |
| `SeekMailbox` | the seek slot and its users | one action per atomic access; `ctl` and `aud` are the program counters and registers of both sides; `AudioPlayStop` stops and starts the legacy clock |
| `HostPlayer` | `Player`, `RenderState`, `Engine::drain_commands` | the four rings, the audio callback as a program counter `phase`, one action per command drained; the control operations as actions that push |
| `EndOfSong` | the legacy and the interactive transport, the engine's play state, the end of a pass in the sequencer | one quantum is `Drain`*, `DrainDone`, `Arm`, `RenderTick` or `RenderNoTick`, `Settle` |
| `MCEndOfSong` | the mode sets that the runs of `EndOfSong` use | |
| `SongSequencer` | the timeline scan, the loop detector, flow control, the row clock and the pattern sequencer | `seq` is the sequencer as a record; one action per tick (of the scan, of playback), seek, change of setting, replacement |
| `SongTape` | what scan and sequencer promise together: a song has one length | an abstract tape; `SongSequencer` refines it |
| `MCSongSequencer` | the family of songs that is checked | |
| `Voices` | the voice pool, ownership records and budgets, note overlap, Impulse Tracker's virtual channels, the live rack's notes | one action per call of the audio thread: a tick of the song, a control step, a key, a clear, a seek, a stretch of mixing |
| `MCVoices` | the populations of voices that are checked, and how loud they are struck | |
| `Inserts` | the insert effects on both sides of their ring, and the replay of a rebuild | `player` and `rebuilt` are two players with the engine of each; one action per call, replayed call and command drained |
| `LiveInput` | stamps and lead, the recoverable queue and its epoch, the quantum loop and the output ring, held keys and pedal | one action per atomic access of a sender, of a cancel and of the callback |
| `MCLiveInput` | the keys of its user, and how often he cancels | |
| `CastStream` | driver thread, chunk channel, HTTP server thread, closing order; the speaker as environment | one action per blocking or sending operation of each thread |
| `SeqLock` | `SeqlockU64` | one action per atomic access of `store` and `load` |
| `Register` | what the seqlock promises | `SeqLock` refines it |
| `MCSeqLock` | a slot of three-valued halves | |
| `HostPlayer_proofs` | types, retirement, order, ownership and transport of the host | |
| `SeekMailbox_proofs` | that seeks are prompt, have their arguments, and are lost in one way only; that `SeqLock`, the words of the slot on the embedded host, implements `Register` | |
| `EndOfSong_proofs` | the snapshot channel's order, accounting and promise to a prompt reader; that an end acts once, "again" plays on, and a stop clicks in one way only | |
| `SongSequencer_proofs` | that a song lasts as long as its scan says and ends where it says, that a replaced renderer knows the rows played, that no scan is endless | |
| `LiveInput_proofs` | that live notes are on time, what a Stop cancels and what one Stop does not | |
| `CastStream_proofs` | that a cast has no gaps | |
| `Inserts_proofs` | that the host knows its inserts, and a rebuild keeps them | |
| `Voices_proofs` | that voices stay within their budgets, agree with their lanes, ring once, always have an owner and never change on both sides at once, and that every note plays | |

They share no variables: each one takes from its neighbours what it needs as an
input from a small set. `EndOfSong` relies on `SnapshotChannel` (the host reads
once per quantum and the sequencer publishes at most once per tick, so it is
never a depth behind) and therefore reads the state of the sequencer directly.
`HostPlayer` reduces the snapshot that carries `AppliedPlayback` to `published`
and the player's last read of it to `seen`, which may be as old as one likes.

### SnapshotChannel

A snapshot is the number of its publish. `lag` remembers the most publishes
between two reads, so that the promise to a prompt reader can be stated.

### SeekMailbox

A request is its ordinal, so that a mixture of two requests is recognisable. Frames are
counted in quanta. Two realms are explored in one run: `worklet`, where control code runs
only between callbacks, and `threads`, every interleaving. On both, any number of seeks may
be made over a pending one, an install may clear the slot, and the callback itself may ask
for a rewind, with no access of one writer waiting for the other: nothing in
`Player::request_seek` or `RenderState::request_seek` would make it wait.

Only a quantum that dispatches looks at the slot. A legacy transport that is stopped
returns before that (`engine.rs:1123-1126`) and its clock stands still; `running` says
which it is, and a quantum of a stopped one changes nothing here. So a seek may lie in the
slot for as long as the transport is stopped, and what is promised is about the first
quantum after it.

`owed`, `late`, `wiped`, `made` and `applied` are history, and so is `ord`, which numbers
the argument stores: it says whose argument is in the slot, was read, or was acted on,
which the values cannot say when two rewinds have the same one.
Accesses are sequentially consistent. The `Relaxed` orderings of the code allow
strictly more, so what the passing run shows on two threads is about the order
of the statements, not about the memory model.

### HostPlayer

A module is its build number. The return rings carry values that are only ever
dropped, so each is its occupancy. `older`, `allocated`, `mayPlay`,
`lastApplied` and `cancelledAt` are history. The host is the one with an
interactive transport. `page` is the phase of the browser's load
(`apps/starplayer-web/www/worklet-processor.js`): it releases a load once, and
takes back only what it has released. `FinishSong` lets a playing host find the end of the song
at any quantum: `EndOfSong` says when it really does. Inserts are `Inserts`' subject and nobody
sends any here, so the barrier of the model leaves out the one condition about them
(`pending_insert_commands() == 0`, `player.rs:263`); with inserts on their way the code
answers a barrier later, never sooner.

### EndOfSong

Time is counted in quanta: a transport ramp (64 frames) lands in the quantum it
starts in, and a tick is longer than a quantum, which is why one quantum sees at
most one tick. Every tick is the first tick of a row, where `begin_row` looks at
the end of the pass. The gain is what the ramp heads for. The host's send to the
engine is assumed to find room (that it may not is `HostPlayer`'s subject).
`Transports` says which hosts a run explores, and `AtEndsOf` which end-of-song
settings each of them is given; in `end` that is every setting for both. `HeardSongStops` therefore asks only while the
setting is one that can end the song (`Settles`). `retracted` is
history: a fade has been taken back while a stop was waiting for its ramp.

### SongSequencer

A song is two patterns of three and two rows with a skip and an end marker in the
order list, and a cell is one flow effect: loop, break, jump, delay, speed, stop.
What is played is left out. A dialect is the set of flags it turns on
(`PatternFlow` and the quirks of its format). A song is first scanned, with the
same `RunTick`, `Commit` and `Arrive` as playback uses, as in the code; then it is
installed and played, with seeks by order and by frame, changes of the end-of-song
setting, and replacement of the renderer by one rebuilt from its cursor. `pass` is history: whether the pass
under way began at the start of the song and what has happened to it. `seen` is the
bitmap of the detector. A tick is `TickLength` frames; fractional ticks and tempo
are left out, since they move both clocks alike.

`IsSong` is what a loader can make of a file: effect parameters and speeds are bytes, a
pattern has at most 256 rows, and there is something to play at the top of the order
list. The effects of a row are folded over its channels by a recursive function,
`Performed`. `Songs` may be any set of such songs; the run uses `MCSongs`.

`SongTape` is the abstract specification: `length` is known when the scan is over,
and a pass that is `straight` ends when the head is at it. `PlaysItsLength` is the
refinement.

### Voices

A handle is a slot and a generation in the code. Here the sounding voices are a
sequence, oldest first, and a handle is a place in it; releasing a voice moves the
handles behind it and makes its own `Stale`. So slot numbers do not multiply the
states, and "the oldest" is the smallest. The records that the code keeps in tables
beside the pool, keyed by the handle, are fields of the voice. Which voices fade out
or reach the end of their sample is open. The song is in Impulse Tracker's
instrument mode, with every instrument's note-overlap box ticked; a cell's New Note
Action and duplicate check are chosen freely at each note.

Whether two voices are the same note is decided by `Identify`, as in the code: instrument,
note, channel and the volume it was struck at (`ownership.rs:320-329`). A member of `Notes`
is an instrument at a pitch, a member of `Volumes` how loud, and the channel is the lane,
which counts unless notes are unique across the channels (`Unique`). A retrigger keeps the
identity that its voice had. So the same note may ring twice on a lane, softly and loudly,
and `NoNoteRingsTwice` is about a note at one volume.

### Inserts

A player is a record with the host's layout, the ring and the engine's chains, because
a rebuild has two of them: the one the caller holds and the one that is told its layout
again. A replay is any sequence the layout's hash map may give. `left` is what the drain
under way may still take. In the worklet nothing runs between the steps of a rebuild,
and the old callback is gone from its first step on (`called`); on threads both
callbacks run. Slots out of range are refused before anything happens and are left out;
slots of a lane that the engine has not got are `Missing`.

### LiveInput

Time is relative to the engine's clock: `due` is the number of frames left to a
stamp. A callback asks for a block smaller or larger than the quantum; the output
ring keeps what is left over, which is why the clock that senders read can be a
quantum ahead of what the device has got, and why the lead has a floor of a block
and a quantum. `exact` marks an event whose sender was not overtaken by the end of
the callback (a sender that sleeps between reading the clock and the push is late
by as long as it slept). `batch` remembers how many cancels had been asked for.

A refresh is its parts, since cancels come between them: `Refresh` (the overflow latch, the
lookahead), `Load` (the epoch) and one `Sift` per event it drops, of which there are no more
than the ring and the lookahead hold (`tries`). A cancel is two steps, as in
`Player::interactive`: the clear is queued, then the epoch moves. In the worklet nothing
comes between them; on threads everything may. `slipped` is history: a note or a pedal got
through between the two halves.

### CastStream

Chunks are numbered modulo `Cycle`, more than can be under way. `wire` is the
socket. The three `?` of `run_session` before the LOAD are one `Connect` that may
fail; the LOAD may fail where `LoadMayFail`. `toClose` is what is left to drop, in
the order in which it will be.

### SeqLock

Every access is a step. The stores are releases and the loads acquires, so no
access of one side passes another of the same side in a way the other could see.

## 3. The runs

| Run | Bounds | Shows |
|---|---|---|
| `snapshot_channel` | depth 3 (the shipped one), 7 publishes | the ring fills, loses, empties and fills again during reads |
| `seek` | 3 seeks, 1 clear, 1 rewind, 2 quanta, both realms | requests over a pending one, two writers within each other's writes, a clear anywhere, a transport that stops with a seek pending |
| `host_native` | rings 3 / 2 / 4 / 2, drain 2, 4 commands, 4 loads | two threads with every ring full at some time; the ratios of the shipped build (64 = 2 * 32, two return slots); liveness of held loads and of barriers |
| `host_worklet` | rings 6 / 2 / 16 / 2, drain 8, 7 commands, 2 loads, 1 cancel | what each rendered quantum sequences and plays; deferred replacements; a release that races a cancel; what an accepted barrier means |
| `end` | songs of 3 ticks, fades of 2 quanta, 4 buttons, both transports, every setting | a song ends once, a restarted interactive one plays on, a legacy stop lands at silence but for a fade taken back behind it, a song heard to its end is stopped if its setting can stop it |
| `song` | 1440 songs, 3 arrivals in a loop, 60 ticks of scan, 1 edit | scan and playback agree on where and when a song ends, however it is entered |
| `voices` | one song lane, one live lane, two volumes, budgets 2 / 1 / 1 | budgets, stealing and a tail with the pool at its limit; who drives and who ends a voice; song and live apart |
| `voices_lanes` | two song lanes, three volumes, budgets 1 / 2 / 0 | two tails at once, of one lane and of both; a third that evicts the oldest at the full budget; no note ringing twice; a note of one lane ends the tail of the same note on the other |
| `inserts` | ring of 2, one slot the engine has and one it has not, 4 calls, 2 rebuilds | host and engine agree; a rebuild says the layout again, in any order, with or without room |
| `live_input` | two keys and the pedal, queue of 1, quantum 2, blocks 1 and 3, 3 events, both realms, 1 cancel on threads and 2 in the worklet | a prompt sender's notes sound on their frame; a key let go is silent over a queue that overflows; a Stop that a callback finds made cancels all before it, and takes nothing after it |
| `cast` | channel 1, socket 1, 2 requests | closing a cast at any moment, with any speaker |
| `seqlock` | halves of three values, 3 attempts, 3 stores | a load that overlaps up to three stores, and gives up |

The bounds, and why they are enough. In `HostPlayer` the capacities that matter
are ratios: two drains empty the engine ring, and a load needs two return slots.
The runs use the smallest rings with those ratios, and the theorems of section 5
cover all others; four loads are enough for one on each ring and one held back.
`host_worklet` needs an engine ring with room for what admission keeps free
(`CanAdmit` reserves five), and has the smallest that the theorems allow, 16 and 8;
seven commands are a load, its barrier, its release and a whole replacement. In `EndOfSong` a song of three ticks
has a first, a middle and a last one, a fade of two quanta has an inside, and
with four buttons Play, a change of setting, Stop and Play again all fit.

`Song.cfg` stops a pattern loop after 3 arrivals where the code allows 4096: what
matters is that the count is reached before any song of the family ends otherwise.
One edit per play is enough for every pair (state, edit); what two edits add is
two passes that nothing is promised about. In `voices` the pool is full in reachable
states, every kind of victim is taken, and there is room for one kept tail, which the next
one evicts. Its sample is a one-shot that may end at any stretch of mixing and need not, so
the behaviours include those of a sample that never ends. What needs more of one kind is a
run of its own with less of the others: two tails, a third volume and a second song lane in
`voices_lanes`; looping notes on two song lanes and a live one, without tails, were checked
by hand (`Voices_Pads.cfg`). The volumes are interchangeable and
the runs use that symmetry, over safety only. In `inserts`
the ring is smaller than the drain, as in the shipped build (16 and 32), a layout
needs more commands than the ring holds, and a rebuild can follow a rebuild that
failed. `live_input` has a block that is not a
multiple of the quantum, one smaller and one larger; with two requested leads and a queue of
two `OnTime` was checked once by hand (1.6 million states). Three events fill the ring, the
lookahead and the sender's hand. A second cancel on threads, which can stand around one
refresh with the first, does not fit beside two keys and two blocks; `LiveInput_Stops.cfg`
has it, with one of each, and `FoundStopsCancel` and `OneStopKeepsLaterNotes` hold there too
(3.0 million states, by hand), as they do for any number of cancels by the theorems of
section 5. That `KeyUpSilences` is not silent for want of being asked, that the events do
get through, is `KeyUpSilencesInTheEnd` in `LiveInput_Keys.cfg`, also by hand.
In `seek` three seeks are one acted on, one read and one being written. In `cast` both the channel and the socket are
full in reachable states, and a second request finds the stream claimed.

Every counter that a run bounds (`MaxPublish`, `MaxSeeks`, `MaxClears`,
`MaxRewinds`, `MaxQuanta`, `MaxIssue`, `MaxBuild`, `MaxCancel`, `MaxCommands`,
`MaxTicks`, `MaxEdits`, `MaxSends`, `MaxCancels`, `MaxRequests`, `MaxStores`,
`MaxCalls`, `MaxRebuilds`) is a CONSTANT in a guard. `MaxOverrun` bounds how long a
song whose detector is disarmed
plays on while the host fades it out, and `MaxElapsed` is the length that no pass of
these songs may reach. The runs check deadlock only where a model never stops
because something is always enabled: the audio callback, which every model has,
or a reader that may always read. Those of `SongSequencer`,
`Inserts` and `CastStream` say `CHECK_DEADLOCK FALSE`: a song ends, a player without a callback
may run out of calls, and a closed cast has nothing left to do.

Each property of a passing run has a mutant in `PROJECT.json`: a definition of
the model replaced by a plausible mistake (its operator stands in the module
with the comment "Mutant of ..."), after which TLC reports the property violated.

## 4. Fairness

- `HostPlayer!FairSpec`: `WF_vars(Audio)`, because the device asks for block after
  block; `SF_vars(LastQuantum)`, because a block has finitely many quanta, so a
  callback does not choose for ever to render another; `SF_vars(CollectGarbage)`,
  because every host calls `collect_garbage` from its polling loop and, in the
  worklet, between callbacks, where it is enabled again and again but not
  continuously. No fairness of user operations.
- `EndOfSong!Spec`: `WF_vars(Audio)` as above; `SF_vars(RenderTick)`, because a
  playing song ticks after a bounded number of frames. No fairness of the user.

- `LiveInput!Spec`: `WF_vars(Audio)` as above; `WF_vars(Send)` and
  `WF_vars(CancelBump)`, because a call that was begun runs on: a few atomic
  accesses without a wait. Not of `Stamp`: nobody has to play. Only
  `KeyUpSilencesInTheEnd` needs it.
- `CastStream!Spec`: weak fairness of each thread, of the driver without
  `EncodeFails`, and of the control thread without `EndFollowing`, so that no
  property rests on the session being closed. `WF_vars(Hear \/ HangUp)`: a speaker
  with data before it reads or closes the connection. The code sets no timeout on
  the socket, so this is an assumption about the network, and without it the server
  thread may block in a write for ever.

## 5. What is proved

The first part of `EndOfSong_proofs`, for every depth and any number of publishes:
`ChannelTypeCorrect`, `OrderIsKept`, `LossesAreCounted`, `PromptReaderIsSafe` and
`TimeNeverRunsBack`. The inductive invariant adds `Accounts` to the properties the
run checks: the ring holds at most what was published since the last read ended,
`lag` bounds that, and a ring that is empty with nothing dropped has been read to
its end. So a reader that is never a depth behind never meets a full ring.

`HostPlayer_proofs`, for all capacities with
`CapacityAssumption` and `DrainAssumption` (two quanta empty a full engine ring,
and the garbage ring holds two modules: 64 against 2 * 32, and 8, in the shipped
build), for both realms, with and without admission:

- `TypeCorrect`: every ring within its capacity. One lemma per kind of step.
- `NeverFreesOnAudio`: `freed = 0` always. `RenderState::retire` and
  `Engine::apply_command` both have a branch that drops a value in the callback;
  neither is ever taken.
- `LoadsAlwaysInReach` and `DebtAlwaysCovered`, on which it rests.

`NoAudioFree` is not inductive. A load makes the *engine* retire a module later,
through a ring of its own and then through `retired`, so the slot must still be
there when that module comes back. The argument is in the inductive invariant

    IInv == TypeOK /\ NoAudioFree /\ LoadsInReach /\ DebtCovered

`LoadsInReach` bounds where loads stand on the engine ring: at most one older
than this quantum, near enough that this quantum's drain reaches it, and at most
one new. So at most two modules are owed at a time (`Debt`): one on its way from
an earlier quantum, one from this one. `DebtCovered` says that two are owed only
after a load of this quantum, and that then a return slot is free. That slot is
what the `2` in `drain_commands` reserves; a selection table in the same quantum
asks for 2 as well so as not to use it up. The mutant
`RetirementRoomExact` is what happens without the reservation.

The commands that are held back, on the ring and still to be pushed are one line,
`Waiting`, and every step takes the first of it, adds at the end or leaves it alone. On
that rest

- `AppliedInOrder`: nothing overtakes a command that finds no room (`LineInv`:
  the line is in the order of issue and behind what was applied last).
- `CancelledReleasesAreInert`: a release carries the epoch it was asked for in, and one
  in the line that was asked for before the last cancel carries an older one than the
  present.
- `NothingEverLeaks`. The model counts what it makes, gives back and frees; the theorem
  says where all of it is. `Spread` adds up what waits, what the engine has been sent,
  what is in use and what is on the return rings; that it adds up after a load rests
  on `BuildInv`: builds come in the order they were made.
- `AcceptedBuildsArePlayed`. `MemoryInStep` says that the samples are those of the
  source unless the load of those is the last on the engine ring; `Agreed` that the last
  transport command there which the engine will obey is what the host believes in. A
  replacement keeps the engine's transport, so host and engine differ until its release
  is applied: `TransportInv`, and `KeepPlan`, that the release is in the line.

The next two hold in the browser only, under `Worklet`: control code between
callbacks, edits admitted by `can_admit_browser_batch`, and an engine ring and a drain
of at least eight (64 and 32 in the shipped build). `AcceptedBuildsArePlayed` needs
that, or a host without replacements, which is what the native one is.

- `QuantumInStep` (`SourceInStep`) and `FreshSourcesAreSilent` (`FreshSourceSilent`).
  The heart is `RoomInv`: what waits can be sent in one quantum with four slots to
  spare, so nothing is held back, and the engine ring is empty when the quantum is
  rendered. So a load takes effect in the quantum that installs its source, and
  `SilentInv` says that an engine that still plays for the old source is told to
  pause before anything is rendered. Without the gate the second is false
  (section 6).

`SeekMailbox_proofs`, for any number of requests, clears, rewinds and quanta:

- `SeeksTakenAtDispatch` (`NextDispatchTakesTheSeek`). A quantum that looks takes what is
  there: with the stamps never of the future (`Stamped`), what is in the slot after the
  sequencer has looked must have come after the look (`Looked`). However long a transport
  was stopped, the first quantum that dispatches leaves nothing older behind.
- `KindsHaveArguments` (`KindHasItsArgument`) and `LossesNeedALook`
  (`LastSeekLostOnlyUnderALook`), on both kinds of host and with nothing assumed about who
  writes when. `Ledger` is about the numbers of the argument stores: `Numbered`, that
  whoever has got as far as the kind has stored its argument, and that the number of the
  kind in the slot or read from it is not ahead of the argument's; `Kept`, that the request
  owed still stands in the slot, in the callback's hands or in what was acted on last, or
  was wiped; `Exact`, that where control and callback take turns the numbers are not only
  in order but equal.

  So what the two threads can do to a seek is no more than `SeekMailbox_Torn.cfg` and
  `SeekMailbox_Lost.cfg` show (section 6): join a kind to the argument of a later request, or clear away one that
  was published between the look and the clear. In the worklet neither can happen, and the
  second theorem is "latest-wins" as `source.rs` has it.

The second part of `SeekMailbox_proofs`, for every set of halves, number of attempts and
number of stores: `SlotInvariant` and `ImplementsRegister`, which is `Spec => Abstract!Spec` for the
register with `stored` for its value and `answer` for its reader. The invariant
says what an even version means on the writer's side (no store is under way, and
the slot is what was stored last) and on the reader's (while the version has not
moved, what was read of the slot is what is still there). A store takes effect at
its last access, a load at its check, and a load that gives up is the register's
`GiveUp`.

The second part of `EndOfSong_proofs`, for every length, fade, choice of buttons and modes and any number
of commands: `RewindsAfterAnEnd`, `AgainPlaysOn`, `ActsOnce` and `StopsSilently`. The
invariant `Ending` says what the interactive host has taken back before it plays
(`Held`), that an end reached before a Play from the top is still being waited out
(`OldEnd`: `reached => awaitingRestart`, which is what `awaiting_restart` is for), and
that the legacy host waits for each stop it has sent (`Waits`). `StopsSilently`
(`OnlyARetractionClicks`) has an invariant of its own, `Silent`: a pending stop has its
ramp going down, or else the fade was taken back behind it. With every setting allowed at
any time, that is the one way to a click (section 6).

`LiveInput_proofs`, for every quantum, block size, queue, lead and number of events:

- `NotesOnTime`: the floor of the lead, the largest block seen and one quantum, is
  enough. `Ahead` bounds how far the engine may run ahead of the published clock: by
  what the callback still owes the device plus less than a quantum, since `OutputRing`
  keeps what is left over. So the stamp of a prompt sender is `Beyond` what this callback
  renders, also when it is pushed behind the poll of the segment under way; and `InTime`
  carries that through the queue, whose lookahead alone decides where a segment ends.
- `StopsCancel` (`FoundStopsCancel`) and `LaterNotesStay` (`OneStopKeepsLaterNotes`), on
  threads as in the worklet, with any number of cancels at any moment. `CancelsCount` ties
  the epoch to the cancels that have begun; `Epochs` orders what is in the queue, in the
  sender's hand and loaded by the refresh (`batch >= epoch`, and nothing from the future);
  `Swept` says that a refresh cannot run out of `tries` over an event that was there when
  it loaded the epoch, which is what "one more than the ring holds" is for: the ring may be
  full and the lookahead taken. The second rests on the same: an event of the epoch loaded
  or a later one is dropped only after another was, under an epoch that moved since.

`CastStream_proofs`, for every capacity of the channel and the connection and any
number of requests: `NoGaps`. What has been heard, is on the wire and waits in the
channel is one run of consecutive chunks (`Linked`), and the driver has the next one
in hand unless one was given up on a stop (`InHand`).

`Inserts_proofs`, for every finite set of slots, parameters and effects, every ring and
drain, and any number of calls and rebuilds:

- `TheHostKnows` (`HostKnowsTheGraph`). Both sides are defined by applying one
  command after the other, so the proof is about a slot: every command changes the
  host's record of it and the effect the engine comes to alike (`SameToBoth`), one more
  at the end of the ring is one more step on both sides (`KnowsAfterAsk`), and taking
  the first off the ring leaves what the engine comes to as it is (`DrainedAfterOne`).
- `RebuildsKeepTheLayout`. `Retold` says that the new layout, told the rest of the replay,
  is the old one. It holds when the replay begins because the story of one slot touches
  that slot only and ends with what is recorded of it (`OneSlotTold`), so the stories of
  distinct slots come to the same in any order (`LayoutTold`).

`Voices_proofs`, for every number of lanes, every set of notes and volumes, every budget and pool,
with and without ownership records: `TypesHold`, `BudgetsHold` (`WithinBudget`),
`DriversAgree` (`OneDriver`), `TailsDiffer` (`NoNoteRingsTwice`) and
`SongAndLiveStayApart`, the action property;
`SomebodyAlwaysEndsIt` (`SomebodyEndsIt`) for an interactive build, since without one a
seek leaves voices to nobody (section 6); and `NotesAlwaysPlay` (`EveryNotePlays`) under
`Plenty`, that the native budget has a voice for every lane of the song, as the code's
256 has for its 64 lanes. An action here is a long composition of calls, so the proof is
about calls:

- `Well` is the invariant of a state. Its first part, `Good`, holds between any two calls
  of a step: handles are `Typed`, what a record says agrees with itself (`Sound`) and with
  the lane (`Driven`), a tail differs from the other tails of its lane and from what the
  lane plays (`Rings`), and a domain keeps to its `Budget`. The rest holds at the end of
  a lane's turn only: the processor shapes one voice of a lane as its foreground, and it is
  the one the lane drives (`Shaped`, `Held`), and what sounds, or is in the song's
  background, is stepped by a runtime (`Living`). That last half is more than
  `SomebodyEndsIt` asks: it is what makes a background voice a possible victim, so that
  stealing cannot fail (`SomeBack`).
- `Rings` has to be about the foreground, too: a note's identity, its volume with it, stays with its lane when
  the lane retriggers it, and the tail it may become must differ from those there are.
- A release moves every handle behind it. `Left` is defined place by place, `LeftSoFar`
  and `Onwards` turn that into a one-to-one map of the voices that stay (`Moves`), and
  every later lemma uses the map only.
- One lemma per call says what it keeps (`RetireKeeps`, `OverlapDoes`, `TriggerDoes`,
  `AdmissionDoes`, ...), `StartNoteKeeps` and `LiveNoteKeeps` compose them for a note of
  the song and of a key, `TurnsKeep` goes over the lanes of a tick, and `NextKeeps` has
  one step per action.
- `SongAndLiveStayApart` (`SongAndLiveApart`) compares two selections from the sequence of
  voices before and after a step. `Side(s, live)` is what is left of `s.voice` without the
  voices of the other side, so a change among those must not show. Two lemmas do the
  counting: `Spared`, voices of the other side change where they are or are added, and
  `SparedOfRelease`, they are released, which moves every voice behind them. Each call
  then has a lemma that names the voices it touches (`RetireSpares`, `TriggerSpares`,
  `AdmissionSpares`, ...), and `StepsKeepApart` has one step per action. That the voices a
  song's note may steal are the song's is `AllocateSpares`; that admission makes room
  within its domain only is `AdmissionSpares`.

The prover's library states induction with an operator for a parameter, which no backend
instantiates. These proofs go by the least counterexample instead: `Onwards` says that a
set with 0 in it that contains each successor up to `k` contains `k`, from the
well-foundedness of `<`. `NoneAssumption` says that `None` is no effect and no entry, and
`ParamAssumption` that the mark of a parameter nobody has set is not a value one can set,
as in the code, where the one is `Option::None` and the other a parameter not in the list.

`SongSequencer_proofs`, for every set of songs a loader can make (`IsSong`), every dialect,
every limit of loop arrivals and of ticks, and any number of edits:

- `TypeCorrect`. One lemma per operator, for a tick is a composition of operators on one
  record. It rules out, for every song, an order or a row that is not there, a speed
  that is no byte, and flow state of the wrong shape after any jump.
- `PlaysWhatWasScanned` (`PlaysItsLength`): `SongSequencer` implements `SongTape`, step by
  step. The scan and the playback are two sequencers, and the second may have another
  end-of-song setting. The invariant is

      SequencerInv == TypeInv /\ ScanIsARun /\ PlaysAsScanned

  `ScanIsARun` says that the scan so far is a run (`RunOf`): a function from ticks to
  sequencers, each the `Dispatch` of the one before, with the rows played so far those
  marked before that tick's frame (`After`). `PlaysAsScanned` says that an undisturbed
  playback is `Alike` one of that run's sequencers that is not behind its end: equal in
  all that a tick depends on, but for the end-of-song setting. It is inductive because
  equal sequencers have equal ticks (`TicksAlike`) until one of them ends: then the other
  ends too, or begins again (`AlikeOrAgain`, the natural end under Continue).
- `FirstPassEndsWhereScanned`, from the same invariant: what a run says of its own end
  (`TellsOf`) is what the timeline keeps. It is the first-pass part of `CanonicalEnd`, and
  says more of it: the verdict is the same for every end, and a song that the scan saw
  stop of itself is never announced.
- `ReplacementKnowsThePlayedRows` (`KnowsThePlayedRows`): marks lie on ticks, so a frame
  between two ticks separates the same rows as the tick it is extrapolated from.
- `NoScanIsEndless`. While a scan runs, `Number` goes down with every tick: rows never
  played, loop arrivals left in the count, rows left in the pattern, ticks left in the
  row, in this order. A jump out of a loop starts the count of arrivals anew, but only
  towards a row that is new, or else the detector fires (`LoopDetector::visit`). So
  `MostTicks`, which depends on the length of the order list only, bounds every scan.
- `EveryScanFindsAnEnd` (`ScanFindsAnEnd`) and `WhatFitsPlaysItsLength`. `PlaysWhatWasScanned`
  and `ReplacementKnowsThePlayedRows` assume `[]ScanFindsAnEnd`: a scan that is cut off
  knows no length. These two say when it holds: for songs that fit the limit (`Fits`). A
  song without pattern loops (`Plain`) plays every row once, so the measure is the number
  of its rows times the ticks of its longest row.

How far `Fits` reaches. The code's limit is a million ticks or an hour of sound
(`timeline.rs:489`); only the ticks are modelled. A song without loops and delays fits in
practice: 128 orders of 64 rows at speed 31 are 253,952 ticks. With 4096 arrivals
`MostTicks` is beyond a million for any song, so of a song with loops the
theorems say that its scan ends, and not that the limit does not cut it off first. That
stays model-checked, in `song`, and there 320 of the 1440 songs fit the 60 ticks.

The type invariants of `SnapshotChannel`, `HostPlayer`, `SeekMailbox`, `Inserts`, `Voices`
and `SongSequencer`, and the order of the snapshot channel (`InFlightOrder`, `NeverBackwards`),
are proved rather than run. Each inductive invariant was checked by TLC
before it was proved; that of `SongSequencer`, which quantifies over runs, only in what
follows from it.

Only model-checked: all liveness (`LoadsNeverWedge`, `BarriersAnswered`,
`HeardSongStops`, `ClosesDown`), since fairness and ENABLED are beyond
the prover; `KeyUpSilences` and `StruckNoteEndsTails`; `ScanFindsAnEnd` of songs that do not fit, and `EveryPassEnds`, whose bound is a
number of the run's songs; and `CanonicalEnd` after a seek or a replacement, which do not
reconstruct the flow state, so that what is played differs from what was scanned and only
its end agrees.

## 6. Where the code and its comments disagree

Each of these is a configuration to run by hand, of the module in its name (of
`MCSongSequencer`, `MCVoices`, `MCLiveInput`, `MCEndOfSong` where there is one). TLC ends each
with a counterexample to the one property it names, at the bounds of the passing run or
smaller ones.

- `CastStream_Load.cfg`: a LOAD that fails while the speaker is already fetching.
  `run_session` leaves by `?` (`apps/starplayer-cli/src/cast.rs:399`), which drops
  its parameters in reverse order: the server, whose drop joins the server thread,
  before the player, whose drop ends the stream that thread is serving. The program
  never ends, against `cast.rs:418-419`.
- `SeekMailbox_Lost.cfg`, `SeekMailbox_Torn.cfg`: on two threads, a seek made while the callback takes an earlier
  one is wiped by its clear, or lends it its argument (`source.rs:61-62`, "Latest-wins: a
  second seek before the first has been consumed replaces it").
- `EndOfSong_Again.cfg`: with the legacy transport, Play during a fade-out restarts the song under a
  new fade, as `arm_end_of_song` still sees the old snapshot (`player.rs:332-334`).
- `EndOfSong_Click.cfg`: Stop and then a change of the end-of-song setting during a fade stops the
  engine at full gain (`player.rs:1227-1228`, "so it does not click either").
- `Song_Deaf.cfg`: the loop point under fade-out disarms the loop detector, and nothing arms it
  again when the fade is taken back by choosing repeat; choosing fade-out or stop later has
  no effect (`transport.rs:166`, "a toggle, not a one-way door").
- `Voices_Seek.cfg`: without a `PlaybackState` a seek drops the articulation of voices in the
  background (`ItProcessor::reset`) and does not clear them, so a looping one sounds until
  its slot is stolen (`channel.rs:222-223`, "whoever detached it is responsible for ending
  it").
- `Inserts_Bypass.cfg`: neither installing nor removing an effect resets the bypass bit of its
  slot (`engine/src/insert.rs:213-221`), while the layout shows a new effect as not bypassed
  (`host/src/insert.rs:123`), and so does the page (`app.js:1857-1858`, "is removed, so its
  parameters and bypass go with it"). Bypass, then choose another effect: it is shown as
  playing and is skipped.
- `Inserts_Deaf.cfg`: in the worklet, a rebuild that replays more commands than the insert ring
  holds (16) fails after the backend has dropped the old callback. The player that the caller
  keeps then talks to an engine that is gone, against `player.rs:848` ("survives the
  rebuild"). On threads the old one plays on.
- `LiveInput_Stop.cfg`, `LiveInput_Hang.cfg`: `Player::interactive` queues the clear (`player.rs:1199`) before
  it moves the epoch; on two threads the callback may apply the clear in between. Then a
  note queued before the Stop sounds after it
  (`plans/product/01-technical-architecture.md:2153-2154`), and when its key-up is in the
  queue already, the epoch cancels that, and the note hangs.
- `LiveInput_Later.cfg`: on two threads, two cancels around one refresh lose a note queued after the
  second (`instrument.rs:1088`, "without discarding later admissions").

Shown by other constants or properties:

- `LateReadAtMostDepthOld` of `SnapshotChannel`: a reader that stalls lands on a
  snapshot older than one depth (`snapshot.rs:46-48`), since the newest is dropped.
- `FreshSourceSilent` of `HostPlayer` with `HostCapacity = 4`, `EngineCapacity = 4`,
  `EngineDrain = 2`, `Gated = FALSE`, `SingleRealm = TRUE`, `Ops = {"load", "engine",
  "transport"}`, `MaxIssue = 5`: edits queued ahead of a load let a fresh source run
  with the previous transport for a quantum (`player.rs:357-363`). The browser's
  admission rules it out (`host_worklet`).
- `HeardSongStops` of `EndOfSong` with Repeat over a song that runs out, or Stop over
  one that loops, which is why the property asks only while the setting `Settles` the song: the
  transport plays silence.
  With `Length = 1`, `awaiting_restart` is never cleared, and the song ends once and then
  never again.

Seen while modelling:

- `SnapshotReader::read` pops for as long as the writer publishes (`snapshot.rs:122`
  says bounded by the depth).
- "drains the whole ring at the top of every render quantum" (`player.rs:66`) is true
  only up to a second load, or one that finds no room.
- A natural end under `Continue` clears `end_reached` at once, and after a replacement
  right behind a natural restart the clock is off by a tick. In the S3M and IT
  dialects without `end_advances`, a loop and a delay on one row repeat until the
  4096-arrival budget. Flow state is not reconstructed by a seek.
- Lowering the requested lead makes later events wait behind
  earlier ones with later stamps. The legacy transport's clock stands still while it
  is stopped, and its event queue has no recovery from an overflow.
- The live or SMF note-on of Impulse Tracker skips the stealing when the handle of its
  lane went stale within the quantum (`it/processor/live.rs`).
- A HEAD, or a GET that only probes, claims the single live stream of a cast and ends
  it; the driver then ends without a fatal error in its health. A stop while a chunk
  waits for room can leave a gap before the encoder's tail (`Gapless` allows it). The
  pacing clock of the driver runs on through a pause.
- `seqlock.rs:31-32` and `:69` call the give-up arm unreachable short of a writer that
  never stops; a reader that preempts the writer half way (the DMA refill, on the same
  core) meets an odd version eight times. The register's `GiveUp` is that case.

## 7. Not modelled, and the plan

In the modelled components:

- `HostPlayer`: the insert ring, for which a barrier waits too; the host without reservations (no interactive transport), whose
  `retire` really is a last resort.
- `Inserts`: what effects do to the sound, and with it `ResetAll` (a seek without an
  interactive transport ignores that the ring has no room for it, `player.rs:1252`); the
  freeing of retired effects, which the browser collects only after loads; the page's
  replay in steps of 16.
- `EndOfSong`: a full engine ring; seeks of the user (one made after a natural end is
  overridden by the rewind of the next Play, `player.rs:398`).
- `SeekMailbox`: reordering by the memory model; an install whose push
  fails after it has cleared the slot (`player.rs:1056`); a seek taken by the outgoing
  source of a queued load (`player.rs:1244`).
- `SongSequencer`: tempo and fractional ticks; the loop effects of XM, MTM and IT beyond
  the flags; songs longer than two patterns.
- `Voices`: XM's and MOD's use of the overlap policy, SMF programs on song lanes,
  instruments with their boxes unticked, levels and envelopes (any may end), loads and
  rebuilds; `unique_notes_across_channels` switched while a song plays (it is a constant).
- `LiveInput`: the conversion of MIDI timestamps, simultaneous sources, drum kits.
- `CastStream`: discovery, the Cast protocol over TLS, encoders, pause.

Not modelled at all: parsers, DSP, mixing, telemetry types and user interfaces, which
have no protocol of their own; most of the format processors, which are arithmetic
per effect; the firmware's DMA refill; the page's applied
barrier. `PROJECT.json` names the reason for each component.

What would come next: the composition of `SeekMailbox` and `HostPlayer` (a seek around
an install), an abstract specification of a load (accepted, installed, acknowledged, or
refused), inserts as a third client of a retirement ring, a bound for songs with pattern
loops that counts the rows of their loops instead of all rows, and the part of
`CanonicalEnd` about seeks.
