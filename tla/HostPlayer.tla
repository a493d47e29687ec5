------------------------------ MODULE HostPlayer ------------------------------
(***************************************************************************)
(* The host side of StarPlayer (crates/starplayer-host): the control half  *)
(* `Player` and the audio half `RenderState`, joined by two rings, and the *)
(* engine's own command and garbage rings behind them.                     *)
(*                                                                         *)
(*   Player --commands--> RenderState --engineQ--> Engine                  *)
(*   Player <--retired--- RenderState <--garbage-- Engine                  *)
(*                                                                         *)
(* The host modelled is the interactive one (PlaybackConfiguration with an *)
(* interactive transport), so `interactive_identity` is always present.    *)
(* A module is its build generation; 0 is "none".  What travels on the two *)
(* return rings is only ever dropped, so a return ring is its occupancy.   *)
(*                                                                         *)
(* The audio callback is a program counter, `phase`:                        *)
(*                                                                         *)
(*   idle -> collect -> drain -> arm -> engine -> settle -> end -> idle    *)
(*               ^---------- next quantum ---------'                       *)
(***************************************************************************)
EXTENDS Naturals, Sequences, FiniteSets

CONSTANTS
    HostCapacity,      \* HOST_COMMAND_CAPACITY
    RetiredCapacity,   \* RETIRED_CAPACITY
    EngineCapacity,    \* EngineSettings::command_capacity
    EngineDrain,       \* MAX_COMMANDS_PER_QUANTUM
    GarbageCapacity,   \* DEFAULT_GARBAGE_CAPACITY
    SingleRealm,       \* TRUE: control code runs only between callbacks (the worklet)
    Gated,             \* TRUE: edits are admitted by can_admit_browser_batch
    Ops,               \* the control operations the environment uses
    MaxIssue,          \* bound: commands pushed
    MaxBuild,          \* bound: module loads
    MaxCancel          \* bound: cancelled loads

ASSUME CapacityAssumption ==
    /\ HostCapacity \in Nat \ {0} /\ RetiredCapacity \in Nat \ {0}
    /\ EngineCapacity \in Nat \ {0} /\ EngineDrain \in Nat \ {0}
    /\ GarbageCapacity \in Nat \ {0}
\* Two quanta empty a full engine ring, and the garbage ring holds two modules:
\* 64 against 2 * 32, and 8, in the shipped build.
ASSUME DrainAssumption == EngineCapacity <= 2 * EngineDrain /\ GarbageCapacity >= 2
ASSUME ModeAssumption == SingleRealm \in BOOLEAN /\ Gated \in BOOLEAN
ASSUME BoundAssumption == MaxIssue \in Nat /\ MaxBuild \in Nat /\ MaxCancel \in Nat

VARIABLES
    \* the rings
    commands,     \* host commands
    engineQ,      \* engine commands
    garbage,      \* modules the engine has retired
    retired,      \* retirements on their way to the control side
    \* RenderState
    held,         \* pending_command: a command taken and put back
    identity,     \* interactive_identity
    installed,    \* installed_identity
    hostState,    \* interactive_state
    pending,      \* pending_barrier
    applied,      \* AppliedPlayback
    phase,        \* where the callback is
    left,         \* commands the drain in progress may still take
    loaded,       \* prepared_load: this quantum has taken a Load
    older,        \* history: entries of engineQ that this quantum found there
    \* Engine
    source,       \* the build whose event source is in the mux
    module,       \* the build whose samples are loaded
    engineState,  \* interactive_transport
    \* PlayerTaps and the forwarded snapshot
    rejected, epoch, tapEngine, published,
    \* Player
    build,        \* playback_identity
    seen,         \* the AppliedPlayback it last read
    todo,         \* the rest of a multi-command installation
    deferred,     \* deferred_replacement_transport: the build it is for
    released,     \* replacement_release_queued
    collected,    \* retirements dropped on the control side
    issued,       \* commands issued: also each command's number
    cancels,
    page,         \* the browser's load: "open", or "releasing" once it has released it
    \* history
    allocated,    \* modules, installations and selection tables ever made
    freed,        \* retirements dropped inside the callback
    mayPlay,      \* the installed source has been told to play
    lastApplied,  \* number of the last host command applied
    cancelledAt   \* `issued` when a load was last cancelled

hostVars == <<held, identity, installed, hostState, pending, applied>>
quantumVars == <<left, loaded, older>>
engineVars == <<source, module, engineState>>
tapVars == <<rejected, epoch, tapEngine, published>>
playerVars == <<build, seen, todo, deferred, released, collected, issued, cancels, page>>
vars == <<commands, engineQ, garbage, retired, hostVars, phase, quantumVars, engineVars,
          tapVars, playerVars, allocated, freed, mayPlay, lastApplied, cancelledAt>>

-----------------------------------------------------------------------------
(* Commands *)

States == {"Playing", "Paused", "Stopped"}     \* InteractiveTransport
Phases == {"idle", "collect", "drain", "arm", "engine", "settle", "end", "ack"}

\* A Load is fresh (new_session), a replacement that keeps the transport, or
\* one that holds it.  An Interactive either sets the transport or edits
\* something else.  `mark` is the release epoch of a Browser or a Restore
\* (0: no epoch) and the rejection baseline of a Barrier.
HostCommand ==
    [op : {"Load"}, id : Nat, act : {"fresh", "keep", "hold"}, mark : Nat, n : Nat]
    \cup [op : {"Interactive", "Browser", "Restore", "Selections", "Barrier", "Engine"},
          id : Nat, act : States \cup {"edit"}, mark : Nat, n : Nat]
EngineCommand ==
    [op : {"LoadModule", "Interactive", "Other"}, id : Nat, act : States \cup {"edit"}]
Barrier == [id : Nat, mark : Nat, n : Nat]
AppliedPlayback == [id : Nat, serial : Nat, accepted : BOOLEAN]

NoBarrier == [id |-> 0, mark |-> 0, n |-> 0]
NothingApplied == [id |-> 0, serial |-> 0, accepted |-> FALSE]

Command(op, id, act, mark, n) == [op |-> op, id |-> id, act |-> act, mark |-> mark, n |-> n]
LoadModule(id) == [op |-> "LoadModule", id |-> id, act |-> "edit"]
Interactive(id, act) == [op |-> "Interactive", id |-> id, act |-> act]
Other == [op |-> "Other", id |-> 0, act |-> "edit"]

TypeOK ==
    /\ commands \in Seq(HostCommand) /\ Len(commands) <= HostCapacity
    /\ engineQ \in Seq(EngineCommand) /\ Len(engineQ) <= EngineCapacity
    /\ garbage \in 0 .. GarbageCapacity
    /\ retired \in 0 .. RetiredCapacity
    /\ held \in Seq(HostCommand) /\ Len(held) <= 1
    /\ identity \in Nat /\ installed \in Nat /\ hostState \in States
    /\ pending \in Barrier /\ applied \in AppliedPlayback
    /\ phase \in Phases /\ left \in Nat /\ loaded \in BOOLEAN /\ older \in Nat
    /\ source \in Nat /\ module \in Nat /\ engineState \in States
    /\ rejected \in Nat /\ epoch \in Nat /\ tapEngine \in Nat
    /\ published \in AppliedPlayback
    /\ build \in Nat /\ seen \in AppliedPlayback /\ todo \in Seq(HostCommand)
    /\ deferred \in Nat /\ released \in BOOLEAN /\ collected \in Nat
    /\ issued \in Nat /\ cancels \in Nat /\ page \in {"open", "releasing"}
    /\ allocated \in Nat /\ freed \in Nat /\ mayPlay \in BOOLEAN
    /\ lastApplied \in Nat /\ cancelledAt \in Nat

Init ==
    /\ commands = <<>> /\ engineQ = <<>> /\ garbage = 0 /\ retired = 0
    /\ held = <<>> /\ identity = 0 /\ installed = 0 /\ hostState = "Stopped"
    /\ pending = NoBarrier /\ applied = NothingApplied
    /\ phase = "idle" /\ left = 0 /\ loaded = FALSE /\ older = 0
    /\ source = 0 /\ module = 0 /\ engineState = "Stopped"
    /\ rejected = 0 /\ epoch = 1 /\ tapEngine = 0 /\ published = NothingApplied
    /\ build = 0 /\ seen = NothingApplied /\ todo = <<>>
    /\ deferred = 0 /\ released = FALSE /\ collected = 0 /\ issued = 0 /\ cancels = 0 /\ page = "open"
    /\ allocated = 1 /\ freed = 0 /\ mayPlay = FALSE /\ lastApplied = 0 /\ cancelledAt = 0

-----------------------------------------------------------------------------
(* What the audio side does to the rings *)

EngineRoom == EngineCapacity - Len(engineQ)

\* RenderState::send for one command or a group: what does not fit is counted
\* in commands_rejected.
Send(group) ==
    LET fits == IF Len(group) <= EngineRoom THEN Len(group) ELSE EngineRoom
    IN  /\ engineQ' = engineQ \o SubSeq(group, 1, fits)
        /\ rejected' = rejected + Len(group) - fits

Reject == rejected' = rejected + 1 /\ UNCHANGED engineQ

\* RenderState::retire: with no room left the value is dropped here.
Retire(count) ==
    LET room == RetiredCapacity - retired
        fits == IF count <= room THEN count ELSE room
    IN  /\ retired' = retired + fits
        /\ freed' = freed + count - fits

\* Mutant of RetirementRoom: a Load asks only for what it retires itself.
RetirementRoomExact(c) ==
    CASE c.op = "Load" -> 1
      [] c.op = "Selections" -> 1
      [] OTHER -> 0

\* Mutant of RetirementRoom: a Load asks for one slot too many.
RetirementRoomOver(c) ==
    CASE c.op = "Load" -> 3
      [] c.op = "Selections" -> 2
      [] OTHER -> 0

\* A Load retires an installation and, through the engine, a module; the second
\* slot must still be there when that module comes back.
RetirementRoom(c) ==
    CASE c.op = "Load" -> 2
      [] c.op = "Selections" -> IF loaded THEN 2 ELSE 1
      [] OTHER -> 0

EngineLoadCommands(c) ==
    IF c.op # "Load" THEN 0 ELSE IF c.act = "keep" THEN 1 ELSE 2

Blocked(c) ==
    \/ loaded /\ c.op = "Load"
    \/ EngineRoom < EngineLoadCommands(c)
    \/ RetiredCapacity - retired < RetirementRoom(c)

-----------------------------------------------------------------------------
(* The audio callback: draining host commands *)

EngineUnchanged == UNCHANGED engineVars
PlayerUnchanged == UNCHANGED <<playerVars, allocated, cancelledAt>>

\* The callback begins.
AudioStart ==
    /\ phase = "idle"
    /\ SingleRealm => todo = <<>>
    /\ phase' = "collect" /\ UNCHANGED quantumVars
    /\ EngineUnchanged /\ PlayerUnchanged
    /\ UNCHANGED <<commands, engineQ, garbage, retired, hostVars, tapVars, freed, mayPlay,
                   lastApplied>>

\* RenderState::retire_engine_garbage, one handle, at the top of every quantum
\* and again at the end of the callback.
CollectEngineGarbage ==
    /\ phase \in {"collect", "end"}
    /\ retired < RetiredCapacity /\ garbage > 0
    /\ garbage' = garbage - 1
    /\ Retire(1)
    /\ EngineUnchanged /\ PlayerUnchanged
    /\ UNCHANGED <<commands, engineQ, hostVars, phase, quantumVars, tapVars, mayPlay,
                   lastApplied>>

CollectDone ==
    /\ retired >= RetiredCapacity \/ garbage = 0
    /\ \/ /\ phase = "end" /\ phase' = "ack"
          /\ UNCHANGED quantumVars
       \/ /\ phase = "collect" /\ phase' = "drain"
          /\ left' = HostCapacity /\ loaded' = FALSE /\ older' = Len(engineQ)
    /\ EngineUnchanged /\ PlayerUnchanged
    /\ UNCHANGED <<commands, engineQ, garbage, retired, hostVars, tapVars, freed, mayPlay,
                   lastApplied>>

\* Mutant of FromHeld: the ring is emptied before the command put back is.
FromHeldLast == commands = <<>>

\* drain_commands takes what it put back before anything from the ring.
FromHeld == held # <<>>

AnyUpcoming == held # <<>> \/ commands # <<>>
Upcoming == IF FromHeld THEN Head(held) ELSE Head(commands)
Take == commands' = IF FromHeld THEN commands ELSE Tail(commands)

DrainBlock ==
    /\ phase = "drain" /\ left > 0 /\ AnyUpcoming
    /\ Blocked(Upcoming)
    /\ Take
    /\ held' = <<Upcoming>>
    /\ phase' = "arm" /\ left' = 0 /\ UNCHANGED <<loaded, older>>
    /\ EngineUnchanged /\ PlayerUnchanged
    /\ UNCHANGED <<engineQ, garbage, retired, identity, installed, hostState, pending,
                   applied, tapVars, freed, mayPlay,
                   lastApplied>>

DrainDone ==
    /\ phase = "drain"
    /\ left = 0 \/ ~AnyUpcoming
    /\ phase' = "arm" /\ left' = 0 /\ UNCHANGED <<loaded, older>>
    /\ EngineUnchanged /\ PlayerUnchanged
    /\ UNCHANGED <<commands, engineQ, garbage, retired, hostVars, tapVars, freed, mayPlay,
                   lastApplied>>

\* Mutant of Paired: the hold is left to the release that follows.
PairedFreshOnly(c) ==
    IF c.act = "fresh" THEN <<Interactive(c.id, "Stopped")>> ELSE <<>>

\* Mutant of Paired: the command names the build being replaced.
PairedStale(c) ==
    CASE c.act = "fresh" -> <<Interactive(identity, "Stopped")>>
      [] c.act = "hold" -> <<Interactive(identity, "Paused")>>
      [] OTHER -> <<>>

\* The transport command a Load brings along.
Paired(c) ==
    CASE c.act = "fresh" -> <<Interactive(c.id, "Stopped")>>
      [] c.act = "hold" -> <<Interactive(c.id, "Paused")>>
      [] OTHER -> <<>>

\* RenderState::apply, Load: install the source and the identity, retire what
\* they replace, and send the module with its paired transport command.
ApplyLoad(c) ==
    LET moduleSent == EngineRoom > 0
        pairSent == Paired(c) # <<>> /\ EngineRoom > 1
    IN  /\ c.op = "Load"
        /\ identity' = c.id
        /\ source' = c.id
        /\ Retire(IF moduleSent THEN 1 ELSE 2)
        /\ Send(<<LoadModule(c.id)>> \o Paired(c))
        /\ installed' = IF moduleSent THEN c.id ELSE installed
        /\ hostState' = IF pairSent THEN Head(Paired(c)).act ELSE hostState
        /\ mayPlay' = (mayPlay /\ c.act = "keep")
        /\ UNCHANGED <<pending, module, engineState, epoch>>

\* RenderState::apply_interactive, and the transport it leaves behind.
SetTransport(c) ==
    IF identity = c.id /\ EngineRoom > 0
      THEN /\ Send(<<Interactive(c.id, c.act)>>)
           /\ hostState' = IF c.act \in States THEN c.act ELSE hostState
           /\ mayPlay' = (mayPlay \/ c.act = "Playing")
      ELSE Reject /\ UNCHANGED <<hostState, mayPlay>>

TransportOnly == UNCHANGED <<retired, freed, identity, installed, pending, engineVars, epoch>>

ApplyInteractive(c) ==
    /\ c.op = "Interactive"
    /\ SetTransport(c)
    /\ TransportOnly

\* Mutant of Revoked: only a cancel that has already been superseded counts.
RevokedLate(c) == c.mark # 0 /\ c.mark + 1 < epoch

\* A release carries the epoch it was asked for in; a cancel moves the epoch on.
Revoked(c) == c.mark # 0 /\ c.mark # epoch

\* BrowserTransport and RestoreTransport.
ApplyRelease(c) ==
    /\ c.op \in {"Browser", "Restore"}
    /\ IF Revoked(c) THEN UNCHANGED <<engineQ, rejected, hostState, mayPlay>> ELSE SetTransport(c)
    /\ TransportOnly

ApplySelections(c) ==
    /\ c.op = "Selections"
    /\ Retire(1)
    /\ rejected' = IF identity = c.id THEN rejected ELSE rejected + 1
    /\ UNCHANGED <<engineQ, identity, installed, hostState, pending, engineVars, epoch, mayPlay>>

ApplyBarrier(c) ==
    /\ c.op = "Barrier"
    /\ pending' = [id |-> c.id, mark |-> c.mark, n |-> c.n]
    /\ UNCHANGED <<engineQ, retired, freed, identity, installed, hostState, engineVars,
                   rejected, epoch, mayPlay>>

ApplyEngine(c) ==
    /\ c.op = "Engine"
    /\ Send(<<Other>>)
    /\ UNCHANGED <<hostState, mayPlay>>
    /\ TransportOnly

Apply(c) ==
    \/ ApplyLoad(c) \/ ApplyInteractive(c) \/ ApplyRelease(c)
    \/ ApplySelections(c) \/ ApplyBarrier(c) \/ ApplyEngine(c)

DrainApply ==
    /\ phase = "drain" /\ left > 0 /\ AnyUpcoming
    /\ ~Blocked(Upcoming)
    /\ Take
    /\ held' = IF FromHeld THEN <<>> ELSE held
    /\ Apply(Upcoming)
    /\ left' = left - 1
    /\ loaded' = (loaded \/ Upcoming.op = "Load")
    /\ UNCHANGED <<phase, older>>
    /\ lastApplied' = Upcoming.n
    /\ PlayerUnchanged
    /\ UNCHANGED <<garbage, applied, tapEngine, published>>

-----------------------------------------------------------------------------
(* The audio callback: the rest of a quantum *)

\* finish_interactive_song, for a song that ran out of order list or a fade that
\* landed: only a playing host has one to finish.
FinishSong ==
    /\ hostState = "Playing" /\ source # 0
    /\ IF EngineRoom > 0
         THEN Send(<<Interactive(identity, "Stopped")>>) /\ hostState' = "Stopped"
         ELSE Reject /\ UNCHANGED hostState

NoSongToFinish == UNCHANGED <<engineQ, rejected, hostState>>

\* arm_end_of_song.
Arm ==
    /\ phase = "arm"
    /\ FinishSong \/ NoSongToFinish
    /\ phase' = "engine" /\ left' = EngineDrain /\ UNCHANGED <<loaded, older>>
    /\ EngineUnchanged /\ PlayerUnchanged
    /\ UNCHANGED <<commands, garbage, retired, held, identity, installed, pending, applied,
                   epoch, tapEngine, published, freed, mayPlay, lastApplied>>

\* Engine::apply_command.  A replaced module goes down the garbage ring, or is
\* dropped if that is full; an interactive command must name the build the
\* engine plays.
EngineApply(c) ==
    \/ /\ c.op = "LoadModule"
       /\ module' = c.id
       /\ IF module = 0 THEN UNCHANGED <<garbage, freed>>
          ELSE IF garbage < GarbageCapacity
            THEN garbage' = garbage + 1 /\ UNCHANGED freed
            ELSE freed' = freed + 1 /\ UNCHANGED garbage
       /\ UNCHANGED engineState
    \/ /\ c.op = "Interactive"
       /\ engineState' = IF c.id = identity /\ c.act \in States THEN c.act ELSE engineState
       /\ UNCHANGED <<module, garbage, freed>>
    \/ /\ c.op = "Other"
       /\ UNCHANGED <<module, engineState, garbage, freed>>

EngineStep ==
    /\ phase = "engine" /\ left > 0 /\ engineQ # <<>>
    /\ EngineApply(Head(engineQ))
    /\ engineQ' = Tail(engineQ)
    /\ left' = left - 1
    /\ older' = IF older > 0 THEN older - 1 ELSE 0
    /\ UNCHANGED <<phase, loaded>>
    /\ PlayerUnchanged
    /\ UNCHANGED <<commands, retired, hostVars, source, tapVars, mayPlay,
                   lastApplied>>

\* The commands are in, and the quantum is rendered.
EngineDone ==
    /\ phase = "engine"
    /\ left = 0 \/ engineQ = <<>>
    /\ phase' = "settle" /\ left' = 0 /\ older' = 0 /\ UNCHANGED loaded
    /\ EngineUnchanged /\ PlayerUnchanged
    /\ UNCHANGED <<commands, engineQ, garbage, retired, hostVars, tapVars, freed, mayPlay,
                   lastApplied>>

\* settle_transport, and on to the next quantum or to the end of the block.
Settle(next) ==
    /\ phase = "settle"
    /\ FinishSong \/ NoSongToFinish
    /\ phase' = next /\ UNCHANGED quantumVars
    /\ EngineUnchanged /\ PlayerUnchanged
    /\ UNCHANGED <<commands, garbage, retired, held, identity, installed, pending, applied,
                   epoch, tapEngine, published, freed, mayPlay, lastApplied>>

NextQuantum == Settle("collect")
LastQuantum == Settle("end")

\* Mutant of AllApplied: the engine's own ring is forgotten.
AllAppliedByHost == held = <<>> /\ commands = <<>>

\* Everything queued before the barrier has gone through both drains.  The code waits for
\* the ring of the insert commands as well (RenderState::render), which is in Inserts:
\* here nobody sends any, and a barrier of the code may be answered later than this one.
AllApplied == engineQ = <<>> /\ held = <<>> /\ commands = <<>>

\* The barrier is answered once, and the snapshot forwarded.
Acknowledge ==
    IF AllApplied /\ pending # NoBarrier
      THEN /\ applied' = [id |-> identity, serial |-> pending.n,
                          accepted |-> /\ installed # 0 /\ installed = pending.id
                                       /\ rejected = pending.mark]
           /\ pending' = NoBarrier
      ELSE UNCHANGED <<applied, pending>>

AudioReturn ==
    /\ phase = "ack"
    /\ Acknowledge
    /\ published' = applied'
    /\ tapEngine' = Len(engineQ)
    /\ phase' = "idle" /\ UNCHANGED quantumVars
    /\ EngineUnchanged /\ PlayerUnchanged
    /\ UNCHANGED <<commands, engineQ, garbage, retired, held, identity, installed, hostState,
                   rejected, epoch, freed, mayPlay, lastApplied>>

-----------------------------------------------------------------------------
(* The control side *)

AudioUnchanged ==
    UNCHANGED <<engineQ, garbage, hostVars, phase, quantumVars, engineVars, rejected, tapEngine,
                published, freed, mayPlay, lastApplied>>

ControlMayRun == (SingleRealm => phase = "idle") /\ todo = <<>>

Room == HostCapacity - Len(commands)

\* Player::queue, and the number the command gets.
Queue(op, id, act, mark) ==
    /\ issued < MaxIssue
    /\ Room > 0
    /\ commands' = Append(commands, Command(op, id, act, mark, issued + 1))
    /\ issued' = issued + 1

\* can_admit_browser_batch for one host command: four engine slots stay free
\* for what the audio side sends of its own accord.
CanAdmit ==
    LET limit == IF EngineCapacity < EngineDrain THEN EngineCapacity ELSE EngineDrain
    IN  /\ Len(commands) + 2 <= HostCapacity
        /\ tapEngine + 2 * Len(commands) + 5 <= limit

Admitted == Gated => CanAdmit

Edited ==
    UNCHANGED <<retired, epoch, build, seen, todo, collected, cancels, allocated, cancelledAt>>

\* Player::submit_interactive and the browser's transport buttons.
Transport(act) ==
    /\ ControlMayRun /\ "transport" \in Ops /\ Admitted
    /\ Queue("Interactive", build, act, 0)
    /\ Edited /\ UNCHANGED <<deferred, released, page>> /\ AudioUnchanged

\* Player::set_master_volume, mute and their like.
EngineEdit ==
    /\ ControlMayRun /\ "engine" \in Ops /\ Admitted
    /\ Queue("Engine", 0, "edit", 0)
    /\ Edited /\ UNCHANGED <<deferred, released, page>> /\ AudioUnchanged

\* Player::playback_barrier samples the rejections counted so far.
PlaybackBarrier ==
    /\ ControlMayRun /\ "barrier" \in Ops
    /\ Queue("Barrier", build, "edit", rejected)
    /\ Edited /\ UNCHANGED <<deferred, released, page>> /\ AudioUnchanged

\* Player::load_module_identified.
LoadFresh ==
    /\ ControlMayRun /\ "load" \in Ops
    /\ build < MaxBuild
    /\ Queue("Load", build + 1, "fresh", 0)
    /\ build' = build + 1
    /\ deferred' = 0 /\ page' = "open"
    /\ allocated' = allocated + 2
    /\ UNCHANGED <<released, retired, epoch, seen, todo, collected, cancels, cancelledAt>>
    /\ AudioUnchanged

\* Player::load_replacement_inner: the rest of what it queues, after the Load.
ReplacementTail(id, defer, state) ==
    <<Command("Selections", id, "edit", 0, issued + 2),
      Command("Interactive", id, "edit", 0, issued + 3)>>
    \o IF defer THEN <<>> ELSE <<Command("Restore", id, state, 0, issued + 4)>>

\* A replacement starts from an acknowledged build and an empty host ring.
MayReplace ==
    /\ Room >= 4
    /\ build > 0 => commands = <<>> /\ seen.id = build /\ seen.accepted

LoadReplacement(defer, state) ==
    /\ ControlMayRun /\ "replace" \in Ops
    /\ build < MaxBuild /\ issued + 4 <= MaxIssue
    /\ MayReplace
    /\ commands' = Append(commands, Command("Load", build + 1, IF defer THEN "hold" ELSE "keep",
                                            0, issued + 1))
    /\ todo' = ReplacementTail(build + 1, defer, state)
    /\ issued' = issued + 1 + Len(todo')
    /\ build' = build + 1
    /\ deferred' = IF defer THEN build + 1 ELSE 0
    /\ released' = FALSE /\ page' = "open"
    /\ allocated' = allocated + 3
    /\ UNCHANGED <<retired, epoch, seen, collected, cancels, cancelledAt>>
    /\ AudioUnchanged

ControlPush ==
    /\ todo # <<>>
    /\ Room > 0
    /\ commands' = Append(commands, Head(todo))
    /\ todo' = Tail(todo)
    /\ UNCHANGED <<retired, epoch, build, seen, deferred, released, collected, issued, cancels,
                   page, allocated, cancelledAt>>
    /\ AudioUnchanged

\* Player::finish_load_transport, which names the build that was loaded.  The page
\* releases a load once (worklet-processor.js: completeLoad), and again only after
\* it has taken that back.
FinishLoad(act) ==
    /\ ControlMayRun /\ "release" \in Ops /\ CanAdmit
    /\ build > 0 /\ page = "open" /\ page' = "releasing"
    /\ Queue("Browser", build, act, epoch)
    /\ Edited /\ UNCHANGED <<deferred, released>> /\ AudioUnchanged

\* Player::finish_replacement_transport: once per deferred installation.
FinishReplacement(state) ==
    /\ ControlMayRun /\ "release" \in Ops /\ CanAdmit
    /\ deferred = build /\ build > 0 /\ ~released
    /\ Queue("Restore", build, state, epoch)
    /\ released' = TRUE
    /\ page = "open" /\ page' = "releasing"
    /\ Edited /\ UNCHANGED deferred /\ AudioUnchanged

\* Player::cancel_load_transport, when newer settings or another load overtake a
\* release.
CancelLoad ==
    /\ ControlMayRun /\ "release" \in Ops
    /\ page = "releasing" /\ page' = "open"
    /\ cancels < MaxCancel
    /\ cancels' = cancels + 1
    /\ epoch' = epoch + 1
    /\ released' = FALSE
    /\ cancelledAt' = issued
    /\ UNCHANGED <<commands, retired, build, seen, todo, deferred, collected, issued, allocated>>
    /\ AudioUnchanged

\* Player::applied_playback: the newest snapshot, or an older one if it has
\* fallen behind (SnapshotChannel).
ReadApplied ==
    /\ SingleRealm => phase = "idle"
    /\ seen' = published
    /\ UNCHANGED <<commands, retired, epoch, build, todo, deferred, released, collected, issued,
                   cancels, page, allocated, cancelledAt>>
    /\ AudioUnchanged

\* Player::collect_garbage, one retirement.
CollectGarbage ==
    /\ SingleRealm => phase = "idle"
    /\ retired > 0
    /\ retired' = retired - 1
    /\ collected' = collected + 1
    /\ UNCHANGED <<commands, epoch, build, seen, todo, deferred, released, issued, cancels,
                   page, allocated, cancelledAt>>
    /\ AudioUnchanged

-----------------------------------------------------------------------------

Audio ==
    \/ AudioStart \/ CollectEngineGarbage \/ CollectDone
    \/ DrainBlock \/ DrainApply \/ DrainDone
    \/ Arm \/ EngineStep \/ EngineDone \/ NextQuantum \/ LastQuantum \/ AudioReturn

Control ==
    \/ \E act \in States : Transport(act) \/ FinishLoad(act) \/ FinishReplacement(act)
    \/ EngineEdit \/ PlaybackBarrier \/ LoadFresh
    \/ \E defer \in BOOLEAN, state \in States : LoadReplacement(defer, state)
    \/ ControlPush \/ CancelLoad \/ ReadApplied \/ CollectGarbage

Next == Audio \/ Control

Spec == Init /\ [][Next]_vars

-----------------------------------------------------------------------------
(* Properties *)

\* The audio callback never frees anything: whatever a load replaces (source,
\* selection table, module) finds a slot on its way back to the control side,
\* however late that side collects.  player.rs calls the drop in `retire` "the
\* last resort", engine.rs the one in apply_command "the lesser evil".
NoAudioFree == freed = 0

\* The positions of the loads on the engine ring; the older ones were there
\* when the current quantum began to drain.
Loads == {i \in 1 .. Len(engineQ) : engineQ[i].op = "LoadModule"}
OldLoads == {i \in Loads : i <= older}
NewLoads == {i \in Loads : i > older}
AtMostOne(S) == \A i, j \in S : i = j
Some(S) == IF S = {} THEN 0 ELSE 1

\* The modules still to be retired: those on the garbage ring, and those a load
\* on the engine ring is going to replace.
Debt == garbage + Some(OldLoads) + Some(NewLoads)

\* A load on the engine ring is never more than two quanta from being applied,
\* and there is at most one per quantum.
LoadsInReach ==
    /\ older <= Len(engineQ)
    /\ AtMostOne(OldLoads) /\ AtMostOne(NewLoads)
    /\ ~loaded => NewLoads = {}
    /\ phase \in {"drain", "arm"} => \A i \in OldLoads : i <= EngineDrain
    /\ phase = "engine" => /\ \A i \in OldLoads : i <= left
                           /\ \A i \in NewLoads : i <= EngineDrain + left
    /\ phase \notin {"drain", "arm", "engine"} =>
          OldLoads = {} /\ \A i \in NewLoads : i <= EngineDrain

\* At most two modules are ever owed, and for the second one a slot is kept
\* free until it has come back.  This is what the 2 in drain_commands'
\* retirement_room buys, and why NoAudioFree holds.
DebtCovered == Debt <= 1 \/ (Debt = 2 /\ loaded /\ retired < RetiredCapacity)

Count(queue, op) == Cardinality({i \in 1 .. Len(queue) : queue[i].op = op})

\* The commands that are issued and not yet applied, in the order they will be.
Waiting == held \o commands \o todo

\* Nothing is leaked and nothing is retired twice: every module, installation
\* and selection table ever made is on exactly one ring, in use, or dropped.
NothingLeaks ==
    allocated =
        2 * Count(Waiting, "Load") + Count(Waiting, "Selections")
        + Count(engineQ, "LoadModule") + (IF module = 0 THEN 0 ELSE 1)
        + 1 + garbage + retired + collected + freed

\* Commands take effect in the order they were issued: a load that is put back
\* for want of room is not overtaken by what was queued behind it
\* (drain_commands, pending_command).
OrderKept == [][lastApplied' >= lastApplied]_vars

\* An accepted barrier answers for the whole installation: at that moment the
\* sequencer and the sample memory are both those of the build the barrier was
\* issued for, and host and engine agree on the transport.
AcceptedMeansInstalled ==
    [][applied' # applied /\ applied'.accepted =>
         /\ applied'.id = pending.id
         /\ source = pending.id /\ module = pending.id
         /\ engineState = hostState]_vars

\* A release that was asked for before its load was cancelled has no effect,
\* whatever else was queued in between (cancel_load_transport).
CancelledReleaseInert ==
    [][(/\ lastApplied' # lastApplied
        /\ Upcoming.op \in {"Browser", "Restore"}
        /\ Upcoming.mark # 0 /\ Upcoming.n <= cancelledAt)
       => UNCHANGED <<hostState, engineQ>>]_vars

RestoreToCome ==
    \E queue \in {held, commands, todo} : \E i \in 1 .. Len(queue) : queue[i].op = "Restore"

\* What a quantum sequences and what it plays belong together: when it is
\* rendered the engine has the samples of the source it runs, and the transport
\* the host believes it has, unless a replacement that keeps the transport has
\* its own restore still to come (RenderState::apply, Load).
SourceInStep ==
    phase = "settle" =>
        /\ module = source
        /\ engineState = hostState \/ RestoreToCome

\* A freshly loaded or held source is not sequenced until somebody tells it to
\* play.  player.rs: "A fresh source never inherits a playing clock", and "Hold
\* in the same reserved load group, before this quantum can sequence any events".
FreshSourceSilent ==
    (phase = "settle" /\ engineState = "Playing") => mayPlay

\* The audio side runs for as long as the device asks for blocks, each of
\* them finite; the control side collects, as every host's polling loop does,
\* and in the worklet its turn comes between two callbacks, again and again.
FairSpec ==
    Spec /\ WF_vars(Audio) /\ SF_vars(LastQuantum) /\ SF_vars(CollectGarbage)

\* A load that is put back is applied in the end: the room it waits for always
\* comes back.
LoadsNeverWedge == held # <<>> ~> held = <<>>

\* Every barrier is answered in the end, by its own answer or by that of a
\* later barrier that replaced it.
BarriersAnswered == pending # NoBarrier ~> pending = NoBarrier
=============================================================================
