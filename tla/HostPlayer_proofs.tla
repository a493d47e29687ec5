-------------------------- MODULE HostPlayer_proofs --------------------------
(***************************************************************************)
(* Theorems about HostPlayer, for every capacity that satisfies its        *)
(* assumptions and any number of commands, builds and cancels.             *)
(*                                                                         *)
(*   1. Types: the rings hold what they may and never too much.            *)
(*   2. Retirement: the audio callback frees nothing (NoAudioFree).        *)
(*   3. The line: commands take effect in the order of issue (OrderKept),  *)
(*      a cancelled release has none (CancelledReleaseInert).              *)
(*   4. Builds: every value made is in one place (NothingLeaks).           *)
(*   5. Transport: the samples follow the source, host and engine agree    *)
(*      (SourceInStep, FreshSourceSilent, AcceptedMeansInstalled).         *)
(*                                                                         *)
(* Each part strengthens the invariant with those before it.               *)
(***************************************************************************)
EXTENDS HostPlayer, SequenceTheorems, FiniteSetTheorems, TLAPS

(***************************************************************************)
(* 1. Type correctness                                                     *)
(***************************************************************************)

-----------------------------------------------------------------------------
(* The two ways the audio side writes a ring *)

\* What RenderState::send does to the engine ring: it keeps what is there, adds
\* a prefix of the group, never overfills, and adds all of a group that fits.
LEMMA SendGroup ==
    ASSUME engineQ \in Seq(EngineCommand), Len(engineQ) <= EngineCapacity,
           rejected \in Nat,
           NEW group \in Seq(EngineCommand), Send(group)
    PROVE  /\ engineQ' \in Seq(EngineCommand)
           /\ Len(engineQ) <= Len(engineQ') /\ Len(engineQ') <= EngineCapacity
           /\ rejected' \in Nat
           /\ \A i \in 1 .. Len(engineQ) : engineQ'[i] = engineQ[i]
           /\ \A i \in 1 .. Len(engineQ') :
                i > Len(engineQ) => /\ i - Len(engineQ) \in 1 .. Len(group)
                                    /\ engineQ'[i] = group[i - Len(engineQ)]
           /\ Len(group) <= EngineRoom => Len(engineQ') = Len(engineQ) + Len(group)
<1> DEFINE fits == IF Len(group) <= EngineRoom THEN Len(group) ELSE EngineRoom
           sent == SubSeq(group, 1, fits)
<1>1. /\ EngineRoom \in Nat /\ EngineCapacity \in Nat
      /\ Len(group) \in Nat /\ Len(engineQ) \in Nat
  BY CapacityAssumption, LenProperties DEF EngineRoom
<1>2. fits \in 0 .. Len(group) /\ fits <= EngineRoom
  BY <1>1
<1>3. \A i \in 1 .. fits : group[i] \in EngineCommand
  BY <1>1, <1>2, ElementOfSeq
<1>4. /\ sent \in Seq(EngineCommand)
      /\ Len(sent) = fits
      /\ \A i \in 1 .. fits : sent[i] = group[i]
  BY <1>1, <1>2, <1>3, SubSeqProperties
<1>5. engineQ' = engineQ \o sent /\ rejected' = rejected + Len(group) - fits
  BY DEF Send
<1>6. /\ engineQ' \in Seq(EngineCommand)
      /\ Len(engineQ') = Len(engineQ) + fits
      /\ \A i \in 1 .. Len(engineQ) + fits :
            engineQ'[i] = IF i <= Len(engineQ) THEN engineQ[i] ELSE sent[i - Len(engineQ)]
  BY <1>4, <1>5, ConcatProperties
<1>7. \A i \in 1 .. Len(engineQ) : engineQ'[i] = engineQ[i]
  BY <1>1, <1>2, <1>6
<1>8. ASSUME NEW i \in 1 .. Len(engineQ'), i > Len(engineQ)
      PROVE  i - Len(engineQ) \in 1 .. Len(group) /\ engineQ'[i] = group[i - Len(engineQ)]
  <2>1. i - Len(engineQ) \in 1 .. fits
    BY <1>1, <1>2, <1>6, <1>8
  <2> QED BY <2>1, <1>1, <1>2, <1>4, <1>6, <1>8
<1>9. /\ Len(engineQ) <= Len(engineQ') /\ Len(engineQ') <= EngineCapacity
      /\ rejected' \in Nat
      /\ Len(group) <= EngineRoom => Len(engineQ') = Len(engineQ) + Len(group)
  BY <1>1, <1>2, <1>5, <1>6 DEF EngineRoom
<1> QED BY <1>6, <1>7, <1>8, <1>9

\* What RenderState::retire does: it never overfills the ring, and drops
\* nothing when there is room.
LEMMA RetireCount ==
    ASSUME retired \in 0 .. RetiredCapacity, freed \in Nat,
           NEW count \in Nat, Retire(count)
    PROVE  /\ retired' \in 0 .. RetiredCapacity
           /\ freed' \in Nat
           /\ retired + count <= RetiredCapacity => retired' = retired + count /\ freed' = freed
BY CapacityAssumption DEF Retire

-----------------------------------------------------------------------------
(* Type correctness *)

\* The commands the two sides build have the types the rings expect.
LEMMA CommandTypes ==
    /\ \A op \in {"Interactive", "Browser", "Restore", "Selections", "Barrier", "Engine"},
          id \in Nat, act \in States \cup {"edit"}, mark \in Nat, n \in Nat :
            Command(op, id, act, mark, n) \in HostCommand
    /\ \A id \in Nat, act \in {"fresh", "keep", "hold"}, n \in Nat :
            Command("Load", id, act, 0, n) \in HostCommand
    /\ \A id \in Nat : LoadModule(id) \in EngineCommand
    /\ \A id \in Nat, act \in States \cup {"edit"} : Interactive(id, act) \in EngineCommand
    /\ Other \in EngineCommand
BY DEF Command, HostCommand, LoadModule, Interactive, Other, EngineCommand

\* The head of what waits is a command, and taking it leaves sequences.
LEMMA TakeUpcoming ==
    ASSUME TypeOK, AnyUpcoming, Take
    PROVE  /\ Upcoming \in HostCommand
           /\ commands' \in Seq(HostCommand)
           /\ Len(commands') <= HostCapacity
<1>1. CASE FromHeld
  BY <1>1, HeadTailProperties DEF TypeOK, FromHeld, Upcoming, Take
<1>2. CASE ~FromHeld
  <2>1. commands # <<>> /\ commands \in Seq(HostCommand) /\ Len(commands) <= HostCapacity
    BY <1>2 DEF TypeOK, FromHeld, AnyUpcoming
  <2>2. /\ Head(commands) \in HostCommand /\ Tail(commands) \in Seq(HostCommand)
        /\ Len(Tail(commands)) = Len(commands) - 1 /\ Len(commands) \in Nat
    BY <2>1, HeadTailProperties, LenProperties
  <2> QED BY <1>2, <2>1, <2>2, CapacityAssumption DEF Upcoming, Take
<1> QED BY <1>1, <1>2

\* A command pushed by the control side fits.
LEMMA PushFits ==
    ASSUME TypeOK, Room > 0, NEW c \in HostCommand
    PROVE  Append(commands, c) \in Seq(HostCommand) /\ Len(Append(commands, c)) <= HostCapacity
BY CapacityAssumption, AppendProperties, LenProperties DEF TypeOK, Room

\* Type correctness is preserved by what DrainApply does with each command.
LEMMA ApplyTypes ==
    ASSUME TypeOK, NEW c \in HostCommand, Apply(c)
    PROVE  /\ engineQ' \in Seq(EngineCommand) /\ Len(engineQ') <= EngineCapacity
           /\ rejected' \in Nat
           /\ retired' \in 0 .. RetiredCapacity /\ freed' \in Nat
           /\ identity' \in Nat /\ installed' \in Nat /\ hostState' \in States
           /\ pending' \in Barrier /\ source' \in Nat /\ epoch' \in Nat
           /\ mayPlay' \in BOOLEAN
           /\ module' = module /\ engineState' = engineState
<1> USE DEF TypeOK
<1> DEFINE SendPost == /\ engineQ' \in Seq(EngineCommand) /\ Len(engineQ') <= EngineCapacity
                       /\ rejected' \in Nat
<1>1. ASSUME NEW group \in Seq(EngineCommand), Send(group) PROVE SendPost
  BY <1>1, SendGroup
<1>2. /\ c.id \in Nat /\ c.mark \in Nat /\ c.n \in Nat
      /\ c.op # "Load" => c.act \in States \cup {"edit"}
  BY DEF HostCommand
<1>3. CASE ApplyLoad(c)
  <2>1. /\ LoadModule(c.id) \in EngineCommand
        /\ Interactive(c.id, "Stopped") \in EngineCommand
        /\ Interactive(c.id, "Paused") \in EngineCommand
    BY <1>2, CommandTypes DEF States
  <2>2. /\ Paired(c) \in Seq(EngineCommand)
        /\ Paired(c) # <<>> => Head(Paired(c)).act \in States
    <3>1. CASE c.act = "fresh"
      <4>1. Paired(c) = <<Interactive(c.id, "Stopped")>>
        BY <3>1 DEF Paired
      <4> QED BY <2>1, <4>1 DEF Interactive, States
    <3>2. CASE c.act = "hold"
      <4>1. Paired(c) = <<Interactive(c.id, "Paused")>>
        BY <3>2 DEF Paired
      <4> QED BY <2>1, <4>1 DEF Interactive, States
    <3>3. CASE c.act \notin {"fresh", "hold"}
      <4>1. Paired(c) = <<>>
        BY <3>3 DEF Paired
      <4> QED BY <4>1
    <3> QED BY <3>1, <3>2, <3>3
  <2>3. <<LoadModule(c.id)>> \o Paired(c) \in Seq(EngineCommand)
    BY <2>1, <2>2
  <2>4. SendPost
    BY <1>1, <1>3, <2>3 DEF ApplyLoad
  <2>5. retired' \in 0 .. RetiredCapacity /\ freed' \in Nat
    BY <1>3, RetireCount DEF ApplyLoad
  <2> QED BY <1>2, <1>3, <2>2, <2>4, <2>5 DEF ApplyLoad, engineVars
<1>4. ASSUME SetTransport(c), c.op \in {"Interactive", "Browser", "Restore"}
      PROVE  SendPost /\ hostState' \in States /\ mayPlay' \in BOOLEAN
  <2>1. CASE identity = c.id /\ EngineRoom > 0
    <3>1. <<Interactive(c.id, c.act)>> \in Seq(EngineCommand)
      BY <1>2, <1>4, CommandTypes
    <3> QED BY <1>1, <1>2, <1>4, <2>1, <3>1 DEF SetTransport
  <2>2. CASE ~(identity = c.id /\ EngineRoom > 0)
    BY <1>4, <2>2 DEF SetTransport, Reject
  <2> QED BY <2>1, <2>2
<1>5. CASE ApplyInteractive(c)
  BY <1>4, <1>5 DEF ApplyInteractive, TransportOnly, engineVars
<1>6. CASE ApplyRelease(c)
  BY <1>4, <1>6 DEF ApplyRelease, TransportOnly, engineVars
<1>7. CASE ApplySelections(c)
  BY <1>7, RetireCount DEF ApplySelections, engineVars
<1>8. CASE ApplyBarrier(c)
  BY <1>2, <1>8 DEF ApplyBarrier, Barrier, engineVars
<1>9. CASE ApplyEngine(c)
  <2>1. <<Other>> \in Seq(EngineCommand)
    BY CommandTypes
  <2> QED BY <1>1, <1>9, <2>1 DEF ApplyEngine, TransportOnly, engineVars
<1> QED BY <1>3, <1>5, <1>6, <1>7, <1>8, <1>9 DEF Apply

\* finish_interactive_song keeps the types it touches.
LEMMA FinishTypes ==
    ASSUME TypeOK, FinishSong \/ NoSongToFinish
    PROVE  /\ engineQ' \in Seq(EngineCommand) /\ Len(engineQ') <= EngineCapacity
           /\ rejected' \in Nat /\ hostState' \in States
<1>1. <<Interactive(identity, "Stopped")>> \in Seq(EngineCommand)
  BY CommandTypes DEF TypeOK, States
<1>2. CASE FinishSong /\ EngineRoom > 0
  <2>1. Send(<<Interactive(identity, "Stopped")>>) /\ hostState' = "Stopped"
    BY <1>2 DEF FinishSong
  <2>2. engineQ \in Seq(EngineCommand) /\ Len(engineQ) <= EngineCapacity /\ rejected \in Nat
    BY DEF TypeOK
  <2> QED BY <1>1, <2>1, <2>2, SendGroup DEF States
<1>3. CASE FinishSong /\ ~(EngineRoom > 0)
  BY <1>3 DEF TypeOK, FinishSong, Reject
<1>4. CASE NoSongToFinish
  BY <1>4 DEF TypeOK, NoSongToFinish
<1> QED BY <1>2, <1>3, <1>4

\* Every step of the audio callback keeps the types.
LEMMA AudioTypes ==
    ASSUME TypeOK, Audio
    PROVE  TypeOK'
<1> USE DEF EngineUnchanged, PlayerUnchanged, engineVars, hostVars, tapVars, playerVars,
            quantumVars
<1>1. CASE AudioStart
  BY <1>1 DEF TypeOK, AudioStart, Phases
<1>2. CASE CollectEngineGarbage
  <2>1. retired' \in 0 .. RetiredCapacity /\ freed' \in Nat
    BY <1>2, RetireCount DEF TypeOK, CollectEngineGarbage
  <2>2. garbage' \in 0 .. GarbageCapacity
    BY <1>2, CapacityAssumption DEF TypeOK, CollectEngineGarbage
  <2> QED BY <1>2, <2>1, <2>2 DEF TypeOK, CollectEngineGarbage
<1>3. CASE CollectDone
  BY <1>3, CapacityAssumption, LenProperties DEF TypeOK, CollectDone, Phases
<1>4. CASE DrainBlock
  <2>1. Upcoming \in HostCommand /\ commands' \in Seq(HostCommand) /\ Len(commands') <= HostCapacity
    BY <1>4, TakeUpcoming DEF DrainBlock
  <2>2. held' \in Seq(HostCommand) /\ Len(held') <= 1
    BY <1>4, <2>1 DEF DrainBlock
  <2> QED BY <1>4, <2>1, <2>2 DEF TypeOK, DrainBlock, Phases
<1>5. CASE DrainApply
  <2>1. Upcoming \in HostCommand /\ commands' \in Seq(HostCommand) /\ Len(commands') <= HostCapacity
    BY <1>5, TakeUpcoming DEF DrainApply
  <2>2. held' \in Seq(HostCommand) /\ Len(held') <= 1
    BY <1>5 DEF TypeOK, DrainApply
  <2>3. left' \in Nat /\ loaded' \in BOOLEAN /\ phase' \in Phases /\ older' \in Nat
    BY <1>5 DEF TypeOK, DrainApply
  <2>4. lastApplied' \in Nat
    BY <1>5, <2>1 DEF DrainApply, HostCommand
  <2>5. Apply(Upcoming)
    BY <1>5 DEF DrainApply
  <2> QED BY <1>5, <2>1, <2>2, <2>3, <2>4, <2>5, ApplyTypes DEF TypeOK, DrainApply
<1>6. CASE DrainDone
  BY <1>6 DEF TypeOK, DrainDone, Phases
<1>7. CASE Arm
  BY <1>7, FinishTypes, CapacityAssumption DEF TypeOK, Arm, Phases
<1>8. CASE EngineStep
  <2>1. /\ Head(engineQ) \in EngineCommand /\ Tail(engineQ) \in Seq(EngineCommand)
        /\ Len(Tail(engineQ)) <= EngineCapacity
    BY <1>8, HeadTailProperties, LenProperties, CapacityAssumption DEF TypeOK, EngineStep
  <2>2. left' \in Nat /\ loaded' \in BOOLEAN /\ phase' \in Phases /\ older' \in Nat
    BY <1>8 DEF TypeOK, EngineStep
  <2>3. /\ module' \in Nat /\ engineState' \in States
        /\ garbage' \in 0 .. GarbageCapacity /\ freed' \in Nat
    <3> DEFINE c == Head(engineQ)
    <3>1. c.id \in Nat /\ EngineApply(c)
      BY <1>8, <2>1 DEF EngineStep, EngineCommand
    <3>2. /\ module \in Nat /\ engineState \in States /\ freed \in Nat
          /\ garbage \in 0 .. GarbageCapacity /\ GarbageCapacity \in Nat
      BY CapacityAssumption DEF TypeOK
    <3> HIDE DEF c
    <3> QED BY <3>1, <3>2 DEF EngineApply
  <2> QED BY <1>8, <2>1, <2>2, <2>3 DEF TypeOK, EngineStep
<1>9. CASE EngineDone
  BY <1>9 DEF TypeOK, EngineDone, Phases
<1>10. ASSUME NEW next \in {"collect", "end"}, Settle(next) PROVE TypeOK'
  BY <1>10, FinishTypes DEF TypeOK, Settle, Phases
<1>11. CASE AudioReturn
  <2>1. applied' \in AppliedPlayback /\ pending' \in Barrier
    <3>1. CASE AllApplied /\ pending # NoBarrier
      <4> DEFINE answer == /\ installed # 0 /\ installed = pending.id
                           /\ rejected = pending.mark
      <4>1. applied' = [id |-> identity, serial |-> pending.n, accepted |-> answer]
        BY <1>11, <3>1 DEF AudioReturn, Acknowledge
      <4>2. answer \in BOOLEAN
        OBVIOUS
      <4>3. identity \in Nat /\ pending.n \in Nat
        BY DEF TypeOK, Barrier
      <4> HIDE DEF answer
      <4>4. applied' \in AppliedPlayback
        BY <4>1, <4>2, <4>3, Zenon DEF AppliedPlayback
      <4>5. pending' \in Barrier
        BY <1>11, <3>1 DEF AudioReturn, Acknowledge, Barrier, NoBarrier
      <4> QED BY <4>4, <4>5
    <3>2. CASE ~(AllApplied /\ pending # NoBarrier)
      BY <1>11, <3>2 DEF TypeOK, AudioReturn, Acknowledge
    <3> QED BY <3>1, <3>2
  <2> QED BY <1>11, <2>1, LenProperties DEF TypeOK, AudioReturn, Phases
<1> QED
  BY <1>1, <1>2, <1>3, <1>4, <1>5, <1>6, <1>7, <1>8, <1>9, <1>10, <1>11
  DEF Audio, NextQuantum, LastQuantum

\* Every step of the control side keeps the types.
LEMMA ControlTypes ==
    ASSUME TypeOK, Control
    PROVE  TypeOK'
<1> USE DEF AudioUnchanged, engineVars, hostVars, quantumVars
<1>0. /\ build \in Nat /\ rejected \in Nat /\ issued + 1 \in Nat /\ issued + 2 \in Nat
      /\ issued + 3 \in Nat /\ issued + 4 \in Nat /\ build + 1 \in Nat /\ 0 \in Nat
      /\ "edit" \in States \cup {"edit"}
  BY DEF TypeOK
<1>1. ASSUME NEW op, NEW id, NEW act, NEW mark, Queue(op, id, act, mark),
             Command(op, id, act, mark, issued + 1) \in HostCommand
      PROVE  commands' \in Seq(HostCommand) /\ Len(commands') <= HostCapacity /\ issued' \in Nat
  BY <1>1, PushFits DEF Queue, TypeOK
<1>2. ASSUME NEW act \in States, Transport(act) PROVE TypeOK'
  <2>1. Command("Interactive", build, act, 0, issued + 1) \in HostCommand
    BY CommandTypes DEF TypeOK
  <2> QED BY <1>1, <1>2, <2>1 DEF Transport, Edited, TypeOK
<1>3. ASSUME NEW act \in States, FinishLoad(act) PROVE TypeOK'
  <2>1. Command("Browser", build, act, epoch, issued + 1) \in HostCommand
    BY CommandTypes DEF TypeOK
  <2> QED BY <1>1, <1>3, <2>1 DEF FinishLoad, Edited, TypeOK
<1>4. ASSUME NEW state \in States, FinishReplacement(state) PROVE TypeOK'
  <2>1. Command("Restore", build, state, epoch, issued + 1) \in HostCommand
    BY CommandTypes DEF TypeOK
  <2> QED BY <1>1, <1>4, <2>1 DEF FinishReplacement, Edited, TypeOK
<1>5. CASE EngineEdit
  <2>1. Command("Engine", 0, "edit", 0, issued + 1) \in HostCommand
    BY <1>0, CommandTypes
  <2> QED BY <1>1, <1>5, <2>1 DEF EngineEdit, Edited, TypeOK
<1>6. CASE PlaybackBarrier
  <2>1. Command("Barrier", build, "edit", rejected, issued + 1) \in HostCommand
    BY <1>0, CommandTypes
  <2> QED BY <1>1, <1>6, <2>1 DEF PlaybackBarrier, Edited, TypeOK
<1>7. CASE LoadFresh
  <2>1. Command("Load", build + 1, "fresh", 0, issued + 1) \in HostCommand
    BY CommandTypes DEF TypeOK
  <2> QED BY <1>1, <1>7, <2>1 DEF LoadFresh, TypeOK
<1>8. ASSUME NEW defer \in BOOLEAN, NEW state \in States, LoadReplacement(defer, state)
      PROVE  TypeOK'
  <2>1. Command("Load", build + 1, IF defer THEN "hold" ELSE "keep", 0, issued + 1) \in HostCommand
    BY CommandTypes DEF TypeOK
  <2>2. Room > 0
    BY <1>8, CapacityAssumption, LenProperties DEF LoadReplacement, MayReplace, Room, TypeOK
  <2>3. commands' \in Seq(HostCommand) /\ Len(commands') <= HostCapacity
    BY <1>8, <2>1, <2>2, PushFits DEF LoadReplacement
  <2>4. todo' \in Seq(HostCommand)
    <3>1. /\ Command("Selections", build + 1, "edit", 0, issued + 2) \in HostCommand
          /\ Command("Interactive", build + 1, "edit", 0, issued + 3) \in HostCommand
          /\ Command("Restore", build + 1, state, 0, issued + 4) \in HostCommand
      BY <1>0, CommandTypes
    <3> QED BY <1>8, <3>1 DEF LoadReplacement, ReplacementTail
  <2>5. issued' \in Nat
    BY <1>8, <2>4, LenProperties DEF LoadReplacement, TypeOK
  <2>6. released' \in BOOLEAN /\ build' \in Nat /\ deferred' \in Nat /\ allocated' \in Nat
    <3>1. released' \in BOOLEAN
      BY <1>8 DEF LoadReplacement
    <3> QED BY <1>8, <3>1 DEF LoadReplacement, TypeOK
  <2> QED BY <1>8, <2>3, <2>4, <2>5, <2>6 DEF LoadReplacement, TypeOK
<1>9. CASE ControlPush
  <2>1. Head(todo) \in HostCommand /\ Tail(todo) \in Seq(HostCommand)
    BY <1>9, HeadTailProperties DEF ControlPush, TypeOK
  <2>2. commands' \in Seq(HostCommand) /\ Len(commands') <= HostCapacity
    BY <1>9, <2>1, PushFits DEF ControlPush
  <2> QED BY <1>9, <2>1, <2>2 DEF ControlPush, TypeOK
<1>10. CASE CancelLoad
  <2>1. released' \in BOOLEAN
    BY <1>10 DEF CancelLoad
  <2> QED BY <1>10, <2>1 DEF CancelLoad, TypeOK
<1>11. CASE ReadApplied
  BY <1>11 DEF ReadApplied, TypeOK
<1>12. CASE CollectGarbage
  BY <1>12, CapacityAssumption DEF CollectGarbage, TypeOK
<1> QED
  BY <1>2, <1>3, <1>4, <1>5, <1>6, <1>7, <1>8, <1>9, <1>10, <1>11, <1>12 DEF Control

\* The initial values have the types.
LEMMA InitTypes ==
    ASSUME Init
    PROVE  TypeOK
<1>1. NoBarrier \in Barrier /\ NothingApplied \in AppliedPlayback
  BY Zenon DEF NoBarrier, Barrier, NothingApplied, AppliedPlayback
<1>2. released \in BOOLEAN /\ loaded \in BOOLEAN /\ mayPlay \in BOOLEAN
  BY DEF Init
<1>3. /\ commands \in Seq(HostCommand) /\ Len(commands) = 0
      /\ held \in Seq(HostCommand) /\ Len(held) = 0
      /\ todo \in Seq(HostCommand)
      /\ engineQ \in Seq(EngineCommand) /\ Len(engineQ) = 0
  BY EmptySeq DEF Init
<1> QED BY <1>1, <1>2, <1>3, CapacityAssumption DEF Init, TypeOK, States, Phases

\* Every step, and every stutter, keeps the types.
LEMMA TypeStep ==
    ASSUME TypeOK, [Next]_vars
    PROVE  TypeOK'
<1>1. CASE Next
  BY <1>1, AudioTypes, ControlTypes DEF Next
<1>2. CASE UNCHANGED vars
  BY <1>2 DEF TypeOK, vars, hostVars, quantumVars, engineVars, tapVars, playerVars
<1> QED BY <1>1, <1>2

\* Every variable keeps its type: in particular no ring of the host or of the
\* engine ever holds more than its capacity.
THEOREM TypeCorrect == Spec => []TypeOK
<1>1. Init => TypeOK
  BY InitTypes
<1>2. TypeOK /\ [Next]_vars => TypeOK'
  BY TypeStep
<1> QED BY <1>1, <1>2, PTL DEF Spec

(***************************************************************************)
(* 2. The callback frees nothing                                           *)
(*                                                                         *)
(* NoAudioFree alone is not inductive: it needs to know how many modules   *)
(* are still to come back from the engine (DebtCovered), which needs to    *)
(* know how many loads the engine ring can hold (LoadsInReach).            *)
(***************************************************************************)

\* What is inductive: the types and the three parts of the retirement path.
IInv == TypeOK /\ NoAudioFree /\ LoadsInReach /\ DebtCovered

-----------------------------------------------------------------------------
(* Loads on the engine ring *)

\* What is not a load leaves the loads on the engine ring where they are.
LEMMA SendOther ==
    ASSUME TypeOK, NEW group \in Seq(EngineCommand), Send(group),
           \A i \in 1 .. Len(group) : group[i].op # "LoadModule"
    PROVE  Loads' = Loads /\ Len(engineQ) <= Len(engineQ')
<1>1. /\ engineQ' \in Seq(EngineCommand)
      /\ Len(engineQ) <= Len(engineQ')
      /\ \A i \in 1 .. Len(engineQ) : engineQ'[i] = engineQ[i]
      /\ \A i \in 1 .. Len(engineQ') :
            i > Len(engineQ) => /\ i - Len(engineQ) \in 1 .. Len(group)
                                /\ engineQ'[i] = group[i - Len(engineQ)]
  BY SendGroup DEF TypeOK
<1>2. Len(engineQ) \in Nat /\ Len(engineQ') \in Nat
  BY <1>1, LenProperties DEF TypeOK
<1>3. ASSUME NEW i \in 1 .. Len(engineQ') PROVE i \in Loads' <=> i \in Loads
  <2>1. CASE i <= Len(engineQ)
    BY <1>1, <1>2, <2>1 DEF Loads
  <2>2. CASE i > Len(engineQ)
    BY <1>1, <1>2, <2>2 DEF Loads
  <2> QED BY <1>2, <2>1, <2>2
<1>4. Loads \subseteq 1 .. Len(engineQ') /\ Loads' \subseteq 1 .. Len(engineQ')
  BY <1>1, <1>2 DEF Loads
<1> QED BY <1>1, <1>3, <1>4

\* A load that fits, with its paired transport command, adds its own position.
LEMMA SendLoad ==
    ASSUME TypeOK, NEW group \in Seq(EngineCommand), Send(group),
           Len(group) <= EngineRoom, Len(group) >= 1,
           \A i \in 1 .. Len(group) : group[i].op = "LoadModule" <=> i = 1
    PROVE  /\ Loads' = Loads \cup {Len(engineQ) + 1}
           /\ Len(engineQ) < Len(engineQ')
<1>1. /\ engineQ' \in Seq(EngineCommand)
      /\ Len(engineQ') = Len(engineQ) + Len(group)
      /\ \A i \in 1 .. Len(engineQ) : engineQ'[i] = engineQ[i]
      /\ \A i \in 1 .. Len(engineQ') :
            i > Len(engineQ) => /\ i - Len(engineQ) \in 1 .. Len(group)
                                /\ engineQ'[i] = group[i - Len(engineQ)]
  BY SendGroup DEF TypeOK
<1>2. Len(engineQ) \in Nat /\ Len(engineQ') \in Nat /\ Len(group) \in Nat
  BY <1>1, LenProperties DEF TypeOK
<1>3. ASSUME NEW i \in 1 .. Len(engineQ')
      PROVE  i \in Loads' <=> i \in Loads \/ i = Len(engineQ) + 1
  <2>1. CASE i <= Len(engineQ)
    BY <1>1, <1>2, <2>1 DEF Loads
  <2>2. CASE i > Len(engineQ)
    BY <1>1, <1>2, <2>2 DEF Loads
  <2> QED BY <1>2, <2>1, <2>2
<1>4. /\ Loads \subseteq 1 .. Len(engineQ') /\ Loads' \subseteq 1 .. Len(engineQ')
      /\ Len(engineQ) + 1 \in 1 .. Len(engineQ')
  BY <1>1, <1>2 DEF Loads
<1>5. ASSUME NEW i PROVE i \in Loads' <=> i \in Loads \cup {Len(engineQ) + 1}
  <2>1. CASE i \in 1 .. Len(engineQ')
    BY <1>3, <2>1
  <2>2. CASE i \notin 1 .. Len(engineQ')
    BY <1>4, <2>2
  <2> QED BY <2>1, <2>2
<1>6. Len(engineQ) < Len(engineQ')
  BY <1>1, <1>2
<1> QED BY <1>5, <1>6

\* The engine takes the head of its ring: every load comes one position nearer.
LEMMA TailLoads ==
    ASSUME TypeOK, engineQ # <<>>, engineQ' = Tail(engineQ)
    PROVE  /\ Loads' = {i \in 1 .. Len(engineQ) - 1 : i + 1 \in Loads}
           /\ Len(engineQ') = Len(engineQ) - 1
           /\ Len(engineQ) \in Nat \ {0}
           /\ 1 \in Loads <=> Head(engineQ).op = "LoadModule"
<1>1. /\ engineQ \in Seq(EngineCommand) /\ Len(engineQ) \in Nat \ {0}
      /\ Len(engineQ') = Len(engineQ) - 1
      /\ \A i \in 1 .. Len(engineQ) - 1 : engineQ'[i] = engineQ[i + 1]
      /\ Head(engineQ) = engineQ[1]
  BY HeadTailProperties, LenProperties, EmptySeq DEF TypeOK
<1>2. \A i \in 1 .. Len(engineQ) - 1 : i + 1 \in 1 .. Len(engineQ)
  BY <1>1
<1>3. Loads' = {i \in 1 .. Len(engineQ) - 1 : engineQ[i + 1].op = "LoadModule"}
  BY <1>1 DEF Loads
<1>4. \A i \in 1 .. Len(engineQ) - 1 : i + 1 \in Loads <=> engineQ[i + 1].op = "LoadModule"
  BY <1>2 DEF Loads
<1>5. 1 \in Loads <=> Head(engineQ).op = "LoadModule"
  BY <1>1 DEF Loads
<1> QED BY <1>1, <1>3, <1>4, <1>5

\* A step that leaves the loads, the garbage and the quantum alone, and returns
\* no retirement, disturbs nothing but the phase.
LEMMA QuietStep ==
    ASSUME IInv, Loads' = Loads, Len(engineQ)' >= Len(engineQ), engineQ' \in Seq(EngineCommand),
           garbage' = garbage, older' = older, freed' = freed,
           loaded' = loaded, retired' \in Nat, retired' <= retired
    PROVE  /\ NoAudioFree' /\ DebtCovered'
           /\ OldLoads' = OldLoads /\ NewLoads' = NewLoads
           /\ older' <= Len(engineQ')
           /\ AtMostOne(OldLoads') /\ AtMostOne(NewLoads')
           /\ ~loaded' => NewLoads' = {}
<1>1. OldLoads' = OldLoads /\ NewLoads' = NewLoads
  BY DEF OldLoads, NewLoads
<1>2. NoAudioFree' /\ DebtCovered'
  BY <1>1, CapacityAssumption DEF IInv, TypeOK, NoAudioFree, DebtCovered, Debt, Some
<1>3. older' <= Len(engineQ')
  BY LenProperties DEF IInv, TypeOK, LoadsInReach
<1> QED BY <1>1, <1>2, <1>3 DEF IInv, LoadsInReach, AtMostOne

-----------------------------------------------------------------------------
(* The steps that change what is owed *)

\* drain_commands lets a load through only if it is the first of its quantum,
\* its group fits the engine ring, and two retirement slots are free.
LEMMA LoadApplied ==
    ASSUME IInv, phase = "drain", NEW c \in HostCommand, ~Blocked(c), ApplyLoad(c),
           older' = older, garbage' = garbage, phase' = phase, loaded' = TRUE
    PROVE  NoAudioFree' /\ LoadsInReach' /\ DebtCovered'
<1>1. /\ engineQ \in Seq(EngineCommand) /\ Len(engineQ) \in Nat /\ older \in Nat
      /\ retired \in 0 .. RetiredCapacity /\ RetiredCapacity \in Nat /\ EngineCapacity \in Nat
      /\ garbage \in Nat /\ freed = 0 /\ freed \in Nat
      /\ older <= Len(engineQ) /\ c.id \in Nat
  BY CapacityAssumption, LenProperties DEF IInv, TypeOK, LoadsInReach, NoAudioFree, HostCommand
<1>2. ~loaded /\ retired + 2 <= RetiredCapacity /\ EngineRoom >= EngineLoadCommands(c)
  BY <1>1, CapacityAssumption DEF Blocked, ApplyLoad, RetirementRoom, EngineRoom, EngineLoadCommands
<1> DEFINE group == <<LoadModule(c.id)>> \o Paired(c)
<1>3. /\ group \in Seq(EngineCommand)
      /\ Len(group) = EngineLoadCommands(c)
      /\ \A i \in 1 .. Len(group) : group[i].op = "LoadModule" <=> i = 1
  <2>1. c.act \in {"fresh", "keep", "hold"} /\ c.op = "Load"
    BY DEF ApplyLoad, HostCommand
  <2>2. /\ LoadModule(c.id) \in EngineCommand /\ LoadModule(c.id).op = "LoadModule"
        /\ Interactive(c.id, "Stopped") \in EngineCommand
        /\ Interactive(c.id, "Stopped").op = "Interactive"
        /\ Interactive(c.id, "Paused") \in EngineCommand
        /\ Interactive(c.id, "Paused").op = "Interactive"
    BY <1>1, CommandTypes DEF States, LoadModule, Interactive
  <2>3. ASSUME NEW a \in EngineCommand, a.op = "LoadModule"
        PROVE  /\ <<a>> \o <<>> \in Seq(EngineCommand) /\ Len(<<a>> \o <<>>) = 1
               /\ \A i \in 1 .. Len(<<a>> \o <<>>) : (<<a>> \o <<>>)[i].op = "LoadModule" <=> i = 1
    BY <2>3
  <2>4. ASSUME NEW a \in EngineCommand, a.op = "LoadModule",
               NEW b \in EngineCommand, b.op = "Interactive"
        PROVE  /\ <<a>> \o <<b>> \in Seq(EngineCommand) /\ Len(<<a>> \o <<b>>) = 2
               /\ \A i \in 1 .. Len(<<a>> \o <<b>>) : (<<a>> \o <<b>>)[i].op = "LoadModule" <=> i = 1
    BY <2>4
  <2>5. CASE c.act = "keep"
    <3>1. Paired(c) = <<>> /\ EngineLoadCommands(c) = 1
      BY <2>1, <2>5 DEF Paired, EngineLoadCommands
    <3> QED BY <2>2, <2>3, <3>1
  <2>6. CASE c.act = "fresh"
    <3>1. Paired(c) = <<Interactive(c.id, "Stopped")>> /\ EngineLoadCommands(c) = 2
      BY <2>1, <2>6 DEF Paired, EngineLoadCommands
    <3> QED BY <2>2, <2>4, <3>1
  <2>7. CASE c.act = "hold"
    <3>1. Paired(c) = <<Interactive(c.id, "Paused")>> /\ EngineLoadCommands(c) = 2
      BY <2>1, <2>7 DEF Paired, EngineLoadCommands
    <3> QED BY <2>2, <2>4, <3>1
  <2> QED BY <2>1, <2>5, <2>6, <2>7
<1>4. EngineLoadCommands(c) >= 1
  BY DEF EngineLoadCommands, ApplyLoad
<1>5. EngineRoom > 0 /\ Send(group) /\ Retire(1)
  BY <1>1, <1>2, <1>4 DEF ApplyLoad, EngineLoadCommands, EngineRoom
<1>6. freed' = 0 /\ retired' = retired + 1
  BY <1>1, <1>2, <1>5, RetireCount
<1>7. Loads' = Loads \cup {Len(engineQ) + 1} /\ Len(engineQ) < Len(engineQ')
  <2> HIDE DEF group
  <2>1. TypeOK
    BY DEF IInv
  <2> QED BY <1>1, <1>2, <1>3, <1>4, <1>5, <2>1, SendLoad
<1>8. NewLoads = {} /\ Loads \subseteq 1 .. Len(engineQ)
  BY <1>2 DEF IInv, LoadsInReach, Loads
<1>9. OldLoads' = OldLoads /\ NewLoads' = {Len(engineQ) + 1}
  BY <1>1, <1>7, <1>8 DEF OldLoads, NewLoads
<1>10. engineQ' \in Seq(EngineCommand) /\ Len(engineQ') \in Nat
  BY <1>3, <1>5, SendGroup, LenProperties DEF IInv, TypeOK
<1>11. LoadsInReach'
  BY <1>1, <1>7, <1>9, <1>10 DEF IInv, LoadsInReach, AtMostOne
<1>12. DebtCovered'
  BY <1>1, <1>2, <1>6, <1>8, <1>9 DEF IInv, DebtCovered, Debt, Some
<1> QED BY <1>6, <1>11, <1>12 DEF NoAudioFree

\* Every other command: it sends no load, and a selection table is retired only
\* if a slot is left for the module a load of this quantum brings back.
LEMMA OtherApplied ==
    ASSUME IInv, phase = "drain", NEW c \in HostCommand, ~Blocked(c),
           Apply(c), ~ApplyLoad(c),
           older' = older, garbage' = garbage, phase' = phase, loaded' = loaded
    PROVE  NoAudioFree' /\ LoadsInReach' /\ DebtCovered'
<1>1. /\ engineQ \in Seq(EngineCommand) /\ Len(engineQ) \in Nat /\ older \in Nat
      /\ retired \in 0 .. RetiredCapacity /\ RetiredCapacity \in Nat
      /\ garbage \in Nat /\ freed = 0 /\ freed \in Nat /\ loaded \in BOOLEAN
      /\ older <= Len(engineQ) /\ c.id \in Nat /\ TypeOK
  BY CapacityAssumption, LenProperties DEF IInv, TypeOK, LoadsInReach, NoAudioFree, HostCommand
<1>2. engineQ' \in Seq(EngineCommand) /\ Len(engineQ') \in Nat
  BY <1>1, ApplyTypes, LenProperties
<1>3. Loads' = Loads /\ Len(engineQ) <= Len(engineQ')
  <2>1. CASE UNCHANGED engineQ
    BY <1>1, <2>1 DEF Loads
  <2>2. ASSUME NEW e \in EngineCommand, e.op # "LoadModule", Send(<<e>>)
        PROVE  Loads' = Loads /\ Len(engineQ) <= Len(engineQ')
    <3> DEFINE group == <<e>>
    <3>1. group \in Seq(EngineCommand) /\ \A i \in 1 .. Len(group) : group[i].op # "LoadModule"
      BY <2>2
    <3> HIDE DEF group
    <3>2. Send(group)
      BY <2>2 DEF group
    <3> QED BY <1>1, <3>1, <3>2, SendOther
  <2>3. /\ Other \in EngineCommand /\ Other.op # "LoadModule"
        /\ c.op # "Load" => Interactive(c.id, c.act) \in EngineCommand
        /\ Interactive(c.id, c.act).op # "LoadModule"
    BY <1>1, CommandTypes DEF Other, Interactive, HostCommand
  <2>4. c.op # "Load" /\ SetTransport(c) => Loads' = Loads /\ Len(engineQ) <= Len(engineQ')
    BY <2>1, <2>2, <2>3 DEF SetTransport, Reject
  <2> QED
    BY <2>1, <2>2, <2>3, <2>4
    DEF Apply, ApplyInteractive, ApplyRelease, ApplySelections, ApplyBarrier, ApplyEngine
<1>4. OldLoads' = OldLoads /\ NewLoads' = NewLoads
  BY <1>3 DEF OldLoads, NewLoads
<1>5. LoadsInReach'
  BY <1>1, <1>2, <1>3, <1>4 DEF IInv, LoadsInReach, AtMostOne
<1>6. CASE c.op = "Selections"
  <2>1. Retire(1)
    BY <1>6 DEF Apply, ApplyLoad, ApplyInteractive, ApplyRelease, ApplySelections, ApplyBarrier,
                ApplyEngine
  <2>2. retired + RetirementRoom(c) <= RetiredCapacity
    BY <1>1, <1>6 DEF Blocked, RetirementRoom
  <2>3. RetirementRoom(c) = IF loaded THEN 2 ELSE 1
    BY <1>6 DEF RetirementRoom
  <2>4. freed' = 0 /\ retired' = retired + 1
    BY <1>1, <2>1, <2>2, <2>3, RetireCount
  <2>5. DebtCovered'
    BY <1>1, <1>4, <2>2, <2>3, <2>4 DEF IInv, DebtCovered, Debt, Some
  <2> QED BY <1>5, <2>4, <2>5 DEF NoAudioFree
<1>7. CASE c.op # "Selections"
  <2>1. retired' = retired /\ freed' = freed
    BY <1>7 DEF Apply, ApplyInteractive, ApplyRelease, ApplySelections, ApplyBarrier, ApplyEngine,
                TransportOnly
  <2>2. DebtCovered'
    BY <1>1, <1>4, <2>1 DEF IInv, DebtCovered, Debt, Some
  <2> QED BY <1>1, <1>5, <2>1, <2>2 DEF NoAudioFree
<1> QED BY <1>6, <1>7

\* A quantum begins to drain only when no garbage is left or no slot is, so of
\* two modules owed at most one can be outstanding.
LEMMA DrainBegins ==
    ASSUME IInv, CollectDone
    PROVE  NoAudioFree' /\ LoadsInReach' /\ DebtCovered'
<1> USE DEF EngineUnchanged, PlayerUnchanged, quantumVars
<1>1. /\ engineQ' = engineQ /\ garbage' = garbage /\ retired' = retired /\ freed' = freed
      /\ Len(engineQ) \in Nat /\ garbage \in Nat /\ loaded \in BOOLEAN
      /\ retired \in 0 .. RetiredCapacity /\ RetiredCapacity \in Nat
      /\ Loads \subseteq 1 .. Len(engineQ)
  BY CapacityAssumption, LenProperties DEF CollectDone, IInv, TypeOK, Loads
<1>2. Loads' = Loads
  BY <1>1 DEF Loads
<1>3. CASE phase = "end"
  <2>1. UNCHANGED <<left, loaded, older>> /\ phase' = "ack"
    BY <1>3 DEF CollectDone
  <2>2. OldLoads' = OldLoads /\ NewLoads' = NewLoads
    BY <1>2, <2>1 DEF OldLoads, NewLoads
  <2>3. LoadsInReach'
    BY <1>1, <1>3, <2>1, <2>2 DEF IInv, LoadsInReach, AtMostOne
  <2> QED BY <1>1, <2>1, <2>2, <2>3 DEF IInv, NoAudioFree, DebtCovered, Debt
<1>4. CASE phase = "collect"
  <2>1. loaded' = FALSE /\ older' = Len(engineQ) /\ phase' = "drain"
    BY <1>4 DEF CollectDone
  <2>2. OldLoads = {} /\ NewLoads = Loads /\ \A i \in Loads : i <= EngineDrain
    <3>1. OldLoads = {} /\ \A i \in NewLoads : i <= EngineDrain
      BY <1>4 DEF IInv, LoadsInReach
    <3>2. older \in Nat
      BY DEF IInv, TypeOK
    <3>3. \A i \in Loads : i > older
      BY <1>1, <3>1, <3>2 DEF OldLoads
    <3> QED BY <3>1, <3>3 DEF NewLoads
  <2>3. OldLoads' = Loads /\ NewLoads' = {}
    <3>1. \A i \in Loads : i <= Len(engineQ) /\ ~(i > Len(engineQ))
      BY <1>1
    <3>2. OldLoads' = {i \in Loads : i <= Len(engineQ)}
      BY <1>1, <1>2, <2>1 DEF OldLoads
    <3>3. NewLoads' = {i \in Loads : i > Len(engineQ)}
      BY <1>1, <1>2, <2>1 DEF NewLoads
    <3> QED BY <3>1, <3>2, <3>3
  <2>4. LoadsInReach'
    BY <1>1, <2>1, <2>2, <2>3 DEF IInv, LoadsInReach, AtMostOne
  <2>5. Debt' = Debt /\ Debt <= garbage + 1
    BY <1>1, <2>2, <2>3 DEF Debt, Some
  <2>6. DebtCovered'
    BY <1>1, <2>1, <2>5 DEF IInv, DebtCovered, CollectDone
  <2> QED BY <1>1, <2>4, <2>6 DEF IInv, NoAudioFree
<1> QED BY <1>3, <1>4 DEF CollectDone

\* A module that comes back from the engine is moved on only if it has a slot.
LEMMA GarbageCollected ==
    ASSUME IInv, CollectEngineGarbage
    PROVE  NoAudioFree' /\ LoadsInReach' /\ DebtCovered'
<1> USE DEF quantumVars
<1>1. /\ engineQ' = engineQ /\ UNCHANGED <<phase, left, loaded, older>>
      /\ garbage' = garbage - 1 /\ garbage \in Nat \ {0}
      /\ retired \in 0 .. RetiredCapacity /\ retired < RetiredCapacity
      /\ freed \in Nat /\ freed = 0 /\ Retire(1)
      /\ RetiredCapacity \in Nat
  BY CapacityAssumption DEF CollectEngineGarbage, IInv, TypeOK, NoAudioFree
<1>2. freed' = 0
  BY <1>1, RetireCount
<1>3. OldLoads' = OldLoads /\ NewLoads' = NewLoads
  BY <1>1 DEF OldLoads, NewLoads, Loads
<1>4. LoadsInReach'
  BY <1>1, <1>3 DEF IInv, LoadsInReach, AtMostOne
<1>5. DebtCovered'
  BY <1>1, <1>3 DEF IInv, DebtCovered, Debt, Some
<1> QED BY <1>2, <1>4, <1>5 DEF NoAudioFree

\* A load the engine applies turns into the module it replaces, and the garbage
\* ring has room for that.
LEMMA EngineSteps ==
    ASSUME IInv, EngineStep
    PROVE  NoAudioFree' /\ LoadsInReach' /\ DebtCovered'
<1>1. /\ engineQ # <<>> /\ engineQ' = Tail(engineQ) /\ phase = "engine" /\ phase' = "engine"
      /\ retired' = retired /\ left' = left - 1 /\ loaded' = loaded
      /\ older' = IF older > 0 THEN older - 1 ELSE 0
      /\ EngineApply(Head(engineQ))
  BY DEF EngineStep
<1>2. /\ left \in Nat /\ left > 0 /\ older \in Nat /\ garbage \in Nat /\ freed = 0
      /\ EngineDrain \in Nat /\ GarbageCapacity \in Nat /\ GarbageCapacity >= 2
      /\ TypeOK
  BY CapacityAssumption, DrainAssumption DEF EngineStep, IInv, TypeOK, NoAudioFree
<1>3. /\ Loads' = {i \in 1 .. Len(engineQ) - 1 : i + 1 \in Loads}
      /\ Len(engineQ') = Len(engineQ) - 1
      /\ Len(engineQ) \in Nat \ {0}
      /\ 1 \in Loads <=> Head(engineQ).op = "LoadModule"
  BY <1>1, <1>2, TailLoads
<1>4. Loads \subseteq 1 .. Len(engineQ)
  BY DEF Loads
<1>5. /\ older <= Len(engineQ) /\ AtMostOne(OldLoads) /\ AtMostOne(NewLoads)
      /\ ~loaded => NewLoads = {}
      /\ \A i \in OldLoads : i <= left
      /\ \A i \in NewLoads : i <= EngineDrain + left
  BY <1>1 DEF IInv, LoadsInReach
<1>6. /\ OldLoads' = {i \in 1 .. Len(engineQ) - 1 : i + 1 \in OldLoads}
      /\ NewLoads' = {i \in 1 .. Len(engineQ) - 1 : i + 1 \in NewLoads}
  <2>1. ASSUME NEW i \in 1 .. Len(engineQ) - 1
        PROVE  i <= older' <=> i + 1 <= older
    BY <1>1, <1>2, <1>3
  <2>2. ASSUME NEW i \in 1 .. Len(engineQ) - 1
        PROVE  i > older' <=> i + 1 > older
    BY <1>1, <1>2, <1>3
  <2> QED BY <1>3, <2>1, <2>2 DEF OldLoads, NewLoads
<1>7. LoadsInReach'
  BY <1>1, <1>2, <1>3, <1>5, <1>6 DEF LoadsInReach, AtMostOne
<1>8. /\ OldLoads = {} => OldLoads' = {}
      /\ NewLoads = {} => NewLoads' = {}
  BY <1>6
<1>9. CASE 1 \in Loads
  <2>1. garbage + 1 <= Debt /\ Debt <= 2
    BY <1>2, <1>9 DEF IInv, DebtCovered, Debt, Some, OldLoads, NewLoads
  <2>2. freed' = 0 /\ garbage' \in Nat /\ garbage' <= garbage + 1
    <3>1. garbage < GarbageCapacity
      BY <1>2, <2>1 DEF Debt, Some
    <3>2. Head(engineQ).op = "LoadModule"
      BY <1>3, <1>9
    <3> QED BY <1>1, <1>2, <3>1, <3>2 DEF EngineApply
  <2>3. \/ 1 \in OldLoads /\ OldLoads' = {}
        \/ 1 \in NewLoads /\ NewLoads' = {}
    <3>1. 1 \in OldLoads \/ 1 \in NewLoads
      BY <1>2, <1>9 DEF OldLoads, NewLoads
    <3>2. 1 \in OldLoads => \A i \in 1 .. Len(engineQ) - 1 : i + 1 \notin OldLoads
      BY <1>3, <1>5 DEF AtMostOne
    <3>3. 1 \in NewLoads => \A i \in 1 .. Len(engineQ) - 1 : i + 1 \notin NewLoads
      BY <1>3, <1>5 DEF AtMostOne
    <3> QED BY <1>6, <3>1, <3>2, <3>3
  <2>4. Debt' <= Debt /\ Debt' \in Nat /\ Debt \in Nat
    <3>1. Some(OldLoads)' <= Some(OldLoads) /\ Some(NewLoads)' <= Some(NewLoads)
      BY <1>8 DEF Some
    <3>2. \/ Some(OldLoads)' + 1 = Some(OldLoads)
          \/ Some(NewLoads)' + 1 = Some(NewLoads)
      BY <2>3 DEF Some
    <3>3. /\ Some(OldLoads) \in Nat /\ Some(NewLoads) \in Nat
          /\ Some(OldLoads)' \in Nat /\ Some(NewLoads)' \in Nat
      BY DEF Some
    <3> QED BY <1>2, <2>2, <3>1, <3>2, <3>3 DEF Debt
  <2> QED BY <1>1, <1>7, <2>1, <2>2, <2>4 DEF IInv, NoAudioFree, DebtCovered, TypeOK
<1>10. CASE 1 \notin Loads
  <2>1. freed' = 0 /\ garbage' = garbage
    <3>1. Head(engineQ).op # "LoadModule"
      BY <1>3, <1>10
    <3> QED BY <1>1, <1>2, <3>1 DEF EngineApply
  <2>2. Debt' <= Debt /\ Debt' \in Nat /\ Debt \in Nat
    BY <1>2, <1>8, <2>1 DEF Debt, Some
  <2> QED BY <1>1, <1>7, <2>1, <2>2 DEF IInv, NoAudioFree, DebtCovered, TypeOK
<1> QED BY <1>9, <1>10

\* Finishing a song sends at most one command, and it is not a load.
LEMMA SongFinished ==
    ASSUME IInv, FinishSong \/ NoSongToFinish
    PROVE  Loads' = Loads /\ Len(engineQ') >= Len(engineQ) /\ engineQ' \in Seq(EngineCommand)
<1>1. TypeOK /\ Len(engineQ) \in Nat
  BY LenProperties DEF IInv, TypeOK
<1>2. CASE UNCHANGED engineQ
  BY <1>1, <1>2 DEF Loads, TypeOK
<1>3. CASE Send(<<Interactive(identity, "Stopped")>>)
  <2> DEFINE group == <<Interactive(identity, "Stopped")>>
  <2>1. Interactive(identity, "Stopped") \in EngineCommand
    BY <1>1, CommandTypes DEF TypeOK, States
  <2>2. group \in Seq(EngineCommand) /\ \A i \in 1 .. Len(group) : group[i].op # "LoadModule"
    BY <2>1 DEF Interactive
  <2> HIDE DEF group
  <2>3. Send(group)
    BY <1>3 DEF group
  <2> QED BY <1>1, <2>2, <2>3, SendOther, FinishTypes
<1> QED BY <1>2, <1>3 DEF FinishSong, NoSongToFinish, Reject

\* The rest of the callback: what it does to the loads is to change the phase.
LEMMA PhaseSteps ==
    ASSUME IInv, AudioStart \/ DrainBlock \/ DrainDone \/ Arm \/ EngineDone
                 \/ NextQuantum \/ LastQuantum \/ AudioReturn
    PROVE  NoAudioFree' /\ LoadsInReach' /\ DebtCovered'
<1> USE DEF EngineUnchanged, PlayerUnchanged, quantumVars
<1>1. /\ engineQ \in Seq(EngineCommand) /\ Len(engineQ) \in Nat /\ Len(engineQ) <= EngineCapacity
      /\ retired \in Nat /\ EngineDrain \in Nat /\ EngineCapacity \in Nat /\ older \in Nat
      /\ EngineCapacity <= 2 * EngineDrain
      /\ Loads \subseteq 1 .. Len(engineQ)
  BY CapacityAssumption, DrainAssumption, LenProperties DEF IInv, TypeOK, Loads
<1>2. ASSUME UNCHANGED <<engineQ, garbage, retired, freed, older, loaded>>
      PROVE  /\ NoAudioFree' /\ DebtCovered'
             /\ OldLoads' = OldLoads /\ NewLoads' = NewLoads /\ older' <= Len(engineQ')
             /\ AtMostOne(OldLoads') /\ AtMostOne(NewLoads')
             /\ ~loaded' => NewLoads' = {}
  <2>1. Loads' = Loads /\ Len(engineQ') >= Len(engineQ)
    BY <1>1, <1>2 DEF Loads
  <2> QED BY <1>1, <1>2, <2>1, QuietStep
<1>3. CASE AudioStart
  BY <1>2, <1>3 DEF AudioStart, IInv, LoadsInReach
<1>4. CASE AudioReturn
  BY <1>2, <1>4 DEF AudioReturn, IInv, LoadsInReach
<1>5. CASE DrainBlock \/ DrainDone
  BY <1>2, <1>5 DEF DrainBlock, DrainDone, tapVars, IInv, LoadsInReach
<1>6. CASE Arm
  <2>1. Loads' = Loads /\ Len(engineQ') >= Len(engineQ) /\ engineQ' \in Seq(EngineCommand)
    BY <1>6, SongFinished DEF Arm
  <2>2. /\ UNCHANGED <<garbage, retired, freed, older, loaded>>
        /\ phase = "arm" /\ phase' = "engine" /\ left' = EngineDrain
    BY <1>6 DEF Arm
  <2>3. /\ NoAudioFree' /\ DebtCovered'
        /\ OldLoads' = OldLoads /\ NewLoads' = NewLoads /\ older' <= Len(engineQ')
        /\ AtMostOne(OldLoads') /\ AtMostOne(NewLoads')
        /\ ~loaded' => NewLoads' = {}
    BY <1>1, <2>1, <2>2, QuietStep
  <2>4. \A i \in OldLoads : i <= EngineDrain
    BY <2>2 DEF IInv, LoadsInReach
  <2>5. \A i \in NewLoads : i <= EngineDrain + EngineDrain
    BY <1>1 DEF NewLoads
  <2> QED BY <2>2, <2>3, <2>4, <2>5 DEF LoadsInReach
<1>7. CASE EngineDone
  <2>1. /\ UNCHANGED <<engineQ, garbage, retired, freed, loaded>>
        /\ phase = "engine" /\ phase' = "settle" /\ older' = 0
        /\ left = 0 \/ engineQ = <<>>
    BY <1>7 DEF EngineDone
  <2>2. /\ \A i \in OldLoads : i <= left
        /\ \A i \in NewLoads : i <= EngineDrain + left
        /\ AtMostOne(NewLoads)
        /\ ~loaded => NewLoads = {}
    BY <2>1 DEF IInv, LoadsInReach
  <2>3. left = 0 \/ Loads = {}
    BY <1>1, <2>1
  <2>4. \A i \in Loads : i > older /\ i <= EngineDrain /\ i > 0
    <3>1. ASSUME NEW i \in Loads, i <= older PROVE FALSE
      <4>1. i \in OldLoads /\ i \in 1 .. Len(engineQ)
        BY <1>1, <3>1 DEF OldLoads
      <4> QED BY <2>2, <2>3, <4>1
    <3>2. ASSUME NEW i \in Loads, i > older PROVE i <= EngineDrain /\ i > 0
      <4>1. i \in NewLoads /\ i \in 1 .. Len(engineQ)
        BY <1>1, <3>2 DEF NewLoads
      <4> QED BY <1>1, <2>2, <2>3, <4>1
    <3>3. \A i \in Loads : i > older \/ i <= older
      BY <1>1
    <3> QED BY <3>1, <3>2, <3>3
  <2>5. OldLoads = {} /\ NewLoads = Loads
    <3>1. \A i \in Loads : ~(i <= older)
      BY <1>1, <2>4
    <3> QED BY <2>4, <3>1 DEF OldLoads, NewLoads
  <2>6. OldLoads' = {} /\ NewLoads' = Loads
    <3>1. Loads' = Loads
      BY <2>1 DEF Loads
    <3>2. OldLoads' = {i \in Loads : i <= 0} /\ NewLoads' = {i \in Loads : i > 0}
      BY <2>1, <3>1 DEF OldLoads, NewLoads
    <3>3. \A i \in Loads : ~(i <= 0)
      BY <1>1
    <3> QED BY <2>4, <3>2, <3>3
  <2>7. LoadsInReach'
    <3>1. /\ older' <= Len(engineQ') /\ AtMostOne(OldLoads') /\ AtMostOne(NewLoads')
          /\ ~loaded' => NewLoads' = {}
      BY <1>1, <2>1, <2>2, <2>5, <2>6 DEF AtMostOne
    <3>2. OldLoads' = {} /\ \A i \in NewLoads' : i <= EngineDrain
      BY <2>4, <2>6
    <3> QED BY <2>1, <3>1, <3>2 DEF LoadsInReach
  <2>8. DebtCovered'
    <3>1. Debt' = Debt
      BY <2>1, <2>5, <2>6 DEF Debt, Some
    <3> QED BY <2>1, <3>1 DEF IInv, DebtCovered
  <2> QED BY <2>1, <2>7, <2>8 DEF IInv, NoAudioFree
<1>8. ASSUME NEW next \in {"collect", "end"}, Settle(next)
      PROVE  NoAudioFree' /\ LoadsInReach' /\ DebtCovered'
  <2>1. Loads' = Loads /\ Len(engineQ') >= Len(engineQ) /\ engineQ' \in Seq(EngineCommand)
    BY <1>8, SongFinished DEF Settle
  <2>2. UNCHANGED <<garbage, retired, freed, older, loaded>> /\ phase = "settle" /\ phase' = next
    BY <1>8 DEF Settle
  <2>3. /\ NoAudioFree' /\ DebtCovered'
        /\ OldLoads' = OldLoads /\ NewLoads' = NewLoads /\ older' <= Len(engineQ')
        /\ AtMostOne(OldLoads') /\ AtMostOne(NewLoads')
        /\ ~loaded' => NewLoads' = {}
    BY <1>1, <2>1, <2>2, QuietStep
  <2> QED BY <2>2, <2>3 DEF IInv, LoadsInReach
<1> QED BY <1>3, <1>4, <1>5, <1>6, <1>7, <1>8 DEF NextQuantum, LastQuantum

\* The control side touches none of this, except that it frees slots.
LEMMA ControlSteps ==
    ASSUME IInv, Control
    PROVE  NoAudioFree' /\ LoadsInReach' /\ DebtCovered'
<1> USE DEF AudioUnchanged, quantumVars
<1>1. /\ UNCHANGED <<engineQ, garbage, freed, older, loaded, left, phase>>
  BY DEF Control, Transport, FinishLoad, FinishReplacement, EngineEdit, PlaybackBarrier, LoadFresh,
         LoadReplacement, ControlPush, CancelLoad, ReadApplied, CollectGarbage
<1>2. retired' = retired \/ CollectGarbage
  BY DEF Control, Transport, FinishLoad, FinishReplacement, EngineEdit, PlaybackBarrier, LoadFresh,
         LoadReplacement, ControlPush, CancelLoad, ReadApplied, Edited
<1>3. retired' \in Nat /\ retired' <= retired
  <2>1. retired \in 0 .. RetiredCapacity /\ RetiredCapacity \in Nat
    BY CapacityAssumption DEF IInv, TypeOK
  <2>2. CASE CollectGarbage
    <3>1. retired > 0 /\ retired' = retired - 1
      BY <2>2 DEF CollectGarbage
    <3> QED BY <2>1, <3>1
  <2>3. CASE retired' = retired
    BY <2>1, <2>3
  <2> QED BY <1>2, <2>2, <2>3
<1>4. engineQ \in Seq(EngineCommand) /\ Len(engineQ) \in Nat
  BY LenProperties DEF IInv, TypeOK
<1>5. Loads' = Loads /\ Len(engineQ') >= Len(engineQ) /\ engineQ' \in Seq(EngineCommand)
  BY <1>1, <1>4 DEF Loads
<1>6. /\ NoAudioFree' /\ DebtCovered'
      /\ OldLoads' = OldLoads /\ NewLoads' = NewLoads /\ older' <= Len(engineQ')
      /\ AtMostOne(OldLoads') /\ AtMostOne(NewLoads')
      /\ ~loaded' => NewLoads' = {}
  BY <1>1, <1>3, <1>5, QuietStep
<1> QED BY <1>1, <1>6 DEF IInv, LoadsInReach

-----------------------------------------------------------------------------
(* The theorems *)

\* The strengthened invariant: the types, that nothing has been freed, that the
\* engine's loads are in reach of its drains, and that what is owed is covered.
THEOREM RetirementInvariant == Spec => []IInv
<1>1. Init => IInv
  <2> SUFFICES ASSUME Init PROVE IInv
    OBVIOUS
  <2>1. TypeOK
    BY InitTypes
  <2>2. Loads = {}
    BY DEF Init, Loads
  <2>3. OldLoads = {} /\ NewLoads = {} /\ older = 0 /\ Len(engineQ) = 0 /\ garbage = 0
    BY <2>2 DEF Init, OldLoads, NewLoads
  <2>4. LoadsInReach
    BY <2>3 DEF LoadsInReach, AtMostOne
  <2>5. DebtCovered /\ NoAudioFree
    BY <2>3 DEF DebtCovered, Debt, Some, Init, NoAudioFree
  <2> QED BY <2>1, <2>4, <2>5 DEF IInv
<1>2. IInv /\ [Next]_vars => IInv'
  <2> SUFFICES ASSUME IInv, [Next]_vars PROVE IInv'
    OBVIOUS
  <2>1. TypeOK'
    BY TypeStep DEF IInv
  <2>2. CASE DrainApply
    <3>1. /\ Upcoming \in HostCommand /\ Apply(Upcoming) /\ ~Blocked(Upcoming)
          /\ phase = "drain" /\ phase' = phase /\ older' = older /\ garbage' = garbage
          /\ loaded' = (loaded \/ Upcoming.op = "Load")
      BY <2>2, TakeUpcoming DEF IInv, DrainApply
    <3>2. CASE ApplyLoad(Upcoming)
      <4>1. loaded' = TRUE
        BY <3>1, <3>2 DEF ApplyLoad
      <4> QED BY <2>1, <3>1, <3>2, <4>1, LoadApplied DEF IInv
    <3>3. CASE ~ApplyLoad(Upcoming)
      <4>1. Upcoming.op # "Load"
        BY <3>1, <3>3
        DEF Apply, ApplyInteractive, ApplyRelease, ApplySelections, ApplyBarrier, ApplyEngine
      <4>2. loaded \in BOOLEAN
        BY DEF IInv, TypeOK
      <4>3. loaded' = loaded
        BY <3>1, <4>1, <4>2
      <4> QED BY <2>1, <3>1, <3>3, <4>3, OtherApplied DEF IInv
    <3> QED BY <3>2, <3>3
  <2>3. CASE CollectDone \/ CollectEngineGarbage \/ EngineStep
    BY <2>1, <2>3, DrainBegins, GarbageCollected, EngineSteps DEF IInv
  <2>4. CASE \/ AudioStart \/ DrainBlock \/ DrainDone \/ Arm \/ EngineDone
             \/ NextQuantum \/ LastQuantum \/ AudioReturn
    BY <2>1, <2>4, PhaseSteps DEF IInv
  <2>5. CASE Control
    BY <2>1, <2>5, ControlSteps DEF IInv
  <2>6. CASE UNCHANGED vars
    <3>1. UNCHANGED <<engineQ, garbage, retired, freed, older, loaded, left, phase>>
      BY <2>6 DEF vars, quantumVars
    <3>2. OldLoads' = OldLoads /\ NewLoads' = NewLoads
      BY <3>1 DEF OldLoads, NewLoads, Loads
    <3> QED BY <2>1, <3>1, <3>2
      DEF IInv, LoadsInReach, AtMostOne, NoAudioFree, DebtCovered, Debt, Some
  <2> QED BY <2>2, <2>3, <2>4, <2>5, <2>6 DEF Next, Audio
<1> QED BY <1>1, <1>2, PTL DEF Spec

\* Nothing is ever freed inside the audio callback.
THEOREM NeverFreesOnAudio == Spec => []NoAudioFree
<1>1. IInv => NoAudioFree
  BY DEF IInv
<1> QED BY <1>1, RetirementInvariant, PTL

\* At most two modules are ever owed, and the second has a slot kept for it.
THEOREM DebtAlwaysCovered == Spec => []DebtCovered
<1>1. IInv => DebtCovered
  BY DEF IInv
<1> QED BY <1>1, RetirementInvariant, PTL

\* Every load on the engine ring is applied within two quanta of being sent.
THEOREM LoadsAlwaysInReach == Spec => []LoadsInReach
<1>1. IInv => LoadsInReach
  BY DEF IInv
<1> QED BY <1>1, RetirementInvariant, PTL

(***************************************************************************)
(* 3. The order of the commands                                            *)
(*                                                                         *)
(* What waits to be applied, held, queued and still to be pushed, is one   *)
(* line (Waiting).  The control side appends to it, drain_commands takes its*)
(* head: the numbers in it increase, above the last one applied.           *)
(***************************************************************************)

-----------------------------------------------------------------------------
(* Counting in a queue *)

\* The places of a queue where one of the operations is, and how many there are.
Places(queue, ops) == {i \in 1 .. Len(queue) : queue[i].op \in ops}
Tally(queue, ops) == Cardinality(Places(queue, ops))

\* The places are finitely many, no more than the queue is long.
LEMMA TallyNat ==
    ASSUME NEW S, NEW q \in Seq(S), NEW ops
    PROVE  /\ IsFiniteSet(Places(q, ops)) /\ Tally(q, ops) \in Nat
           /\ Tally(q, ops) = Cardinality(Places(q, ops))
           /\ Tally(q, ops) <= Len(q)
<1>1. IsFiniteSet(1 .. Len(q))
  BY FS_Interval, LenProperties
<1>2. Places(q, ops) \in SUBSET (1 .. Len(q))
  BY DEF Places
<1>3. IsFiniteSet(Places(q, ops))
  BY <1>1, <1>2, FS_Subset
<1>4. Cardinality(Places(q, ops)) \in Nat
  BY <1>3, FS_CardinalityType
<1>5. Len(q) \in Nat
  BY LenProperties
<1>6. Cardinality(1 .. Len(q)) = Len(q)
  <2> DEFINE n == Len(q)
  <2>1. n \in Nat /\ 1 \in Int /\ n \in Int
    BY <1>5
  <2> HIDE DEF n
  <2>2. Cardinality(1 .. n) = IF 1 > n THEN 0 ELSE n - 1 + 1
    BY <2>1, FS_Interval
  <2>3. Cardinality(1 .. n) = n
    BY <2>1, <2>2
  <2> QED BY <2>3 DEF n
<1>7. Cardinality(Places(q, ops)) <= Cardinality(1 .. Len(q))
  BY <1>1, <1>2, FS_Subset
<1> QED BY <1>3, <1>4, <1>6, <1>7 DEF Tally

\* What two queues hold, one behind the other.
LEMMA TallyConcat ==
    ASSUME NEW S, NEW q \in Seq(S), NEW r \in Seq(S), NEW ops
    PROVE  Tally(q \o r, ops) = Tally(q, ops) + Tally(r, ops)
<1> DEFINE A == Places(q, ops)
           B == Places(r, ops)
           moved == [i \in B |-> i + Len(q)]
           C == {i + Len(q) : i \in B}
<1>1. /\ q \o r \in Seq(S) /\ Len(q \o r) = Len(q) + Len(r)
      /\ \A i \in 1 .. Len(q) + Len(r) :
            (q \o r)[i] = IF i <= Len(q) THEN q[i] ELSE r[i - Len(q)]
      /\ Len(q) \in Nat /\ Len(r) \in Nat
  BY ConcatProperties, LenProperties
<1>2. Places(q \o r, ops) = A \cup C
  <2>1. ASSUME NEW i \in Places(q \o r, ops) PROVE i \in A \cup C
    <3>1. i \in 1 .. Len(q) + Len(r) /\ (q \o r)[i].op \in ops
      BY <1>1, <2>1 DEF Places
    <3>2. CASE i <= Len(q)
      BY <1>1, <3>1, <3>2 DEF Places
    <3>3. CASE ~(i <= Len(q))
      <4>1. i - Len(q) \in B /\ i = (i - Len(q)) + Len(q)
        BY <1>1, <3>1, <3>3 DEF Places
      <4> QED BY <4>1
    <3> QED BY <3>2, <3>3
  <2>2. ASSUME NEW i \in A PROVE i \in Places(q \o r, ops)
    BY <1>1, <2>2 DEF Places
  <2>3. ASSUME NEW i \in B PROVE i + Len(q) \in Places(q \o r, ops)
    <3>1. i \in 1 .. Len(r) /\ r[i].op \in ops /\ (i + Len(q)) - Len(q) = i
      BY <1>1, <2>3 DEF Places
    <3>2. (q \o r)[i + Len(q)] = r[i]
      BY <1>1, <3>1
    <3> QED BY <1>1, <3>1, <3>2 DEF Places
  <2> QED BY <2>1, <2>2, <2>3
<1>3. A \cap C = {}
  BY <1>1 DEF Places
<1>4. IsFiniteSet(A) /\ IsFiniteSet(B)
  BY TallyNat
<1>5. IsFiniteSet(C) /\ Cardinality(C) = Cardinality(B)
  <2>1. moved \in [B -> C] /\ \A t \in C : \E s \in B : moved[s] = t
    OBVIOUS
  <2>2. IsInjective(moved)
    <3>1. \A i \in B : i \in Nat
      BY <1>1 DEF Places
    <3> QED BY <1>1, <3>1 DEF IsInjective
  <2>3. moved \in Bijection(B, C)
    BY <2>1, <2>2 DEF Bijection, Injection, Surjection
  <2> QED BY <1>4, <2>3, FS_Bijection DEF ExistsBijection
<1>6. Cardinality(A \cup C) = Cardinality(A) + Cardinality(C)
  <2> HIDE DEF A, C
  <2>1. /\ Cardinality(A \cup C) = Cardinality(A) + Cardinality(C) - Cardinality(A \cap C)
        /\ Cardinality(A) \in Nat /\ Cardinality(C) \in Nat
    BY <1>4, <1>5, FS_Union, FS_CardinalityType
  <2>2. Cardinality(A \cap C) = 0
    BY <1>3, FS_EmptySet
  <2> QED BY <2>1, <2>2
<1>7. Tally(q \o r, ops) = Cardinality(A \cup C)
  BY <1>1, <1>2, TallyNat
<1> QED BY <1>5, <1>6, <1>7, TallyNat

\* One command counts for its own operation.
LEMMA TallyOne ==
    ASSUME NEW S, NEW c \in S, NEW ops
    PROVE  Tally(<<c>>, ops) = IF c.op \in ops THEN 1 ELSE 0
<1>1. Places(<<c>>, ops) = IF c.op \in ops THEN {1} ELSE {}
  BY DEF Places
<1>2. Tally(<<c>>, ops) = Cardinality(Places(<<c>>, ops))
  BY DEF Tally, Places
<1> QED BY <1>1, <1>2, FS_Singleton, FS_EmptySet

\* Nothing waits in an empty queue.
LEMMA TallyNone ==
    ASSUME NEW ops
    PROVE  Tally(<<>>, ops) = 0
BY FS_EmptySet, EmptySeq DEF Tally, Places

\* The head of a queue, and the rest.
LEMMA TallyHead ==
    ASSUME NEW S, NEW q \in Seq(S), q # <<>>, NEW ops
    PROVE  Tally(q, ops) = Tally(Tail(q), ops) + (IF Head(q).op \in ops THEN 1 ELSE 0)
<1>1. Head(q) \in S /\ Tail(q) \in Seq(S) /\ <<Head(q)>> \in Seq(S)
  BY HeadTailProperties
<1>2. q = <<Head(q)>> \o Tail(q)
  BY <1>1
<1>3. Tally(q, ops) = Tally(<<Head(q)>>, ops) + Tally(Tail(q), ops)
  BY <1>1, <1>2, TallyConcat
<1>4. Tally(Tail(q), ops) \in Nat
  BY <1>1, TallyNat
<1> QED BY <1>1, <1>3, <1>4, TallyOne

\* Count is the tally of one operation.
LEMMA CountTally == \A q, op : Count(q, op) = Tally(q, {op})
<1> TAKE q, op
<1>1. {i \in 1 .. Len(q) : q[i].op = op} = Places(q, {op})
  BY DEF Places
<1> QED BY <1>1 DEF Count, Tally

\* The same facts for the count of one operation that the model uses.
LEMMA CountNat ==
    ASSUME NEW S, NEW q \in Seq(S), NEW op
    PROVE  Count(q, op) \in Nat
BY CountTally, TallyNat

\* Counts of two queues, one behind the other, add up.
LEMMA CountConcat ==
    ASSUME NEW S, NEW q \in Seq(S), NEW r \in Seq(S), NEW op
    PROVE  Count(q \o r, op) = Count(q, op) + Count(r, op)
BY CountTally, TallyConcat

\* A queue of one counts its command.
LEMMA CountOne ==
    ASSUME NEW S, NEW c \in S, NEW op
    PROVE  Count(<<c>>, op) = IF c.op = op THEN 1 ELSE 0
<1>1. Count(<<c>>, op) = Tally(<<c>>, {op})
  BY CountTally
<1> QED BY <1>1, TallyOne

\* An empty queue counts nothing.
LEMMA CountNone ==
    ASSUME NEW op
    PROVE  Count(<<>>, op) = 0
BY CountTally, TallyNone

\* The count of a queue is that of its head and that of the rest.
LEMMA CountHead ==
    ASSUME NEW S, NEW q \in Seq(S), q # <<>>, NEW op
    PROVE  Count(q, op) = Count(Tail(q), op) + (IF Head(q).op = op THEN 1 ELSE 0)
<1>1. Tally(q, {op}) = Tally(Tail(q), {op}) + (IF Head(q).op \in {op} THEN 1 ELSE 0)
  BY TallyHead
<1> QED BY <1>1, CountTally

-----------------------------------------------------------------------------
(* The line of commands that wait *)

\* What waits is a sequence of commands.
LEMMA WaitingType ==
    ASSUME TypeOK
    PROVE  /\ Waiting \in Seq(HostCommand)
           /\ held \in Seq(HostCommand) /\ commands \in Seq(HostCommand)
           /\ todo \in Seq(HostCommand)
           /\ Waiting = held \o (commands \o todo)
<1>1. /\ held \in Seq(HostCommand) /\ commands \in Seq(HostCommand)
      /\ todo \in Seq(HostCommand)
  BY DEF TypeOK
<1> QED BY <1>1, ConcatProperties, ConcatAssociative DEF Waiting

\* A queue is its head and the rest; taking the head off leaves the rest.
LEMMA HeadFirst ==
    ASSUME NEW S, NEW q \in Seq(S)
    PROVE  /\ q # <<>> => q = <<Head(q)>> \o Tail(q)
           /\ \A c \in S : /\ <<c>> \o q \in Seq(S) /\ <<c>> \o q # <<>>
                           /\ Head(<<c>> \o q) = c /\ Tail(<<c>> \o q) = q
<1>1. ASSUME q # <<>> PROVE q = <<Head(q)>> \o Tail(q)
  BY <1>1
<1>2. ASSUME NEW c \in S
      PROVE  /\ <<c>> \o q \in Seq(S) /\ <<c>> \o q # <<>>
             /\ Head(<<c>> \o q) = c /\ Tail(<<c>> \o q) = q
  OBVIOUS
<1> QED BY <1>1, <1>2

\* A queue of one.
LEMMA OnlyOne ==
    ASSUME NEW S, NEW q \in Seq(S), Len(q) = 1
    PROVE  q = <<Head(q)>> /\ Head(q) \in S
<1>1. q # <<>>
  BY EmptySeq
<1>2. Head(q) \in S /\ Tail(q) \in Seq(S) /\ Len(Tail(q)) = 0
  BY <1>1, HeadTailProperties
<1>3. Tail(q) = <<>>
  <2>1. Tail(q) # <<>> => Len(Tail(q)) \in Nat \ {0}
    BY <1>2, EmptySeq
  <2> QED BY <1>2, <2>1
<1>4. q = <<Head(q)>> \o <<>> /\ <<Head(q)>> \in Seq(S)
  BY <1>1, <1>2, <1>3, HeadFirst
<1> QED BY <1>2, <1>4, ConcatEmptySeq

\* drain_commands takes from the front of the line: a command put back keeps its place.
LEMMA TakenFromTheFront ==
    ASSUME TypeOK, AnyUpcoming, Take, todo' = todo
    PROVE  /\ Waiting # <<>> /\ Upcoming = Head(Waiting)
           /\ held' = <<Upcoming>> => Waiting' = Waiting
           /\ held' = (IF FromHeld THEN <<>> ELSE held) => Waiting' = Tail(Waiting)
<1> DEFINE rest == (IF FromHeld THEN commands ELSE Tail(commands)) \o todo
<1>0. /\ held \in Seq(HostCommand) /\ commands \in Seq(HostCommand)
      /\ todo \in Seq(HostCommand)
  BY WaitingType
<1>1. /\ Upcoming \in HostCommand
      /\ rest \in Seq(HostCommand)
      /\ commands' \o todo' = rest
      /\ Waiting = <<Upcoming>> \o rest
      /\ ~FromHeld => held = <<>>
  <2>1. CASE FromHeld
    <3>1. held # <<>> /\ Len(held) = 1
      <4>1. held # <<>>
        BY <2>1 DEF FromHeld
      <4>2. Len(held) <= 1
        BY DEF TypeOK
      <4>3. Len(held) \in Nat \ {0}
        BY <1>0, <4>1, EmptySeq
      <4>4. Len(held) = 1
        BY <4>2, <4>3
      <4> QED BY <4>1, <4>4
    <3>2. held = <<Head(held)>> /\ Head(held) \in HostCommand
      BY <1>0, <3>1, OnlyOne
    <3>3. Waiting = held \o (commands \o todo)
      BY WaitingType
    <3>4. Upcoming = Head(held) /\ commands' = commands /\ rest = commands \o todo
      BY <2>1 DEF Upcoming, Take
    <3>5. rest \in Seq(HostCommand)
      BY <1>0, <3>4, ConcatProperties
    <3> QED BY <2>1, <3>2, <3>3, <3>4, <3>5
  <2>2. CASE ~FromHeld
    <3>1. held = <<>> /\ commands # <<>>
      BY <2>2 DEF FromHeld, AnyUpcoming
    <3>2. /\ commands = <<Head(commands)>> \o Tail(commands)
          /\ Head(commands) \in HostCommand /\ Tail(commands) \in Seq(HostCommand)
      BY <1>0, <3>1, HeadFirst, HeadTailProperties
    <3>3. Waiting = commands \o todo
      BY <1>0, <3>1, ConcatEmptySeq DEF Waiting
    <3>4. <<Head(commands)>> \in Seq(HostCommand)
      BY <3>2
    <3>5. (<<Head(commands)>> \o Tail(commands)) \o todo
             = <<Head(commands)>> \o (Tail(commands) \o todo)
      BY <1>0, <3>2, <3>4, ConcatAssociative
    <3>6. /\ Upcoming = Head(commands) /\ commands' = Tail(commands)
          /\ rest = Tail(commands) \o todo
      BY <2>2 DEF Upcoming, Take
    <3> QED BY <1>0, <3>1, <3>2, <3>3, <3>5, <3>6, ConcatProperties
  <2> QED BY <2>1, <2>2
<1> HIDE DEF rest
<1>2. Waiting # <<>> /\ Head(Waiting) = Upcoming /\ Tail(Waiting) = rest
  BY <1>1, HeadFirst
<1>3. ASSUME held' = <<Upcoming>> PROVE Waiting' = Waiting
  <2>1. /\ <<Upcoming>> \in Seq(HostCommand)
        /\ commands' \in Seq(HostCommand) /\ todo' \in Seq(HostCommand)
    BY <1>0, <1>1, TakeUpcoming
  <2>2. Waiting' = (<<Upcoming>> \o commands') \o todo'
    BY <1>3 DEF Waiting
  <2>3. (<<Upcoming>> \o commands') \o todo' = <<Upcoming>> \o (commands' \o todo')
    BY <2>1, ConcatAssociative
  <2> QED BY <1>1, <2>2, <2>3
<1>4. ASSUME held' = (IF FromHeld THEN <<>> ELSE held) PROVE Waiting' = Tail(Waiting)
  <2>1. held' = <<>> /\ commands' \in Seq(HostCommand)
    BY <1>1, <1>4, TakeUpcoming
  <2>2. Waiting' = (<<>> \o commands') \o todo'
    BY <2>1 DEF Waiting
  <2> QED BY <1>1, <1>2, <2>1, <2>2, ConcatEmptySeq
<1> QED BY <1>2, <1>3, <1>4

\* A step of the control side puts commands at the end of the line, numbered from the
\* last one that was issued, or none.
Issues(group) ==
    /\ group \in Seq(HostCommand)
    /\ Waiting' = Waiting \o group
    /\ issued' = issued + Len(group)
    /\ \A i \in 1 .. Len(group) : group[i].n = issued + i

\* A command that is queued is issued alone, with the next number.
LEMMA QueuedLast ==
    ASSUME TypeOK, todo = <<>>, todo' = todo, held' = held,
           NEW op, NEW id, NEW act, NEW mark,
           Command(op, id, act, mark, issued + 1) \in HostCommand,
           Queue(op, id, act, mark)
    PROVE  Issues(<<Command(op, id, act, mark, issued + 1)>>)
<1> DEFINE c == Command(op, id, act, mark, issued + 1)
<1>1. c \in HostCommand /\ c.n = issued + 1
  BY DEF Command
<1>2. /\ commands' = Append(commands, c) /\ issued' = issued + 1
      /\ commands \in Seq(HostCommand) /\ held \in Seq(HostCommand)
  BY DEF Queue, TypeOK
<1> HIDE DEF c
<1>3. <<c>> \in Seq(HostCommand) /\ Len(<<c>>) = 1 /\ <<c>>[1] = c
  BY <1>1
<1>4. commands' = commands \o <<c>> /\ commands' \in Seq(HostCommand)
  BY <1>1, <1>2, AppendIsConcat, AppendProperties
<1>5. Waiting = held \o commands /\ Waiting' = held \o commands'
  <2>1. held \o commands \in Seq(HostCommand) /\ held \o commands' \in Seq(HostCommand)
    BY <1>2, <1>4, ConcatProperties
  <2> QED BY <2>1, ConcatEmptySeq DEF Waiting
<1>6. Waiting' = Waiting \o <<c>>
  BY <1>2, <1>3, <1>4, <1>5, ConcatAssociative
<1> QED BY <1>1, <1>2, <1>3, <1>6 DEF Issues, c

\* Three places behind a load that keeps the transport comes the restore of its build, and
\* no load before it.
RestoreFollows(line, i) ==
    /\ i + 3 <= Len(line)
    /\ line[i + 1].op # "Load" /\ line[i + 2].op # "Load"
    /\ line[i + 3].op = "Restore" /\ line[i + 3].id = line[i].id
    /\ line[i + 3].mark = 0 /\ line[i + 3].act \in States

\* The commands the audio side sends one engine command for, and how many of them there are.
Sending == {"Interactive", "Browser", "Restore", "Engine"}
Weight(queue) == Tally(queue, Sending)

\* What a step of the control side adds to them was admitted, or comes with a replacement.
Weighed(group) ==
    \/ Weight(group) = 0
    \/ Weight(group) = 1 /\ Admitted /\ todo = <<>> /\ build' = build
    \/ Weight(group) \in {1, 2} /\ MayReplace /\ todo = <<>> /\ build' = build + 1

\* What a step of the control side leaves behind: the values it has made are on their
\* way, a load is of the next build, and a release bears the epoch of its time.
Made(group) ==
    /\ allocated' = allocated + 2 * Count(group, "Load") + Count(group, "Selections")
    /\ \A i \in 1 .. Len(group) :
         /\ group[i].op = "Load" => /\ i = 1 /\ group[i].id = build + 1 /\ build' = build + 1
                                    /\ group[i].act = "keep" =>
                                          RestoreFollows(group, i) /\ "replace" \in Ops
         /\ group[i].op \in {"Browser", "Restore"} => group[i].mark \in {0, epoch}
    /\ Weighed(group)
    /\ Len(group) > 0 => epoch' = epoch /\ cancelledAt' = cancelledAt
    /\ build' \in {build, build + 1}

\* A command that is neither a load nor a selection table has nothing to give back.
LEMMA OneMade ==
    ASSUME TypeOK, NEW c \in HostCommand, c.op \notin {"Load", "Selections"},
           allocated' = allocated, epoch' = epoch, cancelledAt' = cancelledAt, build' = build,
           c.op \in {"Browser", "Restore"} => c.mark \in {0, epoch},
           c.op \in Sending => Admitted /\ todo = <<>>
    PROVE  Made(<<c>>)
<1>1. Count(<<c>>, "Load") = 0 /\ Count(<<c>>, "Selections") = 0
  BY CountOne
<1>2. Len(<<c>>) = 1 /\ <<c>>[1] = c
  OBVIOUS
<1>3. allocated \in Nat
  BY DEF TypeOK
<1>4. Weight(<<c>>) = IF c.op \in Sending THEN 1 ELSE 0
  BY TallyOne DEF Weight
<1>5. Weighed(<<c>>)
  BY <1>4 DEF Weighed
<1> QED BY <1>1, <1>2, <1>3, <1>5 DEF Made

\* A step that issues nothing.
LEMMA NothingIssued ==
    ASSUME TypeOK, Waiting' = Waiting, issued' = issued, allocated' = allocated,
           build' = build
    PROVE  Issues(<<>>) /\ Made(<<>>)
<1>1. Waiting = Waiting \o <<>> /\ <<>> \in Seq(HostCommand) /\ Len(<<>>) = 0
  BY WaitingType, ConcatEmptySeq, EmptySeq
<1>2. issued \in Nat /\ allocated \in Nat
  BY DEF TypeOK
<1>3. Weighed(<<>>)
  BY TallyNone DEF Weighed, Weight
<1> QED BY <1>1, <1>2, <1>3, CountNone DEF Issues, Made

\* A queue of two or of three is its commands, one behind the other.
LEMMA Spelled ==
    ASSUME NEW S, NEW a \in S, NEW b \in S, NEW c \in S
    PROVE  /\ <<a, b>> = <<a>> \o <<b>> /\ <<a, b, c>> = <<a, b>> \o <<c>>
<1>1. /\ <<a>> \in Seq(S) /\ <<b>> \in Seq(S) /\ <<c>> \in Seq(S)
      /\ <<a, b>> \in Seq(S) /\ <<a, b, c>> \in Seq(S)
      /\ Len(<<a, b>>) = 2 /\ Len(<<a, b, c>>) = 3
  OBVIOUS
<1>2. <<a, b>>[1] = a /\ <<a, b>>[2] = b
  OBVIOUS
<1>3. <<a, b, c>>[1] = a /\ <<a, b, c>>[2] = b /\ <<a, b, c>>[3] = c
  OBVIOUS
<1>4. <<a, b>> = <<a>> \o <<b>>
  <2>1. /\ <<a>> \o <<b>> \in Seq(S) /\ Len(<<a>>) = 1 /\ Len(<<b>>) = 1
        /\ Len(<<a>> \o <<b>>) = Len(<<a>>) + Len(<<b>>)
        /\ \A i \in 1 .. Len(<<a>>) + Len(<<b>>) : (<<a>> \o <<b>>)[i] =
               IF i <= Len(<<a>>) THEN <<a>>[i] ELSE <<b>>[i - Len(<<a>>)]
        /\ <<a>>[1] = a /\ <<b>>[1] = b
    BY <1>1, ConcatProperties
  <2>2. (<<a>> \o <<b>>)[1] = a /\ (<<a>> \o <<b>>)[2] = b
    BY <2>1
  <2>3. \A i \in 1 .. Len(<<a, b>>) : i = 1 \/ i = 2
    BY <1>1
  <2>4. Len(<<a, b>>) = Len(<<a>> \o <<b>>)
    BY <1>1, <2>1
  <2>5. \A i \in 1 .. Len(<<a, b>>) : <<a, b>>[i] = (<<a>> \o <<b>>)[i]
    BY <1>2, <2>2, <2>3
  <2> QED BY <1>1, <2>1, <2>4, <2>5, SeqEqual
<1>5. <<a, b, c>> = <<a, b>> \o <<c>>
  <2>1. /\ <<a, b>> \o <<c>> \in Seq(S) /\ Len(<<c>>) = 1
        /\ Len(<<a, b>> \o <<c>>) = Len(<<a, b>>) + Len(<<c>>)
        /\ \A i \in 1 .. Len(<<a, b>>) + Len(<<c>>) : (<<a, b>> \o <<c>>)[i] =
               IF i <= Len(<<a, b>>) THEN <<a, b>>[i] ELSE <<c>>[i - Len(<<a, b>>)]
        /\ <<c>>[1] = c
    BY <1>1, ConcatProperties
  <2>2. /\ (<<a, b>> \o <<c>>)[1] = a /\ (<<a, b>> \o <<c>>)[2] = b
        /\ (<<a, b>> \o <<c>>)[3] = c
    BY <1>1, <1>2, <2>1
  <2>3. \A i \in 1 .. Len(<<a, b, c>>) : i = 1 \/ i = 2 \/ i = 3
    BY <1>1
  <2>4. Len(<<a, b, c>>) = Len(<<a, b>> \o <<c>>)
    BY <1>1, <2>1
  <2>5. \A i \in 1 .. Len(<<a, b, c>>) : <<a, b, c>>[i] = (<<a, b>> \o <<c>>)[i]
    BY <1>3, <2>2, <2>3
  <2> QED BY <1>1, <2>1, <2>4, <2>5, SeqEqual
<1> QED BY <1>4, <1>5

\* Queues of two and of three.
LEMMA TwoOrThree ==
    ASSUME NEW S, NEW a \in S, NEW b \in S, NEW c \in S, NEW op
    PROVE  /\ <<a, b>> \in Seq(S) /\ Len(<<a, b>>) = 2 /\ <<a, b>>[1] = a /\ <<a, b>>[2] = b
           /\ <<a, b, c>> \in Seq(S) /\ Len(<<a, b, c>>) = 3
           /\ <<a, b, c>>[1] = a /\ <<a, b, c>>[2] = b /\ <<a, b, c>>[3] = c
           /\ <<a, b>> \o <<>> = <<a, b>> /\ <<a, b>> \o <<c>> = <<a, b, c>>
           /\ Count(<<a, b>>, op) = Count(<<a>>, op) + Count(<<b>>, op)
           /\ Count(<<a, b, c>>, op) = Count(<<a>>, op) + Count(<<b>>, op) + Count(<<c>>, op)
<1>1. /\ <<a>> \in Seq(S) /\ <<b>> \in Seq(S) /\ <<c>> \in Seq(S)
      /\ <<a, b>> \in Seq(S) /\ <<a, b, c>> \in Seq(S)
      /\ Len(<<a, b>>) = 2 /\ Len(<<a, b, c>>) = 3
  OBVIOUS
<1>2. <<a, b>>[1] = a /\ <<a, b>>[2] = b
  OBVIOUS
<1>3. <<a, b, c>>[1] = a /\ <<a, b, c>>[2] = b /\ <<a, b, c>>[3] = c
  OBVIOUS
<1>4. <<a, b>> = <<a>> \o <<b>>
  BY Spelled, Zenon
<1>5. <<a, b, c>> = <<a, b>> \o <<c>>
  BY Spelled
<1>6. <<a, b>> \o <<>> = <<a, b>>
  BY <1>1, ConcatEmptySeq
<1>7. Count(<<a, b>>, op) = Count(<<a>>, op) + Count(<<b>>, op)
  <2>1. Count(<<a>> \o <<b>>, op) = Count(<<a>>, op) + Count(<<b>>, op)
    BY <1>1, CountConcat, Zenon
  <2> QED BY <1>4, <2>1, Zenon
<1>8. Count(<<a, b, c>>, op) = Count(<<a, b>>, op) + Count(<<c>>, op)
  <2>1. Count(<<a, b>> \o <<c>>, op) = Count(<<a, b>>, op) + Count(<<c>>, op)
    BY <1>1, CountConcat, Zenon
  <2> QED BY <1>5, <2>1, Zenon
<1> QED BY <1>1, <1>2, <1>3, <1>5, <1>6, <1>7, <1>8

\* The weight of two and of three commands.
LEMMA WeightOfThree ==
    ASSUME NEW a \in HostCommand, NEW b \in HostCommand, NEW c \in HostCommand
    PROVE  /\ Weight(<<a, b>>) = Weight(<<a>>) + Weight(<<b>>)
           /\ Weight(<<a, b, c>>) = Weight(<<a, b>>) + Weight(<<c>>)
<1>1. /\ <<a>> \in Seq(HostCommand) /\ <<b>> \in Seq(HostCommand)
      /\ <<c>> \in Seq(HostCommand) /\ <<a, b>> \in Seq(HostCommand)
  OBVIOUS
<1>2. <<a, b>> = <<a>> \o <<b>>
  BY Spelled, Zenon
<1>6. <<a, b, c>> = <<a, b>> \o <<c>>
  BY Spelled
<1>3. \A q, r \in Seq(HostCommand) : Weight(q \o r) = Weight(q) + Weight(r)
  BY TallyConcat DEF Weight
<1>4. Weight(<<a>> \o <<b>>) = Weight(<<a>>) + Weight(<<b>>)
  BY <1>1, <1>3, Zenon
<1>5. Weight(<<a, b>> \o <<c>>) = Weight(<<a, b>>) + Weight(<<c>>)
  BY <1>1, <1>3, Zenon
<1> QED BY <1>2, <1>4, <1>5, <1>6, Zenon

\* load_replacement_inner queues the load and keeps the rest for the pushes that follow.
LEMMA ReplacementIssued ==
    ASSUME TypeOK, NEW defer \in BOOLEAN, NEW state \in States, LoadReplacement(defer, state)
    PROVE  \E group : Issues(group) /\ Made(group)
<1> DEFINE load == Command("Load", build + 1, IF defer THEN "hold" ELSE "keep", 0, issued + 1)
           rest == ReplacementTail(build + 1, defer, state)
           table == Command("Selections", build + 1, "edit", 0, issued + 2)
           edit == Command("Interactive", build + 1, "edit", 0, issued + 3)
           restore == Command("Restore", build + 1, state, 0, issued + 4)
<1>0. /\ build \in Nat /\ issued \in Nat /\ allocated \in Nat /\ "edit" \in States \cup {"edit"}
      /\ build + 1 \in Nat /\ issued + 1 \in Nat /\ issued + 2 \in Nat
      /\ issued + 3 \in Nat /\ issued + 4 \in Nat
  BY DEF TypeOK
<1>1. /\ load \in HostCommand /\ table \in HostCommand /\ edit \in HostCommand
      /\ restore \in HostCommand
  BY <1>0, CommandTypes
<1>2. /\ load.op = "Load" /\ load.id = build + 1 /\ load.n = issued + 1
      /\ load.act = (IF defer THEN "hold" ELSE "keep")
      /\ restore.id = build + 1 /\ restore.act = state
      /\ table.op = "Selections" /\ table.n = issued + 2
      /\ edit.op = "Interactive" /\ edit.n = issued + 3
      /\ restore.op = "Restore" /\ restore.mark = 0 /\ restore.n = issued + 4
  BY DEF Command
<1>3. rest = IF defer THEN <<table, edit>> ELSE <<table, edit, restore>>
  <2>1. rest = <<table, edit>> \o (IF defer THEN <<>> ELSE <<restore>>)
    BY DEF ReplacementTail
  <2> HIDE DEF load, rest, table, edit, restore
  <2> QED BY <1>1, <2>1, TwoOrThree
<1> HIDE DEF load, rest, table, edit, restore
<1>4. /\ rest \in Seq(HostCommand) /\ <<load>> \in Seq(HostCommand)
      /\ Len(rest) = (IF defer THEN 2 ELSE 3) /\ Len(<<load>>) = 1 /\ <<load>>[1] = load
      /\ rest[1] = table /\ rest[2] = edit /\ (~defer => rest[3] = restore)
  <2>1. <<load>> \in Seq(HostCommand) /\ Len(<<load>>) = 1 /\ <<load>>[1] = load
    BY <1>1
  <2>2. /\ rest \in Seq(HostCommand) /\ Len(rest) = (IF defer THEN 2 ELSE 3)
        /\ rest[1] = table /\ rest[2] = edit /\ (~defer => rest[3] = restore)
    BY <1>1, <1>3, TwoOrThree
  <2> QED BY <2>1, <2>2
<1> DEFINE group == <<load>> \o rest
<1>5. /\ group \in Seq(HostCommand) /\ Len(group) = 1 + Len(rest)
      /\ group[1] = load /\ group[2] = table /\ group[3] = edit
      /\ Len(rest) > 2 => group[4] = restore
  <2>1. /\ group \in Seq(HostCommand) /\ Len(group) = 1 + Len(rest)
        /\ \A i \in 1 .. 1 + Len(rest) : group[i] = IF i <= 1 THEN <<load>>[i] ELSE rest[i - 1]
    BY <1>4, ConcatProperties
  <2> HIDE DEF group
  <2>2. group[1] = load
    BY <1>4, <2>1
  <2>3. group[2] = rest[1] /\ group[3] = rest[2] /\ (Len(rest) > 2 => group[4] = rest[3])
    <3>1. 2 \in 1 .. 1 + Len(rest) /\ 3 \in 1 .. 1 + Len(rest)
          /\ (Len(rest) > 2 => 4 \in 1 .. 1 + Len(rest))
      BY <1>4
    <3> QED BY <2>1, <3>1
  <2> QED BY <1>4, <2>1, <2>2, <2>3
<1>6. /\ commands' = Append(commands, load) /\ todo' = rest /\ todo = <<>>
      /\ issued' = issued + 1 + Len(rest) /\ held' = held
      /\ allocated' = allocated + 3 /\ build' = build + 1
      /\ epoch' = epoch /\ cancelledAt' = cancelledAt
  BY DEF LoadReplacement, ControlMayRun, AudioUnchanged, hostVars, load, rest
<1>7. Waiting' = Waiting \o group
  <2>1. /\ commands \in Seq(HostCommand) /\ held \in Seq(HostCommand)
        /\ held \o commands \in Seq(HostCommand)
    BY WaitingType, ConcatProperties
  <2>2. commands' = commands \o <<load>>
    BY <1>1, <1>6, <2>1, AppendIsConcat
  <2>3. Waiting = held \o commands
    BY <1>6, <2>1, ConcatEmptySeq DEF Waiting
  <2>4. Waiting' = (held \o (commands \o <<load>>)) \o rest
    BY <1>6, <2>2 DEF Waiting
  <2>5. held \o (commands \o <<load>>) = Waiting \o <<load>>
    BY <1>4, <2>1, <2>3, ConcatAssociative
  <2>6. (Waiting \o <<load>>) \o rest = Waiting \o group
    <3>1. Waiting \in Seq(HostCommand) /\ <<load>> \in Seq(HostCommand)
          /\ rest \in Seq(HostCommand)
      BY <1>4, WaitingType
    <3> QED BY <3>1, ConcatAssociative
  <2> QED BY <2>4, <2>5, <2>6
<1>8. Issues(group)
  <2> HIDE DEF group
  <2>1. \A i \in 1 .. Len(group) : i = 1 \/ i = 2 \/ i = 3 \/ (i = 4 /\ Len(rest) > 2)
    BY <1>4, <1>5
  <2>2. \A i \in 1 .. Len(group) : group[i].n = issued + i
    BY <1>2, <1>5, <2>1
  <2>3. issued' = issued + Len(group)
    BY <1>0, <1>4, <1>5, <1>6
  <2> QED BY <1>5, <1>7, <2>2, <2>3 DEF Issues
<1>9. Made(group)
  <2>1. \A op : Count(group, op) = Count(<<load>>, op) + Count(rest, op)
    BY <1>4, CountConcat
  <2>2. /\ Count(<<load>>, "Load") = 1 /\ Count(<<load>>, "Selections") = 0
        /\ Count(<<table>>, "Load") = 0 /\ Count(<<table>>, "Selections") = 1
        /\ Count(<<edit>>, "Load") = 0 /\ Count(<<edit>>, "Selections") = 0
        /\ Count(<<restore>>, "Load") = 0 /\ Count(<<restore>>, "Selections") = 0
    BY <1>1, <1>2, CountOne
  <2>3. \A op : Count(rest, op) = Count(<<table>>, op) + Count(<<edit>>, op)
                                  + (IF defer THEN 0 ELSE Count(<<restore>>, op))
    <3> TAKE op
    <3>1. Count(<<table>>, op) \in Nat /\ Count(<<edit>>, op) \in Nat
      <4>1. <<table>> \in Seq(HostCommand) /\ <<edit>> \in Seq(HostCommand)
        BY <1>1
      <4> QED BY <4>1, CountNat
    <3> QED BY <1>1, <1>3, <3>1, TwoOrThree
  <2>4. Count(group, "Load") = 1 /\ Count(group, "Selections") = 1
    <3>1. Count(rest, "Load") = 0 /\ Count(rest, "Selections") = 1
      <4>1. /\ Count(rest, "Load") = Count(<<table>>, "Load") + Count(<<edit>>, "Load")
                                       + (IF defer THEN 0 ELSE Count(<<restore>>, "Load"))
            /\ Count(rest, "Selections")
                  = Count(<<table>>, "Selections") + Count(<<edit>>, "Selections")
                    + (IF defer THEN 0 ELSE Count(<<restore>>, "Selections"))
        BY <2>3
      <4> QED BY <2>2, <4>1
    <3>2. /\ Count(group, "Load") = Count(<<load>>, "Load") + Count(rest, "Load")
          /\ Count(group, "Selections") = Count(<<load>>, "Selections") + Count(rest, "Selections")
      BY <2>1
    <3> QED BY <2>2, <3>1, <3>2
  <2>5. \A i \in 1 .. Len(group) : i = 1 \/ i = 2 \/ i = 3 \/ (i = 4 /\ Len(rest) > 2)
    BY <1>4, <1>5
  <2> HIDE DEF group
  <2>6. ASSUME NEW i \in 1 .. Len(group)
        PROVE  /\ group[i].op = "Load" => /\ i = 1 /\ group[i].id = build + 1 /\ build' = build + 1
                                          /\ group[i].act = "keep" =>
                                                RestoreFollows(group, i) /\ "replace" \in Ops
               /\ group[i].op \in {"Browser", "Restore"} => group[i].mark \in {0, epoch}
    <3>1. CASE i = 1
      <4>1. group[i] = load
        BY <1>5, <3>1
      <4>2. load.act = "keep" => ~defer
        BY <1>2
      <4>3. ~defer => RestoreFollows(group, 1)
        <5>1. ~defer => Len(rest) > 2 /\ 1 + 3 <= Len(group)
          BY <1>4, <1>5
        <5>2. /\ group[1 + 1] = table /\ group[1 + 2] = edit
              /\ ~defer => group[1 + 3] = restore
          BY <1>5, <5>1
        <5> QED BY <1>2, <1>5, <5>1, <5>2 DEF RestoreFollows
      <4>4. load.act = "keep" => RestoreFollows(group, 1)
        BY <4>2, <4>3
      <4>5. load.op \notin {"Browser", "Restore"}
        BY <1>2
      <4>6. load.act = "keep" => RestoreFollows(group, i) /\ "replace" \in Ops
        BY <3>1, <4>4 DEF LoadReplacement
      <4> QED BY <1>2, <1>6, <3>1, <4>1, <4>5, <4>6
    <3>2. CASE i # 1
      BY <1>2, <1>5, <2>5, <3>2
    <3> QED BY <3>1, <3>2
  <2>7. allocated' = allocated + 2 * Count(group, "Load") + Count(group, "Selections")
    BY <1>0, <1>6, <2>4
  <2>8. Weighed(group)
    <3>1. /\ Weight(<<load>>) = 0 /\ Weight(<<table>>) = 0 /\ Weight(<<edit>>) = 1
          /\ Weight(<<restore>>) = 1
      BY <1>1, <1>2, TallyOne DEF Weight, Sending
    <3>2. /\ <<load>> \in Seq(HostCommand) /\ <<table>> \in Seq(HostCommand)
          /\ <<edit>> \in Seq(HostCommand) /\ <<restore>> \in Seq(HostCommand)
      BY <1>1
    <3>3. Weight(group) = Weight(rest)
      <4>1. Weight(group) = Weight(<<load>>) + Weight(rest) /\ Weight(rest) \in Nat
        BY <1>4, <3>2, TallyConcat, TallyNat DEF Weight, group
      <4> QED BY <3>1, <4>1
    <3>7. Weight(rest) \in {1, 2}
      <4>1. /\ Weight(<<table, edit>>) = Weight(<<table>>) + Weight(<<edit>>)
            /\ Weight(<<table, edit, restore>>) = Weight(<<table, edit>>) + Weight(<<restore>>)
        BY <1>1, WeightOfThree
      <4>2. Weight(<<table, edit>>) = 1 /\ Weight(<<table, edit, restore>>) = 2
        BY <3>1, <4>1
      <4> QED BY <1>3, <4>2
    <3> QED BY <1>6, <3>3, <3>7 DEF Weighed, LoadReplacement
  <2> QED BY <1>6, <2>6, <2>7, <2>8 DEF Made
<1> QED BY <1>8, <1>9

\* Every step of the control side issues a group of commands, or none.
LEMMA ControlIssues ==
    ASSUME TypeOK, Control
    PROVE  /\ \E group : Issues(group) /\ Made(group)
           /\ epoch' \in Nat /\ epoch' >= epoch
           /\ epoch' # epoch => epoch' = epoch + 1 /\ cancelledAt' = issued
           /\ epoch' = epoch => cancelledAt' = cancelledAt
           /\ retired' + collected' = retired + collected
           /\ UNCHANGED <<engineQ, garbage, module, freed, lastApplied>>
<1> USE DEF AudioUnchanged, engineVars, hostVars, quantumVars
<1>0. /\ build \in Nat /\ rejected \in Nat /\ issued \in Nat /\ epoch \in Nat
      /\ allocated \in Nat /\ retired \in Nat /\ collected \in Nat /\ build + 1 \in Nat
      /\ issued + 1 \in Nat /\ 0 \in Nat /\ "edit" \in States \cup {"edit"}
  BY CapacityAssumption DEF TypeOK
<1>1. ASSUME NEW op, NEW id, NEW act, NEW mark, Queue(op, id, act, mark), ControlMayRun,
             AudioUnchanged, todo' = todo,
             op \notin {"Load", "Selections"}, op \in {"Browser", "Restore"} => mark \in {0, epoch},
             Command(op, id, act, mark, issued + 1) \in HostCommand,
             UNCHANGED <<allocated, epoch, cancelledAt, build>>, op \in Sending => Admitted
      PROVE  \E group : Issues(group) /\ Made(group)
  <2> DEFINE c == Command(op, id, act, mark, issued + 1)
  <2>1. Issues(<<c>>)
    BY <1>1, QueuedLast DEF ControlMayRun
  <2>2. c.op = op /\ c.mark = mark
    BY DEF Command
  <2>3. Made(<<c>>)
    <3> HIDE DEF c
    <3>1. c \in HostCommand
      BY <1>1 DEF c
    <3> QED BY <1>1, <2>2, <3>1, OneMade DEF ControlMayRun
  <2> QED BY <2>1, <2>3
<1>2. ASSUME NEW act \in States, Transport(act) PROVE \E group : Issues(group) /\ Made(group)
  <2>1. Command("Interactive", build, act, 0, issued + 1) \in HostCommand
    BY <1>0, CommandTypes
  <2> QED BY <1>1, <1>2, <2>1 DEF Transport, Edited
<1>3. ASSUME NEW act \in States, FinishLoad(act) PROVE \E group : Issues(group) /\ Made(group)
  <2>1. Command("Browser", build, act, epoch, issued + 1) \in HostCommand
    BY <1>0, CommandTypes
  <2> QED BY <1>1, <1>3, <2>1 DEF FinishLoad, Edited, Admitted
<1>4. ASSUME NEW state \in States, FinishReplacement(state)
      PROVE  \E group : Issues(group) /\ Made(group)
  <2>1. Command("Restore", build, state, epoch, issued + 1) \in HostCommand
    BY <1>0, CommandTypes
  <2> QED BY <1>1, <1>4, <2>1 DEF FinishReplacement, Edited, Admitted
<1>5. ASSUME EngineEdit PROVE \E group : Issues(group) /\ Made(group)
  <2>1. Command("Engine", 0, "edit", 0, issued + 1) \in HostCommand
    BY <1>0, CommandTypes
  <2> QED BY <1>1, <1>5, <2>1 DEF EngineEdit, Edited
<1>6. ASSUME PlaybackBarrier PROVE \E group : Issues(group) /\ Made(group)
  <2>1. Command("Barrier", build, "edit", rejected, issued + 1) \in HostCommand
    BY <1>0, CommandTypes
  <2> QED BY <1>1, <1>6, <2>1 DEF PlaybackBarrier, Edited, Sending
<1>7. ASSUME LoadFresh PROVE \E group : Issues(group) /\ Made(group)
  <2> DEFINE c == Command("Load", build + 1, "fresh", 0, issued + 1)
  <2>1. c \in HostCommand
    BY <1>0, CommandTypes
  <2>2. Issues(<<c>>)
    BY <1>7, <2>1, QueuedLast DEF LoadFresh, ControlMayRun
  <2>3. c.op = "Load" /\ c.id = build + 1 /\ c.act = "fresh"
    BY DEF Command
  <2> HIDE DEF c
  <2>4. Count(<<c>>, "Load") = 1 /\ Count(<<c>>, "Selections") = 0
    BY <2>1, <2>3, CountOne
  <2>5. Len(<<c>>) = 1 /\ <<c>>[1] = c /\ \A i \in 1 .. Len(<<c>>) : i = 1
    OBVIOUS
  <2>7. Weighed(<<c>>)
    <3>1. Weight(<<c>>) = 0
      BY <2>1, <2>3, TallyOne DEF Weight, Sending
    <3> QED BY <3>1 DEF Weighed
  <2>6. Made(<<c>>)
    BY <1>0, <1>7, <2>3, <2>4, <2>5, <2>7 DEF Made, LoadFresh
  <2> QED BY <2>2, <2>6
<1>8. ASSUME ControlPush PROVE Waiting' = Waiting
  <2>1. /\ todo # <<>> /\ commands' = Append(commands, Head(todo)) /\ todo' = Tail(todo)
        /\ held' = held
    BY <1>8 DEF ControlPush
  <2>2. /\ todo = <<Head(todo)>> \o Tail(todo) /\ Head(todo) \in HostCommand
        /\ Tail(todo) \in Seq(HostCommand) /\ <<Head(todo)>> \in Seq(HostCommand)
        /\ held \in Seq(HostCommand) /\ commands \in Seq(HostCommand)
    BY <2>1, WaitingType, HeadFirst, HeadTailProperties
  <2>3. commands' = commands \o <<Head(todo)>>
    BY <2>1, <2>2, AppendIsConcat
  <2>4. commands' \in Seq(HostCommand)
    BY <2>2, <2>3, ConcatProperties
  <2>5. (commands \o <<Head(todo)>>) \o Tail(todo) = commands \o (<<Head(todo)>> \o Tail(todo))
    BY <2>2, ConcatAssociative
  <2>6. Waiting' = held \o (commands' \o Tail(todo))
    <3>1. Waiting' = (held \o commands') \o Tail(todo)
      BY <2>1 DEF Waiting
    <3>2. (held \o commands') \o Tail(todo) = held \o (commands' \o Tail(todo))
      BY <2>2, <2>4, ConcatAssociative
    <3> QED BY <3>1, <3>2
  <2> QED BY <2>2, <2>3, <2>5, <2>6, WaitingType
<1>9. ASSUME CancelLoad \/ ReadApplied \/ CollectGarbage PROVE Waiting' = Waiting
  BY <1>9 DEF CancelLoad, ReadApplied, CollectGarbage, Waiting
<1>10. \E group : Issues(group) /\ Made(group)
  <2>1. ASSUME ControlPush \/ CancelLoad \/ ReadApplied \/ CollectGarbage
        PROVE  Waiting' = Waiting /\ issued' = issued /\ allocated' = allocated /\ build' = build
    BY <1>8, <1>9, <2>1 DEF ControlPush, CancelLoad, ReadApplied, CollectGarbage
  <2> QED BY <1>2, <1>3, <1>4, <1>5, <1>6, <1>7, <2>1, ReplacementIssued, NothingIssued DEF Control
<1>11. UNCHANGED <<engineQ, garbage, module, freed, lastApplied>>
  BY DEF Control, Transport, FinishLoad, FinishReplacement, EngineEdit, PlaybackBarrier, LoadFresh,
         LoadReplacement, ControlPush, CancelLoad, ReadApplied, CollectGarbage
<1>12. retired' + collected' = retired + collected
  BY <1>0 DEF Control, Transport, FinishLoad, FinishReplacement, EngineEdit, PlaybackBarrier,
         LoadFresh, LoadReplacement, ControlPush, CancelLoad, ReadApplied, CollectGarbage, Edited
<1>13. CASE CancelLoad
  BY <1>0, <1>10, <1>11, <1>12, <1>13 DEF CancelLoad
<1>14. CASE ~CancelLoad
  <2>1. epoch' = epoch /\ cancelledAt' = cancelledAt
    BY <1>14 DEF Control, Transport, FinishLoad, FinishReplacement, EngineEdit, PlaybackBarrier,
         LoadFresh, LoadReplacement, ControlPush, ReadApplied, CollectGarbage, Edited
  <2> QED BY <1>0, <1>10, <1>11, <1>12, <2>1
<1> QED BY <1>13, <1>14

-----------------------------------------------------------------------------
(* The order of the line *)

\* The audio side takes the first command of the line and applies it, or leaves the line alone.
AppliesFirst ==
    /\ DrainApply
    /\ Waiting # <<>> /\ Upcoming = Head(Waiting)
    /\ Waiting' = Tail(Waiting) /\ lastApplied' = Head(Waiting).n

\* The callback issues nothing; of what waits it takes the first, in DrainApply, or nothing.
LEMMA AudioTakes ==
    ASSUME TypeOK, Audio
    PROVE  /\ UNCHANGED <<todo, issued, epoch, cancelledAt, build, allocated, collected>>
           /\ AppliesFirst \/ (~DrainApply /\ Waiting' = Waiting /\ lastApplied' = lastApplied)
<1> USE DEF PlayerUnchanged, playerVars, tapVars, hostVars
<1>1. UNCHANGED <<todo, issued, cancelledAt, build, allocated, collected>>
  BY DEF Audio, AudioStart, CollectEngineGarbage, CollectDone, DrainBlock, DrainApply, DrainDone,
         Arm, EngineStep, EngineDone, NextQuantum, LastQuantum, Settle, AudioReturn
<1>2. epoch' = epoch
  BY DEF Audio, AudioStart, CollectEngineGarbage, CollectDone, DrainBlock, DrainApply, DrainDone,
         Arm, EngineStep, EngineDone, NextQuantum, LastQuantum, Settle, AudioReturn, Apply,
         ApplyLoad, ApplyInteractive, ApplyRelease, ApplySelections, ApplyBarrier, ApplyEngine,
         TransportOnly
<1>3. CASE DrainApply
  <2>1. AnyUpcoming /\ Take /\ held' = (IF FromHeld THEN <<>> ELSE held)
        /\ lastApplied' = Upcoming.n
    BY <1>3 DEF DrainApply
  <2> QED BY <1>1, <1>2, <1>3, <2>1, TakenFromTheFront DEF AppliesFirst
<1>4. CASE DrainBlock /\ ~DrainApply
  <2>1. AnyUpcoming /\ Take /\ held' = <<Upcoming>> /\ lastApplied' = lastApplied
    BY <1>4 DEF DrainBlock
  <2> QED BY <1>1, <1>2, <1>4, <2>1, TakenFromTheFront
<1>5. CASE ~DrainApply /\ ~DrainBlock
  <2>1. UNCHANGED <<held, commands, lastApplied>>
    BY <1>5 DEF Audio, AudioStart, CollectEngineGarbage, CollectDone, DrainDone,
         Arm, EngineStep, EngineDone, NextQuantum, LastQuantum, Settle, AudioReturn
  <2> QED BY <1>1, <1>2, <1>5, <2>1 DEF Waiting
<1> QED BY <1>3, <1>4, <1>5

\* The line is in the order of issue and behind what has been applied.  A release in it is
\* of the present epoch or of an earlier one, and of an earlier one if it was asked for
\* before the last cancel.
InOrder(line) ==
    /\ \A i, j \in 1 .. Len(line) : i < j => line[i].n < line[j].n
    /\ \A i \in 1 .. Len(line) : lastApplied < line[i].n /\ line[i].n <= issued
Epochs(line) ==
    \A i \in 1 .. Len(line) :
       line[i].op \in {"Browser", "Restore"} /\ line[i].mark # 0 =>
          /\ line[i].mark <= epoch
          /\ line[i].n <= cancelledAt => line[i].mark < epoch
LineInv ==
    /\ InOrder(Waiting) /\ Epochs(Waiting)
    /\ lastApplied <= issued /\ cancelledAt <= issued

\* Taking the first command leaves the rest in order, behind it.
LEMMA LineTaken ==
    ASSUME TypeOK, LineInv, Audio
    PROVE  LineInv' /\ lastApplied' >= lastApplied
<1>1. UNCHANGED <<issued, epoch, cancelledAt>>
  BY AudioTakes
<1>2. /\ lastApplied \in Nat /\ issued \in Nat /\ Waiting \in Seq(HostCommand)
  BY WaitingType DEF TypeOK
<1>3. CASE AppliesFirst
  <2> DEFINE line == Waiting
             rest == Tail(Waiting)
  <2>1. /\ line # <<>> /\ Waiting' = rest /\ lastApplied' = Head(line).n
    BY <1>3 DEF AppliesFirst
  <2>2. /\ Len(rest) = Len(line) - 1 /\ Len(line) \in Nat \ {0}
        /\ \A i \in 1 .. Len(rest) : rest[i] = line[i + 1]
        /\ Head(line) = line[1] /\ Head(line) \in HostCommand
    BY <1>2, <2>1, HeadTailProperties, EmptySeq
  <2>3. /\ \A i, j \in 1 .. Len(line) : i < j => line[i].n < line[j].n
        /\ \A i \in 1 .. Len(line) : lastApplied < line[i].n /\ line[i].n <= issued
        /\ Epochs(line)
    BY DEF LineInv, InOrder
  <2>4. line[1].n \in Nat
    BY <2>2 DEF HostCommand
  <2> HIDE DEF line, rest
  <2>5. \A i \in 1 .. Len(rest) : i + 1 \in 1 .. Len(line) /\ 1 < i + 1 /\ rest[i] = line[i + 1]
    BY <2>2
  <2>6. 1 \in 1 .. Len(line) /\ lastApplied' = line[1].n
    BY <2>1, <2>2
  <2>7. ASSUME NEW i \in 1 .. Len(rest) PROVE lastApplied' < rest[i].n /\ rest[i].n <= issued'
    BY <1>1, <2>3, <2>5, <2>6
  <2>8. ASSUME NEW i \in 1 .. Len(rest), NEW j \in 1 .. Len(rest), i < j
        PROVE  rest[i].n < rest[j].n
    <3>1. i + 1 < j + 1
      BY <2>8
    <3> QED BY <2>3, <2>5, <2>8, <3>1
  <2>9. Epochs(Waiting)'
    <3> SUFFICES ASSUME NEW i \in 1 .. Len(rest),
                        rest[i].op \in {"Browser", "Restore"}, rest[i].mark # 0
                 PROVE  /\ rest[i].mark <= epoch
                        /\ rest[i].n <= cancelledAt => rest[i].mark < epoch
      BY <1>1, <2>1 DEF Epochs
    <3> QED BY <2>3, <2>5 DEF Epochs
  <2>10. lastApplied' <= issued' /\ lastApplied' >= lastApplied /\ cancelledAt' <= issued'
    BY <1>1, <1>2, <2>3, <2>4, <2>6 DEF LineInv
  <2> QED BY <2>1, <2>7, <2>8, <2>9, <2>10 DEF LineInv, InOrder
<1>4. CASE Waiting' = Waiting /\ lastApplied' = lastApplied
  BY <1>1, <1>2, <1>4 DEF LineInv, InOrder, Epochs
<1> QED BY <1>3, <1>4, AudioTakes

\* What the control side adds goes behind the rest and is numbered above it; a cancel moves
\* the epoch past every release that is in the line.
LEMMA LineIssued ==
    ASSUME TypeOK, LineInv, Control
    PROVE  LineInv' /\ lastApplied' >= lastApplied
<1>1. PICK group : Issues(group) /\ Made(group)
  BY ControlIssues
<1>2. /\ epoch' \in Nat /\ epoch' >= epoch /\ lastApplied' = lastApplied
      /\ epoch' # epoch => epoch' = epoch + 1 /\ cancelledAt' = issued
      /\ epoch' = epoch => cancelledAt' = cancelledAt
  BY ControlIssues
<1>3. /\ lastApplied \in Nat /\ issued \in Nat /\ epoch \in Nat /\ cancelledAt \in Nat
      /\ Waiting \in Seq(HostCommand) /\ group \in Seq(HostCommand)
      /\ Len(Waiting) \in Nat /\ Len(group) \in Nat
  BY <1>1, WaitingType, LenProperties DEF TypeOK, Issues
<1> DEFINE line == Waiting
           longer == line \o group
           k == Len(line)
<1>4. /\ longer \in Seq(HostCommand) /\ Len(longer) = k + Len(group)
      /\ \A i \in 1 .. k + Len(group) :
            longer[i] = IF i <= k THEN line[i] ELSE group[i - k]
  BY <1>3, ConcatProperties
<1>5. Waiting' = longer /\ issued' = issued + Len(group)
  BY <1>1 DEF Issues
<1>6. /\ \A i, j \in 1 .. k : i < j => line[i].n < line[j].n
      /\ \A i \in 1 .. k : lastApplied < line[i].n /\ line[i].n <= issued
      /\ \A i \in 1 .. k : line[i].op \in {"Browser", "Restore"} /\ line[i].mark # 0 =>
            line[i].mark <= epoch /\ (line[i].n <= cancelledAt => line[i].mark < epoch)
      /\ lastApplied <= issued /\ cancelledAt <= issued
  BY DEF LineInv, InOrder, Epochs
<1>7. /\ \A i \in 1 .. Len(group) : group[i].n = issued + i
      /\ \A i \in 1 .. Len(group) : group[i].op \in {"Browser", "Restore"} => group[i].mark \in {0, epoch}
      /\ Len(group) > 0 => epoch' = epoch /\ cancelledAt' = cancelledAt
  BY <1>1 DEF Issues, Made
<1>8. \A i \in 1 .. k : line[i].n \in Nat /\ line[i].mark \in Nat
  <2>1. \A i \in 1 .. k : line[i] \in HostCommand
    BY <1>3, ElementOfSeq
  <2> QED BY <2>1 DEF HostCommand
<1> HIDE DEF line, longer, k
<1>9. k \in Nat
  BY <1>3 DEF k
<1>10. \A i \in 1 .. Len(longer) :
          \/ i \in 1 .. k /\ longer[i] = line[i]
          \/ i > k /\ i - k \in 1 .. Len(group) /\ longer[i] = group[i - k]
  BY <1>3, <1>4, <1>9
<1>11. ASSUME NEW i \in 1 .. Len(longer) PROVE lastApplied < longer[i].n /\ longer[i].n <= issued'
  <2>1. CASE i \in 1 .. k /\ longer[i] = line[i]
    BY <1>3, <1>5, <1>6, <1>8, <2>1
  <2>2. CASE i > k /\ i - k \in 1 .. Len(group) /\ longer[i] = group[i - k]
    <3>1. longer[i].n = issued + (i - k)
      BY <1>7, <2>2
    <3>2. i - k >= 1 /\ i - k <= Len(group)
      BY <1>3, <2>2
    <3> HIDE DEF k
    <3> QED BY <1>3, <1>5, <1>6, <1>9, <3>1, <3>2
  <2> QED BY <1>10, <2>1, <2>2
<1>12. ASSUME NEW i \in 1 .. Len(longer), NEW j \in 1 .. Len(longer), i < j
       PROVE  longer[i].n < longer[j].n
  <2>1. CASE i \in 1 .. k /\ j \in 1 .. k /\ longer[i] = line[i] /\ longer[j] = line[j]
    BY <1>6, <1>12, <2>1
  <2>2. CASE i \in 1 .. k /\ longer[i] = line[i] /\ j - k \in 1 .. Len(group) /\ longer[j] = group[j - k]
    <3>1. longer[i].n <= issued /\ longer[i].n \in Nat /\ longer[j].n = issued + (j - k)
      BY <1>6, <1>7, <1>8, <2>2
    <3>2. j - k >= 1 /\ j - k \in Nat
      BY <1>3, <2>2
    <3> QED BY <1>3, <3>1, <3>2
  <2>3. CASE i > k /\ j > k /\ i - k \in 1 .. Len(group) /\ j - k \in 1 .. Len(group)
             /\ longer[i] = group[i - k] /\ longer[j] = group[j - k]
    <3>1. longer[i].n = issued + (i - k) /\ longer[j].n = issued + (j - k)
      BY <1>7, <2>3
    <3>2. i \in Nat /\ j \in Nat
      BY <1>3, <1>4, <1>9
    <3> QED BY <1>3, <1>9, <1>12, <3>1, <3>2
  <2>4. i \in Nat /\ j \in Nat
    BY <1>3, <1>4, <1>9
  <2> QED BY <1>9, <1>10, <1>12, <2>1, <2>2, <2>3, <2>4
<1>13. ASSUME NEW i \in 1 .. Len(longer),
              longer[i].op \in {"Browser", "Restore"}, longer[i].mark # 0
       PROVE  longer[i].mark <= epoch' /\ (longer[i].n <= cancelledAt' => longer[i].mark < epoch')
  <2>1. CASE i \in 1 .. k /\ longer[i] = line[i]
    <3>1. /\ line[i].mark <= epoch /\ (line[i].n <= cancelledAt => line[i].mark < epoch)
          /\ line[i].mark \in Nat
      BY <1>6, <1>8, <1>13, <2>1
    <3> QED BY <1>2, <1>3, <2>1, <3>1
  <2>2. CASE i > k /\ i - k \in 1 .. Len(group) /\ longer[i] = group[i - k]
    <3>1. longer[i].mark = epoch /\ longer[i].n = issued + (i - k)
      BY <1>7, <1>13, <2>2
    <3>2. i - k >= 1 /\ i - k \in Nat /\ Len(group) > 0
      BY <1>3, <2>2
    <3>3. epoch' = epoch /\ cancelledAt' <= issued
      BY <1>6, <1>7, <3>2
    <3>4. cancelledAt' \in Nat
      BY <1>3, <1>7, <3>2
    <3>5. longer[i].n > issued
      BY <1>3, <3>1, <3>2
    <3>6. longer[i].n > cancelledAt'
      BY <1>3, <3>1, <3>2, <3>3, <3>4
    <3> QED BY <1>3, <3>1, <3>2, <3>3, <3>4, <3>6
  <2> QED BY <1>10, <2>1, <2>2
<1>14. lastApplied' <= issued' /\ cancelledAt' <= issued' /\ lastApplied' >= lastApplied
  BY <1>2, <1>3, <1>5, <1>6
<1> QED BY <1>2, <1>5, <1>11, <1>12, <1>13, <1>14 DEF LineInv, InOrder, Epochs

\* Nothing waits at the start.
LEMMA LineInit == Init => LineInv
<1> SUFFICES ASSUME Init PROVE LineInv
  OBVIOUS
<1>1. Waiting = <<>>
  BY ConcatEmptySeq, EmptySeq DEF Init, Waiting
<1>2. Len(Waiting) = 0
  BY <1>1, EmptySeq
<1>3. lastApplied = 0 /\ issued = 0 /\ cancelledAt = 0
  BY DEF Init
<1> QED BY <1>2, <1>3 DEF LineInv, InOrder, Epochs

\* A stutter leaves the line alone.
LEMMA LineStutter == LineInv /\ UNCHANGED vars => LineInv'
BY DEF LineInv, InOrder, Epochs, vars, playerVars, tapVars, hostVars, Waiting

\* The commands that wait are in the order they were issued in, and behind those applied.
THEOREM LineInOrder == Spec => []LineInv
<1>1. TypeOK /\ LineInv /\ [Next]_vars => LineInv'
  BY LineTaken, LineIssued, LineStutter DEF Next
<1> QED BY <1>1, LineInit, TypeCorrect, PTL DEF Spec

\* Commands take effect in the order they were issued (drain_commands, pending_command).
THEOREM AppliedInOrder == Spec => OrderKept
<1>1. TypeOK /\ LineInv /\ [Next]_vars => [lastApplied' >= lastApplied]_vars
  BY LineTaken, LineIssued DEF Next
<1> QED BY <1>1, LineInOrder, TypeCorrect, PTL DEF Spec, OrderKept

\* A release asked for before its load was cancelled has no effect when its turn comes.
THEOREM CancelledReleasesAreInert == Spec => CancelledReleaseInert
<1> DEFINE Stale == /\ lastApplied' # lastApplied
                    /\ Upcoming.op \in {"Browser", "Restore"}
                    /\ Upcoming.mark # 0 /\ Upcoming.n <= cancelledAt
<1>1. TypeOK /\ LineInv /\ [Next]_vars => [Stale => UNCHANGED <<hostState, engineQ>>]_vars
  <2> SUFFICES ASSUME TypeOK, LineInv, Next, Stale
               PROVE  UNCHANGED <<hostState, engineQ>>
    OBVIOUS
  <2>1. Audio
    BY ControlIssues DEF Next
  <2>2. AppliesFirst
    BY <2>1, AudioTakes
  <2>3. /\ Waiting \in Seq(HostCommand) /\ Waiting # <<>> /\ Upcoming = Head(Waiting)
        /\ DrainApply
    BY <2>2, WaitingType DEF AppliesFirst
  <2>4. Len(Waiting) \in Nat \ {0} /\ Upcoming = Waiting[1] /\ Upcoming \in HostCommand
    BY <2>3, EmptySeq, HeadTailProperties
  <2>5. Upcoming.mark < epoch
    BY <2>4 DEF LineInv, Epochs
  <2>6. Upcoming.mark \in Nat /\ epoch \in Nat
    BY <2>4 DEF HostCommand, TypeOK
  <2>7. Revoked(Upcoming)
    BY <2>5, <2>6 DEF Revoked
  <2>8. ApplyRelease(Upcoming)
    BY <2>3 DEF DrainApply, Apply, ApplyLoad, ApplyInteractive, ApplySelections, ApplyBarrier,
            ApplyEngine
  <2> QED BY <2>7, <2>8 DEF ApplyRelease
<1> QED BY <1>1, LineInOrder, TypeCorrect, PTL DEF Spec, CancelledReleaseInert

(***************************************************************************)
(* 4. The builds, and where every value is                                 *)
(*                                                                         *)
(* A load is the only step that installs a source.  The builds of the line *)
(* come in the order they were made in, behind the one installed, and each *)
(* module, installation and selection table is in one place.               *)
(***************************************************************************)

-----------------------------------------------------------------------------
(* What an audio step does to the engine ring and the source *)

\* Nothing is sent and nothing is installed.
Quiet ==
    UNCHANGED <<engineQ, identity, installed, source, module, engineState, hostState, mayPlay>>

\* One command is sent, an edit of the build that is installed or of no build.
Sends(e) ==
    /\ e.op \in {"Interactive", "Other"} /\ (e.op = "Interactive" => e.id = identity)
    /\ e.op = "Other" => e.id = 0 /\ e.act = "edit"
    /\ Len(engineQ) < EngineCapacity
    /\ engineQ' = Append(engineQ, e)
    /\ hostState' = (IF e.act \in States THEN e.act ELSE hostState)
    /\ mayPlay' = (mayPlay \/ e.act = "Playing")
    /\ UNCHANGED <<identity, installed, source, module, engineState>>

\* A build is installed, and its module sent with the transport it starts from.
Loading(c) ==
    /\ identity' = c.id /\ source' = c.id /\ installed' = c.id
    /\ Len(engineQ) + Len(Paired(c)) < EngineCapacity
    /\ engineQ' = engineQ \o (<<LoadModule(c.id)>> \o Paired(c))
    /\ hostState' = (IF Paired(c) = <<>> THEN hostState ELSE Head(Paired(c)).act)
    /\ mayPlay' = (mayPlay /\ c.act = "keep")
    /\ UNCHANGED <<module, engineState>>

\* A group that fits is sent whole.
LEMMA SendWhole ==
    ASSUME TypeOK, NEW group \in Seq(EngineCommand), Send(group), Len(group) <= EngineRoom
    PROVE  engineQ' = engineQ \o group /\ rejected' = rejected
<1>1. Len(group) \in Nat /\ rejected \in Nat
  BY LenProperties DEF TypeOK
<1>2. SubSeq(group, 1, Len(group)) = group
  BY SubSeqFull
<1> QED BY <1>1, <1>2 DEF Send

\* Room for one command is room to send it.
LEMMA SendOne ==
    ASSUME TypeOK, NEW e \in EngineCommand, Send(<<e>>), EngineRoom > 0
    PROVE  engineQ' = Append(engineQ, e) /\ Len(engineQ) < EngineCapacity
<1>1. engineQ \in Seq(EngineCommand) /\ Len(engineQ) \in Nat /\ EngineCapacity \in Nat
  BY CapacityAssumption, LenProperties DEF TypeOK
<1>2. Len(engineQ) < EngineCapacity /\ 1 <= EngineRoom
  BY <1>1 DEF EngineRoom
<1>3. <<e>> \in Seq(EngineCommand) /\ Len(<<e>>) = 1
  OBVIOUS
<1>4. engineQ' = engineQ \o <<e>>
  <2> DEFINE group == <<e>>
  <2>1. group \in Seq(EngineCommand) /\ Send(group) /\ Len(group) <= EngineRoom
    BY <1>2, <1>3
  <2> HIDE DEF group
  <2>2. engineQ' = engineQ \o group
    BY <2>1, SendWhole
  <2> QED BY <2>2 DEF group
<1> QED BY <1>1, <1>2, <1>4, AppendIsConcat

\* Room for a load is room for its whole group.
LEMMA LoadKind ==
    ASSUME TypeOK, NEW c \in HostCommand, ~Blocked(c), ApplyLoad(c)
    PROVE  /\ Loading(c) /\ c.op = "Load" /\ ~loaded
           /\ retired' + freed' = retired + freed + 1
<1>1. /\ engineQ \in Seq(EngineCommand) /\ Len(engineQ) \in Nat /\ EngineCapacity \in Nat
      /\ retired \in Nat /\ freed \in Nat /\ RetiredCapacity \in Nat
  BY CapacityAssumption, LenProperties DEF TypeOK
<1>2. c.op = "Load" /\ c.id \in Nat /\ c.act \in {"fresh", "keep", "hold"}
  BY DEF ApplyLoad, HostCommand
<1>3. ~loaded /\ EngineRoom >= EngineLoadCommands(c)
  BY <1>1, <1>2, CapacityAssumption DEF Blocked, EngineRoom, EngineLoadCommands
<1>4. /\ Paired(c) \in Seq(EngineCommand)
      /\ Len(Paired(c)) = EngineLoadCommands(c) - 1
      /\ Paired(c) = <<>> <=> c.act = "keep"
  <2>1. /\ Interactive(c.id, "Stopped") \in EngineCommand
        /\ Interactive(c.id, "Paused") \in EngineCommand
    BY <1>2, CommandTypes DEF States
  <2>2. CASE c.act = "keep"
    <3>1. Paired(c) = <<>> /\ EngineLoadCommands(c) = 1
      BY <1>2, <2>2 DEF Paired, EngineLoadCommands
    <3> QED BY <2>2, <3>1, EmptySeq
  <2>3. CASE c.act = "fresh"
    <3>1. Paired(c) = <<Interactive(c.id, "Stopped")>> /\ EngineLoadCommands(c) = 2
      BY <1>2, <2>3 DEF Paired, EngineLoadCommands
    <3> QED BY <2>1, <2>3, <3>1
  <2>4. CASE c.act = "hold"
    <3>1. Paired(c) = <<Interactive(c.id, "Paused")>> /\ EngineLoadCommands(c) = 2
      BY <1>2, <2>4 DEF Paired, EngineLoadCommands
    <3> QED BY <2>1, <2>4, <3>1
  <2> QED BY <1>2, <2>2, <2>3, <2>4
<1>5. /\ EngineLoadCommands(c) \in {1, 2} /\ EngineRoom \in Int
      /\ EngineLoadCommands(c) = 1 <=> c.act = "keep"
  BY <1>1, <1>2 DEF EngineLoadCommands, EngineRoom
<1>6. EngineRoom > 0 /\ (Paired(c) # <<>> => EngineRoom > 1)
  BY <1>3, <1>4, <1>5
<1> DEFINE load == <<LoadModule(c.id)>>
           group == load \o Paired(c)
<1>7. load \in Seq(EngineCommand) /\ Len(load) = 1
  BY <1>2, CommandTypes
<1> HIDE DEF load
<1>8. group \in Seq(EngineCommand) /\ Len(group) = EngineLoadCommands(c)
  BY <1>4, <1>5, <1>7, ConcatProperties
<1>9. engineQ' = engineQ \o group
  <2>1. Send(group)
    BY DEF ApplyLoad, load
  <2> HIDE DEF group
  <2> QED BY <1>3, <1>8, <2>1, SendWhole
<1>10. Len(engineQ) + Len(Paired(c)) < EngineCapacity
  BY <1>1, <1>3, <1>4, <1>5 DEF EngineRoom
<1>11. /\ installed' = c.id /\ identity' = c.id /\ source' = c.id /\ Retire(1)
       /\ UNCHANGED <<module, engineState>>
  BY <1>6 DEF ApplyLoad
<1>12. hostState' = (IF Paired(c) = <<>> THEN hostState ELSE Head(Paired(c)).act)
  BY <1>6 DEF ApplyLoad
<1>13. mayPlay' = (mayPlay /\ c.act = "keep")
  BY DEF ApplyLoad
<1>14. retired' + freed' = retired + freed + 1
  BY <1>1, <1>11 DEF Retire
<1> QED BY <1>2, <1>3, <1>9, <1>10, <1>11, <1>12, <1>13, <1>14 DEF Loading, load

\* A transport command of the installed build is sent if the engine ring has room; one of
\* another build, or one that finds no room, changes nothing but the count of rejections.
LEMMA TransportKind ==
    ASSUME TypeOK, NEW c \in HostCommand, c.op # "Load", SetTransport(c), TransportOnly
    PROVE  /\ Quiet \/ Sends(Interactive(c.id, c.act))
           /\ c.id = identity /\ EngineRoom > 0 => Sends(Interactive(c.id, c.act))
           /\ Interactive(c.id, c.act) \in EngineCommand
<1>1. Interactive(c.id, c.act) \in EngineCommand
  BY CommandTypes DEF HostCommand
<1>2. CASE identity = c.id /\ EngineRoom > 0
  <2>1. Send(<<Interactive(c.id, c.act)>>)
    BY <1>2 DEF SetTransport
  <2>2. engineQ' = Append(engineQ, Interactive(c.id, c.act)) /\ Len(engineQ) < EngineCapacity
    BY <1>1, <1>2, <2>1, SendOne
  <2>3. /\ Interactive(c.id, c.act).op = "Interactive" /\ Interactive(c.id, c.act).id = identity
        /\ Interactive(c.id, c.act).act = c.act
    BY <1>2 DEF Interactive
  <2>4. hostState' = (IF c.act \in States THEN c.act ELSE hostState)
    BY <1>2 DEF SetTransport
  <2>5. mayPlay' = (mayPlay \/ c.act = "Playing")
    BY <1>2 DEF SetTransport
  <2>6. UNCHANGED <<identity, installed, source, module, engineState>>
    BY DEF TransportOnly, engineVars
  <2>7. Sends(Interactive(c.id, c.act))
    BY <2>2, <2>3, <2>4, <2>5, <2>6 DEF Sends
  <2> QED BY <1>1, <2>7
<1>3. CASE ~(identity = c.id /\ EngineRoom > 0)
  <2>1. Quiet
    BY <1>3 DEF SetTransport, Reject, TransportOnly, engineVars, Quiet
  <2> QED BY <1>1, <1>3, <2>1
<1> QED BY <1>2, <1>3

\* The end of a song sends the stop that ends it, or nothing.
LEMMA FinishKind ==
    ASSUME TypeOK, FinishSong \/ NoSongToFinish, mayPlay' = mayPlay,
           UNCHANGED <<identity, installed, source, module, engineState>>
    PROVE  Quiet \/ Sends(Interactive(identity, "Stopped"))
<1> DEFINE e == Interactive(identity, "Stopped")
<1>1. /\ e \in EngineCommand /\ e.op = "Interactive" /\ e.id = identity /\ e.act = "Stopped"
      /\ "Stopped" \in States
  BY CommandTypes DEF Interactive, TypeOK, States
<1>2. CASE FinishSong /\ EngineRoom > 0
  <2>1. Send(<<e>>) /\ hostState' = "Stopped"
    BY <1>2 DEF FinishSong
  <2> HIDE DEF e
  <2>2. engineQ' = Append(engineQ, e) /\ Len(engineQ) < EngineCapacity
    BY <1>1, <1>2, <2>1, SendOne
  <2>3. mayPlay' = (mayPlay \/ e.act = "Playing")
    <3>1. mayPlay \in BOOLEAN /\ e.act # "Playing"
      BY <1>1 DEF TypeOK
    <3> QED BY <3>1
  <2>4. Sends(e)
    BY <1>1, <2>1, <2>2, <2>3 DEF Sends
  <2> QED BY <2>4 DEF e
<1>3. CASE ~(FinishSong /\ EngineRoom > 0)
  BY <1>3 DEF FinishSong, NoSongToFinish, Reject, Quiet
<1> QED BY <1>2, <1>3

\* The commands the drain applies that are not loads.
LEMMA OtherKind ==
    ASSUME TypeOK, NEW c \in HostCommand, Apply(c), c.op # "Load"
    PROVE  /\ Quiet \/ \E e \in EngineCommand : Sends(e)
           /\ c.op \in {"Selections", "Barrier"} => Quiet
           /\ retired' + freed' = retired + freed + (IF c.op = "Selections" THEN 1 ELSE 0)
<1>1. retired \in Nat /\ freed \in Nat /\ RetiredCapacity \in Nat
  BY CapacityAssumption DEF TypeOK
<1>2. CASE ApplyInteractive(c) \/ ApplyRelease(c)
  <2>1. TransportOnly /\ c.op \notin {"Selections", "Barrier"}
    BY <1>2 DEF ApplyInteractive, ApplyRelease
  <2>2. SetTransport(c) \/ UNCHANGED <<engineQ, rejected, hostState, mayPlay>>
    BY <1>2 DEF ApplyInteractive, ApplyRelease
  <2>3. ASSUME UNCHANGED <<engineQ, rejected, hostState, mayPlay>> PROVE Quiet
    BY <2>1, <2>3 DEF TransportOnly, engineVars, Quiet
  <2>4. Quiet \/ \E e \in EngineCommand : Sends(e)
    BY <2>1, <2>2, <2>3, TransportKind
  <2> QED BY <1>1, <2>1, <2>4 DEF TransportOnly
<1>3. CASE ApplySelections(c)
  <2>1. Quiet
    BY <1>3 DEF ApplySelections, engineVars, Quiet
  <2>2. Retire(1) /\ c.op = "Selections"
    BY <1>3 DEF ApplySelections
  <2> QED BY <1>1, <2>1, <2>2 DEF Retire
<1>4. CASE ApplyBarrier(c)
  <2>1. Quiet
    BY <1>4 DEF ApplyBarrier, engineVars, Quiet
  <2> QED BY <1>1, <1>4, <2>1 DEF ApplyBarrier
<1>5. CASE ApplyEngine(c)
  <2>1. TransportOnly /\ Send(<<Other>>) /\ UNCHANGED <<hostState, mayPlay>>
    BY <1>5 DEF ApplyEngine
  <2>2. /\ Other \in EngineCommand /\ Other.op = "Other" /\ Other.id = 0 /\ Other.act = "edit"
        /\ "edit" \notin States /\ "edit" # "Playing"
    BY CommandTypes DEF Other, States
  <2>3. CASE EngineRoom > 0
    <3>1. engineQ' = Append(engineQ, Other) /\ Len(engineQ) < EngineCapacity
      BY <2>1, <2>2, <2>3, SendOne
    <3>2. mayPlay' = (mayPlay \/ Other.act = "Playing")
      <4>1. mayPlay \in BOOLEAN /\ Other.act # "Playing" /\ mayPlay' = mayPlay
        BY <2>1, <2>2 DEF TypeOK
      <4> QED BY <4>1
    <3>3. Sends(Other)
      BY <2>1, <2>2, <3>1, <3>2 DEF Sends, TransportOnly, engineVars
    <3> QED BY <1>1, <1>5, <2>1, <2>2, <3>3 DEF TransportOnly, ApplyEngine
  <2>4. CASE ~(EngineRoom > 0)
    <3>1. engineQ \in Seq(EngineCommand) /\ Len(engineQ) \in Nat /\ EngineCapacity \in Nat
          /\ Len(engineQ) <= EngineCapacity
      BY CapacityAssumption, LenProperties DEF TypeOK
    <3>2. EngineRoom = 0
      BY <2>4, <3>1 DEF EngineRoom
    <3>3. Len(<<Other>>) = 1
      OBVIOUS
    <3>4. engineQ' = engineQ \o SubSeq(<<Other>>, 1, 0)
      BY <2>1, <3>2, <3>3 DEF Send
    <3>5. SubSeq(<<Other>>, 1, 0) = <<>>
      BY SubSeqEmpty
    <3>6. engineQ' = engineQ
      BY <3>1, <3>4, <3>5, ConcatEmptySeq
    <3>7. Quiet
      BY <2>1, <3>6 DEF Quiet, TransportOnly, engineVars
    <3> QED BY <1>1, <1>5, <2>1, <3>7 DEF TransportOnly, ApplyEngine
  <2> QED BY <2>3, <2>4
<1> QED BY <1>2, <1>3, <1>4, <1>5 DEF Apply, ApplyLoad

\* Every audio step is one of four: it installs a build, it applies another command, it lets
\* the engine take a command, or it does no more than finish a song or move garbage on.
LEMMA AudioKinds ==
    ASSUME TypeOK, Audio
    PROVE  \/ /\ AppliesFirst /\ Loading(Upcoming) /\ Upcoming.op = "Load" /\ ~loaded
              /\ garbage' = garbage /\ retired' + freed' = retired + freed + 1
           \/ /\ AppliesFirst /\ Upcoming.op # "Load"
              /\ Apply(Upcoming)
              /\ Quiet \/ \E e \in EngineCommand : Sends(e)
              /\ Upcoming.op \in {"Selections", "Barrier"} => Quiet
              /\ garbage' = garbage
              /\ retired' + freed' = retired + freed + (IF Upcoming.op = "Selections" THEN 1 ELSE 0)
           \/ /\ ~DrainApply /\ Waiting' = Waiting /\ EngineStep
           \/ /\ ~DrainApply /\ ~EngineStep /\ Waiting' = Waiting
              /\ Quiet \/ Sends(Interactive(identity, "Stopped"))
              /\ garbage' + retired' + freed' = garbage + retired + freed
<1>1. CASE DrainApply
  <2>1. AppliesFirst
    BY <1>1, AudioTakes
  <2>5. /\ Apply(Upcoming) /\ ~Blocked(Upcoming) /\ garbage' = garbage
        /\ AnyUpcoming /\ Take
    BY <1>1 DEF DrainApply
  <2>2. Upcoming \in HostCommand
    BY <2>5, TakeUpcoming
  <2>3. CASE Upcoming.op = "Load"
    <3>1. ApplyLoad(Upcoming)
      BY <2>3, <2>5 DEF Apply, ApplyInteractive, ApplyRelease, ApplySelections, ApplyBarrier,
              ApplyEngine
    <3> QED BY <2>1, <2>2, <2>5, <3>1, LoadKind
  <2>4. CASE Upcoming.op # "Load"
    BY <2>1, <2>2, <2>4, <2>5, OtherKind
  <2> QED BY <2>3, <2>4
<1>2. CASE ~DrainApply /\ EngineStep
  BY <1>2, AudioTakes DEF AppliesFirst
<1>3. CASE ~DrainApply /\ ~EngineStep
  <2>1. Waiting' = Waiting
    BY <1>3, AudioTakes DEF AppliesFirst
  <2>2. /\ garbage \in Nat /\ retired \in Nat /\ freed \in Nat /\ RetiredCapacity \in Nat
    BY CapacityAssumption DEF TypeOK
  <2>3. garbage' + retired' + freed' = garbage + retired + freed
    <3>1. CASE CollectEngineGarbage
      BY <2>2, <3>1 DEF CollectEngineGarbage, Retire
    <3>2. CASE ~CollectEngineGarbage
      BY <1>3, <2>2, <3>2 DEF Audio, AudioStart, CollectDone, DrainBlock, DrainDone,
           Arm, EngineDone, NextQuantum, LastQuantum, Settle, AudioReturn
    <3> QED BY <3>1, <3>2
  <2>4. UNCHANGED <<identity, installed, source, module, engineState, mayPlay>>
    BY <1>3 DEF Audio, AudioStart, CollectEngineGarbage, CollectDone, DrainBlock, DrainDone,
         Arm, EngineDone, NextQuantum, LastQuantum, Settle, AudioReturn, EngineUnchanged,
         engineVars, hostVars
  <2>5. FinishSong \/ NoSongToFinish
    BY <1>3 DEF Audio, AudioStart, CollectEngineGarbage, CollectDone, DrainBlock, DrainDone,
         Arm, EngineDone, NextQuantum, LastQuantum, Settle, AudioReturn, NoSongToFinish,
         hostVars, tapVars
  <2> QED BY <1>3, <2>1, <2>3, <2>4, <2>5, FinishKind
<1> QED BY <1>1, <1>2, <1>3

-----------------------------------------------------------------------------
(* The line and the engine ring, position by position *)

\* What taking the first command does to the positions of the others.
LEMMA LineTail ==
    ASSUME TypeOK, AppliesFirst
    PROVE  /\ Len(Waiting) \in Nat \ {0} /\ Len(Waiting') = Len(Waiting) - 1
           /\ \A i \in 1 .. Len(Waiting') : i + 1 \in 1 .. Len(Waiting) /\ Waiting'[i] = Waiting[i + 1]
           /\ 1 \in 1 .. Len(Waiting) /\ Upcoming = Waiting[1] /\ Upcoming \in HostCommand
<1>1. Waiting \in Seq(HostCommand) /\ Waiting # <<>> /\ Upcoming = Head(Waiting)
      /\ Waiting' = Tail(Waiting)
  BY WaitingType DEF AppliesFirst
<1>2. /\ Len(Waiting) \in Nat \ {0} /\ Head(Waiting) \in HostCommand
      /\ Head(Waiting) = Waiting[1]
      /\ Len(Tail(Waiting)) = Len(Waiting) - 1
      /\ \A i \in 1 .. Len(Tail(Waiting)) : Tail(Waiting)[i] = Waiting[i + 1]
  BY <1>1, EmptySeq, HeadTailProperties
<1> QED BY <1>1, <1>2

\* What issuing a group does: the others keep their positions.
LEMMA LineGrows ==
    ASSUME TypeOK, NEW group, Issues(group)
    PROVE  /\ Len(Waiting) \in Nat /\ Len(group) \in Nat
           /\ Len(Waiting') = Len(Waiting) + Len(group)
           /\ \A i \in 1 .. Len(Waiting) : i \in 1 .. Len(Waiting') /\ Waiting'[i] = Waiting[i]
           /\ \A i \in 1 .. Len(Waiting') :
                 i > Len(Waiting) => /\ i - Len(Waiting) \in 1 .. Len(group)
                                     /\ Waiting'[i] = group[i - Len(Waiting)]
<1>1. Waiting \in Seq(HostCommand) /\ group \in Seq(HostCommand) /\ Waiting' = Waiting \o group
  BY WaitingType DEF Issues
<1>2. /\ Len(Waiting) \in Nat /\ Len(group) \in Nat
      /\ Len(Waiting') = Len(Waiting) + Len(group)
      /\ \A i \in 1 .. Len(Waiting) + Len(group) :
            Waiting'[i] = IF i <= Len(Waiting) THEN Waiting[i] ELSE group[i - Len(Waiting)]
  BY <1>1, ConcatProperties, LenProperties
<1> QED BY <1>2

\* One command more on the engine ring.
LEMMA RingGrows ==
    ASSUME TypeOK, NEW e \in EngineCommand, Sends(e)
    PROVE  /\ Len(engineQ) \in Nat /\ Len(engineQ') = Len(engineQ) + 1
           /\ \A i \in 1 .. Len(engineQ) : i \in 1 .. Len(engineQ') /\ engineQ'[i] = engineQ[i]
           /\ engineQ'[Len(engineQ) + 1] = e
           /\ \A i \in 1 .. Len(engineQ') : i \in 1 .. Len(engineQ) \/ i = Len(engineQ) + 1
<1>1. engineQ \in Seq(EngineCommand) /\ engineQ' = Append(engineQ, e)
  BY DEF TypeOK, Sends
<1>2. /\ Len(engineQ) \in Nat /\ Len(engineQ') = Len(engineQ) + 1
      /\ \A i \in 1 .. Len(engineQ) : engineQ'[i] = engineQ[i]
      /\ engineQ'[Len(engineQ) + 1] = e
  BY <1>1, AppendProperties, LenProperties
<1> QED BY <1>2

\* A load, with the transport command it is paired with, on the engine ring.
LEMMA RingLoads ==
    ASSUME TypeOK, NEW c \in HostCommand, c.op = "Load", Loading(c)
    PROVE  /\ Len(engineQ) \in Nat
           /\ Len(engineQ') = Len(engineQ) + (IF c.act = "keep" THEN 1 ELSE 2)
           /\ \A i \in 1 .. Len(engineQ) : i \in 1 .. Len(engineQ') /\ engineQ'[i] = engineQ[i]
           /\ \A i \in 1 .. Len(engineQ') :
                 i \in 1 .. Len(engineQ) \/ i = Len(engineQ) + 1 \/ i = Len(engineQ) + 2
           /\ Len(engineQ) + 1 \in 1 .. Len(engineQ')
           /\ engineQ'[Len(engineQ) + 1] = LoadModule(c.id)
           /\ c.act = "keep" => hostState' = hostState
           /\ c.act # "keep" => /\ hostState' \in {"Stopped", "Paused"}
                                /\ engineQ'[Len(engineQ) + 2] = Interactive(c.id, hostState')
<1>1. /\ engineQ \in Seq(EngineCommand) /\ c.id \in Nat /\ c.act \in {"fresh", "keep", "hold"}
  BY DEF TypeOK, HostCommand
<1>2. /\ LoadModule(c.id) \in EngineCommand
      /\ Interactive(c.id, "Stopped") \in EngineCommand
      /\ Interactive(c.id, "Paused") \in EngineCommand
  BY <1>1, CommandTypes DEF States
<1>3. ASSUME NEW a \in EngineCommand, engineQ' = engineQ \o <<a>>
      PROVE  /\ Len(engineQ) \in Nat /\ Len(engineQ') = Len(engineQ) + 1
             /\ \A i \in 1 .. Len(engineQ) : engineQ'[i] = engineQ[i]
             /\ engineQ'[Len(engineQ) + 1] = a
  <2>1. engineQ' = Append(engineQ, a)
    BY <1>1, <1>3, AppendIsConcat
  <2> QED BY <1>1, <2>1, AppendProperties, LenProperties
<1>4. ASSUME NEW a \in EngineCommand, NEW b \in EngineCommand, engineQ' = engineQ \o (<<a>> \o <<b>>)
      PROVE  /\ Len(engineQ) \in Nat /\ Len(engineQ') = Len(engineQ) + 2
             /\ \A i \in 1 .. Len(engineQ) : engineQ'[i] = engineQ[i]
             /\ engineQ'[Len(engineQ) + 1] = a /\ engineQ'[Len(engineQ) + 2] = b
  <2>1. /\ <<a>> \in Seq(EngineCommand) /\ <<b>> \in Seq(EngineCommand)
        /\ Len(<<a>>) = 1 /\ Len(<<b>>) = 1 /\ <<a>>[1] = a /\ <<b>>[1] = b
    OBVIOUS
  <2> DEFINE pair == <<a>> \o <<b>>
  <2>2. pair \in Seq(EngineCommand) /\ Len(pair) = 2 /\ pair[1] = a /\ pair[2] = b
    BY <2>1, ConcatProperties
  <2> HIDE DEF pair
  <2>3. engineQ' = engineQ \o pair
    BY <1>4 DEF pair
  <2>4. /\ Len(engineQ) \in Nat /\ Len(engineQ') = Len(engineQ) + 2
        /\ \A i \in 1 .. Len(engineQ) + 2 :
             engineQ'[i] = IF i <= Len(engineQ) THEN engineQ[i] ELSE pair[i - Len(engineQ)]
    <3>1. /\ Len(engineQ \o pair) = Len(engineQ) + Len(pair)
          /\ \A i \in 1 .. Len(engineQ) + Len(pair) : (engineQ \o pair)[i] =
                IF i <= Len(engineQ) THEN engineQ[i] ELSE pair[i - Len(engineQ)]
          /\ Len(engineQ) \in Nat
      BY <1>1, <2>2, ConcatProperties, LenProperties
    <3> QED BY <2>2, <2>3, <3>1
  <2> QED BY <2>2, <2>4
<1>5. CASE c.act = "keep"
  <2>1. Paired(c) = <<>>
    BY <1>5 DEF Paired
  <2>2. <<LoadModule(c.id)>> \in Seq(EngineCommand)
    BY <1>2
  <2>3. <<LoadModule(c.id)>> \o <<>> = <<LoadModule(c.id)>>
    BY <2>2, ConcatEmptySeq
  <2>4. engineQ' = engineQ \o <<LoadModule(c.id)>> /\ hostState' = hostState
    BY <2>1, <2>3 DEF Loading
  <2> QED BY <1>2, <1>3, <1>5, <2>4
<1>6. ASSUME c.act # "keep", NEW s \in {"Stopped", "Paused"}, Paired(c) = <<Interactive(c.id, s)>>
      PROVE  /\ hostState' = s
             /\ engineQ' = engineQ \o (<<LoadModule(c.id)>> \o <<Interactive(c.id, s)>>)
             /\ Interactive(c.id, s) \in EngineCommand
  <2>1. Interactive(c.id, s) \in EngineCommand
    BY <1>2
  <2>2. Paired(c) # <<>> /\ Head(Paired(c)) = Interactive(c.id, s)
    <3>1. <<Interactive(c.id, s)>> # <<>> /\ Head(<<Interactive(c.id, s)>>) = Interactive(c.id, s)
      OBVIOUS
    <3> QED BY <1>6, <3>1
  <2>3. Interactive(c.id, s).act = s
    BY DEF Interactive
  <2> QED BY <1>6, <2>1, <2>2, <2>3 DEF Loading
<1>7. CASE c.act = "fresh"
  <2>1. Paired(c) = <<Interactive(c.id, "Stopped")>>
    BY <1>7 DEF Paired
  <2>2. /\ hostState' = "Stopped" /\ Interactive(c.id, "Stopped") \in EngineCommand
        /\ engineQ' = engineQ \o (<<LoadModule(c.id)>> \o <<Interactive(c.id, "Stopped")>>)
    BY <1>6, <1>7, <2>1
  <2> QED BY <1>2, <1>4, <1>7, <2>2
<1>8. CASE c.act = "hold"
  <2>1. Paired(c) = <<Interactive(c.id, "Paused")>>
    BY <1>8 DEF Paired
  <2>2. /\ hostState' = "Paused" /\ Interactive(c.id, "Paused") \in EngineCommand
        /\ engineQ' = engineQ \o (<<LoadModule(c.id)>> \o <<Interactive(c.id, "Paused")>>)
    BY <1>6, <1>8, <2>1
  <2> QED BY <1>2, <1>4, <1>8, <2>2
<1> QED BY <1>1, <1>5, <1>7, <1>8

\* The engine takes the head of its ring.
LEMMA RingTail ==
    ASSUME TypeOK, EngineStep
    PROVE  /\ Len(engineQ) \in Nat \ {0} /\ Len(engineQ') = Len(engineQ) - 1
           /\ \A i \in 1 .. Len(engineQ') : i + 1 \in 1 .. Len(engineQ) /\ engineQ'[i] = engineQ[i + 1]
           /\ 1 \in 1 .. Len(engineQ) /\ Head(engineQ) = engineQ[1] /\ engineQ[1] \in EngineCommand
           /\ EngineApply(engineQ[1])
           /\ UNCHANGED <<identity, installed, source, hostState, mayPlay, retired>>
<1>1. engineQ \in Seq(EngineCommand) /\ engineQ # <<>> /\ engineQ' = Tail(engineQ)
      /\ EngineApply(Head(engineQ))
      /\ UNCHANGED <<identity, installed, source, hostState, mayPlay, retired>>
  BY DEF TypeOK, EngineStep, hostVars
<1>2. /\ Len(engineQ) \in Nat \ {0} /\ Head(engineQ) \in EngineCommand /\ Head(engineQ) = engineQ[1]
      /\ Len(Tail(engineQ)) = Len(engineQ) - 1
      /\ \A i \in 1 .. Len(Tail(engineQ)) : Tail(engineQ)[i] = engineQ[i + 1]
  BY <1>1, EmptySeq, HeadTailProperties
<1>3. \A i \in 1 .. Len(engineQ) - 1 : i + 1 \in 1 .. Len(engineQ)
  BY <1>2
<1> QED BY <1>1, <1>2, <1>3

-----------------------------------------------------------------------------
(* Builds come in the order they were made in *)

\* The loads of the line are of later builds than the one installed, the later behind.
Builds(line) ==
    /\ \A i, j \in 1 .. Len(line) :
          i < j /\ line[i].op = "Load" /\ line[j].op = "Load" => line[i].id < line[j].id
    /\ \A i \in 1 .. Len(line) :
          line[i].op = "Load" => identity < line[i].id /\ line[i].id <= build

\* Nothing on the engine ring is of a later build than the one installed.
BuildInv ==
    /\ Builds(Waiting) /\ identity <= build
    /\ \A i \in 1 .. Len(engineQ) : engineQ[i].id <= identity
    /\ \A i \in Loads : engineQ[i].id # 0
    /\ installed = identity /\ source = identity

\* Installing a build, the first of the line, leaves the later builds behind it.
LEMMA BuildInstalled ==
    ASSUME TypeOK, BuildInv, AppliesFirst, Loading(Upcoming), Upcoming.op = "Load", build' = build
    PROVE  BuildInv' /\ identity < Upcoming.id
<1>1. /\ Len(Waiting) \in Nat \ {0} /\ Len(Waiting') = Len(Waiting) - 1
      /\ \A i \in 1 .. Len(Waiting') : i + 1 \in 1 .. Len(Waiting) /\ Waiting'[i] = Waiting[i + 1]
      /\ 1 \in 1 .. Len(Waiting) /\ Upcoming = Waiting[1] /\ Upcoming \in HostCommand
  BY LineTail
<1> DEFINE c == Upcoming
<1>2. /\ c.id \in Nat /\ identity \in Nat /\ build \in Nat
      /\ identity < c.id /\ c.id <= build
  BY <1>1 DEF HostCommand, TypeOK, BuildInv, Builds
<1>3. /\ \A i, j \in 1 .. Len(Waiting) :
            i < j /\ Waiting[i].op = "Load" /\ Waiting[j].op = "Load" => Waiting[i].id < Waiting[j].id
      /\ \A i \in 1 .. Len(Waiting) :
            Waiting[i].op = "Load" => identity < Waiting[i].id /\ Waiting[i].id <= build
  BY DEF BuildInv, Builds
<1>4. identity' = c.id /\ installed' = c.id /\ source' = c.id
  BY DEF Loading
<1> HIDE DEF c
<1>5. \A i \in 1 .. Len(Waiting') : 1 < i + 1
  BY <1>1
<1>6. ASSUME NEW i \in 1 .. Len(Waiting'), Waiting'[i].op = "Load"
      PROVE  identity' < Waiting'[i].id /\ Waiting'[i].id <= build'
  BY <1>1, <1>3, <1>4, <1>5, <1>6 DEF c
<1>7. ASSUME NEW i \in 1 .. Len(Waiting'), NEW j \in 1 .. Len(Waiting'), i < j,
             Waiting'[i].op = "Load", Waiting'[j].op = "Load"
      PROVE  Waiting'[i].id < Waiting'[j].id
  <2>1. i + 1 < j + 1
    BY <1>7
  <2> QED BY <1>1, <1>3, <1>7, <2>1
<1>8. /\ Len(engineQ) \in Nat
      /\ \A i \in 1 .. Len(engineQ) : i \in 1 .. Len(engineQ') /\ engineQ'[i] = engineQ[i]
      /\ \A i \in 1 .. Len(engineQ') :
            i \in 1 .. Len(engineQ) \/ i = Len(engineQ) + 1 \/ i = Len(engineQ) + 2
      /\ Len(engineQ) + 1 \in 1 .. Len(engineQ')
      /\ engineQ'[Len(engineQ) + 1] = LoadModule(c.id)
      /\ c.act # "keep" => engineQ'[Len(engineQ) + 2] = Interactive(c.id, hostState')
      /\ Len(engineQ') = Len(engineQ) + (IF c.act = "keep" THEN 1 ELSE 2)
  BY <1>1, RingLoads DEF c
<1>9. ASSUME NEW i \in 1 .. Len(engineQ')
      PROVE  /\ engineQ'[i].id <= identity'
             /\ engineQ'[i].op = "LoadModule" => engineQ'[i].id # 0
  <2>1. CASE i \in 1 .. Len(engineQ)
    <3>1. engineQ'[i] = engineQ[i] /\ engineQ[i].id <= identity /\ engineQ[i] \in EngineCommand
      BY <1>8, <2>1, ElementOfSeq DEF BuildInv, TypeOK
    <3>2. engineQ[i].id \in Nat /\ (engineQ[i].op = "LoadModule" => engineQ[i].id # 0)
      BY <2>1, <3>1 DEF EngineCommand, BuildInv, Loads
    <3> QED BY <1>2, <1>4, <3>1, <3>2
  <2>2. CASE i = Len(engineQ) + 1
    <3>1. engineQ'[i].id = c.id
      BY <1>8, <2>2 DEF LoadModule
    <3> QED BY <1>2, <1>4, <3>1
  <2>3. CASE i = Len(engineQ) + 2 /\ i # Len(engineQ) + 1
    <3>1. engineQ'[i].id = c.id
      BY <1>8, <2>3 DEF Interactive
    <3> QED BY <1>2, <1>4, <3>1
  <2> QED BY <1>8, <2>1, <2>2, <2>3
<1>10. identity' <= build' /\ installed' = identity' /\ source' = identity'
  BY <1>2, <1>4
<1> QED BY <1>2, <1>6, <1>7, <1>9, <1>10 DEF BuildInv, Builds, Loads, c

\* What is sent is of the build that is installed, and the line loses at most its head.
LEMMA BuildSent ==
    ASSUME TypeOK, BuildInv, build' = build, AppliesFirst \/ Waiting' = Waiting,
           Quiet \/ \E e \in EngineCommand : Sends(e)
    PROVE  BuildInv'
<1>1. UNCHANGED <<identity, installed, source>>
  BY DEF Quiet, Sends
<1>2. Builds(Waiting)'
  <2>1. CASE AppliesFirst
    <3>1. /\ Len(Waiting) \in Nat \ {0} /\ Len(Waiting') = Len(Waiting) - 1
          /\ \A i \in 1 .. Len(Waiting') : i + 1 \in 1 .. Len(Waiting) /\ Waiting'[i] = Waiting[i + 1]
      BY <2>1, LineTail
    <3>2. \A i, j \in 1 .. Len(Waiting') : i < j => i + 1 < j + 1
      BY <3>1
    <3> QED BY <1>1, <3>1, <3>2 DEF BuildInv, Builds
  <2>2. CASE Waiting' = Waiting
    BY <1>1, <2>2 DEF BuildInv, Builds
  <2> QED BY <2>1, <2>2
<1>3. /\ \A i \in 1 .. Len(engineQ') : engineQ'[i].id <= identity'
      /\ \A i \in Loads' : engineQ'[i].id # 0
  <2>1. CASE Quiet
    BY <1>1, <2>1 DEF BuildInv, Quiet, Loads
  <2>2. ASSUME NEW e \in EngineCommand, Sends(e)
        PROVE  /\ \A i \in 1 .. Len(engineQ') : engineQ'[i].id <= identity'
               /\ \A i \in Loads' : engineQ'[i].id # 0
    <3>1. identity \in Nat /\ e.id <= identity /\ e.op # "LoadModule"
      BY <2>2 DEF Sends, TypeOK
    <3>2. ASSUME NEW i \in 1 .. Len(engineQ')
          PROVE  /\ engineQ'[i].id <= identity'
                 /\ engineQ'[i].op = "LoadModule" => engineQ'[i].id # 0
      BY <1>1, <2>2, <3>1, RingGrows DEF BuildInv, Loads
    <3> QED BY <3>2 DEF Loads
  <2> QED BY <2>1, <2>2
<1> QED BY <1>1, <1>2, <1>3 DEF BuildInv

\* The callback keeps the builds in order: it installs the first of the line or none.
LEMMA BuildAudio ==
    ASSUME TypeOK, BuildInv, Audio
    PROVE  BuildInv'
<1>1. build' = build
  BY AudioTakes
<1>2. CASE EngineStep /\ Waiting' = Waiting
  <2>1. UNCHANGED <<identity, installed, source>>
    BY <1>2, RingTail
  <2>2. /\ \A i \in 1 .. Len(engineQ') : i + 1 \in 1 .. Len(engineQ) /\ engineQ'[i] = engineQ[i + 1]
    BY <1>2, RingTail
  <2>3. /\ \A i \in 1 .. Len(engineQ') : engineQ'[i].id <= identity'
        /\ \A i \in Loads' : engineQ'[i].id # 0
    BY <2>1, <2>2 DEF BuildInv, Loads
  <2> QED BY <1>1, <1>2, <2>1, <2>3 DEF BuildInv, Builds
<1>3. CASE AppliesFirst /\ Loading(Upcoming) /\ Upcoming.op = "Load"
  BY <1>1, <1>3, BuildInstalled
<1>4. CASE (AppliesFirst \/ Waiting' = Waiting) /\ (Quiet \/ \E e \in EngineCommand : Sends(e))
  BY <1>1, <1>4, BuildSent
<1>5. Interactive(identity, "Stopped") \in EngineCommand
  BY CommandTypes DEF TypeOK, States
<1> QED BY <1>2, <1>3, <1>4, <1>5, AudioKinds

\* The control side numbers its builds upwards.
LEMMA BuildControl ==
    ASSUME TypeOK, BuildInv, Control
    PROVE  BuildInv'
<1>1. PICK group : Issues(group) /\ Made(group)
  BY ControlIssues
<1>2. UNCHANGED <<engineQ, identity, installed, source>>
  BY DEF Control, Transport, FinishLoad, FinishReplacement, EngineEdit, PlaybackBarrier, LoadFresh,
         LoadReplacement, ControlPush, CancelLoad, ReadApplied, CollectGarbage, AudioUnchanged,
         hostVars, engineVars
<1>3. build' \in {build, build + 1} /\ build \in Nat /\ identity \in Nat
  BY <1>1 DEF Made, TypeOK
<1>4. /\ Len(Waiting) \in Nat /\ Len(group) \in Nat
      /\ Len(Waiting') = Len(Waiting) + Len(group)
      /\ \A i \in 1 .. Len(Waiting) : i \in 1 .. Len(Waiting') /\ Waiting'[i] = Waiting[i]
      /\ \A i \in 1 .. Len(Waiting') :
            i > Len(Waiting) => /\ i - Len(Waiting) \in 1 .. Len(group)
                                /\ Waiting'[i] = group[i - Len(Waiting)]
  BY <1>1, LineGrows
<1>5. \A i \in 1 .. Len(group) :
         group[i].op = "Load" => i = 1 /\ group[i].id = build + 1 /\ build' = build + 1
  BY <1>1 DEF Made
<1>6. /\ \A i, j \in 1 .. Len(Waiting) :
            i < j /\ Waiting[i].op = "Load" /\ Waiting[j].op = "Load" => Waiting[i].id < Waiting[j].id
      /\ \A i \in 1 .. Len(Waiting) :
            Waiting[i].op = "Load" => identity < Waiting[i].id /\ Waiting[i].id <= build
      /\ identity <= build
  BY DEF BuildInv, Builds
<1>7. \A i \in 1 .. Len(Waiting) : Waiting[i].id \in Nat
  <2>1. \A i \in 1 .. Len(Waiting) : Waiting[i] \in HostCommand
    BY WaitingType, ElementOfSeq
  <2> QED BY <2>1 DEF HostCommand
<1>8. \A i \in 1 .. Len(Waiting') : Waiting'[i].op = "Load" =>
         \/ /\ i \in 1 .. Len(Waiting) /\ Waiting'[i] = Waiting[i]
            /\ identity < Waiting[i].id /\ Waiting[i].id <= build
         \/ i = Len(Waiting) + 1 /\ Waiting'[i].id = build + 1 /\ build' = build + 1
  <2> SUFFICES ASSUME NEW i \in 1 .. Len(Waiting'), Waiting'[i].op = "Load"
               PROVE  \/ /\ i \in 1 .. Len(Waiting) /\ Waiting'[i] = Waiting[i]
                         /\ identity < Waiting[i].id /\ Waiting[i].id <= build
                      \/ /\ i = Len(Waiting) + 1 /\ Waiting'[i].id = build + 1
                         /\ build' = build + 1
    OBVIOUS
  <2>1. CASE i \in 1 .. Len(Waiting)
    BY <1>4, <1>6, <2>1
  <2>2. CASE i > Len(Waiting)
    BY <1>4, <1>5, <2>2
  <2> QED BY <1>4, <2>1, <2>2
<1>9. Builds(Waiting)'
  <2>1. ASSUME NEW i \in 1 .. Len(Waiting'), Waiting'[i].op = "Load"
        PROVE  identity' < Waiting'[i].id /\ Waiting'[i].id <= build'
    BY <1>2, <1>3, <1>6, <1>7, <1>8, <2>1
  <2>2. ASSUME NEW i \in 1 .. Len(Waiting'), NEW j \in 1 .. Len(Waiting'), i < j,
               Waiting'[i].op = "Load", Waiting'[j].op = "Load"
        PROVE  Waiting'[i].id < Waiting'[j].id
    <3>1. i \in Nat /\ j \in Nat
      BY <1>4
    <3>2. CASE j \in 1 .. Len(Waiting)
      BY <1>4, <1>6, <1>8, <2>2, <3>1, <3>2
    <3>3. CASE j = Len(Waiting) + 1 /\ Waiting'[j].id = build + 1
      <4>1. i \in 1 .. Len(Waiting)
        BY <1>4, <2>2, <3>1, <3>3
      <4>2. Waiting'[i].id <= build /\ Waiting'[i].id \in Nat
        BY <1>4, <1>6, <1>7, <2>2, <4>1
      <4> QED BY <1>3, <3>3, <4>2
    <3> QED BY <1>8, <2>2, <3>2, <3>3
  <2> QED BY <2>1, <2>2 DEF Builds
<1> QED BY <1>2, <1>3, <1>6, <1>9 DEF BuildInv, Loads

\* No build has been made at the start.
LEMMA BuildInit == Init => BuildInv
<1> SUFFICES ASSUME Init PROVE BuildInv
  OBVIOUS
<1>1. Waiting = <<>>
  BY ConcatEmptySeq, EmptySeq DEF Init, Waiting
<1>2. Len(Waiting) = 0 /\ Len(engineQ) = 0
  BY <1>1, EmptySeq DEF Init
<1>3. identity = 0 /\ build = 0 /\ installed = 0 /\ source = 0
  BY DEF Init
<1> QED BY <1>2, <1>3 DEF BuildInv, Builds, Loads

\* A stutter leaves the builds alone.
LEMMA BuildStutter == BuildInv /\ UNCHANGED vars => BuildInv'
BY DEF BuildInv, Builds, Loads, vars, playerVars, hostVars, engineVars, Waiting

\* Builds are installed in the order they were made, and nothing sent is ahead of them.
THEOREM BuildsInOrder == Spec => []BuildInv
<1>1. TypeOK /\ BuildInv /\ [Next]_vars => BuildInv'
  BY BuildAudio, BuildControl, BuildStutter DEF Next
<1> QED BY <1>1, BuildInit, TypeCorrect, PTL DEF Spec

-----------------------------------------------------------------------------
(* Every value made is in one place *)

\* The values behind what waits, behind what the engine has been sent, and in use.
Owed == 2 * Count(Waiting, "Load") + Count(Waiting, "Selections")
InEngine == Count(engineQ, "LoadModule") + (IF module = 0 THEN 0 ELSE 1)

\* What is owed and what the engine holds are numbers.
LEMMA OwedNat ==
    ASSUME TypeOK
    PROVE  /\ Count(Waiting, "Load") \in Nat /\ Count(Waiting, "Selections") \in Nat
           /\ Count(engineQ, "LoadModule") \in Nat /\ Owed \in Nat /\ InEngine \in Nat
<1>1. /\ Count(Waiting, "Load") \in Nat /\ Count(Waiting, "Selections") \in Nat
      /\ Count(engineQ, "LoadModule") \in Nat
  BY WaitingType, CountNat DEF TypeOK
<1> QED BY <1>1 DEF Owed, InEngine

\* Applying the first command takes the value behind it off the line.
LEMMA OwedTaken ==
    ASSUME TypeOK, AppliesFirst
    PROVE  /\ Owed = Owed' + (IF Upcoming.op = "Load" THEN 2
                              ELSE IF Upcoming.op = "Selections" THEN 1 ELSE 0)
           /\ Owed' \in Nat
<1>1. /\ Waiting \in Seq(HostCommand) /\ Waiting # <<>> /\ Upcoming = Head(Waiting)
      /\ Waiting' = Tail(Waiting) /\ Tail(Waiting) \in Seq(HostCommand)
  BY WaitingType, HeadTailProperties DEF AppliesFirst
<1>2. \A op : Count(Waiting, op) = Count(Tail(Waiting), op) + (IF Upcoming.op = op THEN 1 ELSE 0)
  BY <1>1, CountHead
<1>3. \A op : Count(Tail(Waiting), op) \in Nat
  BY <1>1, CountNat
<1>4. /\ Count(Waiting, "Load")
           = Count(Tail(Waiting), "Load") + (IF Upcoming.op = "Load" THEN 1 ELSE 0)
      /\ Count(Waiting, "Selections")
           = Count(Tail(Waiting), "Selections") + (IF Upcoming.op = "Selections" THEN 1 ELSE 0)
      /\ Count(Tail(Waiting), "Load") \in Nat /\ Count(Tail(Waiting), "Selections") \in Nat
  BY <1>2, <1>3
<1>5. Owed' = 2 * Count(Tail(Waiting), "Load") + Count(Tail(Waiting), "Selections")
  BY <1>1 DEF Owed
<1> QED BY <1>4, <1>5 DEF Owed

\* A load applied sends one module; nothing else does.
LEMMA PlayingSent ==
    ASSUME TypeOK
    PROVE  /\ Quiet => InEngine' = InEngine
           /\ \A e \in EngineCommand : Sends(e) => InEngine' = InEngine
           /\ \A c \in HostCommand : c.op = "Load" /\ Loading(c) => InEngine' = InEngine + 1
<1>1. engineQ \in Seq(EngineCommand) /\ InEngine \in Nat /\ Count(engineQ, "LoadModule") \in Nat
  BY OwedNat DEF TypeOK
<1>2. ASSUME Quiet PROVE InEngine' = InEngine
  BY <1>2 DEF Quiet, InEngine
<1>3. ASSUME NEW e \in EngineCommand, Sends(e) PROVE InEngine' = InEngine
  <2>1. <<e>> \in Seq(EngineCommand) /\ e.op # "LoadModule"
    BY <1>3 DEF Sends
  <2>2. engineQ' = engineQ \o <<e>>
    BY <1>1, <1>3, AppendIsConcat DEF Sends
  <2>3. Count(engineQ \o <<e>>, "LoadModule")
           = Count(engineQ, "LoadModule") + Count(<<e>>, "LoadModule")
    BY <1>1, <2>1, CountConcat
  <2>4. Count(<<e>>, "LoadModule") = 0
    BY <2>1, CountOne
  <2>5. module' = module
    BY <1>3 DEF Sends
  <2>6. Count(engineQ, "LoadModule")' = Count(engineQ, "LoadModule")
    BY <1>1, <2>2, <2>3, <2>4
  <2> QED BY <2>5, <2>6 DEF InEngine
<1>4. ASSUME NEW c \in HostCommand, c.op = "Load", Loading(c) PROVE InEngine' = InEngine + 1
  <2>1. /\ LoadModule(c.id) \in EngineCommand /\ LoadModule(c.id).op = "LoadModule"
        /\ Interactive(c.id, "Stopped") \in EngineCommand
        /\ Interactive(c.id, "Stopped").op # "LoadModule"
        /\ Interactive(c.id, "Paused") \in EngineCommand
        /\ Interactive(c.id, "Paused").op # "LoadModule"
    BY CommandTypes DEF HostCommand, LoadModule, Interactive, States
  <2>2. Paired(c) \in Seq(EngineCommand) /\ Count(Paired(c), "LoadModule") = 0
    <3>1. \/ Paired(c) = <<>> \/ Paired(c) = <<Interactive(c.id, "Stopped")>>
          \/ Paired(c) = <<Interactive(c.id, "Paused")>>
      BY <1>4 DEF HostCommand, Paired
    <3>2. <<>> \in Seq(EngineCommand) /\ Count(<<>>, "LoadModule") = 0
      BY EmptySeq, CountNone
    <3>3. ASSUME NEW e \in EngineCommand, e.op # "LoadModule"
          PROVE  <<e>> \in Seq(EngineCommand) /\ Count(<<e>>, "LoadModule") = 0
      BY <3>3, CountOne
    <3>4. <<Interactive(c.id, "Stopped")>> \in Seq(EngineCommand)
          /\ Count(<<Interactive(c.id, "Stopped")>>, "LoadModule") = 0
      BY <2>1, <3>3
    <3>5. <<Interactive(c.id, "Paused")>> \in Seq(EngineCommand)
          /\ Count(<<Interactive(c.id, "Paused")>>, "LoadModule") = 0
      BY <2>1, <3>3
    <3> QED BY <3>1, <3>2, <3>4, <3>5
  <2> DEFINE load == <<LoadModule(c.id)>>
  <2>3. load \in Seq(EngineCommand) /\ Count(load, "LoadModule") = 1
    BY <2>1, CountOne
  <2>4. engineQ' = engineQ \o (load \o Paired(c)) /\ module' = module
    BY <1>4 DEF Loading
  <2> HIDE DEF load
  <2>5. /\ load \o Paired(c) \in Seq(EngineCommand)
        /\ Count(load \o Paired(c), "LoadModule") = 1
    <3>1. Count(load \o Paired(c), "LoadModule")
             = Count(load, "LoadModule") + Count(Paired(c), "LoadModule")
      BY <2>2, <2>3, CountConcat
    <3> QED BY <2>2, <2>3, <3>1, ConcatProperties
  <2>6. Count(engineQ \o (load \o Paired(c)), "LoadModule") = Count(engineQ, "LoadModule") + 1
    <3> DEFINE group == load \o Paired(c)
    <3>1. group \in Seq(EngineCommand) /\ Count(group, "LoadModule") = 1
      BY <2>5
    <3> HIDE DEF group
    <3>2. Count(engineQ \o group, "LoadModule")
             = Count(engineQ, "LoadModule") + Count(group, "LoadModule")
      BY <1>1, <3>1, CountConcat
    <3>3. Count(engineQ \o group, "LoadModule") = Count(engineQ, "LoadModule") + 1
      BY <3>1, <3>2
    <3> QED BY <3>3 DEF group
  <2>7. /\ Count(engineQ', "LoadModule") = Count(engineQ, "LoadModule") + 1
        /\ InEngine' = Count(engineQ', "LoadModule") + (IF module' = 0 THEN 0 ELSE 1)
    BY <2>4, <2>6 DEF InEngine
  <2> QED BY <1>1, <2>4, <2>7 DEF InEngine
<1> QED BY <1>2, <1>3, <1>4

\* The engine gives back one module for each it takes, except the first.
LEMMA PlayingTaken ==
    ASSUME TypeOK, BuildInv, EngineStep
    PROVE  InEngine' + garbage' + freed' = InEngine + garbage + freed /\ InEngine' \in Nat
<1>1. /\ engineQ \in Seq(EngineCommand) /\ engineQ # <<>> /\ engineQ' = Tail(engineQ)
      /\ Tail(engineQ) \in Seq(EngineCommand) /\ EngineApply(Head(engineQ))
      /\ Head(engineQ) = engineQ[1] /\ Len(engineQ) \in Nat \ {0}
  BY HeadTailProperties, EmptySeq DEF TypeOK, EngineStep
<1>2. Count(engineQ, "LoadModule")
        = Count(Tail(engineQ), "LoadModule") + (IF Head(engineQ).op = "LoadModule" THEN 1 ELSE 0)
  BY <1>1, CountHead
<1>3. /\ Count(engineQ, "LoadModule") \in Nat /\ Count(Tail(engineQ), "LoadModule") \in Nat
      /\ garbage \in Nat /\ freed \in Nat
  <2>1. Count(engineQ, "LoadModule") \in Nat /\ Count(Tail(engineQ), "LoadModule") \in Nat
    BY <1>1, CountNat
  <2>2. garbage \in Nat /\ freed \in Nat
    BY CapacityAssumption DEF TypeOK
  <2> QED BY <2>1, <2>2
<1>6. InEngine' = Count(Tail(engineQ), "LoadModule") + (IF module' = 0 THEN 0 ELSE 1)
  BY <1>1 DEF InEngine
<1>4. CASE Head(engineQ).op = "LoadModule"
  <2>1. 1 \in Loads
    BY <1>1, <1>4 DEF Loads
  <2>2. module' = Head(engineQ).id /\ Head(engineQ).id # 0
    BY <1>1, <1>4, <2>1 DEF EngineApply, BuildInv
  <2>3. garbage' + freed' = garbage + freed + (IF module = 0 THEN 0 ELSE 1)
    BY <1>1, <1>3, <1>4 DEF EngineApply
  <2>4. garbage' \in Nat /\ freed' \in Nat
    BY <1>1, <1>3, <1>4 DEF EngineApply
  <2>5. InEngine' = Count(Tail(engineQ), "LoadModule") + 1
    BY <1>6, <2>2
  <2>6. InEngine = Count(Tail(engineQ), "LoadModule") + 1 + (IF module = 0 THEN 0 ELSE 1)
    BY <1>2, <1>3, <1>4 DEF InEngine
  <2> DEFINE k == Count(Tail(engineQ), "LoadModule")
             m == IF module = 0 THEN 0 ELSE 1
             p == InEngine
             p1 == InEngine'
             g1 == garbage'
             f1 == freed'
  <2>7. k \in Nat /\ m \in Nat /\ g1 \in Nat /\ f1 \in Nat
    BY <1>3, <2>4
  <2>8. p1 = k + 1 /\ p = k + 1 + m
    BY <2>5, <2>6
  <2>9. g1 + f1 = garbage + freed + m
    BY <2>3, Zenon
  <2>10. p1 + g1 + f1 = p + garbage + freed /\ p1 \in Nat
    <3> HIDE DEF k, m, p, p1, g1, f1
    <3> QED BY <1>3, <2>7, <2>8, <2>9
  <2> QED BY <2>10, Zenon
<1>5. CASE Head(engineQ).op # "LoadModule"
  <2>1. UNCHANGED <<module, garbage, freed>>
    BY <1>1, <1>5 DEF EngineApply
  <2>2. /\ InEngine' = Count(Tail(engineQ), "LoadModule") + (IF module = 0 THEN 0 ELSE 1)
        /\ InEngine = Count(Tail(engineQ), "LoadModule") + (IF module = 0 THEN 0 ELSE 1)
    BY <1>2, <1>3, <1>5, <1>6, <2>1 DEF InEngine
  <2> QED BY <1>3, <2>1, <2>2
<1> QED BY <1>4, <1>5

Spread == allocated = Owed + InEngine + 1 + garbage + retired + collected + freed

\* Every value is in exactly one place: the property, with its sums by name.
LEMMA SpreadIsNothingLeaks == ASSUME TypeOK PROVE Spread <=> NothingLeaks
<1>1. /\ Count(Waiting, "Load") \in Nat /\ Count(Waiting, "Selections") \in Nat
      /\ Count(engineQ, "LoadModule") \in Nat
      /\ garbage \in Nat /\ retired \in Nat /\ collected \in Nat /\ freed \in Nat
  BY OwedNat, CapacityAssumption DEF TypeOK
<1> QED BY <1>1 DEF Spread, NothingLeaks, Owed, InEngine

\* Every step moves a value from one place to the next, or makes one that it sends.
LEMMA SpreadStep ==
    ASSUME TypeOK, TypeOK', BuildInv, Spread, [Next]_vars
    PROVE  Spread'
<1> DEFINE o == Owed
           p == InEngine
           o1 == Owed'
           p1 == InEngine'
           a1 == allocated'
           g1 == garbage'
           r1 == retired'
           k1 == collected'
           f1 == freed'
<1>1. /\ garbage \in Nat /\ retired \in Nat /\ collected \in Nat /\ freed \in Nat
      /\ g1 \in Nat /\ r1 \in Nat /\ k1 \in Nat /\ f1 \in Nat
      /\ o \in Nat /\ p \in Nat /\ allocated \in Nat
  BY OwedNat, CapacityAssumption DEF TypeOK
<1>2. allocated = o + p + 1 + garbage + retired + collected + freed
  BY DEF Spread
<1>3. SUFFICES a1 = o1 + p1 + 1 + g1 + r1 + k1 + f1
  BY Zenon DEF Spread
<1>4. ASSUME Audio PROVE a1 = o1 + p1 + 1 + g1 + r1 + k1 + f1
  <2>1. a1 = allocated /\ k1 = collected
    BY <1>4, AudioTakes
  <2>2. Waiting' = Waiting => o1 = o
    BY DEF Owed
  <2>3. CASE /\ AppliesFirst /\ Loading(Upcoming) /\ Upcoming.op = "Load"
             /\ garbage' = garbage /\ retired' + freed' = retired + freed + 1
    <3>1. Upcoming \in HostCommand
      BY <2>3, LineTail
    <3>2. o = o1 + 2 /\ o1 \in Nat /\ p1 = p + 1
      BY <2>3, <3>1, OwedTaken, PlayingSent
    <3>3. g1 = garbage /\ r1 + f1 = retired + freed + 1
      BY <2>3, Zenon
    <3> HIDE DEF o, p, o1, p1, a1, g1, r1, k1, f1
    <3> QED BY <1>1, <1>2, <2>1, <3>2, <3>3
  <2>4. CASE /\ AppliesFirst /\ Upcoming.op # "Load"
             /\ Quiet \/ \E e \in EngineCommand : Sends(e)
             /\ garbage' = garbage
             /\ retired' + freed' = retired + freed + (IF Upcoming.op = "Selections" THEN 1 ELSE 0)
    <3>1. o = o1 + (IF Upcoming.op = "Selections" THEN 1 ELSE 0) /\ o1 \in Nat /\ p1 = p
      BY <2>4, OwedTaken, PlayingSent
    <3>2. g1 = garbage /\ r1 + f1 = retired + freed + (IF Upcoming.op = "Selections" THEN 1 ELSE 0)
      BY <2>4, Zenon
    <3> HIDE DEF o, p, o1, p1, a1, g1, r1, k1, f1
    <3> QED BY <1>1, <1>2, <2>1, <3>1, <3>2
  <2>5. CASE Waiting' = Waiting /\ EngineStep
    <3>1. p1 + g1 + f1 = p + garbage + freed
      BY <2>5, PlayingTaken, Zenon
    <3>2. p1 \in Nat
      BY <2>5, PlayingTaken
    <3>3. r1 = retired
      BY <2>5, RingTail
    <3> HIDE DEF o, p, o1, p1, a1, g1, r1, k1, f1
    <3> QED BY <1>1, <1>2, <2>1, <2>2, <2>5, <3>1, <3>2, <3>3
  <2>6. CASE /\ Waiting' = Waiting
             /\ Quiet \/ Sends(Interactive(identity, "Stopped"))
             /\ garbage' + retired' + freed' = garbage + retired + freed
    <3>1. Interactive(identity, "Stopped") \in EngineCommand
      BY CommandTypes DEF TypeOK, States
    <3>2. p1 = p
      BY <2>6, <3>1, PlayingSent
    <3>3. g1 + r1 + f1 = garbage + retired + freed
      BY <2>6, Zenon
    <3> HIDE DEF o, p, o1, p1, a1, g1, r1, k1, f1
    <3> QED BY <1>1, <1>2, <2>1, <2>2, <2>6, <3>2, <3>3
  <2> HIDE DEF o, p, o1, p1, a1, g1, r1, k1, f1
  <2> QED BY <1>4, <2>3, <2>4, <2>5, <2>6, AudioKinds
<1>5. ASSUME Control PROVE a1 = o1 + p1 + 1 + g1 + r1 + k1 + f1
  <2>1. PICK group : Issues(group) /\ Made(group)
    BY <1>5, ControlIssues
  <2> DEFINE loads == Count(group, "Load")
             tables == Count(group, "Selections")
  <2>2. Waiting \in Seq(HostCommand) /\ group \in Seq(HostCommand) /\ Waiting' = Waiting \o group
    BY <2>1, WaitingType DEF Issues
  <2>3. /\ Count(Waiting \o group, "Load") = Count(Waiting, "Load") + loads
        /\ Count(Waiting \o group, "Selections") = Count(Waiting, "Selections") + tables
        /\ Count(Waiting, "Load") \in Nat /\ loads \in Nat
        /\ Count(Waiting, "Selections") \in Nat /\ tables \in Nat
    BY <2>2, CountConcat, CountNat
  <2>4. o1 = 2 * Count(Waiting \o group, "Load") + Count(Waiting \o group, "Selections")
    BY <2>2 DEF Owed
  <2>5. o1 = o + 2 * loads + tables
    <3>1. o = 2 * Count(Waiting, "Load") + Count(Waiting, "Selections")
      BY DEF Owed
    <3> HIDE DEF o, o1, loads, tables
    <3> QED BY <2>3, <2>4, <3>1
  <2>6. a1 = allocated + 2 * loads + tables
    BY <2>1, Zenon DEF Made
  <2>7. /\ r1 + k1 = retired + collected
        /\ g1 = garbage /\ f1 = freed /\ engineQ' = engineQ /\ module' = module
    BY <1>5, ControlIssues, Zenon
  <2>8. p1 = p
    BY <2>7 DEF InEngine
  <2> HIDE DEF o, p, o1, p1, a1, g1, r1, k1, f1, loads, tables
  <2> QED BY <1>1, <1>2, <2>3, <2>5, <2>6, <2>7, <2>8
<1>6. ASSUME UNCHANGED vars PROVE a1 = o1 + p1 + 1 + g1 + r1 + k1 + f1
  <2>1. /\ o1 = o /\ p1 = p /\ a1 = allocated /\ g1 = garbage /\ r1 = retired
        /\ k1 = collected /\ f1 = freed
    BY <1>6 DEF Owed, InEngine, vars, playerVars, hostVars, engineVars, Waiting
  <2> HIDE DEF o, p, o1, p1, a1, g1, r1, k1, f1
  <2> QED BY <1>2, <2>1
<1> HIDE DEF o, p, o1, p1, a1, g1, r1, k1, f1
<1> QED BY <1>4, <1>5, <1>6 DEF Next

\* Every module, installation and selection table ever made is on exactly one ring, in use,
\* or dropped.
THEOREM NothingEverLeaks == Spec => []NothingLeaks
<1>1. Init => Spread
  <2> SUFFICES ASSUME Init PROVE Spread
    OBVIOUS
  <2>1. Waiting = <<>> /\ engineQ = <<>>
    BY ConcatEmptySeq, EmptySeq DEF Init, Waiting
  <2>2. Owed = 0 /\ InEngine = 0
    BY <2>1, CountNone DEF Owed, InEngine, Init
  <2> QED BY <2>2 DEF Spread, Init
<1>2. TypeOK /\ TypeOK' /\ BuildInv /\ Spread /\ [Next]_vars => Spread'
  BY SpreadStep
<1>3. TypeOK /\ Spread => NothingLeaks
  BY SpreadIsNothingLeaks
<1> QED BY <1>1, <1>2, <1>3, BuildsInOrder, TypeCorrect, PTL DEF Spec

(***************************************************************************)
(* 5. The transport of the host, of the engine and of a source             *)
(*                                                                         *)
(* In the browser a command that is admitted finds its room in the engine  *)
(* ring (RoomInv), so that the restore behind a replacement is sent in the *)
(* quantum that installs the build.  What an accepted barrier answers for, *)
(* what a quantum sequences and who may play in it follow from that.       *)
(***************************************************************************)

-----------------------------------------------------------------------------
(* The samples of the source *)

\* The last module on the engine ring is that of the source; without one, the module the
\* engine has.
MemoryInStep ==
    \/ \E i \in Loads : engineQ[i].id = source /\ \A j \in Loads : j <= i
    \/ module = source /\ Loads = {}

\* A command that is no load leaves the modules in step.
LEMMA MemorySent ==
    ASSUME TypeOK, MemoryInStep, Quiet \/ \E e \in EngineCommand : Sends(e)
    PROVE  MemoryInStep'
<1>1. CASE Quiet
  BY <1>1 DEF Quiet, MemoryInStep, Loads
<1>2. ASSUME NEW e \in EngineCommand, Sends(e) PROVE MemoryInStep'
  <2>1. /\ Len(engineQ) \in Nat
        /\ \A i \in 1 .. Len(engineQ) : i \in 1 .. Len(engineQ') /\ engineQ'[i] = engineQ[i]
        /\ engineQ'[Len(engineQ) + 1] = e
        /\ \A i \in 1 .. Len(engineQ') : i \in 1 .. Len(engineQ) \/ i = Len(engineQ) + 1
        /\ e.op # "LoadModule" /\ module' = module /\ source' = source
    BY <1>2, RingGrows DEF Sends
  <2>2. Loads' = Loads /\ \A i \in Loads : engineQ'[i] = engineQ[i]
    BY <2>1 DEF Loads
  <2> QED BY <2>1, <2>2 DEF MemoryInStep
<1> QED BY <1>1, <1>2

\* A load sends the module of the source it installs, last.
LEMMA MemoryLoaded ==
    ASSUME TypeOK, NEW c \in HostCommand, c.op = "Load", Loading(c)
    PROVE  MemoryInStep'
<1>1. /\ Len(engineQ) \in Nat
      /\ Len(engineQ') = Len(engineQ) + (IF c.act = "keep" THEN 1 ELSE 2)
      /\ \A i \in 1 .. Len(engineQ') :
            i \in 1 .. Len(engineQ) \/ i = Len(engineQ) + 1 \/ i = Len(engineQ) + 2
      /\ Len(engineQ) + 1 \in 1 .. Len(engineQ')
      /\ engineQ'[Len(engineQ) + 1] = LoadModule(c.id)
      /\ c.act # "keep" => engineQ'[Len(engineQ) + 2] = Interactive(c.id, hostState')
  BY RingLoads
<1>2. /\ LoadModule(c.id).op = "LoadModule" /\ LoadModule(c.id).id = c.id
      /\ Interactive(c.id, hostState').op = "Interactive"
  BY DEF LoadModule, Interactive
<1>3. Len(engineQ) + 1 \in Loads' /\ engineQ'[Len(engineQ) + 1].id = source'
  BY <1>1, <1>2 DEF Loads, Loading
<1>4. ASSUME NEW j \in Loads' PROVE j <= Len(engineQ) + 1
  <2>1. j \in 1 .. Len(engineQ') /\ engineQ'[j].op = "LoadModule"
    BY DEF Loads
  <2>2. CASE j = Len(engineQ) + 2
    <3>1. c.act # "keep"
      BY <1>1, <2>1, <2>2
    <3> QED BY <1>1, <1>2, <2>1, <2>2, <3>1
  <2> QED BY <1>1, <2>1, <2>2
<1> QED BY <1>3, <1>4 DEF MemoryInStep

\* The engine takes over the first module of its ring: the last, or one that is followed.
LEMMA MemoryTaken ==
    ASSUME TypeOK, MemoryInStep, EngineStep
    PROVE  MemoryInStep'
<1>1. /\ Len(engineQ) \in Nat \ {0} /\ Len(engineQ') = Len(engineQ) - 1
      /\ \A i \in 1 .. Len(engineQ') : i + 1 \in 1 .. Len(engineQ) /\ engineQ'[i] = engineQ[i + 1]
      /\ 1 \in 1 .. Len(engineQ) /\ EngineApply(engineQ[1]) /\ source' = source
  BY RingTail
<1>2. \A i \in Loads' : i + 1 \in Loads /\ engineQ'[i] = engineQ[i + 1]
  BY <1>1 DEF Loads
<1>3. CASE Loads = {} /\ module = source
  <2>1. engineQ[1].op # "LoadModule"
    BY <1>1, <1>3 DEF Loads
  <2>2. module' = module
    BY <1>1, <2>1 DEF EngineApply
  <2> QED BY <1>1, <1>2, <1>3, <2>2 DEF MemoryInStep
<1>4. ASSUME NEW i \in Loads, engineQ[i].id = source, \A j \in Loads : j <= i
      PROVE  MemoryInStep'
  <2>1. i \in 1 .. Len(engineQ) /\ engineQ[i].op = "LoadModule"
    BY <1>4 DEF Loads
  <2>2. CASE i = 1
    <3>1. module' = source
      BY <1>1, <1>4, <2>1, <2>2 DEF EngineApply
    <3>2. ASSUME NEW j \in Loads' PROVE FALSE
      <4>1. j + 1 <= 1 /\ j \in 1 .. Len(engineQ')
        BY <1>2, <1>4, <2>2 DEF Loads
      <4> QED BY <1>1, <4>1
    <3> QED BY <1>1, <3>1, <3>2 DEF MemoryInStep
  <2>3. CASE i # 1
    <3>1. i - 1 \in 1 .. Len(engineQ') /\ (i - 1) + 1 = i
      BY <1>1, <2>1, <2>3
    <3>2. i - 1 \in Loads' /\ engineQ'[i - 1].id = source'
      BY <1>1, <1>4, <2>1, <3>1 DEF Loads
    <3>3. ASSUME NEW j \in Loads' PROVE j <= i - 1
      <4>1. j + 1 <= i /\ j \in 1 .. Len(engineQ')
        BY <1>2, <1>4 DEF Loads
      <4> QED BY <1>1, <2>1, <4>1
    <3> QED BY <3>2, <3>3 DEF MemoryInStep
  <2> QED BY <2>2, <2>3
<1> QED BY <1>3, <1>4 DEF MemoryInStep

\* The engine's samples follow its source.
LEMMA MemoryStep ==
    ASSUME TypeOK, MemoryInStep, Next
    PROVE  MemoryInStep'
<1>1. CASE Control
  BY <1>1 DEF Control, Transport, FinishLoad, FinishReplacement, EngineEdit, PlaybackBarrier,
         LoadFresh, LoadReplacement, ControlPush, CancelLoad, ReadApplied, CollectGarbage,
         AudioUnchanged, engineVars, MemoryInStep, Loads
<1>2. ASSUME AppliesFirst PROVE Upcoming \in HostCommand
  BY <1>2, LineTail
<1>3. Interactive(identity, "Stopped") \in EngineCommand
  BY CommandTypes DEF TypeOK, States
<1>4. CASE Audio
  BY <1>2, <1>3, <1>4, AudioKinds, MemorySent, MemoryLoaded, MemoryTaken
<1> QED BY <1>1, <1>4 DEF Next

\* The engine ends up with the samples of the source the audio half sequences: the load
\* of a build sends the module with the source it installs.
THEOREM MemoryFollowsSource == Spec => []MemoryInStep
<1>1. Init => MemoryInStep
  <2> SUFFICES ASSUME Init PROVE MemoryInStep
    OBVIOUS
  <2>1. Len(engineQ) = 0
    BY EmptySeq DEF Init
  <2> QED BY <2>1 DEF Init, MemoryInStep, Loads
<1>2. TypeOK /\ MemoryInStep /\ [Next]_vars => MemoryInStep'
  <2>1. MemoryInStep /\ UNCHANGED vars => MemoryInStep'
    BY DEF MemoryInStep, Loads, vars, engineVars
  <2> QED BY <2>1, MemoryStep
<1> QED BY <1>1, <1>2, TypeCorrect, PTL DEF Spec

-----------------------------------------------------------------------------
(* The transport of the host and of the engine *)

\* A command the engine will obey: a transport command of the build that is installed.
Effective(i) ==
    engineQ[i].op = "Interactive" /\ engineQ[i].act \in States /\ engineQ[i].id = identity

\* The last such command on the ring is the transport the host believes in; without one, the
\* engine has it already.
Agreed ==
    \/ \E i \in 1 .. Len(engineQ) :
          /\ Effective(i) /\ engineQ[i].act = hostState
          /\ \A j \in 1 .. Len(engineQ) : j > i => ~Effective(j)
    \/ engineState = hostState /\ \A i \in 1 .. Len(engineQ) : ~Effective(i)

\* Sending the transport the host believes in makes the two agree, an edit leaves them so.
LEMMA AgreedSent ==
    ASSUME TypeOK, NEW e \in EngineCommand, Sends(e), Agreed \/ e.act \in States
    PROVE  Agreed'
<1>0. PICK n \in Nat : n = Len(engineQ)
  BY LenProperties DEF TypeOK
<1>1. /\ Len(engineQ') = n + 1
      /\ \A i \in 1 .. n : i \in 1 .. Len(engineQ') /\ engineQ'[i] = engineQ[i]
      /\ engineQ'[n + 1] = e
      /\ \A i \in 1 .. Len(engineQ') : i \in 1 .. n \/ i = n + 1
  BY <1>0, RingGrows
<1>2. /\ identity' = identity /\ engineState' = engineState
      /\ e.op = "Interactive" => e.id = identity
      /\ e.op # "Interactive" => e.act = "edit"
      /\ hostState' = (IF e.act \in States THEN e.act ELSE hostState)
      /\ "edit" \notin States
  BY DEF Sends, States
<1>3. n + 1 \in 1 .. Len(engineQ')
  BY <1>1
<1>4. CASE e.act \in States
  <2>1. Effective(n + 1)' /\ engineQ'[n + 1].act = hostState'
    BY <1>1, <1>2, <1>4 DEF Effective
  <2>2. \A j \in 1 .. Len(engineQ') : ~(j > n + 1)
    BY <1>1
  <2> QED BY <1>3, <2>1, <2>2 DEF Agreed
<1>5. CASE e.act \notin States
  <2>1. /\ \A i \in 1 .. n : Effective(i)' <=> Effective(i)
        /\ ~Effective(n + 1)'
    BY <1>1, <1>2, <1>5 DEF Effective
  <2>2. CASE engineState = hostState /\ \A i \in 1 .. n : ~Effective(i)
    <3>1. \A i \in 1 .. Len(engineQ') : ~Effective(i)'
      BY <1>1, <2>1, <2>2
    <3> QED BY <1>2, <1>5, <2>2, <3>1 DEF Agreed
  <2>3. ASSUME NEW i \in 1 .. n, Effective(i), engineQ[i].act = hostState,
               \A j \in 1 .. n : j > i => ~Effective(j)
        PROVE  Agreed'
    <3>1. i \in 1 .. Len(engineQ') /\ Effective(i)' /\ engineQ'[i].act = hostState'
      BY <1>1, <1>2, <1>5, <2>1, <2>3
    <3>2. \A j \in 1 .. Len(engineQ') : j > i => ~Effective(j)'
      BY <1>1, <2>1, <2>3
    <3> QED BY <3>1, <3>2 DEF Agreed
  <2> QED BY <1>0, <1>5, <2>2, <2>3 DEF Agreed
<1> QED BY <1>4, <1>5

\* A load that does not keep the transport brings its own.
LEMMA AgreedLoaded ==
    ASSUME TypeOK, NEW c \in HostCommand, c.op = "Load", Loading(c), c.act # "keep"
    PROVE  Agreed'
<1>0. PICK n \in Nat : n = Len(engineQ)
  BY LenProperties DEF TypeOK
<1>1. /\ Len(engineQ') = n + 2
      /\ hostState' \in {"Stopped", "Paused"}
      /\ engineQ'[n + 2] = Interactive(c.id, hostState')
  BY <1>0, RingLoads
<1>2. identity' = c.id
  BY DEF Loading
<1>3. /\ n + 2 \in 1 .. Len(engineQ')
      /\ \A j \in 1 .. Len(engineQ') : ~(j > n + 2)
  BY <1>1
<1>4. Effective(n + 2)' /\ engineQ'[n + 2].act = hostState'
  BY <1>1, <1>2 DEF Effective, Interactive, States
<1> QED BY <1>3, <1>4 DEF Agreed

\* The engine obeys the first transport command: the last, or one that is followed.
LEMMA AgreedTaken ==
    ASSUME TypeOK, Agreed, EngineStep
    PROVE  Agreed'
<1>1. /\ Len(engineQ) \in Nat \ {0} /\ Len(engineQ') = Len(engineQ) - 1
      /\ \A i \in 1 .. Len(engineQ') : i + 1 \in 1 .. Len(engineQ) /\ engineQ'[i] = engineQ[i + 1]
      /\ 1 \in 1 .. Len(engineQ) /\ EngineApply(engineQ[1])
      /\ identity' = identity /\ hostState' = hostState
  BY RingTail
<1>2. \A i \in 1 .. Len(engineQ') : Effective(i)' <=> Effective(i + 1)
  BY <1>1 DEF Effective
<1>3. engineState' = IF Effective(1) THEN engineQ[1].act ELSE engineState
  BY <1>1 DEF EngineApply, Effective
<1>4. CASE engineState = hostState /\ \A i \in 1 .. Len(engineQ) : ~Effective(i)
  BY <1>1, <1>2, <1>3, <1>4 DEF Agreed
<1>5. ASSUME NEW i \in 1 .. Len(engineQ), Effective(i), engineQ[i].act = hostState,
             \A j \in 1 .. Len(engineQ) : j > i => ~Effective(j)
      PROVE  Agreed'
  <2>1. CASE i = 1
    <3>1. \A j \in 1 .. Len(engineQ') : ~Effective(j)'
      BY <1>1, <1>2, <1>5, <2>1
    <3> QED BY <1>1, <1>3, <1>5, <2>1, <3>1 DEF Agreed
  <2>2. CASE i # 1
    <3>1. i - 1 \in 1 .. Len(engineQ') /\ (i - 1) + 1 = i
      BY <1>1, <2>2
    <3>2. Effective(i - 1)' /\ engineQ'[i - 1].act = hostState'
      BY <1>1, <1>2, <1>5, <3>1
    <3>3. \A j \in 1 .. Len(engineQ') : j > i - 1 => ~Effective(j)'
      BY <1>1, <1>2, <1>5
    <3> QED BY <3>1, <3>2, <3>3 DEF Agreed
  <2> QED BY <2>1, <2>2
<1> QED BY <1>4, <1>5 DEF Agreed

\* Host and engine agree on the transport, on the way or at once, unless a load keeps it.
LEMMA AgreedStep ==
    ASSUME TypeOK, Agreed, Next,
           ~(AppliesFirst /\ Upcoming.op = "Load" /\ Upcoming.act = "keep")
    PROVE  Agreed'
<1>1. CASE Control
  BY <1>1 DEF Control, Transport, FinishLoad, FinishReplacement, EngineEdit, PlaybackBarrier,
         LoadFresh, LoadReplacement, ControlPush, CancelLoad, ReadApplied, CollectGarbage,
         AudioUnchanged, engineVars, hostVars, Agreed, Effective
<1>2. ASSUME AppliesFirst PROVE Upcoming \in HostCommand
  BY <1>2, LineTail
<1>3. Interactive(identity, "Stopped") \in EngineCommand
  BY CommandTypes DEF TypeOK, States
<1>4. ASSUME Quiet PROVE Agreed'
  BY <1>4 DEF Quiet, Agreed, Effective
<1>5. CASE Audio
  BY <1>2, <1>3, <1>4, <1>5, AudioKinds, AgreedSent, AgreedLoaded, AgreedTaken
<1> QED BY <1>1, <1>5 DEF Next

-----------------------------------------------------------------------------
(* A load that keeps the transport *)

\* Behind every load that keeps the transport comes the restore of its build, and such loads
\* come from replacements only.
KeepPlan ==
    \A i \in 1 .. Len(Waiting) :
       Waiting[i].op = "Load" /\ Waiting[i].act = "keep" =>
          RestoreFollows(Waiting, i) /\ "replace" \in Ops

\* Taking the first command leaves each load that keeps the transport its restore.
LEMMA PlanTaken ==
    ASSUME TypeOK, KeepPlan, AppliesFirst
    PROVE  KeepPlan'
<1>1. /\ Len(Waiting) \in Nat \ {0} /\ Len(Waiting') = Len(Waiting) - 1
      /\ \A i \in 1 .. Len(Waiting') : i + 1 \in 1 .. Len(Waiting) /\ Waiting'[i] = Waiting[i + 1]
  BY LineTail
<1> SUFFICES ASSUME NEW i \in 1 .. Len(Waiting'),
                    Waiting'[i].op = "Load", Waiting'[i].act = "keep"
             PROVE  RestoreFollows(Waiting', i) /\ "replace" \in Ops
  BY DEF KeepPlan
<1>2. i \in Nat /\ Waiting'[i] = Waiting[i + 1]
  BY <1>1
<1>3. RestoreFollows(Waiting, i + 1) /\ "replace" \in Ops
  BY <1>1, <1>2 DEF KeepPlan
<1>4. /\ (i + 1) + 3 <= Len(Waiting)
      /\ Waiting[(i + 1) + 1].op # "Load" /\ Waiting[(i + 1) + 2].op # "Load"
      /\ Waiting[(i + 1) + 3].op = "Restore" /\ Waiting[(i + 1) + 3].id = Waiting[i + 1].id
      /\ Waiting[(i + 1) + 3].mark = 0 /\ Waiting[(i + 1) + 3].act \in States
  BY <1>3 DEF RestoreFollows
<1>5. /\ i + 1 \in 1 .. Len(Waiting') /\ i + 2 \in 1 .. Len(Waiting')
      /\ i + 3 \in 1 .. Len(Waiting') /\ i + 3 <= Len(Waiting')
  BY <1>1, <1>2, <1>4
<1>6. /\ Waiting'[i + 1] = Waiting[(i + 1) + 1] /\ Waiting'[i + 2] = Waiting[(i + 2) + 1]
      /\ Waiting'[i + 3] = Waiting[(i + 3) + 1]
  BY <1>1, <1>5
<1>7. (i + 2) + 1 = (i + 1) + 2 /\ (i + 3) + 1 = (i + 1) + 3
  BY <1>2
<1>8. /\ Waiting'[i + 1] = Waiting[(i + 1) + 1] /\ Waiting'[i + 2] = Waiting[(i + 1) + 2]
      /\ Waiting'[i + 3] = Waiting[(i + 1) + 3] /\ i + 3 <= Len(Waiting')
  BY <1>5, <1>6, <1>7
<1> QED BY <1>2, <1>3, <1>4, <1>8 DEF RestoreFollows

\* A replacement issues the load and its restore together, behind everything else.
LEMMA PlanIssued ==
    ASSUME TypeOK, KeepPlan, NEW group, Issues(group), Made(group)
    PROVE  KeepPlan'
<1>0. PICK n \in Nat : n = Len(Waiting)
  BY WaitingType, LenProperties
<1>1. /\ Len(group) \in Nat /\ Len(Waiting') = n + Len(group)
      /\ \A i \in 1 .. n : i \in 1 .. Len(Waiting') /\ Waiting'[i] = Waiting[i]
      /\ \A i \in 1 .. Len(Waiting') :
            i > n => i - n \in 1 .. Len(group) /\ Waiting'[i] = group[i - n]
  BY <1>0, LineGrows
<1> SUFFICES ASSUME NEW i \in 1 .. Len(Waiting'),
                    Waiting'[i].op = "Load", Waiting'[i].act = "keep"
             PROVE  RestoreFollows(Waiting', i) /\ "replace" \in Ops
  BY DEF KeepPlan
<1>2. i \in Nat
  BY <1>1
<1>3. CASE i \in 1 .. n
  <2>1. Waiting'[i] = Waiting[i] /\ RestoreFollows(Waiting, i) /\ "replace" \in Ops
    BY <1>0, <1>1, <1>3 DEF KeepPlan
  <2>2. /\ i + 3 <= n
        /\ Waiting[i + 1].op # "Load" /\ Waiting[i + 2].op # "Load"
        /\ Waiting[i + 3].op = "Restore" /\ Waiting[i + 3].id = Waiting[i].id
        /\ Waiting[i + 3].mark = 0 /\ Waiting[i + 3].act \in States
    BY <1>0, <2>1 DEF RestoreFollows
  <2>3. i + 1 \in 1 .. n /\ i + 2 \in 1 .. n /\ i + 3 \in 1 .. n /\ i + 3 <= Len(Waiting')
    BY <1>1, <1>2, <2>2
  <2> QED BY <1>1, <2>1, <2>2, <2>3 DEF RestoreFollows
<1>4. CASE i > n
  <2>1. i - n \in 1 .. Len(group) /\ Waiting'[i] = group[i - n]
    BY <1>1, <1>4
  <2>2. i - n = 1 /\ RestoreFollows(group, 1) /\ "replace" \in Ops
    BY <2>1 DEF Made
  <2>3. /\ 1 + 3 <= Len(group)
        /\ group[1 + 1].op # "Load" /\ group[1 + 2].op # "Load"
        /\ group[1 + 3].op = "Restore" /\ group[1 + 3].id = group[1].id
        /\ group[1 + 3].mark = 0 /\ group[1 + 3].act \in States
    BY <2>2 DEF RestoreFollows
  <2>4. /\ i + 1 \in 1 .. Len(Waiting') /\ i + 2 \in 1 .. Len(Waiting')
        /\ i + 3 \in 1 .. Len(Waiting') /\ i + 3 <= Len(Waiting')
        /\ i + 1 > n /\ i + 2 > n /\ i + 3 > n
        /\ (i + 1) - n = 1 + 1 /\ (i + 2) - n = 1 + 2 /\ (i + 3) - n = 1 + 3
    BY <1>1, <1>2, <2>1, <2>2, <2>3
  <2>5. /\ Waiting'[i] = group[1] /\ Waiting'[i + 1] = group[1 + 1]
        /\ Waiting'[i + 2] = group[1 + 2] /\ Waiting'[i + 3] = group[1 + 3]
    BY <1>1, <2>1, <2>2, <2>4
  <2> QED BY <2>2, <2>3, <2>4, <2>5 DEF RestoreFollows
<1> QED BY <1>1, <1>2, <1>3, <1>4

\* No step comes between a load that keeps the transport and its restore.
LEMMA PlanStep ==
    ASSUME TypeOK, KeepPlan, Next
    PROVE  KeepPlan'
<1>1. CASE Control
  BY <1>1, ControlIssues, PlanIssued
<1>2. CASE Audio
  <2>1. AppliesFirst \/ Waiting' = Waiting
    BY <1>2, AudioTakes
  <2>2. Waiting' = Waiting => KeepPlan'
    BY DEF KeepPlan
  <2> QED BY <2>1, <2>2, PlanTaken
<1> QED BY <1>1, <1>2 DEF Next

\* A load that keeps the transport is followed by what restores it.
THEOREM RestorePlanned == Spec => []KeepPlan
<1>1. Init => KeepPlan
  <2> SUFFICES ASSUME Init PROVE KeepPlan
    OBVIOUS
  <2>1. Waiting = <<>>
    BY ConcatEmptySeq, EmptySeq DEF Init, Waiting
  <2>2. Len(Waiting) = 0
    BY <2>1, EmptySeq
  <2> QED BY <2>2 DEF KeepPlan
<1>2. TypeOK /\ KeepPlan /\ [Next]_vars => KeepPlan'
  <2>1. KeepPlan /\ UNCHANGED vars => KeepPlan'
    BY DEF KeepPlan, vars, playerVars, hostVars, Waiting
  <2> QED BY <2>1, PlanStep
<1> QED BY <1>1, <1>2, TypeCorrect, PTL DEF Spec

\* Without replacements host and engine always agree.
LEMMA AgreedWithoutReplacements ==
    ASSUME "replace" \notin Ops
    PROVE  Spec => []Agreed
<1>1. Init => Agreed
  <2> SUFFICES ASSUME Init PROVE Agreed
    OBVIOUS
  <2>1. Len(engineQ) = 0
    BY EmptySeq DEF Init
  <2> QED BY <2>1 DEF Init, Agreed
<1>2. TypeOK /\ KeepPlan /\ Agreed /\ [Next]_vars => Agreed'
  <2> SUFFICES ASSUME TypeOK, KeepPlan, Agreed, [Next]_vars PROVE Agreed'
    OBVIOUS
  <2>1. ASSUME AppliesFirst PROVE ~(Upcoming.op = "Load" /\ Upcoming.act = "keep")
    <3>1. 1 \in 1 .. Len(Waiting) /\ Upcoming = Waiting[1]
      BY <2>1, LineTail
    <3> QED BY <3>1 DEF KeepPlan
  <2>2. CASE Next
    BY <2>1, <2>2, AgreedStep
  <2>3. CASE UNCHANGED vars
    BY <2>3 DEF Agreed, Effective, vars, engineVars, hostVars
  <2> QED BY <2>2, <2>3
<1> QED BY <1>1, <1>2, RestorePlanned, TypeCorrect, PTL DEF Spec

-----------------------------------------------------------------------------
(* The room the gate leaves *)

\* The browser's host: one thread, every edit admitted by can_admit_browser_batch, and an
\* engine ring and a drain of at least eight (64 and 32 in the shipped build).
Worklet == Gated /\ SingleRealm /\ EngineCapacity >= 8 /\ EngineDrain >= 8

\* How many engine commands one quantum can send and the engine can take.
Limit == IF EngineCapacity < EngineDrain THEN EngineCapacity ELSE EngineDrain

\* What waits can be sent in one quantum and leaves four slots.
LineRoom ==
    /\ Weight(Waiting) + 4 <= Limit
    /\ build = 0 => 2 * Weight(Waiting) + 3 <= Limit
    /\ phase # "idle" => todo = <<>>
    /\ Weight(held) = 0

\* Each quantum empties the engine ring, of which it fills no more than it can.
RingRoom ==
    /\ phase \in {"idle", "collect", "end", "ack"} => Len(engineQ) <= 1
    /\ phase = "drain" => Len(engineQ) + Weight(Waiting) + (IF loaded THEN 0 ELSE 2) + 1 <= Limit
    /\ phase = "arm" => Len(engineQ) + 1 <= Limit
    /\ phase = "engine" => Len(engineQ) <= left
    /\ phase = "settle" => Len(engineQ) = 0

\* The room of the line and that of the ring.
RoomInv == LineRoom /\ RingRoom

\* What is weighed are numbers.
LEMMA WeightNat ==
    ASSUME TypeOK
    PROVE  /\ Weight(Waiting) \in Nat /\ Weight(held) \in Nat /\ Len(engineQ) \in Nat
           /\ EngineCapacity \in Nat /\ EngineDrain \in Nat /\ Limit \in Nat
           /\ Limit <= EngineCapacity /\ Limit <= EngineDrain
<1>1. Weight(Waiting) \in Nat /\ Weight(held) \in Nat
  BY WaitingType, TallyNat DEF Weight
<1>2. Len(engineQ) \in Nat /\ EngineCapacity \in Nat /\ EngineDrain \in Nat
  BY LenProperties, CapacityAssumption DEF TypeOK
<1> QED BY <1>1, <1>2 DEF Limit

\* The head of the line weighs one if it sends a command, nothing otherwise.
LEMMA WeightTaken ==
    ASSUME TypeOK, AppliesFirst
    PROVE  /\ Weight(Waiting) = Weight(Waiting') + (IF Upcoming.op \in Sending THEN 1 ELSE 0)
           /\ Weight(Waiting') \in Nat
<1>1. /\ Waiting \in Seq(HostCommand) /\ Waiting # <<>> /\ Upcoming = Head(Waiting)
      /\ Waiting' = Tail(Waiting) /\ Tail(Waiting) \in Seq(HostCommand)
  BY WaitingType, HeadTailProperties DEF AppliesFirst
<1>2. Weight(Waiting) = Weight(Tail(Waiting)) + (IF Head(Waiting).op \in Sending THEN 1 ELSE 0)
  BY <1>1, TallyHead DEF Weight
<1>3. Weight(Tail(Waiting)) \in Nat
  BY <1>1, TallyNat DEF Weight
<1> QED BY <1>1, <1>2, <1>3

\* Under the gate a command that is applied finds its room.
LEMMA RoomToSend ==
    ASSUME TypeOK, RoomInv, AppliesFirst
    PROVE  EngineRoom > 0
<1>1. phase = "drain"
  BY DEF AppliesFirst, DrainApply
<1>2. Len(engineQ) + Weight(Waiting) + (IF loaded THEN 0 ELSE 2) + 1 <= Limit
  BY <1>1 DEF RoomInv, RingRoom
<1> QED BY <1>2, WeightNat DEF EngineRoom

\* Applying the first command moves its weight from the line to the ring.
LEMMA RoomApplied ==
    ASSUME TypeOK, RoomInv, AppliesFirst, Audio
    PROVE  RoomInv'
<1> DEFINE w == Weight(Waiting)
           n == Len(engineQ)
           w1 == Weight(Waiting')
           n1 == Len(engineQ')
           k == IF loaded THEN 0 ELSE 2
           k1 == IF loaded' THEN 0 ELSE 2
<1>1. /\ phase = "drain" /\ phase' = "drain" /\ todo' = todo /\ build' = build
      /\ loaded' = (loaded \/ Upcoming.op = "Load")
      /\ held' = IF FromHeld THEN <<>> ELSE held
  BY DEF AppliesFirst, DrainApply, PlayerUnchanged, playerVars
<1>2. /\ w + 4 <= Limit /\ (build = 0 => 2 * w + 3 <= Limit) /\ todo = <<>>
      /\ Weight(held) = 0
      /\ n + w + k + 1 <= Limit
  BY <1>1 DEF RoomInv, LineRoom, RingRoom
<1>3. w = w1 + (IF Upcoming.op \in Sending THEN 1 ELSE 0) /\ w1 \in Nat
  BY WeightTaken
<1>4. w \in Nat /\ n \in Nat /\ Limit \in Nat
  BY WeightNat
<1>5. Weight(held') = 0
  BY <1>1, <1>2, TallyNone DEF Weight
<1>6. /\ n1 \in Nat
      /\ \/ Upcoming.op = "Load" /\ ~loaded /\ n1 <= n + 2
         \/ Upcoming.op # "Load" /\ n1 <= n
         \/ Upcoming.op \in Sending /\ Upcoming.op # "Load" /\ n1 <= n + 1
  <2>1. Upcoming \in HostCommand
    BY LineTail
  <2>2. CASE Loading(Upcoming) /\ Upcoming.op = "Load" /\ ~loaded
    <3>1. n1 = n + (IF Upcoming.act = "keep" THEN 1 ELSE 2)
      BY <2>1, <2>2, RingLoads
    <3> QED BY <1>4, <2>2, <3>1
  <2>3. CASE Quiet /\ Upcoming.op # "Load"
    <3>1. n1 = n
      BY <2>3 DEF Quiet
    <3> QED BY <1>4, <2>3, <3>1
  <2>4. ASSUME NEW e \in EngineCommand, Sends(e), Upcoming.op # "Load",
               ~(Upcoming.op \in {"Selections", "Barrier"})
        PROVE  n1 \in Nat /\ Upcoming.op \in Sending /\ n1 <= n + 1
    <3>1. n1 = n + 1
      BY <2>4, RingGrows
    <3>2. Upcoming.op \in Sending
      BY <2>1, <2>4 DEF HostCommand, Sending
    <3> QED BY <1>4, <3>1, <3>2
  <2>5. \/ Loading(Upcoming) /\ Upcoming.op = "Load" /\ ~loaded
        \/ /\ Upcoming.op # "Load"
           /\ Quiet \/ \E e \in EngineCommand : Sends(e)
           /\ Upcoming.op \in {"Selections", "Barrier"} => Quiet
    BY AudioKinds DEF AppliesFirst
  <2>6. CASE /\ Upcoming.op \notin {"Load", "Selections", "Barrier"}
             /\ \E e \in EngineCommand : Sends(e)
    <3>1. PICK e \in EngineCommand : Sends(e)
      BY <2>6
    <3> QED BY <2>4, <2>6, <3>1
  <2> HIDE DEF n, n1
  <2> QED BY <2>2, <2>3, <2>5, <2>6
<1>12. /\ k \in Nat /\ k1 \in Nat
       /\ Upcoming.op = "Load" /\ ~loaded => k = 2 /\ k1 = 0
       /\ Upcoming.op # "Load" => k1 = k
  <2>1. k \in {0, 2} /\ k1 \in {0, 2} /\ (~loaded => k = 2) /\ (loaded' => k1 = 0)
    OBVIOUS
  <2>2. Upcoming.op = "Load" => loaded'
    BY <1>1
  <2>3. Upcoming.op # "Load" => (loaded' <=> loaded)
    BY <1>1
  <2>4. (loaded' <=> loaded) => k1 = k
    OBVIOUS
  <2> HIDE DEF k, k1
  <2> QED BY <2>1, <2>2, <2>3, <2>4
<1> HIDE DEF w, n, w1, n1, k, k1
<1>7. "Load" \notin Sending
  BY DEF Sending
<1>8. w1 + 4 <= Limit /\ (build = 0 => 2 * w1 + 3 <= Limit)
  BY <1>2, <1>3, <1>4
<1>9. n1 + w1 + k1 + 1 <= Limit
  <2>1. CASE Upcoming.op = "Load" /\ ~loaded /\ n1 <= n + 2
    BY <1>1, <1>2, <1>3, <1>4, <1>6, <1>7, <1>12, <2>1
  <2>2. CASE Upcoming.op # "Load" /\ n1 <= n
    BY <1>1, <1>2, <1>3, <1>4, <1>6, <1>12, <2>2
  <2>3. CASE Upcoming.op \in Sending /\ Upcoming.op # "Load" /\ n1 <= n + 1
    BY <1>1, <1>2, <1>3, <1>4, <1>6, <1>12, <2>3
  <2> QED BY <1>6, <2>1, <2>2, <2>3
<1>10. LineRoom'
  BY <1>1, <1>2, <1>5, <1>8 DEF LineRoom, w1
<1>11. RingRoom'
  BY <1>1, <1>9 DEF RingRoom, n1, w1, k1
<1> QED BY <1>10, <1>11 DEF RoomInv

\* The end of a song adds at most one command.
LEMMA FinishGrows ==
    ASSUME TypeOK, FinishSong \/ NoSongToFinish, mayPlay' = mayPlay,
           UNCHANGED <<identity, installed, source, module, engineState>>
    PROVE  Len(engineQ') \in Nat /\ Len(engineQ') <= Len(engineQ) + 1
<1>1. Interactive(identity, "Stopped") \in EngineCommand
  BY CommandTypes DEF TypeOK, States
<1>2. CASE Quiet
  BY <1>2, WeightNat DEF Quiet
<1>3. CASE Sends(Interactive(identity, "Stopped"))
  BY <1>1, <1>3, RingGrows
<1> QED BY <1>2, <1>3, FinishKind

\* Only a load or a selection table is ever put back.
LEMMA HeldWeight ==
    ASSUME TypeOK, Upcoming \in HostCommand, Blocked(Upcoming)
    PROVE  Weight(<<Upcoming>>) = 0
<1>1. EngineRoom \in Nat
  BY LenProperties, CapacityAssumption DEF TypeOK, EngineRoom
<1>2. retired \in Nat /\ RetiredCapacity \in Nat /\ retired <= RetiredCapacity
  BY CapacityAssumption DEF TypeOK
<1>3. Upcoming.op \in {"Load", "Selections"}
  BY <1>1, <1>2 DEF Blocked, EngineLoadCommands, RetirementRoom
<1>4. Upcoming.op \notin Sending
  BY <1>3 DEF Sending
<1> QED BY <1>4, TallyOne DEF Weight

\* The other steps of the callback send one command at most, and a quantum empties the ring.
LEMMA RoomAudio ==
    ASSUME Worklet, TypeOK, RoomInv, Audio, ~DrainApply
    PROVE  RoomInv'
<1> DEFINE w == Weight(Waiting)
           n == Len(engineQ)
           n1 == Len(engineQ')
<1>1. UNCHANGED <<todo, build>> /\ Waiting' = Waiting
  BY AudioTakes DEF AppliesFirst
<1>2. /\ w \in Nat /\ n \in Nat /\ Limit \in Nat /\ Limit <= EngineDrain /\ EngineDrain \in Nat
      /\ left \in Nat
  BY WeightNat DEF TypeOK
<1>3. w + 4 <= Limit /\ Weight(held) = 0
  BY DEF RoomInv, LineRoom
<1>4. Weight(held') = 0
  <2>1. CASE DrainBlock
    <3>1. Blocked(Upcoming) /\ held' = <<Upcoming>> /\ AnyUpcoming /\ Take
      BY <2>1 DEF DrainBlock
    <3> QED BY <3>1, TakeUpcoming, HeldWeight
  <2>2. CASE ~DrainBlock
    <3>1. held' = held
      BY <2>2 DEF Audio, AudioStart, CollectEngineGarbage, CollectDone, DrainDone,
           Arm, EngineStep, EngineDone, NextQuantum, LastQuantum, Settle, AudioReturn, hostVars
    <3> QED BY <1>3, <3>1
  <2> QED BY <2>1, <2>2
<1>5. phase' # "idle" => todo' = <<>>
  BY <1>1 DEF Worklet, RoomInv, LineRoom, Audio, AudioStart, CollectEngineGarbage, CollectDone,
       DrainBlock, DrainDone, Arm, EngineStep, EngineDone, NextQuantum, LastQuantum, Settle,
       AudioReturn
<1>6. LineRoom'
  BY <1>1, <1>3, <1>4, <1>5 DEF LineRoom, RoomInv
<1>7. ASSUME FinishSong \/ NoSongToFinish, mayPlay' = mayPlay,
             UNCHANGED <<identity, installed, source, module, engineState>>
      PROVE  n1 \in Nat /\ n1 <= n + 1
  BY <1>7, FinishGrows
<1>8. RingRoom'
  <2>1. CASE AudioStart \/ CollectEngineGarbage
    BY <1>1, <2>1 DEF AudioStart, CollectEngineGarbage, RingRoom, RoomInv
  <2>2. CASE CollectDone
    <3>1. n <= 1 /\ engineQ' = engineQ
      BY <2>2 DEF CollectDone, RoomInv, RingRoom
    <3>2. CASE phase' = "ack"
      BY <3>1, <3>2 DEF RingRoom
    <3>3. CASE phase' = "drain" /\ loaded' = FALSE
      <4>1. n + w + 2 + 1 <= Limit
        <5> HIDE DEF n, w
        <5> QED BY <1>2, <1>3, <3>1
      <4> QED BY <1>1, <3>1, <3>3, <4>1 DEF RingRoom
    <3> QED BY <2>2, <3>2, <3>3 DEF CollectDone
  <2>3. CASE DrainBlock \/ DrainDone
    <3>1. n + w + (IF loaded THEN 0 ELSE 2) + 1 <= Limit /\ engineQ' = engineQ /\ phase' = "arm"
      BY <2>3 DEF DrainBlock, DrainDone, RoomInv, RingRoom
    <3>2. n + 1 <= Limit
      <4> HIDE DEF n, w
      <4> QED BY <1>2, <3>1
    <3> QED BY <3>1, <3>2 DEF RingRoom
  <2>4. CASE Arm
    <3>1. n + 1 <= Limit /\ phase' = "engine" /\ left' = EngineDrain
      BY <2>4 DEF Arm, RoomInv, RingRoom
    <3>2. n1 \in Nat /\ n1 <= n + 1
      BY <1>7, <2>4 DEF Arm, EngineUnchanged, engineVars
    <3>3. n1 <= EngineDrain
      <4> HIDE DEF n, n1
      <4> QED BY <1>2, <3>1, <3>2
    <3> QED BY <3>1, <3>3 DEF RingRoom
  <2>5. CASE EngineStep
    <3>1. phase' = "engine" /\ phase = "engine" /\ left' = left - 1 /\ n <= left
      BY <2>5 DEF EngineStep, RoomInv, RingRoom
    <3>2. n1 = n - 1
      BY <2>5, RingTail
    <3>3. n1 <= left'
      BY <1>2, <3>1, <3>2
    <3> QED BY <3>1, <3>3 DEF RingRoom
  <2>6. CASE EngineDone
    <3>1. phase' = "settle" /\ n <= left /\ (left = 0 \/ engineQ = <<>>) /\ engineQ' = engineQ
      BY <2>6 DEF EngineDone, RoomInv, RingRoom
    <3>2. n = 0
      BY <1>2, <3>1, EmptySeq
    <3> QED BY <3>1, <3>2 DEF RingRoom
  <2>7. CASE NextQuantum \/ LastQuantum
    <3>1. n = 0 /\ phase' \in {"collect", "end"}
      BY <2>7 DEF NextQuantum, LastQuantum, Settle, RoomInv, RingRoom
    <3>2. n1 \in Nat /\ n1 <= n + 1
      BY <1>7, <2>7 DEF NextQuantum, LastQuantum, Settle, EngineUnchanged, engineVars
    <3> QED BY <3>1, <3>2 DEF RingRoom
  <2>8. CASE AudioReturn
    BY <2>8 DEF AudioReturn, RingRoom, RoomInv
  <2> QED BY <2>1, <2>2, <2>3, <2>4, <2>5, <2>6, <2>7, <2>8 DEF Audio
<1> QED BY <1>6, <1>8 DEF RoomInv

\* What the gate admits, and what a replacement adds, leaves the room it should.
LEMMA RoomControl ==
    ASSUME Worklet, TypeOK, RoomInv, Control
    PROVE  RoomInv'
<1>1. /\ phase = "idle" /\ UNCHANGED <<phase, engineQ, held>>
  <2>1. UNCHANGED <<phase, engineQ, held>>
    BY DEF Control, Transport, FinishLoad, FinishReplacement, EngineEdit, PlaybackBarrier,
         LoadFresh, LoadReplacement, ControlPush, CancelLoad, ReadApplied, CollectGarbage,
         AudioUnchanged, hostVars
  <2>2. CASE ControlPush
    BY <2>1, <2>2 DEF ControlPush, RoomInv, LineRoom
  <2>3. CASE ~ControlPush
    BY <2>1, <2>3 DEF Worklet, Control, Transport, FinishLoad, FinishReplacement, EngineEdit,
         PlaybackBarrier, LoadFresh, LoadReplacement, CancelLoad, ReadApplied, CollectGarbage,
         ControlMayRun
  <2> QED BY <2>1, <2>2, <2>3
<1>2. PICK group : Issues(group) /\ Made(group)
  BY ControlIssues
<1> DEFINE w == Weight(Waiting)
           w1 == Weight(Waiting')
           g == Weight(group)
           n == Len(commands)
<1>3. w1 = w + g /\ g \in Nat
  <2>1. Waiting \in Seq(HostCommand) /\ group \in Seq(HostCommand) /\ Waiting' = Waiting \o group
    BY <1>2, WaitingType DEF Issues
  <2> QED BY <2>1, TallyConcat, TallyNat DEF Weight
<1>4. /\ w \in Nat /\ w + 4 <= Limit /\ (build = 0 => 2 * w + 3 <= Limit)
      /\ Limit \in Nat /\ Limit >= 8 /\ build \in Nat /\ tapEngine \in Nat /\ n \in Nat
  BY WeightNat, LenProperties DEF RoomInv, LineRoom, Worklet, Limit, TypeOK
<1>5. ASSUME todo = <<>> PROVE w = Weight(commands) /\ w <= n
  <2>1. /\ held \in Seq(HostCommand) /\ commands \in Seq(HostCommand)
        /\ held \o commands \in Seq(HostCommand)
    BY WaitingType, ConcatProperties
  <2>2. Waiting = held \o commands
    BY <1>5, <2>1, ConcatEmptySeq DEF Waiting
  <2>3. Weight(held \o commands) = Weight(held) + Weight(commands)
    BY <2>1, TallyConcat DEF Weight
  <2>4. Weight(held) = 0
    BY DEF RoomInv, LineRoom
  <2>5. Weight(commands) \in Nat /\ Weight(commands) <= Len(commands)
    BY <2>1, TallyNat DEF Weight
  <2> QED BY <2>2, <2>3, <2>4, <2>5
<1>6. build' \in {build, build + 1}
  BY <1>2 DEF Made
<1>7. w1 + 4 <= Limit /\ (build' = 0 => 2 * w1 + 3 <= Limit)
  <2>1. CASE g = 0
    <3> HIDE DEF w, w1, g, n
    <3> QED BY <1>3, <1>4, <1>6, <2>1
  <2>2. CASE g = 1 /\ Admitted /\ todo = <<>> /\ build' = build
    <3>1. tapEngine + 2 * n + 5 <= Limit
      BY <2>2 DEF Worklet, Admitted, CanAdmit, Limit
    <3>2. w <= n
      BY <1>5, <2>2
    <3> HIDE DEF w, w1, g, n
    <3> QED BY <1>3, <1>4, <2>2, <3>1, <3>2
  <2>3. CASE g \in {1, 2} /\ MayReplace /\ todo = <<>> /\ build' = build + 1
    <3>1. build > 0 => w = 0
      <4>1. build > 0 => commands = <<>>
        BY <2>3 DEF MayReplace
      <4>2. Weight(<<>>) = 0
        BY TallyNone DEF Weight
      <4> QED BY <1>5, <2>3, <4>1, <4>2
    <3>2. build > 0 \/ build = 0
      BY <1>4
    <3> HIDE DEF w, w1, g, n
    <3>3. g <= 2 /\ build' # 0
      BY <1>4, <2>3
    <3>4. CASE build > 0
      BY <1>3, <1>4, <3>1, <3>3, <3>4
    <3>5. CASE build = 0
      BY <1>3, <1>4, <3>3, <3>5
    <3> QED BY <3>2, <3>4, <3>5
  <2> QED BY <1>2, <2>1, <2>2, <2>3 DEF Made, Weighed
<1>8. LineRoom'
  BY <1>1, <1>7 DEF LineRoom, RoomInv
<1>9. RingRoom'
  BY <1>1 DEF RingRoom, RoomInv
<1> QED BY <1>8, <1>9 DEF RoomInv

\* Under the gate the engine ring always has room for what the audio side means to send.
LEMMA GateLeavesRoom ==
    ASSUME Worklet
    PROVE  Spec => []RoomInv
<1>1. Init => RoomInv
  <2> SUFFICES ASSUME Init PROVE RoomInv
    OBVIOUS
  <2>1. Waiting = <<>> /\ held = <<>>
    BY ConcatEmptySeq, EmptySeq DEF Init, Waiting
  <2>2. Weight(Waiting) = 0 /\ Weight(held) = 0
    BY <2>1, TallyNone DEF Weight
  <2>3. Len(engineQ) = 0 /\ phase = "idle"
    BY EmptySeq DEF Init
  <2>4. Limit \in Nat /\ Limit >= 8
    BY CapacityAssumption DEF Limit, Worklet
  <2> QED BY <2>2, <2>3, <2>4 DEF RoomInv, LineRoom, RingRoom
<1>2. TypeOK /\ RoomInv /\ [Next]_vars => RoomInv'
  <2> SUFFICES ASSUME TypeOK, RoomInv, [Next]_vars PROVE RoomInv'
    OBVIOUS
  <2>1. CASE Audio
    <3>1. AppliesFirst \/ ~DrainApply
      BY <2>1, AudioTakes
    <3> QED BY <2>1, <3>1, RoomApplied, RoomAudio
  <2>2. CASE Control
    BY <2>2, RoomControl
  <2>3. CASE UNCHANGED vars
    BY <2>3 DEF RoomInv, LineRoom, RingRoom, vars, playerVars, hostVars, quantumVars, Waiting
  <2> QED BY <2>1, <2>2, <2>3 DEF Next
<1> QED BY <1>1, <1>2, TypeCorrect, PTL DEF Spec

-----------------------------------------------------------------------------
(* The transport through a replacement *)

\* A restore of the installed build waits, and no load in front of it.
RestoreAt(i) ==
    /\ Waiting[i].op = "Restore" /\ Waiting[i].mark = 0
    /\ Waiting[i].id = identity /\ Waiting[i].act \in States
    /\ \A j \in 1 .. i : Waiting[j].op # "Load"

\* Such a restore waits somewhere in the line.
RestoreSoon == \E i \in 1 .. Len(Waiting) : RestoreAt(i)

\* Host and engine agree on the transport or are about to.
TransportInv == Agreed \/ RestoreSoon

\* Installing a build whose load keeps the transport brings its restore within reach.
LEMMA RestoreComes ==
    ASSUME TypeOK, KeepPlan, AppliesFirst, Loading(Upcoming),
           Upcoming.op = "Load", Upcoming.act = "keep"
    PROVE  RestoreSoon'
<1>1. /\ Len(Waiting) \in Nat \ {0} /\ Len(Waiting') = Len(Waiting) - 1
      /\ \A i \in 1 .. Len(Waiting') : i + 1 \in 1 .. Len(Waiting) /\ Waiting'[i] = Waiting[i + 1]
      /\ 1 \in 1 .. Len(Waiting) /\ Upcoming = Waiting[1]
  BY LineTail
<1>2. RestoreFollows(Waiting, 1)
  BY <1>1 DEF KeepPlan
<1>3. /\ 4 <= Len(Waiting)
      /\ Waiting[1 + 1].op # "Load" /\ Waiting[1 + 2].op # "Load"
      /\ Waiting[1 + 3].op = "Restore" /\ Waiting[1 + 3].id = Upcoming.id
      /\ Waiting[1 + 3].mark = 0 /\ Waiting[1 + 3].act \in States
  BY <1>1, <1>2 DEF RestoreFollows
<1>4. 1 \in 1 .. Len(Waiting') /\ 2 \in 1 .. Len(Waiting') /\ 3 \in 1 .. Len(Waiting')
  BY <1>1, <1>3
<1>5. /\ Waiting'[1] = Waiting[1 + 1] /\ Waiting'[2] = Waiting[1 + 2]
      /\ Waiting'[3] = Waiting[1 + 3]
  <2>1. 2 + 1 = 1 + 2 /\ 3 + 1 = 1 + 3
    OBVIOUS
  <2> QED BY <1>1, <1>4, <2>1
<1>6. identity' = Upcoming.id
  BY DEF Loading
<1>7. \A j \in 1 .. 3 : j = 1 \/ j = 2 \/ j = 3
  OBVIOUS
<1>8. \A j \in 1 .. 3 : Waiting'[j].op # "Load"
  BY <1>3, <1>5, <1>7
<1>9. RestoreAt(3)'
  BY <1>3, <1>5, <1>6, <1>8 DEF RestoreAt
<1> QED BY <1>4, <1>9 DEF RestoreSoon

\* A restore that waits comes nearer, and settles the matter when its turn comes.
LEMMA RestoreNearer ==
    ASSUME TypeOK, RoomInv, RestoreSoon, AppliesFirst, Audio
    PROVE  TransportInv'
<1>1. PICK i \in 1 .. Len(Waiting) : RestoreAt(i)
  BY DEF RestoreSoon
<1>2. /\ Len(Waiting) \in Nat \ {0} /\ Len(Waiting') = Len(Waiting) - 1
      /\ \A k \in 1 .. Len(Waiting') : k + 1 \in 1 .. Len(Waiting) /\ Waiting'[k] = Waiting[k + 1]
      /\ 1 \in 1 .. Len(Waiting) /\ Upcoming = Waiting[1] /\ Upcoming \in HostCommand
  BY LineTail
<1>3. Upcoming.op # "Load"
  BY <1>1, <1>2 DEF RestoreAt
<1>4. CASE i = 1
  <2>1. /\ Upcoming.op = "Restore" /\ Upcoming.mark = 0 /\ Upcoming.id = identity
        /\ Upcoming.act \in States
    BY <1>1, <1>2, <1>4 DEF RestoreAt
  <2>2. ApplyRelease(Upcoming)
    BY <2>1 DEF AppliesFirst, DrainApply, Apply, ApplyLoad, ApplyInteractive, ApplySelections,
            ApplyBarrier, ApplyEngine
  <2>3. SetTransport(Upcoming) /\ TransportOnly
    BY <2>1, <2>2 DEF ApplyRelease, Revoked
  <2>4. EngineRoom > 0
    BY RoomToSend
  <2>5. /\ Sends(Interactive(Upcoming.id, Upcoming.act))
        /\ Interactive(Upcoming.id, Upcoming.act) \in EngineCommand
    BY <1>2, <1>3, <2>1, <2>3, <2>4, TransportKind
  <2>6. Interactive(Upcoming.id, Upcoming.act).act \in States
    BY <2>1 DEF Interactive
  <2> QED BY <2>5, <2>6, AgreedSent DEF TransportInv
<1>5. CASE i # 1
  <2>1. i - 1 \in 1 .. Len(Waiting') /\ (i - 1) + 1 = i /\ i \in Nat
    BY <1>2, <1>5
  <2>2. Waiting'[i - 1] = Waiting[i]
    BY <1>2, <2>1
  <2>3. identity' = identity
    <3>1. Quiet \/ \E e \in EngineCommand : Sends(e)
      BY <1>3, AudioKinds DEF AppliesFirst
    <3> QED BY <3>1 DEF Quiet, Sends
  <2>4. \A j \in 1 .. i - 1 : j \in 1 .. Len(Waiting') /\ j + 1 \in 1 .. i
    BY <1>2, <2>1
  <2>5. \A j \in 1 .. i - 1 : Waiting'[j].op # "Load"
    BY <1>1, <1>2, <2>4 DEF RestoreAt
  <2>6. RestoreAt(i - 1)'
    BY <1>1, <2>2, <2>3, <2>5 DEF RestoreAt
  <2> QED BY <2>1, <2>6 DEF RestoreSoon, TransportInv
<1> QED BY <1>4, <1>5

\* A restore that waits goes on waiting while the line is left alone or grows.
LEMMA RestoreWaits ==
    ASSUME TypeOK, RestoreSoon, identity' = identity,
           Waiting' = Waiting \/ \E group : Issues(group)
    PROVE  RestoreSoon'
<1>1. PICK i \in 1 .. Len(Waiting) : RestoreAt(i)
  BY DEF RestoreSoon
<1>2. Len(Waiting) \in Nat
  BY WaitingType, LenProperties
<1>3. \A k \in 1 .. Len(Waiting) : k \in 1 .. Len(Waiting') /\ Waiting'[k] = Waiting[k]
  BY LineGrows
<1>4. \A j \in 1 .. i : j \in 1 .. Len(Waiting)
  BY <1>2
<1>5. RestoreAt(i)'
  BY <1>1, <1>3, <1>4 DEF RestoreAt
<1> QED BY <1>3, <1>5 DEF RestoreSoon

\* Host and engine go on agreeing, or the restore comes nearer.
LEMMA TransportStep ==
    ASSUME Worklet, TypeOK, RoomInv, KeepPlan, TransportInv, Next
    PROVE  TransportInv'
<1>1. CASE AppliesFirst /\ Upcoming.op = "Load" /\ Upcoming.act = "keep"
  <2>1. Audio /\ Loading(Upcoming)
    BY <1>1, AudioKinds DEF AppliesFirst, Audio
  <2> QED BY <1>1, <2>1, RestoreComes DEF TransportInv
<1>2. CASE Agreed /\ ~(AppliesFirst /\ Upcoming.op = "Load" /\ Upcoming.act = "keep")
  BY <1>2, AgreedStep DEF TransportInv
<1>3. CASE RestoreSoon /\ AppliesFirst
  BY <1>3, RestoreNearer DEF AppliesFirst, Audio
<1>4. CASE RestoreSoon /\ ~AppliesFirst
  <2>1. CASE Control
    <3>1. identity' = identity
      BY <2>1 DEF Control, Transport, FinishLoad, FinishReplacement, EngineEdit, PlaybackBarrier,
           LoadFresh, LoadReplacement, ControlPush, CancelLoad, ReadApplied, CollectGarbage,
           AudioUnchanged, hostVars
    <3> QED BY <1>4, <2>1, <3>1, ControlIssues, RestoreWaits DEF TransportInv
  <2>2. CASE Audio
    <3>1. Waiting' = Waiting /\ ~DrainApply
      BY <1>4, <2>2, AudioTakes
    <3>2. identity' = identity
      BY <2>2, <3>1, AudioKinds, RingTail DEF AppliesFirst, Quiet, Sends
    <3> QED BY <1>4, <3>1, <3>2, RestoreWaits DEF TransportInv
  <2> QED BY <2>1, <2>2 DEF Next
<1> QED BY <1>1, <1>2, <1>3, <1>4 DEF TransportInv

\* Under the gate host and engine agree, or the restore that settles it is to come.
LEMMA TransportSettles ==
    ASSUME Worklet
    PROVE  Spec => []TransportInv
<1>1. Init => TransportInv
  <2> SUFFICES ASSUME Init PROVE TransportInv
    OBVIOUS
  <2>1. Len(engineQ) = 0
    BY EmptySeq DEF Init
  <2> QED BY <2>1 DEF Init, TransportInv, Agreed
<1>2. TypeOK /\ RoomInv /\ KeepPlan /\ TransportInv /\ [Next]_vars => TransportInv'
  <2>1. TransportInv /\ UNCHANGED vars => TransportInv'
    BY DEF TransportInv, Agreed, Effective, RestoreSoon, RestoreAt, Waiting, vars, playerVars,
        hostVars, engineVars
  <2> QED BY <2>1, TransportStep
<1> QED BY <1>1, <1>2, GateLeavesRoom, RestorePlanned, TypeCorrect, PTL DEF Spec

\* What a quantum sequences and what it plays belong together (SourceInStep).
THEOREM QuantumInStep ==
    ASSUME Worklet
    PROVE  Spec => []SourceInStep
<1>1. TypeOK /\ RoomInv /\ TransportInv /\ MemoryInStep => SourceInStep
  <2> SUFFICES ASSUME TypeOK, RoomInv, TransportInv, MemoryInStep, phase = "settle"
               PROVE  module = source /\ (engineState = hostState \/ RestoreToCome)
    BY DEF SourceInStep
  <2>1. Len(engineQ) = 0
    BY DEF RoomInv, RingRoom
  <2>2. module = source
    BY <2>1 DEF MemoryInStep, Loads
  <2>3. CASE Agreed
    BY <2>1, <2>2, <2>3 DEF Agreed
  <2>4. CASE RestoreSoon
    <3>1. PICK i \in 1 .. Len(Waiting) : Waiting[i].op = "Restore"
      BY <2>4 DEF RestoreSoon, RestoreAt
    <3>2. /\ held \in Seq(HostCommand) /\ commands \in Seq(HostCommand) /\ todo = <<>>
      BY WaitingType DEF RoomInv, LineRoom
    <3>3. Waiting = held \o commands
      BY <3>2, ConcatProperties, ConcatEmptySeq DEF Waiting
    <3>4. /\ Len(Waiting) = Len(held) + Len(commands) /\ Len(held) \in Nat /\ Len(commands) \in Nat
          /\ \A k \in 1 .. Len(held) + Len(commands) :
               Waiting[k] = IF k <= Len(held) THEN held[k] ELSE commands[k - Len(held)]
      BY <3>2, <3>3, ConcatProperties, LenProperties
    <3>5. CASE i <= Len(held)
      <4>1. i \in 1 .. Len(held) /\ held[i].op = "Restore"
        BY <3>1, <3>4, <3>5
      <4> QED BY <2>2, <4>1 DEF RestoreToCome
    <3>6. CASE ~(i <= Len(held))
      <4>1. i - Len(held) \in 1 .. Len(commands) /\ commands[i - Len(held)].op = "Restore"
        BY <3>1, <3>4, <3>6
      <4> QED BY <2>2, <4>1 DEF RestoreToCome
    <3> QED BY <3>5, <3>6
  <2> QED BY <2>3, <2>4 DEF TransportInv
<1> QED BY <1>1, GateLeavesRoom, TransportSettles, MemoryFollowsSource, TypeCorrect, PTL

-----------------------------------------------------------------------------
(* A fresh source is silent *)

\* Whoever plays, or is about to, has been told to since the source was installed; an engine
\* that plays on is told otherwise before the quantum is rendered.
SilentInv ==
    /\ hostState = "Playing" => mayPlay
    /\ \A i \in 1 .. Len(engineQ) : Effective(i) /\ engineQ[i].act = "Playing" => mayPlay
    /\ \/ engineState = "Playing" => mayPlay
       \/ loaded /\ Agreed /\ phase \in {"drain", "arm", "engine"}

\* The commands sent to the former source mean nothing to the new one.
LEMMA SilentLoaded ==
    ASSUME TypeOK, BuildInv, SilentInv, AppliesFirst, Loading(Upcoming), Upcoming.op = "Load", ~loaded
    PROVE  SilentInv'
<1>0. PICK n \in Nat : n = Len(engineQ)
  BY LenProperties DEF TypeOK
<1>1. Upcoming \in HostCommand /\ mayPlay \in BOOLEAN /\ identity \in Nat
  BY LineTail DEF TypeOK
<1>2. identity < Upcoming.id
  <2>1. 1 \in 1 .. Len(Waiting) /\ Upcoming = Waiting[1]
    BY LineTail
  <2> QED BY <2>1 DEF BuildInv, Builds
<1>3. /\ Len(engineQ') = n + (IF Upcoming.act = "keep" THEN 1 ELSE 2)
      /\ \A i \in 1 .. n : i \in 1 .. Len(engineQ') /\ engineQ'[i] = engineQ[i]
      /\ \A i \in 1 .. Len(engineQ') : i \in 1 .. n \/ i = n + 1 \/ i = n + 2
      /\ engineQ'[n + 1] = LoadModule(Upcoming.id)
      /\ Upcoming.act = "keep" => hostState' = hostState
      /\ Upcoming.act # "keep" => /\ hostState' \in {"Stopped", "Paused"}
                                  /\ engineQ'[n + 2] = Interactive(Upcoming.id, hostState')
  BY <1>0, <1>1, RingLoads
<1>4. /\ identity' = Upcoming.id /\ engineState' = engineState
      /\ mayPlay' = (mayPlay /\ Upcoming.act = "keep")
  BY DEF Loading
<1>5. phase' = "drain" /\ loaded'
  BY DEF AppliesFirst, DrainApply
<1>6. hostState' = "Playing" => mayPlay'
  BY <1>1, <1>3, <1>4 DEF SilentInv
<1>7. ASSUME NEW i \in 1 .. Len(engineQ'), Effective(i)', engineQ'[i].act = "Playing"
      PROVE  FALSE
  <2>1. engineQ'[i].op = "Interactive" /\ engineQ'[i].id = Upcoming.id
    BY <1>4, <1>7 DEF Effective
  <2>2. CASE i \in 1 .. n
    <3>1. engineQ[i].id <= identity /\ engineQ[i].id = Upcoming.id /\ engineQ[i] \in EngineCommand
      BY <1>0, <1>3, <2>1, <2>2, ElementOfSeq DEF BuildInv, TypeOK
    <3>2. Upcoming.id \in Nat
      BY <1>1 DEF HostCommand
    <3> QED BY <1>1, <1>2, <3>1, <3>2
  <2>3. CASE i = n + 1
    BY <1>3, <2>1, <2>3 DEF LoadModule
  <2>4. CASE i = n + 2
    <3>1. Upcoming.act # "keep"
      BY <1>3, <2>4
    <3> QED BY <1>3, <1>7, <2>4, <3>1 DEF Interactive
  <2> QED BY <1>3, <2>2, <2>3, <2>4
<1>8. CASE Upcoming.act = "keep"
  <2>1. engineState = "Playing" => mayPlay
    BY DEF SilentInv
  <2>2. mayPlay' <=> mayPlay
    BY <1>1, <1>4, <1>8
  <2> QED BY <1>4, <1>6, <1>7, <2>1, <2>2 DEF SilentInv
<1>9. CASE Upcoming.act # "keep"
  <2>1. Agreed'
    BY <1>1, <1>9, AgreedLoaded
  <2> QED BY <1>5, <1>6, <1>7, <2>1 DEF SilentInv
<1> QED BY <1>8, <1>9

\* A command that is sent tells the engine to play only if the source has been told to.
LEMMA SilentSent ==
    ASSUME TypeOK, SilentInv, NEW e \in EngineCommand, Sends(e), Agreed => Agreed',
           loaded => loaded', phase' \in {phase, "engine"} \/ phase \notin {"drain", "arm", "engine"}
    PROVE  SilentInv'
<1>0. PICK n \in Nat : n = Len(engineQ)
  BY LenProperties DEF TypeOK
<1>1. /\ \A i \in 1 .. n : i \in 1 .. Len(engineQ') /\ engineQ'[i] = engineQ[i]
      /\ engineQ'[n + 1] = e
      /\ \A i \in 1 .. Len(engineQ') : i \in 1 .. n \/ i = n + 1
  BY <1>0, RingGrows
<1>2. /\ mayPlay' = (mayPlay \/ e.act = "Playing") /\ mayPlay \in BOOLEAN
      /\ hostState' = (IF e.act \in States THEN e.act ELSE hostState)
      /\ identity' = identity /\ engineState' = engineState
  BY DEF Sends, TypeOK
<1>3. hostState' = "Playing" => mayPlay'
  BY <1>2 DEF SilentInv
<1>4. ASSUME NEW i \in 1 .. Len(engineQ'), Effective(i)', engineQ'[i].act = "Playing"
      PROVE  mayPlay'
  <2>1. CASE i \in 1 .. n
    <3>1. Effective(i) /\ engineQ[i].act = "Playing"
      BY <1>1, <1>2, <1>4, <2>1 DEF Effective
    <3> QED BY <1>0, <1>2, <2>1, <3>1 DEF SilentInv
  <2>2. CASE i = n + 1
    BY <1>1, <1>2, <1>4, <2>2
  <2> QED BY <1>1, <2>1, <2>2
<1>5. \/ engineState' = "Playing" => mayPlay'
      \/ loaded' /\ Agreed' /\ phase' \in {"drain", "arm", "engine"}
  BY <1>2 DEF SilentInv
<1> QED BY <1>3, <1>4, <1>5 DEF SilentInv

\* The engine taking a command does what the source has been told, or less.
LEMMA SilentTaken ==
    ASSUME TypeOK, SilentInv, EngineStep, Agreed => Agreed'
    PROVE  SilentInv'
<1>1. /\ Len(engineQ) \in Nat \ {0} /\ Len(engineQ') = Len(engineQ) - 1
      /\ \A i \in 1 .. Len(engineQ') : i + 1 \in 1 .. Len(engineQ) /\ engineQ'[i] = engineQ[i + 1]
      /\ 1 \in 1 .. Len(engineQ) /\ EngineApply(engineQ[1])
      /\ UNCHANGED <<identity, hostState, mayPlay>>
  BY RingTail
<1>2. \A i \in 1 .. Len(engineQ') : Effective(i)' <=> Effective(i + 1)
  BY <1>1 DEF Effective
<1>3. engineState' = IF Effective(1) THEN engineQ[1].act ELSE engineState
  BY <1>1 DEF EngineApply, Effective
<1>4. UNCHANGED <<loaded, phase>> /\ phase = "engine"
  BY DEF EngineStep
<1>5. \A i \in 1 .. Len(engineQ') : Effective(i)' /\ engineQ'[i].act = "Playing" => mayPlay'
  BY <1>1, <1>2 DEF SilentInv
<1>6. \/ engineState' = "Playing" => mayPlay'
      \/ loaded' /\ Agreed' /\ phase' \in {"drain", "arm", "engine"}
  <2>1. CASE Effective(1)
    BY <1>1, <1>3, <2>1 DEF SilentInv
  <2>2. CASE ~Effective(1)
    BY <1>1, <1>3, <1>4, <2>2 DEF SilentInv
  <2> QED BY <2>1, <2>2
<1> QED BY <1>1, <1>5, <1>6 DEF SilentInv

\* What the other steps leave alone: only the end of a drain with an empty engine ring ends
\* the time an engine that plays on is excused.
LEMMA SilentQuiet ==
    ASSUME TypeOK, RoomInv, SilentInv, Quiet, Audio, ~DrainApply
    PROVE  SilentInv'
<1>1. /\ hostState' = "Playing" => mayPlay'
      /\ \A i \in 1 .. Len(engineQ') : Effective(i)' /\ engineQ'[i].act = "Playing" => mayPlay'
      /\ engineState' = engineState /\ mayPlay' = mayPlay /\ (Agreed => Agreed')
  BY DEF Quiet, SilentInv, Effective, Agreed
<1>2. CASE engineState = "Playing" => mayPlay
  BY <1>1, <1>2 DEF SilentInv
<1>3. CASE loaded /\ Agreed /\ phase \in {"drain", "arm", "engine"}
  <2>1. CASE EngineDone
    <3>1. Len(engineQ) = 0
      <4>1. phase = "engine" /\ (left = 0 \/ engineQ = <<>>)
        BY <2>1 DEF EngineDone
      <4>2. Len(engineQ) <= left /\ Len(engineQ) \in Nat
        BY <4>1, WeightNat DEF RoomInv, RingRoom
      <4> QED BY <4>1, <4>2, EmptySeq
    <3>2. engineState = hostState
      BY <1>3, <3>1 DEF Agreed
    <3>3. engineState = "Playing" => mayPlay
      BY <3>2 DEF SilentInv
    <3> QED BY <1>1, <3>3 DEF SilentInv
  <2>2. CASE ~EngineDone
    <3>1. loaded' = loaded /\ phase' \in {"drain", "arm", "engine"}
      BY <1>3, <2>2 DEF Audio, AudioStart, CollectEngineGarbage, CollectDone, DrainBlock,
           DrainDone, Arm, EngineStep, NextQuantum, LastQuantum, Settle, AudioReturn, quantumVars
    <3> QED BY <1>1, <1>3, <3>1 DEF SilentInv
  <2> QED BY <2>1, <2>2
<1> QED BY <1>2, <1>3 DEF SilentInv

\* Applying a command that is not a load does not make a silent source play.
LEMMA SilentApplied ==
    ASSUME TypeOK, SilentInv, AppliesFirst, Audio, Upcoming.op # "Load"
    PROVE  SilentInv'
<1>1. phase' = phase /\ (loaded => loaded')
  BY DEF AppliesFirst, DrainApply
<1>2. Agreed => Agreed'
  BY AgreedStep DEF Next
<1>3. CASE Quiet
  <2>1. /\ hostState' = "Playing" => mayPlay'
        /\ \A i \in 1 .. Len(engineQ') : Effective(i)' /\ engineQ'[i].act = "Playing" => mayPlay'
        /\ engineState' = engineState /\ mayPlay' = mayPlay
    BY <1>3 DEF Quiet, SilentInv, Effective
  <2> QED BY <1>1, <1>2, <2>1 DEF SilentInv
<1>4. ASSUME NEW e \in EngineCommand, Sends(e) PROVE SilentInv'
  BY <1>1, <1>2, <1>4, SilentSent
<1> QED BY <1>3, <1>4, AudioKinds DEF AppliesFirst

\* No step makes a source play that nobody has told to.
LEMMA SilentStep ==
    ASSUME TypeOK, RoomInv, BuildInv, SilentInv, Next
    PROVE  SilentInv'
<1>1. CASE Control
  BY <1>1 DEF Control, Transport, FinishLoad, FinishReplacement, EngineEdit, PlaybackBarrier,
         LoadFresh, LoadReplacement, ControlPush, CancelLoad, ReadApplied, CollectGarbage,
         AudioUnchanged, engineVars, hostVars, quantumVars, SilentInv, Agreed, Effective
<1>2. CASE Audio /\ AppliesFirst
  <2>1. CASE Upcoming.op = "Load"
    BY <1>2, <2>1, AudioKinds, SilentLoaded DEF AppliesFirst
  <2>2. CASE Upcoming.op # "Load"
    BY <1>2, <2>2, SilentApplied
  <2> QED BY <2>1, <2>2
<1>3. CASE Audio /\ ~DrainApply
  <2>1. Agreed => Agreed'
    BY <1>3, AgreedStep DEF Next, AppliesFirst
  <2>2. CASE EngineStep
    BY <2>1, <2>2, SilentTaken
  <2>3. CASE Quiet
    BY <1>3, <2>3, SilentQuiet
  <2>4. CASE Sends(Interactive(identity, "Stopped")) /\ ~EngineStep
    <3>1. Interactive(identity, "Stopped") \in EngineCommand
      BY CommandTypes DEF TypeOK, States
    <3>2. hostState' # hostState \/ engineQ' # engineQ
      <4>1. Len(engineQ') # Len(engineQ)
        BY <2>4, <3>1, RingGrows
      <4> QED BY <4>1
    <3>3. Arm \/ NextQuantum \/ LastQuantum
      BY <1>3, <2>4, <3>2 DEF Audio, AudioStart, CollectEngineGarbage, CollectDone, DrainBlock,
           DrainDone, EngineDone, AudioReturn, hostVars
    <3>4. loaded' = loaded /\ (phase' = "engine" \/ phase \notin {"drain", "arm", "engine"})
      BY <3>3 DEF Arm, NextQuantum, LastQuantum, Settle, quantumVars
    <3> QED BY <2>1, <2>4, <3>1, <3>4, SilentSent
  <2> QED BY <1>3, <2>2, <2>3, <2>4, AudioKinds DEF AppliesFirst
<1> QED BY <1>1, <1>2, <1>3, AudioTakes DEF Next

\* A source nobody has told to play is not sequenced (FreshSourceSilent).
THEOREM FreshSourcesAreSilent ==
    ASSUME Worklet
    PROVE  Spec => []FreshSourceSilent
<1>1. Init => SilentInv
  <2> SUFFICES ASSUME Init PROVE SilentInv
    OBVIOUS
  <2>1. Len(engineQ) = 0
    BY EmptySeq DEF Init
  <2> QED BY <2>1 DEF Init, SilentInv
<1>2. TypeOK /\ RoomInv /\ BuildInv /\ SilentInv /\ [Next]_vars => SilentInv'
  <2>1. SilentInv /\ UNCHANGED vars => SilentInv'
    BY DEF SilentInv, Agreed, Effective, vars, hostVars, engineVars, quantumVars
  <2> QED BY <2>1, SilentStep
<1>3. SilentInv => FreshSourceSilent
  BY DEF SilentInv, FreshSourceSilent
<1> QED BY <1>1, <1>2, <1>3, GateLeavesRoom, BuildsInOrder, TypeCorrect, PTL DEF Spec

-----------------------------------------------------------------------------
(* What an accepted barrier answers for *)

\* An accepted barrier's build is installed, with its samples, and host and engine agree on
\* the transport: in the browser's host, and in any other that makes no replacements.
THEOREM AcceptedBuildsArePlayed ==
    ASSUME Worklet \/ "replace" \notin Ops
    PROVE  Spec => AcceptedMeansInstalled
<1> DEFINE Settled == Agreed \/ (RestoreSoon /\ (phase # "idle" => todo = <<>>))
           Sound == applied' # applied /\ applied'.accepted =>
                      /\ applied'.id = pending.id
                      /\ source = pending.id /\ module = pending.id
                      /\ engineState = hostState
<1>1. TypeOK /\ BuildInv /\ MemoryInStep /\ Settled /\ [Next]_vars => [Sound]_vars
  <2> SUFFICES ASSUME TypeOK, BuildInv, MemoryInStep, Settled, Next,
                      applied' # applied, applied'.accepted
               PROVE  /\ applied'.id = pending.id
                      /\ source = pending.id /\ module = pending.id
                      /\ engineState = hostState
    BY Zenon
  <2>1. AudioReturn
    BY DEF Next, Audio, AudioStart, CollectEngineGarbage, CollectDone, DrainBlock, DrainApply,
         DrainDone, Arm, EngineStep, EngineDone, NextQuantum, LastQuantum, Settle, Control,
         Transport, FinishLoad, FinishReplacement, EngineEdit, PlaybackBarrier, LoadFresh,
         LoadReplacement, ControlPush, CancelLoad, ReadApplied, CollectGarbage, AudioUnchanged,
         hostVars
  <2>2. /\ phase = "ack" /\ AllApplied
        /\ applied' = [id |-> identity, serial |-> pending.n,
                       accepted |-> /\ installed # 0 /\ installed = pending.id
                                    /\ rejected = pending.mark]
    BY <2>1 DEF AudioReturn, Acknowledge
  <2>3. installed = pending.id /\ applied'.id = identity
    BY <2>2
  <2>4. identity = pending.id /\ source = pending.id
    BY <2>3 DEF BuildInv
  <2>5. Len(engineQ) = 0 /\ held = <<>> /\ commands = <<>>
    BY <2>2, EmptySeq DEF AllApplied
  <2>6. module = source
    BY <2>5 DEF MemoryInStep, Loads
  <2>7. engineState = hostState
    <3>1. CASE Agreed
      BY <2>5, <3>1 DEF Agreed
    <3>2. CASE RestoreSoon /\ (phase # "idle" => todo = <<>>)
      <4>1. Waiting = <<>>
        BY <2>2, <2>5, <3>2, ConcatEmptySeq, EmptySeq DEF Waiting
      <4>2. Len(Waiting) = 0
        BY <4>1, EmptySeq
      <4> QED BY <3>2, <4>2 DEF RestoreSoon
    <3> QED BY <3>1, <3>2
  <2> QED BY <2>3, <2>4, <2>6, <2>7
<1>2. CASE Worklet
  <2>1. RoomInv /\ TransportInv => Settled
    BY DEF TransportInv, RoomInv, LineRoom
  <2> HIDE DEF Settled
  <2> QED BY <1>1, <1>2, <2>1, GateLeavesRoom, TransportSettles, BuildsInOrder,
             MemoryFollowsSource, TypeCorrect, PTL DEF Spec, AcceptedMeansInstalled
<1>3. CASE "replace" \notin Ops
  <2>1. Agreed => Settled
    OBVIOUS
  <2> HIDE DEF Settled
  <2> QED BY <1>1, <1>3, <2>1, AgreedWithoutReplacements, BuildsInOrder, MemoryFollowsSource,
             TypeCorrect, PTL DEF Spec, AcceptedMeansInstalled
<1> QED BY <1>2, <1>3
=============================================================================
