---------------------------- MODULE EndOfSong_proofs ----------------------------
(***************************************************************************)
(* How a song ends, for every length of the song and of the fade, every    *)
(* choice of buttons and modes and any number of commands; before that,    *)
(* the channel by which the host hears of the end, for every depth of its  *)
(* ring and any number of publishes.                                       *)
(***************************************************************************)
EXTENDS EndOfSong, SnapshotChannel, SequenceTheorems, TLAPS

-----------------------------------------------------------------------------
(* 1. The snapshot channel *)

\* How far the publisher can be ahead of a reader, and what that leaves in the
\* ring; a ring that has lost nothing and is empty has been read to its end.
Accounts ==
    /\ latest <= clock
    /\ startClock <= clock /\ readClock <= clock
    /\ Len(ring) <= clock - readClock
    /\ clock - readClock <= lag
    /\ (dropped = 0 /\ ring = <<>>) => latest = clock

\* The inductive invariant.
ChannelInv == ChannelTypeOK /\ InFlightOrder /\ NoSilentLoss /\ Accounts /\ PromptReaderLosesNothing

LEMMA ChannelTypeInit == ChannelInit => ChannelTypeOK
<1> SUFFICES ASSUME ChannelInit PROVE ChannelTypeOK
    OBVIOUS
<1>1. ring \in Seq(Nat) /\ Len(ring) = 0
  BY DEF ChannelInit
<1>2. Len(ring) <= Depth
  BY <1>1, DepthAssumption
<1>3. latest \in Nat /\ clock \in Nat /\ dropped \in Nat /\ reading \in BOOLEAN
  BY DEF ChannelInit
<1>4. startClock \in Nat /\ readClock \in Nat /\ lag \in Nat
  BY DEF ChannelInit
<1> QED BY <1>1, <1>2, <1>3, <1>4 DEF ChannelTypeOK

\* Every step keeps the ring within its depth.
LEMMA ChannelTypeStep == ChannelTypeOK /\ [ChannelNext]_channelVars => ChannelTypeOK'
<1> SUFFICES ASSUME ChannelTypeOK, [ChannelNext]_channelVars PROVE ChannelTypeOK'
    OBVIOUS
<1> USE DEF ChannelTypeOK
<1>1. CASE Publish
  <2>1. UNCHANGED <<latest, reading, startClock, readClock>>
    BY <1>1 DEF Publish
  <2>2. clock' \in Nat
    BY <1>1 DEF Publish
  <2>3. lag' \in Nat
    <3>1. clock + 1 - readClock > lag => clock + 1 - readClock \in Nat
      OBVIOUS
    <3> QED BY <1>1, <3>1 DEF Publish
  <2>4. CASE IsFull
    <3>1. dropped' = dropped + 1 /\ ring' = ring
      BY <1>1, <2>4 DEF Publish, PushSnapshot
    <3> QED BY <2>1, <2>2, <2>3, <3>1
  <2>5. CASE ~IsFull
    <3>1. dropped' = dropped /\ ring' = Append(ring, clock + 1)
      BY <1>1, <2>5 DEF Publish, PushSnapshot
    <3>2. Len(ring) \in Nat /\ ~(Len(ring) >= Depth)
      BY <2>5 DEF IsFull
    <3>3. ring' \in Seq(Nat) /\ Len(ring') = Len(ring) + 1
      BY <3>1
    <3>4. Len(ring') <= Depth
      BY <3>2, <3>3, DepthAssumption
    <3> QED BY <2>1, <2>2, <2>3, <3>1, <3>3, <3>4
  <2> QED BY <2>4, <2>5
<1>2. CASE ReadBegin
  BY <1>2 DEF ReadBegin
<1>3. CASE ReadPop
  <2>1. /\ latest' \in Nat /\ ring' \in Seq(Nat)
        /\ Len(ring) \in Nat /\ Len(ring') = Len(ring) - 1
    BY <1>3 DEF ReadPop
  <2>2. Len(ring') <= Depth
    BY <2>1, DepthAssumption
  <2>3. UNCHANGED <<clock, dropped, reading, startClock, readClock, lag>>
    BY <1>3 DEF ReadPop
  <2> QED BY <2>1, <2>2, <2>3
<1>4. CASE ReadEnd
  BY <1>4 DEF ReadEnd
<1>5. CASE UNCHANGED channelVars
  BY <1>5 DEF channelVars
<1> QED BY <1>1, <1>2, <1>3, <1>4, <1>5 DEF ChannelNext

\* Type correctness: the ring never holds more than Depth snapshots.
THEOREM ChannelTypeCorrect == ChannelSpec => []ChannelTypeOK
<1>1. ChannelInit => ChannelTypeOK
  BY ChannelTypeInit
<1>2. ChannelTypeOK /\ [ChannelNext]_channelVars => ChannelTypeOK'
  BY ChannelTypeStep
<1> QED BY <1>1, <1>2, PTL DEF ChannelSpec

-----------------------------------------------------------------------------

\* What a pop leaves in the ring is one place further on.
LEMMA PoppedEntries ==
    ASSUME ChannelTypeOK, ReadPop
    PROVE  /\ Len(ring) \in Nat \ {0}
           /\ Len(ring') = Len(ring) - 1
           /\ latest' = ring[1]
           /\ \A i \in 1 .. Len(ring') : i + 1 \in 1 .. Len(ring) /\ ring'[i] = ring[i + 1]
<1>1. Len(ring) \in Nat /\ Len(ring) # 0
  BY DEF ChannelTypeOK, ReadPop
<1>2. Len(ring') = Len(ring) - 1 /\ latest' = ring[1]
  BY <1>1 DEF ChannelTypeOK, ReadPop
<1>3. ASSUME NEW i \in 1 .. Len(ring') PROVE i + 1 \in 1 .. Len(ring) /\ ring'[i] = ring[i + 1]
  BY <1>1, <1>2 DEF ChannelTypeOK, ReadPop
<1> QED BY <1>1, <1>2, <1>3

\* A publish leaves the entries where they are; a new one comes last.
LEMMA PublishedEntries ==
    ASSUME ChannelTypeOK, Publish
    PROVE  \/ /\ ring' = ring /\ dropped' = dropped + 1 /\ Len(ring) = Depth
           \/ /\ Len(ring') = Len(ring) + 1 /\ dropped' = dropped
              /\ ring'[Len(ring) + 1] = clock + 1
              /\ \A i \in 1 .. Len(ring) : ring'[i] = ring[i]
<1>1. CASE Len(ring) >= Depth
  BY <1>1, DepthAssumption DEF ChannelTypeOK, Publish, PushSnapshot, IsFull
<1>2. CASE ~(Len(ring) >= Depth)
  BY <1>2, DepthAssumption DEF ChannelTypeOK, Publish, PushSnapshot, IsFull
<1> QED BY <1>1, <1>2

LEMMA OrderStep == ChannelTypeOK /\ InFlightOrder /\ latest <= clock /\ [ChannelNext]_channelVars => InFlightOrder'
<1> SUFFICES ASSUME ChannelTypeOK, InFlightOrder, latest <= clock, [ChannelNext]_channelVars
             PROVE  InFlightOrder'
    OBVIOUS
<1>0. /\ clock \in Nat /\ latest \in Nat /\ Len(ring) \in Nat
      /\ \A i \in 1 .. Len(ring) : ring[i] \in Nat
  BY DEF ChannelTypeOK
<1>1. CASE Publish
  <2>1. clock' = clock + 1 /\ latest' = latest
    BY <1>1 DEF Publish
  <2>2. CASE ring' = ring
    BY <1>0, <2>1, <2>2 DEF InFlightOrder
  <2>3. CASE /\ Len(ring') = Len(ring) + 1
             /\ ring'[Len(ring) + 1] = clock + 1
             /\ \A i \in 1 .. Len(ring) : ring'[i] = ring[i]
    <3>1. ASSUME NEW i \in 1 .. Len(ring')
          PROVE  IF i = Len(ring) + 1 THEN ring'[i] = clock + 1
                 ELSE i \in 1 .. Len(ring) /\ ring'[i] = ring[i]
      BY <1>0, <2>3
    <3>2. ASSUME NEW i \in 1 .. Len(ring')
          PROVE  ring'[i] > latest' /\ ring'[i] <= clock'
      <4>1. CASE i = Len(ring) + 1
        BY <1>0, <2>1, <3>1, <4>1
      <4>2. CASE i # Len(ring) + 1
        <5>1. i \in 1 .. Len(ring) /\ ring'[i] = ring[i]
          BY <3>1, <4>2
        <5>2. ring[i] > latest /\ ring[i] <= clock
          BY <5>1 DEF InFlightOrder
        <5> QED BY <1>0, <2>1, <5>1, <5>2
      <4> QED BY <4>1, <4>2
    <3>3. ASSUME NEW i \in 1 .. Len(ring'), NEW j \in 1 .. Len(ring'), i < j
          PROVE  ring'[i] < ring'[j]
      <4>1. i \in 1 .. Len(ring) /\ ring'[i] = ring[i]
        BY <1>0, <2>3, <3>1, <3>3
      <4>2. CASE j = Len(ring) + 1
        <5>1. ring[i] <= clock
          BY <4>1 DEF InFlightOrder
        <5> QED BY <1>0, <3>1, <4>1, <4>2, <5>1
      <4>3. CASE j # Len(ring) + 1
        <5>1. j \in 1 .. Len(ring) /\ ring'[j] = ring[j]
          BY <3>1, <4>3
        <5>2. ring[i] < ring[j]
          BY <3>3, <4>1, <5>1 DEF InFlightOrder
        <5> QED BY <4>1, <5>1, <5>2
      <4> QED BY <4>2, <4>3
    <3> QED BY <3>2, <3>3 DEF InFlightOrder
  <2> QED BY <1>1, <2>2, <2>3, PublishedEntries
<1>2. CASE ReadPop
  <2>1. clock' = clock
    BY <1>2 DEF ReadPop
  <2>2. /\ Len(ring) # 0 /\ Len(ring') = Len(ring) - 1 /\ latest' = ring[1]
        /\ \A i \in 1 .. Len(ring') : i + 1 \in 1 .. Len(ring) /\ ring'[i] = ring[i + 1]
    BY <1>2, PoppedEntries
  <2>3. ASSUME NEW i \in 1 .. Len(ring')
        PROVE  ring'[i] > latest' /\ ring'[i] <= clock'
    <3>1. 1 \in 1 .. Len(ring) /\ i + 1 \in 1 .. Len(ring) /\ 1 < i + 1
      BY <1>0, <2>2, <2>3
    <3>2. ring[1] < ring[i + 1] /\ ring[i + 1] <= clock
      BY <3>1 DEF InFlightOrder
    <3> QED BY <1>0, <2>1, <2>2, <3>1, <3>2
  <2>4. ASSUME NEW i \in 1 .. Len(ring'), NEW j \in 1 .. Len(ring'), i < j
        PROVE  ring'[i] < ring'[j]
    <3>1. i + 1 \in 1 .. Len(ring) /\ j + 1 \in 1 .. Len(ring) /\ i + 1 < j + 1
      BY <1>0, <2>2, <2>4
    <3>2. ring[i + 1] < ring[j + 1]
      BY <3>1 DEF InFlightOrder
    <3> QED BY <2>2, <3>2
  <2> QED BY <2>3, <2>4 DEF InFlightOrder
<1>3. CASE ReadBegin \/ ReadEnd \/ UNCHANGED channelVars
  BY <1>3 DEF ReadBegin, ReadEnd, channelVars, InFlightOrder
<1> QED BY <1>1, <1>2, <1>3 DEF ChannelNext

LEMMA LossStep == ChannelTypeOK /\ NoSilentLoss /\ [ChannelNext]_channelVars => NoSilentLoss'
<1> SUFFICES ASSUME ChannelTypeOK, NoSilentLoss, [ChannelNext]_channelVars, dropped' = 0
             PROVE  \A i \in 1 .. Len(ring') : ring'[i] = clock' - Len(ring') + i
    BY DEF NoSilentLoss
<1>0. clock \in Nat /\ Len(ring) \in Nat /\ dropped \in Nat
  BY DEF ChannelTypeOK
<1>1. CASE Publish
  <2>1. clock' = clock + 1
    BY <1>1 DEF Publish
  <2> QED BY <1>0, <1>1, <2>1, PublishedEntries DEF NoSilentLoss
<1>2. CASE ReadPop
  <2>1. clock' = clock /\ dropped' = dropped
    BY <1>2 DEF ReadPop
  <2>2. /\ Len(ring) # 0 /\ Len(ring') = Len(ring) - 1
        /\ \A i \in 1 .. Len(ring') : i + 1 \in 1 .. Len(ring) /\ ring'[i] = ring[i + 1]
    BY <1>2, PoppedEntries
  <2> TAKE i \in 1 .. Len(ring')
  <2>3. ring[i + 1] = clock - Len(ring) + (i + 1)
    BY <2>1, <2>2 DEF NoSilentLoss
  <2>4. i \in Nat
    BY <1>0, <2>2
  <2> QED BY <1>0, <2>1, <2>2, <2>3, <2>4
<1>3. CASE ReadBegin \/ ReadEnd \/ UNCHANGED channelVars
  BY <1>3 DEF ReadBegin, ReadEnd, channelVars, NoSilentLoss
<1> QED BY <1>1, <1>2, <1>3 DEF ChannelNext

LEMMA AccountsStep ==
    ChannelTypeOK /\ InFlightOrder /\ NoSilentLoss /\ Accounts /\ [ChannelNext]_channelVars => Accounts'
<1> SUFFICES ASSUME ChannelTypeOK, InFlightOrder, NoSilentLoss, Accounts, [ChannelNext]_channelVars
             PROVE  Accounts'
    OBVIOUS
<1>0. /\ clock \in Nat /\ latest \in Nat /\ Len(ring) \in Nat /\ dropped \in Nat
      /\ startClock \in Nat /\ readClock \in Nat /\ lag \in Nat
      /\ ring = <<>> <=> Len(ring) = 0
      /\ ring' = <<>> => Len(ring') = 0
  BY DEF ChannelTypeOK
<1>1. CASE Publish
  <2>1. /\ clock' = clock + 1
        /\ UNCHANGED <<latest, startClock, readClock>>
        /\ lag' = IF clock + 1 - readClock > lag THEN clock + 1 - readClock ELSE lag
    BY <1>1 DEF Publish
  <2>2. Len(ring') <= Len(ring) + 1 /\ (dropped' = 0 => ring' # <<>>)
    BY <1>0, <1>1, PublishedEntries
  <2>3. Len(ring') \in Nat
    BY <1>1, ChannelTypeStep DEF ChannelTypeOK, ChannelNext
  <2> QED BY <1>0, <2>1, <2>2, <2>3 DEF Accounts
<1>2. CASE ReadPop
  <2>1. UNCHANGED <<clock, dropped, startClock, readClock, lag>>
    BY <1>2 DEF ReadPop
  <2>2. latest' <= clock
    BY <1>2, PoppedEntries DEF InFlightOrder
  <2>3. (dropped = 0 /\ Len(ring) = 1) => latest' = clock
    BY <1>0, <1>2, PoppedEntries DEF NoSilentLoss
  <2> QED BY <1>0, <1>2, <2>1, <2>2, <2>3, PoppedEntries DEF Accounts
<1>3. CASE ReadBegin
  BY <1>0, <1>3 DEF ReadBegin, Accounts
<1>4. CASE ReadEnd
  BY <1>0, <1>4 DEF ReadEnd, Accounts
<1>5. CASE UNCHANGED channelVars
  BY <1>5 DEF channelVars, Accounts
<1> QED BY <1>1, <1>2, <1>3, <1>4, <1>5 DEF ChannelNext

LEMMA PromptStep ==
    ChannelTypeOK /\ Accounts /\ PromptReaderLosesNothing /\ [ChannelNext]_channelVars => PromptReaderLosesNothing'
<1> SUFFICES ASSUME ChannelTypeOK, Accounts, PromptReaderLosesNothing, [ChannelNext]_channelVars, lag' <= Depth
             PROVE  /\ dropped' = 0
                    /\ (~reading' /\ readClock' > 0) => latest' >= startClock'
    BY DEF PromptReaderLosesNothing
<1>0. /\ clock \in Nat /\ latest \in Nat /\ Len(ring) \in Nat /\ dropped \in Nat
      /\ startClock \in Nat /\ readClock \in Nat /\ lag \in Nat /\ Depth \in Nat \ {0}
  BY DepthAssumption DEF ChannelTypeOK
<1>1. CASE Publish
  <2>1. /\ lag' = IF clock + 1 - readClock > lag THEN clock + 1 - readClock ELSE lag
        /\ UNCHANGED <<latest, reading, startClock, readClock>>
    BY <1>1 DEF Publish
  <2>2. lag <= Depth /\ clock + 1 - readClock <= Depth
    BY <1>0, <2>1
  <2>3. Len(ring) # Depth
    BY <1>0, <2>2 DEF Accounts
  <2>4. dropped' = dropped
    BY <1>1, <2>3, PublishedEntries
  <2> QED BY <2>1, <2>2, <2>4 DEF PromptReaderLosesNothing
<1>2. CASE ReadBegin
  BY <1>2 DEF ReadBegin, PromptReaderLosesNothing
<1>3. CASE ReadPop
  BY <1>3 DEF ReadPop, PromptReaderLosesNothing
<1>4. CASE ReadEnd
  BY <1>0, <1>4 DEF ReadEnd, PromptReaderLosesNothing, Accounts
<1>5. CASE UNCHANGED channelVars
  BY <1>5 DEF channelVars, PromptReaderLosesNothing
<1> QED BY <1>1, <1>2, <1>3, <1>4, <1>5 DEF ChannelNext

\* Order, accounting and the promise to a prompt reader hold together.
THEOREM ChannelInvariant == ChannelSpec => []ChannelInv
<1>1. ChannelInit => ChannelInv
  <2> SUFFICES ASSUME ChannelInit PROVE ChannelInv
      OBVIOUS
  <2>1. ChannelTypeOK /\ InFlightOrder /\ NoSilentLoss
    BY ChannelTypeInit DEF ChannelInit, InFlightOrder, NoSilentLoss
  <2>2. Accounts /\ PromptReaderLosesNothing
    BY DEF ChannelInit, Accounts, PromptReaderLosesNothing
  <2> QED BY <2>1, <2>2 DEF ChannelInv
<1>2. ChannelInv /\ [ChannelNext]_channelVars => ChannelInv'
  <2> SUFFICES ASSUME ChannelInv, [ChannelNext]_channelVars PROVE ChannelInv'
      OBVIOUS
  <2>1. latest <= clock
    BY DEF ChannelInv, Accounts
  <2> QED BY <2>1, ChannelTypeStep, OrderStep, LossStep, AccountsStep, PromptStep DEF ChannelInv
<1> QED BY <1>1, <1>2, PTL DEF ChannelSpec

\* SnapshotReader::read never lands on something older than what it had.
THEOREM TimeNeverRunsBack == ChannelSpec => NeverBackwards
<1>1. ChannelInv /\ [ChannelNext]_channelVars => [latest' >= latest]_channelVars
  <2> SUFFICES ASSUME ChannelInv, ChannelNext PROVE latest' >= latest
      BY DEF channelVars
  <2>0. latest \in Nat
    BY DEF ChannelInv, ChannelTypeOK
  <2>1. CASE ReadPop
    <3>1. ring[1] > latest /\ ring[1] \in Nat
      BY <2>1, PoppedEntries DEF ChannelInv, ChannelTypeOK, InFlightOrder
    <3> QED BY <2>0, <2>1, <3>1, PoppedEntries DEF ChannelInv
  <2>2. CASE Publish \/ ReadBegin \/ ReadEnd
    BY <2>0, <2>2 DEF Publish, ReadBegin, ReadEnd
  <2> QED BY <2>1, <2>2 DEF ChannelNext
<1> QED BY <1>1, ChannelInvariant, PTL DEF ChannelSpec, NeverBackwards

\* A reader never more than Depth publishes behind loses nothing: the promise
\* the default depth of three rests on, for any depth.
THEOREM PromptReaderIsSafe == ChannelSpec => []PromptReaderLosesNothing
<1>1. ChannelInv => PromptReaderLosesNothing
  BY DEF ChannelInv
<1> QED BY <1>1, ChannelInvariant, PTL

\* What is in flight is ordered and newer than what the reader holds.
THEOREM OrderIsKept == ChannelSpec => []InFlightOrder
<1>1. ChannelInv => InFlightOrder
  BY DEF ChannelInv
<1> QED BY <1>1, ChannelInvariant, PTL

\* Nothing is missing from the ring without being counted.
THEOREM LossesAreCounted == ChannelSpec => []NoSilentLoss
<1>1. ChannelInv => NoSilentLoss
  BY DEF ChannelInv
<1> QED BY <1>1, ChannelInvariant, PTL

-----------------------------------------------------------------------------
(* 2. The end of a song *)

USE ModeAssumption, LengthAssumption, AtEndAssumption, ActionAssumption

\* The host that holds the transport has taken back what it had armed, and it believes the
\* engine plays only while Play is what it sent last.
Held ==
    Interactive =>
      /\ ~pendingStop
      /\ pendingRewind <=> naturalEnd
      /\ pendingRewind => ~fading
      /\ hostState = "Playing" => ~pendingRewind /\ ~awaitingStop /\ lastSent = "Play"

\* An end that was reached before a Play from the top is not news.
OldEnd == Interactive /\ restarted => RestartPlaysOn /\ (reached => awaitingRestart)

\* The legacy host waits for every stop it has sent, but for the engine that was never
\* started.
Waits ==
    ~Interactive =>
      lastSent = "Play" \/ awaitingStop \/ (engine # "Playing" /\ engineQ = <<>>)

Ending == Held /\ OldEnd /\ Waits

LEMMA EndingInit == Init => Ending
  BY DEF Init, Ending, Held, OldEnd, Waits, Interactive, RestartPlaysOn

\* A command in the host's queue, with either transport.
LEMMA DrainKeeps == ASSUME Ending, Drain PROVE Ending'
  <1> USE DEF Ending, Interactive
  <1>1. UNCHANGED <<engine, songEnd, transport, pos, ended, reached>>
    BY DEF Drain, songVars
  <1>2. CASE ~Interactive /\ (LegacyPlay \/ LegacyStop)
    BY <1>1, <1>2 DEF LegacyPlay, LegacyStop, SendEngine, Held, OldEnd, Waits, hostVars
  <1>3. CASE Interactive /\ InteractivePlay
    BY <1>1, <1>3 DEF InteractivePlay, SendEngine, Held, OldEnd, Waits, RestartPlaysOn
  <1>4. CASE Interactive /\ InteractivePause
    BY <1>1, <1>4 DEF InteractivePause, SendEngine, Held, OldEnd, Waits, RestartPlaysOn
  <1>5. CASE Interactive /\ InteractiveStop
    BY <1>1, <1>5 DEF InteractiveStop, HoldTransport, SendEngine, Held, OldEnd, Waits, RestartPlaysOn
  <1>6. CASE \E mode : CancelFade(mode)
    BY <1>1, <1>6 DEF CancelFade, Held, OldEnd, Waits, RestartPlaysOn, hostVars
  <1> QED BY <1>2, <1>3, <1>4, <1>5, <1>6 DEF Drain

\* The end of the song is acted on only by a host that plays and for an end that is new.
LEMMA ArmKeeps == ASSUME Ending, Arm PROVE Ending'
  <1> USE DEF Ending, Interactive
  <1>1. UNCHANGED <<engine, songEnd, transport, pos, ended, reached, restarted>>
        /\ awaitingRestart' = RestartPending
    BY DEF Arm, songVars
  <1>2. CASE BeginFade /\ ~RestartPending /\ Armed
    BY <1>1, <1>2 DEF BeginFade, Armed, RestartPending, Held, OldEnd, Waits, RestartPlaysOn, Interactive
  <1>3. CASE Interactive /\ FinishSong /\ ~RestartPending /\ Armed
    BY <1>1, <1>3 DEF FinishSong, HoldTransport, SendEngine, Armed, RestartPending, Held, OldEnd, Waits,
       RestartPlaysOn
  <1>4. CASE ~Interactive /\ StopAndRewind
    BY <1>1, <1>4 DEF StopAndRewind, Held, OldEnd, Waits
  <1>5. CASE UNCHANGED <<seek, transportVars, hostState, awaitingStop, naturalEnd, engineQ, lastSent>>
    BY <1>1, <1>5 DEF transportVars, RestartPending, Held, OldEnd, Waits, RestartPlaysOn
  <1> QED BY <1>2, <1>3, <1>4, <1>5 DEF Arm

LEMMA SettleKeeps == ASSUME Ending, Settle PROVE Ending'
  <1> USE DEF Ending, Interactive
  <1>1. UNCHANGED <<engine, songEnd, transport, pos, ended, reached, restarted, awaitingRestart>>
    BY DEF Settle, songVars
  <1>2. CASE Interactive /\ FinishSong /\ hostState = "Playing" /\ fading
    BY <1>1, <1>2 DEF FinishSong, HoldTransport, SendEngine, Held, OldEnd, Waits, RestartPlaysOn
  <1>3. CASE UNCHANGED <<seek, transportVars, hostState, awaitingStop, naturalEnd, engineQ, lastSent>>
    BY <1>1, <1>3 DEF transportVars, Held, OldEnd, Waits, RestartPlaysOn
  <1>4. CASE ~Interactive
    <2> DEFINE fadeLanded == ~paused /\ fading /\ elapsed >= FadeQuanta
               stopLanded == ~paused /\ pendingStop
               sent == (IF fadeLanded THEN <<"Stop">> ELSE <<>>) \o (IF stopLanded THEN <<"Stop">> ELSE <<>>)
    <2>1. /\ engineQ' = engineQ \o sent
          /\ lastSent' = IF sent = <<>> THEN lastSent ELSE "Stop"
          /\ awaitingStop' = (awaitingStop \/ sent # <<>>)
      BY <1>4 DEF Settle
    <2>2. Waits'
      <3>1. CASE sent = <<>>
        <4>1. engineQ = <<>> => engineQ' = <<>>
          BY <2>1, <3>1
        <4> HIDE DEF sent
        <4> QED BY <1>1, <2>1, <3>1, <4>1 DEF Waits
      <3>2. CASE sent # <<>>
        <4> HIDE DEF sent
        <4> QED BY <2>1, <3>2 DEF Waits
      <3> QED BY <3>1, <3>2
    <2> QED BY <1>1, <1>4, <2>2 DEF Held, OldEnd
  <1> QED BY <1>2, <1>3, <1>4 DEF Settle

\* The engine's quantum: the end of a pass is the end of the restart.
LEMMA RenderKeeps == ASSUME Ending, RenderTick \/ RenderNoTick PROVE Ending'
  <1> USE DEF Ending, Interactive
  <1>1. UNCHANGED <<transport, hostVars, gain, fading, pendingStop, pendingRewind, lastSent>>
        /\ engine' = Drained /\ engineQ' = <<>>
    BY DEF RenderTick, RenderNoTick, Quantum
  <1>2. restarted' => restarted /\ (reached' => reached)
    BY DEF RenderTick, RenderNoTick, EndOfPass, TickWithinPass, NoTick, Reached
  <1>3. Held' /\ OldEnd'
    BY <1>1, <1>2 DEF Held, OldEnd, RestartPlaysOn, hostVars
  <1>4. Waits'
    BY <1>1 DEF Waits, Drained, hostVars
  <1> QED BY <1>3, <1>4

LEMMA OthersKeep == ASSUME Ending, User \/ DrainDone \/ UNCHANGED vars PROVE Ending'
  BY DEF Ending, Held, OldEnd, Waits, RestartPlaysOn, Interactive, User, Press, SetAtEnd, Push, DrainDone,
         vars, controlVars, hostVars, transportVars, engineVars, songVars

THEOREM EndingInvariant == Spec => []Ending
  <1>1. Ending /\ [Next]_vars => Ending'
    BY DrainKeeps, ArmKeeps, SettleKeeps, RenderKeeps, OthersKeep DEF Next, Audio
  <1> QED BY <1>1, EndingInit, PTL DEF Spec

\* The interactive transport rewinds at the next Play exactly after a natural end.
THEOREM RewindsAfterAnEnd == Spec => []RewindMeansNaturalEnd
  <1>1. Ending => RewindMeansNaturalEnd
    BY DEF Ending, Held, RewindMeansNaturalEnd
  <1> QED BY <1>1, EndingInvariant, PTL

\* "Again" plays: with the interactive transport the pass that a Play starts at the top is
\* not ended by the end before it.
THEOREM AgainPlaysOn == Spec => []InteractiveRestartPlaysOn
  <1>1. Ending => InteractiveRestartPlaysOn
    BY DEF Ending, OldEnd, InteractiveRestartPlaysOn, RestartPlaysOn
  <1> QED BY <1>1, EndingInvariant, PTL

\* What is armed by the end of a song is armed while the engine has been told to play.
THEOREM ActsOnce == Spec => EndsOnce
  <1> DEFINE Begins == \/ ~fading /\ fading'
                       \/ ~pendingRewind /\ pendingRewind'
                       \/ ~naturalEnd /\ naturalEnd'
  <1>1. ASSUME Ending, Drain, Begins PROVE FALSE
    <2>1. \/ LegacyPlay \/ LegacyStop \/ InteractivePlay \/ InteractivePause \/ InteractiveStop
          \/ \E mode : CancelFade(mode)
      BY <1>1 DEF Drain
    <2> QED BY <1>1, <2>1 DEF LegacyPlay, LegacyStop, InteractivePlay, InteractivePause, InteractiveStop,
               HoldTransport, CancelFade, hostVars
  <1>2. ASSUME Ending, Arm, Begins PROVE lastSent = "Play"
    <2>1. Armed
      BY <1>2 DEF Arm, transportVars
    <2>2. CASE Interactive
      BY <1>2, <2>1, <2>2 DEF Armed, Ending, Held
    <2>3. CASE ~Interactive
      BY <1>2, <2>1, <2>3 DEF Armed, Running, Ending, Waits
    <2> QED BY <2>2, <2>3
  <1>3. ASSUME Ending, Settle, Begins PROVE lastSent = "Play"
    BY <1>3 DEF Settle, FinishSong, HoldTransport, SendEngine, transportVars, Ending, Held
  <1>4. ASSUME RenderTick \/ RenderNoTick \/ User \/ DrainDone \/ UNCHANGED vars, Begins PROVE FALSE
    BY <1>4 DEF RenderTick, RenderNoTick, Quantum, User, Press, SetAtEnd, Push, DrainDone, vars,
               hostVars, transportVars
  <1>5. Ending /\ [Next]_vars => [Begins => lastSent = "Play"]_vars
    BY <1>1, <1>2, <1>3, <1>4 DEF Next, Audio
  <1> QED BY <1>5, EndingInvariant, PTL DEF Spec, EndsOnce

-----------------------------------------------------------------------------
(* A legacy stop *)

\* The ramp heads for silence while a stop waits for it, but for a fade taken back since.
Silent == ~Interactive /\ pendingStop => gain = 0 \/ retracted

LEMMA SilentInit == Init => Silent
  BY DEF Init, Silent

LEMMA SilentKept == ASSUME Silent, Next PROVE Silent'
  <1> USE DEF Silent, Interactive
  <1>1. transport' = transport
    BY DEF Next, Audio, User, Press, SetAtEnd, Push, Drain, DrainDone, Arm, Settle, RenderTick,
           RenderNoTick, EndOfPass, TickWithinPass, NoTick, Quantum, songVars
  <1>2. ASSUME Drain, ~Interactive PROVE Silent'
    <2>1. CASE LegacyPlay
      BY <2>1 DEF LegacyPlay
    <2>2. CASE LegacyStop
      BY <2>2 DEF LegacyStop
    <2>3. CASE Head(hostQ) \notin Commands /\ CancelFade(AtEndOf(Head(hostQ)))
      <3>1. retracted' = (retracted \/ (pendingStop /\ fading /\ ~fading')) /\ pendingStop' = pendingStop
        BY <1>2, <2>3 DEF Drain, CancelFade
      <3>2. gain' = gain \/ (fading /\ ~fading')
        BY <2>3 DEF CancelFade
      <3> QED BY <1>1, <1>2, <3>1, <3>2
    <2> QED BY <1>2, <2>1, <2>2, <2>3 DEF Drain
  <1>3. CASE Arm
    BY <1>1, <1>3 DEF Arm, StopAndRewind, BeginFade, transportVars
  <1>4. ASSUME Settle, ~Interactive PROVE Silent'
    BY <1>4 DEF Settle
  <1>5. CASE User \/ DrainDone \/ RenderTick \/ RenderNoTick
    BY <1>1, <1>5 DEF User, Press, SetAtEnd, Push, DrainDone, RenderTick, RenderNoTick, Quantum,
                      transportVars
  <1> QED BY <1>1, <1>2, <1>3, <1>4, <1>5 DEF Next, Audio

\* A legacy stop tells the engine to stop when the sound is down, whatever the user and
\* the song do, unless a running fade is taken back behind it.
THEOREM StopsSilently == Spec => OnlyARetractionClicks
  <1>1. Silent /\ UNCHANGED vars => Silent'
    BY DEF Silent, Interactive, vars, transportVars, songVars
  <1>2. Ending /\ Silent /\ [Next]_vars =>
          [lastSent' # lastSent /\ lastSent' = "Stop" /\ pendingStop /\ ~retracted => gain = 0]_vars
    BY DEF Ending, Held, Silent
  <1> QED BY <1>1, <1>2, SilentInit, SilentKept, EndingInvariant, PTL DEF Spec, OnlyARetractionClicks
=============================================================================
