--------------------------- MODULE SnapshotChannel ---------------------------
(***************************************************************************)
(* The snapshot channel of crates/starplayer-rt/src/snapshot.rs: a bounded *)
(* single-producer / single-consumer ring that carries whole snapshots     *)
(* from the audio thread (SnapshotPublisher) to a UI (SnapshotReader).     *)
(*                                                                         *)
(* The ring itself is crates/starplayer-rt/src/spsc.rs, whose push and pop *)
(* are atomic.  A snapshot is represented by the number of the publish     *)
(* that produced it, so "older" and "newer" can be compared.  `read` is a  *)
(* loop of pops, and the publisher runs between any two of them.           *)
(***************************************************************************)
EXTENDS Naturals, Sequences

CONSTANTS
    Depth,        \* slots in the ring: snapshot_channel's `depth`
    MaxPublish    \* bound: publishes in one behaviour

ASSUME DepthAssumption == Depth \in Nat \ {0}
ASSUME MaxPublishAssumption == MaxPublish \in Nat

VARIABLES
    ring,         \* snapshots in flight, oldest first
    latest,       \* SnapshotReader::latest, 0 until the first read that finds one
    clock,        \* publishes attempted so far
    dropped,      \* SnapshotPublisher::publishes_dropped
    reading,      \* TRUE while SnapshotReader::read is inside its loop
    startClock,   \* history: `clock` when the last read began
    readClock,    \* history: `clock` when the last read finished
    lag           \* history: the most publishes ever made between two reads

channelVars == <<ring, latest, clock, dropped, reading, startClock, readClock, lag>>

ChannelTypeOK ==
    /\ ring \in Seq(Nat)
    /\ Len(ring) <= Depth
    /\ latest \in Nat
    /\ clock \in Nat
    /\ dropped \in Nat
    /\ reading \in BOOLEAN
    /\ startClock \in Nat
    /\ readClock \in Nat
    /\ lag \in Nat

ChannelInit ==
    /\ ring = <<>>
    /\ latest = 0
    /\ clock = 0
    /\ dropped = 0
    /\ reading = FALSE
    /\ startClock = 0
    /\ readClock = 0
    /\ lag = 0

-----------------------------------------------------------------------------
(* SnapshotPublisher *)

IsFull == Len(ring) >= Depth

\* Mutant of PushSnapshot: the newest snapshot replaces the one at the tail, as
\* push_overwrite would, and the loss is not counted.
PushOverTail(tick) ==
    /\ ring' = IF IsFull THEN [ring EXCEPT ![Len(ring)] = tick] ELSE Append(ring, tick)
    /\ UNCHANGED dropped

\* Mutant of PushSnapshot: an off-by-one in the fullness test keeps one slot unused.
PushOneShort(tick) ==
    IF Len(ring) + 1 >= Depth
      THEN dropped' = dropped + 1 /\ UNCHANGED ring
      ELSE ring' = Append(ring, tick) /\ UNCHANGED dropped

\* A publish into a full ring is counted and forgotten: what loses is the
\* snapshot being written.
PushSnapshot(tick) ==
    \/ /\ IsFull
       /\ dropped' = dropped + 1
       /\ UNCHANGED ring
    \/ /\ ~IsFull
       /\ ring' = Append(ring, tick)
       /\ UNCHANGED dropped

Publish ==
    /\ clock < MaxPublish
    /\ clock' = clock + 1
    /\ PushSnapshot(clock + 1)
    /\ lag' = IF clock + 1 - readClock > lag THEN clock + 1 - readClock ELSE lag
    /\ UNCHANGED <<latest, reading, startClock, readClock>>

-----------------------------------------------------------------------------
(* SnapshotReader::read, one pop at a time *)

ReadBegin ==
    /\ ~reading
    /\ reading' = TRUE
    /\ startClock' = clock
    /\ UNCHANGED <<ring, latest, clock, dropped, readClock, lag>>

ReadPop ==
    /\ reading
    /\ ring # <<>>
    /\ latest' = Head(ring)
    /\ ring' = Tail(ring)
    /\ UNCHANGED <<clock, dropped, reading, startClock, readClock, lag>>

ReadEnd ==
    /\ reading
    /\ ring = <<>>
    /\ reading' = FALSE
    /\ readClock' = clock
    /\ UNCHANGED <<ring, latest, clock, dropped, startClock, lag>>

ChannelNext == Publish \/ ReadBegin \/ ReadPop \/ ReadEnd

ChannelSpec == ChannelInit /\ [][ChannelNext]_channelVars

-----------------------------------------------------------------------------
(* Properties *)

\* What is in flight is ordered by age and newer than what the reader holds:
\* snapshot.rs promises that the oldest is kept and that a read lands on the
\* newest value in the ring, so an out-of-order or repeated tick would show a
\* progress bar that jumps back.
InFlightOrder ==
    /\ \A i \in 1 .. Len(ring) : ring[i] > latest /\ ring[i] <= clock
    /\ \A i, j \in 1 .. Len(ring) : i < j => ring[i] < ring[j]

\* A reader never sees time go backwards (SnapshotReader::read replaces
\* `latest` only by a later publish).
NeverBackwards == [][latest' >= latest]_channelVars

\* The loss is visible: publishes_dropped counts exactly the publishes that
\* neither reached the reader nor wait in the ring, so while none was dropped
\* the reader and the ring hold an unbroken run of ticks.
NoSilentLoss ==
    dropped = 0 =>
        \A i \in 1 .. Len(ring) : ring[i] = clock - Len(ring) + i

\* A reader that is never more than Depth publishes behind loses nothing and
\* a finished read has everything that was published before it began: the
\* depth of three is enough for a UI that polls at least once every three
\* ticks (snapshot.rs, DEFAULT_SNAPSHOT_DEPTH).
PromptReaderLosesNothing ==
    lag <= Depth =>
        /\ dropped = 0
        /\ (~reading /\ readClock > 0) => latest >= startClock

\* snapshot.rs says a late reader "lands on the newest of them, which is at
\* worst one depth of ticks old".  Stated of the moment a read has finished.
LateReadAtMostDepthOld ==
    (~reading /\ readClock > 0) => startClock - latest <= Depth
=============================================================================
