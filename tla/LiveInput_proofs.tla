---------------------------- MODULE LiveInput_proofs ----------------------------
(***************************************************************************)
(* That a prompt live note is played on its frame, for every size of the   *)
(* quantum, of the blocks, of the queue and of the requested lead; and     *)
(* what a Stop does to queued notes, on two threads and in one realm.      *)
(***************************************************************************)
EXTENDS LiveInput, SequenceTheorems, TLAPS

LEMMA Sizes ==
    /\ Capacity \in Nat /\ Capacity > 0 /\ Quantum \in Nat /\ Quantum > 0
    /\ Requests \subseteq Nat
    /\ \A block \in Blocks : block \in Nat /\ block > 0
  BY SizeAssumption

USE Sizes

Rendering == {"poll", "load", "sift", "play", "render"}

Stamped == [pc : {"stamped"}, what : {"On", "Off", "Pedal", "Up"}, key : Keys \cup {None},
            due : Int, prompt : BOOLEAN]
Admitted == [pc : {"admitted"}, what : {"On", "Off", "Pedal", "Up"}, key : Keys \cup {None},
             due : Int, prompt : BOOLEAN, epoch : Nat]

\* What the rest of the argument needs to know of the kinds of things.
Typed ==
    /\ sending \in Stamped \cup Admitted \cup [pc : {"idle", "refused"}]
    /\ down \subseteq Keys /\ request \in Nat /\ observed \in Nat /\ lag \in Nat /\ owed \in Nat
    /\ ready \in 0 .. Quantum /\ left \in 0 .. Quantum
    /\ ring \in Seq(Events) /\ (peeked = None \/ peeked \in Events)
    /\ epoch \in Nat /\ cancels \in Nat
    /\ phase \in {"idle", "output", "publish", "commands"} \cup Rendering
    /\ goal \in {"play", "render"}

\* How far the engine may be ahead of the published clock: what this callback still has to
\* deliver bounds what it still renders, and the last quantum may be all but one frame too
\* many.
Ahead ==
    /\ phase = "idle" => lag = 0
    /\ phase = "output" => owed > 0 /\ lag + owed <= observed + ready
    /\ phase = "publish" => lag <= observed + Quantum
    /\ phase = "commands" => owed > 0 /\ lag + owed <= observed
    /\ phase \in Rendering => owed > 0 /\ lag + left + owed <= observed + Quantum

\* A prompt sender's stamp is beyond anything this callback renders.
Beyond ==
    sending.pc \in {"stamped", "admitted"} /\ sending.prompt => sending.due + lag >= observed + Quantum

\* An event that is to be in time is not late, is behind nothing later than itself, and
\* while the lookahead is empty it is not of this quantum.
InTime ==
    /\ peeked # None /\ peeked.exact => peeked.due >= 0
    /\ \A j \in 1 .. Len(ring) : ring[j].exact =>
         /\ ring[j].due >= 0
         /\ \A i \in 1 .. j - 1 : ring[i].due <= ring[j].due
         /\ peeked # None => peeked.due <= ring[j].due
         /\ phase \in {"load", "sift", "play", "render"} /\ peeked = None => ring[j].due >= left

Clocked == Typed /\ Ahead /\ Beyond /\ InTime

LEMMA LagBounded == ASSUME Typed, Ahead PROVE lag <= observed + Quantum
  BY DEF Typed, Ahead, Rendering

\* The queue is the lookahead and then the ring.
LEMMA QueuedIs ==
    ASSUME Typed
    PROVE  /\ peeked = None => Queued = ring
           /\ peeked # None =>
                /\ Len(Queued) = Len(ring) + 1 /\ DOMAIN Queued = 1 .. Len(ring) + 1
                /\ Queued[1] = peeked
                /\ \A j \in 1 .. Len(ring) : Queued[j + 1] = ring[j]
  <1> USE DEF Typed
  <1>1. CASE peeked = None
    BY <1>1, ConcatEmptySeq, Zenon DEF Queued
  <1>2. CASE peeked # None
    <2>1. <<peeked>> \in Seq(Events) /\ Len(<<peeked>>) = 1 /\ <<peeked>>[1] = peeked
      BY <1>2
    <2>2. Queued = <<peeked>> \o ring
      BY <1>2 DEF Queued
    <2>3. /\ Queued \in Seq(Events) /\ Len(Queued) = 1 + Len(ring)
          /\ \A i \in 1 .. 1 + Len(ring) : Queued[i] = IF i <= 1 THEN peeked ELSE ring[i - 1]
      BY <2>1, <2>2, ConcatProperties
    <2> QED BY <1>2, <2>3
  <1> QED BY <1>1, <1>2

LEMMA ClockedInit == Init => Clocked
  BY RealmAssumption DEF Init, Clocked, Typed, Ahead, Beyond, InTime, Nothing, Silence, Rendering

LEMMA ClockedStutter == Clocked /\ UNCHANGED vars => Clocked'
  BY DEF Clocked, Typed, Ahead, Beyond, InTime, Rendering, vars, senderVars, controlVars, timeVars,
         queueVars, rackVars, pollVars

-----------------------------------------------------------------------------
(* The sender and the control side *)

LEMMA StampKeeps == ASSUME Clocked, NEW gesture \in Gestures, Stamp(gesture) PROVE Clocked'
  <1> USE DEF Clocked, Stamp, controlVars, timeVars, queueVars, pollVars
  <1>1. gesture.what \in {"On", "Off", "Pedal", "Up"} /\ gesture.key \in Keys \cup {None}
    <2>1. gesture \in [what : {"On"}, key : Keys \ down] \cup [what : {"Off"}, key : down]
                      \cup [what : {IF pedal THEN "Up" ELSE "Pedal"}, key : {None}]
      BY DEF Gestures
    <2>2. CASE gesture \in [what : {"On"}, key : Keys \ down]
      BY <2>2
    <2>3. CASE gesture \in [what : {"Off"}, key : down]
      BY <2>3 DEF Typed
    <2>4. CASE gesture \in [what : {IF pedal THEN "Up" ELSE "Pedal"}, key : {None}]
      BY <2>4
    <2> QED BY <2>1, <2>2, <2>3, <2>4
  <1>2. Lead \in Nat /\ Lead >= observed + Quantum
    BY DEF Typed, Lead, Larger
  <1>3. sending' \in Stamped /\ sending'.due + lag >= observed + Quantum
    BY <1>1, <1>2 DEF Typed, Stamped
  <1>4. Typed'
    <2>1. gesture.what = "On" => gesture.key \in Keys
      BY DEF Gestures
    <2>2. down' \subseteq Keys
      BY <2>1 DEF Typed
    <2> QED BY <1>3, <2>2 DEF Typed
  <1>5. Ahead' /\ InTime'
    BY DEF Ahead, InTime
  <1>6. Beyond'
    BY <1>3 DEF Beyond
  <1> QED BY <1>4, <1>5, <1>6

LEMMA AdmitKeeps == ASSUME Clocked, Admit PROVE Clocked'
  <1> USE DEF Clocked, Admit, controlVars, timeVars, queueVars, rackVars, pollVars
  <1>1. sending \in Stamped
    BY DEF Typed, Stamped, Admitted
  <1>2. /\ sending' \in Admitted
        /\ sending'.due = sending.due /\ sending'.prompt = sending.prompt
    BY <1>1 DEF Typed, Stamped, Admitted
  <1>3. Typed'
    BY <1>2 DEF Typed
  <1>4. Ahead' /\ InTime'
    BY DEF Ahead, InTime
  <1>5. Beyond'
    BY <1>2 DEF Beyond
  <1> QED BY <1>3, <1>4, <1>5

LEMMA LatchKeeps == ASSUME Clocked, Latch PROVE Clocked'
  <1> USE DEF Clocked, Latch, controlVars, timeVars, rackVars, pollVars, Nothing
  <1>1. Typed'
    BY DEF Typed
  <1>2. Ahead' /\ InTime' /\ Beyond'
    BY DEF Ahead, InTime, Beyond
  <1> QED BY <1>1, <1>2

\* What is pushed is not late, and is last in time where it is exact.
LEMMA PushKeeps == ASSUME Clocked, Push PROVE Clocked'
  <1> USE DEF Clocked, Push, controlVars, timeVars, rackVars, pollVars, Nothing
  <1>1. CASE Len(ring) >= Capacity
    <2>1. ring' = ring /\ sending' = [pc |-> "refused"]
      BY <1>1 DEF Typed
    <2>2. Typed'
      BY <2>1 DEF Typed
    <2>3. Ahead' /\ InTime' /\ Beyond'
      BY <2>1 DEF Ahead, InTime, Beyond
    <2> QED BY <2>2, <2>3
  <1>2. CASE Len(ring) < Capacity
    <2> DEFINE last == Len(ring) + 1
    <2>1. sending \in Admitted
      BY DEF Typed, Stamped, Admitted
    <2>2. Event \in Events
      BY <2>1 DEF Typed, Admitted, Event, Events
    <2>3. /\ ring' \in Seq(Events) /\ Len(ring') = last
          /\ \A i \in 1 .. Len(ring) : ring'[i] = ring[i]
          /\ ring'[last] = Event
      BY <1>2, <2>2, AppendProperties DEF Typed
    <2>4. Event.due = sending.due /\ Event.due \in Int
      BY <2>1 DEF Event, Admitted
    <2>5. Event.exact => sending.prompt /\ \A i \in DOMAIN Queued : Queued[i].due <= sending.due
      BY DEF Event
    <2>6. Event.exact => Event.due + lag >= observed + Quantum
      BY <2>4, <2>5 DEF Beyond
    <2>7. Event.exact => Event.due >= 0
      BY <2>4, <2>6, LagBounded DEF Typed
    <2>8. Event.exact => \A i \in 1 .. Len(ring) : ring[i].due <= Event.due
      <3>1. CASE peeked = None
        BY <2>4, <2>5, <3>1, QueuedIs, LenProperties DEF Typed
      <3>2. CASE peeked # None
        <4> SUFFICES ASSUME Event.exact, NEW i \in 1 .. Len(ring) PROVE ring[i].due <= Event.due
          OBVIOUS
        <4>1. i + 1 \in DOMAIN Queued /\ Queued[i + 1] = ring[i]
          BY <3>2, QueuedIs DEF Typed
        <4> QED BY <2>4, <2>5, <4>1
      <3> QED BY <3>1, <3>2
    <2>9. Event.exact /\ peeked # None => peeked.due <= Event.due
      <3>1. peeked # None => 1 \in DOMAIN Queued /\ Queued[1] = peeked
        BY QueuedIs DEF Typed
      <3> QED BY <2>4, <2>5, <3>1
    <2>10. Event.exact /\ phase \in {"load", "sift", "play", "render"} => Event.due >= left
      BY <2>4, <2>6 DEF Typed, Ahead, Rendering
    <2>11. InTime'
      <3> SUFFICES ASSUME NEW j \in 1 .. last, ring'[j].exact
                   PROVE  /\ ring'[j].due >= 0
                          /\ \A i \in 1 .. j - 1 : ring'[i].due <= ring'[j].due
                          /\ peeked # None => peeked.due <= ring'[j].due
                          /\ phase \in {"load", "sift", "play", "render"} /\ peeked = None =>
                               ring'[j].due >= left
        BY <2>3 DEF InTime
      <3>1. CASE j = last
        BY <2>3, <2>7, <2>8, <2>9, <2>10, <3>1 DEF Typed
      <3>2. CASE j # last
        BY <2>3, <3>2 DEF Typed, InTime
      <3> QED BY <3>1, <3>2
    <2>12. Typed'
      BY <1>2, <2>3 DEF Typed
    <2>13. Ahead' /\ Beyond'
      BY <1>2 DEF Ahead, Beyond
    <2> QED BY <2>11, <2>12, <2>13
  <1>3. Len(ring) \in Nat
    BY DEF Typed
  <1> QED BY <1>1, <1>2, <1>3

LEMMA ControlKeeps ==
    ASSUME Clocked, (\E frames \in Requests : SetLead(frames)) \/ CancelQueue \/ CancelBump
    PROVE  Clocked'
  <1> USE DEF Clocked, SetLead, CancelQueue, CancelBump, senderVars, timeVars, queueVars, rackVars,
              pollVars
  <1>1. Typed'
    BY DEF Typed
  <1>2. Ahead' /\ InTime' /\ Beyond'
    BY DEF Ahead, InTime, Beyond
  <1> QED BY <1>1, <1>2

-----------------------------------------------------------------------------
(* The clock of the callback *)

\* A sender that has slept keeps its stamp and is not held to it.
LEMMA OvertakenIs ==
    ASSUME Typed
    PROVE  /\ Overtaken \in Stamped \cup Admitted \cup [pc : {"idle", "refused"}]
           /\ Overtaken.pc \in {"stamped", "admitted"} => ~Overtaken.prompt
  BY DEF Typed, Stamped, Admitted, Overtaken

LEMMA CallbackKeeps == ASSUME Clocked, NEW block \in Blocks, Callback(block) PROVE Clocked'
  <1> USE DEF Clocked, Callback, controlVars, queueVars, rackVars
  <1>1. Observe(block) \in Nat /\ observed <= Observe(block) /\ block <= Observe(block)
        /\ (block <= observed => Observe(block) = observed) /\ block \in Nat \ {0}
    BY DEF Typed, Observe, Larger
  <1>2. Typed'
    BY <1>1, OvertakenIs DEF Typed
  <1>3. Ahead'
    BY <1>1 DEF Typed, Ahead, Rendering
  <1>4. Beyond'
    BY <1>1, OvertakenIs DEF Typed, Beyond
  <1>5. InTime'
    BY DEF InTime
  <1> QED BY <1>2, <1>3, <1>4, <1>5

LEMMA OutputKeeps == ASSUME Clocked, Output PROVE Clocked'
  <1> USE DEF Clocked, Output, senderVars, controlVars, queueVars, rackVars
  <1>1. Typed'
    BY DEF Typed, Smaller, Rendering
  <1>2. Ahead'
    BY DEF Typed, Ahead, Smaller, Rendering
  <1>3. Beyond' /\ InTime'
    BY DEF Beyond, InTime
  <1> QED BY <1>1, <1>2, <1>3

LEMMA PublishKeeps == ASSUME Clocked, Publish PROVE Clocked'
  <1> USE DEF Clocked, Publish, controlVars, queueVars, rackVars
  <1>1. Typed'
    BY OvertakenIs DEF Typed
  <1>2. Ahead' /\ Beyond' /\ InTime'
    BY OvertakenIs DEF Ahead, Beyond, InTime, Rendering
  <1> QED BY <1>1, <1>2

LEMMA QuantumKeeps == ASSUME Clocked, Commands \/ QuantumDone PROVE Clocked'
  <1> USE DEF Clocked, Commands, QuantumDone, senderVars, controlVars, queueVars, rackVars
  <1>1. Typed'
    BY DEF Typed, Rendering
  <1>2. Ahead'
    BY DEF Typed, Ahead, Rendering
  <1>3. Beyond' /\ InTime'
    BY DEF Beyond, InTime
  <1> QED BY <1>1, <1>2, <1>3

-----------------------------------------------------------------------------
(* The queue as the callback sees it *)

\* The lookahead takes the next event: the order is that of the ring.
LEMMA DropKeeps ==
    ASSUME Typed, InTime, Drop
    PROVE  /\ ring' \in Seq(Events) /\ (peeked' = None \/ peeked' \in Events)
           /\ peeked' # None /\ peeked'.exact => peeked'.due >= 0
           /\ peeked' = None => ring' = <<>>
           /\ \A j \in 1 .. Len(ring') : ring'[j].exact =>
                /\ ring'[j].due >= 0
                /\ \A i \in 1 .. j - 1 : ring'[i].due <= ring'[j].due
                /\ peeked'.due <= ring'[j].due
  <1>1. CASE ring = <<>>
    BY <1>1 DEF Typed, Drop
  <1>2. CASE ring # <<>>
    <2>1. peeked' = Head(ring) /\ ring' = Tail(ring)
      BY <1>2 DEF Drop
    <2>2. /\ Len(ring) \in Nat /\ Len(ring) > 0
          /\ Head(ring) = ring[1] /\ Head(ring) \in Events
          /\ Tail(ring) \in Seq(Events) /\ Len(Tail(ring)) = Len(ring) - 1
          /\ \A j \in 1 .. Len(Tail(ring)) : Tail(ring)[j] = ring[j + 1]
      BY <1>2, HeadTailProperties DEF Typed
    <2>3. Head(ring) # None
      BY <2>2, NoneAssumption
    <2>4. Head(ring).exact => Head(ring).due >= 0
      BY <2>2 DEF InTime
    <2>5. ASSUME NEW j \in 1 .. Len(Tail(ring)), Tail(ring)[j].exact
          PROVE  /\ Tail(ring)[j].due >= 0
                 /\ \A i \in 1 .. j - 1 : Tail(ring)[i].due <= Tail(ring)[j].due
                 /\ Head(ring).due <= Tail(ring)[j].due
      <3>1. j + 1 \in 1 .. Len(ring) /\ Tail(ring)[j] = ring[j + 1]
        BY <2>2
      <3>2. /\ ring[j + 1].due >= 0
            /\ \A i \in 1 .. j : ring[i].due <= ring[j + 1].due
        BY <2>5, <3>1 DEF InTime
      <3>3. \A i \in 1 .. j - 1 : i + 1 \in 1 .. j /\ Tail(ring)[i] = ring[i + 1]
        BY <2>2
      <3> QED BY <2>2, <3>1, <3>2, <3>3
    <2> QED BY <2>1, <2>2, <2>3, <2>4, <2>5
  <1> QED BY <1>1, <1>2

LEMMA SiftKeeps == ASSUME Clocked, Sift PROVE Clocked'
  <1> USE DEF Clocked, Sift, senderVars, controlVars, timeVars, rackVars
  <1>1. CASE Cancelled /\ tries > 0
    <2>1. Drop /\ phase' = phase
      BY <1>1
    <2>2. Typed'
      BY <2>1, DropKeeps DEF Typed
    <2>3. Ahead' /\ Beyond'
      BY <2>1 DEF Ahead, Beyond
    <2>4. InTime'
      BY <2>1, DropKeeps DEF InTime
    <2> QED BY <2>2, <2>3, <2>4
  <1>2. CASE ~(Cancelled /\ tries > 0)
    <2>1. phase' = goal /\ peeked' = peeked /\ ring' = ring
      BY <1>2
    <2>2. Typed'
      BY <2>1 DEF Typed, Rendering
    <2>3. Ahead' /\ Beyond'
      BY <2>1 DEF Typed, Ahead, Beyond, Rendering
    <2>4. InTime'
      BY <2>1 DEF Typed, InTime
    <2> QED BY <2>2, <2>3, <2>4
  <1> QED BY <1>1, <1>2

LEMMA RefreshKeeps == ASSUME Clocked, Refresh PROVE Clocked'
  <1> USE DEF Clocked, Refresh, senderVars, controlVars, timeVars, rackVars
  <1>1. CASE recovery # recovered
    <2>1. ring' = <<>> /\ peeked' = AllNotesOff /\ phase' = goal
      BY <1>1 DEF Recover
    <2>2. AllNotesOff \in Events /\ ~AllNotesOff.exact
      BY DEF Typed, AllNotesOff, Events
    <2>3. Typed'
      BY <2>1, <2>2 DEF Typed, Rendering
    <2>4. Ahead' /\ Beyond'
      BY <2>1 DEF Typed, Ahead, Beyond, Rendering
    <2>5. InTime'
      BY <2>1, <2>2 DEF InTime
    <2> QED BY <2>3, <2>4, <2>5
  <1>2. CASE recovery = recovered /\ peeked = None /\ ring # <<>>
    <2>1. Drop /\ phase' = "load"
      BY <1>2 DEF Drop
    <2>2. Typed'
      BY <1>2, <2>1, DropKeeps DEF Typed, Rendering
    <2>3. Ahead' /\ Beyond'
      BY <1>2, <2>1 DEF Ahead, Beyond, Rendering
    <2>4. InTime'
      BY <2>1, DropKeeps DEF InTime
    <2> QED BY <2>2, <2>3, <2>4
  <1>3. CASE recovery = recovered /\ ~(peeked = None /\ ring # <<>>)
    <2>1. peeked' = peeked /\ ring' = ring /\ phase' = "load"
      BY <1>3
    <2>2. Typed'
      BY <1>3, <2>1 DEF Typed, Rendering
    <2>3. Ahead' /\ Beyond'
      BY <1>3, <2>1 DEF Ahead, Beyond, Rendering
    <2>4. peeked = None => Len(ring) = 0
      BY <1>3 DEF Typed
    <2>5. InTime'
      BY <2>1, <2>4 DEF InTime
    <2> QED BY <2>2, <2>3, <2>5
  <1> QED BY <1>1, <1>2, <1>3

LEMMA LoadKeeps == ASSUME Clocked, Load PROVE Clocked'
  <1> USE DEF Clocked, Load, senderVars, controlVars, timeVars, queueVars, rackVars
  <1>1. Typed'
    BY DEF Typed, Rendering
  <1>2. Ahead' /\ Beyond'
    BY DEF Ahead, Beyond, Rendering
  <1>3. InTime'
    BY DEF InTime
  <1> QED BY <1>1, <1>2, <1>3

LEMMA PlayKeeps == ASSUME Clocked, Play PROVE Clocked'
  <1> USE DEF Clocked, Play, senderVars, controlVars, timeVars
  <1>1. Typed'
    BY DropKeeps DEF Typed, Rendering
  <1>2. Ahead' /\ Beyond'
    BY DEF Ahead, Beyond, Rendering
  <1>3. InTime'
    BY DropKeeps DEF InTime
  <1> QED BY <1>1, <1>2, <1>3

LEMMA PollKeeps == ASSUME Clocked, Played \/ Dispatch PROVE Clocked'
  <1> USE DEF Clocked, Played, Dispatch, senderVars, controlVars, timeVars, queueVars, rackVars
  <1>1. Typed'
    BY DEF Typed, Rendering
  <1>2. Ahead' /\ Beyond'
    BY DEF Ahead, Beyond, Rendering
  <1>3. InTime'
    BY DEF InTime
  <1> QED BY <1>1, <1>2, <1>3

LEMMA AgedIs ==
    ASSUME NEW event \in Events \cup Stamped \cup Admitted, NEW span \in Nat
    PROVE  /\ Aged(event, span).due = Larger(event.due - span, -1)
           /\ event \in Events => Aged(event, span) \in Events /\ Aged(event, span).exact = event.exact
           /\ event \in Stamped => Aged(event, span) \in Stamped /\ Aged(event, span).prompt = event.prompt
           /\ event \in Admitted => Aged(event, span) \in Admitted /\ Aged(event, span).prompt = event.prompt
  BY DEF Aged, Larger, Events, Stamped, Admitted

\* Time goes by for the clock, the quantum and every stamp alike, and stops at the
\* lookahead.
LEMMA SegmentKeeps == ASSUME Clocked, Segment PROVE Clocked'
  <1> USE DEF Clocked
  <1>1. PICK span \in 1 .. Gap :
          /\ left' = left - span /\ lag' = lag + span
          /\ ring' = [i \in DOMAIN ring |-> Aged(ring[i], span)]
          /\ peeked' = IF peeked = None THEN None ELSE Aged(peeked, span)
          /\ sending' = IF sending.pc \in {"stamped", "admitted"} THEN Aged(sending, span) ELSE sending
    BY DEF Segment
  <1>2. /\ phase = "render" /\ phase' = "poll" /\ goal' = "render" /\ ~Due
        /\ observed' = observed /\ owed' = owed /\ ready' = ready /\ epoch' = epoch
        /\ down' = down /\ request' = request /\ cancels' = cancels
    BY DEF Segment, controlVars
  <1>3. /\ span \in Nat /\ span <= left
        /\ peeked # None => span <= peeked.due
    BY DEF Gap, Smaller, Typed, Due, Events
  <1>4. /\ ring' \in Seq(Events) /\ Len(ring') = Len(ring)
        /\ \A i \in 1 .. Len(ring) :
             /\ ring[i].due \in Int /\ ring'[i].due = Larger(ring[i].due - span, -1)
             /\ ring'[i].exact = ring[i].exact
    <2>1. \A i \in 1 .. Len(ring) : ring[i] \in Events /\ ring'[i] = Aged(ring[i], span)
      BY <1>1, LenProperties DEF Typed
    <2>2. \A i \in 1 .. Len(ring) :
             /\ ring'[i] \in Events /\ ring[i].due \in Int
             /\ ring'[i].due = Larger(ring[i].due - span, -1) /\ ring'[i].exact = ring[i].exact
      <3>1. \A event \in Events : event.due \in Int
        BY DEF Events
      <3> QED BY <2>1, <1>3, <3>1, AgedIs
    <2>3. Len(ring) \in Nat /\ ring' = [i \in 1 .. Len(ring) |-> Aged(ring[i], span)]
      BY <1>1, LenProperties DEF Typed
    <2>4. ring' \in Seq(Events) /\ Len(ring') = Len(ring)
      BY <2>1, <2>2, <2>3
    <2> QED BY <2>2, <2>4
  <1>5. /\ peeked' = None \/ peeked' \in Events
        /\ peeked = None <=> peeked' = None
        /\ peeked # None => /\ peeked'.due = Larger(peeked.due - span, -1) /\ peeked.due \in Int
                            /\ peeked'.exact = peeked.exact
    <2>1. CASE peeked = None
      BY <1>1, <2>1
    <2>2. CASE peeked # None
      <3>1. peeked \in Events /\ peeked.due \in Int /\ peeked' = Aged(peeked, span)
        BY <1>1, <2>2 DEF Typed, Events
      <3>2. peeked' \in Events /\ peeked'.due = Larger(peeked.due - span, -1) /\ peeked'.exact = peeked.exact
        BY <1>3, <3>1, AgedIs
      <3> QED BY <2>2, <3>1, <3>2, NoneAssumption
    <2> QED BY <2>1, <2>2
  <1>6. /\ sending' \in Stamped \cup Admitted \cup [pc : {"idle", "refused"}]
        /\ sending'.pc = sending.pc
        /\ sending.pc \in {"stamped", "admitted"} =>
             /\ sending'.due >= sending.due - span /\ sending.due \in Int /\ sending'.due \in Int
             /\ sending'.prompt = sending.prompt
    <2>1. CASE sending \in Stamped \cup Admitted
      <3>1. sending.due \in Int /\ sending.pc \in {"stamped", "admitted"}
        BY <2>1 DEF Stamped, Admitted
      <3>2. sending' = Aged(sending, span)
        BY <1>1, <3>1
      <3>3. sending'.pc = sending.pc
        BY <2>1, <3>2 DEF Aged, Stamped, Admitted
      <3> QED BY <2>1, <3>1, <3>2, <3>3, <1>3, AgedIs DEF Larger
    <2>2. CASE sending \in [pc : {"idle", "refused"}]
      BY <1>1, <2>2
    <2> QED BY <2>1, <2>2 DEF Typed
  <1>7. Typed'
    BY <1>1, <1>2, <1>3, <1>4, <1>5, <1>6 DEF Typed, Rendering
  <1>8. Ahead'
    BY <1>1, <1>2, <1>3 DEF Typed, Ahead, Rendering
  <1>9. Beyond'
    BY <1>1, <1>2, <1>3, <1>6 DEF Typed, Beyond
  <1>10. InTime'
    <2>1. peeked' # None /\ peeked'.exact => peeked'.due >= 0
      <3>1. CASE peeked = None
        BY <1>5, <3>1
      <3>2. CASE peeked # None
        <4>1. span \in Nat /\ span <= peeked.due /\ peeked.due \in Int
              /\ peeked'.due = Larger(peeked.due - span, -1)
          BY <1>3, <1>5, <3>2
        <4>2. peeked'.due >= 0
          BY <4>1 DEF Larger
        <4> QED BY <4>2
      <3> QED BY <3>1, <3>2
    <2>2. ASSUME NEW j \in 1 .. Len(ring), ring'[j].exact
          PROVE  /\ ring'[j].due >= 0
                 /\ \A i \in 1 .. j - 1 : ring'[i].due <= ring'[j].due
                 /\ peeked' # None => peeked'.due <= ring'[j].due
      <3>1. /\ ring[j].due >= 0 /\ ring[j].due \in Int
            /\ \A i \in 1 .. j - 1 : ring[i].due <= ring[j].due
            /\ peeked # None => peeked.due <= ring[j].due
            /\ peeked = None => ring[j].due >= left
        BY <2>2, <1>2, <1>4 DEF InTime
      <3>2. ring'[j].due = Larger(ring[j].due - span, -1)
        BY <1>4
      <3>3. ring[j].due - span >= 0
        BY <1>3, <1>5, <3>1 DEF Typed
      <3>4. \A i \in 1 .. j - 1 : ring[i].due \in Int /\ ring'[i].due = Larger(ring[i].due - span, -1)
        BY <1>4 DEF Typed
      <3>5. ring'[j].due = ring[j].due - span
        BY <1>3, <3>1, <3>2, <3>3 DEF Larger
      <3>6. ring'[j].due >= 0
        BY <3>3, <3>5
      <3>7. \A i \in 1 .. j - 1 : ring'[i].due <= ring'[j].due
        BY <1>3, <3>1, <3>3, <3>4, <3>5 DEF Larger
      <3>8. peeked' # None => peeked'.due <= ring'[j].due
        <4>1. CASE peeked = None
          BY <1>5, <4>1
        <4>2. CASE peeked # None
          <5>1. /\ peeked.due \in Int /\ peeked.due <= ring[j].due
                /\ peeked'.due = Larger(peeked.due - span, -1)
            BY <1>5, <3>1, <4>2
          <5> QED BY <1>3, <3>1, <3>3, <3>5, <5>1 DEF Larger
        <4> QED BY <4>1, <4>2
      <3> QED BY <3>6, <3>7, <3>8
    <2> QED BY <1>2, <1>4, <2>1, <2>2 DEF InTime
  <1> QED BY <1>7, <1>8, <1>9, <1>10

-----------------------------------------------------------------------------
LEMMA NextKeeps == ASSUME Clocked, Next PROVE Clocked'
  BY StampKeeps, AdmitKeeps, PushKeeps, LatchKeeps, ControlKeeps, CallbackKeeps, OutputKeeps,
     PublishKeeps, QuantumKeeps, RefreshKeeps, LoadKeeps, SiftKeeps, PlayKeeps, PollKeeps, SegmentKeeps
     DEF Next, Send, Audio

\* The engine is never further ahead of the published clock than the lead allows for, and
\* what a prompt sender queues is in order.
THEOREM ClockedInvariant == Spec => []Clocked
  <1>1. Clocked /\ [Next]_vars => Clocked'
    BY NextKeeps, ClockedStutter
  <1> QED BY <1>1, ClockedInit, PTL DEF Spec

\* A note that is sent promptly is never late, whatever the device asks for and whatever
\* lead the user does (or does not) request.
THEOREM NotesOnTime == Spec => []OnTime
  <1>1. Clocked => OnTime
    <2> SUFFICES ASSUME Clocked, NEW n \in DOMAIN Queued, Queued[n].exact PROVE Queued[n].due >= 0
      BY DEF OnTime
    <2> USE DEF Clocked
    <2>1. CASE peeked = None
      BY <2>1, QueuedIs, LenProperties DEF Typed, InTime
    <2>2. CASE peeked # None
      <3>1. CASE n = 1
        BY <2>2, <3>1, QueuedIs DEF InTime
      <3>2. CASE n # 1
        <4>1. n - 1 \in 1 .. Len(ring) /\ Queued[n] = ring[n - 1]
          BY <2>2, <3>2, QueuedIs DEF Typed
        <4> QED BY <4>1 DEF InTime
      <3> QED BY <3>1, <3>2
    <2> QED BY <2>1, <2>2
  <1> QED BY <1>1, ClockedInvariant, PTL

-----------------------------------------------------------------------------
(* Cancels, however sender, control side and callback are interleaved *)

\* A cancel that has been begun has not moved the epoch yet.
CancelsCount == cancels = IF cancelling THEN epoch + 1 ELSE epoch

\* No event carries an epoch later than the cancels begun before its push, nor one that has
\* yet to come.
EpochOf(event) == event.epoch <= event.batch /\ event.epoch <= epoch
Epochs ==
    /\ sending.pc = "admitted" => sending.epoch <= epoch
    /\ \A i \in 1 .. Len(ring) : EpochOf(ring[i])
    /\ peeked # None => EpochOf(peeked)

\* What a refresh may still drop reaches every event that was queued before the last cancel
\* it knows of; what it meets first is not of an epoch it does not know.
Swept ==
    /\ current \in Nat /\ current <= epoch /\ tries \in 0 .. Capacity + 1 /\ Len(ring) <= Capacity
    /\ phase = "sift" => /\ peeked # None /\ tries = 0 => peeked.batch >= current
                         /\ \A i \in 1 .. Len(ring) : i >= tries => ring[i].batch >= current
                         /\ peeked # None /\ tries = Capacity + 1 => peeked.epoch <= current
    /\ phase = "play" /\ peeked # None => peeked.batch >= current

Cancelling == CancelsCount /\ Epochs /\ Swept

LEMMA CancellingInit == Init => Cancelling
  BY DEF Init, Cancelling, CancelsCount, Epochs, Swept, EpochOf, Nothing

\* What the player and the control side do without touching the queue.
LEMMA CallersCancel ==
    ASSUME Clocked, Cancelling,
           \/ \E gesture \in Gestures : Stamp(gesture)
           \/ Admit \/ Latch
           \/ \E frames \in Requests : SetLead(frames)
           \/ CancelQueue \/ CancelBump
    PROVE  Cancelling'
  <1> USE DEF Clocked, Cancelling, Stamp, Admit, Latch, SetLead, CancelQueue, CancelBump,
              senderVars, controlVars, timeVars, queueVars, rackVars, pollVars, Nothing
  <1>1. epoch \in Nat /\ epoch' \in Nat /\ epoch <= epoch'
    BY DEF Typed
  <1>2. CancelsCount'
    BY DEF Typed, CancelsCount
  <1>3. UNCHANGED <<ring, peeked, phase, current, tries>>
    OBVIOUS
  <1>4. sending'.pc = "admitted" => sending'.epoch <= epoch'
    <2>1. sending.pc = "admitted" => sending.epoch \in Nat
      BY DEF Typed, Stamped, Admitted
    <2>2. sending'.pc = "admitted" => sending' = sending \/ sending'.epoch = epoch
      OBVIOUS
    <2> QED BY <1>1, <2>1, <2>2 DEF Epochs
  <1>5. \A event \in Events : EpochOf(event) => event.epoch <= epoch'
    BY <1>1 DEF Events, EpochOf
  <1>6. Epochs'
    <2>1. \A i \in 1 .. Len(ring) : ring[i] \in Events /\ EpochOf(ring[i])
      BY ElementOfSeq DEF Epochs, Typed
    <2>2. peeked # None => peeked \in Events /\ EpochOf(peeked)
      BY DEF Epochs, Typed
    <2> QED BY <1>3, <1>4, <1>5, <2>1, <2>2 DEF Epochs, EpochOf
  <1>7. Swept'
    BY <1>1, <1>3 DEF Swept
  <1> QED BY <1>2, <1>6, <1>7

\* What is queued while a refresh sifts is of no Stop that it knows of.
LEMMA PushCancel == ASSUME Clocked, Cancelling, Push PROVE Cancelling'
  <1> USE DEF Clocked, Cancelling, Push, controlVars, timeVars, rackVars, pollVars, Nothing
  <1>1. CancelsCount' /\ UNCHANGED <<epoch, peeked, phase, current, tries>>
    BY DEF CancelsCount
  <1>2. CASE Len(ring) < Capacity
    <2>1. sending \in Admitted
      BY DEF Typed, Stamped, Admitted
    <2>2. Event \in Events /\ Event.batch = cancels /\ Event.epoch = sending.epoch
      BY <2>1 DEF Typed, Admitted, Event, Events
    <2>3. sending.epoch <= epoch /\ sending.epoch \in Nat /\ epoch \in Nat /\ cancels \in Nat
      BY <2>1 DEF Typed, Admitted, Epochs
    <2>4. epoch <= cancels
      BY <2>3 DEF CancelsCount
    <2>5. EpochOf(Event) /\ Event.batch >= current
      BY <2>2, <2>3, <2>4 DEF EpochOf, Swept
    <2>6. /\ Len(ring') = Len(ring) + 1 /\ Len(ring) \in Nat
          /\ \A i \in 1 .. Len(ring) : ring'[i] = ring[i]
          /\ ring'[Len(ring) + 1] = Event
      BY <1>2, <2>2, AppendProperties DEF Typed
    <2>7. sending'.pc = "idle"
      BY <1>2
    <2>8. Epochs'
      <3>1. \A i \in 1 .. Len(ring') : EpochOf(ring'[i])
        BY <2>5, <2>6 DEF Epochs
      <3> QED BY <1>1, <2>7, <3>1 DEF Epochs, EpochOf
    <2>9. Swept'
      <3>1. phase = "sift" => \A i \in 1 .. Len(ring') : i >= tries => ring'[i].batch >= current
        BY <2>5, <2>6 DEF Swept
      <3> QED BY <1>1, <1>2, <2>6, <3>1 DEF Swept
    <2> QED BY <1>1, <2>8, <2>9
  <1>3. CASE ~(Len(ring) < Capacity)
    <2>1. ring' = ring /\ sending'.pc = "refused"
      BY <1>3
    <2> QED BY <1>1, <2>1 DEF Epochs, EpochOf, Swept
  <1> QED BY <1>2, <1>3

LEMMA TimeCancel ==
    ASSUME Clocked, Cancelling,
           \/ \E block \in Blocks : Callback(block)
           \/ Output \/ Publish \/ Commands \/ Load \/ Played \/ Dispatch \/ QuantumDone
    PROVE  Cancelling'
  <1> USE DEF Clocked, Cancelling, Callback, Output, Publish, Commands, Load, Played, Dispatch,
              QuantumDone, senderVars, controlVars, timeVars, queueVars, rackVars
  <1>1. UNCHANGED <<ring, peeked, epoch, cancels, cancelling>>
    OBVIOUS
  <1>2. sending'.pc = sending.pc /\ (sending.pc = "admitted" => sending'.epoch = sending.epoch)
    BY DEF Typed, Stamped, Admitted, Overtaken
  <1>3. CancelsCount' /\ Epochs'
    BY <1>1, <1>2 DEF CancelsCount, Epochs, EpochOf
  <1>4. CASE Load
    <2>1. current' = epoch /\ tries' = Capacity + 1 /\ phase' = "sift" /\ epoch \in Nat
      BY <1>4 DEF Loaded, Tries, Typed
    <2>2. Len(ring) \in Nat /\ Len(ring) <= Capacity
      BY DEF Typed, Swept
    <2>3. peeked # None => peeked.epoch <= epoch
      BY DEF Epochs, EpochOf
    <2> QED BY <1>1, <1>3, <2>1, <2>2, <2>3 DEF Swept
  <1>5. CASE ~Load
    <2>1. phase' \notin {"sift", "play"} /\ current' = current /\ tries' = tries
      BY <1>5
    <2> QED BY <1>1, <1>3, <2>1 DEF Swept
  <1> QED BY <1>4, <1>5

\* What follows the lookahead is what is queued when it is gone.
LEMMA QueuedAfter == ASSUME Typed, Drop PROVE Queued' = ring
  <1>1. CASE ring = <<>>
    <2>1. peeked' = None /\ ring' = <<>>
      BY <1>1 DEF Drop
    <2>2. Queued' = <<>> \o <<>>
      BY <2>1 DEF Queued
    <2> QED BY <1>1, <2>2, ConcatEmptySeq, EmptySeq
  <1>2. CASE ring # <<>>
    <2>1. peeked' = Head(ring) /\ ring' = Tail(ring) /\ Head(ring) # None
      BY <1>2, HeadTailProperties, NoneAssumption DEF Drop, Typed
    <2>2. Queued' = <<Head(ring)>> \o Tail(ring)
      BY <2>1 DEF Queued
    <2>3. <<Head(ring)>> \o Tail(ring) = ring
      BY <1>2 DEF Typed
    <2> QED BY <2>2, <2>3
  <1> QED BY <1>1, <1>2

\* The lookahead and the ring hold what they held, or less.
LEMMA DropsOnly ==
    ASSUME Typed, Drop
    PROVE  /\ peeked' # None => ring # <<>> /\ peeked' = ring[1] /\ 1 \in 1 .. Len(ring)
           /\ \A i \in 1 .. Len(ring') : i + 1 \in 1 .. Len(ring) /\ ring'[i] = ring[i + 1]
  BY HeadTailProperties DEF Typed, Drop

LEMMA QueueCancel == ASSUME Clocked, Cancelling, Refresh \/ Sift \/ Play PROVE Cancelling'
  <1> USE DEF Clocked, Cancelling
  <1>1. UNCHANGED <<sending, cancelling, cancels, epoch, current>>
    BY DEF Refresh, Sift, Play, senderVars, controlVars, rackVars
  <1>2. CancelsCount'
    BY <1>1 DEF CancelsCount
  <1>3. ASSUME Drop PROVE Epochs' /\ Len(ring') <= Capacity
    <2>1. Epochs'
      BY <1>1, <1>3, DropsOnly DEF Epochs, EpochOf
    <2>2. Len(ring') <= Capacity
      <3>1. CASE ring = <<>>
        BY <1>3, <3>1 DEF Drop, Swept
      <3>2. CASE ring # <<>>
        BY <1>3, <3>2, HeadTailProperties DEF Drop, Swept, Typed
      <3> QED BY <3>1, <3>2
    <2> QED BY <2>1, <2>2
  <1>4. CASE Sift /\ Cancelled /\ tries > 0
    <2>1. /\ Drop /\ tries' = tries - 1 /\ phase = "sift" /\ phase' = "sift"
      BY <1>4 DEF Sift
    <2>2. tries' \in 0 .. Capacity /\ tries \in Nat
      BY <1>4, <2>1 DEF Swept
    <2>3. peeked' # None /\ tries' = 0 => peeked'.batch >= current
      BY <2>1, <2>2, DropsOnly DEF Swept
    <2>4. ASSUME NEW i \in 1 .. Len(ring'), i >= tries' PROVE ring'[i].batch >= current
      <3>1. i + 1 \in 1 .. Len(ring) /\ ring'[i] = ring[i + 1]
        BY <2>1, DropsOnly
      <3>2. i + 1 >= tries
        BY <2>1, <2>2, <2>4
      <3> QED BY <2>1, <3>1, <3>2 DEF Swept
    <2>5. Swept'
      BY <1>1, <1>3, <2>1, <2>2, <2>3, <2>4 DEF Swept
    <2> QED BY <1>2, <1>3, <2>1, <2>5
  <1>5. CASE Sift /\ ~(Cancelled /\ tries > 0)
    <2>1. UNCHANGED <<peeked, ring, tries>> /\ phase = "sift" /\ phase' = goal /\ phase' # "sift"
      BY <1>5 DEF Sift, Typed
    <2>2. Epochs'
      BY <1>1, <2>1 DEF Epochs, EpochOf
    <2>3. peeked # None => peeked.batch >= current
      <3>1. CASE tries = 0
        BY <2>1, <3>1 DEF Swept
      <3>2. CASE tries # 0
        <4>1. peeked # None => peeked.epoch = current
          BY <1>5, <3>2 DEF Cancelled, Swept
        <4> QED BY <4>1 DEF Epochs, EpochOf, Typed, Events
      <3> QED BY <3>1, <3>2
    <2> QED BY <1>1, <1>2, <2>1, <2>2, <2>3 DEF Swept
  <1>6. CASE Play
    <2>1. Drop /\ phase' = "poll" /\ tries' = tries
      BY <1>6 DEF Play
    <2> QED BY <1>1, <1>2, <1>3, <2>1 DEF Swept
  <1>7. CASE Refresh /\ recovery # recovered
    <2>1. ring' = <<>> /\ peeked' = AllNotesOff /\ tries' = tries /\ phase' = goal
      BY <1>7 DEF Refresh, Recover
    <2>2. AllNotesOff.epoch = epoch /\ AllNotesOff.batch = cancels /\ epoch <= cancels
      BY DEF AllNotesOff, CancelsCount, Typed
    <2>3. cancels >= current
      BY <2>2 DEF Swept, Typed
    <2>4. Epochs'
      BY <1>1, <2>1, <2>2 DEF Epochs, EpochOf, Typed
    <2>5. Swept'
      BY <1>1, <2>1, <2>2, <2>3 DEF Swept, Typed
    <2> QED BY <1>2, <2>4, <2>5
  <1>8. CASE Refresh /\ recovery = recovered
    <2>1. phase' = "load" /\ tries' = tries
      BY <1>8 DEF Refresh
    <2>2. CASE Drop
      BY <1>1, <1>2, <1>3, <2>1, <2>2 DEF Swept
    <2>3. CASE peeked' = peeked /\ ring' = ring
      BY <1>1, <1>2, <2>1, <2>3 DEF Epochs, EpochOf, Swept
    <2> QED BY <1>8, <2>2, <2>3 DEF Refresh, Drop
  <1> QED BY <1>4, <1>5, <1>6, <1>7, <1>8

\* Time leaves epochs and batches alone.
LEMMA SegmentCancel == ASSUME Clocked, Cancelling, Segment PROVE Cancelling'
  <1> USE DEF Clocked, Cancelling
  <1>1. PICK span \in 1 .. Gap :
          /\ ring' = [i \in DOMAIN ring |-> Aged(ring[i], span)]
          /\ peeked' = IF peeked = None THEN None ELSE Aged(peeked, span)
          /\ sending' = IF sending.pc \in {"stamped", "admitted"} THEN Aged(sending, span) ELSE sending
    BY DEF Segment
  <1>2. /\ UNCHANGED <<cancelling, cancels, epoch, current, tries>>
        /\ phase = "render" /\ phase' = "poll"
    BY DEF Segment, controlVars, rackVars
  <1>3. \A event \in Events : EpochOf(event) => EpochOf(Aged(event, span))
    BY DEF Events, Aged, EpochOf
  <1>4. /\ Len(ring') = Len(ring)
        /\ \A i \in 1 .. Len(ring) : ring[i] \in Events /\ ring'[i] = Aged(ring[i], span)
    <2>1. Len(ring) \in Nat /\ DOMAIN ring = 1 .. Len(ring)
          /\ \A i \in 1 .. Len(ring) : ring[i] \in Events
      BY LenProperties, ElementOfSeq DEF Typed
    <2> QED BY <1>1, <2>1
  <1>5. sending'.pc = "admitted" => sending'.epoch <= epoch
    <2>1. CASE sending \in Stamped \cup Admitted
      <3>1. sending' = Aged(sending, span)
        BY <1>1, <2>1 DEF Stamped, Admitted
      <3>2. sending'.pc = sending.pc
        BY <2>1, <3>1 DEF Aged, Stamped, Admitted
      <3>3. sending \in Admitted => sending'.epoch = sending.epoch
        BY <3>1 DEF Aged, Admitted
      <3> QED BY <2>1, <3>2, <3>3 DEF Epochs, Stamped, Admitted
    <2>2. CASE sending \in [pc : {"idle", "refused"}]
      BY <1>1, <2>2
    <2> QED BY <2>1, <2>2 DEF Typed
  <1>6. Epochs'
    <2>1. \A i \in 1 .. Len(ring') : EpochOf(ring'[i])
      BY <1>3, <1>4 DEF Epochs
    <2>2. peeked' # None => EpochOf(peeked')
      BY <1>1, <1>3 DEF Epochs, Typed
    <2> QED BY <1>2, <1>5, <2>1, <2>2 DEF Epochs, EpochOf
  <1> QED BY <1>2, <1>4, <1>6 DEF CancelsCount, Swept

THEOREM CancellingInvariant == Spec => [](Clocked /\ Cancelling)
  <1>1. Clocked /\ Cancelling /\ [Next]_vars => Cancelling'
    <2>1. Cancelling /\ UNCHANGED vars => Cancelling'
      BY DEF Cancelling, CancelsCount, Epochs, Swept, EpochOf, vars, senderVars,
             controlVars, timeVars, queueVars, rackVars, pollVars
    <2>2. Clocked /\ Cancelling /\ Next => Cancelling'
      BY CallersCancel, PushCancel, TimeCancel, QueueCancel, SegmentCancel DEF Next, Send, Audio
    <2> QED BY <2>1, <2>2
  <1> QED BY <1>1, CancellingInit, ClockedInvariant, PTL DEF Spec

\* A callback that finds a Stop made plays nothing that was queued before the Stop was
\* begun, on two threads as well.
THEOREM StopsCancel == Spec => FoundStopsCancel
  <1>1. Cancelling => (phase = "play" /\ Due => peeked.batch >= current)
    BY DEF Cancelling, Swept, Due
  <1>2. Clocked /\ Cancelling /\ [Next]_vars => [Sounds => peeked.batch >= current]_vars
    BY <1>1 DEF Sounds
  <1> QED BY <1>2, CancellingInvariant, PTL DEF Spec, FoundStopsCancel

\* ... and what it drops that was queued after that Stop, it drops behind a note of an
\* earlier one and for a Stop that has been made since it looked.
THEOREM LaterNotesStay == Spec => OneStopKeepsLaterNotes
  <1> DEFINE Lost(event) == event.epoch > current /\ tries < Capacity + 1
  <1>1. ASSUME Clocked, Cancelling, Next, Cancels, NEW i \in DOMAIN Queued, Queued[i].epoch >= current
        PROVE  Kept(Queued[i]) \/ Lost(Queued[i])
    <2> USE <1>1 DEF Clocked, Cancelling
    <2>1. phase = "sift" /\ Cancelled /\ tries > 0 /\ peeked # None /\ peeked.epoch # current
      BY DEF Cancels, Cancelled
    <2>2. CASE ring' = ring /\ peeked' = peeked
      BY <2>2 DEF Kept, Queued
    <2>3. CASE Push /\ ring' # ring
      <3>1. peeked' = peeked /\ Len(ring) < Capacity /\ ring' = Append(ring, Event)
        BY <2>3 DEF Push
      <3>2. Event \in Events
        <4>1. sending \in Admitted
          BY <2>3 DEF Push, Typed, Stamped, Admitted
        <4> QED BY <4>1 DEF Typed, Admitted, Event, Events
      <3>3. Queued' = Append(Queued, Event) /\ Queued \in Seq(Events)
        <4>1. Queued = <<peeked>> \o ring /\ Queued' = <<peeked>> \o Append(ring, Event)
          BY <2>1, <3>1 DEF Queued
        <4>2. <<peeked>> \in Seq(Events) /\ ring \in Seq(Events)
          BY <2>1 DEF Typed
        <4> QED BY <3>2, <4>1, <4>2
      <3>4. i \in DOMAIN Queued' /\ Queued'[i] = Queued[i]
        BY <3>2, <3>3, AppendProperties, LenProperties
      <3> QED BY <3>4 DEF Kept
    <2>4. CASE Drop
      <3>1. Queued' = ring
        BY <2>4, QueuedAfter
      <3>2. CASE i = 1
        <4>1. Queued[1] = peeked
          BY <2>1, QueuedIs
        <4>2. peeked.epoch > current /\ tries < Capacity + 1
          BY <2>1, <3>2, <4>1 DEF Swept, Typed, Events
        <4> QED BY <3>2, <4>1, <4>2
      <3>3. CASE i # 1
        <4>1. i \in 1 .. Len(ring) + 1 /\ Len(ring) \in Nat /\ DOMAIN ring = 1 .. Len(ring)
          BY <2>1, QueuedIs, LenProperties DEF Typed
        <4>2. i - 1 \in 1 .. Len(ring) /\ (i - 1) + 1 = i
          BY <3>3, <4>1
        <4>3. ring[i - 1] = Queued[i]
          BY <2>1, <4>2, QueuedIs
        <4> QED BY <3>1, <4>1, <4>2, <4>3 DEF Kept
      <3> QED BY <3>2, <3>3
    <2>5. \/ ring' = ring /\ peeked' = peeked
          \/ Push /\ ring' # ring
          \/ Drop
      BY <2>1 DEF Next, Send, Audio, Stamp, Admit, Push, Latch, SetLead, CancelQueue, CancelBump,
             Callback, Output, Publish, Commands, Refresh, Load, Sift, Play, Played, Dispatch,
             Segment, QuantumDone, queueVars
    <2> QED BY <2>2, <2>3, <2>4, <2>5
  <1>2. Clocked /\ Cancelling /\ [Next]_vars =>
          [Cancels => \A i \in DOMAIN Queued :
                        Queued[i].epoch >= current => Kept(Queued[i]) \/ Lost(Queued[i])]_vars
    BY <1>1
  <1> QED BY <1>2, CancellingInvariant, PTL DEF Spec, OneStopKeepsLaterNotes
=============================================================================
