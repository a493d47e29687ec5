---------------------------- MODULE CastStream_proofs ----------------------------
(***************************************************************************)
(* That the speaker hears what was encoded, in order and without a gap,    *)
(* for every size of the chunk channel and of the connection.              *)
(***************************************************************************)
EXTENDS CastStream, SequenceTheorems, TLAPS

\* What the speaker has heard last, and all that is under way to it.
Chunks == <<heard>> \o wire \o channel

\* Somebody listens, or may still come to.
Live == listening \/ receiver = "asset"

Typed ==
    /\ wire \in Seq(Nat) /\ channel \in Seq(Nat) /\ heard \in Nat /\ chunk \in Nat
    /\ driver \in {"loop", "send", "wait", "finish", "ended"}
    /\ stopped \in BOOLEAN /\ tail \in BOOLEAN
    /\ driver \in {"loop", "finish"} => ~tail

\* Nothing has been sent before the stream is fetched.
Unfetched == receiver = "asset" => ~listening /\ server # "stream"

\* Each chunk follows the one before it; only the last of all, the tail of a stream that
\* was stopped, may not.
Linked ==
    Live => \A i \in 2 .. Len(Chunks) :
              \/ Chunks[i] = After(Chunks[i - 1])
              \/ stopped /\ tail /\ driver = "ended" /\ i = Len(Chunks)

\* The chunk the driver has in hand is the next one, unless one was given up on a stop.
Last == Chunks[Len(Chunks)]
InHand ==
    Live /\ receiver # "gone" =>
      /\ driver = "loop" => chunk = Last
      /\ driver = "finish" => chunk = Last \/ stopped
      /\ driver \in {"send", "wait"} => chunk = After(Last) \/ (tail /\ stopped)

IInv == Typed /\ Unfetched /\ Linked /\ InHand

LEMMA AfterIsNat == \A n \in Nat : After(n) \in Nat
  <1>1. Cycle \in Nat /\ Cycle > 0
    BY SizeAssumption, CycleAssumption
  <1> QED BY <1>1 DEF After

(* What one step does to three sequences one after the other *)

LEMMA HeadThenTail == ASSUME NEW s \in Seq(Nat), s # <<>> PROVE <<Head(s)>> \o Tail(s) = s
  <1>1. /\ Head(s) \in Nat /\ Tail(s) \in Seq(Nat) /\ Len(Tail(s)) = Len(s) - 1
        /\ \A i \in 1 .. Len(Tail(s)) : Tail(s)[i] = s[i + 1]
        /\ Len(s) \in Nat /\ Len(s) > 0 /\ Head(s) = s[1]
    BY HeadTailProperties
  <1>2. <<Head(s)>> \in Seq(Nat) /\ Len(<<Head(s)>>) = 1 /\ <<Head(s)>>[1] = s[1]
    BY <1>1
  <1>3. /\ <<Head(s)>> \o Tail(s) \in Seq(Nat) /\ Len(<<Head(s)>> \o Tail(s)) = Len(s)
        /\ \A i \in 1 .. Len(s) : (<<Head(s)>> \o Tail(s))[i] = IF i <= 1 THEN s[1] ELSE Tail(s)[i - 1]
    BY <1>1, <1>2, ConcatProperties
  <1>4. \A i \in 1 .. Len(s) : (<<Head(s)>> \o Tail(s))[i] = s[i]
    <2> SUFFICES ASSUME NEW i \in 1 .. Len(s) PROVE (<<Head(s)>> \o Tail(s))[i] = s[i]
      OBVIOUS
    <2>1. CASE i = 1
      BY <1>3, <2>1
    <2>2. CASE i # 1
      <3>1. i - 1 \in 1 .. Len(Tail(s)) /\ (i - 1) + 1 = i
        BY <1>1, <2>2
      <3> QED BY <1>1, <1>3, <2>2, <3>1
    <2> QED BY <2>1, <2>2
  <1> QED BY <1>3, <1>4, SeqEqual

LEMMA Together ==
    /\ \A s, t \in Seq(Nat) : s \o t \in Seq(Nat)
    /\ \A s, t, u \in Seq(Nat) : (s \o t) \o u = s \o (t \o u)
    /\ \A s \in Seq(Nat), x \in Nat : Append(s, x) = s \o <<x>>
    /\ \A x \in Nat : <<x>> \in Seq(Nat)
  <1>1. ASSUME NEW s \in Seq(Nat), NEW t \in Seq(Nat), NEW u \in Seq(Nat)
        PROVE  s \o t \in Seq(Nat) /\ (s \o t) \o u = s \o (t \o u)
    <2>1. s \o t \in Seq(Nat)
      BY ConcatProperties
    <2>2. (s \o t) \o u = s \o (t \o u)
      BY ConcatAssociative, SMT
    <2> QED BY <2>1, <2>2
  <1>2. ASSUME NEW s \in Seq(Nat), NEW x \in Nat PROVE Append(s, x) = s \o <<x>>
    BY AppendIsConcat, Zenon
  <1> QED BY <1>1, <1>2

LEMMA OneMore ==
    ASSUME NEW h \in Nat, NEW w \in Seq(Nat), NEW c \in Seq(Nat), NEW x \in Nat
    PROVE  <<h>> \o w \o Append(c, x) = Append(<<h>> \o w \o c, x)
  BY Together

LEMMA OneOn ==
    ASSUME NEW h \in Nat, NEW w \in Seq(Nat), NEW c \in Seq(Nat), c # <<>>
    PROVE  <<h>> \o Append(w, Head(c)) \o Tail(c) = <<h>> \o w \o c
  <1>1. <<h>> \in Seq(Nat) /\ Head(c) \in Nat /\ Tail(c) \in Seq(Nat) /\ <<Head(c)>> \in Seq(Nat)
    BY HeadTailProperties
  <1>2. <<h>> \o Append(w, Head(c)) = <<h>> \o w \o <<Head(c)>>
    BY <1>1, Together
  <1>3. <<h>> \o w \o <<Head(c)>> \o Tail(c) = <<h>> \o w \o (<<Head(c)>> \o Tail(c))
    <2>1. <<h>> \o w \in Seq(Nat)
      BY <1>1, Together
    <2>2. \A t, u \in Seq(Nat) : (<<h>> \o w) \o t \o u = (<<h>> \o w) \o (t \o u)
      BY <2>1, Together
    <2> QED BY <1>1, <2>2
  <1> QED BY <1>2, <1>3, HeadThenTail

LEMMA OneLess ==
    ASSUME NEW h \in Nat, NEW w \in Seq(Nat), NEW c \in Seq(Nat), w # <<>>
    PROVE  <<Head(w)>> \o Tail(w) \o c = Tail(<<h>> \o w \o c)
  <1>1. <<Head(w)>> \o Tail(w) = w
    BY HeadThenTail
  <1>2. <<h>> \in Seq(Nat) /\ Len(<<h>>) = 1 /\ w \o c \in Seq(Nat)
    BY ConcatProperties
  <1>3. <<h>> \o w \o c = <<h>> \o (w \o c)
    BY <1>2, Together
  <1>4. Tail(<<h>> \o (w \o c)) = w \o c
    <2> DEFINE t == w \o c
               s == <<h>> \o t
    <2>1. s \in Seq(Nat) /\ Len(s) = 1 + Len(t) /\ Len(t) \in Nat /\ \A i \in 1 .. 1 + Len(t) : s[i] = IF i <= 1 THEN h ELSE t[i - 1]
      BY <1>2, ConcatProperties
    <2>2. s # <<>>
      BY <2>1
    <2>3. /\ Tail(s) \in Seq(Nat) /\ Len(Tail(s)) = Len(t)
          /\ \A i \in 1 .. Len(t) : Tail(s)[i] = s[i + 1]
      <3> HIDE DEF s, t
      <3> QED BY <2>1, <2>2, HeadTailProperties
    <2>4. \A i \in 1 .. Len(t) : Tail(s)[i] = t[i]
      <3> HIDE DEF s, t
      <3> SUFFICES ASSUME NEW i \in 1 .. Len(t) PROVE Tail(s)[i] = t[i]
        OBVIOUS
      <3>1. i + 1 \in 1 .. 1 + Len(t) /\ ~(i + 1 <= 1) /\ (i + 1) - 1 = i
        BY <2>1
      <3> QED BY <2>1, <2>3, <3>1
    <2>5. t \in Seq(Nat)
      BY <1>2
    <2> HIDE DEF s, t
    <2>6. Tail(s) = t
      BY <2>3, <2>4, <2>5, SeqEqual
    <2> QED BY <2>6 DEF s, t
  <1> QED BY <1>1, <1>3, <1>4

LEMMA ChunksAre ==
    ASSUME Typed
    PROVE  Chunks \in Seq(Nat) /\ Len(Chunks) \in Nat /\ Len(Chunks) > 0
  <1>1. <<heard>> \in Seq(Nat) /\ Len(<<heard>>) = 1 /\ Len(wire) \in Nat /\ Len(channel) \in Nat
    BY DEF Typed
  <1>2. <<heard>> \o wire \in Seq(Nat) /\ Len(<<heard>> \o wire) = 1 + Len(wire)
    BY <1>1, ConcatProperties DEF Typed
  <1>3. Chunks \in Seq(Nat) /\ Len(Chunks) = 1 + Len(wire) + Len(channel)
    BY <1>2, ConcatProperties DEF Typed, Chunks
  <1> QED BY <1>1, <1>3

-----------------------------------------------------------------------------
LEMMA Initially == Init => IInv
  <1> SUFFICES ASSUME Init PROVE IInv
    OBVIOUS
  <1> USE DEF Init
  <1>1. Typed /\ Unfetched
    BY EmptySeq DEF Typed, Unfetched
  <1>2. Len(Chunks) = 1 /\ Last = 0
    <2>1. Chunks = <<0>>
      <3>1. <<0>> \in Seq(Nat)
        OBVIOUS
      <3> QED BY <3>1, ConcatEmptySeq DEF Chunks
    <2> QED BY <2>1 DEF Last
  <1> QED BY <1>1, <1>2 DEF IInv, Linked, InHand

\* A step that leaves alone what is under way.
LEMMA SameChunks == ASSUME UNCHANGED <<heard, wire, channel>> PROVE Chunks' = Chunks /\ Last' = Last
  BY DEF Chunks, Last

-----------------------------------------------------------------------------
LEMMA DriverKeeps == ASSUME IInv, Render \/ EncodeFails \/ Finish \/ Wait PROVE IInv'
  <1> USE DEF IInv, Render, EncodeFails, Finish, Wait, AfterWaiting, GivenUp
  <1>1. UNCHANGED <<stopped, channel, receiver, server, wire, heard, listening>>
        /\ driver # "ended"
    BY DEF controlVars, speakerVars
  <1>2. Typed'
    <2>1. driver' \in {"loop", "send", "wait", "finish", "ended"} /\ tail' \in BOOLEAN
      BY DEF Typed
    <2>2. chunk' \in Nat
      BY AfterIsNat DEF Typed
    <2>3. driver' \in {"loop", "finish"} => ~tail'
      BY DEF Typed
    <2> QED BY <1>1, <2>1, <2>2, <2>3 DEF Typed
  <1>3. Chunks' = Chunks /\ Last' = Last
    BY <1>1, SameChunks
  <1>4. Unfetched' /\ Linked'
    BY <1>1, <1>3 DEF Unfetched, Linked, Live
  <1>5. InHand'
    BY <1>1, <1>3 DEF InHand, Live, Typed
  <1> QED BY <1>2, <1>4, <1>5

\* A chunk comes after the last one.
LEMMA TrySendKeeps == ASSUME IInv, TrySend PROVE IInv'
  <1> USE DEF IInv, TrySend
  <1>1. UNCHANGED <<stopped, chunk, tail, receiver, server, wire, heard, listening>> /\ driver = "send"
    BY DEF controlVars, speakerVars
  <1>2. CASE receiver # "gone" /\ Len(channel) < Capacity
    <2>1. driver' = Sent /\ channel' = Append(channel, chunk)
      BY <1>2
    <2>2. /\ channel' \in Seq(Nat) /\ Len(channel') = Len(channel) + 1
          /\ \A i \in 1 .. Len(channel) : channel'[i] = channel[i]
          /\ channel'[Len(channel) + 1] = chunk
      BY <2>1, AppendProperties DEF Typed
    <2>3. Typed'
      BY <1>1, <2>1, <2>2 DEF Typed, Sent
    <2>4. /\ Len(Chunks') = Len(Chunks) + 1 /\ Len(Chunks) \in Nat /\ Len(Chunks) > 0
          /\ \A i \in 1 .. Len(Chunks) : Chunks'[i] = Chunks[i]
          /\ Chunks'[Len(Chunks) + 1] = chunk
      <3>1. Chunks' = Append(Chunks, chunk)
        BY <1>1, <2>1, OneMore DEF Chunks, Typed
      <3> QED BY <3>1, ChunksAre, AppendProperties DEF Typed
    <2>5. Last' = chunk
      BY <2>4 DEF Last
    <2>6. Live' <=> Live
      BY <1>1 DEF Live
    <2>7. Linked'
      <3> SUFFICES ASSUME Live, NEW i \in 2 .. Len(Chunks) + 1
                   PROVE  \/ Chunks'[i] = After(Chunks'[i - 1])
                          \/ stopped /\ tail /\ driver' = "ended" /\ i = Len(Chunks) + 1
        BY <1>1, <2>4, <2>6 DEF Linked
      <3>1. CASE i <= Len(Chunks)
        BY <1>1, <2>4, <3>1 DEF Linked
      <3>2. CASE i = Len(Chunks) + 1
        <4>1. Chunks'[i] = chunk /\ Chunks'[i - 1] = Last
          BY <2>4, <3>2 DEF Last
        <4> QED BY <1>1, <1>2, <2>1, <3>2, <4>1 DEF InHand, Sent
      <3> QED BY <2>4, <3>1, <3>2
    <2>8. Unfetched' /\ InHand'
      BY <1>1, <2>1, <2>5 DEF Unfetched, InHand, Sent, Typed
    <2> QED BY <2>3, <2>7, <2>8
  <1>3. CASE ~(receiver # "gone" /\ Len(channel) < Capacity)
    <2>1. /\ channel' = channel /\ driver' \in {"wait", "finish", "ended"}
          /\ driver' = "finish" => ~tail
          /\ receiver # "gone" => driver' = "wait"
      BY <1>3 DEF GivenUp, WhenFull
    <2>2. Typed'
      BY <1>1, <2>1 DEF Typed
    <2>3. Chunks' = Chunks /\ Last' = Last
      BY <1>1, <2>1, SameChunks
    <2> QED BY <1>1, <2>1, <2>2, <2>3 DEF Unfetched, Linked, InHand, Live
  <1> QED BY <1>2, <1>3

-----------------------------------------------------------------------------
\* The server passes on the first chunk that waits; what is under way is the same.
LEMMA StreamKeeps == ASSUME IInv, Stream PROVE IInv'
  <1> USE DEF IInv, Stream
  <1>1. UNCHANGED <<stopped, driver, chunk, tail, heard, listening>> /\ server = "stream"
    BY DEF controlVars, driverVars, speakerVars
  <1>2. /\ channel' = Tail(channel) /\ channel' \in Seq(Nat) /\ Len(channel') = Len(channel) - 1
        /\ Head(channel) = channel[1] /\ Head(channel) \in Nat /\ Len(channel) > 0
        /\ \A i \in 1 .. Len(channel') : channel'[i] = channel[i + 1]
    BY HeadTailProperties DEF Typed
  <1>3. CASE listening
    <2>1. wire' = Append(wire, Head(channel)) /\ UNCHANGED <<server, receiver>>
      BY <1>3
    <2>2. /\ wire' \in Seq(Nat) /\ Len(wire') = Len(wire) + 1
          /\ \A i \in 1 .. Len(wire) : wire'[i] = wire[i]
          /\ wire'[Len(wire) + 1] = channel[1]
      BY <1>2, <2>1, AppendProperties DEF Typed
    <2>3. Typed'
      BY <1>1, <1>2, <2>2 DEF Typed
    <2>4. Chunks' = Chunks
      <3>1. <<heard>> \o Append(wire, Head(channel)) \o Tail(channel) = <<heard>> \o wire \o channel
        BY OneOn DEF Typed
      <3>2. Chunks' = <<heard>> \o Append(wire, Head(channel)) \o Tail(channel)
        BY <1>1, <1>2, <2>1 DEF Chunks
      <3> QED BY <3>1, <3>2 DEF Chunks
    <2>5. Last' = Last
      BY <2>4 DEF Last
    <2> QED BY <1>1, <2>1, <2>3, <2>4, <2>5 DEF Unfetched, Linked, InHand, Live
  <1>4. CASE ~listening
    <2>1. wire' = wire /\ server' = "idle" /\ receiver' = "gone"
      BY <1>4
    <2> QED BY <1>1, <1>2, <1>4, <2>1 DEF Typed, Unfetched, Linked, InHand, Live
  <1> QED BY <1>3, <1>4

\* The speaker hears the next one.
LEMMA HearKeeps == ASSUME IInv, Hear PROVE IInv'
  <1> USE DEF IInv, Hear
  <1>1. /\ UNCHANGED <<stopped, driver, chunk, tail, channel, receiver, server, listening>> /\ listening
    BY DEF controlVars, driverVars
  <1>2. /\ wire' \in Seq(Nat) /\ Len(wire') = Len(wire) - 1 /\ Len(wire) > 0 /\ Len(wire) \in Nat
        /\ heard' = wire[1] /\ heard' \in Nat
        /\ \A i \in 1 .. Len(wire') : wire'[i] = wire[i + 1]
    BY HeadTailProperties DEF Typed
  <1>3. Typed'
    BY <1>1, <1>2 DEF Typed
  <1>4. /\ Len(Chunks') = Len(Chunks) - 1 /\ Len(Chunks') \in Nat /\ Len(Chunks') > 0
        /\ \A i \in 1 .. Len(Chunks') : Chunks'[i] = Chunks[i + 1]
    <2>1. Chunks' = Tail(Chunks)
      <3>1. <<Head(wire)>> \o Tail(wire) \o channel = Tail(<<heard>> \o wire \o channel)
        BY OneLess DEF Typed
      <3>2. Chunks' = <<Head(wire)>> \o Tail(wire) \o channel
        BY <1>1 DEF Chunks
      <3> QED BY <3>1, <3>2 DEF Chunks
    <2>2. Chunks # <<>> /\ Len(Chunks) > 1
      <3>1. <<heard>> \o wire \in Seq(Nat) /\ Len(<<heard>> \o wire) = 1 + Len(wire)
        BY ConcatProperties DEF Typed
      <3>2. Len(Chunks) = 1 + Len(wire) + Len(channel) /\ Len(channel) \in Nat
        BY <3>1, ConcatProperties DEF Typed, Chunks
      <3> QED BY <1>2, <3>2
    <2> QED BY <2>1, <2>2, ChunksAre, HeadTailProperties
  <1>5. Last' = Last
    BY <1>4 DEF Last
  <1>6. Linked'
    <2> SUFFICES ASSUME Live, NEW i \in 2 .. Len(Chunks')
                 PROVE  \/ Chunks'[i] = After(Chunks'[i - 1])
                        \/ stopped /\ tail /\ driver = "ended" /\ i = Len(Chunks')
      BY <1>1 DEF Linked, Live
    <2>1. /\ i + 1 \in 2 .. Len(Chunks) /\ Chunks'[i] = Chunks[i + 1]
          /\ Chunks'[i - 1] = Chunks[(i + 1) - 1]
      BY <1>4
    <2> QED BY <1>4, <2>1 DEF Linked
  <1> QED BY <1>1, <1>3, <1>5, <1>6 DEF Unfetched, InHand, Live

-----------------------------------------------------------------------------
\* Who is served, and who hangs up.
LEMMA SpeakerKeeps == ASSUME IInv, Serve \/ EndOfResponse \/ HangUp PROVE IInv'
  <1> USE DEF IInv, Serve, EndOfResponse, HangUp
  <1>1. UNCHANGED <<stopped, driver, chunk, tail, channel, heard>>
    BY DEF controlVars, driverVars, speakerVars
  <1>2. CASE Live'
    <2>1. wire' = wire /\ Live
      BY <1>2 DEF Live, Unfetched, speakerVars
    <2>2. Chunks' = Chunks /\ Last' = Last
      BY <1>1, <2>1, SameChunks
    <2>3. receiver' # "gone" => receiver # "gone"
      BY DEF speakerVars
    <2>4. Unfetched'
      BY DEF Unfetched, speakerVars
    <2> QED BY <1>1, <2>1, <2>2, <2>3, <2>4 DEF Typed, Linked, InHand
  <1>3. CASE ~Live'
    <2>1. wire' \in {wire, <<>>}
      BY DEF speakerVars
    <2>2. wire' \in Seq(Nat)
      BY <2>1, EmptySeq DEF Typed
    <2> QED BY <1>1, <1>3, <2>2 DEF Typed, Unfetched, Linked, InHand, Live
  <1> QED BY <1>2, <1>3

LEMMA OthersKeep ==
    ASSUME IInv, NoMoreRequests \/ Fetch \/ Control \/ EndFollowing \/ UNCHANGED vars
    PROVE  IInv'
  <1> USE DEF IInv, NoMoreRequests, Fetch, Control, Connect, Load, StopDriver, JoinDriver, Unblock,
              JoinServer, EndFollowing
  <1>1. /\ UNCHANGED <<driver, chunk, tail, channel, wire, heard, listening>>
        /\ stopped' \in BOOLEAN /\ (stopped => stopped')
        /\ receiver' \in {receiver, "gone"} /\ (server' = "stream" => server = "stream")
    BY DEF vars, controlVars, driverVars, speakerVars, Typed
  <1>2. Chunks' = Chunks /\ Last' = Last
    BY <1>1, SameChunks
  <1>3. Typed'
    BY <1>1 DEF Typed
  <1>4. Unfetched' /\ Linked' /\ InHand'
    BY <1>1, <1>2 DEF Unfetched, Linked, InHand, Live
  <1> QED BY <1>3, <1>4

THEOREM ChunksInOrder == Spec => []IInv
  <1>1. IInv /\ [Next]_vars => IInv'
    BY DriverKeeps, TrySendKeeps, StreamKeeps, HearKeeps, SpeakerKeeps, OthersKeep
       DEF Next, Driver, Server
  <1> QED BY <1>1, Initially, PTL DEF Spec

\* The speaker hears every chunk up to the stop, once and in order, whatever the capacity of
\* the channel and of the connection, whoever waits and whenever the session is closed.
THEOREM NoGaps == Spec => []Gapless
  <1>1. IInv => Gapless
    BY DEF IInv, Linked, Live, Gapless, Chunks
  <1> QED BY <1>1, ChunksInOrder, PTL
=============================================================================
