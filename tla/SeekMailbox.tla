----------------------------- MODULE SeekMailbox -----------------------------
(***************************************************************************)
(* The seek mailbox of crates/starplayer-host/src/source.rs: three atomics *)
(* (`kind`, `argument`, `frame`) shared by                                 *)
(*                                                                         *)
(*   - the control thread, which writes a request (Player::request_seek)   *)
(*     or clears the slot when it installs a module;                       *)
(*   - the audio callback, which writes a rewind of its own                *)
(*     (RenderState::request_seek, after a song that ended or faded out)   *)
(*     and consumes whatever is pending at an event boundary               *)
(*     (SeekableModuleSource::apply_request).                              *)
(*                                                                         *)
(* One step is one atomic access.  Accesses are sequentially consistent    *)
(* here; the Relaxed loads and stores of the source allow more behaviours, *)
(* never fewer.                                                            *)
(*                                                                         *)
(* Nothing makes the two writers take turns on a host with threads, and    *)
(* nothing is assumed here that would: seeks, rewinds and clears overlap   *)
(* each other and the sequencer's look at any access.                      *)
(*                                                                         *)
(* Frames are counted in render quanta.  A control request's argument is   *)
(* its ordinal, so every request is distinguishable; the audio side's own  *)
(* rewind is always "frame 0".                                             *)
(***************************************************************************)
EXTENDS Naturals, Sequences

CONSTANTS
    Realms,        \* "worklet": control code runs only between callbacks; "threads"
    MaxSeeks,      \* bound: control requests
    MaxClears,     \* bound: module installs that clear the slot
    MaxRewinds,    \* bound: rewinds the audio side asks for
    MaxQuanta      \* bound: the quanta counted; later ones share the last number

ASSUME RealmAssumption == Realms \subseteq {"worklet", "threads"}
ASSUME BoundAssumption ==
    /\ MaxSeeks \in Nat /\ MaxClears \in Nat
    /\ MaxRewinds \in Nat /\ MaxQuanta \in Nat

VARIABLES
    realm,                   \* the host this is: fixed from the start
    kind, argument, frame,   \* the three atomics of SeekMailbox
    running,                 \* Engine::audio_running: the source clock moves
    now,                     \* Engine::source_frame
    tap,                     \* PlayerTaps::source_frame, stored once per callback
    ctl,                     \* the control thread: the request it writes, and how far
    aud,                     \* the audio callback: where it is, and what it has read
    seeks, clears, rewinds,  \* how many of each have begun
    made,                    \* history: every request whose write has begun
    owed,                    \* history: the last request published and not cleared
    late,                    \* history: it came after the sequencer's look of this quantum
    wiped,                   \* history: the sequencer's clear wiped it unseen
    ord,                     \* history: whose argument is where, see Places
    applied                  \* history: the last request the sequencer acted on

vars == <<realm, running, kind, argument, frame, now, tap, ctl, aud, seeks, clears, rewinds,
          made, owed, late, wiped, ord, applied>>

\* The argument stores are numbered.  ord keeps the number of the argument in the
\* slot and of those picked up from it ("argument", "readArgument", "applied"), and
\* the number that belongs to a request: the one being written ("control",
\* "audio"), the one whose kind is in the slot or was read ("kind", "readKind"),
\* the one owed ("owed").  0: that request's argument has not been stored.
Places == {"argument", "kind", "control", "audio", "readKind", "readArgument", "applied", "owed"}

Kinds == {"order", "row", "frame"}
Request == [kind : Kinds \cup {"none"}, arg : 0 .. MaxSeeks, at : 0 .. MaxQuanta]
NoRequest == [kind |-> "none", arg |-> 0, at |-> 0]
Rewind == [kind |-> "frame", arg |-> 0, at |-> now]

\* What a request asks for, without the frame it was stamped with.
Target(req) == <<req.kind, req.arg>>

\* Mutant of StoreOrder: the discriminant is published first.
StoreOrderKindFirst == <<"kind", "argument", "frame">>

\* SeekMailbox::request stores the argument, the frame and then the kind.
StoreOrder == <<"argument", "frame", "kind">>

TypeOK ==
    /\ realm \in Realms
    /\ kind \in Kinds \cup {"none"}
    /\ argument \in 0 .. MaxSeeks
    /\ frame \in 0 .. now
    /\ running \in BOOLEAN
    /\ now \in 0 .. MaxQuanta
    /\ tap \in 0 .. now
    /\ ctl \in [req : Request, stored : 0 .. Len(StoreOrder)]
    /\ aud \in [at : {"outside", "quantum", "store", "peekArgument", "peekFrame",
                      "clear", "apply", "advance"},
                req : Request, stored : 0 .. Len(StoreOrder)]
    /\ seeks \in 0 .. MaxSeeks
    /\ clears \in 0 .. MaxClears
    /\ rewinds \in 0 .. MaxRewinds
    /\ late \in BOOLEAN /\ wiped \in BOOLEAN

\* The type of the numbers, which no action reads.
NumbersOK == ord \in [Places -> Nat]

Init ==
    /\ realm \in Realms
    /\ kind = "none" /\ argument = 0 /\ frame = 0
    /\ running \in BOOLEAN /\ now = 0 /\ tap = 0
    /\ ctl = [req |-> NoRequest, stored |-> Len(StoreOrder)]
    /\ aud = [at |-> "outside", req |-> NoRequest, stored |-> Len(StoreOrder)]
    /\ seeks = 0 /\ clears = 0 /\ rewinds = 0
    /\ made = {} /\ owed = NoRequest /\ late = FALSE /\ wiped = FALSE
    /\ ord = [p \in Places |-> 0] /\ applied = NoRequest

-----------------------------------------------------------------------------

\* A request is owed from the moment its kind is visible.
Owe(req, field) ==
    /\ owed' = IF field = "kind" THEN req ELSE owed
    /\ late' = IF field = "kind" THEN aud.at \notin {"outside", "quantum", "store"} ELSE late
    /\ wiped' = (field # "kind" /\ wiped)

\* The numbers that go with the store of one field by one side.
Number(side, field) ==
    ord' = CASE field = "argument" -> [ord EXCEPT !["argument"] = @ + 1, ![side] = ord["argument"] + 1]
             [] field = "kind" -> [ord EXCEPT !["kind"] = ord[side], !["owed"] = ord[side]]
             [] OTHER -> ord

\* Mutant of StoreField: a request gives way to one that is still pending.
StoreFieldFirstWins(req, field) ==
    /\ argument' = IF field = "argument" THEN req.arg ELSE argument
    /\ frame' = IF field = "frame" THEN req.at ELSE frame
    /\ kind' = IF field = "kind" /\ kind = "none" THEN req.kind ELSE kind
    /\ Owe(req, field)

\* One store of SeekMailbox::request.
StoreField(req, field) ==
    /\ argument' = IF field = "argument" THEN req.arg ELSE argument
    /\ frame' = IF field = "frame" THEN req.at ELSE frame
    /\ kind' = IF field = "kind" THEN req.kind ELSE kind
    /\ Owe(req, field)

Writing(writer) == writer.stored < Len(StoreOrder)

-----------------------------------------------------------------------------
(* The control thread *)

ControlMayRun == realm = "worklet" => aud.at = "outside"

\* Mutant of Stamp: one quantum of lead, as live input has.
StampAhead == tap + 1

\* Player::request_seek stamps the frame the last callback published.
Stamp == tap

ControlRequest(k) ==
    /\ ControlMayRun
    /\ ~Writing(ctl)
    /\ seeks < MaxSeeks
    /\ seeks' = seeks + 1
    /\ ctl' = [req |-> [kind |-> k, arg |-> seeks + 1, at |-> Stamp], stored |-> 0]
    /\ made' = made \cup {<<k, seeks + 1>>}
    /\ ord' = [ord EXCEPT !["control"] = 0]
    /\ UNCHANGED <<realm, running, kind, argument, frame, now, tap, aud, clears, rewinds,
                   owed, late, wiped, applied>>

ControlStore ==
    /\ Writing(ctl)
    /\ StoreField(ctl.req, StoreOrder[ctl.stored + 1])
    /\ Number("control", StoreOrder[ctl.stored + 1])
    /\ ctl' = [ctl EXCEPT !.stored = @ + 1]
    /\ UNCHANGED <<realm, running, now, tap, aud, seeks, clears, rewinds, made, applied>>

\* Player::install_identified and install_smf drop a seek meant for the
\* outgoing module.
ControlClear ==
    /\ ControlMayRun
    /\ ~Writing(ctl)
    /\ clears < MaxClears
    /\ clears' = clears + 1
    /\ kind' = "none"
    /\ owed' = NoRequest
    /\ UNCHANGED <<realm, running, argument, frame, now, tap, ctl, aud, seeks, rewinds, made,
                   late, wiped, ord, applied>>

-----------------------------------------------------------------------------
(* The audio callback *)

Move(at) == aud' = [aud EXCEPT !.at = at]
SlotUnchanged == UNCHANGED <<kind, argument, frame, owed, wiped>>
MailboxUnchanged == SlotUnchanged /\ UNCHANGED late
CountersUnchanged == UNCHANGED <<seeks, clears, rewinds>>

AudioEnter ==
    /\ aud.at = "outside"
    /\ realm = "worklet" => ~Writing(ctl)
    /\ Move("quantum")
    /\ MailboxUnchanged /\ CountersUnchanged
    /\ UNCHANGED <<realm, running, now, tap, ctl, made, ord, applied>>

\* RenderState::request_seek, at a quantum boundary: a Play that means "again",
\* or a natural end or a fade that has landed.
AudioRewind ==
    /\ aud.at = "quantum"
    /\ rewinds < MaxRewinds
    /\ rewinds' = rewinds + 1
    /\ aud' = [at |-> "store", req |-> Rewind, stored |-> 0]
    /\ made' = made \cup {Target(Rewind)}
    /\ ord' = [ord EXCEPT !["audio"] = 0]
    /\ MailboxUnchanged
    /\ UNCHANGED <<realm, running, now, tap, ctl, seeks, clears, applied>>

AudioStore ==
    /\ aud.at = "store"
    /\ StoreField(aud.req, StoreOrder[aud.stored + 1])
    /\ Number("audio", StoreOrder[aud.stored + 1])
    /\ aud' = [aud EXCEPT !.stored = @ + 1,
                          !.at = IF aud.stored + 1 = Len(StoreOrder) THEN "quantum" ELSE "store"]
    /\ CountersUnchanged
    /\ UNCHANGED <<realm, running, now, tap, ctl, made, applied>>

\* The engine takes a Play or a Stop of the legacy transport from its ring, at
\* the top of a quantum.  While it is stopped a quantum dispatches nothing and
\* the source clock stands still: in the terms of this module nothing happens.
\* The interactive transport runs from the start and never takes this step.
AudioPlayStop ==
    /\ aud.at = "quantum"
    /\ running' = ~running
    /\ MailboxUnchanged /\ CountersUnchanged
    /\ UNCHANGED <<realm, now, tap, ctl, aud, made, ord, applied>>

\* A running quantum dispatches: SeekMailbox::peek, the kind first, and nothing
\* else if there is none.
AudioPeekKind ==
    /\ aud.at = "quantum"
    /\ running
    /\ aud' = [aud EXCEPT !.req.kind = kind,
                          !.at = IF kind = "none" THEN "advance" ELSE "peekArgument"]
    /\ ord' = [ord EXCEPT !["readKind"] = ord["kind"]]
    /\ MailboxUnchanged /\ CountersUnchanged
    /\ UNCHANGED <<realm, running, now, tap, ctl, made, applied>>

AudioPeekArgument ==
    /\ aud.at = "peekArgument"
    /\ aud' = [aud EXCEPT !.req.arg = argument, !.at = "peekFrame"]
    /\ ord' = [ord EXCEPT !["readArgument"] = ord["argument"]]
    /\ MailboxUnchanged /\ CountersUnchanged
    /\ UNCHANGED <<realm, running, now, tap, ctl, made, applied>>

\* SeekableModuleSource::apply_request acts on a request that is due.
AudioPeekFrame ==
    /\ aud.at = "peekFrame"
    /\ aud' = [aud EXCEPT !.req.at = frame,
                          !.at = IF now >= frame THEN "clear" ELSE "advance"]
    /\ MailboxUnchanged /\ CountersUnchanged
    /\ UNCHANGED <<realm, running, now, tap, ctl, made, ord, applied>>

\* It forgets what is pending, whatever was published since it looked.
AudioClear ==
    /\ aud.at = "clear"
    /\ kind' = "none"
    /\ Move("apply")
    /\ wiped' = (late \/ wiped)
    /\ CountersUnchanged
    /\ UNCHANGED <<realm, running, argument, frame, now, tap, ctl, made, owed, late, ord, applied>>

AudioApply ==
    /\ aud.at = "apply"
    /\ applied' = aud.req
    /\ ord' = [ord EXCEPT !["applied"] = ord["readArgument"]]
    /\ Move("advance")
    /\ MailboxUnchanged /\ CountersUnchanged
    /\ UNCHANGED <<realm, running, now, tap, ctl, made>>

\* The rest of a running quantum.
AudioAdvance ==
    /\ aud.at = "advance"
    /\ now' = IF now < MaxQuanta THEN now + 1 ELSE now
    /\ late' = FALSE
    /\ Move("quantum")
    /\ SlotUnchanged /\ CountersUnchanged
    /\ UNCHANGED <<realm, running, tap, ctl, made, ord, applied>>

\* The callback has the frames it was asked for, any number of quanta of them
\* (none, when the device block is shorter than what was left of a quantum),
\* and publishes the frame it reached.
AudioExit ==
    /\ aud.at = "quantum"
    /\ tap' = now
    /\ Move("outside")
    /\ MailboxUnchanged /\ CountersUnchanged
    /\ UNCHANGED <<realm, running, now, ctl, made, ord, applied>>

Control == (\E k \in Kinds : ControlRequest(k)) \/ ControlStore \/ ControlClear
Audio ==
    \/ AudioEnter \/ AudioRewind \/ AudioStore \/ AudioPlayStop
    \/ AudioPeekKind \/ AudioPeekArgument \/ AudioPeekFrame
    \/ AudioClear \/ AudioApply \/ AudioAdvance \/ AudioExit

Next == Control \/ Audio

Spec == Init /\ [][Next]_vars

-----------------------------------------------------------------------------
(* Properties *)

\* source.rs: "Writes are ordered so the discriminant is published last and read
\* first, so a reader never sees a kind whose argument has not arrived."  Whoever
\* writes and whenever: the argument the sequencer goes on with was stored by the
\* request whose kind it read, or after it.
KindHasItsArgument ==
    aud.at \in {"clear", "apply"} =>
        ord["readKind"] # 0 /\ ord["readKind"] <= ord["readArgument"]

\* What stands for the request owed: its kind, with its own argument in the
\* worklet and with that or a later one where two threads write.
Stands(k, number) ==
    /\ k = owed.kind
    /\ IF realm = "worklet" THEN number = ord["owed"] ELSE number >= ord["owed"]

\* Nobody is in the middle of an access to the slot.
Quiet == ~Writing(ctl) /\ aud.at \in {"outside", "quantum", "advance"}

\* The last request published, unless an install dropped it, is still in the slot
\* or is the last one acted on, and no older one is acted on after it.  There is
\* one way to lose it, and only where two threads run: it was published after the
\* sequencer had read the kind of an older one, and before the clear of that look.
LastSeekLostOnlyUnderALook ==
    (Quiet /\ owed # NoRequest) =>
        \/ wiped /\ realm = "threads"
        \/ kind # "none" /\ Stands(kind, ord["argument"])
        \/ kind = "none" /\ Stands(applied.kind, ord["applied"])

\* The first quantum that dispatches takes what is pending, however long the
\* clock of a stopped transport had stood still, and whatever the other side does:
\* what is left in the slot after its look was published behind its back.  Both
\* writers stamp a frame the engine has already reached (the published tap, or the
\* engine's own frame), so apply_request always finds an old request due.
NextDispatchTakesTheSeek ==
    (aud.at = "advance" /\ kind # "none") => late

-----------------------------------------------------------------------------
(* What source.rs says of the slot, and two threads do not keep *)

\* "Latest-wins: a second seek before the first has been consumed replaces it".
LatestSeekWins ==
    (Quiet /\ owed # NoRequest) =>
        \/ Target(applied) = Target(owed) /\ kind = "none"
        \/ <<kind, argument>> = Target(owed)

\* ... so that the sequencer acts on one request or on the other.
AppliedAsMade == applied # NoRequest => Target(applied) \in made
=============================================================================
