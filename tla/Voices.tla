------------------------------- MODULE Voices -------------------------------
(***************************************************************************)
(* Who owns a voice: the generational voice pool, the lanes that drive its *)
(* voices, the ownership records with their three budgets (native notes,   *)
(* custom tails, live input), and the policies that start, detach, steal,  *)
(* retire and clear voices: Impulse Tracker's New Note Actions and virtual *)
(* channels, the note-overlap option, the live rack, the scoped clears.    *)
(*                                                                         *)
(* Sources: starplayer-mixer/src/voice.rs, starplayer-engine/src/          *)
(* channel.rs, ownership.rs, overlap.rs, instrument/live.rs,               *)
(* starplayer-it/src/processor.rs and processor/live.rs.                   *)
(*                                                                         *)
(* All of it runs on the audio thread, one call after the other; what is   *)
(* hard is the number of parties that keep a handle to the same slot.      *)
(* Here the sounding voices are a sequence in the order of their admission *)
(* and a handle is a place in it, which moves when an older voice is       *)
(* released; a handle whose voice is gone resolves to nothing (the work of *)
(* slot and generation), so it is Stale.  The ownership record and the     *)
(* articulation are looked up by that handle and are never found once it   *)
(* is stale: they are fields of the voice.                                 *)
(***************************************************************************)
EXTENDS Naturals, Sequences, FiniteSets, SequencesExt, FiniteSetsExt, Functions

CONSTANTS
  None,        \* Option::None
  Stale,       \* a handle whose voice is gone
  SongLanes,   \* the tracker's lanes, 1..n
  LiveLanes,   \* the lanes of the live rack (64 and up); {} without one
  Notes,       \* what a cell or a key may play: an instrument at a pitch
  Volumes,     \* how loud it may be struck
  Looping,     \* those whose sample loops: they never end by themselves
  Limit,       \* active voices allowed in each domain
  Pool,        \* voices in the pool
  Prepared,    \* a PlaybackState was prepared: interactive and overlap builds
  Unique       \* unique_notes_across_channels

\* TriggerIdentity without its channel, which is the voice's lane.
Onsets == Notes \X Volumes
Domains == {"Native", "Custom", "Live"}
Lanes == SongLanes \cup LiveLanes
Interactive == LiveLanes # {}
Overlapping == Prepared /\ Limit["Custom"] > 0  \* the build has the note-overlap option

\* A domain in use has room for one retiring voice beside its active ones.
Reserve == [d \in Domains |-> IF d = "Native" THEN (IF Interactive THEN 1 ELSE 0)
                              ELSE IF Limit[d] > 0 THEN 1 ELSE 0]
Room == [d \in Domains |-> Limit[d] + Reserve[d]]

ASSUME HandleAssumption == None \notin Nat /\ Stale \notin Nat /\ None # Stale
ASSUME LanesAssumption ==
  /\ IsFiniteSet(SongLanes) /\ SongLanes = 1..Cardinality(SongLanes)
  /\ SongLanes \cap LiveLanes = {}
ASSUME NotesAssumption == Looping \subseteq Notes /\ None \notin Onsets
ASSUME LimitAssumption == Limit \in [Domains -> Nat] /\ Limit["Native"] > 0
ASSUME LiveAssumption == Interactive => Prepared /\ Limit["Live"] > 0
ASSUME PoolAssumption ==
  IF Prepared THEN Pool = Room["Native"] + Room["Custom"] + Room["Live"]
  ELSE Pool \in Nat /\ Pool >= Limit["Native"]

VARIABLES
  voice,       \* the sounding voices, oldest first
  lane,        \* Channel.foreground: the voice a lane drives, maybe a stale one
  chan,        \* ItChannel.voice: the voice the song's processor thinks it drives
  overlap,     \* note_overlap_enabled
  refused      \* the last step refused a note

vars == <<voice, lane, chan, overlap, refused>>

Now == [voice |-> voice, lane |-> lane, chan |-> chan, refused |-> FALSE]
Become(s) == voice' = s.voice /\ lane' = s.lane /\ chan' = s.chan /\ refused' = s.refused

-----------------------------------------------------------------------------
(* The pool. *)

\* voice.rs get: the handles that resolve.
Sounding(s) == DOMAIN s.voice
Drives(s, l) == s.lane[l] \in Sounding(s)

\* A lane drives a voice, or None; a channel of the processor, likewise.
Drive(s, l, v) == [s EXCEPT !.lane = [k \in Lanes |-> IF k = l THEN v ELSE s.lane[k]]]
Hold(s, l, v) == [s EXCEPT !.chan = [k \in SongLanes |-> IF k = l THEN v ELSE s.chan[k]]]

\* Some voices change.
Mark(s, some, Changed(_)) ==
  [s EXCEPT !.voice = [v \in Sounding(s) |-> IF v \in some THEN Changed(s.voice[v]) ELSE s.voice[v]]]

\* The voices that are left.
Left(s, gone) ==
  LET kept[v \in 0..Len(s.voice)] ==
        IF v = 0 THEN <<>> ELSE IF v \in gone THEN kept[v - 1] ELSE Append(kept[v - 1], s.voice[v])
  IN kept[Len(s.voice)]

\* VoicePool::release of each of a set; the finished voices of accumulate.  What
\* the processor remembers of a voice that is gone is never used again.
Release(s, gone) ==
  LET Moved(h, lost) == IF h \in gone THEN lost
                        ELSE IF h \in Sounding(s) THEN h - Cardinality({v \in gone : v < h})
                        ELSE h
  IN IF gone \cap Sounding(s) = {} THEN s
     ELSE [s EXCEPT !.voice = Left(s, gone),
                    !.lane = [l \in Lanes |-> Moved(s.lane[l], Stale)],
                    !.chan = [l \in SongLanes |-> Moved(s.chan[l], None)]]

-----------------------------------------------------------------------------
(* Ownership records and budgets. *)

Owned(s, d) == {v \in Sounding(s) : s.voice[v].domain = d}
Active(s, d) == {v \in Owned(s, d) : s.voice[v].life # "Retiring"}
\* Mutant of RetiringIn: whatever is retiring may make room.
RetiringAnywhere(s, d) == {v \in Sounding(s) : s.voice[v].life = "Retiring"}

RetiringIn(s, d) == Owned(s, d) \ Active(s, d)

\* oldest: the first admitted of some voices.
Oldest(some) == IF some = {} THEN None ELSE Min(some)

Retired(r) ==
  [r EXCEPT !.life = "Retiring", !.sound = "stopping", !.tail = FALSE, !.onset = None,
            !.art = "none", !.level = "up"]

\* Mutant of Retire: the lane goes on driving the voice.
RetireBound(s, some) ==
  Mark(s, {v \in some \cap Sounding(s) : s.voice[v].life # "Retiring"}, Retired)

\* ChannelTable::retire_voice of each of a set: the lane forgets the voice at once,
\* the mixer ramps it out, its ownership stays until then.  The runtimes look for this
\* before they go on with a voice (sync_retirement), so they have dropped it too, and
\* what else is on record of it is not looked at again.
Retire(s, some) ==
  LET retired == {v \in some \cap Sounding(s) : s.voice[v].life # "Retiring"} IN
  [Mark(s, retired, Retired)
     EXCEPT !.lane = [l \in Lanes |-> IF s.lane[l] \in retired THEN None ELSE s.lane[l]]]

\* ChannelTable::prepare_admission: is there room for one more voice of a domain?
\* The victim is retired, and a voice that was retiring before it is released when
\* the domain has no room for another one.
Admission(s, d, victim) ==
  LET full == Cardinality(Owned(s, d)) >= Room[d]
      retiring == RetiringIn(s, d)
      after == Release(Retire(s, {victim}), IF full THEN {Min(retiring)} ELSE {})
  IN IF \/ Limit[d] = 0
        \/ Cardinality(Active(s, d)) >= Limit[d] /\ victim = None
        \/ full /\ retiring = {}
     THEN [ok |-> FALSE, state |-> s]
     ELSE [ok |-> Len(after.voice) < Pool, state |-> after]

-----------------------------------------------------------------------------
(* Starting and detaching. *)

NewVoice(l, n) ==
  [lane |-> l, note |-> n, domain |-> IF l \in LiveLanes THEN "Live" ELSE "Native",
   life |-> "Foreground", tail |-> FALSE, onset |-> None, sound |-> "on",
   art |-> "none", level |-> "up"]

\* ChannelTable::trigger: releases what the lane drives, then starts a voice if the
\* budget and the pool have room.  The lane drives nothing when they do not.
Trigger(s, l, n) ==
  LET emptied == Drive(Release(s, {s.lane[l]}), l, None)
      room == IF Prepared THEN Admission(emptied, NewVoice(l, n).domain, None)
              ELSE [ok |-> Len(emptied.voice) < Pool, state |-> emptied]
  IN IF ~room.ok THEN room
     ELSE [ok |-> TRUE, state |-> Drive([room.state EXCEPT !.voice = Append(@, NewVoice(l, n))],
                                      l, Len(room.state.voice) + 1)]

\* detach_foreground: the voice sounds on and no lane drives it.
Detach(s, l) ==
  Drive(Mark(s, {s.lane[l]}, LAMBDA r : IF r.life = "Foreground" THEN [r EXCEPT !.life = "Background"] ELSE r),
        l, None)

\* detach_custom_foreground: a song's voice moves to the budget of the custom tails.
DetachCustom(s, l) ==
  Detach(Mark(s, {s.lane[l]},
              LAMBDA r : [r EXCEPT !.domain = IF @ = "Native" THEN "Custom" ELSE @, !.tail = TRUE]), l)

-----------------------------------------------------------------------------
(* The note-overlap policy, with every instrument's box ticked. *)

\* custom_overlap_candidate: an identified one-shot voice that may ring on.
Candidate(s, v) ==
  /\ v \in Sounding(s)
  /\ overlap
  /\ s.voice[v].onset # None
  /\ s.voice[v].life # "Retiring"
  /\ s.voice[v].sound = "on"
  /\ s.voice[v].note \notin Looping

Keeps(s, l) == Prepared /\ Candidate(s, s.lane[l]) /\ s.voice[s.lane[l]].domain = "Native"

\* Mutant of Overlap: a tail is kept without asking for room.
OverlapUnasked(s, l) ==
  IF Keeps(s, l) THEN [ok |-> TRUE, state |-> DetachCustom(s, l)] ELSE [ok |-> FALSE, state |-> s]

\* prepare_note_overlap: keep the lane's note as a custom tail, at the cost of the
\* oldest tail when there are too many.  ok tells whether it was kept.
Overlap(s, l) ==
  LET victim == IF Cardinality(Active(s, "Custom")) >= Limit["Custom"]
                THEN Oldest(Active(s, "Custom")) ELSE None
      room == Admission(s, "Custom", victim)
  IN IF ~Keeps(s, l)
     THEN [ok |-> FALSE, state |-> s]
     ELSE IF ~room.ok THEN room
     ELSE [ok |-> TRUE, state |-> DetachCustom(room.state, l)]

\* Mutant of Duplicate: only the tails of other lanes are looked at.
DuplicateElsewhere(s, new, v) ==
  /\ s.voice[v].onset # None /\ s.voice[v].onset = s.voice[new].onset
  /\ s.voice[v].lane # s.voice[new].lane /\ s.voice[v].domain = "Custom" /\ s.voice[v].tail

\* Mutant of Duplicate: the tails of other lanes are not looked at.
DuplicateHere(s, new, v) ==
  /\ v # new
  /\ s.voice[v].life # "Retiring"
  /\ s.voice[v].onset # None /\ s.voice[v].onset = s.voice[new].onset
  /\ s.voice[v].lane = s.voice[new].lane

\* duplicate_matches: the same note at the same volume, of the same lane or the tail
\* of another one.
Duplicate(s, new, v) ==
  /\ v # new
  /\ s.voice[v].life # "Retiring"
  /\ s.voice[v].onset # None /\ s.voice[v].onset = s.voice[new].onset
  /\ \/ s.voice[v].lane = s.voice[new].lane
     \/ /\ Unique
        /\ s.voice[v].domain = "Custom" /\ s.voice[v].life = "Background" /\ s.voice[v].tail
        /\ s.voice[new].domain # "Live"

\* finalize_onset and replace_note_overlap_duplicates of the newest voice.
Identify(s, new, volume) ==
  LET known == Mark(s, {new}, LAMBDA r : [r EXCEPT !.onset = <<r.note, volume>>])
  IN IF Overlapping THEN Retire(known, {v \in Sounding(s) : Duplicate(known, new, v) /\ Candidate(known, v)})
     ELSE s

\* inherit_onset: a native retrigger goes on with the identity of the note before.
Inherit(s, new, onset) == IF Overlapping THEN Mark(s, {new}, LAMBDA r : [r EXCEPT !.onset = onset]) ELSE s

OnsetOf(s, l) == IF Drives(s, l) THEN s.voice[s.lane[l]].onset ELSE None

-----------------------------------------------------------------------------
(* Impulse Tracker.  A voice's articulation is "fore" while its channel drives it *)
(* and "back" afterwards; it is "none" when no runtime steps the voice (any more). *)

Stepped(s, v) == s.voice[v].art # "none"
Drop(s, some) == Mark(s, some, LAMBDA r : [r EXCEPT !.art = "none", !.level = "up"])
Begun(s, v) == Mark(s, {v}, LAMBDA r : [r EXCEPT !.art = "fore"])
Leave(s, v) == Mark(s, {v}, LAMBDA r : IF r.art = "none" THEN r ELSE [r EXCEPT !.art = "back"])

\* ItArticulationRuntime::cut and its likes: the fadeout of a voice a runtime steps
\* is over.  Other releases and fades only make it end some day, as envelopes may.
Cut(s, some) ==
  Mark(s, some, LAMBDA r : IF r.art = "none" \/ r.level = "frozen" THEN r ELSE [r EXCEPT !.level = "gone"])

\* within_voice_quota: the native budget, or the virtual channels without records.
WithinQuota(s) ==
  IF Prepared THEN Cardinality(Active(s, "Native")) < Limit["Native"]
  ELSE \/ Len(s.voice) < Limit["Native"]
       \/ Cardinality({v \in Sounding(s) : Stepped(s, v)}) < Limit["Native"]

OwnForeground(s, l) ==
  /\ Drives(s, l)
  /\ IF Prepared THEN s.voice[s.lane[l]].domain = "Native" /\ s.voice[s.lane[l]].life = "Foreground"
     ELSE s.voice[s.lane[l]].art = "fore"

\* Mutant of Victims: only a voice that has faded out is stolen.
FadedVictims(s) == {v \in Active(s, "Native") : s.voice[v].art = "back" /\ s.voice[v].level # "up"}

\* choose_victim: a background voice of the song: one that has faded out if there is
\* one, else the quietest, which may be any.
Victims(s) ==
  LET backs == {v \in Sounding(s) : /\ s.voice[v].art = "back"
                                    /\ IF Prepared THEN v \in Active(s, "Native") ELSE TRUE}
      faded == {v \in backs : s.voice[v].level # "up"}
  IN IF faded = {} THEN backs ELSE faded

\* allocate_voice: what it may return.
Allocate(s, l, n) ==
  LET tried == IF OwnForeground(s, l) \/ WithinQuota(s) THEN Trigger(s, l, n)
               ELSE [ok |-> FALSE, state |-> s]
      backs == Victims(tried.state)
  IN IF tried.ok \/ backs = {} THEN {tried}
     ELSE {Trigger(Release(tried.state, {v}), l, n) : v \in backs}

\* duplicate_check: the voices that an instrument's DCT finds on this lane; the ones
\* the note-overlap policy is going to look at are left to it.  Only cuts matter here.
DuplicateChecks == {"off", "note", "instrument"}
Checked(s, l, n, check, musical) ==
  {v \in Sounding(s) : /\ s.voice[v].lane = l /\ Stepped(s, v)
                       /\ ~(musical /\ Candidate(s, v))
                       /\ check = "instrument" \/ (check = "note" /\ s.voice[v].note = n)}

\* check_new_note_action: the duplicates are cut, and the note that sounds is kept as
\* a custom tail, goes on in the background, or is left to be cut.
NewNoteAction(s, l, n, musical, check, goesOn) ==
  LET checked == Cut(s, Checked(s, l, n, check, musical))
      kept == IF musical THEN Overlap(checked, l) ELSE [ok |-> FALSE, state |-> checked]
      old == kept.state.chan[l]
      leaves == /\ old # None /\ goesOn
                /\ ~(musical /\ Candidate(kept.state, old))
                /\ Stepped(kept.state, old) /\ kept.state.voice[old].level # "frozen"
                /\ Drives(kept.state, l)
      left == Hold(Leave(IF kept.ok THEN kept.state ELSE Detach(kept.state, l), old), l, None)
  IN IF kept.ok \/ leaves THEN left ELSE kept.state

\* start_note on a lane, then the end of the lane's turn in run_tick, where a note
\* of the pattern (but not a retrigger) gets its identity.
StartNote(s, l, n, volume, musical) ==
  LET Begin(r) ==
        LET v == r.lane[l]
            begun == Hold(Begun(r, v), l, v)
        IN IF musical THEN Identify(begun, v, volume) ELSE Inherit(begun, v, OnsetOf(s, l))
  IN {IF r.ok THEN Begin(r.state) ELSE [r.state EXCEPT !.refused = TRUE] : r \in Allocate(s, l, n)}

\* trigger_channel of a cell with a note, or one that goes on with its lane's note.
PlayedNotes(s, l) ==
  UNION {StartNote(NewNoteAction(s, l, n, musical, check, goesOn), l, n, volume, musical) :
           n \in Notes, volume \in Volumes, musical \in BOOLEAN, check \in DuplicateChecks, goesOn \in BOOLEAN}

\* The note cut, SCx (whose voice stands still while it is in the foreground), and S70.
CutNotes(s, l) ==
  {Mark(s, {s.chan[l]}, LAMBDA r : IF r.art = "none" THEN r ELSE [r EXCEPT !.level = level]) :
     level \in {"gone", "frozen"}}
CutPast(s, l) == Cut(s, {v \in Sounding(s) : s.voice[v].lane = l /\ s.voice[v].art = "back"})

\* A lane's turn in run_tick.
Turn(s, l) ==
  LET played == PlayedNotes(s, l) \cup CutNotes(s, l) \cup {s}
  IN played \cup {CutPast(p, l) : p \in played}

\* advance_voices: a voice that has faded out is stopped if its channel drives it and
\* released if not; the processor forgets it.
Silent(s, v) == \/ s.voice[v].level = "gone"
                \/ s.voice[v].level = "frozen" /\ s.voice[v].art = "back"
\* Which voices fade out, or end in the mixer, is open; two of them, one after the other.
AtMostOne(some) == {{}} \cup {{v} : v \in some}
Fading(s) == {v \in Sounding(s) : Stepped(s, v) /\ s.voice[v].level = "up"}
AdvanceVoices(s, faded) ==
  LET silent == {v \in Sounding(s) : /\ s.voice[v].lane \in SongLanes /\ Stepped(s, v)
                                     /\ v \in faded \/ Silent(s, v)}
      fore == {v \in silent : s.voice[v].art = "fore"}
      stopped == [Mark(Drop(s, fore), fore, LAMBDA r : [r EXCEPT !.sound = "stopping"])
                    EXCEPT !.chan = [l \in SongLanes |-> IF s.chan[l] \in fore THEN None ELSE s.chan[l]]]
  IN Release(stopped, silent \ fore)

\* ItProcessor::reset: the channels start afresh, and the articulation of every voice
\* but the custom tails is dropped (before anything else uses it).
ResetProcessor(s) ==
  [Drop(s, {v \in Sounding(s) : /\ s.voice[v].lane \in SongLanes
                                /\ ~(Prepared /\ s.voice[v].domain = "Custom")})
     EXCEPT !.chan = [l \in SongLanes |-> None]]

-----------------------------------------------------------------------------
(* The live rack with an Impulse Tracker runtime. *)

\* ItLiveRuntime::note_on with preserve_rack_foreground and admit_rack_note.
LiveNote(s, l, n, volume, check, goesOn) ==
  LET after == Retire(s, Checked(s, l, n, check, TRUE))
      kept == IF ~Drives(after, l) THEN after
              ELSE IF Candidate(after, after.lane[l]) THEN DetachCustom(after, l)
              ELSE IF goesOn THEN Leave(Detach(after, l), after.lane[l]) ELSE after
      emptied == Retire(kept, {kept.lane[l]})
      victim == IF Cardinality(Active(emptied, "Live")) >= Limit["Live"]
                THEN Oldest(Active(emptied, "Live")) ELSE None
      room == Admission(emptied, "Live", victim)
      played == IF room.ok THEN Trigger(room.state, l, n) ELSE room
      v == played.state.lane[l]
  IN IF played.ok THEN Begun(Identify(played.state, v, volume), v)
     ELSE [played.state EXCEPT !.refused = TRUE]

LiveNotes(s, l) ==
  {LiveNote(s, l, n, volume, check, goesOn) :
     n \in Notes, volume \in Volumes, check \in DuplicateChecks, goesOn \in BOOLEAN}

\* RackRuntime::step at a control boundary: what has faded out is retired.
LiveControl(s, faded) ==
  Retire(s, {v \in Owned(s, "Live") : Stepped(s, v) /\ v \in faded})

-----------------------------------------------------------------------------
(* Scoped clears: ChannelTable::clear_scope retires the voices of a scope. *)

\* Mutant of SongVoices: only the voices that lanes drive.
DrivenVoices(s) == {v \in Sounding(s) : s.voice[v].domain # "Live" /\ s.voice[v].life = "Foreground"}

SongVoices(s) == {v \in Sounding(s) : s.voice[v].domain # "Live"}
Tails(s) == {v \in Sounding(s) : s.voice[v].tail}
OfLane(s, l) == {v \in Sounding(s) : s.voice[v].lane = l}

\* ItProcessor::clear_sound: its channels let go of what was retired.
ClearSound(s) ==
  [s EXCEPT
     !.chan = [l \in SongLanes |-> IF s.chan[l] # None /\ s.voice[s.chan[l]].life = "Retiring"
                                   THEN None ELSE s.chan[l]]]

-----------------------------------------------------------------------------
Init ==
  /\ voice = <<>>
  /\ lane = [l \in Lanes |-> None]
  /\ chan = [l \in SongLanes |-> None]
  /\ overlap \in (IF Overlapping THEN BOOLEAN ELSE {FALSE})
  /\ refused = FALSE

\* run_tick: one lane after the other, then the voices.
Turns ==
  LET after[l \in 0..Cardinality(SongLanes)] ==
        IF l = 0 THEN {Now} ELSE UNION {Turn(s, l) : s \in after[l - 1]}
  IN after[Cardinality(SongLanes)]
Tick ==
  /\ \E s \in Turns :
       \E faded \in AtMostOne(Fading(s)) : Become(AdvanceVoices(s, faded))
  /\ UNCHANGED overlap

\* ItProcessor::control_step: the voices go on between the ticks.
ControlStep ==
  /\ \E faded \in AtMostOne(Fading(Now)) : Become(AdvanceVoices(Now, faded))
  /\ UNCHANGED overlap

\* A key of the live rack, and ProgramRack::control.
LivePlay == \E l \in LiveLanes : (\E s \in LiveNotes(Now, l) : Become(s)) /\ UNCHANGED overlap
LiveStep ==
  /\ \E faded \in AtMostOne(Fading(Now) \cap Owned(Now, "Live")) : Become(LiveControl(Now, faded))
  /\ UNCHANGED overlap

\* Engine::clear_scope: Stop, all sound off, stop preview, a change of program.
Clear ==
  /\ Prepared
  /\ \E some \in {Sounding(Now), Owned(Now, "Live")} \cup {OfLane(Now, l) : l \in LiveLanes} :
       Become(ClearSound(Retire(Now, some)))
  /\ UNCHANGED overlap

\* SetNoteOverlapEnabled: switching it off clears the custom tails.
SetOverlap ==
  /\ Overlapping
  /\ Become(IF overlap THEN ClearSound(Retire(Now, Tails(Now))) ELSE Now)
  /\ overlap' = ~overlap

\* SeekableModuleSource::apply_request: every seek resets the processor, and only the
\* interactive transport clears the song's voices first.
Seek ==
  /\ Become(ResetProcessor(IF Interactive THEN Retire(Now, SongVoices(Now)) ELSE Now))
  /\ UNCHANGED overlap

\* VoicePool::accumulate: stopped voices ramp out within a segment or two, and
\* one-shots may end.
Mix ==
  /\ \E ended \in AtMostOne({v \in Sounding(Now) : voice[v].sound = "stopping" \/ voice[v].note \notin Looping}) :
       Become(Release(Now, ended))
  /\ UNCHANGED overlap

\* ChannelTable::release_finished, at the end of a quantum.
ForgetFinished ==
  /\ Become([Now EXCEPT !.lane = [l \in Lanes |-> IF Drives(Now, l) THEN lane[l] ELSE None]])
  /\ UNCHANGED overlap

Next == \/ Tick \/ ControlStep \/ LivePlay \/ LiveStep
        \/ Clear \/ SetOverlap \/ Seek
        \/ Mix \/ ForgetFinished

Spec == Init /\ [][Next]_vars

-----------------------------------------------------------------------------
VoiceRecords ==
  [lane : Lanes, note : Notes, domain : Domains,
   life : {"Foreground", "Background", "Retiring"}, tail : BOOLEAN,
   onset : Onsets \cup {None}, sound : {"on", "stopping"},
   art : {"none", "fore", "back"}, level : {"up", "gone", "frozen"}]

\* Every voice, handle and flag is of its kind, and no handle is dangling.
TypeOK ==
  /\ Len(voice) <= Pool
  /\ voice \in Seq(VoiceRecords)
  /\ lane \in [Lanes -> Sounding(Now) \cup {None, Stale}]
  /\ chan \in [SongLanes -> Sounding(Now) \cup {None}]
  /\ overlap \in BOOLEAN /\ refused \in BOOLEAN

\* No domain ever holds more voices than its budget, nor more than its budget and
\* reserve counting the ones that are ramping out: what the song does cannot take the
\* room of the live input, and the other way round (ChannelTable::prepare_admission).
WithinBudget ==
  Prepared => \A d \in Domains : /\ Cardinality(Active(Now, d)) <= Limit[d]
                                 /\ Cardinality(Owned(Now, d)) <= Room[d]

\* However full the pool, a note of the song or of a key finds a voice: a background
\* voice is stolen, an old tail retired, a retiring one released (ItProcessor::
\* allocate_voice, admit_rack_note).
EveryNotePlays == ~refused

\* A lane and the records agree on who drives whom: the voice a lane drives is its
\* own and in the foreground, no voice is in the foreground of a lane that does not
\* drive it, and the voice the song's processor shapes as a channel's foreground is
\* the one that channel's lane drives (Channel.foreground, ItChannel.voice).
OneDriver ==
  /\ \A v \in Sounding(Now), l \in Lanes :
       lane[l] = v <=> voice[v].lane = l /\ voice[v].life = "Foreground"
  /\ \A l \in SongLanes : chan[l] # None => lane[l] = chan[l] /\ voice[chan[l]].art = "fore"

\* A voice that never ends by itself has somebody who can end it: a lane that drives
\* it, or a runtime that steps it ("whoever detached it is responsible for ending it",
\* ChannelTable::detach_foreground).
SomebodyEndsIt ==
  \A v \in Sounding(Now) : voice[v].sound = "on" =>
    Stepped(Now, v) \/ \E l \in Lanes : lane[l] = v

\* No two tails that the overlap policy keeps are the same note of the same lane
\* struck at the same volume, whatever notes, retriggers and switches of the option
\* came in between (ChannelTable::replace_note_overlap_duplicates).
NoNoteRingsTwice ==
  \A v, w \in Tails(Now) :
    v # w => <<voice[v].lane, voice[v].onset>> # <<voice[w].lane, voice[w].onset>>

\* With notes unique across the channels, a note that a lane of the song strikes ends
\* the tails of that note and volume on every lane: any that rings beside it was still
\* driven by its own lane when the step began (PlaybackState::duplicate_matches).
Strikes(l) == OnsetOf(Now, l)' \notin {None, OnsetOf(Now, l)}
StruckNoteEndsTails ==
  [][Unique => \A l \in SongLanes : Strikes(l) =>
       \A w \in Tails(Now)' :
         /\ voice'[w].domain = "Custom"
         /\ voice'[w].onset = OnsetOf(Now, l)'
         => OnsetOf(Now, voice'[w].lane) = voice'[w].onset]_vars

\* A step changes the voices of the song or those of the live rack, never both, but
\* for the two clears that are meant for both: stealing, admission and articulation
\* stay within their domain.
SongOnly == Left(Now, Owned(Now, "Live"))
LiveOnly == Left(Now, Sounding(Now) \ Owned(Now, "Live"))
SongAndLiveApart ==
  [][\/ SongOnly' = SongOnly \/ LiveOnly' = LiveOnly
     \/ overlap' # overlap
     \/ \A v \in DOMAIN voice' : voice'[v].life = "Retiring"]_vars
=============================================================================
