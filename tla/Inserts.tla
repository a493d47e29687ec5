------------------------------ MODULE Inserts ------------------------------
(***************************************************************************)
(* The insert effects of the buses, on both sides of their command ring:   *)
(* what the host believes is installed (InsertLayout), what the engine has *)
(* installed (InsertChain), and the replay of the one into the other when  *)
(* the engine is built anew (Player::rebuild).                             *)
(*                                                                         *)
(* The ring goes one way.  Nothing is read back from the engine, so that   *)
(* the two agree rests on every step doing the same on both sides.         *)
(*                                                                         *)
(* What an effect does to the sound is left out, and with it ResetAll,     *)
(* which clears delay lines and keeps what is modelled here.  Retired      *)
(* effects go to the control side to be freed; nothing waits for that.     *)
(***************************************************************************)
EXTENDS Naturals, Sequences, FiniteSets, SequencesExt

CONSTANTS
    None,
    Places,      \* the slots of the chains the engine has
    Missing,     \* slots of lanes the engine does not have
    Kinds,       \* of effects
    Params,
    Values,      \* of parameters
    Default,     \* what a parameter has that nobody has set
    Capacity,    \* of the insert ring (DEFAULT_INSERT_COMMAND_CAPACITY)
    DrainLimit,  \* commands taken in a quantum (MAX_COMMANDS_PER_QUANTUM)
    Realms,      \* "worklet": control code runs between callbacks; "threads"
    MaxCalls,    \* bound: calls of the user
    MaxRebuilds  \* bound: rebuilds

Slots == Places \cup Missing
Settings == [Params -> Values \cup {Default}]
Entries == [kind : Kinds, bypassed : BOOLEAN, params : Settings]  \* InstalledInsert
Effects == [kind : Kinds, params : Settings]                      \* InsertSlot

ASSUME PlaceAssumption == Places \cap Missing = {} /\ IsFiniteSet(Slots)
ASSUME ParamAssumption == IsFiniteSet(Params) /\ Default \notin Values
ASSUME NoneAssumption == None \notin Entries /\ None \notin Effects
ASSUME RingAssumption == Capacity \in Nat \ {0} /\ DrainLimit \in Nat \ {0}
ASSUME RealmAssumption == Realms \subseteq {"worklet", "threads"}
ASSUME BoundAssumption == MaxCalls \in Nat /\ MaxRebuilds \in Nat

VARIABLES
    realm,
    player,    \* the player and the engine it was opened with
    rebuilt,   \* the one that is being built to take its place, or None
    replay,    \* what it still has to be told
    calls,     \* bounds
    rebuilds

vars == <<realm, player, rebuilt, replay, calls, rebuilds>>

-----------------------------------------------------------------------------
(* Players and commands *)

Untouched == [q \in Params |-> Default]

\* One player: the host's record, the ring, and the engine's side of it.
Fresh ==
    [layout |-> [p \in Slots |-> None],
     ring   |-> <<>>,
     chain  |-> [p \in Places |-> None],
     skip   |-> [p \in Places |-> FALSE],
     left   |-> 0,       \* what the drain under way may still take
     called |-> TRUE]    \* whether the backend calls its callback

Commands ==
    [op : {"install"}, at : Slots, kind : Kinds]
    \cup [op : {"remove"}, at : Slots]
    \cup [op : {"param"}, at : Slots, param : Params, value : Values]
    \cup [op : {"bypass"}, at : Slots, on : BOOLEAN]

\* InsertLayout::record_*: what the host has asked for.
Recorded(layout, c) ==
    LET entry == layout[c.at] IN
    CASE c.op = "install" ->
             [layout EXCEPT ![c.at] = [kind |-> c.kind, bypassed |-> FALSE, params |-> Untouched]]
      [] c.op = "remove"  -> [layout EXCEPT ![c.at] = None]
      [] c.op = "param" /\ entry # None  -> [layout EXCEPT ![c.at].params[c.param] = c.value]
      [] c.op = "bypass" /\ entry # None -> [layout EXCEPT ![c.at].bypassed = c.on]
      [] OTHER -> layout

\* Engine::apply_insert_command.  A lane the engine has not got is passed over, and the
\* bypass bit belongs to the slot, occupied or not.
Apply(g, c) ==
    IF c.at \notin Places THEN g
    ELSE CASE c.op = "install" -> [g EXCEPT !.chain[c.at] = [kind |-> c.kind, params |-> Untouched]]
           [] c.op = "remove"  -> [g EXCEPT !.chain[c.at] = None]
           [] c.op = "param" /\ g.chain[c.at] # None ->
                  [g EXCEPT !.chain[c.at].params[c.param] = c.value]
           [] c.op = "bypass" -> [g EXCEPT !.skip[c.at] = c.on]
           [] OTHER -> g

Room(g) == Len(g.ring) < Capacity

\* Mutant of Ask: the host records the call whether or not it was queued.
AskAnyway(g, c) ==
    [g EXCEPT !.ring = IF Room(g) THEN Append(@, c) ELSE @, !.layout = Recorded(@, c)]

\* HostInsertControl::send and Player::install_insert and its siblings: a full ring
\* refuses the call, and the host records only what was queued.
Ask(g, c) ==
    IF Room(g) THEN [g EXCEPT !.ring = Append(@, c), !.layout = Recorded(@, c)] ELSE g

Installs(p, entry) == <<[op |-> "install", at |-> p, kind |-> entry.kind]>>
Sets(p, entry) ==
    LET set == SetToSeq({q \in Params : entry.params[q] # Default}) IN
    [i \in DOMAIN set |->
        [op |-> "param", at |-> p, param |-> set[i], value |-> entry.params[set[i]]]]
Bypasses(p, entry) ==
    IF entry.bypassed THEN <<[op |-> "bypass", at |-> p, on |-> TRUE]>> ELSE <<>>

\* Mutant of Story: the bypass bit first, while there is nothing in the slot.
StoryBypassFirst(p, entry) == Bypasses(p, entry) \o Installs(p, entry) \o Sets(p, entry)

\* What is said of one slot when it is said again: the effect, the parameters that were
\* ever set, the bypass bit.
Story(p, entry) == Installs(p, entry) \o Sets(p, entry) \o Bypasses(p, entry)

\* InsertLayout::iter: the slots come in any order.
Stories(layout) ==
    {FlattenSeq([i \in DOMAIN order |-> Story(order[i], layout[order[i]])]) :
        order \in SetToSeqs({p \in Slots : layout[p] # None})}

-----------------------------------------------------------------------------
Init ==
    /\ realm \in Realms
    /\ player = Fresh
    /\ rebuilt = None
    /\ replay = <<>>
    /\ calls = 0 /\ rebuilds = 0

(* The control side.  In the worklet it runs between callbacks. *)
MayControl == realm = "threads" \/ player.left = 0

\* install_insert, remove_insert, set_insert_param, bypass_insert.
Call(c) ==
    /\ MayControl
    /\ rebuilt = None
    /\ calls < MaxCalls
    /\ player' = Ask(player, c)
    /\ calls' = calls + 1
    /\ UNCHANGED <<realm, rebuilt, replay, rebuilds>>

\* Player::rebuild up to the replay.  The worklet's backend has one callback, and opening
\* a second stream drops the first; a native backend keeps both until the player goes.
RebuildOpen ==
    /\ MayControl
    /\ rebuilt = None
    /\ rebuilds < MaxRebuilds
    /\ rebuilt' = Fresh
    /\ replay' \in Stories(player.layout)
    /\ player' = [player EXCEPT !.called = @ /\ realm = "threads"]
    /\ rebuilds' = rebuilds + 1
    /\ UNCHANGED <<realm, calls>>

\* The next of the replayed calls.
RebuildTell ==
    /\ rebuilt # None
    /\ replay # <<>>
    /\ Room(rebuilt)
    /\ rebuilt' = Ask(rebuilt, Head(replay))
    /\ replay' = Tail(replay)
    /\ UNCHANGED <<realm, player, calls, rebuilds>>

\* ... or it finds the ring full: the new player is dropped, and the caller has the old.
RebuildFails ==
    /\ rebuilt # None
    /\ replay # <<>>
    /\ ~Room(rebuilt)
    /\ rebuilt' = None
    /\ replay' = <<>>
    /\ UNCHANGED <<realm, player, calls, rebuilds>>

\* *self = rebuilt.
RebuildDone ==
    /\ rebuilt # None
    /\ replay = <<>>
    /\ player' = rebuilt
    /\ rebuilt' = None
    /\ UNCHANGED <<realm, replay, calls, rebuilds>>

-----------------------------------------------------------------------------
(* The audio side: drain_insert_commands, command by command. *)

DrainBegin(g) == [g EXCEPT !.left = DrainLimit]
DrainOne(g) ==
    [Apply(g, Head(g.ring)) EXCEPT !.ring = Tail(@), !.left = @ - 1]
DrainEnd(g) == [g EXCEPT !.left = 0]

\* One step of the callback that owns g.
CallbackStep(g, h) ==
    /\ g.called
    /\ \/ g.left = 0 /\ h = DrainBegin(g)
       \/ g.left > 0 /\ g.ring # <<>> /\ h = DrainOne(g)
       \/ g.left > 0 /\ g.ring = <<>> /\ h = DrainEnd(g)

Callback ==
    /\ realm = "worklet" => rebuilt = None
    /\ CallbackStep(player, player')
    /\ UNCHANGED <<realm, rebuilt, replay, calls, rebuilds>>

\* The stream of the new player runs from the moment it is open.
NewCallback ==
    /\ realm = "threads"
    /\ rebuilt # None
    /\ CallbackStep(rebuilt, rebuilt')
    /\ UNCHANGED <<realm, player, replay, calls, rebuilds>>

Control == (\E c \in Commands : Call(c)) \/ RebuildOpen \/ RebuildTell \/ RebuildFails \/ RebuildDone

Next == Control \/ Callback \/ NewCallback

Spec == Init /\ [][Next]_vars

-----------------------------------------------------------------------------
Players == {player, rebuilt} \ {None}

PlayerStates ==
    [layout : [Slots -> Entries \cup {None}], ring : Seq(Commands),
     chain : [Places -> Effects \cup {None}], skip : [Places -> BOOLEAN],
     left : 0 .. DrainLimit, called : BOOLEAN]

\* The state is of its type, and no ring holds more than it has room for.
TypeOK ==
    /\ realm \in Realms
    /\ replay \in Seq(Commands)
    /\ player \in PlayerStates /\ Len(player.ring) <= Capacity
    /\ rebuilt # None => rebuilt \in PlayerStates /\ Len(rebuilt.ring) <= Capacity
    /\ calls \in 0 .. MaxCalls /\ rebuilds \in 0 .. MaxRebuilds

\* What the host believes is installed is what the engine has once it has applied what is
\* queued: the same effects in the same slots with the same parameters, whatever was
\* refused, however far the drain is, and while a rebuilt engine is told the old layout
\* (Player::inserts, "What this host believes is installed").
Drained(g) ==
    LET after[n \in 0 .. Len(g.ring)] == IF n = 0 THEN g ELSE Apply(after[n - 1], g.ring[n])
    IN after[Len(g.ring)]
SameEffect(entry, effect) ==
    IF entry = None THEN effect = None
    ELSE effect # None /\ entry.kind = effect.kind /\ entry.params = effect.params
HostKnowsTheGraph ==
    \A g \in Players : \A p \in Places : SameEffect(g.layout[p], Drained(g).chain[p])

\* Only a call of the user changes what is installed: a rebuild, in whatever order it says
\* things again and whether or not it succeeds, ends with the layout it began with
\* (Player::rebuild, "What this host believes is installed survives the rebuild").
RebuildKeepsTheLayout == [][player.layout' # player.layout => calls' # calls]_vars

\* What the host shows as bypassed is bypassed.  The code does not keep this: a new
\* effect comes up as not bypassed in the layout, and in the engine with the bit of the
\* effect that was there before.
BypassAgrees ==
    \A g \in Players : \A p \in Places :
        g.layout[p] # None => g.layout[p].bypassed = Drained(g).skip[p]

\* The player in the caller's hands is the one that sounds.  The code does not keep this
\* in the worklet: when the replay does not fit the ring, the old callback is gone.
PlayerSounds == rebuilt = None => player.called
=============================================================================
