--------------------------- MODULE Inserts_proofs ---------------------------
(***************************************************************************)
(* Theorems about Inserts, for every set of slots, effects and parameters, *)
(* every capacity of the ring and any number of calls and rebuilds.        *)
(*                                                                         *)
(*   1. Types.                                                             *)
(*   2. The two sides: the host's record of a slot and what the engine     *)
(*      comes to once it has drained its ring are changed alike by every   *)
(*      command (HostKnowsTheGraph).                                       *)
(*   3. Rebuilds: told from the beginning, the replay says the old layout  *)
(*      again, in whatever order the slots come (RebuildKeepsTheLayout).   *)
(***************************************************************************)
EXTENDS Inserts, SequenceTheorems, FiniteSetTheorems, WellFoundedInduction, TLAPS

-----------------------------------------------------------------------------
(* One command after the other *)

\* What holds at the beginning of a queue, and one place on wherever it holds, holds to the end.
LEMMA Onwards ==
    ASSUME NEW k \in Nat, NEW S, 0 \in S, \A n \in 0 .. k : n \in S /\ n # k => n + 1 \in S
    PROVE  k \in S
<1> DEFINE T == {n \in 0 .. k : n \notin S}
           R == OpToRel(<, Nat)
<1>1. CASE T = {}
  BY <1>1
<1>2. CASE T # {}
  <2>1. IsWellFoundedOn(R, Nat)
    BY NatLessThanWellFounded
  <2>2. PICK m \in T : \A n \in T : ~(<<n, m>> \in R)
    <3>1. T \subseteq Nat
      OBVIOUS
    <3> HIDE DEF T, R
    <3> QED BY <1>2, <2>1, <3>1, WFMin
  <2>3. m \in Nat /\ m # 0 /\ m <= k /\ m \notin S
    OBVIOUS
  <2>4. m - 1 \in Nat /\ m - 1 < m /\ m - 1 \in 0 .. k /\ m - 1 # k
    BY <2>3
  <2>5. m - 1 \notin T
    <3> DEFINE n == m - 1
    <3>1. n \in Nat /\ n < m
      BY <2>4
    <3> HIDE DEF n
    <3>2. <<n, m>> \in R
      BY <2>3, <3>1 DEF OpToRel
    <3>3. n \notin T
      BY <2>2, <3>2
    <3> QED BY <3>3 DEF n
  <2>6. (m - 1) + 1 \in S
    BY <2>4, <2>5
  <2> QED BY <2>3, <2>6
<1> QED BY <1>1, <1>2

\* The layout of a host that is told one command after the other.
Told(layout, story) ==
    LET after[n \in 0 .. Len(story)] ==
          IF n = 0 THEN layout ELSE Recorded(after[n - 1], story[n])
    IN after[Len(story)]

\* A sequence of layouts, each with the next command recorded in it.
Steps(f, story) == \A n \in 1 .. Len(story) : f[n] = Recorded(f[n - 1], story[n])

\* There is a layout after each command.
LEMMA ToldSoFar ==
    ASSUME NEW layout, NEW story \in Seq(Commands)
    PROVE  \E f : f[0] = layout /\ Steps(f, story) /\ Told(layout, story) = f[Len(story)]
<1> DEFINE Fold(f, k) ==
             f = [n \in 0 .. k |-> IF n = 0 THEN layout ELSE Recorded(f[n - 1], story[n])]
           S == {k \in Nat : \E f : Fold(f, k)}
<1>1. Len(story) \in Nat
  BY LenProperties
<1>2. 0 \in S
  <2> DEFINE f == [n \in 0 .. 0 |-> layout]
  <2>1. Fold(f, 0)
    OBVIOUS
  <2> QED BY <2>1
<1>3. ASSUME NEW k \in Nat, k \in S PROVE k + 1 \in S
  <2>1. PICK f : Fold(f, k)
    BY <1>3
  <2> DEFINE g == [n \in 0 .. k + 1 |-> IF n = k + 1 THEN Recorded(f[k], story[k + 1]) ELSE f[n]]
  <2>2. ASSUME NEW n \in 0 .. k + 1
        PROVE  g[n] = IF n = 0 THEN layout ELSE Recorded(g[n - 1], story[n])
    <3>1. CASE n = k + 1
      BY <3>1
    <3>2. CASE n \in 0 .. k
      <4>1. f[n] = IF n = 0 THEN layout ELSE Recorded(f[n - 1], story[n])
        BY <2>1, <3>2
      <4> QED BY <3>2, <4>1
    <3> QED BY <2>2, <3>1, <3>2
  <2>3. Fold(g, k + 1)
    <3> DEFINE body(n) == IF n = 0 THEN layout ELSE Recorded(g[n - 1], story[n])
    <3>1. g = [n \in 0 .. k + 1 |-> g[n]]
      OBVIOUS
    <3>2. \A n \in 0 .. k + 1 : g[n] = body(n)
      BY <2>2
    <3> HIDE DEF g, body
    <3>3. g = [n \in 0 .. k + 1 |-> body(n)]
      BY <3>1, <3>2
    <3> QED BY <3>3 DEF body
  <2> HIDE DEF g, Fold
  <2> QED BY <2>3
<1>4. Len(story) \in S
  <2> HIDE DEF S
  <2> QED BY <1>1, <1>2, <1>3, Onwards
<1> DEFINE f == CHOOSE f : Fold(f, Len(story))
<1>5. Fold(f, Len(story))
  BY <1>4
<1>6. Told(layout, story) = f[Len(story)]
  BY DEF Told
<1> HIDE DEF f
<1> QED BY <1>1, <1>5, <1>6 DEF Steps

\* There is only one such sequence of layouts.
LEMMA ToldIs ==
    ASSUME NEW story \in Seq(Commands), NEW u, Steps(u, story)
    PROVE  Told(u[0], story) = u[Len(story)]
<1>1. PICK f : f[0] = u[0] /\ Steps(f, story) /\ Told(u[0], story) = f[Len(story)]
  BY ToldSoFar
<1>2. Len(story) \in Nat
  BY LenProperties
<1> DEFINE S == {n \in Nat : f[n] = u[n]}
<1>3. 0 \in S /\ \A n \in 0 .. Len(story) : n \in S /\ n # Len(story) => n + 1 \in S
  <2>1. ASSUME NEW n \in 0 .. Len(story), n \in S, n # Len(story) PROVE n + 1 \in S
    <3>1. n + 1 \in 1 .. Len(story) /\ (n + 1) - 1 = n
      BY <1>2, <2>1
    <3>2. f[n + 1] = Recorded(f[n], story[n + 1]) /\ u[n + 1] = Recorded(u[n], story[n + 1])
      BY <1>1, <3>1 DEF Steps
    <3> QED BY <2>1, <3>2
  <2> QED BY <1>1, <2>1
<1> HIDE DEF S
<1>4. Len(story) \in S
  BY <1>2, <1>3, Onwards
<1> QED BY <1>1, <1>4 DEF S

\* Told two stories, one after the other.
LEMMA ToldBoth ==
    ASSUME NEW layout, NEW s \in Seq(Commands), NEW t \in Seq(Commands)
    PROVE  Told(layout, s \o t) = Told(Told(layout, s), t)
<1>1. /\ s \o t \in Seq(Commands) /\ Len(s \o t) = Len(s) + Len(t)
      /\ \A i \in 1 .. Len(s) + Len(t) : (s \o t)[i] = IF i <= Len(s) THEN s[i] ELSE t[i - Len(s)]
      /\ Len(s) \in Nat /\ Len(t) \in Nat
  BY ConcatProperties, LenProperties
<1>2. PICK f : /\ f[0] = layout /\ Steps(f, s \o t)
               /\ Told(layout, s \o t) = f[Len(s \o t)]
  BY <1>1, ToldSoFar
<1>3. Steps(f, s)
  BY <1>1, <1>2 DEF Steps
<1>4. Told(layout, s) = f[Len(s)]
  BY <1>2, <1>3, ToldIs
<1> DEFINE v == [n \in 0 .. Len(t) |-> f[Len(s) + n]]
<1>5. ASSUME NEW n \in 1 .. Len(t) PROVE v[n] = Recorded(v[n - 1], t[n])
  <2>1. Len(s) + n \in 1 .. Len(s \o t) /\ (s \o t)[Len(s) + n] = t[n]
    BY <1>1, <1>5
  <2>2. n - 1 \in 0 .. Len(t) /\ (Len(s) + n) - 1 = Len(s) + (n - 1)
    BY <1>1, <1>5
  <2> QED BY <1>2, <2>1, <2>2 DEF Steps
<1>6. v[0] = f[Len(s)] /\ v[Len(t)] = f[Len(s \o t)]
  BY <1>1
<1> HIDE DEF v
<1>7. Told(v[0], t) = v[Len(t)]
  BY <1>5, ToldIs DEF Steps
<1> QED BY <1>2, <1>4, <1>6, <1>7

-----------------------------------------------------------------------------
(* 1. Types *)

\* What the host and the engine make of a command is of their types.
LEMMA CommandTypes ==
    ASSUME NEW g \in PlayerStates, NEW c \in Commands
    PROVE  /\ Recorded(g.layout, c) \in [Slots -> Entries \cup {None}]
           /\ Apply(g, c) \in PlayerStates
           /\ Apply(g, c).layout = g.layout /\ Apply(g, c).ring = g.ring
           /\ Apply(g, c).left = g.left /\ Apply(g, c).called = g.called
<1>1. /\ g.layout \in [Slots -> Entries \cup {None}] /\ g.chain \in [Places -> Effects \cup {None}]
      /\ g.skip \in [Places -> BOOLEAN] /\ g.ring \in Seq(Commands)
      /\ g.left \in 0 .. DrainLimit /\ g.called \in BOOLEAN
  BY DEF PlayerStates
<1>2. c.at \in Slots /\ Untouched \in Settings
  BY DEF Commands, Untouched, Settings
<1>3. CASE c.op = "install"
  <2>1. c.kind \in Kinds
    BY <1>3 DEF Commands
  <2>2. Recorded(g.layout, c) \in [Slots -> Entries \cup {None}]
    BY <1>1, <1>2, <1>3, <2>1 DEF Recorded, Entries
  <2> QED BY <1>1, <1>2, <1>3, <2>1, <2>2 DEF Apply, PlayerStates, Effects
<1>4. CASE c.op = "remove"
  BY <1>1, <1>2, <1>4 DEF Recorded, Apply, PlayerStates
<1>5. CASE c.op = "param"
  <2>1. c.param \in Params /\ c.value \in Values
    BY <1>5 DEF Commands
  <2>2. ASSUME NEW s \in Settings PROVE [s EXCEPT ![c.param] = c.value] \in Settings
    BY <2>1 DEF Settings
  <2>3. Recorded(g.layout, c) \in [Slots -> Entries \cup {None}]
    BY <1>1, <1>2, <1>5, <2>2 DEF Recorded, Entries
  <2>4. Apply(g, c).chain \in [Places -> Effects \cup {None}]
    BY <1>1, <1>2, <1>5, <2>2 DEF Apply, Effects
  <2> QED BY <1>1, <1>2, <1>5, <2>3, <2>4 DEF Apply, PlayerStates
<1>6. CASE c.op = "bypass"
  <2>1. c.on \in BOOLEAN
    BY <1>6 DEF Commands
  <2>2. Recorded(g.layout, c) \in [Slots -> Entries \cup {None}]
    BY <1>1, <1>2, <1>6, <2>1 DEF Recorded, Entries
  <2> QED BY <1>1, <1>2, <1>6, <2>1, <2>2 DEF Apply, PlayerStates
<1>7. c.op \in {"install", "remove", "param", "bypass"}
  BY DEF Commands
<1> QED BY <1>3, <1>4, <1>5, <1>6, <1>7

\* A call keeps the types and never overfills the ring (HostInsertControl::send).
LEMMA AskTypes ==
    ASSUME NEW g \in PlayerStates, Len(g.ring) <= Capacity, NEW c \in Commands
    PROVE  Ask(g, c) \in PlayerStates /\ Len(Ask(g, c).ring) <= Capacity
<1>1. CASE Room(g)
  <2>1. g.ring \in Seq(Commands) /\ Recorded(g.layout, c) \in [Slots -> Entries \cup {None}]
    BY CommandTypes DEF PlayerStates
  <2>2. Append(g.ring, c) \in Seq(Commands) /\ Len(Append(g.ring, c)) = Len(g.ring) + 1
    BY <2>1, AppendProperties
  <2>3. Len(g.ring) \in Nat /\ Capacity \in Nat /\ Len(g.ring) < Capacity
    BY <1>1, <2>1, LenProperties, RingAssumption DEF Room
  <2> DEFINE r == Append(g.ring, c)
             k == Recorded(g.layout, c)
  <2>4. Ask(g, c) = [g EXCEPT !.ring = r, !.layout = k]
    BY <1>1 DEF Ask
  <2>5. r \in Seq(Commands) /\ Len(r) <= Capacity /\ k \in [Slots -> Entries \cup {None}]
    BY <2>1, <2>2, <2>3
  <2> HIDE DEF r, k
  <2> QED BY <2>4, <2>5 DEF PlayerStates
<1>2. CASE ~Room(g)
  BY <1>2 DEF Ask
<1> QED BY <1>1, <1>2

\* The callback keeps the types: it takes commands and never more than its limit.
LEMMA CallbackTypes ==
    ASSUME NEW g \in PlayerStates, Len(g.ring) <= Capacity, NEW h, CallbackStep(g, h)
    PROVE  h \in PlayerStates /\ Len(h.ring) <= Capacity
<1>1. /\ g.ring \in Seq(Commands) /\ Len(g.ring) \in Nat /\ Capacity \in Nat /\ DrainLimit \in Nat
      /\ g.left \in 0 .. DrainLimit
  BY LenProperties, RingAssumption DEF PlayerStates
<1>2. CASE h = DrainBegin(g)
  BY <1>1, <1>2 DEF DrainBegin, PlayerStates
<1>3. CASE h = DrainEnd(g)
  BY <1>1, <1>3 DEF DrainEnd, PlayerStates
<1>4. CASE g.left > 0 /\ g.ring # <<>> /\ h = DrainOne(g)
  <2>1. /\ Head(g.ring) \in Commands /\ Tail(g.ring) \in Seq(Commands)
        /\ Len(Tail(g.ring)) = Len(g.ring) - 1
    BY <1>1, <1>4, HeadTailProperties
  <2> DEFINE a == Apply(g, Head(g.ring))
  <2>2. a \in PlayerStates /\ a.ring = g.ring /\ a.left = g.left
    BY <2>1, CommandTypes
  <2>3. h = [a EXCEPT !.ring = Tail(g.ring), !.left = g.left - 1]
    BY <1>4, <2>2 DEF DrainOne
  <2> HIDE DEF a
  <2>4. g.left - 1 \in 0 .. DrainLimit
    BY <1>1, <1>4
  <2>5. h \in PlayerStates /\ h.ring = Tail(g.ring)
    BY <2>1, <2>2, <2>3, <2>4 DEF PlayerStates
  <2> QED BY <1>1, <2>1, <2>5
<1> QED BY <1>2, <1>3, <1>4 DEF CallbackStep

\* A new player has nothing installed.
LEMMA FreshTypes == Fresh \in PlayerStates /\ Fresh.ring = <<>> /\ Len(Fresh.ring) <= Capacity
<1>1. <<>> \in Seq(Commands) /\ Len(<<>>) = 0 /\ 0 \in 0 .. DrainLimit /\ 0 <= Capacity
  BY EmptySeq, RingAssumption
<1> QED BY <1>1 DEF Fresh, PlayerStates

\* The parameters that were set, in some order: each once.
LEMMA InOrder ==
    ASSUME NEW e \in Entries, NEW some, some = {q \in Params : e.params[q] # Default}
    PROVE  /\ IsFiniteSet(some) /\ Cardinality(some) \in Nat
           /\ SetToSeq(some) \in [1 .. Cardinality(some) -> some]
           /\ \A q \in some : \E i \in 1 .. Cardinality(some) : SetToSeq(some)[i] = q
<1>1. some \in SUBSET Params
  OBVIOUS
<1>2. IsFiniteSet(some)
  BY <1>1, ParamAssumption, FS_Subset
<1>3. Cardinality(some) \in Nat /\ ExistsBijection(1 .. Cardinality(some), some)
  BY <1>2, FS_CardinalityType
<1>4. \E f \in [1 .. Cardinality(some) -> some] : IsInjective(f)
  BY <1>3 DEF ExistsBijection, Bijection, Injection, IsInjective
<1> DEFINE set == SetToSeq(some)
<1>5. set \in [1 .. Cardinality(some) -> some] /\ IsInjective(set)
  BY <1>4 DEF SetToSeq
<1> HIDE DEF set
<1>6. IsFiniteSet(1 .. Cardinality(some)) /\ Cardinality(1 .. Cardinality(some)) = Cardinality(some)
  BY <1>3, FS_Interval
<1>7. set \in Injection(1 .. Cardinality(some), some)
  BY <1>5 DEF Injection
<1>8. set \in Surjection(1 .. Cardinality(some), some)
  BY <1>2, <1>6, <1>7, FS_Injection
<1> QED BY <1>2, <1>3, <1>5, <1>8 DEF Surjection, set

\* What is said of a slot is a sequence of commands.
LEMMA StoryTypes ==
    ASSUME NEW p \in Slots, NEW e \in Entries
    PROVE  /\ Installs(p, e) \in Seq(Commands) /\ Sets(p, e) \in Seq(Commands)
           /\ Bypasses(p, e) \in Seq(Commands) /\ Story(p, e) \in Seq(Commands)
<1>1. e.kind \in Kinds /\ e.params \in Settings /\ e.bypassed \in BOOLEAN
  BY DEF Entries
<1>2. Installs(p, e) \in Seq(Commands)
  <2> DEFINE c == [op |-> "install", at |-> p, kind |-> e.kind]
  <2>1. c \in Commands /\ Installs(p, e) = <<c>>
    BY <1>1 DEF Installs, Commands
  <2> HIDE DEF c
  <2> QED BY <2>1
<1>3. Bypasses(p, e) \in Seq(Commands)
  <2> DEFINE c == [op |-> "bypass", at |-> p, on |-> TRUE]
  <2>1. c \in Commands /\ (Bypasses(p, e) = IF e.bypassed THEN <<c>> ELSE <<>>)
    BY <1>1 DEF Bypasses, Commands
  <2> HIDE DEF c
  <2> QED BY <1>1, <2>1, EmptySeq
<1>4. Sets(p, e) \in Seq(Commands)
  <2> DEFINE some == {q \in Params : e.params[q] # Default}
             k == Cardinality(some)
             set == SetToSeq(some)
             c(i) == [op |-> "param", at |-> p, param |-> set[i], value |-> e.params[set[i]]]
  <2>1. set \in [1 .. k -> some] /\ k \in Nat
    BY InOrder
  <2>2. Sets(p, e) = [i \in 1 .. k |-> c(i)]
    BY <2>1 DEF Sets
  <2> HIDE DEF set, k
  <2>3. ASSUME NEW i \in 1 .. k PROVE c(i) \in Commands
    <3>1. set[i] \in Params /\ e.params[set[i]] \in Values
      BY <1>1, <2>1, <2>3 DEF Settings
    <3> QED BY <3>1 DEF Commands
  <2> HIDE DEF c
  <2> QED BY <2>1, <2>2, <2>3, SeqDef
<1>5. Story(p, e) \in Seq(Commands)
  BY <1>2, <1>3, <1>4, ConcatProperties DEF Story
<1> QED BY <1>2, <1>3, <1>4, <1>5

-----------------------------------------------------------------------------
(* What is said of one slot *)

\* Nothing said.
LEMMA ToldNothing ==
    ASSUME NEW layout
    PROVE  Told(layout, <<>>) = layout
<1> DEFINE u == [n \in 0 .. 0 |-> layout]
<1>1. u[0] = layout /\ <<>> \in Seq(Commands) /\ Len(<<>>) = 0
  BY EmptySeq
<1>2. Steps(u, <<>>)
  BY <1>1 DEF Steps
<1> HIDE DEF u
<1> QED BY <1>1, <1>2, ToldIs

\* One thing said.
LEMMA ToldOne ==
    ASSUME NEW layout, NEW c \in Commands
    PROVE  Told(layout, <<c>>) = Recorded(layout, c)
<1> DEFINE u == [n \in 0 .. 1 |-> IF n = 0 THEN layout ELSE Recorded(layout, c)]
<1>1. /\ u[0] = layout /\ u[1] = Recorded(layout, c)
      /\ <<c>> \in Seq(Commands) /\ Len(<<c>>) = 1 /\ <<c>>[1] = c
  OBVIOUS
<1> HIDE DEF u
<1>2. Steps(u, <<c>>)
  BY <1>1 DEF Steps
<1> QED BY <1>1, <1>2, ToldIs

\* An effect in a slot whose parameters are those of e that have been told so far.
Half(e, done) ==
    [kind |-> e.kind, bypassed |-> FALSE,
     params |-> [q \in Params |-> IF q \in done THEN e.params[q] ELSE Default]]

\* One parameter of an effect set.
WithParam(e, q, value) == [e EXCEPT !.params[q] = value]

\* Such an effect is an entry of the layout, and setting one more parameter is one more told.
LEMMA HalfTold ==
    ASSUME NEW e \in Entries, NEW done, NEW q \in Params
    PROVE  /\ Half(e, done) \in Entries /\ Half(e, done) # None
           /\ Half(e, done \cup {q}) = WithParam(Half(e, done), q, e.params[q])
<1>1. e.kind \in Kinds /\ e.params \in Settings
  BY DEF Entries
<1>2. Half(e, done) \in Entries
  BY <1>1 DEF Half, Entries, Settings
<1> DEFINE before == [x \in Params |-> IF x \in done THEN e.params[x] ELSE Default]
           after == [x \in Params |-> IF x \in done \cup {q} THEN e.params[x] ELSE Default]
<1>3. after = [before EXCEPT ![q] = e.params[q]]
  OBVIOUS
<1>4. /\ Half(e, done) = [kind |-> e.kind, bypassed |-> FALSE, params |-> before]
      /\ Half(e, done \cup {q}) = [kind |-> e.kind, bypassed |-> FALSE, params |-> after]
  BY DEF Half
<1> HIDE DEF before, after
<1>5. Half(e, done \cup {q}) = WithParam(Half(e, done), q, e.params[q])
  <2> DEFINE r == [kind |-> e.kind, bypassed |-> FALSE, params |-> before]
  <2>1. r.params = before /\ DOMAIN r = {"kind", "bypassed", "params"}
    OBVIOUS
  <2>2. WithParam(r, q, e.params[q]) = [r EXCEPT !.params = [before EXCEPT ![q] = e.params[q]]]
    BY DEF WithParam
  <2> DEFINE t == [r EXCEPT !.params = after]
  <2>3. t \in [kind : {e.kind}, bypassed : {FALSE}, params : {after}]
    OBVIOUS
  <2>4. t = [kind |-> e.kind, bypassed |-> FALSE, params |-> after]
    <3> HIDE DEF t
    <3> QED BY <2>3
  <2> QED BY <1>3, <1>4, <2>2, <2>4
<1>6. Half(e, done) # None
  BY <1>2, NoneAssumption
<1> QED BY <1>2, <1>5, <1>6

\* Told what there is to say of a slot, a host believes that of the slot.
LEMMA OneSlotTold ==
    ASSUME NEW layout \in [Slots -> Entries \cup {None}], NEW p \in Slots, NEW e \in Entries
    PROVE  Told(layout, Story(p, e)) = [layout EXCEPT ![p] = e]
<1>1. /\ Installs(p, e) \in Seq(Commands) /\ Sets(p, e) \in Seq(Commands)
      /\ Bypasses(p, e) \in Seq(Commands) /\ Installs(p, e) \o Sets(p, e) \in Seq(Commands)
  BY StoryTypes, ConcatProperties
<1>2. e.kind \in Kinds /\ e.params \in Settings /\ e.bypassed \in BOOLEAN
  BY DEF Entries
<1> DEFINE some == {q \in Params : e.params[q] # Default}
           k == Cardinality(some)
           set == SetToSeq(some)
           c(i) == [op |-> "param", at |-> p, param |-> set[i], value |-> e.params[set[i]]]
           done(n) == {set[i] : i \in 1 .. n}
           u == [n \in 0 .. k |-> [layout EXCEPT ![p] = Half(e, done(n))]]
<1>3. /\ set \in [1 .. k -> some] /\ k \in Nat
      /\ \A q \in some : \E i \in 1 .. k : set[i] = q
  BY InOrder
<1>4. Sets(p, e) = [i \in 1 .. k |-> c(i)] /\ Len(Sets(p, e)) = k
  BY <1>3 DEF Sets
<1> HIDE DEF set, k
<1>5. Told(layout, Installs(p, e)) = u[0]
  <2> DEFINE a == [op |-> "install", at |-> p, kind |-> e.kind]
  <2>1. a \in Commands /\ Installs(p, e) = <<a>>
    BY <1>2 DEF Installs, Commands
  <2>2. Recorded(layout, a) = [layout EXCEPT ![p] = [kind |-> e.kind, bypassed |-> FALSE, params |-> Untouched]]
    BY DEF Recorded
  <2>3. [kind |-> e.kind, bypassed |-> FALSE, params |-> Untouched] = Half(e, done(0))
    BY DEF Half, Untouched
  <2> HIDE DEF a
  <2>4. u[0] = [layout EXCEPT ![p] = Half(e, done(0))]
    BY <1>3
  <2> QED BY <2>1, <2>2, <2>3, <2>4, ToldOne
<1>6. ASSUME NEW n \in 1 .. k PROVE u[n] = Recorded(u[n - 1], c(n))
  <2> DEFINE h == Half(e, done(n - 1))
             l == [layout EXCEPT ![p] = h]
             q == set[n]
  <2>1. q \in Params /\ done(n) = done(n - 1) \cup {q}
    <3>1. \A i : i \in 1 .. n <=> i \in 1 .. n - 1 \/ i = n
      BY <1>3, <1>6
    <3> QED BY <1>3, <1>6, <3>1
  <2>2. u[n - 1] = l /\ u[n] = [layout EXCEPT ![p] = Half(e, done(n))]
    BY <1>3, <1>6
  <2>3. h # None /\ Half(e, done(n)) = WithParam(h, q, e.params[q])
    <3> HIDE DEF done, q
    <3> QED BY <2>1, HalfTold
  <2>4. c(n).op = "param" /\ c(n).at = p /\ c(n).param = q /\ c(n).value = e.params[q]
    OBVIOUS
  <2> HIDE DEF h, c, q, u, done
  <2>5. l[p] = h
    OBVIOUS
  <2>6. Recorded(l, c(n)) = [l EXCEPT ![p].params[q] = e.params[q]]
    BY <2>3, <2>4, <2>5 DEF Recorded
  <2>7. [l EXCEPT ![p].params[q] = e.params[q]] = [l EXCEPT ![p] = WithParam(h, q, e.params[q])]
    BY <2>5 DEF WithParam
  <2>8. [l EXCEPT ![p] = Half(e, done(n))] = [layout EXCEPT ![p] = Half(e, done(n))]
    OBVIOUS
  <2> QED BY <2>2, <2>3, <2>6, <2>7, <2>8
<1>7. Told(u[0], Sets(p, e)) = u[k]
  <2>1. \A n \in 1 .. k : Sets(p, e)[n] = c(n)
    BY <1>4
  <2> HIDE DEF u, c
  <2>2. Steps(u, Sets(p, e))
    BY <1>4, <1>6, <2>1 DEF Steps
  <2> QED BY <1>1, <1>4, <2>2, ToldIs
<1> DEFINE f == [kind |-> e.kind, bypassed |-> FALSE, params |-> e.params]
<1>8. u[k] = [layout EXCEPT ![p] = f]
  <2>1. \A q \in Params : (IF q \in done(k) THEN e.params[q] ELSE Default) = e.params[q]
    BY <1>3
  <2>2. [q \in Params |-> IF q \in done(k) THEN e.params[q] ELSE Default] = e.params
    BY <1>2, <2>1 DEF Settings
  <2>3. Half(e, done(k)) = f
    BY <2>2 DEF Half
  <2>4. u[k] = [layout EXCEPT ![p] = Half(e, done(k))]
    BY <1>3
  <2> QED BY <2>3, <2>4
<1> HIDE DEF u
<1>9. Told([layout EXCEPT ![p] = f], Bypasses(p, e)) = [layout EXCEPT ![p] = e]
  <2> DEFINE b == [op |-> "bypass", at |-> p, on |-> TRUE]
             l == [layout EXCEPT ![p] = f]
  <2>1. b \in Commands /\ (Bypasses(p, e) = IF e.bypassed THEN <<b>> ELSE <<>>)
    BY DEF Bypasses, Commands
  <2>2. e = [kind |-> e.kind, bypassed |-> e.bypassed, params |-> e.params]
    BY DEF Entries
  <2>3. CASE ~e.bypassed
    <3>1. e = f
      BY <1>2, <2>2, <2>3
    <3> HIDE DEF f, b
    <3> QED BY <2>1, <2>3, <3>1, ToldNothing
  <2>4. CASE e.bypassed
    <3>1. f # None /\ l[p] = f
      <4>1. f \in Entries
        BY <1>2 DEF Entries
      <4> HIDE DEF f
      <4> QED BY <4>1, NoneAssumption
    <3>2. [f EXCEPT !.bypassed = TRUE] = e
      BY <1>2, <2>2, <2>4
    <3>3. Recorded(l, b) = [l EXCEPT ![p].bypassed = TRUE]
      BY <3>1 DEF Recorded
    <3> HIDE DEF f, b
    <3>4. [l EXCEPT ![p].bypassed = TRUE] = [layout EXCEPT ![p] = [f EXCEPT !.bypassed = TRUE]]
      BY <3>1
    <3>5. Bypasses(p, e) = <<b>>
      BY <2>1, <2>4
    <3>6. Told(l, <<b>>) = Recorded(l, b)
      <4> HIDE DEF l
      <4> QED BY <2>1, ToldOne
    <3> QED BY <3>2, <3>3, <3>4, <3>5, <3>6
  <2> QED BY <1>2, <2>3, <2>4
<1>10. Told(layout, Story(p, e)) = Told(Told(Told(layout, Installs(p, e)), Sets(p, e)), Bypasses(p, e))
  <2> DEFINE i == Installs(p, e)
             s == Sets(p, e)
             b == Bypasses(p, e)
  <2>1. Story(p, e) = (i \o s) \o b
    BY DEF Story
  <2>2. i \in Seq(Commands) /\ s \in Seq(Commands) /\ b \in Seq(Commands) /\ i \o s \in Seq(Commands)
    BY <1>1
  <2> HIDE DEF i, s, b
  <2>3. Told(layout, (i \o s) \o b) = Told(Told(layout, i \o s), b)
    BY <2>2, ToldBoth
  <2>4. Told(layout, i \o s) = Told(Told(layout, i), s)
    BY <2>2, ToldBoth
  <2> QED BY <2>1, <2>3, <2>4 DEF i, s, b
<1> QED BY <1>5, <1>7, <1>8, <1>9, <1>10

-----------------------------------------------------------------------------
(* What is said of a whole layout *)

\* An order of the slots names each of them.
LEMMA EverySlotInTurn ==
    ASSUME NEW some \in SUBSET Slots, NEW order \in SetToSeqs(some)
    PROVE  \E k \in Nat : /\ order \in [1 .. k -> some]
                          /\ \A p \in some : \E i \in 1 .. k : order[i] = p
<1> DEFINE k == Cardinality(some)
<1>1. IsFiniteSet(some) /\ k \in Nat
  BY PlaceAssumption, FS_Subset, FS_CardinalityType
<1>2. order \in [1 .. k -> some] /\ \A i, j \in 1 .. k : i # j => order[i] # order[j]
  BY DEF SetToSeqs
<1>3. IsFiniteSet(1 .. k) /\ Cardinality(1 .. k) = k
  BY <1>1, FS_Interval
<1>4. order \in Injection(1 .. k, some)
  BY <1>2 DEF Injection, IsInjective
<1>5. order \in Surjection(1 .. k, some)
  BY <1>1, <1>3, <1>4, FS_Injection
<1> HIDE DEF k
<1> QED BY <1>1, <1>2, <1>5 DEF Surjection

\* The stories of the slots, joined one by one.
LEMMA JoinedSoFar ==
    ASSUME NEW k \in Nat, NEW parts \in [1 .. k -> Seq(Commands)]
    PROVE  \E f : /\ f[0] = <<>> /\ f[k] = FlattenSeq(parts)
                  /\ \A n \in 0 .. k : f[n] \in Seq(Commands)
                  /\ \A n \in 1 .. k : f[n] = f[n - 1] \o parts[n]
<1>1. Len(parts) = k /\ parts \in Seq(Seq(Commands))
  BY SeqDef
<1>2. CASE k = 0
  <2>1. parts = <<>> /\ FlattenSeq(parts) = <<>>
    BY <1>1, <1>2, EmptySeq DEF FlattenSeq
  <2> DEFINE f == [n \in 0 .. 0 |-> <<>>]
  <2>2. f[0] = <<>> /\ <<>> \in Seq(Commands)
    BY EmptySeq
  <2> HIDE DEF f
  <2>3. f[0] = <<>> /\ f[k] = FlattenSeq(parts)
    BY <1>2, <2>1, <2>2
  <2>4. \A n \in 0 .. k : f[n] \in Seq(Commands)
    <3>1. 0 .. k = {0}
      BY <1>2
    <3> QED BY <2>2, <3>1
  <2>5. 1 .. k = {}
    BY <1>2
  <2> QED BY <2>3, <2>4, <2>5
<1>3. CASE k # 0
  <2> DEFINE Fold(f, m) ==
               f = [i \in 1 .. m |-> IF i = 1 THEN parts[i] ELSE f[i - 1] \o parts[i]]
             S == {m \in Nat : \E f : Fold(f, m)}
  <2>1. 0 \in S
    <3> DEFINE f == [n \in 1 .. 0 |-> <<>>]
    <3>1. Fold(f, 0)
      OBVIOUS
    <3> HIDE DEF Fold
    <3> QED BY <3>1
  <2>2. ASSUME NEW m \in Nat, m \in S PROVE m + 1 \in S
    <3>1. PICK f : Fold(f, m)
      BY <2>2
    <3> DEFINE last == IF m = 0 THEN parts[1] ELSE f[m] \o parts[m + 1]
               g == [n \in 1 .. m + 1 |-> IF n = m + 1 THEN last ELSE f[n]]
               body(n) == IF n = 1 THEN parts[n] ELSE g[n - 1] \o parts[n]
    <3>2. ASSUME NEW n \in 1 .. m + 1 PROVE g[n] = body(n)
      <4>1. CASE n = m + 1
        BY <2>2, <4>1
      <4>2. CASE n \in 1 .. m
        <5>1. f[n] = IF n = 1 THEN parts[n] ELSE f[n - 1] \o parts[n]
          BY <3>1, <4>2
        <5> QED BY <2>2, <4>2, <5>1
      <4> QED BY <2>2, <3>2, <4>1, <4>2
    <3>3. g = [n \in 1 .. m + 1 |-> g[n]]
      OBVIOUS
    <3> HIDE DEF g, body
    <3>4. g = [n \in 1 .. m + 1 |-> body(n)]
      BY <3>2, <3>3
    <3>5. Fold(g, m + 1)
      BY <3>4 DEF body
    <3> HIDE DEF Fold
    <3> QED BY <2>2, <3>5
  <2>3. k \in S
    <3> HIDE DEF S
    <3> QED BY <2>1, <2>2, Onwards
  <2> DEFINE f == CHOOSE f : Fold(f, Len(parts))
  <2>4. Fold(f, k)
    BY <1>1, <2>3
  <2>5. FlattenSeq(parts) = f[k]
    BY <1>1, <1>3 DEF FlattenSeq
  <2> HIDE DEF f
  <2> DEFINE h == [n \in 0 .. k |-> IF n = 0 THEN <<>> ELSE f[n]]
  <2>6. h[0] = <<>> /\ h[k] = FlattenSeq(parts)
    BY <1>3, <2>5
  <2>7. ASSUME NEW n \in 1 .. k PROVE h[n] = h[n - 1] \o parts[n]
    <3>1. CASE n = 1
      <4>1. h[n] = parts[1] /\ h[n - 1] = <<>>
        BY <2>4, <2>7, <3>1
      <4>2. <<>> \o parts[1] = parts[1]
        BY <2>7, <3>1, ConcatEmptySeq
      <4> QED BY <3>1, <4>1, <4>2
    <3>2. CASE n # 1
      <4>1. n - 1 \in 0 .. k /\ n - 1 # 0
        BY <2>7, <3>2
      <4>2. h[n] = f[n] /\ h[n - 1] = f[n - 1]
        BY <2>7, <4>1
      <4>3. f[n] = f[n - 1] \o parts[n]
        BY <2>4, <2>7, <3>2
      <4> QED BY <4>2, <4>3
    <3> QED BY <3>1, <3>2
  <2> HIDE DEF h
  <2> DEFINE T == {n \in Nat : n <= k => h[n] \in Seq(Commands)}
  <2>8. 0 \in T
    BY <2>6, EmptySeq
  <2>9. ASSUME NEW n \in Nat, n \in T PROVE n + 1 \in T
    <3>1. CASE n + 1 <= k
      <4>1. n + 1 \in 1 .. k /\ (n + 1) - 1 = n /\ n <= k
        BY <2>9, <3>1
      <4>2. h[n + 1] = h[n] \o parts[n + 1]
        BY <2>7, <4>1
      <4>3. h[n] \in Seq(Commands) /\ parts[n + 1] \in Seq(Commands)
        BY <2>9, <4>1
      <4>4. h[n + 1] \in Seq(Commands)
        BY <4>2, <4>3, ConcatProperties
      <4> QED BY <2>9, <4>4
    <3> QED BY <2>9, <3>1
  <2>10. ASSUME NEW n \in 0 .. k PROVE h[n] \in Seq(Commands)
    <3>1. n \in T
      <4> HIDE DEF T
      <4> QED BY <2>8, <2>9, <2>10, Onwards
    <3> QED BY <3>1, <2>10
  <2> QED BY <2>6, <2>7, <2>10
<1> QED BY <1>2, <1>3

\* Told the stories of all its slots, in any order, a new host believes the old layout
\* (Player::rebuild, InsertLayout::iter).
LEMMA LayoutTold ==
    ASSUME NEW layout \in [Slots -> Entries \cup {None}], NEW story \in Stories(layout)
    PROVE  story \in Seq(Commands) /\ Told(Fresh.layout, story) = layout
<1> DEFINE some == {p \in Slots : layout[p] # None}
<1>1. PICK order \in SetToSeqs(some) :
         story = FlattenSeq([i \in DOMAIN order |-> Story(order[i], layout[order[i]])])
  BY DEF Stories
<1>2. PICK k \in Nat : /\ order \in [1 .. k -> some]
                       /\ \A p \in some : \E i \in 1 .. k : order[i] = p
  <2>1. some \in SUBSET Slots
    OBVIOUS
  <2> HIDE DEF some
  <2> QED BY <1>1, <2>1, EverySlotInTurn
<1> DEFINE parts == [i \in 1 .. k |-> Story(order[i], layout[order[i]])]
<1>3. story = FlattenSeq(parts)
  BY <1>1, <1>2
<1>4. ASSUME NEW i \in 1 .. k
      PROVE  /\ order[i] \in Slots /\ layout[order[i]] \in Entries
             /\ parts[i] = Story(order[i], layout[order[i]]) /\ parts[i] \in Seq(Commands)
  <2>1. order[i] \in Slots /\ layout[order[i]] \in Entries
    BY <1>2
  <2> QED BY <2>1, StoryTypes
<1>5. parts \in [1 .. k -> Seq(Commands)]
  BY <1>4
<1> HIDE DEF parts
<1>6. PICK f : /\ f[0] = <<>> /\ f[k] = FlattenSeq(parts)
               /\ \A n \in 0 .. k : f[n] \in Seq(Commands)
               /\ \A n \in 1 .. k : f[n] = f[n - 1] \o parts[n]
  BY <1>5, JoinedSoFar
<1> DEFINE named(n) == {order[i] : i \in 1 .. n}
           part(n) == [p \in Slots |-> IF p \in named(n) THEN layout[p] ELSE None]
           S == {n \in Nat : n <= k => Told(Fresh.layout, f[n]) = part(n)}
<1>7. 0 \in S
  <2>1. Fresh.layout = part(0)
    BY DEF Fresh
  <2>2. Told(Fresh.layout, <<>>) = Fresh.layout
    BY ToldNothing
  <2> HIDE DEF part
  <2> QED BY <1>6, <2>1, <2>2
<1>8. ASSUME NEW n \in Nat, n \in S PROVE n + 1 \in S
  <2> SUFFICES ASSUME n + 1 <= k PROVE Told(Fresh.layout, f[n + 1]) = part(n + 1)
    OBVIOUS
  <2> DEFINE p == order[n + 1]
             e == layout[p]
  <2>1. n + 1 \in 1 .. k /\ (n + 1) - 1 = n /\ n \in 0 .. k
    BY <1>2
  <2>2. p \in Slots /\ e \in Entries /\ parts[n + 1] = Story(p, e) /\ parts[n + 1] \in Seq(Commands)
    BY <1>4, <2>1
  <2>3. f[n + 1] = f[n] \o Story(p, e) /\ f[n] \in Seq(Commands) /\ Story(p, e) \in Seq(Commands)
    BY <1>6, <2>1, <2>2
  <2>4. Told(Fresh.layout, f[n]) = part(n)
    BY <1>8, <2>1
  <2>5. part(n) \in [Slots -> Entries \cup {None}]
    OBVIOUS
  <2>6. [part(n) EXCEPT ![p] = e] = part(n + 1)
    <3>1. \A i : i \in 1 .. n + 1 <=> i \in 1 .. n \/ i = n + 1
      BY <2>1
    <3>2. named(n + 1) = named(n) \cup {p}
      BY <3>1
    <3> HIDE DEF named
    <3> QED BY <3>2
  <2> HIDE DEF part, p, e
  <2>7. Told(Fresh.layout, f[n + 1]) = Told(part(n), Story(p, e))
    BY <2>3, <2>4, ToldBoth
  <2>8. Told(part(n), Story(p, e)) = [part(n) EXCEPT ![p] = e]
    BY <2>2, <2>5, OneSlotTold
  <2> QED BY <2>6, <2>7, <2>8
<1>9. k \in S
  <2> HIDE DEF S
  <2> QED BY <1>7, <1>8, Onwards
<1>10. part(k) = layout
  <2>1. some = named(k)
    BY <1>2
  <2> QED BY <2>1
<1>11. Told(Fresh.layout, f[k]) = part(k)
  BY <1>2, <1>9
<1> QED BY <1>2, <1>3, <1>6, <1>10, <1>11

-----------------------------------------------------------------------------
(* The engine's side *)

\* A chain once a command has been applied to it.
Fitted(chain, c) ==
    IF c.at \notin Places THEN chain
    ELSE CASE c.op = "install" -> [chain EXCEPT ![c.at] = [kind |-> c.kind, params |-> Untouched]]
           [] c.op = "remove"  -> [chain EXCEPT ![c.at] = None]
           [] c.op = "param" /\ chain[c.at] # None -> [chain EXCEPT ![c.at].params[c.param] = c.value]
           [] OTHER -> chain

\* That is what apply_insert_command does to the chain.
LEMMA AppliedToChain ==
    ASSUME NEW g \in PlayerStates, NEW c \in Commands
    PROVE  Apply(g, c).chain = Fitted(g.chain, c)
<1>1. g.chain \in [Places -> Effects \cup {None}]
  BY DEF PlayerStates
<1>2. CASE c.at \notin Places
  BY <1>2 DEF Apply, Fitted
<1>3. CASE c.at \in Places /\ c.op = "install"
  BY <1>1, <1>3 DEF Apply, Fitted, PlayerStates
<1>4. CASE c.at \in Places /\ c.op = "remove"
  BY <1>1, <1>4 DEF Apply, Fitted, PlayerStates
<1>5. CASE c.at \in Places /\ c.op = "param"
  BY <1>1, <1>5 DEF Apply, Fitted, PlayerStates
<1>6. CASE c.at \in Places /\ c.op = "bypass"
  BY <1>1, <1>6 DEF Apply, Fitted, PlayerStates
<1>7. c.op \in {"install", "remove", "param", "bypass"}
  BY DEF Commands
<1> QED BY <1>2, <1>3, <1>4, <1>5, <1>6, <1>7

\* A sequence of chains, each with the next command applied to it.
Fits(u, ring) == \A n \in 1 .. Len(ring) : u[n] = Fitted(u[n - 1], ring[n])

\* There is an engine after each command of the ring.
LEMMA DrainedSoFar ==
    ASSUME NEW g, g.ring \in Seq(Commands)
    PROVE  \E f : /\ f[0] = g /\ Drained(g) = f[Len(g.ring)]
                 /\ \A n \in 1 .. Len(g.ring) : f[n] = Apply(f[n - 1], g.ring[n])
<1> DEFINE Fold(f, k) ==
             f = [n \in 0 .. k |-> IF n = 0 THEN g ELSE Apply(f[n - 1], g.ring[n])]
           S == {k \in Nat : \E f : Fold(f, k)}
<1>1. Len(g.ring) \in Nat
  BY LenProperties
<1>2. 0 \in S
  <2> DEFINE f == [n \in 0 .. 0 |-> g]
  <2>1. Fold(f, 0)
    OBVIOUS
  <2> QED BY <2>1
<1>3. ASSUME NEW k \in Nat, k \in S PROVE k + 1 \in S
  <2>1. PICK f : Fold(f, k)
    BY <1>3
  <2> DEFINE h == [n \in 0 .. k + 1 |-> IF n = k + 1 THEN Apply(f[k], g.ring[k + 1]) ELSE f[n]]
             body(n) == IF n = 0 THEN g ELSE Apply(h[n - 1], g.ring[n])
  <2>2. ASSUME NEW n \in 0 .. k + 1 PROVE h[n] = body(n)
    <3>1. CASE n = k + 1
      BY <3>1
    <3>2. CASE n \in 0 .. k
      <4>1. f[n] = IF n = 0 THEN g ELSE Apply(f[n - 1], g.ring[n])
        BY <2>1, <3>2
      <4> QED BY <3>2, <4>1
    <3> QED BY <2>2, <3>1, <3>2
  <2>3. h = [n \in 0 .. k + 1 |-> h[n]]
    OBVIOUS
  <2> HIDE DEF h, body
  <2>4. h = [n \in 0 .. k + 1 |-> body(n)]
    BY <2>2, <2>3
  <2>5. Fold(h, k + 1)
    BY <2>4 DEF body
  <2> HIDE DEF Fold
  <2> QED BY <2>5
<1>4. Len(g.ring) \in S
  <2> HIDE DEF S
  <2> QED BY <1>1, <1>2, <1>3, Onwards
<1> DEFINE f == CHOOSE f : Fold(f, Len(g.ring))
<1>5. Fold(f, Len(g.ring))
  BY <1>4
<1>6. Drained(g) = f[Len(g.ring)]
  BY DEF Drained
<1> HIDE DEF f
<1>7. f[0] = g
  BY <1>1, <1>5
<1>8. ASSUME NEW n \in 1 .. Len(g.ring) PROVE f[n] = Apply(f[n - 1], g.ring[n])
  <2>1. n \in 0 .. Len(g.ring) /\ n # 0
    BY <1>1, <1>8
  <2> QED BY <1>5, <2>1
<1> QED BY <1>6, <1>7, <1>8

\* The chain the engine comes to, command by command.
LEMMA ChainSoFar ==
    ASSUME NEW g \in PlayerStates
    PROVE  \E u : /\ u[0] = g.chain /\ Fits(u, g.ring) /\ Drained(g).chain = u[Len(g.ring)]
                 /\ u[Len(g.ring)] \in [Places -> Effects \cup {None}]
<1>1. g.ring \in Seq(Commands) /\ Len(g.ring) \in Nat
  BY LenProperties DEF PlayerStates
<1>2. PICK f : /\ f[0] = g /\ Drained(g) = f[Len(g.ring)]
               /\ \A n \in 1 .. Len(g.ring) : f[n] = Apply(f[n - 1], g.ring[n])
  BY <1>1, DrainedSoFar
<1> DEFINE S == {n \in Nat : n <= Len(g.ring) => f[n] \in PlayerStates}
<1>3. 0 \in S
  BY <1>2
<1>4. ASSUME NEW n \in Nat, n + 1 <= Len(g.ring), f[n] \in PlayerStates
      PROVE  f[n + 1] \in PlayerStates /\ f[n + 1].chain = Fitted(f[n].chain, g.ring[n + 1])
  <2>1. n + 1 \in 1 .. Len(g.ring) /\ (n + 1) - 1 = n
    BY <1>1, <1>4
  <2>2. f[n + 1] = Apply(f[n], g.ring[n + 1])
    BY <1>2, <2>1
  <2>3. g.ring[n + 1] \in Commands
    BY <1>1, <2>1, ElementOfSeq
  <2> QED BY <1>4, <2>2, <2>3, AppliedToChain, CommandTypes
<1>5. ASSUME NEW n \in 0 .. Len(g.ring) PROVE f[n] \in PlayerStates
  <2>1. \A m \in 0 .. n : m \in S /\ m # n => m + 1 \in S
    BY <1>1, <1>4, <1>5
  <2>2. n \in Nat
    BY <1>1, <1>5
  <2>3. n \in S
    <3> HIDE DEF S
    <3> QED BY <1>3, <2>1, <2>2, Onwards
  <2> QED BY <1>5, <2>3
<1> DEFINE u == [n \in 0 .. Len(g.ring) |-> f[n].chain]
<1>6. u[0] = g.chain /\ Drained(g).chain = u[Len(g.ring)]
  BY <1>1, <1>2
<1>7. ASSUME NEW n \in 1 .. Len(g.ring) PROVE u[n] = Fitted(u[n - 1], g.ring[n])
  <2>1. n - 1 \in Nat /\ (n - 1) + 1 = n /\ n - 1 \in 0 .. Len(g.ring)
    BY <1>1, <1>7
  <2>2. f[n].chain = Fitted(f[n - 1].chain, g.ring[n])
    BY <1>1, <1>4, <1>5, <1>7, <2>1
  <2> QED BY <1>7, <2>1, <2>2
<1>8. u[Len(g.ring)] \in [Places -> Effects \cup {None}]
  BY <1>1, <1>5 DEF PlayerStates
<1> HIDE DEF u
<1> QED BY <1>6, <1>7, <1>8 DEF Fits

\* There is only one such sequence of chains.
LEMMA DrainedIs ==
    ASSUME NEW g \in PlayerStates, NEW v, v[0] = g.chain, Fits(v, g.ring)
    PROVE  Drained(g).chain = v[Len(g.ring)]
<1>1. Len(g.ring) \in Nat
  BY LenProperties DEF PlayerStates
<1>2. PICK u : u[0] = g.chain /\ Fits(u, g.ring) /\ Drained(g).chain = u[Len(g.ring)]
  BY ChainSoFar
<1> DEFINE S == {n \in Nat : u[n] = v[n]}
<1>3. 0 \in S /\ \A n \in 0 .. Len(g.ring) : n \in S /\ n # Len(g.ring) => n + 1 \in S
  <2>1. ASSUME NEW n \in 0 .. Len(g.ring), n \in S, n # Len(g.ring) PROVE n + 1 \in S
    <3>1. n + 1 \in 1 .. Len(g.ring) /\ (n + 1) - 1 = n
      BY <1>1, <2>1
    <3>2. u[n + 1] = Fitted(u[n], g.ring[n + 1]) /\ v[n + 1] = Fitted(v[n], g.ring[n + 1])
      BY <1>2, <3>1 DEF Fits
    <3> QED BY <2>1, <3>2
  <2> QED BY <1>2, <2>1
<1> HIDE DEF S
<1>4. Len(g.ring) \in S
  BY <1>1, <1>3, Onwards
<1> QED BY <1>2, <1>4 DEF S

\* A command that is queued is applied last.
LEMMA DrainedAfterAsk ==
    ASSUME NEW g \in PlayerStates, NEW h \in PlayerStates, NEW c \in Commands,
           h.ring = Append(g.ring, c), h.chain = g.chain
    PROVE  Drained(h).chain = Fitted(Drained(g).chain, c)
<1>1. /\ g.ring \in Seq(Commands) /\ Len(g.ring) \in Nat /\ Len(h.ring) = Len(g.ring) + 1
      /\ h.ring[Len(g.ring) + 1] = c /\ \A n \in 1 .. Len(g.ring) : h.ring[n] = g.ring[n]
  BY AppendProperties, LenProperties DEF PlayerStates
<1>2. PICK u : u[0] = g.chain /\ Fits(u, g.ring) /\ Drained(g).chain = u[Len(g.ring)]
  BY ChainSoFar
<1> DEFINE k == Len(g.ring)
           v == [n \in 0 .. k + 1 |-> IF n = k + 1 THEN Fitted(u[k], c) ELSE u[n]]
<1>3. v[0] = h.chain /\ v[k + 1] = Fitted(u[k], c)
  BY <1>1, <1>2
<1>4. ASSUME NEW n \in 1 .. k + 1 PROVE v[n] = Fitted(v[n - 1], h.ring[n])
  <2>1. v[n - 1] = u[n - 1]
    BY <1>1, <1>4
  <2>2. CASE n = k + 1
    BY <1>1, <1>3, <2>1, <2>2
  <2>3. CASE n \in 1 .. k
    <3>1. v[n] = u[n] /\ h.ring[n] = g.ring[n] /\ u[n] = Fitted(u[n - 1], g.ring[n])
      BY <1>1, <1>2, <2>3 DEF Fits
    <3> QED BY <2>1, <3>1
  <2> QED BY <1>1, <1>4, <2>2, <2>3
<1> HIDE DEF v
<1>5. Fits(v, h.ring) /\ Len(h.ring) = k + 1
  BY <1>1, <1>4 DEF Fits
<1>6. Drained(h).chain = v[Len(h.ring)]
  BY <1>3, <1>5, DrainedIs
<1> QED BY <1>2, <1>3, <1>5, <1>6

\* Applying the first command leaves what the engine comes to.
LEMMA DrainedAfterOne ==
    ASSUME NEW g \in PlayerStates, NEW h \in PlayerStates, g.ring # <<>>,
           h.ring = Tail(g.ring), h.chain = Fitted(g.chain, Head(g.ring))
    PROVE  Drained(h).chain = Drained(g).chain
<1>1. /\ g.ring \in Seq(Commands) /\ Len(g.ring) \in Nat \ {0} /\ Len(h.ring) = Len(g.ring) - 1
      /\ Head(g.ring) = g.ring[1] /\ \A n \in 1 .. Len(h.ring) : h.ring[n] = g.ring[n + 1]
  <2>1. g.ring \in Seq(Commands)
    BY DEF PlayerStates
  <2> QED BY <2>1, HeadTailProperties, LenProperties, EmptySeq
<1>2. PICK u : u[0] = g.chain /\ Fits(u, g.ring) /\ Drained(g).chain = u[Len(g.ring)]
  BY ChainSoFar
<1> DEFINE k == Len(h.ring)
           v == [n \in 0 .. k |-> u[n + 1]]
<1>3. v[0] = h.chain /\ v[k] = u[Len(g.ring)]
  <2>1. 1 \in 1 .. Len(g.ring) /\ 1 - 1 = 0
    BY <1>1
  <2>2. u[1] = Fitted(u[0], g.ring[1])
    BY <1>2, <2>1 DEF Fits
  <2>3. v[0] = u[1] /\ v[k] = u[Len(g.ring)]
    BY <1>1
  <2> QED BY <1>1, <1>2, <2>2, <2>3
<1>4. ASSUME NEW n \in 1 .. k PROVE v[n] = Fitted(v[n - 1], h.ring[n])
  <2>1. n + 1 \in 1 .. Len(g.ring) /\ (n + 1) - 1 = n /\ n - 1 \in 0 .. k /\ (n - 1) + 1 = n
    BY <1>1, <1>4
  <2>2. u[n + 1] = Fitted(u[n], g.ring[n + 1]) /\ h.ring[n] = g.ring[n + 1]
    BY <1>1, <1>2, <1>4, <2>1 DEF Fits
  <2>3. v[n] = u[n + 1] /\ v[n - 1] = u[n]
    BY <1>1, <1>4, <2>1
  <2> QED BY <2>2, <2>3
<1> HIDE DEF v
<1>5. Drained(h).chain = v[k]
  BY <1>3, <1>4, DrainedIs DEF Fits
<1> QED BY <1>2, <1>3, <1>5

\* The rest of the player makes no difference.
LEMMA DrainedAlike ==
    ASSUME NEW g \in PlayerStates, NEW h \in PlayerStates, h.ring = g.ring, h.chain = g.chain
    PROVE  Drained(h).chain = Drained(g).chain
<1>1. PICK u : u[0] = g.chain /\ Fits(u, g.ring) /\ Drained(g).chain = u[Len(g.ring)]
  BY ChainSoFar
<1> QED BY <1>1, DrainedIs

-----------------------------------------------------------------------------
(* 2. The two sides *)

\* What the host believes of one player is what its engine comes to.
HostKnows(g) == \A p \in Places : SameEffect(g.layout[p], Drained(g).chain[p])

\* A command does the same to both sides: record_* to the layout, apply_insert_command to
\* the chain, slot by slot, and nothing to a slot the engine does not have.
LEMMA SameToBoth ==
    ASSUME NEW layout \in [Slots -> Entries \cup {None}],
           NEW chain \in [Places -> Effects \cup {None}], NEW c \in Commands,
           NEW p \in Places, SameEffect(layout[p], chain[p])
    PROVE  SameEffect(Recorded(layout, c)[p], Fitted(chain, c)[p])
<1> DEFINE a == layout[p]
           b == chain[p]
<1>1. p \in Slots /\ a \in Entries \cup {None} /\ b \in Effects \cup {None}
  BY DEF Slots
<1>2. c.at \in Slots /\ c.op \in {"install", "remove", "param", "bypass"}
  BY DEF Commands
<1>3. CASE c.at # p
  <2>1. Recorded(layout, c)[p] = layout[p]
    BY <1>2, <1>3 DEF Recorded
  <2>2. Fitted(chain, c)[p] = chain[p]
    BY <1>2, <1>3 DEF Fitted
  <2> QED BY <2>1, <2>2
<1>4. CASE c.at = p /\ c.op = "install"
  <2> DEFINE e == [kind |-> c.kind, bypassed |-> FALSE, params |-> Untouched]
             f == [kind |-> c.kind, params |-> Untouched]
  <2>1. c.kind \in Kinds /\ Untouched \in Settings
    BY <1>4 DEF Commands, Untouched, Settings
  <2>2. Recorded(layout, c)[p] = e /\ Fitted(chain, c)[p] = f
    BY <1>1, <1>4 DEF Recorded, Fitted
  <2>3. e \in Entries /\ f \in Effects /\ e.kind = f.kind /\ e.params = f.params
    BY <2>1 DEF Entries, Effects
  <2> HIDE DEF e, f
  <2> QED BY <2>2, <2>3, NoneAssumption DEF SameEffect
<1>5. CASE c.at = p /\ c.op = "remove"
  <2>1. Recorded(layout, c)[p] = None /\ Fitted(chain, c)[p] = None
    BY <1>1, <1>5 DEF Recorded, Fitted
  <2> QED BY <2>1 DEF SameEffect
<1>6. CASE c.at = p /\ c.op = "param"
  <2>1. CASE a = None
    <3>1. b = None
      BY <2>1 DEF SameEffect
    <3>2. Recorded(layout, c)[p] = a /\ Fitted(chain, c)[p] = b
      BY <1>6, <2>1, <3>1 DEF Recorded, Fitted
    <3> QED BY <3>2
  <2>2. CASE a # None
    <3>1. a \in Entries /\ b \in Effects /\ b # None /\ a.kind = b.kind /\ a.params = b.params
      BY <1>1, <2>2 DEF SameEffect
    <3>2. /\ Recorded(layout, c)[p] = [a EXCEPT !.params[c.param] = c.value]
          /\ Fitted(chain, c)[p] = [b EXCEPT !.params[c.param] = c.value]
      BY <1>1, <1>6, <2>2, <3>1 DEF Recorded, Fitted
    <3>3. c.param \in Params /\ c.value \in Values
      BY <1>6 DEF Commands
    <3> DEFINE e == [a EXCEPT !.params[c.param] = c.value]
               f == [b EXCEPT !.params[c.param] = c.value]
    <3> HIDE DEF a, b
    <3>4. /\ e.kind = a.kind /\ f.kind = b.kind
          /\ e.params = [a.params EXCEPT ![c.param] = c.value]
          /\ f.params = [b.params EXCEPT ![c.param] = c.value]
      BY <3>1 DEF Entries, Effects
    <3>5. e \in Entries /\ f \in Effects
      BY <3>1, <3>3 DEF Entries, Effects, Settings
    <3> HIDE DEF e, f
    <3> QED BY <3>1, <3>2, <3>4, <3>5, NoneAssumption DEF e, f, SameEffect
  <2> QED BY <2>1, <2>2
<1>7. CASE c.at = p /\ c.op = "bypass"
  <2>1. Fitted(chain, c)[p] = b
    BY <1>7 DEF Fitted
  <2>2. CASE a = None
    BY <1>7, <2>1, <2>2 DEF Recorded
  <2>3. CASE a # None
    <3>1. a \in Entries /\ Recorded(layout, c)[p] = [a EXCEPT !.bypassed = c.on]
      BY <1>1, <1>7, <2>3 DEF Recorded
    <3> DEFINE e == [a EXCEPT !.bypassed = c.on]
    <3>2. c.on \in BOOLEAN
      BY <1>7 DEF Commands
    <3> HIDE DEF a
    <3>3. e \in Entries /\ e.kind = a.kind /\ e.params = a.params
      BY <3>1, <3>2 DEF Entries
    <3>4. e # None
      <4> HIDE DEF e
      <4> QED BY <3>3, NoneAssumption
    <3> HIDE DEF e
    <3> QED BY <2>1, <2>3, <3>1, <3>3, <3>4 DEF a, e, SameEffect
  <2> QED BY <2>2, <2>3
<1> QED BY <1>2, <1>3, <1>4, <1>5, <1>6, <1>7

\* A call: refused by a full ring, or told to both sides.
LEMMA KnowsAfterAsk ==
    ASSUME NEW g \in PlayerStates, Len(g.ring) <= Capacity, HostKnows(g), NEW c \in Commands
    PROVE  HostKnows(Ask(g, c))
<1>1. CASE ~Room(g)
  BY <1>1 DEF Ask
<1>2. CASE Room(g)
  <2> DEFINE h == Ask(g, c)
             layout == g.layout
             chain == Drained(g).chain
  <2>1. h \in PlayerStates
    BY AskTypes
  <2>2. h.ring = Append(g.ring, c) /\ h.layout = Recorded(g.layout, c) /\ h.chain = g.chain
    BY <1>2 DEF Ask, PlayerStates
  <2>3. layout \in [Slots -> Entries \cup {None}] /\ chain \in [Places -> Effects \cup {None}]
    BY ChainSoFar DEF PlayerStates
  <2> HIDE DEF h
  <2>4. Drained(h).chain = Fitted(chain, c)
    BY <2>1, <2>2, DrainedAfterAsk
  <2>5. \A p \in Places : SameEffect(layout[p], chain[p])
    BY DEF HostKnows
  <2> HIDE DEF layout, chain
  <2>6. \A p \in Places : SameEffect(Recorded(layout, c)[p], Fitted(chain, c)[p])
    BY <2>3, <2>5, SameToBoth
  <2> QED BY <2>2, <2>4, <2>6 DEF HostKnows, layout, h
<1> QED BY <1>1, <1>2

\* The callback moves commands from the ring to the chain, and no more.
LEMMA KnowsAfterCallback ==
    ASSUME NEW g \in PlayerStates, Len(g.ring) <= Capacity, HostKnows(g), NEW h, CallbackStep(g, h)
    PROVE  HostKnows(h) /\ h.layout = g.layout
<1>1. h \in PlayerStates /\ g.ring \in Seq(Commands)
  BY CallbackTypes DEF PlayerStates
<1>2. CASE h = DrainBegin(g) \/ h = DrainEnd(g)
  <2>1. h.ring = g.ring /\ h.chain = g.chain /\ h.layout = g.layout
    BY <1>2 DEF DrainBegin, DrainEnd, PlayerStates
  <2>2. Drained(h).chain = Drained(g).chain
    BY <1>1, <2>1, DrainedAlike
  <2> QED BY <2>1, <2>2 DEF HostKnows
<1>3. CASE g.ring # <<>> /\ h = DrainOne(g)
  <2> DEFINE c == Head(g.ring)
             a == Apply(g, c)
  <2>1. c \in Commands
    BY <1>1, <1>3, HeadTailProperties
  <2>2. a \in PlayerStates /\ a.ring = g.ring /\ a.layout = g.layout /\ a.chain = Fitted(g.chain, c)
    BY <2>1, CommandTypes, AppliedToChain
  <2>3. h = [a EXCEPT !.ring = Tail(a.ring), !.left = a.left - 1]
    BY <1>3 DEF DrainOne
  <2> HIDE DEF a, c
  <2>4. h.ring = Tail(g.ring) /\ h.layout = g.layout /\ h.chain = Fitted(g.chain, c)
    BY <2>2, <2>3 DEF PlayerStates
  <2>5. Drained(h).chain = Drained(g).chain
    BY <1>1, <1>3, <2>4, DrainedAfterOne DEF c
  <2> QED BY <2>4, <2>5 DEF HostKnows
<1> QED BY <1>2, <1>3 DEF CallbackStep

\* A new player has nothing installed on either side.
LEMMA KnowsFresh == HostKnows(Fresh)
<1>1. Fresh \in PlayerStates /\ Fresh.ring = <<>> /\ Len(Fresh.ring) = 0
  BY FreshTypes, EmptySeq
<1> DEFINE u == [n \in 0 .. 0 |-> Fresh.chain]
<1>2. u[0] = Fresh.chain
  OBVIOUS
<1> HIDE DEF u
<1>3. Drained(Fresh).chain = Fresh.chain
  BY <1>1, <1>2, DrainedIs DEF Fits
<1>4. \A p \in Places : Fresh.layout[p] = None /\ Fresh.chain[p] = None
  BY DEF Fresh, Slots
<1> QED BY <1>3, <1>4 DEF HostKnows, SameEffect

-----------------------------------------------------------------------------
(* 3. Rebuilds *)

\* What a rebuild still has to say completes what it has said to the old layout.
Retold == rebuilt # None => Told(rebuilt.layout, replay) = player.layout

\* What is inductive: the types, both players' two sides, and what is left of the replay.
IInv == TypeOK /\ HostKnows(player) /\ (rebuilt # None => HostKnows(rebuilt)) /\ Retold

\* A call of the user.
LEMMA CallStep ==
    ASSUME IInv, NEW c \in Commands, Call(c)
    PROVE  IInv'
<1>1. player' \in PlayerStates /\ Len(player'.ring) <= Capacity
  BY AskTypes DEF IInv, TypeOK, Call
<1>2. HostKnows(player')
  BY KnowsAfterAsk DEF IInv, TypeOK, Call
<1>3. calls' \in 0 .. MaxCalls
  BY BoundAssumption DEF IInv, TypeOK, Call
<1> QED BY <1>1, <1>2, <1>3 DEF IInv, TypeOK, Call, Retold

\* The beginning of a rebuild: everything is still to be said.
LEMMA OpenStep ==
    ASSUME IInv, RebuildOpen
    PROVE  IInv' /\ player'.layout = player.layout
<1>1. player \in PlayerStates /\ player.layout \in [Slots -> Entries \cup {None}]
  BY DEF IInv, TypeOK, PlayerStates
<1>2. replay' \in Seq(Commands) /\ Told(Fresh.layout, replay') = player.layout
  BY <1>1, LayoutTold DEF RebuildOpen
<1> DEFINE on == player.called /\ realm = "threads"
<1>3. on \in BOOLEAN
  BY <1>1 DEF PlayerStates
<1>4. player' = [player EXCEPT !.called = on]
  BY DEF RebuildOpen
<1> HIDE DEF on
<1>5. /\ player' \in PlayerStates /\ player'.layout = player.layout
      /\ player'.ring = player.ring /\ player'.chain = player.chain
  BY <1>1, <1>3, <1>4 DEF PlayerStates
<1>6. Drained(player').chain = Drained(player).chain
  BY <1>1, <1>5, DrainedAlike
<1>7. HostKnows(player')
  BY <1>5, <1>6 DEF IInv, HostKnows
<1>8. Fresh \in PlayerStates /\ Len(Fresh.ring) <= Capacity /\ HostKnows(Fresh) /\ rebuilt' = Fresh
  BY FreshTypes, KnowsFresh DEF RebuildOpen
<1>9. TypeOK'
  <2>1. rebuilds' \in 0 .. MaxRebuilds
    BY BoundAssumption DEF IInv, TypeOK, RebuildOpen
  <2> QED BY <1>2, <1>5, <1>8, <2>1 DEF IInv, TypeOK, RebuildOpen
<1> QED BY <1>2, <1>5, <1>7, <1>8, <1>9 DEF IInv, Retold

\* The next thing is said, to a ring that has room for it.
LEMMA TellStep ==
    ASSUME IInv, RebuildTell
    PROVE  IInv' /\ player' = player
<1>1. /\ rebuilt \in PlayerStates /\ Len(rebuilt.ring) <= Capacity /\ HostKnows(rebuilt)
      /\ replay \in Seq(Commands) /\ replay # <<>> /\ Room(rebuilt)
  BY DEF IInv, TypeOK, RebuildTell
<1> DEFINE c == Head(replay)
           rest == Tail(replay)
<1>2. c \in Commands /\ rest \in Seq(Commands) /\ replay = <<c>> \o rest /\ <<c>> \in Seq(Commands)
  BY <1>1, HeadTailProperties
<1>3. /\ player' = player /\ rebuilt' = Ask(rebuilt, c) /\ replay' = rest
      /\ UNCHANGED <<realm, calls, rebuilds>>
  BY DEF RebuildTell
<1> HIDE DEF c, rest
<1>4. Ask(rebuilt, c) \in PlayerStates /\ Len(Ask(rebuilt, c).ring) <= Capacity /\ HostKnows(Ask(rebuilt, c))
  BY <1>1, <1>2, AskTypes, KnowsAfterAsk
<1>5. Ask(rebuilt, c).layout = Recorded(rebuilt.layout, c)
  BY <1>1 DEF Ask, PlayerStates
<1>6. Told(Recorded(rebuilt.layout, c), rest) = Told(rebuilt.layout, replay)
  <2>1. Told(rebuilt.layout, <<c>> \o rest) = Told(Told(rebuilt.layout, <<c>>), rest)
    BY <1>2, ToldBoth
  <2>2. Told(rebuilt.layout, <<c>>) = Recorded(rebuilt.layout, c)
    BY <1>2, ToldOne
  <2> QED BY <1>2, <2>1, <2>2
<1>7. Told(rebuilt.layout, replay) = player.layout
  BY DEF IInv, Retold, RebuildTell
<1>8. TypeOK'
  BY <1>2, <1>3, <1>4 DEF IInv, TypeOK
<1>9. Retold'
  BY <1>3, <1>5, <1>6, <1>7 DEF Retold
<1> QED BY <1>3, <1>4, <1>8, <1>9 DEF IInv

\* The end of a rebuild: nothing is left to be said.
LEMMA EndStep ==
    ASSUME IInv, RebuildFails \/ RebuildDone
    PROVE  IInv' /\ player'.layout = player.layout
<1>1. <<>> \in Seq(Commands)
  BY EmptySeq
<1>2. CASE RebuildFails
  BY <1>1, <1>2 DEF IInv, TypeOK, Retold, RebuildFails
<1>3. CASE RebuildDone
  <2>1. rebuilt # None /\ replay = <<>> /\ player' = rebuilt /\ rebuilt' = None /\ replay' = replay
    BY <1>3 DEF RebuildDone
  <2>2. rebuilt.layout = player.layout
    BY <2>1, ToldNothing DEF IInv, Retold
  <2> QED BY <1>3, <2>1, <2>2 DEF IInv, TypeOK, Retold, RebuildDone
<1> QED BY <1>2, <1>3

\* The callbacks, of the player and of the one being built.
LEMMA CallbackSteps ==
    ASSUME IInv, Callback \/ NewCallback
    PROVE  IInv' /\ player'.layout = player.layout
<1>1. CASE Callback
  <2>1. player' \in PlayerStates /\ Len(player'.ring) <= Capacity
    BY <1>1, CallbackTypes DEF IInv, TypeOK, Callback
  <2>2. HostKnows(player') /\ player'.layout = player.layout
    BY <1>1, KnowsAfterCallback DEF IInv, TypeOK, Callback
  <2> QED BY <1>1, <2>1, <2>2 DEF IInv, TypeOK, Retold, Callback
<1>2. CASE NewCallback
  <2>1. rebuilt # None /\ rebuilt \in PlayerStates /\ Len(rebuilt.ring) <= Capacity /\ HostKnows(rebuilt)
    BY <1>2 DEF IInv, TypeOK, NewCallback
  <2>2. rebuilt' \in PlayerStates /\ Len(rebuilt'.ring) <= Capacity
    BY <1>2, <2>1, CallbackTypes DEF NewCallback
  <2>3. HostKnows(rebuilt') /\ rebuilt'.layout = rebuilt.layout
    BY <1>2, <2>1, KnowsAfterCallback DEF NewCallback
  <2> QED BY <1>2, <2>1, <2>2, <2>3 DEF IInv, TypeOK, Retold, NewCallback
<1> QED BY <1>1, <1>2

-----------------------------------------------------------------------------
(* The theorems *)

\* The rings stay within their capacity, the two sides of each player agree, and a rebuild
\* never forgets what it still has to say.
THEOREM InsertInvariant == Spec => []IInv
<1>1. Init => IInv
  <2> SUFFICES ASSUME Init PROVE IInv
    OBVIOUS
  <2>1. <<>> \in Seq(Commands)
    BY EmptySeq
  <2> QED BY <2>1, FreshTypes, KnowsFresh, BoundAssumption DEF Init, IInv, TypeOK, Retold
<1>2. IInv /\ [Next]_vars => IInv'
  <2>1. IInv /\ Next => IInv'
    BY CallStep, OpenStep, TellStep, EndStep, CallbackSteps DEF Next, Control
  <2>2. IInv /\ UNCHANGED vars => IInv'
    BY DEF IInv, TypeOK, Retold, vars
  <2> QED BY <2>1, <2>2
<1> QED BY <1>1, <1>2, PTL DEF Spec

\* The host's record of every slot is what the engine comes to, whatever was refused and
\* however far the drain is (InsertLayout, Engine::apply_insert_command).
THEOREM TheHostKnows == Spec => []HostKnowsTheGraph
<1>1. IInv => HostKnowsTheGraph
  BY DEF IInv, HostKnows, HostKnowsTheGraph, Players
<1> QED BY <1>1, InsertInvariant, PTL

\* Only a call of the user changes what is installed (Player::rebuild).
THEOREM RebuildsKeepTheLayout == Spec => RebuildKeepsTheLayout
<1>1. IInv /\ [Next]_vars => [player.layout' # player.layout => calls' # calls]_vars
  <2> SUFFICES ASSUME IInv, [Next]_vars, player.layout' # player.layout PROVE calls' # calls
    OBVIOUS
  <2>1. player'.layout # player.layout
    OBVIOUS
  <2>2. PICK c \in Commands : Call(c)
    BY <2>1, OpenStep, TellStep, EndStep, CallbackSteps DEF Next, Control, vars
  <2> QED BY <2>2 DEF Call, IInv, TypeOK
<1> QED BY <1>1, InsertInvariant, PTL DEF Spec, RebuildKeepsTheLayout
=============================================================================
