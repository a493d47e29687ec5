----------------------------- MODULE Voices_proofs -----------------------------
(***************************************************************************)
(* Theorems about Voices, for every set of lanes and notes, every budget   *)
(* and pool, with and without ownership records.                           *)
(*                                                                         *)
(*   1. What a release does to the handles.                                *)
(*   2. The invariant, part of which (Good) holds also in the middle of a  *)
(*      step.                                                              *)
(*   3. What each operation makes of a state of which that holds.          *)
(*   4. The steps, and what follows from the invariant.                    *)
(*   5. The voices of the song and those of the live rack, which a step    *)
(*      never changes together.                                            *)
(***************************************************************************)
EXTENDS Voices, SequenceTheorems, FiniteSetTheorems, WellFoundedInduction, TLAPS

USE HandleAssumption, LanesAssumption

-----------------------------------------------------------------------------
(* Small numbers *)

\* What holds at the beginning, and one place on wherever it holds, holds to the end.
LEMMA Onwards ==
    ASSUME NEW k \in Nat, NEW S, 0 \in S, \A n \in 0 .. k : n \in S /\ n # k => n + 1 \in S
    PROVE  k \in S
<1> DEFINE T == {n \in 0 .. k : n \notin S}
           R == OpToRel(<, Nat)
<1>1. CASE T = {}
  BY <1>1
<1>2. CASE T # {}
  <2>1. IsWellFoundedOn(R, Nat)
    BY NatLessThanWellFounded
  <2>2. PICK m \in T : \A n \in T : ~(<<n, m>> \in R)
    <3>1. T \subseteq Nat
      OBVIOUS
    <3> HIDE DEF T, R
    <3> QED BY <1>2, <2>1, <3>1, WFMin
  <2>3. m \in Nat /\ m # 0 /\ m <= k /\ m \notin S
    OBVIOUS
  <2>4. m - 1 \in Nat /\ m - 1 < m /\ m - 1 \in 0 .. k /\ m - 1 # k
    BY <2>3
  <2>5. m - 1 \notin T
    <3> DEFINE n == m - 1
    <3>1. n \in Nat /\ n < m
      BY <2>4
    <3> HIDE DEF n
    <3>2. <<n, m>> \in R
      BY <2>3, <3>1 DEF OpToRel
    <3>3. n \notin T
      BY <2>2, <3>2
    <3> QED BY <3>3 DEF n
  <2>6. (m - 1) + 1 \in S
    BY <2>4, <2>5
  <2> QED BY <2>3, <2>6
<1> QED BY <1>1, <1>2

\* The smallest of some numbers is one of them.
LEMMA MinOfSome ==
    ASSUME NEW S, S \subseteq Nat, S # {}
    PROVE  Min(S) \in S
<1> DEFINE R == OpToRel(<, Nat)
<1>1. IsWellFoundedOn(R, Nat)
  BY NatLessThanWellFounded
<1>2. PICK m \in S : \A n \in S : ~(<<n, m>> \in R)
  <2> HIDE DEF R
  <2> QED BY <1>1, WFMin
<1>3. \A n \in S : m <= n
  <2> SUFFICES ASSUME NEW n \in S, ~(m <= n) PROVE FALSE
    OBVIOUS
  <2>1. m \in Nat /\ n \in Nat /\ n < m
    OBVIOUS
  <2> QED BY <1>2, <2>1 DEF OpToRel
<1> QED BY <1>3 DEF Min

-----------------------------------------------------------------------------
(* 1. Releases *)

\* How many of some voices come before one.
Before(gone, v) == {w \in gone : w < v}

\* What is left of the voices so far.
LEMMA LeftSoFar ==
    ASSUME NEW s, s.voice \in Seq(VoiceRecords), NEW gone
    PROVE  \E f : /\ f[0] = <<>> /\ Left(s, gone) = f[Len(s.voice)]
                  /\ \A v \in Sounding(s) :
                       f[v] = IF v \in gone THEN f[v - 1] ELSE Append(f[v - 1], s.voice[v])
<1> DEFINE Next1(q, v) == IF v \in gone THEN q ELSE Append(q, s.voice[v])
           Fold(f, k) == f = [v \in 0 .. k |-> IF v = 0 THEN <<>> ELSE IF v \in gone THEN f[v - 1]
                                               ELSE Append(f[v - 1], s.voice[v])]
           S == {k \in Nat : \E f : Fold(f, k)}
<1>1. Len(s.voice) \in Nat /\ Sounding(s) = 1 .. Len(s.voice)
  BY LenProperties DEF Sounding
<1>2. 0 \in S
  <2> DEFINE f == [v \in 0 .. 0 |-> <<>>]
  <2>1. Fold(f, 0)
    OBVIOUS
  <2> QED BY <2>1
<1>3. ASSUME NEW k \in Nat, k \in S PROVE k + 1 \in S
  <2>1. PICK f : Fold(f, k)
    BY <1>3
  <2> DEFINE g == [v \in 0 .. k + 1 |-> IF v = k + 1 THEN Next1(f[k], k + 1) ELSE f[v]]
             body(v) == IF v = 0 THEN <<>> ELSE IF v \in gone THEN g[v - 1]
                        ELSE Append(g[v - 1], s.voice[v])
  <2>2. ASSUME NEW v \in 0 .. k + 1 PROVE g[v] = body(v)
    <3>1. CASE v = k + 1
      BY <3>1
    <3>2. CASE v \in 0 .. k
      <4>1. f[v] = IF v = 0 THEN <<>> ELSE IF v \in gone THEN f[v - 1] ELSE Append(f[v - 1], s.voice[v])
        BY <2>1, <3>2
      <4> QED BY <3>2, <4>1
    <3> QED BY <2>2, <3>1, <3>2
  <2>3. g = [v \in 0 .. k + 1 |-> g[v]]
    OBVIOUS
  <2>4. Fold(g, k + 1)
    <3> HIDE DEF g, body
    <3>1. g = [v \in 0 .. k + 1 |-> body(v)]
      BY <2>2, <2>3
    <3> QED BY <3>1 DEF body
  <2> HIDE DEF g, Fold
  <2> QED BY <2>4
<1>4. Len(s.voice) \in S
  <2> HIDE DEF S
  <2> QED BY <1>1, <1>2, <1>3, Onwards
<1> DEFINE f == CHOOSE f : Fold(f, Len(s.voice))
<1>5. Fold(f, Len(s.voice))
  BY <1>4
<1>6. Left(s, gone) = f[Len(s.voice)]
  BY DEF Left
<1> HIDE DEF f
<1>7. f[0] = <<>>
  BY <1>1, <1>5
<1>8. \A v \in Sounding(s) : f[v] = IF v \in gone THEN f[v - 1] ELSE Append(f[v - 1], s.voice[v])
  <2> SUFFICES ASSUME NEW v \in Sounding(s)
               PROVE  f[v] = IF v \in gone THEN f[v - 1] ELSE Append(f[v - 1], s.voice[v])
    OBVIOUS
  <2>1. v \in 0 .. Len(s.voice) /\ v # 0
    BY <1>1
  <2> QED BY <1>5, <2>1
<1> QED BY <1>6, <1>7, <1>8

\* Where each voice that is left goes: one place down for each older voice that is gone.
LEMMA LeftPlaces ==
    ASSUME NEW s, s.voice \in Seq(VoiceRecords), NEW gone \in SUBSET Sounding(s),
           NEW place, \A v \in Sounding(s) : place[v] = v - Cardinality(Before(gone, v))
    PROVE  /\ Left(s, gone) \in Seq(VoiceRecords) /\ Len(Left(s, gone)) <= Len(s.voice)
           /\ Len(Left(s, gone)) = Len(s.voice) - Cardinality(Before(gone, Len(s.voice) + 1))
           /\ \A v \in Sounding(s) \ gone :
                place[v] \in 1 .. Len(Left(s, gone)) /\ Left(s, gone)[place[v]] = s.voice[v]
           /\ \A j \in 1 .. Len(Left(s, gone)) : \E v \in Sounding(s) \ gone : place[v] = j
           /\ \A v, w \in Sounding(s) \ gone : place[v] = place[w] => v = w
<1> DEFINE n == Len(s.voice)
<1>1. n \in Nat /\ Sounding(s) = 1 .. n
  BY LenProperties DEF Sounding
<1>2. PICK f : /\ f[0] = <<>> /\ Left(s, gone) = f[n]
               /\ \A v \in Sounding(s) :
                    f[v] = IF v \in gone THEN f[v - 1] ELSE Append(f[v - 1], s.voice[v])
  BY LeftSoFar
<1>3. \A v \in Nat : IsFiniteSet(Before(gone, v)) /\ Cardinality(Before(gone, v)) \in Nat
  <2> TAKE v \in Nat
  <2>1. IsFiniteSet(gone)
    <3>1. IsFiniteSet(1 .. n)
      <4>1. 1 \in Int /\ n \in Int
        BY <1>1
      <4> HIDE DEF n
      <4> QED BY <4>1, FS_Interval
    <3>2. gone \in SUBSET (1 .. n)
      BY <1>1
    <3> HIDE DEF n
    <3> QED BY <3>1, <3>2, FS_Subset
  <2>2. Before(gone, v) \in SUBSET gone
    BY DEF Before
  <2> QED BY <2>1, <2>2, FS_Subset, FS_CardinalityType
<1>4. \A v \in Sounding(s) :
        Cardinality(Before(gone, v + 1)) = IF v \in gone THEN Cardinality(Before(gone, v)) + 1
                                           ELSE Cardinality(Before(gone, v))
  <2> TAKE v \in Sounding(s)
  <2>1. CASE v \in gone
    <3>1. Before(gone, v + 1) = Before(gone, v) \cup {v} /\ v \notin Before(gone, v)
      BY <1>1, <2>1 DEF Before
    <3>2. IsFiniteSet(Before(gone, v)) /\ v \in Nat
      BY <1>1, <1>3
    <3>3. Cardinality(Before(gone, v) \cup {v}) = Cardinality(Before(gone, v)) + 1
      BY <3>1, <3>2, FS_AddElement
    <3> QED BY <2>1, <3>1, <3>3
  <2>2. CASE v \notin gone
    <3>1. Before(gone, v + 1) = Before(gone, v)
      BY <1>1, <2>2 DEF Before
    <3> QED BY <2>2, <3>1
  <2> QED BY <2>1, <2>2
<1> DEFINE Placed(k) ==
             /\ f[k] \in Seq(VoiceRecords) /\ Len(f[k]) = k - Cardinality(Before(gone, k + 1))
             /\ \A v \in (1 .. k) \ gone : place[v] \in 1 .. Len(f[k]) /\ f[k][place[v]] = s.voice[v]
             /\ \A j \in 1 .. Len(f[k]) : \E v \in (1 .. k) \ gone : place[v] = j
             /\ \A v, w \in (1 .. k) \ gone : place[v] = place[w] => v = w
           S == {k \in 0 .. n : Placed(k)}
<1>5. 0 \in S
  <2>1. Before(gone, 1) = {}
    BY <1>1 DEF Before
  <2>2. f[0] = <<>> /\ f[0] \in Seq(VoiceRecords) /\ Len(f[0]) = 0
    BY <1>2, EmptySeq
  <2>3. Cardinality(Before(gone, 0 + 1)) = 0
    <3>1. Cardinality(Before(gone, 1)) = 0
      BY <2>1, FS_EmptySet
    <3> QED BY <3>1
  <2>4. Placed(0)
    BY <2>2, <2>3
  <2> QED BY <1>1, <2>4
<1>6. ASSUME NEW k \in 0 .. n, k \in S, k # n PROVE k + 1 \in S
  <2> DEFINE v == k + 1
             q == f[k]
  <2>1. v \in Sounding(s) /\ v \in 0 .. n /\ v - 1 = k /\ k \in Nat
    BY <1>1, <1>6
  <2>2. Placed(k)
    BY <1>6
  <2>3. 1 .. v = (1 .. k) \cup {v} /\ v \notin 1 .. k
    BY <2>1
  <2>4. f[v] = IF v \in gone THEN q ELSE Append(q, s.voice[v])
    BY <1>2, <2>1
  <2>5. Len(q) = k - Cardinality(Before(gone, v)) /\ Cardinality(Before(gone, v)) \in Nat
    BY <1>3, <2>1, <2>2
  <2>6. CASE v \in gone
    <3>1. (1 .. v) \ gone = (1 .. k) \ gone /\ f[v] = q
      BY <2>3, <2>4, <2>6
    <3>2. Len(f[v]) = v - Cardinality(Before(gone, v + 1))
      BY <1>4, <2>1, <2>5, <2>6, <3>1
    <3>3. Placed(v)
      BY <2>2, <3>1, <3>2
    <3> QED BY <2>1, <3>3
  <2>7. CASE v \notin gone
    <3>1. /\ f[v] \in Seq(VoiceRecords) /\ Len(f[v]) = Len(q) + 1 /\ Len(q) \in Nat
          /\ \A j \in 1 .. Len(q) : f[v][j] = q[j]
          /\ f[v][Len(q) + 1] = s.voice[v]
      <4>1. s.voice[v] \in VoiceRecords /\ q \in Seq(VoiceRecords) /\ f[v] = Append(q, s.voice[v])
        BY <1>1, <2>1, <2>2, <2>4, <2>7, ElementOfSeq
      <4> HIDE DEF q, v
      <4> QED BY <4>1, AppendProperties, LenProperties
    <3>2. Len(f[v]) = v - Cardinality(Before(gone, v + 1))
      BY <1>4, <2>1, <2>5, <2>7, <3>1
    <3>3. place[v] = Len(q) + 1
      BY <2>1, <2>5
    <3>4. (1 .. v) \ gone = ((1 .. k) \ gone) \cup {v}
      BY <2>3, <2>7
    <3>5. \A u \in (1 .. k) \ gone : place[u] \in 1 .. Len(q) /\ q[place[u]] = s.voice[u]
      BY <2>2
    <3>6. \A j \in 1 .. Len(q) : \E u \in (1 .. k) \ gone : place[u] = j
      BY <2>2
    <3>7. \A u, w \in (1 .. k) \ gone : place[u] = place[w] => u = w
      BY <2>2
    <3> HIDE DEF q, v
    <3> DEFINE K == (1 .. k) \ gone
    <3>12. (1 .. v) \ gone = K \cup {v}
      BY <3>4
    <3>13. 1 .. Len(f[v]) = (1 .. Len(q)) \cup {Len(q) + 1} /\ Len(q) + 1 \notin 1 .. Len(q)
      BY <3>1
    <3> HIDE DEF K
    <3>14. \A u \in K \cup {v} : place[u] \in 1 .. Len(f[v]) /\ f[v][place[u]] = s.voice[u]
      BY <3>1, <3>3, <3>5, <3>13 DEF K
    <3>8. \A u \in (1 .. v) \ gone : place[u] \in 1 .. Len(f[v]) /\ f[v][place[u]] = s.voice[u]
      BY <3>12, <3>14
    <3>15. \A j \in 1 .. Len(f[v]) : \E u \in K \cup {v} : place[u] = j
      BY <3>3, <3>6, <3>13 DEF K
    <3>9. \A j \in 1 .. Len(f[v]) : \E u \in (1 .. v) \ gone : place[u] = j
      BY <3>12, <3>15
    <3>16. \A u, w \in K \cup {v} : place[u] = place[w] => u = w
      <4>1. \A u \in K : place[u] # place[v]
        BY <3>3, <3>5, <3>13 DEF K
      <4>2. \A u, w \in K : place[u] = place[w] => u = w
        BY <3>7 DEF K
      <4> QED BY <4>1, <4>2
    <3>10. \A u, w \in (1 .. v) \ gone : place[u] = place[w] => u = w
      BY <3>12, <3>16
    <3>11. Placed(v)
      BY <3>1, <3>2, <3>8, <3>9, <3>10
    <3> QED BY <2>1, <3>11 DEF v
  <2> QED BY <2>6, <2>7
<1>7. n \in S
  <2> HIDE DEF S, n
  <2> QED BY <1>1, <1>5, <1>6, Onwards
<1>8. Placed(n)
  BY <1>7
<1>9. Len(f[n]) <= n
  <2>1. Cardinality(Before(gone, n + 1)) \in Nat
    BY <1>1, <1>3
  <2> HIDE DEF n
  <2> QED BY <1>1, <1>8, <2>1
<1> QED BY <1>1, <1>2, <1>8, <1>9

-----------------------------------------------------------------------------
(* Handles, and states that differ in which voices are left *)

States ==
  [voice : Seq(VoiceRecords), lane : [Lanes -> Nat \cup {None, Stale}],
   chan : [SongLanes -> Nat \cup {None}], refused : BOOLEAN]

\* Handles are of voices that there are.
Typed(s) ==
  /\ s \in States
  /\ \A l \in Lanes : s.lane[l] \in Sounding(s) \cup {None, Stale}
  /\ \A l \in SongLanes : s.chan[l] \in Sounding(s) \cup {None}

\* The second state is the first without some voices, and m says where the others went.
Moves(s, r, gone, m) ==
  /\ m \in [Sounding(s) \ gone -> Sounding(r)]
  /\ \A v \in Sounding(s) \ gone : r.voice[m[v]] = s.voice[v]
  /\ \A j \in Sounding(r) : \E v \in Sounding(s) \ gone : m[v] = j
  /\ \A v, w \in Sounding(s) \ gone : m[v] = m[w] => v = w
  /\ \A l \in Lanes : r.lane[l] = IF s.lane[l] \in gone THEN Stale
                                  ELSE IF s.lane[l] \in Sounding(s) THEN m[s.lane[l]] ELSE s.lane[l]
  /\ \A l \in SongLanes : r.chan[l] = IF s.chan[l] \in gone THEN None
                                      ELSE IF s.chan[l] \in Sounding(s) THEN m[s.chan[l]] ELSE s.chan[l]
  /\ r.refused = s.refused /\ Len(r.voice) <= Len(s.voice)

\* What a typed state consists of.
LEMMA TypedParts ==
    ASSUME NEW s, Typed(s)
    PROVE  /\ s.voice \in Seq(VoiceRecords) /\ Len(s.voice) \in Nat
           /\ Sounding(s) = 1 .. Len(s.voice) /\ Sounding(s) \subseteq Nat
           /\ None \notin Sounding(s) /\ Stale \notin Sounding(s)
           /\ \A v \in Sounding(s) : s.voice[v] \in VoiceRecords
           /\ s.lane \in [Lanes -> Sounding(s) \cup {None, Stale}]
           /\ s.chan \in [SongLanes -> Sounding(s) \cup {None}]
           /\ s.refused \in BOOLEAN
<1>1. s.voice \in Seq(VoiceRecords) /\ s.refused \in BOOLEAN
  BY DEF Typed, States
<1>2. /\ Len(s.voice) \in Nat /\ Sounding(s) = 1 .. Len(s.voice)
      /\ \A v \in Sounding(s) : s.voice[v] \in VoiceRecords
  BY <1>1, LenProperties, ElementOfSeq DEF Sounding
<1>3. Sounding(s) \subseteq Nat /\ None \notin Sounding(s) /\ Stale \notin Sounding(s)
  BY <1>2
<1>4. s.lane \in [Lanes -> Nat \cup {None, Stale}] /\ s.chan \in [SongLanes -> Nat \cup {None}]
  BY DEF Typed, States
<1>5. s.lane \in [Lanes -> Sounding(s) \cup {None, Stale}]
  BY <1>4 DEF Typed
<1>6. s.chan \in [SongLanes -> Sounding(s) \cup {None}]
  BY <1>4 DEF Typed
<1> QED BY <1>1, <1>2, <1>3, <1>5, <1>6

\* A release takes the voices out and moves the handles of the others.
LEMMA ReleaseMoves ==
    ASSUME NEW s, Typed(s), NEW gone, gone \subseteq Sounding(s) \/ gone \cap Sounding(s) = {}
    PROVE  /\ Typed(Release(s, gone))
           /\ \E m : Moves(s, Release(s, gone), gone \cap Sounding(s), m)
<1> DEFINE r == Release(s, gone)
<1>1. /\ s.voice \in Seq(VoiceRecords) /\ Len(s.voice) \in Nat
      /\ Sounding(s) = 1 .. Len(s.voice) /\ Sounding(s) \subseteq Nat
      /\ None \notin Sounding(s) /\ Stale \notin Sounding(s)
      /\ s.lane \in [Lanes -> Sounding(s) \cup {None, Stale}]
      /\ s.chan \in [SongLanes -> Sounding(s) \cup {None}] /\ s.refused \in BOOLEAN
  BY TypedParts
<1>2. CASE gone \cap Sounding(s) = {}
  <2>1. r = s
    BY <1>2 DEF Release
  <2> DEFINE m == [v \in Sounding(s) |-> v]
  <2>2. Moves(s, s, {}, m)
    BY <1>1 DEF Moves
  <2> QED BY <1>2, <2>1, <2>2
<1>3. CASE gone \subseteq Sounding(s) /\ gone \cap Sounding(s) # {}
  <2> DEFINE place == [v \in Sounding(s) |-> v - Cardinality(Before(gone, v))]
             q == Left(s, gone)
             kept == Sounding(s) \ gone
  <2>1. /\ q \in Seq(VoiceRecords) /\ Len(q) <= Len(s.voice)
        /\ \A v \in kept : place[v] \in 1 .. Len(q) /\ q[place[v]] = s.voice[v]
        /\ \A j \in 1 .. Len(q) : \E v \in kept : place[v] = j
        /\ \A v, w \in kept : place[v] = place[w] => v = w
    <3> HIDE DEF place
    <3>1. \A v \in Sounding(s) : place[v] = v - Cardinality(Before(gone, v))
      BY DEF place
    <3>2. s.voice \in Seq(VoiceRecords) /\ gone \in SUBSET Sounding(s)
      BY <1>1, <1>3
    <3> HIDE DEF kept
    <3>3. /\ q \in Seq(VoiceRecords) /\ Len(q) <= Len(s.voice)
          /\ \A v \in Sounding(s) \ gone : place[v] \in 1 .. Len(q) /\ q[place[v]] = s.voice[v]
          /\ \A j \in 1 .. Len(q) : \E v \in Sounding(s) \ gone : place[v] = j
          /\ \A v, w \in Sounding(s) \ gone : place[v] = place[w] => v = w
      BY <3>1, <3>2, LeftPlaces
    <3> QED BY <3>3 DEF kept
  <2> DEFINE Where(h, lost) == IF h \in gone THEN lost ELSE IF h \in Sounding(s) THEN place[h] ELSE h
             lanes == [l \in Lanes |-> Where(s.lane[l], Stale)]
             chans == [l \in SongLanes |-> Where(s.chan[l], None)]
  <2>2. r = [s EXCEPT !.voice = q, !.lane = lanes, !.chan = chans]
    BY <1>3 DEF Release, Before
  <2>3. Len(q) \in Nat /\ DOMAIN q = 1 .. Len(q)
    BY <2>1, LenProperties
  <2>4. /\ lanes \in [Lanes -> (1 .. Len(q)) \cup {None, Stale}]
        /\ chans \in [SongLanes -> (1 .. Len(q)) \cup {None}]
    <3> HIDE DEF place, q
    <3>1. \A v \in kept : place[v] \in 1 .. Len(q)
      BY <2>1
    <3> QED BY <1>1, <3>1
  <2>5. \A h \in Sounding(s) \ gone : place[h] \in 1 .. Len(q)
    BY <2>1
  <2> HIDE DEF place, q, lanes, chans
  <2>6. /\ r.voice = q /\ r.lane = lanes /\ r.chan = chans /\ r.refused = s.refused
        /\ r \in [voice : Seq(VoiceRecords), lane : [Lanes -> (1 .. Len(q)) \cup {None, Stale}],
                  chan : [SongLanes -> (1 .. Len(q)) \cup {None}], refused : BOOLEAN]
    <3> HIDE DEF r
    <3>1. s \in States
      BY DEF Typed
    <3>2. r.voice = q /\ r.lane = lanes /\ r.chan = chans /\ r.refused = s.refused
      BY <2>2, <3>1 DEF States
    <3>3. r = [voice |-> q, lane |-> lanes, chan |-> chans, refused |-> s.refused]
      BY <2>2, <3>1 DEF States
    <3> QED BY <1>1, <2>1, <2>4, <3>2, <3>3
  <2> HIDE DEF r
  <2>7. Sounding(r) = 1 .. Len(q)
    BY <2>3, <2>6 DEF Sounding
  <2>8. Typed(r)
    <3>1. r \in States
      BY <2>3, <2>6 DEF States
    <3> QED BY <2>6, <2>7, <3>1 DEF Typed
  <2> DEFINE m == [v \in kept |-> place[v]]
  <2>9. /\ \A l \in Lanes : r.lane[l] = IF s.lane[l] \in gone THEN Stale
                                        ELSE IF s.lane[l] \in Sounding(s) THEN m[s.lane[l]] ELSE s.lane[l]
        /\ \A l \in SongLanes : r.chan[l] = IF s.chan[l] \in gone THEN None
                                            ELSE IF s.chan[l] \in Sounding(s) THEN m[s.chan[l]] ELSE s.chan[l]
    BY <2>6 DEF lanes, chans
  <2>10. Moves(s, r, gone, m)
    <3>1. m \in [kept -> Sounding(r)]
      BY <2>1, <2>7
    <3>2. \A v \in kept : r.voice[m[v]] = s.voice[v]
      BY <2>1, <2>6
    <3>3. \A j \in Sounding(r) : \E v \in kept : m[v] = j
      BY <2>1, <2>7
    <3>4. \A v, w \in kept : m[v] = m[w] => v = w
      BY <2>1
    <3> QED BY <2>1, <2>6, <2>9, <3>1, <3>2, <3>3, <3>4 DEF Moves
  <2>11. gone \cap Sounding(s) = gone
    BY <1>3
  <2> QED BY <2>8, <2>10, <2>11 DEF r
<1> QED BY <1>2, <1>3

-----------------------------------------------------------------------------
(* Voices that change where they are *)

\* The same voices, some of them changed.
LEMMA Changes ==
    ASSUME NEW s, Typed(s), NEW f \in [Sounding(s) -> VoiceRecords]
    PROVE  LET r == [s EXCEPT !.voice = f] IN
           /\ Typed(r) /\ Sounding(r) = Sounding(s) /\ Len(r.voice) = Len(s.voice)
           /\ r.voice = f /\ r.lane = s.lane /\ r.chan = s.chan /\ r.refused = s.refused
<1> DEFINE r == [s EXCEPT !.voice = f]
<1>1. /\ Len(s.voice) \in Nat /\ Sounding(s) = 1 .. Len(s.voice) /\ s \in States
  BY TypedParts DEF Typed
<1>2. f \in Seq(VoiceRecords) /\ Len(f) = Len(s.voice) /\ DOMAIN f = Sounding(s)
  <2> HIDE DEF VoiceRecords
  <2>1. f \in [1 .. Len(s.voice) -> VoiceRecords]
    BY <1>1
  <2>2. f \in Seq(VoiceRecords)
    BY <1>1, <2>1, SeqDef
  <2>3. DOMAIN f = 1 .. Len(s.voice)
    BY <2>1
  <2>4. Len(f) = Len(s.voice)
    BY <1>1, <2>2, <2>3, LenProperties
  <2> QED BY <1>1, <2>2, <2>3, <2>4
<1>3. /\ r \in States /\ r.voice = f /\ r.lane = s.lane /\ r.chan = s.chan /\ r.refused = s.refused
  BY <1>1, <1>2 DEF States
<1> HIDE DEF r
<1>4. Sounding(r) = Sounding(s)
  BY <1>2, <1>3 DEF Sounding
<1>5. Typed(r)
  BY <1>3, <1>4 DEF Typed
<1> QED BY <1>2, <1>3, <1>4, <1>5 DEF r

\* Other handles of the same voices.
LEMMA LaneHandles ==
    ASSUME NEW s, Typed(s), NEW h \in [Lanes -> Sounding(s) \cup {None, Stale}], NEW r, r = [s EXCEPT !.lane = h]
    PROVE  /\ Typed(r) /\ Sounding(r) = Sounding(s)
           /\ r.voice = s.voice /\ r.lane = h /\ r.chan = s.chan /\ r.refused = s.refused
<1>1. s \in States /\ Sounding(s) \subseteq Nat
  BY TypedParts DEF Typed
<1>2. r \in States /\ r.voice = s.voice /\ r.lane = h /\ r.chan = s.chan /\ r.refused = s.refused
  BY <1>1 DEF States
<1>3. Sounding(r) = Sounding(s)
  BY <1>2 DEF Sounding
<1>4. Typed(r)
  BY <1>2, <1>3 DEF Typed
<1> QED BY <1>2, <1>3, <1>4

LEMMA ChanHandles ==
    ASSUME NEW s, Typed(s), NEW h \in [SongLanes -> Sounding(s) \cup {None}], NEW r, r = [s EXCEPT !.chan = h]
    PROVE  /\ Typed(r) /\ Sounding(r) = Sounding(s)
           /\ r.voice = s.voice /\ r.chan = h /\ r.lane = s.lane /\ r.refused = s.refused
<1>1. s \in States /\ Sounding(s) \subseteq Nat
  BY TypedParts DEF Typed
<1>2. r \in States /\ r.voice = s.voice /\ r.chan = h /\ r.lane = s.lane /\ r.refused = s.refused
  BY <1>1 DEF States
<1>3. Sounding(r) = Sounding(s)
  BY <1>2 DEF Sounding
<1>4. Typed(r)
  BY <1>2, <1>3 DEF Typed
<1> QED BY <1>2, <1>3, <1>4

\* A lane drives another voice, or none; a channel, likewise.
LEMMA DriveMakes ==
    ASSUME NEW s, Typed(s), NEW l, NEW v \in Sounding(s) \cup {None}, NEW r, r = Drive(s, l, v)
    PROVE  /\ Typed(r) /\ Sounding(r) = Sounding(s)
           /\ r.voice = s.voice /\ r.chan = s.chan /\ r.refused = s.refused
           /\ \A k \in Lanes : r.lane[k] = IF k = l THEN v ELSE s.lane[k]
<1> DEFINE lanes == [k \in Lanes |-> IF k = l THEN v ELSE s.lane[k]]
<1>1. lanes \in [Lanes -> Sounding(s) \cup {None, Stale}]
  BY TypedParts
<1>2. r = [s EXCEPT !.lane = lanes]
  BY DEF Drive
<1>3. \A k \in Lanes : lanes[k] = IF k = l THEN v ELSE s.lane[k]
  OBVIOUS
<1> HIDE DEF lanes
<1> QED BY <1>1, <1>2, <1>3, LaneHandles

LEMMA HoldMakes ==
    ASSUME NEW s, Typed(s), NEW l, NEW v \in Sounding(s) \cup {None}, NEW r, r = Hold(s, l, v)
    PROVE  /\ Typed(r) /\ Sounding(r) = Sounding(s)
           /\ r.voice = s.voice /\ r.lane = s.lane /\ r.refused = s.refused
           /\ \A k \in SongLanes : r.chan[k] = IF k = l THEN v ELSE s.chan[k]
<1> DEFINE chans == [k \in SongLanes |-> IF k = l THEN v ELSE s.chan[k]]
<1>1. chans \in [SongLanes -> Sounding(s) \cup {None}]
  BY TypedParts
<1>2. r = [s EXCEPT !.chan = chans]
  BY DEF Hold
<1>3. \A k \in SongLanes : chans[k] = IF k = l THEN v ELSE s.chan[k]
  OBVIOUS
<1> HIDE DEF chans
<1> QED BY <1>1, <1>2, <1>3, ChanHandles

\* Which voices a retirement retires, and what it does.
Retires(s, some) == {v \in some \cap Sounding(s) : s.voice[v].life # "Retiring"}

LEMMA RetireMakes ==
    ASSUME NEW s, Typed(s), NEW some, NEW r, r = Retire(s, some)
    PROVE  /\ Typed(r) /\ Sounding(r) = Sounding(s) /\ Len(r.voice) = Len(s.voice)
           /\ \A v \in Sounding(s) : r.voice[v] = IF v \in Retires(s, some) THEN Retired(s.voice[v]) ELSE s.voice[v]
           /\ \A l \in Lanes : r.lane[l] = IF s.lane[l] \in Retires(s, some) THEN None ELSE s.lane[l]
           /\ r.chan = s.chan /\ r.refused = s.refused
<1> DEFINE f == [v \in Sounding(s) |-> IF v \in Retires(s, some) THEN Retired(s.voice[v]) ELSE s.voice[v]]
           q == [s EXCEPT !.voice = f]
           lanes == [l \in Lanes |-> IF s.lane[l] \in Retires(s, some) THEN None ELSE s.lane[l]]
<1>1. \A v \in Sounding(s) : s.voice[v] \in VoiceRecords
  BY TypedParts
<1>2. f \in [Sounding(s) -> VoiceRecords]
  <2>1. \A x \in VoiceRecords : Retired(x) \in VoiceRecords
    BY DEF Retired, VoiceRecords
  <2> QED BY <1>1, <2>1
<1>3. r = [q EXCEPT !.lane = lanes]
  BY DEF Retire, Mark, Retires
<1> HIDE DEF f
<1>4. /\ Typed(q) /\ Sounding(q) = Sounding(s) /\ Len(q.voice) = Len(s.voice)
      /\ q.voice = f /\ q.lane = s.lane /\ q.chan = s.chan /\ q.refused = s.refused
  BY <1>2, Changes
<1>5. lanes \in [Lanes -> Sounding(q) \cup {None, Stale}]
  BY <1>4, TypedParts
<1>6. \A l \in Lanes : lanes[l] = IF s.lane[l] \in Retires(s, some) THEN None ELSE s.lane[l]
  OBVIOUS
<1> HIDE DEF q, lanes
<1>7. /\ Typed(r) /\ Sounding(r) = Sounding(q) /\ r.voice = q.voice /\ r.lane = lanes
      /\ r.chan = q.chan /\ r.refused = q.refused
  BY <1>3, <1>4, <1>5, LaneHandles
<1>8. \A v \in Sounding(s) : f[v] = IF v \in Retires(s, some) THEN Retired(s.voice[v]) ELSE s.voice[v]
  BY DEF f
<1> QED BY <1>4, <1>6, <1>7, <1>8

-----------------------------------------------------------------------------
(* 2. The invariant *)

\* The domain of a voice is that of its lane, or that of the tails; a tail rings on.
Sound(r) ==
  /\ r.domain = "Live" <=> r.lane \in LiveLanes
  /\ r.life = "Foreground" => r.domain # "Custom"
  /\ r.life = "Retiring" => r.sound = "stopping"
  /\ r.tail => /\ r.life = "Background" /\ r.sound = "on" /\ r.onset # None
               /\ r.note \notin Looping

\* A lane drives the voice that is in its foreground.
Driven(s) ==
  \A v \in Sounding(s), l \in Lanes :
    s.lane[l] = v <=> s.voice[v].lane = l /\ s.voice[v].life = "Foreground"

\* A tail differs from the other tails of its lane, and from what the lane plays.
Rings(s) ==
  \A v, w \in Sounding(s) :
    v # w /\ s.voice[w].tail /\ (s.voice[v].tail \/ s.voice[v].life = "Foreground")
      /\ s.voice[v].lane = s.voice[w].lane => s.voice[v].onset # s.voice[w].onset

Budget(s) ==
  \A d \in Domains : /\ Cardinality(Active(s, d)) <= Limit[d]
                     /\ Cardinality(Owned(s, d)) <= Room[d]

\* Every lane of the song may have a voice of its own.
Plenty == Interactive /\ Cardinality(SongLanes) <= Limit["Native"]

Good(s) ==
  /\ Typed(s) /\ Len(s.voice) <= Pool
  /\ \A v \in Sounding(s) : Sound(s.voice[v]) /\ (s.voice[v].tail => overlap)
  /\ Driven(s) /\ Rings(s)
  /\ Prepared => Budget(s)
  /\ Plenty => ~s.refused

\* The processor shapes one voice of a lane as its foreground, and on the lanes of some
\* that is the one the lane drives.
Shaped(s) ==
  \A v \in Sounding(s), l \in SongLanes :
    s.voice[v].lane = l /\ s.voice[v].art = "fore" => s.chan[l] = v
Held(s, some) ==
  \A l \in some : s.chan[l] # None => s.lane[l] = s.chan[l] /\ s.voice[s.chan[l]].art = "fore"

\* What sounds, but for new voices, and the song's background are stepped by a runtime.
Alive(r) == r.sound = "on" \/ (r.life = "Background" /\ r.domain = "Native") => r.art # "none"
Living(s, new) == Interactive => \A v \in Sounding(s) \ new : Alive(s.voice[v])

Well(s) == Good(s) /\ Shaped(s) /\ Held(s, SongLanes) /\ Living(s, {})

\* A tail of the second state was there before.
TailsFrom(s, r) ==
  \A w \in Sounding(r) : r.voice[w].tail =>
    \E v \in Sounding(s) : /\ s.voice[v].tail /\ s.voice[v].lane = r.voice[w].lane
                           /\ s.voice[v].onset = r.voice[w].onset

\* The same voices with another articulation.
Like(x, y) ==
  /\ y.lane = x.lane /\ y.note = x.note /\ y.domain = x.domain /\ y.life = x.life
  /\ y.tail = x.tail /\ y.onset = x.onset /\ (y.sound = x.sound \/ (y.sound = "stopping" /\ ~x.tail))
Tuned(s, r) ==
  /\ Typed(r) /\ Sounding(r) = Sounding(s) /\ Len(r.voice) = Len(s.voice)
  /\ r.lane = s.lane /\ r.refused = s.refused
  /\ \A v \in Sounding(s) : Like(s.voice[v], r.voice[v])

\* The lane goes on driving the same voice, or none.
Stays(s, r, l) ==
  IF Drives(s, l) THEN Drives(r, l) /\ r.voice[r.lane[l]] = s.voice[s.lane[l]] ELSE r.lane[l] = s.lane[l]

IInv ==
  /\ Well(Now)
  /\ overlap \in BOOLEAN /\ (overlap => Overlapping)
  /\ refused \in BOOLEAN /\ (Plenty => ~refused)

LEMMA Rooms ==
    /\ Pool \in Nat
    /\ \A d \in Domains : /\ Limit[d] \in Nat /\ Room[d] \in Nat /\ Limit[d] <= Room[d]
                          /\ Interactive /\ Limit[d] > 0 => Room[d] = Limit[d] + 1
<1>1. \A d \in Domains : Limit[d] \in Nat /\ Room[d] = Limit[d] + Reserve[d]
  BY LimitAssumption DEF Room
<1>2. \A d \in Domains : Reserve[d] \in 0 .. 1 /\ (Interactive /\ Limit[d] > 0 => Reserve[d] = 1)
  BY <1>1 DEF Reserve
<1>3. \A d \in Domains : /\ Room[d] \in Nat /\ Limit[d] <= Room[d]
                         /\ Interactive /\ Limit[d] > 0 => Room[d] = Limit[d] + 1
  BY <1>1, <1>2
<1>4. Pool \in Nat
  <2>1. "Native" \in Domains /\ "Custom" \in Domains /\ "Live" \in Domains
    BY DEF Domains
  <2> QED BY <1>3, <2>1, PoolAssumption
<1> QED BY <1>1, <1>3, <1>4

\* What is at the end of some arrow is no more than the arrows.
LEMMA Fewer ==
    ASSUME NEW A, IsFiniteSet(A), NEW B, NEW m, \A j \in B : \E v \in A : m[v] = j
    PROVE  IsFiniteSet(B) /\ Cardinality(B) <= Cardinality(A)
<1> DEFINE f == [j \in B |-> CHOOSE v \in A : m[v] = j]
<1>1. \A j \in B : f[j] \in A /\ m[f[j]] = j
  OBVIOUS
<1>2. f \in [B -> A]
  BY <1>1
<1> HIDE DEF f
<1>3. f \in Injection(B, A)
  BY <1>1, <1>2 DEF Injection, IsInjective
<1> QED BY <1>3, FS_Injection

LEMMA Counted ==
    ASSUME NEW s, Typed(s), NEW d
    PROVE  /\ IsFiniteSet(Sounding(s)) /\ Cardinality(Sounding(s)) = Len(s.voice)
           /\ Active(s, d) \subseteq Owned(s, d) /\ Owned(s, d) \subseteq Sounding(s)
           /\ IsFiniteSet(Owned(s, d)) /\ Cardinality(Owned(s, d)) \in Nat
           /\ IsFiniteSet(Active(s, d)) /\ Cardinality(Active(s, d)) \in Nat
<1> DEFINE n == Len(s.voice)
<1>1. n \in Nat /\ Sounding(s) = 1 .. n
  BY TypedParts
<1>2. IsFiniteSet(1 .. n) /\ Cardinality(1 .. n) = n
  <2>1. 1 \in Int /\ n \in Int /\ n \in Nat
    BY <1>1
  <2> HIDE DEF n
  <2> QED BY <2>1, FS_Interval
<1>3. /\ Active(s, d) \in SUBSET Owned(s, d) /\ Owned(s, d) \in SUBSET Sounding(s)
      /\ Active(s, d) \in SUBSET Sounding(s)
  BY DEF Active, Owned
<1>4. IsFiniteSet(Sounding(s)) /\ Cardinality(Sounding(s)) = n
  BY <1>1, <1>2
<1> HIDE DEF n
<1>5. IsFiniteSet(Owned(s, d)) /\ IsFiniteSet(Active(s, d))
  BY <1>3, <1>4, FS_Subset
<1> QED BY <1>3, <1>4, <1>5, FS_CardinalityType DEF n

LEMMA OneMore ==
    ASSUME NEW A, IsFiniteSet(A), NEW x
    PROVE  Cardinality(A \cup {x}) <= Cardinality(A) + 1
<1>1. Cardinality(A \cup {x}) = IF x \in A THEN Cardinality(A) ELSE Cardinality(A) + 1
  BY FS_AddElement
<1>2. Cardinality(A) \in Nat
  BY FS_CardinalityType
<1> QED BY <1>1, <1>2

-----------------------------------------------------------------------------
(* 3. What each operation makes of a state.  A release *)

LEMMA ReleaseKeeps ==
    ASSUME NEW s, Good(s), NEW gone, gone \subseteq Sounding(s), NEW r, Typed(r), NEW m, Moves(s, r, gone, m)
    PROVE  /\ Good(r) /\ TailsFrom(s, r)
           /\ Shaped(s) => Shaped(r)
           /\ \A some \in SUBSET SongLanes : Held(s, some) => Held(r, some)
           /\ Living(s, {}) => Living(r, {})
           /\ \A l \in Lanes : IF s.lane[l] \in gone THEN r.lane[l] = Stale ELSE Stays(s, r, l)
           /\ \A l \in SongLanes : s.chan[l] \in gone \cup {None} => r.chan[l] = None
           /\ \A d : /\ Cardinality(Owned(r, d)) <= Cardinality(Owned(s, d) \ gone)
                     /\ Cardinality(Active(r, d)) <= Cardinality(Active(s, d) \ gone)
<1> DEFINE kept == Sounding(s) \ gone
<1>1. /\ m \in [kept -> Sounding(r)]
      /\ \A v \in kept : m[v] \in Sounding(r) /\ r.voice[m[v]] = s.voice[v]
      /\ \A j \in Sounding(r) : \E v \in kept : m[v] = j
      /\ \A v, w \in kept : m[v] = m[w] => v = w
  BY DEF Moves
<1>2. /\ \A l \in Lanes : r.lane[l] = IF s.lane[l] \in gone THEN Stale
                                      ELSE IF s.lane[l] \in Sounding(s) THEN m[s.lane[l]] ELSE s.lane[l]
      /\ \A l \in SongLanes : r.chan[l] = IF s.chan[l] \in gone THEN None
                                          ELSE IF s.chan[l] \in Sounding(s) THEN m[s.chan[l]] ELSE s.chan[l]
      /\ r.refused = s.refused /\ Len(r.voice) <= Len(s.voice)
  BY DEF Moves
<1>3. /\ None \notin Sounding(s) /\ Stale \notin Sounding(s)
      /\ None \notin Sounding(r) /\ Stale \notin Sounding(r)
      /\ Len(r.voice) \in Nat /\ Len(s.voice) \in Nat
      /\ \A l \in Lanes : s.lane[l] \in Sounding(s) \cup {None, Stale}
      /\ \A l \in SongLanes : s.chan[l] \in Sounding(s) \cup {None}
  BY TypedParts DEF Good
<1> HIDE DEF Moves
<1>4. \A d : /\ Cardinality(Owned(r, d)) <= Cardinality(Owned(s, d) \ gone)
             /\ Cardinality(Active(r, d)) <= Cardinality(Active(s, d) \ gone)
  <2> TAKE d
  <2>1. /\ \A j \in Owned(r, d) : \E v \in Owned(s, d) \ gone : m[v] = j
        /\ \A j \in Active(r, d) : \E v \in Active(s, d) \ gone : m[v] = j
    BY <1>1 DEF Owned, Active
  <2>2. IsFiniteSet(Owned(s, d) \ gone) /\ IsFiniteSet(Active(s, d) \ gone)
    BY Counted, FS_Difference DEF Good
  <2> QED BY <2>1, <2>2, Fewer
<1>5. Prepared => Budget(r)
  <2> SUFFICES ASSUME Prepared, NEW d \in Domains
               PROVE  Cardinality(Active(r, d)) <= Limit[d] /\ Cardinality(Owned(r, d)) <= Room[d]
    BY DEF Budget
  <2>1. /\ Cardinality(Owned(s, d)) <= Room[d] /\ Cardinality(Active(s, d)) <= Limit[d]
        /\ IsFiniteSet(Owned(s, d)) /\ IsFiniteSet(Active(s, d))
    BY Counted DEF Good, Budget
  <2>2. /\ Owned(s, d) \ gone \in SUBSET Owned(s, d) /\ Active(s, d) \ gone \in SUBSET Active(s, d)
    OBVIOUS
  <2>3. /\ Cardinality(Owned(s, d) \ gone) <= Cardinality(Owned(s, d))
        /\ Cardinality(Active(s, d) \ gone) <= Cardinality(Active(s, d))
        /\ IsFiniteSet(Owned(s, d) \ gone) /\ IsFiniteSet(Active(s, d) \ gone)
    BY <2>1, <2>2, FS_Subset
  <2>4. /\ Cardinality(Owned(s, d) \ gone) \in Nat /\ Cardinality(Owned(s, d)) \in Nat
        /\ Cardinality(Active(s, d) \ gone) \in Nat /\ Cardinality(Active(s, d)) \in Nat
        /\ Cardinality(Owned(r, d)) \in Nat /\ Cardinality(Active(r, d)) \in Nat
    BY <2>1, <2>3, Counted, FS_CardinalityType
  <2>5. Limit[d] \in Nat /\ Room[d] \in Nat
    BY Rooms
  <2>6. /\ Cardinality(Owned(r, d)) <= Cardinality(Owned(s, d) \ gone)
        /\ Cardinality(Active(r, d)) <= Cardinality(Active(s, d) \ gone)
    BY <1>4
  <2>7. Cardinality(Owned(r, d)) <= Room[d]
    BY <2>1, <2>3, <2>4, <2>5, <2>6
  <2>8. Cardinality(Active(r, d)) <= Limit[d]
    BY <2>1, <2>3, <2>4, <2>5, <2>6
  <2> QED BY <2>7, <2>8
<1>6. \A w \in Sounding(r) : \E v \in kept : m[v] = w /\ r.voice[w] = s.voice[v]
  BY <1>1
<1>7. TailsFrom(s, r)
  BY <1>6 DEF TailsFrom
<1>8. \A l \in Lanes : IF s.lane[l] \in gone THEN r.lane[l] = Stale ELSE Stays(s, r, l)
  BY <1>1, <1>2 DEF Stays, Drives
<1>9. Driven(r)
  <2> SUFFICES ASSUME NEW w \in Sounding(r), NEW l \in Lanes
               PROVE  r.lane[l] = w <=> r.voice[w].lane = l /\ r.voice[w].life = "Foreground"
    BY DEF Driven
  <2>1. PICK v \in kept : m[v] = w /\ r.voice[w] = s.voice[v]
    BY <1>6
  <2>2. s.lane[l] = v <=> s.voice[v].lane = l /\ s.voice[v].life = "Foreground"
    BY DEF Good, Driven
  <2> QED BY <1>1, <1>2, <1>3, <2>1, <2>2
<1>10. Rings(r)
  <2> SUFFICES ASSUME NEW v \in Sounding(r), NEW w \in Sounding(r), v # w, r.voice[w].tail,
                      r.voice[v].tail \/ r.voice[v].life = "Foreground", r.voice[v].lane = r.voice[w].lane
               PROVE  r.voice[v].onset # r.voice[w].onset
    BY DEF Rings
  <2>1. PICK a \in kept : m[a] = v /\ r.voice[v] = s.voice[a]
    BY <1>6
  <2>2. PICK b \in kept : m[b] = w /\ r.voice[w] = s.voice[b]
    BY <1>6
  <2> QED BY <2>1, <2>2 DEF Good, Rings
<1>11. Shaped(s) => Shaped(r)
  <2> SUFFICES ASSUME Shaped(s), NEW w \in Sounding(r), NEW l \in SongLanes, r.voice[w].lane = l,
                      r.voice[w].art = "fore"
               PROVE  r.chan[l] = w
    BY DEF Shaped
  <2>1. PICK v \in kept : m[v] = w /\ r.voice[w] = s.voice[v]
    BY <1>6
  <2> QED BY <1>2, <2>1 DEF Shaped
<1>12. \A some \in SUBSET SongLanes : Held(s, some) => Held(r, some)
  <2> SUFFICES ASSUME NEW some \in SUBSET SongLanes, Held(s, some), NEW l \in some, r.chan[l] # None
               PROVE  r.lane[l] = r.chan[l] /\ r.voice[r.chan[l]].art = "fore"
    BY DEF Held
  <2>1. s.chan[l] \in kept /\ r.chan[l] = m[s.chan[l]]
    BY <1>2, <1>3
  <2>2. l \in Lanes /\ s.lane[l] = s.chan[l] /\ s.voice[s.chan[l]].art = "fore"
    BY <2>1, <1>3 DEF Held, Lanes
  <2> QED BY <1>1, <1>2, <2>1, <2>2
<1>13. Living(s, {}) => Living(r, {})
  BY <1>6 DEF Living
<1>14. \A v \in Sounding(r) : Sound(r.voice[v]) /\ (r.voice[v].tail => overlap)
  BY <1>6 DEF Good
<1>15. Len(r.voice) <= Pool
  <2>1. Pool \in Nat /\ Len(s.voice) <= Pool
    BY Rooms DEF Good
  <2> QED BY <1>2, <1>3, <2>1
<1>16. Good(r)
  BY <1>2, <1>5, <1>9, <1>10, <1>14, <1>15 DEF Good
<1>17. \A l \in SongLanes : s.chan[l] \in gone \cup {None} => r.chan[l] = None
  BY <1>2, <1>3
<1> QED BY <1>4, <1>7, <1>8, <1>11, <1>12, <1>13, <1>16, <1>17

-----------------------------------------------------------------------------
(* A retirement *)

LEMMA RetiredIs ==
    ASSUME NEW x \in VoiceRecords
    PROVE  /\ Retired(x).lane = x.lane /\ Retired(x).note = x.note /\ Retired(x).domain = x.domain
           /\ Retired(x).life = "Retiring" /\ ~Retired(x).tail /\ Retired(x).onset = None
           /\ Retired(x).sound = "stopping" /\ Retired(x).art = "none"
BY DEF Retired, VoiceRecords

RetiredTo(s, some, r) ==
  /\ Good(r) /\ TailsFrom(s, r) /\ Sounding(r) = Sounding(s) /\ r.chan = s.chan
  /\ Shaped(s) => Shaped(r)
  /\ \A on \in SUBSET SongLanes :
       Held(s, on) /\ (\A l \in on : s.chan[l] \notin some \cap Sounding(s)) => Held(r, on)
  /\ \A new : Living(s, new) => Living(r, new)
  /\ \A l \in Lanes : s.lane[l] \notin some \cap Sounding(s) => Stays(s, r, l)
  /\ \A l \in Lanes : s.lane[l] = None => r.lane[l] = None
  /\ \A v \in Sounding(s) : r.voice[v] = s.voice[v] \/ (v \in some /\ r.voice[v] = Retired(s.voice[v]))
  /\ \A v \in Sounding(s) \cap some : r.voice[v].life = "Retiring"
  /\ \A d : Owned(r, d) = Owned(s, d) /\ Active(r, d) = Active(s, d) \ some

LEMMA RetireKeeps ==
    ASSUME NEW s, Good(s), NEW some, NEW r, r = Retire(s, some)
    PROVE  RetiredTo(s, some, r)
<1> DEFINE retired == Retires(s, some)
<1>0. /\ retired \in SUBSET Sounding(s)
      /\ \A v \in Sounding(s) : v \in retired <=> v \in some /\ s.voice[v].life # "Retiring"
  BY DEF Retires
<1>1. /\ Typed(r) /\ Sounding(r) = Sounding(s) /\ Len(r.voice) = Len(s.voice)
      /\ \A v \in Sounding(s) : r.voice[v] = IF v \in retired THEN Retired(s.voice[v]) ELSE s.voice[v]
      /\ \A l \in Lanes : r.lane[l] = IF s.lane[l] \in retired THEN None ELSE s.lane[l]
      /\ r.chan = s.chan /\ r.refused = s.refused
  <2>1. Typed(s)
    BY DEF Good
  <2> QED BY <2>1, RetireMakes
<1> HIDE DEF retired
<1>2. /\ None \notin Sounding(s) /\ Stale \notin Sounding(s)
      /\ \A v \in Sounding(s) : s.voice[v] \in VoiceRecords
      /\ \A l \in Lanes : s.lane[l] \in Sounding(s) \cup {None, Stale}
      /\ \A l \in SongLanes : s.chan[l] \in Sounding(s) \cup {None}
  BY TypedParts DEF Good
<1>3. ASSUME NEW v \in Sounding(s)
      PROVE  /\ v \notin retired => r.voice[v] = s.voice[v]
             /\ v \in retired => /\ r.voice[v].lane = s.voice[v].lane /\ r.voice[v].note = s.voice[v].note
                                 /\ r.voice[v].domain = s.voice[v].domain /\ r.voice[v].life = "Retiring"
                                 /\ ~r.voice[v].tail /\ r.voice[v].onset = None
                                 /\ r.voice[v].sound = "stopping" /\ r.voice[v].art = "none"
  <2>1. /\ v \notin retired => r.voice[v] = s.voice[v]
        /\ v \in retired => r.voice[v] = Retired(s.voice[v])
    BY <1>1
  <2>2. s.voice[v] \in VoiceRecords
    BY <1>2
  <2> QED BY <2>1, <2>2, RetiredIs
<1>4. \A d : Owned(r, d) = Owned(s, d) /\ Active(r, d) = Active(s, d) \ some
  BY <1>0, <1>1, <1>3 DEF Owned, Active
<1>5. /\ \A v \in Sounding(s) : r.voice[v] = s.voice[v] \/ (v \in some /\ r.voice[v] = Retired(s.voice[v]))
      /\ \A v \in Sounding(s) \cap some : r.voice[v].life = "Retiring"
  <2>1. \A v \in retired : r.voice[v] = Retired(s.voice[v]) /\ r.voice[v].life = "Retiring"
    BY <1>0, <1>1, <1>3
  <2> QED BY <1>0, <1>3, <2>1
<1>6. Prepared => Budget(r)
  <2> SUFFICES ASSUME Prepared, NEW d \in Domains
               PROVE  Cardinality(Active(r, d)) <= Limit[d] /\ Cardinality(Owned(r, d)) <= Room[d]
    BY DEF Budget
  <2>1. Cardinality(Owned(s, d)) <= Room[d] /\ Cardinality(Active(s, d)) <= Limit[d]
    BY DEF Good, Budget
  <2>2. /\ IsFiniteSet(Active(s, d)) /\ Cardinality(Active(s, d)) \in Nat
        /\ Cardinality(Active(r, d)) \in Nat /\ Limit[d] \in Nat
    BY <1>1, Counted, Rooms DEF Good
  <2>3. Active(r, d) \in SUBSET Active(s, d)
    BY <1>4
  <2>4. Cardinality(Active(r, d)) <= Cardinality(Active(s, d))
    BY <2>2, <2>3, FS_Subset
  <2>5. Cardinality(Active(r, d)) <= Limit[d]
    BY <2>1, <2>2, <2>4
  <2> QED BY <1>4, <2>1, <2>5
<1>7. TailsFrom(s, r)
  BY <1>1, <1>3 DEF TailsFrom
<1>8. \A l \in Lanes : /\ s.lane[l] \notin some \cap Sounding(s) => Stays(s, r, l)
                       /\ s.lane[l] = None => r.lane[l] = None
  BY <1>0, <1>1, <1>2, <1>3 DEF Stays, Drives
<1>9. Driven(r)
  <2> SUFFICES ASSUME NEW v \in Sounding(s), NEW l \in Lanes
               PROVE  r.lane[l] = v <=> r.voice[v].lane = l /\ r.voice[v].life = "Foreground"
    BY <1>1 DEF Driven
  <2>1. s.lane[l] = v <=> s.voice[v].lane = l /\ s.voice[v].life = "Foreground"
    BY DEF Good, Driven
  <2> QED BY <1>1, <1>2, <1>3, <2>1
<1>10. Rings(r)
  <2> SUFFICES ASSUME NEW v \in Sounding(s), NEW w \in Sounding(s), v # w, r.voice[w].tail,
                      r.voice[v].tail \/ r.voice[v].life = "Foreground", r.voice[v].lane = r.voice[w].lane
               PROVE  r.voice[v].onset # r.voice[w].onset
    BY <1>1 DEF Rings
  <2>1. v \notin retired /\ w \notin retired
    BY <1>3
  <2>2. r.voice[v] = s.voice[v] /\ r.voice[w] = s.voice[w]
    BY <1>3, <2>1
  <2> QED BY <2>2 DEF Good, Rings
<1>11. \A v \in Sounding(s) : Sound(r.voice[v]) /\ (r.voice[v].tail => overlap)
  BY <1>3 DEF Good, Sound
<1>12. Good(r)
  BY <1>1, <1>6, <1>9, <1>10, <1>11 DEF Good
<1>13. Shaped(s) => Shaped(r)
  BY <1>1, <1>3 DEF Shaped
<1>14. ASSUME NEW on \in SUBSET SongLanes, Held(s, on), \A l \in on : s.chan[l] \notin some \cap Sounding(s)
       PROVE  Held(r, on)
  <2> SUFFICES ASSUME NEW l \in on, r.chan[l] # None
               PROVE  r.lane[l] = r.chan[l] /\ r.voice[r.chan[l]].art = "fore"
    BY DEF Held
  <2>1. l \in Lanes /\ s.chan[l] \in Sounding(s) /\ s.chan[l] \notin retired
    BY <1>0, <1>1, <1>2, <1>14 DEF Lanes
  <2>2. s.lane[l] = s.chan[l] /\ s.voice[s.chan[l]].art = "fore"
    BY <1>1, <1>14 DEF Held
  <2> QED BY <1>1, <1>3, <2>1, <2>2
<1>15. \A new : Living(s, new) => Living(r, new)
  BY <1>1, <1>3 DEF Living, Alive
<1> QED BY <1>1, <1>4, <1>5, <1>7, <1>8, <1>12, <1>13, <1>14, <1>15 DEF RetiredTo

-----------------------------------------------------------------------------
(* Articulation *)

LEMMA TunedKeeps ==
    ASSUME NEW s, Good(s), NEW r, Tuned(s, r)
    PROVE  /\ Good(r) /\ TailsFrom(s, r)
           /\ \A d : Owned(r, d) = Owned(s, d) /\ Active(r, d) = Active(s, d)
<1>1. /\ Typed(r) /\ Sounding(r) = Sounding(s) /\ Len(r.voice) = Len(s.voice)
      /\ r.lane = s.lane /\ r.refused = s.refused
      /\ \A v \in Sounding(s) : Like(s.voice[v], r.voice[v])
  BY DEF Tuned
<1>2. \A d : Owned(r, d) = Owned(s, d) /\ Active(r, d) = Active(s, d)
  BY <1>1 DEF Owned, Active, Like
<1>3. TailsFrom(s, r)
  BY <1>1 DEF TailsFrom, Like
<1>4. Driven(r)
  BY <1>1 DEF Good, Driven, Like
<1>5. Rings(r)
  BY <1>1 DEF Good, Rings, Like
<1>6. \A v \in Sounding(r) : Sound(r.voice[v]) /\ (r.voice[v].tail => overlap)
  BY <1>1 DEF Good, Sound, Like
<1>7. Prepared => Budget(r)
  BY <1>2 DEF Good, Budget
<1>8. Good(r)
  BY <1>1, <1>4, <1>5, <1>6, <1>7 DEF Good
<1> QED BY <1>2, <1>3, <1>8

LEMMA TunedBy ==
    ASSUME NEW s, Typed(s), NEW f \in [Sounding(s) -> VoiceRecords],
           \A v \in Sounding(s) : Like(s.voice[v], f[v]), NEW r, r = [s EXCEPT !.voice = f]
    PROVE  Tuned(s, r) /\ r.voice = f /\ r.chan = s.chan
<1>1. /\ Typed(r) /\ Sounding(r) = Sounding(s) /\ Len(r.voice) = Len(s.voice)
      /\ r.voice = f /\ r.lane = s.lane /\ r.chan = s.chan /\ r.refused = s.refused
  BY Changes
<1> QED BY <1>1 DEF Tuned

LEMMA BegunMakes ==
    ASSUME NEW s, Typed(s), NEW u, NEW r, r = Begun(s, u)
    PROVE  /\ Tuned(s, r) /\ r.chan = s.chan
           /\ \A v \in Sounding(s) : v # u => r.voice[v] = s.voice[v]
           /\ u \in Sounding(s) => r.voice[u].art = "fore"
<1> DEFINE f == [v \in Sounding(s) |-> IF v \in {u} THEN [s.voice[v] EXCEPT !.art = "fore"] ELSE s.voice[v]]
<1>1. r = [s EXCEPT !.voice = f]
  BY DEF Begun, Mark
<1>2. \A v \in Sounding(s) : s.voice[v] \in VoiceRecords
  BY TypedParts
<1>3. \A x \in VoiceRecords : LET y == [x EXCEPT !.art = "fore"] IN
        y \in VoiceRecords /\ Like(x, y) /\ y.art = "fore" /\ Like(x, x)
  BY DEF VoiceRecords, Like
<1>4. /\ f \in [Sounding(s) -> VoiceRecords] /\ \A v \in Sounding(s) : Like(s.voice[v], f[v])
      /\ \A v \in Sounding(s) : v # u => f[v] = s.voice[v]
      /\ u \in Sounding(s) => f[u].art = "fore"
  BY <1>2, <1>3
<1> HIDE DEF f
<1>5. Tuned(s, r) /\ r.voice = f /\ r.chan = s.chan
  BY <1>1, <1>4, TunedBy
<1> QED BY <1>4, <1>5

LEMMA LeaveMakes ==
    ASSUME NEW s, Typed(s), NEW u, NEW r, r = Leave(s, u)
    PROVE  /\ Tuned(s, r) /\ r.chan = s.chan
           /\ \A v \in Sounding(s) : /\ v # u => r.voice[v] = s.voice[v]
                                     /\ r.voice[v].art = "none" <=> s.voice[v].art = "none"
                                     /\ r.voice[v].sound = s.voice[v].sound
           /\ u \in Sounding(s) => r.voice[u].art # "fore"
<1> DEFINE New(x) == IF x.art = "none" THEN x ELSE [x EXCEPT !.art = "back"]
           f == [v \in Sounding(s) |-> IF v \in {u} THEN New(s.voice[v]) ELSE s.voice[v]]
<1>1. r = [s EXCEPT !.voice = f]
  BY DEF Leave, Mark
<1>2. \A v \in Sounding(s) : s.voice[v] \in VoiceRecords
  BY TypedParts
<1>3. \A x \in VoiceRecords :
        /\ New(x) \in VoiceRecords /\ Like(x, New(x)) /\ New(x).art # "fore" /\ Like(x, x)
        /\ New(x).art = "none" <=> x.art = "none"
        /\ New(x).sound = x.sound
  BY DEF VoiceRecords, Like
<1> HIDE DEF New
<1>4. /\ f \in [Sounding(s) -> VoiceRecords] /\ \A v \in Sounding(s) : Like(s.voice[v], f[v])
      /\ \A v \in Sounding(s) : /\ v # u => f[v] = s.voice[v]
                                /\ f[v].art = "none" <=> s.voice[v].art = "none"
                                /\ f[v].sound = s.voice[v].sound
      /\ u \in Sounding(s) => f[u].art # "fore"
  BY <1>2, <1>3
<1> HIDE DEF f
<1>5. Tuned(s, r) /\ r.voice = f /\ r.chan = s.chan
  BY <1>1, <1>4, TunedBy
<1> QED BY <1>4, <1>5

\* Cuts and freezes are of the level alone.
Levelled(s, r) ==
  /\ Tuned(s, r) /\ r.chan = s.chan
  /\ \A v \in Sounding(s) : r.voice[v].art = s.voice[v].art /\ r.voice[v].sound = s.voice[v].sound

LEMMA CutMakes ==
    ASSUME NEW s, Typed(s), NEW some, NEW r, r = Cut(s, some)
    PROVE  Levelled(s, r) /\ \A v \in Sounding(s) : v \notin some => r.voice[v] = s.voice[v]
<1> DEFINE New(x) == IF x.art = "none" \/ x.level = "frozen" THEN x ELSE [x EXCEPT !.level = "gone"]
           f == [v \in Sounding(s) |-> IF v \in some THEN New(s.voice[v]) ELSE s.voice[v]]
<1>1. r = [s EXCEPT !.voice = f]
  BY DEF Cut, Mark
<1>2. \A v \in Sounding(s) : s.voice[v] \in VoiceRecords
  BY TypedParts
<1>3. \A x \in VoiceRecords : /\ New(x) \in VoiceRecords /\ Like(x, New(x)) /\ Like(x, x)
                              /\ New(x).art = x.art /\ New(x).sound = x.sound
  BY DEF VoiceRecords, Like
<1> HIDE DEF New
<1>4. /\ f \in [Sounding(s) -> VoiceRecords]
      /\ \A v \in Sounding(s) : /\ Like(s.voice[v], f[v]) /\ f[v].art = s.voice[v].art
                                /\ f[v].sound = s.voice[v].sound
                                /\ v \notin some => f[v] = s.voice[v]
  BY <1>2, <1>3
<1> HIDE DEF f
<1>5. Tuned(s, r) /\ r.voice = f /\ r.chan = s.chan
  BY <1>1, <1>4, TunedBy
<1> QED BY <1>4, <1>5 DEF Levelled

LEMMA CutNotesMake ==
    ASSUME NEW s, Typed(s), NEW l, NEW r \in CutNotes(s, l)
    PROVE  Levelled(s, r) /\ \A v \in Sounding(s) : v # s.chan[l] => r.voice[v] = s.voice[v]
<1>1. PICK to \in {"gone", "frozen"} :
        r = Mark(s, {s.chan[l]}, LAMBDA x : IF x.art = "none" THEN x ELSE [x EXCEPT !.level = to])
  BY DEF CutNotes
<1> DEFINE New(x) == IF x.art = "none" THEN x ELSE [x EXCEPT !.level = to]
           f == [v \in Sounding(s) |-> IF v \in {s.chan[l]} THEN New(s.voice[v]) ELSE s.voice[v]]
<1>2. r = [s EXCEPT !.voice = f]
  BY <1>1 DEF Mark
<1>3. \A v \in Sounding(s) : s.voice[v] \in VoiceRecords
  BY TypedParts
<1>4. \A x \in VoiceRecords : /\ New(x) \in VoiceRecords /\ Like(x, New(x)) /\ Like(x, x)
                              /\ New(x).art = x.art /\ New(x).sound = x.sound
  BY DEF VoiceRecords, Like
<1> HIDE DEF New
<1>5. /\ f \in [Sounding(s) -> VoiceRecords]
      /\ \A v \in Sounding(s) : /\ Like(s.voice[v], f[v]) /\ f[v].art = s.voice[v].art
                                /\ f[v].sound = s.voice[v].sound
                                /\ v # s.chan[l] => f[v] = s.voice[v]
  BY <1>3, <1>4
<1> HIDE DEF f
<1>6. Tuned(s, r) /\ r.voice = f /\ r.chan = s.chan
  BY <1>2, <1>5, TunedBy
<1> QED BY <1>5, <1>6 DEF Levelled

LEMMA LevelledKeeps ==
    ASSUME NEW s, Well(s), NEW r, Levelled(s, r)
    PROVE  /\ Well(r) /\ TailsFrom(s, r) /\ r.lane = s.lane /\ r.chan = s.chan
           /\ \A v \in Sounding(s) : r.voice[v].onset = s.voice[v].onset
<1>1. /\ Tuned(s, r) /\ r.chan = s.chan /\ Sounding(r) = Sounding(s) /\ r.lane = s.lane
      /\ \A v \in Sounding(s) : /\ r.voice[v].art = s.voice[v].art /\ r.voice[v].sound = s.voice[v].sound
                                /\ r.voice[v].lane = s.voice[v].lane /\ r.voice[v].life = s.voice[v].life
                                /\ r.voice[v].domain = s.voice[v].domain
                                /\ r.voice[v].onset = s.voice[v].onset
  BY DEF Levelled, Tuned, Like
<1>2. Good(r) /\ TailsFrom(s, r)
  BY <1>1, TunedKeeps DEF Well
<1>3. Shaped(r)
  BY <1>1 DEF Well, Shaped
<1>4. Held(r, SongLanes)
  <2>1. \A l \in SongLanes : s.chan[l] \in Sounding(s) \cup {None}
    BY TypedParts DEF Well, Good
  <2> QED BY <1>1, <2>1 DEF Well, Held
<1>5. Living(r, {})
  BY <1>1 DEF Well, Living, Alive
<1> QED BY <1>1, <1>2, <1>3, <1>4, <1>5 DEF Well

-----------------------------------------------------------------------------
(* Detaching *)

\* What a lane that drives a voice drives.
LEMMA DrivenIs ==
    ASSUME NEW s, Good(s), NEW l \in Lanes, Drives(s, l)
    PROVE  LET x == s.voice[s.lane[l]] IN
           /\ s.lane[l] \in Sounding(s) /\ x \in VoiceRecords
           /\ x.lane = l /\ x.life = "Foreground" /\ ~x.tail /\ x.domain # "Custom"
           /\ x.domain = "Live" <=> l \in LiveLanes
<1>1. s.lane[l] \in Sounding(s) /\ s.voice[s.lane[l]] \in VoiceRecords
  BY TypedParts DEF Good, Drives
<1>2. s.voice[s.lane[l]].lane = l /\ s.voice[s.lane[l]].life = "Foreground"
  BY <1>1 DEF Good, Driven
<1> QED BY <1>1, <1>2 DEF Good, Sound

LEMMA DetachMakes ==
    ASSUME NEW s, Typed(s), NEW l, NEW r, r = Detach(s, l)
    PROVE  /\ Typed(r) /\ Sounding(r) = Sounding(s) /\ Len(r.voice) = Len(s.voice)
           /\ r.chan = s.chan /\ r.refused = s.refused
           /\ \A k \in Lanes : r.lane[k] = IF k = l THEN None ELSE s.lane[k]
           /\ \A v \in Sounding(s) :
                r.voice[v] = IF v = s.lane[l] /\ s.voice[v].life = "Foreground"
                             THEN [s.voice[v] EXCEPT !.life = "Background"] ELSE s.voice[v]
<1> DEFINE New(x) == IF x.life = "Foreground" THEN [x EXCEPT !.life = "Background"] ELSE x
           f == [v \in Sounding(s) |-> IF v \in {s.lane[l]} THEN New(s.voice[v]) ELSE s.voice[v]]
           q == [s EXCEPT !.voice = f]
<1>1. r = Drive(q, l, None)
  BY DEF Detach, Mark
<1>2. \A v \in Sounding(s) : s.voice[v] \in VoiceRecords
  BY TypedParts
<1>3. \A x \in VoiceRecords : New(x) \in VoiceRecords
  BY DEF VoiceRecords
<1> HIDE DEF New
<1>4. /\ f \in [Sounding(s) -> VoiceRecords]
      /\ \A v \in Sounding(s) : f[v] = IF v = s.lane[l] THEN New(s.voice[v]) ELSE s.voice[v]
  BY <1>2, <1>3
<1> HIDE DEF f
<1>5. /\ Typed(q) /\ Sounding(q) = Sounding(s) /\ Len(q.voice) = Len(s.voice)
      /\ q.voice = f /\ q.lane = s.lane /\ q.chan = s.chan /\ q.refused = s.refused
  BY <1>4, Changes
<1> HIDE DEF q
<1>6. /\ Typed(r) /\ Sounding(r) = Sounding(q)
      /\ r.voice = q.voice /\ r.chan = q.chan /\ r.refused = q.refused
      /\ \A k \in Lanes : r.lane[k] = IF k = l THEN None ELSE q.lane[k]
  BY <1>1, <1>5, DriveMakes
<1>7. /\ Sounding(r) = Sounding(s) /\ Len(r.voice) = Len(s.voice) /\ r.voice = f
      /\ r.chan = s.chan /\ r.refused = s.refused
      /\ \A k \in Lanes : r.lane[k] = IF k = l THEN None ELSE s.lane[k]
  BY <1>5, <1>6
<1>8. \A v \in Sounding(s) :
        f[v] = IF v = s.lane[l] /\ s.voice[v].life = "Foreground"
               THEN [s.voice[v] EXCEPT !.life = "Background"] ELSE s.voice[v]
  BY <1>4 DEF New
<1> QED BY <1>6, <1>7, <1>8

LEMMA DetachCustomMakes ==
    ASSUME NEW s, Good(s), NEW l \in Lanes, Drives(s, l), NEW r, r = DetachCustom(s, l)
    PROVE  /\ Typed(r) /\ Sounding(r) = Sounding(s) /\ Len(r.voice) = Len(s.voice)
           /\ r.chan = s.chan /\ r.refused = s.refused
           /\ \A k \in Lanes : r.lane[k] = IF k = l THEN None ELSE s.lane[k]
           /\ \A v \in Sounding(s) : v # s.lane[l] => r.voice[v] = s.voice[v]
           /\ LET x == s.voice[s.lane[l]]
                  y == r.voice[s.lane[l]] IN
              /\ y.lane = x.lane /\ y.note = x.note /\ y.onset = x.onset /\ y.sound = x.sound /\ y.art = x.art
              /\ y.life = "Background" /\ y.tail
              /\ y.domain = IF l \in LiveLanes THEN "Live" ELSE "Custom"
<1> DEFINE u == s.lane[l]
           x == s.voice[u]
           New(z) == [z EXCEPT !.domain = IF @ = "Native" THEN "Custom" ELSE @, !.tail = TRUE]
           f == [v \in Sounding(s) |-> IF v \in {u} THEN New(s.voice[v]) ELSE s.voice[v]]
           q == [s EXCEPT !.voice = f]
<1>1. r = Detach(q, l)
  BY DEF DetachCustom, Mark
<1>2. /\ u \in Sounding(s) /\ x.life = "Foreground" /\ x.domain # "Custom"
      /\ x.domain = "Live" <=> l \in LiveLanes
      /\ Typed(s) /\ \A v \in Sounding(s) : s.voice[v] \in VoiceRecords
  BY DrivenIs, TypedParts DEF Good
<1>3. \A z \in VoiceRecords :
        /\ New(z) \in VoiceRecords /\ New(z).lane = z.lane /\ New(z).note = z.note
        /\ New(z).onset = z.onset /\ New(z).sound = z.sound /\ New(z).art = z.art /\ New(z).life = z.life
        /\ New(z).tail /\ New(z).domain = IF z.domain = "Native" THEN "Custom" ELSE z.domain
  BY DEF VoiceRecords, Domains
<1>4. x.domain \in {"Native", "Live"}
  BY <1>2 DEF VoiceRecords, Domains
<1> HIDE DEF New
<1>5. /\ f \in [Sounding(s) -> VoiceRecords]
      /\ \A v \in Sounding(s) : f[v] = IF v = u THEN New(s.voice[v]) ELSE s.voice[v]
  BY <1>2, <1>3
<1> HIDE DEF f
<1>6. /\ Typed(q) /\ Sounding(q) = Sounding(s) /\ Len(q.voice) = Len(s.voice)
      /\ q.voice = f /\ q.lane = s.lane /\ q.chan = s.chan /\ q.refused = s.refused
  BY <1>2, <1>5, Changes
<1> HIDE DEF q
<1>7. /\ Typed(r) /\ Sounding(r) = Sounding(q) /\ Len(r.voice) = Len(q.voice)
      /\ r.chan = q.chan /\ r.refused = q.refused
      /\ \A k \in Lanes : r.lane[k] = IF k = l THEN None ELSE q.lane[k]
      /\ \A v \in Sounding(q) :
           r.voice[v] = IF v = q.lane[l] /\ q.voice[v].life = "Foreground"
                        THEN [q.voice[v] EXCEPT !.life = "Background"] ELSE q.voice[v]
  BY <1>1, <1>6, DetachMakes
<1>8. /\ Typed(r) /\ Sounding(r) = Sounding(s) /\ Len(r.voice) = Len(s.voice)
      /\ r.chan = s.chan /\ r.refused = s.refused
      /\ \A k \in Lanes : r.lane[k] = IF k = l THEN None ELSE s.lane[k]
      /\ \A v \in Sounding(s) : v # u => r.voice[v] = s.voice[v]
  BY <1>5, <1>6, <1>7
<1>9. r.voice[u] = [New(x) EXCEPT !.life = "Background"]
  BY <1>2, <1>3, <1>5, <1>6, <1>7
<1>10. \A z \in VoiceRecords : LET y == [z EXCEPT !.life = "Background"] IN
         /\ y.lane = z.lane /\ y.note = z.note /\ y.onset = z.onset /\ y.sound = z.sound /\ y.art = z.art
         /\ y.life = "Background" /\ y.tail = z.tail /\ y.domain = z.domain
  BY DEF VoiceRecords
<1> HIDE DEF u, x
<1>11. LET y == r.voice[u] IN
       /\ y.lane = x.lane /\ y.note = x.note /\ y.onset = x.onset /\ y.sound = x.sound /\ y.art = x.art
       /\ y.life = "Background" /\ y.tail
       /\ y.domain = IF l \in LiveLanes THEN "Live" ELSE "Custom"
  <2>1. x \in VoiceRecords /\ New(x) \in VoiceRecords
    BY <1>2, <1>3 DEF x
  <2>2. /\ New(x).lane = x.lane /\ New(x).note = x.note /\ New(x).onset = x.onset
        /\ New(x).sound = x.sound /\ New(x).art = x.art /\ New(x).tail
        /\ New(x).domain = IF l \in LiveLanes THEN "Live" ELSE "Custom"
    BY <1>2, <1>3, <1>4, <2>1
  <2>3. /\ r.voice[u].lane = New(x).lane /\ r.voice[u].note = New(x).note
        /\ r.voice[u].onset = New(x).onset /\ r.voice[u].sound = New(x).sound
        /\ r.voice[u].art = New(x).art /\ r.voice[u].life = "Background"
        /\ r.voice[u].tail = New(x).tail /\ r.voice[u].domain = New(x).domain
    BY <1>9, <1>10, <2>1
  <2> QED BY <2>2, <2>3
<1> QED BY <1>8, <1>11 DEF u, x

DetachedTo(s, l, r) ==
  /\ Good(r) /\ TailsFrom(s, r) /\ Sounding(r) = Sounding(s) /\ r.chan = s.chan
  /\ \A k \in Lanes : r.lane[k] = IF k = l THEN None ELSE s.lane[k]
  /\ \A v \in Sounding(s) : /\ r.voice[v].art = s.voice[v].art /\ r.voice[v].lane = s.voice[v].lane
                            /\ v # s.lane[l] => r.voice[v] = s.voice[v]
  /\ Shaped(s) => Shaped(r)
  /\ \A on \in SUBSET SongLanes : Held(s, on) => Held(r, on \ {l})
  /\ (l \in SongLanes /\ Drives(s, l) => s.voice[s.lane[l]].art # "none") /\ Living(s, {})
       => Living(r, {})
  /\ \A d : Owned(r, d) = Owned(s, d) /\ Active(r, d) = Active(s, d)

LEMMA DetachKeeps ==
    ASSUME NEW s, Good(s), NEW l \in Lanes, NEW r, r = Detach(s, l)
    PROVE  DetachedTo(s, l, r)
<1>1. /\ Typed(r) /\ Sounding(r) = Sounding(s) /\ Len(r.voice) = Len(s.voice)
      /\ r.chan = s.chan /\ r.refused = s.refused
      /\ \A k \in Lanes : r.lane[k] = IF k = l THEN None ELSE s.lane[k]
      /\ \A v \in Sounding(s) :
           r.voice[v] = IF v = s.lane[l] /\ s.voice[v].life = "Foreground"
                        THEN [s.voice[v] EXCEPT !.life = "Background"] ELSE s.voice[v]
  BY DetachMakes DEF Good
<1>2. \A x \in VoiceRecords : LET y == [x EXCEPT !.life = "Background"] IN
        /\ y.lane = x.lane /\ y.note = x.note /\ y.domain = x.domain /\ y.life = "Background"
        /\ y.tail = x.tail /\ y.onset = x.onset /\ y.sound = x.sound /\ y.art = x.art
  BY DEF VoiceRecords
<1>3. /\ None \notin Sounding(s) /\ Stale \notin Sounding(s)
      /\ \A v \in Sounding(s) : s.voice[v] \in VoiceRecords
      /\ \A k \in SongLanes : s.chan[k] \in Sounding(s) \cup {None}
  BY TypedParts DEF Good
<1>4. ASSUME NEW v \in Sounding(s)
      PROVE  /\ r.voice[v].lane = s.voice[v].lane /\ r.voice[v].note = s.voice[v].note
             /\ r.voice[v].domain = s.voice[v].domain /\ r.voice[v].tail = s.voice[v].tail
             /\ r.voice[v].onset = s.voice[v].onset /\ r.voice[v].sound = s.voice[v].sound
             /\ r.voice[v].art = s.voice[v].art
             /\ r.voice[v].life = "Retiring" <=> s.voice[v].life = "Retiring"
             /\ v # s.lane[l] => r.voice[v] = s.voice[v]
             /\ v = s.lane[l] => r.voice[v].life = "Background" /\ s.voice[v].lane = l
  <2>1. /\ v # s.lane[l] => r.voice[v] = s.voice[v]
        /\ v = s.lane[l] => r.voice[v] = [s.voice[v] EXCEPT !.life = "Background"] /\ s.voice[v].lane = l
                            /\ s.voice[v].life = "Foreground"
    BY <1>1, DrivenIs DEF Drives
  <2>2. s.voice[v] \in VoiceRecords
    BY <1>3
  <2> QED BY <1>2, <2>1, <2>2
<1>5. \A d : Owned(r, d) = Owned(s, d) /\ Active(r, d) = Active(s, d)
  BY <1>1, <1>4 DEF Owned, Active
<1>6. TailsFrom(s, r)
  BY <1>1, <1>4 DEF TailsFrom
<1>7. Driven(r)
  <2> SUFFICES ASSUME NEW v \in Sounding(s), NEW k \in Lanes
               PROVE  r.lane[k] = v <=> r.voice[v].lane = k /\ r.voice[v].life = "Foreground"
    BY <1>1 DEF Driven
  <2>1. s.lane[k] = v <=> s.voice[v].lane = k /\ s.voice[v].life = "Foreground"
    BY DEF Good, Driven
  <2>2. s.lane[l] = v <=> s.voice[v].lane = l /\ s.voice[v].life = "Foreground"
    BY DEF Good, Driven
  <2> QED BY <1>1, <1>3, <1>4, <2>1, <2>2
<1>8. Rings(r)
  <2> SUFFICES ASSUME NEW v \in Sounding(s), NEW w \in Sounding(s), v # w, r.voice[w].tail,
                      r.voice[v].tail \/ r.voice[v].life = "Foreground", r.voice[v].lane = r.voice[w].lane
               PROVE  r.voice[v].onset # r.voice[w].onset
    BY <1>1 DEF Rings
  <2>1. s.voice[w].tail /\ (s.voice[v].tail \/ s.voice[v].life = "Foreground")
    BY <1>4
  <2> QED BY <1>4, <2>1 DEF Good, Rings
<1>9. \A v \in Sounding(s) : Sound(r.voice[v]) /\ (r.voice[v].tail => overlap)
  <2> SUFFICES ASSUME NEW v \in Sounding(s) PROVE Sound(r.voice[v]) /\ (r.voice[v].tail => overlap)
    OBVIOUS
  <2>1. Sound(s.voice[v]) /\ (s.voice[v].tail => overlap)
    BY DEF Good
  <2>2. v = s.lane[l] => ~s.voice[v].tail
    BY DrivenIs DEF Drives
  <2> QED BY <1>4, <2>1, <2>2 DEF Sound
<1>10. Prepared => Budget(r)
  BY <1>5 DEF Good, Budget
<1>11. Good(r)
  BY <1>1, <1>7, <1>8, <1>9, <1>10 DEF Good
<1>12. Shaped(s) => Shaped(r)
  BY <1>1, <1>4 DEF Shaped
<1>13. ASSUME NEW on \in SUBSET SongLanes, Held(s, on) PROVE Held(r, on \ {l})
  BY <1>1, <1>3, <1>4, <1>13 DEF Held, Lanes
<1>14. ASSUME l \in SongLanes /\ Drives(s, l) => s.voice[s.lane[l]].art # "none", Living(s, {})
       PROVE  Living(r, {})
  <2> SUFFICES ASSUME Interactive, NEW v \in Sounding(s) PROVE Alive(r.voice[v])
    BY <1>1 DEF Living
  <2>1. Alive(s.voice[v])
    BY <1>14 DEF Living
  <2>2. CASE v # s.lane[l]
    BY <1>4, <2>1, <2>2
  <2>3. CASE v = s.lane[l] /\ l \in SongLanes
    BY <1>4, <1>14, <2>3 DEF Drives, Alive
  <2>4. CASE v = s.lane[l] /\ l \in LiveLanes
    <3>1. s.voice[v].domain = "Live"
      BY <2>4, DrivenIs DEF Drives
    <3> QED BY <1>4, <2>1, <3>1 DEF Alive
  <2> QED BY <2>2, <2>3, <2>4 DEF Lanes
<1>15. \A v \in Sounding(s) : /\ r.voice[v].art = s.voice[v].art /\ r.voice[v].lane = s.voice[v].lane
                              /\ v # s.lane[l] => r.voice[v] = s.voice[v]
  BY <1>4
<1> QED BY <1>1, <1>5, <1>6, <1>11, <1>12, <1>13, <1>14, <1>15 DEF DetachedTo

TailedTo(s, l, r) ==
  /\ Good(r) /\ Sounding(r) = Sounding(s) /\ r.chan = s.chan
  /\ \A k \in Lanes : r.lane[k] = IF k = l THEN None ELSE s.lane[k]
  /\ \A v \in Sounding(s) : r.voice[v].lane = s.voice[v].lane
  /\ Shaped(s) => Shaped(r)
  /\ \A on \in SUBSET SongLanes : Held(s, on) => Held(r, on \ {l})
  /\ Living(s, {}) => Living(r, {})

LEMMA DetachCustomKeeps ==
    ASSUME NEW s, Good(s), NEW l \in Lanes, Candidate(s, s.lane[l]),
           Prepared /\ l \in SongLanes => /\ Cardinality(Active(s, "Custom")) < Limit["Custom"]
                                          /\ Cardinality(Owned(s, "Custom")) < Room["Custom"],
           NEW r, r = DetachCustom(s, l)
    PROVE  TailedTo(s, l, r)
<1> DEFINE u == s.lane[l]
<1>1. /\ u \in Sounding(s) /\ overlap /\ s.voice[u].onset # None /\ s.voice[u].sound = "on"
      /\ s.voice[u].note \notin Looping /\ Drives(s, l)
  BY DEF Candidate, Drives
<1>2. /\ s.voice[u].lane = l /\ s.voice[u].life = "Foreground" /\ ~s.voice[u].tail
      /\ s.voice[u].domain # "Custom" /\ (s.voice[u].domain = "Live" <=> l \in LiveLanes)
  BY <1>1, DrivenIs
<1>3. /\ Typed(r) /\ Sounding(r) = Sounding(s) /\ Len(r.voice) = Len(s.voice)
      /\ r.chan = s.chan /\ r.refused = s.refused
      /\ \A k \in Lanes : r.lane[k] = IF k = l THEN None ELSE s.lane[k]
      /\ \A v \in Sounding(s) : v # u => r.voice[v] = s.voice[v]
      /\ r.voice[u].lane = s.voice[u].lane /\ r.voice[u].note = s.voice[u].note
      /\ r.voice[u].onset = s.voice[u].onset /\ r.voice[u].sound = s.voice[u].sound
      /\ r.voice[u].art = s.voice[u].art /\ r.voice[u].life = "Background" /\ r.voice[u].tail
      /\ r.voice[u].domain = IF l \in LiveLanes THEN "Live" ELSE "Custom"
  BY <1>1, DetachCustomMakes
<1>4. /\ None \notin Sounding(s) /\ Stale \notin Sounding(s)
      /\ \A v \in Sounding(s) : s.voice[v] \in VoiceRecords
      /\ \A k \in SongLanes : s.chan[k] \in Sounding(s) \cup {None}
  BY TypedParts DEF Good
<1> HIDE DEF u
<1>5. Prepared => Budget(r)
  <2> SUFFICES ASSUME Prepared PROVE Budget(r)
    OBVIOUS
  <2>1. CASE l \in LiveLanes
    <3>1. \A d : Owned(r, d) = Owned(s, d) /\ Active(r, d) = Active(s, d)
      BY <1>1, <1>2, <1>3, <2>1 DEF Owned, Active
    <3> QED BY <3>1 DEF Good, Budget
  <2>2. CASE l \notin LiveLanes
    <3>1. l \in SongLanes
      BY <2>2 DEF Lanes
    <3>2. Owned(r, "Custom") = Owned(s, "Custom") \cup {u} /\ Active(r, "Custom") = Active(s, "Custom") \cup {u}
      BY <1>1, <1>2, <1>3, <2>2 DEF Owned, Active
    <3>3. \A d : d # "Custom" => Owned(r, d) \in SUBSET Owned(s, d) /\ Active(r, d) \in SUBSET Active(s, d)
      BY <1>1, <1>2, <1>3, <2>2 DEF Owned, Active
    <3>4. Cardinality(Active(r, "Custom")) <= Limit["Custom"] /\ Cardinality(Owned(r, "Custom")) <= Room["Custom"]
      <4>1. /\ IsFiniteSet(Owned(s, "Custom")) /\ Cardinality(Owned(s, "Custom")) \in Nat
            /\ IsFiniteSet(Active(s, "Custom")) /\ Cardinality(Active(s, "Custom")) \in Nat
        BY Counted DEF Good
      <4>2. Limit["Custom"] \in Nat /\ Room["Custom"] \in Nat
        BY Rooms DEF Domains
      <4>3. /\ Cardinality(Active(r, "Custom")) <= Cardinality(Active(s, "Custom")) + 1
            /\ Cardinality(Owned(r, "Custom")) <= Cardinality(Owned(s, "Custom")) + 1
            /\ Cardinality(Active(r, "Custom")) \in Nat /\ Cardinality(Owned(r, "Custom")) \in Nat
        <5>1. /\ Cardinality(Active(s, "Custom") \cup {u}) <= Cardinality(Active(s, "Custom")) + 1
              /\ Cardinality(Owned(s, "Custom") \cup {u}) <= Cardinality(Owned(s, "Custom")) + 1
          BY <4>1, OneMore
        <5> QED BY <1>3, <3>2, <5>1, Counted
      <4>4. /\ Cardinality(Active(s, "Custom")) < Limit["Custom"]
            /\ Cardinality(Owned(s, "Custom")) < Room["Custom"]
        BY <3>1
      <4>5. Cardinality(Active(r, "Custom")) <= Limit["Custom"]
        BY <4>1, <4>2, <4>3, <4>4
      <4>6. Cardinality(Owned(r, "Custom")) <= Room["Custom"]
        BY <4>1, <4>2, <4>3, <4>4
      <4> QED BY <4>5, <4>6
    <3>5. ASSUME NEW d \in Domains, d # "Custom"
          PROVE  Cardinality(Active(r, d)) <= Limit[d] /\ Cardinality(Owned(r, d)) <= Room[d]
      <4>1. /\ IsFiniteSet(Owned(s, d)) /\ Cardinality(Owned(s, d)) \in Nat
            /\ IsFiniteSet(Active(s, d)) /\ Cardinality(Active(s, d)) \in Nat
            /\ Cardinality(Owned(r, d)) \in Nat /\ Cardinality(Active(r, d)) \in Nat
        BY <1>3, Counted DEF Good
      <4>2. Limit[d] \in Nat /\ Room[d] \in Nat
        BY Rooms
      <4>3. /\ Cardinality(Active(r, d)) <= Cardinality(Active(s, d))
            /\ Cardinality(Owned(r, d)) <= Cardinality(Owned(s, d))
        BY <3>3, <3>5, <4>1, FS_Subset
      <4>4. Cardinality(Active(s, d)) <= Limit[d] /\ Cardinality(Owned(s, d)) <= Room[d]
        BY DEF Good, Budget
      <4>5. Cardinality(Active(r, d)) <= Limit[d]
        BY <4>1, <4>2, <4>3, <4>4
      <4>6. Cardinality(Owned(r, d)) <= Room[d]
        BY <4>1, <4>2, <4>3, <4>4
      <4> QED BY <4>5, <4>6
    <3> QED BY <3>4, <3>5 DEF Budget
  <2> QED BY <2>1, <2>2
<1>6. Driven(r)
  <2> SUFFICES ASSUME NEW v \in Sounding(s), NEW k \in Lanes
               PROVE  r.lane[k] = v <=> r.voice[v].lane = k /\ r.voice[v].life = "Foreground"
    BY <1>3 DEF Driven
  <2>1. s.lane[k] = v <=> s.voice[v].lane = k /\ s.voice[v].life = "Foreground"
    BY DEF Good, Driven
  <2> QED BY <1>2, <1>3, <1>4, <2>1 DEF u
<1>7. Rings(r)
  <2> SUFFICES ASSUME NEW v \in Sounding(s), NEW w \in Sounding(s), v # w, r.voice[w].tail,
                      r.voice[v].tail \/ r.voice[v].life = "Foreground", r.voice[v].lane = r.voice[w].lane
               PROVE  r.voice[v].onset # r.voice[w].onset
    BY <1>3 DEF Rings
  <2>1. \A a, b \in Sounding(s) :
          a # b /\ s.voice[b].tail /\ (s.voice[a].tail \/ s.voice[a].life = "Foreground")
            /\ s.voice[a].lane = s.voice[b].lane => s.voice[a].onset # s.voice[b].onset
    BY DEF Good, Rings
  <2>2. CASE w # u
    <3>1. s.voice[w].tail /\ (s.voice[v].tail \/ s.voice[v].life = "Foreground")
      BY <1>2, <1>3, <2>2
    <3> QED BY <1>3, <2>1, <2>2, <3>1
  <2>3. CASE w = u
    <3>1. r.voice[v] = s.voice[v] /\ s.voice[v].lane = l
      BY <1>2, <1>3, <2>3
    <3>2. s.voice[v].life # "Foreground"
      BY <2>3, <3>1 DEF Good, Driven, u
    <3>3. s.voice[v].tail
      BY <3>1, <3>2
    <3>4. s.voice[u].onset # s.voice[v].onset
      BY <1>1, <1>2, <2>1, <2>3, <3>1, <3>3
    <3> QED BY <1>3, <2>3, <3>1, <3>4
  <2> QED BY <2>2, <2>3
<1>8. \A v \in Sounding(s) : Sound(r.voice[v]) /\ (r.voice[v].tail => overlap)
  BY <1>1, <1>2, <1>3 DEF Good, Sound
<1>9. Good(r)
  BY <1>3, <1>5, <1>6, <1>7, <1>8 DEF Good
<1>10. Shaped(s) => Shaped(r)
  BY <1>1, <1>3 DEF Shaped
<1>11. ASSUME NEW on \in SUBSET SongLanes, Held(s, on) PROVE Held(r, on \ {l})
  <2> SUFFICES ASSUME NEW k \in on \ {l}, r.chan[k] # None
               PROVE  r.lane[k] = r.chan[k] /\ r.voice[r.chan[k]].art = "fore"
    BY DEF Held
  <2>1. s.chan[k] \in Sounding(s) /\ s.lane[k] = s.chan[k] /\ s.voice[s.chan[k]].art = "fore" /\ k \in Lanes
    BY <1>3, <1>4, <1>11 DEF Held, Lanes
  <2> QED BY <1>3, <2>1
<1>12. Living(s, {}) => Living(r, {})
  BY <1>1, <1>3 DEF Living, Alive
<1>13. \A v \in Sounding(s) : r.voice[v].lane = s.voice[v].lane
  BY <1>3
<1> QED BY <1>3, <1>9, <1>10, <1>11, <1>12, <1>13 DEF TailedTo

-----------------------------------------------------------------------------
(* Admission *)

ReleasedTo(s, gone, r) ==
  /\ Good(r) /\ TailsFrom(s, r)
  /\ Shaped(s) => Shaped(r)
  /\ \A some \in SUBSET SongLanes : Held(s, some) => Held(r, some)
  /\ Living(s, {}) => Living(r, {})
  /\ \A l \in Lanes : IF s.lane[l] \in gone /\ Drives(s, l) THEN r.lane[l] = Stale ELSE Stays(s, r, l)
  /\ \A l \in SongLanes :
       s.chan[l] = None \/ (s.chan[l] \in gone /\ s.chan[l] \in Sounding(s)) => r.chan[l] = None
  /\ \A d : /\ Cardinality(Owned(r, d)) <= Cardinality(Owned(s, d) \ gone)
            /\ Cardinality(Active(r, d)) <= Cardinality(Active(s, d) \ gone)

LEMMA ReleaseDoes ==
    ASSUME NEW s, Good(s), NEW gone, gone \subseteq Sounding(s) \/ gone \cap Sounding(s) = {},
           NEW r, r = Release(s, gone)
    PROVE  ReleasedTo(s, gone, r)
<1> DEFINE real == gone \cap Sounding(s)
<1>1. PICK m : Typed(r) /\ Moves(s, r, real, m)
  BY ReleaseMoves DEF Good
<1>2. real \subseteq Sounding(s)
  OBVIOUS
<1>4. \A d : Owned(s, d) \ gone = Owned(s, d) \ real /\ Active(s, d) \ gone = Active(s, d) \ real
  <2> TAKE d
  <2>1. Active(s, d) \subseteq Sounding(s) /\ Owned(s, d) \subseteq Sounding(s)
    BY DEF Owned, Active
  <2> DEFINE A == Active(s, d)
             B == Owned(s, d)
  <2>2. A \subseteq Sounding(s) /\ B \subseteq Sounding(s)
    BY <2>1
  <2> HIDE DEF A, B
  <2>3. A \ gone = A \ real
    BY <2>2
  <2>4. B \ gone = B \ real
    BY <2>2
  <2> QED BY <2>3, <2>4 DEF A, B
<1>5. /\ \A l \in Lanes : s.lane[l] \in real <=> s.lane[l] \in gone /\ Drives(s, l)
      /\ \A l \in SongLanes : s.chan[l] = None \/ (s.chan[l] \in gone /\ s.chan[l] \in Sounding(s))
                                => s.chan[l] \in real \cup {None}
  BY DEF Drives
<1> HIDE DEF real
<1>6. Good(r) /\ TailsFrom(s, r) /\ (Shaped(s) => Shaped(r)) /\ (Living(s, {}) => Living(r, {}))
  BY <1>1, <1>2, ReleaseKeeps
<1>7. \A some \in SUBSET SongLanes : Held(s, some) => Held(r, some)
  BY <1>1, <1>2, ReleaseKeeps
<1>8. \A l \in Lanes : IF s.lane[l] \in real THEN r.lane[l] = Stale ELSE Stays(s, r, l)
  BY <1>1, <1>2, ReleaseKeeps
<1>9. \A l \in SongLanes : s.chan[l] \in real \cup {None} => r.chan[l] = None
  BY <1>1, <1>2, ReleaseKeeps
<1>10. \A d : /\ Cardinality(Owned(r, d)) <= Cardinality(Owned(s, d) \ gone)
              /\ Cardinality(Active(r, d)) <= Cardinality(Active(s, d) \ gone)
  <2>1. \A d : Cardinality(Owned(r, d)) <= Cardinality(Owned(s, d) \ real)
    BY <1>1, <1>2, ReleaseKeeps
  <2>2. \A d : Cardinality(Active(r, d)) <= Cardinality(Active(s, d) \ real)
    BY <1>1, <1>2, ReleaseKeeps
  <2> QED BY <1>4, <2>1, <2>2
<1>11. \A l \in Lanes : IF s.lane[l] \in gone /\ Drives(s, l) THEN r.lane[l] = Stale ELSE Stays(s, r, l)
  BY <1>5, <1>8
<1>12. \A l \in SongLanes :
         s.chan[l] = None \/ (s.chan[l] \in gone /\ s.chan[l] \in Sounding(s)) => r.chan[l] = None
  BY <1>5, <1>9
<1> QED BY <1>6, <1>7, <1>10, <1>11, <1>12 DEF ReleasedTo

\* The voices are those of the three domains.
LEMMA LenIsSum ==
    ASSUME NEW s, Typed(s)
    PROVE  Len(s.voice) = Cardinality(Owned(s, "Native")) + Cardinality(Owned(s, "Custom"))
                            + Cardinality(Owned(s, "Live"))
<1> DEFINE A == Owned(s, "Native")
           B == Owned(s, "Custom")
           C == Owned(s, "Live")
<1>1. \A v \in Sounding(s) : s.voice[v].domain \in Domains
  BY TypedParts DEF VoiceRecords
<1>2. Sounding(s) = (A \cup B) \cup C /\ A \cap B = {} /\ (A \cup B) \cap C = {}
  BY <1>1 DEF Owned, Domains
<1>3. /\ IsFiniteSet(A) /\ IsFiniteSet(B) /\ IsFiniteSet(C) /\ Cardinality(Sounding(s)) = Len(s.voice)
      /\ Cardinality(A) \in Nat /\ Cardinality(B) \in Nat /\ Cardinality(C) \in Nat
  BY Counted
<1> HIDE DEF A, B, C
<1>4. /\ IsFiniteSet(A \cup B)
      /\ Cardinality(A \cup B) = Cardinality(A) + Cardinality(B) - Cardinality({})
  BY <1>2, <1>3, FS_Union
<1>5. Cardinality((A \cup B) \cup C) = Cardinality(A \cup B) + Cardinality(C) - Cardinality({})
  BY <1>2, <1>3, <1>4, FS_Union
<1>6. Cardinality({}) = 0
  BY FS_EmptySet
<1>7. Cardinality(A \cup B) = Cardinality(A) + Cardinality(B)
  BY <1>3, <1>4, <1>6
<1>8. Cardinality(Sounding(s)) = Cardinality(A) + Cardinality(B) + Cardinality(C)
  BY <1>2, <1>3, <1>5, <1>6, <1>7
<1> QED BY <1>3, <1>8 DEF A, B, C

\* A domain that has room, in budget, leaves room in the pool.
LEMMA RoomInPool ==
    ASSUME NEW s, Good(s), Prepared, NEW d \in Domains, Cardinality(Owned(s, d)) < Room[d]
    PROVE  Len(s.voice) < Pool
<1>1. \A e \in Domains : /\ Cardinality(Owned(s, e)) \in Nat /\ Room[e] \in Nat
                         /\ Cardinality(Owned(s, e)) <= Room[e]
  BY Counted, Rooms DEF Good, Budget
<1>2. Len(s.voice) = Cardinality(Owned(s, "Native")) + Cardinality(Owned(s, "Custom"))
                       + Cardinality(Owned(s, "Live"))
  BY LenIsSum DEF Good
<1>3. Pool = Room["Native"] + Room["Custom"] + Room["Live"]
  BY PoolAssumption
<1>4. Domains = {"Native", "Custom", "Live"}
  BY DEF Domains
<1> DEFINE a == Cardinality(Owned(s, "Native"))
           b == Cardinality(Owned(s, "Custom"))
           c == Cardinality(Owned(s, "Live"))
<1>5. /\ a \in Nat /\ b \in Nat /\ c \in Nat
      /\ Room["Native"] \in Nat /\ Room["Custom"] \in Nat /\ Room["Live"] \in Nat
      /\ a <= Room["Native"] /\ b <= Room["Custom"] /\ c <= Room["Live"]
  BY <1>1, <1>4
<1>6. a < Room["Native"] \/ b < Room["Custom"] \/ c < Room["Live"]
  BY <1>4
<1> HIDE DEF a, b, c
<1>7. a + b + c < Room["Native"] + Room["Custom"] + Room["Live"]
  BY <1>5, <1>6
<1> QED BY <1>2, <1>3, <1>7 DEF a, b, c

\* Two steps of which each leaves a lane with its voice.
LEMMA StaysOn ==
    ASSUME NEW s, NEW q, NEW r, NEW l, Stays(s, q, l), Stays(q, r, l), Drives(q, l) => Drives(s, l)
    PROVE  Stays(s, r, l)
BY DEF Stays

LEMMA TailsOn ==
    ASSUME NEW s, NEW q, NEW r, TailsFrom(s, q), TailsFrom(q, r)
    PROVE  TailsFrom(s, r)
<1> SUFFICES ASSUME NEW w \in Sounding(r), r.voice[w].tail
             PROVE  \E v \in Sounding(s) : /\ s.voice[v].tail /\ s.voice[v].lane = r.voice[w].lane
                                           /\ s.voice[v].onset = r.voice[w].onset
  BY DEF TailsFrom
<1>1. PICK u \in Sounding(q) : q.voice[u].tail /\ q.voice[u].lane = r.voice[w].lane
                               /\ q.voice[u].onset = r.voice[w].onset
  BY DEF TailsFrom
<1> QED BY <1>1 DEF TailsFrom

AdmittedTo(s, d, victim, a, r) ==
  /\ Good(r) /\ TailsFrom(s, r)
  /\ (Shaped(s) => Shaped(r)) /\ (Living(s, {}) => Living(r, {}))
  /\ \A on \in SUBSET SongLanes :
       Held(s, on) /\ (\A l \in on : s.chan[l] = None \/ s.chan[l] # victim) => Held(r, on)
  /\ \A l \in Lanes : s.lane[l] = None \/ s.lane[l] # victim => Stays(s, r, l)
  /\ a.ok \in BOOLEAN
  /\ a.ok => /\ Cardinality(Active(r, d)) < Limit[d] /\ Cardinality(Owned(r, d)) < Room[d]
             /\ Len(r.voice) < Pool
  /\ Interactive /\ Limit[d] > 0 /\ (victim # None \/ Cardinality(Active(s, d)) < Limit[d]) => a.ok

LEMMA AdmissionDoes ==
    ASSUME NEW s, Good(s), Prepared, NEW d \in Domains, NEW victim \in Active(s, d) \cup {None},
           NEW a, a = Admission(s, d, victim), NEW r, r = a.state
    PROVE  AdmittedTo(s, d, victim, a, r)
<1> DEFINE full == Cardinality(Owned(s, d)) >= Room[d]
           retiring == RetiringIn(s, d)
           gone == IF full THEN {Min(retiring)} ELSE {}
           q == Retire(s, {victim})
           after == Release(q, gone)
           refuse == \/ Limit[d] = 0
                     \/ Cardinality(Active(s, d)) >= Limit[d] /\ victim = None
                     \/ full /\ retiring = {}
<1>1. a = IF refuse THEN [ok |-> FALSE, state |-> s] ELSE [ok |-> Len(after.voice) < Pool, state |-> after]
  BY DEF Admission
<1>2. /\ IsFiniteSet(Owned(s, d)) /\ Cardinality(Owned(s, d)) \in Nat
      /\ IsFiniteSet(Active(s, d)) /\ Cardinality(Active(s, d)) \in Nat
      /\ Active(s, d) \subseteq Owned(s, d) /\ Owned(s, d) \subseteq Sounding(s)
      /\ Cardinality(Active(s, d)) <= Limit[d] /\ Cardinality(Owned(s, d)) <= Room[d]
      /\ Limit[d] \in Nat /\ Room[d] \in Nat
      /\ Interactive /\ Limit[d] > 0 => Room[d] = Limit[d] + 1
  <2>1. /\ Cardinality(Active(s, d)) <= Limit[d] /\ Cardinality(Owned(s, d)) <= Room[d]
        /\ Typed(s)
    BY DEF Good, Budget
  <2> QED BY <2>1, Counted, Rooms
<1>3. /\ None \notin Sounding(s) /\ Stale \notin Sounding(s) /\ Sounding(s) \subseteq Nat
      /\ \A l \in Lanes : s.lane[l] \in Sounding(s) \cup {None, Stale}
      /\ \A l \in SongLanes : s.chan[l] \in Sounding(s) \cup {None}
  BY TypedParts DEF Good
<1>4. CASE refuse
  <2>1. a.ok = FALSE /\ r = s
    BY <1>1, <1>4
  <2>2. TailsFrom(s, s) /\ \A l \in Lanes : Stays(s, s, l)
    BY DEF TailsFrom, Stays
  <2>3. ~(Interactive /\ Limit[d] > 0 /\ (victim # None \/ Cardinality(Active(s, d)) < Limit[d]))
    <3> SUFFICES ASSUME Interactive, Limit[d] > 0, victim # None \/ Cardinality(Active(s, d)) < Limit[d]
                 PROVE  FALSE
      OBVIOUS
    <3>1. full /\ retiring = {}
      BY <1>2, <1>4
    <3>2. Owned(s, d) = Active(s, d)
      BY <1>2, <3>1 DEF RetiringIn
    <3> QED BY <1>2, <3>1, <3>2
  <2> QED BY <2>1, <2>2, <2>3 DEF AdmittedTo
<1>5. CASE ~refuse
  <2>1. r = after /\ (a.ok <=> Len(r.voice) < Pool) /\ a.ok \in BOOLEAN
    <3> DEFINE fits == Len(after.voice) < Pool
    <3>1. a = [ok |-> fits, state |-> after]
      BY <1>1, <1>5
    <3> HIDE DEF fits, after
    <3>2. r = after /\ a.ok = fits
      BY <3>1
    <3>3. fits <=> Len(after.voice) < Pool
      BY DEF fits
    <3>4. fits \in BOOLEAN
      BY DEF fits
    <3> QED BY <3>2, <3>3, <3>4
  <2>2. /\ gone \subseteq RetiringIn(s, d)
        /\ full => \E v \in RetiringIn(s, d) : gone = {v}
    <3>1. RetiringIn(s, d) \subseteq Nat
      BY <1>2, <1>3 DEF RetiringIn
    <3>2. full => Min(RetiringIn(s, d)) \in RetiringIn(s, d)
      BY <1>5, <3>1, MinOfSome
    <3> QED BY <3>2
  <2> HIDE DEF gone
  <2>23. RetiredTo(s, {victim}, q)
    BY RetireKeeps
  <2>3. Good(q) /\ TailsFrom(s, q) /\ (Shaped(s) => Shaped(q)) /\ (Living(s, {}) => Living(q, {}))
    BY <2>23 DEF RetiredTo
  <2>4. Sounding(q) = Sounding(s) /\ q.chan = s.chan
    BY <2>23 DEF RetiredTo
  <2>5. \A e : Owned(q, e) = Owned(s, e) /\ Active(q, e) = Active(s, e) \ {victim}
    BY <2>23 DEF RetiredTo
  <2>6. \A on \in SUBSET SongLanes :
          Held(s, on) /\ (\A l \in on : s.chan[l] \notin {victim} \cap Sounding(s)) => Held(q, on)
    BY <2>23 DEF RetiredTo
  <2>7. \A l \in Lanes : s.lane[l] \notin {victim} \cap Sounding(s) => Stays(s, q, l)
    BY <2>23 DEF RetiredTo
  <2> HIDE DEF q
  <2>8. gone \subseteq Sounding(q) /\ gone \subseteq Owned(q, d) \ Active(s, d)
    BY <1>2, <2>2, <2>4, <2>5 DEF RetiringIn
  <2>22. ReleasedTo(q, gone, r)
    BY <2>1, <2>3, <2>8, ReleaseDoes
  <2>9. Good(r) /\ TailsFrom(q, r) /\ (Shaped(q) => Shaped(r)) /\ (Living(q, {}) => Living(r, {}))
    BY <2>22 DEF ReleasedTo
  <2>10. \A on \in SUBSET SongLanes : Held(q, on) => Held(r, on)
    BY <2>22 DEF ReleasedTo
  <2>11. \A l \in Lanes : IF q.lane[l] \in gone /\ Drives(q, l) THEN r.lane[l] = Stale ELSE Stays(q, r, l)
    BY <2>22 DEF ReleasedTo
  <2>12. Cardinality(Owned(r, d)) <= Cardinality(Owned(q, d) \ gone)
    BY <2>22 DEF ReleasedTo
  <2>13. Cardinality(Active(r, d)) <= Cardinality(Active(q, d) \ gone)
    BY <2>22 DEF ReleasedTo
  <2>14. TailsFrom(s, r)
    BY <2>3, <2>9, TailsOn
  <2>15. \A on \in SUBSET SongLanes :
           Held(s, on) /\ (\A l \in on : s.chan[l] = None \/ s.chan[l] # victim) => Held(r, on)
    BY <1>3, <2>6, <2>10
  <2>16. ASSUME NEW l \in Lanes, s.lane[l] = None \/ s.lane[l] # victim PROVE Stays(s, r, l)
    <3>1. Stays(s, q, l)
      BY <1>3, <2>7, <2>16
    <3>2. Drives(q, l) => Drives(s, l)
      BY <2>4, <3>1 DEF Stays, Drives
    <3>3. Stays(q, r, l)
      <4> SUFFICES ASSUME q.lane[l] \in gone, Drives(q, l) PROVE FALSE
        BY <2>11
      <4>1. q.voice[q.lane[l]].life = "Foreground"
        BY <2>3, DrivenIs
      <4>2. q.lane[l] \in Active(q, d)
        BY <2>8, <4>1 DEF Active
      <4> QED BY <2>5, <2>8, <4>2
    <3> QED BY <3>1, <3>2, <3>3, StaysOn
  <2>17. Cardinality(Active(r, d)) < Limit[d]
    <3>1. Active(q, d) \ gone \in SUBSET (Active(s, d) \ {victim})
      BY <2>5
    <3>2. IsFiniteSet(Active(s, d) \ {victim})
          /\ Cardinality(Active(s, d) \ {victim}) = IF victim \in Active(s, d) THEN Cardinality(Active(s, d)) - 1
                                                    ELSE Cardinality(Active(s, d))
      BY <1>2, FS_RemoveElement
    <3>3. Cardinality(Active(q, d) \ gone) <= Cardinality(Active(s, d) \ {victim})
          /\ Cardinality(Active(q, d) \ gone) \in Nat
      BY <3>1, <3>2, FS_Subset, FS_CardinalityType
    <3>4. Cardinality(Active(r, d)) \in Nat
      BY <2>9, Counted DEF Good
    <3>5. Cardinality(Active(s, d) \ {victim}) < Limit[d] /\ Cardinality(Active(s, d) \ {victim}) \in Int
      <4>1. victim = None \/ victim \in Active(s, d)
        OBVIOUS
      <4> QED BY <1>2, <1>3, <1>5, <3>2, <4>1
    <3> QED BY <1>2, <2>13, <3>3, <3>4, <3>5
  <2>18. Cardinality(Owned(r, d)) < Room[d]
    <3>1. Cardinality(Owned(r, d)) \in Nat
      BY <2>9, Counted DEF Good
    <3>2. CASE full
      <4>1. PICK v \in Owned(s, d) : gone = {v}
        BY <2>2, <3>2 DEF RetiringIn
      <4>2. Cardinality(Owned(s, d) \ {v}) = Cardinality(Owned(s, d)) - 1
        BY <1>2, FS_RemoveElement
      <4>3. Cardinality(Owned(r, d)) <= Cardinality(Owned(s, d)) - 1
        BY <2>5, <2>12, <4>1, <4>2
      <4> QED BY <1>2, <3>1, <4>3
    <3>3. CASE ~full
      <4>1. Owned(s, d) \ gone \in SUBSET Owned(s, d)
        OBVIOUS
      <4>2. Cardinality(Owned(s, d) \ gone) <= Cardinality(Owned(s, d)) /\ Cardinality(Owned(s, d) \ gone) \in Nat
        BY <1>2, <4>1, FS_Subset, FS_CardinalityType
      <4>3. Cardinality(Owned(r, d)) <= Cardinality(Owned(s, d) \ gone)
        BY <2>5, <2>12
      <4> QED BY <1>2, <3>1, <3>3, <4>2, <4>3
    <3> QED BY <3>2, <3>3
  <2>19. Len(r.voice) < Pool
    BY <2>9, <2>18, RoomInPool
  <2>20. (Shaped(s) => Shaped(r)) /\ (Living(s, {}) => Living(r, {}))
    BY <2>3, <2>9
  <2>21. \A l \in Lanes : s.lane[l] = None \/ s.lane[l] # victim => Stays(s, r, l)
    BY <2>16
  <2> QED BY <2>1, <2>9, <2>14, <2>15, <2>17, <2>18, <2>19, <2>20, <2>21 DEF AdmittedTo
<1> QED BY <1>4, <1>5

-----------------------------------------------------------------------------
(* Starting a voice *)

\* A lane that drives no voice drops its handle.
Idled(s, l, r) ==
  /\ Good(r) /\ TailsFrom(s, r)
  /\ r.lane[l] = None /\ (\A k \in Lanes : k # l => r.lane[k] = s.lane[k])
  /\ (Shaped(s) => Shaped(r)) /\ (Living(s, {}) => Living(r, {}))
  /\ \A on \in SUBSET SongLanes : Held(s, on) => Held(r, on)
  /\ Held(s, {l} \cap SongLanes) /\ l \in SongLanes => r.chan[l] = None
  /\ \A d : Owned(r, d) = Owned(s, d) /\ Active(r, d) = Active(s, d)

LEMMA IdleLane ==
    ASSUME NEW s, Good(s), NEW l \in Lanes, ~Drives(s, l), NEW r, r = Drive(s, l, None)
    PROVE  Idled(s, l, r)
<1>1. /\ Typed(r) /\ Sounding(r) = Sounding(s)
      /\ r.voice = s.voice /\ r.chan = s.chan /\ r.refused = s.refused
      /\ \A k \in Lanes : r.lane[k] = IF k = l THEN None ELSE s.lane[k]
  BY DriveMakes DEF Good
<1>2. /\ None \notin Sounding(s) /\ Stale \notin Sounding(s)
      /\ \A k \in SongLanes : s.chan[k] \in Sounding(s) \cup {None}
  BY TypedParts DEF Good
<1>3. \A d : Owned(r, d) = Owned(s, d) /\ Active(r, d) = Active(s, d)
  BY <1>1 DEF Owned, Active
<1>4. Driven(r)
  BY <1>1, <1>2 DEF Good, Driven, Drives
<1>5. Good(r)
  <2>1. Rings(r)
    BY <1>1 DEF Good, Rings
  <2>2. Prepared => Budget(r)
    BY <1>3 DEF Good, Budget
  <2>3. \A v \in Sounding(r) : Sound(r.voice[v]) /\ (r.voice[v].tail => overlap)
    BY <1>1 DEF Good
  <2> QED BY <1>1, <1>4, <2>1, <2>2, <2>3 DEF Good
<1>6. TailsFrom(s, r) /\ (Shaped(s) => Shaped(r)) /\ (Living(s, {}) => Living(r, {}))
  BY <1>1 DEF TailsFrom, Shaped, Living
<1>7. ASSUME l \in SongLanes, s.chan[l] # None PROVE s.lane[l] # s.chan[l]
  BY <1>2, <1>7 DEF Drives
<1>8. ASSUME NEW on \in SUBSET SongLanes, Held(s, on) PROVE Held(r, on)
  BY <1>1, <1>7, <1>8 DEF Held, Lanes
<1>9. Held(s, {l} \cap SongLanes) /\ l \in SongLanes => r.chan[l] = None
  BY <1>1, <1>7 DEF Held
<1>10. r.lane[l] = None /\ \A k \in Lanes : k # l => r.lane[k] = s.lane[k]
  BY <1>1
<1> QED BY <1>3, <1>5, <1>6, <1>8, <1>9, <1>10 DEF Idled

\* The lane's voice is released.
EmptiedTo(s, l, r) ==
  /\ Good(r) /\ TailsFrom(s, r) /\ r.lane[l] = None
  /\ (Shaped(s) => Shaped(r)) /\ (Living(s, {}) => Living(r, {}))
  /\ \A on \in SUBSET SongLanes : Held(s, on) => Held(r, on)
  /\ Held(s, SongLanes) /\ l \in SongLanes => r.chan[l] = None
  /\ \A d : /\ Cardinality(Active(r, d)) <= Cardinality(Active(s, d) \ {s.lane[l]})
            /\ Cardinality(Owned(r, d)) <= Cardinality(Owned(s, d) \ {s.lane[l]})

LEMMA EmptiedIs ==
    ASSUME NEW s, Good(s), NEW l \in Lanes, NEW r, r = Drive(Release(s, {s.lane[l]}), l, None)
    PROVE  EmptiedTo(s, l, r)
<1> DEFINE gone == {s.lane[l]}
           p == Release(s, gone)
<1>1. /\ gone \subseteq Sounding(s) \/ gone \cap Sounding(s) = {}
      /\ s.lane[l] \in gone
  OBVIOUS
<1> HIDE DEF gone
<1>18. ReleasedTo(s, gone, p)
  BY <1>1, ReleaseDoes
<1>2. Good(p) /\ TailsFrom(s, p) /\ (Shaped(s) => Shaped(p)) /\ (Living(s, {}) => Living(p, {}))
  BY <1>1, <1>18 DEF ReleasedTo
<1>3. \A on \in SUBSET SongLanes : Held(s, on) => Held(p, on)
  BY <1>1, <1>18 DEF ReleasedTo
<1>4. IF s.lane[l] \in gone /\ Drives(s, l) THEN p.lane[l] = Stale ELSE Stays(s, p, l)
  BY <1>1, <1>18 DEF ReleasedTo
<1> HIDE DEF p
<1>5. \A d : /\ Cardinality(Active(p, d)) <= Cardinality(Active(s, d) \ gone)
             /\ Cardinality(Owned(p, d)) <= Cardinality(Owned(s, d) \ gone)
  <2>1. \A d : Cardinality(Active(p, d)) <= Cardinality(Active(s, d) \ gone)
    BY <1>1, <1>18 DEF ReleasedTo
  <2>2. \A d : Cardinality(Owned(p, d)) <= Cardinality(Owned(s, d) \ gone)
    BY <1>1, <1>18 DEF ReleasedTo
  <2> QED BY <2>1, <2>2
<1>6. ~Drives(p, l)
  <2>1. /\ s.lane[l] \in Sounding(s) \cup {None, Stale}
        /\ None \notin Sounding(p) /\ Stale \notin Sounding(p)
    BY <1>2, TypedParts DEF Good
  <2> QED BY <1>1, <1>4, <2>1 DEF Stays, Drives
<1>7. r = Drive(p, l, None)
  BY DEF p, gone
<1>8. Idled(p, l, r)
  BY <1>2, <1>6, <1>7, IdleLane
<1>9. /\ Good(r) /\ TailsFrom(p, r) /\ (Shaped(p) => Shaped(r)) /\ (Living(p, {}) => Living(r, {}))
      /\ r.lane[l] = None
  BY <1>8 DEF Idled
<1>10. \A on \in SUBSET SongLanes : Held(p, on) => Held(r, on)
  BY <1>8 DEF Idled
<1>11. Held(p, {l} \cap SongLanes) /\ l \in SongLanes => r.chan[l] = None
  BY <1>8 DEF Idled
<1>12. \A d : Owned(r, d) = Owned(p, d) /\ Active(r, d) = Active(p, d)
  BY <1>8 DEF Idled
<1>13. TailsFrom(s, r)
  BY <1>2, <1>9, TailsOn
<1>14. Held(s, SongLanes) /\ l \in SongLanes => r.chan[l] = None
  <2>1. Held(s, SongLanes) => Held(p, {l} \cap SongLanes)
    BY <1>3 DEF Held
  <2> QED BY <1>11, <2>1
<1>15. \A on \in SUBSET SongLanes : Held(s, on) => Held(r, on)
  BY <1>3, <1>10
<1>16. \A d : /\ Cardinality(Active(r, d)) <= Cardinality(Active(s, d) \ {s.lane[l]})
              /\ Cardinality(Owned(r, d)) <= Cardinality(Owned(s, d) \ {s.lane[l]})
  BY <1>5, <1>12 DEF gone
<1>17. (Shaped(s) => Shaped(r)) /\ (Living(s, {}) => Living(r, {}))
  BY <1>2, <1>9
<1> QED BY <1>9, <1>13, <1>14, <1>15, <1>16, <1>17 DEF EmptiedTo

\* A new voice, which the lane drives.
Added(s, l, n) == Drive([s EXCEPT !.voice = Append(@, NewVoice(l, n))], l, Len(s.voice) + 1)

AddedTo(s, l, n, u, r) ==
  /\ Typed(r) /\ Sounding(r) = Sounding(s) \cup {u} /\ u \notin Sounding(s) /\ Len(r.voice) = Len(s.voice) + 1
  /\ r.chan = s.chan /\ r.refused = s.refused
  /\ r.lane[l] = u /\ (\A k \in Lanes : k # l => r.lane[k] = s.lane[k])
  /\ r.voice[u] = NewVoice(l, n) /\ (\A v \in Sounding(s) : r.voice[v] = s.voice[v])

LEMMA NewVoiceIs ==
    ASSUME NEW l \in Lanes, NEW n \in Notes
    PROVE  /\ NewVoice(l, n) \in VoiceRecords /\ NewVoice(l, n).lane = l /\ NewVoice(l, n).note = n
           /\ NewVoice(l, n).domain = (IF l \in LiveLanes THEN "Live" ELSE "Native")
           /\ NewVoice(l, n).life = "Foreground" /\ ~NewVoice(l, n).tail /\ NewVoice(l, n).onset = None
           /\ NewVoice(l, n).sound = "on" /\ NewVoice(l, n).art = "none"
BY DEF NewVoice, VoiceRecords, Domains

LEMMA AddedIs ==
    ASSUME NEW s, Typed(s), NEW l \in Lanes, NEW n \in Notes, NEW r, r = Added(s, l, n)
    PROVE  AddedTo(s, l, n, Len(s.voice) + 1, r)
<1> DEFINE x == NewVoice(l, n)
           q == [s EXCEPT !.voice = Append(@, x)]
           u == Len(s.voice) + 1
<1>1. /\ s \in States /\ Len(s.voice) \in Nat /\ s.voice \in Seq(VoiceRecords) /\ x \in VoiceRecords
      /\ Sounding(s) = 1 .. Len(s.voice) /\ Sounding(s) \subseteq Nat
      /\ s.lane \in [Lanes -> Sounding(s) \cup {None, Stale}]
      /\ s.chan \in [SongLanes -> Sounding(s) \cup {None}]
  BY TypedParts, NewVoiceIs DEF Typed
<1>2. /\ Append(s.voice, x) \in Seq(VoiceRecords) /\ Len(Append(s.voice, x)) = u
      /\ Append(s.voice, x)[u] = x /\ \A v \in 1 .. Len(s.voice) : Append(s.voice, x)[v] = s.voice[v]
  <2> HIDE DEF x
  <2> QED BY <1>1, AppendProperties
<1> HIDE DEF x
<1>3. /\ q \in States /\ q.voice = Append(s.voice, x) /\ q.lane = s.lane /\ q.chan = s.chan
      /\ q.refused = s.refused
  BY <1>1, <1>2 DEF States
<1>4. r = Drive(q, l, u)
  BY DEF Added, x
<1>5. u \in Nat /\ u \notin Sounding(s) /\ 1 .. u = (1 .. Len(s.voice)) \cup {u}
  BY <1>1
<1> HIDE DEF q, u
<1>6. Sounding(q) = Sounding(s) \cup {u}
  <2>1. DOMAIN q.voice = 1 .. u
    BY <1>2, <1>3, LenProperties
  <2> QED BY <1>1, <1>5, <2>1 DEF Sounding
<1>7. Typed(q)
  BY <1>1, <1>3, <1>6 DEF Typed
<1>8. /\ Typed(r) /\ Sounding(r) = Sounding(q)
      /\ r.voice = q.voice /\ r.chan = q.chan /\ r.refused = q.refused
      /\ \A k \in Lanes : r.lane[k] = IF k = l THEN u ELSE q.lane[k]
  BY <1>4, <1>6, <1>7, DriveMakes
<1>9. Len(r.voice) = Len(s.voice) + 1
  BY <1>2, <1>3, <1>8 DEF u
<1>10. r.voice[u] = x /\ \A v \in Sounding(s) : r.voice[v] = s.voice[v]
  BY <1>1, <1>2, <1>3, <1>8
<1>11. r.lane[l] = u /\ \A k \in Lanes : k # l => r.lane[k] = s.lane[k]
  BY <1>3, <1>8
<1>12. AddedTo(s, l, n, u, r)
  BY <1>3, <1>5, <1>6, <1>8, <1>9, <1>10, <1>11 DEF AddedTo, x
<1> QED BY <1>12 DEF u

GrownTo(s, l, n, r) ==
  /\ Good(r) /\ TailsFrom(s, r)
  /\ r.lane[l] \in Sounding(r) /\ r.voice[r.lane[l]] = NewVoice(l, n) /\ r.chan = s.chan
  /\ (Shaped(s) => Shaped(r)) /\ (Living(s, {}) => Living(r, {r.lane[l]}))
  /\ \A on \in SUBSET SongLanes : Held(s, on) => Held(r, on)

LEMMA AddedKeeps ==
    ASSUME NEW s, Good(s), NEW l \in Lanes, NEW n \in Notes, s.lane[l] = None, Len(s.voice) < Pool,
           Prepared => LET d == NewVoice(l, n).domain IN
                       /\ Cardinality(Active(s, d)) < Limit[d] /\ Cardinality(Owned(s, d)) < Room[d],
           NEW r, r = Added(s, l, n)
    PROVE  GrownTo(s, l, n, r)
<1> DEFINE u == Len(s.voice) + 1
           x == NewVoice(l, n)
           d == x.domain
<1>1. AddedTo(s, l, n, u, r)
  BY AddedIs DEF Good
<1> HIDE DEF u
<1>2. /\ Typed(r) /\ Sounding(r) = Sounding(s) \cup {u} /\ u \notin Sounding(s)
      /\ Len(r.voice) = Len(s.voice) + 1 /\ r.chan = s.chan /\ r.refused = s.refused
      /\ r.lane[l] = u /\ (\A k \in Lanes : k # l => r.lane[k] = s.lane[k])
      /\ r.voice[u] = x /\ (\A v \in Sounding(s) : r.voice[v] = s.voice[v])
  BY <1>1 DEF AddedTo
<1>3. /\ x.lane = l /\ x.domain = (IF l \in LiveLanes THEN "Live" ELSE "Native") /\ x.life = "Foreground"
      /\ ~x.tail /\ x.onset = None /\ x.sound = "on" /\ x.art = "none" /\ x \in VoiceRecords
  BY NewVoiceIs
<1>4. /\ None \notin Sounding(r) /\ Stale \notin Sounding(r)
      /\ \A k \in Lanes : s.lane[k] \in Sounding(s) \cup {None, Stale}
      /\ \A k \in SongLanes : s.chan[k] \in Sounding(s) \cup {None}
      /\ Len(s.voice) \in Nat
  BY <1>2, TypedParts DEF Good
<1>5. Prepared => Budget(r)
  <2> SUFFICES ASSUME Prepared PROVE Budget(r)
    OBVIOUS
  <2>1. Cardinality(Active(s, d)) < Limit[d] /\ Cardinality(Owned(s, d)) < Room[d]
    OBVIOUS
  <2> HIDE DEF x, d
  <2>2. d \in Domains /\ d = x.domain
    BY <1>3 DEF d, Domains
  <2> SUFFICES ASSUME NEW e \in Domains
               PROVE  Cardinality(Active(r, e)) <= Limit[e] /\ Cardinality(Owned(r, e)) <= Room[e]
    BY DEF Budget
  <2>3. /\ IsFiniteSet(Owned(s, e)) /\ Cardinality(Owned(s, e)) \in Nat
        /\ IsFiniteSet(Active(s, e)) /\ Cardinality(Active(s, e)) \in Nat
        /\ Cardinality(Owned(r, e)) \in Nat /\ Cardinality(Active(r, e)) \in Nat
        /\ Limit[e] \in Nat /\ Room[e] \in Nat
    BY <1>2, Counted, Rooms DEF Good
  <2>4. CASE e = d
    <3>1. Owned(r, e) = Owned(s, e) \cup {u} /\ Active(r, e) = Active(s, e) \cup {u}
      BY <1>2, <1>3, <2>2, <2>4 DEF Owned, Active
    <3>2. /\ Cardinality(Active(s, e) \cup {u}) <= Cardinality(Active(s, e)) + 1
          /\ Cardinality(Owned(s, e) \cup {u}) <= Cardinality(Owned(s, e)) + 1
      BY <2>3, OneMore
    <3>3. Cardinality(Active(r, e)) <= Limit[e]
      BY <2>1, <2>3, <2>4, <3>1, <3>2
    <3>4. Cardinality(Owned(r, e)) <= Room[e]
      BY <2>1, <2>3, <2>4, <3>1, <3>2
    <3> QED BY <3>3, <3>4
  <2>5. CASE e # d
    <3>1. Owned(r, e) = Owned(s, e) /\ Active(r, e) = Active(s, e)
      BY <1>2, <2>2, <2>5 DEF Owned, Active
    <3> QED BY <3>1 DEF Good, Budget
  <2> QED BY <2>4, <2>5
<1>6. Driven(r)
  <2> SUFFICES ASSUME NEW v \in Sounding(r), NEW k \in Lanes
               PROVE  r.lane[k] = v <=> r.voice[v].lane = k /\ r.voice[v].life = "Foreground"
    BY DEF Driven
  <2>1. CASE v = u
    BY <1>2, <1>3, <1>4, <2>1
  <2>2. CASE v \in Sounding(s)
    <3>1. s.lane[k] = v <=> s.voice[v].lane = k /\ s.voice[v].life = "Foreground"
      BY <2>2 DEF Good, Driven
    <3> QED BY <1>2, <1>4, <2>2, <3>1
  <2> QED BY <1>2, <2>1, <2>2
<1>7. Rings(r)
  <2> SUFFICES ASSUME NEW v \in Sounding(r), NEW w \in Sounding(r), v # w, r.voice[w].tail,
                      r.voice[v].tail \/ r.voice[v].life = "Foreground", r.voice[v].lane = r.voice[w].lane
               PROVE  r.voice[v].onset # r.voice[w].onset
    BY DEF Rings
  <2>1. w \in Sounding(s) /\ s.voice[w].onset # None
    BY <1>2, <1>3 DEF Good, Sound
  <2>2. CASE v = u
    BY <1>2, <1>3, <2>1, <2>2
  <2>3. CASE v \in Sounding(s)
    BY <1>2, <2>1, <2>3 DEF Good, Rings
  <2> QED BY <1>2, <2>2, <2>3
<1>8. \A v \in Sounding(r) : Sound(r.voice[v]) /\ (r.voice[v].tail => overlap)
  BY <1>2, <1>3 DEF Good, Sound
<1>9. Len(r.voice) <= Pool
  BY <1>2, <1>4, Rooms
<1>10. Good(r)
  BY <1>2, <1>5, <1>6, <1>7, <1>8, <1>9 DEF Good
<1>11. TailsFrom(s, r)
  BY <1>2, <1>3 DEF TailsFrom
<1>12. Shaped(s) => Shaped(r)
  BY <1>2, <1>3 DEF Shaped
<1>13. Living(s, {}) => Living(r, {r.lane[l]})
  BY <1>2 DEF Living
<1>14. ASSUME NEW on \in SUBSET SongLanes, Held(s, on) PROVE Held(r, on)
  <2> SUFFICES ASSUME NEW k \in on, r.chan[k] # None
               PROVE  r.lane[k] = r.chan[k] /\ r.voice[r.chan[k]].art = "fore"
    BY DEF Held
  <2>1. s.chan[k] \in Sounding(s) /\ s.lane[k] = s.chan[k] /\ s.voice[s.chan[k]].art = "fore" /\ k \in Lanes
    BY <1>2, <1>4, <1>14 DEF Held, Lanes
  <2>2. k # l
    BY <1>4, <2>1, <1>2
  <2> QED BY <1>2, <2>1, <2>2
<1> QED BY <1>2, <1>10, <1>11, <1>12, <1>13, <1>14 DEF GrownTo

TriggeredTo(s, l, n, a, r) ==
  /\ Good(r) /\ TailsFrom(s, r) /\ (Shaped(s) => Shaped(r)) /\ a.ok \in BOOLEAN
  /\ \A on \in SUBSET SongLanes : Held(s, on) => Held(r, on)
  /\ Held(s, SongLanes) /\ l \in SongLanes => r.chan[l] = None
  /\ a.ok => /\ r.lane[l] \in Sounding(r) /\ r.voice[r.lane[l]] = NewVoice(l, n)
             /\ Living(s, {}) => Living(r, {r.lane[l]})
  /\ ~a.ok => (Living(s, {}) => Living(r, {}))
  /\ Interactive /\ Cardinality(Active(s, NewVoice(l, n).domain) \ {s.lane[l]}) < Limit[NewVoice(l, n).domain]
       => a.ok

LEMMA TriggerDoes ==
    ASSUME NEW s, Good(s), NEW l \in Lanes, NEW n \in Notes, NEW a, a = Trigger(s, l, n), NEW r, r = a.state
    PROVE  TriggeredTo(s, l, n, a, r)
<1> DEFINE e == Drive(Release(s, {s.lane[l]}), l, None)
           d == NewVoice(l, n).domain
           room == IF Prepared THEN Admission(e, d, None) ELSE [ok |-> Len(e.voice) < Pool, state |-> e]
           q == room.state
           ok == room.ok
<1>1. a = IF ~ok THEN room ELSE [ok |-> TRUE, state |-> Added(q, l, n)]
  BY DEF Trigger, Added
<1>2. EmptiedTo(s, l, e)
  BY EmptiedIs
<1> HIDE DEF e
<1>3. Good(e) /\ TailsFrom(s, e) /\ (Shaped(s) => Shaped(e)) /\ (Living(s, {}) => Living(e, {})) /\ e.lane[l] = None
  BY <1>2 DEF EmptiedTo
<1>4. \A on \in SUBSET SongLanes : Held(s, on) => Held(e, on)
  BY <1>2 DEF EmptiedTo
<1>5. d \in Domains /\ (Interactive => Limit[d] > 0)
  <2>1. d = (IF l \in LiveLanes THEN "Live" ELSE "Native")
    BY NewVoiceIs
  <2> HIDE DEF d
  <2> QED BY <2>1, LiveAssumption, LimitAssumption DEF Domains
<1>6. Cardinality(Active(e, d)) <= Cardinality(Active(s, d) \ {s.lane[l]})
  BY <1>2 DEF EmptiedTo
<1> HIDE DEF d
\* With and without records, the state in which there may be room.
<1>7. /\ Good(q) /\ TailsFrom(e, q) /\ (Shaped(e) => Shaped(q)) /\ (Living(e, {}) => Living(q, {}))
      /\ q.lane[l] = None /\ ok \in BOOLEAN
  <2>1. CASE Prepared
    <3>1. AdmittedTo(e, d, None, room, q)
      BY <1>3, <1>5, <2>1, AdmissionDoes
    <3>2. Good(q) /\ TailsFrom(e, q) /\ (Shaped(e) => Shaped(q)) /\ (Living(e, {}) => Living(q, {}))
      BY <3>1 DEF AdmittedTo
    <3>3. Stays(e, q, l)
      BY <1>3, <3>1 DEF AdmittedTo
    <3>4. q.lane[l] = None
      BY <1>3, <3>3, TypedParts DEF Stays, Drives, Good
    <3>5. ok \in BOOLEAN
      BY <3>1 DEF AdmittedTo
    <3> QED BY <3>2, <3>4, <3>5
  <2>2. CASE ~Prepared
    <3>1. q = e /\ ok \in BOOLEAN
      BY <2>2
    <3> HIDE DEF q, ok
    <3> QED BY <1>3, <3>1 DEF TailsFrom
  <2> QED BY <2>1, <2>2
<1>8. \A on \in SUBSET SongLanes : Held(e, on) => Held(q, on)
  <2>1. CASE Prepared
    <3>1. AdmittedTo(e, d, None, room, q)
      BY <1>3, <1>5, <2>1, AdmissionDoes
    <3>2. \A on \in SUBSET SongLanes :
            Held(e, on) /\ (\A k \in on : e.chan[k] = None \/ e.chan[k] # None) => Held(q, on)
      BY <3>1 DEF AdmittedTo
    <3> QED BY <3>2
  <2>2. CASE ~Prepared
    <3>1. q = e
      BY <2>2
    <3> HIDE DEF q
    <3> QED BY <3>1
  <2> QED BY <2>1, <2>2
<1>9. ok => /\ Len(q.voice) < Pool
            /\ Prepared => Cardinality(Active(q, d)) < Limit[d] /\ Cardinality(Owned(q, d)) < Room[d]
  <2>1. CASE Prepared
    <3>1. AdmittedTo(e, d, None, room, q)
      BY <1>3, <1>5, <2>1, AdmissionDoes
    <3> QED BY <3>1 DEF AdmittedTo
  <2>2. CASE ~Prepared
    <3>1. q = e /\ ok = (Len(e.voice) < Pool)
      BY <2>2
    <3> HIDE DEF q, ok
    <3> QED BY <2>2, <3>1
  <2> QED BY <2>1, <2>2
<1>10. Interactive /\ Cardinality(Active(s, d) \ {s.lane[l]}) < Limit[d] => ok
  <2> SUFFICES ASSUME Interactive, Cardinality(Active(s, d) \ {s.lane[l]}) < Limit[d] PROVE ok
    OBVIOUS
  <2>1. Prepared
    BY LiveAssumption
  <2>2. AdmittedTo(e, d, None, room, q)
    BY <1>3, <1>5, <2>1, AdmissionDoes
  <2>3. Cardinality(Active(e, d)) < Limit[d]
    <3>1. Cardinality(Active(e, d)) \in Nat /\ Cardinality(Active(s, d) \ {s.lane[l]}) \in Nat /\ Limit[d] \in Nat
      <4>1. IsFiniteSet(Active(s, d)) /\ Cardinality(Active(e, d)) \in Nat
        BY <1>3, Counted DEF Good
      <4>2. IsFiniteSet(Active(s, d) \ {s.lane[l]})
        BY <4>1, FS_RemoveElement
      <4> QED BY <1>5, <4>1, <4>2, FS_CardinalityType, Rooms
    <3> QED BY <1>6, <3>1
  <2> QED BY <1>5, <2>2, <2>3 DEF AdmittedTo
<1>11. Good(q) /\ TailsFrom(s, q) /\ (Shaped(s) => Shaped(q)) /\ (Living(s, {}) => Living(q, {}))
  BY <1>3, <1>7, TailsOn
<1>12. \A on \in SUBSET SongLanes : Held(s, on) => Held(q, on)
  BY <1>4, <1>8
<1>13. Held(s, SongLanes) /\ l \in SongLanes => q.chan[l] = None
  BY <1>7, <1>12 DEF Held
<1>14. CASE ~ok
  <2>1. r = q /\ a.ok = FALSE
    BY <1>1, <1>7, <1>14
  <2> HIDE DEF q, ok, room
  <2> QED BY <1>10, <1>11, <1>12, <1>13, <1>14, <2>1 DEF TriggeredTo, d
<1>15. CASE ok
  <2>1. r = Added(q, l, n) /\ a.ok = TRUE
    BY <1>1, <1>15
  <2> HIDE DEF q, ok, room
  <2>2. GrownTo(q, l, n, r)
    BY <1>7, <1>9, <1>15, <2>1, AddedKeeps DEF d
  <2>3. /\ Good(r) /\ TailsFrom(q, r)
        /\ r.lane[l] \in Sounding(r) /\ r.voice[r.lane[l]] = NewVoice(l, n) /\ r.chan = q.chan
        /\ (Shaped(q) => Shaped(r)) /\ (Living(q, {}) => Living(r, {r.lane[l]}))
    BY <2>2 DEF GrownTo
  <2>4. \A on \in SUBSET SongLanes : Held(q, on) => Held(r, on)
    BY <2>2 DEF GrownTo
  <2>5. TailsFrom(s, r)
    BY <1>11, <2>3, TailsOn
  <2>6. \A on \in SUBSET SongLanes : Held(s, on) => Held(r, on)
    BY <1>12, <2>4
  <2> QED BY <1>11, <1>13, <2>1, <2>3, <2>5, <2>6 DEF TriggeredTo
<1> QED BY <1>7, <1>14, <1>15

-----------------------------------------------------------------------------
(* New Note Actions *)

LaneOf(s, v, l) == v # None => s.voice[v].lane = l

OverlaidTo(s, l, a, r) ==
  /\ Good(r) /\ (Shaped(s) => Shaped(r)) /\ (Living(s, {}) => Living(r, {})) /\ a.ok \in BOOLEAN
  /\ \A on \in SUBSET SongLanes : Held(s, on) => Held(r, IF a.ok THEN on \ {l} ELSE on)
  /\ a.ok /\ Held(s, SongLanes) => LaneOf(r, r.chan[l], l)

LEMMA OverlapDoes ==
    ASSUME NEW s, Good(s), NEW l \in SongLanes, NEW a, a = Overlap(s, l), NEW r, r = a.state
    PROVE  OverlaidTo(s, l, a, r)
<1> DEFINE victim == IF Cardinality(Active(s, "Custom")) >= Limit["Custom"]
                     THEN Oldest(Active(s, "Custom")) ELSE None
           room == Admission(s, "Custom", victim)
           q == room.state
<1>1. a = IF ~Keeps(s, l) THEN [ok |-> FALSE, state |-> s]
          ELSE IF ~room.ok THEN room ELSE [ok |-> TRUE, state |-> DetachCustom(room.state, l)]
  BY DEF Overlap
<1>2. CASE ~Keeps(s, l)
  <2>1. a = [ok |-> FALSE, state |-> s]
    BY <1>1, <1>2
  <2>2. a.ok = FALSE /\ r = s
    BY <2>1
  <2> QED BY <2>2 DEF OverlaidTo
<1>3. CASE Keeps(s, l)
  <2>1. Prepared /\ Candidate(s, s.lane[l]) /\ s.voice[s.lane[l]].domain = "Native"
    BY <1>3 DEF Keeps
  <2>2. victim \in Active(s, "Custom") \cup {None}
    <3>1. Active(s, "Custom") \subseteq Nat
      BY TypedParts DEF Active, Owned, Good
    <3> QED BY <3>1, MinOfSome DEF Oldest
  <2> HIDE DEF victim
  <2>3. AdmittedTo(s, "Custom", victim, room, q)
    BY <2>1, <2>2, AdmissionDoes DEF Domains
  <2>4. /\ Good(q) /\ (Shaped(s) => Shaped(q)) /\ (Living(s, {}) => Living(q, {})) /\ room.ok \in BOOLEAN
        /\ room.ok => Cardinality(Active(q, "Custom")) < Limit["Custom"]
                      /\ Cardinality(Owned(q, "Custom")) < Room["Custom"]
    BY <2>3 DEF AdmittedTo
  <2>5. \A on \in SUBSET SongLanes :
          Held(s, on) /\ (\A k \in on : s.chan[k] = None \/ s.chan[k] # victim) => Held(q, on)
    BY <2>3 DEF AdmittedTo
  <2>6. \A k \in Lanes : s.lane[k] = None \/ s.lane[k] # victim => Stays(s, q, k)
    BY <2>3 DEF AdmittedTo
  <2> HIDE DEF room
  <2>7. ASSUME NEW k \in SongLanes, s.lane[k] \in Sounding(s) PROVE s.lane[k] # victim
    <3>1. s.voice[s.lane[k]].domain # "Custom"
      BY <2>7, DrivenIs DEF Lanes, Drives
    <3> QED BY <2>2, <2>7, <3>1, TypedParts DEF Active, Owned, Good
  <2>8. \A on \in SUBSET SongLanes : Held(s, on) => Held(q, on)
    <3> SUFFICES ASSUME NEW on \in SUBSET SongLanes, Held(s, on) PROVE Held(q, on)
      OBVIOUS
    <3>1. \A k \in on : s.chan[k] = None \/ s.chan[k] # victim
      BY <2>7, TypedParts DEF Held, Good
    <3> QED BY <2>5, <3>1
  <2>9. CASE ~room.ok
    <3>1. r = q /\ a.ok = FALSE
      BY <1>1, <1>3, <2>4, <2>9
    <3> HIDE DEF q
    <3> QED BY <2>4, <2>8, <3>1 DEF OverlaidTo
  <2>10. CASE room.ok
    <3>1. r = DetachCustom(q, l) /\ a.ok = TRUE
      BY <1>1, <1>3, <2>10
    <3> HIDE DEF q
    <3>2. l \in Lanes /\ s.lane[l] \in Sounding(s)
      BY <2>1 DEF Lanes, Candidate
    <3>3. Drives(q, l) /\ q.voice[q.lane[l]] = s.voice[s.lane[l]]
      BY <2>6, <2>7, <3>2 DEF Stays, Drives
    <3>4. Candidate(q, q.lane[l])
      BY <2>1, <3>3 DEF Candidate, Drives
    <3>5. TailedTo(q, l, r)
      BY <2>4, <2>10, <3>1, <3>2, <3>4, DetachCustomKeeps
    <3>6. Good(r) /\ (Shaped(q) => Shaped(r)) /\ (Living(q, {}) => Living(r, {}))
      BY <3>5 DEF TailedTo
    <3>7. \A on \in SUBSET SongLanes : Held(q, on) => Held(r, on \ {l})
      BY <3>5 DEF TailedTo
    <3>8. \A on \in SUBSET SongLanes : Held(s, on) => Held(r, on \ {l})
      BY <2>8, <3>7
    <3>9. Held(s, SongLanes) => LaneOf(r, r.chan[l], l)
      <4> SUFFICES ASSUME Held(s, SongLanes), r.chan[l] # None PROVE r.voice[r.chan[l]].lane = l
        BY DEF LaneOf
      <4>1. /\ r.chan = q.chan /\ \A v \in Sounding(q) : r.voice[v].lane = q.voice[v].lane
        BY <3>5 DEF TailedTo
      <4>2. Held(q, SongLanes) /\ q.chan[l] \in Sounding(q)
        BY <2>4, <2>8, <4>1, TypedParts DEF Good
      <4>3. q.lane[l] = q.chan[l]
        BY <4>1, <4>2 DEF Held
      <4> QED BY <2>4, <3>2, <4>1, <4>2, <4>3 DEF Good, Driven
    <3> QED BY <2>4, <3>1, <3>6, <3>8, <3>9 DEF OverlaidTo
  <2> QED BY <2>4, <2>9, <2>10
<1> QED BY <1>2, <1>3

\* A channel lets go of the voice it shaped.
LEMMA LetGo ==
    ASSUME NEW p, Good(p), Shaped(p), NEW l \in SongLanes, Held(p, SongLanes \ {l}), LaneOf(p, p.chan[l], l),
           Living(p, {}), NEW r, r = Hold(Leave(p, p.chan[l]), l, None)
    PROVE  Well(r)
<1> DEFINE old == p.chan[l]
           q == Leave(p, old)
<1>1. /\ Tuned(p, q) /\ q.chan = p.chan
      /\ \A v \in Sounding(p) : /\ v # old => q.voice[v] = p.voice[v]
                                /\ q.voice[v].art = "none" <=> p.voice[v].art = "none"
                                /\ q.voice[v].sound = p.voice[v].sound
      /\ old \in Sounding(p) => q.voice[old].art # "fore"
  BY LeaveMakes DEF Good
<1>2. Good(q)
  BY <1>1, TunedKeeps
<1>3. r = Hold(q, l, None)
  OBVIOUS
<1> HIDE DEF q
<1>4. /\ Typed(r) /\ Sounding(r) = Sounding(q)
      /\ r.voice = q.voice /\ r.lane = q.lane /\ r.refused = q.refused
      /\ \A k \in SongLanes : r.chan[k] = IF k = l THEN None ELSE q.chan[k]
  BY <1>2, <1>3, HoldMakes DEF Good
<1>5. /\ Sounding(q) = Sounding(p) /\ q.lane = p.lane
      /\ \A v \in Sounding(p) : /\ q.voice[v].lane = p.voice[v].lane /\ q.voice[v].life = p.voice[v].life
                                /\ q.voice[v].domain = p.voice[v].domain
  BY <1>1 DEF Tuned, Like
<1>6. Good(r)
  <2>1. Driven(r)
    BY <1>2, <1>4 DEF Good, Driven
  <2>2. Rings(r)
    BY <1>2, <1>4 DEF Good, Rings
  <2>3. Prepared => Budget(r)
    <3>1. \A d : Owned(r, d) = Owned(q, d) /\ Active(r, d) = Active(q, d)
      BY <1>4 DEF Owned, Active
    <3> QED BY <1>2, <3>1 DEF Good, Budget
  <2> QED BY <1>2, <1>4, <2>1, <2>2, <2>3 DEF Good
<1>7. Shaped(r)
  <2> SUFFICES ASSUME NEW v \in Sounding(p), NEW k \in SongLanes, q.voice[v].lane = k, q.voice[v].art = "fore"
               PROVE  r.chan[k] = v
    BY <1>4, <1>5 DEF Shaped
  <2>1. v # old /\ p.voice[v].lane = k /\ p.voice[v].art = "fore"
    BY <1>1
  <2>2. p.chan[k] = v
    BY <2>1 DEF Shaped
  <2> QED BY <1>1, <1>4, <2>1, <2>2
<1>8. Held(r, SongLanes)
  <2> SUFFICES ASSUME NEW k \in SongLanes, r.chan[k] # None
               PROVE  r.lane[k] = r.chan[k] /\ r.voice[r.chan[k]].art = "fore"
    BY DEF Held
  <2>1. k # l /\ r.chan[k] = p.chan[k]
    BY <1>1, <1>4
  <2>2. p.lane[k] = p.chan[k] /\ p.voice[p.chan[k]].art = "fore" /\ p.chan[k] \in Sounding(p)
    BY <2>1, TypedParts DEF Held, Good
  <2>3. p.chan[k] # old
    <3>1. p.voice[p.chan[k]].lane = k
      BY <2>2 DEF Good, Driven, Lanes
    <3> QED BY <2>1, <3>1 DEF LaneOf
  <2> QED BY <1>1, <1>4, <1>5, <2>1, <2>2, <2>3
<1>9. Living(r, {})
  BY <1>1, <1>4, <1>5 DEF Living, Alive
<1> QED BY <1>6, <1>7, <1>8, <1>9 DEF Well

LEMMA NewNoteActionKeeps ==
    ASSUME NEW s, Well(s), NEW l \in SongLanes, NEW n, NEW musical, NEW check, NEW goesOn
    PROVE  Well(NewNoteAction(s, l, n, musical, check, goesOn))
<1> DEFINE checked == Cut(s, Checked(s, l, n, check, musical))
           kept == IF musical THEN Overlap(checked, l) ELSE [ok |-> FALSE, state |-> checked]
           k == kept.state
           old == k.chan[l]
           leaves == /\ old # None /\ goesOn
                     /\ ~(musical /\ Candidate(k, old))
                     /\ Stepped(k, old) /\ k.voice[old].level # "frozen"
                     /\ Drives(k, l)
           p == IF kept.ok THEN k ELSE Detach(k, l)
           left == Hold(Leave(p, old), l, None)
           r == NewNoteAction(s, l, n, musical, check, goesOn)
<1>1. r = IF kept.ok \/ leaves THEN left ELSE k
  BY DEF NewNoteAction
<1>2. Well(checked)
  <2>1. Levelled(s, checked)
    BY CutMakes DEF Well, Good
  <2> HIDE DEF checked
  <2> QED BY <2>1, LevelledKeeps
<1> HIDE DEF checked
<1>3. /\ Good(k) /\ Shaped(k) /\ Living(k, {}) /\ kept.ok \in BOOLEAN
      /\ Held(k, IF kept.ok THEN SongLanes \ {l} ELSE SongLanes)
      /\ kept.ok => LaneOf(k, k.chan[l], l)
  <2>1. CASE musical
    <3> DEFINE a == Overlap(checked, l)
    <3>1. kept = a
      BY <2>1
    <3>2. OverlaidTo(checked, l, a, a.state)
      BY <1>2, OverlapDoes DEF Well
    <3> HIDE DEF a, kept
    <3> QED BY <1>2, <3>1, <3>2 DEF OverlaidTo, Well
  <2>2. CASE ~musical
    <3>1. kept = [ok |-> FALSE, state |-> checked]
      BY <2>2
    <3> HIDE DEF kept
    <3>2. k = checked /\ kept.ok = FALSE
      BY <3>1
    <3> QED BY <1>2, <3>2 DEF Well
  <2> QED BY <2>1, <2>2
<1> HIDE DEF kept
<1>4. l \in Lanes
  BY DEF Lanes
<1>5. CASE ~kept.ok /\ ~leaves
  <2>1. r = k
    BY <1>1, <1>5
  <2> QED BY <1>3, <1>5, <2>1 DEF Well
<1>6. CASE kept.ok
  <2>1. r = left /\ p = k
    BY <1>1, <1>6
  <2>2. r = Hold(Leave(k, k.chan[l]), l, None)
    BY <2>1
  <2> HIDE DEF k, r
  <2>3. Well(r)
    BY <1>3, <1>6, <2>2, LetGo
  <2> QED BY <2>3 DEF r
<1>7. CASE ~kept.ok /\ leaves
  <2> DEFINE q == Detach(k, l)
  <2>1. r = left /\ p = q
    BY <1>1, <1>7
  <2>2. DetachedTo(k, l, q)
    BY <1>3, <1>4, DetachKeeps
  <2>3. r = Hold(Leave(q, k.chan[l]), l, None)
    BY <2>1
  <2>4. k.chan[l] # None
    BY <1>7
  <2> HIDE DEF k, r, q
  <2>5. k.lane[l] = k.chan[l] /\ k.voice[k.chan[l]].art = "fore" /\ Held(k, SongLanes)
    BY <1>3, <1>7, <2>4 DEF Held
  <2>6. /\ Good(q) /\ Shaped(q) /\ Sounding(q) = Sounding(k) /\ q.chan = k.chan
        /\ \A v \in Sounding(k) : q.voice[v].lane = k.voice[v].lane
    BY <1>3, <2>2 DEF DetachedTo
  <2>7. Held(q, SongLanes \ {l})
    BY <2>2, <2>5 DEF DetachedTo
  <2>8. Living(q, {})
    BY <1>3, <2>2, <2>5 DEF DetachedTo
  <2>9. LaneOf(q, q.chan[l], l)
    <3>1. k.chan[l] \in Sounding(k)
      BY <1>3, <2>4, TypedParts DEF Good
    <3> QED BY <1>3, <1>4, <2>5, <2>6, <3>1 DEF LaneOf, Good, Driven
  <2>10. r = Hold(Leave(q, q.chan[l]), l, None)
    BY <2>3, <2>6
  <2>11. Well(r)
    BY <2>6, <2>7, <2>8, <2>9, <2>10, LetGo
  <2> QED BY <2>11 DEF r
<1> QED BY <1>3, <1>5, <1>6, <1>7

-----------------------------------------------------------------------------
(* The identity of a note *)

\* The same voices, one with another onset.
NamedBy(s, v, o, r) ==
  /\ Typed(r) /\ Sounding(r) = Sounding(s) /\ Len(r.voice) = Len(s.voice)
  /\ r.chan = s.chan /\ r.refused = s.refused /\ \A l \in Lanes : r.lane[l] = s.lane[l]
  /\ \A w \in Sounding(s) : w # v => r.voice[w] = s.voice[w]
  /\ LET x == s.voice[v]
         y == r.voice[v] IN
     /\ y.lane = x.lane /\ y.note = x.note /\ y.domain = x.domain /\ y.life = x.life
     /\ y.tail = x.tail /\ y.sound = x.sound /\ y.art = x.art /\ y.onset = o

LEMMA OnsetNames ==
    ASSUME NEW s, Typed(s), NEW v \in Sounding(s), NEW o \in Onsets \cup {None},
           NEW f \in [Sounding(s) -> VoiceRecords],
           \A w \in Sounding(s) : f[w] = IF w \in {v} THEN [s.voice[w] EXCEPT !.onset = o] ELSE s.voice[w],
           NEW r, r = [s EXCEPT !.voice = f]
    PROVE  NamedBy(s, v, o, r)
<1>1. /\ Typed(r) /\ Sounding(r) = Sounding(s) /\ Len(r.voice) = Len(s.voice)
      /\ r.voice = f /\ r.lane = s.lane /\ r.chan = s.chan /\ r.refused = s.refused
  BY Changes
<1>2. s.voice[v] \in VoiceRecords
  BY TypedParts
<1>3. \A x \in VoiceRecords : LET y == [x EXCEPT !.onset = o] IN
        /\ y.lane = x.lane /\ y.note = x.note /\ y.domain = x.domain /\ y.life = x.life
        /\ y.tail = x.tail /\ y.sound = x.sound /\ y.art = x.art /\ y.onset = o
  BY DEF VoiceRecords
<1>4. \A w \in Sounding(s) : w # v => r.voice[w] = s.voice[w]
  BY <1>1
<1>5. r.voice[v] = [s.voice[v] EXCEPT !.onset = o]
  BY <1>1
<1> QED BY <1>1, <1>2, <1>3, <1>4, <1>5 DEF NamedBy

NamedTo(s, r) ==
  /\ Good(r) /\ Sounding(r) = Sounding(s) /\ (Shaped(s) => Shaped(r))
  /\ \A on \in SUBSET SongLanes : Held(s, on) => Held(r, on)
  /\ \A new : Living(s, new) => Living(r, new)
  /\ \A w \in Sounding(s) : r.voice[w].lane = s.voice[w].lane

LEMMA NamedKeeps ==
    ASSUME NEW s, Good(s), NEW v \in Sounding(s), s.voice[v].life = "Foreground", NEW o \in Onsets \cup {None},
           \A w \in Sounding(s) : s.voice[w].tail /\ s.voice[w].lane = s.voice[v].lane => s.voice[w].onset # o,
           NEW r, NamedBy(s, v, o, r)
    PROVE  NamedTo(s, r)
<1>1. /\ Typed(r) /\ Sounding(r) = Sounding(s) /\ Len(r.voice) = Len(s.voice)
      /\ r.chan = s.chan /\ r.refused = s.refused /\ \A l \in Lanes : r.lane[l] = s.lane[l]
  BY DEF NamedBy
<1>2. \A w \in Sounding(s) :
        /\ r.voice[w].lane = s.voice[w].lane /\ r.voice[w].note = s.voice[w].note
        /\ r.voice[w].domain = s.voice[w].domain /\ r.voice[w].life = s.voice[w].life
        /\ r.voice[w].tail = s.voice[w].tail /\ r.voice[w].sound = s.voice[w].sound
        /\ r.voice[w].art = s.voice[w].art /\ r.voice[w].onset = IF w = v THEN o ELSE s.voice[w].onset
  BY DEF NamedBy
<1>3. ~s.voice[v].tail
  BY DEF Good, Sound
<1>4. Driven(r)
  BY <1>1, <1>2 DEF Good, Driven
<1>5. Rings(r)
  BY <1>1, <1>2, <1>3 DEF Good, Rings
<1>6. \A w \in Sounding(r) : Sound(r.voice[w]) /\ (r.voice[w].tail => overlap)
  BY <1>1, <1>2, <1>3 DEF Good, Sound
<1>7. Prepared => Budget(r)
  <2>1. \A d : Owned(r, d) = Owned(s, d) /\ Active(r, d) = Active(s, d)
    BY <1>1, <1>2 DEF Owned, Active
  <2> QED BY <2>1 DEF Good, Budget
<1>8. Good(r)
  BY <1>1, <1>4, <1>5, <1>6, <1>7 DEF Good
<1>9. Shaped(s) => Shaped(r)
  BY <1>1, <1>2 DEF Shaped
<1>10. ASSUME NEW on \in SUBSET SongLanes, Held(s, on) PROVE Held(r, on)
  <2>1. \A l \in SongLanes : s.chan[l] \in Sounding(s) \cup {None}
    BY TypedParts DEF Good
  <2> QED BY <1>1, <1>2, <1>10, <2>1 DEF Held, Lanes
<1>11. \A new : Living(s, new) => Living(r, new)
  BY <1>1, <1>2 DEF Living, Alive
<1>12. \A w \in Sounding(s) : r.voice[w].lane = s.voice[w].lane
  BY <1>2
<1> QED BY <1>1, <1>8, <1>9, <1>10, <1>11, <1>12 DEF NamedTo

\* A new note is identified, and what duplicates it is retired.
LEMMA IdentifyDoes ==
    ASSUME NEW s, Good(s), NEW v \in Sounding(s), s.voice[v].life = "Foreground",
           NEW volume \in Volumes, NEW r, r = Identify(s, v, volume)
    PROVE  NamedTo(s, r)
<1>1. CASE ~Overlapping
  <2>1. r = s
    BY <1>1 DEF Identify
  <2> QED BY <2>1 DEF NamedTo
<1>2. CASE Overlapping
  <2> DEFINE o == <<s.voice[v].note, volume>>
             f == [w \in Sounding(s) |-> IF w \in {v}
                                                     THEN [s.voice[w] EXCEPT !.onset = <<s.voice[w].note, volume>>]
                                                     ELSE s.voice[w]]
             known == [s EXCEPT !.voice = f]
             dup == {w \in Sounding(s) : Duplicate(known, v, w) /\ Candidate(known, w)}
             q == Retire(s, dup)
  <2>1. r = Retire(known, dup)
    BY <1>2 DEF Identify, Mark
  <2>2. Typed(s) /\ \A w \in Sounding(s) : s.voice[w] \in VoiceRecords
    BY TypedParts DEF Good
  <2>3. o \in Onsets
    BY <2>2 DEF VoiceRecords, Onsets
  <2>4. \A x \in VoiceRecords : [x EXCEPT !.onset = <<x.note, volume>>] \in VoiceRecords
    BY DEF VoiceRecords, Onsets
  <2>5. /\ f \in [Sounding(s) -> VoiceRecords]
        /\ \A w \in Sounding(s) : f[w] = IF w \in {v} THEN [s.voice[w] EXCEPT !.onset = o] ELSE s.voice[w]
    BY <2>2, <2>4
  <2> HIDE DEF f
  <2>6. NamedBy(s, v, o, known)
    <3> HIDE DEF o
    <3> QED BY <2>2, <2>3, <2>5, OnsetNames
  <2> HIDE DEF known
  <2>7. /\ Typed(known) /\ Sounding(known) = Sounding(s) /\ Len(known.voice) = Len(s.voice)
        /\ known.chan = s.chan /\ known.refused = s.refused /\ \A l \in Lanes : known.lane[l] = s.lane[l]
        /\ \A w \in Sounding(s) :
             /\ known.voice[w].lane = s.voice[w].lane /\ known.voice[w].note = s.voice[w].note
             /\ known.voice[w].domain = s.voice[w].domain /\ known.voice[w].life = s.voice[w].life
             /\ known.voice[w].tail = s.voice[w].tail /\ known.voice[w].sound = s.voice[w].sound
             /\ known.voice[w].art = s.voice[w].art
             /\ w # v => known.voice[w] = s.voice[w]
        /\ known.voice[v].onset = o
    BY <2>6 DEF NamedBy
  <2> HIDE DEF o
  <2>8. /\ v \notin dup /\ dup \subseteq Sounding(s)
        /\ \A w \in Sounding(s) : w \in dup <=> Duplicate(known, v, w) /\ Candidate(known, w)
    BY DEF Duplicate
  <2> HIDE DEF dup
  <2>9. Retires(known, dup) = Retires(s, dup)
    BY <2>7 DEF Retires
  <2>10. /\ Typed(r) /\ Sounding(r) = Sounding(known) /\ Len(r.voice) = Len(known.voice)
         /\ \A w \in Sounding(known) :
              r.voice[w] = IF w \in Retires(known, dup) THEN Retired(known.voice[w]) ELSE known.voice[w]
         /\ \A l \in Lanes : r.lane[l] = IF known.lane[l] \in Retires(known, dup) THEN None ELSE known.lane[l]
         /\ r.chan = known.chan /\ r.refused = known.refused
    BY <2>1, <2>7, RetireMakes
  <2>11. /\ Typed(q) /\ Sounding(q) = Sounding(s) /\ Len(q.voice) = Len(s.voice)
         /\ \A w \in Sounding(s) : q.voice[w] = IF w \in Retires(s, dup) THEN Retired(s.voice[w]) ELSE s.voice[w]
         /\ \A l \in Lanes : q.lane[l] = IF s.lane[l] \in Retires(s, dup) THEN None ELSE s.lane[l]
         /\ q.chan = s.chan /\ q.refused = s.refused
    BY <2>2, RetireMakes
  <2>12. RetiredTo(s, dup, q)
    BY RetireKeeps
  <2> HIDE DEF q
  <2>13. v \notin Retires(s, dup)
    BY <2>8 DEF Retires
  <2>14. q.voice[v] = s.voice[v] /\ r.voice[v] = known.voice[v]
    BY <2>7, <2>9, <2>10, <2>11, <2>13
  <2>15. NamedBy(q, v, o, r)
    BY <2>7, <2>9, <2>10, <2>11, <2>14 DEF NamedBy
  <2>16. ASSUME NEW w \in Sounding(q), q.voice[w].tail, q.voice[w].lane = q.voice[v].lane
         PROVE  q.voice[w].onset # o
    <3>1. w \notin Retires(s, dup) /\ q.voice[w] = s.voice[w] /\ w \in Sounding(s)
      BY <2>2, <2>11, <2>16, RetiredIs DEF Retires
    <3>2. /\ s.voice[w].life = "Background" /\ s.voice[w].sound = "on" /\ s.voice[w].onset # None
          /\ s.voice[w].note \notin Looping /\ overlap
      BY <2>16, <3>1 DEF Good, Sound
    <3>3. w \notin dup /\ w # v
      BY <3>1, <3>2 DEF Retires
    <3>4. Candidate(known, w)
      BY <2>7, <3>1, <3>2, <3>3 DEF Candidate
    <3>5. ~Duplicate(known, v, w)
      BY <2>8, <3>1, <3>3, <3>4
    <3> QED BY <2>7, <2>14, <2>16, <3>1, <3>2, <3>3, <3>5 DEF Duplicate
  <2>17. /\ Good(q) /\ (Shaped(s) => Shaped(q)) /\ \A new : Living(s, new) => Living(q, new)
    BY <2>12 DEF RetiredTo
  <2>18. NamedTo(q, r)
    <3>1. Good(q) /\ v \in Sounding(q) /\ q.voice[v].life = "Foreground" /\ o \in Onsets \cup {None}
      BY <2>3, <2>11, <2>14, <2>17
    <3>2. \A w \in Sounding(q) : q.voice[w].tail /\ q.voice[w].lane = q.voice[v].lane => q.voice[w].onset # o
      BY <2>16
    <3> QED BY <2>15, <3>1, <3>2, NamedKeeps
  <2>19. ASSUME NEW on \in SUBSET SongLanes, Held(s, on) PROVE Held(q, on)
    <3>1. ASSUME NEW l \in on, s.chan[l] \in dup PROVE FALSE
      <4> DEFINE w == s.chan[l]
      <4>1. s.lane[l] = w /\ w \in Sounding(s) /\ l \in Lanes
        BY <2>2, <2>8, <2>19, <3>1, TypedParts DEF Held, Lanes
      <4>2. s.voice[w].lane = l /\ s.voice[w].life = "Foreground"
        BY <4>1 DEF Good, Driven
      <4>3. s.voice[w].lane # s.voice[v].lane
        <5>1. s.voice[v].lane = l => s.lane[l] = v
          BY <4>1 DEF Good, Driven
        <5> QED BY <2>8, <3>1, <4>1, <4>2, <5>1
      <4>4. Duplicate(known, v, w)
        BY <2>8, <3>1, <4>1
      <4> QED BY <2>7, <4>1, <4>2, <4>3, <4>4 DEF Duplicate
    <3>2. \A l \in on : s.chan[l] \notin dup \cap Sounding(s)
      BY <3>1
    <3> QED BY <2>12, <2>19, <3>2 DEF RetiredTo
  <2>20. \A w \in Sounding(s) : q.voice[w].lane = s.voice[w].lane
    BY <2>2, <2>11, RetiredIs
  <2> HIDE DEF NamedTo
  <2>21. /\ Good(r) /\ Sounding(r) = Sounding(q) /\ (Shaped(q) => Shaped(r))
         /\ \A w \in Sounding(q) : r.voice[w].lane = q.voice[w].lane
    BY <2>18 DEF NamedTo
  <2>22. \A on \in SUBSET SongLanes : Held(q, on) => Held(r, on)
    BY <2>18 DEF NamedTo
  <2>23. \A new : Living(q, new) => Living(r, new)
    BY <2>18 DEF NamedTo
  <2>24. \A on \in SUBSET SongLanes : Held(s, on) => Held(r, on)
    BY <2>19, <2>22
  <2>25. \A new : Living(s, new) => Living(r, new)
    BY <2>17, <2>23
  <2>26. /\ Good(r) /\ Sounding(r) = Sounding(s) /\ (Shaped(s) => Shaped(r))
         /\ \A w \in Sounding(s) : r.voice[w].lane = s.voice[w].lane
    BY <2>11, <2>17, <2>20, <2>21
  <2> QED BY <2>24, <2>25, <2>26 DEF NamedTo
<1> QED BY <1>1, <1>2

\* A note that goes on with another one's identity.
LEMMA InheritDoes ==
    ASSUME NEW s, Good(s), NEW v \in Sounding(s), s.voice[v].life = "Foreground", NEW o \in Onsets \cup {None},
           \A w \in Sounding(s) : s.voice[w].tail /\ s.voice[w].lane = s.voice[v].lane => s.voice[w].onset # o,
           NEW r, r = Inherit(s, v, o)
    PROVE  NamedTo(s, r)
<1>1. CASE ~Overlapping
  <2>1. r = s
    BY <1>1 DEF Inherit
  <2> QED BY <2>1 DEF NamedTo
<1>2. CASE Overlapping
  <2> DEFINE f == [w \in Sounding(s) |-> IF w \in {v} THEN [s.voice[w] EXCEPT !.onset = o] ELSE s.voice[w]]
  <2>1. r = [s EXCEPT !.voice = f]
    BY <1>2 DEF Inherit, Mark
  <2>2. Typed(s) /\ \A w \in Sounding(s) : s.voice[w] \in VoiceRecords
    BY TypedParts DEF Good
  <2>3. \A x \in VoiceRecords : [x EXCEPT !.onset = o] \in VoiceRecords
    BY DEF VoiceRecords
  <2>4. /\ f \in [Sounding(s) -> VoiceRecords]
        /\ \A w \in Sounding(s) : f[w] = IF w \in {v} THEN [s.voice[w] EXCEPT !.onset = o] ELSE s.voice[w]
    BY <2>2, <2>3
  <2> HIDE DEF f
  <2>5. NamedBy(s, v, o, r)
    BY <2>1, <2>2, <2>4, OnsetNames
  <2> QED BY <2>5, NamedKeeps
<1> QED BY <1>1, <1>2

-----------------------------------------------------------------------------
(* A note of the song *)

\* A channel shapes the voice that its lane has just started.
BegunTo(s, v, r) ==
  /\ Well(r) /\ Sounding(r) = Sounding(s) /\ TailsFrom(s, r)
  /\ r.voice[v].life = "Foreground" /\ r.voice[v].lane = s.voice[v].lane

LEMMA BegunKeeps ==
    ASSUME NEW s, Good(s), Shaped(s), Held(s, SongLanes), NEW l \in SongLanes, NEW v \in Sounding(s),
           s.lane[l] = v, s.chan[l] = None, Living(s, {v}), NEW r, r = Hold(Begun(s, v), l, v)
    PROVE  BegunTo(s, v, r)
<1> DEFINE q == Begun(s, v)
<1>1. /\ Tuned(s, q) /\ q.chan = s.chan
      /\ \A w \in Sounding(s) : w # v => q.voice[w] = s.voice[w]
      /\ q.voice[v].art = "fore"
  BY BegunMakes DEF Good
<1>2. Good(q) /\ TailsFrom(s, q)
  BY <1>1, TunedKeeps
<1>3. r = Hold(q, l, v)
  OBVIOUS
<1> HIDE DEF q
<1>4. /\ Sounding(q) = Sounding(s) /\ q.lane = s.lane
      /\ \A w \in Sounding(s) : /\ q.voice[w].lane = s.voice[w].lane /\ q.voice[w].life = s.voice[w].life
                                /\ q.voice[w].domain = s.voice[w].domain
  BY <1>1 DEF Tuned, Like
<1>5. /\ Typed(r) /\ Sounding(r) = Sounding(q)
      /\ r.voice = q.voice /\ r.lane = q.lane /\ r.refused = q.refused
      /\ \A k \in SongLanes : r.chan[k] = IF k = l THEN v ELSE q.chan[k]
  BY <1>2, <1>3, <1>4, HoldMakes DEF Good
<1>6. s.voice[v].lane = l /\ s.voice[v].life = "Foreground"
  BY DEF Good, Driven, Lanes
<1>7. Good(r)
  <2>1. Driven(r) /\ Rings(r)
    BY <1>2, <1>5 DEF Good, Driven, Rings
  <2>2. Prepared => Budget(r)
    <3>1. \A d : Owned(r, d) = Owned(q, d) /\ Active(r, d) = Active(q, d)
      BY <1>5 DEF Owned, Active
    <3> QED BY <1>2, <3>1 DEF Good, Budget
  <2> QED BY <1>2, <1>5, <2>1, <2>2 DEF Good
<1>8. Shaped(r)
  <2> SUFFICES ASSUME NEW w \in Sounding(s), NEW k \in SongLanes, q.voice[w].lane = k, q.voice[w].art = "fore"
               PROVE  r.chan[k] = w
    BY <1>4, <1>5 DEF Shaped
  <2>1. CASE w = v
    BY <1>4, <1>5, <1>6, <2>1
  <2>2. CASE w # v
    <3>1. s.chan[k] = w
      BY <1>1, <2>2 DEF Shaped
    <3>2. k # l
      BY <3>1, TypedParts DEF Good
    <3> QED BY <1>1, <1>5, <3>1, <3>2
  <2> QED BY <2>1, <2>2
<1>9. Held(r, SongLanes)
  <2> SUFFICES ASSUME NEW k \in SongLanes, r.chan[k] # None
               PROVE  r.lane[k] = r.chan[k] /\ r.voice[r.chan[k]].art = "fore"
    BY DEF Held
  <2>1. CASE k = l
    BY <1>1, <1>4, <1>5, <2>1
  <2>2. CASE k # l
    <3>1. r.chan[k] = s.chan[k] /\ s.chan[k] \in Sounding(s)
      BY <1>1, <1>5, <2>2, TypedParts DEF Good
    <3>2. s.lane[k] = s.chan[k] /\ s.voice[s.chan[k]].art = "fore"
      BY <3>1, TypedParts DEF Held, Good
    <3> QED BY <1>1, <1>4, <1>5, <3>1, <3>2
  <2> QED BY <2>1, <2>2
<1>10. Living(r, {})
  <2> SUFFICES ASSUME Interactive, NEW w \in Sounding(s) PROVE Alive(q.voice[w])
    BY <1>4, <1>5 DEF Living
  <2>1. CASE w = v
    BY <1>1, <2>1 DEF Alive
  <2>2. CASE w # v
    BY <1>1, <2>2 DEF Living
  <2> QED BY <2>1, <2>2
<1>11. TailsFrom(s, r)
  BY <1>2, <1>5 DEF TailsFrom
<1> QED BY <1>4, <1>5, <1>6, <1>7, <1>8, <1>9, <1>10, <1>11 DEF BegunTo, Well

\* Other channels, or a refusal, are not the voices'.
LEMMA GoodAlike ==
    ASSUME NEW s, Good(s), NEW r, Typed(r), r.voice = s.voice, r.lane = s.lane, Plenty => ~r.refused
    PROVE  /\ Good(r) /\ TailsFrom(s, r) /\ Sounding(r) = Sounding(s)
           /\ \A new : Living(s, new) => Living(r, new)
<1>1. Sounding(r) = Sounding(s) /\ \A d : Owned(r, d) = Owned(s, d) /\ Active(r, d) = Active(s, d)
  BY DEF Sounding, Owned, Active
<1>2. Driven(r)
  BY <1>1 DEF Good, Driven
<1>3. Rings(r)
  BY <1>1 DEF Good, Rings
<1>4. Prepared => Budget(r)
  BY <1>1 DEF Good, Budget
<1>5. \A v \in Sounding(r) : Sound(r.voice[v]) /\ (r.voice[v].tail => overlap)
  BY <1>1 DEF Good
<1>6. Good(r)
  BY <1>2, <1>3, <1>4, <1>5 DEF Good
<1>7. TailsFrom(s, r)
  BY <1>1 DEF TailsFrom
<1>8. \A new : Living(s, new) => Living(r, new)
  BY <1>1 DEF Living
<1> QED BY <1>1, <1>6, <1>7, <1>8

LEMMA RefusedKeeps ==
    ASSUME NEW s, Well(s), ~Plenty, NEW r, r = [s EXCEPT !.refused = TRUE]
    PROVE  Well(r)
<1>1. s \in States
  BY DEF Well, Good, Typed
<1>2. /\ r \in States /\ r.voice = s.voice /\ r.lane = s.lane /\ r.chan = s.chan
  BY <1>1 DEF States
<1>3. Sounding(r) = Sounding(s)
  BY <1>2 DEF Sounding
<1>4. Typed(r)
  BY <1>2, <1>3 DEF Well, Good, Typed
<1>5. Good(r) /\ Living(r, {})
  BY <1>2, <1>4, GoodAlike DEF Well
<1>6. Shaped(r)
  BY <1>2, <1>3 DEF Well, Shaped
<1>7. Held(r, SongLanes)
  BY <1>2 DEF Well, Held
<1> QED BY <1>5, <1>6, <1>7 DEF Well

\* Where every lane may have a voice, a song beyond its quota has a background voice to
\* steal, unless the lane has one of its own to replace.
LEMMA SomeBack ==
    ASSUME NEW s, Well(s), NEW l \in SongLanes, Plenty, ~Drives(s, l),
           Cardinality(Active(s, "Native")) >= Limit["Native"]
    PROVE  Victims(s) # {}
<1> DEFINE A == Active(s, "Native")
           F == {v \in A : s.voice[v].life = "Foreground"}
           B == SongLanes \ {l}
<1>1. /\ Typed(s) /\ \A v \in Sounding(s) : s.voice[v] \in VoiceRecords
      /\ None \notin Sounding(s)
  BY TypedParts DEF Well, Good
<1>2. IsFiniteSet(A) /\ Cardinality(A) \in Nat /\ A \subseteq Sounding(s) /\ "Native" \in Domains
  BY <1>1, Counted DEF Domains
<1>3. /\ IsFiniteSet(B) /\ Cardinality(B) = Cardinality(SongLanes) - 1 /\ Cardinality(SongLanes) \in Nat
  <2>1. IsFiniteSet(SongLanes)
    OBVIOUS
  <2> QED BY <2>1, FS_RemoveElement, FS_CardinalityType
<1>4. \A v \in F : s.voice[v].lane \in B /\ s.lane[s.voice[v].lane] = v
  <2> SUFFICES ASSUME NEW v \in F PROVE s.voice[v].lane \in B /\ s.lane[s.voice[v].lane] = v
    OBVIOUS
  <2>1. /\ v \in Sounding(s) /\ s.voice[v].domain = "Native" /\ s.voice[v].life = "Foreground"
        /\ s.voice[v].lane \in Lanes
    BY <1>1, <1>2 DEF VoiceRecords, Active, Owned
  <2>2. s.voice[v].lane \in SongLanes
    BY <2>1 DEF Well, Good, Sound, Lanes
  <2>3. s.lane[s.voice[v].lane] = v
    BY <2>1 DEF Well, Good, Driven
  <2>4. s.voice[v].lane # l
    BY <2>1, <2>3 DEF Drives
  <2> QED BY <2>2, <2>3, <2>4
<1>5. Cardinality(F) < Limit["Native"]
  <2> DEFINE m == s.lane
  <2>1. \A v \in F : \E k \in B : m[k] = v
    BY <1>4
  <2> HIDE DEF A, F, B, m
  <2>2. IsFiniteSet(F) /\ Cardinality(F) <= Cardinality(B)
    BY <1>3, <2>1, Fewer
  <2>3. Cardinality(F) \in Nat
    BY <2>2, FS_CardinalityType
  <2>4. Limit["Native"] \in Nat /\ Cardinality(SongLanes) <= Limit["Native"]
    BY <1>2, Rooms DEF Plenty
  <2> QED BY <1>3, <2>2, <2>3, <2>4
<1>6. PICK v \in A : v \notin F
  <2>1. A # F
    <3> SUFFICES ASSUME A = F PROVE FALSE
      OBVIOUS
    <3>1. Cardinality(A) < Limit["Native"] /\ Cardinality(A) >= Limit["Native"]
      BY <1>5
    <3>2. Limit["Native"] \in Nat
      BY <1>2, Rooms
    <3> HIDE DEF A
    <3> QED BY <1>2, <3>1, <3>2
  <2> QED BY <2>1
<1>7. /\ v \in Sounding(s) /\ s.voice[v].domain = "Native" /\ s.voice[v].life = "Background"
      /\ s.voice[v].art \in {"none", "fore", "back"} /\ s.voice[v].lane \in Lanes
  BY <1>1, <1>2, <1>6 DEF Active, Owned, VoiceRecords
<1>8. s.voice[v].art # "none"
  BY <1>7 DEF Well, Living, Alive, Plenty
<1>9. s.voice[v].art # "fore"
  <2> SUFFICES ASSUME s.voice[v].art = "fore" PROVE FALSE
    OBVIOUS
  <2>1. s.voice[v].lane \in SongLanes
    BY <1>7 DEF Well, Good, Sound, Lanes
  <2>2. s.chan[s.voice[v].lane] = v
    BY <1>7, <2>1 DEF Well, Shaped
  <2>3. s.lane[s.voice[v].lane] = v
    BY <1>1, <1>7, <2>1, <2>2 DEF Well, Held
  <2> QED BY <1>7, <2>3 DEF Well, Good, Driven
<1>10. Prepared
  BY LiveAssumption DEF Plenty
<1>11. s.voice[v].art = "back" /\ v \in Active(s, "Native")
  BY <1>7, <1>8, <1>9
<1> QED BY <1>7, <1>10, <1>11 DEF Victims

AllocatedTo(s, l, n, a, r) ==
  /\ Good(r) /\ TailsFrom(s, r) /\ Shaped(r) /\ Held(r, SongLanes) /\ a.ok \in BOOLEAN
  /\ a.ok => /\ r.lane[l] \in Sounding(r) /\ r.voice[r.lane[l]] = NewVoice(l, n) /\ r.chan[l] = None
             /\ Living(r, {r.lane[l]})
  /\ ~a.ok => Living(r, {})
  /\ Plenty => a.ok

\* Starting on a lane of the song what fits into the budget.
LEMMA TriggerAllocates ==
    ASSUME NEW s, Well(s), NEW l \in SongLanes, NEW n \in Notes, NEW a, a = Trigger(s, l, n),
           Plenty => Cardinality(Active(s, "Native") \ {s.lane[l]}) < Limit["Native"]
    PROVE  AllocatedTo(s, l, n, a, a.state)
<1> DEFINE r == a.state
<1>1. l \in Lanes /\ Good(s)
  BY DEF Lanes, Well
<1>2. TriggeredTo(s, l, n, a, r)
  BY <1>1, TriggerDoes
<1>3. NewVoice(l, n).domain = "Native"
  BY <1>1, NewVoiceIs
<1> HIDE DEF r
<1>4. Good(r) /\ TailsFrom(s, r) /\ Shaped(r) /\ a.ok \in BOOLEAN
  BY <1>2 DEF TriggeredTo, Well
<1>5. Held(r, SongLanes)
  BY <1>2 DEF TriggeredTo, Well
<1>6. r.chan[l] = None
  BY <1>2 DEF TriggeredTo, Well
<1>7. /\ a.ok => /\ r.lane[l] \in Sounding(r) /\ r.voice[r.lane[l]] = NewVoice(l, n)
                 /\ Living(r, {r.lane[l]})
      /\ ~a.ok => Living(r, {})
  BY <1>2 DEF TriggeredTo, Well
<1>8. Plenty => a.ok
  BY <1>2, <1>3 DEF TriggeredTo, Plenty
<1>9. AllocatedTo(s, l, n, a, r)
  BY <1>4, <1>5, <1>6, <1>7, <1>8 DEF AllocatedTo
<1> QED BY <1>9 DEF r

LEMMA AllocateDoes ==
    ASSUME NEW s, Well(s), NEW l \in SongLanes, NEW n \in Notes, NEW a \in Allocate(s, l, n)
    PROVE  AllocatedTo(s, l, n, a, a.state)
<1> DEFINE fits == OwnForeground(s, l) \/ WithinQuota(s)
           tried == IF fits THEN Trigger(s, l, n) ELSE [ok |-> FALSE, state |-> s]
           t == tried.state
           backs == Victims(t)
<1>1. \/ a = tried /\ (tried.ok \/ backs = {})
      \/ ~tried.ok /\ \E v \in backs : a = Trigger(Release(t, {v}), l, n)
  BY DEF Allocate
<1>2. /\ Typed(s) /\ Good(s) /\ l \in Lanes /\ "Native" \in Domains
      /\ IsFiniteSet(Active(s, "Native")) /\ Cardinality(Active(s, "Native")) \in Nat
      /\ Limit["Native"] \in Nat /\ (Plenty => Prepared)
  BY Counted, Rooms, LiveAssumption DEF Well, Good, Lanes, Domains, Plenty
<1>3. ASSUME Plenty, fits PROVE Cardinality(Active(s, "Native") \ {s.lane[l]}) < Limit["Native"]
  <2>1. Cardinality(Active(s, "Native") \ {s.lane[l]})
          = IF s.lane[l] \in Active(s, "Native") THEN Cardinality(Active(s, "Native")) - 1
            ELSE Cardinality(Active(s, "Native"))
    BY <1>2, FS_RemoveElement
  <2>2. CASE WithinQuota(s)
    <3>1. Cardinality(Active(s, "Native")) < Limit["Native"]
      BY <1>2, <1>3, <2>2 DEF WithinQuota
    <3> QED BY <1>2, <2>1, <3>1
  <2>3. CASE OwnForeground(s, l)
    <3>1. s.lane[l] \in Active(s, "Native")
      BY <1>2, <1>3, <2>3 DEF OwnForeground, Drives, Active, Owned
    <3>2. Cardinality(Active(s, "Native")) <= Limit["Native"]
      BY <1>2, <1>3 DEF Good, Budget
    <3> QED BY <1>2, <2>1, <3>1, <3>2
  <2> QED BY <1>3, <2>2, <2>3
<1>4. CASE fits /\ a = tried
  <2>1. a = Trigger(s, l, n)
    BY <1>4
  <2> QED BY <1>3, <1>4, <2>1, TriggerAllocates
<1>5. ASSUME ~fits, Plenty
      PROVE  /\ ~Drives(s, l) /\ Cardinality(Active(s, "Native")) >= Limit["Native"]
  <2>1. Cardinality(Active(s, "Native")) >= Limit["Native"]
    BY <1>2, <1>5 DEF WithinQuota
  <2>2. ~Drives(s, l)
    <3> SUFFICES ASSUME Drives(s, l) PROVE FALSE
      OBVIOUS
    <3>1. /\ s.voice[s.lane[l]].life = "Foreground" /\ s.voice[s.lane[l]].domain # "Custom"
          /\ s.voice[s.lane[l]].domain # "Live" /\ s.voice[s.lane[l]] \in VoiceRecords
      BY <1>2, DrivenIs
    <3>2. s.voice[s.lane[l]].domain = "Native"
      BY <3>1 DEF VoiceRecords, Domains
    <3> QED BY <1>2, <1>5, <3>1, <3>2 DEF OwnForeground
  <2> QED BY <2>1, <2>2
<1>6. CASE ~fits /\ a = tried /\ (tried.ok \/ backs = {})
  <2>1. a.ok = FALSE /\ a.state = s /\ backs = {} /\ t = s
    BY <1>6
  <2>2. ~Plenty
    BY <1>5, <1>6, <2>1, SomeBack
  <2>3. TailsFrom(s, s)
    BY DEF TailsFrom
  <2> QED BY <2>1, <2>2, <2>3 DEF AllocatedTo, Well
<1>7. ASSUME ~tried.ok, NEW v \in backs, a = Trigger(Release(t, {v}), l, n)
      PROVE  AllocatedTo(s, l, n, a, a.state)
  <2>1. Well(t) /\ TailsFrom(s, t) /\ (Plenty => ~fits /\ t = s)
    <3>1. CASE fits
      <4>1. AllocatedTo(s, l, n, tried, t)
        BY <1>3, <3>1, TriggerAllocates
      <4> QED BY <1>7, <4>1 DEF AllocatedTo, Well
    <3>2. CASE ~fits
      <4>1. t = s
        BY <3>2
      <4> QED BY <3>2, <4>1 DEF TailsFrom
    <3> QED BY <3>1, <3>2
  <2>2. v \in Sounding(t) /\ t.voice[v].art = "back" /\ (Prepared => v \in Active(t, "Native"))
    BY DEF Victims
  <2> HIDE DEF t, fits
  <2> DEFINE q == Release(t, {v})
  <2>3. ReleasedTo(t, {v}, q)
    BY <2>1, <2>2, ReleaseDoes DEF Well
  <2> HIDE DEF q
  <2>4. Well(q) /\ TailsFrom(t, q)
    BY <2>1, <2>3 DEF ReleasedTo, Well
  <2>5. TailsFrom(s, q)
    BY <2>1, <2>4, TailsOn
  <2>6. Plenty => Cardinality(Active(q, "Native") \ {q.lane[l]}) < Limit["Native"]
    <3> SUFFICES ASSUME Plenty PROVE Cardinality(Active(q, "Native") \ {q.lane[l]}) < Limit["Native"]
      OBVIOUS
    <3>1. t = s /\ v \in Active(s, "Native")
      BY <1>2, <2>1, <2>2
    <3>2. Cardinality(Active(q, "Native")) <= Cardinality(Active(s, "Native") \ {v})
      BY <2>3, <3>1 DEF ReleasedTo
    <3>3. Cardinality(Active(s, "Native") \ {v}) = Cardinality(Active(s, "Native")) - 1
      BY <1>2, <3>1, FS_RemoveElement
    <3>4. Cardinality(Active(s, "Native")) <= Limit["Native"]
      BY <1>2 DEF Good, Budget
    <3>5. IsFiniteSet(Active(q, "Native")) /\ Cardinality(Active(q, "Native")) \in Nat
      BY <2>4, Counted DEF Well, Good
    <3>6. Cardinality(Active(q, "Native")) < Limit["Native"]
      BY <1>2, <3>2, <3>3, <3>4, <3>5
    <3>7. Cardinality(Active(q, "Native") \ {q.lane[l]})
            = IF q.lane[l] \in Active(q, "Native") THEN Cardinality(Active(q, "Native")) - 1
              ELSE Cardinality(Active(q, "Native"))
      BY <3>5, FS_RemoveElement
    <3> QED BY <1>2, <3>5, <3>6, <3>7
  <2>7. AllocatedTo(q, l, n, a, a.state)
    BY <1>7, <2>4, <2>6, TriggerAllocates DEF q
  <2>8. TailsFrom(q, a.state)
    BY <2>7 DEF AllocatedTo
  <2>9. TailsFrom(s, a.state)
    BY <2>5, <2>8, TailsOn
  <2> QED BY <2>7, <2>9 DEF AllocatedTo
<1>8. CASE ~tried.ok /\ \E v \in backs : a = Trigger(Release(t, {v}), l, n)
  BY <1>7, <1>8
<1> QED BY <1>1, <1>4, <1>6, <1>8

LEMMA NamedWell ==
    ASSUME NEW s, Well(s), NEW r, NamedTo(s, r)
    PROVE  Well(r)
<1>1. Good(r) /\ Shaped(r)
  BY DEF NamedTo, Well
<1>2. Held(r, SongLanes)
  BY DEF NamedTo, Well
<1>3. Living(r, {})
  BY DEF NamedTo, Well
<1> QED BY <1>1, <1>2, <1>3 DEF Well

\* No tail of a lane has the identity of the note that the lane plays, or none.
LEMMA OnsetApart ==
    ASSUME NEW s, Good(s), NEW l \in Lanes
    PROVE  /\ OnsetOf(s, l) \in Onsets \cup {None}
           /\ \A u \in Sounding(s) : s.voice[u].tail /\ s.voice[u].lane = l
                                       => s.voice[u].onset # OnsetOf(s, l)
<1>1. CASE Drives(s, l)
  <2> DEFINE v == s.lane[l]
  <2>1. OnsetOf(s, l) = s.voice[v].onset
    BY <1>1 DEF OnsetOf
  <2>2. /\ v \in Sounding(s) /\ s.voice[v] \in VoiceRecords /\ s.voice[v].lane = l
        /\ s.voice[v].life = "Foreground" /\ ~s.voice[v].tail
    BY <1>1, DrivenIs
  <2> HIDE DEF v
  <2>3. s.voice[v].onset \in Onsets \cup {None}
    BY <2>2 DEF VoiceRecords
  <2>4. \A u \in Sounding(s) : s.voice[u].tail /\ s.voice[u].lane = l => s.voice[u].onset # s.voice[v].onset
    BY <2>2 DEF Good, Rings
  <2> QED BY <2>1, <2>3, <2>4
<1>2. CASE ~Drives(s, l)
  <2>1. OnsetOf(s, l) = None
    BY <1>2 DEF OnsetOf
  <2> QED BY <2>1 DEF Good, Sound
<1> QED BY <1>1, <1>2

LEMMA StartNoteKeeps ==
    ASSUME NEW s, Well(s), NEW l \in SongLanes, NEW n \in Notes, NEW volume \in Volumes,
           NEW musical \in BOOLEAN, NEW r \in StartNote(s, l, n, volume, musical)
    PROVE  Well(r)
<1> DEFINE Begin(q) == LET v == q.lane[l]
                           begun == Hold(Begun(q, v), l, v)
                       IN IF musical THEN Identify(begun, v, volume) ELSE Inherit(begun, v, OnsetOf(s, l))
<1>1. PICK a \in Allocate(s, l, n) :
        r = IF a.ok THEN Begin(a.state) ELSE [a.state EXCEPT !.refused = TRUE]
  BY DEF StartNote
<1> DEFINE q == a.state
<1>2. AllocatedTo(s, l, n, a, q)
  BY AllocateDoes
<1> HIDE DEF q
<1>3. /\ Good(q) /\ TailsFrom(s, q) /\ Shaped(q) /\ Held(q, SongLanes) /\ a.ok \in BOOLEAN
      /\ a.ok => /\ q.lane[l] \in Sounding(q) /\ q.voice[q.lane[l]] = NewVoice(l, n) /\ q.chan[l] = None
                 /\ Living(q, {q.lane[l]})
      /\ ~a.ok => Living(q, {})
      /\ Plenty => a.ok
  BY <1>2 DEF AllocatedTo
<1>4. CASE ~a.ok
  <2>1. r = [q EXCEPT !.refused = TRUE]
    BY <1>1, <1>4 DEF q
  <2>2. Well(q) /\ ~Plenty
    BY <1>3, <1>4 DEF Well
  <2> QED BY <2>1, <2>2, RefusedKeeps
<1>5. CASE a.ok
  <2> DEFINE v == q.lane[l]
             b == Hold(Begun(q, v), l, v)
  <2>1. r = IF musical THEN Identify(b, v, volume) ELSE Inherit(b, v, OnsetOf(s, l))
    BY <1>1, <1>5 DEF q
  <2>2. v \in Sounding(q) /\ q.lane[l] = v /\ q.chan[l] = None /\ Living(q, {v})
    BY <1>3, <1>5
  <2>3. q.voice[v].lane = l
    BY <1>3, <1>5, NewVoiceIs DEF Lanes
  <2> HIDE DEF v
  <2>4. BegunTo(q, v, b)
    BY <1>3, <2>2, BegunKeeps
  <2> HIDE DEF b, Begin
  <2>5. /\ Well(b) /\ Good(b) /\ v \in Sounding(b) /\ TailsFrom(q, b)
        /\ b.voice[v].life = "Foreground" /\ b.voice[v].lane = l
    BY <2>2, <2>3, <2>4 DEF BegunTo, Well
  <2>6. CASE musical
    <3>1. r = Identify(b, v, volume)
      BY <2>1, <2>6
    <3>2. NamedTo(b, r)
      BY <2>5, <3>1, IdentifyDoes
    <3> QED BY <2>5, <3>2, NamedWell
  <2>7. CASE ~musical
    <3> DEFINE o == OnsetOf(s, l)
    <3>1. r = Inherit(b, v, o)
      BY <2>1, <2>7
    <3>2. /\ o \in Onsets \cup {None}
          /\ \A u \in Sounding(s) : s.voice[u].tail /\ s.voice[u].lane = l => s.voice[u].onset # o
      BY OnsetApart DEF Well, Lanes
    <3> HIDE DEF o
    <3>3. TailsFrom(s, b)
      BY <1>3, <2>5, TailsOn
    <3>4. \A w \in Sounding(b) : b.voice[w].tail /\ b.voice[w].lane = b.voice[v].lane => b.voice[w].onset # o
      BY <2>5, <3>2, <3>3 DEF TailsFrom
    <3>5. NamedTo(b, r)
      BY <2>5, <3>1, <3>2, <3>4, InheritDoes
    <3> QED BY <2>5, <3>5, NamedWell
  <2> QED BY <2>6, <2>7
<1> QED BY <1>3, <1>4, <1>5

LEMMA TurnKeeps ==
    ASSUME NEW s, Well(s), NEW l \in SongLanes, NEW r \in Turn(s, l)
    PROVE  Well(r)
<1> DEFINE played == PlayedNotes(s, l) \cup CutNotes(s, l) \cup {s}
<1>1. ASSUME NEW p \in played PROVE Well(p)
  <2>1. CASE p \in PlayedNotes(s, l)
    <3>1. PICK n \in Notes, volume \in Volumes, musical \in BOOLEAN,
               check \in DuplicateChecks, goesOn \in BOOLEAN :
            p \in StartNote(NewNoteAction(s, l, n, musical, check, goesOn), l, n, volume, musical)
      BY <2>1 DEF PlayedNotes
    <3> DEFINE q == NewNoteAction(s, l, n, musical, check, goesOn)
    <3>2. Well(q)
      BY NewNoteActionKeeps
    <3> HIDE DEF q
    <3> QED BY <3>1, <3>2, StartNoteKeeps DEF q
  <2>2. CASE p \in CutNotes(s, l)
    <3>1. Levelled(s, p)
      BY <2>2, CutNotesMake DEF Well, Good
    <3> QED BY <3>1, LevelledKeeps
  <2>3. CASE p = s
    BY <2>3
  <2> QED BY <2>1, <2>2, <2>3
<1>2. CASE r \in played
  BY <1>1, <1>2
<1>3. CASE r \notin played
  <2>1. PICK p \in played : r = CutPast(p, l)
    BY <1>3 DEF Turn
  <2> DEFINE some == {v \in Sounding(p) : p.voice[v].lane = l /\ p.voice[v].art = "back"}
  <2>2. Well(p)
    BY <1>1
  <2>3. r = Cut(p, some)
    BY <2>1 DEF CutPast
  <2> HIDE DEF played, some
  <2>4. Levelled(p, r)
    BY <2>2, <2>3, CutMakes DEF Well, Good
  <2> QED BY <2>2, <2>4, LevelledKeeps
<1> QED BY <1>2, <1>3

-----------------------------------------------------------------------------
(* Fades, seeks and clears *)

\* The voice that the processor shapes as a channel's foreground is the one the lane drives.
LEMMA ForeIs ==
    ASSUME NEW s, Well(s), NEW v \in Sounding(s), s.voice[v].art = "fore", s.voice[v].lane \in SongLanes
    PROVE  /\ s.lane[s.voice[v].lane] = v /\ s.chan[s.voice[v].lane] = v
           /\ s.voice[v].life = "Foreground" /\ s.voice[v].domain = "Native" /\ ~s.voice[v].tail
<1>1. s.chan[s.voice[v].lane] = v
  BY DEF Well, Shaped
<1>2. s.lane[s.voice[v].lane] = v /\ s.voice[v].lane \in Lanes
  BY <1>1, TypedParts DEF Well, Good, Held, Lanes
<1>3. s.voice[v].life = "Foreground"
  BY <1>2 DEF Well, Good, Driven
<1>4. s.voice[v].domain = "Native" /\ ~s.voice[v].tail
  <2>1. Sound(s.voice[v]) /\ s.voice[v] \in VoiceRecords
    BY TypedParts DEF Well, Good
  <2> QED BY <1>3, <2>1 DEF Sound, VoiceRecords, Domains
<1> QED BY <1>1, <1>2, <1>3, <1>4

LEMMA DropMakes ==
    ASSUME NEW s, Typed(s), NEW some, NEW r, r = Drop(s, some)
    PROVE  /\ Tuned(s, r) /\ r.chan = s.chan
           /\ \A v \in Sounding(s) : /\ r.voice[v].art = IF v \in some THEN "none" ELSE s.voice[v].art
                                     /\ r.voice[v].sound = s.voice[v].sound
                                     /\ v \notin some => r.voice[v] = s.voice[v]
<1> DEFINE New(x) == [x EXCEPT !.art = "none", !.level = "up"]
           f == [v \in Sounding(s) |-> IF v \in some THEN New(s.voice[v]) ELSE s.voice[v]]
<1>1. r = [s EXCEPT !.voice = f]
  BY DEF Drop, Mark
<1>2. \A v \in Sounding(s) : s.voice[v] \in VoiceRecords
  BY TypedParts
<1>3. \A x \in VoiceRecords : /\ New(x) \in VoiceRecords /\ Like(x, New(x)) /\ Like(x, x)
                              /\ New(x).art = "none" /\ New(x).sound = x.sound
  BY DEF VoiceRecords, Like
<1> HIDE DEF New
<1>4. /\ f \in [Sounding(s) -> VoiceRecords]
      /\ \A v \in Sounding(s) : /\ Like(s.voice[v], f[v]) /\ f[v].sound = s.voice[v].sound
                                /\ f[v].art = IF v \in some THEN "none" ELSE s.voice[v].art
                                /\ v \notin some => f[v] = s.voice[v]
  BY <1>2, <1>3
<1> HIDE DEF f
<1>5. Tuned(s, r) /\ r.voice = f /\ r.chan = s.chan
  BY <1>1, <1>4, TunedBy
<1> QED BY <1>4, <1>5

LEMMA StopMakes ==
    ASSUME NEW s, Typed(s), NEW some, \A v \in some \cap Sounding(s) : ~s.voice[v].tail,
           NEW r, r = Mark(s, some, LAMBDA x : [x EXCEPT !.sound = "stopping"])
    PROVE  /\ Tuned(s, r) /\ r.chan = s.chan
           /\ \A v \in Sounding(s) : /\ r.voice[v].art = s.voice[v].art
                                     /\ r.voice[v].sound = IF v \in some THEN "stopping" ELSE s.voice[v].sound
                                     /\ v \notin some => r.voice[v] = s.voice[v]
<1> DEFINE New(x) == [x EXCEPT !.sound = "stopping"]
           f == [v \in Sounding(s) |-> IF v \in some THEN New(s.voice[v]) ELSE s.voice[v]]
<1>1. r = [s EXCEPT !.voice = f]
  BY DEF Mark
<1>2. \A v \in Sounding(s) : s.voice[v] \in VoiceRecords
  BY TypedParts
<1>3. \A x \in VoiceRecords : /\ New(x) \in VoiceRecords /\ (~x.tail => Like(x, New(x))) /\ Like(x, x)
                              /\ New(x).art = x.art /\ New(x).sound = "stopping"
  BY DEF VoiceRecords, Like
<1> HIDE DEF New
<1>4. /\ f \in [Sounding(s) -> VoiceRecords]
      /\ \A v \in Sounding(s) : /\ Like(s.voice[v], f[v]) /\ f[v].art = s.voice[v].art
                                /\ f[v].sound = IF v \in some THEN "stopping" ELSE s.voice[v].sound
                                /\ v \notin some => f[v] = s.voice[v]
  BY <1>2, <1>3
<1> HIDE DEF f
<1>5. Tuned(s, r) /\ r.voice = f /\ r.chan = s.chan
  BY <1>1, <1>4, TunedBy
<1> QED BY <1>4, <1>5

\* Voices of channels' foregrounds that have faded out are stopped and let go of.
LEMMA StoppedKeeps ==
    ASSUME NEW s, Well(s), NEW fore, fore \subseteq Sounding(s),
           \A v \in fore : s.voice[v].lane \in SongLanes /\ s.voice[v].art = "fore",
           NEW q, q = Mark(Drop(s, fore), fore, LAMBDA x : [x EXCEPT !.sound = "stopping"]),
           NEW r, r = [q EXCEPT !.chan = [l \in SongLanes |-> IF s.chan[l] \in fore THEN None ELSE s.chan[l]]]
    PROVE  Well(r) /\ Sounding(r) = Sounding(s)
<1> DEFINE p == Drop(s, fore)
           chans == [l \in SongLanes |-> IF s.chan[l] \in fore THEN None ELSE s.chan[l]]
<1>1. /\ Typed(s) /\ Good(s) /\ \A l \in SongLanes : s.chan[l] \in Sounding(s) \cup {None}
      /\ None \notin Sounding(s)
  BY TypedParts DEF Well, Good
<1>2. \A v \in fore : s.voice[v].life = "Foreground" /\ ~s.voice[v].tail
  BY ForeIs
<1>3. /\ Tuned(s, p) /\ p.chan = s.chan
      /\ \A v \in Sounding(s) : /\ p.voice[v].art = IF v \in fore THEN "none" ELSE s.voice[v].art
                                /\ p.voice[v].sound = s.voice[v].sound
  BY <1>1, DropMakes
<1>4. q = Mark(p, fore, LAMBDA x : [x EXCEPT !.sound = "stopping"])
  OBVIOUS
<1> HIDE DEF p
<1>5. /\ Good(p) /\ Typed(p) /\ Sounding(p) = Sounding(s) /\ p.lane = s.lane
      /\ \A v \in Sounding(s) : /\ p.voice[v].lane = s.voice[v].lane /\ p.voice[v].life = s.voice[v].life
                                /\ p.voice[v].domain = s.voice[v].domain /\ p.voice[v].tail = s.voice[v].tail
  <2>1. Good(p)
    BY <1>1, <1>3, TunedKeeps
  <2> QED BY <1>3, <2>1 DEF Tuned, Like
<1>6. /\ Tuned(p, q) /\ q.chan = p.chan
      /\ \A v \in Sounding(p) : /\ q.voice[v].art = p.voice[v].art
                                /\ q.voice[v].sound = IF v \in fore THEN "stopping" ELSE p.voice[v].sound
  <2>1. \A v \in fore \cap Sounding(p) : ~p.voice[v].tail
    BY <1>2, <1>5
  <2> QED BY <1>4, <1>5, <2>1, StopMakes
<1>7. /\ Good(q) /\ Typed(q) /\ Sounding(q) = Sounding(s) /\ q.lane = s.lane /\ q.chan = s.chan
      /\ \A v \in Sounding(s) :
           /\ q.voice[v].lane = s.voice[v].lane /\ q.voice[v].life = s.voice[v].life
           /\ q.voice[v].domain = s.voice[v].domain
           /\ q.voice[v].art = IF v \in fore THEN "none" ELSE s.voice[v].art
           /\ q.voice[v].sound = IF v \in fore THEN "stopping" ELSE s.voice[v].sound
  <2>1. Good(q)
    BY <1>5, <1>6, TunedKeeps
  <2>2. /\ Typed(q) /\ Sounding(q) = Sounding(s) /\ q.lane = s.lane /\ q.chan = s.chan
        /\ \A v \in Sounding(s) : /\ q.voice[v].lane = p.voice[v].lane /\ q.voice[v].life = p.voice[v].life
                                  /\ q.voice[v].domain = p.voice[v].domain
    BY <1>3, <1>5, <1>6 DEF Tuned, Like
  <2> QED BY <1>3, <1>5, <1>6, <2>1, <2>2
<1>8. /\ chans \in [SongLanes -> Sounding(q) \cup {None}] /\ r = [q EXCEPT !.chan = chans]
      /\ \A l \in SongLanes : chans[l] = IF s.chan[l] \in fore THEN None ELSE s.chan[l]
  BY <1>1, <1>7
<1> HIDE DEF chans
<1>9. /\ Typed(r) /\ Sounding(r) = Sounding(q)
      /\ r.voice = q.voice /\ r.chan = chans /\ r.lane = q.lane /\ r.refused = q.refused
  BY <1>7, <1>8, ChanHandles
<1>10. Good(r)
  <2>1. Plenty => ~r.refused
    BY <1>7, <1>9 DEF Good
  <2>2. Good(q) /\ Typed(r) /\ r.voice = q.voice /\ r.lane = q.lane
    BY <1>7, <1>9
  <2> QED BY <2>1, <2>2, GoodAlike
<1>11. Shaped(r)
  BY <1>7, <1>8, <1>9 DEF Well, Shaped
<1>12. Held(r, SongLanes)
  <2> SUFFICES ASSUME NEW k \in SongLanes, r.chan[k] # None
               PROVE  r.lane[k] = r.chan[k] /\ r.voice[r.chan[k]].art = "fore"
    BY DEF Held
  <2>1. r.chan[k] = s.chan[k] /\ s.chan[k] \notin fore /\ s.chan[k] \in Sounding(s)
    BY <1>1, <1>8, <1>9
  <2>2. s.lane[k] = s.chan[k] /\ s.voice[s.chan[k]].art = "fore"
    BY <1>1, <2>1 DEF Well, Held
  <2> QED BY <1>7, <1>9, <2>1, <2>2
<1>13. Living(r, {})
  <2> SUFFICES ASSUME Interactive, NEW v \in Sounding(s) PROVE Alive(q.voice[v])
    BY <1>7, <1>9 DEF Living
  <2>1. CASE v \in fore
    BY <1>2, <1>7, <2>1 DEF Alive
  <2>2. CASE v \notin fore
    BY <1>7, <2>2 DEF Well, Living, Alive
  <2> QED BY <2>1, <2>2
<1> QED BY <1>7, <1>9, <1>10, <1>11, <1>12, <1>13 DEF Well

LEMMA ReleasedWell ==
    ASSUME NEW s, Well(s), NEW gone, gone \subseteq Sounding(s), NEW r, r = Release(s, gone)
    PROVE  Well(r)
<1>1. ReleasedTo(s, gone, r)
  BY ReleaseDoes DEF Well
<1>2. Good(r) /\ Shaped(r) /\ Living(r, {})
  BY <1>1 DEF ReleasedTo, Well
<1>3. Held(r, SongLanes)
  BY <1>1 DEF ReleasedTo, Well
<1> QED BY <1>2, <1>3 DEF Well

LEMMA AdvanceVoicesKeeps ==
    ASSUME NEW s, Well(s), NEW faded
    PROVE  Well(AdvanceVoices(s, faded))
<1> DEFINE silent == {v \in Sounding(s) : /\ s.voice[v].lane \in SongLanes /\ Stepped(s, v)
                                          /\ v \in faded \/ Silent(s, v)}
           fore == {v \in silent : s.voice[v].art = "fore"}
           gone == silent \ fore
           q == Mark(Drop(s, fore), fore, LAMBDA x : [x EXCEPT !.sound = "stopping"])
           p == [q EXCEPT !.chan = [l \in SongLanes |-> IF s.chan[l] \in fore THEN None ELSE s.chan[l]]]
           r == AdvanceVoices(s, faded)
<1>1. r = Release(p, gone)
  BY DEF AdvanceVoices
<1>2. /\ fore \subseteq Sounding(s) /\ gone \subseteq Sounding(s)
      /\ \A v \in fore : s.voice[v].lane \in SongLanes /\ s.voice[v].art = "fore"
  OBVIOUS
<1> HIDE DEF fore, gone, r
<1>3. Well(p) /\ Sounding(p) = Sounding(s)
  <2>1. q = Mark(Drop(s, fore), fore, LAMBDA x : [x EXCEPT !.sound = "stopping"])
    OBVIOUS
  <2> HIDE DEF q
  <2>2. p = [q EXCEPT !.chan = [l \in SongLanes |-> IF s.chan[l] \in fore THEN None ELSE s.chan[l]]]
    OBVIOUS
  <2> HIDE DEF p
  <2> QED BY <1>2, <2>1, <2>2, StoppedKeeps
<1> HIDE DEF p
<1>4. Well(r)
  BY <1>1, <1>2, <1>3, ReleasedWell
<1> QED BY <1>4 DEF r

\* A channel holds to a voice of its own lane.
LEMMA ChanIs ==
    ASSUME NEW s, Well(s), NEW l \in SongLanes, s.chan[l] # None
    PROVE  /\ s.chan[l] \in Sounding(s) /\ s.lane[l] = s.chan[l] /\ s.voice[s.chan[l]].art = "fore"
           /\ s.voice[s.chan[l]].lane = l /\ s.voice[s.chan[l]].life = "Foreground"
           /\ s.voice[s.chan[l]].domain = "Native"
<1>1. s.chan[l] \in Sounding(s) /\ s.lane[l] = s.chan[l] /\ s.voice[s.chan[l]].art = "fore"
  BY TypedParts DEF Well, Good, Held
<1>2. s.voice[s.chan[l]].lane = l /\ s.voice[s.chan[l]].life = "Foreground"
  BY <1>1 DEF Well, Good, Driven, Lanes
<1> QED BY <1>1, <1>2, ForeIs

LEMMA RetireWell ==
    ASSUME NEW s, Well(s), NEW some,
           \A v \in some \cap Sounding(s) : s.voice[v].lane \notin SongLanes \/ s.voice[v].domain # "Native",
           NEW r, r = Retire(s, some)
    PROVE  Well(r) /\ RetiredTo(s, some, r)
<1>1. RetiredTo(s, some, r)
  BY RetireKeeps DEF Well
<1>2. \A l \in SongLanes : s.chan[l] \notin some \cap Sounding(s)
  <2> SUFFICES ASSUME NEW l \in SongLanes, s.chan[l] \in some \cap Sounding(s) PROVE FALSE
    OBVIOUS
  <2>1. s.chan[l] # None
    BY TypedParts DEF Well, Good
  <2> QED BY <2>1, ChanIs
<1>3. Good(r) /\ Shaped(r)
  BY <1>1 DEF RetiredTo, Well
<1>4. Held(r, SongLanes)
  BY <1>1, <1>2 DEF RetiredTo, Well
<1>5. Living(r, {})
  BY <1>1 DEF RetiredTo, Well
<1> QED BY <1>1, <1>3, <1>4, <1>5 DEF Well

LEMMA ClearKeeps ==
    ASSUME NEW s, Well(s), NEW some, NEW r, r = ClearSound(Retire(s, some))
    PROVE  /\ Well(r)
           /\ \A v \in Sounding(r) : r.voice[v].tail => v \in Sounding(s) /\ s.voice[v].tail /\ v \notin some
<1> DEFINE q == Retire(s, some)
           chans == [l \in SongLanes |-> IF q.chan[l] # None /\ q.voice[q.chan[l]].life = "Retiring"
                                         THEN None ELSE q.chan[l]]
<1>1. RetiredTo(s, some, q)
  BY RetireKeeps DEF Well
<1>2. Good(q) /\ Sounding(q) = Sounding(s) /\ q.chan = s.chan /\ Shaped(q) /\ Typed(q)
  BY <1>1 DEF RetiredTo, Well, Good
<1>3. Living(q, {})
  BY <1>1 DEF RetiredTo, Well
<1>4. /\ \A v \in Sounding(s) : q.voice[v] = IF v \in Retires(s, some) THEN Retired(s.voice[v]) ELSE s.voice[v]
      /\ \A l \in Lanes : q.lane[l] = IF s.lane[l] \in Retires(s, some) THEN None ELSE s.lane[l]
  BY RetireMakes DEF Well, Good
<1>5. r = [q EXCEPT !.chan = chans]
  BY DEF ClearSound
<1> HIDE DEF q
<1>6. /\ \A l \in SongLanes : s.chan[l] \in Sounding(s) \cup {None}
      /\ \A v \in Sounding(s) : s.voice[v] \in VoiceRecords
      /\ None \notin Sounding(s)
  BY TypedParts DEF Well, Good
<1>7. chans \in [SongLanes -> Sounding(q) \cup {None}]
  BY <1>2, <1>6
<1>8. \A l \in SongLanes : chans[l] = IF q.chan[l] # None /\ q.voice[q.chan[l]].life = "Retiring"
                                      THEN None ELSE q.chan[l]
  OBVIOUS
<1> HIDE DEF chans
<1>9. /\ Typed(r) /\ Sounding(r) = Sounding(q)
      /\ r.voice = q.voice /\ r.chan = chans /\ r.lane = q.lane /\ r.refused = q.refused
  BY <1>2, <1>5, <1>7, ChanHandles
<1>10. Good(r) /\ Living(r, {})
  <2>1. Plenty => ~r.refused
    BY <1>2, <1>9 DEF Good
  <2>2. Good(q) /\ Typed(r) /\ r.voice = q.voice /\ r.lane = q.lane
    BY <1>2, <1>9
  <2> QED BY <1>3, <2>1, <2>2, GoodAlike
<1>11. Shaped(r)
  <2> SUFFICES ASSUME NEW v \in Sounding(s), NEW k \in SongLanes, q.voice[v].lane = k, q.voice[v].art = "fore"
               PROVE  r.chan[k] = v
    BY <1>2, <1>9 DEF Shaped
  <2>1. v \notin Retires(s, some) /\ q.voice[v] = s.voice[v]
    BY <1>4, <1>6, RetiredIs
  <2>2. s.chan[k] = v /\ s.voice[v].life = "Foreground"
    BY <2>1, ForeIs
  <2> QED BY <1>2, <1>8, <1>9, <2>1, <2>2
<1>12. Held(r, SongLanes)
  <2> SUFFICES ASSUME NEW k \in SongLanes, r.chan[k] # None
               PROVE  r.lane[k] = r.chan[k] /\ r.voice[r.chan[k]].art = "fore"
    BY DEF Held
  <2>1. r.chan[k] = s.chan[k] /\ q.voice[s.chan[k]].life # "Retiring"
    BY <1>2, <1>8, <1>9
  <2>2. s.chan[k] \in Sounding(s) /\ s.lane[k] = s.chan[k] /\ s.voice[s.chan[k]].art = "fore" /\ k \in Lanes
    BY <2>1, ChanIs DEF Lanes
  <2>3. s.chan[k] \notin Retires(s, some)
    BY <1>4, <1>6, <2>1, <2>2, RetiredIs
  <2> QED BY <1>4, <1>9, <2>1, <2>2, <2>3
<1>13. ASSUME NEW v \in Sounding(r), r.voice[v].tail
       PROVE  v \in Sounding(s) /\ s.voice[v].tail /\ v \notin some
  <2>1. v \in Sounding(s) /\ v \notin Retires(s, some) /\ s.voice[v].tail
    BY <1>2, <1>4, <1>6, <1>9, <1>13, RetiredIs
  <2>2. s.voice[v].life = "Background"
    BY <2>1 DEF Well, Good, Sound
  <2> QED BY <2>1, <2>2 DEF Retires
<1> QED BY <1>10, <1>11, <1>12, <1>13 DEF Well

\* The processor starts afresh, when nothing sounds that it alone could end.
LEMMA ResetKeeps ==
    ASSUME NEW s, Good(s), Living(s, {}),
           \A v \in Sounding(s) : s.voice[v].lane \in SongLanes =>
             /\ s.voice[v].art = "fore" => s.voice[v].domain # "Custom"
             /\ Interactive => s.voice[v].life = "Retiring",
           NEW r, r = ResetProcessor(s)
    PROVE  Well(r)
<1> DEFINE some == {v \in Sounding(s) : /\ s.voice[v].lane \in SongLanes
                                        /\ ~(Prepared /\ s.voice[v].domain = "Custom")}
           q == Drop(s, some)
           chans == [l \in SongLanes |-> None]
<1>1. /\ Tuned(s, q) /\ q.chan = s.chan
      /\ \A v \in Sounding(s) : /\ q.voice[v].art = IF v \in some THEN "none" ELSE s.voice[v].art
                                /\ q.voice[v].sound = s.voice[v].sound
  BY DropMakes DEF Good
<1>2. r = [q EXCEPT !.chan = chans]
  BY DEF ResetProcessor
<1> HIDE DEF q
<1>3. Good(q)
  BY <1>1, TunedKeeps
<1>4. /\ Typed(q) /\ Sounding(q) = Sounding(s)
      /\ \A v \in Sounding(s) : /\ q.voice[v].lane = s.voice[v].lane /\ q.voice[v].life = s.voice[v].life
                                /\ q.voice[v].domain = s.voice[v].domain
  BY <1>1 DEF Tuned, Like
<1>5. chans \in [SongLanes -> Sounding(q) \cup {None}] /\ \A l \in SongLanes : chans[l] = None
  OBVIOUS
<1> HIDE DEF chans
<1>6. /\ Typed(r) /\ Sounding(r) = Sounding(q)
      /\ r.voice = q.voice /\ r.chan = chans /\ r.lane = q.lane /\ r.refused = q.refused
  BY <1>2, <1>4, <1>5, ChanHandles
<1>7. Good(r)
  <2>1. Plenty => ~r.refused
    BY <1>3, <1>6 DEF Good
  <2>2. Good(q) /\ Typed(r) /\ r.voice = q.voice /\ r.lane = q.lane
    BY <1>3, <1>6
  <2> QED BY <2>1, <2>2, GoodAlike
<1>8. Shaped(r)
  BY <1>1, <1>4, <1>6 DEF Shaped
<1>9. Held(r, SongLanes)
  BY <1>5, <1>6 DEF Held
<1>10. Living(r, {})
  <2> SUFFICES ASSUME Interactive, NEW v \in Sounding(s) PROVE Alive(q.voice[v])
    BY <1>4, <1>6 DEF Living
  <2>1. CASE v \in some
    <3>1. s.voice[v].life = "Retiring"
      BY <2>1
    <3>2. s.voice[v].sound = "stopping"
      BY <3>1 DEF Good, Sound
    <3> QED BY <1>1, <1>4, <3>1, <3>2 DEF Alive
  <2>2. CASE v \notin some
    <3>1. Alive(s.voice[v])
      BY DEF Living
    <3> HIDE DEF some
    <3> QED BY <1>1, <1>4, <2>2, <3>1 DEF Alive
  <2> QED BY <2>1, <2>2
<1> QED BY <1>7, <1>8, <1>9, <1>10 DEF Well

LEMMA SeekKeeps ==
    ASSUME NEW s, Well(s), NEW r, r = ResetProcessor(IF Interactive THEN Retire(s, SongVoices(s)) ELSE s)
    PROVE  Well(r)
<1>1. /\ Good(s) /\ Typed(s) /\ \A v \in Sounding(s) : s.voice[v] \in VoiceRecords
  BY TypedParts DEF Well, Good
<1>2. CASE ~Interactive
  <2>1. r = ResetProcessor(s)
    BY <1>2
  <2>2. \A v \in Sounding(s) : s.voice[v].lane \in SongLanes /\ s.voice[v].art = "fore"
                                 => s.voice[v].domain # "Custom"
    BY ForeIs
  <2> QED BY <1>1, <1>2, <2>1, <2>2, ResetKeeps DEF Well
<1>3. CASE Interactive
  <2> DEFINE q == Retire(s, SongVoices(s))
  <2>1. r = ResetProcessor(q)
    BY <1>3
  <2>2. RetiredTo(s, SongVoices(s), q)
    BY <1>1, RetireKeeps
  <2>3. \A v \in Sounding(s) : q.voice[v] = IF v \in Retires(s, SongVoices(s)) THEN Retired(s.voice[v]) ELSE s.voice[v]
    BY <1>1, RetireMakes
  <2> HIDE DEF q
  <2>4. Good(q) /\ Sounding(q) = Sounding(s)
    BY <2>2 DEF RetiredTo
  <2>5. Living(q, {})
    BY <2>2 DEF RetiredTo, Well
  <2>6. ASSUME NEW v \in Sounding(q), q.voice[v].lane \in SongLanes
        PROVE  /\ q.voice[v].art = "fore" => q.voice[v].domain # "Custom"
               /\ q.voice[v].life = "Retiring"
    <3>1. v \in Sounding(s) /\ s.voice[v].lane \in SongLanes
      BY <1>1, <2>3, <2>4, <2>6, RetiredIs
    <3>2. v \in SongVoices(s)
      BY <1>1, <3>1 DEF SongVoices, Good, Sound
    <3>3. q.voice[v].life = "Retiring"
      BY <1>1, <2>3, <3>1, <3>2, RetiredIs DEF Retires
    <3>4. q.voice[v].art = "fore" => q.voice[v].domain # "Custom"
      BY <1>1, <2>3, <3>1, ForeIs, RetiredIs
    <3> QED BY <3>3, <3>4
  <2> QED BY <2>1, <2>4, <2>5, <2>6, ResetKeeps
<1> QED BY <1>2, <1>3

LEMMA ForgetFinishedKeeps ==
    ASSUME NEW s, Well(s), NEW r, r = [s EXCEPT !.lane = [l \in Lanes |-> IF Drives(s, l) THEN s.lane[l] ELSE None]]
    PROVE  Well(r)
<1> DEFINE lanes == [l \in Lanes |-> IF Drives(s, l) THEN s.lane[l] ELSE None]
<1>1. /\ Good(s) /\ Typed(s) /\ None \notin Sounding(s) /\ Stale \notin Sounding(s)
      /\ s.lane \in [Lanes -> Sounding(s) \cup {None, Stale}]
  BY TypedParts DEF Well, Good
<1>2. /\ lanes \in [Lanes -> Sounding(s) \cup {None, Stale}]
      /\ \A l \in Lanes : lanes[l] = IF Drives(s, l) THEN s.lane[l] ELSE None
  BY <1>1
<1>3. r = [s EXCEPT !.lane = lanes]
  OBVIOUS
<1> HIDE DEF lanes
<1>4. /\ Typed(r) /\ Sounding(r) = Sounding(s)
      /\ r.voice = s.voice /\ r.lane = lanes /\ r.chan = s.chan /\ r.refused = s.refused
  BY <1>1, <1>2, <1>3, LaneHandles
<1>5. Driven(r)
  BY <1>1, <1>2, <1>4 DEF Good, Driven, Drives
<1>6. Good(r)
  <2>1. Rings(r)
    BY <1>1, <1>4 DEF Good, Rings
  <2>2. Prepared => Budget(r)
    <3>1. \A d : Owned(r, d) = Owned(s, d) /\ Active(r, d) = Active(s, d)
      BY <1>4 DEF Owned, Active
    <3> QED BY <1>1, <3>1 DEF Good, Budget
  <2> QED BY <1>1, <1>4, <1>5, <2>1, <2>2 DEF Good
<1>7. Shaped(r) /\ Living(r, {})
  BY <1>4 DEF Well, Shaped, Living
<1>8. Held(r, SongLanes)
  <2> SUFFICES ASSUME NEW k \in SongLanes, s.chan[k] # None
               PROVE  r.lane[k] = s.chan[k] /\ s.voice[s.chan[k]].art = "fore"
    BY <1>4 DEF Held
  <2> QED BY <1>2, <1>4, ChanIs DEF Drives, Lanes
<1> QED BY <1>6, <1>7, <1>8 DEF Well

-----------------------------------------------------------------------------
(* A note of the live rack *)

LEMMA LiveLane ==
    ASSUME NEW s, Good(s), NEW l \in LiveLanes
    PROVE  /\ l \in Lanes /\ l \notin SongLanes
           /\ \A v \in Sounding(s) : s.lane[l] = v => s.voice[v].lane = l
BY DEF Lanes, Good, Driven

\* What happens to the note before: kept as a tail, left to sound on, or neither.
LEMMA PreserveKeeps ==
    ASSUME NEW s, Well(s), NEW l \in LiveLanes, NEW goesOn,
           NEW r, r = (IF ~Drives(s, l) THEN s
                       ELSE IF Candidate(s, s.lane[l]) THEN DetachCustom(s, l)
                       ELSE IF goesOn THEN Leave(Detach(s, l), s.lane[l]) ELSE s)
    PROVE  Well(r)
<1>1. Good(s) /\ l \in Lanes /\ l \notin SongLanes
  BY LiveLane DEF Well
<1>2. CASE r = s
  BY <1>2
<1>3. CASE Drives(s, l) /\ Candidate(s, s.lane[l])
  <2>1. r = DetachCustom(s, l)
    BY <1>3
  <2>2. TailedTo(s, l, r)
    BY <1>1, <1>3, <2>1, DetachCustomKeeps
  <2>3. Good(r) /\ Shaped(r) /\ Living(r, {})
    BY <2>2 DEF TailedTo, Well
  <2>4. Held(r, SongLanes \ {l})
    BY <2>2 DEF TailedTo, Well
  <2>5. SongLanes \ {l} = SongLanes
    BY <1>1
  <2> QED BY <2>3, <2>4, <2>5 DEF Well
<1>4. CASE Drives(s, l) /\ r = Leave(Detach(s, l), s.lane[l])
  <2> DEFINE q == Detach(s, l)
             u == s.lane[l]
  <2>1. DetachedTo(s, l, q)
    BY <1>1, DetachKeeps
  <2>2. r = Leave(q, u)
    BY <1>4
  <2>3. u \in Sounding(s) /\ s.voice[u].lane = l
    BY <1>1, <1>4, DrivenIs
  <2> HIDE DEF q, u
  <2>4. /\ Good(q) /\ Typed(q) /\ Shaped(q) /\ Sounding(q) = Sounding(s) /\ q.chan = s.chan
        /\ \A v \in Sounding(s) : q.voice[v].art = s.voice[v].art /\ q.voice[v].lane = s.voice[v].lane
    BY <2>1 DEF DetachedTo, Well, Good
  <2>5. Held(q, SongLanes)
    <3>1. Held(q, SongLanes \ {l})
      BY <2>1 DEF DetachedTo, Well
    <3>2. SongLanes \ {l} = SongLanes
      BY <1>1
    <3> QED BY <3>1, <3>2
  <2>6. Living(q, {})
    BY <1>1, <2>1 DEF DetachedTo, Well
  <2>7. /\ Tuned(q, r) /\ r.chan = q.chan
        /\ \A v \in Sounding(q) : /\ v # u => r.voice[v] = q.voice[v]
                                  /\ r.voice[v].art = "none" <=> q.voice[v].art = "none"
                                  /\ r.voice[v].sound = q.voice[v].sound
        /\ u \in Sounding(q) => r.voice[u].art # "fore"
    BY <2>2, <2>4, LeaveMakes
  <2>8. Good(r)
    BY <2>4, <2>7, TunedKeeps
  <2>9. /\ Sounding(r) = Sounding(q) /\ r.lane = q.lane
        /\ \A v \in Sounding(q) : /\ r.voice[v].lane = q.voice[v].lane /\ r.voice[v].life = q.voice[v].life
                                  /\ r.voice[v].domain = q.voice[v].domain
    BY <2>7 DEF Tuned, Like
  <2>10. Shaped(r)
    BY <2>4, <2>7, <2>9 DEF Shaped
  <2>11. Living(r, {})
    BY <2>6, <2>7, <2>9 DEF Living, Alive
  <2>12. Held(r, SongLanes)
    <3> SUFFICES ASSUME NEW k \in SongLanes, r.chan[k] # None
                 PROVE  r.lane[k] = r.chan[k] /\ r.voice[r.chan[k]].art = "fore"
      BY DEF Held
    <3>1. s.chan[k] = r.chan[k] /\ s.chan[k] \in Sounding(s) /\ s.voice[s.chan[k]].lane = k
      BY <2>4, <2>7, ChanIs
    <3>2. s.chan[k] # u
      BY <1>1, <2>3, <3>1
    <3>3. q.lane[k] = q.chan[k] /\ q.voice[q.chan[k]].art = "fore"
      BY <2>4, <2>5, <3>1, TypedParts DEF Held
    <3> QED BY <2>4, <2>7, <2>9, <3>1, <3>2, <3>3
  <2> QED BY <2>8, <2>10, <2>11, <2>12 DEF Well
<1> QED BY <1>2, <1>3, <1>4

\* The rack shapes what it has started.
LEMMA BegunLive ==
    ASSUME NEW s, Good(s), Shaped(s), Held(s, SongLanes), NEW v \in Sounding(s), Living(s, {v}),
           s.voice[v].lane \notin SongLanes, NEW r, r = Begun(s, v)
    PROVE  Well(r)
<1>1. /\ Tuned(s, r) /\ r.chan = s.chan
      /\ \A w \in Sounding(s) : w # v => r.voice[w] = s.voice[w]
      /\ r.voice[v].art = "fore"
  BY BegunMakes DEF Good
<1>2. Good(r)
  BY <1>1, TunedKeeps
<1>3. Sounding(r) = Sounding(s) /\ r.lane = s.lane /\ r.voice[v].lane = s.voice[v].lane
  BY <1>1 DEF Tuned, Like
<1>4. Shaped(r)
  BY <1>1, <1>3 DEF Shaped
<1>5. Held(r, SongLanes)
  <2>1. \A l \in SongLanes : s.chan[l] \in Sounding(s) \cup {None}
    BY TypedParts DEF Good
  <2> QED BY <1>1, <1>3, <2>1 DEF Held
<1>6. Living(r, {})
  BY <1>1, <1>3 DEF Living, Alive
<1> QED BY <1>2, <1>4, <1>5, <1>6 DEF Well

LEMMA LiveNoteKeeps ==
    ASSUME NEW s, Well(s), NEW l \in LiveLanes, NEW n \in Notes, NEW volume \in Volumes,
           NEW check, NEW goesOn, NEW r, r = LiveNote(s, l, n, volume, check, goesOn)
    PROVE  Well(r)
<1> DEFINE after == Retire(s, Checked(s, l, n, check, TRUE))
           kept == IF ~Drives(after, l) THEN after
                   ELSE IF Candidate(after, after.lane[l]) THEN DetachCustom(after, l)
                   ELSE IF goesOn THEN Leave(Detach(after, l), after.lane[l]) ELSE after
           emptied == Retire(kept, {kept.lane[l]})
           victim == IF Cardinality(Active(emptied, "Live")) >= Limit["Live"]
                     THEN Oldest(Active(emptied, "Live")) ELSE None
           room == Admission(emptied, "Live", victim)
           q == room.state
           played == IF room.ok THEN Trigger(q, l, n) ELSE room
           p == played.state
           v == p.lane[l]
<1>1. r = IF played.ok THEN Begun(Identify(p, v, volume), v) ELSE [p EXCEPT !.refused = TRUE]
  BY DEF LiveNote
<1>2. l \in Lanes /\ l \notin SongLanes /\ Interactive /\ Prepared
  BY LiveLane, LiveAssumption DEF Well, Interactive
<1>3. Well(after)
  <2>1. \A u \in Checked(s, l, n, check, TRUE) : s.voice[u].lane = l
    BY DEF Checked
  <2> QED BY <1>2, <2>1, RetireWell
<1> HIDE DEF after
<1>4. Well(kept)
  BY <1>3, PreserveKeeps
<1> HIDE DEF kept
<1>5. Well(emptied)
  <2>1. \A u \in {kept.lane[l]} \cap Sounding(kept) : kept.voice[u].lane = l
    BY <1>4, LiveLane DEF Well
  <2> QED BY <1>2, <1>4, <2>1, RetireWell
<1> HIDE DEF emptied
<1>6. /\ IsFiniteSet(Active(emptied, "Live")) /\ Cardinality(Active(emptied, "Live")) \in Nat
      /\ Active(emptied, "Live") \subseteq Nat /\ Active(emptied, "Live") \subseteq Sounding(emptied)
      /\ Limit["Live"] \in Nat /\ Limit["Live"] > 0 /\ "Live" \in Domains
  <2>1. Typed(emptied)
    BY <1>5 DEF Well, Good
  <2>2. "Live" \in Domains
    BY DEF Domains
  <2>6. Active(emptied, "Live") \subseteq Owned(emptied, "Live") /\ Owned(emptied, "Live") \subseteq Sounding(emptied)
    BY <2>1, Counted
  <2>3. /\ IsFiniteSet(Active(emptied, "Live")) /\ Cardinality(Active(emptied, "Live")) \in Nat
        /\ Active(emptied, "Live") \subseteq Sounding(emptied)
    BY <2>1, <2>6, Counted
  <2>4. Sounding(emptied) \subseteq Nat
    BY <2>1, TypedParts
  <2>5. Limit["Live"] \in Nat /\ Limit["Live"] > 0
    BY <1>2, <2>2, Rooms, LiveAssumption
  <2> QED BY <2>2, <2>3, <2>4, <2>5
<1>7. /\ victim \in Active(emptied, "Live") \cup {None}
      /\ victim # None \/ Cardinality(Active(emptied, "Live")) < Limit["Live"]
  <2> DEFINE A == Active(emptied, "Live")
  <2>1. A # {} => Min(A) \in A
    BY <1>6, MinOfSome
  <2>2. Cardinality(A) >= Limit["Live"] => A # {}
    BY <1>6, FS_EmptySet
  <2>3. None \notin A
    BY <1>6
  <2> HIDE DEF A
  <2>4. victim = IF Cardinality(A) >= Limit["Live"] THEN (IF A = {} THEN None ELSE Min(A)) ELSE None
    BY DEF A, Oldest
  <2>5. Cardinality(A) \in Nat /\ Limit["Live"] \in Nat
    BY <1>6 DEF A
  <2> HIDE DEF victim
  <2> QED BY <2>1, <2>2, <2>3, <2>4, <2>5 DEF A
<1> HIDE DEF victim
<1>8. AdmittedTo(emptied, "Live", victim, room, q)
  BY <1>2, <1>5, <1>6, <1>7, AdmissionDoes DEF Well
<1> HIDE DEF room
<1>9. Well(q)
  <2>1. Good(q) /\ Shaped(q) /\ Living(q, {})
    BY <1>5, <1>8 DEF AdmittedTo, Well
  <2>2. \A k \in SongLanes : emptied.chan[k] = None \/ emptied.chan[k] # victim
    <3> SUFFICES ASSUME NEW k \in SongLanes, emptied.chan[k] # None, emptied.chan[k] = victim PROVE FALSE
      OBVIOUS
    <3>1. emptied.voice[victim].domain = "Native"
      BY <1>5, ChanIs
    <3>2. emptied.voice[victim].domain = "Live"
      BY <1>7 DEF Active, Owned
    <3> QED BY <3>1, <3>2
  <2>3. Held(q, SongLanes)
    BY <1>5, <1>8, <2>2 DEF AdmittedTo, Well
  <2> QED BY <2>1, <2>3 DEF Well
<1>10. room.ok /\ Cardinality(Active(q, "Live")) < Limit["Live"]
  BY <1>2, <1>6, <1>7, <1>8 DEF AdmittedTo
<1> HIDE DEF q
<1>11. played = Trigger(q, l, n)
  BY <1>10
<1> HIDE DEF played
<1>12. TriggeredTo(q, l, n, played, p)
  BY <1>2, <1>9, <1>11, TriggerDoes DEF Well
<1>13. NewVoice(l, n).domain = "Live" /\ NewVoice(l, n).lane = l /\ NewVoice(l, n).life = "Foreground"
  BY <1>2, NewVoiceIs
<1>14. played.ok
  <2>1. Cardinality(Active(q, "Live") \ {q.lane[l]}) < Limit["Live"]
    <3>1. IsFiniteSet(Active(q, "Live")) /\ Cardinality(Active(q, "Live")) \in Nat
      BY <1>9, Counted DEF Well, Good
    <3>2. Cardinality(Active(q, "Live") \ {q.lane[l]})
            = IF q.lane[l] \in Active(q, "Live") THEN Cardinality(Active(q, "Live")) - 1
              ELSE Cardinality(Active(q, "Live"))
      BY <3>1, FS_RemoveElement
    <3> QED BY <1>6, <1>10, <3>1, <3>2
  <2> QED BY <1>2, <1>12, <1>13, <2>1 DEF TriggeredTo
<1> HIDE DEF p
<1>15. /\ Good(p) /\ Shaped(p) /\ v \in Sounding(p) /\ p.voice[v] = NewVoice(l, n)
  BY <1>9, <1>12, <1>14 DEF TriggeredTo, Well
<1>16. Held(p, SongLanes)
  BY <1>9, <1>12 DEF TriggeredTo, Well
<1>17. Living(p, {v})
  BY <1>9, <1>12, <1>14 DEF TriggeredTo, Well
<1> HIDE DEF v
<1> DEFINE i == Identify(p, v, volume)
<1>18. NamedTo(p, i)
  BY <1>13, <1>15, IdentifyDoes
<1>19. r = Begun(i, v)
  BY <1>1, <1>14
<1> HIDE DEF i
<1>20. Good(i) /\ Sounding(i) = Sounding(p) /\ Shaped(i) /\ i.voice[v].lane = l
  BY <1>13, <1>15, <1>18 DEF NamedTo
<1>21. Held(i, SongLanes)
  BY <1>16, <1>18 DEF NamedTo
<1>22. Living(i, {v})
  BY <1>17, <1>18 DEF NamedTo
<1> QED BY <1>2, <1>15, <1>19, <1>20, <1>21, <1>22, BegunLive

-----------------------------------------------------------------------------
(* 4. The steps *)

\* What the turns of the lanes, one after the other, lead to.
LEMMA TurnsLead ==
    ASSUME NEW P, Now \in P, \A q \in P : \A l \in SongLanes : Turn(q, l) \subseteq P
    PROVE  Turns \subseteq P
<1> DEFINE k == Cardinality(SongLanes)
           All(X, l) == UNION {Turn(q, l) : q \in X}
           Fold(f, i) == f = [l \in 0 .. i |-> IF l = 0 THEN {Now} ELSE All(f[l - 1], l)]
           S == {i \in Nat : \E f : Fold(f, i)}
<1>1. k \in Nat
  BY FS_CardinalityType
<1>6. Turns = (CHOOSE f : Fold(f, k))[k]
  BY DEF Turns
<1>11. \A X, l, q : q \in All(X, l) => \E p \in X : q \in Turn(p, l)
  OBVIOUS
<1> HIDE DEF All
<1>2. 0 \in S
  <2> DEFINE f == [l \in 0 .. 0 |-> {Now}]
  <2>1. Fold(f, 0)
    OBVIOUS
  <2> QED BY <2>1
<1>3. ASSUME NEW i \in Nat, i \in S PROVE i + 1 \in S
  <2>1. PICK f : Fold(f, i)
    BY <1>3
  <2> DEFINE g == [l \in 0 .. i + 1 |-> IF l = i + 1 THEN All(f[i], i + 1) ELSE f[l]]
             body(l) == IF l = 0 THEN {Now} ELSE All(g[l - 1], l)
  <2>2. ASSUME NEW l \in 0 .. i + 1 PROVE g[l] = body(l)
    <3>1. CASE l = i + 1
      BY <3>1
    <3>2. CASE l \in 0 .. i
      <4>1. f[l] = IF l = 0 THEN {Now} ELSE All(f[l - 1], l)
        BY <2>1, <3>2
      <4> QED BY <3>2, <4>1
    <3> QED BY <2>2, <3>1, <3>2
  <2>3. g = [l \in 0 .. i + 1 |-> g[l]]
    OBVIOUS
  <2>4. Fold(g, i + 1)
    <3> HIDE DEF g, body
    <3>1. g = [l \in 0 .. i + 1 |-> body(l)]
      BY <2>2, <2>3
    <3> QED BY <3>1 DEF body
  <2> HIDE DEF g, Fold
  <2> QED BY <2>4
<1>4. k \in S
  <2> HIDE DEF S, k
  <2> QED BY <1>1, <1>2, <1>3, Onwards
<1> DEFINE f == CHOOSE f : Fold(f, k)
<1>5. Fold(f, k)
  BY <1>4
<1>12. Turns = f[k]
  BY <1>6
<1> HIDE DEF f
<1>7. f[0] = {Now} /\ \A l \in 1 .. k : f[l] = All(f[l - 1], l)
  <2>1. f[0] = {Now}
    BY <1>1, <1>5
  <2>2. ASSUME NEW l \in 1 .. k PROVE f[l] = All(f[l - 1], l)
    <3>1. l \in 0 .. k /\ l # 0
      BY <1>1
    <3> QED BY <1>5, <3>1
  <2> QED BY <2>1, <2>2
<1> DEFINE T == {l \in Nat : f[l] \subseteq P}
<1>8. 0 \in T
  BY <1>7
<1>9. ASSUME NEW l \in 0 .. k, l \in T, l # k PROVE l + 1 \in T
  <2>1. l + 1 \in 1 .. k /\ (l + 1) - 1 = l /\ l + 1 \in Nat
    BY <1>1, <1>9
  <2>2. l + 1 \in SongLanes
    BY <2>1
  <2>3. f[l + 1] \subseteq P
    <3> SUFFICES ASSUME NEW q \in f[l + 1] PROVE q \in P
      OBVIOUS
    <3> DEFINE j == l + 1
    <3>1. j \in 1 .. k /\ j - 1 = l /\ j \in SongLanes
      BY <2>1, <2>2
    <3> HIDE DEF j, k
    <3>2. f[j] = All(f[j - 1], j)
      BY <1>7, <3>1
    <3>3. PICK p \in f[l] : q \in Turn(p, j)
      BY <1>11, <3>1, <3>2 DEF j
    <3>4. p \in P
      BY <1>9
    <3> QED BY <3>1, <3>3, <3>4
  <2> QED BY <2>1, <2>3
<1>10. k \in T
  <2> HIDE DEF T, k
  <2>1. \A l \in 0 .. k : l \in T /\ l # k => l + 1 \in T
    BY <1>9
  <2> QED BY <1>1, <1>8, <2>1, Onwards
<1> QED BY <1>10, <1>12

LEMMA TurnsKeep ==
    ASSUME Well(Now), NEW s \in Turns
    PROVE  Well(s)
<1> DEFINE P == {q \in States : Well(q)}
<1>1. Now \in P
  BY DEF Well, Good, Typed
<1>2. ASSUME NEW q \in P, NEW l \in SongLanes PROVE Turn(q, l) \subseteq P
  <2>1. \A r \in Turn(q, l) : Well(r)
    BY TurnKeeps
  <2>2. \A r \in Turn(q, l) : r \in States
    BY <2>1 DEF Well, Good, Typed
  <2> QED BY <2>1, <2>2
<1> HIDE DEF P
<1>3. Turns \subseteq P
  BY <1>1, <1>2, TurnsLead
<1> QED BY <1>3 DEF P

\* The next state is the one that a step has made.
LEMMA BecomeKeeps ==
    ASSUME NEW r, Well(r), Become(r), overlap' \in BOOLEAN, overlap' => Overlapping,
           \A v \in Sounding(r) : r.voice[v].tail => overlap'
    PROVE  IInv'
<1> DEFINE n == [voice |-> r.voice, lane |-> r.lane, chan |-> r.chan, refused |-> FALSE]
<1>1. voice' = r.voice /\ lane' = r.lane /\ chan' = r.chan /\ refused' = r.refused
  BY DEF Become
<1>2. Now' = n
  BY <1>1 DEF Now
<1>3. r \in States /\ r.refused \in BOOLEAN /\ (Plenty => ~r.refused)
  BY DEF Well, Good, Typed, States
<1>4. n \in States /\ n.voice = r.voice /\ n.lane = r.lane /\ n.chan = r.chan /\ ~n.refused
  BY <1>3 DEF States
<1> HIDE DEF n
<1>5. Sounding(n) = Sounding(r)
  BY <1>4 DEF Sounding
<1>6. Typed(n)
  BY <1>4, <1>5 DEF Well, Good, Typed
<1>7. Good(n) /\ Living(n, {})
  BY <1>4, <1>6, GoodAlike DEF Well
<1>8. Shaped(n)
  BY <1>4, <1>5 DEF Well, Shaped
<1>9. Held(n, SongLanes)
  BY <1>4 DEF Well, Held
<1>10. (Driven(n) /\ Rings(n) /\ (Prepared => Budget(n))) /\ Len(n.voice) <= Pool
       /\ \A v \in Sounding(n) : Sound(n.voice[v])
  BY <1>7 DEF Good
<1>11. \A v \in Sounding(n) : n.voice[v].tail => overlap'
  BY <1>4, <1>5
<1>12. Good(Now)'
  BY <1>2, <1>4, <1>6, <1>10, <1>11 DEF Good
<1>13. Well(Now)'
  BY <1>2, <1>7, <1>8, <1>9, <1>12 DEF Well
<1> QED BY <1>1, <1>3, <1>13 DEF IInv

LEMMA StepKeeps ==
    ASSUME IInv, NEW r, Well(r), Become(r), UNCHANGED overlap
    PROVE  IInv'
<1>1. \A v \in Sounding(r) : r.voice[v].tail => overlap
  BY DEF Well, Good
<1> QED BY <1>1, BecomeKeeps DEF IInv

\* The invariant holds at the beginning.
LEMMA InitHolds == Init => IInv
<1> SUFFICES ASSUME Init PROVE IInv
  OBVIOUS
<1> DEFINE s == Now
<1>1. /\ s \in States /\ s.voice = <<>> /\ s.refused = FALSE
      /\ \A l \in Lanes : s.lane[l] = None
      /\ \A l \in SongLanes : s.chan[l] = None
  <2>1. /\ voice = <<>> /\ voice \in Seq(VoiceRecords) /\ lane \in [Lanes -> Nat \cup {None, Stale}]
        /\ chan \in [SongLanes -> Nat \cup {None}] /\ FALSE \in BOOLEAN
        /\ \A l \in Lanes : lane[l] = None
        /\ \A l \in SongLanes : chan[l] = None
    BY DEF Init
  <2> QED BY <2>1 DEF Now, States
<1> HIDE DEF s
<1>2. Sounding(s) = {} /\ Len(s.voice) = 0
  <2>1. DOMAIN s.voice = 1 .. 0 /\ Len(s.voice) = 0
    BY <1>1
  <2> QED BY <2>1 DEF Sounding
<1>3. Typed(s)
  BY <1>1 DEF Typed
<1>4. Budget(s)
  <2>1. \A d : Owned(s, d) = {} /\ Active(s, d) = {}
    BY <1>2 DEF Owned, Active
  <2>2. Cardinality({}) = 0
    BY FS_EmptySet
  <2>3. \A d \in Domains : 0 <= Limit[d] /\ 0 <= Room[d]
    BY Rooms
  <2>4. \A d \in Domains : Cardinality(Active(s, d)) <= Limit[d] /\ Cardinality(Owned(s, d)) <= Room[d]
    BY <2>1, <2>2, <2>3
  <2> QED BY <2>4 DEF Budget
<1>5. Good(s)
  <2>1. Driven(s) /\ Rings(s) /\ Len(s.voice) <= Pool
    BY <1>2, Rooms DEF Driven, Rings
  <2> QED BY <1>1, <1>2, <1>3, <1>4, <2>1 DEF Good
<1>6. Well(s)
  BY <1>1, <1>2, <1>5 DEF Well, Shaped, Held, Living
<1> QED BY <1>6 DEF IInv, Init, s

\* Every step keeps it.
LEMMA NextKeeps == IInv /\ [Next]_vars => IInv'
<1> SUFFICES ASSUME IInv, [Next]_vars PROVE IInv'
  OBVIOUS
<1>1. Well(Now)
  BY DEF IInv
<1>2. CASE Tick
  <2>1. PICK s \in Turns : \E faded \in AtMostOne(Fading(s)) : Become(AdvanceVoices(s, faded))
    BY <1>2 DEF Tick
  <2>2. PICK faded : Become(AdvanceVoices(s, faded))
    BY <2>1
  <2>3. Well(AdvanceVoices(s, faded))
    BY <1>1, TurnsKeep, AdvanceVoicesKeeps
  <2> QED BY <1>2, <2>2, <2>3, StepKeeps DEF Tick
<1>3. CASE ControlStep
  <2>1. PICK faded : Become(AdvanceVoices(Now, faded))
    BY <1>3 DEF ControlStep
  <2>2. Well(AdvanceVoices(Now, faded))
    BY <1>1, AdvanceVoicesKeeps
  <2> QED BY <1>3, <2>1, <2>2, StepKeeps DEF ControlStep
<1>4. CASE LivePlay
  <2>0. PICK l \in LiveLanes : (\E s \in LiveNotes(Now, l) : Become(s)) /\ UNCHANGED overlap
    BY <1>4 DEF LivePlay
  <2>1. PICK s \in LiveNotes(Now, l) : Become(s)
    BY <2>0
  <2>2. PICK n \in Notes, volume \in Volumes, check \in DuplicateChecks, goesOn \in BOOLEAN :
          s = LiveNote(Now, l, n, volume, check, goesOn)
    BY <2>1 DEF LiveNotes
  <2>3. Well(s)
    BY <1>1, <2>2, LiveNoteKeeps
  <2> QED BY <2>0, <2>1, <2>3, StepKeeps
<1>5. CASE LiveStep
  <2>1. PICK faded : Become(LiveControl(Now, faded))
    BY <1>5 DEF LiveStep
  <2> DEFINE some == {v \in Owned(Now, "Live") : Stepped(Now, v) /\ v \in faded}
             r == LiveControl(Now, faded)
  <2>2. \A v \in some : Now.voice[v].domain # "Native"
    BY DEF Owned
  <2>3. r = Retire(Now, some)
    BY DEF LiveControl
  <2> HIDE DEF some, r
  <2>4. Well(r)
    BY <1>1, <2>2, <2>3, RetireWell
  <2>5. Become(r)
    BY <2>1 DEF r
  <2> QED BY <1>5, <2>4, <2>5, StepKeeps DEF LiveStep
<1>6. CASE Clear
  <2>1. PICK some : Become(ClearSound(Retire(Now, some)))
    BY <1>6 DEF Clear
  <2>2. Well(ClearSound(Retire(Now, some)))
    BY <1>1, ClearKeeps
  <2> QED BY <1>6, <2>1, <2>2, StepKeeps DEF Clear
<1>7. CASE SetOverlap
  <2> DEFINE r == IF overlap THEN ClearSound(Retire(Now, Tails(Now))) ELSE Now
  <2>1. Become(r) /\ overlap' = ~overlap /\ Overlapping
    BY <1>7 DEF SetOverlap
  <2>2. Well(r) /\ \A v \in Sounding(r) : ~r.voice[v].tail
    <3>1. CASE overlap
      <4>1. r = ClearSound(Retire(Now, Tails(Now)))
        BY <3>1
      <4> HIDE DEF r
      <4>2. Well(r)
        BY <1>1, <4>1, ClearKeeps
      <4>3. \A v \in Sounding(r) : r.voice[v].tail => v \in Sounding(Now) /\ Now.voice[v].tail /\ v \notin Tails(Now)
        BY <1>1, <4>1, ClearKeeps
      <4> QED BY <4>2, <4>3 DEF Tails
    <3>2. CASE ~overlap
      <4>1. r = Now
        BY <3>2
      <4> HIDE DEF r
      <4> QED BY <1>1, <3>2, <4>1 DEF Well, Good
    <3> QED BY <3>1, <3>2
  <2>3. overlap \in BOOLEAN
    BY DEF IInv
  <2> HIDE DEF r
  <2> QED BY <2>1, <2>2, <2>3, BecomeKeeps
<1>8. CASE Seek
  <2> DEFINE r == ResetProcessor(IF Interactive THEN Retire(Now, SongVoices(Now)) ELSE Now)
  <2>1. Become(r) /\ UNCHANGED overlap
    BY <1>8 DEF Seek
  <2>2. Well(r)
    BY <1>1, SeekKeeps
  <2> HIDE DEF r
  <2> QED BY <2>1, <2>2, StepKeeps
<1>9. CASE Mix
  <2> DEFINE ending == {v \in Sounding(Now) : voice[v].sound = "stopping" \/ voice[v].note \notin Looping}
  <2>1. PICK ended \in AtMostOne(ending) : Become(Release(Now, ended))
    BY <1>9 DEF Mix
  <2>2. ended \subseteq Sounding(Now)
    BY <2>1 DEF AtMostOne
  <2>3. Well(Release(Now, ended))
    BY <1>1, <2>2, ReleasedWell
  <2> QED BY <1>9, <2>1, <2>3, StepKeeps DEF Mix
<1>10. CASE ForgetFinished
  <2> DEFINE r == [Now EXCEPT !.lane = [l \in Lanes |-> IF Drives(Now, l) THEN Now.lane[l] ELSE None]]
  <2>1. Now.lane = lane
    BY DEF Now
  <2>2. Become(r) /\ UNCHANGED overlap
    BY <1>10, <2>1 DEF ForgetFinished
  <2>3. Well(r)
    BY <1>1, ForgetFinishedKeeps
  <2> HIDE DEF r
  <2> QED BY <2>2, <2>3, StepKeeps
<1>11. CASE UNCHANGED vars
  <2>1. Now' = Now /\ overlap' = overlap /\ refused' = refused
    BY <1>11 DEF vars, Now
  <2> QED BY <2>1 DEF IInv, Well, Good
<1> QED BY <1>2, <1>3, <1>4, <1>5, <1>6, <1>7, <1>8, <1>9, <1>10, <1>11 DEF Next

\* The invariant holds in every state of every behaviour.
THEOREM Inductive == Spec => []IInv
BY InitHolds, NextKeeps, PTL DEF Spec

\* Every voice, lane and channel is of its kind, and a handle that a lane or the
\* song's processor keeps is of a voice that sounds, or is known to be of none
\* (VoicePool::release against Channel.foreground and ItChannel.voice).
THEOREM TypesHold == Spec => []TypeOK
<1>1. IInv => TypeOK
  <2> SUFFICES ASSUME IInv PROVE TypeOK
    OBVIOUS
  <2>1. Typed(Now) /\ Len(voice) <= Pool
    BY DEF IInv, Well, Good, Now
  <2>2. /\ voice \in Seq(VoiceRecords) /\ lane \in [Lanes -> Nat \cup {None, Stale}]
        /\ chan \in [SongLanes -> Nat \cup {None}]
    BY <2>1 DEF Typed, States, Now
  <2>3. /\ \A l \in Lanes : lane[l] \in Sounding(Now) \cup {None, Stale}
        /\ \A l \in SongLanes : chan[l] \in Sounding(Now) \cup {None}
    BY <2>1 DEF Typed, Now
  <2>4. /\ lane \in [Lanes -> Sounding(Now) \cup {None, Stale}]
        /\ chan \in [SongLanes -> Sounding(Now) \cup {None}]
    BY <2>2, <2>3
  <2>5. overlap \in BOOLEAN /\ refused \in BOOLEAN
    BY DEF IInv
  <2> QED BY <2>1, <2>2, <2>4, <2>5 DEF TypeOK
<1> QED BY <1>1, Inductive, PTL

\* The voices of a domain, and those of them that are not ramping out, stay within the
\* domain's budget and its reserve: neither stealing, nor a kept tail, nor a key of the
\* live rack takes the room of another domain (ChannelTable::prepare_admission).
THEOREM BudgetsHold == Spec => []WithinBudget
<1>1. IInv => WithinBudget
  BY DEF IInv, Well, Good, Budget, WithinBudget
<1> QED BY <1>1, Inductive, PTL

\* The lanes, the ownership records and the song's processor agree on who drives whom,
\* whatever was released, stolen, detached, retired or reset (Channel.foreground,
\* VoiceOwnership, ItChannel.voice).
THEOREM DriversAgree == Spec => []OneDriver
<1>1. IInv => OneDriver
  <2> SUFFICES ASSUME IInv PROVE OneDriver
    OBVIOUS
  <2>1. Driven(Now) /\ Held(Now, SongLanes)
    BY DEF IInv, Well, Good
  <2>2. \A v \in Sounding(Now), l \in Lanes :
          lane[l] = v <=> voice[v].lane = l /\ voice[v].life = "Foreground"
    BY <2>1 DEF Driven, Now
  <2>3. \A l \in SongLanes : chan[l] # None => lane[l] = chan[l] /\ voice[chan[l]].art = "fore"
    BY <2>1 DEF Held, Now
  <2> QED BY <2>2, <2>3 DEF OneDriver
<1> QED BY <1>1, Inductive, PTL

\* Two tails that the overlap policy keeps are never the same note of the same lane
\* (ChannelTable::replace_note_overlap_duplicates).
THEOREM TailsDiffer == Spec => []NoNoteRingsTwice
<1>1. IInv => NoNoteRingsTwice
  <2> SUFFICES ASSUME IInv, NEW v \in Tails(Now), NEW w \in Tails(Now), v # w,
                      voice[v].lane = voice[w].lane
               PROVE  voice[v].onset # voice[w].onset
    BY DEF NoNoteRingsTwice
  <2>1. v \in Sounding(Now) /\ w \in Sounding(Now) /\ Now.voice = voice
    BY DEF Tails, Now
  <2>2. Now.voice[v].tail /\ Now.voice[w].tail
    BY DEF Tails
  <2> QED BY <2>1, <2>2 DEF IInv, Well, Good, Rings
<1> QED BY <1>1, Inductive, PTL

\* With the live rack's build, a voice that sounds is driven by a lane or stepped by a
\* runtime: one that never ends by itself is never left to nobody
\* (ChannelTable::detach_foreground).  Without it a seek leaves the background to itself.
THEOREM SomebodyAlwaysEndsIt ==
    ASSUME Interactive
    PROVE  Spec => []SomebodyEndsIt
<1>1. IInv => SomebodyEndsIt
  BY DEF IInv, Well, Living, Alive, SomebodyEndsIt, Stepped, Now
<1> QED BY <1>1, Inductive, PTL

\* In an interactive build whose native budget has a voice for every lane of the song,
\* which its limit of 256 has for the 64 lanes, no note is refused, be the pool as full
\* as it may (ItProcessor::allocate_voice, admit_rack_note).
THEOREM NotesAlwaysPlay ==
    ASSUME Plenty
    PROVE  Spec => []EveryNotePlays
<1>1. IInv => EveryNotePlays
  BY DEF IInv, EveryNotePlays
<1> QED BY <1>1, Inductive, PTL

-----------------------------------------------------------------------------
(* 5. The song and the live rack.  Voices of one side, and what leaves them alone *)

\* The voices of the other side: of the song where the live ones are meant, and the
\* other way round.  What is left without them are the voices of a side, in order.
Others(s, live) == IF live THEN Sounding(s) \ Owned(s, "Live") ELSE Owned(s, "Live")
Side(s, live) == Left(s, Others(s, live))

LEMMA OthersAre ==
    ASSUME NEW s, NEW r, NEW live \in BOOLEAN, NEW v \in Sounding(s), NEW w \in Sounding(r),
           r.voice[w].domain = s.voice[v].domain
    PROVE  w \in Others(r, live) <=> v \in Others(s, live)
BY DEF Others, Owned

\* Changes to voices of the other side where they are, and new ones of it, are none to this.
LEMMA Spared ==
    ASSUME NEW s, s.voice \in Seq(VoiceRecords), NEW r, r.voice \in Seq(VoiceRecords), NEW live \in BOOLEAN,
           Len(s.voice) <= Len(r.voice),
           \A v \in Sounding(s) :
             r.voice[v] = s.voice[v] \/ (v \in Others(s, live) /\ v \in Others(r, live)),
           \A v \in Sounding(r) : v \in Sounding(s) \/ v \in Others(r, live)
    PROVE  Side(r, live) = Side(s, live)
<1> DEFINE n == Len(s.voice)
           m == Len(r.voice)
<1>1. n \in Nat /\ Sounding(s) = 1 .. n /\ m \in Nat /\ Sounding(r) = 1 .. m
  BY LenProperties DEF Sounding
<1>2. PICK g : /\ g[0] = <<>> /\ Side(s, live) = g[n]
               /\ \A v \in Sounding(s) :
                    g[v] = IF v \in Others(s, live) THEN g[v - 1] ELSE Append(g[v - 1], s.voice[v])
  BY LeftSoFar DEF Side
<1>3. PICK h : /\ h[0] = <<>> /\ Side(r, live) = h[m]
               /\ \A v \in Sounding(r) :
                    h[v] = IF v \in Others(r, live) THEN h[v - 1] ELSE Append(h[v - 1], r.voice[v])
  BY LeftSoFar DEF Side
<1> DEFINE S == {k \in 0 .. m : h[k] = IF k <= n THEN g[k] ELSE g[n]}
<1>4. 0 \in S
  BY <1>1, <1>2, <1>3
<1>5. ASSUME NEW k \in 0 .. m, k \in S, k # m PROVE k + 1 \in S
  <2> DEFINE v == k + 1
  <2>1. v \in Sounding(r) /\ v \in 0 .. m /\ v - 1 = k /\ k \in Nat
    BY <1>1, <1>5
  <2>2. h[k] = IF k <= n THEN g[k] ELSE g[n]
    BY <1>5
  <2>3. h[v] = IF v \in Others(r, live) THEN h[k] ELSE Append(h[k], r.voice[v])
    BY <1>3, <2>1
  <2>4. CASE k < n
    <3>1. v \in Sounding(s) /\ v <= n
      BY <1>1, <2>1, <2>4
    <3>2. g[v] = IF v \in Others(s, live) THEN g[k] ELSE Append(g[k], s.voice[v])
      BY <1>2, <2>1, <3>1
    <3>3. h[k] = g[k]
      BY <1>1, <2>1, <2>2, <2>4
    <3> HIDE DEF v
    <3>4. CASE r.voice[v] = s.voice[v]
      <4>1. v \in Others(r, live) <=> v \in Others(s, live)
        BY <2>1, <3>1, <3>4, OthersAre
      <4>2. h[v] = g[v]
        BY <2>3, <3>2, <3>3, <3>4, <4>1
      <4> QED BY <2>1, <3>1, <4>2 DEF v
    <3>5. CASE v \in Others(s, live) /\ v \in Others(r, live)
      <4>1. h[v] = g[v]
        BY <2>3, <3>2, <3>3, <3>5
      <4> QED BY <2>1, <3>1, <4>1 DEF v
    <3> QED BY <3>1, <3>4, <3>5
  <2>5. CASE ~(k < n)
    <3>1. v \notin Sounding(s) /\ ~(v <= n)
      BY <1>1, <2>1, <2>5
    <3>2. h[v] = h[k]
      BY <2>1, <2>3, <3>1
    <3>3. h[k] = g[n]
      BY <1>1, <2>1, <2>2, <2>5
    <3> QED BY <2>1, <3>1, <3>2, <3>3
  <2> QED BY <2>4, <2>5
<1>6. m \in S
  <2> HIDE DEF S, m
  <2> QED BY <1>1, <1>4, <1>5, Onwards
<1>7. h[m] = g[n]
  BY <1>1, <1>6
<1> QED BY <1>2, <1>3, <1>7

\* Nor are releases of voices of the other side.
LEMMA SparedOfRelease ==
    ASSUME NEW s, Typed(s), NEW live \in BOOLEAN, NEW gone,
           gone \subseteq Others(s, live) \/ gone \cap Sounding(s) = {}
    PROVE  Side(Release(s, gone), live) = Side(s, live)
<1>1. CASE gone \cap Sounding(s) = {}
  <2>1. Release(s, gone) = s
    BY <1>1 DEF Release
  <2> QED BY <2>1
<1>2. CASE gone \cap Sounding(s) # {}
  <2> DEFINE r == Release(s, gone)
             n == Len(s.voice)
             m == Len(r.voice)
             c(k) == k - Cardinality(Before(gone, k + 1))
             place == [v \in Sounding(s) |-> v - Cardinality(Before(gone, v))]
  <2>1. s.voice \in Seq(VoiceRecords) /\ n \in Nat /\ Sounding(s) = 1 .. n /\ s \in States
    BY TypedParts DEF Typed
  <2>2. gone \in SUBSET Sounding(s) /\ gone \subseteq Others(s, live)
    BY <1>2 DEF Others, Owned
  <2>3. r.voice = Left(s, gone)
    BY <1>2, <2>1 DEF Release, States
  <2> HIDE DEF r
  <2>4. /\ r.voice \in Seq(VoiceRecords) /\ m = c(n)
        /\ \A v \in Sounding(s) \ gone : place[v] \in 1 .. m /\ r.voice[place[v]] = s.voice[v]
    <3> DEFINE q == Left(s, gone)
    <3>1. \A v \in Sounding(s) : place[v] = v - Cardinality(Before(gone, v))
      OBVIOUS
    <3> HIDE DEF place
    <3>2. /\ q \in Seq(VoiceRecords) /\ Len(q) = Len(s.voice) - Cardinality(Before(gone, Len(s.voice) + 1))
          /\ \A v \in Sounding(s) \ gone : place[v] \in 1 .. Len(q) /\ q[place[v]] = s.voice[v]
      BY <2>1, <2>2, <3>1, LeftPlaces
    <3> QED BY <2>3, <3>2
  <2>5. m \in Nat /\ Sounding(r) = 1 .. m
    BY <2>4, LenProperties DEF Sounding
  <2>6. PICK g : /\ g[0] = <<>> /\ Side(s, live) = g[n]
                 /\ \A v \in Sounding(s) :
                      g[v] = IF v \in Others(s, live) THEN g[v - 1] ELSE Append(g[v - 1], s.voice[v])
    BY <2>1, LeftSoFar DEF Side
  <2>7. PICK h : /\ h[0] = <<>> /\ Side(r, live) = h[m]
                 /\ \A v \in Sounding(r) :
                      h[v] = IF v \in Others(r, live) THEN h[v - 1] ELSE Append(h[v - 1], r.voice[v])
    BY <2>4, LeftSoFar DEF Side
  <2> DEFINE S == {k \in 0 .. n : h[c(k)] = g[k]}
  <2>8. /\ c(0) = 0
        /\ \A k \in 0 .. n : k # n => c(k + 1) = IF k + 1 \in gone THEN c(k) ELSE c(k) + 1
        /\ \A k \in 0 .. n : c(k) \in Int
        /\ \A k \in 0 .. n : k # n => place[k + 1] = c(k) + 1
    <3>1. \A v \in Nat : IsFiniteSet(Before(gone, v)) /\ Cardinality(Before(gone, v)) \in Nat
      <4> TAKE v \in Nat
      <4>1. IsFiniteSet(gone)
        <5>1. IsFiniteSet(1 .. n)
          <6>1. 1 \in Int /\ n \in Int
            BY <2>1
          <6> HIDE DEF n
          <6> QED BY <6>1, FS_Interval
        <5>2. gone \in SUBSET (1 .. n)
          BY <2>1, <2>2
        <5> HIDE DEF n
        <5> QED BY <5>1, <5>2, FS_Subset
      <4>2. Before(gone, v) \in SUBSET gone
        BY DEF Before
      <4> QED BY <4>1, <4>2, FS_Subset, FS_CardinalityType
    <3>2. c(0) = 0
      <4>1. Before(gone, 1) = {}
        BY <2>1, <2>2 DEF Before
      <4>2. Cardinality(Before(gone, 1)) = 0
        BY <4>1, FS_EmptySet
      <4> QED BY <4>2
    <3>3. ASSUME NEW k \in 0 .. n PROVE c(k) \in Int
      <4>1. k + 1 \in Nat /\ k \in Int
        BY <2>1
      <4>2. Cardinality(Before(gone, k + 1)) \in Nat
        BY <3>1, <4>1
      <4> QED BY <4>1, <4>2
    <3>4. ASSUME NEW k \in 0 .. n, k # n
          PROVE  /\ c(k + 1) = IF k + 1 \in gone THEN c(k) ELSE c(k) + 1
                 /\ place[k + 1] = c(k) + 1
      <4> DEFINE v == k + 1
      <4>1. v \in Sounding(s) /\ v \in Nat /\ v + 1 \in Nat /\ k \in Nat /\ k = v - 1
        BY <2>1, <3>4
      <4>2. Cardinality(Before(gone, v)) \in Nat
        BY <3>1, <4>1
      <4>3. place[v] = v - Cardinality(Before(gone, v))
        BY <4>1
      <4>4. c(k) = k - Cardinality(Before(gone, v))
        OBVIOUS
      <4>5. c(v) = v - Cardinality(Before(gone, v + 1))
        OBVIOUS
      <4>6. CASE v \in gone
        <5>1. Before(gone, v + 1) = Before(gone, v) \cup {v} /\ v \notin Before(gone, v)
          BY <2>1, <2>2, <4>1, <4>6 DEF Before
        <5>2. IsFiniteSet(Before(gone, v))
          BY <3>1, <4>1
        <5>3. Cardinality(Before(gone, v) \cup {v}) = Cardinality(Before(gone, v)) + 1
          BY <5>1, <5>2, FS_AddElement
        <5> HIDE DEF c, place, v
        <5>6. Cardinality(Before(gone, v + 1)) = Cardinality(Before(gone, v)) + 1
          BY <5>1, <5>3
        <5>4. c(v) = c(k)
          BY <4>1, <4>2, <4>4, <4>5, <5>6
        <5>5. place[v] = c(k) + 1
          BY <4>1, <4>2, <4>3, <4>4
        <5> QED BY <4>6, <5>4, <5>5 DEF v
      <4>7. CASE v \notin gone
        <5>1. Before(gone, v + 1) = Before(gone, v)
          BY <2>1, <2>2, <4>1, <4>7 DEF Before
        <5> HIDE DEF c, place, v
        <5>4. c(v) = c(k) + 1
          BY <4>1, <4>2, <4>4, <4>5, <5>1
        <5>5. place[v] = c(k) + 1
          BY <4>1, <4>2, <4>3, <4>4
        <5> QED BY <4>7, <5>4, <5>5 DEF v
      <4> QED BY <4>6, <4>7
    <3> HIDE DEF c, place
    <3> QED BY <3>2, <3>3, <3>4
  <2>9. 0 \in S
    BY <2>1, <2>6, <2>7, <2>8
  <2>10. ASSUME NEW k \in 0 .. n, k \in S, k # n PROVE k + 1 \in S
    <3> DEFINE v == k + 1
               j == c(k) + 1
    <3>1. v \in Sounding(s) /\ v \in 0 .. n /\ v - 1 = k
      BY <2>1, <2>10
    <3>2. h[c(k)] = g[k]
      BY <2>10
    <3>3. g[v] = IF v \in Others(s, live) THEN g[k] ELSE Append(g[k], s.voice[v])
      BY <2>6, <3>1
    <3>4. c(k) \in Int /\ c(v) = (IF v \in gone THEN c(k) ELSE j) /\ place[v] = j
      BY <2>8, <2>10
    <3>11. j - 1 = c(k)
      BY <3>4
    <3> HIDE DEF v, j, place
    <3>5. CASE v \in gone
      <4>1. g[v] = g[k] /\ c(v) = c(k)
        BY <2>2, <3>3, <3>4, <3>5
      <4>2. h[c(v)] = g[v]
        BY <3>2, <4>1
      <4> QED BY <3>1, <4>2 DEF v
    <3>6. CASE v \notin gone
      <4>1. j \in 1 .. m /\ r.voice[j] = s.voice[v] /\ c(v) = j
        BY <2>4, <3>1, <3>4, <3>6
      <4>2. j \in Sounding(r)
        BY <2>5, <4>1
      <4>3. j \in Others(r, live) <=> v \in Others(s, live)
        BY <3>1, <4>1, <4>2, OthersAre
      <4>4. h[j] = IF j \in Others(r, live) THEN h[c(k)] ELSE Append(h[c(k)], r.voice[j])
        <5>1. h[j] = IF j \in Others(r, live) THEN h[j - 1] ELSE Append(h[j - 1], r.voice[j])
          BY <2>7, <4>2
        <5> QED BY <3>11, <5>1
      <4>5. h[c(v)] = g[v]
        BY <3>2, <3>3, <4>1, <4>3, <4>4
      <4> QED BY <3>1, <4>5 DEF v
    <3> QED BY <3>5, <3>6
  <2>11. n \in S
    <3> HIDE DEF S, n
    <3> QED BY <2>1, <2>9, <2>10, Onwards
  <2>12. h[m] = g[n]
    BY <2>4, <2>11
  <2> QED BY <2>6, <2>7, <2>12 DEF r
<1> QED BY <1>1, <1>2

-----------------------------------------------------------------------------
(* Operations on voices of the other side *)

\* The lanes of the other side.
OtherLanes(live) == IF live THEN SongLanes ELSE LiveLanes

LEMMA OfOtherLane ==
    ASSUME NEW s, Good(s), NEW live \in BOOLEAN, NEW v \in Sounding(s), s.voice[v].lane \in OtherLanes(live)
    PROVE  v \in Others(s, live)
BY DEF Others, OtherLanes, Owned, Good, Sound

LEMMA OtherDriven ==
    ASSUME NEW s, Good(s), NEW live \in BOOLEAN, NEW l \in OtherLanes(live)
    PROVE  /\ l \in Lanes
           /\ s.lane[l] \in Sounding(s) => s.lane[l] \in Others(s, live) /\ s.voice[s.lane[l]].lane = l
<1>1. l \in Lanes
  BY DEF OtherLanes, Lanes
<1>2. s.lane[l] \in Sounding(s) => s.voice[s.lane[l]].lane = l
  BY <1>1 DEF Good, Driven
<1> QED BY <1>1, <1>2, OfOtherLane

LEMMA SameVoices ==
    ASSUME NEW s, NEW r, r.voice = s.voice, NEW live \in BOOLEAN
    PROVE  Side(r, live) = Side(s, live)
<1>1. Sounding(r) = Sounding(s) /\ Owned(r, "Live") = Owned(s, "Live")
  BY DEF Sounding, Owned
<1> QED BY <1>1 DEF Side, Others, Left

\* Voices of the other side change where they are.
LEMMA SparedInPlace ==
    ASSUME NEW s, Typed(s), NEW r, Typed(r), Sounding(r) = Sounding(s), NEW live \in BOOLEAN,
           NEW some, \A v \in some \cap Sounding(s) : v \in Others(s, live),
           \A v \in Sounding(s) : v \notin some => r.voice[v] = s.voice[v],
           \A v \in Sounding(s) : r.voice[v].domain = "Live" <=> s.voice[v].domain = "Live"
    PROVE  Side(r, live) = Side(s, live)
<1>1. /\ s.voice \in Seq(VoiceRecords) /\ Len(s.voice) \in Nat /\ Sounding(s) = 1 .. Len(s.voice)
      /\ r.voice \in Seq(VoiceRecords) /\ Len(r.voice) \in Nat /\ Sounding(r) = 1 .. Len(r.voice)
  BY TypedParts
<1>2. Len(s.voice) <= Len(r.voice)
  BY <1>1
<1>3. \A v \in Sounding(s) : v \in Others(s, live) => v \in Others(r, live)
  BY DEF Others, Owned
<1>4. \A v \in Sounding(s) : r.voice[v] = s.voice[v] \/ (v \in Others(s, live) /\ v \in Others(r, live))
  BY <1>3
<1>5. \A v \in Sounding(r) : v \in Sounding(s) \/ v \in Others(r, live)
  OBVIOUS
<1> QED BY <1>1, <1>2, <1>4, <1>5, Spared

LEMMA RetireSpares ==
    ASSUME NEW s, Typed(s), NEW live \in BOOLEAN, NEW some, \A v \in some \cap Sounding(s) : v \in Others(s, live)
    PROVE  Side(Retire(s, some), live) = Side(s, live)
<1> DEFINE r == Retire(s, some)
<1>1. /\ Typed(r) /\ Sounding(r) = Sounding(s)
      /\ \A v \in Sounding(s) : r.voice[v] = IF v \in Retires(s, some) THEN Retired(s.voice[v]) ELSE s.voice[v]
  BY RetireMakes
<1>2. \A v \in Sounding(s) : s.voice[v] \in VoiceRecords
  BY TypedParts
<1> HIDE DEF r
<1>3. \A v \in Sounding(s) : v \notin some => r.voice[v] = s.voice[v]
  BY <1>1 DEF Retires
<1>4. \A v \in Sounding(s) : r.voice[v].domain = "Live" <=> s.voice[v].domain = "Live"
  BY <1>1, <1>2, RetiredIs
<1>5. Side(r, live) = Side(s, live)
  BY <1>1, <1>3, <1>4, SparedInPlace
<1> QED BY <1>5 DEF r

\* A change of articulation.
LEMMA TunedSpares ==
    ASSUME NEW s, Typed(s), NEW r, Tuned(s, r), NEW live \in BOOLEAN,
           NEW some, \A v \in some \cap Sounding(s) : v \in Others(s, live),
           \A v \in Sounding(s) : v \notin some => r.voice[v] = s.voice[v]
    PROVE  Side(r, live) = Side(s, live)
<1>1. Typed(r) /\ Sounding(r) = Sounding(s) /\ \A v \in Sounding(s) : r.voice[v].domain = s.voice[v].domain
  BY DEF Tuned, Like
<1> QED BY <1>1, SparedInPlace

LEMMA DetachSpares ==
    ASSUME NEW s, Good(s), NEW live \in BOOLEAN, NEW l \in OtherLanes(live)
    PROVE  Side(Detach(s, l), live) = Side(s, live)
<1> DEFINE r == Detach(s, l)
           some == {s.lane[l]}
<1>1. l \in Lanes /\ \A v \in some \cap Sounding(s) : v \in Others(s, live)
  BY OtherDriven
<1>2. DetachedTo(s, l, r)
  BY <1>1, DetachKeeps
<1>3. /\ Typed(s) /\ Typed(r) /\ Sounding(r) = Sounding(s)
      /\ \A v \in Sounding(s) : v # s.lane[l] => r.voice[v] = s.voice[v]
      /\ Owned(r, "Live") = Owned(s, "Live")
  BY <1>2 DEF DetachedTo, Good
<1> HIDE DEF r
<1>4. \A v \in Sounding(s) : v \notin some => r.voice[v] = s.voice[v]
  BY <1>3
<1>6. \A v \in Sounding(s) : r.voice[v].domain = "Live" <=> s.voice[v].domain = "Live"
  BY <1>3 DEF Owned
<1> HIDE DEF some
<1>5. Side(r, live) = Side(s, live)
  BY <1>1, <1>3, <1>4, <1>6, SparedInPlace
<1> QED BY <1>5 DEF r

LEMMA DetachCustomSpares ==
    ASSUME NEW s, Good(s), NEW live \in BOOLEAN, NEW l \in OtherLanes(live), Drives(s, l)
    PROVE  Side(DetachCustom(s, l), live) = Side(s, live)
<1> DEFINE r == DetachCustom(s, l)
           some == {s.lane[l]}
<1>1. l \in Lanes /\ \A v \in some \cap Sounding(s) : v \in Others(s, live)
  BY OtherDriven
<1>2. /\ Typed(r) /\ Sounding(r) = Sounding(s)
      /\ \A v \in Sounding(s) : v # s.lane[l] => r.voice[v] = s.voice[v]
      /\ r.voice[s.lane[l]].domain = IF l \in LiveLanes THEN "Live" ELSE "Custom"
  BY <1>1, DetachCustomMakes
<1>3. s.voice[s.lane[l]].domain = "Live" <=> l \in LiveLanes
  BY <1>1, DrivenIs
<1> HIDE DEF r
<1>4. \A v \in Sounding(s) : v \notin some => r.voice[v] = s.voice[v]
  BY <1>2
<1>5. \A v \in Sounding(s) : r.voice[v].domain = "Live" <=> s.voice[v].domain = "Live"
  BY <1>2, <1>3
<1> HIDE DEF some
<1>6. Side(r, live) = Side(s, live)
  <2>1. Typed(s) /\ Typed(r) /\ Sounding(r) = Sounding(s)
    BY <1>2 DEF Good
  <2>2. \A v \in some \cap Sounding(s) : v \in Others(s, live)
    BY <1>1
  <2> QED BY <1>4, <1>5, <2>1, <2>2, SparedInPlace
<1> QED BY <1>6 DEF r

LEMMA BegunSpares ==
    ASSUME NEW s, Typed(s), NEW live \in BOOLEAN, NEW v, v \in Sounding(s) => v \in Others(s, live)
    PROVE  Side(Begun(s, v), live) = Side(s, live) /\ Side(Leave(s, v), live) = Side(s, live)
<1> DEFINE some == {v}
<1>1. \A u \in some \cap Sounding(s) : u \in Others(s, live)
  OBVIOUS
<1>2. ASSUME NEW r, r = Begun(s, v) \/ r = Leave(s, v)
      PROVE  Tuned(s, r) /\ \A u \in Sounding(s) : u \notin some => r.voice[u] = s.voice[u]
  BY <1>2, BegunMakes, LeaveMakes
<1> HIDE DEF some
<1>3. ASSUME NEW r, r = Begun(s, v) \/ r = Leave(s, v) PROVE Side(r, live) = Side(s, live)
  <2>1. Tuned(s, r) /\ \A u \in Sounding(s) : u \notin some => r.voice[u] = s.voice[u]
    BY <1>2, <1>3
  <2> QED BY <1>1, <2>1, TunedSpares
<1> QED BY <1>3

LEMMA CutSpares ==
    ASSUME NEW s, Typed(s), NEW live \in BOOLEAN, NEW some, \A v \in some \cap Sounding(s) : v \in Others(s, live)
    PROVE  Side(Cut(s, some), live) = Side(s, live)
<1> DEFINE r == Cut(s, some)
<1>1. Levelled(s, r) /\ \A v \in Sounding(s) : v \notin some => r.voice[v] = s.voice[v]
  BY CutMakes
<1> HIDE DEF r
<1>2. Side(r, live) = Side(s, live)
  BY <1>1, TunedSpares DEF Levelled
<1> QED BY <1>2 DEF r

\* The domains of the other side.
OtherDomains(live) == IF live THEN {"Native", "Custom"} ELSE {"Live"}

LEMMA AdmissionSpares ==
    ASSUME NEW s, Good(s), Prepared, NEW live \in BOOLEAN, NEW d \in OtherDomains(live),
           NEW victim \in Active(s, d) \cup {None}
    PROVE  Side(Admission(s, d, victim).state, live) = Side(s, live)
<1> DEFINE full == Cardinality(Owned(s, d)) >= Room[d]
           retiring == RetiringIn(s, d)
           gone == IF full THEN {Min(retiring)} ELSE {}
           q == Retire(s, {victim})
           after == Release(q, gone)
           r == Admission(s, d, victim).state
<1>1. \/ r = s
      \/ r = after /\ ~(full /\ retiring = {})
  BY DEF Admission
<1>2. \A v \in Owned(s, d) : v \in Others(s, live)
  BY DEF Others, OtherDomains, Owned
<1>3. CASE r = s
  BY <1>3
<1>4. CASE r = after /\ ~(full /\ retiring = {})
  <2>1. Typed(s) /\ Sounding(s) \subseteq Nat /\ None \notin Sounding(s) /\ Owned(s, d) \subseteq Sounding(s)
        /\ \A v \in Sounding(s) : s.voice[v] \in VoiceRecords
    BY TypedParts DEF Good, Owned
  <2>2. \A v \in {victim} \cap Sounding(s) : v \in Others(s, live)
    BY <1>2, <2>1 DEF Active
  <2>3. Side(q, live) = Side(s, live)
    BY <2>1, <2>2, RetireSpares
  <2>4. /\ Typed(q) /\ Sounding(q) = Sounding(s)
        /\ \A v \in Sounding(s) : q.voice[v] = IF v \in Retires(s, {victim}) THEN Retired(s.voice[v]) ELSE s.voice[v]
    BY <2>1, RetireMakes
  <2>5. \A v \in gone : v \in Owned(s, d)
    <3>1. retiring \subseteq Owned(s, d)
      BY DEF RetiringIn
    <3>2. retiring # {} => Min(retiring) \in retiring
      <4>1. retiring \subseteq Nat
        BY <2>1, <3>1
      <4> HIDE DEF retiring
      <4> QED BY <4>1, MinOfSome
    <3> HIDE DEF retiring
    <3> QED BY <1>4, <3>1, <3>2
  <2> HIDE DEF q, gone
  <2>6. \A v \in Owned(s, d) : v \in Others(q, live)
    <3>1. \A v \in Sounding(s) : q.voice[v].domain = s.voice[v].domain
      BY <2>1, <2>4, RetiredIs
    <3> QED BY <2>4, <3>1 DEF Others, OtherDomains, Owned
  <2>7. Side(after, live) = Side(q, live)
    <3>1. gone \subseteq Others(q, live)
      BY <2>5, <2>6
    <3> QED BY <2>4, <3>1, SparedOfRelease
  <2> QED BY <1>4, <2>3, <2>7
<1> QED BY <1>1, <1>3, <1>4

-----------------------------------------------------------------------------
(* Voices started on the other side *)

\* A voice starts on a lane of the other side.
LEMMA TriggerSpares ==
    ASSUME NEW s, Good(s), NEW live \in BOOLEAN, NEW l \in OtherLanes(live), NEW n \in Notes
    PROVE  Side(Trigger(s, l, n).state, live) = Side(s, live)
<1> DEFINE p == Release(s, {s.lane[l]})
           e == Drive(p, l, None)
           d == NewVoice(l, n).domain
           room == IF Prepared THEN Admission(e, d, None) ELSE [ok |-> Len(e.voice) < Pool, state |-> e]
           q == room.state
           r == Trigger(s, l, n).state
<1>1. l \in Lanes /\ Typed(s)
      /\ (s.lane[l] \in Sounding(s) => s.lane[l] \in Others(s, live))
  BY OtherDriven DEF Good
<1>2. r = IF ~room.ok THEN q ELSE Added(q, l, n)
  BY DEF Trigger, Added
<1>3. Side(p, live) = Side(s, live) /\ Typed(p)
  <2> DEFINE gone == {s.lane[l]}
  <2>1. gone \subseteq Others(s, live) \/ gone \cap Sounding(s) = {}
    BY <1>1
  <2>2. gone \subseteq Sounding(s) \/ gone \cap Sounding(s) = {}
    OBVIOUS
  <2> HIDE DEF gone
  <2>3. Side(Release(s, gone), live) = Side(s, live)
    BY <1>1, <2>1, SparedOfRelease
  <2>4. Typed(Release(s, gone))
    BY <1>1, <2>2, ReleaseMoves
  <2> QED BY <2>3, <2>4 DEF gone
<1>4. EmptiedTo(s, l, e)
  BY <1>1, EmptiedIs
<1> HIDE DEF p
<1>5. Side(e, live) = Side(s, live)
  <2>1. e.voice = p.voice
    BY <1>3, DriveMakes
  <2> QED BY <1>3, <2>1, SameVoices
<1> HIDE DEF e
<1>6. Good(e)
  BY <1>4 DEF EmptiedTo
<1>7. /\ NewVoice(l, n) \in VoiceRecords /\ d = (IF l \in LiveLanes THEN "Live" ELSE "Native")
      /\ d \in OtherDomains(live) /\ d \in Domains /\ (d = "Live" <=> ~live)
  <2>1. NewVoice(l, n) \in VoiceRecords /\ d = (IF l \in LiveLanes THEN "Live" ELSE "Native")
    BY <1>1, NewVoiceIs
  <2>2. l \in LiveLanes <=> ~live
    BY DEF OtherLanes
  <2> HIDE DEF d
  <2> QED BY <2>1, <2>2 DEF OtherDomains, Domains
<1> HIDE DEF d
<1>8. Typed(q) /\ Side(q, live) = Side(e, live)
  <2>1. CASE Prepared
    <3>1. q = Admission(e, d, None).state
      BY <2>1
    <3>2. Side(q, live) = Side(e, live)
      BY <1>6, <1>7, <2>1, <3>1, AdmissionSpares
    <3>3. AdmittedTo(e, d, None, Admission(e, d, None), q)
      BY <1>6, <1>7, <2>1, <3>1, AdmissionDoes
    <3> QED BY <3>2, <3>3 DEF AdmittedTo, Good
  <2>2. CASE ~Prepared
    <3>1. q = e
      BY <2>2
    <3> QED BY <1>6, <3>1 DEF Good
  <2> QED BY <2>1, <2>2
<1> HIDE DEF q
<1>9. CASE r = Added(q, l, n)
  <2> DEFINE u == Len(q.voice) + 1
  <2>1. AddedTo(q, l, n, u, r)
    BY <1>1, <1>8, <1>9, AddedIs
  <2> HIDE DEF r
  <2>2. /\ q.voice \in Seq(VoiceRecords) /\ Len(q.voice) \in Nat /\ Sounding(q) = 1 .. Len(q.voice)
    BY <1>8, TypedParts
  <2>3. /\ Typed(r) /\ Sounding(r) = Sounding(q) \cup {u} /\ Len(r.voice) = u
        /\ r.voice[u] = NewVoice(l, n)
        /\ \A v \in Sounding(q) : r.voice[v] = q.voice[v]
    BY <2>1 DEF AddedTo
  <2>4. r.voice \in Seq(VoiceRecords) /\ Len(q.voice) <= Len(r.voice)
    BY <2>2, <2>3, TypedParts
  <2> HIDE DEF u
  <2>5. u \in Others(r, live)
    BY <1>7, <2>3 DEF Others, Owned, d
  <2>6. \A v \in Sounding(r) : v \in Sounding(q) \/ v \in Others(r, live)
    BY <2>3, <2>5
  <2>7. Side(r, live) = Side(q, live)
    BY <2>2, <2>3, <2>4, <2>6, Spared
  <2> QED BY <1>5, <1>8, <2>7 DEF r
<1>10. CASE r = q
  BY <1>5, <1>8, <1>10
<1> QED BY <1>2, <1>9, <1>10

LEMMA OverlapSpares ==
    ASSUME NEW s, Good(s), NEW l \in SongLanes
    PROVE  Side(Overlap(s, l).state, TRUE) = Side(s, TRUE)
<1> DEFINE victim == IF Cardinality(Active(s, "Custom")) >= Limit["Custom"]
                     THEN Oldest(Active(s, "Custom")) ELSE None
           room == Admission(s, "Custom", victim)
           q == room.state
           r == Overlap(s, l).state
<1>1. r = IF ~Keeps(s, l) THEN s ELSE IF ~room.ok THEN q ELSE DetachCustom(q, l)
  BY DEF Overlap
<1>2. CASE ~Keeps(s, l)
  BY <1>1, <1>2
<1>3. CASE Keeps(s, l)
  <2>1. Prepared /\ Candidate(s, s.lane[l]) /\ s.voice[s.lane[l]].domain = "Native"
        /\ s.lane[l] \in Sounding(s) /\ l \in Lanes
    BY <1>3 DEF Keeps, Lanes, Candidate
  <2>2. victim \in Active(s, "Custom") \cup {None}
    <3>1. Active(s, "Custom") \subseteq Nat
      BY TypedParts DEF Active, Owned, Good
    <3> QED BY <3>1, MinOfSome DEF Oldest
  <2> HIDE DEF victim
  <2>3. AdmittedTo(s, "Custom", victim, room, q)
    BY <2>1, <2>2, AdmissionDoes DEF Domains
  <2>4. Side(q, TRUE) = Side(s, TRUE)
    BY <2>1, <2>2, AdmissionSpares DEF OtherDomains
  <2>5. Good(q)
    BY <2>3 DEF AdmittedTo
  <2>6. Drives(q, l)
    <3>1. s.lane[l] # victim
      BY <2>1, <2>2, TypedParts DEF Active, Owned, Good
    <3>2. Stays(s, q, l)
      BY <2>1, <2>3, <3>1 DEF AdmittedTo
    <3> QED BY <2>1, <3>2 DEF Stays, Drives
  <2> HIDE DEF q
  <2>7. Side(DetachCustom(q, l), TRUE) = Side(q, TRUE)
    BY <2>5, <2>6, DetachCustomSpares DEF OtherLanes
  <2> QED BY <1>1, <1>3, <2>4, <2>7
<1> QED BY <1>2, <1>3

-----------------------------------------------------------------------------
(* Notes of the song *)

\* Another onset.
LEMMA OnsetSpares ==
    ASSUME NEW s, Typed(s), NEW live \in BOOLEAN, NEW v \in Sounding(s), v \in Others(s, live),
           NEW o, NEW r, NamedBy(s, v, o, r)
    PROVE  Side(r, live) = Side(s, live)
<1> DEFINE some == {v}
<1>1. /\ Typed(r) /\ Sounding(r) = Sounding(s) /\ \A w \in Sounding(s) : w \notin some => r.voice[w] = s.voice[w]
      /\ r.voice[v].domain = s.voice[v].domain
  BY DEF NamedBy
<1>2. \A w \in Sounding(s) : r.voice[w].domain = "Live" <=> s.voice[w].domain = "Live"
  BY <1>1
<1>3. \A w \in some \cap Sounding(s) : w \in Others(s, live)
  OBVIOUS
<1> HIDE DEF some
<1> QED BY <1>1, <1>2, <1>3, SparedInPlace

LEMMA IdentifySpares ==
    ASSUME NEW s, Good(s), NEW live \in BOOLEAN, NEW v \in Sounding(s), v \in Others(s, live),
           NEW volume \in Volumes
    PROVE  Side(Identify(s, v, volume), live) = Side(s, live)
<1>1. CASE ~Overlapping
  <2>1. Identify(s, v, volume) = s
    BY <1>1 DEF Identify
  <2> QED BY <2>1
<1>2. CASE Overlapping
  <2> DEFINE o == <<s.voice[v].note, volume>>
             f == [w \in Sounding(s) |-> IF w \in {v}
                                                     THEN [s.voice[w] EXCEPT !.onset = <<s.voice[w].note, volume>>]
                                                     ELSE s.voice[w]]
             known == [s EXCEPT !.voice = f]
             dup == {w \in Sounding(s) : Duplicate(known, v, w) /\ Candidate(known, w)}
  <2>1. Identify(s, v, volume) = Retire(known, dup)
    BY <1>2 DEF Identify, Mark
  <2>2. Typed(s) /\ \A w \in Sounding(s) : s.voice[w] \in VoiceRecords
    BY TypedParts DEF Good
  <2>3. o \in Onsets
    BY <2>2 DEF VoiceRecords, Onsets
  <2>4. \A x \in VoiceRecords : [x EXCEPT !.onset = <<x.note, volume>>] \in VoiceRecords
    BY DEF VoiceRecords, Onsets
  <2>5. /\ f \in [Sounding(s) -> VoiceRecords]
        /\ \A w \in Sounding(s) : f[w] = IF w \in {v} THEN [s.voice[w] EXCEPT !.onset = o] ELSE s.voice[w]
    BY <2>2, <2>4
  <2> HIDE DEF f
  <2>6. NamedBy(s, v, o, known)
    <3> HIDE DEF o
    <3> QED BY <2>2, <2>3, <2>5, OnsetNames
  <2> HIDE DEF known, o
  <2>7. Side(known, live) = Side(s, live)
    BY <2>2, <2>6, OnsetSpares
  <2>8. /\ Typed(known) /\ Sounding(known) = Sounding(s)
        /\ \A w \in Sounding(s) : /\ known.voice[w].lane = s.voice[w].lane
                                  /\ known.voice[w].domain = s.voice[w].domain
    BY <2>6 DEF NamedBy
  <2>9. \A w \in dup : \/ s.voice[w].lane = s.voice[v].lane
                       \/ s.voice[w].domain = "Custom" /\ s.voice[v].domain # "Live"
    BY <2>8 DEF Duplicate
  <2>10. \A w \in Sounding(s) : s.voice[w].domain = "Live" <=> s.voice[w].lane \in LiveLanes
    BY DEF Good, Sound
  <2>11. \A w \in dup : w \in Others(known, live)
    <3> SUFFICES ASSUME NEW w \in dup PROVE w \in Others(known, live)
      OBVIOUS
    <3>1. w \in Sounding(s) /\ w \in Sounding(known)
      BY <2>8
    <3>2. s.voice[w].domain = "Live" <=> s.voice[v].domain = "Live"
      BY <2>9, <2>10, <3>1
    <3> HIDE DEF dup
    <3> QED BY <2>8, <3>1, <3>2 DEF Others, Owned
  <2> HIDE DEF dup
  <2>12. Side(Retire(known, dup), live) = Side(known, live)
    BY <2>8, <2>11, RetireSpares
  <2> QED BY <2>1, <2>7, <2>12
<1> QED BY <1>1, <1>2

LEMMA InheritSpares ==
    ASSUME NEW s, Good(s), NEW live \in BOOLEAN, NEW v \in Sounding(s), v \in Others(s, live),
           NEW o \in Onsets \cup {None}
    PROVE  Side(Inherit(s, v, o), live) = Side(s, live)
<1> DEFINE r == Inherit(s, v, o)
<1>1. CASE ~Overlapping
  <2>1. r = s
    BY <1>1 DEF Inherit
  <2> QED BY <2>1
<1>2. CASE Overlapping
  <2> DEFINE f == [w \in Sounding(s) |-> IF w \in {v} THEN [s.voice[w] EXCEPT !.onset = o] ELSE s.voice[w]]
  <2>1. r = [s EXCEPT !.voice = f]
    BY <1>2 DEF Inherit, Mark
  <2>2. Typed(s) /\ \A w \in Sounding(s) : s.voice[w] \in VoiceRecords
    BY TypedParts DEF Good
  <2>3. \A x \in VoiceRecords : [x EXCEPT !.onset = o] \in VoiceRecords
    BY DEF VoiceRecords
  <2>4. /\ f \in [Sounding(s) -> VoiceRecords]
        /\ \A w \in Sounding(s) : f[w] = IF w \in {v} THEN [s.voice[w] EXCEPT !.onset = o] ELSE s.voice[w]
    BY <2>2, <2>3
  <2> HIDE DEF f, r
  <2>5. NamedBy(s, v, o, r)
    BY <2>1, <2>2, <2>4, OnsetNames
  <2>6. Side(r, live) = Side(s, live)
    BY <2>2, <2>5, OnsetSpares
  <2> QED BY <2>6 DEF r
<1> QED BY <1>1, <1>2

LEMMA NewNoteActionSpares ==
    ASSUME NEW s, Well(s), NEW l \in SongLanes, NEW n, NEW musical, NEW check, NEW goesOn
    PROVE  Side(NewNoteAction(s, l, n, musical, check, goesOn), TRUE) = Side(s, TRUE)
<1> DEFINE some == Checked(s, l, n, check, musical)
           checked == Cut(s, some)
           kept == IF musical THEN Overlap(checked, l) ELSE [ok |-> FALSE, state |-> checked]
           k == kept.state
           old == k.chan[l]
           leaves == /\ old # None /\ goesOn
                     /\ ~(musical /\ Candidate(k, old))
                     /\ Stepped(k, old) /\ k.voice[old].level # "frozen"
                     /\ Drives(k, l)
           p == IF kept.ok THEN k ELSE Detach(k, l)
           left == Hold(Leave(p, old), l, None)
           r == NewNoteAction(s, l, n, musical, check, goesOn)
<1>1. r = IF kept.ok \/ leaves THEN left ELSE k
  BY DEF NewNoteAction
<1>2. Well(checked) /\ Side(checked, TRUE) = Side(s, TRUE)
  <2>1. Levelled(s, checked)
    BY CutMakes DEF Well, Good
  <2>2. \A v \in some \cap Sounding(s) : v \in Others(s, TRUE)
    <3>1. \A v \in some \cap Sounding(s) : s.voice[v].lane \in OtherLanes(TRUE)
      BY DEF Checked, OtherLanes
    <3> HIDE DEF some
    <3> QED BY <3>1, OfOtherLane DEF Well
  <2>3. Typed(s)
    BY DEF Well, Good
  <2> HIDE DEF some
  <2>4. Side(checked, TRUE) = Side(s, TRUE)
    BY <2>2, <2>3, CutSpares
  <2> HIDE DEF checked
  <2> QED BY <2>1, <2>4, LevelledKeeps
<1> HIDE DEF checked, some
<1>3. /\ Good(k) /\ kept.ok \in BOOLEAN /\ Side(k, TRUE) = Side(checked, TRUE)
      /\ Held(k, IF kept.ok THEN SongLanes \ {l} ELSE SongLanes)
      /\ kept.ok => LaneOf(k, k.chan[l], l)
  <2>1. CASE musical
    <3> DEFINE a == Overlap(checked, l)
    <3>1. kept = a
      BY <2>1
    <3>2. OverlaidTo(checked, l, a, a.state)
      BY <1>2, OverlapDoes DEF Well
    <3>3. Side(a.state, TRUE) = Side(checked, TRUE)
      BY <1>2, OverlapSpares DEF Well
    <3> HIDE DEF a, kept
    <3> QED BY <1>2, <3>1, <3>2, <3>3 DEF OverlaidTo, Well
  <2>2. CASE ~musical
    <3>1. kept = [ok |-> FALSE, state |-> checked]
      BY <2>2
    <3> HIDE DEF kept
    <3>2. k = checked /\ kept.ok = FALSE
      BY <3>1
    <3> QED BY <1>2, <3>2 DEF Well
  <2> QED BY <2>1, <2>2
<1> HIDE DEF kept
<1>4. l \in Lanes /\ l \in OtherLanes(TRUE)
  BY DEF Lanes, OtherLanes
<1>5. CASE ~kept.ok /\ ~leaves
  <2>1. r = k
    BY <1>1, <1>5
  <2> QED BY <1>2, <1>3, <2>1
<1>6. CASE kept.ok \/ leaves
  <2>1. r = left
    BY <1>1, <1>6
  <2>2. /\ Good(p) /\ Side(p, TRUE) = Side(k, TRUE) /\ Sounding(p) = Sounding(k)
        /\ \A v \in Sounding(k) : p.voice[v].lane = k.voice[v].lane
    <3>1. CASE kept.ok
      <4>1. p = k
        BY <3>1
      <4> HIDE DEF p, k
      <4> QED BY <1>3, <4>1
    <3>2. CASE ~kept.ok
      <4> DEFINE q == Detach(k, l)
      <4>1. p = q
        BY <3>2
      <4>2. DetachedTo(k, l, q)
        BY <1>3, <1>4, DetachKeeps
      <4>3. Side(q, TRUE) = Side(k, TRUE)
        BY <1>3, <1>4, DetachSpares
      <4> HIDE DEF p, q, k
      <4> QED BY <4>1, <4>2, <4>3 DEF DetachedTo
    <3> QED BY <1>3, <3>1, <3>2
  <2>3. old \in Sounding(p) => p.voice[old].lane = l
    <3> SUFFICES ASSUME old \in Sounding(k) PROVE k.voice[old].lane = l
      BY <2>2
    <3>1. old # None
      BY <1>3, TypedParts DEF Good
    <3>2. CASE kept.ok
      BY <1>3, <3>1, <3>2 DEF LaneOf
    <3>3. CASE ~kept.ok
      <4>1. k.lane[l] = old
        BY <1>3, <3>1, <3>3 DEF Held
      <4> HIDE DEF k
      <4> QED BY <1>3, <1>4, <4>1 DEF Good, Driven
    <3> QED BY <1>3, <3>2, <3>3
  <2> HIDE DEF p, k, old
  <2>4. old \in Sounding(p) => old \in Others(p, TRUE)
    BY <1>4, <2>2, <2>3, OfOtherLane
  <2>5. Side(Leave(p, old), TRUE) = Side(p, TRUE) /\ Typed(p)
    BY <2>2, <2>4, BegunSpares DEF Good
  <2>6. left.voice = Leave(p, old).voice
    <3>1. Tuned(p, Leave(p, old))
      BY <2>5, LeaveMakes
    <3>2. Typed(Leave(p, old))
      BY <3>1 DEF Tuned
    <3> QED BY <3>2, HoldMakes
  <2> HIDE DEF left
  <2>7. Side(left, TRUE) = Side(Leave(p, old), TRUE)
    BY <2>6, SameVoices
  <2> HIDE DEF r
  <2>8. Side(r, TRUE) = Side(s, TRUE)
    BY <1>2, <1>3, <2>1, <2>2, <2>5, <2>7
  <2> QED BY <2>8 DEF r
<1> QED BY <1>3, <1>5, <1>6

\* The voices that a note of the song may steal are the song's.
LEMMA AllocateSpares ==
    ASSUME NEW s, Well(s), NEW l \in SongLanes, NEW n \in Notes, NEW a \in Allocate(s, l, n)
    PROVE  Side(a.state, TRUE) = Side(s, TRUE)
<1> DEFINE fits == OwnForeground(s, l) \/ WithinQuota(s)
           tried == IF fits THEN Trigger(s, l, n) ELSE [ok |-> FALSE, state |-> s]
           t == tried.state
           backs == Victims(t)
<1>1. a = tried \/ \E v \in backs : a = Trigger(Release(t, {v}), l, n)
  BY DEF Allocate
<1>2. Good(s) /\ l \in Lanes /\ l \in OtherLanes(TRUE)
  BY DEF Well, Lanes, OtherLanes
<1>3. Good(t) /\ Side(t, TRUE) = Side(s, TRUE)
  <2>1. CASE fits
    <3>1. tried = Trigger(s, l, n)
      BY <2>1
    <3>2. TriggeredTo(s, l, n, tried, t)
      BY <1>2, <3>1, TriggerDoes
    <3>3. Side(t, TRUE) = Side(s, TRUE)
      BY <1>2, <3>1, TriggerSpares
    <3> HIDE DEF t
    <3> QED BY <3>2, <3>3 DEF TriggeredTo
  <2>2. CASE ~fits
    <3>1. t = s
      BY <2>2
    <3> HIDE DEF t
    <3> QED BY <1>2, <3>1
  <2> QED BY <2>1, <2>2
<1>4. ASSUME NEW v \in backs, a = Trigger(Release(t, {v}), l, n)
      PROVE  Side(a.state, TRUE) = Side(s, TRUE)
  <2>1. v \in Sounding(t) /\ (Prepared => t.voice[v].domain = "Native")
    BY DEF Victims, Active, Owned
  <2> HIDE DEF t
  <2>2. v \in Others(t, TRUE)
    <3>1. ~Prepared => LiveLanes = {}
      BY LiveAssumption DEF Interactive
    <3>2. t.voice[v].domain # "Live"
      BY <1>3, <2>1, <3>1 DEF Good, Sound
    <3> QED BY <2>1, <3>2 DEF Others, Owned
  <2> DEFINE gone == {v}
             q == Release(t, gone)
  <2>3. gone \subseteq Sounding(t) /\ gone \subseteq Others(t, TRUE)
    BY <2>1, <2>2
  <2>5. a = Trigger(q, l, n)
    BY <1>4
  <2> HIDE DEF gone
  <2>4. Side(q, TRUE) = Side(t, TRUE)
    BY <1>3, <2>3, SparedOfRelease DEF Good
  <2>6. Good(q)
    <3>1. ReleasedTo(t, gone, q)
      BY <1>3, <2>3, ReleaseDoes
    <3> QED BY <3>1 DEF ReleasedTo
  <2> HIDE DEF q
  <2>7. Side(a.state, TRUE) = Side(q, TRUE)
    BY <1>2, <2>5, <2>6, TriggerSpares
  <2> QED BY <1>3, <2>4, <2>7
<1>5. CASE a = tried
  BY <1>3, <1>5
<1> QED BY <1>1, <1>4, <1>5

LEMMA StartNoteSpares ==
    ASSUME NEW s, Well(s), NEW l \in SongLanes, NEW n \in Notes, NEW volume \in Volumes,
           NEW musical \in BOOLEAN, NEW r \in StartNote(s, l, n, volume, musical)
    PROVE  Side(r, TRUE) = Side(s, TRUE)
<1> DEFINE Begin(q) == LET v == q.lane[l]
                           begun == Hold(Begun(q, v), l, v)
                       IN IF musical THEN Identify(begun, v, volume) ELSE Inherit(begun, v, OnsetOf(s, l))
<1>1. PICK a \in Allocate(s, l, n) :
        r = IF a.ok THEN Begin(a.state) ELSE [a.state EXCEPT !.refused = TRUE]
  BY DEF StartNote
<1> DEFINE q == a.state
<1>2. AllocatedTo(s, l, n, a, q) /\ Side(q, TRUE) = Side(s, TRUE)
  BY AllocateDoes, AllocateSpares
<1> HIDE DEF q
<1>3. /\ Good(q) /\ Shaped(q) /\ Held(q, SongLanes) /\ a.ok \in BOOLEAN
      /\ a.ok => /\ q.lane[l] \in Sounding(q) /\ q.voice[q.lane[l]] = NewVoice(l, n) /\ q.chan[l] = None
                 /\ Living(q, {q.lane[l]})
  BY <1>2 DEF AllocatedTo
<1>4. CASE ~a.ok
  <2>1. r = [q EXCEPT !.refused = TRUE] /\ q \in States
    BY <1>1, <1>3, <1>4 DEF q, Good, Typed
  <2>2. r.voice = q.voice
    BY <2>1 DEF States
  <2> QED BY <1>2, <2>2, SameVoices
<1>5. CASE a.ok
  <2> DEFINE v == q.lane[l]
             g == Begun(q, v)
             b == Hold(g, l, v)
  <2>1. r = IF musical THEN Identify(b, v, volume) ELSE Inherit(b, v, OnsetOf(s, l))
    BY <1>1, <1>5 DEF q
  <2>2. v \in Sounding(q) /\ q.lane[l] = v /\ q.chan[l] = None /\ Living(q, {v})
    BY <1>3, <1>5
  <2>3. q.voice[v].lane = l
    BY <1>3, <1>5, NewVoiceIs DEF Lanes
  <2> HIDE DEF v
  <2>4. BegunTo(q, v, b)
    BY <1>3, <2>2, BegunKeeps
  <2>5. v \in Others(q, TRUE)
    BY <1>3, <2>2, <2>3, OfOtherLane DEF OtherLanes
  <2>6. Side(g, TRUE) = Side(q, TRUE)
    BY <1>3, <2>5, BegunSpares DEF Good
  <2>7. Tuned(q, g)
    BY <1>3, BegunMakes DEF Good
  <2>8. Typed(g) /\ v \in Sounding(g)
    BY <2>2, <2>7 DEF Tuned
  <2> HIDE DEF g
  <2>9. b.voice = g.voice
    BY <2>8, HoldMakes
  <2> HIDE DEF b, Begin
  <2>10. Side(b, TRUE) = Side(g, TRUE)
    BY <2>9, SameVoices
  <2>11. /\ Good(b) /\ v \in Sounding(b) /\ b.voice[v].lane = l
    BY <2>2, <2>3, <2>4 DEF BegunTo, Well
  <2>12. v \in Others(b, TRUE)
    BY <2>11, OfOtherLane DEF OtherLanes
  <2>13. OnsetOf(s, l) \in Onsets \cup {None}
    BY OnsetApart DEF Well, Lanes
  <2>14. Side(r, TRUE) = Side(b, TRUE)
    BY <2>1, <2>11, <2>12, <2>13, IdentifySpares, InheritSpares
  <2> QED BY <1>2, <2>6, <2>10, <2>14
<1> QED BY <1>3, <1>4, <1>5

LEMMA TurnSpares ==
    ASSUME NEW s, Well(s), NEW l \in SongLanes, NEW r \in Turn(s, l)
    PROVE  Side(r, TRUE) = Side(s, TRUE)
<1> DEFINE played == PlayedNotes(s, l) \cup CutNotes(s, l) \cup {s}
<1>1. ASSUME NEW p \in played PROVE Well(p) /\ Side(p, TRUE) = Side(s, TRUE)
  <2>0. p \in Turn(s, l)
    BY DEF Turn
  <2>1. CASE p \in PlayedNotes(s, l)
    <3>0. \A n, musical, check, goesOn :
            Side(NewNoteAction(s, l, n, musical, check, goesOn), TRUE) = Side(s, TRUE)
      BY NewNoteActionSpares
    <3>1. PICK n \in Notes, volume \in Volumes, musical \in BOOLEAN,
               check \in DuplicateChecks, goesOn \in BOOLEAN :
            p \in StartNote(NewNoteAction(s, l, n, musical, check, goesOn), l, n, volume, musical)
      BY <2>1 DEF PlayedNotes
    <3> DEFINE q == NewNoteAction(s, l, n, musical, check, goesOn)
    <3>2. Well(q) /\ Side(q, TRUE) = Side(s, TRUE)
      <4>1. Well(q)
        BY NewNoteActionKeeps
      <4>2. Side(NewNoteAction(s, l, n, musical, check, goesOn), TRUE) = Side(s, TRUE)
        BY <3>0, Zenon
      <4> QED BY <4>1, <4>2
    <3>3. p \in StartNote(q, l, n, volume, musical)
      BY <3>1
    <3> HIDE DEF q
    <3>4. \A x : Well(x) =>
             \A o \in Notes, u \in Volumes, m \in BOOLEAN :
                \A t \in StartNote(x, l, o, u, m) : Side(t, TRUE) = Side(x, TRUE)
      BY StartNoteSpares
    <3>5. Side(p, TRUE) = Side(q, TRUE)
      <4>1. n \in Notes /\ volume \in Volumes /\ musical \in BOOLEAN
        BY <3>1
      <4> QED BY <3>2, <3>3, <3>4, <4>1, Zenon
    <3> QED BY <2>0, <3>2, <3>5, TurnKeeps
  <2>2. CASE p \in CutNotes(s, l)
    <3> DEFINE some == {s.chan[l]}
    <3>1. Tuned(s, p) /\ Typed(s) /\ \A v \in Sounding(s) : v \notin some => p.voice[v] = s.voice[v]
      BY <2>2, CutNotesMake DEF Levelled, Well, Good
    <3>2. \A v \in some \cap Sounding(s) : v \in Others(s, TRUE)
      <4> SUFFICES ASSUME s.chan[l] \in Sounding(s) PROVE s.chan[l] \in Others(s, TRUE)
        OBVIOUS
      <4>1. s.chan[l] # None
        BY <3>1, TypedParts
      <4>2. s.chan[l] \in Sounding(s) /\ s.voice[s.chan[l]].lane \in OtherLanes(TRUE) /\ Good(s)
        BY <4>1, ChanIs DEF OtherLanes, Well
      <4> QED BY <4>2, OfOtherLane
    <3> HIDE DEF some
    <3>3. Side(p, TRUE) = Side(s, TRUE)
      BY <3>1, <3>2, TunedSpares
    <3> QED BY <2>0, <3>3, TurnKeeps
  <2>3. CASE p = s
    BY <2>3
  <2> QED BY <2>1, <2>2, <2>3
<1>2. CASE r \in played
  BY <1>1, <1>2
<1>3. CASE r \notin played
  <2>1. PICK p \in played : r = CutPast(p, l)
    BY <1>3 DEF Turn
  <2> DEFINE some == {v \in Sounding(p) : p.voice[v].lane = l /\ p.voice[v].art = "back"}
  <2>2. Well(p) /\ Side(p, TRUE) = Side(s, TRUE)
    BY <1>1
  <2>3. r = Cut(p, some)
    BY <2>1 DEF CutPast
  <2>4. \A v \in some \cap Sounding(p) : p.voice[v].lane \in OtherLanes(TRUE)
    BY DEF OtherLanes
  <2> HIDE DEF played, some
  <2>7. Good(p) /\ Typed(p)
    BY <2>2 DEF Well, Good
  <2>5. \A v \in some \cap Sounding(p) : v \in Others(p, TRUE)
    BY <2>4, <2>7, OfOtherLane
  <2>6. Side(r, TRUE) = Side(p, TRUE)
    BY <2>3, <2>5, <2>7, CutSpares
  <2> QED BY <2>2, <2>6
<1> QED BY <1>2, <1>3

LEMMA TurnsSpare ==
    ASSUME Well(Now), NEW s \in Turns
    PROVE  Side(s, TRUE) = Side(Now, TRUE)
<1> DEFINE P == {q \in States : Well(q) /\ Side(q, TRUE) = Side(Now, TRUE)}
<1>1. Now \in P
  BY DEF Well, Good, Typed
<1>2. ASSUME NEW q \in P, NEW l \in SongLanes PROVE Turn(q, l) \subseteq P
  <2> SUFFICES ASSUME NEW r \in Turn(q, l) PROVE r \in P
    OBVIOUS
  <2>1. Well(q) /\ Side(q, TRUE) = Side(Now, TRUE)
    OBVIOUS
  <2>2. Well(r) /\ Side(r, TRUE) = Side(q, TRUE)
    BY <2>1, TurnKeeps, TurnSpares
  <2>3. r \in States
    BY <2>2 DEF Well, Good, Typed
  <2> QED BY <2>1, <2>2, <2>3
<1> HIDE DEF P
<1>3. Turns \subseteq P
  BY <1>1, <1>2, TurnsLead
<1> QED BY <1>3 DEF P

LEMMA AdvanceVoicesSpares ==
    ASSUME NEW s, Well(s), NEW faded
    PROVE  Side(AdvanceVoices(s, faded), TRUE) = Side(s, TRUE)
<1> DEFINE silent == {v \in Sounding(s) : /\ s.voice[v].lane \in SongLanes /\ Stepped(s, v)
                                          /\ v \in faded \/ Silent(s, v)}
           fore == {v \in silent : s.voice[v].art = "fore"}
           gone == silent \ fore
           d == Drop(s, fore)
           q == Mark(d, fore, LAMBDA x : [x EXCEPT !.sound = "stopping"])
           p == [q EXCEPT !.chan = [l \in SongLanes |-> IF s.chan[l] \in fore THEN None ELSE s.chan[l]]]
           r == AdvanceVoices(s, faded)
<1>1. r = Release(p, gone)
  BY DEF AdvanceVoices
<1>2. /\ fore \subseteq Sounding(s) /\ gone \subseteq Sounding(s)
      /\ \A v \in fore : s.voice[v].lane \in SongLanes /\ s.voice[v].art = "fore"
      /\ \A v \in gone : s.voice[v].lane \in SongLanes
  OBVIOUS
<1> HIDE DEF fore, gone, r
<1>3. Well(p) /\ Sounding(p) = Sounding(s)
  <2>1. q = Mark(Drop(s, fore), fore, LAMBDA x : [x EXCEPT !.sound = "stopping"])
    OBVIOUS
  <2> HIDE DEF q
  <2>2. p = [q EXCEPT !.chan = [l \in SongLanes |-> IF s.chan[l] \in fore THEN None ELSE s.chan[l]]]
    OBVIOUS
  <2> HIDE DEF p
  <2> QED BY <1>2, <2>1, <2>2, StoppedKeeps
<1>4. Typed(s) /\ Good(s) /\ \A v \in fore \cap Sounding(s) : v \in Others(s, TRUE)
  BY <1>2, OfOtherLane DEF Well, Good, OtherLanes
<1>5. Tuned(s, d) /\ \A v \in Sounding(s) : v \notin fore => d.voice[v] = s.voice[v]
  BY <1>4, DropMakes
<1>6. q = Mark(d, fore, LAMBDA x : [x EXCEPT !.sound = "stopping"])
  OBVIOUS
<1> HIDE DEF d
<1>7. Side(d, TRUE) = Side(s, TRUE)
  BY <1>4, <1>5, TunedSpares
<1>8. /\ Typed(d) /\ Sounding(d) = Sounding(s)
      /\ \A v \in Sounding(s) : d.voice[v].domain = s.voice[v].domain /\ d.voice[v].tail = s.voice[v].tail
  BY <1>5 DEF Tuned, Like
<1>9. Tuned(d, q) /\ \A v \in Sounding(d) : v \notin fore => q.voice[v] = d.voice[v]
  <2>1. \A v \in fore \cap Sounding(d) : ~d.voice[v].tail
    BY <1>2, <1>8, ForeIs
  <2> QED BY <1>6, <1>8, <2>1, StopMakes
<1> HIDE DEF q
<1>10. \A v \in fore \cap Sounding(d) : v \in Others(d, TRUE)
  BY <1>4, <1>8 DEF Others, Owned
<1>11. Side(q, TRUE) = Side(d, TRUE)
  BY <1>8, <1>9, <1>10, TunedSpares
<1>12. /\ Typed(q) /\ Sounding(q) = Sounding(s)
       /\ \A v \in Sounding(s) : q.voice[v].domain = s.voice[v].domain
  BY <1>8, <1>9 DEF Tuned, Like
<1>13. p.voice = q.voice
  <2>1. q \in States
    BY <1>12 DEF Typed
  <2> QED BY <2>1 DEF States
<1> HIDE DEF p
<1>14. Side(p, TRUE) = Side(q, TRUE)
  BY <1>13, SameVoices
<1>15. gone \subseteq Others(p, TRUE)
  <2>1. \A v \in gone : v \in Others(s, TRUE)
    BY <1>2, <1>4, OfOtherLane DEF OtherLanes
  <2> QED BY <1>2, <1>3, <1>12, <1>13, <2>1 DEF Others, Owned
<1>16. Typed(p)
  BY <1>3 DEF Well, Good
<1>17. Side(r, TRUE) = Side(p, TRUE)
  BY <1>1, <1>15, <1>16, SparedOfRelease
<1>18. Side(r, TRUE) = Side(s, TRUE)
  BY <1>7, <1>11, <1>14, <1>17
<1> QED BY <1>18 DEF r

-----------------------------------------------------------------------------
(* A note of the live rack *)

LEMMA LiveNoteSpares ==
    ASSUME NEW s, Well(s), NEW l \in LiveLanes, NEW n \in Notes, NEW volume \in Volumes,
           NEW check, NEW goesOn
    PROVE  Side(LiveNote(s, l, n, volume, check, goesOn), FALSE) = Side(s, FALSE)
<1> DEFINE some == Checked(s, l, n, check, TRUE)
           after == Retire(s, some)
           kept == IF ~Drives(after, l) THEN after
                   ELSE IF Candidate(after, after.lane[l]) THEN DetachCustom(after, l)
                   ELSE IF goesOn THEN Leave(Detach(after, l), after.lane[l]) ELSE after
           emptied == Retire(kept, {kept.lane[l]})
           victim == IF Cardinality(Active(emptied, "Live")) >= Limit["Live"]
                     THEN Oldest(Active(emptied, "Live")) ELSE None
           room == Admission(emptied, "Live", victim)
           q == room.state
           played == IF room.ok THEN Trigger(q, l, n) ELSE room
           p == played.state
           v == p.lane[l]
           r == LiveNote(s, l, n, volume, check, goesOn)
<1>1. r = IF played.ok THEN Begun(Identify(p, v, volume), v) ELSE [p EXCEPT !.refused = TRUE]
  BY DEF LiveNote
<1>2. l \in Lanes /\ l \notin SongLanes /\ Prepared /\ l \in OtherLanes(FALSE)
  BY LiveLane, LiveAssumption DEF Well, Interactive, OtherLanes
<1>3. Well(after) /\ Side(after, FALSE) = Side(s, FALSE)
  <2>1. \A u \in some : u \in Sounding(s) /\ s.voice[u].lane = l
    BY DEF Checked
  <2>2. Good(s) /\ Typed(s)
    BY DEF Well, Good
  <2> HIDE DEF some
  <2>3. Well(after)
    BY <1>2, <2>1, RetireWell
  <2>4. \A u \in some \cap Sounding(s) : u \in Others(s, FALSE)
    BY <1>2, <2>1, <2>2, OfOtherLane
  <2> QED BY <2>2, <2>3, <2>4, RetireSpares
<1> HIDE DEF after
<1>4. Well(kept) /\ Side(kept, FALSE) = Side(after, FALSE)
  <2>1. Well(kept)
    BY <1>3, PreserveKeeps
  <2>2. Good(after)
    BY <1>3 DEF Well
  <2>3. CASE kept = after
    BY <2>1, <2>3
  <2>4. CASE Drives(after, l) /\ kept = DetachCustom(after, l)
    BY <1>2, <2>1, <2>2, <2>4, DetachCustomSpares
  <2>5. CASE Drives(after, l) /\ kept = Leave(Detach(after, l), after.lane[l])
    <3> DEFINE d == Detach(after, l)
               u == after.lane[l]
    <3>1. DetachedTo(after, l, d)
      BY <1>2, <2>2, DetachKeeps
    <3>2. Side(d, FALSE) = Side(after, FALSE)
      BY <1>2, <2>2, DetachSpares
    <3>3. u \in Sounding(after) /\ after.voice[u].lane = l
      BY <1>2, <2>2, <2>5, DrivenIs
    <3> HIDE DEF d, u
    <3>4. Good(d) /\ Typed(d) /\ (u \in Sounding(d) /\ d.voice[u].lane = l)
      BY <3>1, <3>3 DEF DetachedTo, Good
    <3>5. u \in Others(d, FALSE)
      BY <1>2, <3>4, OfOtherLane
    <3>6. Side(Leave(d, u), FALSE) = Side(d, FALSE)
      BY <3>4, <3>5, BegunSpares
    <3>7. kept = Leave(d, u)
      BY <2>5 DEF d, u
    <3> QED BY <2>1, <3>2, <3>6, <3>7
  <2> QED BY <2>3, <2>4, <2>5
<1> HIDE DEF kept
<1>5. Well(emptied) /\ Side(emptied, FALSE) = Side(kept, FALSE)
  <2> DEFINE old == {kept.lane[l]}
  <2>1. \A u \in old \cap Sounding(kept) : kept.voice[u].lane = l
    BY <1>4, LiveLane DEF Well
  <2>2. Good(kept) /\ Typed(kept)
    BY <1>4 DEF Well, Good
  <2>5. emptied = Retire(kept, old)
    OBVIOUS
  <2> HIDE DEF old, emptied
  <2>3. Well(emptied)
    BY <1>2, <1>4, <2>1, <2>5, RetireWell
  <2>4. \A u \in old \cap Sounding(kept) : u \in Others(kept, FALSE)
    BY <1>2, <2>1, <2>2, OfOtherLane
  <2> QED BY <2>2, <2>3, <2>4, <2>5, RetireSpares
<1> HIDE DEF emptied
<1>6. victim \in Active(emptied, "Live") \cup {None}
  <2>1. Active(emptied, "Live") \subseteq Nat
    BY <1>5, TypedParts DEF Active, Owned, Well, Good
  <2> QED BY <2>1, MinOfSome DEF Oldest
<1> HIDE DEF victim
<1>7. Good(q) /\ Side(q, FALSE) = Side(emptied, FALSE)
  <2>1. AdmittedTo(emptied, "Live", victim, room, q)
    BY <1>2, <1>5, <1>6, AdmissionDoes DEF Well, Domains
  <2>2. Side(q, FALSE) = Side(emptied, FALSE)
    BY <1>2, <1>5, <1>6, AdmissionSpares DEF Well, OtherDomains
  <2> HIDE DEF q
  <2> QED BY <2>1, <2>2 DEF AdmittedTo
<1>8. /\ Good(p) /\ Side(p, FALSE) = Side(q, FALSE)
      /\ played.ok => v \in Sounding(p) /\ p.voice[v].lane = l /\ p.voice[v].life = "Foreground"
  <2>1. CASE room.ok
    <3>1. played = Trigger(q, l, n)
      BY <2>1
    <3> HIDE DEF q, played
    <3>2. TriggeredTo(q, l, n, played, p)
      BY <1>2, <1>7, <3>1, TriggerDoes
    <3>3. Side(p, FALSE) = Side(q, FALSE)
      BY <1>2, <1>7, <3>1, TriggerSpares
    <3>4. NewVoice(l, n).lane = l /\ NewVoice(l, n).life = "Foreground"
      BY <1>2, NewVoiceIs
    <3> QED BY <3>2, <3>3, <3>4 DEF TriggeredTo
  <2>2. CASE ~room.ok
    <3>1. p = q /\ ~played.ok
      BY <2>2
    <3> HIDE DEF p, q, played
    <3> QED BY <1>7, <3>1
  <2> QED BY <2>1, <2>2
<1> HIDE DEF played, p, q, room
<1>9. CASE ~played.ok
  <2>1. r = [p EXCEPT !.refused = TRUE] /\ p \in States
    BY <1>1, <1>8, <1>9 DEF Good, Typed
  <2>2. r.voice = p.voice
    BY <2>1 DEF States
  <2> HIDE DEF r
  <2>3. Side(r, FALSE) = Side(p, FALSE)
    BY <2>2, SameVoices
  <2>4. Side(r, FALSE) = Side(s, FALSE)
    BY <1>3, <1>4, <1>5, <1>7, <1>8, <2>3
  <2> QED BY <2>4 DEF r
<1>10. CASE played.ok
  <2> DEFINE i == Identify(p, v, volume)
  <2> HIDE DEF v, r
  <2>1. v \in Sounding(p) /\ p.voice[v].lane = l /\ p.voice[v].life = "Foreground"
    BY <1>8, <1>10
  <2>2. v \in Others(p, FALSE)
    BY <1>2, <1>8, <2>1, OfOtherLane
  <2>3. NamedTo(p, i)
    BY <1>8, <2>1, IdentifyDoes
  <2>4. Side(i, FALSE) = Side(p, FALSE)
    BY <1>8, <2>1, <2>2, IdentifySpares
  <2>5. r = Begun(i, v)
    BY <1>1, <1>10
  <2> HIDE DEF i
  <2>6. Good(i) /\ Typed(i) /\ v \in Sounding(i) /\ i.voice[v].lane = l
    BY <2>1, <2>3 DEF NamedTo, Good
  <2>7. v \in Others(i, FALSE)
    BY <1>2, <2>6, OfOtherLane
  <2>8. Side(r, FALSE) = Side(i, FALSE)
    BY <2>5, <2>6, <2>7, BegunSpares
  <2>9. Side(r, FALSE) = Side(s, FALSE)
    BY <1>3, <1>4, <1>5, <1>7, <1>8, <2>4, <2>8
  <2> QED BY <2>9 DEF r
<1> QED BY <1>9, <1>10

-----------------------------------------------------------------------------
(* Clears, and the steps *)

\* A clear of the processor's channels touches no voice.
LEMMA ClearSpares ==
    ASSUME NEW s, Well(s), NEW live \in BOOLEAN, NEW some, \A v \in some \cap Sounding(s) : v \in Others(s, live)
    PROVE  Side(ClearSound(Retire(s, some)), live) = Side(s, live)
<1> DEFINE q == Retire(s, some)
           r == ClearSound(q)
<1>1. Typed(q)
  BY RetireMakes DEF Well, Good
<1>2. Side(q, live) = Side(s, live)
  BY RetireSpares DEF Well, Good
<1> HIDE DEF q
<1>3. r.voice = q.voice
  BY <1>1 DEF ClearSound, Typed, States
<1> HIDE DEF r
<1>4. Side(r, live) = Side(q, live)
  BY <1>3, SameVoices
<1> QED BY <1>2, <1>4 DEF q, r

LEMMA ResetSpares ==
    ASSUME NEW s, Good(s)
    PROVE  Side(ResetProcessor(s), TRUE) = Side(s, TRUE)
<1> DEFINE some == {v \in Sounding(s) : /\ s.voice[v].lane \in SongLanes
                                        /\ ~(Prepared /\ s.voice[v].domain = "Custom")}
           q == Drop(s, some)
           r == ResetProcessor(s)
<1>1. Tuned(s, q) /\ \A v \in Sounding(s) : v \notin some => q.voice[v] = s.voice[v]
  BY DropMakes DEF Good
<1>2. r = [q EXCEPT !.chan = [l \in SongLanes |-> None]]
  BY DEF ResetProcessor
<1>3. \A v \in some \cap Sounding(s) : v \in Others(s, TRUE)
  BY OfOtherLane DEF OtherLanes
<1> HIDE DEF q, r, some
<1>4. Side(q, TRUE) = Side(s, TRUE)
  BY <1>1, <1>3, TunedSpares DEF Good
<1>5. r.voice = q.voice
  BY <1>1, <1>2 DEF Tuned, Typed, States
<1>6. Side(r, TRUE) = Side(q, TRUE)
  BY <1>5, SameVoices
<1> QED BY <1>4, <1>6 DEF r

LEMMA SeekSpares ==
    ASSUME NEW s, Well(s)
    PROVE  Side(ResetProcessor(IF Interactive THEN Retire(s, SongVoices(s)) ELSE s), TRUE) = Side(s, TRUE)
<1> DEFINE q == IF Interactive THEN Retire(s, SongVoices(s)) ELSE s
<1>1. Good(s) /\ Typed(s)
  BY DEF Well, Good
<1>2. Good(q) /\ Side(q, TRUE) = Side(s, TRUE)
  <2>1. CASE Interactive
    <3>1. q = Retire(s, SongVoices(s))
      BY <2>1
    <3> HIDE DEF q
    <3>2. Good(q)
      BY <1>1, <3>1, RetireKeeps DEF RetiredTo
    <3>3. \A v \in SongVoices(s) \cap Sounding(s) : v \in Others(s, TRUE)
      BY DEF SongVoices, Others, Owned
    <3>4. Side(q, TRUE) = Side(s, TRUE)
      BY <1>1, <3>1, <3>3, RetireSpares
    <3> QED BY <3>2, <3>4
  <2>2. CASE ~Interactive
    <3>1. q = s
      BY <2>2
    <3> HIDE DEF q
    <3> QED BY <1>1, <3>1
  <2> QED BY <2>1, <2>2
<1> HIDE DEF q
<1>3. Side(ResetProcessor(q), TRUE) = Side(q, TRUE)
  BY <1>2, ResetSpares
<1>4. Side(ResetProcessor(q), TRUE) = Side(s, TRUE)
  BY <1>2, <1>3
<1> QED BY <1>4 DEF q

\* What a clear retires of everything is everything.
LEMMA EverythingRetires ==
    ASSUME NEW s, Well(s), NEW r, r = ClearSound(Retire(s, Sounding(s)))
    PROVE  \A v \in Sounding(r) : r.voice[v].life = "Retiring"
<1> DEFINE q == Retire(s, Sounding(s))
<1>1. /\ Typed(q) /\ Sounding(q) = Sounding(s)
      /\ \A v \in Sounding(s) :
           q.voice[v] = IF v \in Retires(s, Sounding(s)) THEN Retired(s.voice[v]) ELSE s.voice[v]
  BY RetireMakes DEF Well, Good
<1>2. \A v \in Sounding(s) : s.voice[v] \in VoiceRecords
  BY TypedParts DEF Well, Good
<1>3. r = ClearSound(q)
  OBVIOUS
<1> HIDE DEF q
<1>4. r.voice = q.voice
  BY <1>1, <1>3 DEF ClearSound, Typed, States
<1>5. \A v \in Sounding(s) : q.voice[v].life = "Retiring"
  BY <1>1, <1>2, RetiredIs DEF Retires
<1> QED BY <1>1, <1>4, <1>5 DEF Sounding

\* What a step leaves alone of the state it makes, it leaves alone.
LEMMA BecomeSpares ==
    ASSUME NEW r, Become(r)
    PROVE  /\ Side(r, FALSE) = Side(Now, FALSE) => SongOnly' = SongOnly
           /\ Side(r, TRUE) = Side(Now, TRUE) => LiveOnly' = LiveOnly
<1> DEFINE n == [voice |-> r.voice, lane |-> r.lane, chan |-> r.chan, refused |-> FALSE]
<1>1. Now' = n
  BY DEF Become, Now
<1>2. n.voice = r.voice
  OBVIOUS
<1> HIDE DEF n
<1>3. Side(n, TRUE) = Side(r, TRUE) /\ Side(n, FALSE) = Side(r, FALSE)
  BY <1>2, SameVoices
<1>4. /\ Side(n, FALSE) = Left(n, Owned(n, "Live")) /\ Side(Now, FALSE) = Left(Now, Owned(Now, "Live"))
      /\ Side(n, TRUE) = Left(n, Sounding(n) \ Owned(n, "Live"))
      /\ Side(Now, TRUE) = Left(Now, Sounding(Now) \ Owned(Now, "Live"))
  BY DEF Side, Others
<1>5. SongOnly' = Left(n, Owned(n, "Live")) /\ LiveOnly' = Left(n, Sounding(n) \ Owned(n, "Live"))
  BY <1>1 DEF SongOnly, LiveOnly, Left, Owned, Sounding
<1> QED BY <1>3, <1>4, <1>5 DEF SongOnly, LiveOnly

Apart == \/ SongOnly' = SongOnly \/ LiveOnly' = LiveOnly
         \/ overlap' # overlap
         \/ \A v \in DOMAIN voice' : voice'[v].life = "Retiring"

LEMMA StepsKeepApart == IInv /\ [Next]_vars => Apart \/ UNCHANGED vars
<1> SUFFICES ASSUME IInv, [Next]_vars PROVE Apart \/ UNCHANGED vars
  OBVIOUS
<1>1. Well(Now) /\ Good(Now) /\ Typed(Now)
  BY DEF IInv, Well, Good
<1>2. CASE Tick
  <2>1. PICK s \in Turns : \E faded \in AtMostOne(Fading(s)) : Become(AdvanceVoices(s, faded))
    BY <1>2 DEF Tick
  <2>2. PICK faded : Become(AdvanceVoices(s, faded))
    BY <2>1
  <2>3. Well(s) /\ Side(s, TRUE) = Side(Now, TRUE)
    BY <1>1, TurnsKeep, TurnsSpare
  <2> DEFINE r == AdvanceVoices(s, faded)
  <2>4. Side(r, TRUE) = Side(s, TRUE)
    BY <2>3, AdvanceVoicesSpares
  <2> HIDE DEF r
  <2>5. LiveOnly' = LiveOnly
    BY <2>2, <2>3, <2>4, BecomeSpares DEF r
  <2> QED BY <2>5 DEF Apart
<1>3. CASE ControlStep
  <2>1. PICK faded : Become(AdvanceVoices(Now, faded))
    BY <1>3 DEF ControlStep
  <2>2. Side(AdvanceVoices(Now, faded), TRUE) = Side(Now, TRUE)
    BY <1>1, AdvanceVoicesSpares
  <2>3. LiveOnly' = LiveOnly
    BY <2>1, <2>2, BecomeSpares
  <2> QED BY <2>3 DEF Apart
<1>4. CASE LivePlay
  <2>0. PICK l \in LiveLanes : \E s \in LiveNotes(Now, l) : Become(s)
    BY <1>4 DEF LivePlay
  <2>1. PICK s \in LiveNotes(Now, l) : Become(s)
    BY <2>0
  <2>2. PICK n \in Notes, volume \in Volumes, check \in DuplicateChecks, goesOn \in BOOLEAN :
          s = LiveNote(Now, l, n, volume, check, goesOn)
    BY <2>1 DEF LiveNotes
  <2>3. \A m \in Notes, x \in Volumes : \A c, g : Side(LiveNote(Now, l, m, x, c, g), FALSE) = Side(Now, FALSE)
    BY <1>1, LiveNoteSpares
  <2>4. Side(s, FALSE) = Side(Now, FALSE)
    BY <2>2, <2>3, Zenon
  <2>5. SongOnly' = SongOnly
    BY <2>1, <2>4, BecomeSpares
  <2> QED BY <2>5 DEF Apart
<1>5. CASE LiveStep
  <2>1. PICK faded : Become(LiveControl(Now, faded))
    BY <1>5 DEF LiveStep
  <2> DEFINE some == {v \in Owned(Now, "Live") : Stepped(Now, v) /\ v \in faded}
             r == LiveControl(Now, faded)
  <2>2. \A v \in some \cap Sounding(Now) : v \in Others(Now, FALSE)
    BY DEF Others
  <2>3. r = Retire(Now, some)
    BY DEF LiveControl
  <2> HIDE DEF some, r
  <2>4. Side(r, FALSE) = Side(Now, FALSE)
    BY <1>1, <2>2, <2>3, RetireSpares
  <2>5. SongOnly' = SongOnly
    BY <2>1, <2>4, BecomeSpares DEF r
  <2> QED BY <2>5 DEF Apart
<1>6. CASE Clear
  <2>1. PICK some \in {Sounding(Now), Owned(Now, "Live")} \cup {OfLane(Now, l) : l \in LiveLanes} :
          Become(ClearSound(Retire(Now, some)))
    BY <1>6 DEF Clear
  <2> DEFINE r == ClearSound(Retire(Now, some))
  <2>2. CASE some = Sounding(Now)
    <3>1. r = ClearSound(Retire(Now, Sounding(Now)))
      BY <2>2
    <3> HIDE DEF r
    <3>2. \A v \in Sounding(r) : r.voice[v].life = "Retiring"
      BY <1>1, <3>1, EverythingRetires
    <3>3. voice' = r.voice
      BY <2>1 DEF Become, r
    <3> QED BY <3>2, <3>3 DEF Apart, Sounding
  <2>3. CASE some # Sounding(Now)
    <3>1. \A v \in some \cap Sounding(Now) : v \in Others(Now, FALSE)
      <4>1. CASE some = Owned(Now, "Live")
        BY <4>1 DEF Others
      <4>2. CASE some # Owned(Now, "Live")
        <5>1. PICK l \in LiveLanes : some = OfLane(Now, l)
          BY <2>1, <2>3, <4>2
        <5>2. \A v \in some \cap Sounding(Now) : Now.voice[v].lane \in OtherLanes(FALSE)
          BY <5>1 DEF OfLane, OtherLanes
        <5> QED BY <1>1, <5>2, OfOtherLane
      <4> QED BY <4>1, <4>2
    <3>2. Side(r, FALSE) = Side(Now, FALSE)
      BY <1>1, <3>1, ClearSpares
    <3> HIDE DEF r
    <3>3. SongOnly' = SongOnly
      BY <2>1, <3>2, BecomeSpares DEF r
    <3> QED BY <3>3 DEF Apart
  <2> QED BY <2>2, <2>3
<1>7. CASE SetOverlap
  BY <1>7 DEF SetOverlap, IInv, Apart
<1>8. CASE Seek
  <2> DEFINE r == ResetProcessor(IF Interactive THEN Retire(Now, SongVoices(Now)) ELSE Now)
  <2>1. Become(r)
    BY <1>8 DEF Seek
  <2>2. Side(r, TRUE) = Side(Now, TRUE)
    BY <1>1, SeekSpares
  <2> HIDE DEF r
  <2>3. LiveOnly' = LiveOnly
    BY <2>1, <2>2, BecomeSpares
  <2> QED BY <2>3 DEF Apart
<1>9. CASE Mix
  <2> DEFINE ending == {v \in Sounding(Now) : voice[v].sound = "stopping" \/ voice[v].note \notin Looping}
  <2>1. PICK ended \in AtMostOne(ending) : Become(Release(Now, ended))
    BY <1>9 DEF Mix
  <2>2. ended = {} \/ \E v \in Sounding(Now) : ended = {v}
    BY <2>1 DEF AtMostOne
  <2>3. ended \subseteq Others(Now, FALSE) \/ ended \subseteq Others(Now, TRUE)
    BY <2>2 DEF Others, Owned
  <2> HIDE DEF ending
  <2> DEFINE r == Release(Now, ended)
  <2>4. Side(r, FALSE) = Side(Now, FALSE) \/ Side(r, TRUE) = Side(Now, TRUE)
    BY <1>1, <2>3, SparedOfRelease
  <2> HIDE DEF r
  <2>5. SongOnly' = SongOnly \/ LiveOnly' = LiveOnly
    BY <2>1, <2>4, BecomeSpares DEF r
  <2> QED BY <2>5 DEF Apart
<1>10. CASE ForgetFinished
  <2> DEFINE r == [Now EXCEPT !.lane = [l \in Lanes |-> IF Drives(Now, l) THEN lane[l] ELSE None]]
  <2>1. Become(r)
    BY <1>10 DEF ForgetFinished
  <2>2. r.voice = Now.voice
    BY DEF Now
  <2> HIDE DEF r
  <2>3. Side(r, TRUE) = Side(Now, TRUE)
    BY <2>2, SameVoices
  <2>4. LiveOnly' = LiveOnly
    BY <2>1, <2>3, BecomeSpares
  <2> QED BY <2>4 DEF Apart
<1> QED BY <1>2, <1>3, <1>4, <1>5, <1>6, <1>7, <1>8, <1>9, <1>10 DEF Next

\* A step changes the voices of the song or those of the live rack, never both, but
\* for the clears that are meant for both: a note steals, a duplicate is cut and an
\* articulation advances within its own domain (ChannelTable::prepare_admission,
\* VoicePool::release, ItLiveRuntime::note_on).
THEOREM SongAndLiveStayApart == Spec => SongAndLiveApart
<1>1. IInv /\ [Next]_vars => [Apart]_vars
  BY StepsKeepApart
<1>2. Spec => [][Apart]_vars
  BY <1>1, Inductive, PTL DEF Spec
<1> QED BY <1>2 DEF SongAndLiveApart, Apart
================================================================================
