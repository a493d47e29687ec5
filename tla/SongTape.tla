------------------------------ MODULE SongTape ------------------------------
(***************************************************************************)
(* What the pattern sequencer and the scan promise together: a song is a   *)
(* tape whose length is known before it is played.  A tape played straight *)
(* from its start is over when its head is at its length, neither before   *)
(* nor after.  One that was wound, looped or put into another deck may be  *)
(* over at any other place.                                                *)
(***************************************************************************)
EXTENDS Naturals

CONSTANTS
  Unknown,   \* no length yet
  Step       \* how far one turn moves the head

VARIABLES
  length,    \* of one pass, Unknown until the scan is over
  head,      \* where the pass is
  straight,  \* the pass began at the start and nothing disturbed it
  over       \* the end has been announced

vars == <<length, head, straight, over>>

AtTheEnd == length \in {head, head + Step}

Init == length = Unknown /\ head = 0 /\ straight = TRUE /\ over = FALSE

Load ==
  /\ length = Unknown
  /\ length' \in Nat
  /\ UNCHANGED <<head, straight, over>>

Play ==
  /\ length # Unknown
  /\ head' = head + Step
  /\ straight => head' <= length
  /\ over' \in {over, FALSE}
  /\ UNCHANGED <<length, straight>>

\* The end is announced; a turn that has begun is finished.
End ==
  /\ length # Unknown /\ (straight => AtTheEnd)
  /\ head' \in {head, head + Step}
  /\ over' = TRUE
  /\ straight' \in {straight, FALSE} /\ (straight' => head' = length)
  /\ UNCHANGED length

\* The end is announced and another pass begins at once.
Loop ==
  /\ length # Unknown /\ (straight => AtTheEnd)
  /\ head' \in Nat
  /\ over' \in BOOLEAN
  /\ straight' = FALSE
  /\ UNCHANGED length

\* A seek, or a replacement of the deck.
Wind ==
  /\ length # Unknown
  /\ head' \in Nat
  /\ over' \in {over, FALSE}
  /\ straight' = FALSE
  /\ UNCHANGED length

Next == Load \/ Play \/ End \/ Loop \/ Wind

Spec == Init /\ [][Next]_vars
=============================================================================
