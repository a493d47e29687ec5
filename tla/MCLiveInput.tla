----------------------------- MODULE MCLiveInput -----------------------------
(***************************************************************************)
(* The keys and cancels of the model checker's user of LiveInput.          *)
(***************************************************************************)
EXTENDS LiveInput, TLC

CONSTANTS LowKey, HighKey

OneKey == {LowKey}
TwoKeys == {LowKey, HighKey}
AlikeKeys == Permutations(TwoKeys)

Once == [kind \in Realms |-> 1]
Twice == [kind \in Realms |-> 2]
OnceOnThreads == [kind \in Realms |-> IF kind = "threads" THEN 1 ELSE 2]
=============================================================================
