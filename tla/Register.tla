------------------------------- MODULE Register -------------------------------
(***************************************************************************)
(* What SeqLock promises: one value that a writer replaces and a reader    *)
(* gets, each in one step.  A reader that finds the writer at work every   *)
(* time it looks may give up, and is then promised nothing.                *)
(***************************************************************************)
CONSTANTS Halves, Initial

VARIABLES
    value,    \* what is stored
    got       \* the reader's last answer: [sure, value]

Answers == [sure : BOOLEAN, value : Halves \X Halves]

Init == value = Initial /\ got = [sure |-> TRUE, value |-> Initial]

Store == value' \in Halves \X Halves /\ UNCHANGED got

Load == got' = [sure |-> TRUE, value |-> value] /\ UNCHANGED value

GiveUp == got' \in {answer \in Answers : ~answer.sure} /\ UNCHANGED value

Next == Store \/ Load \/ GiveUp

Spec == Init /\ [][Next]_<<value, got>>
===============================================================================
