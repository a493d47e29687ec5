------------------------------ MODULE MCVoices ------------------------------
(* Instances of Voices: one-shot notes and their tails, beside a live lane and *)
(* on two lanes of a song, looping notes on two lanes, and a player without    *)
(* ownership records.                                                          *)
EXTENDS Voices, TLC

CONSTANTS Soft, Loud, Louder

MCHit == {"hit"}
MCPad == {"pad"}
MCLevel == {Loud}
MCTwoLevels == {Soft, Loud}
MCLevels == {Soft, Loud, Louder}
AlikeTwo == Permutations(MCTwoLevels)
Alike == Permutations(MCLevels)

MixedLimit == [Native |-> 2, Custom |-> 1, Live |-> 1]
LanesLimit == [Native |-> 1, Custom |-> 2, Live |-> 0]
PadsLimit == [Native |-> 3, Custom |-> 0, Live |-> 1]
SeekLimit == [Native |-> 2, Custom |-> 0, Live |-> 0]
=============================================================================
