----------------------------- MODULE MCEndOfSong -----------------------------
(***************************************************************************)
(* The modes a user of EndOfSong chooses among, for the model checker.     *)
(***************************************************************************)
EXTENDS EndOfSong

FadesOut == [end \in SongEnds |-> {"FadeOut"}]

AllModes == [kind \in Transports |-> [end \in SongEnds |-> {"FadeOut", "Continue", "Stop"}]]

OnlyFades == [kind \in Transports |-> FadesOut]

FadesOrRepeats == [kind \in Transports |-> [end \in SongEnds |-> {"FadeOut", "Continue"}]]
=============================================================================
