------------------------ MODULE MCStreamScheduling ------------------------
(***************************************************************************)
(* Both kinds of stream, on a ring of a few slots.                         *)
(***************************************************************************)
EXTENDS StreamScheduling

BothModes == BOOLEAN
FilmOnly == {FALSE}
TwoStarts == {1, 2}
=============================================================================
