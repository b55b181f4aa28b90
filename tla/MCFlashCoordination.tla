------------------------ MODULE MCFlashCoordination ------------------------
(* Two double words of two bytes and two sectors: a write may start in the *)
(* middle of a double word and end in the middle of the next one.          *)
EXTENDS FlashCoordination
=============================================================================
