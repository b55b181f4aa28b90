---------------------------- MODULE MCGapCentral ----------------------------
(* Two connects: what one leaves behind meets the next.                    *)
EXTENDS GapCentral
=============================================================================
