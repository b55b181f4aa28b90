----------------------- MODULE MCGattClientConnection -----------------------
(* Three procedures of any kind; a value of up to four bytes, in parts of  *)
(* at most two, for a vector of three.                                     *)
EXTENDS GattClientConnection
=============================================================================
