--------------------------- MODULE MCWirelessImage ---------------------------
EXTENDS WirelessImage
=============================================================================
