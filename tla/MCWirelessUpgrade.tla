-------------------------- MODULE MCWirelessUpgrade --------------------------
EXTENDS WirelessUpgrade
=============================================================================
