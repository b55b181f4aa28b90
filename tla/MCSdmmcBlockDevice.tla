------------------------- MODULE MCSdmmcBlockDevice -------------------------
EXTENDS SdmmcBlockDevice
=============================================================================
