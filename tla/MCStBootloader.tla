--------------------------- MODULE MCStBootloader ---------------------------
EXTENDS StBootloader
=============================================================================
