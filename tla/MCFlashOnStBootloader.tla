------------------------ MODULE MCFlashOnStBootloader ------------------------
EXTENDS FlashOnStBootloader
=============================================================================
