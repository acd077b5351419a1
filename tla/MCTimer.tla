-------------------------------- MODULE MCTimer --------------------------------
EXTENDS Timer, TLC
CONSTANTS o1, o2
=============================================================================
