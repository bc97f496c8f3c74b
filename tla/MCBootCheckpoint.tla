--------------------------- MODULE MCBootCheckpoint ---------------------------
EXTENDS BootCheckpoint
===============================================================================
