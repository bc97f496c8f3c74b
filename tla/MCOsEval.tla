-------------------------------- MODULE MCOsEval ------------------------------
EXTENDS OsEvalProofs

\* A nanosecond clock of 40 ticks per second.  Rounds start just before a
\* second is over; 20, 21 and 22 are near each other in a row.
MCDurations == {0, 1, 20, 21, 22, 39, 41, 85}
===============================================================================
