------------------------------ MODULE MCClosestK ------------------------------
EXTENDS ClosestK

\* A late stamp makes a time negative, a coarse clock makes it zero; 100, 101
\* and 102 are near each other in a row but 100 and 102 are not.
MCTimes == {-2, 0, 100, 101, 102, 110}
===============================================================================
