-------------------------------- MODULE MCTests -------------------------------
EXTENDS TestsProofs

\* Three read_tests of other sizes, one of each other tester that is modelled
\* in detail, those with results of a child, those that can leave a copy of main,
\* and an ID too small and one too large.
MCIds == {-1, 1, 3, 6, 7, 9, 11, 12, 14, 16, 22, 24}
===============================================================================
