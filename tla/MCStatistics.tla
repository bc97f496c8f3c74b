----------------------------- MODULE MCStatistics -----------------------------
EXTENDS MCClosestK, StatisticsProofs

\* Two times near each other, so that an array of them is not settled, and one
\* far off on each side; 13 of each are the fewest for which the far ones are
\* thrown out together, in turn or not at all.
MCValues == {0, 39, 41, 99}
===============================================================================
