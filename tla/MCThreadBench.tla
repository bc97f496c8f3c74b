----------------------------- MODULE MCThreadBench ----------------------------
EXTENDS ThreadBench
===============================================================================
