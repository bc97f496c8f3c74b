----------------------------- MODULE MCSendBench ------------------------------
EXTENDS SendBenchProofs

AllCalls == Calls
===============================================================================
