----------------------------- MODULE MCRecvBench ------------------------------
EXTENDS RecvBenchProofs

AllCalls == Calls
===============================================================================
