------------------------------- MODULE MCOsPairs ------------------------------
EXTENDS OsPairs
===============================================================================
