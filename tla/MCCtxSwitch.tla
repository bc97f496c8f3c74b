----------------------------- MODULE MCCtxSwitch ------------------------------
EXTENDS CtxSwitchProofs

AllButRestore == Calls \ {"restore"}
===============================================================================
