---------------------- MODULE MCInputContinuation ----------------------
EXTENDS InputContinuation
=============================================================================
