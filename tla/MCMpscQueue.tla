---------------------------- MODULE MCMpscQueue ----------------------------
\* MpscQueue with small constants for TLC.
EXTENDS MpscQueue
=============================================================================
