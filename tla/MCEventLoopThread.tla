------------------------- MODULE MCEventLoopThread -------------------------
\* EventLoopThread with small constants for TLC.
EXTENDS EventLoopThread
=============================================================================
