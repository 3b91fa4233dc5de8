---------------------------- MODULE MCTimerQueue ----------------------------
\* TimerQueue with small constants for TLC.
EXTENDS TimerQueue, TLC

CONSTANTS a, b

\* a repeats every two units, b fires once.
MCInterval == (a :> 2) @@ (b :> 0)
=============================================================================
