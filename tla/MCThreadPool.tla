---------------------------- MODULE MCThreadPool ----------------------------
\* ThreadPool with small constants for TLC.
EXTENDS ThreadPool
=============================================================================
