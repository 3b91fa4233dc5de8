---------------------------- MODULE MCTcpClient ----------------------------
\* TcpClient with small constants for TLC.
EXTENDS TcpClient
=============================================================================
