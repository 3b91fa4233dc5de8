---------------------------- MODULE MCRpcServer ----------------------------
\* RpcServer with small constants for TLC.
EXTENDS RpcServer
=============================================================================
