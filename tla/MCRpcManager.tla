----------------------------- MODULE MCRpcManager -----------------------------
EXTENDS RpcManager
=============================================================================
