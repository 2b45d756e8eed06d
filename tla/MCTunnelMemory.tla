--------------------------- MODULE MCTunnelMemory ---------------------------
EXTENDS TunnelMemory, MCTunnelManager
=============================================================================
