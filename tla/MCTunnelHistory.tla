-------------------------- MODULE MCTunnelHistory ---------------------------
EXTENDS TunnelHistory, MCTunnelManager
=============================================================================
