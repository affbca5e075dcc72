------------------------------- MODULE MCPilot -------------------------------
EXTENDS Pilot
=============================================================================
