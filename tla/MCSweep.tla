------------------------------- MODULE MCSweep -------------------------------
EXTENDS Sweep
=============================================================================
