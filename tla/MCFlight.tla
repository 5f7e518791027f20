------------------------------- MODULE MCFlight ------------------------------
EXTENDS Flight
==============================================================================
