----------------------------- MODULE MCNsTimer -----------------------------
EXTENDS NsTimer
=============================================================================
