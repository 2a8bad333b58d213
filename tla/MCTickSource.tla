---------------------------- MODULE MCTickSource ----------------------------
EXTENDS TickSource
=============================================================================
