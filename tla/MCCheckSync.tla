---------------------------- MODULE MCCheckSync ----------------------------
EXTENDS CheckSync
=============================================================================
