---------------------------- MODULE MCFreshness ----------------------------
EXTENDS Freshness
=============================================================================
