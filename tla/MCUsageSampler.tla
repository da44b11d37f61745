---------------------------- MODULE MCUsageSampler ----------------------------
EXTENDS UsageSampler, TLC
=============================================================================
