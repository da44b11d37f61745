---------------------------- MODULE MCUsageView ----------------------------
EXTENDS UsageView, TLC
CONSTANTS V1, V2, A1, A2
MCVms == {V1, V2}
MCApps == {A1, A2}
=============================================================================
