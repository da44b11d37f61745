---------------------------- MODULE MCAgentTasks ----------------------------
EXTENDS AgentTasks, TLC

CONSTANTS R1, R2, A1, A2

MCReqs == {R1, R2}
MCApps == {A1, A2}
=============================================================================
