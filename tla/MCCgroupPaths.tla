---------------------------- MODULE MCCgroupPaths ----------------------------
EXTENDS CgroupPaths, TLC

CONSTANTS Mon, Est

MCSamplers == {Mon, Est}
=============================================================================
