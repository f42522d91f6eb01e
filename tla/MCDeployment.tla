---------------------------- MODULE MCDeployment ----------------------------
EXTENDS Deployment
MCVersions == 1 .. 2
=============================================================================
