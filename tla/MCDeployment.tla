---------------------------- MODULE MCDeployment ----------------------------
\* All kinds of networks; one run fails and sources change twice, so that a bridge
\* or a neighbour is replaced after any of them was handed over.
EXTENDS Deployment
=============================================================================
