--------------------- MODULE MCSimpleRoundRobinArbiterC ---------------------
EXTENDS SimpleRoundRobinArbiterC
=============================================================================
