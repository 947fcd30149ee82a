----------------------- MODULE MCCtpForwardingEngineP -----------------------
EXTENDS CtpForwardingEngineP
=============================================================================
