--------------------------- MODULE MCAMQueueImplP ---------------------------
EXTENDS AMQueueImplP
=============================================================================
