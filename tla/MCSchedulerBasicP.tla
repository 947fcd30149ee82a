------------------------- MODULE MCSchedulerBasicP -------------------------
EXTENDS SchedulerBasicP
=============================================================================
