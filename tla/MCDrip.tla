------------------------------- MODULE MCDrip -------------------------------
EXTENDS Drip
MCNodes == 0..2
MCLinks == {<<1, 0>>, <<0, 1>>, <<0, 2>>, <<2, 0>>}
MCChangers == {1, 2}
MCRestarting == {0}
MCNewcomers == {0}
MCAgreed == 7 * Ids + 1
=============================================================================
