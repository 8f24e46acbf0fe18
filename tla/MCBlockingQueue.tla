-------------------------- MODULE MCBlockingQueue ---------------------------
EXTENDS BlockingQueue, TLC

CONSTANTS p1, p2, c1, c2, v1, v2

MCProducer == {p1, p2}
MCConsumer == {c1, c2}
MCValue == {v1, v2}
=============================================================================
