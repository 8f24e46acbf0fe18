--------------------------- MODULE MCFFWatermark ----------------------------
EXTENDS FFWatermark

CONSTANTS f1, f2, f3

MCFile == {f1, f2, f3}
MCUnreadable == {f2}
MCUnsavable == {f1}
=============================================================================
