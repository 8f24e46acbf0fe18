--------------------------- MODULE MCMasterWorker ---------------------------
EXTENDS MasterWorker

CONSTANTS f1, f2, f3, f4

MCFile == {f1, f2, f3, f4}
MCUnreadable == {f1}
MCUnsavable == {f2}
=============================================================================
