--------------------------- MODULE MCNetworkWorker ---------------------------
EXTENDS NetworkWorker

CONSTANTS t1, t2, w1
=============================================================================
