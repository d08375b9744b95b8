------------------------------- MODULE MCBatch -------------------------------
EXTENDS Batch, TLC
==============================================================================
