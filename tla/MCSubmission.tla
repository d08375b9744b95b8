---------------------------- MODULE MCSubmission ----------------------------
EXTENDS Submission, TLC
Symmetry == Permutations(Tabs)
=============================================================================
