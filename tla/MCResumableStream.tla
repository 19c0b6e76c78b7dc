------------------------- MODULE MCResumableStream -------------------------
EXTENDS ResumableStream, TLC
CarrierSymmetry == Permutations(Carriers)
=============================================================================
