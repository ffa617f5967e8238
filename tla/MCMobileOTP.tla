---------------------------- MODULE MCMobileOTP ----------------------------
EXTENDS MobileOTP, TLC

Symmetry == Permutations(Reqs) \cup Permutations(Users)
                \cup Permutations(Numbers) \cup Permutations(Codes)
=============================================================================
