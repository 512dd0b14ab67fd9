--------------------------- MODULE MCUsageReport ---------------------------
EXTENDS UsageReport, TLC

CONSTANTS s1, s2, h1, h2, b1, b2, r1, r2

MCSymmetry == Permutations(Sub) \cup Permutations(Handler)
              \cup Permutations(Buyer) \cup Permutations(Reporter)
=============================================================================
