--------------------------- MODULE MCAccountData ---------------------------
EXTENDS AccountData, TLC
\* Calls are numbered; their participants' domain is the second one.
MCCallDomain == [c \in Call |-> 2]
\* Handlers are interchangeable, and no liveness is checked here.
Symmetry == Permutations(Handler)
=============================================================================
