-------------------------- MODULE MCProviderRequests --------------------------
EXTENDS ProviderRequestsProofs

CONSTANTS r1, r2, r3, r4, p1, p2

MCProviderKey == [r \in Request |-> IF r = r4 THEN p2 ELSE p1]
=============================================================================
