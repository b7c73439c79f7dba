-------------------------- MODULE MCSessionHandoff --------------------------
EXTENDS SessionHandoff, TLC

CONSTANTS m1, m2, za, zb, k1, k2
MCMapOf == [z \in Zones |-> IF z = za THEN m1 ELSE m2]
=============================================================================
