---------------------------- MODULE MCPartySync ----------------------------
EXTENDS PartySync

CONSTANTS m1, m2, p1, p2, p3
MCStart == [x \in Chars |-> IF x = p1 THEN m1 ELSE m2]
=============================================================================
