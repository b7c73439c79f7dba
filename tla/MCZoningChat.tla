---------------------------- MODULE MCZoningChat ----------------------------
EXTENDS ZoningChat, TLC

CONSTANTS c1, c2, m1, m2, t1, t2, g1

(* c1 receives and changes zone, c2 sends.                                 *)
MCSender    == [l \in Lines |-> c2]
MCRecipient == [t \in Tells |-> c1]
MCHome      == [c \in Chars |-> m1]
MCBudgetTwo == [c \in Chars |-> IF c = c1 THEN 2 ELSE 0]
(* The second move of c1 is for party lines only.                          *)
TellsWithOneMove == moves[c1] < 2 \/ sent \subseteq Groups
=============================================================================
