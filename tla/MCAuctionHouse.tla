--------------------------- MODULE MCAuctionHouse ---------------------------
(* Both characters sell and buy; g is rare, h is not.                      *)
EXTENDS AuctionHouse, FiniteSetsExt
CONSTANTS a, b, g, h
OwnedBy == [c \in Chars |-> [x \in Goods |-> IF x = h /\ c = b THEN 0 ELSE 1]]
PurseOf == [c \in Chars |-> 2]

(* Tally is the sum.                                                       *)
ASSUME \A f \in [1..3 -> 0..3] : \A S \in SUBSET (1..3) : Tally(f, S) = SumFunctionOnSet(f, S)
============================================================================
