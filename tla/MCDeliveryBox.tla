--------------------------- MODULE MCDeliveryBox ---------------------------
(* Two characters; x1 and x2 differ in their extra data only.              *)
EXTENDS DeliveryBox
CONSTANTS a, b, x1, x2, y
KindOf == [i \in Items |-> IF i = x2 THEN x1 ELSE i]
Together == [c \in Chars |-> [i \in Items |-> IF c = a THEN 1 ELSE 0]]
NoStock  == [i \in Items |-> 0]
OnlyX1   == [c \in Chars |-> [i \in Items |-> IF c = a /\ i = x1 THEN 1 ELSE 0]]
OnlyX2   == [i \in Items |-> IF i = x2 THEN 1 ELSE 0]

(* Where every character's window is spoilt nothing but types is claimed.  *)
SomeoneIsSound == raced \cup strayed # Chars
============================================================================
