------------------------------ MODULE Counting ------------------------------
(***************************************************************************)
(* The sum of a function over a finite set, counted unit by unit: the      *)
(* size of the set that has a pair <<x, n>> for every n in 1..f[x]. It is  *)
(* what SumFunctionOnSet computes with a fold, in a form whose laws can be *)
(* proved from those of Cardinality.                                       *)
(***************************************************************************)
EXTENDS Naturals, FiniteSets

Units(f, S) == UNION {{x} \X (1..f[x]) : x \in S}
Tally(f, S) == Cardinality(Units(f, S))
=============================================================================
