---------------------------- MODULE ChatDelivery ----------------------------
(***************************************************************************)
(* What the chat service promises, without maps, links, buffers or zones:  *)
(* a line is sent once; each of its recipients sees it at most once; a     *)
(* tell is either seen or reported back to its sender, never both, and one *)
(* of the two happens in the end. Party lines are best effort.             *)
(***************************************************************************)
EXTENDS Naturals

CONSTANTS Chars, Tells, Groups, Recipient

Lines == Tells \cup Groups

VARIABLES
    sent,       \* lines that were sent
    answers,    \* how often a recipient saw a line, or its sender was told
    failed      \* tells reported as not received

vars == <<sent, answers, failed>>

Init ==
    /\ sent = {} /\ failed = {}
    /\ answers = [l \in Lines |-> [c \in Chars |-> 0]]

Submit(l) ==
    /\ l \notin sent
    /\ sent' = sent \cup {l}
    /\ UNCHANGED <<answers, failed>>

(* The copies of l for cs are settled; they were not before.               *)
Settled(l, cs) ==
    [c \in Chars |-> IF c \in cs THEN 1 ELSE answers[l][c]]

Open(l, c) == l \in sent /\ answers[l][c] = 0

(* Some recipients see the line (or refuse it).                            *)
Show(l, cs) ==
    /\ \A c \in cs : Open(l, c)
    /\ answers' = [answers EXCEPT ![l] = Settled(l, cs)]
    /\ UNCHANGED <<sent, failed>>

(* The senders of some tells are told that they were not received.         *)
Report(T) ==
    /\ \A t \in T : Open(t, Recipient[t])
    /\ answers' = [l \in Lines |-> IF l \in T THEN Settled(l, {Recipient[l]}) ELSE answers[l]]
    /\ failed' = failed \cup T
    /\ UNCHANGED sent

Next ==
    \/ \E l \in Lines : Submit(l)
    \/ \E l \in Lines : \E cs \in SUBSET Chars : Show(l, cs)
    \/ \E T \in SUBSET Tells : Report(T)

(* Somebody settles tell t.                                                *)
Resolve(t) ==
    \/ Show(t, {Recipient[t]})
    \/ \E T \in SUBSET Tells : t \in T /\ Report(T)

Spec == Init /\ [][Next]_vars
FairSpec == Spec /\ \A t \in Tells : WF_vars(Resolve(t))
=============================================================================
