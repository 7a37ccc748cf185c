---------------------------- MODULE ExactlyOnce -----------------------------
(***************************************************************************)
(* What the host relies on when it sends an external action to the         *)
(* accounting service: a key is delivered at most once, a delivery is      *)
(* never taken back, and a call told "ok" was delivered as it asked.       *)
(***************************************************************************)
CONSTANTS Keys, Digests, Outcomes

VARIABLES
  delivered,  \* the <<key, digest>> pairs with an effect
  told        \* what callers of each pair were told

vars == <<delivered, told>>

Pairs == Keys \X Digests

Init == delivered = {} /\ told = [p \in Pairs |-> {}]

Fresh(k) == \A p \in delivered : p[1] # k

Deliver ==
  \/ delivered' = delivered
  \/ \E p \in Pairs : Fresh(p[1]) /\ delivered' = delivered \cup {p}

Tell ==
  \/ told' = told
  \/ \E p \in Pairs, o \in Outcomes :
       /\ o = "ok" => p \in delivered
       /\ told' = [told EXCEPT ![p] = @ \cup {o}]

Next == Deliver /\ Tell

Spec == Init /\ [][Next]_vars
=============================================================================
