---------------------------- MODULE MCRviAplic ----------------------------
(* Boot configurations of RviAplic for TLC. *)
EXTENDS RviAplic

(* Edge and level sources side by side, with equal and different numbers. *)
MixedBoots ==
  {[mode |-> [irq \in Irqs |-> IF irq \in lev THEN LEVELLOW ELSE EDGERISING],
    target |-> [irq \in Irqs |-> IF irq \in low THEN 1 ELSE 2]] :
      lev \in SUBSET Wired, low \in SUBSET Wired}

(* Inactive, and one mode of each kind: edge and inverted level. *)
SomeModes == {INACTIVE, EDGERISING, LEVELLOW}
=============================================================================
