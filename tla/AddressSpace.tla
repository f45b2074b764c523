---------------------------- MODULE AddressSpace ----------------------------
(***************************************************************************)
(* What the page tables promise their users: an operation maps pages of    *)
(* one block, which were free, to frames that nothing else is mapped to,   *)
(* or unmaps pages of one block, and touches no other page.                *)
(***************************************************************************)
EXTENDS Naturals

CONSTANTS Page, Frame, Block   \* Block: the sets of pages with one user

VARIABLE space                 \* page -> frame, 0 for an unmapped page

Mapped == {p \in Page : space[p] # 0}

Init == space \in [Page -> Frame \cup {0}]

Map(S) ==
    /\ S \cap Mapped = {}
    /\ \A p \in S : space'[p] \in Frame /\ \A q \in Page \ {p} : space'[q] # space'[p]
    /\ \A p \in Page \ S : space'[p] = space[p]

Unmap(S) == S \subseteq Mapped /\ space' = [p \in Page |-> IF p \in S THEN 0 ELSE space[p]]

Changed == {p \in Page : space'[p] # space[p]}
Next ==
    /\ space' \in [Page -> Frame \cup {0}]
    /\ \E B \in Block : Changed \subseteq B
    /\ Map(Changed) \/ Unmap(Changed)

Spec == Init /\ [][Next]_space
=============================================================================
