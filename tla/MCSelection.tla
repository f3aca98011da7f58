---------------------------- MODULE MCSelection ----------------------------
(***************************************************************************)
(* Instances of Selection for TLC: two people, one of them with two        *)
(* addresses, and calls with each address.                                 *)
(***************************************************************************)
EXTENDS SelectionProperties

CONSTANTS i1, i2, m1, m2, m3, c1, c2, c3

MCIndividual == {i1, i2}
MCContactMethod == {m1, m2, m3}
MCIndividualOf == [m \in MCContactMethod |-> IF m = m3 THEN i2 ELSE i1]
MCCall == {c1, c2, c3}
MCAutoAnswered == {c2}
MCPeerOf == [c \in MCCall |-> CASE c = c1 -> m1 [] c = c2 -> m2 [] OTHER -> m3]
=============================================================================
