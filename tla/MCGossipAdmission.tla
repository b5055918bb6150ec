------------------------- MODULE MCGossipAdmission -------------------------
(***************************************************************************)
(* Messages for checking GossipAdmission. Genesis (root 1, slot 0) is     *)
(* stored. b1 (slot 1) and its child b2 (slot 2) are valid; x (slot 1)    *)
(* has a bad signature and y (slot 2) is a valid block on top of x; z is   *)
(* a valid child of b1 from a future slot; j does not decode. The node    *)
(* also publishes b1 itself.                                               *)
(***************************************************************************)
EXTENDS GossipAdmission

Msg(r, p, s, i, ok) ==
  [root |-> r, parent |-> p, slot |-> s, proposer |-> i, decodes |-> TRUE,
   self |-> FALSE, descOK |-> TRUE, sigOK |-> ok, propOK |-> TRUE]

B1 == Msg(2, 1, 1, 1, TRUE)
B2 == Msg(3, 2, 2, 2, TRUE)
X  == Msg(4, 1, 1, 3, FALSE)
Y  == Msg(5, 4, 2, 4, TRUE)
Z  == Msg(6, 2, 3, 5, TRUE)
J  == [Msg(7, 1, 1, 6, TRUE) EXCEPT !.decodes = FALSE]
OwnB1 == [B1 EXCEPT !.self = TRUE]

(* Every path of the pipeline: valid chain in any order, an invalid block *)
(* and its descendant, a future slot, garbage, and the node's own copy.   *)
MCMsgOfAll ==
  [d \in {"d1", "d2", "d3", "d4", "d5", "d6", "d7"} |->
     CASE d = "d1" -> B1 [] d = "d2" -> B2 [] d = "d3" -> X [] d = "d4" -> Y
       [] d = "d5" -> Z  [] d = "d6" -> J  [] d = "d7" -> OwnB1]

(* A valid chain delivered in any order, and an invalid parent with a    *)
(* valid child.                                                            *)
MCMsgOfChain ==
  [d \in {"d1", "d2", "d3", "d4"} |->
     CASE d = "d1" -> B1 [] d = "d2" -> B2 [] d = "d3" -> X [] d = "d4" -> Y]

(* The same block delivered twice. *)
MCMsgOfDup == [d \in {"d1", "d2"} |-> B1]
=============================================================================
