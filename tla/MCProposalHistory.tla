------------------------- MODULE MCProposalHistory -------------------------
(* Two validator keys and two signing roots, slots over three epochs of  *)
(* two slots with a weak subjectivity period of one epoch, so a save can  *)
(* prune, skip pruning, and re-fill a pruned slot within four saves.      *)
EXTENDS ProposalHistory, TLC

CONSTANTS k1, k2, r1, r2

MCPubKeys == {k1, k2}
MCRoots == {r1, r2}
MCSlots == 0..5

MCSymmetry == Permutations(MCPubKeys) \cup Permutations(MCRoots)
=============================================================================
