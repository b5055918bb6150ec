--------------------------- MODULE MCInitialSync ---------------------------
(***************************************************************************)
(* Initial sync over a small chain. Genesis 1 (slot 0) is stored; peers  *)
(* serve the canonical chain 2, 3, 4, 5 (slots 1..4), a fork block 6 at   *)
(* slot 2 on 2, and a block 7 at slot 3 on 3 that fails the state        *)
(* transition. With two slots per epoch and the clock at slot 4 the node *)
(* is two epochs behind, so Start has to run the round robin.           *)
(***************************************************************************)
EXTENDS InitialSync

Blk(r, p, s, ok) == [root |-> r, parent |-> p, slot |-> s, valid |-> ok]

MCBlocks ==
  { Blk(1, 0, 0, TRUE), Blk(2, 1, 1, TRUE), Blk(3, 2, 2, TRUE),
    Blk(4, 3, 3, TRUE), Blk(5, 4, 4, TRUE), Blk(6, 2, 2, TRUE),
    Blk(7, 3, 3, FALSE) }

(* The responses the range client accepts for a request of two slots      *)
(* starting at 1, 2 or 3: blocks of strictly increasing slots in range.    *)
Window(s) == {b \in MCBlocks : s <= b.slot /\ b.slot <= s + 1}

MCBatches ==
  UNION { { <<b>> : b \in Window(s) } \cup
          { <<a, b>> : a \in {x \in Window(s) : x.slot = s},
                       b \in {y \in Window(s) : y.slot = s + 1} }
        : s \in 1..3 }
=============================================================================
