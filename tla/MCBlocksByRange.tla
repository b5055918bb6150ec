-------------------------- MODULE MCBlocksByRange --------------------------
(***************************************************************************)
(* Model values for BlocksByRange. The store holds genesis and a canonical *)
(* chain A (slots 1..4) plus a fork B leaving A after slot 1 (slots 2..4).*)
(* Roots order A's blocks before B's at the same slot, so sorting puts    *)
(* the A block first. The fork choice head is A's tip or B's tip.          *)
(* BLOCK_BATCH_LIMIT 2 makes a four-slot request take two batches.         *)
(***************************************************************************)
EXTENDS BlocksByRange

Blk(r, s, p) == [root |-> r, slot |-> s, parent |-> p]

MCBlocks ==
  { Blk(1, 0, 0),                                  \* genesis
    Blk(2, 1, 1), Blk(3, 2, 2), Blk(4, 3, 3), Blk(5, 4, 4),  \* chain A
    Blk(6, 2, 2), Blk(7, 3, 6), Blk(8, 4, 7) }     \* fork B from slot 2

MCHeads == {5, 8}

Req(st, sp, c) == [start |-> st, step |-> sp, count |-> c]

(* Valid requests of one and two batches, steps 1 and 2, from genesis and *)
(* from slot 1; and one request per rejection rule.                       *)
MCRequests ==
  { Req(1, 1, 4), Req(0, 1, 3), Req(1, 2, 2), Req(0, 2, 3), Req(2, 1, 1),
    Req(1, 1, 0), Req(1, 0, 2), Req(1, 1, 5), Req(11, 1, 1), Req(1, 3, 3),
    Req(13, 1, 1), Req(1, 5, 1) }

(* A smaller request set for the runs with concurrent streams. *)
MCRequestsSmall == { Req(1, 1, 4), Req(1, 2, 2) }

MCPeerOneStream == [s \in {"s1"} |-> "p1"]
MCPeerTwoStreams == [s \in {"s1", "s2"} |-> "p1"]
=============================================================================
