---------------------------- MODULE LeakyBucket ----------------------------
(***************************************************************************)
(* The per-peer leaky bucket behind the RPC rate limiter (spec 4.1). The   *)
(* collector itself is a library the repository does not contain, so its *)
(* operations are written from the spec. A bucket is a function from peers *)
(* to the capacity each peer has left.                                     *)
(***************************************************************************)
EXTENDS Integers

CONSTANT CAPACITY   \* BLOCKS_PER_SECOND * BURST_FACTOR in the node

\* remaining(peer): what the peer may still use before it is limited.
Remaining(bucket, p) == bucket[p]

\* validate(peer, cost): accepted iff remaining(peer) >= cost; no state change.
Validate(bucket, p, cost) == Remaining(bucket, p) >= cost

\* add(peer, n): debit n units, saturating at 0.
Add(bucket, p, n) == [bucket EXCEPT ![p] = IF @ >= n THEN @ - n ELSE 0]

\* A mutant of Leak: the drain is not capped at the capacity.
LeakUncapped(bucket, p) == [bucket EXCEPT ![p] = @ + 1]

\* The bucket drains one unit per clock tick, never above its capacity.
Leak(bucket, p) == [bucket EXCEPT ![p] = IF @ < CAPACITY THEN @ + 1 ELSE @]
=============================================================================
