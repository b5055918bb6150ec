---------------------------- MODULE RangeServer ----------------------------
(***************************************************************************)
(* The BeaconBlocksByRange RPC handler (beaconBlocksByRangeRPCHandler in   *)
(* beacon-chain/sync/rpc_beacon_blocks_by_range.go). One handler runs per  *)
(* inbound stream. It validates the request, then serves the requested    *)
(* slots in batches of at most BLOCK_BATCH_LIMIT slots, one batch per      *)
(* ticker tick: each batch is checked against the peer's leaky bucket,     *)
(* read from the block store (genesis prepended for slot 0), deduplicated, *)
(* sorted by (slot, root), filtered block by block to canonical, on-step  *)
(* and (for step 1) linear blocks, written as success chunks, and debited *)
(* from the bucket. The handler closes the stream when it returns.        *)
(*                                                                         *)
(* Blocks are records [root, slot, parent]; roots are naturals and         *)
(* ZeroRoot stands for the all-zero [32]byte.                               *)
(***************************************************************************)
EXTENDS Integers, Sequences, FiniteSets

CONSTANTS
  Streams,             \* inbound streams (one handler goroutine each)
  Peers,               \* remote peers
  PeerOf,              \* Streams -> Peers: the peer at the other end
  Blocks,              \* the blocks in the local store
  ZeroRoot,            \* the zero root [32]byte{}
  BLOCK_BATCH_LIMIT,   \* flags.BlockBatchLimit: slots per batch and per tick
  RANGE_LIMIT,         \* rangeLimit
  MAX_REQUEST_BLOCKS,  \* params.BeaconNetworkConfig().MaxRequestBlocks
  CURRENT_SLOT,        \* s.chain.CurrentSlot()
  CAPACITY             \* the bucket capacity of the topic collector

VARIABLES
  head,       \* the fork choice head; IsCanonical reads it at each call
  bucket,     \* Peers -> remaining capacity in the topic's leaky bucket
  req,        \* Streams -> the BeaconBlocksByRangeRequest on the stream
  srv,        \* Streams -> the handler's local state
  chunks,     \* Streams -> the chunks written to the stream so far
  closed,     \* Streams -> whether the handler has closed the stream
  penalties,  \* Peers -> BadResponsesScorer increments
  served,     \* Peers -> blocks streamed to the peer (history)
  reset       \* Streams -> the stream was reset by a disconnect

Bucket == INSTANCE LeakyBucket

Requests == [start : Nat, step : Nat, count : Nat]

GenesisBlock == CHOOSE b \in Blocks : b.slot = 0

StoreRoots == {b.root : b \in Blocks}

BlockOf(r) == CHOOSE b \in Blocks : b.root = r

(* IsCanonical: the root is on the chain from the fork choice head back to *)
(* genesis.                                                                *)
RECURSIVE ChainRoots(_)
ChainRoots(r) ==
  IF r \in StoreRoots THEN {r} \cup ChainRoots(BlockOf(r).parent) ELSE {}

IsCanonical(r) == r \in ChainRoots(head)

(* validateRangeRequest *)
ValidRangeRequest(r) ==
  /\ r.count # 0 /\ r.count <= MAX_REQUEST_BLOCKS
  /\ r.step # 0 /\ r.step <= RANGE_LIMIT
  /\ r.start <= CURRENT_SLOT + 2 * RANGE_LIMIT
  /\ r.step * (r.count - 1) <= RANGE_LIMIT

(* sortBlocksAndRoots: by slot, ties broken by root. *)
SlotRootLess(a, b) == a.slot < b.slot \/ (a.slot = b.slot /\ a.root < b.root)

SortBySlotRoot(S) ==
  [i \in 1..Cardinality(S) |->
     CHOOSE b \in S : Cardinality({c \in S : SlotRootLess(c, b)}) = i - 1]

(* s.db.Blocks with the start/end/step filter, the genesis block prepended *)
(* when the batch starts at slot 0, then dedupBlocksAndRoots (a set keeps  *)
(* one copy of each root) and sortBlocksAndRoots.                          *)
BatchCandidates(start, end, step) ==
  LET fromDb == {b \in Blocks : /\ start <= b.slot /\ b.slot <= end
                                /\ (b.slot - start) % step = 0}
  IN  SortBySlotRoot(IF start = 0 THEN fromDb \cup {GenesisBlock} ELSE fromDb)

SuccessChunk(b, batch) == [code |-> "success", blk |-> b, batch |-> batch]
ErrorChunk(code) == [code |-> code]

HandlerInit ==
  [pc |-> "recv", start |-> 0, end |-> 0, endReq |-> 0, prevRoot |-> ZeroRoot,
   pending |-> <<>>, kept |-> <<>>, localPrev |-> ZeroRoot,
   invalidParent |-> FALSE]

(* A mutant of Return: the deferred stream.Close() is missing. *)
ReturnWithoutClose(s) == UNCHANGED closed

(* The handler returns: its deferred stream.Close() runs (EOF to the peer).*)
Return(s) == closed' = [closed EXCEPT ![s] = TRUE]

(* Write the last chunks and return. *)
Close(s, extra) ==
  /\ chunks' = [chunks EXCEPT ![s] = @ \o extra]
  /\ Return(s)
  /\ srv' = [srv EXCEPT ![s].pc = "done"]

Penalize(s) == penalties' = [penalties EXCEPT ![PeerOf[s]] = @ + 1]

-----------------------------------------------------------------------------
(* An invalid request: INVALID_REQUEST chunk, peer penalized, stream closed.*)
RejectRequest(s) ==
  /\ srv[s].pc = "recv"
  /\ ~ValidRangeRequest(req[s])
  /\ Close(s, <<ErrorChunk("invalidRequest")>>)
  /\ Penalize(s)
  /\ UNCHANGED <<head, bucket, req, served>>

(* A valid request: the first batch is [start, start + step*(count-1)] with *)
(* count capped at BLOCK_BATCH_LIMIT; endReq is the last requested slot.   *)
AcceptRequest(s) ==
  LET r     == req[s]
      count == IF r.count > BLOCK_BATCH_LIMIT THEN BLOCK_BATCH_LIMIT ELSE r.count
  IN  /\ srv[s].pc = "recv"
      /\ ValidRangeRequest(r)
      /\ srv' = [srv EXCEPT ![s] = [@ EXCEPT !.pc = "batch", !.start = r.start,
                   !.end = r.start + r.step * (count - 1),
                   !.endReq = r.start + r.step * (r.count - 1),
                   !.prevRoot = ZeroRoot]]
      /\ UNCHANGED <<head, bucket, req, chunks, closed, penalties, served>>

(* rateLimiter.validateRequest fails: remaining < BLOCK_BATCH_LIMIT. The   *)
(* limiter penalizes the peer and writes RATE_LIMITED; the handler returns.*)
RateLimited(s) ==
  /\ srv[s].pc = "batch"
  /\ ~Bucket!Validate(bucket, PeerOf[s], BLOCK_BATCH_LIMIT)
  /\ Close(s, <<ErrorChunk("rateLimited")>>)
  /\ Penalize(s)
  /\ UNCHANGED <<head, bucket, req, served>>

(* The batch passes the limiter and is read from the store. The code's    *)
(* end-start > rangeLimit check before the read cannot fail once the      *)
(* request is valid; it is kept as a guard. filterBlocks starts from the  *)
(* handler's prevRoot.                                                     *)
ReadBatch(s) ==
  /\ srv[s].pc = "batch"
  /\ Bucket!Validate(bucket, PeerOf[s], BLOCK_BATCH_LIMIT)
  /\ srv[s].end - srv[s].start <= RANGE_LIMIT
  /\ srv' = [srv EXCEPT ![s] = [@ EXCEPT !.pc = "filter",
               !.pending = BatchCandidates(srv[s].start, srv[s].end, req[s].step),
               !.kept = <<>>, !.localPrev = srv[s].prevRoot, !.invalidParent = FALSE]]
  /\ UNCHANGED <<head, bucket, req, chunks, closed, penalties, served>>

(* s.db.Blocks, GenesisBlock or dedup fails: SERVER_ERROR and return.     *)
StoreError(s) ==
  /\ srv[s].pc = "batch"
  /\ Bucket!Validate(bucket, PeerOf[s], BLOCK_BATCH_LIMIT)
  /\ Close(s, <<ErrorChunk("serverError")>>)
  /\ UNCHANGED <<head, bucket, req, penalties, served>>

(* filterBlocks, one loop iteration per step: the block's canonicity is   *)
(* read from the fork choice at the moment of the call.                    *)
Selected(s, b) ==
  /\ (b.slot - srv[s].start) % req[s].step = 0
  /\ IsCanonical(b.root)

(* A mutant of BreaksLinearity: the parent check is dropped. *)
NeverBreaks(s, b) == FALSE

BreaksLinearity(s, b) ==
  /\ srv[s].localPrev # ZeroRoot
  /\ req[s].step = 1
  /\ srv[s].localPrev # b.parent

FilterStep(s) ==
  /\ srv[s].pc = "filter"
  /\ ~srv[s].invalidParent
  /\ srv[s].pending # <<>>
  /\ LET b == Head(srv[s].pending) IN
       srv' = [srv EXCEPT ![s] =
         CASE Selected(s, b) /\ BreaksLinearity(s, b) ->
                [@ EXCEPT !.invalidParent = TRUE]
           [] Selected(s, b) ->
                [@ EXCEPT !.kept = Append(@, b), !.localPrev = b.root,
                          !.pending = Tail(@)]
           [] OTHER -> [@ EXCEPT !.pending = Tail(@)]]
  /\ UNCHANGED <<head, bucket, req, chunks, closed, penalties, served>>

(* A mutant of BatchCost: the +1 for the first slot is lost. *)
BatchCostShort(s) == (srv[s].end - srv[s].start) \div req[s].step

(* Capacity the handler debits for the batch: 1 + (end - start)/step.     *)
BatchCost(s) == 1 + (srv[s].end - srv[s].start) \div req[s].step

(* A mutant of NextStart: the step is not added. *)
NextStartNoStep(s) == srv[s].end

NextStart(s) == srv[s].end + req[s].step

NextEnd(s) ==
  LET e == NextStart(s) + req[s].step * (BLOCK_BATCH_LIMIT - 1)
  IN  IF e > srv[s].endReq THEN srv[s].endReq ELSE e

(* The filter is done (or stopped at a non-linear block): the kept blocks *)
(* are written as chunks, the bucket is debited, then the handler stops   *)
(* on INVALID_PARENT or past endReq, or goes on with the next batch after *)
(* the ticker fires.                                                       *)
WriteBatch(s) ==
  LET k    == srv[s].kept
      stop == srv[s].invalidParent \/ NextStart(s) > srv[s].endReq
  IN  /\ srv[s].pc = "filter"
      /\ srv[s].pending = <<>> \/ srv[s].invalidParent
      /\ chunks' = [chunks EXCEPT ![s] =
                      @ \o [i \in 1..Len(k) |-> SuccessChunk(k[i], srv[s].start)]]
      /\ bucket' = Bucket!Add(bucket, PeerOf[s], BatchCost(s))
      /\ served' = [served EXCEPT ![PeerOf[s]] = @ + Len(k)]
      /\ IF stop THEN Return(s) ELSE UNCHANGED closed
      /\ srv' = [srv EXCEPT ![s] = [@ EXCEPT !.pc = IF stop THEN "done" ELSE "batch",
                   !.start = NextStart(s), !.end = NextEnd(s)]]
      /\ UNCHANGED <<head, req, penalties>>

(* The peer was disconnected under the handler: a chunk write fails after *)
(* the first n kept blocks went out (writes are buffered until the reset  *)
(* reaches the stream), the SERVER_ERROR chunk is lost with the stream,   *)
(* and the handler returns the write error before the debit.              *)
WriteFails(s) ==
  LET k == srv[s].kept IN
  /\ srv[s].pc = "filter"
  /\ srv[s].pending = <<>> \/ srv[s].invalidParent
  /\ reset[s]
  /\ k # <<>>
  /\ \E n \in 0..Len(k) - 1 :
       /\ chunks' = [chunks EXCEPT ![s] =
                       @ \o [i \in 1..n |-> SuccessChunk(k[i], srv[s].start)]]
       /\ served' = [served EXCEPT ![PeerOf[s]] = @ + n]
  /\ Return(s)
  /\ srv' = [srv EXCEPT ![s].pc = "done"]
  /\ UNCHANGED <<head, bucket, req, penalties>>

Next(s) ==
  \/ RejectRequest(s) \/ AcceptRequest(s)
  \/ RateLimited(s) \/ ReadBatch(s) \/ StoreError(s)
  \/ FilterStep(s) \/ WriteBatch(s) \/ WriteFails(s)
=============================================================================
