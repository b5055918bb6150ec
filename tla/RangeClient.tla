---------------------------- MODULE RangeClient ----------------------------
(***************************************************************************)
(* The requesting side of BeaconBlocksByRange (SendBeaconBlocksByRange-    *)
(* Request in beacon-chain/sync/rpc_send_request.go). It reads chunks off  *)
(* the stream until EOF and rejects the whole response with               *)
(* ErrInvalidFetchedData as soon as one block breaks the response rules:  *)
(* at most count (and MAX_REQUEST_BLOCKS) blocks, every slot in           *)
(* [start, start + count*step), slots strictly increasing in multiples of *)
(* step. An error chunk ends the call with that error.                    *)
(***************************************************************************)
EXTENDS Integers, Sequences

CONSTANTS Streams, MAX_REQUEST_BLOCKS

VARIABLES
  req,     \* Streams -> the request sent on the stream
  chunks,  \* Streams -> chunks written by the remote handler
  closed,  \* Streams -> the remote closed its write side (EOF)
  cli,     \* Streams -> [status, prevSlot, blocks]: the caller's loop state
  reset    \* Streams -> the stream was reset (the peer was disconnected)

ClientInit == [status |-> "reading", prevSlot |-> 0, blocks |-> <<>>]

(* The checks of the read loop for the i-th chunk (i counts from 0). *)
Violates(r, i, prevSlot, blk) ==
  \/ i >= r.count \/ i >= MAX_REQUEST_BLOCKS
  \/ blk.slot < r.start \/ blk.slot >= r.start + r.count * r.step
  \/ i > 0 /\ (prevSlot >= blk.slot \/ (blk.slot - prevSlot) % r.step # 0)

(* The next chunk carries a block. Chunks are read in order; the loop      *)
(* index i equals the number of blocks accepted so far.                   *)
ReadBlock(s) ==
  LET i == Len(cli[s].blocks)
      c == chunks[s][i + 1]
  IN  /\ cli[s].status = "reading"
      /\ i < Len(chunks[s])
      /\ c.code = "success"
      /\ cli' = [cli EXCEPT ![s] =
                   IF Violates(req[s], i, @.prevSlot, c.blk)
                   THEN [@ EXCEPT !.status = "invalid"]
                   ELSE [@ EXCEPT !.prevSlot = c.blk.slot,
                                  !.blocks = Append(@, c.blk)]]
      /\ UNCHANGED <<req, chunks, closed>>

(* ReadChunkedBlock returns the error of a non-success chunk. *)
ReadError(s) ==
  LET i == Len(cli[s].blocks) IN
  /\ cli[s].status = "reading"
  /\ i < Len(chunks[s])
  /\ chunks[s][i + 1].code # "success"
  /\ cli' = [cli EXCEPT ![s].status = "failed"]
  /\ UNCHANGED <<req, chunks, closed>>

(* io.EOF: all chunks read and the stream closed; the blocks are returned. *)
(* A reset stream never delivers EOF; chunks already buffered may still be *)
(* read before the reset error.                                            *)
ReadEOF(s) ==
  /\ cli[s].status = "reading"
  /\ Len(cli[s].blocks) = Len(chunks[s])
  /\ closed[s]
  /\ ~reset[s]
  /\ cli' = [cli EXCEPT ![s].status = "ok"]
  /\ UNCHANGED <<req, chunks, closed>>

(* The stream is reset under the call: ReadChunkedBlock returns the reset *)
(* error and the call fails.                                               *)
ReadReset(s) ==
  /\ cli[s].status = "reading"
  /\ reset[s]
  /\ cli' = [cli EXCEPT ![s].status = "failed"]
  /\ UNCHANGED <<req, chunks, closed>>

Next(s) == ReadBlock(s) \/ ReadError(s) \/ ReadEOF(s) \/ ReadReset(s)
=============================================================================
