--------------------------- MODULE BlocksByRange ---------------------------
(***************************************************************************)
(* A peer's BeaconBlocksByRange calls against this node: the handler       *)
(* (RangeServer) and the requesting client (RangeClient) joined by the    *)
(* stream they share, with the environment the handler depends on: the    *)
(* fork choice moving its head (a reorg) while a response is streamed,    *)
(* and the leaky bucket draining with time. Each stream slot carries one  *)
(* request at a time; when a call has returned the peer may send another *)
(* request on a fresh stream, up to MAX_REQUESTS per slot. This node's     *)
(* goodbyes (Goodbye) share the peer and the scorer's penalties with the  *)
(* range handler: the bad-peer check and the connection handler disconnect*)
(* the peer, which resets its streams under the handler and the client.   *)
(***************************************************************************)
EXTENDS Integers, Sequences, FiniteSets

CONSTANTS
  Streams, Peers, PeerOf, Blocks, ZeroRoot,
  BLOCK_BATCH_LIMIT, RANGE_LIMIT, MAX_REQUEST_BLOCKS, CURRENT_SLOT, CAPACITY,
  Heads,          \* roots the fork choice may select as head
  RequestSet,     \* requests a peer may send (valid and invalid ones)
  MAX_REORGS,     \* bound on head changes
  MAX_LEAKS,      \* bound on bucket drain ticks per peer
  MAX_REQUESTS,   \* bound on requests per stream slot
  GenericError, BadScore, BAD_THRESHOLD

VARIABLES head, bucket, req, srv, chunks, closed, penalties, served,
          cli, leaked, reorgs, requests,
          connected, told, reset

byevars == <<connected, told>>

vars == <<head, bucket, req, srv, chunks, closed, penalties, served,
          cli, leaked, reorgs, requests, byevars, reset>>

Server == INSTANCE RangeServer
Client == INSTANCE RangeClient
Bye == INSTANCE Goodbye

\* The beacon API block endpoints read the same store and fork choice head;
\* before the first finalization the chain service reports the genesis
\* root or the zero root as the finalized checkpoint.
V1 == INSTANCE BeaconV1
        WITH chain <- Server!ChainRoots(head),
             FinalizedRoots <- {ZeroRoot, Server!GenesisBlock.root}

ASSUME /\ Heads \subseteq Server!StoreRoots
       /\ RequestSet \subseteq Server!Requests
       /\ PeerOf \in [Streams -> Peers]

-----------------------------------------------------------------------------
Init ==
  /\ head \in Heads
  /\ bucket = [p \in Peers |-> CAPACITY]
  /\ req \in [Streams -> RequestSet]
  /\ srv = [s \in Streams |-> Server!HandlerInit]
  /\ chunks = [s \in Streams |-> <<>>]
  /\ closed = [s \in Streams |-> FALSE]
  /\ penalties = [p \in Peers |-> 0]
  /\ served = [p \in Peers |-> 0]
  /\ cli = [s \in Streams |-> Client!ClientInit]
  /\ leaked = [p \in Peers |-> 0]
  /\ reorgs = 0
  /\ requests = [s \in Streams |-> 1]
  /\ connected = [p \in Peers |-> TRUE]
  /\ told = [p \in Peers |-> "none"]
  /\ reset = [s \in Streams |-> FALSE]

(* The fork choice selects another head (updateCanonicalNodes). *)
Reorg ==
  /\ reorgs < MAX_REORGS
  /\ \E h \in Heads \ {head} : head' = h
  /\ reorgs' = reorgs + 1
  /\ UNCHANGED <<bucket, req, srv, chunks, closed, penalties, served,
                 cli, leaked, requests, byevars, reset>>

(* A clock tick: the peer's bucket drains by one unit; leaked counts the  *)
(* capacity the drain actually gave back.                                  *)
Leak(p) ==
  /\ leaked[p] < MAX_LEAKS
  /\ bucket' = Server!Bucket!Leak(bucket, p)
  /\ leaked' = [leaked EXCEPT ![p] = @ + (bucket'[p] - bucket[p])]
  /\ UNCHANGED <<head, req, srv, chunks, closed, penalties, served,
                 cli, reorgs, requests, connected, told, reset>>

(* The previous call on this slot has returned and its stream is closed;  *)
(* the peer, still connected, opens a new stream with a new request.      *)
NewRequest(s) ==
  /\ cli[s].status # "reading"
  /\ closed[s]
  /\ connected[PeerOf[s]]
  /\ requests[s] < MAX_REQUESTS
  /\ \E r \in RequestSet : req' = [req EXCEPT ![s] = r]
  /\ requests' = [requests EXCEPT ![s] = @ + 1]
  /\ srv' = [srv EXCEPT ![s] = Server!HandlerInit]
  /\ chunks' = [chunks EXCEPT ![s] = <<>>]
  /\ closed' = [closed EXCEPT ![s] = FALSE]
  /\ cli' = [cli EXCEPT ![s] = Client!ClientInit]
  /\ UNCHANGED <<head, bucket, penalties, served, leaked, reorgs, byevars, reset>>

ServerStep(s) ==
  /\ Server!Next(s)
  /\ UNCHANGED <<cli, leaked, reorgs, requests, byevars, reset>>

ClientStep(s) ==
  /\ Client!Next(s)
  /\ UNCHANGED <<head, bucket, srv, penalties, served, leaked, reorgs, requests,
                 byevars, reset>>

(* The bad-peer check and the connection handler act on the peer; the    *)
(* range streams are only reset by them.                                   *)
ByeUnchanged ==
  UNCHANGED <<head, bucket, req, srv, chunks, closed, served, cli, leaked,
              reorgs, requests>>

GoodbyeStep(p) ==
  /\ Bye!DisconnectBadPeer(p) \/ Bye!SendGoodbye(p)
  /\ ByeUnchanged

Next ==
  \/ \E s \in Streams : ServerStep(s) \/ ClientStep(s) \/ NewRequest(s)
  \/ Reorg
  \/ \E p \in Peers : Leak(p) \/ GoodbyeStep(p)

(* Every handler runs in its own goroutine and the ticker keeps firing, so *)
(* a handler and a reading client that can move eventually do. Reorgs,  *)
(* drains, new requests, the check of bad peers (disconnectBadPeer has no *)
(* caller in the repository) and the connection handler's rejections come *)
(* from outside and are not forced.                                        *)
Spec ==
  Init /\ [][Next]_vars
       /\ \A s \in Streams : WF_vars(ServerStep(s)) /\ WF_vars(ClientStep(s))

-----------------------------------------------------------------------------
Chunks ==
  [code : {"success"}, blk : Blocks, batch : Nat] \cup
  [code : {"invalidRequest", "rateLimited", "serverError"}]

TypeOK ==
  /\ head \in Heads
  /\ bucket \in [Peers -> 0..CAPACITY]
  /\ req \in [Streams -> RequestSet]
  /\ srv \in [Streams -> [pc : {"recv", "batch", "filter", "done"},
                          start : Nat, end : Nat, endReq : Nat,
                          prevRoot : {ZeroRoot} \cup Server!StoreRoots,
                          pending : Seq(Blocks), kept : Seq(Blocks),
                          localPrev : {ZeroRoot} \cup Server!StoreRoots,
                          invalidParent : BOOLEAN]]
  /\ chunks \in [Streams -> Seq(Chunks)]
  /\ closed \in [Streams -> BOOLEAN]
  /\ cli \in [Streams -> [status : {"reading", "ok", "invalid", "failed"},
                          prevSlot : Nat, blocks : Seq(Blocks)]]
  /\ connected \in [Peers -> BOOLEAN]
  /\ told \in [Peers -> {"none", GenericError, BadScore}]
  /\ reset \in [Streams -> BOOLEAN]

(* The client accepts every response this node's handler produces: no     *)
(* call that reads from RangeServer fails with ErrInvalidFetchedData,     *)
(* whatever the batching, the genesis prepend, the filtering and the      *)
(* reorgs in between did to the stream.                                    *)
ResponseConforms == \A s \in Streams : cli[s].status # "invalid"

(* Spec section 8 for a fork choice that has not moved: as long as no     *)
(* reorg has happened, every response the client has read, one or two     *)
(* requests of every step and start (genesis prepend included), is        *)
(* accepted. The same behaviours continue with reorgs for the other       *)
(* properties of the run.                                                  *)
StableResponseConforms == reorgs = 0 => ResponseConforms

(* The rate limiter does its job: the blocks streamed to a peer never     *)
(* exceed the bucket capacity plus what the bucket has drained since.     *)
RateLimitHonoured == \A p \in Peers : served[p] <= CAPACITY + leaked[p]

(* The limiter's guarantee for one stream while the fork choice has not   *)
(* moved. A reorg inside a step-2 batch lets filterBlocks keep two blocks *)
(* of one slot, one more than the batch's debit 1+(end-start)/step, which *)
(* is why this is claimed of reorg-free behaviours only.                  *)
StableRateLimitHonoured == reorgs = 0 => RateLimitHonoured

(* Linear chain, per batch: for step 1, two consecutive blocks the client *)
(* received from the same batch are parent and child, even when the fork  *)
(* choice moved between the handler's IsCanonical calls.                  *)
LinearWithinBatch ==
  \A s \in Streams :
    LET c == chunks[s] IN
    req[s].step = 1 =>
      \A i \in 1..Len(c) - 1 :
        (c[i].code = "success" /\ c[i + 1].code = "success"
           /\ c[i].batch = c[i + 1].batch)
          => c[i + 1].blk.parent = c[i].blk.root

(* Linear chain, whole response (spec section 8): for step 1, every two   *)
(* consecutive blocks the client accepted are parent and child.           *)
LinearResponse ==
  \A s \in Streams :
    LET b == cli[s].blocks IN
    req[s].step = 1 =>
      \A i \in 1..Len(b) - 1 : b[i + 1].parent = b[i].root

(* The beacon API's block endpoints, in every state of the store and the *)
(* fork choice: GetBlockRoot and GetBlock agree on every block ID, and a  *)
(* slot ID resolves to the slot's canonical block (BeaconV1).             *)
BlockIdsAgree == V1!BlockIdsAgree
CanonicalBySlot == V1!CanonicalBySlot

(* Every call returns: a reading client eventually sees EOF or an error,  *)
(* also when the peer is disconnected in the middle of a batch.           *)
CallsReturn ==
  \A s \in Streams : cli[s].status = "reading" ~> cli[s].status # "reading"
=============================================================================
