---------------------------- MODULE InitialSync ----------------------------
(***************************************************************************)
(* The initial-sync service (beacon-chain/sync/initial-sync/service.go and *)
(* round_robin.go). NewService starts waitForStateInitialization, which   *)
(* subscribes to the state feed and hands the genesis time to Start over  *)
(* genesisChan (or a zero time when the service context is cancelled).    *)
(* Start then marks the node synced at once, or waits for enough peers    *)
(* and runs roundRobinSync: phase 1 feeds each batch of a blocks queue to *)
(* processBatchedBlocks and ReceiveBlockBatch, phase 2 feeds each block to *)
(* processBlock and ReceiveBlock; markSynced follows. Resync runs the same *)
(* round robin again later, with synced cleared until it returns. Stop   *)
(* cancels the service context.                                            *)
(*                                                                         *)
(* The blocks queue (blocks_queue.go) and the chain's receivers are not in *)
(* the repository: the queue hands out any batch of Batches, in non-       *)
(* decreasing start order, until it closes; the receiver stores a batch  *)
(* whose blocks are all valid and moves the fork-choice head to any tip.  *)
(***************************************************************************)
EXTENDS Integers, Sequences, FiniteSets

CONSTANTS
  Blocks,             \* records [root, parent, slot, valid]
  DbInit,             \* roots stored when the node starts (genesis first)
  FINALIZED_SLOT,     \* helpers.StartSlot(chain.FinalizedCheckpt().Epoch)
  SLOTS_PER_EPOCH,
  CURRENT_SLOT,       \* helpers.SlotsSince(genesis)
  DISABLE_SYNC,       \* flags.Get().DisableSync
  GENESIS_IN_FUTURE,  \* genesis.After(timeutils.Now())
  ENABLE_PEER_SCORER, \* featureconfig.Get().EnablePeerScorer
  Batches,            \* batches a blocks queue may hand out
  MIN_PEERS,          \* min(MaxPeersToSync, MinimumSyncPeers)
  MAX_PEERS,          \* bound on suitable peers
  MAX_BATCHES,        \* bound on batches per queue
  MAX_RESYNCS,        \* bound on Resync calls
  UINT64              \* 2^64, the range of a slot difference

Procs == {"start", "resync"}

VARIABLES
  pc,           \* Procs -> where Start and Resync are
  waiter,       \* the waitForStateInitialization goroutine
  published,    \* the chain has sent the Initialized event on the state feed
  inbox,        \* stateChannel holds the Initialized event
  synced,       \* s.synced
  chainStarted, \* s.chainStarted
  cancelled,    \* s.ctx is done (Stop)
  peers,        \* suitable peers BestNonFinalized reports
  db,           \* roots in the db or the chain's init-sync block cache
  head,         \* the fork-choice head root
  queued,       \* batches the running queue has handed out
  lastStart,    \* start slot of the queue's last batch
  credit,       \* BlockProviderScorer processed-blocks credit
  handed,       \* the last block sequence handed to a receiver
  handoffs,     \* sequences handed to a receiver so far
  resyncs       \* Resync calls so far

isvars == <<pc, waiter, published, inbox, synced, chainStarted, cancelled,
            peers, db, head, queued, lastStart, credit, handed, handoffs,
            resyncs>>

BlockOf(r) == CHOOSE b \in Blocks : b.root = r

HeadSlot == BlockOf(head).slot

SlotToEpoch(s) == s \div SLOTS_PER_EPOCH

RootsOf(blks) == {blks[i].root : i \in DOMAIN blks}

(* The fork choice may settle on any stored block without stored child. *)
Tips(S) == {r \in S : ~\E b \in Blocks : b.root \in S /\ b.parent = r}

-----------------------------------------------------------------------------
(* isProcessedBlock: at or before the finalized slot, or already stored. *)
IsProcessedBlock(b) == b.slot <= FINALIZED_SLOT \/ b.root \in db

(* A mutant of SkipProcessed: the head-slot test is strict, so the block *)
(* at the head's own slot is not dropped.                                  *)
RECURSIVE SkipProcessedStrict(_)
SkipProcessedStrict(blks) ==
  IF HeadSlot > blks[1].slot /\ IsProcessedBlock(blks[1])
  THEN IF Len(blks) = 1 THEN <<>> ELSE SkipProcessedStrict(Tail(blks))
  ELSE blks

(* The loop of processBatchedBlocks dropping processed blocks at the front *)
(* while the head is at or past them; <<>> is "no good blocks in batch".  *)
RECURSIVE SkipProcessed(_)
SkipProcessed(blks) ==
  IF HeadSlot >= blks[1].slot /\ IsProcessedBlock(blks[1])
  THEN IF Len(blks) = 1 THEN <<>> ELSE SkipProcessed(Tail(blks))
  ELSE blks

ParentKnown(b) == b.parent \in db

IsLinear(blks) == \A i \in 2..Len(blks) : blks[i].parent = blks[i - 1].root

(* processBatchedBlocks: the blocks handed to ReceiveBlockBatch, or <<>>  *)
(* when it returns an error first.                                         *)
ProcessBatchedBlocks(blks) ==
  IF blks = <<>> THEN <<>>
  ELSE LET rest == SkipProcessed(blks) IN
       IF rest = <<>> \/ ~ParentKnown(rest[1]) \/ ~IsLinear(rest) THEN <<>>
       ELSE rest

(* ReceiveBlockBatch: the whole batch is stored if every block is valid. *)
ReceiveBlockBatch(blks) ==
  IF \A i \in DOMAIN blks : blks[i].valid THEN db \cup RootsOf(blks) ELSE db

(* processFetchedDataRegSync: processBlock on each block in turn; a      *)
(* processed block or one with an unknown parent is skipped, ReceiveBlock *)
(* stores a valid one. Returns the store and the blocks handed over.     *)
RECURSIVE RegSync(_, _, _)
RegSync(blks, stored, given) ==
  IF blks = <<>> THEN [db |-> stored, given |-> given]
  ELSE LET b == Head(blks) IN
       IF b.slot <= FINALIZED_SLOT \/ b.root \in stored \/ b.parent \notin stored
       THEN RegSync(Tail(blks), stored, given)
       ELSE RegSync(Tail(blks),
                    IF b.valid THEN stored \cup {b.root} ELSE stored,
                    Append(given, b))

(* A mutant of Credit: the startSlot >= headSlot early return is missing, *)
(* so a head that moved back makes the uint64 difference wrap.           *)
CreditUnguarded(startSlot, newHeadSlot) ==
  IF ENABLE_PEER_SCORER THEN credit + ((newHeadSlot - startSlot) % UINT64)
  ELSE credit

(* updatePeerScorerStats: the peer is credited with the head's advance. *)
Credit(startSlot, newHeadSlot) ==
  IF ENABLE_PEER_SCORER /\ startSlot < newHeadSlot
  THEN credit + (newHeadSlot - startSlot) ELSE credit

(* A mutant of MarkSynced: the flag is not set. *)
MarkSyncedDropped == UNCHANGED synced

(* markSynced: synced is set (the Synced event is sent on the feed). *)
MarkSynced == synced' = TRUE

(* Syncing: initial sync is still running (what gossip validation asks). *)
Syncing == ~synced

(* The round robin of p returns: Start marks the node synced on success  *)
(* and returns quietly when its context was cancelled (the only error    *)
(* left once the queue is modelled); Resync's deferred Set always runs.  *)
RoundRobinReturns(p, ok) ==
  /\ pc' = [pc EXCEPT ![p] = IF p = "resync" THEN "idle"
                             ELSE IF ok THEN "done" ELSE "exited"]
  /\ IF p = "resync" \/ ok THEN MarkSynced ELSE UNCHANGED synced

(* A new blocks queue is started for a phase; once the service context is *)
(* done start fails (a stopped queue cannot be restarted).                *)
StartQueue(p, phase) ==
  IF cancelled THEN RoundRobinReturns(p, FALSE) /\ UNCHANGED <<queued, lastStart>>
  ELSE /\ pc' = [pc EXCEPT ![p] = phase]
       /\ queued' = 0 /\ lastStart' = 0
       /\ UNCHANGED synced

(* Blocks handed to ReceiveBlockBatch (batch) or ReceiveBlock, in order. *)
Handoff(batch, blks) ==
  /\ handed' = [batch |-> batch, blks |-> blks]
  /\ handoffs' = handoffs + 1

(* Fork choice after a receive: a new tip when the store grew. *)
NewHeads(stored) == IF stored = db THEN {head} ELSE Tips(stored)

-----------------------------------------------------------------------------
Init ==
  /\ pc = [p \in Procs |-> IF p = "start" THEN "waitGenesis" ELSE "idle"]
  /\ waiter = "subscribing"
  /\ published = FALSE
  /\ inbox = FALSE
  /\ synced = FALSE
  /\ chainStarted = FALSE
  /\ cancelled = FALSE
  /\ peers \in 0..MAX_PEERS
  /\ db = DbInit
  /\ head \in Tips(DbInit)
  /\ queued = 0
  /\ lastStart = 0
  /\ credit = 0
  /\ handed = [batch |-> TRUE, blks |-> <<>>]
  /\ handoffs = 0
  /\ resyncs = 0

(* waitForStateInitialization subscribes to the state feed. *)
Subscribe ==
  /\ waiter = "subscribing"
  /\ waiter' = "listening"
  /\ UNCHANGED <<pc, published, inbox, synced, chainStarted, cancelled, peers,
                 db, head, queued, lastStart, credit, handed, handoffs, resyncs>>

(* The chain sends Initialized once; only a current subscriber gets it. *)
PublishInitialized ==
  /\ ~published
  /\ published' = TRUE
  /\ inbox' = (waiter = "listening")
  /\ UNCHANGED <<pc, waiter, synced, chainStarted, cancelled, peers, db, head,
                 queued, lastStart, credit, handed, handoffs, resyncs>>

(* The select of waitForStateInitialization: the Initialized event, to be *)
(* passed on as the genesis time, or the done context, as a zero time.     *)
WaiterReceives ==
  /\ waiter = "listening"
  /\ \/ inbox /\ waiter' = "sendGenesis" /\ inbox' = FALSE
     \/ cancelled /\ waiter' = "sendZero" /\ UNCHANGED inbox
  /\ UNCHANGED <<pc, published, synced, chainStarted, cancelled, peers, db, head,
                 queued, lastStart, credit, handed, handoffs, resyncs>>

(* Start receives from genesisChan and takes its early returns. *)
StartReceives ==
  /\ pc["start"] = "waitGenesis"
  /\ waiter \in {"sendGenesis", "sendZero"}
  /\ waiter' = "done"
  /\ CASE waiter = "sendZero" ->
           pc' = [pc EXCEPT !["start"] = "exited"] /\ UNCHANGED <<synced, chainStarted>>
       [] DISABLE_SYNC \/ GENESIS_IN_FUTURE \/ SlotToEpoch(CURRENT_SLOT) = 0 ->
           pc' = [pc EXCEPT !["start"] = "done"] /\ MarkSynced /\ UNCHANGED chainStarted
       [] SlotToEpoch(HeadSlot) = SlotToEpoch(CURRENT_SLOT) ->
           pc' = [pc EXCEPT !["start"] = "done"] /\ MarkSynced /\ chainStarted' = TRUE
       [] OTHER ->
           pc' = [pc EXCEPT !["start"] = "waitPeers"] /\ UNCHANGED synced
                                                     /\ chainStarted' = TRUE
  /\ UNCHANGED <<published, inbox, cancelled, peers, db, head, queued, lastStart,
                 credit, handed, handoffs, resyncs>>

(* Resync, called by regular sync once initial sync is over: synced is   *)
(* cleared until the round robin returns.                                 *)
Resync ==
  /\ pc["resync"] = "idle" /\ pc["start"] = "done"
  /\ resyncs < MAX_RESYNCS
  /\ resyncs' = resyncs + 1
  /\ synced' = FALSE
  /\ pc' = [pc EXCEPT !["resync"] = "waitPeers"]
  /\ UNCHANGED <<waiter, published, inbox, chainStarted, cancelled, peers, db,
                 head, queued, lastStart, credit, handed, handoffs>>

(* waitForMinimumPeers leaves its polling loop, then roundRobinSync starts *)
(* the phase-1 queue (up to the peers' highest finalized slot).            *)
WaitForMinimumPeers(p) ==
  /\ pc[p] = "waitPeers"
  /\ peers >= MIN_PEERS
  /\ StartQueue(p, "phase1")
  /\ UNCHANGED <<waiter, published, inbox, chainStarted, cancelled, peers, db,
                 head, credit, handed, handoffs, resyncs>>

(* Phase 1: processFetchedData on the queue's next batch. *)
ProcessFetchedData(p) ==
  /\ pc[p] = "phase1"
  /\ ~cancelled /\ queued < MAX_BATCHES
  /\ \E b \in Batches :
       LET given  == ProcessBatchedBlocks(b)
           stored == IF given = <<>> THEN db ELSE ReceiveBlockBatch(given)
       IN  /\ b[1].slot >= lastStart
           /\ lastStart' = b[1].slot
           /\ db' = stored
           /\ head' \in NewHeads(stored)
           /\ credit' = Credit(HeadSlot, BlockOf(head').slot)
           /\ IF given = <<>> THEN UNCHANGED <<handed, handoffs>>
              ELSE Handoff(TRUE, given)
  /\ queued' = queued + 1
  /\ UNCHANGED <<pc, waiter, published, inbox, synced, chainStarted, cancelled,
                 peers, resyncs>>

(* Phase 2: processFetchedDataRegSync on the queue's next batch. *)
ProcessFetchedDataRegSync(p) ==
  /\ pc[p] = "phase2"
  /\ ~cancelled /\ queued < MAX_BATCHES
  /\ \E b \in Batches :
       LET r == RegSync(b, db, <<>>) IN
       /\ b[1].slot >= lastStart
       /\ lastStart' = b[1].slot
       /\ db' = r.db
       /\ head' \in NewHeads(r.db)
       /\ credit' = Credit(HeadSlot, BlockOf(head').slot)
       /\ IF r.given = <<>> THEN UNCHANGED <<handed, handoffs>>
          ELSE Handoff(FALSE, r.given)
  /\ queued' = queued + 1
  /\ UNCHANGED <<pc, waiter, published, inbox, synced, chainStarted, cancelled,
                 peers, resyncs>>

(* The phase-1 queue closes fetchedData; it is stopped, and the round    *)
(* robin returns when the head is at the current slot, else starts the   *)
(* phase-2 queue (up to the current slot).                                 *)
EndPhase1(p) ==
  /\ pc[p] = "phase1"
  /\ IF HeadSlot = CURRENT_SLOT
       THEN RoundRobinReturns(p, TRUE) /\ UNCHANGED <<queued, lastStart>>
       ELSE StartQueue(p, "phase2")
  /\ UNCHANGED <<waiter, published, inbox, chainStarted, cancelled, peers, db,
                 head, credit, handed, handoffs, resyncs>>

(* The phase-2 queue closes fetchedData; the round robin returns nil. *)
EndPhase2(p) ==
  /\ pc[p] = "phase2"
  /\ RoundRobinReturns(p, TRUE)
  /\ UNCHANGED <<waiter, published, inbox, chainStarted, cancelled, peers, db,
                 head, queued, lastStart, credit, handed, handoffs, resyncs>>

(* Stop cancels the service context. *)
Stop ==
  /\ ~cancelled
  /\ cancelled' = TRUE
  /\ UNCHANGED <<pc, waiter, published, inbox, synced, chainStarted, peers, db,
                 head, queued, lastStart, credit, handed, handoffs, resyncs>>

(* Peers connect and disconnect. *)
PeersChange ==
  /\ peers' \in (0..MAX_PEERS) \ {peers}
  /\ UNCHANGED <<pc, waiter, published, inbox, synced, chainStarted, cancelled,
                 db, head, queued, lastStart, credit, handed, handoffs, resyncs>>

Next ==
  \/ Subscribe \/ PublishInitialized \/ WaiterReceives \/ StartReceives
  \/ Resync \/ Stop \/ PeersChange
  \/ \E p \in Procs : \/ WaitForMinimumPeers(p)
                     \/ ProcessFetchedData(p) \/ ProcessFetchedDataRegSync(p)
                     \/ EndPhase1(p) \/ EndPhase2(p)

(* The goroutines of the service move when they can; waitForMinimumPeers *)
(* polls forever, so it leaves the loop if enough peers are there again  *)
(* and again (strong fairness); a blocks queue closes eventually. The     *)
(* chain's event, Stop, Resync calls and peers are not forced.             *)
Spec ==
  /\ Init /\ [][Next]_isvars
  /\ WF_isvars(Subscribe) /\ WF_isvars(WaiterReceives) /\ WF_isvars(StartReceives)
  /\ \A p \in Procs : /\ SF_isvars(WaitForMinimumPeers(p))
                     /\ WF_isvars(EndPhase1(p)) /\ WF_isvars(EndPhase2(p))
-----------------------------------------------------------------------------

(* Each updatePeerScorerStats call credits at most CURRENT_SLOT. *)
MaxCredit == CURRENT_SLOT * MAX_BATCHES * 2 * (1 + MAX_RESYNCS)

TypeOK ==
  /\ pc \in [Procs -> {"idle", "waitGenesis", "waitPeers", "phase1", "phase2",
                       "done", "exited"}]
  /\ waiter \in {"subscribing", "listening", "sendGenesis", "sendZero", "done"}
  /\ {published, inbox, synced, chainStarted, cancelled} \subseteq BOOLEAN
  /\ peers \in 0..MAX_PEERS
  /\ db \subseteq {b.root : b \in Blocks} /\ head \in db
  /\ queued \in 0..MAX_BATCHES
  /\ credit \in 0..MaxCredit
  /\ handed \in [batch : BOOLEAN, blks : Seq(Blocks)]
  /\ handoffs \in Nat

(* The head and its ancestors, following parent roots through Blocks. *)
RECURSIVE ChainOf(_)
ChainOf(r) ==
  IF \E b \in Blocks : b.root = r THEN {r} \cup ChainOf(BlockOf(r).parent)
  ELSE {}

(* processBatchedBlocks reads HeadSlot once and drops processed blocks at *)
(* the front only while the head is at or past them. A stored block above *)
(* the head's slot (on another fork) is handed again; what must never be  *)
(* handed to ReceiveBlockBatch again is the head or one of its ancestors,  *)
(* however the queue's batches overlap the chain already stored.          *)
HandoffsAvoidHeadChain ==
  [][handoffs' # handoffs /\ handed'.batch =>
       \A i \in DOMAIN handed'.blks : handed'.blks[i].root \notin ChainOf(head)
    ]_isvars

(* Once the Initialized event has reached waitForStateInitialization,   *)
(* and enough suitable peers are there again and again, Start eventually *)
(* marks the node synced, unless the service is stopped.                  *)
SyncCompletes ==
  []<>(peers >= MIN_PEERS) => (inbox ~> (synced \/ cancelled))

(* Once the chain has sent the Initialized event, and enough suitable     *)
(* peers are there again and again, Start eventually marks the node      *)
(* synced unless the service is stopped: the comment on                  *)
(* waitForStateInitialization says the node is either already configured *)
(* or the event is awaited. The event goes only to a current subscriber, *)
(* and the subscription is made by a goroutine NewService starts.         *)
InitializedStartsSync ==
  []<>(peers >= MIN_PEERS) => (published ~> (synced \/ cancelled))

(* After Stop, the Start goroutine returns. *)
StopEndsStart == cancelled ~> pc["start"] \in {"done", "exited"}
=============================================================================

