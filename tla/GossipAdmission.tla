-------------------------- MODULE GossipAdmission --------------------------
(***************************************************************************)
(* Gossip admission of beacon blocks: validateBeaconBlockPubSub and        *)
(* validateBeaconBlock (src/unnamed/part_002). pubsub calls the validator  *)
(* once per delivered message, concurrently; everything after decoding     *)
(* runs under validateBlockLock, so one validation is one atomic step      *)
(* here. What runs beside it, outside that lock, is the subscriber that   *)
(* receives an ACCEPTed block and the pending-queue processor that        *)
(* re-classifies parked blocks once their parent is stored (both outside  *)
(* the repository, written from spec 4.6).                                 *)
(*                                                                         *)
(* A message is a record: root, parent, slot, proposer, and what the       *)
(* external checks would say of it (decodes, descOK for VerifyBlk-        *)
(* Descendant, sigOK for VerifyBlockSignature, propOK for the proposer    *)
(* index), plus self for a message published by this node.                *)
(***************************************************************************)
EXTENDS Integers, FiniteSets, Sequences

CONSTANTS
  Deliveries,     \* pubsub deliveries (one validator call each)
  MsgOf,          \* Deliveries -> the message delivered
  DbInit,         \* roots in the block store at start (genesis, finalized)
  FINALIZED_SLOT, \* helpers.StartSlot(FinalizedCheckpt().Epoch)
  CURRENT_SLOT,   \* last slot VerifySlotTime accepts (clock + disparity)
  MAX_CANCELS     \* bound on validations whose context is cancelled

VARIABLES
  syncing,   \* s.initialSync.Syncing()
  db,        \* roots in the block store (s.db.HasBlock)
  seen,      \* seenBlockCache: <<slot, proposer>> pairs
  bad,       \* badBlockCache: roots
  pending,   \* seenPendingBlocks / slotToPendingBlocks: parked roots
  status,    \* Deliveries -> "arrived" | "accept" | "ignore" | "reject" | "done"
  accepted,  \* history: foreign deliveries ever ACCEPTed
  cancels    \* history: validations that ran with a cancelled context

gvars == <<syncing, db, seen, bad, pending, status, accepted, cancels>>

Msgs == {MsgOf[d] : d \in Deliveries}

Key(m) == <<m.slot, m.proposer>>

Roots == DbInit \cup {m.root : m \in Msgs} \cup {m.parent : m \in Msgs}

ChecksPass(m) == m.descOK /\ m.sigOK /\ m.propOK

(* Lineage[r]: r and its ancestors, following parent roots. *)
Lineage ==
  LET L[n \in 0..Cardinality(Roots)] ==
        IF n = 0 THEN [r \in Roots |-> {r}]
        ELSE LET prev == L[n - 1] IN
             [r \in Roots |-> prev[r] \cup
                UNION {prev[m.parent] : m \in {x \in Msgs : x.root = r}}]
  IN  L[Cardinality(Roots)]

(* A block is tainted when it or one of its ancestors fails its own      *)
(* checks: exactly the blocks the bad-block cache may legitimately hold.  *)
Tainted(r) ==
  \E m \in Msgs : m.root \in Lineage[r] /\ ~ChecksPass(m)

(* A mutant of SetBadBlock: the parent root is marked instead of the     *)
(* block's own root.                                                       *)
SetBadBlockOnParent(cache, cancelled, r) ==
  IF cancelled THEN cache
  ELSE cache \cup {m.parent : m \in {x \in Msgs : x.root = r}}

(* A mutant of SetBadBlock: the context check is dropped. *)
SetBadBlockIgnoringCtx(cache, cancelled, r) == cache \cup {r}

(* setBadBlock: nothing is recorded when the validation context is done. *)
SetBadBlock(cache, cancelled, r) == IF cancelled THEN cache ELSE cache \cup {r}

(* A mutant of Park: the unknown-parent block is ignored, never queued. *)
ParkDropped(queue, r) == queue

(* insertBlockToPendingQueue *)
Park(queue, r) == queue \cup {r}

(* The short-circuit pipeline of validateBeaconBlockPubSub: each pair is  *)
(* a condition and the outcome when it is the first that holds. A         *)
(* cancelled context makes the first context-aware call, VerifyBlk-       *)
(* Descendant, fail.                                                       *)
Pipeline(m, cancelled) ==
  << <<m.self, "own">>,
     <<syncing, "syncing">>,
     <<~m.decodes, "undecodable">>,
     <<Key(m) \in seen, "seen">>,
     <<m.root \in db, "known">>,
     <<m.parent \in bad, "badParent">>,
     <<m.root \in pending, "pendingSeen">>,
     <<m.slot > CURRENT_SLOT, "slotTime">>,
     <<m.slot <= FINALIZED_SLOT, "finalized">>,
     <<m.parent \notin db, "unknownParent">> >>

(* validateBeaconBlock *)
BlockChecks(m, cancelled) ==
  << <<cancelled \/ ~m.descOK, "notDescendant">>,
     <<~m.sigOK, "badSignature">>,
     <<~m.propOK, "badProposer">>,
     <<TRUE, "valid">> >>

Outcome(m, cancelled) ==
  LET p == Pipeline(m, cancelled) \o BlockChecks(m, cancelled)
      i == CHOOSE i \in DOMAIN p : p[i][1] /\ \A j \in 1..(i - 1) : ~p[j][1]
  IN  p[i][2]

Result(o) ==
  CASE o \in {"own", "valid"} -> "accept"
    [] o \in {"undecodable", "badParent", "notDescendant", "badSignature",
              "badProposer"} -> "reject"
    [] OTHER -> "ignore"

(* The outcomes after which setBadBlock is called on the block's root. *)
MarksBad(o) == o \in {"badParent", "notDescendant", "badSignature", "badProposer"}

CancelChoices == IF cancels < MAX_CANCELS THEN BOOLEAN ELSE {FALSE}

-----------------------------------------------------------------------------
Init ==
  /\ syncing \in BOOLEAN
  /\ db = DbInit
  /\ seen = {}
  /\ bad = {}
  /\ pending = {}
  /\ status = [d \in Deliveries |-> "arrived"]
  /\ accepted = {}
  /\ cancels = 0

(* One call of validateBeaconBlockPubSub, under validateBlockLock. *)
Validate(d) ==
  LET m == MsgOf[d] IN
  /\ status[d] = "arrived"
  /\ \E c \in CancelChoices :
       LET o == Outcome(m, c) IN
       /\ status' = [status EXCEPT ![d] = Result(o)]
       /\ bad' = IF MarksBad(o) THEN SetBadBlock(bad, c, m.root) ELSE bad
       /\ pending' = IF o = "unknownParent" THEN Park(pending, m.root) ELSE pending
       /\ accepted' = IF Result(o) = "accept" /\ ~m.self
                      THEN accepted \cup {d} ELSE accepted
       /\ cancels' = IF c THEN cancels + 1 ELSE cancels
  /\ UNCHANGED <<syncing, db, seen>>

(* beaconBlockSubscriber: ReceiveBlock stores the block or, when the state *)
(* transition fails, marks it bad; the (slot, proposer) is then seen.      *)
Subscribe(d) ==
  LET m == MsgOf[d] IN
  /\ status[d] = "accept"
  /\ status' = [status EXCEPT ![d] = "done"]
  /\ IF ChecksPass(m) /\ m.parent \in db
       THEN db' = db \cup {m.root} /\ UNCHANGED bad
       ELSE bad' = SetBadBlock(bad, FALSE, m.root) /\ UNCHANGED db
  /\ seen' = seen \cup {Key(m)}
  /\ UNCHANGED <<syncing, pending, accepted, cancels>>

(* processPendingBlocks: a parked block whose parent is now stored leaves *)
(* the queue and is classified again.                                      *)
ProcessPending(d) ==
  LET m == MsgOf[d] IN
  /\ status[d] = "ignore"
  /\ m.root \in pending
  /\ m.parent \in db
  /\ pending' = pending \ {m.root}
  /\ status' = [status EXCEPT ![d] = "arrived"]
  /\ UNCHANGED <<syncing, db, seen, bad, accepted, cancels>>

(* Initial sync completes (markSynced). *)
MarkSynced ==
  /\ syncing
  /\ syncing' = FALSE
  /\ UNCHANGED <<db, seen, bad, pending, status, accepted, cancels>>

Next ==
  \/ MarkSynced
  \/ \E d \in Deliveries : Validate(d) \/ Subscribe(d) \/ ProcessPending(d)

(* pubsub runs a validator per message, delivers every ACCEPTed message to *)
(* the subscriber, and the pending processor runs every slot: all weakly   *)
(* fair. Initial sync finishing is not forced.                             *)
Spec ==
  Init /\ [][Next]_gvars
       /\ \A d \in Deliveries : /\ WF_gvars(Validate(d))
                                /\ WF_gvars(Subscribe(d))
                                /\ WF_gvars(ProcessPending(d))

-----------------------------------------------------------------------------
Statuses == {"arrived", "accept", "ignore", "reject", "done"}

TypeOK ==
  /\ syncing \in BOOLEAN
  /\ db \subseteq DbInit \cup {m.root : m \in Msgs}
  /\ seen \subseteq {Key(m) : m \in Msgs}
  /\ bad \subseteq {m.root : m \in Msgs}
  /\ pending \subseteq {m.root : m \in Msgs}
  /\ status \in [Deliveries -> Statuses]
  /\ accepted \subseteq Deliveries
  /\ cancels \in 0..MAX_CANCELS

(* The bad-block cache only ever holds blocks that are really invalid or  *)
(* descend from one: a validation that fails because its context was      *)
(* cancelled (setBadBlock's ctx.Err() check) or a block whose parent was  *)
(* marked bad must not poison a valid block and, through step 6 of the    *)
(* pipeline, all its descendants.                                         *)
BadOnlyIfTainted == \A r \in bad : Tainted(r)

(* Idempotence (spec section 8): of the foreign deliveries sharing one   *)
(* (slot, proposer), validateBeaconBlockPubSub ACCEPTs at most one; the   *)
(* others are IGNOREd.                                                     *)
AcceptOnce ==
  \A d1, d2 \in accepted : Key(MsgOf[d1]) = Key(MsgOf[d2]) => d1 = d2

(* A block whose own checks pass, whose parent chain is stored or still  *)
(* on its way (delivered and not yet decided, accepted, or parked), and  *)
(* that the node sees after initial sync, ends up in the store: parking  *)
(* it until its parent arrives, re-classifying it and the subscriber's   *)
(* ReceiveBlock never lose it. A validation cancelled by pubsub rejects  *)
(* the block for good, so this is claimed of behaviours without one.     *)
Coming(r) ==
  \E d \in Deliveries :
    /\ MsgOf[d].root = r
    /\ status[d] \in {"arrived", "accept"} \/ r \in pending

OnItsWay(r) == \A a \in Lineage[r] : a \in db \/ Coming(a)

Good(m) ==
  /\ ~Tainted(m.root) /\ m.decodes
  /\ FINALIZED_SLOT < m.slot /\ m.slot <= CURRENT_SLOT

ValidEventuallyStored ==
  [](cancels = 0) =>
    \A d \in {x \in Deliveries : Good(MsgOf[x])} :
      LET m == MsgOf[d] IN
      (~syncing /\ OnItsWay(m.root)) ~> m.root \in db
=============================================================================
