------------------------ MODULE AttestationProcessing ------------------------
(***************************************************************************)
(* The chain service's fork-choice attestation loop, processAttestation in *)
(* beacon-chain/blockchain/receive_attestation.go, over the fork choice    *)
(* store it feeds. Once the state is initialized the loop waits for each  *)
(* slot tick, takes the pool's attestations, and for each one: skips it   *)
(* while its next slot has not started or its block is unknown, else      *)
(* deletes it from the pool, drops it when its target epoch is neither    *)
(* the current nor the previous one, and otherwise calls                   *)
(* ReceiveAttestationNoPubsub: onAttestation (validation, then the fork   *)
(* choice's ProcessAttestation) and then updateHead (the fork choice's    *)
(* Head). onAttestation and updateHead take the store's locks one after   *)
(* the other, so blocks may be inserted between them.                     *)
(*                                                                         *)
(* Gossip fills the pool and the chain inserts blocks (onBlock) from other *)
(* goroutines; neither is in the repository. An attestation is a record   *)
(* [slot, root, target, indices, valid]; valid is what onAttestation's    *)
(* checks, not in the repository, would answer.                            *)
(***************************************************************************)
EXTENDS ForkChoice

CONSTANTS
  Atts,             \* attestations gossip may add to the pool
  SLOTS_PER_EPOCH,
  MAX_SLOT          \* last slot the clock reaches

VARIABLES
  now,          \* current slot of the slot clock
  tickPending,  \* a slot tick is waiting in the ticker's channel
  pool,         \* attPool fork-choice attestations
  loop,         \* atts of the current iteration not yet handled
  headDue,      \* onAttestation returned; updateHead comes next
  arrived       \* history: attestations ever added to the pool

apvars == <<fcvars, now, tickPending, pool, loop, headDue, arrived>>

SlotToEpoch(s) == s \div SLOTS_PER_EPOCH

(* helpers.VerifySlotTime: the slot has started (the clock disparity is  *)
(* below a slot).                                                           *)
SlotStarted(slot) == slot <= now

(* helpers.VerifyCheckpointEpoch: the target is the current or previous  *)
(* epoch.                                                                  *)
VerifyCheckpointEpoch(target) ==
  LET cur == SlotToEpoch(now)
      prev == IF cur > 0 THEN cur - 1 ELSE 0
  IN  target = cur \/ target = prev

(* s.stateGen.StateSummaryExists and s.hasBlock: the chain saves both    *)
(* with the fork-choice insert of onBlock.                                 *)
HasStateAndBlock(root) == HasNode(root)

-----------------------------------------------------------------------------
APInit ==
  /\ Init
  /\ now = 0
  /\ tickPending = FALSE
  /\ pool = {}
  /\ loop = {}
  /\ headDue = FALSE
  /\ arrived = {}

(* The slot clock advances and the ticker fires; its channel holds one  *)
(* tick. Past MAX_SLOT the ticker keeps firing while the modelled time  *)
(* stands still.                                                           *)
Clock ==
  /\ now < MAX_SLOT \/ ~tickPending
  /\ now' = IF now < MAX_SLOT THEN now + 1 ELSE now
  /\ tickPending' = TRUE
  /\ UNCHANGED <<fcvars, pool, loop, headDue, arrived>>

(* Gossip adds an attestation to the pool once its slot has started. *)
AddToPool(a) ==
  /\ a \notin arrived
  /\ a.slot <= now
  /\ pool' = pool \cup {a}
  /\ arrived' = arrived \cup {a}
  /\ UNCHANGED <<fcvars, now, tickPending, loop, headDue>>

(* The chain's onBlock inserts a block into the fork choice. *)
ReceiveBlock(b) ==
  /\ ProcessBlock(b)
  /\ UNCHANGED <<now, tickPending, pool, loop, headDue, arrived>>

(* The select takes a tick: the pool's attestations are read. *)
Tick ==
  /\ loop = {} /\ ~headDue
  /\ tickPending
  /\ tickPending' = FALSE
  /\ loop' = pool
  /\ UNCHANGED <<fcvars, now, pool, headDue, arrived>>

(* A mutant of Handle: the slot gate tests the attestation's own slot, *)
(* not the next one.                                                     *)
HandleSameSlot(a) ==
  /\ a \in loop /\ ~headDue
  /\ loop' = loop \ {a}
  /\ IF ~SlotStarted(a.slot) \/ ~HasStateAndBlock(a.root)
       THEN UNCHANGED <<fcvars, pool, headDue>>
       ELSE /\ pool' = pool \ {a}
            /\ IF ~VerifyCheckpointEpoch(a.target) \/ ~a.valid
                 THEN UNCHANGED <<fcvars, headDue>>
                 ELSE ProcessAttestation(a.indices, a.root, a.target) /\ headDue' = TRUE
  /\ UNCHANGED <<now, tickPending, arrived>>

(* One iteration of the loop over atts, up to onAttestation. *)
Handle(a) ==
  /\ a \in loop /\ ~headDue
  /\ loop' = loop \ {a}
  /\ IF ~SlotStarted(a.slot + 1) \/ ~HasStateAndBlock(a.root)
       THEN UNCHANGED <<fcvars, pool, headDue>>
       ELSE /\ pool' = pool \ {a}
            /\ IF ~VerifyCheckpointEpoch(a.target) \/ ~a.valid
                 THEN UNCHANGED <<fcvars, headDue>>
                 ELSE ProcessAttestation(a.indices, a.root, a.target) /\ headDue' = TRUE
  /\ UNCHANGED <<now, tickPending, arrived>>

(* updateHead, the second half of ReceiveAttestationNoPubsub. *)
UpdateHead ==
  /\ headDue
  /\ headDue' = FALSE
  /\ ComputeHead
  /\ UNCHANGED <<now, tickPending, pool, loop, arrived>>

APNext ==
  \/ Clock \/ Tick \/ UpdateHead
  \/ \E a \in Atts : AddToPool(a) \/ Handle(a)
  \/ \E b \in Blocks : ReceiveBlock(b)

(* The loop goroutine runs whenever it has work and the clock keeps      *)
(* ticking; gossip and block arrival are not forced.                      *)
APSpec ==
  /\ APInit /\ [][APNext]_apvars
  /\ WF_apvars(Clock) /\ WF_apvars(Tick) /\ WF_apvars(UpdateHead)
  /\ \A a \in Atts : WF_apvars(Handle(a))

-----------------------------------------------------------------------------
(* The loop implements the pool's promise (AttestationPool): the pool    *)
(* seen through the known blocks and the slot clock only ever changes by *)
(* an arrival, a block becoming known, a slot passing, or the removal of *)
(* an attestation whose slot is over and whose block is known; and every *)
(* such attestation is eventually removed. The loop's snapshot, its skip *)
(* paths and the separate updateHead step are invisible at that level.   *)
Pool == INSTANCE AttestationPool
          WITH known <- {b.root : b \in {x \in Blocks : HasNode(x.root)}},
               Roots <- {b.root : b \in Blocks}

PoolRefined == Pool!PoolSpec
=============================================================================
