-------------------------- MODULE ProposalHistory --------------------------
(***************************************************************************)
(* The validator's proposal history in its bolt database (validator/db/kv, *)
(* src/unnamed/part_009): per public key a bucket from slot to signing     *)
(* root, and the lowest and highest signed proposal slots in buckets of   *)
(* their own. Every method runs in one bolt transaction, and bolt runs    *)
(* write transactions one at a time, so each call is one atomic step.     *)
(* Keys are absent from a bucket when they map to MISSING.                *)
(***************************************************************************)
EXTENDS Integers, FiniteSets

CONSTANTS
  PubKeys,                  \* validator public keys
  Slots,                    \* slots a proposal may be saved for
  Roots,                    \* signing roots
  MISSING,                  \* no value under the key
  SLOTS_PER_EPOCH,
  WEAK_SUBJECTIVITY_PERIOD, \* params.BeaconConfig().WeakSubjectivityPeriod
  MAX_SAVES                 \* bound on SaveProposalHistoryForSlot calls

ASSUME MISSING \notin Slots \cup Roots

VARIABLES
  buckets,  \* public keys with a bucket in newHistoricProposalsBucket
  history,  \* PubKeys -> Slots -> signing root or MISSING
  lowest,   \* lowestSignedProposalsBucket: PubKeys -> slot or MISSING
  highest,  \* highestSignedProposalsBucket: PubKeys -> slot or MISSING
  signed,   \* history: PubKeys -> Slots -> last root ever saved or MISSING
  saves     \* SaveProposalHistoryForSlot calls so far

phvars == <<buckets, history, lowest, highest, signed, saves>>

SlotToEpoch(s) == s \div SLOTS_PER_EPOCH

StoredSlots(k) == {s \in Slots : history[k][s] # MISSING}

(* ProposedPublicKeys: the keys with a bucket. *)
ProposedPublicKeys == buckets

(* LowestSignedProposal and HighestSignedProposal: 0 when nothing is     *)
(* stored under the key.                                                   *)
LowestSignedProposal(k) == IF lowest[k] = MISSING THEN 0 ELSE lowest[k]

HighestSignedProposal(k) == IF highest[k] = MISSING THEN 0 ELSE highest[k]

(* A mutant of NewLowest: a missing mark is read as slot 0 and kept. *)
NewLowestMissingAsZero(k, slot) ==
  IF slot < LowestSignedProposal(k) THEN slot ELSE lowest[k]

(* The lowest mark after a save at slot: set when absent or higher. *)
NewLowest(k, slot) ==
  IF lowest[k] = MISSING \/ slot < lowest[k] THEN slot ELSE lowest[k]

NewHighest(k, slot) ==
  IF highest[k] = MISSING \/ slot > highest[k] THEN slot ELSE highest[k]

(* A mutant of Prunable: the newest slot is compared as if it were an   *)
(* epoch.                                                                  *)
PrunableSlotAsEpoch(s, newestSlot) ==
  SlotToEpoch(s) + WEAK_SUBJECTIVITY_PERIOD <= newestSlot

(* An entry is older than the weak subjectivity period before newestSlot. *)
Prunable(s, newestSlot) ==
  SlotToEpoch(s) + WEAK_SUBJECTIVITY_PERIOD <= SlotToEpoch(newestSlot)

(* pruneProposalHistoryBySlot: the cursor deletes the first (lowest)    *)
(* slot while it is prunable and stops at the first that is not; the    *)
(* slots removed are the prunable ones below the lowest kept slot.       *)
PruneProposalHistoryBySlot(bucket, newestSlot) ==
  LET stored == {s \in Slots : bucket[s] # MISSING}
      kept   == {s \in stored : ~Prunable(s, newestSlot)}
      gone   == {s \in stored : \A t \in kept : s < t}
  IN  [s \in Slots |-> IF s \in gone THEN MISSING ELSE bucket[s]]

-----------------------------------------------------------------------------
Init ==
  /\ buckets = {}
  /\ history = [k \in PubKeys |-> [s \in Slots |-> MISSING]]
  /\ lowest = [k \in PubKeys |-> MISSING]
  /\ highest = [k \in PubKeys |-> MISSING]
  /\ signed = [k \in PubKeys |-> [s \in Slots |-> MISSING]]
  /\ saves = 0

(* ProposalHistoryForSlot reads in a write transaction and creates the  *)
(* key's bucket when it is missing.                                        *)
ProposalHistoryForSlot(k, slot) ==
  /\ k \notin buckets
  /\ buckets' = buckets \cup {k}
  /\ UNCHANGED <<history, lowest, highest, signed, saves>>

(* SaveProposalHistoryForSlot: bucket, both marks, the put, the prune. *)
SaveProposalHistoryForSlot(k, slot, root) ==
  /\ saves < MAX_SAVES
  /\ saves' = saves + 1
  /\ buckets' = buckets \cup {k}
  /\ lowest' = [lowest EXCEPT ![k] = NewLowest(k, slot)]
  /\ highest' = [highest EXCEPT ![k] = NewHighest(k, slot)]
  /\ history' = [history EXCEPT ![k] =
                   PruneProposalHistoryBySlot([history[k] EXCEPT ![slot] = root], slot)]
  /\ signed' = [signed EXCEPT ![k][slot] = root]

Next ==
  \E k \in PubKeys, slot \in Slots :
    \/ ProposalHistoryForSlot(k, slot)
    \/ \E root \in Roots : SaveProposalHistoryForSlot(k, slot, root)

Spec == Init /\ [][Next]_phvars

-----------------------------------------------------------------------------
TypeOK ==
  /\ buckets \subseteq PubKeys
  /\ history \in [PubKeys -> [Slots -> Roots \cup {MISSING}]]
  /\ lowest \in [PubKeys -> Slots \cup {MISSING}]
  /\ highest \in [PubKeys -> Slots \cup {MISSING}]
  /\ saves \in 0..MAX_SAVES

(* The history the validator's slashing protection reads back is the    *)
(* history it wrote: a stored root is the last one saved for that slot,   *)
(* and a slot ever saved is missing only when it lies a full weak        *)
(* subjectivity period below the highest signed proposal, whatever order *)
(* the saves came in and however far ahead one of them jumped.          *)
HistoryFaithful ==
  \A k \in PubKeys, s \in Slots :
    /\ history[k][s] # MISSING => history[k][s] = signed[k][s]
    /\ (signed[k][s] # MISSING /\ history[k][s] = MISSING)
         => SlotToEpoch(s) + WEAK_SUBJECTIVITY_PERIOD
              <= SlotToEpoch(HighestSignedProposal(k))

(* The lowest and highest signed proposal slots are the least and the   *)
(* greatest slot ever saved for the key, including slot 0, and are      *)
(* absent exactly when nothing was saved.                                  *)
MarksExact ==
  \A k \in PubKeys :
    LET ever == {s \in Slots : signed[k][s] # MISSING} IN
    IF ever = {} THEN lowest[k] = MISSING /\ highest[k] = MISSING
    ELSE /\ lowest[k] \in ever /\ \A s \in ever : lowest[k] <= s
         /\ highest[k] \in ever /\ \A s \in ever : s <= highest[k]
=============================================================================
