---------------------------- MODULE MCForkChoice ----------------------------
(* A block tree with a fork and a slot gap: A(1) <- B(2) <- C(4), and     *)
(* A <- D(3). Any block may be inserted first, as the finalized anchor.  *)
(* Validators 0 and 2 leave a gap in the vote cache when 2 attests first. *)
(* Attestations: a1 (slot 1, target epoch 0) can go stale once the clock *)
(* reaches epoch 2; a2 is validator 2's; a3 votes on the fork; a4 fails *)
(* onAttestation's checks.                                                 *)
EXTENDS AttestationProcessing

CONSTANTS A, B, C, D, Outside, Zero

MCBlocks ==
  { [root |-> A, parent |-> Outside, slot |-> 1],
    [root |-> B, parent |-> A, slot |-> 2],
    [root |-> C, parent |-> B, slot |-> 4],
    [root |-> D, parent |-> A, slot |-> 3] }

Att(s, r, t, i, ok) == [slot |-> s, root |-> r, target |-> t, indices |-> i, valid |-> ok]

MCAtts ==
  { Att(1, A, 0, {0}, TRUE), Att(2, B, 1, {2}, TRUE),
    Att(3, D, 1, {0}, TRUE), Att(3, B, 1, {0, 2}, FALSE) }

MCValidators == {0, 2}
MCEpochs == 0..1
MCSlots == 0..5

(* Epoch processing at each epoch of the clock: two validators, each     *)
(* slashed or not, withdrawable one epoch before, at or after the penalty *)
(* epoch (e + 2 \div 2), with effective balance 0, 1 or 2 increments,    *)
(* active or exited at e, and a balance below or above a penalty;        *)
(* slashings vectors of 0, 1 or 3 per epoch. The increment is 2 so that   *)
(* rounding to whole increments shows; the multiplier is mainnet phase    *)
(* 0's.                                                                   *)
MCValidatorRecords(e) ==
  [slashed : BOOLEAN, withdrawable : {e, e + 1, e + 2}, eff : {0, 2, 4},
   activation : {0}, exit : {e, 9}, balance : {1, 4}]

MCPrecomputeStates(e) ==
  {[epoch |-> e, validators |-> <<v, w>>, slashings |-> sl] :
     v \in MCValidatorRecords(e), w \in MCValidatorRecords(e),
     sl \in [1..2 -> {0, 1, 3}]}

Pre == INSTANCE Precompute
         WITH INCREMENT <- 2, MULTIPLIER <- 1, SLASHINGS_VECTOR <- 2,
              FAR_FUTURE <- 9, StatesAt <- MCPrecomputeStates

\* The check's outcome for each epoch the clock reaches, computed once.
MCSlashingsChecked == [e \in 0..SlotToEpoch(MAX_SLOT) |-> Pre!SlashingsMatchSpec(e)]

(* The epoch processing of the clock's current epoch (New, then          *)
(* ProcessSlashingsPrecompute) agrees with the consensus spec's          *)
(* process_slashings on every beacon state of the domain with active     *)
(* balance.                                                                *)
SlashingsMatchSpec == MCSlashingsChecked[SlotToEpoch(now)]
=============================================================================
