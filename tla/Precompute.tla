----------------------------- MODULE Precompute -----------------------------
(***************************************************************************)
(* Epoch-processing precompute (beacon-chain/core/epoch/precompute:       *)
(* src/unnamed/part_004). New walks the validators once, recording per    *)
(* validator flags and the total effective balance active in the current *)
(* and the previous epoch; ProcessSlashingsPrecompute is process_slashings *)
(* of the consensus spec fed with New's current-epoch total, with an      *)
(* early exit when no slashed validator is due. Both are pure functions   *)
(* of a beacon state, so they are operators here, and the check compares  *)
(* them with the consensus spec's process_slashings over every state of  *)
(* a bounded domain. Gwei amounts are scaled down: an effective balance   *)
(* is a multiple of INCREMENT, as effective balances are.                 *)
(***************************************************************************)
EXTENDS Integers, Sequences
LOCAL INSTANCE FiniteSetsExt

CONSTANTS
  INCREMENT,          \* EffectiveBalanceIncrement
  MULTIPLIER,         \* ProportionalSlashingMultiplier
  SLASHINGS_VECTOR,   \* EpochsPerSlashingsVector
  FAR_FUTURE,         \* FarFutureEpoch
  StatesAt(_)         \* the beacon states checked at an epoch: [epoch, validators, slashings]

\* helpers.CurrentEpoch / PrevEpoch (the previous epoch of genesis is genesis).
PrevEpoch(st) == IF st.epoch = 0 THEN 0 ELSE st.epoch - 1

\* helpers.IsActiveValidatorUsingTrie
IsActive(v, e) == v.activation <= e /\ e < v.exit

\* mathutil.Min
MinU(a, b) == IF a < b THEN a ELSE b

\* helpers.DecreaseBalance: the balance drops by delta, not below zero.
DecreaseBalance(bal, delta) == IF delta > bal THEN 0 ELSE bal - delta

ActiveTotal(vals, e) ==
  MapThenSumSet(LAMBDA i : IF IsActive(vals[i], e) THEN vals[i].eff ELSE 0,
                DOMAIN vals)

(* New: one record per validator (withdrawable, slashed, effective balance, *)
(* active in the current and the previous epoch, inclusion slot and       *)
(* distance at FAR_FUTURE) and the two active-balance totals.             *)
New(st) ==
  LET vals == st.validators
      prev == PrevEpoch(st)
  IN  [validators |->
         [i \in DOMAIN vals |->
            [isSlashed |-> vals[i].slashed,
             isWithdrawableCurrentEpoch |-> prev + 1 >= vals[i].withdrawable,
             currentEpochEffectiveBalance |-> vals[i].eff,
             isActiveCurrentEpoch |-> IsActive(vals[i], st.epoch),
             isActivePrevEpoch |-> IsActive(vals[i], prev),
             inclusionSlot |-> FAR_FUTURE,
             inclusionDistance |-> FAR_FUTURE]],
       balance |-> [activeCurrentEpoch |-> ActiveTotal(vals, st.epoch),
                    activePrevEpoch |-> ActiveTotal(vals, prev)]]

\* The validator is slashed and withdrawable half a slashings vector ahead.
DueForPenalty(st, v) ==
  v.slashed /\ v.withdrawable = st.epoch + SLASHINGS_VECTOR \div 2

\* Applies penalty[i] to every validator i due for it.
Penalise(st, penalty) ==
  [st EXCEPT !.validators =
     [i \in DOMAIN st.validators |->
        LET v == st.validators[i] IN
        IF DueForPenalty(st, v)
        THEN [v EXCEPT !.balance = DecreaseBalance(v.balance, penalty[i])]
        ELSE v]]

TotalSlashing(st) ==
  MapThenSumSet(LAMBDA i : st.slashings[i], DOMAIN st.slashings)

(* A mutant of ProcessSlashingsPrecompute: the penalty is computed without *)
(* rounding the effective balance down to whole increments.               *)
ProcessSlashingsPrecomputeUnrounded(st, pBal) ==
  LET minSlashing == MinU(TotalSlashing(st) * MULTIPLIER, pBal.activeCurrentEpoch)
      Penalty(v) == (v.eff * minSlashing) \div pBal.activeCurrentEpoch
  IN  IF \E i \in DOMAIN st.validators : DueForPenalty(st, st.validators[i])
      THEN Penalise(st, [i \in DOMAIN st.validators |-> Penalty(st.validators[i])]) ELSE st

(* ProcessSlashingsPrecompute: nothing when no validator is due; else each *)
(* due validator loses eff/INCREMENT * minSlashing / active * INCREMENT,    *)
(* the divisor being New's current-epoch total as it is, zero included.   *)
ProcessSlashingsPrecompute(st, pBal) ==
  LET minSlashing == MinU(TotalSlashing(st) * MULTIPLIER, pBal.activeCurrentEpoch)
      Penalty(v) ==
        (((v.eff \div INCREMENT) * minSlashing) \div pBal.activeCurrentEpoch) * INCREMENT
  IN  IF \E i \in DOMAIN st.validators : DueForPenalty(st, st.validators[i])
      THEN Penalise(st, [i \in DOMAIN st.validators |-> Penalty(st.validators[i])]) ELSE st

-----------------------------------------------------------------------------
(* The consensus spec's process_slashings, the reference: the total       *)
(* active balance is floored at one increment (get_total_active_balance)  *)
(* and every validator is visited.                                         *)
SpecProcessSlashings(st) ==
  LET total == Max({INCREMENT, ActiveTotal(st.validators, st.epoch)})
      adjusted == MinU(TotalSlashing(st) * MULTIPLIER, total)
      Penalty(v) == (((v.eff \div INCREMENT) * adjusted) \div total) * INCREMENT
  IN  Penalise(st, [i \in DOMAIN st.validators |-> Penalty(st.validators[i])])

(* New followed by ProcessSlashingsPrecompute applies the same slashing    *)
(* penalties as the consensus spec's process_slashings, early exit and     *)
(* rounding included, for every state of the domain at epoch e whose      *)
(* current epoch has some active balance. (With none, the code divides by *)
(* zero where the spec divides by one increment.)                          *)
SlashingsMatchSpec(e) ==
  \A st \in StatesAt(e) :
    New(st).balance.activeCurrentEpoch > 0 =>
      ProcessSlashingsPrecompute(st, New(st).balance) = SpecProcessSlashings(st)
=============================================================================
