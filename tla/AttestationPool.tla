------------------------- MODULE AttestationPool -------------------------
(***************************************************************************)
(* What the chain's fork-choice attestation pool promises: an           *)
(* attestation is not considered until its slot is in the past (the      *)
(* comment of receive_attestation.go:120-122, after the eth2 fork-choice  *)
(* validate_on_attestation). An attestation enters the pool once its slot *)
(* has started. It leaves the                                              *)
(* pool, counted or dropped, only after its slot has ended and once the   *)
(* node knows the block it votes for, and every attestation that may     *)
(* leave eventually does. Blocks become known and the clock advances     *)
(* independently.                                                         *)
(***************************************************************************)
EXTENDS Naturals

CONSTANTS Atts, Roots, MAX_SLOT

VARIABLES
  pool,   \* attestations waiting to be applied
  known,  \* roots of the blocks the node has
  now     \* the current slot

poolvars == <<pool, known, now>>

PoolInit == pool = {} /\ known = {} /\ now = 0

Advance ==
  /\ now < MAX_SLOT
  /\ now' = now + 1
  /\ UNCHANGED <<pool, known>>

Arrive(a) ==
  /\ a.slot <= now
  /\ a \notin pool
  /\ pool' = pool \cup {a}
  /\ UNCHANGED <<known, now>>

Learn(r) ==
  /\ r \notin known
  /\ known' = known \cup {r}
  /\ UNCHANGED <<pool, now>>

(* An attestation may be taken out once its slot is over and its block *)
(* is known.                                                             *)
Resolvable(a) == a \in pool /\ a.slot + 1 <= now /\ a.root \in known

Resolve(a) ==
  /\ Resolvable(a)
  /\ pool' = pool \ {a}
  /\ UNCHANGED <<known, now>>

PoolNext ==
  \/ Advance
  \/ \E a \in Atts : Arrive(a) \/ Resolve(a)
  \/ \E r \in Roots : Learn(r)

PoolSpec ==
  PoolInit /\ [][PoolNext]_poolvars /\ \A a \in Atts : WF_poolvars(Resolve(a))
=============================================================================
