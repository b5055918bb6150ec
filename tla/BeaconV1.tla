------------------------------ MODULE BeaconV1 ------------------------------
(***************************************************************************)
(* The block endpoints of the standard beacon API (beacon-chain/rpc/      *)
(* beaconv1/blocks.go): GetBlockHeader, ListBlockHeaders, GetBlock,       *)
(* GetBlockRoot, ListBlockAttestations and the block-ID resolution        *)
(* blockFromBlockID they share, except GetBlockRoot, which repeats it.    *)
(* A block ID is "head", "finalized", "genesis", a 32-byte root or a      *)
(* decimal slot; anything else fails to parse. The endpoints only read    *)
(* the block store and the fork choice, so each is an operator of the     *)
(* state it is called in. The store lists the blocks of one slot in an    *)
(* order the model does not fix: each call takes that order as an input.  *)
(* A block is answered by its root; a header carries the canonical flag.  *)
(***************************************************************************)
EXTENDS Integers, Sequences
LOCAL INSTANCE SequencesExt

CONSTANTS
  Blocks,          \* the blocks in the store, records [root, slot, parent]
  ZeroRoot,        \* the all-zero root
  FinalizedRoots   \* roots ChainInfoFetcher.FinalizedCheckpt may report

VARIABLES
  head,    \* the fork choice head root
  chain    \* roots of the canonical chain (what IsCanonical answers TRUE for)

StoreRoots == {b.root : b \in Blocks}
StoreSlots == {b.slot : b \in Blocks}
UnknownRoot == 1 + SumSet(StoreRoots)

(* Block IDs: the three names, every stored root and one that is not     *)
(* stored, every stored slot and the next, and a string that is neither. *)
Id(k, v) == [kind |-> k, v |-> v]
BlockIds ==
  {Id(k, 0) : k \in {"head", "finalized", "genesis", "junk"}}
    \cup {Id("root", r) : r \in StoreRoots \cup {UnknownRoot}}
    \cup {Id("slot", s) : s \in StoreSlots \cup {1 + SumSet(StoreSlots)}}

(* BeaconDB.BlockRoots / Blocks with start = end = slot, in every order *)
(* the store may list them.                                              *)
AtSlot(s) == {b.root : b \in {x \in Blocks : x.slot = s}}
DbOrders(id) == IF id.kind = "slot" THEN SetToSeqs(AtSlot(id.v)) ELSE {<<>>}

Answer(c, r) == [code |-> c, root |-> r]

(* The loop over a slot's roots: the first one IsCanonical accepts, else *)
(* the first listed; a single root is taken without asking.              *)
FirstCanonical(ord) ==
  LET i == SelectInSeq(ord, LAMBDA r : r \in chain)
  IN  IF Len(ord) = 1 \/ i = 0 THEN ord[1] ELSE ord[i]

(* blockFromBlockID: a block (by root), "nil" when the store has none, or *)
(* "error" when the ID does not parse. HeadBlock is the head's block;     *)
(* the finalized and root cases are store lookups of the root.            *)
Lookup(r) == IF r \in StoreRoots THEN Answer("ok", r) ELSE Answer("nil", ZeroRoot)

\* BeaconDB.GenesisBlock: the stored block of slot 0, if any.
Genesis == IF AtSlot(0) = {} THEN Answer("nil", ZeroRoot)
           ELSE Answer("ok", CHOOSE r \in AtSlot(0) : TRUE)

(* A mutant of blockFromBlockID: the first block listed for a slot is    *)
(* taken without asking IsCanonical.                                     *)
blockFromBlockIDFirst(id, ord, fin) ==
  CASE id.kind = "head"      -> Answer("ok", head)
    [] id.kind = "finalized" -> Lookup(fin)
    [] id.kind = "genesis"   -> Genesis
    [] id.kind = "root"      -> Lookup(id.v)
    [] id.kind = "slot"      ->
         IF ord = <<>> THEN Answer("nil", ZeroRoot) ELSE Answer("ok", ord[1])
    [] id.kind = "junk"      -> Answer("error", ZeroRoot)

blockFromBlockID(id, ord, fin) ==
  CASE id.kind = "head"      -> Answer("ok", head)
    [] id.kind = "finalized" -> Lookup(fin)
    [] id.kind = "genesis"   -> Genesis
    [] id.kind = "root"      -> Lookup(id.v)
    [] id.kind = "slot"      ->
         IF ord = <<>> THEN Answer("nil", ZeroRoot)
         ELSE Answer("ok", FirstCanonical(ord))
    [] id.kind = "junk"      -> Answer("error", ZeroRoot)

(* GetBlock and ListBlockAttestations: Internal on an error, NotFound on *)
(* nil, else the block.                                                  *)
AsResponse(a) ==
  CASE a.code = "error" -> Answer("internal", ZeroRoot)
    [] a.code = "nil"   -> Answer("notFound", ZeroRoot)
    [] a.code = "ok"    -> a

GetBlock(id, ord, fin) == AsResponse(blockFromBlockID(id, ord, fin))

ListBlockAttestations(id, ord, fin) == AsResponse(blockFromBlockID(id, ord, fin))

(* GetBlockHeader: GetBlock's answer plus IsCanonical of the block root. *)
GetBlockHeader(id, ord, fin) ==
  LET a == GetBlock(id, ord, fin)
  IN  [code |-> a.code, root |-> a.root, canonical |-> a.root \in chain]

(* A mutant of GetBlockRoot: the lookup by slot answers the first root *)
(* listed, as if the store listed only one.                             *)
GetBlockRootFirst(id, ord, fin) ==
  CASE id.kind = "head"      -> Answer("ok", head)
    [] id.kind = "finalized" -> Answer("ok", fin)
    [] id.kind = "genesis"   -> AsResponse(Genesis)
    [] id.kind = "root"      -> AsResponse(Lookup(id.v))
    [] id.kind = "slot"      ->
         IF ord = <<>> THEN Answer("notFound", ZeroRoot) ELSE Answer("ok", ord[1])
    [] id.kind = "junk"      -> Answer("internal", ZeroRoot)

(* GetBlockRoot: its own switch. The finalized root is answered without  *)
(* a store lookup; the genesis and root cases look the block up; a slot  *)
(* is resolved by the same loop over BlockRoots.                          *)
GetBlockRoot(id, ord, fin) ==
  CASE id.kind = "head"      -> Answer("ok", head)
    [] id.kind = "finalized" -> Answer("ok", fin)
    [] id.kind = "genesis"   -> AsResponse(Genesis)
    [] id.kind = "root"      -> AsResponse(Lookup(id.v))
    [] id.kind = "slot"      ->
         IF ord = <<>> THEN Answer("notFound", ZeroRoot)
         ELSE Answer("ok", FirstCanonical(ord))
    [] id.kind = "junk"      -> Answer("internal", ZeroRoot)

(* ListBlockHeaders: the blocks with the given parent root, or at the    *)
(* given slot, each with its canonical flag. BeaconDB.Blocks may return  *)
(* nil or an empty list when nothing matches: NotFound or no headers.    *)
Header(r) == [root |-> r, canonical |-> r \in chain]
ListBlockHeaders(q) ==
  LET match == {b.root : b \in {x \in Blocks :
                   IF "parent" \in DOMAIN q THEN x.parent = q.parent
                                            ELSE x.slot = q.slot}}
  IN  IF match = {} THEN {[code |-> "notFound", headers |-> {}],
                          [code |-> "ok", headers |-> {}]}
      ELSE {[code |-> "ok", headers |-> {Header(r) : r \in match}]}

-----------------------------------------------------------------------------
(* GetBlockRoot repeats blockFromBlockID's switch instead of calling it.  *)
(* The two must agree. For every block ID, listing order and finalized   *)
(* root: whenever GetBlock finds a block, GetBlockRoot answers its root;  *)
(* and for every ID but "finalized" (whose root GetBlockRoot returns     *)
(* without looking it up) the two give the same status and root.        *)
BlockIdsAgree ==
  \A id \in BlockIds, fin \in FinalizedRoots : \A ord \in DbOrders(id) :
    LET b == GetBlock(id, ord, fin)
        r == GetBlockRoot(id, ord, fin)
    IN  /\ b.code = "ok" => r = b
        /\ id.kind # "finalized" => r = b

(* A slot ID names the canonical block of that slot: whenever the fork   *)
(* choice's chain has a block at the slot, GetBlockHeader finds that     *)
(* block and flags it canonical, and ListBlockHeaders for the slot lists *)
(* it flagged canonical too, whatever order the store lists the slot's   *)
(* blocks in and however the head has moved.                             *)
CanonicalBySlot ==
  \A s \in StoreSlots : (AtSlot(s) \cap chain # {}) =>
    \A ord \in DbOrders(Id("slot", s)) :
      LET h == GetBlockHeader(Id("slot", s), ord, ZeroRoot)
      IN  /\ h.code = "ok" /\ h.canonical
          /\ \A l \in ListBlockHeaders([slot |-> s]) :
               Header(h.root) \in l.headers
=============================================================================
