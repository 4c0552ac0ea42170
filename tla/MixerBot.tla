------------------------------- MODULE MixerBot -------------------------------
(***************************************************************************)
(* sdk/xvault/xvault/mixer.py and crypto.py: a holder of notes prepares    *)
(* releases.                                                               *)
(*                                                                         *)
(* Every storage read is an RPC of its own, so blocks of deposits and      *)
(* releases fall between the reads of one proof, and between its check and *)
(* the inclusion of the release.  The contract is PrivacyMixerV5.          *)
(***************************************************************************)
EXTENDS PrivacyMixerV5, Functions

VARIABLE
  prep   \* release_params for each leaf whose holder runs it: the siblings
         \* read, and whether and when they were checked

Idle == [siblings |-> <<>>, checked |-> FALSE, at |-> 0]
Prepare(i, p) == prep' = [prep EXCEPT ![i] = p] /\ UNCHANGED vars

Holders == DOMAIN prep
BotInit(H) == prep = [i \in H |-> Idle]
-----------------------------------------------------------------------------
(* crypto.py: the client's own copy of the tree, from the leaves it was    *)
(* given.  It keeps the roots a contract of ROOT_HISTORY roots accepts.    *)

Planted == [nodes |-> [l \in Levels |-> <<>>], roots |-> <<Zeros[TREE_DEPTH]>>]

ZeroRight_(tree, l, k, node) == Node(node, Zeros[l])
Joined(tree, l, k, node) ==
  IF k % 2 = 0 THEN Node(node, Zeros[l]) ELSE Node(tree.nodes[l][k - 1], node)

Inserted(tree, leaf, i) ==
  LET current[l \in 0..TREE_DEPTH] ==
        IF l = 0 THEN leaf ELSE Joined(tree, l - 1, At(i, l - 1), current[l - 1])
      grown == Append(tree.roots, current[TREE_DEPTH])
  IN  [nodes |-> [l \in Levels |-> [k \in 0..At(i, l) |->
                    IF k = At(i, l) THEN current[l] ELSE tree.nodes[l][k]]],
       roots |-> IF Len(grown) > ROOT_HISTORY THEN Tail(grown) ELSE grown]

Mirror == LET tree[n \in 0..Count] ==
                IF n = 0 THEN Planted ELSE Inserted(tree[n - 1], nodes[0][n - 1], n - 1)
          IN  tree[Count]

MirrorProof(tree, i) ==
  [n \in 1..TREE_DEPTH |->
     LET k == Beside(At(i, n - 1))
     IN  IF k \in DOMAIN tree.nodes[n - 1] THEN tree.nodes[n - 1][k] ELSE Zeros[n - 1]]
-----------------------------------------------------------------------------
(* mixer.py: release_params and release_many_params.                       *)

\* The checks made before any sibling is read.
Due(i) == i \in Live /\ topo >= unlock[i + 1]

\* siblings reads the next level.
ReadSibling(i) ==
  LET s == prep[i].siblings
  IN
  /\ Len(s) < TREE_DEPTH
  /\ s = <<>> => Due(i)
  /\ Prepare(i, [prep[i] EXCEPT !.siblings = Append(s, Sibling(i, Len(s)))])

\* The proof is folded and compared with the root of now; a mix of siblings
\* of several trees is refused here and the caller starts again.
Unchecked_(i) == TRUE
LocalProof(i) == Fold(LeafOf(i), i, prep[i].siblings) = Latest
CheckProof(i) ==
  /\ Len(prep[i].siblings) = TREE_DEPTH /\ ~prep[i].checked
  /\ Prepare(i, IF LocalProof(i)
                THEN [prep[i] EXCEPT !.checked = TRUE, !.at = Count]
                ELSE Idle)

\* release_many_params: the claims of some prepared notes in one call, released
\* all or none; whatever happens the caller starts again.
PreparedClaim(i) == Claim(LeafOf(i), i, prep[i].siblings)
Submit(batch) ==
  LET claims == [n \in DOMAIN batch |-> PreparedClaim(batch[n])]
  IN
  /\ \A n \in DOMAIN batch : prep[batch[n]].checked
  /\ prep' = [i \in Holders |-> IF \E n \in DOMAIN batch : batch[n] = i THEN Idle ELSE prep[i]]
  /\ IF Accepts(claims) THEN ReleaseMany(claims) ELSE UNCHANGED vars

Alone(i) == ReadSibling(i) \/ CheckProof(i) \/ Submit(<<i>>)
Together == \E i, j \in Holders : i # j /\ Submit(<<i, j>>)
Commands == Together \/ \E i \in Holders : Alone(i)

BotSpec ==
  /\ Init /\ \E H \in SUBSET Leaves : BotInit(H)
  /\ [][(Next /\ UNCHANGED prep) \/ Commands]_<<vars, prep>>
-----------------------------------------------------------------------------
(* What a holder is promised.                                              *)

\* The contract's insertion builds the root of the whole tree, accepts exactly
\* the last ROOT_HISTORY roots and proves every leaf it holds and no other note;
\* and the client's copy (crypto.py:247, "identical semantics to the contract")
\* has the same roots and the same proofs.
TreeExact ==
  /\ RootsExact /\ ProofsExact
  /\ LET tree == Mirror
     IN  /\ valid = Range(tree.roots) /\ Latest = tree.roots[Len(tree.roots)]
         /\ \A i \in 0..(Count - 1) : MirrorProof(tree, i) = Proof(i)

\* Notes that passed the local check land, alone and as a batch, as long as
\* fewer than ROOT_HISTORY deposits were made since, whatever was read in
\* between; and a note that is due in a solvent pool has a proof that lands.
Fresh(i) == prep[i].checked /\ Count - prep[i].at < ROOT_HISTORY
ReleasesLand ==
  /\ ExitsOpen
  /\ \A i \in Live \cap Holders : Fresh(i) =>
       /\ Releasable(ledger, PreparedClaim(i))
       /\ \A j \in (Live \cap Holders) \ {i} :
            Fresh(j) => Releasable(Released(ledger, PreparedClaim(i)), PreparedClaim(j))

\* Every deposited note is paid in the end: no pause, emergency exit, change
\* of hands or stream of deposits keeps its holder from it.
NotesPaid ==
  \A i \in Leaves : (i < Count /\ i \in Holders) ~> (i \in ledger.spent)
=============================================================================
