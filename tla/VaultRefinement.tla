--------------------------- MODULE VaultRefinement ---------------------------
(***************************************************************************)
(* ServicerVault implements Settlement.  The rules are the sets of         *)
(* verifiers that reach the quorum; a vote is a signature issued on a      *)
(* "yes"; the pots are the pools; what is settled is what the receipts     *)
(* say.                                                                    *)
(***************************************************************************)
EXTENDS ServicerVault

\* Any `quorum` of the distinct verifiers may release; if the list repeats a
\* verifier there may be no such set at all.
QuorumsOf(cfg) == {Q \in SUBSET Range(cfg.verifiers) : Cardinality(Q) >= cfg.quorum}
RulesOf(cfg) == [agreed |-> cfg # None,
                 quorums |-> IF cfg = None THEN {} ELSE QuorumsOf(cfg)]

VotesIssued ==
  {<<s.signer, s.message[1], s.message[2]>> : s \in {t \in signed : t.message[3]}}

SettlementOf(r) == [asset |-> r.asset, cycle |-> r.cycle, amount |-> r.total]

Escrow == INSTANCE Settlement WITH
  Rules       <- {RulesOf(cfg) : cfg \in Registration},
  Deposits    <- Attached,
  rules       <- [a \in Asset |-> RulesOf(assets[a])],
  votes       <- VotesIssued,
  pot         <- pools,
  settlements <- {SettlementOf(receipts[k]) : k \in Settled}

\* The vault implements the escrow: however evidence is repeated, replayed or
\* forged, value leaves an asset's pot only by settling a cycle that was not
\* settled, on a quorum of the panel's votes for that cycle, by the amount of
\* the receipt; and neither rules nor votes nor settlements are taken back.
ImplementsSettlement == Escrow!Spec
=============================================================================
