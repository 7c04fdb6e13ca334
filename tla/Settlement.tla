----------------------------- MODULE Settlement -----------------------------
(***************************************************************************)
(* What the vault promises, with no signatures, keys, registries or floor  *)
(* divisions: value deposited for an asset leaves its pot only when one    *)
(* cycle of the asset is settled, at most once, on the votes of one of the *)
(* quorums its rules name.  ServicerVault implements it (module            *)
(* VaultRefinement).                                                       *)
(***************************************************************************)
EXTENDS Integers

CONSTANTS
  Asset, Cycle, Verifier,
  Rules,        \* what may be agreed for an asset: [agreed, quorums]
  Deposits      \* amounts that may be put into a pot

VARIABLES
  rules,        \* asset -> [agreed, quorums]; a quorum is a set of verifiers
  votes,        \* <<v, a, c>>: v has voted for paying cycle c of asset a
  pot,          \* asset -> value held for it
  settlements   \* [asset, cycle, amount] of every settled cycle

escrowVars == <<rules, votes, pot, settlements>>

\* The rules of an asset that is not registered.
NoRules == [agreed |-> FALSE, quorums |-> {}]

InFavour(a, c) == \E Q \in rules[a].quorums : \A v \in Q : <<v, a, c>> \in votes
IsSettled(a, c) == \E s \in settlements : s.asset = a /\ s.cycle = c

Register(a) ==
  /\ ~rules[a].agreed
  /\ \E r \in Rules : {} \notin r.quorums /\ rules' = [rules EXCEPT ![a] = r]
  /\ UNCHANGED <<votes, pot, settlements>>

Deposit(a) ==
  /\ rules[a].agreed
  /\ \E n \in Deposits : pot' = [pot EXCEPT ![a] = @ + n]
  /\ UNCHANGED <<rules, votes, settlements>>

Vote(v, a, c) ==
  /\ votes' = votes \cup {<<v, a, c>>}
  /\ UNCHANGED <<rules, pot, settlements>>

Settle(a, c) ==
  /\ rules[a].agreed
  /\ ~IsSettled(a, c)
  /\ InFavour(a, c)
  /\ pot[a] > 0
  /\ \E amount \in 0 .. pot[a] :
       /\ pot' = [pot EXCEPT ![a] = @ - amount]
       /\ settlements' = settlements \cup {[asset |-> a, cycle |-> c, amount |-> amount]}
  /\ UNCHANGED <<rules, votes>>

Init ==
  /\ rules = [a \in Asset |-> NoRules]
  /\ votes = {}
  /\ pot = [a \in Asset |-> 0]
  /\ settlements = {}

Next ==
  \E a \in Asset :
    \/ Register(a)
    \/ Deposit(a)
    \/ \E c \in Cycle : \/ Settle(a, c)
                        \/ \E v \in Verifier : Vote(v, a, c)

Spec == Init /\ [][Next]_escrowVars
=============================================================================
