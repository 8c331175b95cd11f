----------------------------- MODULE MCBanking -----------------------------
(* Two clients with two ether each and an owner with three.                  *)
EXTENDS Banking, TLC

MCWealth == [a \in Address |-> IF a = Owner THEN 3 ELSE 2]
MCSymmetry == Permutations(Client)
=============================================================================
