------------------------------ MODULE Election ------------------------------
(***************************************************************************)
(* What the voting of the PA3 network promises its operators: who is a     *)
(* validator changes only when more than half of the validators want it,   *)
(* each having one wish for each account, which stands until it is taken   *)
(* back, the account or the voter has changed sides, or the epoch ends.    *)
(***************************************************************************)
EXTENDS Naturals, FiniteSets

CONSTANTS
  Account,     \* all addresses
  Genesis      \* the validators of the first block

VARIABLES
  member,      \* the validators
  wish         \* pairs <<v, c>>: v wants c in if it is out, and out if it is in
evars == <<member, wish>>

Init == member = Genesis /\ wish = {}

Supporters(w, c) == {v \in Account : <<v, c>> \in w}
Majority(S) == 2 * Cardinality(S) > Cardinality(member)

\* a member's block says what it wants of c; it may be the first of an epoch
Block(v, c, wanted, old) ==
  LET now == (old \ {<<v, c>>}) \cup {p \in {<<v, c>>} : wanted} IN
  /\ v \in member
  /\ old \in {wish, {}}
  /\ IF Majority(Supporters(now, c))
     THEN /\ member' = IF c \in member THEN member \ {c} ELSE member \cup {c}
          /\ wish' = {p \in now : p[2] # c /\ p[1] \in member'}
     ELSE /\ wish' = now
          /\ UNCHANGED member

Next ==
  \E v, c \in Account, wanted \in BOOLEAN, old \in {wish, {}} : Block(v, c, wanted, old)

Spec == Init /\ [][Next]_evars
=============================================================================
