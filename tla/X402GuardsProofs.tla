-------------------------- MODULE X402GuardsProofs --------------------------
(***************************************************************************)
(* Facts about the payment guards that hold for every challenge: what      *)
(* selectRequirements returns, and what the three settlement kinds mean.   *)
(***************************************************************************)
EXTENDS X402Guards, WellFoundedInduction, TLAPS

\* Every non-empty set of naturals has a least element; the prices and the
\* positions in `accepts` that the cheapest-option reduce compares are such sets.
LEMMA LeastNatural ==
    ASSUME NEW T, T \subseteq Nat, T # {}
    PROVE  \E x \in T : \A y \in T : x <= y
<1> DEFINE R == OpToRel(<, Nat)
<1>1. IsWellFoundedOn(R, Nat)
  BY NatLessThanWellFounded
<1>2. PICK x \in T : \A y \in T : ~(<<y, x>> \in R)
  <2> HIDE DEF R
  <2> QED BY <1>1, WFMin
<1>3. ASSUME NEW y \in T PROVE x <= y
  <2>1. y \in Nat /\ x \in Nat
    OBVIOUS
  <2>2. R = {ss \in Nat \X Nat : ss[1] < ss[2]}
    BY Zenon DEF OpToRel
  <2>3. ~(y < x)
    <3> HIDE DEF R
    <3> QED BY <1>2, <2>1, <2>2
  <2> QED BY <2>1, <2>3
<1> QED BY <1>3

\* The reduce of selectRequirements has a well-defined answer: a first cheapest
\* option exists among any non-empty set of options with parsed amounts.
LEMMA CheapestIsCheapest ==
    ASSUME NEW accepts, NEW I, I \subseteq Nat, I # {},
           \A i \in I : accepts[i].amount \in Nat
    PROVE  /\ Cheapest(accepts, I) \in I
           /\ \A j \in I : accepts[Cheapest(accepts, I)].amount <= accepts[j].amount
<1> DEFINE prices == {accepts[i].amount : i \in I}
           First(i) == \A j \in I : \/ accepts[i].amount < accepts[j].amount
                                    \/ accepts[i].amount = accepts[j].amount /\ i <= j
<1>1. PICK p \in prices : \A q \in prices : p <= q
  <2>1. prices \subseteq Nat /\ prices # {}
    OBVIOUS
  <2> HIDE DEF prices
  <2> QED BY <2>1, LeastNatural
<1> DEFINE firsts == {i \in I : accepts[i].amount = p}
<1>2. PICK i \in firsts : \A j \in firsts : i <= j
  <2>1. firsts \subseteq Nat /\ firsts # {}
    BY <1>1
  <2> HIDE DEF firsts
  <2> QED BY <2>1, LeastNatural
<1>3. i \in I /\ First(i)
  <2> SUFFICES ASSUME NEW j \in I
               PROVE  \/ accepts[i].amount < accepts[j].amount
                      \/ accepts[i].amount = accepts[j].amount /\ i <= j
    BY <1>2
  <2>1. p <= accepts[j].amount /\ p \in Nat /\ accepts[j].amount \in Nat
    BY <1>1
  <2>2. accepts[i].amount = p
    BY <1>2
  <2>3. CASE accepts[j].amount = p
    BY <2>3, <2>2, <1>2
  <2>4. CASE accepts[j].amount # p
    BY <2>4, <2>1, <2>2
  <2> QED BY <2>3, <2>4
<1>4. Cheapest(accepts, I) \in I /\ First(Cheapest(accepts, I))
  BY <1>3 DEF Cheapest
<1>5. ASSUME NEW j \in I
      PROVE  accepts[Cheapest(accepts, I)].amount <= accepts[j].amount
  <2>1. /\ accepts[Cheapest(accepts, I)].amount \in Nat
        /\ accepts[j].amount \in Nat
    BY <1>4
  <2>2. \/ accepts[Cheapest(accepts, I)].amount < accepts[j].amount
        \/ accepts[Cheapest(accepts, I)].amount = accepts[j].amount
    BY <1>4
  <2> QED BY <2>1, <2>2
<1> QED
  BY <1>4, <1>5

\* When selectRequirements does not throw, what it returns is an element of the
\* challenge that is on our network, sponsors fees, is in an allowed asset, has
\* a parsed price within maxAmount, and no allowed option is cheaper.
THEOREM SelectionIsCleared ==
    ASSUME NEW accepts, NEW n \in Nat, DOMAIN accepts = 1..n,
           \A i \in 1..n : accepts[i].amount \in Int,
           NEW allowedAssets, NEW maxAmount \in Int,
           Refusal(accepts, allowedAssets, maxAmount) = "none"
    PROVE  LET option == SelectRequirements(accepts, allowedAssets)
           IN  /\ \E i \in DOMAIN accepts : option = accepts[i]
               /\ option.onNetwork /\ option.sponsored
               /\ option.asset \in allowedAssets
               /\ option.amount \in Nat /\ option.amount <= maxAmount
               /\ \A j \in Allowed(accepts, allowedAssets) :
                      option.amount <= accepts[j].amount
<1> DEFINE I == Allowed(accepts, allowedAssets)
           k == Cheapest(accepts, I)
<1>1. I \subseteq 1..n /\ I \subseteq Nat
  BY DEF Allowed, Candidates, OnNetwork
<1>2. I # {} /\ \A i \in I : accepts[i].amount \in Nat
  BY <1>1 DEF Refusal, ParsesAsAmount, Allowed, Candidates, OnNetwork
<1>3. k \in I /\ \A j \in I : accepts[k].amount <= accepts[j].amount
  <2> HIDE DEF I
  <2> QED BY <1>1, <1>2, CheapestIsCheapest
<1>4. accepts[k].amount <= maxAmount
  BY <1>1, <1>2, <1>3 DEF Refusal, ParsesAsAmount, Allowed, Candidates, OnNetwork
<1>5. SelectRequirements(accepts, allowedAssets) = accepts[k]
  BY DEF SelectRequirements
<1>6. accepts[k].onNetwork /\ accepts[k].sponsored /\ accepts[k].asset \in allowedAssets
  BY <1>3 DEF Allowed, Candidates, OnNetwork
<1> HIDE DEF I, k
<1> QED
  BY <1>1, <1>2, <1>3, <1>4, <1>5, <1>6 DEF I
=============================================================================
