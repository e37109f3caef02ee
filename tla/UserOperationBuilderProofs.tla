----------------------- MODULE UserOperationBuilderProofs ----------------------
(***************************************************************************)
(* Proofs about UserOperationBuilder for any registry of wallets, any salts *)
(* and any sequence of calls: type correctness, that the three places which *)
(* name the factory agree, that the wallet address is the one this factory  *)
(* gives, that a failing method changes nothing, and that build_uo names    *)
(* the first missing field.                                                *)
(***************************************************************************)
EXTENDS UserOperationBuilder, WellFoundedInduction, TLAPS

-----------------------------------------------------------------------------
(* Lemmas about the operators of the model.                                *)

\* A set of natural numbers that is not empty has a least element.
LEMMA LeastElement ==
    ASSUME NEW T \in SUBSET Nat, T # {}
    PROVE  \E i \in T : \A j \in T : ~(j < i)
<1>1. \E i \in T : \A j \in T : ~(<<j, i>> \in OpToRel(<, Nat))
    BY NatLessThanWellFounded, WFMin
<1>2. \A i, j \in Nat : <<j, i>> \in OpToRel(<, Nat) <=> j < i
    BY DEF OpToRel
<1> QED
    BY <1>1, <1>2

\* The positions of the fields that build_uo asks for.
LEMMA CheckedPositions ==
    /\ DOMAIN Checked = 1 .. 11
    /\ \A i \in 1 .. 11 : Checked[i] \in Field
    /\ ToSet(Checked) = {Checked[i] : i \in 1 .. 11}
<1>1. DOMAIN Checked = 1 .. 11
    BY DEF Checked
<1>2. \A i \in 1 .. 11 : Checked[i] \in Field
    BY DEF Checked, Field
<1> QED
    BY <1>1, <1>2 DEF ToSet

\* What an incomplete operation is refused for: a field that is checked and
\* not set, and before which every one is.
LEMMA FirstMissingIsFirst ==
    ASSUME ~ ToSet(Checked) \subseteq uo
    PROVE  \E i \in DOMAIN Checked :
               /\ FirstMissing = Checked[i]
               /\ Checked[i] \notin uo
               /\ \A j \in 1 .. i - 1 : Checked[j] \in uo
<1> DEFINE T == {i \in DOMAIN Checked : Checked[i] \notin uo}
           P(i) == /\ Checked[i] \notin uo
                   /\ \A j \in 1 .. i - 1 : Checked[j] \in uo
<1>1. T # {} /\ T \subseteq Nat
    BY CheckedPositions
<1>2. PICK i \in T : \A j \in T : ~(j < i)
    BY <1>1, LeastElement
<1>3. i \in DOMAIN Checked /\ P(i)
    BY <1>2, CheckedPositions
<1> QED
    BY <1>3 DEF FirstMissing

-----------------------------------------------------------------------------
(* Type correctness.                                                       *)

LEMMA InitTypeOK == Init => TypeOK
<1> SUFFICES ASSUME Init PROVE TypeOK
    OBVIOUS
<1>1. wallet \in Factories /\ factory \in Factories /\ factoryAddr \in Factories
    BY DEF Init, Factories
<1>2. ASSUME NEW address \in Option({Given}), NEW aSalt \in Option(Salts),
             New(address, aSalt)
      PROVE  TypeOK
    BY <1>1, <1>2 DEF New, Option, Init, TypeOK, Outcomes
<1>3. CASE FromUo
    BY <1>1, <1>3, BuilderAssumption DEF FromUo, Option, Init, TypeOK, Outcomes
<1>4. CASE BuildRandomUoBuilder
    BY <1>1, <1>4 DEF BuildRandomUoBuilder, New, Option, Init, TypeOK, Outcomes
<1> QED
    BY <1>2, <1>3, <1>4 DEF Init

LEMMA NextTypeOK == TypeOK /\ [Next]_vars => TypeOK'
<1> SUFFICES ASSUME TypeOK, [Next]_vars PROVE TypeOK'
    OBVIOUS
<1> USE DEF TypeOK, Outcomes
<1>1. CASE SetWallet
    BY <1>1 DEF SetWallet, Factories
<1>2. CASE SetScwAddress
  <2>1. \A s \in salt : {GenerateAddress(s)} \in Option({Given} \cup (Factories \X salt))
    BY DEF GenerateAddress, Option
  <2> QED
    BY <1>2, <2>1 DEF SetScwAddress
<1>3. CASE SetUoField
    BY <1>3 DEF SetUoField
<1>4. CASE SetUo
    BY <1>4, BuilderAssumption DEF SetUo
<1>5. CASE SetUoHash
    BY <1>5 DEF SetUoHash
<1>6. CASE BuildUo
  <2>1. ~ ToSet(Checked) \subseteq uo => FirstMissing \in Field
    BY FirstMissingIsFirst, CheckedPositions
  <2> QED
    BY <1>6, <2>1 DEF BuildUo, state
<1>7. CASE UNCHANGED vars
    BY <1>7 DEF vars
<1> QED
    BY <1>1, <1>2, <1>3, <1>4, <1>5, <1>6, <1>7 DEF Next

\* Every builder is well typed after any sequence of calls, and an error of
\* build_uo always names one of the fields.
THEOREM TypeCorrect == Spec => []TypeOK
BY InitTypeOK, NextTypeOK, PTL DEF Spec

-----------------------------------------------------------------------------
(* What the run checks on two registries, for any number of them.          *)

\* set_wallet assigns the wallet, the factory and the factory's address, all
\* or none of them.
THEOREM FactoriesAgree == Spec => []OneFactory
<1>1. Init => OneFactory
    BY DEF Init, OneFactory
<1>2. OneFactory /\ [Next]_vars => OneFactory'
    BY DEF OneFactory, Next, SetWallet, SetScwAddress, SetUoField, SetUo,
           SetUoHash, BuildUo, state, vars
<1> QED
    BY <1>1, <1>2, PTL DEF Spec

\* A method returns its error, or panics, before it assigns anything.
THEOREM FailuresChangeNothing == Spec => FailureChangesNothing
<1>1. [Next]_vars => [outcome'.kind # "ok" => UNCHANGED state]_vars
  <2> SUFFICES ASSUME Next, outcome'.kind # "ok" PROVE UNCHANGED state
    OBVIOUS
  <2>1. outcome' # Ok
    BY DEF Ok
  <2> QED
    BY <2>1 DEF Next, SetWallet, SetScwAddress, SetUoField, SetUo, SetUoHash,
                BuildUo, state
<1> QED
    BY <1>1, PTL DEF Spec, FailureChangesNothing

\* set_scw_address asks the factory whose address goes into the init code, and
\* always overwrites the address: only set_wallet parts the two.
THEOREM AddressOfFactory == Spec => []SenderMatchesInitCode
<1>1. Init => SenderMatchesInitCode
    BY DEF Init, New, FromUo, BuildRandomUoBuilder, Option, SenderMatchesInitCode
<1>2. OneFactory /\ SenderMatchesInitCode /\ [Next]_vars => SenderMatchesInitCode'
  <2> SUFFICES ASSUME OneFactory, SenderMatchesInitCode, [Next]_vars
               PROVE  SenderMatchesInitCode'
    OBVIOUS
  <2>1. CASE SetScwAddress
    BY <2>1 DEF SetScwAddress, GenerateAddress, OneFactory, SenderMatchesInitCode
  <2>2. CASE ~ SetScwAddress
    BY <2>2 DEF SenderMatchesInitCode, Next, SetWallet, SetUoField, SetUo,
                SetUoHash, BuildUo, state, vars
  <2> QED
    BY <2>1, <2>2
<1> QED
    BY <1>1, <1>2, FactoriesAgree, PTL DEF Spec

=============================================================================
