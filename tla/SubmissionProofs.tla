--------------------------- MODULE SubmissionProofs ---------------------------
(***************************************************************************)
(* What Submission entails, for any number of invocations and wallets: the  *)
(* histories have one entry per slot and no gap, and every entry is one     *)
(* that an invocation with that slot asked for.                            *)
(***************************************************************************)
EXTENDS Submission, TLAPS

\* Every invocation is for a wallet and has a payload.
TaskTypes ==
    /\ Wallet \in [Tasks -> Wallets]
    /\ Payload \in [Tasks -> Payloads]

Types ==
    /\ log \subseteq Entry
    /\ height \in [Wallets -> Nat]
    /\ slot \in [Tasks -> SUBSET Nat]
    /\ submitted \subseteq Tasks

\* Why a free slot is free: the entries of a wallet lie below its height.
EntriesBelowHeight == \A e \in log : e.slot < height[e.wallet]

\* Only a claimed slot is submitted for.
SubmittedHaveSlot == \A t \in submitted : slot[t] # {}

LogInv ==
    /\ Types
    /\ EntriesBelowHeight
    /\ OneEntryPerSlot
    /\ SubmittedHaveSlot
    /\ AskedFor

LEMMA NextLogInv ==
    ASSUME TaskTypes, LogInv, [Next]_vars
    PROVE  LogInv'
<1> USE DEF TaskTypes, LogInv, Types
<1>1. ASSUME NEW t \in Tasks, Claim(t) PROVE LogInv'
  <2>1. PICK n \in 0 .. height[Wallet[t]] : slot' = [slot EXCEPT ![t] = {n}]
      BY <1>1 DEF Claim
  <2>2. slot[t] = {} /\ submitted' \subseteq submitted \cup {t}
      BY <1>1 DEF Claim
  <2>3. submitted \subseteq submitted' /\ log' = log /\ height' = height
    <3>1. submitted' = submitted \/ submitted' = submitted \cup {t}
        BY <1>1 DEF Claim
    <3> QED
        BY <1>1, <3>1 DEF Claim
  <2>4. t \notin submitted
      BY <2>2 DEF SubmittedHaveSlot
  <2>5. Types'
      BY <2>1, <2>2, <2>3
  <2>6. EntriesBelowHeight'
      BY <2>3 DEF EntriesBelowHeight
  <2>7. OneEntryPerSlot'
      BY <2>3 DEF OneEntryPerSlot
  <2>8. SubmittedHaveSlot'
      BY <2>1, <2>2 DEF SubmittedHaveSlot
  <2>9. AskedFor'
      BY <2>1, <2>3, <2>4 DEF AskedFor
  <2> QED
      BY <2>5, <2>6, <2>7, <2>8, <2>9
<1>2. ASSUME NEW t \in Tasks, Submit(t) PROVE LogInv'
  <2>1. PICK S \in SUBSET {s \in Tasks : Twins(s, t) /\ slot[s] = slot[t]} :
            submitted' = submitted \cup S
      BY <1>2 DEF Submit
  <2>2. slot[t] # {} /\ UNCHANGED <<log, height, slot>>
      BY <1>2 DEF Submit
  <2>3. Types' /\ EntriesBelowHeight'
      BY <2>1, <2>2 DEF EntriesBelowHeight
  <2>4. OneEntryPerSlot'
      BY <2>2 DEF OneEntryPerSlot
  <2>5. SubmittedHaveSlot'
      BY <2>1, <2>2 DEF SubmittedHaveSlot
  <2>6. AskedFor'
      BY <2>1, <2>2 DEF AskedFor
  <2> QED
      BY <2>3, <2>4, <2>5, <2>6
<1>3. ASSUME NEW t \in Tasks, Execute(t) PROVE LogInv'
  <2> DEFINE w == Wallet[t]
             e == [wallet |-> w, slot |-> height[w], data |-> Payload[t]]
  <2>1. /\ log' = log \cup {e} /\ height' = [height EXCEPT ![w] = @ + 1]
        /\ slot' = slot /\ submitted' = submitted
        /\ t \in submitted /\ slot[t] = {e.slot}
      BY <1>3 DEF Execute
  <2>2. e \in Entry /\ e.wallet = w /\ e.slot = height[w] /\ e.data = Payload[t]
      BY DEF Entry
  <2>3. \A v \in Wallets : height'[v] = IF v = w THEN height[v] + 1 ELSE height[v]
      BY <2>1
  <2>4. \A d \in log : d.wallet \in Wallets /\ d.slot \in Nat
      BY DEF Entry
  <2>5. Types'
      BY <2>1, <2>2
  <2>6. EntriesBelowHeight'
      BY <2>1, <2>2, <2>3, <2>4 DEF EntriesBelowHeight
  <2>7. \A d \in log : d.wallet = w => d.slot # height[w]
      BY <2>4 DEF EntriesBelowHeight
  <2>8. OneEntryPerSlot'
    <3>1. \A c, d \in log' : c.wallet = d.wallet /\ c.slot = d.slot => c = d
        BY <2>1, <2>2, <2>7 DEF OneEntryPerSlot
    <3>2. ASSUME NEW v \in Wallets, NEW n \in Nat, n < height'[v]
          PROVE  \E d \in log' : d.wallet = v /\ d.slot = n
      <4>1. CASE v = w /\ n = height[w]
          BY <4>1, <2>1, <2>2
      <4>2. CASE ~(v = w /\ n = height[w])
        <5>1. n < height[v]
            BY <3>2, <4>2, <2>3
        <5> QED
            BY <5>1, <2>1 DEF OneEntryPerSlot
      <4> QED
          BY <4>1, <4>2
    <3> QED
        BY <3>1, <3>2 DEF OneEntryPerSlot
  <2>9. SubmittedHaveSlot' /\ AskedFor'
      BY <2>1, <2>2 DEF SubmittedHaveSlot, AskedFor
  <2> QED
      BY <2>5, <2>6, <2>8, <2>9
<1>4. ASSUME UNCHANGED <<log, height, slot, submitted>> PROVE LogInv'
  <2>1. Types' /\ EntriesBelowHeight' /\ SubmittedHaveSlot'
      BY <1>4 DEF EntriesBelowHeight, SubmittedHaveSlot
  <2>2. OneEntryPerSlot'
      BY <1>4 DEF OneEntryPerSlot
  <2>3. AskedFor'
      BY <1>4 DEF AskedFor
  <2> QED
      BY <2>1, <2>2, <2>3
<1>5. ASSUME (\E t \in Tasks : Return(t)) \/ UNCHANGED vars PROVE LogInv'
    BY <1>4, <1>5 DEF Return, vars
<1> QED
    BY <1>1, <1>2, <1>3, <1>4, <1>5 DEF Next

LEMMA SpecLogInv == ASSUME TaskTypes PROVE Spec => []LogInv
<1>1. Init => LogInv
    BY DEF Init, LogInv, Types, EntriesBelowHeight, OneEntryPerSlot,
       SubmittedHaveSlot, AskedFor
<1>2. LogInv /\ [Next]_vars => LogInv'
    BY NextLogInv
<1> QED
    BY <1>1, <1>2, PTL DEF Spec

\* A wallet's history has exactly one entry in each slot below its height.
THEOREM HistoryHasNoGap == ASSUME TaskTypes PROVE Spec => []OneEntryPerSlot
<1>1. LogInv => OneEntryPerSlot
    BY DEF LogInv
<1> QED
    BY <1>1, SpecLogInv, PTL

\* Every entry was asked for by an invocation that submitted it for that slot.
THEOREM EntriesWereAskedFor == ASSUME TaskTypes PROVE Spec => []AskedFor
<1>1. LogInv => AskedFor
    BY DEF LogInv
<1> QED
    BY <1>1, SpecLogInv, PTL

=============================================================================
