---------------------- MODULE SubmissionRefinementProofs ----------------------
(***************************************************************************)
(* UserOpMiddleware implements Submission, for any number of invocations,   *)
(* wallets and payloads.  The steps that Submission does not see leave the  *)
(* mapped state alone; the five kinds of steps it sees are a lemma each:    *)
(* the return of an invocation, a POST, an operation that enters the pool,  *)
(* and one that is executed.  IInv, PoolInv and one more fact, that what is *)
(* posted carries the invocation's payload, say why each of them is allowed. *)
(***************************************************************************)
EXTENDS SubmissionRefinement, UserOpMiddlewareProofs

\* What is posted carries the payload of the invocation.
SentWithPayload == \A t \in Tasks : \A u \in sent[t] : u.data = Payload[t]

LEMMA NextSentWithPayload ==
    TypeOK /\ SentWithPayload /\ [Next]_vars => SentWithPayload'
<1> SUFFICES ASSUME TypeOK, SentWithPayload, [Next]_vars PROVE SentWithPayload'
    OBVIOUS
<1>1. \/ sent' = sent
      \/ \E t \in Tasks : sent' = [sent EXCEPT ![t] = @ \cup {BuildUo(t)}]
  <2>1. CASE \E t \in Tasks : Send(t)
      BY <2>1 DEF Send
  <2>2. CASE ~ \E t \in Tasks : Send(t)
      BY <2>2, ZenonT(30) DEF Next, call, send_eth, BeforeLoop, SendLoop, Receive, Bundler,
         vars, taskVars, worldVars, Start, PanicOnIncompleteTx, RefuseWalletName,
         GetCode, GetNonce, EstimateGas, FailBeforeLoop, ReceiveHash, RetryCallGas,
         RetryPreGas, RetryVerGas, PanicInLoop, ReceiveUnknown,
         RetryAfterTransportError, AcceptUo, RejectGas, RejectUnknown, Answer,
         LateArrival, DeployWallet, HandleOps
  <2> QED
      BY <2>1, <2>2
<1> QED
    BY <1>1 DEF SentWithPayload, TypeOK, BuildUo

\* Everything the refinement rests on.
RInv == IInv /\ PoolInv /\ SentWithPayload

LEMMA SpecRInv == Spec => []RInv
<1>1. Init => SentWithPayload
    BY DEF Init, SentWithPayload
<1>2. Spec => []SentWithPayload
    BY <1>1, NextSentWithPayload, TypeCorrect, PTL DEF Spec
<1> QED
    BY <1>2, SpecIInv, SpecPoolInv, PTL DEF RInv

-----------------------------------------------------------------------------
(* The steps.                                                              *)

\* A step that posts, pools, executes and returns nothing, and that changes no
\* nonce something was posted with, is a stutter.
LEMMA StepInvisible ==
    ASSUME sent' = sent, accepted' = accepted, executed' = executed,
           chainNonce' = chainNonce, result' = result,
           \A t \in Tasks : sent[t] # {} => nonce'[t] = nonce[t]
    PROVE  UNCHANGED S!vars
<1>1. LogOf' = LogOf
    BY DEF LogOf, EntryOf
<1>2. SlotOf' = SlotOf
    BY DEF SlotOf
<1>3. SubmittedOf' = SubmittedOf
    BY DEF SubmittedOf
<1> QED
    BY <1>1, <1>2, <1>3 DEF S!vars

\* An invocation returns or unwinds.
LEMMA StepReturn ==
    ASSUME RInv, NEW t \in Tasks, NEW r \in Results \ {"none"},
           pc[t] # "done", result' = [result EXCEPT ![t] = r],
           r = "ok" => t \in SubmittedOf,
           UNCHANGED <<nonce, sent, accepted, executed, chainNonce>>
    PROVE  S!Return(t)
<1>1. LogOf' = LogOf /\ SlotOf' = SlotOf /\ SubmittedOf' = SubmittedOf
    BY DEF LogOf, EntryOf, SlotOf, SubmittedOf
<1>2. result[t] = "none"
    BY DEF RInv, PoolInv, ResultWhenDone
<1> QED
    BY <1>1, <1>2 DEF S!Return, S!Outcomes, Results

\* The slot and the twins of an invocation that has posted u.
LEMMA PostersAreTwins ==
    ASSUME RInv, NEW s \in Tasks, NEW t \in Tasks, NEW u \in sent[s], u \in sent[t]
    PROVE  S!Twins(s, t) /\ SlotOf[s] = SlotOf[t]
BY DEF RInv, IInv, SentWithNonce, SentWithPayload, S!Twins, SlotOf

\* An operation that t has posted enters the pool.
LEMMA StepAccept ==
    ASSUME RInv, NEW t \in Tasks, NEW u \in sent[t],
           accepted' = accepted \cup {u},
           UNCHANGED <<nonce, sent, executed, chainNonce, result>>
    PROVE  S!Submit(t)
<1> DEFINE posters == {s \in Tasks : u \in sent[s]}
<1>1. LogOf' = LogOf /\ SlotOf' = SlotOf
    BY DEF LogOf, EntryOf, SlotOf
<1>2. SubmittedOf' = SubmittedOf \cup posters
    BY DEF SubmittedOf
<1>3. posters \in SUBSET {s \in Tasks : S!Twins(s, t) /\ SlotOf[s] = SlotOf[t]}
    BY PostersAreTwins
<1>4. SlotOf[t] # {}
    BY DEF SlotOf
<1> QED
    BY <1>1, <1>2, <1>3, <1>4 DEF S!Submit

\* t posts: it claims its slot, or posts again in the one it has.
LEMMA StepPost ==
    ASSUME RInv, NEW t \in Tasks, Send(t)
    PROVE  S!Claim(t) \/ S!Submit(t) \/ UNCHANGED S!vars
<1> DEFINE u == BuildUo(t)
<1>1. /\ sent' = [sent EXCEPT ![t] = @ \cup {u}]
      /\ UNCHANGED <<nonce, result, accepted, executed, chainNonce>>
    BY DEF Send, worldVars
<1>2. /\ u.sender = Wallet[t] /\ u.nonce = nonce[t] /\ u.data = Payload[t]
      /\ sent[t] \subseteq UserOp /\ sent'[t] = sent[t] \cup {u}
      /\ \A s \in Tasks \ {t} : sent'[s] = sent[s]
    BY <1>1 DEF BuildUo, RInv, IInv, TypeOK
<1>3. LogOf' = LogOf
    BY <1>1 DEF LogOf, EntryOf
<1>4. SlotOf' = [SlotOf EXCEPT ![t] = {nonce[t]}]
    BY <1>1, <1>2 DEF SlotOf
<1>5. SubmittedOf' = IF u \in accepted THEN SubmittedOf \cup {t} ELSE SubmittedOf
    BY <1>1, <1>2 DEF SubmittedOf
<1>6. CASE sent[t] = {}
  <2>1. result[t] = "none" /\ SlotOf[t] = {}
      BY <1>6 DEF Send, Goto, RInv, PoolInv, ResultWhenDone, SlotOf
  <2>2. nonce[t] \in 0 .. chainNonce[Wallet[t]]
      BY TaskAssumption DEF RInv, IInv, TypeOK, NonceReached
  <2>3. u \in accepted => \E s \in SubmittedOf : S!Twins(s, t) /\ SlotOf[s] = {nonce[t]}
    <3> SUFFICES ASSUME u \in accepted
                 PROVE  \E s \in SubmittedOf : S!Twins(s, t) /\ SlotOf[s] = {nonce[t]}
        OBVIOUS
    <3>1. PICK s \in Tasks : u \in sent[s]
        BY DEF RInv, PoolInv, AcceptedWasSent
    <3>2. s \in SubmittedOf
        BY <3>1 DEF SubmittedOf
    <3>3. Wallet[s] = Wallet[t] /\ Payload[s] = Payload[t] /\ nonce[s] = nonce[t]
        BY <3>1, <1>2 DEF RInv, IInv, SentWithNonce, SentWithPayload
    <3> QED
        BY <3>1, <3>2, <3>3 DEF S!Twins, SlotOf
  <2> QED
      BY <1>1, <1>3, <1>4, <1>5, <2>1, <2>2, <2>3 DEF S!Claim
<1>7. CASE sent[t] # {}
  <2>1. SlotOf[t] = {nonce[t]} /\ SlotOf' = SlotOf
      BY <1>4, <1>7 DEF SlotOf
  <2>2. CASE u \in accepted
    <3>1. SubmittedOf' = SubmittedOf \cup {t}
        BY <1>5, <2>2
    <3>2. {t} \in SUBSET {s \in Tasks : S!Twins(s, t) /\ SlotOf[s] = SlotOf[t]}
        BY DEF S!Twins
    <3> QED
        BY <1>1, <1>3, <2>1, <3>1, <3>2 DEF S!Submit
  <2>3. CASE u \notin accepted
      BY <1>1, <1>3, <1>5, <2>1, <2>3 DEF S!vars
  <2> QED
      BY <2>2, <2>3
<1> QED
    BY <1>6, <1>7

\* A pooled operation is executed: for one of those who posted it.
LEMMA StepExecute ==
    ASSUME RInv, NEW u \in accepted, HandleOps(u)
    PROVE  \E t \in Tasks : S!Execute(t)
<1>1. PICK t \in Tasks : u \in sent[t]
    BY DEF RInv, PoolInv, AcceptedWasSent
<1>2. /\ u.sender = Wallet[t] /\ u.nonce = nonce[t] /\ u.data = Payload[t]
      /\ u.nonce = chainNonce[u.sender]
    BY <1>1 DEF RInv, IInv, SentWithNonce, SentWithPayload, HandleOps, PassesValidation
<1>3. t \in SubmittedOf /\ SlotOf[t] = {chainNonce[Wallet[t]]}
    BY <1>1, <1>2 DEF SubmittedOf, SlotOf
<1>4. LogOf' = LogOf \cup {EntryOf(u)}
    BY DEF LogOf, EntryOf, HandleOps
<1>5. EntryOf(u) = [wallet |-> Wallet[t], slot |-> chainNonce[Wallet[t]],
                    data |-> Payload[t]]
    BY <1>2 DEF EntryOf
<1>6. /\ chainNonce' = [chainNonce EXCEPT ![Wallet[t]] = @ + 1]
      /\ UNCHANGED <<nonce, sent, accepted, result>>
    BY <1>2 DEF HandleOps, taskVars
<1>7. SlotOf' = SlotOf /\ SubmittedOf' = SubmittedOf
    BY <1>6 DEF SlotOf, SubmittedOf
<1> QED
    BY <1>3, <1>4, <1>5, <1>6, <1>7 DEF S!Execute

-----------------------------------------------------------------------------
(* The refinement.                                                         *)

LEMMA InitRefines == Init => S!Init
<1> SUFFICES ASSUME Init PROVE S!Init
    OBVIOUS
<1>1. LogOf = {} /\ SubmittedOf = {}
    BY DEF Init, LogOf, SubmittedOf
<1>2. SlotOf = [t \in Tasks |-> {}]
    BY DEF Init, SlotOf
<1> QED
    BY <1>1, <1>2 DEF Init, S!Init

LEMMA NextRefines == RInv /\ [Next]_vars => [S!Next]_(S!vars)
<1> SUFFICES ASSUME RInv, [Next]_vars PROVE [S!Next]_(S!vars)
    OBVIOUS
<1> USE DEF S!Next
<1>1. ASSUME NEW t \in Tasks,
             \/ Start(t) \/ (GetCode(t) /\ UNCHANGED result) \/ EstimateGas(t)
             \/ RetryCallGas(t) \/ RetryPreGas(t) \/ RetryVerGas(t)
             \/ RetryAfterTransportError(t) \/ RejectGas(t) \/ RejectUnknown(t)
      PROVE  UNCHANGED S!vars
    BY <1>1, StepInvisible DEF Start, GetCode, EstimateGas, RetryCallGas, RetryPreGas,
       RetryVerGas, RetryAfterTransportError, RejectGas, RejectUnknown, Answer, worldVars
<1>2. ASSUME NEW t \in Tasks, GetNonce(t) PROVE UNCHANGED S!vars
  <2>1. sent[t] = {}
      BY <1>2 DEF GetNonce, Goto, RInv, IInv, NothingSentYet
  <2>2. \A s \in Tasks : sent[s] # {} => nonce'[s] = nonce[s]
      BY <1>2, <2>1 DEF GetNonce, RInv, IInv, TypeOK
  <2> QED
      BY <1>2, <2>2, StepInvisible DEF GetNonce, worldVars
<1>3. ASSUME NEW t \in Tasks,
             \/ PanicOnIncompleteTx(t) \/ RefuseWalletName(t)
             \/ (GetCode(t) /\ ~ UNCHANGED result)
             \/ FailBeforeLoop(t) \/ PanicInLoop(t) \/ ReceiveUnknown(t)
      PROVE  S!Return(t)
  <2>1. \E r \in {"err", "panic"} : result' = [result EXCEPT ![t] = r]
      BY <1>3 DEF PanicOnIncompleteTx, RefuseWalletName, GetCode, FailBeforeLoop,
         PanicInLoop, ReceiveUnknown, Finish
  <2>2. pc[t] # "done" /\ UNCHANGED <<nonce, sent, accepted, executed, chainNonce>>
      BY <1>3 DEF PanicOnIncompleteTx, RefuseWalletName, GetCode, FailBeforeLoop,
         PanicInLoop, ReceiveUnknown, worldVars
  <2> QED
      BY <2>1, <2>2, StepReturn DEF Results
<1>4. ASSUME NEW t \in Tasks, ReceiveHash(t) PROVE S!Return(t)
  <2>1. /\ pc[t] # "done" /\ result' = [result EXCEPT ![t] = "ok"]
        /\ UNCHANGED <<nonce, sent, accepted, executed, chainNonce>>
      BY <1>4 DEF ReceiveHash, Finish, worldVars
  <2>2. t \in SubmittedOf
      BY <1>4 DEF ReceiveHash, RInv, PoolInv, HashOfPosted, AwaitsWhatItSent, SubmittedOf
  <2> QED
      BY <2>1, <2>2, StepReturn DEF Results
<1>5. ASSUME NEW t \in Tasks, AcceptUo(t) PROVE S!Submit(t)
  <2>1. BuildUo(t) \in sent[t]
      BY <1>5 DEF AcceptUo, Answer, RInv, PoolInv, AwaitsWhatItSent
  <2> QED
      BY <1>5, <2>1, StepAccept DEF AcceptUo, Answer
<1>6. ASSUME NEW t \in Tasks, LateArrival(t) PROVE S!Submit(t)
  <2>1. PICK u \in unanswered[t] : accepted' = accepted \cup {u}
      BY <1>6 DEF LateArrival
  <2>2. u \in sent[t]
      BY DEF RInv, PoolInv, UnansweredWasSent
  <2> QED
      BY <1>6, <2>1, <2>2, StepAccept DEF LateArrival, taskVars
<1>7. ASSUME NEW w \in Wallets, DeployWallet(w) PROVE UNCHANGED S!vars
    BY <1>7, StepInvisible DEF DeployWallet, taskVars
<1>8. ASSUME UNCHANGED vars PROVE UNCHANGED S!vars
    BY <1>8, StepInvisible DEF vars
<1> QED
    BY <1>1, <1>2, <1>3, <1>4, <1>5, <1>6, <1>7, <1>8, StepPost, StepExecute
    DEF Next, call, send_eth, BeforeLoop, SendLoop, Receive, Bundler

\* Every behaviour of call, send_eth, the bundler and the chain is, seen through
\* the mapping, a behaviour of Submission.
THEOREM Refinement == Spec => ImplementsSubmission
BY InitRefines, NextRefines, SpecRInv, PTL DEF Spec, S!Spec, ImplementsSubmission

SP == INSTANCE SubmissionProofs WITH
          log <- LogOf, height <- chainNonce, slot <- SlotOf,
          submitted <- SubmittedOf, outcome <- result

\* So what the chain executes for a wallet is one operation per nonce, without
\* a gap, and each of them was posted, with its payload and its nonce, by an
\* invocation that asked for it.
THEOREM ExecutedIsHistory == Spec => [](S!OneEntryPerSlot /\ S!AskedFor)
<1>1. SP!TaskTypes
    BY TaskAssumption DEF SP!TaskTypes
<1>2. S!Init => SP!Init
    BY DEF S!Init, SP!Init
<1>3. [S!Next]_(S!vars) => [SP!Next]_(SP!vars)
    BY DEF S!Next, SP!Next, S!vars, SP!vars, S!Claim, SP!Claim, S!Submit, SP!Submit,
       S!Execute, SP!Execute, S!Return, SP!Return, S!Outcomes, SP!Outcomes,
       S!Twins, SP!Twins
<1>4. /\ SP!OneEntryPerSlot => S!OneEntryPerSlot
      /\ SP!AskedFor => S!AskedFor
    BY DEF S!OneEntryPerSlot, SP!OneEntryPerSlot, S!AskedFor, SP!AskedFor
<1>5. SP!Spec => []SP!OneEntryPerSlot
    BY <1>1, SP!HistoryHasNoGap
<1>6. SP!Spec => []SP!AskedFor
    BY <1>1, SP!EntriesWereAskedFor
<1> QED
    BY <1>2, <1>3, <1>4, <1>5, <1>6, Refinement, PTL
    DEF ImplementsSubmission, S!Spec, SP!Spec

=============================================================================
