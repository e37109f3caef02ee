------------------------ MODULE UserOpMiddlewareProofs ------------------------
(***************************************************************************)
(* Proofs about UserOpMiddleware for any number of invocations, wallets and *)
(* payloads and for any integer widths: type correctness, at-most-once     *)
(* execution of the operations of one invocation, that no operation is      *)
(* posted for a nonce that lies ahead of the chain, what may be left in the *)
(* pool, and that the retries make progress.                               *)
(*                                                                         *)
(* At-most-once is not inductive.  The strengthening says why it holds:     *)
(* everything an invocation has posted carries the nonce it holds now,      *)
(* which cannot change any more once something is posted, and the          *)
(* EntryPoint executes one operation per sender and nonce.                 *)
(***************************************************************************)
EXTENDS UserOpMiddleware, TLAPS

\* What is posted carries the sender and the nonce of the invocation.
SentWithNonce ==
    \A t \in Tasks : \A u \in sent[t] : u.sender = Wallet[t] /\ u.nonce = nonce[t]

\* Nothing is posted before the nonce has been read.
NothingSentYet ==
    \A t \in Tasks : pc[t] \in {"idle", "code", "nonce", "estimate"} => sent[t] = {}

\* The nonce an invocation holds is one the EntryPoint has reached.
NonceReached ==
    \A t \in Tasks : nonce[t] <= chainNonce[Wallet[t]]

\* The EntryPoint has moved past the nonce of everything it executed, and
\* executed one operation per sender and nonce.
ExecutedIsPast ==
    \A u \in executed : u.nonce < chainNonce[u.sender]

ExecutedOnce ==
    \A u, v \in executed : u.sender = v.sender /\ u.nonce = v.nonce => u = v

IInv ==
    /\ TypeOK
    /\ SentWithNonce
    /\ NothingSentYet
    /\ NonceReached
    /\ ExecutedIsPast
    /\ ExecutedOnce

\* An invocation that waits for an answer has posted what it would build now.
AwaitsWhatItSent ==
    \A t \in Tasks : pc[t] = "await" => BuildUo(t) \in sent[t]

\* Only posted operations go unanswered, and only posted ones are pooled.
UnansweredWasSent ==
    \A t \in Tasks : unanswered[t] \subseteq sent[t]

AcceptedWasSent ==
    \A u \in accepted : \E t \in Tasks : u \in sent[t]

\* A hash on the wire is the hash of the operation the reader is waiting for,
\* and that operation is in the pool.
HashOfPosted ==
    \A t \in Tasks : pc[t] = "await" /\ reply[t].kind = "result"
        => reply[t].hash = {BuildUo(t)} /\ BuildUo(t) \in accepted

\* Only an invocation that has returned has a result.
ResultWhenDone ==
    \A t \in Tasks : result[t] # "none" => pc[t] = "done"

\* OnlyUnansweredLive inside the loop: a pooled operation of t is one whose
\* answer was lost, one another invocation posted as well, or the one whose
\* hash t is about to read.
LiveInLoop ==
    \A t \in Tasks : pc[t] \in {"send", "await"} =>
        \A u \in sent[t] \cap accepted :
            \/ u \in unanswered[t]
            \/ \E other \in Tasks \ {t} : u \in sent[other]
            \/ pc[t] = "await" /\ reply[t].kind = "result" /\ u = BuildUo(t)

PoolInv ==
    /\ AwaitsWhatItSent
    /\ UnansweredWasSent
    /\ AcceptedWasSent
    /\ HashOfPosted
    /\ ResultWhenDone
    /\ LiveInLoop
    /\ OkWasAccepted
    /\ OnlyUnansweredLive

-----------------------------------------------------------------------------
(* Lemmas about the operators of the model.                                *)

\* The operation the loop builds is a well-formed operation.
LEMMA BuildUoType ==
    ASSUME TypeOK, NEW t \in Tasks
    PROVE  BuildUo(t) \in UserOp
BY TaskAssumption DEF TypeOK, BuildUo, UserOp

\* saturating_add of two naturals never leaves the range of a U256.
LEMMA SaturatingAddType ==
    ASSUME NEW a \in Nat, NEW b \in Nat
    PROVE  SaturatingAdd(a, b) \in GasVal
BY GasAssumption DEF SaturatingAdd, GasVal

\* The empty answer and a refusal without figures are answers.
LEMMA NoReplyType ==
    /\ NoReply \in Reply
    /\ NoGas \in Gas
BY GasAssumption DEF NoReply, NoGas, Reply, ReplyKinds, Gas, GasVal

-----------------------------------------------------------------------------
(* Type correctness.                                                       *)

LEMMA InitTypeOK == Init => TypeOK
BY NoReplyType DEF Init, TypeOK, PCs, Results

LEMMA NextTypeOK == TypeOK /\ [Next]_vars => TypeOK'
<1> SUFFICES ASSUME TypeOK, [Next]_vars PROVE TypeOK'
    OBVIOUS
<1> USE NoReplyType DEF TypeOK
<1>1. ASSUME NEW t \in Tasks, Start(t) PROVE TypeOK'
    BY <1>1 DEF Start, Goto, PCs, worldVars
<1>2. ASSUME NEW t \in Tasks, PanicOnIncompleteTx(t) PROVE TypeOK'
    BY <1>2 DEF PanicOnIncompleteTx, Finish, PCs, Results, worldVars
<1>3. ASSUME NEW t \in Tasks, RefuseWalletName(t) PROVE TypeOK'
    BY <1>3 DEF RefuseWalletName, Finish, PCs, Results, worldVars
<1>4. ASSUME NEW t \in Tasks, GetCode(t) PROVE TypeOK'
    BY <1>4 DEF GetCode, Goto, Finish, PCs, Results, worldVars
<1>5. ASSUME NEW t \in Tasks, GetNonce(t) PROVE TypeOK'
    BY <1>5, TaskAssumption DEF GetNonce, Goto, PCs, worldVars
<1>6. ASSUME NEW t \in Tasks, EstimateGas(t) PROVE TypeOK'
  <2>1. PICK e \in Estimates :
            gas' = [gas EXCEPT ![t] =
                      [call |-> e.call, pre |-> e.pre, ver |-> SaturatingAdd(e.ver, Margin)]]
    BY <1>6 DEF EstimateGas
  <2>2. e \in Gas
    BY GasAssumption
  <2>3. SaturatingAdd(e.ver, Margin) \in GasVal
    <3>1. e.ver \in Nat /\ Margin \in Nat
      BY <2>2, GasAssumption DEF Gas, GasVal
    <3> QED
      BY <3>1, SaturatingAddType
  <2>4. gas' \in [Tasks -> Gas]
    BY <2>1, <2>2, <2>3 DEF Gas
  <2> QED
    BY <1>6, <2>4 DEF EstimateGas, Goto, PCs, worldVars
<1>7. ASSUME NEW t \in Tasks, FailBeforeLoop(t) PROVE TypeOK'
    BY <1>7 DEF FailBeforeLoop, Finish, PCs, Results, worldVars
<1>8. ASSUME NEW t \in Tasks, Send(t) PROVE TypeOK'
  <2>1. BuildUo(t) \in UserOp
    BY BuildUoType
  <2> QED
    BY <1>8, <2>1 DEF Send, Goto, PCs, worldVars
<1>9. ASSUME NEW t \in Tasks, ReceiveHash(t) PROVE TypeOK'
    BY <1>9 DEF ReceiveHash, Finish, PCs, Results, Reply, worldVars
<1>10. ASSUME NEW t \in Tasks, RetryCallGas(t) PROVE TypeOK'
  <2>1. reply[t].needed \in GasVal
    BY DEF Reply
  <2>2. gas' \in [Tasks -> Gas]
    BY <1>10, <2>1 DEF RetryCallGas, Gas
  <2> QED
    BY <1>10, <2>2 DEF RetryCallGas, Goto, PCs, worldVars
<1>11. ASSUME NEW t \in Tasks, RetryPreGas(t) PROVE TypeOK'
  <2>1. reply[t].needed \in GasVal
    BY DEF Reply
  <2>2. gas' \in [Tasks -> Gas]
    BY <1>11, <2>1 DEF RetryPreGas, Gas
  <2> QED
    BY <1>11, <2>2 DEF RetryPreGas, Goto, PCs, worldVars
<1>12. ASSUME NEW t \in Tasks, RetryVerGas(t) PROVE TypeOK'
  <2>1. Step[Kind[t]] \in Nat
    BY TaskAssumption, GasAssumption
  <2>2. gas[t].ver + Step[Kind[t]] \in GasVal
    BY <1>12, <2>1, GasAssumption DEF RetryVerGas, Gas, GasVal
  <2>3. gas' \in [Tasks -> Gas]
    BY <1>12, <2>2 DEF RetryVerGas, Gas
  <2> QED
    BY <1>12, <2>3 DEF RetryVerGas, Goto, PCs, worldVars
<1>13. ASSUME NEW t \in Tasks, PanicInLoop(t) PROVE TypeOK'
    BY <1>13 DEF PanicInLoop, Finish, PCs, Results, worldVars
<1>14. ASSUME NEW t \in Tasks, ReceiveUnknown(t) PROVE TypeOK'
    BY <1>14 DEF ReceiveUnknown, Finish, PCs, Results, worldVars
<1>15. ASSUME NEW t \in Tasks, RetryAfterTransportError(t) PROVE TypeOK'
  <2>1. BuildUo(t) \in UserOp
    BY BuildUoType
  <2> QED
    BY <1>15, <2>1 DEF RetryAfterTransportError, Goto, PCs, worldVars
<1>16. ASSUME NEW t \in Tasks, AcceptUo(t) PROVE TypeOK'
  <2>1. BuildUo(t) \in UserOp
    BY BuildUoType
  <2>2. [NoReply EXCEPT !.kind = "result", !.hash = {BuildUo(t)}] \in Reply
    BY <2>1 DEF Reply, ReplyKinds
  <2> QED
    BY <1>16, <2>1, <2>2 DEF AcceptUo, Answer
<1>17. ASSUME NEW t \in Tasks, RejectGas(t) PROVE TypeOK'
  <2>1. PICK d \in Demands :
            \/ Answer(t, [NoReply EXCEPT !.kind = "callGas",
                             !.given = gas[t].call, !.needed = d.call])
            \/ Answer(t, [NoReply EXCEPT !.kind = "preGas",
                             !.given = gas[t].pre, !.needed = d.pre])
            \/ Answer(t, [NoReply EXCEPT !.kind = "verGas"])
    BY <1>17 DEF RejectGas
  <2>2. d \in Gas /\ gas[t] \in Gas
    BY GasAssumption
  <2>3. /\ [NoReply EXCEPT !.kind = "callGas",
                             !.given = gas[t].call, !.needed = d.call] \in Reply
        /\ [NoReply EXCEPT !.kind = "preGas",
                             !.given = gas[t].pre, !.needed = d.pre] \in Reply
        /\ [NoReply EXCEPT !.kind = "verGas"] \in Reply
    BY <2>2 DEF Reply, ReplyKinds, Gas
  <2> QED
    BY <1>17, <2>1, <2>3 DEF RejectGas, Answer, worldVars
<1>18. ASSUME NEW t \in Tasks, RejectUnknown(t) PROVE TypeOK'
  <2>1. [NoReply EXCEPT !.kind = "unknown"] \in Reply
    BY DEF Reply, ReplyKinds
  <2> QED
    BY <1>18, <2>1 DEF RejectUnknown, Answer, worldVars
<1>19. ASSUME NEW t \in Tasks, LateArrival(t) PROVE TypeOK'
    BY <1>19 DEF LateArrival, taskVars
<1>20. ASSUME NEW w \in Wallets, DeployWallet(w) PROVE TypeOK'
    BY <1>20 DEF DeployWallet, taskVars
<1>21. ASSUME NEW u \in accepted, HandleOps(u) PROVE TypeOK'
    BY <1>21 DEF HandleOps, taskVars, UserOp
<1>22. ASSUME UNCHANGED vars PROVE TypeOK'
    BY <1>22 DEF vars
<1> QED
    BY <1>1, <1>2, <1>3, <1>4, <1>5, <1>6, <1>7, <1>8, <1>9, <1>10, <1>11,
       <1>12, <1>13, <1>14, <1>15, <1>16, <1>17, <1>18, <1>19, <1>20, <1>21, <1>22
    DEF Next, call, send_eth, BeforeLoop, SendLoop, Receive, Bundler

\* Every reachable state is well typed: in particular no gas limit leaves the
\* range of a U256, because `+=` unwinds and saturating_add stops there.
THEOREM TypeCorrect == Spec => []TypeOK
BY InitTypeOK, NextTypeOK, PTL DEF Spec

-----------------------------------------------------------------------------
(* At most once.                                                           *)

LEMMA InitIInv == Init => IInv
<1> SUFFICES ASSUME Init PROVE IInv
    OBVIOUS
<1>1. TypeOK
    BY InitTypeOK
<1> QED
    BY <1>1, TaskAssumption DEF Init, IInv, SentWithNonce, NothingSentYet,
       NonceReached, ExecutedIsPast, ExecutedOnce

LEMMA NextIInv == IInv /\ [Next]_vars => IInv'
<1> SUFFICES ASSUME IInv, [Next]_vars PROVE IInv'
    OBVIOUS
<1>0. TypeOK /\ TypeOK'
    BY NextTypeOK DEF IInv
<1> DEFINE Rest == /\ SentWithNonce /\ NothingSentYet /\ NonceReached
                   /\ ExecutedIsPast /\ ExecutedOnce
<1> SUFFICES Rest'
    BY <1>0 DEF IInv
<1> USE <1>0, TaskAssumption DEF IInv, TypeOK, SentWithNonce, NothingSentYet,
        NonceReached, ExecutedIsPast, ExecutedOnce
<1>1. ASSUME NEW t \in Tasks, Start(t) PROVE Rest'
    BY <1>1 DEF Start, Goto, worldVars
<1>2. ASSUME NEW t \in Tasks, PanicOnIncompleteTx(t) PROVE Rest'
    BY <1>2 DEF PanicOnIncompleteTx, Finish, worldVars
<1>3. ASSUME NEW t \in Tasks, RefuseWalletName(t) PROVE Rest'
    BY <1>3 DEF RefuseWalletName, Finish, worldVars
<1>4. ASSUME NEW t \in Tasks, GetCode(t) PROVE Rest'
    BY <1>4 DEF GetCode, Goto, Finish, worldVars
<1>5. ASSUME NEW t \in Tasks, GetNonce(t) PROVE Rest'
    BY <1>5 DEF GetNonce, Goto, worldVars
<1>6. ASSUME NEW t \in Tasks, EstimateGas(t) PROVE Rest'
    BY <1>6 DEF EstimateGas, Goto, worldVars
<1>7. ASSUME NEW t \in Tasks, FailBeforeLoop(t) PROVE Rest'
    BY <1>7 DEF FailBeforeLoop, Finish, worldVars
<1>8. ASSUME NEW t \in Tasks, Send(t) PROVE Rest'
    BY <1>8 DEF Send, Goto, BuildUo, worldVars
<1>9. ASSUME NEW t \in Tasks, ReceiveHash(t) PROVE Rest'
    BY <1>9 DEF ReceiveHash, Finish, worldVars
<1>10. ASSUME NEW t \in Tasks, RetryCallGas(t) PROVE Rest'
    BY <1>10 DEF RetryCallGas, Goto, worldVars
<1>11. ASSUME NEW t \in Tasks, RetryPreGas(t) PROVE Rest'
    BY <1>11 DEF RetryPreGas, Goto, worldVars
<1>12. ASSUME NEW t \in Tasks, RetryVerGas(t) PROVE Rest'
    BY <1>12 DEF RetryVerGas, Goto, worldVars
<1>13. ASSUME NEW t \in Tasks, PanicInLoop(t) PROVE Rest'
    BY <1>13 DEF PanicInLoop, Finish, worldVars
<1>14. ASSUME NEW t \in Tasks, ReceiveUnknown(t) PROVE Rest'
    BY <1>14 DEF ReceiveUnknown, Finish, worldVars
<1>15. ASSUME NEW t \in Tasks, RetryAfterTransportError(t) PROVE Rest'
    BY <1>15 DEF RetryAfterTransportError, Goto, worldVars
<1>16. ASSUME NEW t \in Tasks, AcceptUo(t) PROVE Rest'
    BY <1>16 DEF AcceptUo, Answer
<1>17. ASSUME NEW t \in Tasks, RejectGas(t) PROVE Rest'
    BY <1>17 DEF RejectGas, Answer, worldVars
<1>18. ASSUME NEW t \in Tasks, RejectUnknown(t) PROVE Rest'
    BY <1>18 DEF RejectUnknown, Answer, worldVars
<1>19. ASSUME NEW t \in Tasks, LateArrival(t) PROVE Rest'
    BY <1>19 DEF LateArrival, taskVars
<1>20. ASSUME NEW w \in Wallets, DeployWallet(w) PROVE Rest'
    BY <1>20 DEF DeployWallet, taskVars
<1>21. ASSUME NEW u \in accepted, HandleOps(u) PROVE Rest'
  <2>1. u \in UserOp /\ u.sender \in Wallets /\ u.nonce = chainNonce[u.sender]
    BY <1>21 DEF HandleOps, PassesValidation, UserOp
  <2>2. \A w \in Wallets : chainNonce[w] <= chainNonce'[w]
    BY <1>21, <2>1 DEF HandleOps
  <2>3. chainNonce'[u.sender] = u.nonce + 1 /\ executed' = executed \cup {u}
    BY <1>21, <2>1 DEF HandleOps
  <2>4. SentWithNonce' /\ NothingSentYet'
    BY <1>21 DEF HandleOps, taskVars
  <2>5. NonceReached'
    BY <1>21, <2>2 DEF HandleOps, taskVars
  <2>6. \A v \in executed : v.sender \in Wallets /\ v.nonce \in Nat
    BY DEF UserOp
  <2>7. ExecutedIsPast'
    BY <2>1, <2>2, <2>3, <2>6
  <2>8. ExecutedOnce'
    BY <2>1, <2>3, <2>6
  <2> QED
    BY <2>4, <2>5, <2>7, <2>8
<1>22. ASSUME UNCHANGED vars PROVE Rest'
    BY <1>22 DEF vars
<1> QED
    BY <1>1, <1>2, <1>3, <1>4, <1>5, <1>6, <1>7, <1>8, <1>9, <1>10, <1>11,
       <1>12, <1>13, <1>14, <1>15, <1>16, <1>17, <1>18, <1>19, <1>20, <1>21, <1>22
    DEF Next, call, send_eth, BeforeLoop, SendLoop, Receive, Bundler

LEMMA SpecIInv == Spec => []IInv
BY InitIInv, NextIInv, PTL DEF Spec

\* However often the loop of `call` or `send_eth` posts, the chain executes at
\* most one of the operations of an invocation.
THEOREM SubmittedAtMostOnce == Spec => []AtMostOnce
<1>1. IInv => AtMostOnce
    BY DEF IInv, SentWithNonce, ExecutedOnce, AtMostOnce
<1> QED
    BY <1>1, SpecIInv, PTL

\* No invocation posts an operation whose nonce lies ahead of the EntryPoint's.
THEOREM NoncesReached == Spec => []NonceNeverAhead
<1>1. IInv => NonceNeverAhead
    BY TaskAssumption
    DEF IInv, TypeOK, SentWithNonce, NonceReached, NonceNeverAhead
<1> QED
    BY <1>1, SpecIInv, PTL

-----------------------------------------------------------------------------
(* What is left in the pool.                                              *)

LEMMA InitPoolInv == Init => PoolInv
BY DEF Init, PoolInv, AwaitsWhatItSent, UnansweredWasSent, AcceptedWasSent, HashOfPosted,
       ResultWhenDone, LiveInLoop, OkWasAccepted, OnlyUnansweredLive

\* Before its loop an invocation has posted nothing: a step of it that touches
\* neither pool nor connections, and does not succeed, is harmless.
LEMMA StepBeforeLoop ==
    ASSUME IInv, PoolInv, NEW t \in Tasks,
           pc[t] \in {"idle", "code", "nonce", "estimate"},
           pc'[t] # "await", result'[t] # "ok",
           result'[t] # "none" => pc'[t] = "done",
           \A s \in Tasks \ {t} :
               pc'[s] = pc[s] /\ result'[s] = result[s] /\ BuildUo(s)' = BuildUo(s),
           UNCHANGED <<uoHash, reply, sent, unanswered, accepted>>
    PROVE  PoolInv'
<1> USE DEF PoolInv
<1>1. sent[t] = {}
    BY DEF IInv, NothingSentYet
<1>2. AwaitsWhatItSent' /\ HashOfPosted' /\ ResultWhenDone'
    BY DEF AwaitsWhatItSent, HashOfPosted, ResultWhenDone
<1>3. UnansweredWasSent' /\ AcceptedWasSent' /\ OkWasAccepted'
    BY DEF UnansweredWasSent, AcceptedWasSent, OkWasAccepted
<1>4. LiveInLoop' /\ OnlyUnansweredLive'
    BY <1>1 DEF LiveInLoop, OnlyUnansweredLive
<1> QED
    BY <1>2, <1>3, <1>4

\* A refusal written on the connection of t carries no hash.
LEMMA StepRefuse ==
    ASSUME PoolInv, NEW t \in Tasks,
           reply[t].kind # "result", reply'[t].kind # "result",
           \A s \in Tasks \ {t} : reply'[s] = reply[s],
           UNCHANGED <<pc, nonce, gas, uoHash, result, sent, unanswered, accepted>>
    PROVE  PoolInv'
<1> USE DEF PoolInv, BuildUo
<1>1. HashOfPosted' /\ LiveInLoop'
    BY DEF HashOfPosted, LiveInLoop
<1>2. AwaitsWhatItSent' /\ UnansweredWasSent' /\ AcceptedWasSent'
    BY DEF AwaitsWhatItSent, UnansweredWasSent, AcceptedWasSent
<1>3. ResultWhenDone' /\ OkWasAccepted' /\ OnlyUnansweredLive'
    BY DEF ResultWhenDone, OkWasAccepted, OnlyUnansweredLive
<1> QED
    BY <1>1, <1>2, <1>3

LEMMA NextPoolInv == IInv /\ PoolInv /\ [Next]_vars => PoolInv'
<1> SUFFICES ASSUME IInv, PoolInv, [Next]_vars PROVE PoolInv'
    OBVIOUS
<1> USE DEF IInv, TypeOK, PoolInv, AwaitsWhatItSent, UnansweredWasSent, AcceptedWasSent, HashOfPosted,
        ResultWhenDone, LiveInLoop, OkWasAccepted, OnlyUnansweredLive
<1>1. ASSUME NEW t \in Tasks, Start(t) PROVE PoolInv'
  <2>1. /\ pc[t] \in {"idle", "code", "nonce", "estimate"}
        /\ pc'[t] # "await" /\ result'[t] # "ok"
        /\ result'[t] # "none" => pc'[t] = "done"
        /\ UNCHANGED <<uoHash, reply, sent, unanswered, accepted>>
    BY <1>1 DEF Start, Goto, ResultWhenDone, worldVars
  <2>2. \A s \in Tasks \ {t} :
            pc'[s] = pc[s] /\ result'[s] = result[s] /\ BuildUo(s)' = BuildUo(s)
    BY <1>1 DEF Start, Goto, BuildUo
  <2> QED
    BY <2>1, <2>2, StepBeforeLoop
<1>2. ASSUME NEW t \in Tasks, PanicOnIncompleteTx(t) PROVE PoolInv'
  <2>1. /\ pc[t] \in {"idle", "code", "nonce", "estimate"}
        /\ pc'[t] # "await" /\ result'[t] # "ok"
        /\ result'[t] # "none" => pc'[t] = "done"
        /\ UNCHANGED <<uoHash, reply, sent, unanswered, accepted>>
    BY <1>2 DEF PanicOnIncompleteTx, Finish, ResultWhenDone, worldVars
  <2>2. \A s \in Tasks \ {t} :
            pc'[s] = pc[s] /\ result'[s] = result[s] /\ BuildUo(s)' = BuildUo(s)
    BY <1>2 DEF PanicOnIncompleteTx, Finish, BuildUo
  <2> QED
    BY <2>1, <2>2, StepBeforeLoop
<1>3. ASSUME NEW t \in Tasks, RefuseWalletName(t) PROVE PoolInv'
  <2>1. /\ pc[t] \in {"idle", "code", "nonce", "estimate"}
        /\ pc'[t] # "await" /\ result'[t] # "ok"
        /\ result'[t] # "none" => pc'[t] = "done"
        /\ UNCHANGED <<uoHash, reply, sent, unanswered, accepted>>
    BY <1>3 DEF RefuseWalletName, Finish, ResultWhenDone, worldVars
  <2>2. \A s \in Tasks \ {t} :
            pc'[s] = pc[s] /\ result'[s] = result[s] /\ BuildUo(s)' = BuildUo(s)
    BY <1>3 DEF RefuseWalletName, Finish, BuildUo
  <2> QED
    BY <2>1, <2>2, StepBeforeLoop
<1>4. ASSUME NEW t \in Tasks, GetCode(t) PROVE PoolInv'
  <2>1. /\ pc[t] \in {"idle", "code", "nonce", "estimate"}
        /\ pc'[t] # "await" /\ result'[t] # "ok"
        /\ result'[t] # "none" => pc'[t] = "done"
        /\ UNCHANGED <<uoHash, reply, sent, unanswered, accepted>>
    BY <1>4 DEF GetCode, Goto, Finish, ResultWhenDone, worldVars
  <2>2. \A s \in Tasks \ {t} :
            pc'[s] = pc[s] /\ result'[s] = result[s] /\ BuildUo(s)' = BuildUo(s)
    BY <1>4 DEF GetCode, Goto, Finish, BuildUo
  <2> QED
    BY <2>1, <2>2, StepBeforeLoop
<1>5. ASSUME NEW t \in Tasks, GetNonce(t) PROVE PoolInv'
  <2>1. /\ pc[t] \in {"idle", "code", "nonce", "estimate"}
        /\ pc'[t] # "await" /\ result'[t] # "ok"
        /\ result'[t] # "none" => pc'[t] = "done"
        /\ UNCHANGED <<uoHash, reply, sent, unanswered, accepted>>
    BY <1>5 DEF GetNonce, Goto, ResultWhenDone, worldVars
  <2>2. \A s \in Tasks \ {t} :
            pc'[s] = pc[s] /\ result'[s] = result[s] /\ BuildUo(s)' = BuildUo(s)
    BY <1>5 DEF GetNonce, Goto, BuildUo
  <2> QED
    BY <2>1, <2>2, StepBeforeLoop
<1>6. ASSUME NEW t \in Tasks, EstimateGas(t) PROVE PoolInv'
  <2>1. /\ pc[t] \in {"idle", "code", "nonce", "estimate"}
        /\ pc'[t] # "await" /\ result'[t] # "ok"
        /\ result'[t] # "none" => pc'[t] = "done"
        /\ UNCHANGED <<uoHash, reply, sent, unanswered, accepted>>
    BY <1>6 DEF EstimateGas, Goto, ResultWhenDone, worldVars
  <2>2. \A s \in Tasks \ {t} :
            pc'[s] = pc[s] /\ result'[s] = result[s] /\ BuildUo(s)' = BuildUo(s)
    BY <1>6 DEF EstimateGas, Goto, BuildUo
  <2> QED
    BY <2>1, <2>2, StepBeforeLoop
<1>7. ASSUME NEW t \in Tasks, FailBeforeLoop(t) PROVE PoolInv'
  <2>1. /\ pc[t] \in {"idle", "code", "nonce", "estimate"}
        /\ pc'[t] # "await" /\ result'[t] # "ok"
        /\ result'[t] # "none" => pc'[t] = "done"
        /\ UNCHANGED <<uoHash, reply, sent, unanswered, accepted>>
    BY <1>7 DEF FailBeforeLoop, Finish, ResultWhenDone, worldVars
  <2>2. \A s \in Tasks \ {t} :
            pc'[s] = pc[s] /\ result'[s] = result[s] /\ BuildUo(s)' = BuildUo(s)
    BY <1>7 DEF FailBeforeLoop, Finish, BuildUo
  <2> QED
    BY <2>1, <2>2, StepBeforeLoop
<1>8. ASSUME NEW t \in Tasks, Send(t) PROVE PoolInv'
  <2>1. /\ pc' = [pc EXCEPT ![t] = "await"] /\ pc[t] = "send"
        /\ reply' = [reply EXCEPT ![t] = NoReply]
        /\ sent' = [sent EXCEPT ![t] = @ \cup {BuildUo(t)}]
        /\ UNCHANGED <<gas, nonce, uoHash, result, unanswered, accepted>>
    BY <1>8 DEF Send, Goto, worldVars
  <2>2. \A s \in Tasks : BuildUo(s)' = BuildUo(s)
    BY <2>1 DEF BuildUo
  <2>3. \A s \in Tasks : sent[s] \subseteq sent'[s]
    BY <2>1
  <2>4. /\ AwaitsWhatItSent' /\ UnansweredWasSent' /\ AcceptedWasSent'
        /\ ResultWhenDone' /\ OkWasAccepted'
    BY <2>1, <2>2, <2>3
  <2>5. HashOfPosted'
    BY <2>1, <2>2 DEF NoReply
  <2>6. ASSUME NEW s \in Tasks, NEW u \in sent'[s] \cap accepted, u \notin sent[s]
        PROVE  \E other \in Tasks \ {s} : u \in sent'[other]
    BY <2>1, <2>6
  <2>7. LiveInLoop'
    BY <2>1, <2>2, <2>3, <2>6
  <2>8. OnlyUnansweredLive'
    BY <2>1, <2>3, <2>6
  <2> QED
    BY <2>4, <2>5, <2>7, <2>8
<1>9. ASSUME NEW t \in Tasks, ReceiveHash(t) PROVE PoolInv'
  <2>1. /\ pc[t] = "await" /\ reply[t].kind = "result"
        /\ pc' = [pc EXCEPT ![t] = "done"]
        /\ result' = [result EXCEPT ![t] = "ok"]
        /\ uoHash' = [uoHash EXCEPT ![t] = reply[t].hash]
        /\ UNCHANGED <<gas, nonce, reply, sent, unanswered, accepted>>
    BY <1>9 DEF ReceiveHash, Finish, worldVars
  <2>2. \A s \in Tasks : BuildUo(s)' = BuildUo(s)
    BY <2>1 DEF BuildUo
  <2>3. uoHash'[t] = {BuildUo(t)} /\ BuildUo(t) \in sent[t] \cap accepted
    BY <2>1
  <2>4. /\ AwaitsWhatItSent' /\ UnansweredWasSent' /\ AcceptedWasSent'
        /\ HashOfPosted' /\ ResultWhenDone' /\ LiveInLoop'
    BY <2>1, <2>2
  <2>5. OkWasAccepted'
    BY <2>1, <2>3
  <2>6. OnlyUnansweredLive'
    BY <2>1, <2>3
  <2> QED
    BY <2>4, <2>5, <2>6
<1>10. ASSUME NEW t \in Tasks, RetryCallGas(t) PROVE PoolInv'
    BY <1>10 DEF RetryCallGas, Goto, BuildUo, worldVars
<1>11. ASSUME NEW t \in Tasks, RetryPreGas(t) PROVE PoolInv'
    BY <1>11 DEF RetryPreGas, Goto, BuildUo, worldVars
<1>12. ASSUME NEW t \in Tasks, RetryVerGas(t) PROVE PoolInv'
    BY <1>12 DEF RetryVerGas, Goto, BuildUo, worldVars
<1>13. ASSUME NEW t \in Tasks, PanicInLoop(t) PROVE PoolInv'
    BY <1>13 DEF PanicInLoop, Finish, FiguresOverflow, BuildUo, worldVars
<1>14. ASSUME NEW t \in Tasks, ReceiveUnknown(t) PROVE PoolInv'
    BY <1>14 DEF ReceiveUnknown, Finish, BuildUo, worldVars
<1>15. ASSUME NEW t \in Tasks, RetryAfterTransportError(t) PROVE PoolInv'
    BY <1>15 DEF RetryAfterTransportError, Goto, BuildUo, worldVars
<1>16. ASSUME NEW t \in Tasks, AcceptUo(t) PROVE PoolInv'
  <2>1. /\ pc[t] = "await"
        /\ accepted' = accepted \cup {BuildUo(t)}
        /\ reply' = [reply EXCEPT ![t] =
                       [NoReply EXCEPT !.kind = "result", !.hash = {BuildUo(t)}]]
        /\ UNCHANGED <<pc, gas, nonce, uoHash, result, sent, unanswered>>
    BY <1>16 DEF AcceptUo, Answer
  <2>2. /\ reply'[t].kind = "result" /\ reply'[t].hash = {BuildUo(t)}
        /\ \A s \in Tasks \ {t} : reply'[s] = reply[s]
    BY <2>1 DEF NoReply
  <2>3. \A s \in Tasks : BuildUo(s)' = BuildUo(s)
    BY <2>1 DEF BuildUo
  <2>4. BuildUo(t) \in sent[t]
    BY <2>1
  <2>5. AwaitsWhatItSent' /\ UnansweredWasSent' /\ ResultWhenDone' /\ OkWasAccepted'
    BY <2>1, <2>3
  <2>6. AcceptedWasSent'
    BY <2>1, <2>4
  <2>7. HashOfPosted'
    BY <2>1, <2>2, <2>3
  <2>8. LiveInLoop'
    BY <2>1, <2>2, <2>3, <2>4
  <2>9. OnlyUnansweredLive'
    BY <2>1, <2>4
  <2> QED
    BY <2>5, <2>6, <2>7, <2>8, <2>9
<1>17. ASSUME NEW t \in Tasks, RejectGas(t) PROVE PoolInv'
  <2> DEFINE r1(d) == [NoReply EXCEPT !.kind = "callGas",
                                      !.given = gas[t].call, !.needed = d.call]
             r2(d) == [NoReply EXCEPT !.kind = "preGas",
                                      !.given = gas[t].pre, !.needed = d.pre]
             r3    == [NoReply EXCEPT !.kind = "verGas"]
  <2>1. PICK d \in Demands : Answer(t, r1(d)) \/ Answer(t, r2(d)) \/ Answer(t, r3)
    BY <1>17 DEF RejectGas
  <2>2. r1(d).kind = "callGas" /\ r2(d).kind = "preGas" /\ r3.kind = "verGas"
    BY DEF NoReply
  <2>3. PICK r \in {r1(d), r2(d), r3} : Answer(t, r)
    BY <2>1
  <2>4. r.kind # "result"
    BY <2>2, <2>3
  <2> HIDE DEF r1, r2, r3
  <2>5. /\ reply[t].kind # "result" /\ reply'[t].kind # "result"
        /\ \A s \in Tasks \ {t} : reply'[s] = reply[s]
    BY <2>3, <2>4 DEF Answer
  <2>6. UNCHANGED <<pc, nonce, gas, uoHash, result, sent, unanswered, accepted>>
    BY <1>17, <2>3 DEF RejectGas, Answer, worldVars
  <2> QED
    BY <2>5, <2>6, StepRefuse
<1>18. ASSUME NEW t \in Tasks, RejectUnknown(t) PROVE PoolInv'
  <2>1. [NoReply EXCEPT !.kind = "unknown"].kind = "unknown"
    BY DEF NoReply
  <2>2. /\ reply[t].kind # "result" /\ reply'[t].kind # "result"
        /\ \A s \in Tasks \ {t} : reply'[s] = reply[s]
        /\ UNCHANGED <<pc, nonce, gas, uoHash, result, sent, unanswered, accepted>>
    BY <1>18, <2>1 DEF RejectUnknown, Answer, worldVars
  <2> QED
    BY <2>2, StepRefuse
<1>19. ASSUME NEW t \in Tasks, LateArrival(t) PROVE PoolInv'
    BY <1>19 DEF LateArrival, taskVars, BuildUo
<1>20. ASSUME NEW w \in Wallets, DeployWallet(w) PROVE PoolInv'
  <2>1. UNCHANGED <<pc, nonce, gas, uoHash, reply, result, sent, unanswered, accepted>>
    BY <1>20 DEF DeployWallet, taskVars
  <2> QED
    BY <2>1 DEF BuildUo
<1>21. ASSUME NEW u \in accepted, HandleOps(u) PROVE PoolInv'
  <2>1. UNCHANGED <<pc, nonce, gas, uoHash, reply, result, sent, unanswered, accepted>>
    BY <1>21 DEF HandleOps, taskVars
  <2> QED
    BY <2>1, ZenonT(30) DEF BuildUo
<1>22. ASSUME UNCHANGED vars PROVE PoolInv'
    BY <1>22 DEF vars, BuildUo
<1> QED
    BY <1>1, <1>2, <1>3, <1>4, <1>5, <1>6, <1>7, <1>8, <1>9, <1>10, <1>11,
       <1>12, <1>13, <1>14, <1>15, <1>16, <1>17, <1>18, <1>19, <1>20, <1>21, <1>22
    DEF Next, call, send_eth, BeforeLoop, SendLoop, Receive, Bundler

LEMMA SpecPoolInv == Spec => []PoolInv
BY InitPoolInv, NextPoolInv, SpecIInv, PTL DEF Spec

\* A hash returned by `call` or `send_eth` is that of an operation the
\* invocation posted and the bundler pooled, never of one built locally.
THEOREM OkMeansAccepted == Spec => []OkWasAccepted
<1>1. PoolInv => OkWasAccepted
    BY DEF PoolInv
<1> QED
    BY <1>1, SpecPoolInv, PTL

\* Nothing of a returned invocation is in the pool but the operation it
\* returned and those whose answer was lost on the way.
THEOREM OnlyLostAnswersLeaveOperations == Spec => []OnlyUnansweredLive
<1>1. PoolInv => OnlyUnansweredLive
    BY DEF PoolInv
<1> QED
    BY <1>1, SpecPoolInv, PTL

-----------------------------------------------------------------------------
(* The retries make progress.                                              *)

\* A figure the bundler has asked for is above the limit that was posted, and
\* the limits do not move while the invocation waits.
RefusalRaises ==
    \A t \in Tasks : pc[t] = "await" =>
        /\ reply[t].kind = "callGas" => reply[t].needed > gas[t].call
        /\ reply[t].kind = "preGas" => reply[t].needed > gas[t].pre

\* An invocation that is not made to wait by a step, and whose answer and
\* limits stay as they are while it waits, keeps RefusalRaises.
LEMMA StepKeepsRefusal ==
    ASSUME RefusalRaises,
           \A s \in Tasks : pc'[s] = "await" =>
               pc[s] = "await" /\ reply'[s] = reply[s] /\ gas'[s] = gas[s]
    PROVE  RefusalRaises'
BY DEF RefusalRaises

\* An answer to t that asks for more than was posted keeps it as well.
LEMMA StepAnswers ==
    ASSUME TypeOK, RefusalRaises, NEW t \in Tasks, NEW r, Answer(t, r),
           r.kind = "callGas" => r.needed > gas[t].call,
           r.kind = "preGas" => r.needed > gas[t].pre
    PROVE  RefusalRaises'
<1>1. /\ UNCHANGED <<pc, gas>>
      /\ reply'[t] = r
      /\ \A s \in Tasks \ {t} : reply'[s] = reply[s]
    BY DEF Answer, TypeOK
<1> QED
    BY <1>1 DEF RefusalRaises

LEMMA NextRefusalRaises == TypeOK /\ RefusalRaises /\ [Next]_vars => RefusalRaises'
<1> SUFFICES ASSUME TypeOK, RefusalRaises, [Next]_vars PROVE RefusalRaises'
    OBVIOUS
<1> DEFINE Kept == \A s \in Tasks : pc'[s] = "await" =>
                       pc[s] = "await" /\ reply'[s] = reply[s] /\ gas'[s] = gas[s]
<1>1. ASSUME NEW t \in Tasks, Start(t) \/ PanicOnIncompleteTx(t) \/ RefuseWalletName(t)
      PROVE  Kept
    BY <1>1 DEF Start, PanicOnIncompleteTx, RefuseWalletName, Goto, Finish, TypeOK
<1>2. ASSUME NEW t \in Tasks, BeforeLoop(t) PROVE Kept
    BY <1>2 DEF BeforeLoop, GetCode, GetNonce, EstimateGas, FailBeforeLoop, Goto,
       Finish, TypeOK
<1>3. ASSUME NEW t \in Tasks, Send(t) PROVE RefusalRaises'
  <2>1. /\ reply'[t].kind = "none"
        /\ \A s \in Tasks \ {t} :
               pc'[s] = pc[s] /\ reply'[s] = reply[s] /\ gas'[s] = gas[s]
    BY <1>3 DEF Send, Goto, NoReply, TypeOK
  <2> QED
    BY <2>1 DEF RefusalRaises
<1>4. ASSUME NEW t \in Tasks, Receive(t) PROVE Kept
    BY <1>4 DEF Receive, ReceiveHash, RetryCallGas, RetryPreGas, RetryVerGas,
       PanicInLoop, ReceiveUnknown, Goto, Finish, TypeOK
<1>5. ASSUME NEW t \in Tasks, RetryAfterTransportError(t) PROVE Kept
    BY <1>5 DEF RetryAfterTransportError, Goto, TypeOK
<1>6. ASSUME NEW t \in Tasks, AcceptUo(t) PROVE RefusalRaises'
  <2> DEFINE r == [NoReply EXCEPT !.kind = "result", !.hash = {BuildUo(t)}]
  <2>1. Answer(t, r)
    BY <1>6 DEF AcceptUo
  <2>2. r.kind = "result"
    BY DEF NoReply
  <2> QED
    BY <2>1, <2>2, StepAnswers
<1>7. ASSUME NEW t \in Tasks, RejectGas(t) PROVE RefusalRaises'
  <2>1. PICK d \in Demands :
            \/ /\ gas[t].call < d.call
               /\ Answer(t, [NoReply EXCEPT !.kind = "callGas",
                                !.given = gas[t].call, !.needed = d.call])
            \/ /\ gas[t].pre < d.pre
               /\ Answer(t, [NoReply EXCEPT !.kind = "preGas",
                                !.given = gas[t].pre, !.needed = d.pre])
            \/ Answer(t, [NoReply EXCEPT !.kind = "verGas"])
    BY <1>7 DEF RejectGas
  <2>2. d.call \in Int /\ d.pre \in Int /\ gas[t].call \in Int /\ gas[t].pre \in Int
    BY GasAssumption DEF TypeOK, Gas, GasVal
  <2>3. CASE /\ gas[t].call < d.call
             /\ Answer(t, [NoReply EXCEPT !.kind = "callGas",
                              !.given = gas[t].call, !.needed = d.call])
    <3> DEFINE r == [NoReply EXCEPT !.kind = "callGas",
                              !.given = gas[t].call, !.needed = d.call]
    <3>1. r.kind = "callGas" /\ r.needed > gas[t].call
      BY <2>2, <2>3 DEF NoReply
    <3> QED
      BY <2>3, <3>1, StepAnswers
  <2>4. CASE /\ gas[t].pre < d.pre
             /\ Answer(t, [NoReply EXCEPT !.kind = "preGas",
                              !.given = gas[t].pre, !.needed = d.pre])
    <3> DEFINE r == [NoReply EXCEPT !.kind = "preGas",
                              !.given = gas[t].pre, !.needed = d.pre]
    <3>1. r.kind = "preGas" /\ r.needed > gas[t].pre
      BY <2>2, <2>4 DEF NoReply
    <3> QED
      BY <2>4, <3>1, StepAnswers
  <2>5. CASE Answer(t, [NoReply EXCEPT !.kind = "verGas"])
    <3>1. [NoReply EXCEPT !.kind = "verGas"].kind = "verGas"
      BY DEF NoReply
    <3> QED
      BY <2>5, <3>1, StepAnswers
  <2> QED
    BY <2>1, <2>3, <2>4, <2>5
<1>8. ASSUME NEW t \in Tasks, RejectUnknown(t) PROVE RefusalRaises'
  <2>1. [NoReply EXCEPT !.kind = "unknown"].kind = "unknown"
    BY DEF NoReply
  <2> QED
    BY <1>8, <2>1, StepAnswers DEF RejectUnknown
<1>9. ASSUME \/ \E t \in Tasks : LateArrival(t)
             \/ \E w \in Wallets : DeployWallet(w)
             \/ \E u \in accepted : HandleOps(u)
             \/ UNCHANGED vars
      PROVE  Kept
    BY <1>9 DEF LateArrival, DeployWallet, HandleOps, taskVars, vars
<1> HIDE DEF Kept
<1>10. ASSUME Kept PROVE RefusalRaises'
    BY <1>10, StepKeepsRefusal DEF Kept
<1> QED
    BY <1>1, <1>2, <1>3, <1>4, <1>5, <1>6, <1>7, <1>8, <1>9, <1>10
    DEF Next, call, send_eth, SendLoop, Bundler

\* Going round the loop after an answer raises one limit and lowers none, for
\* any figures, margins and steps.
THEOREM RetriesMakeProgress == Spec => RetryRaisesOneLimit
<1> DEFINE Raises ==
        \A t \in Tasks :
          pc[t] = "await" /\ pc'[t] = "send"
            /\ reply[t] # NoReply /\ reply'[t] = reply[t]
          => LET old == gas[t]
                 new == gas'[t]
             IN  \/ new.call > old.call /\ new.pre = old.pre /\ new.ver = old.ver
                 \/ new.call = old.call /\ new.pre > old.pre /\ new.ver = old.ver
                 \/ new.call = old.call /\ new.pre = old.pre /\ new.ver > old.ver
<1>1. Init => RefusalRaises
    BY DEF Init, RefusalRaises
<1>2. TypeOK /\ RefusalRaises /\ [Next]_vars => [Raises]_vars
  <2> SUFFICES ASSUME TypeOK, RefusalRaises, Next, NEW t \in Tasks,
                      pc[t] = "await", pc'[t] = "send",
                      reply[t] # NoReply, reply'[t] = reply[t]
               PROVE  \/ gas'[t].call > gas[t].call /\ gas'[t].pre = gas[t].pre
                            /\ gas'[t].ver = gas[t].ver
                      \/ gas'[t].call = gas[t].call /\ gas'[t].pre > gas[t].pre
                            /\ gas'[t].ver = gas[t].ver
                      \/ gas'[t].call = gas[t].call /\ gas'[t].pre = gas[t].pre
                            /\ gas'[t].ver > gas[t].ver
    OBVIOUS
  <2>1. RetryCallGas(t) \/ RetryPreGas(t) \/ RetryVerGas(t)
    <3>1. ASSUME NEW s \in Tasks, call(s) \/ send_eth(s) \/ Bundler(s) \/ LateArrival(s)
          PROVE  RetryCallGas(t) \/ RetryPreGas(t) \/ RetryVerGas(t)
      <4>1. ASSUME BeforeLoop(s) PROVE FALSE
        BY <4>1 DEF BeforeLoop, GetCode, GetNonce, EstimateGas, FailBeforeLoop, Goto,
           Finish, TypeOK
      <4>2. ASSUME Start(s) \/ PanicOnIncompleteTx(s) \/ RefuseWalletName(s) PROVE FALSE
        BY <4>2 DEF Start, PanicOnIncompleteTx, RefuseWalletName, Goto, Finish, TypeOK
      <4>3. ASSUME Send(s) \/ RetryAfterTransportError(s) PROVE FALSE
        BY <4>3 DEF Send, RetryAfterTransportError, Goto, TypeOK
      <4>4. ASSUME ReceiveHash(s) \/ PanicInLoop(s) \/ ReceiveUnknown(s) PROVE FALSE
        BY <4>4 DEF ReceiveHash, PanicInLoop, ReceiveUnknown, Finish, TypeOK
      <4>5. ASSUME RetryCallGas(s) \/ RetryPreGas(s) \/ RetryVerGas(s) PROVE s = t
        BY <4>5 DEF RetryCallGas, RetryPreGas, RetryVerGas, Goto, TypeOK
      <4>6. ASSUME Bundler(s) \/ LateArrival(s) PROVE FALSE
        BY <4>6 DEF Bundler, AcceptUo, RejectGas, RejectUnknown, Answer, LateArrival,
           taskVars
      <4> QED
        BY <3>1, <4>1, <4>2, <4>3, <4>4, <4>5, <4>6
        DEF call, send_eth, SendLoop, Receive
    <3>2. ASSUME \/ \E w \in Wallets : DeployWallet(w)
                 \/ \E u \in accepted : HandleOps(u)
          PROVE  FALSE
      BY <3>2 DEF DeployWallet, HandleOps, taskVars
    <3> QED
      BY <3>1, <3>2 DEF Next
  <2>2. gas[t].ver \in Int /\ Step[Kind[t]] \in Nat \ {0}
    BY TaskAssumption, GasAssumption DEF TypeOK, Gas, GasVal
  <2>3. gas \in [Tasks -> Gas]
    BY DEF TypeOK
  <2>4. CASE RetryCallGas(t)
    <3>1. gas'[t] = [gas[t] EXCEPT !.call = reply[t].needed]
      BY <2>3, <2>4 DEF RetryCallGas
    <3>2. reply[t].needed > gas[t].call
      BY <2>4 DEF RetryCallGas, RefusalRaises
    <3> QED
      BY <2>3, <3>1, <3>2 DEF Gas
  <2>5. CASE RetryPreGas(t)
    <3>1. gas'[t] = [gas[t] EXCEPT !.pre = reply[t].needed]
      BY <2>3, <2>5 DEF RetryPreGas
    <3>2. reply[t].needed > gas[t].pre
      BY <2>5 DEF RetryPreGas, RefusalRaises
    <3> QED
      BY <2>3, <3>1, <3>2 DEF Gas
  <2>6. CASE RetryVerGas(t)
    <3>1. gas'[t] = [gas[t] EXCEPT !.ver = gas[t].ver + Step[Kind[t]]]
      BY <2>3, <2>6 DEF RetryVerGas
    <3> QED
      BY <2>2, <2>3, <3>1 DEF Gas
  <2> QED
    BY <2>1, <2>4, <2>5, <2>6
<1> QED
    BY <1>1, <1>2, NextRefusalRaises, TypeCorrect, PTL DEF Spec, RetryRaisesOneLimit

=============================================================================
