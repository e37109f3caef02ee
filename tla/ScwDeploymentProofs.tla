------------------------- MODULE ScwDeploymentProofs --------------------------
(***************************************************************************)
(* Proofs about ScwDeployment for any number of invocations on any number   *)
(* of middlewares, any salts and any amounts: type correctness, what        *)
(* wallet_map holds, where the ether is, that a deployed wallet is left     *)
(* alone, the order of transfer and operation, and that nothing can take    *)
(* back a deployment that was answered with Ok.                            *)
(***************************************************************************)
EXTENDS ScwDeployment, TLAPS

\* Nothing is posted before the last request, so nothing is answered either.
NoAnswerYet ==
    \A t \in Tasks : pc[t] \notin {"await", "done"}
        => reply[t] = "none" /\ ~posted[t]

\* A hash on the wire is that of an operation the bundler took.
HashOfAccepted ==
    \A t \in Tasks : pc[t] = "await" /\ reply[t] = "result"
        => DeploymentUo(t) \in accepted

\* The transfer goes to the sender of the operation, and before it is sent
\* neither has anything been mined.
TransferToSender ==
    \A t \in Tasks :
        /\ pc[t] \in {"idle", "code", "count", "fund"} => tx[t].state = "unsent"
        /\ tx[t].state # "unsent" => tx[t].to = salt[t]

\* FundedWhenPosted, already before the operation is posted: the step that
\* posts cannot establish it otherwise.
FundedWhenMined ==
    \A t \in Tasks : tx[t].state = "mined"
        => salt[t] \in deployed \/ balance[salt[t]] >= value[t]

\* The fate of the transfer is known once its receipt has been awaited.
ReceiptSeen ==
    \A t \in Tasks : pc[t] \in {"estimate", "send", "await"}
        => tx[t].state \in {"mined", "vanished"}

\* An invocation that began on a contract never gets past get_code.
HadCodeStops ==
    \A t \in Tasks : hadCode[t] =>
        /\ salt[t] \in deployed
        /\ pc[t] \in {"code", "done"}
        /\ tx[t].state = "unsent"
        /\ ~posted[t]

\* Only an invocation that has returned has a result, and Ok is the result of
\* one whose operation the bundler took.
OkWasAccepted ==
    \A t \in Tasks :
        /\ result[t] # "none" => pc[t] = "done"
        /\ result[t] = "ok" => DeploymentUo(t) \in accepted

\* What the bundler took is still good or has been executed: ether leaves an
\* address only to pay for its deployment.
AcceptedStaysValid ==
    \A u \in accepted : u[1] \in deployed \/ PassesValidation(u)

IInv ==
    /\ NoAnswerYet
    /\ HashOfAccepted
    /\ TransferToSender
    /\ FundedWhenMined
    /\ ReceiptSeen
    /\ HadCodeStops
    /\ OkWasAccepted
    /\ AcceptedStaysValid
    /\ MapEntryAccepted

-----------------------------------------------------------------------------
(* Lemmas about the operators of the model.                                *)

\* The operation of an invocation is sent by an address that occurs.
LEMMA DeploymentUoType ==
    ASSUME TypeOK, NEW t \in Tasks
    PROVE  /\ DeploymentUo(t) \in Salts \X {0, 1}
           /\ DeploymentUo(t)[1] = salt[t] /\ DeploymentUo(t)[2] = nonce[t]
BY DEF TypeOK, DeploymentUo

\* The counts the node returns are the nonces the model has.
LEMMA TransactionCountType ==
    ASSUME NEW s
    PROVE  TransactionCount(s) \in {0, 1}
BY DEF TransactionCount

-----------------------------------------------------------------------------
(* Type correctness.                                                       *)

LEMMA InitTypeOK == Init => TypeOK
BY ArgumentAssumption, EtherAssumption
   DEF Init, TypeOK, PCs, Results, TxState, Replies, Error, NoError

LEMMA NextTypeOK == TypeOK /\ [Next]_vars => TypeOK'
<1> SUFFICES ASSUME TypeOK, [Next]_vars PROVE TypeOK'
    OBVIOUS
<1> USE DEF TypeOK
<1>1. ASSUME NEW t \in Tasks, Start(t) PROVE TypeOK'
  <2>1. salt' \in [Tasks -> Salts] /\ value' \in [Tasks -> Nat]
    <3>1. CASE Op[t] = "deploy_scw"
      BY <1>1, <3>1 DEF Start
    <3>2. CASE Op[t] # "deploy_scw"
      <4>1. PreFund[t] \in Salts
        BY <3>2, ArgumentAssumption DEF Ops
      <4> QED
        BY <1>1, <3>2, <4>1, ArgumentAssumption, SMTT(30) DEF Start
    <3> QED
      BY <3>1, <3>2
  <2>2. hadCode' \in [Tasks -> BOOLEAN]
    <3>1. (salt'[t] \in deployed) \in BOOLEAN
      OBVIOUS
    <3>2. hadCode' = [hadCode EXCEPT ![t] = salt'[t] \in deployed]
      BY <1>1 DEF Start
    <3> QED
      BY <3>1, <3>2, Zenon
  <2> QED
    BY <1>1, <2>1, <2>2 DEF Start, Goto, PCs, worldVars
<1>2. ASSUME NEW t \in Tasks, GetCode(t) PROVE TypeOK'
    BY <1>2 DEF GetCode, Goto, Finish, PCs, Results, worldVars
<1>3. ASSUME NEW t \in Tasks, GetTransactionCount(t) PROVE TypeOK'
    BY <1>3, TransactionCountType DEF GetTransactionCount, Goto, PCs, worldVars
<1>4. ASSUME NEW t \in Tasks, SendTransaction(t) PROVE TypeOK'
    BY <1>4 DEF SendTransaction, Goto, PCs, TxState, worldVars
<1>5. ASSUME NEW t \in Tasks, ReceiveReceipt(t) PROVE TypeOK'
    BY <1>5 DEF ReceiveReceipt, Goto, PCs, worldVars
<1>6. ASSUME NEW t \in Tasks, EstimateGas(t) PROVE TypeOK'
    BY <1>6 DEF EstimateGas, Goto, PCs, worldVars
<1>7. ASSUME NEW t \in Tasks, Send(t) PROVE TypeOK'
    BY <1>7 DEF Send, Goto, PCs, worldVars
<1>8. ASSUME NEW t \in Tasks, ReceiveHash(t) PROVE TypeOK'
    BY <1>8, ArgumentAssumption, ZenonT(30) DEF ReceiveHash, Finish, PCs, Results, worldVars
<1>9. ASSUME NEW t \in Tasks, ReceiveGasError(t) PROVE TypeOK'
    BY <1>9 DEF ReceiveGasError, Finish, PCs, Results, Error, Figures, worldVars
<1>10. ASSUME NEW t \in Tasks, ReceiveRefusal(t) PROVE TypeOK'
    BY <1>10 DEF ReceiveRefusal, Finish, PCs, Results, worldVars
<1>11. ASSUME NEW t \in Tasks, Fail(t) PROVE TypeOK'
    BY <1>11 DEF Fail, Finish, PCs, Results, worldVars
<1>12. ASSUME NEW t \in Tasks, Drop(t) PROVE TypeOK'
    BY <1>12 DEF Drop, Finish, PCs, Results, worldVars
<1>13. ASSUME NEW t \in Tasks, MineTransfer(t) PROVE TypeOK'
  <2>1. tx' \in [Tasks -> [to : Salts, state : TxState]]
    BY <1>13 DEF MineTransfer, TxState
  <2>2. value[t] \in Nat /\ tx[t].to \in Salts
    OBVIOUS
  <2>3. purse' \in Nat
    BY <1>13, <2>2 DEF MineTransfer
  <2>4. balance' \in [Salts -> Nat]
    BY <1>13, <2>2 DEF MineTransfer
  <2> QED
    BY <1>13, <2>1, <2>3, <2>4 DEF MineTransfer
<1>14. ASSUME NEW t \in Tasks, VanishTransfer(t) PROVE TypeOK'
    BY <1>14 DEF VanishTransfer, TxState, worldVars
<1>15. ASSUME NEW t \in Tasks, AcceptUo(t) PROVE TypeOK'
    BY <1>15, DeploymentUoType DEF AcceptUo, Answer, Replies
<1>16. ASSUME NEW t \in Tasks, RefuseUo(t) PROVE TypeOK'
    BY <1>16 DEF RefuseUo, Answer, Replies
<1>17. ASSUME NEW t \in Tasks, LateArrival(t) PROVE TypeOK'
    BY <1>17, DeploymentUoType DEF LateArrival, taskVars
<1>18. ASSUME NEW u \in accepted, HandleOps(u) PROVE TypeOK'
  <2>1. u[1] \in Salts
    OBVIOUS
  <2>2. balance' \in [Salts -> Nat]
    BY <1>18, <2>1, EtherAssumption DEF HandleOps, PassesValidation
  <2> QED
    BY <1>18, <2>1, <2>2 DEF HandleOps, taskVars
<1>19. ASSUME UNCHANGED vars PROVE TypeOK'
    BY <1>19 DEF vars
<1> QED
    BY <1>1, <1>2, <1>3, <1>4, <1>5, <1>6, <1>7, <1>8, <1>9, <1>10, <1>11,
       <1>12, <1>13, <1>14, <1>15, <1>16, <1>17, <1>18, <1>19
    DEF Next, deploy_scw, create_scw_deployment_uo, Receive, World

\* Every reachable state is well typed: in particular no step of a deployment
\* spends ether that the signer or the address does not have.
THEOREM TypeCorrect == Spec => []TypeOK
BY InitTypeOK, NextTypeOK, PTL DEF Spec

-----------------------------------------------------------------------------
(* The inductive invariant.                                                *)

LEMMA InitIInv == Init => IInv
BY DEF Init, IInv, NoAnswerYet, HashOfAccepted, TransferToSender,
       FundedWhenMined, ReceiptSeen, HadCodeStops, OkWasAccepted,
       AcceptedStaysValid, MapEntryAccepted

LEMMA NextIInv == TypeOK /\ IInv /\ [Next]_vars => IInv'
<1> SUFFICES ASSUME TypeOK, IInv, [Next]_vars PROVE IInv'
    OBVIOUS
<1>0. TypeOK'
    BY NextTypeOK
<1> USE <1>0, ArgumentAssumption, EtherAssumption
        DEF TypeOK, IInv, NoAnswerYet, HashOfAccepted, TransferToSender,
            FundedWhenMined, ReceiptSeen, HadCodeStops, OkWasAccepted,
            AcceptedStaysValid, MapEntryAccepted, DeploymentUo, PassesValidation
<1>1. ASSUME NEW t \in Tasks, Start(t) PROVE IInv'
  <2>1. pc[t] = "idle" /\ pc' = [pc EXCEPT ![t] = "code"]
    BY <1>1 DEF Start, Goto
  <2>2. /\ tx[t].state = "unsent" /\ ~posted[t]
        /\ result[t] = "none" /\ reply[t] = "none"
    BY <2>1 DEF Results
  <2>3. UNCHANGED <<nonce, tx, posted, reply, error, result, walletMap,
                    purse, balance, deployed, accepted>>
    BY <1>1 DEF Start, worldVars
  <2>4. \A s \in Tasks \ {t} : salt'[s] = salt[s] /\ value'[s] = value[s]
    BY <1>1 DEF Start
  <2>5. NoAnswerYet' /\ ReceiptSeen'
    BY <2>1, <2>2, <2>3
  <2>6. HashOfAccepted' /\ OkWasAccepted'
    BY <2>1, <2>2, <2>3, <2>4
  <2>7. TransferToSender' /\ FundedWhenMined'
    BY <2>1, <2>2, <2>3, <2>4
  <2>8. HadCodeStops'
    <3>1. hadCode' = [hadCode EXCEPT ![t] = salt'[t] \in deployed]
      BY <1>1 DEF Start
    <3>2. hadCode'[t] = (salt'[t] \in deployed)
      BY <3>1, ZenonT(30)
    <3>3. \A s \in Tasks \ {t} : hadCode'[s] = hadCode[s]
      BY <3>1, ZenonT(30)
    <3> QED
      BY <2>1, <2>2, <2>3, <2>4, <3>2, <3>3
  <2>9. AcceptedStaysValid' /\ MapEntryAccepted'
    BY <2>3
  <2> QED
    BY <2>5, <2>6, <2>7, <2>8, <2>9
<1>2. ASSUME NEW t \in Tasks, GetCode(t) PROVE IInv'
  <2>1. /\ pc[t] = "code"
        /\ UNCHANGED <<salt, value, nonce, tx, posted, hadCode, reply,
                       walletMap, purse, balance, deployed, accepted>>
    BY <1>2 DEF GetCode, Goto, worldVars
  <2>2. \/ /\ salt[t] \in deployed
           /\ pc' = [pc EXCEPT ![t] = "done"]
           /\ result' = [result EXCEPT ![t] = "err"]
        \/ /\ salt[t] \notin deployed
           /\ pc' = [pc EXCEPT ![t] = "count"]
           /\ UNCHANGED result
    BY <1>2 DEF GetCode, Goto, Finish
  <2>3. NoAnswerYet' /\ ReceiptSeen'
    BY <2>1, <2>2
  <2>4. TransferToSender'
    BY <2>1, <2>2
  <2>5. HashOfAccepted'
    BY <2>1, <2>2
  <2>6. OkWasAccepted'
    BY <2>1, <2>2
  <2>7. HadCodeStops'
    BY <2>1, <2>2
  <2>8. FundedWhenMined' /\ AcceptedStaysValid' /\ MapEntryAccepted'
    BY <2>1
  <2> QED
    BY <2>3, <2>4, <2>5, <2>6, <2>7, <2>8
<1>3. ASSUME NEW t \in Tasks, GetTransactionCount(t) PROVE IInv'
  <2>1. /\ pc[t] = "count" /\ pc' = [pc EXCEPT ![t] = "fund"]
        /\ \A s \in Tasks \ {t} : nonce'[s] = nonce[s]
        /\ UNCHANGED <<salt, value, tx, posted, hadCode, reply, result,
                       walletMap, purse, balance, deployed, accepted>>
    BY <1>3 DEF GetTransactionCount, Goto, worldVars
  <2>2. NoAnswerYet' /\ TransferToSender' /\ FundedWhenMined' /\ ReceiptSeen'
    BY <2>1
  <2>3. HashOfAccepted' /\ OkWasAccepted'
    <3>1. ASSUME NEW s \in Tasks \ {t}
          PROVE  /\ pc'[s] = pc[s] /\ reply'[s] = reply[s] /\ result'[s] = result[s]
                 /\ DeploymentUo(s)' = DeploymentUo(s)
      BY <2>1
    <3>2. pc'[t] = "fund" /\ result'[t] = "none"
      BY <2>1, ZenonT(30)
    <3>3. accepted' = accepted
      BY <2>1
    <3> HIDE DEF DeploymentUo
    <3>4. HashOfAccepted'
      BY <3>1, <3>2, <3>3, SMTT(30)
    <3>5. OkWasAccepted'
      <4> SUFFICES ASSUME NEW s \in Tasks
                   PROVE  /\ result'[s] # "none" => pc'[s] = "done"
                          /\ result'[s] = "ok" => DeploymentUo(s)' \in accepted'
        OBVIOUS
      <4>1. CASE s = t
        BY <3>2, <4>1
      <4>2. CASE s # t
        BY <3>1, <3>3, <4>2
      <4> QED
        BY <4>1, <4>2
    <3> QED
      BY <3>4, <3>5
  <2>4. HadCodeStops'
    BY <2>1
  <2>5. AcceptedStaysValid' /\ MapEntryAccepted'
    BY <2>1
  <2> QED
    BY <2>2, <2>3, <2>4, <2>5
<1>4. ASSUME NEW t \in Tasks, SendTransaction(t) PROVE IInv'
    BY <1>4 DEF SendTransaction, Goto, worldVars
<1>5. ASSUME NEW t \in Tasks, ReceiveReceipt(t) PROVE IInv'
    BY <1>5 DEF ReceiveReceipt, Goto, worldVars
<1>6. ASSUME NEW t \in Tasks, EstimateGas(t) PROVE IInv'
    BY <1>6 DEF EstimateGas, Goto, worldVars
<1>7. ASSUME NEW t \in Tasks, Send(t) PROVE IInv'
    BY <1>7 DEF Send, Goto, worldVars
<1>8. ASSUME NEW t \in Tasks, ReceiveHash(t) PROVE IInv'
  <2>1. /\ pc[t] = "await" /\ reply[t] = "result"
        /\ pc' = [pc EXCEPT ![t] = "done"]
        /\ result' = [result EXCEPT ![t] = "ok"]
        /\ walletMap' = [walletMap EXCEPT ![Self[t]] = @ \cup {salt[t]}]
        /\ UNCHANGED <<salt, value, nonce, tx, posted, hadCode, reply,
                       purse, balance, deployed, accepted>>
    BY <1>8 DEF ReceiveHash, Finish, worldVars
  <2>2. DeploymentUo(t) \in accepted /\ DeploymentUo(t)[1] = salt[t]
    BY <2>1
  <2>3. NoAnswerYet' /\ HashOfAccepted' /\ TransferToSender' /\ FundedWhenMined'
    BY <2>1
  <2>4. ReceiptSeen' /\ HadCodeStops' /\ AcceptedStaysValid'
    BY <2>1
  <2>5. OkWasAccepted'
    BY <2>1, <2>2
  <2>6. MapEntryAccepted'
    <3>1. ASSUME NEW m \in Middlewares PROVE walletMap'[m] \subseteq walletMap[m] \cup {salt[t]}
      BY <2>1
    <3>2. accepted' = accepted
      BY <2>1
    <3> QED
      BY <3>1, <3>2, <2>2
  <2> QED
    BY <2>3, <2>4, <2>5, <2>6
<1>9. ASSUME NEW t \in Tasks, ReceiveGasError(t) PROVE IInv'
    BY <1>9 DEF ReceiveGasError, Finish, worldVars
<1>10. ASSUME NEW t \in Tasks, ReceiveRefusal(t) PROVE IInv'
    BY <1>10 DEF ReceiveRefusal, Finish, worldVars
<1>11. ASSUME NEW t \in Tasks, Fail(t) PROVE IInv'
    BY <1>11 DEF Fail, Finish, worldVars
<1>12. ASSUME NEW t \in Tasks, Drop(t) PROVE IInv'
    BY <1>12 DEF Drop, Finish, Running, worldVars
<1>13. ASSUME NEW t \in Tasks, MineTransfer(t) PROVE IInv'
    BY <1>13 DEF MineTransfer
<1>14. ASSUME NEW t \in Tasks, VanishTransfer(t) PROVE IInv'
    BY <1>14 DEF VanishTransfer, worldVars
<1>15. ASSUME NEW t \in Tasks, AcceptUo(t) PROVE IInv'
    BY <1>15 DEF AcceptUo, Answer
<1>16. ASSUME NEW t \in Tasks, RefuseUo(t) PROVE IInv'
    BY <1>16 DEF RefuseUo, Answer, worldVars
<1>17. ASSUME NEW t \in Tasks, LateArrival(t) PROVE IInv'
    BY <1>17 DEF LateArrival, taskVars
<1>18. ASSUME NEW u \in accepted, HandleOps(u) PROVE IInv'
    BY <1>18 DEF HandleOps, taskVars
<1>19. ASSUME UNCHANGED vars PROVE IInv'
    BY <1>19 DEF vars
<1> QED
    BY <1>1, <1>2, <1>3, <1>4, <1>5, <1>6, <1>7, <1>8, <1>9, <1>10, <1>11,
       <1>12, <1>13, <1>14, <1>15, <1>16, <1>17, <1>18, <1>19
    DEF Next, deploy_scw, create_scw_deployment_uo, Receive, World

LEMMA SpecIInv == Spec => [](TypeOK /\ IInv)
BY InitTypeOK, NextTypeOK, InitIInv, NextIInv, PTL DEF Spec

-----------------------------------------------------------------------------
(* What the runs check on three invocations, for any number of them.       *)

\* set_uo_hash and the insert into wallet_map come after the bundler's hash:
\* every wallet the map names is one whose deployment the bundler took.
THEOREM WalletMapIsAccepted == Spec => []MapEntryAccepted
<1>1. IInv => MapEntryAccepted
    BY DEF IInv
<1> QED
    BY <1>1, SpecIInv, PTL

\* The ether deploy_scw sends arrives at the address the operation is sent
\* from, and stays there until the wallet exists.
THEOREM EtherWaitsForWallet == Spec => []FundedWhenPosted
<1>1. IInv => FundedWhenPosted
    BY DEF IInv, FundedWhenMined, FundedWhenPosted
<1> QED
    BY <1>1, SpecIInv, PTL

\* create_scw_deployment_uo refuses an address that has code, before any
\* ether is sent and before anything is posted.
THEOREM ContractIsLeftAlone == Spec => []DeployedIsLeftAlone
<1>1. IInv => DeployedIsLeftAlone
    BY DEF IInv, HadCodeStops, DeployedIsLeftAlone
<1> QED
    BY <1>1, SpecIInv, PTL

\* Once deploy_scw has returned Ok, no other invocation, transfer or
\* deployment can make the EntryPoint reject the operation it posted.
THEOREM OkIsFinal == Spec => []OkStaysDeployable
<1>1. TypeOK /\ IInv => OkStaysDeployable
    BY DEF TypeOK, IInv, OkWasAccepted, AcceptedStaysValid, OkStaysDeployable,
           DeploymentUo
<1> QED
    BY <1>1, SpecIInv, PTL

\* The second .await of the transfer stands between sending the ether and
\* posting the operation: only a transfer whose fate is known is followed by
\* a post.
THEOREM TransferSettledFirst == Spec => PostAfterReceipt
<1> DEFINE Settled == \A t \in Tasks : ~posted[t] /\ posted'[t]
                        => tx[t].state \in {"mined", "vanished"}
<1>1. TypeOK /\ IInv /\ [Next]_vars => [Settled]_vars
  <2> SUFFICES ASSUME TypeOK, IInv, Next, NEW t \in Tasks, ~posted[t], posted'[t]
               PROVE  tx[t].state \in {"mined", "vanished"}
    BY DEF Settled
  <2> USE DEF TypeOK
  <2>1. PICK s \in Tasks : Send(s)
    BY DEF Next, deploy_scw, create_scw_deployment_uo, Receive, World, Start,
           GetCode, GetTransactionCount, SendTransaction, ReceiveReceipt,
           EstimateGas, ReceiveHash, ReceiveGasError, ReceiveRefusal, Fail, Drop,
           MineTransfer, VanishTransfer, AcceptUo, RefuseUo, Answer, LateArrival,
           HandleOps, taskVars
  <2>2. s = t /\ pc[t] = "send"
    BY <2>1 DEF Send, Goto
  <2> QED
    BY <2>2 DEF IInv, ReceiptSeen
<1> QED
    BY <1>1, SpecIInv, PTL DEF Spec, PostAfterReceipt, Settled

=============================================================================
