---------------------------- MODULE ExampleProofs -----------------------------
(***************************************************************************)
(* Proofs about Example, from what is proved about its two halves.  Every   *)
(* step of the program is a step of ScwDeployment or leaves it alone, so    *)
(* the program's first half implements ScwDeployment and has its            *)
(* properties.  Every step but the mining of the deployment, which moves    *)
(* the nonce as well, is a step of UserOpMiddleware or leaves it alone, so  *)
(* its invariants hold here too.  On top of them: no operation is posted    *)
(* before the wallet exists, one that was accepted is lost only to the      *)
(* other one, and after long pauses the two do not compete for a nonce.     *)
(***************************************************************************)
EXTENDS Example, TLAPS

\* The proofs about the two halves, with the constants and variables that
\* Example gives them.
DP == INSTANCE ScwDeploymentProofs WITH
          Tasks <- {"deploy_scw"}, Middlewares <- {"uo_middleware"},
          Op <- [t \in {"deploy_scw"} |-> "deploy_scw"],
          Self <- [t \in {"deploy_scw"} |-> "uo_middleware"],
          PreFund <- [t \in {"deploy_scw"} |-> PreFund],
          SaltArg <- [t \in {"deploy_scw"} |-> Salt],
          RandomU64 <- {}, Salts <- Wallets, Default <- Zero,
          pc <- dpc, nonce <- dnonce, reply <- dreply, result <- dresult,
          accepted <- daccepted

MP == INSTANCE UserOpMiddlewareProofs WITH
          Tasks <- Operations, Payloads <- {Payload[t] : t \in Operations},
          Kind <- [t \in Operations |-> t],
          Wallet <- [t \in Operations |-> Salt]

\* The EntryPoint has counted the deployment operation of a wallet that exists.
WalletCounted == Salt \in deployed => chainNonce[Salt] >= 1

\* get_code lets an operation pass only if the wallet exists.
PastGetCode ==
    \A t \in Operations :
        /\ pc[t] \in {"nonce", "estimate", "send", "await"} => Salt \in deployed
        /\ pc[t] \in {"estimate", "send", "await"} => nonce[t] >= 1

\* One operation after the other: call starts when send_eth has returned.
InTurn ==
    main \in {"second_sleep", "call"} \/ pc["call"] # "idle"
        => pc["send_eth"] = "done"

\* The second pause was long enough.
SecondPause == main = "call" /\ ~early => Done("send_eth")

\* The nonce that call has read lies behind the one send_eth used.
CallLater ==
    ~early /\ (pc["call"] \in {"estimate", "send", "await"} \/ sent["call"] # {})
        => nonce["call"] > nonce["send_eth"]

\* The deployment uses the wallet's first nonce, and every nonce used after it
\* was used by an operation of the pool.
FreshNonce == Salt \notin deployed => chainNonce[Salt] = 0

ExecutedWasAccepted == executed \subseteq accepted

NoncesFilled ==
    \A k \in Nat : 1 <= k /\ k < chainNonce[Salt] => \E v \in executed : v.nonce = k

FillInv == FreshNonce /\ ExecutedWasAccepted /\ NoncesFilled

OrderInv ==
    /\ WalletCounted
    /\ PastGetCode
    /\ NoOperationBeforeWallet
    /\ InTurn
    /\ SecondPause
    /\ CallLater

-----------------------------------------------------------------------------
(* The constants of the two halves.                                        *)

LEMMA DeploymentConstants == DP!ArgumentAssumption /\ DP!EtherAssumption
BY ExampleAssumption
   DEF D!ArgumentAssumption, D!EtherAssumption, D!Ops,
       DP!ArgumentAssumption, DP!EtherAssumption, DP!Ops

LEMMA OperationConstants == MP!TaskAssumption /\ MP!GasAssumption
BY ExampleAssumption
   DEF M!TaskAssumption, M!GasAssumption, M!Kinds, M!GasVal, M!Gas,
       MP!TaskAssumption, MP!GasAssumption, MP!Kinds, MP!GasVal, MP!Gas

-----------------------------------------------------------------------------
(* The program's first half is a run of ScwDeployment.                     *)

LEMMA DeploymentInit == Init => DP!Init
BY DEF Init, D!Init, DP!Init, D!NoError, DP!NoError

\* A step of deploy_scw, of the node or of the bundler, is one.
LEMMA DeployStep ==
    D!deploy_scw("deploy_scw") \/ D!World("deploy_scw") => DP!Next
<1>1. D!deploy_scw("deploy_scw") => DP!deploy_scw("deploy_scw")
    BY DEF D!deploy_scw, D!create_scw_deployment_uo, D!Receive, D!Start, D!GetCode,
           D!GetTransactionCount, D!SendTransaction, D!ReceiveReceipt,
           D!EstimateGas, D!Send, D!ReceiveHash, D!ReceiveGasError,
           D!ReceiveRefusal, D!Fail, D!Drop, D!Goto, D!Finish, D!Running,
           D!TransactionCount, D!worldVars,
           DP!deploy_scw, DP!create_scw_deployment_uo, DP!Receive, DP!Start,
           DP!GetCode, DP!GetTransactionCount, DP!SendTransaction,
           DP!ReceiveReceipt, DP!EstimateGas, DP!Send, DP!ReceiveHash,
           DP!ReceiveGasError, DP!ReceiveRefusal, DP!Fail, DP!Drop, DP!Goto,
           DP!Finish, DP!Running, DP!TransactionCount, DP!worldVars
<1>2. D!World("deploy_scw") => DP!World("deploy_scw")
    BY DEF D!World, D!MineTransfer, D!VanishTransfer, D!AcceptUo, D!RefuseUo,
           D!LateArrival, D!Answer, D!PassesValidation, D!DeploymentUo,
           D!taskVars, D!worldVars,
           DP!World, DP!MineTransfer, DP!VanishTransfer, DP!AcceptUo, DP!RefuseUo,
           DP!LateArrival, DP!Answer, DP!PassesValidation, DP!DeploymentUo,
           DP!taskVars, DP!worldVars
<1> QED
    BY <1>1, <1>2 DEF DP!Next

\* What the second half does to the first: nothing.
LEMMA OperationsLeaveDeployment ==
    /\ \A t \in Operations : M!Start(t) \/ M!BeforeLoop(t) \/ M!SendLoop(t)
                                => deployed' = deployed
    /\ \A t \in Operations : M!Bundler(t) \/ M!LateArrival(t) => deployed' = deployed
    /\ \A u \in accepted : M!HandleOps(u) => deployed' = deployed
<1>1. ASSUME NEW t \in Operations, M!Start(t) \/ M!BeforeLoop(t) \/ M!SendLoop(t)
      PROVE  deployed' = deployed
    BY <1>1
    DEF M!Start, M!BeforeLoop, M!GetCode, M!GetNonce, M!EstimateGas, M!FailBeforeLoop,
        M!SendLoop, M!Send, M!Receive, M!ReceiveHash, M!RetryCallGas, M!RetryPreGas,
        M!RetryVerGas, M!PanicInLoop, M!ReceiveUnknown, M!RetryAfterTransportError,
        M!worldVars
<1>2. ASSUME NEW t \in Operations, M!Bundler(t) \/ M!LateArrival(t)
      PROVE  deployed' = deployed
    BY <1>2 DEF M!Bundler, M!AcceptUo, M!RejectGas, M!RejectUnknown, M!LateArrival,
                M!worldVars
<1>3. ASSUME NEW u \in accepted, M!HandleOps(u) PROVE deployed' = deployed
    BY <1>3 DEF M!HandleOps
<1> QED
    BY <1>1, <1>2, <1>3

LEMMA DeploymentNext == [Next]_vars => [DP!Next]_(DP!vars)
<1> SUFFICES ASSUME [Next]_vars PROVE [DP!Next]_(DP!vars)
    OBVIOUS
<1>1. CASE Deploy \/ DeploymentWorld
    BY <1>1, DeployStep DEF Deploy, DeploymentWorld
<1>2. CASE MineDeployment
  <2>1. PICK u \in daccepted : D!HandleOps(u)
    BY <1>2 DEF MineDeployment
  <2>2. DP!HandleOps(u)
    BY <2>1 DEF D!HandleOps, D!PassesValidation, D!taskVars,
                DP!HandleOps, DP!PassesValidation, DP!taskVars
  <2> QED
    BY <2>2 DEF DP!Next
<1>3. ASSUME UNCHANGED <<onlyD, deployed>> PROVE UNCHANGED DP!vars
    BY <1>3 DEF onlyD, DP!vars
<1>4. CASE DeployReturns \/ WakeUp \/ \E t \in Operations : Return(t)
    BY <1>3, <1>4 DEF DeployReturns, WakeUp, Return
<1>5. CASE \/ \E t \in Operations : Operate(t)
           \/ OperationWorld \/ MineOperation
    BY <1>3, <1>5, OperationsLeaveDeployment DEF Operate, OperationWorld, MineOperation
<1>6. CASE UNCHANGED vars
    BY <1>3, <1>6 DEF vars
<1> QED
    BY <1>1, <1>2, <1>4, <1>5, <1>6 DEF Next, Main

-----------------------------------------------------------------------------
(* The program's second half against UserOpMiddleware.                     *)

LEMMA OperationInit == Init => MP!Init
BY DEF Init, M!Init, MP!Init, M!NoGas, MP!NoGas, M!NoReply, MP!NoReply

\* The steps of send_eth and call are those of UserOpMiddleware.
LEMMA OperateStep ==
    ASSUME NEW t \in Operations, M!Start(t) \/ M!BeforeLoop(t) \/ M!SendLoop(t)
    PROVE  MP!Start(t) \/ MP!BeforeLoop(t) \/ MP!SendLoop(t)
<1>1. M!Start(t) => MP!Start(t)
    BY DEF M!Start, M!Goto, M!worldVars, MP!Start, MP!Goto, MP!worldVars
<1>2. M!BeforeLoop(t) => MP!BeforeLoop(t)
    BY DEF M!BeforeLoop, M!GetCode, M!GetNonce, M!EstimateGas, M!FailBeforeLoop,
           M!Goto, M!Finish, M!SaturatingAdd, M!worldVars,
           MP!BeforeLoop, MP!GetCode, MP!GetNonce, MP!EstimateGas, MP!FailBeforeLoop,
           MP!Goto, MP!Finish, MP!SaturatingAdd, MP!worldVars
<1>3. M!SendLoop(t) => MP!SendLoop(t)
    BY DEF M!SendLoop, M!Send, M!Receive, M!ReceiveHash, M!RetryCallGas,
           M!RetryPreGas, M!RetryVerGas, M!PanicInLoop, M!ReceiveUnknown,
           M!RetryAfterTransportError, M!Goto, M!Finish, M!BuildUo,
           M!FiguresOverflow, M!NoReply, M!worldVars,
           MP!SendLoop, MP!Send, MP!Receive, MP!ReceiveHash, MP!RetryCallGas,
           MP!RetryPreGas, MP!RetryVerGas, MP!PanicInLoop, MP!ReceiveUnknown,
           MP!RetryAfterTransportError, MP!Goto, MP!Finish, MP!BuildUo,
           MP!FiguresOverflow, MP!NoReply, MP!worldVars
<1> QED
    BY <1>1, <1>2, <1>3

LEMMA OperateNext ==
    ASSUME NEW t \in Operations, MP!Start(t) \/ MP!BeforeLoop(t) \/ MP!SendLoop(t)
    PROVE  MP!Next
<1>1. MP!call(t) \/ MP!send_eth(t)
    BY DEF MP!call, MP!send_eth, Operations
<1> QED
    BY <1>1 DEF MP!Next

\* So are those of the bundler and the EntryPoint.
LEMMA BundlerStep ==
    ASSUME NEW t \in Operations, M!Bundler(t) \/ M!LateArrival(t)
    PROVE  MP!Bundler(t) \/ MP!LateArrival(t)
BY DEF M!Bundler, M!AcceptUo, M!RejectGas, M!RejectUnknown, M!Answer, M!LateArrival,
       M!PassesValidation, M!MeetsDemand, M!BuildUo, M!NoReply, M!taskVars, M!worldVars,
       MP!Bundler, MP!AcceptUo, MP!RejectGas, MP!RejectUnknown, MP!Answer,
       MP!LateArrival, MP!PassesValidation, MP!MeetsDemand, MP!BuildUo, MP!NoReply,
       MP!taskVars, MP!worldVars

LEMMA HandleOpsStep ==
    ASSUME NEW u \in accepted, M!HandleOps(u)
    PROVE  MP!HandleOps(u)
BY DEF M!HandleOps, M!PassesValidation, M!taskVars,
       MP!HandleOps, MP!PassesValidation, MP!taskVars

\* deploy_scw and its surroundings do not touch the second half, nor do they
\* create a wallet other than by MineDeployment.
LEMMA DeploymentLeavesOperations ==
    D!deploy_scw("deploy_scw") \/ D!World("deploy_scw") => deployed' = deployed
BY DEF D!deploy_scw, D!create_scw_deployment_uo, D!Receive, D!Start, D!GetCode,
       D!GetTransactionCount, D!SendTransaction, D!ReceiveReceipt, D!EstimateGas,
       D!Send, D!ReceiveHash, D!ReceiveGasError, D!ReceiveRefusal, D!Fail, D!Drop,
       D!worldVars, D!World, D!MineTransfer, D!VanishTransfer, D!AcceptUo,
       D!RefuseUo, D!LateArrival, D!Answer

LEMMA OperationNext == [Next]_vars => [MP!Next]_(MP!vars) \/ MineDeployment
<1> SUFFICES ASSUME [Next]_vars, ~MineDeployment PROVE [MP!Next]_(MP!vars)
    OBVIOUS
<1>1. ASSUME UNCHANGED <<onlyM, deployed>> PROVE UNCHANGED MP!vars
    BY <1>1 DEF onlyM, MP!vars
<1>2. CASE Deploy \/ DeploymentWorld
    BY <1>1, <1>2, DeploymentLeavesOperations DEF Deploy, DeploymentWorld
<1>3. CASE DeployReturns \/ WakeUp \/ \E t \in Operations : Return(t)
    BY <1>1, <1>3 DEF DeployReturns, WakeUp, Return
<1>4. CASE \E t \in Operations : Operate(t)
    BY <1>4, OperateStep, OperateNext DEF Operate
<1>5. CASE OperationWorld
    BY <1>5, BundlerStep DEF OperationWorld, MP!Next
<1>6. CASE MineOperation
    BY <1>6, HandleOpsStep DEF MineOperation, MP!Next
<1>7. CASE UNCHANGED vars
    BY <1>1, <1>7 DEF vars
<1> QED
    BY <1>2, <1>3, <1>4, <1>5, <1>6, <1>7 DEF Next, Main

-----------------------------------------------------------------------------
(* The invariants of the two halves.                                       *)

\* The invariants that the proofs about the halves establish.
Halves == DP!TypeOK /\ DP!IInv /\ MP!IInv /\ MP!PoolInv

LEMMA InitHalves == Init => Halves
<1>1. Init => DP!TypeOK /\ DP!IInv
    BY DeploymentInit, DeploymentConstants, DP!InitTypeOK, DP!InitIInv
<1>2. Init => MP!IInv /\ MP!PoolInv
    BY OperationInit, OperationConstants, MP!InitIInv, MP!InitPoolInv
<1> QED
    BY <1>1, <1>2 DEF Halves

\* What the mining of the deployment means to the second half: the wallet
\* exists and one nonce is used.
LEMMA MineDeploymentEffect ==
    ASSUME Halves, MineDeployment
    PROVE  /\ deployed' = deployed \cup {Salt}
           /\ chainNonce' = [chainNonce EXCEPT ![Salt] = @ + 1]
           /\ UNCHANGED <<main, early, pc, nonce, gas, uoHash, reply, result, sent,
                          unanswered, accepted, executed>>
<1>1. PICK u \in daccepted :
          /\ D!HandleOps(u)
          /\ chainNonce' = [chainNonce EXCEPT ![u[1]] = @ + 1]
    BY DEF MineDeployment
<1>2. u[1] = Salt
    BY DEF Halves, DP!TypeOK, Wallets
<1> QED
    BY <1>1, <1>2 DEF D!HandleOps, MineDeployment

LEMMA MineDeploymentKeeps ==
    ASSUME Halves, MineDeployment
    PROVE  MP!IInv' /\ MP!PoolInv'
<1>1. MP!TypeOK /\ chainNonce[Salt] \in Nat
    BY DEF Halves, MP!IInv, MP!TypeOK, Wallets
<1>2. /\ deployed' \in SUBSET Wallets /\ chainNonce' \in [Wallets -> Nat]
      /\ \A w \in Wallets : chainNonce[w] <= chainNonce'[w]
    BY <1>1, MineDeploymentEffect DEF MP!TypeOK, Wallets
<1>3. MP!TypeOK'
    BY <1>1, <1>2, MineDeploymentEffect DEF MP!TypeOK
<1>4. MP!SentWithNonce' /\ MP!NothingSentYet' /\ MP!ExecutedOnce'
    BY MineDeploymentEffect
    DEF Halves, MP!IInv, MP!SentWithNonce, MP!NothingSentYet, MP!ExecutedOnce
<1>5. MP!NonceReached'
    BY <1>1, <1>2, MineDeploymentEffect
    DEF Halves, MP!IInv, MP!NonceReached, MP!TypeOK, Wallets
<1>6. MP!ExecutedIsPast'
    BY <1>1, <1>2, MineDeploymentEffect
    DEF Halves, MP!IInv, MP!ExecutedIsPast, MP!TypeOK, MP!UserOp
<1>7. MP!PoolInv'
  <2>1. UNCHANGED <<pc, nonce, gas, uoHash, reply, result, sent, unanswered, accepted>>
    BY MineDeploymentEffect
  <2>2. MP!AwaitsWhatItSent' /\ MP!UnansweredWasSent' /\ MP!AcceptedWasSent'
    BY <2>1 DEF Halves, MP!PoolInv, MP!AwaitsWhatItSent, MP!UnansweredWasSent,
                MP!AcceptedWasSent, MP!BuildUo
  <2>3. MP!HashOfPosted' /\ MP!ResultWhenDone'
    BY <2>1 DEF Halves, MP!PoolInv, MP!HashOfPosted, MP!ResultWhenDone, MP!BuildUo
  <2>4. MP!LiveInLoop'
    BY <2>1 DEF Halves, MP!PoolInv, MP!LiveInLoop, MP!BuildUo
  <2>5. MP!OkWasAccepted' /\ MP!OnlyUnansweredLive'
    BY <2>1 DEF Halves, MP!PoolInv, MP!OkWasAccepted, MP!OnlyUnansweredLive
  <2> QED
    BY <2>2, <2>3, <2>4, <2>5 DEF MP!PoolInv
<1> QED
    BY <1>3, <1>4, <1>5, <1>6, <1>7 DEF MP!IInv

LEMMA NextHalves == Halves /\ [Next]_vars => Halves'
<1> SUFFICES ASSUME Halves, [Next]_vars PROVE Halves'
    OBVIOUS
<1>1. DP!TypeOK' /\ DP!IInv'
    BY DeploymentNext, DeploymentConstants, DP!NextTypeOK, DP!NextIInv DEF Halves
<1>2. MP!IInv' /\ MP!PoolInv'
  <2>1. CASE [MP!Next]_(MP!vars)
    BY <2>1, OperationConstants, MP!NextIInv, MP!NextPoolInv DEF Halves
  <2> QED
    BY <2>1, OperationNext, MineDeploymentKeeps
<1> QED
    BY <1>1, <1>2 DEF Halves

LEMMA SpecHalves == Spec => []Halves
BY InitHalves, NextHalves, PTL DEF Spec

-----------------------------------------------------------------------------
(* The order of the three operations.                                      *)

\* What a step of send_eth or call may do to what the order depends on.
LEMMA OperateEffect ==
    ASSUME Halves, NEW t \in Operations, Operate(t)
    PROVE  /\ main = t /\ pc[t] # "done"
           /\ UNCHANGED <<main, early, deployed, chainNonce, executed>>
           /\ \A s \in Operations \ {t} :
                  pc'[s] = pc[s] /\ nonce'[s] = nonce[s] /\ sent'[s] = sent[s]
           /\ \/ pc'[t] \in {"code", "done"} /\ UNCHANGED <<nonce, sent>>
              \/ pc'[t] = "nonce" /\ Salt \in deployed /\ UNCHANGED <<nonce, sent>>
              \/ /\ pc[t] = "nonce" /\ pc'[t] = "estimate"
                 /\ nonce'[t] = chainNonce[Salt] /\ UNCHANGED sent
              \/ /\ pc[t] \in {"estimate", "send", "await"}
                 /\ pc'[t] \in {"send", "await"}
                 /\ UNCHANGED nonce
                 /\ \/ UNCHANGED sent
                    \/ sent'[t] = sent[t] \cup {MP!BuildUo(t)}
<1> USE DEF Halves, MP!IInv, MP!TypeOK
<1>1. main = t /\ UNCHANGED <<main, early>>
    BY DEF Operate
<1>2. CASE MP!Start(t)
    BY <1>1, <1>2 DEF MP!Start, MP!Goto, MP!worldVars
<1>3. CASE MP!BeforeLoop(t)
  <2>1. CASE MP!GetCode(t)
    BY <1>1, <2>1 DEF MP!GetCode, MP!Goto, MP!Finish, MP!worldVars
  <2>2. CASE MP!GetNonce(t)
    BY <1>1, <2>2 DEF MP!GetNonce, MP!Goto, MP!worldVars
  <2>3. CASE MP!EstimateGas(t)
    BY <1>1, <2>3 DEF MP!EstimateGas, MP!Goto, MP!worldVars
  <2>4. CASE MP!FailBeforeLoop(t)
    BY <1>1, <2>4 DEF MP!FailBeforeLoop, MP!Finish, MP!worldVars
  <2> QED
    BY <1>3, <2>1, <2>2, <2>3, <2>4 DEF MP!BeforeLoop
<1>4. CASE MP!SendLoop(t)
  <2>1. CASE MP!Send(t)
    BY <1>1, <2>1 DEF MP!Send, MP!Goto, MP!worldVars
  <2>2. CASE MP!ReceiveHash(t) \/ MP!PanicInLoop(t) \/ MP!ReceiveUnknown(t)
    BY <1>1, <2>2 DEF MP!ReceiveHash, MP!PanicInLoop, MP!ReceiveUnknown, MP!Finish,
                      MP!worldVars
  <2>3. CASE MP!RetryCallGas(t) \/ MP!RetryPreGas(t) \/ MP!RetryVerGas(t)
    BY <1>1, <2>3 DEF MP!RetryCallGas, MP!RetryPreGas, MP!RetryVerGas, MP!Goto,
                      MP!worldVars
  <2>4. CASE MP!RetryAfterTransportError(t)
    BY <1>1, <2>4 DEF MP!RetryAfterTransportError, MP!Goto, MP!worldVars
  <2> QED
    BY <1>4, <2>1, <2>2, <2>3, <2>4 DEF MP!SendLoop, MP!Receive
<1> QED
    BY <1>2, <1>3, <1>4, OperateStep DEF Operate

\* The answers of the bundler and the mining of operations do not touch it,
\* but for the nonce, which grows, and what is executed.
LEMMA OperationWorldEffect ==
    ASSUME Halves, OperationWorld \/ MineOperation
    PROVE  /\ UNCHANGED <<main, early, deployed, pc, nonce, sent>>
           /\ chainNonce[Salt] <= chainNonce'[Salt]
           /\ executed \subseteq executed'
<1> USE DEF Halves, MP!IInv, MP!TypeOK, Wallets
<1>1. CASE OperationWorld
  <2>1. PICK t \in Operations : MP!Bundler(t) \/ MP!LateArrival(t)
    BY <1>1, BundlerStep DEF OperationWorld
  <2>2. UNCHANGED <<pc, nonce, sent, deployed, chainNonce, executed>>
    BY <2>1 DEF MP!Bundler, MP!AcceptUo, MP!RejectGas, MP!RejectUnknown, MP!Answer,
                MP!LateArrival, MP!taskVars, MP!worldVars
  <2>3. chainNonce[Salt] \in Nat
    OBVIOUS
  <2> QED
    BY <1>1, <2>2, <2>3 DEF OperationWorld
<1>2. CASE MineOperation
  <2>1. PICK u \in accepted : MP!HandleOps(u)
    BY <1>2, HandleOpsStep DEF MineOperation
  <2> QED
    BY <1>2, <2>1 DEF MineOperation, MP!HandleOps, MP!taskVars, MP!UserOp
<1> QED
    BY <1>1, <1>2

LEMMA InitOrderInv == Init => OrderInv
BY DEF Init, D!Init, M!Init, OrderInv, WalletCounted, PastGetCode,
       NoOperationBeforeWallet, InTurn, SecondPause, CallLater, Operations

LEMMA NextOrderInv == Halves /\ OrderInv /\ [Next]_vars => OrderInv'
<1> SUFFICES ASSUME Halves, OrderInv, [Next]_vars PROVE OrderInv'
    OBVIOUS
<1>0. /\ chainNonce[Salt] \in Nat
      /\ nonce \in [Operations -> Nat] /\ sent \in [Operations -> SUBSET MP!UserOp]
      /\ "send_eth" \in Operations /\ "call" \in Operations
      /\ MP!NothingSentYet
    BY DEF Halves, MP!IInv, MP!TypeOK, Wallets, Operations
<1> USE <1>0 DEF OrderInv, WalletCounted, PastGetCode, NoOperationBeforeWallet,
                 InTurn, SecondPause, CallLater, Done, Operations
<1>1. CASE Deploy \/ DeploymentWorld
    BY <1>1, DeploymentLeavesOperations DEF Deploy, DeploymentWorld, onlyM
<1>2. CASE DeployReturns
    BY <1>2 DEF DeployReturns, After, onlyM
<1>3. CASE WakeUp
    BY <1>3 DEF WakeUp, onlyM
<1>4. ASSUME NEW t \in Operations, Return(t) PROVE OrderInv'
    BY <1>4 DEF Return, After, onlyM, Halves, MP!PoolInv, MP!ResultWhenDone
<1>5. ASSUME NEW t \in Operations, Operate(t) PROVE OrderInv'
  <2>1. /\ main = t /\ pc[t] # "done"
        /\ UNCHANGED <<main, early, deployed, chainNonce, executed>>
        /\ \A s \in Operations \ {t} :
               pc'[s] = pc[s] /\ nonce'[s] = nonce[s] /\ sent'[s] = sent[s]
    BY <1>5, OperateEffect
  <2>2. \/ pc'[t] \in {"code", "done"} /\ UNCHANGED <<nonce, sent>>
        \/ pc'[t] = "nonce" /\ Salt \in deployed /\ UNCHANGED <<nonce, sent>>
        \/ /\ pc[t] = "nonce" /\ pc'[t] = "estimate"
           /\ nonce'[t] = chainNonce[Salt] /\ UNCHANGED sent
        \/ /\ pc[t] \in {"estimate", "send", "await"}
           /\ pc'[t] \in {"send", "await"}
           /\ UNCHANGED nonce
           /\ UNCHANGED sent \/ sent'[t] = sent[t] \cup {MP!BuildUo(t)}
    BY <1>5, OperateEffect
  <2>3. MP!BuildUo(t).sender = Salt /\ MP!BuildUo(t).nonce = nonce[t]
    BY DEF MP!BuildUo
  <2>4. WalletCounted'
    BY <2>1
  <2>5. PastGetCode'
    BY <2>1, <2>2
  <2>6. NoOperationBeforeWallet'
    BY <2>1, <2>2, <2>3
  <2>7. InTurn'
    BY <2>1, <2>2
  <2>8. SecondPause'
    BY <2>1, <2>2
  <2>9. CallLater'
    <3>1. CASE t = "send_eth"
      <4>1. pc["call"] = "idle" /\ sent["call"] = {}
        BY <2>1, <3>1 DEF MP!NothingSentYet
      <4> QED
        BY <2>1, <3>1, <4>1
    <3>2. CASE t = "call"
      <4>1. \A u \in executed \cap sent["send_eth"] : nonce["send_eth"] < chainNonce[Salt]
        BY DEF Halves, MP!IInv, MP!SentWithNonce, MP!ExecutedIsPast
      <4>2. ~early => nonce["send_eth"] < chainNonce[Salt]
        BY <2>1, <3>2, <4>1
      <4> QED
        BY <2>1, <2>2, <3>2, <4>2
    <3> QED
      BY <3>1, <3>2
  <2> QED
    BY <2>4, <2>5, <2>6, <2>7, <2>8, <2>9
<1>6. CASE MineDeployment
  <2>1. chainNonce'[Salt] = chainNonce[Salt] + 1
    BY <1>6, MineDeploymentEffect DEF Halves, MP!IInv, MP!TypeOK, Wallets
  <2>2. /\ deployed' = deployed \cup {Salt}
        /\ UNCHANGED <<main, early, pc, nonce, sent, executed>>
    BY <1>6, MineDeploymentEffect
  <2> QED
    BY <2>1, <2>2
<1>7. CASE OperationWorld \/ MineOperation
  <2>1. /\ UNCHANGED <<main, early, deployed, pc, nonce, sent>>
        /\ chainNonce[Salt] <= chainNonce'[Salt] /\ executed \subseteq executed'
    BY <1>7, OperationWorldEffect
  <2>2. WalletCounted'
    <3>1. chainNonce'[Salt] \in Nat
      BY NextHalves DEF Halves, MP!IInv, MP!TypeOK, Wallets
    <3> QED
      BY <2>1, <3>1
  <2>3. PastGetCode' /\ NoOperationBeforeWallet' /\ InTurn' /\ CallLater'
    BY <2>1
  <2>4. SecondPause'
    BY <2>1
  <2> QED
    BY <2>2, <2>3, <2>4
<1>8. CASE UNCHANGED vars
    BY <1>8 DEF vars, onlyM
<1> QED
    BY <1>1, <1>2, <1>3, <1>4, <1>5, <1>6, <1>7, <1>8 DEF Next, Main

LEMMA SpecOrderInv == Spec => []OrderInv
BY InitOrderInv, NextOrderInv, SpecHalves, PTL DEF Spec

-----------------------------------------------------------------------------
(* Who uses the nonces.                                                    *)

\* Only mining uses a nonce, executes an operation or creates the wallet, and
\* the pool only grows.
LEMMA OnlyMiningCounts ==
    ASSUME Halves, [Next]_vars, ~MineDeployment, ~MineOperation
    PROVE  UNCHANGED <<deployed, chainNonce, executed>> /\ accepted \subseteq accepted'
<1>1. CASE Deploy \/ DeploymentWorld
    BY <1>1, DeploymentLeavesOperations DEF Deploy, DeploymentWorld, onlyM
<1>2. CASE DeployReturns \/ WakeUp \/ \E t \in Operations : Return(t)
    BY <1>2 DEF DeployReturns, WakeUp, Return, onlyM
<1>3. ASSUME NEW t \in Operations, Operate(t)
      PROVE  UNCHANGED <<deployed, chainNonce, executed, accepted>>
  <2>1. MP!Start(t) \/ MP!BeforeLoop(t) \/ MP!SendLoop(t)
    BY <1>3, OperateStep DEF Operate
  <2> QED
    BY <2>1
    DEF MP!Start, MP!BeforeLoop, MP!GetCode, MP!GetNonce, MP!EstimateGas,
        MP!FailBeforeLoop, MP!SendLoop, MP!Send, MP!Receive, MP!ReceiveHash,
        MP!RetryCallGas, MP!RetryPreGas, MP!RetryVerGas, MP!PanicInLoop,
        MP!ReceiveUnknown, MP!RetryAfterTransportError, MP!worldVars
<1>4. CASE OperationWorld
  <2>1. PICK t \in Operations : MP!Bundler(t) \/ MP!LateArrival(t)
    BY <1>4, BundlerStep DEF OperationWorld
  <2> QED
    BY <2>1 DEF MP!Bundler, MP!AcceptUo, MP!RejectGas, MP!RejectUnknown, MP!Answer,
                MP!LateArrival, MP!taskVars, MP!worldVars
<1>5. CASE UNCHANGED vars
    BY <1>5 DEF vars, onlyM
<1> QED
    BY <1>1, <1>2, <1>3, <1>4, <1>5 DEF Next, Main

LEMMA InitFillInv == Init => FillInv
BY DEF Init, M!Init, D!Init, FillInv, FreshNonce, ExecutedWasAccepted, NoncesFilled,
       Wallets

LEMMA NextFillInv == Halves /\ FillInv /\ [Next]_vars => FillInv'
<1> SUFFICES ASSUME Halves, FillInv, [Next]_vars PROVE FillInv'
    OBVIOUS
<1>0. chainNonce[Salt] \in Nat /\ accepted \subseteq MP!UserOp
    BY DEF Halves, MP!IInv, MP!TypeOK, Wallets
<1> USE DEF FillInv, FreshNonce, ExecutedWasAccepted, NoncesFilled
<1>1. CASE MineDeployment
  <2>1. PICK u \in daccepted : D!HandleOps(u) /\ u[1] = Salt
    BY <1>1 DEF MineDeployment, Halves, DP!TypeOK, Wallets
  <2>2. Salt \notin deployed
    BY <2>1 DEF D!HandleOps, D!PassesValidation
  <2>3. /\ Salt \in deployed' /\ chainNonce'[Salt] = 1
        /\ UNCHANGED <<accepted, executed>>
    BY <1>1, <2>2, MineDeploymentEffect DEF Halves, MP!IInv, MP!TypeOK, Wallets
  <2> QED
    BY <2>3
<1>2. CASE MineOperation
  <2>1. PICK u \in accepted : MP!HandleOps(u)
    BY <1>2, HandleOpsStep DEF MineOperation
  <2>2. u.sender = Salt
    BY <1>0 DEF MP!UserOp, Wallets
  <2>3. /\ u.nonce = chainNonce[Salt] /\ Salt \in deployed
        /\ chainNonce'[Salt] = chainNonce[Salt] + 1
        /\ executed' = executed \cup {u}
        /\ UNCHANGED <<deployed, accepted>>
    BY <2>1, <2>2 DEF MP!HandleOps, MP!PassesValidation, Halves, MP!IInv, MP!TypeOK,
                      Wallets
  <2>4. FreshNonce' /\ ExecutedWasAccepted'
    BY <2>3
  <2>5. ASSUME NEW k \in Nat, 1 <= k, k < chainNonce'[Salt]
        PROVE  \E v \in executed' : v.nonce = k
    <3>1. k = chainNonce[Salt] \/ k < chainNonce[Salt]
      BY <1>0, <2>3, <2>5
    <3> QED
      BY <2>3, <2>5, <3>1
  <2> QED
    BY <2>4, <2>5
<1>3. CASE ~MineDeployment /\ ~MineOperation
    BY <1>3, OnlyMiningCounts
<1> QED
    BY <1>1, <1>2, <1>3

LEMMA SpecFillInv == Spec => []FillInv
BY InitFillInv, NextFillInv, SpecHalves, PTL DEF Spec

-----------------------------------------------------------------------------
(* The theorems.                                                           *)

\* Every reachable state of the program is well typed, in both halves.
THEOREM TypeCorrect == Spec => []TypeOK
<1> DEFINE Program == main \in Mains /\ early \in BOOLEAN
<1>1. Init => Program
    BY DEF Init, Mains
<1>2. Program /\ [Next]_vars => Program'
  <2> SUFFICES ASSUME Program, [Next]_vars PROVE Program'
    OBVIOUS
  <2>1. CASE WakeUp
    <3>1. early' \in BOOLEAN
      BY <2>1 DEF WakeUp
    <3> QED
      BY <2>1, <3>1 DEF WakeUp, Mains
  <2>2. CASE ~WakeUp
    BY <2>2 DEF Next, Main, Deploy, DeployReturns, Operate, Return, DeploymentWorld,
       MineDeployment, OperationWorld, MineOperation, After, Mains, Operations, vars
  <2> QED
    BY <2>1, <2>2
<1>3. DP!TypeOK => D!TypeOK
    BY DEF DP!TypeOK, DP!PCs, DP!Results, DP!TxState, DP!Replies, DP!Error, DP!Figures,
           D!TypeOK, D!PCs, D!Results, D!TxState, D!Replies, D!Error, D!Figures
<1>4. MP!IInv => M!TypeOK
    BY DEF MP!IInv, MP!TypeOK, MP!PCs, MP!Gas, MP!GasVal, MP!UserOp, MP!Reply,
           MP!ReplyKinds, MP!Results,
           M!TypeOK, M!PCs, M!Gas, M!GasVal, M!UserOp, M!Reply, M!ReplyKinds, M!Results
<1>5. Halves /\ Program => TypeOK
    BY <1>3, <1>4 DEF Halves, TypeOK
<1> HIDE DEF Program
<1> QED
    BY <1>1, <1>2, <1>5, SpecHalves, PTL DEF Spec

\* uo_middleware.deploy_scw(..) within the program behaves as a deployment on
\* its own does: nothing that send_eth, call and their operations do is seen
\* by it.
THEOREM DeploymentInside == Spec => D!Spec
<1>1. Init => D!Init
    BY DEF Init
<1>2. [Next]_vars => [D!Next]_(D!vars)
  <2>1. DP!Next => D!Next
    BY DEF D!Next, D!deploy_scw, D!create_scw_deployment_uo, D!Receive, D!World,
           D!Start, D!GetCode, D!GetTransactionCount, D!SendTransaction,
           D!ReceiveReceipt, D!EstimateGas, D!Send, D!ReceiveHash,
           D!ReceiveGasError, D!ReceiveRefusal, D!Fail, D!Drop, D!Goto, D!Finish,
           D!Running, D!TransactionCount, D!MineTransfer, D!VanishTransfer,
           D!AcceptUo, D!RefuseUo, D!LateArrival, D!Answer, D!PassesValidation,
           D!DeploymentUo, D!HandleOps, D!taskVars, D!worldVars,
           DP!Next, DP!deploy_scw, DP!create_scw_deployment_uo, DP!Receive, DP!World,
           DP!Start, DP!GetCode, DP!GetTransactionCount, DP!SendTransaction,
           DP!ReceiveReceipt, DP!EstimateGas, DP!Send, DP!ReceiveHash,
           DP!ReceiveGasError, DP!ReceiveRefusal, DP!Fail, DP!Drop, DP!Goto,
           DP!Finish, DP!Running, DP!TransactionCount, DP!MineTransfer,
           DP!VanishTransfer, DP!AcceptUo, DP!RefuseUo, DP!LateArrival, DP!Answer,
           DP!PassesValidation, DP!DeploymentUo, DP!HandleOps, DP!taskVars,
           DP!worldVars
  <2>2. UNCHANGED DP!vars => UNCHANGED D!vars
    BY DEF DP!vars, D!vars
  <2> QED
    BY <2>1, <2>2, DeploymentNext
<1> QED
    BY <1>1, <1>2, PTL DEF Spec, D!Spec

\* send_eth and call keep their promises inside the program, where the wallet
\* and its first nonce come from another module's chain: whatever the pauses
\* and the bundler's answers, each is executed at most once, a returned hash is
\* that of a pooled operation, and only operations whose answer was lost are
\* left behind.
THEOREM OperationsInside ==
    Spec => [](M!AtMostOnce /\ M!OkWasAccepted /\ M!OnlyUnansweredLive)
<1>1. Halves => M!AtMostOnce
    BY DEF Halves, MP!IInv, MP!SentWithNonce, MP!ExecutedOnce, M!AtMostOnce
<1>2. Halves => M!OkWasAccepted /\ M!OnlyUnansweredLive
    BY DEF Halves, MP!PoolInv, MP!OkWasAccepted, MP!OnlyUnansweredLive,
           M!OkWasAccepted, M!OnlyUnansweredLive
<1> QED
    BY <1>1, <1>2, SpecHalves, PTL

\* get_code guards send_eth and call, whatever the pauses of the program are:
\* what they post is posted after the wallet was created, with a nonce after
\* that of its deployment.
THEOREM WalletFirst == Spec => []NoOperationBeforeWallet
<1>1. OrderInv => NoOperationBeforeWallet
    BY DEF OrderInv
<1> QED
    BY <1>1, SpecOrderInv, PTL

\* However short the pauses are, an operation of the program that the bundler
\* has accepted is executed or can be, unless the other one has used its nonce:
\* the deployment never does, since get_code comes before get_nonce.
THEOREM OneTakesTheOther == Spec => []LostOnlyToOther
<1>1. Halves /\ OrderInv /\ FillInv => LostOnlyToOther
  <2> SUFFICES ASSUME Halves, OrderInv, FillInv, NEW t \in Operations, result[t] = "ok"
               PROVE  \E u \in uoHash[t] \cap accepted :
                          \/ Done(t)
                          \/ M!PassesValidation(u)
                          \/ \E other \in Operations \ {t} :
                                 \E v \in executed \cap sent[other] : v.nonce = u.nonce
    BY DEF LostOnlyToOther
  <2>1. PICK u \in sent[t] \cap accepted : uoHash[t] = {u}
    BY DEF Halves, MP!PoolInv, MP!OkWasAccepted
  <2>2. /\ u.sender = Salt /\ u.nonce = nonce[t]
        /\ nonce[t] \in Nat /\ chainNonce[Salt] \in Nat
        /\ nonce[t] <= chainNonce[Salt]
    BY DEF Halves, MP!IInv, MP!TypeOK, MP!SentWithNonce, MP!NonceReached, Wallets
  <2>3. Salt \in deployed /\ u.nonce >= 1
    BY <2>2 DEF OrderInv, NoOperationBeforeWallet
  <2>4. CASE u.nonce = chainNonce[Salt]
    BY <2>1, <2>2, <2>3, <2>4 DEF M!PassesValidation
  <2>5. CASE u.nonce < chainNonce[Salt]
    <3>1. PICK v \in executed : v.nonce = u.nonce
      BY <2>2, <2>3, <2>5 DEF FillInv, NoncesFilled
    <3>2. PICK s \in Operations : v \in sent[s]
      BY <3>1 DEF FillInv, ExecutedWasAccepted, Halves, MP!PoolInv, MP!AcceptedWasSent
    <3> QED
      BY <2>1, <3>1, <3>2 DEF Done
  <2> QED
    BY <2>2, <2>4, <2>5
<1> QED
    BY <1>1, SpecHalves, SpecOrderInv, SpecFillInv, PTL

\* A second pause that lasts until the transfer is mined is all it takes for
\* call to read another nonce than send_eth did.
THEOREM NoncesApart == Spec => []NoncesDiffer
<1>1. Halves /\ OrderInv => NoncesDiffer
  <2> SUFFICES ASSUME Halves, OrderInv, ~early,
                      NEW u \in sent["send_eth"], NEW v \in sent["call"]
               PROVE  u.nonce # v.nonce
    BY DEF NoncesDiffer
  <2>1. u.nonce = nonce["send_eth"] /\ v.nonce = nonce["call"]
    BY DEF Halves, MP!IInv, MP!SentWithNonce, Operations
  <2>2. nonce["call"] > nonce["send_eth"]
    BY DEF OrderInv, CallLater
  <2>3. nonce["call"] \in Nat /\ nonce["send_eth"] \in Nat
    BY DEF Halves, MP!IInv, MP!TypeOK, Operations
  <2> QED
    BY <2>1, <2>2, <2>3
<1> QED
    BY <1>1, SpecHalves, SpecOrderInv, PTL

=============================================================================
