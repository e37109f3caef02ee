------------------------------- MODULE Example --------------------------------
(***************************************************************************)
(* The program src/bin/example.rs, which puts the two halves of the         *)
(* middleware together: deploy_scw, a pause, send_eth, a pause, call, one   *)
(* after the other on one middleware, each `?` ending the program.  The     *)
(* wallet that ScwDeployment (D) brings into being is the one that          *)
(* UserOpMiddleware (M) operates on; the deployment operation uses the      *)
(* wallet's first EntryPoint nonce.                                        *)
(*                                                                         *)
(* The pauses are thread::sleep for 12 seconds, "to wait for the smart      *)
(* contract wallet to be deployed on the next block".  Nothing makes a      *)
(* block come within them: a pause may end at any time, and whether it      *)
(* ended too early is remembered.                                          *)
(***************************************************************************)
EXTENDS Integers, FiniteSets

CONSTANTS
    Salt,                      \* SALT, and the address it leads to
    Zero,                      \* Address::default()
    PreFund, Purse, Cost,      \* as in ScwDeployment, in ether
    Payload,                   \* Payload[t], t one of the two operations
    Estimates, Demands, Margin, Step, U64Max, U256Max  \* as in UserOpMiddleware

Operations == {"send_eth", "call"}
Wallets    == {Salt}

VARIABLES
    main,     \* where the program is
    early,    \* history: a pause ended before what it waited for was mined
    \* deploy_scw, as in ScwDeployment
    dpc, salt, value, dnonce, tx, posted, hadCode, dreply, error, dresult,
    walletMap, purse, balance, daccepted,
    \* send_eth and call, as in UserOpMiddleware
    pc, nonce, gas, uoHash, reply, result, sent, unanswered,
    chainNonce, accepted, executed,
    \* of both
    deployed

D == INSTANCE ScwDeployment WITH
         Tasks <- {"deploy_scw"}, Middlewares <- {"uo_middleware"},
         Op <- [t \in {"deploy_scw"} |-> "deploy_scw"],
         Self <- [t \in {"deploy_scw"} |-> "uo_middleware"],
         PreFund <- [t \in {"deploy_scw"} |-> PreFund],
         SaltArg <- [t \in {"deploy_scw"} |-> Salt],
         RandomU64 <- {}, Salts <- Wallets, Default <- Zero,
         pc <- dpc, nonce <- dnonce, reply <- dreply, result <- dresult,
         accepted <- daccepted

M == INSTANCE UserOpMiddleware WITH
         Tasks <- Operations, Payloads <- {Payload[t] : t \in Operations},
         Kind <- [t \in Operations |-> t],
         Wallet <- [t \in Operations |-> Salt]

\* The constants are ones that both halves accept.
ASSUME ExampleAssumption ==
    /\ D!ArgumentAssumption /\ D!EtherAssumption
    /\ M!TaskAssumption /\ M!GasAssumption

onlyD == <<dpc, salt, value, dnonce, tx, posted, hadCode, dreply, error, dresult,
           walletMap, purse, balance, daccepted>>
onlyM == <<pc, nonce, gas, uoHash, reply, result, sent, unanswered,
           chainNonce, accepted, executed>>
vars  == <<main, early, onlyD, onlyM, deployed>>

Mains == {"deploy_scw", "first_sleep", "send_eth", "second_sleep", "call", "ok", "err"}

TypeOK ==
    /\ main \in Mains
    /\ early \in BOOLEAN
    /\ D!TypeOK
    /\ M!TypeOK

Init ==
    /\ main = "deploy_scw"
    /\ early = FALSE
    /\ D!Init
    /\ M!Init

-----------------------------------------------------------------------------
(* Helpers.                                                                *)

\* Faulty form of After: the second pause is missing.
AfterWithoutSleep ==
    [deploy_scw |-> "first_sleep", send_eth |-> "call", call |-> "ok"]

\* What the program runs when the awaited operation has succeeded.
After == [deploy_scw |-> "first_sleep", send_eth |-> "second_sleep", call |-> "ok"]

\* An operation of the wallet has been executed for t.
Done(t) == executed \cap sent[t] # {}

-----------------------------------------------------------------------------
(* The program.  Its wallet name is registered and its transaction complete *)
(* (`deposit.set_value`), so the operations start.                          *)

\* uo_middleware.deploy_scw(wallet_name, 10, SALT).await.
Deploy ==
    /\ main = "deploy_scw"
    /\ D!deploy_scw("deploy_scw")
    /\ UNCHANGED <<main, early, onlyM>>

\* uo_middleware.send_eth(..).await, uo_middleware.call(..).await.
Operate(t) ==
    /\ main = t
    /\ M!Start(t) \/ M!BeforeLoop(t) \/ M!SendLoop(t)
    /\ UNCHANGED <<main, early, onlyD>>

\* The `?` after deploy_scw; a panic of its unwinds main too.
DeployReturns ==
    /\ main = "deploy_scw" /\ dpc["deploy_scw"] = "done"
    /\ main' = IF dresult["deploy_scw"] = "ok" THEN After["deploy_scw"] ELSE "err"
    /\ UNCHANGED <<early, onlyD, onlyM, deployed>>

\* The `?` after send_eth and after call; a panic of theirs unwinds main too.
Return(t) ==
    /\ main = t
    /\ result[t] # "none"
    /\ main' = IF result[t] = "ok" THEN After[t] ELSE "err"
    /\ UNCHANGED <<early, onlyD, onlyM, deployed>>

\* thread::sleep(Duration::from_secs(12)) is over.
WakeUp ==
    /\ \/ /\ main = "first_sleep" /\ main' = "send_eth"
          /\ early' = (early \/ Salt \notin deployed)
       \/ /\ main = "second_sleep" /\ main' = "call"
          /\ early' = (early \/ ~Done("send_eth"))
    /\ UNCHANGED <<onlyD, onlyM, deployed>>

-----------------------------------------------------------------------------
(* The node, the bundler and the chain (external).                         *)

DeploymentWorld ==
    /\ D!World("deploy_scw")
    /\ UNCHANGED <<main, early, onlyM>>

\* The deployment is mined; the EntryPoint counts its nonce.
MineDeployment ==
    /\ \E u \in daccepted :
           /\ D!HandleOps(u)
           /\ chainNonce' = [chainNonce EXCEPT ![u[1]] = @ + 1]
    /\ UNCHANGED <<main, early, pc, nonce, gas, uoHash, reply, result, sent,
                   unanswered, accepted, executed>>

OperationWorld ==
    /\ \E t \in Operations : M!Bundler(t) \/ M!LateArrival(t)
    /\ UNCHANGED <<main, early, onlyD>>

MineOperation ==
    /\ \E u \in accepted : M!HandleOps(u)
    /\ UNCHANGED <<main, early, onlyD>>

-----------------------------------------------------------------------------
Main ==
    \/ Deploy \/ DeployReturns \/ WakeUp
    \/ \E t \in Operations : Operate(t) \/ Return(t)

Next == Main \/ DeploymentWorld \/ MineDeployment \/ OperationWorld \/ MineOperation

Spec == Init /\ [][Next]_vars

\* The bundler includes what it has accepted in a block.
FairSpec == Spec /\ WF_vars(MineDeployment) /\ WF_vars(MineOperation)

-----------------------------------------------------------------------------
(* Properties.                                                             *)

\* However long the pauses are: no operation of the wallet is posted before
\* the wallet exists, and none claims the nonce of its deployment.
NoOperationBeforeWallet ==
    \A t \in Operations : \A u \in sent[t] :
        u.sender \in deployed /\ u.nonce >= 1

\* However short the pauses are: an operation whose hash was returned is
\* executed, or waits in the pool and can be, unless the other one has taken
\* its nonce.  Nothing else on the way can kill it.
LostOnlyToOther ==
    \A t \in Operations : result[t] = "ok" =>
        \E u \in uoHash[t] \cap accepted :
            \/ Done(t)
            \/ M!PassesValidation(u)
            \/ \E other \in Operations \ {t} :
                   \E v \in executed \cap sent[other] : v.nonce = u.nonce

\* If the pauses were long enough, the operations of send_eth and of call do
\* not compete for a nonce.
NoncesDiffer ==
    ~early => \A u \in sent["send_eth"], v \in sent["call"] : u.nonce # v.nonce

\* The program promises what it prints: when it ends well, and the pauses were
\* long enough, both operations are executed in the end.
OkMeansBothExecuted ==
    main = "ok" /\ ~early ~> Done("send_eth") /\ Done("call")

=============================================================================
