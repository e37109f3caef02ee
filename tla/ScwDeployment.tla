---------------------------- MODULE ScwDeployment ----------------------------
(***************************************************************************)
(* deploy_scw and deploy_random_scw of src/userop_middleware.rs, with the  *)
(* create_scw_deployment_uo they start with: derive the counterfactual      *)
(* address, check that it has no code, read its transaction count, send     *)
(* ether to it from the signer's own account, and only then ask the bundler *)
(* for an estimate and submit the deployment operation, once.               *)
(*                                                                         *)
(* A UserOpMiddleware is used by one deployment at a time (&mut self), but  *)
(* it is Clone, and clones share nothing but the chain, the signer's account *)
(* and the bundler.  Any await may fail, and the caller may drop the future *)
(* at any of them.                                                          *)
(*                                                                         *)
(* Abstractions: owner and factory are fixed, so an address is the salt it  *)
(* is derived from; the operation is its sender and nonce; of the gas limits *)
(* only the two figures of a gas refusal are kept, because the caller sees  *)
(* them.                                                                    *)
(***************************************************************************)
EXTENDS Integers, FiniteSets

CONSTANTS
    Tasks,       \* invocations
    Middlewares, \* UserOpMiddleware values: one and its clones
    Op,          \* Op[t]: "deploy_scw" or "deploy_random_scw"
    Self,        \* Self[t]: the middleware it is invoked on
    PreFund,     \* PreFund[t]: the argument pre_fund, in ether
    SaltArg,     \* SaltArg[t]: the argument salt of deploy_scw
    RandomU64,   \* what thread_rng().gen::<u64>() may yield
    Salts,       \* the salts that occur, and the addresses they lead to
    Default,     \* Address::default(), the key wallet_map starts with
    Purse,       \* the signer's balance at the start
    Cost         \* what the EntryPoint charges a deployment operation

Ops     == {"deploy_scw", "deploy_random_scw"}
Figures == {"given", "needed"}   \* the limit posted, and what the bundler wants

ASSUME ArgumentAssumption ==
    /\ Op \in [Tasks -> Ops]
    /\ Self \in [Tasks -> Middlewares]
    /\ PreFund \in [Tasks -> Nat]
    /\ SaltArg \in [Tasks -> Salts]
    /\ Salts \subseteq Nat
    /\ RandomU64 \subseteq Nat
    /\ \A t \in Tasks : Op[t] = "deploy_random_scw" => PreFund[t] \in Salts
    /\ Default \notin Salts

ASSUME EtherAssumption == Purse \in Nat /\ Cost \in Nat \ {0}

VARIABLES
    \* one invocation
    pc,        \* where the async function is suspended
    salt,      \* parameter `salt` of deploy_scw: scw_address is derived from it
    value,     \* parameter `pre_fund` of deploy_scw
    nonce,     \* the operation's nonce
    tx,        \* the funding transaction
    posted,    \* history: the deployment operation was POSTed
    hadCode,   \* history: the address had code when the invocation began
    reply,     \* what the bundler has written on this invocation's connection
    error,     \* the figures printed as `calculated` and `provided`, if any
    result,    \* how the invocation ended
    \* one middleware
    walletMap, \* keys of wallet_map
    \* the world
    purse,     \* the signer's balance
    balance,   \* ether held by each counterfactual address
    deployed,  \* addresses with code
    accepted   \* deployment operations the bundler took: <<address, nonce>>

taskVars  == <<pc, salt, value, nonce, tx, posted, hadCode, reply, error, result>>
worldVars == <<purse, balance, deployed, accepted>>
vars == <<pc, salt, value, nonce, tx, posted, hadCode, reply, error, result,
          walletMap, purse, balance, deployed, accepted>>

PCs     == {"idle", "code", "count", "fund", "receipt", "estimate", "send",
            "await", "done"}
Results == {"none", "ok", "err", "dropped"}
TxState == {"unsent", "pending", "mined", "vanished"}
Replies == {"none", "result", "gas", "refused"}
NoError == [calculated |-> "none", provided |-> "none"]
Error   == [calculated : Figures \cup {"none"}, provided : Figures \cup {"none"}]

TypeOK ==
    /\ pc \in [Tasks -> PCs]
    /\ salt \in [Tasks -> Salts]
    /\ value \in [Tasks -> Nat]
    /\ nonce \in [Tasks -> {0, 1}]
    /\ tx \in [Tasks -> [to : Salts, state : TxState]]
    /\ posted \in [Tasks -> BOOLEAN]
    /\ hadCode \in [Tasks -> BOOLEAN]
    /\ reply \in [Tasks -> Replies]
    /\ error \in [Tasks -> Error]
    /\ result \in [Tasks -> Results]
    /\ walletMap \in [Middlewares -> SUBSET (Salts \cup {Default})]
    /\ purse \in Nat
    /\ balance \in [Salts -> Nat]
    /\ deployed \subseteq Salts
    /\ accepted \subseteq Salts \X {0, 1}

Init ==
    /\ pc = [t \in Tasks |-> "idle"]
    /\ salt = SaltArg
    /\ value = PreFund
    /\ nonce = [t \in Tasks |-> 0]
    /\ tx = [t \in Tasks |-> [to |-> SaltArg[t], state |-> "unsent"]]
    /\ posted = [t \in Tasks |-> FALSE]
    /\ hadCode = [t \in Tasks |-> FALSE]
    /\ reply = [t \in Tasks |-> "none"]
    /\ error = [t \in Tasks |-> NoError]
    /\ result = [t \in Tasks |-> "none"]
    /\ walletMap = [m \in Middlewares |-> {Default}]
    /\ purse = Purse
    /\ balance = [s \in Salts |-> 0]
    /\ deployed = {}
    /\ accepted = {}

-----------------------------------------------------------------------------
(* Helpers.                                                                *)

Goto(t, from, to) ==
    /\ pc[t] = from
    /\ pc' = [pc EXCEPT ![t] = to]

Finish(t, r) ==
    /\ pc' = [pc EXCEPT ![t] = "done"]
    /\ result' = [result EXCEPT ![t] = r]

Running(t) == pc[t] \notin {"idle", "done"}

\* create_scw_deployment_uo, sender and nonce of the operation.
DeploymentUo(t) == <<salt[t], nonce[t]>>

\* get_transaction_count: 0, and 1 once a contract has been created there.
TransactionCount(s) == IF s \in deployed THEN 1 ELSE 0

-----------------------------------------------------------------------------
(* Faulty forms of the definitions below: each is a slip in the code that   *)
(* one of the properties at the end of the module must notice.              *)

\* The code at the address is read but not looked at.
GetCodeUnchecked(t) ==
    /\ Goto(t, "code", "count")
    /\ UNCHANGED <<salt, value, nonce, tx, posted, hadCode, reply, error, result,
                   walletMap, worldVars>>

\* The transactions of the signer are counted instead of the wallet's.
GetTransactionCountOfSigner(t) ==
    /\ Goto(t, "count", "fund")
    /\ nonce' = [nonce EXCEPT ![t] = Cardinality({u \in Tasks : tx[u].state = "mined"})]
    /\ UNCHANGED <<salt, value, tx, posted, hadCode, reply, error, result,
                   walletMap, worldVars>>

\* The ether goes to an address derived from another salt.
FundElsewhere(t) ==
    /\ value[t] <= purse
    /\ Goto(t, "fund", "receipt")
    /\ \E s \in Salts \ {salt[t]} : tx' = [tx EXCEPT ![t] = [to |-> s, state |-> "pending"]]
    /\ UNCHANGED <<salt, value, nonce, posted, hadCode, reply, error, result,
                   walletMap, worldVars>>

\* One `.await` only: the transaction is sent but its receipt is not waited for.
FundWithoutReceipt(t) ==
    /\ value[t] <= purse
    /\ Goto(t, "fund", "estimate")
    /\ tx' = [tx EXCEPT ![t] = [to |-> salt[t], state |-> "pending"]]
    /\ UNCHANGED <<salt, value, nonce, posted, hadCode, reply, error, result,
                   walletMap, worldVars>>

\* The wallet is registered when its operation is posted.
SendAndRegister(t) ==
    /\ Goto(t, "send", "await")
    /\ posted' = [posted EXCEPT ![t] = TRUE]
    /\ walletMap' = [walletMap EXCEPT ![Self[t]] = @ \cup {salt[t]}]
    /\ UNCHANGED <<salt, value, nonce, tx, hadCode, reply, error, result, worldVars>>

\* A refusal is reported as success.
ReceiveRefusalAsOk(t) ==
    /\ pc[t] = "await" /\ reply[t] = "refused"
    /\ Finish(t, "ok")
    /\ UNCHANGED <<salt, value, nonce, tx, posted, hadCode, reply, error,
                   walletMap, worldVars>>

-----------------------------------------------------------------------------
(* create_scw_deployment_uo.                                               *)

\* deploy_scw(name, pre_fund, salt).  &mut self: no other deployment is under
\* way on this middleware.  deploy_random_scw calls it with its own pre_fund
\* in the place of salt and the random number in the place of pre_fund.
Start(t) ==
    /\ \A other \in Tasks \ {t} : Self[other] = Self[t] => ~Running(other)
    /\ Goto(t, "idle", "code")
    /\ IF Op[t] = "deploy_scw"
       THEN UNCHANGED <<salt, value>>
       ELSE \E random \in RandomU64 :
                /\ salt' = [salt EXCEPT ![t] = PreFund[t]]
                /\ value' = [value EXCEPT ![t] = random]
    /\ hadCode' = [hadCode EXCEPT ![t] = salt'[t] \in deployed]
    /\ UNCHANGED <<nonce, tx, posted, reply, error, result, walletMap, worldVars>>

\* get_code: a non-empty code is SmartContractWalletHasBeenDeployed.
GetCode(t) ==
    /\ IF salt[t] \in deployed
       THEN pc[t] = "code" /\ Finish(t, "err")
       ELSE Goto(t, "code", "count") /\ UNCHANGED result
    /\ UNCHANGED <<salt, value, nonce, tx, posted, hadCode, reply, error,
                   walletMap, worldVars>>

\* get_transaction_count(scw_address) is the operation's nonce.
GetTransactionCount(t) ==
    /\ Goto(t, "count", "fund")
    /\ nonce' = [nonce EXCEPT ![t] = TransactionCount(salt[t])]
    /\ UNCHANGED <<salt, value, tx, posted, hadCode, reply, error, result,
                   walletMap, worldVars>>

-----------------------------------------------------------------------------
(* deploy_scw.                                                             *)

\* send_transaction(tx).await?: the node takes a transfer the signer can pay.
SendTransaction(t) ==
    /\ value[t] <= purse
    /\ Goto(t, "fund", "receipt")
    /\ tx' = [tx EXCEPT ![t] = [to |-> salt[t], state |-> "pending"]]
    /\ UNCHANGED <<salt, value, nonce, posted, hadCode, reply, error, result,
                   walletMap, worldVars>>

\* The second .await? on it yields a receipt, or None when the transaction
\* has vanished from the node's pool; `_tx` is never looked at.
ReceiveReceipt(t) ==
    /\ tx[t].state \in {"mined", "vanished"}
    /\ Goto(t, "receipt", "estimate")
    /\ UNCHANGED <<salt, value, nonce, tx, posted, hadCode, reply, error, result,
                   walletMap, worldVars>>

\* The bundler's estimate and the node's fees become the operation's limits.
EstimateGas(t) ==
    /\ Goto(t, "estimate", "send")
    /\ UNCHANGED <<salt, value, nonce, tx, posted, hadCode, reply, error, result,
                   walletMap, worldVars>>

Send(t) ==
    /\ Goto(t, "send", "await")
    /\ posted' = [posted EXCEPT ![t] = TRUE]
    /\ UNCHANGED <<salt, value, nonce, tx, hadCode, reply, error, result,
                   walletMap, worldVars>>

\* set_uo_hash, and the new wallet into wallet_map.
ReceiveHash(t) ==
    /\ pc[t] = "await" /\ reply[t] = "result"
    /\ walletMap' = [walletMap EXCEPT ![Self[t]] = @ \cup {salt[t]}]
    /\ Finish(t, "ok")
    /\ UNCHANGED <<salt, value, nonce, tx, posted, hadCode, reply, error, worldVars>>

\* handle_response classifies a gas error, on the estimate or on the
\* submission, and `?` hands it to the caller.  The variant is built from
\* (figure posted, figure wanted); Display prints the first as `calculated`
\* and the second as `provided`.
ReceiveGasError(t) ==
    /\ pc[t] = "estimate" \/ (pc[t] = "await" /\ reply[t] = "gas")
    /\ error' = [error EXCEPT ![t] = [calculated |-> "given", provided |-> "needed"]]
    /\ Finish(t, "err")
    /\ UNCHANGED <<salt, value, nonce, tx, posted, hadCode, reply, walletMap, worldVars>>

\* Any other refusal.
ReceiveRefusal(t) ==
    /\ pc[t] = "await" /\ reply[t] = "refused"
    /\ Finish(t, "err")
    /\ UNCHANGED <<salt, value, nonce, tx, posted, hadCode, reply, error,
                   walletMap, worldVars>>

\* A request to the node or the bundler fails.  Whatever was sent before
\* stays sent: a pending transfer, a posted operation.
Fail(t) ==
    /\ pc[t] \in {"code", "count", "fund", "receipt", "estimate", "await"}
    /\ Finish(t, "err")
    /\ UNCHANGED <<salt, value, nonce, tx, posted, hadCode, reply, error,
                   walletMap, worldVars>>

\* The caller drops the future (a select!, a timeout), or a panic unwinds it.
Drop(t) ==
    /\ Running(t)
    /\ Finish(t, "dropped")
    /\ UNCHANGED <<salt, value, nonce, tx, posted, hadCode, reply, error,
                   walletMap, worldVars>>

-----------------------------------------------------------------------------
(* The node, the bundler and the EntryPoint (external).                    *)

MineTransfer(t) ==
    /\ tx[t].state = "pending" /\ value[t] <= purse
    /\ tx' = [tx EXCEPT ![t].state = "mined"]
    /\ purse' = purse - value[t]
    /\ balance' = [balance EXCEPT ![tx[t].to] = @ + value[t]]
    /\ UNCHANGED <<pc, salt, value, nonce, posted, hadCode, reply, error, result,
                   walletMap, deployed, accepted>>

VanishTransfer(t) ==
    /\ tx[t].state = "pending"
    /\ tx' = [tx EXCEPT ![t].state = "vanished"]
    /\ UNCHANGED <<pc, salt, value, nonce, posted, hadCode, reply, error, result,
                   walletMap, worldVars>>

\* The bundler simulates the operation: no code yet, the first nonce, and
\* enough ether at the address to pay for it.
PassesValidation(u) == u[2] = 0 /\ u[1] \notin deployed /\ balance[u[1]] >= Cost

Answer(t, r) ==
    /\ pc[t] = "await" /\ reply[t] = "none"
    /\ reply' = [reply EXCEPT ![t] = r]
    /\ UNCHANGED <<pc, salt, value, nonce, tx, posted, hadCode, error, result,
                   walletMap, purse, balance, deployed>>

AcceptUo(t) ==
    /\ PassesValidation(DeploymentUo(t))
    /\ accepted' = accepted \cup {DeploymentUo(t)}
    /\ Answer(t, "result")

RefuseUo(t) ==
    /\ Answer(t, "gas") \/ Answer(t, "refused")
    /\ UNCHANGED accepted

\* A posted operation is taken although its sender no longer waits.
LateArrival(t) ==
    /\ pc[t] = "done" /\ posted[t] /\ reply[t] = "none"
    /\ PassesValidation(DeploymentUo(t))
    /\ accepted' = accepted \cup {DeploymentUo(t)}
    /\ UNCHANGED <<taskVars, walletMap, purse, balance, deployed>>

\* A pooled deployment operation is mined and creates the wallet.
HandleOps(u) ==
    /\ PassesValidation(u)
    /\ deployed' = deployed \cup {u[1]}
    /\ balance' = [balance EXCEPT ![u[1]] = @ - Cost]
    /\ UNCHANGED <<taskVars, walletMap, purse, accepted>>

-----------------------------------------------------------------------------
create_scw_deployment_uo(t) == Start(t) \/ GetCode(t) \/ GetTransactionCount(t)

Receive(t) == ReceiveHash(t) \/ ReceiveGasError(t) \/ ReceiveRefusal(t)

deploy_scw(t) ==
    \/ create_scw_deployment_uo(t)
    \/ SendTransaction(t) \/ ReceiveReceipt(t) \/ EstimateGas(t) \/ Send(t)
    \/ Receive(t) \/ Fail(t) \/ Drop(t)

World(t) ==
    \/ MineTransfer(t) \/ VanishTransfer(t)
    \/ AcceptUo(t) \/ RefuseUo(t) \/ LateArrival(t)

Next ==
    \/ \E t \in Tasks : deploy_scw(t) \/ World(t)
    \/ \E u \in accepted : HandleOps(u)

Spec == Init /\ [][Next]_vars

\* The bundler includes what it has accepted in a block.
FairSpec == Spec /\ \A u \in Salts \X {0, 1} : WF_vars(u \in accepted /\ HandleOps(u))

-----------------------------------------------------------------------------
(* Properties.                                                             *)

\* Every key of wallet_map other than the default one is the address of a
\* deployment the bundler took, also when the future is dropped half-way.
MapEntryAccepted ==
    \A m \in Middlewares : \A s \in walletMap[m] \ {Default} :
        \E u \in accepted : u[1] = s

\* The ether reaches the address that sends the operation: between the
\* mining of the transfer and the deployment it stays there in full, whatever
\* other invocations do.
FundedWhenPosted ==
    \A t \in Tasks : posted[t] /\ tx[t].state = "mined"
        => salt[t] \in deployed \/ balance[salt[t]] >= value[t]

\* An invocation for an address that already was a contract when it began
\* neither moves ether nor posts an operation.
DeployedIsLeftAlone ==
    \A t \in Tasks : hadCode[t] => tx[t].state = "unsent" /\ ~posted[t]

\* The operation is posted only after the fate of the transfer is known.
PostAfterReceipt ==
    [][\A t \in Tasks : ~posted[t] /\ posted'[t]
          => tx[t].state \in {"mined", "vanished"}]_vars

\* Ok cannot be taken back: the wallet exists, or its operation is in the
\* bundler's hands and would be executed as things stand, whatever other
\* invocations, transfers and deployments have happened since.
OkStaysDeployable ==
    \A t \in Tasks : result[t] = "ok" =>
        \/ salt[t] \in deployed
        \/ DeploymentUo(t) \in accepted /\ PassesValidation(DeploymentUo(t))

\* Ok means that the wallet will exist: nothing that other invocations do
\* afterwards can take the deployment away.
OkLeadsToDeployment ==
    \A t \in Tasks : result[t] = "ok" ~> salt[t] \in deployed

-----------------------------------------------------------------------------
(* What the comments of the source say, and the code does not do.          *)

\* errors.rs: "calculated" is the figure the bundler wants, "provided" the
\* one the operation had.
ErrorNamesFigures ==
    \A t \in Tasks : error[t] # NoError
        => error[t] = [calculated |-> "needed", provided |-> "given"]

\* deploy_random_scw's documentation: pre_fund is the amount of ether the
\* wallet is funded with.
FundedAsAsked ==
    \A t \in Tasks : tx[t].state # "unsent" => value[t] = PreFund[t]

=============================================================================
