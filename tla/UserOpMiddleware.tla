--------------------------- MODULE UserOpMiddleware ---------------------------
(***************************************************************************)
(* The two operations of src/userop_middleware.rs that act on a deployed   *)
(* smart contract wallet: `call` and `send_eth`.  Both read the chain      *)
(* (code, nonce, fees), ask the bundler for a gas estimate, and then loop: *)
(* build, sign and POST a UserOperation until the bundler answers with a   *)
(* hash, raising one gas limit after each gas error, and posting the same  *)
(* operation again after every error that handle_response did not          *)
(* classify (a broken connection, a body that is not JSON-RPC).            *)
(*                                                                         *)
(* Invocations run concurrently: `call` takes &self, the middleware is     *)
(* Clone, and every `.await` is a point where another invocation, the      *)
(* bundler or the chain may move.  The bundler and the EntryPoint contract *)
(* are external; they are modelled from the messages the code recognises   *)
(* and from the values it reads from them.                                 *)
(*                                                                         *)
(* Abstractions: a hash is the operation it is the hash of; the signature  *)
(* is a function of the operation (sign_uo is pure) and is left out, and   *)
(* so are the two fees, which are read once and never decide a branch.     *)
(***************************************************************************)
EXTENDS Integers, FiniteSets

CONSTANTS
    Tasks,      \* the invocations of call and send_eth
    Wallets,    \* addresses of smart contract wallets
    Payloads,   \* execution calldata: what the wallet is asked to do
    Kind,       \* Kind[t]: which of the two operations t invokes
    Wallet,     \* Wallet[t]: the argument scw_wallet_address
    Payload,    \* Payload[t]: the encoded execute(dest, value, func)
    Estimates,  \* the EstimateResult values the bundler may answer with
    Demands,    \* the gas the bundler's validation may ask for at some time
    Margin,     \* added once to the estimated verification gas (10000)
    Step,       \* Step[k]: added after AA40, 10000 in call, 1000 in send_eth
    U64Max,     \* largest figure that captures[i].parse::<u64>() accepts
    U256Max     \* largest U256

Kinds   == {"call", "send_eth"}
GasVal  == 0 .. U256Max
Gas     == [call : GasVal, pre : GasVal, ver : GasVal]
UserOp  == [sender : Wallets, nonce : Nat, data : Payloads, gas : Gas]

ASSUME TaskAssumption ==
    /\ Kind \in [Tasks -> Kinds]
    /\ Wallet \in [Tasks -> Wallets]
    /\ Payload \in [Tasks -> Payloads]

ASSUME GasAssumption ==
    /\ U64Max \in Nat
    /\ U256Max \in Nat
    /\ Margin \in Nat
    /\ Step \in [Kinds -> Nat \ {0}]
    /\ Estimates \subseteq Gas
    /\ Demands \subseteq Gas

VARIABLES
    \* one invocation
    pc,          \* where the async function is suspended
    nonce,       \* local `nonce`, read once before the loop
    gas,         \* locals call_gas_limit, pre_verification_gas, verification_gas_limit
    uoHash,      \* uo_builder.uo_hash, an Option: {} or {hash}
    reply,       \* what the bundler has written on this invocation's connection
    result,      \* how the invocation ended
    sent,        \* history: the operations it has POSTed
    unanswered,  \* history: those of them whose answer never reached it
    \* the world
    deployed,    \* wallets whose code is not empty
    chainNonce,  \* EntryPoint.getNonce(wallet, 0)
    accepted,    \* operations the bundler has taken into its pool
    executed     \* operations the EntryPoint has executed

taskVars  == <<pc, nonce, gas, uoHash, reply, result, sent, unanswered>>
worldVars == <<deployed, chainNonce, accepted, executed>>
vars      == <<pc, nonce, gas, uoHash, reply, result, sent, unanswered,
               deployed, chainNonce, accepted, executed>>

PCs        == {"idle", "code", "nonce", "estimate", "send", "await", "done"}
Results    == {"none", "ok", "err", "panic"}
ReplyKinds == {"none", "result", "callGas", "preGas", "verGas", "unknown"}
Reply      == [kind : ReplyKinds, given : GasVal, needed : GasVal, hash : SUBSET UserOp]

NoReply == [kind |-> "none", given |-> 0, needed |-> 0, hash |-> {}]
NoGas   == [call |-> 0, pre |-> 0, ver |-> 0]

TypeOK ==
    /\ pc \in [Tasks -> PCs]
    /\ nonce \in [Tasks -> Nat]
    /\ gas \in [Tasks -> Gas]
    /\ uoHash \in [Tasks -> SUBSET UserOp]
    /\ reply \in [Tasks -> Reply]
    /\ result \in [Tasks -> Results]
    /\ sent \in [Tasks -> SUBSET UserOp]
    /\ unanswered \in [Tasks -> SUBSET UserOp]
    /\ deployed \in SUBSET Wallets
    /\ chainNonce \in [Wallets -> Nat]
    /\ accepted \in SUBSET UserOp
    /\ executed \in SUBSET UserOp

Init ==
    /\ pc = [t \in Tasks |-> "idle"]
    /\ nonce = [t \in Tasks |-> 0]
    /\ gas = [t \in Tasks |-> NoGas]
    /\ uoHash = [t \in Tasks |-> {}]
    /\ reply = [t \in Tasks |-> NoReply]
    /\ result = [t \in Tasks |-> "none"]
    /\ sent = [t \in Tasks |-> {}]
    /\ unanswered = [t \in Tasks |-> {}]
    /\ deployed \in SUBSET Wallets
    /\ chainNonce = [w \in Wallets |-> 0]
    /\ accepted = {}
    /\ executed = {}

-----------------------------------------------------------------------------
(* Helpers.                                                                *)

\* Faulty form of SaturatingAdd: `+` on an integer with no width.
PlainAdd(a, b) == a + b

\* U256::saturating_add.
SaturatingAdd(a, b) == IF a + b > U256Max THEN U256Max ELSE a + b

\* build_uo on the builder of t: every field is set before the loop starts.
BuildUo(t) ==
    [sender |-> Wallet[t], nonce |-> nonce[t], data |-> Payload[t], gas |-> gas[t]]

\* The invocation returns (or unwinds) with r.
Finish(t, r) ==
    /\ pc' = [pc EXCEPT ![t] = "done"]
    /\ result' = [result EXCEPT ![t] = r]

Goto(t, from, to) ==
    /\ pc[t] = from
    /\ pc' = [pc EXCEPT ![t] = to]

\* handle_response parses the two figures of a gas error with
\* parse::<u64>().unwrap(): a figure beyond u64 panics.
FiguresOverflow(r) ==
    /\ r.kind \in {"callGas", "preGas"}
    /\ r.given > U64Max \/ r.needed > U64Max

-----------------------------------------------------------------------------
(* Faulty forms of the definitions below: each is a slip in the code that   *)
(* one of the properties at the end of the module must notice.              *)

\* The code of the wallet is read but not looked at.
GetCodeUnchecked(t) ==
    /\ Goto(t, "code", "nonce")
    /\ UNCHANGED <<nonce, gas, uoHash, reply, result, sent, unanswered, worldVars>>

\* The next nonce is read as if the current one were already used.
GetNonceAhead(t) ==
    /\ Goto(t, "nonce", "estimate")
    /\ nonce' = [nonce EXCEPT ![t] = chainNonce[Wallet[t]] + 1]
    /\ UNCHANGED <<gas, uoHash, reply, result, sent, unanswered, worldVars>>

\* The success arm leaves uo_builder.uo_hash unset, so the loop goes round.
ReceiveHashUnset(t) ==
    /\ reply[t].kind = "result"
    /\ Goto(t, "await", "send")
    /\ UNCHANGED <<nonce, gas, uoHash, reply, result, sent, unanswered, worldVars>>

\* call_gas_limit is logged as raised but not assigned.
RetryCallGasUnchanged(t) ==
    /\ reply[t].kind = "callGas"
    /\ Goto(t, "await", "send")
    /\ UNCHANGED <<nonce, gas, uoHash, reply, result, sent, unanswered, worldVars>>

\* The step is assigned instead of added.
RetryVerGasAssign(t) ==
    /\ reply[t].kind = "verGas"
    /\ Goto(t, "await", "send")
    /\ gas' = [gas EXCEPT ![t].ver = Step[Kind[t]]]
    /\ UNCHANGED <<nonce, uoHash, reply, result, sent, unanswered, worldVars>>

\* The unknown error is swallowed and the local hash returned.
ReceiveUnknownAsOk(t) ==
    /\ pc[t] = "await"
    /\ reply[t].kind = "unknown"
    /\ uoHash' = [uoHash EXCEPT ![t] = {BuildUo(t)}]
    /\ Finish(t, "ok")
    /\ UNCHANGED <<nonce, gas, reply, sent, unanswered, worldVars>>

\* After a transport error the operation is prepared from scratch.
RestartAfterTransportError(t) ==
    /\ Goto(t, "await", "nonce")
    /\ unanswered' = [unanswered EXCEPT ![t] = @ \cup {BuildUo(t)}]
    /\ reply' = [reply EXCEPT ![t] = NoReply]
    /\ UNCHANGED <<nonce, gas, uoHash, result, sent, worldVars>>

-----------------------------------------------------------------------------
(* Before the loop.  Every `?` on the way returns the error to the caller. *)

\* The wallet name is known and, in call, the transaction has data, an
\* address in `to` and a value: the invocation reaches get_code.
Start(t) ==
    /\ Goto(t, "idle", "code")
    /\ UNCHANGED <<nonce, gas, uoHash, reply, result, sent, unanswered, worldVars>>

\* uo_calldata_from_tx expects `data`, `to` and `value`: a TypedTransaction
\* without one of them unwinds.  send_eth takes no transaction.
PanicOnIncompleteTx(t) ==
    /\ Kind[t] = "call"
    /\ pc[t] = "idle"
    /\ Finish(t, "panic")
    /\ UNCHANGED <<nonce, gas, uoHash, reply, sent, unanswered, worldVars>>

\* UserOperationBuilder::new refuses a wallet name that is not registered.
RefuseWalletName(t) ==
    /\ pc[t] = "idle"
    /\ Finish(t, "err")
    /\ UNCHANGED <<nonce, gas, uoHash, reply, sent, unanswered, worldVars>>

\* get_code: an empty code is SmartContractWalletHasNotBeenDeployed.
GetCode(t) ==
    /\ IF Wallet[t] \in deployed
       THEN Goto(t, "code", "nonce") /\ UNCHANGED result
       ELSE pc[t] = "code" /\ Finish(t, "err")
    /\ UNCHANGED <<nonce, gas, uoHash, reply, sent, unanswered, worldVars>>

\* EntryPoint.get_nonce(scw_wallet_address, 0).
GetNonce(t) ==
    /\ Goto(t, "nonce", "estimate")
    /\ nonce' = [nonce EXCEPT ![t] = chainNonce[Wallet[t]]]
    /\ UNCHANGED <<gas, uoHash, reply, result, sent, unanswered, worldVars>>

\* estimate_eip1559_fees, a first signed draft, and the bundler's estimate
\* for it; the verification gas gets a margin.
EstimateGas(t) ==
    /\ Goto(t, "estimate", "send")
    /\ \E e \in Estimates :
           gas' = [gas EXCEPT ![t] =
                      [call |-> e.call, pre |-> e.pre, ver |-> SaturatingAdd(e.ver, Margin)]]
    /\ UNCHANGED <<nonce, uoHash, reply, result, sent, unanswered, worldVars>>

\* A node or bundler request before the loop fails; an estimate answered by a
\* gas error with a figure beyond u64 panics in handle_response instead.
FailBeforeLoop(t) ==
    /\ \/ pc[t] \in {"code", "nonce", "estimate"} /\ Finish(t, "err")
       \/ pc[t] = "estimate" /\ Finish(t, "panic")
    /\ UNCHANGED <<nonce, gas, uoHash, reply, sent, unanswered, worldVars>>

-----------------------------------------------------------------------------
(* The loop `while uo_builder.uo_hash().is_none()`.                        *)

\* Build, sign and POST the operation with the current limits.
Send(t) ==
    /\ Goto(t, "send", "await")
    /\ uoHash[t] = {}
    /\ reply' = [reply EXCEPT ![t] = NoReply]
    /\ sent' = [sent EXCEPT ![t] = @ \cup {BuildUo(t)}]
    /\ UNCHANGED <<nonce, gas, uoHash, result, unanswered, worldVars>>

\* Success: the hash is stored in the builder, which ends the loop.
ReceiveHash(t) ==
    /\ pc[t] = "await"
    /\ reply[t].kind = "result"
    /\ uoHash' = [uoHash EXCEPT ![t] = reply[t].hash]
    /\ Finish(t, "ok")
    /\ UNCHANGED <<nonce, gas, reply, sent, unanswered, worldVars>>

\* CallGasLimitError: take the bundler's estimation and go round again.
RetryCallGas(t) ==
    /\ reply[t].kind = "callGas"
    /\ ~FiguresOverflow(reply[t])
    /\ Goto(t, "await", "send")
    /\ gas' = [gas EXCEPT ![t].call = reply[t].needed]
    /\ UNCHANGED <<nonce, uoHash, reply, result, sent, unanswered, worldVars>>

\* PreVerificationGasError: take the bundler's calculation.
RetryPreGas(t) ==
    /\ reply[t].kind = "preGas"
    /\ ~FiguresOverflow(reply[t])
    /\ Goto(t, "await", "send")
    /\ gas' = [gas EXCEPT ![t].pre = reply[t].needed]
    /\ UNCHANGED <<nonce, uoHash, reply, result, sent, unanswered, worldVars>>

\* VerificationGasLimitError carries no figure: add a step.
RetryVerGas(t) ==
    /\ reply[t].kind = "verGas"
    /\ gas[t].ver + Step[Kind[t]] <= U256Max
    /\ Goto(t, "await", "send")
    /\ gas' = [gas EXCEPT ![t].ver = @ + Step[Kind[t]]]
    /\ UNCHANGED <<nonce, uoHash, reply, result, sent, unanswered, worldVars>>

\* A figure beyond u64 is unwrapped, or `+=` on a U256 overflows.
PanicInLoop(t) ==
    /\ pc[t] = "await"
    /\ \/ FiguresOverflow(reply[t])
       \/ reply[t].kind = "verGas" /\ gas[t].ver + Step[Kind[t]] > U256Max
    /\ Finish(t, "panic")
    /\ UNCHANGED <<nonce, gas, uoHash, reply, sent, unanswered, worldVars>>

\* Any other JSON-RPC error becomes UnknownError and leaves the loop.
ReceiveUnknown(t) ==
    /\ pc[t] = "await"
    /\ reply[t].kind = "unknown"
    /\ Finish(t, "err")
    /\ UNCHANGED <<nonce, gas, uoHash, reply, sent, unanswered, worldVars>>

\* send() or text() fails, or the body is no JSON-RPC message: the error is
\* not a UserOpMiddlewareError, downcast_ref gives None, and the loop posts
\* again.  The request may or may not have reached the bundler, and whatever
\* the bundler answered is gone.
RetryAfterTransportError(t) ==
    /\ Goto(t, "await", "send")
    /\ unanswered' = [unanswered EXCEPT ![t] = @ \cup {BuildUo(t)}]
    /\ reply' = [reply EXCEPT ![t] = NoReply]
    /\ UNCHANGED <<nonce, gas, uoHash, result, sent, worldVars>>

-----------------------------------------------------------------------------
(* The bundler (external).                                                 *)

MeetsDemand(g, d) == g.call >= d.call /\ g.pre >= d.pre /\ g.ver >= d.ver

\* Simulation of the operation on the current chain state.
PassesValidation(u) == u.sender \in deployed /\ u.nonce = chainNonce[u.sender]

Answer(t, r) ==
    /\ pc[t] = "await"
    /\ reply[t].kind = "none"
    /\ reply' = [reply EXCEPT ![t] = r]
    /\ UNCHANGED <<pc, nonce, gas, uoHash, result, sent, unanswered>>

\* The operation is valid and its gas suffices now: into the pool.
AcceptUo(t) ==
    LET u == BuildUo(t) IN
    /\ PassesValidation(u)
    /\ \E d \in Demands : MeetsDemand(u.gas, d)
    /\ accepted' = accepted \cup {u}
    /\ Answer(t, [NoReply EXCEPT !.kind = "result", !.hash = {u}])
    /\ UNCHANGED <<deployed, chainNonce, executed>>

\* One of the three errors that handle_response recognises.
RejectGas(t) ==
    /\ \E d \in Demands :
           LET g == gas[t] IN
           \/ /\ g.call < d.call
              /\ Answer(t, [NoReply EXCEPT !.kind = "callGas",
                                           !.given = g.call, !.needed = d.call])
           \/ /\ g.pre < d.pre
              /\ Answer(t, [NoReply EXCEPT !.kind = "preGas",
                                           !.given = g.pre, !.needed = d.pre])
           \/ /\ g.ver < d.ver
              /\ Answer(t, [NoReply EXCEPT !.kind = "verGas"])
    /\ UNCHANGED worldVars

\* Any other refusal: stale nonce, already known, fee too low, reputation.
RejectUnknown(t) ==
    /\ Answer(t, [NoReply EXCEPT !.kind = "unknown"])
    /\ UNCHANGED worldVars

\* A POST whose connection broke is read by the bundler after all.
LateArrival(t) ==
    /\ \E u \in unanswered[t] :
           /\ PassesValidation(u)
           /\ \E d \in Demands : MeetsDemand(u.gas, d)
           /\ accepted' = accepted \cup {u}
    /\ UNCHANGED <<taskVars, deployed, chainNonce, executed>>

-----------------------------------------------------------------------------
(* The chain (external).                                                   *)

\* The deployment operation of w is mined (module ScwDeployment).
DeployWallet(w) ==
    /\ w \notin deployed
    /\ deployed' = deployed \cup {w}
    /\ UNCHANGED <<taskVars, chainNonce, accepted, executed>>

\* The EntryPoint executes a pooled operation whose nonce is the next one.
HandleOps(u) ==
    /\ PassesValidation(u)
    /\ chainNonce' = [chainNonce EXCEPT ![u.sender] = @ + 1]
    /\ executed' = executed \cup {u}
    /\ UNCHANGED <<taskVars, deployed, accepted>>

-----------------------------------------------------------------------------
BeforeLoop(t) ==
    \/ GetCode(t) \/ GetNonce(t) \/ EstimateGas(t) \/ FailBeforeLoop(t)

Receive(t) ==
    \/ ReceiveHash(t) \/ RetryCallGas(t) \/ RetryPreGas(t) \/ RetryVerGas(t)
    \/ PanicInLoop(t) \/ ReceiveUnknown(t)

SendLoop(t) == Send(t) \/ Receive(t) \/ RetryAfterTransportError(t)

call(t) ==
    /\ Kind[t] = "call"
    /\ \/ Start(t) \/ PanicOnIncompleteTx(t) \/ RefuseWalletName(t)
       \/ BeforeLoop(t) \/ SendLoop(t)

send_eth(t) ==
    /\ Kind[t] = "send_eth"
    /\ Start(t) \/ RefuseWalletName(t) \/ BeforeLoop(t) \/ SendLoop(t)

Bundler(t) == AcceptUo(t) \/ RejectGas(t) \/ RejectUnknown(t)

Next ==
    \/ \E t \in Tasks : call(t) \/ send_eth(t) \/ Bundler(t) \/ LateArrival(t)
    \/ \E w \in Wallets : DeployWallet(w)
    \/ \E u \in accepted : HandleOps(u)

Spec == Init /\ [][Next]_vars

\* A suspended future is polled again (WF); the bundler keeps answering and
\* the network lets an answer through if it is asked often enough (SF): the
\* loop posts again for as long as it does not.
Fairness ==
    \A t \in Tasks :
        /\ WF_vars(BeforeLoop(t))
        /\ WF_vars(Send(t))
        /\ SF_vars(Receive(t))
        /\ SF_vars(Bundler(t))

FairSpec == Spec /\ Fairness

-----------------------------------------------------------------------------
(* Properties.                                                             *)

\* However often the loop posts again (after a gas error, or after an answer
\* that never arrived although the operation was pooled), at most one of the
\* operations of one invocation is ever executed: all of them carry the nonce
\* read before the loop.
AtMostOnce ==
    \A t \in Tasks : \A u, v \in executed \cap sent[t] : u = v

\* A hash that is returned is the hash of an operation this invocation posted
\* and the bundler took into its pool.
OkWasAccepted ==
    \A t \in Tasks : result[t] = "ok" =>
        \E u \in sent[t] \cap accepted : uoHash[t] = {u}

\* When an invocation has returned, the only operations of its own that can
\* still be in the pool are the one it returned and those whose answer it
\* never saw.  So an Err after which every answer was read leaves nothing
\* behind, and a caller that saw no broken connection may safely try again.
OnlyUnansweredLive ==
    \A t \in Tasks : pc[t] = "done" =>
        \A u \in sent[t] \cap accepted :
            \/ u \in uoHash[t]
            \/ u \in unanswered[t]
            \/ \E other \in Tasks \ {t} : u \in sent[other]

\* No invocation posts an operation for a nonce the EntryPoint has not
\* reached: the pool never holds one that waits for another to come first.
NonceNeverAhead ==
    \A t \in Tasks : \A u \in sent[t] : u.nonce <= chainNonce[u.sender]

\* Going round the loop after a gas error raises exactly one of the three
\* limits and lowers none, so the retries cannot alternate between two
\* operations.
RetryRaisesOneLimit ==
    [][\A t \in Tasks :
          pc[t] = "await" /\ pc'[t] = "send"
            /\ reply[t] # NoReply /\ reply'[t] = reply[t]
          => LET old == gas[t]
                 new == gas'[t]
             IN  \/ new.call > old.call /\ new.pre = old.pre /\ new.ver = old.ver
                 \/ new.call = old.call /\ new.pre > old.pre /\ new.ver = old.ver
                 \/ new.call = old.call /\ new.pre = old.pre /\ new.ver > old.ver
       ]_vars

\* Every invocation returns or unwinds: the gas errors run out, because the
\* limits only grow towards what validation asks for.
Returns ==
    \A t \in Tasks : pc[t] = "code" ~> pc[t] = "done"

=============================================================================
