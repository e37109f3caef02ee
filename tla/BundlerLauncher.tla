--------------------------- MODULE BundlerLauncher ----------------------------
(***************************************************************************)
(* `ethuo bundler run` and `ethuo bundler test` from main to the services   *)
(* (src/main.rs, src/bundler.rs).  main starts a thread with a runtime and  *)
(* joins it; that runtime drives run_until_ctrl_c over the command, the     *)
(* OUTER layer.  run_bundler starts a second thread with a second runtime,  *)
(* which drives run_until_ctrl_c over the services, the INNER layer, and    *)
(* joins it from within the outer future: while it does, the outer select!  *)
(* polls nothing.  run_bundler_test first sets up a test chain, awaiting,   *)
(* in the outer layer.                                                     *)
(*                                                                         *)
(* A signal is broadcast to the listeners that exist when it arrives.  The  *)
(* SIGTERM listener of a layer is made before its select!, the Ctrl-C one   *)
(* when select! first polls ctrl_c, and select! polls its branches in a     *)
(* random order.  A signal for which no listener was ever made kills the    *)
(* process.                                                                *)
(*                                                                         *)
(* Abstractions: the node, the gRPC services and the JSON-RPC server are    *)
(* external and known by whether they answer; addresses of the test chain   *)
(* are known by the position of the transaction that created them.          *)
(***************************************************************************)
EXTENDS Naturals, Sequences

CONSTANTS MaxSignals  \* bound on the signals that are sent

ASSUME SignalAssumption == MaxSignals \in Nat

Modes   == {"run", "test"}
Layers  == {"outer", "inner"}
Signals == {"SIGINT", "SIGTERM"}
Branches == Signals \cup {"fut"}   \* of the select! in run_until_ctrl_c
Ends    == {"ok", "err", "panic"}

VARIABLES
    mode,       \* which of the two commands was given
    pc,         \* where the thread of a layer is
    unpolled,   \* branches that this round of the layer's select! has yet to poll
    stage,      \* which await of its future a layer has reached
    end,        \* what the layer's thread returned
    handled,    \* signals that no longer have their default action
    listening,  \* signals a layer has a listener for
    seen,       \* signals broadcast to a listener of the layer
    sent,       \* history: number of signals sent
    geth,       \* the test chain's child process, killed by the drop of its handle
    created,    \* what the transactions of the SEED_PHRASE account created, in order
    rpc,        \* the JSON-RPC server's task
    exit        \* the process

vars == <<mode, pc, unpolled, stage, end, handled, listening, seen, sent, geth,
          created, rpc, exit>>

signalVars == <<handled, listening, seen, sent>>
testVars   == <<geth, created>>

OuterStages == {"start", "accounts", "fund", "entry_point", "factory", "erc20",
                "weth", "joining"}
InnerStages == {"client_version", "chain_id", "uopool", "connect", "serving"}
Contracts   == {"EntryPoint", "SimpleAccountFactory", "WETH"}

TypeOK ==
    /\ mode \in Modes
    /\ pc \in [Layers -> {"unborn", "boot", "select", "joining", "ended"}]
    /\ unpolled \in [Layers -> SUBSET Branches]
    /\ stage \in [outer : OuterStages, inner : InnerStages]
    /\ end \in [Layers -> Ends \cup {"none"}]
    /\ handled \subseteq Signals
    /\ listening \in [Layers -> SUBSET Signals]
    /\ seen \in [Layers -> SUBSET Signals]
    /\ \A l \in Layers : seen[l] \subseteq listening[l] /\ listening[l] \subseteq handled
    /\ sent \in 0 .. MaxSignals
    /\ geth \in {"none", "up", "stopped"}
    /\ created \in Seq(Contracts \cup {"transfer"}) /\ Len(created) <= 5
    /\ rpc \in {"none", "spawned", "connected", "up", "failed", "cancelled"}
    /\ exit \in Ends \cup {"running", "killed"}

Init ==
    /\ mode \in Modes
    /\ pc = [outer |-> "boot", inner |-> "unborn"]
    /\ unpolled = [l \in Layers |-> Branches]
    /\ stage = [outer |-> "start", inner |-> "client_version"]
    /\ end = [l \in Layers |-> "none"]
    /\ handled = {}
    /\ listening = [l \in Layers |-> {}]
    /\ seen = [l \in Layers |-> {}]
    /\ sent = 0
    /\ geth = "none" /\ created = <<>>
    /\ rpc = "none"
    /\ exit = "running"

-----------------------------------------------------------------------------
(* Helpers.                                                                *)

\* The layer's select! polls branch b: the next round starts when all of them
\* have been polled.
Polls(l, b) ==
    /\ exit = "running" /\ pc[l] = "select" /\ b \in unpolled[l]
    /\ unpolled' = [unpolled EXCEPT ![l] = IF @ = {b} THEN Branches ELSE @ \ {b}]

\* The layer's thread returns (or unwinds) with r, which drops its runtime and
\* everything its future holds: the handle of geth belongs to the outer
\* future, the server's task to the inner runtime.
End(l, r) ==
    /\ pc' = [pc EXCEPT ![l] = "ended"]
    /\ end' = [end EXCEPT ![l] = r]
    /\ listening' = [listening EXCEPT ![l] = {}]
    /\ seen' = [seen EXCEPT ![l] = {}]
    /\ geth' = IF l = "outer" /\ geth = "up" THEN "stopped" ELSE geth
    /\ rpc' = IF l = "inner" /\ rpc \in {"spawned", "connected", "up"}
              THEN "cancelled" ELSE rpc
    /\ UNCHANGED <<mode, stage, handled, sent, created, exit>>

Listen(l, s) ==
    /\ listening' = [listening EXCEPT ![l] = @ \cup {s}]
    /\ handled' = handled \cup {s}

\* The outer future starts the second thread and joins it, within one poll.
StartInner ==
    /\ pc' = [outer |-> "joining", inner |-> "boot"]
    /\ stage' = [stage EXCEPT !.outer = "joining"]

\* The contracts of the test chain, in order, and the awaits of their receipts.
Deployments == <<[at |-> "entry_point", contract |-> "EntryPoint"],
                 [at |-> "factory", contract |-> "SimpleAccountFactory"],
                 [at |-> "erc20", contract |-> "WETH"],
                 [at |-> "weth", contract |-> "WETH"]>>

-----------------------------------------------------------------------------
(* Faulty forms of the definitions below: each is a slip in the code that   *)
(* one of the properties at the end of the module must notice.              *)

\* The SIGTERM branch of the select! does not end it.
PollSignalOnlyCtrlC(l, s) ==
    /\ Polls(l, s)
    /\ \/ s = "SIGINT" /\ s \in seen[l] /\ End(l, "ok")
       \/ /\ s = "SIGTERM" \/ s \notin seen[l]
          /\ Listen(l, s)
          /\ UNCHANGED <<mode, pc, stage, end, seen, sent, testVars, rpc, exit>>

\* The handle of geth is bound to `_` and dropped on the spot.
FundDroppingGeth ==
    /\ mode = "test" /\ stage.outer = "fund"
    /\ Polls("outer", "fut")
    /\ stage' = [stage EXCEPT !.outer = "entry_point"]
    /\ geth' = "stopped"
    /\ UNCHANGED <<mode, pc, end, signalVars, created, rpc, exit>>

\* The transfer is sent from the account that deploys the contracts.
FundFromSigner ==
    /\ mode = "test" /\ stage.outer = "fund"
    /\ Polls("outer", "fut")
    /\ stage' = [stage EXCEPT !.outer = "entry_point"]
    /\ created' = Append(created, "transfer")
    /\ UNCHANGED <<mode, pc, end, signalVars, geth, rpc, exit>>

\* A deployment is repeated instead of followed by the next one.
DeployRepeating ==
    \E i \in 1 .. Len(Deployments) :
        /\ mode = "test" /\ stage.outer = Deployments[i].at
        /\ Polls("outer", "fut")
        /\ created' = Append(created, Deployments[i].contract)
        /\ UNCHANGED <<mode, pc, stage, end, signalVars, geth, rpc, exit>>

\* The result of the joined thread is thrown away.
JoinForgetting ==
    /\ exit = "running"
    /\ pc["outer"] = "joining" /\ pc["inner"] = "ended"
    /\ End("outer", "ok")
    /\ UNCHANGED unpolled

\* The services' future completes where it should pend for ever.
ConnectReturning ==
    /\ stage.inner = "connect"
    /\ Polls("inner", "fut")
    /\ End("inner", "ok")

-----------------------------------------------------------------------------
(* run_until_ctrl_c, in either layer.                                      *)

\* `signal(SignalKind::terminate())?`, before the select!.
Boot(l) ==
    /\ exit = "running" /\ pc[l] = "boot"
    /\ pc' = [pc EXCEPT ![l] = "select"]
    /\ Listen(l, "SIGTERM")
    /\ UNCHANGED <<mode, unpolled, stage, end, seen, sent, testVars, rpc, exit>>

\* select! polls ctrl_c, which makes its listener when it is first polled, or
\* sigterm.
PollSignal(l, s) ==
    /\ Polls(l, s)
    /\ \/ s \in seen[l] /\ End(l, "ok")
       \/ /\ s \notin seen[l]
          /\ Listen(l, s)
          /\ UNCHANGED <<mode, pc, stage, end, seen, sent, testVars, rpc, exit>>

\* select! polls the future, and what it awaits is not there yet.
PollPending(l) ==
    /\ Polls(l, "fut")
    /\ stage[l] # "start"
    /\ UNCHANGED <<mode, pc, stage, end, signalVars, testVars, rpc, exit>>

-----------------------------------------------------------------------------
(* The outer future.                                                       *)

\* The configuration of `bundler run` cannot be read, or does not parse.
RefuseConfig ==
    /\ mode = "run" /\ stage.outer = "start"
    /\ Polls("outer", "fut")
    /\ \E r \in {"err", "panic"} : End("outer", r)

\* run_bundler: no await before the second thread.
RunBundler ==
    /\ mode = "run" /\ stage.outer = "start"
    /\ Polls("outer", "fut")
    /\ StartInner
    /\ UNCHANGED <<mode, end, signalVars, testVars, rpc, exit>>

\* setup_geth up to its first await: geth is spawned, and an ethers that does
\* not find it panics.
SpawnGeth ==
    /\ mode = "test" /\ stage.outer = "start"
    /\ Polls("outer", "fut")
    /\ \/ End("outer", "panic")
       \/ /\ geth' = "up"
          /\ stage' = [stage EXCEPT !.outer = "accounts"]
          /\ UNCHANGED <<mode, pc, end, signalVars, created, rpc, exit>>

\* get_accounts answers; the transfer from the coinbase is sent.
GetAccounts ==
    /\ mode = "test" /\ stage.outer = "accounts"
    /\ Polls("outer", "fut")
    /\ stage' = [stage EXCEPT !.outer = "fund"]
    /\ UNCHANGED <<mode, pc, end, signalVars, testVars, rpc, exit>>

\* The transfer is mined.  The signer has sent no transaction of its own.
Fund ==
    /\ mode = "test" /\ stage.outer = "fund"
    /\ Polls("outer", "fut")
    /\ stage' = [stage EXCEPT !.outer = "entry_point"]
    /\ UNCHANGED <<mode, pc, end, signalVars, testVars, rpc, exit>>

\* deploy_entry_point, deploy_simple_account_factory and deploy_weth twice:
\* each waits for its receipt before the next one is sent.
Deploy ==
    \E i \in 1 .. Len(Deployments) :
        /\ mode = "test" /\ stage.outer = Deployments[i].at
        /\ Polls("outer", "fut")
        /\ created' = Append(created, Deployments[i].contract)
        /\ IF i < Len(Deployments)
           THEN /\ stage' = [stage EXCEPT !.outer = Deployments[i + 1].at]
                /\ UNCHANGED pc
           ELSE StartInner
        /\ UNCHANGED <<mode, end, signalVars, geth, rpc, exit>>

\* Any `?` of the setup.
FailSetup ==
    /\ Polls("outer", "fut")
    /\ stage.outer \notin {"start", "joining"}
    /\ End("outer", "err")

\* join() returns, and its result, or its panic, is that of the outer future.
Join ==
    /\ exit = "running"
    /\ pc["outer"] = "joining" /\ pc["inner"] = "ended"
    /\ End("outer", end["inner"])
    /\ UNCHANGED unpolled

-----------------------------------------------------------------------------
(* The inner future.                                                       *)

\* client_version, get_chainid and uopool_service_run answer.
Advance ==
    \E step \in {<<"client_version", "chain_id">>, <<"chain_id", "uopool">>,
                 <<"uopool", "connect">>} :
        /\ stage.inner = step[1]
        /\ Polls("inner", "fut")
        /\ stage' = [stage EXCEPT !.inner = step[2]]
        /\ UNCHANGED <<mode, pc, end, signalVars, testVars, rpc, exit>>

\* UoPoolClient::connect succeeds; the bundler service and the task of the
\* JSON-RPC server are spawned, and the future pends for ever.
Connect ==
    /\ stage.inner = "connect"
    /\ Polls("inner", "fut")
    /\ stage' = [stage EXCEPT !.inner = "serving"]
    /\ rpc' = "spawned"
    /\ UNCHANGED <<mode, pc, end, signalVars, testVars, exit>>

\* Any `?` before that; in the test command a wallet that cannot be made is
\* unwrapped.
FailInner ==
    /\ Polls("inner", "fut")
    /\ \/ stage.inner # "serving" /\ End("inner", "err")
       \/ mode = "test" /\ stage.inner = "chain_id" /\ End("inner", "panic")

\* The server's task: connect to the address of the uopool service, start.
RpcStep ==
    /\ exit = "running"
    /\ \/ rpc = "spawned" /\ rpc' = "connected"
       \/ rpc = "connected" /\ rpc' = "up"
    /\ UNCHANGED <<mode, pc, unpolled, stage, end, signalVars, testVars, exit>>

\* Any `?` in it: the task is over, and nobody holds its JoinHandle.
RpcFail ==
    /\ exit = "running" /\ rpc \in {"spawned", "connected"}
    /\ rpc' = "failed"
    /\ UNCHANGED <<mode, pc, unpolled, stage, end, signalVars, testVars, exit>>

-----------------------------------------------------------------------------
\* main joins the first thread and exits with its result.
MainReturns ==
    /\ exit = "running" /\ pc["outer"] = "ended"
    /\ exit' = end["outer"]
    /\ UNCHANGED <<mode, pc, unpolled, stage, end, signalVars, testVars, rpc>>

\* Someone sends the process a signal.
Send(s) ==
    /\ exit = "running" /\ sent < MaxSignals
    /\ sent' = sent + 1
    /\ IF s \in handled
       THEN /\ seen' = [l \in Layers |-> seen[l] \cup (listening[l] \cap {s})]
            /\ UNCHANGED exit
       ELSE exit' = "killed" /\ UNCHANGED seen
    /\ UNCHANGED <<mode, pc, unpolled, stage, end, handled, listening, testVars, rpc>>

run_until_ctrl_c(l) ==
    Boot(l) \/ (\E s \in Signals : PollSignal(l, s)) \/ PollPending(l)

OuterFuture ==
    \/ RefuseConfig \/ RunBundler
    \/ SpawnGeth \/ GetAccounts \/ Fund \/ Deploy \/ FailSetup
    \/ Join

InnerFuture == Advance \/ Connect \/ FailInner

Next ==
    \/ \E l \in Layers : run_until_ctrl_c(l)
    \/ OuterFuture \/ InnerFuture
    \/ RpcStep \/ RpcFail
    \/ MainReturns
    \/ \E s \in Signals : Send(s)

Spec == Init /\ [][Next]_vars

\* Threads run; a request to the node is answered or fails.
Fairness ==
    /\ WF_vars(run_until_ctrl_c("outer") \/ OuterFuture)
    /\ WF_vars(run_until_ctrl_c("inner") \/ InnerFuture)
    /\ SF_vars(OuterFuture)
    /\ SF_vars(InnerFuture)
    /\ WF_vars(RpcStep \/ RpcFail)
    /\ WF_vars(MainReturns)

FairSpec == Spec /\ Fairness

-----------------------------------------------------------------------------
(* Properties.                                                             *)

\* Position n of the test chain's SEED_PHRASE account is where the constants
\* GETH_ENTRY_POINT_ADDRESS (n = 1) and GETH_SIMPLE_ACCOUNT_FACTORY (n = 2)
\* point: when the services start, the contracts the rest of the program
\* talks to are there.
TestChainLaidOut ==
    mode = "test" /\ pc["inner"] # "unborn"
        => /\ Len(created) >= 2
           /\ created[1] = "EntryPoint" /\ created[2] = "SimpleAccountFactory"

\* The test chain lives as long as the services that use it, and no longer
\* than the process, unless a signal nobody listened for killed the process.
GethOutlivesServices ==
    /\ mode = "test" /\ exit = "running" /\ pc["inner"] \in {"boot", "select"}
           => geth = "up"
    /\ exit \in Ends => geth # "up"

\* A process that nobody sent a signal to does not report success: the
\* bundler never stops of its own accord but by a failure.
NoUnaskedSuccess == exit = "ok" => sent > 0

\* A signal that reaches the inner layer's listeners ends the process, through
\* both runtimes, although the outer layer is deaf by then.
InnerSignalStops == seen["inner"] # {} ~> exit # "running"

\* A service that cannot be started ends the process with that failure.
FailureReachesCaller ==
    \A r \in {"err", "panic"} : end["inner"] = r ~> exit \in {r, "killed"}

-----------------------------------------------------------------------------
(* What a comment of the source says, and the code does not do.            *)

\* run_until_ctrl_c: "Runs the future to completion or until: ctrl-c is
\* received, SIGTERM is received".
SignalStops == sent > 0 ~> exit # "running"

=============================================================================
