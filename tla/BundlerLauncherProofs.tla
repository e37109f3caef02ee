------------------------ MODULE BundlerLauncherProofs ------------------------
(***************************************************************************)
(* Proofs about BundlerLauncher for any number of signals: type             *)
(* correctness, where the contracts of the test chain are when the services *)
(* start, how long the test chain lives, and that the process does not      *)
(* report success without having been asked to stop.                       *)
(***************************************************************************)
EXTENDS BundlerLauncher, TLAPS

\* The number of contracts the SEED_PHRASE account has created when the test
\* command's future is at a stage.
Behind == [start |-> 0, accounts |-> 0, fund |-> 0, entry_point |-> 0,
           factory |-> 1, erc20 |-> 2, weth |-> 3, joining |-> 4]

\* They are those of Deployments in that order: each deployment waits for its
\* receipt before the next is sent, and the account sends nothing else.
CreatedInOrder ==
    /\ Len(created) = IF mode = "test" THEN Behind[stage.outer] ELSE 0
    /\ \A i \in 1 .. Len(created) : created[i] = Deployments[i].contract

\* The inner thread is started last, and joined by the outer one, which
\* returns only after it.
Nesting ==
    /\ pc["inner"] # "unborn" => stage.outer = "joining"
    /\ stage.outer = "joining" => pc["outer"] \in {"joining", "ended"}
    /\ pc["outer"] = "joining" => pc["inner"] # "unborn"
    /\ pc["inner"] \in {"boot", "select"} => pc["outer"] = "joining"
    /\ pc["outer"] = "boot" => stage.outer = "start"
    /\ pc["outer"] # "unborn"

\* geth is the child of the outer future: it is there from the spawn on, and
\* gone when the thread has returned.
GethHeld ==
    /\ mode = "test" /\ stage.outer # "start" /\ pc["outer"] # "ended" => geth = "up"
    /\ pc["outer"] = "ended" => geth # "up"
    /\ stage.outer = "start" => geth = "none"
    /\ mode = "run" => geth = "none"

\* A thread that has returned has a result, and the process's is that of the
\* outer one.
Returned ==
    /\ \A l \in Layers : pc[l] = "ended" => end[l] \in Ends
    /\ exit \in Ends => pc["outer"] = "ended" /\ exit = end["outer"]

\* Ok comes from a signal.
OkWasAsked ==
    /\ \A l \in Layers : seen[l] # {} => sent > 0
    /\ \A l \in Layers : end[l] = "ok" => sent > 0

IInv ==
    /\ CreatedInOrder
    /\ Nesting
    /\ GethHeld
    /\ Returned
    /\ OkWasAsked

-----------------------------------------------------------------------------
(* Lemmas about the operators of the model.                                *)

\* The four deployments, one by one.
LEMMA DeploymentSteps ==
    /\ Len(Deployments) = 4
    /\ Deployments[1] = [at |-> "entry_point", contract |-> "EntryPoint"]
    /\ Deployments[2] = [at |-> "factory", contract |-> "SimpleAccountFactory"]
    /\ Deployments[3] = [at |-> "erc20", contract |-> "WETH"]
    /\ Deployments[4] = [at |-> "weth", contract |-> "WETH"]
BY DEF Deployments

\* No stage has more than four of them behind it.
LEMMA BehindType ==
    ASSUME NEW s \in OuterStages
    PROVE  Behind[s] \in 0 .. 4
BY DEF OuterStages, Behind

\* A round of a layer's select! stays a set of branches.
LEMMA PollsType ==
    ASSUME TypeOK, NEW l \in Layers, NEW b, Polls(l, b)
    PROVE  unpolled' \in [Layers -> SUBSET Branches]
BY DEF TypeOK, Polls

\* Making a listener keeps the three sets of signals nested.
LEMMA ListenType ==
    ASSUME TypeOK, NEW l \in Layers, NEW s \in Signals, Listen(l, s), UNCHANGED seen
    PROVE  /\ handled' \subseteq Signals
           /\ listening' \in [Layers -> SUBSET Signals]
           /\ seen' \in [Layers -> SUBSET Signals]
           /\ \A k \in Layers : seen'[k] \subseteq listening'[k]
                                /\ listening'[k] \subseteq handled'
BY DEF TypeOK, Listen

\* The return of a thread changes what it owned, and nothing else.
LEMMA EndType ==
    ASSUME TypeOK, IInv, NEW l \in Layers, NEW r \in Ends, End(l, r),
           unpolled' \in [Layers -> SUBSET Branches]
    PROVE  TypeOK'
<1> USE DEF TypeOK, End
<1>1. /\ pc' \in [Layers -> {"unborn", "boot", "select", "joining", "ended"}]
      /\ end' \in [Layers -> Ends \cup {"none"}]
    OBVIOUS
<1>2. /\ listening' \in [Layers -> SUBSET Signals]
      /\ seen' \in [Layers -> SUBSET Signals]
      /\ \A k \in Layers : seen'[k] \subseteq listening'[k]
                           /\ listening'[k] \subseteq handled'
    OBVIOUS
<1> QED
    BY <1>1, <1>2

-----------------------------------------------------------------------------
(* The inductive invariant.                                                *)

LEMMA InitIInv == Init => TypeOK /\ IInv
BY SignalAssumption
   DEF Init, TypeOK, IInv, CreatedInOrder, Nesting, GethHeld, Returned, OkWasAsked,
       Behind, Layers, Signals, Branches, Modes, OuterStages, InnerStages, Ends

LEMMA NextIInv == TypeOK /\ IInv /\ [Next]_vars => IInv'
<1> SUFFICES ASSUME TypeOK, IInv, [Next]_vars PROVE IInv'
    OBVIOUS
<1> USE DEF TypeOK, IInv, CreatedInOrder, Nesting, GethHeld, Returned, OkWasAsked,
            Layers, Signals, Branches, Modes, Ends
<1>1. ASSUME NEW l \in Layers, Boot(l) PROVE IInv'
  <2>1. /\ pc[l] = "boot" /\ pc' = [pc EXCEPT ![l] = "select"]
        /\ UNCHANGED <<mode, stage, end, seen, sent, geth, created, exit>>
    BY <1>1 DEF Boot, testVars
  <2>2. CreatedInOrder' /\ OkWasAsked' /\ Returned'
    BY <2>1
  <2>3. Nesting' /\ GethHeld'
    BY <2>1
  <2> QED
    BY <2>2, <2>3
<1>2. ASSUME NEW l \in Layers, NEW s \in Signals, PollSignal(l, s) PROVE IInv'
  <2>1. pc[l] = "select" /\ exit = "running"
    BY <1>2 DEF PollSignal, Polls
  <2>2. CASE s \in seen[l] /\ End(l, "ok")
    <3>1. sent > 0
      BY <2>2
    <3>2. CreatedInOrder' /\ Returned' /\ OkWasAsked'
      BY <2>1, <2>2, <3>1 DEF End
    <3>3. Nesting'
      BY <2>1, <2>2 DEF End
    <3>4. GethHeld'
      BY <2>1, <2>2 DEF End
    <3> QED
      BY <3>2, <3>3, <3>4
  <2>3. CASE UNCHANGED <<mode, pc, stage, end, seen, sent, testVars, rpc, exit>>
    BY <2>3 DEF testVars
  <2> QED
    BY <1>2, <2>2, <2>3 DEF PollSignal
<1>3. ASSUME NEW l \in Layers, PollPending(l) PROVE IInv'
    BY <1>3 DEF PollPending, Polls, signalVars, testVars
<1>4. ASSUME RefuseConfig PROVE IInv'
    BY <1>4 DEF RefuseConfig, Polls, End
<1>5. ASSUME RunBundler PROVE IInv'
    BY <1>5 DEF RunBundler, Polls, StartInner, signalVars, testVars
<1>6. ASSUME SpawnGeth PROVE IInv'
  <2>1. /\ mode = "test" /\ stage.outer = "start"
        /\ pc["outer"] = "select" /\ exit = "running" /\ pc["inner"] = "unborn"
    BY <1>6 DEF SpawnGeth, Polls
  <2>2. CASE End("outer", "panic")
    BY <2>1, <2>2 DEF End
  <2>3. CASE /\ geth' = "up" /\ stage' = [stage EXCEPT !.outer = "accounts"]
             /\ UNCHANGED <<mode, pc, end, signalVars, created, rpc, exit>>
    <3>1. stage'.outer = "accounts"
      BY <2>3
    <3>2. CreatedInOrder'
      BY <2>1, <2>3, <3>1 DEF Behind
    <3>3. Nesting' /\ GethHeld'
      BY <2>1, <2>3, <3>1
    <3>4. Returned' /\ OkWasAsked'
      BY <2>3 DEF signalVars
    <3> QED
      BY <3>2, <3>3, <3>4
  <2> QED
    BY <1>6, <2>2, <2>3 DEF SpawnGeth
<1>7. ASSUME GetAccounts PROVE IInv'
  <2>1. /\ mode = "test" /\ stage.outer = "accounts" /\ stage'.outer = "fund"
        /\ pc["outer"] = "select"
        /\ UNCHANGED <<mode, pc, end, seen, sent, geth, created, exit>>
    BY <1>7 DEF GetAccounts, Polls, signalVars, testVars
  <2>2. CreatedInOrder'
    BY <2>1 DEF Behind
  <2>3. Nesting' /\ GethHeld'
    BY <2>1
  <2>4. Returned' /\ OkWasAsked'
    BY <2>1
  <2> QED
    BY <2>2, <2>3, <2>4
<1>8. ASSUME Fund PROVE IInv'
  <2>1. /\ mode = "test" /\ stage.outer = "fund" /\ stage'.outer = "entry_point"
        /\ pc["outer"] = "select"
        /\ UNCHANGED <<mode, pc, end, seen, sent, geth, created, exit>>
    BY <1>8 DEF Fund, Polls, signalVars, testVars
  <2>2. CreatedInOrder'
    BY <2>1 DEF Behind
  <2>3. Nesting' /\ GethHeld'
    BY <2>1
  <2>4. Returned' /\ OkWasAsked'
    BY <2>1
  <2> QED
    BY <2>2, <2>3, <2>4
<1>9. ASSUME Deploy PROVE IInv'
  <2>1. /\ mode = "test" /\ pc["outer"] = "select" /\ exit = "running"
        /\ UNCHANGED <<mode, end, seen, sent, geth, exit>>
    BY <1>9 DEF Deploy, Polls, signalVars
  <2>2. PICK i \in 1 .. 4 :
            /\ stage.outer = Deployments[i].at
            /\ created' = Append(created, Deployments[i].contract)
            /\ IF i < 4
               THEN /\ stage' = [stage EXCEPT !.outer = Deployments[i + 1].at]
                    /\ UNCHANGED pc
               ELSE StartInner
    BY <1>9, DeploymentSteps DEF Deploy
  <2>3. \/ /\ stage.outer = "entry_point" /\ stage'.outer = "factory"
           /\ created' = Append(created, "EntryPoint") /\ UNCHANGED pc
        \/ /\ stage.outer = "factory" /\ stage'.outer = "erc20"
           /\ created' = Append(created, "SimpleAccountFactory") /\ UNCHANGED pc
        \/ /\ stage.outer = "erc20" /\ stage'.outer = "weth"
           /\ created' = Append(created, "WETH") /\ UNCHANGED pc
        \/ /\ stage.outer = "weth" /\ stage'.outer = "joining"
           /\ created' = Append(created, "WETH")
           /\ pc' = [outer |-> "joining", inner |-> "boot"]
    <3>1. CASE i = 1
      BY <2>2, <3>1, DeploymentSteps
    <3>2. CASE i = 2
      BY <2>2, <3>2, DeploymentSteps
    <3>3. CASE i = 3
      BY <2>2, <3>3, DeploymentSteps
    <3>4. CASE i = 4
      BY <2>2, <3>4, DeploymentSteps DEF StartInner
    <3> QED
      BY <3>1, <3>2, <3>3, <3>4
  <2>4. CreatedInOrder'
    <3>1. Len(created) = Behind[stage.outer] /\ Len(created) + 1 = Behind[stage'.outer]
      BY <2>1, <2>3 DEF Behind
    <3>2. created' = Append(created, Deployments[Len(created) + 1].contract)
      BY <2>3, <3>1, DeploymentSteps DEF Behind
    <3>3. /\ Len(created') = Len(created) + 1
          /\ created'[Len(created) + 1] = Deployments[Len(created) + 1].contract
          /\ \A j \in 1 .. Len(created) : created'[j] = created[j]
      BY <3>2
    <3> QED
      BY <2>1, <3>1, <3>3
  <2>5. Nesting' /\ GethHeld'
    BY <2>1, <2>3
  <2>6. Returned' /\ OkWasAsked'
    BY <2>1, <2>3
  <2> QED
    BY <2>4, <2>5, <2>6
<1>10. ASSUME FailSetup PROVE IInv'
    BY <1>10 DEF FailSetup, Polls, End
<1>11. ASSUME Join PROVE IInv'
    BY <1>11 DEF Join, End
<1>12. ASSUME Advance PROVE IInv'
    BY <1>12 DEF Advance, Polls, signalVars, testVars
<1>13. ASSUME Connect PROVE IInv'
    BY <1>13 DEF Connect, Polls, signalVars, testVars
<1>14. ASSUME FailInner PROVE IInv'
    BY <1>14 DEF FailInner, Polls, End
<1>15. ASSUME RpcStep PROVE IInv'
    BY <1>15 DEF RpcStep, signalVars, testVars
<1>16. ASSUME RpcFail PROVE IInv'
    BY <1>16 DEF RpcFail, signalVars, testVars
<1>17. ASSUME MainReturns PROVE IInv'
    BY <1>17 DEF MainReturns, signalVars, testVars
<1>18. ASSUME NEW s \in Signals, Send(s) PROVE IInv'
    BY <1>18 DEF Send, testVars
<1>19. ASSUME UNCHANGED vars PROVE IInv'
    BY <1>19 DEF vars, signalVars, testVars
<1> QED
    BY <1>1, <1>2, <1>3, <1>4, <1>5, <1>6, <1>7, <1>8, <1>9, <1>10, <1>11, <1>12, <1>13, <1>14, <1>15, <1>16, <1>17, <1>18, <1>19, SMTT(30)
    DEF Next, run_until_ctrl_c, OuterFuture, InnerFuture

LEMMA NextTypeOK == TypeOK /\ IInv /\ [Next]_vars => TypeOK'
<1> SUFFICES ASSUME TypeOK, IInv, [Next]_vars PROVE TypeOK'
    OBVIOUS
<1>0. CreatedInOrder'
    BY NextIInv DEF IInv
<1> USE DEF TypeOK
<1>1. ASSUME NEW l \in Layers, Boot(l) PROVE TypeOK'
  <2>1. pc' \in [Layers -> {"unborn", "boot", "select", "joining", "ended"}]
    BY <1>1 DEF Boot
  <2> QED
    BY <1>1, <2>1, ListenType DEF Boot, Signals, testVars
<1>2. ASSUME NEW l \in Layers, NEW s \in Signals, PollSignal(l, s) PROVE TypeOK'
  <2>1. unpolled' \in [Layers -> SUBSET Branches]
    BY <1>2, PollsType DEF PollSignal
  <2>2. CASE End(l, "ok")
    BY <2>1, <2>2, EndType DEF Ends
  <2>3. CASE Listen(l, s) /\ UNCHANGED <<mode, pc, stage, end, seen, sent, testVars, rpc, exit>>
    BY <2>1, <2>3, ListenType DEF testVars
  <2> QED
    BY <1>2, <2>2, <2>3 DEF PollSignal
<1>3. ASSUME NEW l \in Layers, PollPending(l) PROVE TypeOK'
    BY <1>3 DEF PollPending, Polls, signalVars, testVars
<1>4. ASSUME RefuseConfig PROVE TypeOK'
  <2>1. unpolled' \in [Layers -> SUBSET Branches]
    BY <1>4, PollsType DEF RefuseConfig, Layers
  <2> QED
    BY <1>4, <2>1, EndType DEF RefuseConfig, Layers, Ends
<1>5. ASSUME RunBundler PROVE TypeOK'
  <2>1. unpolled' \in [Layers -> SUBSET Branches]
    BY <1>5, PollsType DEF RunBundler, Layers
  <2>2. stage' \in [outer : OuterStages, inner : InnerStages]
    BY <1>5 DEF RunBundler, StartInner, OuterStages
  <2>3. pc' \in [Layers -> {"unborn", "boot", "select", "joining", "ended"}]
    BY <1>5 DEF RunBundler, StartInner, Layers
  <2> QED
    BY <1>5, <2>1, <2>2, <2>3 DEF RunBundler, signalVars, testVars
<1>6. ASSUME SpawnGeth PROVE TypeOK'
  <2>1. unpolled' \in [Layers -> SUBSET Branches]
    BY <1>6, PollsType DEF SpawnGeth, Layers
  <2>2. CASE End("outer", "panic")
    BY <2>1, <2>2, EndType DEF Layers, Ends
  <2>3. CASE /\ geth' = "up" /\ stage' = [stage EXCEPT !.outer = "accounts"]
             /\ UNCHANGED <<mode, pc, end, signalVars, created, rpc, exit>>
    <3>1. stage' \in [outer : OuterStages, inner : InnerStages]
      BY <2>3 DEF OuterStages
    <3> QED
      BY <2>1, <2>3, <3>1 DEF signalVars
  <2> QED
    BY <1>6, <2>2, <2>3 DEF SpawnGeth
<1>7. ASSUME GetAccounts PROVE TypeOK'
  <2>1. unpolled' \in [Layers -> SUBSET Branches]
    BY <1>7, PollsType DEF GetAccounts, Layers
  <2>2. stage' \in [outer : OuterStages, inner : InnerStages]
    BY <1>7 DEF GetAccounts, OuterStages, InnerStages
  <2> QED
    BY <1>7, <2>1, <2>2 DEF GetAccounts, signalVars, testVars
<1>8. ASSUME Fund PROVE TypeOK'
  <2>1. unpolled' \in [Layers -> SUBSET Branches]
    BY <1>8, PollsType DEF Fund, Layers
  <2>2. stage' \in [outer : OuterStages, inner : InnerStages]
    BY <1>8 DEF Fund, OuterStages, InnerStages
  <2> QED
    BY <1>8, <2>1, <2>2 DEF Fund, signalVars, testVars
<1>9. ASSUME Deploy PROVE TypeOK'
  <2>1. unpolled' \in [Layers -> SUBSET Branches]
    BY <1>9, PollsType DEF Deploy, Layers
  <2>2. stage' \in [outer : OuterStages, inner : InnerStages]
    BY <1>9, DeploymentSteps DEF Deploy, StartInner, OuterStages
  <2>3. pc' \in [Layers -> {"unborn", "boot", "select", "joining", "ended"}]
    BY <1>9 DEF Deploy, StartInner, Layers
  <2>4. created' \in Seq(Contracts \cup {"transfer"})
    BY <1>9, DeploymentSteps DEF Deploy, Contracts
  <2>5. Len(created') <= 5
    <3>1. mode' = "test" /\ stage'.outer \in OuterStages
      BY <1>9, <2>2 DEF Deploy
    <3>2. Len(created') = Behind[stage'.outer]
      BY <1>0, <3>1 DEF CreatedInOrder
    <3>3. Behind[stage'.outer] \in 0 .. 4
      BY <3>1, BehindType
    <3> QED
      BY <3>2, <3>3
  <2> QED
    BY <1>9, <2>1, <2>2, <2>3, <2>4, <2>5 DEF Deploy, signalVars
<1>10. ASSUME FailSetup PROVE TypeOK'
  <2>1. unpolled' \in [Layers -> SUBSET Branches]
    BY <1>10, PollsType DEF FailSetup, Layers
  <2> QED
    BY <1>10, <2>1, EndType DEF FailSetup, Layers, Ends
<1>11. ASSUME Join PROVE TypeOK'
    BY <1>11, EndType DEF Join, IInv, Returned, Layers
<1>12. ASSUME Advance PROVE TypeOK'
  <2>1. unpolled' \in [Layers -> SUBSET Branches]
    BY <1>12, PollsType DEF Advance, Layers
  <2>2. stage' \in [outer : OuterStages, inner : InnerStages]
    BY <1>12 DEF Advance, OuterStages, InnerStages
  <2> QED
    BY <1>12, <2>1, <2>2 DEF Advance, signalVars, testVars
<1>13. ASSUME Connect PROVE TypeOK'
  <2>1. unpolled' \in [Layers -> SUBSET Branches]
    BY <1>13, PollsType DEF Connect, Layers
  <2>2. stage' \in [outer : OuterStages, inner : InnerStages]
    BY <1>13 DEF Connect, OuterStages, InnerStages
  <2> QED
    BY <1>13, <2>1, <2>2 DEF Connect, signalVars, testVars
<1>14. ASSUME FailInner PROVE TypeOK'
  <2>1. unpolled' \in [Layers -> SUBSET Branches]
    BY <1>14, PollsType DEF FailInner, Layers
  <2> QED
    BY <1>14, <2>1, EndType DEF FailInner, Layers, Ends
<1>15. ASSUME RpcStep PROVE TypeOK'
    BY <1>15 DEF RpcStep, signalVars, testVars
<1>16. ASSUME RpcFail PROVE TypeOK'
    BY <1>16 DEF RpcFail, signalVars, testVars
<1>17. ASSUME MainReturns PROVE TypeOK'
    BY <1>17 DEF MainReturns, IInv, Returned, Layers, signalVars, testVars
<1>18. ASSUME NEW s \in Signals, Send(s) PROVE TypeOK'
  <2>1. sent' \in 0 .. MaxSignals
    BY <1>18, SignalAssumption DEF Send
  <2>2. /\ seen' \in [Layers -> SUBSET Signals]
        /\ \A l \in Layers : seen'[l] \subseteq listening[l]
    BY <1>18 DEF Send
  <2>3. exit' \in Ends \cup {"running", "killed"}
    BY <1>18 DEF Send
  <2> QED
    BY <1>18, <2>1, <2>2, <2>3 DEF Send, testVars
<1>19. ASSUME UNCHANGED vars PROVE TypeOK'
    BY <1>19 DEF vars, signalVars, testVars
<1> QED
    BY <1>1, <1>2, <1>3, <1>4, <1>5, <1>6, <1>7, <1>8, <1>9, <1>10, <1>11, <1>12, <1>13, <1>14, <1>15, <1>16, <1>17, <1>18, <1>19
    DEF Next, run_until_ctrl_c, OuterFuture, InnerFuture

LEMMA SpecIInv == Spec => [](TypeOK /\ IInv)
BY InitIInv, NextIInv, NextTypeOK, PTL DEF Spec

-----------------------------------------------------------------------------
(* What the run checks for two signals, for any number of them.            *)

\* Every state of the launcher is well typed: a signal is seen by a layer
\* only if it has a listener for it, and at most five transactions are sent.
THEOREM TypeCorrect == Spec => []TypeOK
BY SpecIInv, PTL

\* run_bundler_test awaits each receipt in turn, so the EntryPoint and the
\* factory have the addresses of the constants when the services start.
THEOREM ContractsInPlace == Spec => []TestChainLaidOut
<1>1. TypeOK /\ IInv => TestChainLaidOut
  <2> SUFFICES ASSUME TypeOK, IInv, mode = "test", pc["inner"] # "unborn"
               PROVE  /\ Len(created) >= 2
                      /\ created[1] = "EntryPoint"
                      /\ created[2] = "SimpleAccountFactory"
    BY DEF TestChainLaidOut
  <2>1. Len(created) = 4
    BY DEF IInv, CreatedInOrder, Nesting, Behind
  <2> QED
    BY <2>1, DeploymentSteps DEF IInv, CreatedInOrder
<1> QED
    BY <1>1, SpecIInv, PTL

\* The handle of geth is held by the outer future across the join of the
\* services' thread, and dropped before the process exits.
THEOREM GethLivesLongEnough == Spec => []GethOutlivesServices
<1>1. TypeOK /\ IInv => GethOutlivesServices
    BY DEF TypeOK, IInv, Nesting, GethHeld, Returned, GethOutlivesServices, Ends
<1> QED
    BY <1>1, SpecIInv, PTL

\* The services' future pends for ever and every other way out is an error:
\* only a signal makes either layer return Ok, and the joins pass that on.
THEOREM OkOnlyWhenAsked == Spec => []NoUnaskedSuccess
<1>1. IInv => NoUnaskedSuccess
    BY DEF IInv, Returned, OkWasAsked, NoUnaskedSuccess, Layers, Ends
<1> QED
    BY <1>1, SpecIInv, PTL

=============================================================================
