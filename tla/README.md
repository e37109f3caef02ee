# ethers-userop in TLA+

Specifications of `ethers-userop` (an ethers-rs middleware that crafts ERC-4337
UserOperations, and the `ethuo` command line), the TLC configurations that check
them on small instances, and proofs that hold for every instance.
`PROJECT.json` indexes all of it: components, runs, the source lines behind each
definition, findings, hazards and theorems.

## The system

| component | state | operations | talks to |
|---|---|---|---|
| `UserOpMiddleware` on a deployed wallet (`userop_middleware.rs`) | locals of the async function: nonce, three gas limits, fees; the builder's `uo_hash` | `call`, `send_eth`, `send_user_operation`, `estimate_user_operation_gas`, `handle_response` | node (code, nonce, fees), bundler (estimate, submission) |
| wallet deployment (`userop_middleware.rs`) | the builder, the funding transaction, `wallet_map` | `deploy_scw`, `deploy_random_scw`, `create_scw_deployment_uo` | node (address, code, count, transfer), bundler |
| `UserOperationBuilder` (`uo_builder.rs`, `types.rs`, `traits.rs`, `gen/`) | wallet and factory contract, factory address, `scw_address`, salt, partial operation, hash | `new`, `from_uo`, setters, `set_wallet`, `set_scw_address`, `build_uo` | factory contract (address) |
| wallet commands (`config.rs`) | `config.json`, and each process's parsed copy | `new-key`, `new-wallet-address` (`new-wallet` and `transfer` are stubs) | the file, the deployment code |
| bundler launcher (`bundler.rs`, `main.rs`) | two nested threads and runtimes, spawned services, signal handlers | `run_bundler`, `run_bundler_test`, `run_until_ctrl_c`, the test chain's setup | Silius services, geth, signals |
| queries and helpers | none | receipts, lookup by hash, random builders, ABI encodings | bundler, node |

What is hard about it, and which properties make each part correct:

* **The submission loop.** The answer to a POST may be lost; the loop then posts
  again. Bundler, chain and other invocations move at every `.await`. Correct
  means: at most one operation of an invocation executes; Ok names an operation
  that was pooled; Err leaves only operations whose answer was lost; the retries
  make progress. (`AtMostOnce`, `OkWasAccepted`, `OnlyUnansweredLive`,
  `NonceNeverAhead`, `RetryRaisesOneLimit`, `Returns`)
* **Deployment.** Check, fund, submit and register are separate requests, each of
  which may fail after the earlier ones took effect; clones race for an address.
  Correct means: funding reaches the sender before the operation is posted, a
  deployed wallet is left alone, Ok leads to a wallet and cannot be taken back,
  the map holds what was accepted. (`FundedWhenPosted`, `PostAfterReceipt`,
  `DeployedIsLeftAlone`, `OkStaysDeployable`, `OkLeadsToDeployment`,
  `MapEntryAccepted`)
* **config.json.** Read-modify-write of one file by separate processes, truncated
  before it is written, without a lock. (`FileIntact`, `UpdatePersisted`,
  `OwnersHaveKeys`, `DamagedStaysAsItIs`)
* **The whole of an operation.** What a caller may conclude from a result, apart
  from how it came about: one slot of the wallet's history per invocation, filled
  at most once. (`ImplementsSubmission`)
* **The builder.** A public state machine whose methods may come in any order.
  (`OneFactory`, `SenderMatchesInitCode`, `FailureChangesNothing`)
* **The launcher.** Two nested runtimes with signal listeners of their own, the
  outer one deaf while it joins the inner one; a child process that must outlive
  the services; constants that depend on the order of deployments; a server task
  whose failure nobody reads. (`InnerSignalStops`, `FailureReachesCaller`,
  `NoUnaskedSuccess`, `GethOutlivesServices`, `TestChainLaidOut`)
* **The example program.** Three operations in a row, with pauses that hope for a
  block; and the two that the wallet signs may end up under one nonce.
  (`NoOperationBeforeWallet`, `NoncesDiffer`, `LostOnlyToOther`,
  `OkMeansBothExecuted`)

## Modules

### UserOpMiddleware

One record of state per invocation in `Tasks`; `pc` is the await at which the
async function is suspended.

| model | code |
|---|---|
| `Start`, `PanicOnIncompleteTx`, `RefuseWalletName` | everything before `get_code`: `uo_calldata_from_tx`, `UserOperationBuilder::new` |
| `GetCode`, `GetNonce`, `EstimateGas`, `FailBeforeLoop` | the four requests before the loop, and their `?` |
| `Send` | loop head: setters, `build_uo`, `sign_uo`, the POST |
| `ReceiveHash`, `RetryCallGas`, `RetryPreGas`, `RetryVerGas`, `ReceiveUnknown` | the arms of the `match` |
| `PanicInLoop` | `parse::<u64>().unwrap()` and `+=` on a U256 |
| `RetryAfterTransportError` | `downcast_ref` gives `None`: no arm, the loop goes round |
| `AcceptUo`, `RejectGas`, `RejectUnknown`, `LateArrival` | the bundler (external) |
| `DeployWallet`, `HandleOps` | the chain (external) |

`sent` and `unanswered` are history. A hash is the operation it is the hash of.
Fees and signatures are functions of what is kept, or never decide a branch. The
bundler's gas demand may differ from one submission to the next, and it may
refuse anything at any time.

### ScwDeployment

`create_scw_deployment_uo` is `Start`, `GetCode` and `GetTransactionCount`;
`deploy_scw` continues with `SendTransaction` and `ReceiveReceipt` (the two
awaits of line 666), `EstimateGas`, `Send` and the answers. `Start` of a
`deploy_random_scw` swaps the arguments as the code does. `&mut self` is the
first guard of `Start`. `Fail` is `?` at any await; `Drop` is a future dropped,
or unwound, at any of them. The transfer may be mined after the invocation has
given up, and a posted operation may be accepted after it.

### ConfigFile

A process per invocation of `ethuo`. `LoadFor...` is open, read and parse in one
step; `Derive` is the stretch of `new-wallet-address` that awaits the node, and
`FailDerive` its `?`. `Interrupt` is a signal taken by `run_until_ctrl_c`: SIGTERM
before the command's first poll, SIGTERM or Ctrl-C at that await. It returns
`Ok(())`, so the command ends as a success with nothing stored. `Create` truncates,
`Write` writes at offset 0. `written` (the commands that have written their copy)
and `missed` (for each command, those that wrote after it had read its copy) are
history. A file is its entries and its length: a shorter text written over a
longer one leaves a tail and does not parse.

### UserOperationBuilder

One builder, made by `new`, `from_uo` or `build_random_uo_builder`, and a caller
without discipline. `Field` is the fields of the partial operation, set or not;
an address is the factory and salt it was derived from. `BuildUo` goes through the
eleven checks of `build_uo` in their order (`Checked`) and names the first unset
field; `UserOperation::from`, which follows them, is a library's and taken to
return. `moved` is history: whether `set_wallet` has succeeded since the wallet
address was derived.

### Submission and SubmissionRefinement

`Submission` says what `call` and `send_eth` promise and nothing of how: an
invocation claims one slot (`Claim`), its payload may go into that slot (`Submit`,
`Execute`) and Ok is returned only for a submitted payload (`Return`). Err promises
nothing, as in the code. Two invocations that ask the same of one wallet for the
same slot (`Twins`) may be one operation, because the code builds equal operations
for them. `SubmissionRefinement` maps the states of
UserOpMiddleware to it: the nonce is the slot, claimed by the first POST; the
executed operations are the history.

### BundlerLauncher

Two layers, each a thread with a runtime that drives `run_until_ctrl_c`.

| model | code |
|---|---|
| `Boot` | `signal(SignalKind::terminate())?` before the `select!` |
| `PollSignal`, `PollPending`, `Polls` | the `select!`: every branch once per round, in any order; `ctrl_c()` makes its listener when it is first polled |
| `RunBundler`, `RefuseConfig` | `bundler run` up to the second thread |
| `SpawnGeth`, `GetAccounts`, `Fund`, `Deploy`, `FailSetup` | `setup_geth` and the four deployments of `bundler test` |
| `Advance`, `Connect`, `FailInner` | the task of `run_bundler` and `run_bundler_test`, by its awaits |
| `RpcStep`, `RpcFail` | the detached JSON-RPC task |
| `Join`, `MainReturns` | `block_on(..)?`, `join()`, `resume_unwind` in both layers |
| `Send` | a signal: to the listeners there are, or, if there never was one, to the default action, which kills |

While the outer layer is in `join()` it polls nothing: `pc` is then `joining`, and
`Polls` is disabled. What a future holds is dropped by `End`.

### Example

`src/bin/example.rs` over instances of ScwDeployment (`D`) and UserOpMiddleware
(`M`) that share `deployed`: the program's own steps start an operation, pass its
result through `?`, or end a pause. Mining the deployment also counts the
wallet's first nonce. `early` remembers that a pause was too short.
INSTANCE turns the assumptions of a module into facts that nobody checks;
`ExampleAssumption` states them again for Example's own constants.

### Proof modules

Each of the eight modules that model something has its theorems in a module of
its own, named after it with `Proofs` at the end; see Proofs below.

Each module keeps, ahead of its actions, *faulty forms* of some definitions: the
slips that the properties are there to notice. They take no part in the
specification; `PROJECT.json` pairs each property with one.

## Runs

| run | shows |
|---|---|
| `middleware_one` | one `call`; two estimates and four demands, with figures beyond u64 and sums beyond U256: types, every retry raises exactly one limit, every invocation ends |
| `middleware_two` | `call` and `send_eth` on one wallet with lost answers and late requests: the four safety properties, and the refinement of Submission |
| `deploy_clones` | `deploy_random_scw`, a `deploy_scw` on a clone and a later `deploy_scw` on the same middleware deploy one address, with failures and drops at every await: funding, posting and registration stay in order, and Ok is final |
| `config_commands` | five commands in any interleaving, with signals, failing requests and crashes: an update is missing only if some command has written back a copy read before it, owners keep their keys, and the file stays readable as long as no two commands overlap and none dies over a truncated file |
| `builder_methods` | any sequence of builder calls: the contract and the factory address stay one, the sender is the address its init code creates, and a failing call changes nothing |
| `launcher` | both commands, two signals at any time, any request failing |
| `example` | the example program with pauses of any length, an unreliable bundler and a node that drops the transfer: the wallet comes first, the two operations after it use two nonces if the pauses were long enough, and otherwise an accepted one is lost only to the other |

Runs that are expected to find a violation, each of something the source says:

| run | the source says | the code does |
|---|---|---|
| `deploy_error_text` | `errors.rs:17`: "calculated: {0}, provided: {1}" | fields are (provided, calculated) |
| `deploy_random_fund` | `userop_middleware.rs:495`: `pre_fund` is the amount | it is passed as the salt, the random number as the amount |
| `config_lost_update` | `README.md:12`: the key will be in `config.json` | an overlapping command drops it |
| `builder_scw_kept` | `uo_builder.rs:193`: an existing address is returned | it is replaced, or the call panics |
| `launcher_signal` | `bundler.rs:373`: runs until Ctrl-C or SIGTERM is received | a signal heard by the outer layer alone, which is blocked in `join()`, is lost |

**Bounds.** Two invocations are the least that race for a nonce or an address;
the properties speak of pairs. A third deployment is the retry on a middleware
whose first attempt has ended. U64Max is 3 and U256Max is 5 so that both
edges are met within a few retries; the margin is 1 and the steps are 2 and 1,
in the order of 10000 and 1000. With the three demands of `middleware_two` either
invocation may be accepted at once, retry one or two limits, or unwind on a figure
beyond u64. Its two payloads differ, so twins are met only in the proof of
`Refinement`. The salts of the builder include 0, which is what a default would
give. In ConfigFile five processes allow a lost update in
both directions, an address whose owner's key is new, and a reader; key entries
are longer than address entries so that a later text can be the shorter one.
Two signals let one
be lost in the outer layer and the next reach the inner one. The example needs one
task of each kind, as the program has; one estimate and two demands make it go
round the loop. MaxSignals is the only bound in a guard: the state spaces are finite as they are. Deadlock is not
checked because invocations end and the program may then be idle.

**Fairness.** `Returns` assumes that a suspended future is polled again (weak
fairness of the steps before the loop and of `Send`, which tokio provides), and
that the bundler keeps answering and an answer gets through if the loop asks
often enough (strong fairness of `Bundler` and `Receive`). The second is an
assumption about the network: the code has neither a timeout nor a retry limit,
and without it the loop posts for ever. `OkLeadsToDeployment` assumes only that
the bundler includes an accepted operation that stays valid, and so does
`OkMeansBothExecuted`. For the launcher both layers' threads run and a request to
the node is answered or fails in the end; no fairness is assumed of signals.
`select!` polls the future again and again, hence the strong fairness of
`OuterFuture` and `InnerFuture`: each round disables the polls it has made.

## Proofs

Every invariant and every action property of the passing runs is a theorem, and
so are two refinements. They hold for every value of the constants that satisfies
the named assumptions: any number of invocations, commands and signals, any
amounts, widths and registries. Every inductive invariant below was an invariant
of a TLC run on the instance of its component's run before it was proved.

What the assumptions ask of the constants is what the program's types ask:
`TaskAssumption`, `ArgumentAssumption` and `ConfigAssumption` type the arguments
of invocations and commands, `GasAssumption` says that widths, margins and steps
are numbers, `EtherAssumption` that the purse is one and that a deployment costs
something, `SignalAssumption` that the bound on signals is a number, and
`BuilderAssumption` types the factories and fields. TLC evaluates each of them in
the runs.

### UserOpMiddlewareProofs

* `TypeCorrect`: `TypeOK`. Gas limits stay within U256 because the addition
  before the loop saturates and the one inside it unwinds.
* `SubmittedAtMostOnce` and `NoncesReached`, from the inductive invariant `IInv`:
  what an invocation has posted carries the nonce it holds (`SentWithNonce`),
  nothing is posted before the nonce is read (`NothingSentYet`), that nonce has
  been reached (`NonceReached`), and the EntryPoint executes one operation per
  sender and nonce (`ExecutedOnce`, which needs `ExecutedIsPast`). `AtMostOnce`
  alone is not inductive: it says nothing of the operations not yet executed.
* `OkMeansAccepted` and `OnlyLostAnswersLeaveOperations`, from `PoolInv`: a hash
  on the wire is that of the operation its reader has posted and the pool holds
  (`HashOfPosted`), and inside the loop every pooled operation is already
  accounted for (`LiveInLoop`).
* `RetriesMakeProgress`: `RetryRaisesOneLimit`, from `RefusalRaises`: a figure on
  the wire is above the limit that was posted. The step that goes round the loop
  is one of the three retries (every other way back forgets the answer).

### SubmissionProofs and SubmissionRefinementProofs

`Refinement`: every initial state of UserOpMiddleware maps to one of Submission,
and every step to a step or a stutter, under the invariant `RInv` (type
correctness, `IInv`, and that whatever an invocation has sent carries its own
payload, `SentWithPayload`). The step of the bundler accepting an operation is
`Submit`, with all the twins whose operation it is; the chain's `HandleOps` is
`Execute`, and needs that an accepted operation was sent by someone.
`SubmissionProofs` proves of the abstract specification that a history has no gap
and no slot two entries (`HistoryHasNoGap`), and that all of it was asked for
(`EntriesWereAskedFor`); `ExecutedIsHistory` carries both over to what the
EntryPoint has executed.

### ScwDeploymentProofs

One invariant, `IInv`, carries all of it; none of the checked properties is
inductive. Each part says already of an earlier moment what the property says of
a later one:

* `EtherWaitsForWallet` (`FundedWhenPosted`): the step that posts cannot establish
  it, so `FundedWhenMined` says it from the mining of the transfer on, and
  `TransferToSender` that the transfer goes to the operation's sender. No other
  invocation can spend that balance, since ether leaves an address only by its
  deployment, after which there is nothing to ask.
* `WalletMapIsAccepted` (`MapEntryAccepted`): a hash on the wire belongs to an
  operation the bundler took (`HashOfAccepted`, with `NoAnswerYet`).
* `ContractIsLeftAlone` (`DeployedIsLeftAlone`): an invocation that began on a
  contract is at `get_code` or has returned (`HadCodeStops`); that the address
  stays a contract is part of it.
* `OkIsFinal` (`OkStaysDeployable`): `OkWasAccepted`, and what was accepted
  either is executed or remains valid (`AcceptedStaysValid`), because a balance is
  only ever raised before the deployment.
* `TransferSettledFirst` (`PostAfterReceipt`), an action property, from
  `ReceiptSeen`.

### ConfigFileProofs

* `TypeCorrect`: the length of a file is a number only if its maps are finite,
  also when there are infinitely many commands; `FiniteMaps` says so, because each
  of them adds one entry.
* `OwnersKept` (`OwnersHaveKeys`), in any interleaving and with any crash, from
  `CopiesSound`: what is going to be written back is as sound as what was read.
* `DamageIsLeftAlone` (`DamagedStaysAsItIs`), a fact of the single step.
* `NothingElseLost` (`UpdatePersisted`), in any interleaving and with any crash or
  signal, from `PersistInv`. The step that writes cannot establish it, since what
  the others stored is by then only in the copy: a copy about to be written back
  holds its command's own entry (`CopiesHoldOwn`) and every older one that is not
  already lost (`CopiesHoldOlder`).
* `ReadableAfterCommands` (`FileIntact`), from `SequentialInv`: as long as no
  overlap is recorded the command that runs is alone (`OneAtATime`), so it writes
  into an empty file (`TruncatedByWriter`).

### UserOperationBuilderProofs

`FactoriesAgree` (`OneFactory`) is inductive as it stands. `AddressOfFactory`
(`SenderMatchesInitCode`) is inductive together with it: the address is derived by
the contract, and the init code is made from the stored factory address.
`FailuresChangeNothing` (`FailureChangesNothing`) is a fact of the single step.
`TypeCorrect` needs `FirstMissingIsFirst`: an error of `build_uo` names the
first unset field in its order, which exists.

### BundlerLauncherProofs

One invariant, `IInv`, over both layers and any number of signals:

* `ContractsInPlace` (`TestChainLaidOut`), from `CreatedInOrder`: at each stage
  the account has created exactly the contracts of the stages behind it, in order.
* `GethLivesLongEnough` (`GethOutlivesServices`), from `GethHeld` (who holds the
  handle at each stage) and `Nesting` (the inner thread lives only while the outer
  one joins it, and the process returns after both).
* `OkOnlyWhenAsked` (`NoUnaskedSuccess`), from `OkWasAsked`, which says it of each
  layer, and `Returned`, which says whose result each layer passes on.

### ExampleProofs

The composition is proved from its parts. `DP` and `MP` are instances of the
proof modules of the two halves; their assumptions follow from
`ExampleAssumption`. A step of the program is for each half a step of its own
next-state relation or one of its environment's, so the halves' lemmas about
single steps apply; what the half did not foresee (the deployment counts a nonce,
the code check of `M` reads the `deployed` of `D`) is proved here. On these,
`OrderInv` builds what only the whole can say:

* `WalletFirst` (`NoOperationBeforeWallet`), for pauses of any length: `PastGetCode`
  and `WalletCounted`, a wallet that exists has used nonce 0.
* `NoncesApart` (`NoncesDiffer`): if no pause was too short, `call` starts after
  the operation of `send_eth` was executed (`InTurn`, `SecondPause`), so its nonce
  is later (`CallLater`).
* `OneTakesTheOther` (`LostOnlyToOther`), for pauses of any length, from `FillInv`:
  the nonces from 1 on that the chain has counted are those of executed operations
  (`NoncesFilled`), all of which were accepted (`ExecutedWasAccepted`), and nothing
  is counted before the wallet exists (`FreshNonce`). An accepted operation that can
  no longer be executed has thus been overtaken by one with its own nonce.
* `DeploymentInside`: `Spec => D!Spec`. The program's behaviours are behaviours of
  the deployment; so every safety property proved in ScwDeploymentProofs holds of
  the deployment inside the program.
* `OperationsInside`: `AtMostOnce`, `OkWasAccepted` and `OnlyUnansweredLive` hold of
  `send_eth` and `call` inside it. This is not a refinement: in the program the
  deployment counts a nonce of the wallet, which no step of UserOpMiddleware does
  (its `DeployWallet` is a deployment outside the EntryPoint, so `Refinement`, and
  with it the history without a gap, is about wallets deployed that way),
  so the halves' invariants are shown to survive that step (`MineDeploymentKeeps`).

### Only model-checked

* Liveness: `Returns`, `OkLeadsToDeployment`, `InnerSignalStops`,
  `FailureReachesCaller` and `OkMeansBothExecuted` need fairness, hence ENABLED,
  which is beyond the prover. Of `OkLeadsToDeployment` the safety half is proved
  (`OkIsFinal`): what remains is that the bundler includes a valid operation.
  For the same reason the refinements are about safety: `Submission!Spec` and
  `D!Spec` state no fairness.
* The five runs that expect a violation are counterexamples of one instance each.

## Not modelled

The stateless queries (one request each, whose answer decides nothing), ABI
encodings and generated bindings, fees, units of amounts, the services of Silius
beyond whether they start, and the wording of messages other than the one a
finding is about. `new-wallet` and `transfer` are empty in the source.

Behaviour that is in the models without a property, because the source promises
nothing about it: the JSON-RPC server fails silently (`RpcFail`); a signal before
any listener exists kills the process without a drop and, in the test command,
leaves geth running (`Send`); a command ended by a signal reports success with
nothing stored (`Interrupt`); two commands that overlap may leave a file that does
not parse; the ether sent for a deployment that fails later stays at the address;
a failed deployment that is tried again is funded
again. Two comments of the source that the model contradicts have no run of their
own: `wallet_map` is said to hold deployed addresses (`userop_middleware.rs:42`)
and holds accepted ones, and an address with a balance is said to count as
deployed (`userop_middleware.rs:742`) while only its code is looked at. The WETH
address of `consts.rs` that the example calls is not one of a contract that
`bundler test` deploys; what the call does on the chain is outside the model.

## Plan

All eight models have a proof module, and no invariant or action property of a
run is without a theorem. What is left are the safety facts behind the liveness
properties: what a layer of the launcher still holds once the inner one has seen
a signal or failed, and by how much a retry loop's limits may yet rise.
