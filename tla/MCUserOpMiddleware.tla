------------------------- MODULE MCUserOpMiddleware -------------------------
(* Small instances of UserOpMiddleware for TLC.                            *)
EXTENDS SubmissionRefinement, TLC

CONSTANTS alice, bob,   \* invocations
          scw,          \* a wallet
          pay, mint     \* payloads

\* alice calls and bob sends ether, from the same wallet.
MCKind     == alice :> "call" @@ bob :> "send_eth"
MCSameScw  == alice :> scw @@ bob :> scw
MCPayload  == alice :> mint @@ bob :> pay

\* One invocation, which is a call.
MCOneCall    == alice :> "call"
MCOneWallet  == alice :> scw
MCOnePayload == alice :> mint

MCStep == [k \in Kinds |-> IF k = "call" THEN 2 ELSE 1]

Limits(c, p, v) == [call |-> c, pre |-> p, ver |-> v]

\* One invocation alone: figures that fit in u64 (0..3 here), one that does
\* not (4), an estimate whose margin saturates, and a verification demand that
\* takes several steps to reach or overflows on the way.
MCEstimates == {Limits(1, 1, 1), Limits(2, 1, 5)}
MCDemands   == {Limits(1, 1, 2), Limits(2, 2, 4), Limits(4, 1, 3), Limits(1, 4, 1)}

\* Two invocations at once: each of them may meet gas errors that it retries
\* once or twice, and one whose figure does not fit in u64.
MCOneEstimate == {Limits(1, 1, 1)}
MCTwoDemands  == {Limits(1, 1, 2), Limits(2, 4, 2), Limits(3, 1, 2)}

=============================================================================
