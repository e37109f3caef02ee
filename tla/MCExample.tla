------------------------------ MODULE MCExample -------------------------------
(* A small instance of Example for TLC.                                    *)
EXTENDS Example, TLC

CONSTANTS pay, deposit  \* payloads

MCPayload == "send_eth" :> pay @@ "call" :> deposit

Limits(c, p, v) == [call |-> c, pre |-> p, ver |-> v]

MCStep      == [k \in Operations |-> 1]
MCEstimates == {Limits(1, 1, 1)}
\* Demands that change meanwhile, one of them with a figure beyond u64.
MCDemands   == {Limits(2, 1, 2), Limits(1, 3, 1)}

=============================================================================
