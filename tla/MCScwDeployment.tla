--------------------------- MODULE MCScwDeployment ---------------------------
(* Small instances of ScwDeployment for TLC.                               *)
EXTENDS ScwDeployment, TLC

CONSTANTS first, second, retry,  \* invocations
          mw, clone,              \* a middleware and its clone
          zero                    \* Address::default()

\* deploy_random_scw beside deploy_scw, and a second deploy_scw.  The first
\* passes its pre_fund, 1, as the salt, so all of them deploy the address of
\* salt 1.
MCOp       == first :> "deploy_random_scw" @@ second :> "deploy_scw"
              @@ retry :> "deploy_scw"
MCPreFund  == first :> 1 @@ second :> 1 @@ retry :> 1
MCSalt     == first :> 2 @@ second :> 1 @@ retry :> 1

\* On clones invocations overlap at every await, on one middleware they
\* exclude each other.
MCSelf     == first :> mw @@ second :> clone @@ retry :> mw

=============================================================================
