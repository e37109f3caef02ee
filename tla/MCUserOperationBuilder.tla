----------------------- MODULE MCUserOperationBuilder ------------------------
(* A small instance of UserOperationBuilder for TLC.                       *)
EXTENDS UserOperationBuilder, TLC

\* The names the two registries know, and one they do not.
MCNames   == {"simple-account", "simple-account-test", "soul-wallet"}
MCFactory == "simple-account" :> "stackup" @@ "simple-account-test" :> "geth"

\* A partial operation that is empty, complete, or lacks one field.
MCPartialUo == {{}, Field} \cup {Field \ {f} : f \in Field}

=============================================================================
