---------------------------- MODULE MCConfigFile -----------------------------
(* Small instances of ConfigFile for TLC.                                  *)
EXTENDS ConfigFile, TLC

CONSTANTS k1, k2, w1, w2, b,  \* processes
          k0                  \* the key in the file at the start

\* Two new keys, a wallet address for the first key, one for a key that is
\* only there once k1 has run, and a bundler that reads the result.
MCCommand == k1 :> "new-key" @@ k2 :> "new-key" @@ w1 :> "new-wallet-address"
             @@ w2 :> "new-wallet-address" @@ b :> "bundler-run"
MCSource  == k1 :> k0 @@ k2 :> k0 @@ w1 :> k0 @@ w2 :> k1 @@ b :> k0

=============================================================================
