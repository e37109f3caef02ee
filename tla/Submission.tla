----------------------------- MODULE Submission ------------------------------
(***************************************************************************)
(* What `call` and `send_eth` of src/userop_middleware.rs promise, without  *)
(* the loop, the gas and the bundler's answers: an invocation claims one    *)
(* slot of its wallet's history, once; its payload may be put into that     *)
(* slot and no other, as long as nobody else's was; and Ok is only returned *)
(* for a payload that has been submitted.  Err and a panic promise nothing: *)
(* the payload may be submitted before them, after them, or never.          *)
(***************************************************************************)
EXTENDS Naturals

CONSTANTS Tasks, Wallets, Payloads, Wallet, Payload

VARIABLES
    log,        \* the histories of all wallets: what was done in which slot
    height,     \* height[w]: the first slot of w that is free
    slot,       \* slot[t]: the slot t has claimed, an Option: {} or {n}
    submitted,  \* the invocations whose payload may be executed in their slot
    outcome     \* what they returned

vars == <<log, height, slot, submitted, outcome>>

Outcomes == {"none", "ok", "err", "panic"}
Entry    == [wallet : Wallets, slot : Nat, data : Payloads]

Init ==
    /\ log = {}
    /\ height = [w \in Wallets |-> 0]
    /\ slot = [t \in Tasks |-> {}]
    /\ submitted = {}
    /\ outcome = [t \in Tasks |-> "none"]

\* s and t ask the same of the same wallet.
Twins(s, t) == Wallet[s] = Wallet[t] /\ Payload[s] = Payload[t]

\* The invocation settles on a slot that has been reached.  Had a twin chosen
\* the same slot, what the twin has submitted is what t would submit.
Claim(t) ==
    /\ slot[t] = {} /\ outcome[t] = "none"
    /\ \E n \in 0 .. height[Wallet[t]] :
           /\ slot' = [slot EXCEPT ![t] = {n}]
           /\ \/ UNCHANGED submitted
              \/ /\ \E s \in submitted : Twins(s, t) /\ slot[s] = {n}
                 /\ submitted' = submitted \cup {t}
    /\ UNCHANGED <<log, height, outcome>>

\* The payload of t, and of those of its twins that claimed the same slot, is
\* in the bundler's hands from now on; t may have returned long before.
Submit(t) ==
    /\ slot[t] # {}
    /\ \E S \in SUBSET {s \in Tasks : Twins(s, t) /\ slot[s] = slot[t]} :
           submitted' = submitted \cup S
    /\ UNCHANGED <<log, height, slot, outcome>>

\* The chain executes it, if its slot is still free.
Execute(t) ==
    /\ t \in submitted
    /\ slot[t] = {height[Wallet[t]]}
    /\ log' = log \cup
           {[wallet |-> Wallet[t], slot |-> height[Wallet[t]], data |-> Payload[t]]}
    /\ height' = [height EXCEPT ![Wallet[t]] = @ + 1]
    /\ UNCHANGED <<slot, submitted, outcome>>

Return(t) ==
    /\ outcome[t] = "none"
    /\ \E r \in Outcomes \ {"none"} :
           /\ r = "ok" => t \in submitted
           /\ outcome' = [outcome EXCEPT ![t] = r]
    /\ UNCHANGED <<log, height, slot, submitted>>

Next == \E t \in Tasks : Claim(t) \/ Submit(t) \/ Execute(t) \/ Return(t)

Spec == Init /\ [][Next]_vars

-----------------------------------------------------------------------------
(* What follows from it.                                                   *)

\* A slot of a wallet is used once, and no slot is skipped.
OneEntryPerSlot ==
    /\ \A d, e \in log : d.wallet = e.wallet /\ d.slot = e.slot => d = e
    /\ \A w \in Wallets : \A n \in Nat :
           n < height[w] => \E e \in log : e.wallet = w /\ e.slot = n

\* Nothing is done to a wallet that no invocation asked for.
AskedFor ==
    \A e \in log : \E t \in submitted :
        /\ e.wallet = Wallet[t] /\ e.data = Payload[t]
        /\ slot[t] = {e.slot}

=============================================================================
