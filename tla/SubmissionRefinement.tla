------------------------- MODULE SubmissionRefinement -------------------------
(* UserOpMiddleware implements Submission: which of its states stand for     *)
(* which abstract state.                                                     *)
EXTENDS UserOpMiddleware

\* The nonce is the slot; executing an operation writes its payload into it.
EntryOf(u)  == [wallet |-> u.sender, slot |-> u.nonce, data |-> u.data]
LogOf       == {EntryOf(u) : u \in executed}

\* The slot is claimed by the first POST: until then the nonce is not used.
SlotOf      == [t \in Tasks |-> IF sent[t] = {} THEN {} ELSE {nonce[t]}]

\* What matters of the pool is whose operations it has taken.
SubmittedOf == {t \in Tasks : sent[t] \cap accepted # {}}

S == INSTANCE Submission WITH
         log <- LogOf, height <- chainNonce, slot <- SlotOf,
         submitted <- SubmittedOf, outcome <- result

\* Every step of call, send_eth, the bundler and the chain is a step that
\* Submission allows, or changes nothing it speaks of: resubmission, late
\* arrival and concurrent invocations never turn one invocation into two
\* entries, nor an Ok into a payload that was not submitted.
ImplementsSubmission == S!Spec

=============================================================================
