------------------------ MODULE UserOperationBuilder -------------------------
(***************************************************************************)
(* UserOperationBuilder of src/uo_builder.rs, driven by a caller that may   *)
(* invoke its public methods in any order: the constructors, the setters,   *)
(* set_wallet, set_scw_address (one request to the node) and build_uo.      *)
(*                                                                         *)
(* Abstractions: of a field only whether it is set is kept (the values are  *)
(* the caller's), except for the wallet address, which is the pair of the   *)
(* factory and the salt it is derived from.  The conversion at the end of   *)
(* build_uo, UserOperation::from, is a library's and is taken to return.    *)
(***************************************************************************)
EXTENDS Integers, SequencesExt

CONSTANTS
    Names,     \* wallet names a caller may use
    Factory,   \* Factory[name]: the registries, for the names they know
    Salts,     \* salts a caller may use
    Given,     \* a wallet address that a caller brings along
    PartialUo  \* the UserOperationPartial values a caller may bring: sets of fields

\* The fields of a partial operation.
Field ==
    {"sender", "nonce", "init_code", "call_data", "call_gas_limit",
     "verification_gas_limit", "pre_verification_gas", "max_fee_per_gas",
     "max_priority_fee_per_gas", "paymaster_and_data", "signature"}

\* The fields that build_uo asks for, in its order.
Checked ==
    <<"sender", "nonce", "init_code", "call_data", "call_gas_limit",
      "pre_verification_gas", "verification_gas_limit",
      "max_priority_fee_per_gas", "max_fee_per_gas", "paymaster_and_data",
      "signature">>

Factories == {Factory[n] : n \in DOMAIN Factory}

ASSUME BuilderAssumption ==
    /\ DOMAIN Factory \subseteq Names
    /\ Given \notin Factories \X Salts
    /\ PartialUo \subseteq SUBSET Field

VARIABLES
    wallet,       \* the factory whose wallets wallet_contract speaks to
    factory,      \* the address inside factory_contract
    factoryAddr,  \* factory_address, which ends up in the init code
    scw,          \* scw_address, an Option
    salt,         \* salt, an Option
    uo,           \* the fields of uo that are Some
    hashed,       \* uo_hash is Some
    outcome,      \* what the last method returned
    moved         \* history: set_wallet has succeeded since scw was derived

state == <<wallet, factory, factoryAddr, scw, salt, uo, hashed>>
vars  == <<wallet, factory, factoryAddr, scw, salt, uo, hashed, outcome, moved>>

\* A value is Ok, an error, a panic, or Ok with an address.
Ok         == [kind |-> "ok", about |-> "none"]
Panic      == [kind |-> "panic", about |-> "none"]
Missing(f) == [kind |-> "missing", about |-> f]
NoWallet   == [kind |-> "unsupported", about |-> "none"]
NoNode     == [kind |-> "middleware", about |-> "none"]
Outcomes   == {Ok, Panic, NoWallet, NoNode} \cup {Missing(f) : f \in Field}

Option(S) == {{}} \cup {{x} : x \in S}

\* A wallet address is one the caller has brought along, or one that a factory
\* derives from the builder's own salt.
TypeOK ==
    /\ wallet \in Factories /\ factory \in Factories /\ factoryAddr \in Factories
    /\ salt \in Option(Salts)
    /\ scw \in Option({Given} \cup (Factories \X salt))
    /\ uo \in SUBSET Field
    /\ hashed \in BOOLEAN
    /\ outcome \in Outcomes
    /\ moved \in BOOLEAN

\* UserOperationBuilder::new, whose result has no field set.
New(address, aSalt) ==
    /\ scw = address /\ salt = aSalt
    /\ uo = {} /\ hashed = FALSE /\ outcome = Ok

\* from_uo: new without an address and a salt, then set_uo.
FromUo ==
    /\ scw = {} /\ salt = {}
    /\ uo \in PartialUo /\ hashed = FALSE /\ outcome = Ok

\* build_random_uo_builder, and build_random_address before it asks for the
\* address: new without an address and with a salt the generator picks.
BuildRandomUoBuilder == \E random \in Salts : New({}, {random})

\* The caller has a builder for a name that match_wallet knows.
Init ==
    /\ \E name \in DOMAIN Factory :
           wallet = Factory[name] /\ factory = Factory[name] /\ factoryAddr = Factory[name]
    /\ moved = FALSE
    /\ \/ \E address \in Option({Given}), aSalt \in Option(Salts) : New(address, aSalt)
       \/ FromUo
       \/ BuildRandomUoBuilder

-----------------------------------------------------------------------------
(* Helpers.                                                                *)

\* factory.get_address(signer, salt), with the signer fixed.
GenerateAddress(s) == <<factory, s>>

\* The first field that is checked and not set.
FirstMissing ==
    Checked[CHOOSE i \in DOMAIN Checked :
        /\ Checked[i] \notin uo
        /\ \A j \in 1 .. i - 1 : Checked[j] \in uo]

-----------------------------------------------------------------------------
(* Faulty forms of the definitions below: each is a slip in the code that   *)
(* one of the properties at the end of the module must notice.              *)

\* match_wallet's results are assigned one by one, the address last, and an
\* error returns in between.
SetWalletPiecemeal ==
    \E name \in Names, other \in DOMAIN Factory :
        /\ IF name \in DOMAIN Factory
           THEN /\ wallet' = Factory[name] /\ factory' = Factory[name]
                /\ factoryAddr' = Factory[name]
                /\ outcome' = Ok
           ELSE /\ wallet' = Factory[other]
                /\ outcome' = NoWallet
                /\ UNCHANGED <<factory, factoryAddr>>
        /\ UNCHANGED <<scw, salt, uo, hashed, moved>>

\* set_wallet forgets factory_address.
SetWalletKeepsAddress ==
    \E name \in Names :
        /\ IF name \in DOMAIN Factory
           THEN /\ wallet' = Factory[name] /\ factory' = Factory[name]
                /\ outcome' = Ok /\ moved' = TRUE
           ELSE outcome' = NoWallet /\ UNCHANGED <<wallet, factory, moved>>
        /\ UNCHANGED <<factoryAddr, scw, salt, uo, hashed>>

\* set_scw_address derives from salt 0 what a builder without a salt asks for:
\* unwrap_or_default where the code has expect.
SetScwAddressDefaulted ==
    /\ \/ outcome' = NoNode /\ UNCHANGED <<scw, moved>>
       \/ \E s \in IF salt = {} THEN {0} ELSE salt :
              scw' = {GenerateAddress(s)} /\ outcome' = Ok /\ moved' = FALSE
    /\ UNCHANGED <<wallet, factory, factoryAddr, salt, uo, hashed>>

\* set_scw_address returns an address that is there, as its comment has it.
SetScwAddressKeeping ==
    /\ \/ scw # {} /\ outcome' = Ok /\ moved' = FALSE /\ UNCHANGED scw
       \/ scw = {} /\ salt = {} /\ outcome' = Panic /\ UNCHANGED <<scw, moved>>
       \/ scw = {} /\ salt # {} /\ outcome' = NoNode /\ UNCHANGED <<scw, moved>>
       \/ /\ scw = {}
          /\ \E s \in salt : scw' = {GenerateAddress(s)}
          /\ outcome' = Ok /\ moved' = FALSE
    /\ UNCHANGED <<wallet, factory, factoryAddr, salt, uo, hashed>>

-----------------------------------------------------------------------------
\* match_wallet knows the name, or set_wallet returns before it assigns.
SetWallet ==
    \E name \in Names :
        /\ IF name \in DOMAIN Factory
           THEN /\ wallet' = Factory[name]
                /\ factory' = Factory[name]
                /\ factoryAddr' = Factory[name]
                /\ outcome' = Ok
                /\ moved' = TRUE
           ELSE /\ outcome' = NoWallet
                /\ UNCHANGED <<wallet, factory, factoryAddr, moved>>
        /\ UNCHANGED <<scw, salt, uo, hashed>>

\* set_scw_address: expects a salt, asks the factory, and stores the answer.
SetScwAddress ==
    /\ \/ salt = {} /\ outcome' = Panic /\ UNCHANGED <<scw, moved>>
       \/ salt # {} /\ outcome' = NoNode /\ UNCHANGED <<scw, moved>>
       \/ \E s \in salt :
              scw' = {GenerateAddress(s)} /\ outcome' = Ok /\ moved' = FALSE
    /\ UNCHANGED <<wallet, factory, factoryAddr, salt, uo, hashed>>

\* The setters of single fields.
SetUoField ==
    \E f \in Field :
        /\ uo' = uo \cup {f}
        /\ outcome' = Ok
        /\ UNCHANGED <<wallet, factory, factoryAddr, scw, salt, hashed, moved>>

\* set_uo replaces the partial operation.
SetUo ==
    \E fields \in PartialUo :
        /\ uo' = fields
        /\ outcome' = Ok
        /\ UNCHANGED <<wallet, factory, factoryAddr, scw, salt, hashed, moved>>

\* set_uo_hash; no other method touches the hash.
SetUoHash ==
    /\ hashed' = TRUE
    /\ outcome' = Ok
    /\ UNCHANGED <<wallet, factory, factoryAddr, scw, salt, uo, moved>>

\* build_uo: the first missing field is an error; it reads the builder only.
BuildUo ==
    /\ outcome' = IF ToSet(Checked) \subseteq uo THEN Ok ELSE Missing(FirstMissing)
    /\ UNCHANGED <<state, moved>>

\* A panic unwinds the caller, which loses the builder.
Next ==
    /\ outcome # Panic
    /\ \/ SetWallet \/ SetScwAddress \/ SetUoField \/ SetUo \/ SetUoHash
       \/ BuildUo

Spec == Init /\ [][Next]_vars

-----------------------------------------------------------------------------
(* Properties.                                                             *)

\* The factory that is asked for the address and for create_account's
\* calldata is the one whose address opens the init code, and the wallet
\* contract is one of its wallets, after any sequence of calls.
OneFactory == wallet = factory /\ factory = factoryAddr

\* A method that fails leaves the builder as it was, so the caller may go on
\* with it.
FailureChangesNothing == [][outcome'.kind # "ok" => UNCHANGED state]_vars

\* The wallet address, which becomes the sender, is the one that the factory
\* whose address opens the init code gives for the builder's salt, unless the
\* caller brought it along or has called set_wallet since it was derived: the
\* EntryPoint refuses an operation whose init code makes another wallet.
SenderMatchesInitCode ==
    \A address \in scw \ {Given} :
        moved \/ \E s \in salt : address = <<factoryAddr, s>>

-----------------------------------------------------------------------------
(* What the comments of the source say, and the code does not do.          *)

\* set_scw_address's documentation: it returns the existing address if there
\* is one, and generates one only if there is none.
ScwAddressIsKept == [][SetScwAddress /\ scw # {} => scw' = scw /\ outcome' = Ok]_vars

=============================================================================
