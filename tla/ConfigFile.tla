----------------------------- MODULE ConfigFile ------------------------------
(***************************************************************************)
(* The commands of `ethuo` that share config.json (src/config.rs): new-key  *)
(* and new-wallet-address read the whole file, add an entry and write the   *)
(* whole file back; bundler run only reads it.  The file is opened twice:   *)
(* once to read it, and once with File::create, which truncates it, to      *)
(* write it.  Nothing locks it, and new-wallet-address talks to the node    *)
(* between the two.                                                        *)
(*                                                                         *)
(* A signal that run_until_ctrl_c hears ends a command, as a success, only  *)
(* where its future is suspended: before its first poll, and while          *)
(* new-wallet-address talks to the node.  A crash (SIGKILL, a signal before *)
(* anybody listens, power loss, a write that fails) may come at any point.  *)
(*                                                                         *)
(* Abstractions: the key a process generates and the address it derives are *)
(* named by the process; a file is its entries and its length, and two      *)
(* texts of which the shorter is written over the longer do not parse.  The *)
(* file starts with one key; no two commands derive the same address.       *)
(***************************************************************************)
EXTENDS Integers, FiniteSets

CONSTANTS
    Processes,  \* invocations of the ethuo binary
    Command,    \* Command[p]
    Source,     \* Source[p]: the argument source_address of new-wallet-address
    FirstKey,   \* the key config.json holds at the start
    KeyLength,  \* length of an entry of address_key_map
    ScwLength   \* length of an entry of address_scw_map

Commands == {"new-key", "new-wallet-address", "bundler-run"}
Keys     == Processes \cup {FirstKey}

ASSUME ConfigAssumption ==
    /\ Command \in [Processes -> Commands]
    /\ Source \in [Processes -> Keys]
    /\ FirstKey \notin Processes
    /\ KeyLength \in Nat \ {0} /\ ScwLength \in Nat \ {0}

\* The parts of WalletJsonConfig that change.
Config == [address_key_map : SUBSET Keys, address_scw_map : SUBSET (Keys \X Processes)]

VARIABLES
    file,    \* config.json: does it parse, what it says, and how long it is
    pc,      \* where the process is
    config,  \* its parsed and updated copy
    result,  \* how it ended
    trouble, \* history: "overlap", two commands ran at the same time;
             \* "torn", one died between truncating the file and writing it
    written, \* history: the commands whose write_all returned
    missed   \* history: the commands that wrote after p had read its copy

history == <<trouble, written, missed>>
vars    == <<file, pc, config, result, history>>

NoConfig == [address_key_map |-> {}, address_scw_map |-> {}]
Empty    == [parses |-> FALSE, config |-> NoConfig, length |-> 0]

TypeOK ==
    /\ file \in [parses : BOOLEAN, config : Config, length : Nat]
    /\ pc \in [Processes -> {"idle", "load", "derive", "create", "write", "done"}]
    /\ config \in [Processes -> Config]
    /\ result \in [Processes -> {"none", "ok", "err", "panic", "killed"}]
    /\ trouble \subseteq {"overlap", "torn"}
    /\ written \subseteq Processes
    /\ missed \in [Processes -> SUBSET Processes]

-----------------------------------------------------------------------------
(* Helpers.                                                                *)

Length(c) ==
    KeyLength * Cardinality(c.address_key_map)
        + ScwLength * Cardinality(c.address_scw_map)

Text(c) == [parses |-> TRUE, config |-> c, length |-> Length(c)]

\* write_all at offset 0 of whatever the file holds by then.
Overwrite(old, c) ==
    IF Length(c) >= old.length
    THEN Text(c)
    ELSE [parses |-> FALSE, config |-> NoConfig, length |-> old.length]

Goto(p, from, to) ==
    /\ pc[p] = from
    /\ pc' = [pc EXCEPT ![p] = to]

Finish(p, r) ==
    /\ pc' = [pc EXCEPT ![p] = "done"]
    /\ result' = [result EXCEPT ![p] = r]

Init ==
    LET first == [address_key_map |-> {FirstKey}, address_scw_map |-> {}] IN
    /\ file = Text(first)
    /\ pc = [p \in Processes |-> "idle"]
    /\ config = [p \in Processes |-> NoConfig]
    /\ result = [p \in Processes |-> "none"]
    /\ trouble = {}
    /\ written = {}
    /\ missed = [p \in Processes |-> {}]

-----------------------------------------------------------------------------
(* Faulty forms of the definitions below: each is a slip in the code that   *)
(* one of the properties at the end of the module must notice.              *)

\* A command that cannot parse the file goes on with an empty configuration.
PanicOnMalformedDefaulted(p) ==
    /\ ~file.parses
    /\ Goto(p, "load", "create")
    /\ config' = [config EXCEPT ![p] = [NoConfig EXCEPT !.address_key_map = {p}]]
    /\ UNCHANGED <<file, result, history>>

\* new-key writes a map that holds the new key alone.
LoadForNewKeyFresh(p) ==
    /\ Command[p] = "new-key"
    /\ file.parses
    /\ Goto(p, "load", "create")
    /\ config' = [config EXCEPT ![p] = [NoConfig EXCEPT !.address_key_map = {p}]]
    /\ UNCHANGED <<file, result, history>>

\* The file is opened for writing, and truncated, as soon as it is parsed.
LoadForNewWalletAddressTruncating(p) ==
    /\ Command[p] = "new-wallet-address"
    /\ file.parses /\ Source[p] \in file.config.address_key_map
    /\ Goto(p, "load", "derive")
    /\ config' = [config EXCEPT ![p] = file.config]
    /\ file' = Empty
    /\ UNCHANGED <<result, history>>

\* The search for the source address is left out.
LoadForNewWalletAddressUnsearched(p) ==
    /\ Command[p] = "new-wallet-address"
    /\ file.parses
    /\ Goto(p, "load", "derive")
    /\ config' = [config EXCEPT ![p] = file.config]
    /\ UNCHANGED <<file, result, history>>

\* The two addresses change places: the entry is filed under the derived one.
DeriveSwapped(p) ==
    /\ Goto(p, "derive", "create")
    /\ config' = [config EXCEPT ![p].address_scw_map = @ \cup {<<p, Source[p]>>}]
    /\ UNCHANGED <<file, result, history>>

-----------------------------------------------------------------------------
Active == {q \in Processes : pc[q] \notin {"idle", "done"}}

Start(p) ==
    /\ Goto(p, "idle", "load")
    /\ trouble' = IF Active = {} THEN trouble ELSE trouble \cup {"overlap"}
    /\ UNCHANGED <<file, config, result, written, missed>>

\* `expect("JSON was not well-formatted")`.
PanicOnMalformed(p) ==
    /\ pc[p] = "load" /\ ~file.parses
    /\ Finish(p, "panic")
    /\ UNCHANGED <<file, config, history>>

\* new-key: parse the file and push the new key.
LoadForNewKey(p) ==
    /\ Command[p] = "new-key"
    /\ file.parses
    /\ Goto(p, "load", "create")
    /\ config' = [config EXCEPT ![p] =
                     [file.config EXCEPT !.address_key_map = @ \cup {p}]]
    /\ UNCHANGED <<file, result, history>>

\* new-wallet-address: parse the file and find the source address in it.
LoadForNewWalletAddress(p) ==
    /\ Command[p] = "new-wallet-address"
    /\ file.parses /\ Source[p] \in file.config.address_key_map
    /\ Goto(p, "load", "derive")
    /\ config' = [config EXCEPT ![p] = file.config]
    /\ UNCHANGED <<file, result, history>>

RejectUnknownSource(p) ==
    /\ Command[p] = "new-wallet-address"
    /\ pc[p] = "load"
    /\ file.parses /\ Source[p] \notin file.config.address_key_map
    /\ Finish(p, "err")
    /\ UNCHANGED <<file, config, history>>

\* bundler run: the configuration goes to run_bundler.
LoadForBundler(p) ==
    /\ Command[p] = "bundler-run"
    /\ pc[p] = "load" /\ file.parses
    /\ Finish(p, "ok")
    /\ config' = [config EXCEPT ![p] = file.config]
    /\ UNCHANGED <<file, history>>

\* create_scw_deployment_uo returns; the address goes into address_scw_map.
Derive(p) ==
    /\ Goto(p, "derive", "create")
    /\ config' = [config EXCEPT ![p].address_scw_map = @ \cup {<<Source[p], p>>}]
    /\ UNCHANGED <<file, result, history>>

\* The node cannot be reached, or the wallet is already deployed.
FailDerive(p) ==
    /\ pc[p] = "derive"
    /\ Finish(p, "err")
    /\ UNCHANGED <<file, config, history>>

\* run_until_ctrl_c hears SIGTERM before the first poll of the command, or
\* SIGTERM or Ctrl-C while the command awaits the node: it returns Ok(()).
Interrupt(p) ==
    /\ pc[p] \in {"load", "derive"}
    /\ Finish(p, "ok")
    /\ UNCHANGED <<file, config, history>>

\* File::create.
Create(p) ==
    /\ Goto(p, "create", "write")
    /\ file' = Empty
    /\ UNCHANGED <<config, result, history>>

\* The commands that hold a copy of the file, to be written back.
HoldCopy == {q \in Processes : pc[q] \in {"derive", "create", "write"}}

\* write_all.
Write(p) ==
    /\ pc[p] = "write"
    /\ file' = Overwrite(file, config[p])
    /\ Finish(p, "ok")
    /\ written' = written \cup {p}
    /\ missed' = [q \in Processes |->
                      IF q \in HoldCopy \ {p} THEN missed[q] \cup {p} ELSE missed[q]]
    /\ UNCHANGED <<config, trouble>>

\* The process dies.
Crash(p) ==
    /\ p \in Active
    /\ Finish(p, "killed")
    /\ trouble' = IF pc[p] = "write" THEN trouble \cup {"torn"} ELSE trouble
    /\ UNCHANGED <<file, config, written, missed>>

Run(p) ==
    \/ Start(p) \/ PanicOnMalformed(p)
    \/ LoadForNewKey(p) \/ LoadForNewWalletAddress(p) \/ RejectUnknownSource(p)
    \/ LoadForBundler(p)
    \/ Derive(p) \/ FailDerive(p) \/ Create(p) \/ Write(p) \/ Interrupt(p)

Next == \E p \in Processes : Run(p) \/ Crash(p)

Spec == Init /\ [][Next]_vars

-----------------------------------------------------------------------------
(* Properties.                                                             *)

NobodyWrites == \A p \in Processes : pc[p] # "write"

\* Commands that run one after the other leave the file readable, whatever
\* Ctrl-C, failing requests and crashes interrupt, unless one of them dies
\* between truncating the file and writing it.
FileIntact == trouble = {} /\ NobodyWrites => file.parses

\* What the command of p adds is in the file.
Stored(p) ==
    /\ Command[p] = "new-key" => p \in file.config.address_key_map
    /\ Command[p] = "new-wallet-address" =>
           <<Source[p], p>> \in file.config.address_scw_map

\* The README: a generated key, and a generated address, is in config.json
\* once it has been written.  However commands overlap, are interrupted and
\* die, a readable file lacks it only if some command has since written back
\* a copy that it had read before.
UpdatePersisted ==
    file.parses =>
        \A p \in written : Stored(p) \/ \E q \in written : p \in missed[q]

\* However commands overlap and die, a file that parses lists no wallet
\* address whose owner's key it does not hold.
OwnersHaveKeys ==
    file.parses => \A entry \in file.config.address_scw_map :
                       entry[1] \in file.config.address_key_map

\* A file that does not parse and that no process read in time is left as it
\* is for ever: no command mistakes it for an empty configuration and writes
\* over what may be recovered from it.
Damaged == ~file.parses /\ \A p \in Processes : pc[p] \in {"idle", "load", "done"}

DamagedStaysAsItIs == [][Damaged => Damaged' /\ UNCHANGED file]_vars

-----------------------------------------------------------------------------
(* What the README says, and the code does not do.                         *)

\* A readable file holds the entry of every command that has written one.
ReadableIsComplete ==
    file.parses /\ NobodyWrites => \A p \in written : Stored(p)

=============================================================================
