-------------------------- MODULE ConfigFileProofs ---------------------------
(***************************************************************************)
(* Proofs about ConfigFile for any number of commands on one config.json:   *)
(* type correctness, that a wallet address is never without its owner's     *)
(* key, that a damaged file is left alone, that an entry is lost only to a  *)
(* command which had read the file before it was written, and that commands *)
(* which run one after the other keep the file readable.                    *)
(***************************************************************************)
EXTENDS ConfigFile, FiniteSetTheorems, TLAPS

\* A configuration lists no wallet address whose owner's key it does not hold.
OwnersIn(c) == \A entry \in c.address_scw_map : entry[1] \in c.address_key_map

\* What the command of p stores is in c.
Holds(c, p) ==
    /\ Command[p] = "new-key" => p \in c.address_key_map
    /\ Command[p] = "new-wallet-address" => <<Source[p], p>> \in c.address_scw_map

HasFiniteMaps(c) ==
    IsFiniteSet(c.address_key_map) /\ IsFiniteSet(c.address_scw_map)

\* Every command adds one entry, so there are finitely many and the length of
\* the file is a number.
FiniteMaps ==
    HasFiniteMaps(file.config) /\ \A p \in Processes : HasFiniteMaps(config[p])

\* A copy that will be written back is as sound as the file it was read from,
\* and a new wallet address is derived from a key that is in it.
CopiesSound ==
    \A p \in Processes :
        /\ pc[p] \in {"derive", "create", "write"} => OwnersIn(config[p])
        /\ pc[p] = "derive" => /\ Command[p] = "new-wallet-address"
                               /\ Source[p] \in config[p].address_key_map

\* A copy about to be written back holds the command's own entry.
CopiesHoldOwn ==
    \A p \in Processes : pc[p] \in {"create", "write"} => Holds(config[p], p)

\* Some command has written back a copy that it had read before p wrote.
Overwritten(p) == \E q \in written : p \in missed[q]

\* A copy to be written back holds every entry written so far, but for those
\* written after it was read and those already lost.
CopiesHoldOlder ==
    \A q \in HoldCopy : \A p \in written :
        Holds(config[q], p) \/ p \in missed[q] \/ Overwritten(p)

\* As long as no overlap was recorded, at most one command runs.
OneAtATime ==
    "overlap" \notin trouble => \A p, q \in Active : p = q

\* The one command that writes has just truncated the file.
TruncatedByWriter ==
    trouble = {} => \A p \in Processes : pc[p] = "write" => file = Empty

SoundInv ==
    CopiesSound /\ OwnersHaveKeys

PersistInv ==
    CopiesHoldOwn /\ CopiesHoldOlder /\ UpdatePersisted

SequentialInv ==
    OneAtATime /\ TruncatedByWriter /\ FileIntact

-----------------------------------------------------------------------------
(* Lemmas about the operators of the model.                                *)

LEMMA ConfigType ==
    /\ NoConfig \in Config /\ HasFiniteMaps(NoConfig)
    /\ Empty \in [parses : BOOLEAN, config : Config, length : Nat]
BY FS_EmptySet DEF NoConfig, Empty, Config, HasFiniteMaps

\* The length of a file is a number.
LEMMA LengthType ==
    ASSUME NEW c \in Config, HasFiniteMaps(c)
    PROVE  Length(c) \in Nat
<1>1. Cardinality(c.address_key_map) \in Nat /\ Cardinality(c.address_scw_map) \in Nat
    BY FS_CardinalityType DEF HasFiniteMaps
<1>2. \A m, n \in Nat : m * n \in Nat /\ m + n \in Nat
    OBVIOUS
<1>3. KeyLength \in Nat /\ ScwLength \in Nat
    BY ConfigAssumption
<1> QED
    BY <1>1, <1>2, <1>3 DEF Length

\* What is in the file after a write is the copy, or nothing that parses.
LEMMA OverwriteType ==
    ASSUME NEW c \in Config, HasFiniteMaps(c),
           NEW old \in [parses : BOOLEAN, config : Config, length : Nat]
    PROVE  /\ Overwrite(old, c) \in [parses : BOOLEAN, config : Config, length : Nat]
           /\ HasFiniteMaps(Overwrite(old, c).config)
           /\ Overwrite(old, c).parses => Overwrite(old, c).config = c
BY LengthType, ConfigType DEF Overwrite, Text

\* Over a file that has just been truncated a write is complete.
LEMMA OverwriteEmpty ==
    ASSUME NEW c \in Config, HasFiniteMaps(c)
    PROVE  Overwrite(Empty, c) = Text(c)
<1>1. Length(c) >= 0
    BY LengthType
<1> QED
    BY <1>1 DEF Overwrite, Empty

\* A new entry keeps a configuration well typed and finite.
LEMMA AddKey ==
    ASSUME NEW c \in Config, HasFiniteMaps(c), NEW p \in Processes
    PROVE  LET d == [c EXCEPT !.address_key_map = @ \cup {p}]
           IN  d \in Config /\ HasFiniteMaps(d)
BY FS_AddElement DEF Config, Keys, HasFiniteMaps

LEMMA AddScw ==
    ASSUME NEW c \in Config, HasFiniteMaps(c), NEW k \in Keys, NEW p \in Processes
    PROVE  LET d == [c EXCEPT !.address_scw_map = @ \cup {<<k, p>>}]
           IN  d \in Config /\ HasFiniteMaps(d)
<1> DEFINE S == c.address_scw_map \cup {<<k, p>>}
<1>1. S \in SUBSET (Keys \X Processes)
    BY DEF Config
<1>2. IsFiniteSet(S)
    BY FS_AddElement DEF HasFiniteMaps
<1> HIDE DEF S
<1>3. [c EXCEPT !.address_scw_map = S] \in Config
    BY <1>1 DEF Config
<1>4. HasFiniteMaps([c EXCEPT !.address_scw_map = S])
    BY <1>2 DEF Config, HasFiniteMaps
<1> QED
    BY <1>3, <1>4 DEF S

-----------------------------------------------------------------------------
(* Type correctness.                                                       *)

LEMMA InitTypeOK == Init => TypeOK /\ FiniteMaps
<1> SUFFICES ASSUME Init PROVE TypeOK /\ FiniteMaps
    OBVIOUS
<1> DEFINE first == [address_key_map |-> {FirstKey}, address_scw_map |-> {}]
<1>1. first \in Config /\ HasFiniteMaps(first)
    BY FS_EmptySet, FS_Singleton DEF Config, Keys, HasFiniteMaps
<1>2. file = Text(first)
    BY DEF Init
<1>3. file \in [parses : BOOLEAN, config : Config, length : Nat] /\ HasFiniteMaps(file.config)
    <2> HIDE DEF first
    <2> QED
        BY <1>1, <1>2, LengthType DEF Text
<1> QED
    BY <1>3, ConfigType DEF Init, TypeOK, FiniteMaps

LEMMA NextTypeOK == TypeOK /\ FiniteMaps /\ [Next]_vars => TypeOK' /\ FiniteMaps'
<1> SUFFICES ASSUME TypeOK, FiniteMaps, [Next]_vars PROVE TypeOK' /\ FiniteMaps'
    OBVIOUS
<1> USE DEF TypeOK, FiniteMaps, history
<1>1. ASSUME NEW p \in Processes, Start(p) PROVE TypeOK' /\ FiniteMaps'
    BY <1>1 DEF Start, Goto
<1>2. ASSUME NEW p \in Processes, PanicOnMalformed(p) PROVE TypeOK' /\ FiniteMaps'
    BY <1>2 DEF PanicOnMalformed, Finish
<1>3. ASSUME NEW p \in Processes, LoadForNewKey(p) PROVE TypeOK' /\ FiniteMaps'
  <2> DEFINE c == [file.config EXCEPT !.address_key_map = @ \cup {p}]
  <2>1. c \in Config /\ HasFiniteMaps(c)
    BY AddKey
  <2> HIDE DEF c
  <2>2. config' = [config EXCEPT ![p] = c]
    BY <1>3 DEF LoadForNewKey, c
  <2>3. /\ pc' = [pc EXCEPT ![p] = "create"]
        /\ UNCHANGED <<file, result, trouble, written, missed>>
    BY <1>3 DEF LoadForNewKey, Goto
  <2> QED
    BY <2>1, <2>2, <2>3
<1>4. ASSUME NEW p \in Processes, LoadForNewWalletAddress(p) PROVE TypeOK' /\ FiniteMaps'
    BY <1>4 DEF LoadForNewWalletAddress, Goto
<1>5. ASSUME NEW p \in Processes, RejectUnknownSource(p) PROVE TypeOK' /\ FiniteMaps'
    BY <1>5 DEF RejectUnknownSource, Finish
<1>6. ASSUME NEW p \in Processes, LoadForBundler(p) PROVE TypeOK' /\ FiniteMaps'
    BY <1>6 DEF LoadForBundler, Finish
<1>7. ASSUME NEW p \in Processes, Derive(p) PROVE TypeOK' /\ FiniteMaps'
  <2> DEFINE c == [config[p] EXCEPT !.address_scw_map = @ \cup {<<Source[p], p>>}]
  <2>1. c \in Config /\ HasFiniteMaps(c)
    BY AddScw, ConfigAssumption
  <2> HIDE DEF c
  <2>2. config' = [config EXCEPT ![p] = c]
    BY <1>7 DEF Derive, c
  <2>3. /\ pc' = [pc EXCEPT ![p] = "create"]
        /\ UNCHANGED <<file, result, trouble, written, missed>>
    BY <1>7 DEF Derive, Goto
  <2> QED
    BY <2>1, <2>2, <2>3
<1>8. ASSUME NEW p \in Processes, FailDerive(p) PROVE TypeOK' /\ FiniteMaps'
    BY <1>8 DEF FailDerive, Finish
<1>9. ASSUME NEW p \in Processes, Create(p) PROVE TypeOK' /\ FiniteMaps'
    BY <1>9, ConfigType DEF Create, Goto, Empty
<1>10. ASSUME NEW p \in Processes, Write(p) PROVE TypeOK' /\ FiniteMaps'
    BY <1>10, OverwriteType DEF Write, Finish
<1>11. ASSUME NEW p \in Processes, Crash(p) PROVE TypeOK' /\ FiniteMaps'
    BY <1>11 DEF Crash, Finish
<1>12. ASSUME NEW p \in Processes, Interrupt(p) PROVE TypeOK' /\ FiniteMaps'
    BY <1>12 DEF Interrupt, Finish
<1>13. ASSUME UNCHANGED vars PROVE TypeOK' /\ FiniteMaps'
    BY <1>13 DEF vars
<1> QED
    BY <1>1, <1>2, <1>3, <1>4, <1>5, <1>6, <1>7, <1>8, <1>9, <1>10, <1>11, <1>12, <1>13
    DEF Next, Run

LEMMA SpecTypeOK == Spec => [](TypeOK /\ FiniteMaps)
BY InitTypeOK, NextTypeOK, PTL DEF Spec

\* Every reachable file, and every copy of it that a command holds, is a
\* configuration whose length is a number.
THEOREM TypeCorrect == Spec => []TypeOK
BY SpecTypeOK, PTL

-----------------------------------------------------------------------------
(* Commands that overlap and die as they like.                             *)

LEMMA InitSoundInv == Init => SoundInv
BY DEF Init, Text, SoundInv, CopiesSound, OwnersHaveKeys

LEMMA NextSoundInv ==
    TypeOK /\ FiniteMaps /\ SoundInv /\ [Next]_vars => SoundInv'
<1> SUFFICES ASSUME TypeOK, FiniteMaps, SoundInv, [Next]_vars PROVE SoundInv'
    OBVIOUS
<1> USE DEF TypeOK, SoundInv, CopiesSound, OwnersHaveKeys, OwnersIn, history
<1>1. ASSUME NEW p \in Processes, Start(p) PROVE SoundInv'
    BY <1>1 DEF Start, Goto
<1>2. ASSUME NEW p \in Processes, PanicOnMalformed(p) PROVE SoundInv'
    BY <1>2 DEF PanicOnMalformed, Finish
<1>3. ASSUME NEW p \in Processes, LoadForNewKey(p) PROVE SoundInv'
  <2>1. /\ config'[p].address_scw_map = file.config.address_scw_map
        /\ file.config.address_key_map \subseteq config'[p].address_key_map
    BY <1>3 DEF LoadForNewKey, Config
  <2>2. OwnersIn(config'[p])
    BY <1>3, <2>1 DEF LoadForNewKey
  <2> QED
    BY <1>3, <2>2 DEF LoadForNewKey, Goto
<1>4. ASSUME NEW p \in Processes, LoadForNewWalletAddress(p) PROVE SoundInv'
    BY <1>4 DEF LoadForNewWalletAddress, Goto
<1>5. ASSUME NEW p \in Processes, RejectUnknownSource(p) PROVE SoundInv'
    BY <1>5 DEF RejectUnknownSource, Finish
<1>6. ASSUME NEW p \in Processes, LoadForBundler(p) PROVE SoundInv'
    BY <1>6 DEF LoadForBundler, Finish
<1>7. ASSUME NEW p \in Processes, Derive(p) PROVE SoundInv'
  <2>1. OwnersIn(config[p]) /\ Source[p] \in config[p].address_key_map
    BY <1>7 DEF Derive, Goto
  <2>2. /\ config'[p].address_key_map = config[p].address_key_map
        /\ config'[p].address_scw_map
              = config[p].address_scw_map \cup {<<Source[p], p>>}
    BY <1>7 DEF Derive, Config
  <2>3. OwnersIn(config'[p])
    BY <2>1, <2>2
  <2>4. pc'[p] = "create" /\ file' = file
    BY <1>7 DEF Derive, Goto
  <2>5. \A q \in Processes \ {p} : pc'[q] = pc[q] /\ config'[q] = config[q]
    BY <1>7 DEF Derive, Goto
  <2>6. CopiesSound'
    <3> SUFFICES ASSUME NEW q \in Processes
                 PROVE  /\ pc'[q] \in {"derive", "create", "write"}
                              => OwnersIn(config'[q])
                        /\ pc'[q] = "derive"
                              => /\ Command[q] = "new-wallet-address"
                                 /\ Source[q] \in config'[q].address_key_map
      BY DEF CopiesSound
    <3> HIDE DEF OwnersIn
    <3> QED
      BY <2>3, <2>4, <2>5
  <2>7. OwnersHaveKeys'
    BY <2>4
  <2> QED
    BY <2>6, <2>7
<1>8. ASSUME NEW p \in Processes, FailDerive(p) PROVE SoundInv'
    BY <1>8 DEF FailDerive, Finish
<1>9. ASSUME NEW p \in Processes, Create(p) PROVE SoundInv'
    BY <1>9 DEF Create, Goto, Empty
<1>10. ASSUME NEW p \in Processes, Write(p) PROVE SoundInv'
  <2>1. pc[p] = "write" /\ file' = Overwrite(file, config[p])
    BY <1>10 DEF Write
  <2>2. file'.parses => file'.config = config[p]
    BY <2>1, OverwriteType DEF FiniteMaps
  <2> QED
    BY <1>10, <2>1, <2>2 DEF Write, Finish
<1>11. ASSUME NEW p \in Processes, Crash(p) PROVE SoundInv'
    BY <1>11 DEF Crash, Finish
<1>12. ASSUME NEW p \in Processes, Interrupt(p) PROVE SoundInv'
    BY <1>12 DEF Interrupt, Finish
<1>13. ASSUME UNCHANGED vars PROVE SoundInv'
    BY <1>13 DEF vars
<1> QED
    BY <1>1, <1>2, <1>3, <1>4, <1>5, <1>6, <1>7, <1>8, <1>9, <1>10, <1>11, <1>12, <1>13
    DEF Next, Run

\* new-wallet-address searches the source address in the very copy it writes
\* back, so no interleaving and no crash leaves a wallet without its owner's key.
THEOREM OwnersKept == Spec => []OwnersHaveKeys
<1>1. SoundInv => OwnersHaveKeys
    BY DEF SoundInv
<1> QED
    BY <1>1, InitTypeOK, NextTypeOK, InitSoundInv, NextSoundInv, PTL DEF Spec

\* Every command parses the file before it opens it for writing, and panics
\* on one that is not well-formed: it is never written over.
THEOREM DamageIsLeftAlone == Spec => DamagedStaysAsItIs
<1>1. TypeOK /\ [Next]_vars => [Damaged => Damaged' /\ UNCHANGED file]_vars
  <2> SUFFICES ASSUME TypeOK, Next, Damaged PROVE Damaged' /\ UNCHANGED file
    OBVIOUS
  <2> PICK p \in Processes : Run(p) \/ Crash(p)
    BY DEF Next
  <2> USE DEF TypeOK, Damaged
  <2>1. pc[p] \in {"idle", "load", "done"} /\ ~file.parses
    OBVIOUS
  <2>2. CASE Start(p)
    BY <2>2 DEF Start, Goto
  <2>3. CASE PanicOnMalformed(p)
    BY <2>3 DEF PanicOnMalformed, Finish
  <2>4. CASE Crash(p)
    BY <2>4 DEF Crash, Finish
  <2>5. CASE Interrupt(p)
    BY <2>5 DEF Interrupt, Finish
  <2> QED
    BY <2>1, <2>2, <2>3, <2>4, <2>5
    DEF Run, Goto, LoadForNewKey, LoadForNewWalletAddress, RejectUnknownSource,
        LoadForBundler, Derive, FailDerive, Create, Write
<1> QED
    BY <1>1, SpecTypeOK, PTL DEF Spec, DamagedStaysAsItIs

-----------------------------------------------------------------------------
(* What is lost, and to whom.                                              *)

LEMMA InitPersistInv == Init => PersistInv
BY DEF Init, PersistInv, CopiesHoldOwn, CopiesHoldOlder, HoldCopy, UpdatePersisted

\* A command that only moves on, with its copy or without, leaves what has been
\* written as it is.
LEMMA PersistFrame ==
    ASSUME PersistInv,
           UNCHANGED <<file, config, written, missed>>,
           HoldCopy' \subseteq HoldCopy,
           \A p \in Processes : pc'[p] \in {"create", "write"} =>
                                    pc[p] \in {"create", "write"}
    PROVE  PersistInv'
BY DEF PersistInv, CopiesHoldOwn, CopiesHoldOlder, Overwritten, UpdatePersisted,
       Holds, Stored

\* A copy read from a file that parses holds what the file does.
LEMMA ReadCopy ==
    ASSUME TypeOK, PersistInv, file.parses, NEW p \in written,
           NEW c, c.address_scw_map = file.config.address_scw_map,
           file.config.address_key_map \subseteq c.address_key_map
    PROVE  Holds(c, p) \/ Overwritten(p)
BY DEF PersistInv, UpdatePersisted, Holds, Stored, Overwritten

LEMMA NextPersistInv ==
    TypeOK /\ FiniteMaps /\ SoundInv /\ PersistInv /\ [Next]_vars => PersistInv'
<1> SUFFICES ASSUME TypeOK, FiniteMaps, SoundInv, PersistInv, [Next]_vars
             PROVE  PersistInv'
    OBVIOUS
<1> USE DEF TypeOK, history
<1>1. ASSUME NEW p \in Processes, Start(p) PROVE PersistInv'
    BY <1>1, PersistFrame DEF Start, Goto, HoldCopy
<1>2. ASSUME NEW p \in Processes, PanicOnMalformed(p) PROVE PersistInv'
    BY <1>2, PersistFrame DEF PanicOnMalformed, Finish, HoldCopy
<1>3. ASSUME NEW p \in Processes,
             LoadForNewKey(p) \/ LoadForNewWalletAddress(p)
      PROVE  PersistInv'
  <2>1. /\ file.parses /\ pc[p] = "load"
        /\ UNCHANGED <<file, written, missed>>
        /\ \A q \in Processes \ {p} : pc'[q] = pc[q] /\ config'[q] = config[q]
    BY <1>3 DEF LoadForNewKey, LoadForNewWalletAddress, Goto
  <2>2. /\ config'[p].address_scw_map = file.config.address_scw_map
        /\ file.config.address_key_map \subseteq config'[p].address_key_map
    BY <1>3 DEF LoadForNewKey, LoadForNewWalletAddress, Config
  <2>3. pc'[p] \in {"create", "write"} => Holds(config'[p], p)
    BY <1>3 DEF LoadForNewKey, LoadForNewWalletAddress, Goto, Config, Holds
  <2>4. CopiesHoldOwn'
    BY <2>1, <2>3 DEF PersistInv, CopiesHoldOwn, Holds
  <2>5. \A q \in written : Holds(config'[p], q) \/ Overwritten(q)
    BY <2>1, <2>2, ReadCopy
  <2>6. CopiesHoldOlder'
    <3> SUFFICES ASSUME NEW q \in HoldCopy', NEW u \in written
                 PROVE  Holds(config'[q], u) \/ u \in missed[q] \/ Overwritten(u)
      BY <2>1 DEF CopiesHoldOlder, Overwritten, Holds
    <3>1. CASE q = p
      BY <3>1, <2>5
    <3>2. CASE q # p
      BY <3>2, <2>1 DEF PersistInv, CopiesHoldOlder, HoldCopy
    <3> QED
      BY <3>1, <3>2
  <2>7. UpdatePersisted'
    BY <2>1 DEF PersistInv, UpdatePersisted, Stored
  <2> QED
    BY <2>4, <2>6, <2>7 DEF PersistInv
<1>4. ASSUME NEW p \in Processes, Interrupt(p) PROVE PersistInv'
    BY <1>4, PersistFrame DEF Interrupt, Finish, HoldCopy
<1>5. ASSUME NEW p \in Processes, RejectUnknownSource(p) PROVE PersistInv'
    BY <1>5, PersistFrame DEF RejectUnknownSource, Finish, HoldCopy
<1>6. ASSUME NEW p \in Processes, LoadForBundler(p) PROVE PersistInv'
  <2>1. /\ pc[p] = "load" /\ pc'[p] = "done"
        /\ UNCHANGED <<file, written, missed>>
        /\ \A q \in Processes \ {p} : pc'[q] = pc[q] /\ config'[q] = config[q]
    BY <1>6 DEF LoadForBundler, Finish
  <2> QED
    BY <2>1 DEF PersistInv, CopiesHoldOwn, CopiesHoldOlder, Overwritten,
                UpdatePersisted, Holds, Stored, HoldCopy
<1>7. ASSUME NEW p \in Processes, Derive(p) PROVE PersistInv'
  <2>1. /\ pc[p] = "derive" /\ pc'[p] = "create"
        /\ UNCHANGED <<file, written, missed>>
        /\ \A q \in Processes \ {p} : pc'[q] = pc[q] /\ config'[q] = config[q]
    BY <1>7 DEF Derive, Goto
  <2>2. /\ config'[p].address_key_map = config[p].address_key_map
        /\ config'[p].address_scw_map
              = config[p].address_scw_map \cup {<<Source[p], p>>}
    BY <1>7 DEF Derive, Config
  <2>3. Command[p] = "new-wallet-address"
    BY <2>1 DEF SoundInv, CopiesSound
  <2>4. Holds(config'[p], p)
    BY <2>2, <2>3 DEF Holds
  <2>5. \A q \in Processes : Holds(config[p], q) => Holds(config'[p], q)
    BY <2>2 DEF Holds
  <2>6. CopiesHoldOwn' /\ UpdatePersisted'
    BY <2>1, <2>4 DEF PersistInv, CopiesHoldOwn, UpdatePersisted, Holds, Stored
  <2>7. CopiesHoldOlder'
    <3> SUFFICES ASSUME NEW q \in HoldCopy', NEW u \in written
                 PROVE  Holds(config'[q], u) \/ u \in missed[q] \/ Overwritten(u)
      BY <2>1 DEF CopiesHoldOlder, Overwritten, Holds
    <3>1. q \in HoldCopy
      BY <2>1 DEF HoldCopy
    <3>2. Holds(config[q], u) \/ u \in missed[q] \/ Overwritten(u)
      BY <3>1 DEF PersistInv, CopiesHoldOlder
    <3>3. Holds(config[q], u) => Holds(config'[q], u)
      BY <2>1, <2>5, <3>1 DEF HoldCopy
    <3> QED
      BY <3>2, <3>3
  <2> QED
    BY <2>6, <2>7 DEF PersistInv
<1>8. ASSUME NEW p \in Processes, FailDerive(p) PROVE PersistInv'
    BY <1>8, PersistFrame DEF FailDerive, Finish, HoldCopy
<1>9. ASSUME NEW p \in Processes, Create(p) PROVE PersistInv'
  <2>1. /\ UNCHANGED <<config, written, missed>> /\ ~file'.parses
        /\ pc[p] = "create"
        /\ \A q \in Processes \ {p} : pc'[q] = pc[q]
    BY <1>9 DEF Create, Goto, Empty
  <2> QED
    BY <2>1 DEF PersistInv, CopiesHoldOwn, CopiesHoldOlder, HoldCopy, Overwritten,
                UpdatePersisted, Holds
<1>10. ASSUME NEW p \in Processes, Write(p) PROVE PersistInv'
  <2>1. /\ pc[p] = "write" /\ pc' = [pc EXCEPT ![p] = "done"]
        /\ file' = Overwrite(file, config[p])
        /\ written' = written \cup {p} /\ UNCHANGED config
        /\ \A q \in Processes : missed[q] \subseteq missed'[q]
        /\ \A q \in HoldCopy \ {p} : p \in missed'[q]
        /\ missed'[p] = missed[p]
    BY <1>10 DEF Write, Finish, HoldCopy
  <2>2. file'.parses => file'.config = config[p]
    BY <2>1, OverwriteType DEF FiniteMaps
  <2>3. \A q \in Processes : Overwritten(q) => Overwritten(q)'
    BY <2>1 DEF Overwritten
  <2>4. CopiesHoldOwn'
    BY <2>1 DEF PersistInv, CopiesHoldOwn, Holds
  <2>5. CopiesHoldOlder'
    <3> SUFFICES ASSUME NEW q \in HoldCopy', NEW u \in written'
                 PROVE  Holds(config[q], u) \/ u \in missed'[q] \/ Overwritten(u)'
      BY <2>1 DEF CopiesHoldOlder, Holds
    <3>1. q \in HoldCopy \ {p}
      BY <2>1 DEF HoldCopy
    <3>2. CASE u = p
      BY <2>1, <3>1, <3>2
    <3>3. CASE u \in written
      BY <2>1, <2>3, <3>1, <3>3 DEF PersistInv, CopiesHoldOlder, HoldCopy
    <3> QED
      BY <2>1, <3>2, <3>3
  <2>6. \A u \in written' : Holds(config[p], u) \/ Overwritten(u)'
    <3> SUFFICES ASSUME NEW u \in written'
                 PROVE  Holds(config[p], u) \/ Overwritten(u)'
      OBVIOUS
    <3>1. CASE u = p
      BY <2>1, <3>1 DEF PersistInv, CopiesHoldOwn
    <3>2. CASE u \in written
      <4>1. Holds(config[p], u) \/ u \in missed[p] \/ Overwritten(u)
        BY <2>1, <3>2 DEF PersistInv, CopiesHoldOlder, HoldCopy
      <4> QED
        BY <2>1, <2>3, <4>1 DEF Overwritten
    <3> QED
      BY <2>1, <3>1, <3>2
  <2>7. UpdatePersisted'
    BY <2>2, <2>6 DEF UpdatePersisted, Overwritten, Holds, Stored
  <2> QED
    BY <2>4, <2>5, <2>7 DEF PersistInv
<1>11. ASSUME NEW p \in Processes, Crash(p) PROVE PersistInv'
    BY <1>11, PersistFrame DEF Crash, Finish, HoldCopy
<1>12. ASSUME UNCHANGED vars PROVE PersistInv'
    BY <1>12, PersistFrame DEF vars, HoldCopy
<1> QED
    BY <1>1, <1>2, <1>3, <1>4, <1>5, <1>6, <1>7, <1>8, <1>9, <1>10, <1>11, <1>12
    DEF Next, Run

\* new-key and new-wallet-address write back all they have read: however
\* commands overlap, are interrupted and die, an entry is missing from a file
\* that parses only after some command has written a copy read before it.
THEOREM NothingElseLost == Spec => []UpdatePersisted
<1>1. PersistInv => UpdatePersisted
    BY DEF PersistInv
<1> QED
    BY <1>1, InitTypeOK, NextTypeOK, InitSoundInv, NextSoundInv, InitPersistInv,
       NextPersistInv, PTL DEF Spec

-----------------------------------------------------------------------------
(* Commands that run one after the other.                                  *)

LEMMA InitSequentialInv == Init => SequentialInv
BY DEF Init, Text, SequentialInv, OneAtATime, TruncatedByWriter, FileIntact, Active

LEMMA NextSequentialInv ==
    TypeOK /\ FiniteMaps /\ SequentialInv /\ [Next]_vars => SequentialInv'
<1> SUFFICES ASSUME TypeOK, FiniteMaps, SequentialInv, [Next]_vars
             PROVE  SequentialInv'
    OBVIOUS
<1> USE DEF TypeOK, SequentialInv, OneAtATime, TruncatedByWriter, FileIntact,
            NobodyWrites, Active, history
<1>1. ASSUME NEW p \in Processes, Start(p) PROVE SequentialInv'
    BY <1>1 DEF Start, Goto
<1>2. ASSUME NEW p \in Processes, PanicOnMalformed(p) PROVE SequentialInv'
    BY <1>2 DEF PanicOnMalformed, Finish
<1>3. ASSUME NEW p \in Processes, LoadForNewKey(p) PROVE SequentialInv'
    BY <1>3 DEF LoadForNewKey, Goto
<1>4. ASSUME NEW p \in Processes, LoadForNewWalletAddress(p) PROVE SequentialInv'
    BY <1>4 DEF LoadForNewWalletAddress, Goto
<1>5. ASSUME NEW p \in Processes, RejectUnknownSource(p) PROVE SequentialInv'
    BY <1>5 DEF RejectUnknownSource, Finish
<1>6. ASSUME NEW p \in Processes, LoadForBundler(p) PROVE SequentialInv'
    BY <1>6 DEF LoadForBundler, Finish
<1>7. ASSUME NEW p \in Processes, Derive(p) PROVE SequentialInv'
    BY <1>7 DEF Derive, Goto
<1>8. ASSUME NEW p \in Processes, FailDerive(p) PROVE SequentialInv'
    BY <1>8 DEF FailDerive, Finish
<1>9. ASSUME NEW p \in Processes, Create(p) PROVE SequentialInv'
    BY <1>9 DEF Create, Goto
<1>10. ASSUME NEW p \in Processes, Write(p) PROVE SequentialInv'
  <2>1. /\ pc[p] = "write" /\ pc' = [pc EXCEPT ![p] = "done"]
        /\ file' = Overwrite(file, config[p])
        /\ UNCHANGED trouble
    BY <1>10 DEF Write, Finish
  <2>2. OneAtATime'
    BY <2>1
  <2>3. CASE trouble # {}
    BY <2>1, <2>2, <2>3
  <2>4. CASE trouble = {}
    <3>1. \A q \in Processes \ {p} : pc[q] \in {"idle", "done"}
      BY <2>1, <2>4
    <3>2. file'.parses
      <4>1. file = Empty
        BY <2>1, <2>4
      <4>2. Overwrite(Empty, config[p]) = Text(config[p])
        BY OverwriteEmpty DEF FiniteMaps
      <4> QED
        BY <2>1, <4>1, <4>2 DEF Text
    <3> QED
      BY <2>1, <2>2, <3>1, <3>2
  <2> QED
    BY <2>3, <2>4
<1>11. ASSUME NEW p \in Processes, Crash(p) PROVE SequentialInv'
    BY <1>11 DEF Crash, Finish
<1>12. ASSUME NEW p \in Processes, Interrupt(p) PROVE SequentialInv'
    BY <1>12 DEF Interrupt, Finish
<1>13. ASSUME UNCHANGED vars PROVE SequentialInv'
    BY <1>13 DEF vars
<1> QED
    BY <1>1, <1>2, <1>3, <1>4, <1>5, <1>6, <1>7, <1>8, <1>9, <1>10, <1>11, <1>12,
       <1>13
    DEF Next, Run

\* Commands that do not overlap leave config.json readable, unless one dies
\* between File::create and write_all.
THEOREM ReadableAfterCommands == Spec => []FileIntact
<1>1. SequentialInv => FileIntact
    BY DEF SequentialInv
<1> QED
    BY <1>1, InitTypeOK, NextTypeOK, InitSequentialInv, NextSequentialInv, PTL DEF Spec

=============================================================================
