---------------------------- MODULE ConfigStore ----------------------------
(***************************************************************************)
(* The configuration store of SapphireOS (sapphireos/config.c): parameters *)
(* kept in the blocks of an EEPROM.  A parameter is one or more numbered   *)
(* blocks.  A block is replaced by writing the new one elsewhere, its      *)
(* identifier last, and erasing the old one after that; at boot, duplicate *)
(* and invalid blocks are erased, and all parameters are reset if the      *)
(* version of the store is missing or too old.                             *)
(*                                                                         *)
(* The EEPROM is written a byte at a time and power may be lost between    *)
(* any two bytes.  A block whose identifier is partly written or partly    *)
(* erased has an identifier that is nobody's (Torn).                       *)
(***************************************************************************)
EXTENDS Integers, Sequences, FiniteSets

CONSTANTS
  Params,       \* parameters, by the hash of their names
  Version,      \* CFG_PARAM_VERSION
  DefaultSeq,   \* the other parameters cfg_v_default_all writes, in order
  Settable,     \* parameters that are set while the system runs
  Erasable,     \* parameters that are erased: tags, and the version
  NBlocks,      \* calc_n_blocks of each parameter
  Data, Zero,   \* what a block holds
  Types,        \* the types a parameter may have, by firmware
  NSlots,       \* CFG_TOTAL_BLOCKS
  MaxVersion,   \* bound on the firmware upgrades
  MaxLosses     \* bound on the losses of power

None  == 0
Empty == "empty"   \* CFG_PARAM_EMPTY_BLOCK
Torn  == "torn"

Defaults == {DefaultSeq[k] : k \in 1 .. Len(DefaultSeq)}

(* A key is a block of a parameter.                                        *)
KeysOf(p)   == {<<p, n>> : n \in 0 .. NBlocks[p] - 1}
DefaultKeys == UNION {KeysOf(p) : p \in Defaults}

ParamsAssumption ==
  /\ Version \in Params /\ DefaultSeq \in Seq(Params \ {Version})
  /\ Empty \notin Params /\ Torn \notin Params
  /\ Settable \subseteq Params \ {Version} /\ Erasable \subseteq Params \ Defaults
  /\ NBlocks \in [Params -> Nat \ {0}] /\ NBlocks[Version] = 1

(* The EEPROM has room for the defaults and for a block that is replaced.  *)
StoreAssumption ==
  /\ Zero \in Data /\ Types # {} /\ MaxVersion \in Nat \ {0} /\ MaxLosses \in Nat
  /\ NSlots \in Nat /\ NSlots > Cardinality(DefaultKeys)

Slots  == 1 .. NSlots
Values == Data \cup 1 .. MaxVersion
Keys   == UNION {KeysOf(p) : p \in Params}
Block  == [id: Params \cup {Empty, Torn}, n: Nat, type: Types, val: Values]

BlankBlock == [id |-> Empty, n |-> 0, type |-> CHOOSE t \in Types : TRUE, val |-> Zero]

VARIABLES
  ee,        \* the EEPROM
  current,   \* CFG_VERSION of the firmware
  type,      \* kv_i8_type
  phase,     \* what is going on
  era,       \* the block being erased
  slot,      \* cursor of the loops over the blocks
  target,    \* the parameter being erased
  todo,      \* the parameters to write, with their values
  nb, old, dst,  \* write_param: block number, old block, new block
  full,      \* SYS_WARN_CONFIG_FULL
  losses,
  wiping     \* auxiliary: CMD2_RESET_CFG wipes the store, and no wipe was finished since

firmware == <<current, type>>
control  == <<phase, era, slot, target, todo, nb, old, dst>>
storeVars == <<ee, firmware, control, full, losses, wiping>>

-----------------------------------------------------------------------------
(* Looking things up.                                                      *)

Least(S) == IF S = {} THEN None ELSE CHOOSE s \in S : \A t \in S : s <= t

Holders(p, n) == {s \in Slots : ee[s].id = p /\ ee[s].n = n}
seek_block(p, n) == Least(Holders(p, n))
get_free_block == Least({s \in Slots : ee[s].id = Empty})

(* The step of the loops over the blocks; their cursors are wide enough.   *)
Bug_NarrowCursor(s) == (s % NSlots) + 1
After(s) == s + 1

(* read_param, for one block.                                              *)
ValueOf(p, n) == LET s == seek_block(p, n) IN IF s = None THEN Zero ELSE ee[s].val
IsStored(p, n) == Holders(p, n) # {}

(* The blocks clean_blocks takes for duplicates of block s.                *)
Twins(s) == {t \in Slots \ {s} : ee[t].id = ee[s].id /\ ee[t].n = ee[s].n}

(* What the key/value system still knows a block by.                       *)
Valid(b) == b.id \in Params /\ b.type = type[b.id] /\ b.n < NBlocks[b.id]

Outdated ==
  \/ ~IsStored(Version, 0)
  \/ ValueOf(Version, 0) \notin {current, current - 1}

(* The calls of cfg_v_default_all.                                         *)
Zeroes(p) == [n \in 0 .. NBlocks[p] - 1 |-> Zero]
VersionWrite == [param |-> Version, val |-> [n \in {0} |-> current]]
DefaultWrites == [k \in 1 .. Len(DefaultSeq) |->
                    [param |-> DefaultSeq[k], val |-> Zeroes(DefaultSeq[k])]]
Bug_VersionFirst == <<VersionWrite>> \o DefaultWrites
DefaultJob == DefaultWrites \o <<VersionWrite>>

-----------------------------------------------------------------------------
(* erase_block: from the first byte, of the identifier, to the last.       *)

StartErase(s) ==
  /\ ee' = [ee EXCEPT ![s].id = Torn]
  /\ era' = s

FinishErase ==
  /\ era # None
  /\ ee' = [ee EXCEPT ![era] = BlankBlock] /\ era' = None
  /\ UNCHANGED <<firmware, phase, slot, target, todo, nb, old, dst, full, losses, wiping>>

-----------------------------------------------------------------------------
(* cfg_v_init.                                                             *)

CleanDuplicate ==
  /\ phase = "clean" /\ era = None /\ slot \in Slots
  /\ ee[slot].id \in Params /\ Twins(slot) # {}
  /\ StartErase(Least(Twins(slot)))
  /\ UNCHANGED <<firmware, phase, slot, target, todo, nb, old, dst, full, losses, wiping>>

CleanInvalid ==
  /\ phase = "clean" /\ era = None /\ slot \in Slots
  /\ ee[slot].id # Empty /\ ~(ee[slot].id \in Params /\ Twins(slot) # {})
  /\ ~Valid(ee[slot])
  /\ StartErase(slot) /\ slot' = After(slot)
  /\ UNCHANGED <<firmware, phase, target, todo, nb, old, dst, full, losses, wiping>>

CleanNext ==
  /\ phase = "clean" /\ era = None /\ slot \in Slots
  /\ \/ ee[slot].id = Empty
     \/ ~(ee[slot].id \in Params /\ Twins(slot) # {}) /\ Valid(ee[slot])
  /\ slot' = After(slot)
  /\ UNCHANGED <<ee, firmware, phase, era, target, todo, nb, old, dst, full, losses, wiping>>

CheckVersion ==
  /\ phase = "clean" /\ era = None /\ slot \notin Slots
  /\ phase' = (IF Outdated THEN "wipe" ELSE "idle") /\ slot' = 1
  /\ UNCHANGED <<ee, firmware, era, target, todo, nb, old, dst, full, losses, wiping>>

(* cfg_v_default_all: everything is erased, then the defaults are written. *)
Wipe ==
  /\ phase = "wipe" /\ era = None /\ slot \in Slots
  /\ IF ee[slot].id = Empty THEN UNCHANGED <<ee, era>> ELSE StartErase(slot)
  /\ slot' = After(slot)
  /\ UNCHANGED <<firmware, phase, target, todo, nb, old, dst, full, losses, wiping>>

WriteDefaults ==
  /\ phase = "wipe" /\ era = None /\ slot \notin Slots
  /\ phase' = "set" /\ todo' = DefaultJob /\ nb' = 0 /\ slot' = 1
  /\ wiping' = FALSE
  /\ UNCHANGED <<ee, firmware, era, target, old, dst, full, losses>>

-----------------------------------------------------------------------------
(* write_param.                                                            *)

Param == Head(todo).param
New   == [id |-> Param, n |-> nb, type |-> type[Param], val |-> Head(todo).val[nb]]

(* The new block is the old one.                                           *)
AsOld == seek_block(Param, nb) # None /\ ee[seek_block(Param, nb)] = New

(* write_block, all but the first byte of the identifier.                  *)
Bug_IdFirst(b) == [b EXCEPT !.val = Zero]
BodyOf(b) == [b EXCEPT !.id = Torn]

EndOfParam ==
  /\ todo' = Tail(todo) /\ nb' = 0
  /\ phase' = IF Tail(todo) = << >> THEN "idle" ELSE "set"

Set(p, v) ==
  /\ phase = "idle"
  /\ phase' = "set" /\ todo' = <<[param |-> p, val |-> v]>> /\ nb' = 0
  /\ UNCHANGED <<ee, firmware, era, slot, target, old, dst, full, losses, wiping>>

SetSame ==
  /\ phase = "set" /\ era = None /\ nb < NBlocks[Param]
  /\ AsOld
  /\ nb' = nb + 1
  /\ UNCHANGED <<ee, firmware, phase, era, slot, target, todo, old, dst, full, losses, wiping>>

SetFull ==
  /\ phase = "set" /\ era = None /\ nb < NBlocks[Param]
  /\ ~AsOld
  /\ get_free_block = None
  /\ full' = TRUE
  /\ EndOfParam
  /\ UNCHANGED <<ee, firmware, era, slot, target, old, dst, losses, wiping>>

SetBody ==
  /\ phase = "set" /\ era = None /\ nb < NBlocks[Param]
  /\ ~AsOld
  /\ get_free_block # None
  /\ old' = seek_block(Param, nb) /\ dst' = get_free_block
  /\ ee' = [ee EXCEPT ![dst'] = BodyOf(New)]
  /\ phase' = "body"
  /\ UNCHANGED <<firmware, era, slot, target, todo, nb, full, losses, wiping>>

(* The first byte of the identifier; the block reads back as written.      *)
SetId ==
  /\ phase = "body"
  /\ ee' = [ee EXCEPT ![dst] = New]
  /\ phase' = "written"
  /\ UNCHANGED <<firmware, era, slot, target, todo, nb, old, dst, full, losses, wiping>>

SetOld ==
  /\ phase = "written"
  /\ IF old = None THEN UNCHANGED <<ee, era>> ELSE StartErase(old)
  /\ phase' = "set" /\ nb' = nb + 1 /\ old' = None /\ dst' = None
  /\ UNCHANGED <<firmware, slot, target, todo, full, losses, wiping>>

SetDone ==
  /\ phase = "set" /\ era = None /\ nb = NBlocks[Param]
  /\ EndOfParam
  /\ UNCHANGED <<ee, firmware, era, slot, target, old, dst, full, losses, wiping>>

-----------------------------------------------------------------------------
(* cfg_v_erase.                                                            *)

Erase(p) ==
  /\ phase = "idle"
  /\ phase' = "erase" /\ target' = p
  /\ UNCHANGED <<ee, firmware, era, slot, todo, nb, old, dst, full, losses, wiping>>

EraseNext ==
  /\ phase = "erase" /\ era = None /\ slot \in Slots
  /\ IF ee[slot].id = target THEN StartErase(slot) ELSE UNCHANGED <<ee, era>>
  /\ slot' = After(slot)
  /\ UNCHANGED <<firmware, phase, target, todo, nb, old, dst, full, losses, wiping>>

EraseOver ==
  /\ phase = "erase" /\ era = None /\ slot \notin Slots
  /\ phase' = "idle" /\ target' = Version /\ slot' = 1
  /\ UNCHANGED <<ee, firmware, era, todo, nb, old, dst, full, losses, wiping>>

(* CMD2_RESET_CFG.                                                         *)
ResetConfig ==
  /\ phase = "idle"
  /\ phase' = "wipe" /\ wiping' = TRUE
  /\ UNCHANGED <<ee, firmware, era, slot, target, todo, nb, old, dst, full, losses>>

-----------------------------------------------------------------------------
(* Power is lost, or the system is reset, at any instant; the firmware may *)
(* have been replaced when it starts again.                                *)

Restart ==
  /\ phase' = "clean" /\ slot' = 1 /\ era' = None /\ todo' = << >> /\ nb' = 0
  /\ target' = Version /\ old' = None /\ dst' = None /\ full' = FALSE
  /\ losses' = losses + 1
  /\ UNCHANGED <<ee, wiping>>

PowerLoss == losses < MaxLosses /\ Restart /\ UNCHANGED firmware

(* A new firmware has a new version, and may change the type of a          *)
(* parameter that has no default.                                          *)
Upgrade ==
  /\ phase = "idle" /\ losses < MaxLosses /\ current < MaxVersion
  /\ current' = current + 1
  /\ type' \in [Params -> Types] /\ \A p \in Defaults \cup {Version} : type'[p] = type[p]
  /\ Restart

StoreInit ==
  /\ ee = [s \in Slots |-> BlankBlock]
  /\ current = 1 /\ type = [p \in Params |-> CHOOSE t \in Types : TRUE]
  /\ phase = "clean" /\ slot = 1 /\ era = None /\ todo = << >> /\ nb = 0
  /\ target = Version /\ old = None /\ dst = None /\ full = FALSE /\ losses = 0
  /\ wiping = FALSE

Boot == CleanDuplicate \/ CleanInvalid \/ CleanNext \/ CheckVersion \/ Wipe \/ WriteDefaults
WriteParam == SetSame \/ SetFull \/ SetBody \/ SetId \/ SetOld \/ SetDone
Calls ==
  \/ \E p \in Settable : \E v \in [0 .. NBlocks[p] - 1 -> Data] : Set(p, v)
  \/ \E p \in Erasable : Erase(p)
  \/ ResetConfig

Code == FinishErase \/ Boot \/ WriteParam \/ EraseNext \/ EraseOver
StoreNext == Code \/ Calls \/ PowerLoss \/ Upgrade

(* What has begun goes on.                                                 *)
StoreFairness == WF_storeVars(Code)

StoreSpec == StoreInit /\ [][StoreNext]_storeVars /\ StoreFairness
-----------------------------------------------------------------------------
(* Properties.                                                             *)

StoreTypeOK ==
  /\ ee \in [Slots -> Block]
  /\ current \in 1 .. MaxVersion /\ type \in [Params -> Types]
  /\ phase \in {"clean", "wipe", "set", "body", "written", "erase", "idle"}
  /\ era \in Slots \cup {None} /\ slot \in 1 .. NSlots + 1 /\ target \in Params
  /\ nb \in Nat /\ old \in Slots \cup {None} /\ dst \in Slots \cup {None}
  /\ full \in BOOLEAN /\ wiping \in BOOLEAN /\ losses \in 0 .. MaxLosses
  /\ phase \in {"set", "body", "written"} <=> todo # << >>
  /\ phase \in {"body", "written"} => nb < NBlocks[Param] /\ dst # None

(* Once a boot, a write or an erasure is over, however often power was     *)
(* lost in it, every block that is in use is the one valid copy of its     *)
(* part of a parameter: no space leaks and no lookup is ambiguous.         *)
CleanWhenIdle ==
  phase = "idle" =>
    \A s \in Slots : ee[s].id # Empty => Valid(ee[s]) /\ Twins(s) = {}

(* The version is the seal of the store: if it is there and not too old,   *)
(* every parameter that has a default is stored, whenever power was lost   *)
(* while the store was being reset.  The one exception is a wipe by        *)
(* CMD2_RESET_CFG, over a version that is valid and may outlive the rest.  *)
VersionSeals ==
  ~wiping /\ IsStored(Version, 0) /\ ValueOf(Version, 0) \in {current, current - 1} =>
    \A p \in Defaults : \A n \in 0 .. NBlocks[p] - 1 : IsStored(p, n)

(* Both: what is stored is unambiguous, valid and, with a version, whole.  *)
StoreSound == CleanWhenIdle /\ VersionSeals

(* What the map of ParamStore is made of: the keys that may vanish are     *)
(* those being erased, and those whose type another firmware has changed.  *)
Condemned ==
  CASE phase = "wipe"  -> Keys
    [] phase = "erase" -> {k \in Keys : k[1] = target}
    [] phase = "clean" -> {k \in Keys : \E s \in Holders(k[1], k[2]) : ~Valid(ee[s])}
    [] OTHER        -> {}

PendingKeys == IF todo = << >> THEN {} ELSE {k \in Keys : k[1] = Param}

Contents == [k \in Keys |-> IF IsStored(k[1], k[2]) THEN <<ValueOf(k[1], k[2])>> ELSE << >>]
Pending  == [k \in PendingKeys |-> <<Head(todo).val[k[2]]>>]
Room     == get_free_block # None

Map == INSTANCE ParamStore WITH
  Absent    <- << >>,
  kv        <- Contents,
  pending   <- Pending,
  condemned <- Condemned,
  room      <- Room,
  Values    <- {<<v>> : v \in Values}

(* The store is an atomic map, whatever power losses do to its blocks: a   *)
(* key changes at one instant from its old to its new value (write_param), *)
(* and recovery (clean_blocks) changes nothing but for condemned keys.     *)
ImplementsStore == Map!Spec
=============================================================================
