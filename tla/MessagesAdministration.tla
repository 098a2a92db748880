----------------------- MODULE MessagesAdministration -----------------------
(***************************************************************************)
(* The messages pallet of the target chain under its administration: owner *)
(* and root halt and resume it, and upgrades of the runtime convert the    *)
(* stored operating mode from older layouts.  Deliveries, as MessageDispatch *)
(* has them, obey the mode.                                                *)
(*                                                                         *)
(* The mode is kept as the bytes of its SCALE encoding, because the        *)
(* migrations read the bytes of one type as those of another.              *)
(***************************************************************************)
EXTENDS MessageDispatch

CONSTANTS
    Admins,     \* accounts that may own the pallet
    Parameters  \* values of the runtime parameter that the pallet lets them set

Pallet == INSTANCE OwnedBridgeModule WITH Accounts <- Admins

VARIABLES
    layout,       \* of the storage: "current", or an older one that awaits migration
    store,        \* the storage items of the mode: IsHalted, PalletOperatingMode
    palletOwner,  \* PalletOwner
    parameter,    \* the parameter saved last
    decided       \* history: the mode that was decided last

adminVars == <<layout, store, palletOwner, parameter, decided>>
allVars == <<dispatchVars, adminVars>>

-----------------------------------------------------------------------------
(* MessagesOperatingMode and its encoding. *)

MessagesOperatingModes == Pallet!BasicOperatingModes \cup {"RejectingOutboundMessages"}

Absent == <<>>
EncodeBasic(mode) == IF mode = "Halted" THEN <<1>> ELSE <<0>>
EncodeMode(mode) ==
    IF mode = "RejectingOutboundMessages" THEN <<1>> ELSE <<0>> \o EncodeBasic(mode)

\* Decoding ignores bytes that are left over.
DecodeBasic(bytes) == IF bytes[1] = 1 THEN "Halted" ELSE "Normal"

\* PalletOperatingMode::get: what is absent or does not decode is the default.
ReadMode(bytes) ==
    IF bytes = Absent \/ bytes = <<0>> THEN "Normal"
    ELSE IF bytes[1] = 1 THEN "RejectingOutboundMessages"
    ELSE DecodeBasic(Tail(bytes))

IsHalted(mode) == Pallet!IsHalted(mode)

-----------------------------------------------------------------------------
(* Migrations. *)

\* put_pallet_operation_mode
PutPalletOperationMode(items, bytes) == [items EXCEPT !.PalletOperatingMode = bytes]

\* migrate_pallet_operation_mode: the flag becomes a BasicOperatingMode.
MigratePalletOperationMode(items) ==
    IF items.IsHalted = Absent THEN items
    ELSE [PutPalletOperationMode(items, EncodeBasic(IF items.IsHalted[1] THEN "Halted" ELSE "Normal"))
            EXCEPT !.IsHalted = Absent]

\* Mutant: the mode of the messages pallet is not converted.
MigrateNothing(items) == items

\* migrate_message_pallet_operation_mode: the BasicOperatingMode becomes a
\* MessagesOperatingMode.  Bytes that already are one would be misread.
MigrateMessagePalletOperationMode(items) ==
    IF items.PalletOperatingMode = Absent THEN items
    ELSE LET mode == DecodeBasic(items.PalletOperatingMode)
         IN  PutPalletOperationMode(items, EncodeMode(mode))

\* The first block of the upgraded runtime migrates what it finds, once.
OnRuntimeUpgrade ==
    /\ layout # "current"
    /\ layout' = "current"
    /\ store' = MigrateMessagePalletOperationMode(MigratePalletOperationMode(store))
    /\ UNCHANGED <<dispatchVars, palletOwner, parameter, decided>>

-----------------------------------------------------------------------------
(* Calls. *)

SetOwner(origin, new_owner) ==
    /\ layout = "current" /\ ~tx.active
    /\ Pallet!EnsureOwnerOrRoot(origin, palletOwner)
    /\ palletOwner' = new_owner
    /\ UNCHANGED <<dispatchVars, layout, store, parameter, decided>>

SetOperatingMode(origin, operating_mode) ==
    /\ layout = "current" /\ ~tx.active
    /\ Pallet!EnsureOwnerOrRoot(origin, palletOwner)
    /\ store' = PutPalletOperationMode(store, EncodeMode(operating_mode))
    /\ decided' = operating_mode
    /\ UNCHANGED <<dispatchVars, layout, palletOwner, parameter>>

\* A halted pallet lets its parameter be updated too.
UpdatePalletParameter(origin, new_parameter) ==
    /\ layout = "current" /\ ~tx.active
    /\ Pallet!EnsureOwnerOrRoot(origin, palletOwner)
    /\ parameter' = new_parameter
    /\ UNCHANGED <<dispatchVars, layout, store, palletOwner, decided>>

\* receive_messages_proof begins with ensure_not_halted.
ReceiveMessagesProof ==
    /\ layout = "current"
    /\ Pallet!EnsureNotHalted(ReadMode(store.PalletOperatingMode))
    /\ BeginSomeDelivery
    /\ UNCHANGED adminVars

-----------------------------------------------------------------------------
Items(isHalted, mode) == [IsHalted |-> isHalted, PalletOperatingMode |-> mode]

\* A chain that starts with this pallet (GenesisConfig), or one that has an older
\* layout when its runtime is upgraded to this one.
AdminInit ==
    /\ Init
    /\ palletOwner \in Pallet!Owners
    /\ parameter \in Parameters
    /\ \/ /\ layout = "current"
          /\ decided \in MessagesOperatingModes
          /\ store = Items(Absent, EncodeMode(decided))
       \/ /\ layout = "basic"
          /\ decided \in Pallet!BasicOperatingModes
          /\ store = Items(Absent, EncodeBasic(decided))
       \/ /\ layout = "is_halted"
          /\ decided \in Pallet!BasicOperatingModes
          /\ store = Items(<<decided = "Halted">>, Absent)

AdminNext ==
    \/ OnRuntimeUpgrade
    \/ \E origin \in Pallet!Origins, new_owner \in Pallet!Owners : SetOwner(origin, new_owner)
    \/ \E origin \in Pallet!Origins, operating_mode \in MessagesOperatingModes :
         SetOperatingMode(origin, operating_mode)
    \/ \E origin \in Pallet!Origins, new_parameter \in Parameters :
         UpdatePalletParameter(origin, new_parameter)
    \/ ReceiveMessagesProof
    \/ layout = "current" /\ OtherNext /\ UNCHANGED adminVars

AdminSpec == AdminInit /\ [][AdminNext]_allVars

-----------------------------------------------------------------------------
(* Properties. *)

\* A decision to halt holds until somebody entitled to it decides otherwise, through
\* every migration of the stored mode: the pallet reads the mode that was decided
\* last, and no message is delivered while that is Halted.  Bytes that were left in
\* an older layout would silently resume the bridge.
DecisionsHold ==
    /\ layout = "current" => ReadMode(store.PalletOperatingMode) = decided
    /\ tx.active => decided # "Halted"
=============================================================================
