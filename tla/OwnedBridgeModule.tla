-------------------------- MODULE OwnedBridgeModule --------------------------
(***************************************************************************)
(* What the bridge pallets share: an optional owner account, an operating  *)
(* mode, and values that are stored only up to a maximal size.             *)
(***************************************************************************)

EXTENDS Naturals

CONSTANT Accounts   \* accounts of this chain

Root == "root"
NoOwner == "none"

ASSUME AccountsAssumption == {Root, NoOwner} \cap Accounts = {}

\* OperatingMode and BasicOperatingMode
BasicOperatingModes == {"Normal", "Halted"}
IsHalted(mode) == mode = "Halted"

\* RuntimeOrigin: root, or an account that signs.
Origins == {Root} \cup Accounts

\* OwnerStorage: an account, or none.
Owners == {NoOwner} \cup Accounts

\* ensure_owner_or_root
EnsureOwnerOrRoot(origin, owner) ==
    \/ origin = Root
    \/ origin \in Accounts /\ owner = origin

\* ensure_not_halted
EnsureNotHalted(mode) == ~IsHalted(mode)

\* BoundedStorageValue::try_from_inner
TryFromInner(size, maximal_size) == size <= maximal_size
=============================================================================
