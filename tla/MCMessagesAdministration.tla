---------------------- MODULE MCMessagesAdministration ----------------------
(* The payloads of MCMessageDispatch, delivered to an administered pallet. *)
EXTENDS MCMessageDispatch, MessagesAdministration

CONSTANT admin
=============================================================================
