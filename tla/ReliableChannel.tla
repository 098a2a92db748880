-------------------------- MODULE ReliableChannel --------------------------
(***************************************************************************)
(* What a lane promises to its users, without chains, proofs or queues: a  *)
(* channel that delivers every message once and in order, and that tells   *)
(* the sender, in the same order, what became of each delivery.            *)
(***************************************************************************)
EXTENDS Integers, Sequences

VARIABLES
    sent,          \* number of messages sent
    deliveries,    \* the deliveries made, in order
    acknowledged   \* the deliveries the sender has been told about

channelVars == <<sent, deliveries, acknowledged>>

ChannelInit ==
    /\ sent = 0
    /\ deliveries = <<>>
    /\ acknowledged = <<>>

Send ==
    /\ sent' = sent + 1
    /\ UNCHANGED <<deliveries, acknowledged>>

\* Some messages are delivered, after those already delivered; delivery i is
\* that of message i.
Deliver ==
    /\ Len(deliveries') \in (Len(deliveries) + 1)..sent
    /\ SubSeq(deliveries', 1, Len(deliveries)) = deliveries
    /\ \A i \in (Len(deliveries) + 1)..Len(deliveries') : deliveries'[i].nonce = i
    /\ UNCHANGED <<sent, acknowledged>>

\* The sender learns of some more deliveries, exactly as they were made.
Acknowledge ==
    /\ Len(acknowledged') \in (Len(acknowledged) + 1)..Len(deliveries)
    /\ acknowledged' = SubSeq(deliveries, 1, Len(acknowledged'))
    /\ UNCHANGED <<sent, deliveries>>

ChannelNext == Send \/ Deliver \/ Acknowledge

ChannelSpec == ChannelInit /\ [][ChannelNext]_channelVars

=============================================================================
