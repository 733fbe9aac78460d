------------------------- MODULE MCChannelDelivery -------------------------
(* A small instance of ChannelDelivery: a receiver whose two SubscribeData *)
(* calls overlap, and one that never calls.                                *)
EXTENDS ChannelDelivery

CONSTANTS snd, rcv, rcv2

OneCalls == [h \in Streams |-> rcv]

\* packets for both receivers, and packets for the one that never calls
BroadcastOrOne == {{}, {rcv2}}
=============================================================================
