----------------------- MODULE MCChannelNegotiation -----------------------
(* ChannelNegotiation for TLC: the connectors are given in the configuration. *)
EXTENDS ChannelNegotiation
===========================================================================
