------------------------ MODULE MCChannelPermission ------------------------
(* A channel of a local sender, a local receiver and two connectors of     *)
(* another kernel; a third local connector is a stranger.                  *)
EXTENDS ChannelPermission

CONSTANTS cSend, cRecv, cNew, rSend, rRecv

MCFounderSenders == <<Local(cSend), <<Remote, rSend>> >>
MCFounderReceivers == <<Local(cRecv), <<Remote, rRecv>> >>
MCTargets == {Local(cRecv), Local(cNew), <<KernelID, cNew>>, Local(rSend)}
=============================================================================
