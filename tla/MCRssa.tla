------------------------------- MODULE MCRssa -------------------------------
(* RssaQueue for TLC: one or two client threads beside the main thread.     *)
EXTENDS RssaQueue

CONSTANTS C1, C2

MCClient == {C1}
MCClients == {C1, C2}
=============================================================================
