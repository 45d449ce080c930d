--------------------------- MODULE MCLunaTransfer ---------------------------
(***************************************************************************)
(* Small instances of LunaTransfer for TLC: a person's grant and a link.    *)
(***************************************************************************)
EXTENDS LunaTransfer

CONSTANTS member, link

TwoShares == {member, link}
=============================================================================
