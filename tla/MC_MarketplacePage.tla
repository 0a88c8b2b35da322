------------------------ MODULE MC_MarketplacePage ------------------------
(***************************************************************************)
(* MarketplacePage for TLC: two skills, two gateways in the order g1 g2, *)
(* any initial install state, g1 listed.  The gateways query            *)
(* answers once more, with a changed list: g2 added, g1 replaced by g2,  *)
(* no gateway, or g1 with changed fields.                                 *)
(***************************************************************************)
EXTENDS MarketplacePage, TLC

MCSymmetry == Permutations(Skills)
CONSTANTS g1, g2  \* the gateways, as model values

MCGatewayOrder == <<g1, g2>>
=============================================================================
