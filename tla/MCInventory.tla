---------------------------- MODULE MCInventory -----------------------------
(***************************************************************************)
(* Two orders for one SKU of which there is enough for either and not for  *)
(* both, and a second copy of the first.                                   *)
(***************************************************************************)
EXTENDS Inventory, TLC

CONSTANTS o1, o2, c1, c2, c3, widget

MCSKUOf      == o1 :> widget @@ o2 :> widget
MCQuantityOf == o1 :> 1 @@ o2 :> 2
MCOrderOf    == c1 :> o1 @@ c2 :> o1 @@ c3 :> o2
MCShelf      == widget :> 2
=============================================================================
