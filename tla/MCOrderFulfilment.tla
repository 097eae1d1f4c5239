-------------------------- MODULE MCOrderFulfilment --------------------------
(***************************************************************************)
(* One order that goes through and, in the larger run, one over the limit. *)
(***************************************************************************)
EXTENDS OrderFulfilment, TLC

CONSTANTS o1, o2, w1, widget

MCSKUOf      == [o \in Orders |-> widget]
MCQuantityOf == [o \in Orders |-> 1]
MCShelf      == widget :> 1
=============================================================================
