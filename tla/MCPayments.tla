----------------------------- MODULE MCPayments -----------------------------
(***************************************************************************)
(* Payments on a small fleet: two instances, two copies of one order, the  *)
(* relay having published it twice, and one of another.                    *)
(***************************************************************************)
EXTENDS Payments, TLC

CONSTANTS o1, o2, c1, c2, c3, w1, w2

MCOrderOf == c1 :> o1 @@ c2 :> o1 @@ c3 :> o2
=============================================================================
