---------------------------- MODULE MCViewPromotion ----------------------------
(* Two promoters and a sweeper on one view. *)
EXTENDS ViewPromotion

CONSTANTS a, b, sw, x, y

TwoPromoters == {a, b}
OnePromoter == {a}
OneSweeper == {sw}
OneSnapshot == {x}
TwoSnapshots == {x, y}
PromoterSymmetry == Permutations(TwoPromoters)
================================================================================
