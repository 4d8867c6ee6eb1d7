----------------------------- MODULE MCDemosaic -----------------------------
(* Instances of Demosaic for TLC: every filter, odd and even sizes, from   *)
(* one inner row on.                                                       *)
EXTENDS Demosaic

CONSTANTS Sizes

AnyImage ==
  [program : {"dcraw", "libraw"}, width : Sizes, height : Sizes, filter : BayerFilters]

=============================================================================
