------------------------ MODULE MCConnectionPromotion ------------------------
EXTENDS ConnectionPromotion

CONSTANTS c1, c2

(* Connections have no order of their own, so the one that side 1 adds or  *)
(* refuses first may be called c1.                                         *)
FirstIsC1 == phase[1][c2] # "new" => phase[1][c1] # "new"
==============================================================================
