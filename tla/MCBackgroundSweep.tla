--------------------------- MODULE MCBackgroundSweep ---------------------------
(* Small instances of BackgroundSweep for TLC.                                *)
EXTENDS BackgroundSweep

NothingMissing == {}
AsBuilt == {"free_specials", "is_empty"}
===============================================================================
