--------------------------- MODULE MCOracleUpdater ---------------------------
(***************************************************************************)
(* Instances of the updater: a price it may publish, a negative one, and   *)
(* one that does not fit 128 bits.                                         *)
(***************************************************************************)
EXTENDS OracleUpdater

PriceWords == {-1, 7, 8}
=============================================================================
