---------------------------- MODULE MCImportacao ----------------------------
(* Instances of Importacao for TLC.  No symmetry: the main one has liveness. *)
EXTENDS Importacao
=============================================================================
