---------------------------- MODULE MCIngestion ----------------------------
(* Small files for TLC.                                                    *)
EXTENDS Ingestion

CONSTANTS p1, p2, p3
=============================================================================
