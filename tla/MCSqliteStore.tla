--------------------------- MODULE MCSqliteStore ---------------------------
(* Three events and fetches of two: a full window that leaves a row behind, *)
(* and transactions of several statements.                                  *)
EXTENDS SqliteStore

MCEvents == 1..3
=============================================================================
