----------------------------- MODULE MCFileSink -----------------------------
(* FileSink on small instances; the bounds are in the configurations.        *)
EXTENDS FileSink
=============================================================================
