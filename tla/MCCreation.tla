----------------------------- MODULE MCCreation -----------------------------
(* Two threads; two names of one database, a name in memory and one that     *)
(* only looks like it, and output files one of which another client may name *)
(* as its database.                                                          *)
EXTENDS Creation

MCPaths == {"a.db", "./a.db", "out.ndjson", ":memory:", "file::memory:"}
MCInMemory == {":memory:"}
MCFiles == MCPaths \ {"./a.db"}
MCNormal(p) == IF p = "./a.db" THEN "a.db" ELSE p
MCSinkPaths == {"out.ndjson", "a.db"}
MCClaims == Threads \X {"local", "client", "sink"}
=============================================================================
