----------------------------- MODULE MCDBCurator -----------------------------
(* Small instances of the database curator. *)
EXTENDS DBCurator, TLC

CONSTANTS p1, p2, d1, d2, d3

\* Binaries of one release, whose schema version is ahead of the database's.
SameClient == [p \in Procs |-> 3]

\* An older and a newer release sharing the cache.
MixedClients == [p \in Procs |-> IF p = p1 THEN 1 ELSE 2]

SymDirs == Permutations(Dirs)

=============================================================================
