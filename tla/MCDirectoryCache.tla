--------------------------- MODULE MCDirectoryCache ---------------------------
(* An instance of DirectoryCache for TLC. *)
EXTENDS DirectoryCache, TLC

\* Workers, directories, containers and entries are interchangeable; of the
\* entries, Miss takes one of those that nothing tells apart.
Interchangeable == UNION {Permutations(S) : S \in {Worker, Directory, Container, Entry}}

=============================================================================
