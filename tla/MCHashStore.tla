---------------------------- MODULE MCHashStore ----------------------------
(* A small instance of HashStore: two buckets of three entries, and numbers of
   keys below three.  Two corpora of as many keys, one of them with the key 0.
   Of the first machine, which is to hash all, two files match the one corpus,
   one the other; the files of the second are too small or too large and would
   match.  One download is not what its manifest describes; of one that is, the
   manifest names the wrong corpus; and one is of another format. *)
EXTENDS HashStore, TLC

CONSTANTS none, torn

F(k, s) == [key |-> k, size |-> s]
MCMachines ==
    {[files |-> <<F(5, "usual"), F(0, "usual"), F(2, "huge")>>, hashAll |-> TRUE],
     [files |-> <<F(2, "tiny"), F(2, "huge")>>, hashAll |-> FALSE]}
MCCorpora == {{0, 2}, {3, 5}}
Older == [table |-> none, entries |-> <<1>>]
Download(f, s, c) == [file |-> f, signed |-> s, pair |-> TRUE, corpus |-> c]
MCDownloads ==
    {Download(Index({0, 2}), Index({3, 5}), {3, 5}),
     Download(Index({0, 2}), Index({0, 2}), {3, 5}),
     Download(Older, Older, {0, 2})}

Symmetry == Permutations(Writers)
=============================================================================
