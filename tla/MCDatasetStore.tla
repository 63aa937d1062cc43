--------------------------- MODULE MCDatasetStore ---------------------------
(***************************************************************************)
(* Instances of DatasetStore: the processes are interchangeable.  Three    *)
(* saves with a failure and a crash; two under any file names, with every  *)
(* kind of trouble; three under any file names, with none.                 *)
(***************************************************************************)
EXTENDS DatasetStore, TLC

MCBounds ==
    {[saves |-> 3, renamed |-> 0, loads |-> 2, failures |-> 1, stuck |-> 0, crashes |-> 1],
     [saves |-> 2, renamed |-> 2, loads |-> 2, failures |-> 1, stuck |-> 1, crashes |-> 1],
     [saves |-> 3, renamed |-> 3, loads |-> 1, failures |-> 0, stuck |-> 0, crashes |-> 0]}

Symmetry == Permutations(Processes)
=============================================================================
