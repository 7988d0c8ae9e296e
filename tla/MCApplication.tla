---------------------------- MODULE MCApplication ----------------------------
(***************************************************************************)
(* A small instance of the application: two rows in a view, and the first  *)
(* levels of the tree that populate_model() (src/usage-storage-view.vala)  *)
(* makes.                                                                  *)
(***************************************************************************)
EXTENDS UsageApplication

\* The computer; the videos and one folder of them.
SmallTree == {<<0>>, <<0, 4>>, <<0, 4, 0>>}

\* An x86 build.
LeastInt == - INT_MAX - 1

Symmetric == Permutations(Pid)

=============================================================================
