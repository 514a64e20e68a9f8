---------------------------- MODULE MCFileSystem ----------------------------
(***************************************************************************)
(* FileSystem on a disk of ten sectors, five of which are left for files.  *)
(***************************************************************************)
EXTENDS FileSystem

\* The names of files are interchangeable.
Symmetry == Permutations(Name)
=============================================================================
