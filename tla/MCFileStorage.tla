---------------------------- MODULE MCFileStorage ----------------------------
(* Small instances of FileStorage for TLC.                                  *)
EXTENDS FileStorage, TLC

(* All the devices of an instance have one type, hence one directory.       *)
OneDirectory == [f \in Files |-> "disk"]

Symmetric == Permutations(Procs)
==============================================================================
