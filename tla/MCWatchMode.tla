---------------------------- MODULE MCWatchMode ----------------------------
(* A project of two files that its config includes, one of which imports a *)
(* file of another directory.                                              *)
EXTENDS WatchMode, TLC

CONSTANTS a, b, lib, src, ext

TheFiles == {a, b, lib}
TheImports == a :> {lib} @@ b :> {} @@ lib :> {}
TheDirs == a :> src @@ b :> src @@ Config :> src @@ lib :> ext
=============================================================================
