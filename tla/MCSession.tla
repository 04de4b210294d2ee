------------------------------ MODULE MCSession ------------------------------
(***************************************************************************)
(* Three packages, one of each kind that MCPackagePort finds among the     *)
(* porters: as most of them are, with several edits under one marker, and  *)
(* with an edit that repeats.                                              *)
(***************************************************************************)
EXTENDS Session_proofs

MCPkgs == <<"plain", "marked", "repeating">>
MCRepairable == {"plain"}
MCIdempotent == {"plain", "marked"}
UnspacedArguments == ArgumentKinds \ {"spaced"}
=============================================================================
