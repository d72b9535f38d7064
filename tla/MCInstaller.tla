---------------------------- MODULE MCInstaller -----------------------------
(***************************************************************************)
(* Installer for TLC: two processes, of which each installs a version of    *)
(* its own, and both uninstall, until MaxOps operations have begun.         *)
(***************************************************************************)
EXTENDS Installer, TLC

CONSTANTS p1, p2, v1, v2

Updates == p1 :> {v1, Uninstall} @@ p2 :> {v2, Uninstall}
=============================================================================
