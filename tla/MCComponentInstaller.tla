----------------------- MODULE MCComponentInstaller -----------------------
(* Instances of ComponentInstaller for TLC: a component of three files, the *)
(* size of the largest bundle (route-guard), or of two.                     *)
EXTENDS ComponentInstaller
===========================================================================
