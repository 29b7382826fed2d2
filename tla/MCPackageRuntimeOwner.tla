------------------------ MODULE MCPackageRuntimeOwner ------------------------
(* PackageRuntimeOwner for TLC: the configurations give the constants. *)
EXTENDS PackageRuntimeOwner
=============================================================================
