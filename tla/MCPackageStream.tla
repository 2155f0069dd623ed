-------------------------- MODULE MCPackageStream ---------------------------
(* Small instances of PackageStream for TLC: connections c1 and c2 come one    *)
(* after the other or at the same time.                                     *)
EXTENDS PackageStream

CONSTANTS c1, c2
=============================================================================
