---------------------------- MODULE MCPackageList ----------------------------
(* Small instances of PackageList for TLC.                                  *)
EXTENDS PackageList, TLC

CONSTANTS p1, p2, d1, d2, d3, c1, c2

ObjectSymmetry ==
  UNION {Permutations(S) : S \in {Packages, Downloads, Clients}}
==============================================================================
