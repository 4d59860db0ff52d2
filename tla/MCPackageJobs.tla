---------------------------- MODULE MCPackageJobs ----------------------------
(* An instance of PackageJobs: a link to an archive, and one to be added.   *)
EXTENDS PackageJobs

CONSTANTS d1, d2, w1, w2, k1, k2, e1, e2

OneLink == <<d1>>
RarAndTar == [d \in Downloads |-> IF d = d1 THEN "rar" ELSE "tar"]
OneAtATime == {[precheck |-> TRUE, extractor |-> FALSE],
               [precheck |-> FALSE, extractor |-> TRUE]}
==============================================================================
