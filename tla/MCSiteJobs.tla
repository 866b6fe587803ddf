----------------------------- MODULE MCSiteJobs -----------------------------
(* Small instances of SiteJobs for TLC.                                      *)
EXTENDS SiteJobs, TLC

CONSTANTS h1, h2, s1, s2, j1, j2, j3, d1

TwoHandlers == {h1, h2}
TwoSites    == {s1, s2}
ThreeJobs   == {j1, j2, j3}
OneDomain   == {d1}

\* Ids and requests are interchangeable; safety runs only.
Symmetry == Permutations(Handlers) \cup Permutations(Sites)
              \cup Permutations(Jobs) \cup Permutations(Domains)
=============================================================================
