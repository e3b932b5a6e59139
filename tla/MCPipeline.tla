------------------------------- MODULE MCPipeline -------------------------------
(***************************************************************************)
(* Small instances of Pipeline for TLC: the targets of one mission, all of *)
(* one domain, with different URLs.                                        *)
(***************************************************************************)
EXTENDS Pipeline, TLC

CONSTANTS c1, c2, p1, p2, v1, s1, j1, j2, m1, a

MCMissionOf == [j \in Jobs |-> m1]
MCUrlOf == [j \in Jobs |-> j]
MCDomainOf == [j \in Jobs |-> a]

\* All contents begin alike, so that a new content of a target is a duplicate.
MCHeadOf == [c \in Contents |-> "head"]

\* The jobs are interchangeable, and so are the workers of a stage; MCUrlOf maps
\* a job to itself, which a permutation of the jobs commutes with.
MCSymmetry == Permutations(Jobs) \cup Permutations(Processors)

=============================================================================
