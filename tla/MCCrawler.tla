------------------------------- MODULE MCCrawler -------------------------------
(***************************************************************************)
(* Small instances of Crawler for TLC.                                     *)
(***************************************************************************)
EXTENDS Crawler

CONSTANTS w1, w2, j1, j2, a

\* Both jobs are of one domain, so that one job's 429 meets the other job.
MCDomainOf == [j \in Jobs |-> a]

=============================================================================
