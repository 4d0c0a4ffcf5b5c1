---------------------------- MODULE MCApiSpecSync ----------------------------
(* Instances of ApiSpecSync for TLC: databases with no row, with two, and with *)
(* two rows for one endpoint.                                                  *)
EXTENDS ApiSpecSync, TLC

CONSTANTS r1, r2, repoA, repoB, db

MCRuns == {r1, r2}
MCRepos == {repoA, repoB}
Row(endpoint, summary) == [endpoint |-> endpoint, summary |-> summary]
MCTables == { << >>, << Row(1, 1), Row(2, 1) >>, << Row(1, 1), Row(1, 2) >> }
=============================================================================
