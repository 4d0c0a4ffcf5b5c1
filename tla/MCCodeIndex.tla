------------------------------ MODULE MCCodeIndex ------------------------------
(* Two repositories with a file of the same path, one of them with a second  *)
(* file; three contents: two functions too small to stand alone, the same    *)
(* two moved down a line, a class with two methods.                          *)
EXTENDS CodeIndex

CONSTANTS w1, w2, script, ours, theirs, main, util, v1, v2, v3

MCWorkers == {w1, w2}
MCRepos == {ours, theirs}
MCPaths == {main, util}
MCContents == {v1, v2, v3}

Node(first, last, chars, name) == [first |-> first, last |-> last, chars |-> chars, name |-> name]
MCNodesOf ==
  (v1 :> {Node(1, 2, 2, "f"), Node(4, 5, 2, "g")}) @@
  (v2 :> {Node(1, 2, 2, "f"), Node(5, 6, 2, "g"), Node(8, 8, 1, "h")}) @@
  (v3 :> {Node(1, 9, 6, "c"), Node(2, 3, 2, "f"), Node(3, 3, 1, "inner"), Node(5, 6, 4, "g")})

Change(repo, path, content) == [file |-> << repo, path >>, content |-> content]
MCMessages ==
  { << >>,
    << Change(ours, main, v1), Change(ours, util, v3) >>,
    << Change(ours, main, v2), Change(ours, util, None) >>,
    << Change(theirs, main, v1) >> }
MCClones == { << Change(ours, main, v3) >> }
WorkerSymmetry == Permutations(MCWorkers)
=============================================================================
