--------------------------- MODULE MCReviewPipeline ---------------------------
(* Instances of ReviewPipeline for TLC: a test file and, after it in the pull *)
(* request, a file of two pieces and a small file.  Sizes are in units of 250  *)
(* characters; a batch holds up to three pieces, and there are at most two.   *)
EXTENDS ReviewPipeline, TLC

CONSTANTS testPiece, bigPiece1, bigPiece2, smallPiece, testFile, bigFile, smallFile

MCTargets == << testPiece, bigPiece1, bigPiece2, smallPiece >>
MCFileOf ==
  testPiece :> testFile @@ bigPiece1 :> bigFile @@ bigPiece2 :> bigFile @@
  smallPiece :> smallFile

Finding(place, severity) ==
  [place |-> place, file |-> bigFile, severity |-> severity, confidence |-> 1,
   evidence |-> TRUE, text |-> "why"]

MCFindings ==
  { Finding(place, severity) : place \in {"here", "there"},
                               severity \in {"critical", "major", "minor"} }

MCAnswers ==
  { << Finding("here", "critical") >>,
    << Finding("there", "minor"), Finding("here", "major"), Finding("there", "major") >> }
=============================================================================
