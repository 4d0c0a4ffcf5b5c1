----------------------------- MODULE MCFilePieces -----------------------------
(* Instances of FilePieces for TLC: a file of six lines with no functions, or *)
(* a class with two methods, one of them decorated, and a line after it.      *)
(* Lengths are in characters, with limits of the size of a few lines.  Bytes  *)
(* are as scaled down as the radius of a window: the bytes of the first       *)
(* method have the numbers of the lines around the last.                      *)
EXTENDS FilePieces, TLC

Node(top, first, last, from, to) ==
  [top |-> top, first |-> first, last |-> last, bytes |-> << from, to >>]
MCTrees == { {}, {Node(1, 1, 5, 0, 16), Node(2, 2, 2, 5, 6), Node(3, 4, 5, 9, 15)} }

\* Nothing, or a boundary and a rest that looks like a line of the file.
MCRests == { << >>, << [kind |-> "keep", chars |-> 39, rest |-> << >>] >> }
=============================================================================
