------------------------------ MODULE Selections ------------------------------
(***************************************************************************)
(* Lists as a list comprehension makes them: the selection of elements of  *)
(* a list, the lists of a list one after the other, and the sum of a list. *)
(* All are folds, so that they can be proved about.                        *)
(***************************************************************************)
EXTENDS Integers, SequencesExt

\* The elements of seq that are in S, in their order.
Select(seq, S) ==
  FoldLeft(LAMBDA chosen, x : IF x \in S THEN Append(chosen, x) ELSE chosen, << >>, seq)

\* The elements of the lists of seqs, in their order.
Joined(seqs) == FoldLeft(LAMBDA joined, seq : joined \o seq, << >>, seqs)

\* The sum of a list of numbers.
Total(numbers) == FoldLeft(LAMBDA sum, n : sum + n, 0, numbers)
=============================================================================
