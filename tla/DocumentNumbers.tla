--------------------------- MODULE DocumentNumbers ---------------------------
(***************************************************************************)
(* app/services/document_numbers.py: numbers PREFIX-YEAR-NNNN are handed   *)
(* out by reading the ones in use, never from a sequence.  A number is     *)
(* its NNNN, of one prefix and one year.                                   *)
(***************************************************************************)
EXTENDS Naturals, FiniteSetsExt

\* Mutant: the numbers in use are counted, not compared.
NextByCount(used) == Cardinality(used)

\* generate_sequential_document_number: one past the largest in use, which is
\* never in use itself, so that its loop ends at the first candidate.
NextNumber(used) == Max(used \cup {0}) + 1
=============================================================================
