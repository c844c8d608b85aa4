---------------------------- MODULE StockLedger -----------------------------
(***************************************************************************)
(* What the stores module promises of its batches, every posting and issue *)
(* in one indivisible step: the stock a batch holds is what came in less   *)
(* what went out, to within the rounding of each issue, and nothing goes   *)
(* out that is not there.                                                  *)
(***************************************************************************)
EXTENDS Naturals

CONSTANT Lots
VARIABLES in, out, held    \* [Lots -> Nat]

vars == <<in, out, held>>

Init ==
  /\ in = [b \in Lots |-> 0] /\ out = [b \in Lots |-> 0] /\ held = [b \in Lots |-> 0]

Post(b, q) ==
  /\ in' = [in EXCEPT ![b] = @ + q]
  /\ held' = [held EXCEPT ![b] = @ + q]
  /\ UNCHANGED out

\* The balance keeps a tie that the ledger's own column rounded away.
Take(b, q, kept) ==
  /\ 0 < q /\ q <= held[b]
  /\ out' = [out EXCEPT ![b] = @ + q]
  /\ held' = [held EXCEPT ![b] = (@ - q) + kept]
  /\ UNCHANGED in

Next == \E b \in Lots :
  \/ in'[b] > in[b] /\ Post(b, in'[b] - in[b])
  \/ out'[b] > out[b] /\ \E kept \in {0, 1} : Take(b, out'[b] - out[b], kept)

Spec == Init /\ [][Next]_vars
=============================================================================
