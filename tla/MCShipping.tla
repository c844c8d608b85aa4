----------------------------- MODULE MCShipping -----------------------------
(***************************************************************************)
(* A small instance of Shipping for TLC.  A behaviour plays one of two     *)
(* scenes: one dispatch order carried to its release, or two that are      *)
(* created and compete for document numbers.  Two orders share no row      *)
(* but the numbers.                                                        *)
(***************************************************************************)
EXTENDS Shipping, TLC

CONSTANTS d1

VARIABLE scene

AllSales == [d \in Dispatches |-> d1]
AllSalesOfProd == [p \in Prods |-> d1]

InScene(r) ==
  \/ scene = "release" /\ r.order \in {d1, None}
  \/ scene = "numbers" /\ r.act \in {"create_dispatch_order", "generate_document", None} /\ r.kind \in {"PL", None}

SceneInit == ShippingInit /\ scene \in {"release", "numbers"}

SceneNext ==
  /\ ShippingNext
  /\ UNCHANGED scene
  /\ \A s \in Sessions : InScene(req'[s])
  /\ scene = "numbers" => UNCHANGED qreq

SceneSpec == SceneInit /\ [][SceneNext]_<<allVars, scene>>

Interchangeable == Permutations(Sessions) \cup Permutations(Lines)
=============================================================================
