----------------------------- MODULE MCScreening -----------------------------
(* Instances of the screening: tabs of one person, with requests that may  *)
(* go on after their connection is lost.                                   *)
EXTENDS Screening, TLC

OnePerson == [t \in Tab |-> CHOOSE org \in Org : TRUE]
Interchangeable == Permutations(Tab) \cup Permutations(Destination)
=============================================================================
