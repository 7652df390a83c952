-------------------------------- MODULE MCVideo --------------------------------
(* A film of two segments; saved anew it has three, or none.  A new device *)
(* with nothing, and one where the material is there already.              *)
EXTENDS Video, TLC

CONSTANTS p1, p2, own

MCHeard == 0 :> 2 @@ 1 :> 3 @@ 2 :> 0
Transcript(source, n) ==
  [source |-> source, kind |-> "transcript", ids |-> [i \in 1..n |-> i - 1], omitted |-> {}, text |-> 0]
MCDrafts ==
  {Transcript(0, 2), Transcript(0, 3), Transcript(1, 3),
   [source |-> 0, kind |-> "article", ids |-> <<1>>, omitted |-> {0}, text |-> 0]}
Nothing == [d \in Bundles |-> None]
MCStarts ==
  {[missing |-> TRUE, model |-> None, bundles |-> Nothing],
   [missing |-> FALSE, model |-> "whole",
    bundles |-> [Nothing EXCEPT ![0] = [source |-> 0, of |-> 0, words |-> None]]]}
Symmetry == Permutations({p1, p2})
=============================================================================
