------------------------------ MODULE MCUpkeep ------------------------------
(* One Domain with two notes, one of them not yet there, its MOC, a Base   *)
(* that differs from the package's, and a child Domain that may appear.    *)
EXTENDS Upkeep, TLC

CONSTANTS p1, p2

File(text) == [text |-> text, region |-> None]
MCStart ==
  "note" :> File(1) @@ "new" :> None @@ "marker" :> File(1) @@ "child" :> None @@ "base" :> File(1)
  @@ "moc" :> [text |-> 1, region |-> Generated({}, <<>>)]
MCIncoming == {"note" :> 3 @@ "base" :> 3}
Symmetry == Permutations({p1, p2})
=============================================================================
