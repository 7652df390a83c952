--------------------------- MODULE MCRestructure ---------------------------
(* a may move to t; r refers to a or to nothing; u is a new document.      *)
EXTENDS Restructure, TLC

CONSTANTS a, r, t, x, y, NoRef, b1, b2, p1, p2

Text(body, ref, typed, style) == [body |-> body, ref |-> ref, typed |-> typed, style |-> style]

MCDocs     == {a, r, t}
MCScope    == {a, r}
MCPrefixed == {r, t}
MCNormal   == [d \in MCDocs |-> IF d = a THEN t ELSE d]

Op(s, to, patch, approved) ==
  [source |-> s, target |-> to, patch |-> patch, approved |-> approved]

MoveA    == {Op(a, t, FALSE, TRUE)}
PatchR   == {Op(r, r, TRUE, TRUE)}

OneBatch == [b \in {b1} |-> {MoveA}]
TwoBatches == [b \in {b1, b2} |-> IF b = b1 THEN {MoveA} ELSE {PatchR}]

MCTexts == [d \in MCDocs |->
  CASE d = a -> {Text(y, NoRef, TRUE, "lf")}
    [] d = r -> {Text(x, a, TRUE, "crlf"), Text(x, NoRef, TRUE, "crlf")}
    [] d = t -> {Text(y, a, TRUE, "lf")}]
NoTexts == [d \in MCDocs |-> {}]

Vault(refOfR, style) ==
  [d \in {a, r} |-> IF d = a THEN Text(x, NoRef, TRUE, style)
                             ELSE Text(x, refOfR, FALSE, "crlf")]
ReferringVault == {Vault(a, "lf")}

Symmetry == Permutations({p1, p2})
=============================================================================
