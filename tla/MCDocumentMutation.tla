------------------------- MODULE MCDocumentMutation -------------------------
(* x may move to y, and z may or may not refer to it.                      *)
EXTENDS DocumentMutation, TLC

CONSTANTS x, y, z, w, p1, p2

Text(S) == [links |-> S, moc |-> FALSE]

MCDocs  == {x, y, z, w}
MCTexts == [links : SUBSET MCDocs, moc : BOOLEAN]

Unreferred == [d \in {x, z} |-> [text |-> Text({}), stamp |-> 0]]

MoveX   == {[source |-> x, target |-> y]}
ApplyZ  == {[doc |-> z, text |-> Text({x})]}
RetypeZ == {[source |-> z, target |-> w, text |-> Text({x})]}
SavesOfZ == {[doc |-> z, text |-> Text({x})], [doc |-> z, text |-> Text({})],
             [doc |-> z, text |-> [links |-> {x}, moc |-> TRUE]]}
=============================================================================
