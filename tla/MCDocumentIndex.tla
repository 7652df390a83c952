-------------------------- MODULE MCDocumentIndex --------------------------
(* Two documents; b may refer to a.                                        *)
EXTENDS DocumentIndex, TLC

CONSTANTS a, b, p1, p2

ProcSymmetry == Permutations(Procs)

MCDocs  == {a, b}
Plain   == [links |-> {}, moc |-> FALSE]
LinksA  == [links |-> {a}, moc |-> FALSE]

TwoTexts  == {Plain, LinksA}

BothFiles == [d \in {a, b} |-> [text |-> IF d = b THEN LinksA ELSE Plain, stamp |-> 0]]
=============================================================================
