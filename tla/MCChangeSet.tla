---------------------------- MODULE MCChangeSet ----------------------------
(***************************************************************************)
(* A Vault with a directory A of two notes, and change sets of the kinds   *)
(* the services build: a note moved into a new directory with its title    *)
(* and a reference rewritten, a directory emptied and removed, a directory *)
(* moved, a note written in a new directory, a note updated in place.      *)
(***************************************************************************)
EXTENDS ChangeSet, TLC

CONSTANTS w1, w2, old, text1, text2, typed

A == <<"A">>   Ax == <<"A", "x">>   Ay == <<"A", "y">>
B == <<"B">>   Bx == <<"B", "x">>   By == <<"B", "y">>

MCPaths == {A, Ax, Ay, B, Bx, By}
MCContents == {old, text1, text2, typed}

Tree(a, b) == [p \in MCPaths |-> IF p = A THEN Dir ELSE IF p = Ax THEN a
                                 ELSE IF p = Ay THEN b ELSE Absent]
MCTrees == {Tree(old, old)}

Move(from, to) == [source |-> from, target |-> to]
Write(p, content) == [path |-> p, content |-> content]

Relocate == [moves |-> <<Move(Ax, Bx)>>, writes |-> <<Write(Bx, text1), Write(Ay, text1)>>,
             deletes |-> << >>, rmdirs |-> << >>, expect |-> {Ax, Ay, Bx}]
Merge    == [moves |-> <<Move(Ax, Bx)>>, writes |-> << >>,
             deletes |-> <<Ay>>, rmdirs |-> <<A>>, expect |-> {Ax, Ay, Bx}]
MoveDir  == [moves |-> <<Move(A, B)>>, writes |-> <<Write(By, text1)>>,
             deletes |-> << >>, rmdirs |-> << >>, expect |-> {Ay}]
Update   == [moves |-> << >>, writes |-> <<Write(Ay, text2)>>,
             deletes |-> << >>, rmdirs |-> << >>, expect |-> {Ay}]
Create   == [moves |-> << >>, writes |-> <<Write(By, text2), Write(Ay, text2)>>,
             deletes |-> << >>, rmdirs |-> << >>, expect |-> {Ay, By}]

MCChangeSets == (w1 :> {Relocate, Merge, MoveDir}) @@ (w2 :> {Update, Create})
=============================================================================
