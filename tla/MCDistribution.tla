--------------------------- MODULE MCDistribution ---------------------------
(* Version 1 has SKILL.md and the asset a, version 2 SKILL.md and b.  The  *)
(* disks to start from: nothing but a hint file of the user; aligned with  *)
(* version 1; files of an older installation without a ledger.             *)
EXTENDS Distribution, TLC

CONSTANTS p1, p2

MCPackaged == <<{"SKILL", "a"}, {"SKILL", "b"}>>
MCRank == "SKILL" :> 1 @@ "a" :> 2 @@ "b" :> 3 @@ "hint" :> 4
Disk(skill, a, hint, ledger) ==
  "SKILL" :> skill @@ "a" :> a @@ "b" :> None @@ "hint" :> hint @@ Ledger :> ledger
MCStarts ==
  {Disk(None, None, Text(0, 1), None),
   Disk(Text(1, 0), Text(1, 0), Text(1, 1), Owning({"SKILL", "a", "hint"})),
   Disk(Text(1, 0), Text(1, 0), Text(1, 0), None)}
MCSaves ==
  {<<"SKILL", Text(0, 2)>>, <<"b", Text(0, 1)>>, <<"hint", Text(0, 2)>>,
   <<"hint", Text(Broken, 1)>>, <<"a", None>>, <<Ledger, Unreadable>>}
=============================================================================
