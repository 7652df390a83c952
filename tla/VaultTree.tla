----------------------------- MODULE VaultTree -----------------------------
(***************************************************************************)
(* The file system under a Vault root, as far as the governed writes use   *)
(* it.  A path is a sequence of names, the root is << >>; a tree gives     *)
(* each path Dir, Absent or the content of a file.  A content stands for   *)
(* its own digest.                                                         *)
(***************************************************************************)
EXTENDS Naturals, Sequences, SequencesExt

CONSTANTS
  Paths,      \* the paths below the root
  Dir,        \* what a tree holds at a directory
  Absent      \* what it holds where there is nothing

Under(p, d) == IsPrefix(d, p)
Related(p, q) == Under(p, q) \/ Under(q, p)
Rebased(p, from, to) == to \o SubSeq(p, Len(from) + 1, Len(p))
Elements(s) == {s[i] : i \in DOMAIN s}
Names == UNION {Elements(p) : p \in Paths}

ASSUME PathsAssumption ==
  /\ \A p \in Paths : p \in Seq(Names) \ {<< >>}
  /\ \A p \in Paths : \A n \in 1..Len(p) : SubSeq(p, 1, n) \in Paths
  /\ Dir # Absent

IsDir(t, p)     == p \in {<< >>} \union {d \in Paths : t[d] = Dir}
IsFile(t, p)    == t[p] \notin {Dir, Absent}
Exists(t, p)    == t[p] # Absent
Children(t, d)  == {p \in Paths : p # d /\ Under(p, d) /\ Exists(t, p)}
Ancestors(p)    == {d \in Paths : d # p /\ Under(p, d)}
Reachable(t, p) == \A d \in Ancestors(p) : ~IsFile(t, d)

(* What is there is in directories.                                        *)
Coherent(t) == \A p \in Paths : Exists(t, p) => \A d \in Ancestors(p) : t[d] = Dir

(* file_sha256(path) if path.is_file() else None *)
Digest(t, p) == IF IsFile(t, p) THEN t[p] ELSE Absent
FilesOf(t)   == [p \in Paths |-> Digest(t, p)]

(* mkdir(parents=True, exist_ok=True) of the directory that holds p *)
MissingParents(t, p) == {d \in Ancestors(p) : t[d] = Absent}
WithParents(t, p) == [q \in Paths |-> IF q \in MissingParents(t, p) THEN Dir ELSE t[q]]

(* os.rename on POSIX: a file replaces a file, a directory an empty one. *)
CanRename(t, from, to) ==
  /\ Exists(t, from)
  /\ IsDir(t, Front(to))
  /\ IF t[from] = Dir THEN t[to] = Absent \/ (t[to] = Dir /\ Children(t, to) = {})
                      ELSE t[to] # Dir
Renamed(t, from, to) ==
  [p \in Paths |->
     LET origin == Rebased(p, to, from)
     IN  IF Under(p, to) THEN IF origin \in Paths THEN t[origin] ELSE Absent
         ELSE IF Under(p, from) THEN Absent ELSE t[p]]

(* atomic_write_bytes: the parents are made, then a temporary file replaces p *)
CanWrite(t, p) == Reachable(t, p) /\ t[p] # Dir
Written(t, p, content) == [WithParents(t, p) EXCEPT ![p] = content]

CanUnlink(t, p) == t[p] # Dir
CanRmdir(t, d)  == t[d] = Dir /\ Children(t, d) = {}
CanMkdir(t, d)  == Reachable(t, d) /\ ~IsFile(t, d)
=============================================================================
