---------------------------- MODULE AtomicChange ----------------------------
(***************************************************************************)
(* What a file change set promises to its callers: the files change in one *)
(* step, to the result of the whole set, or they do not change.  Only a    *)
(* writer that says its compensation failed ("torn") may leave anything    *)
(* else behind.  ChangeSet is the detailed specification.                  *)
(***************************************************************************)
EXTENDS VaultTree

CONSTANTS
  Writers,      \* the governed writers
  Contents,     \* what a file may contain
  ChangeSets    \* the change sets each writer may ask for

VARIABLES
  files,        \* the content at each path, Absent where there is no file
  outcome       \* how each writer's command ended, "pending" before

avars == <<files, outcome>>

(* The content that the moves of c bring to p from f.                      *)
Moved(c, f) ==
  LET arriving(p) == {m \in Elements(c.moves) : Under(p, m.target)}
      leaving(p)  == {m \in Elements(c.moves) : Under(p, m.source)}
      origin(p)   == LET m == CHOOSE m \in arriving(p) : TRUE
                     IN  Rebased(p, m.target, m.source)
  IN  [p \in Paths |->
        IF arriving(p) # {} THEN IF origin(p) \in Paths THEN f[origin(p)] ELSE Absent
        ELSE IF leaving(p) # {} THEN Absent ELSE f[p]]

(* The files after the whole of c has been applied to f.                   *)
Result(c, f) ==
  [p \in Paths |->
     LET written == {x \in Elements(c.writes) : x.path = p}
     IN  IF p \in Elements(c.deletes) THEN Absent
         ELSE IF written # {} THEN (CHOOSE x \in written : TRUE).content
         ELSE Moved(c, f)[p]]

AInit ==
  /\ files \in [Paths -> Contents \union {Absent}]
  /\ outcome = [w \in Writers |-> "pending"]

Ends(w, how) ==
  /\ outcome[w] = "pending"
  /\ outcome' = [outcome EXCEPT ![w] = how]

Commit(w) == Ends(w, "ok") /\ \E c \in ChangeSets[w] : files' = Result(c, files)
Refuse(w) == Ends(w, "refused") /\ UNCHANGED files
Tear(w)   == Ends(w, "torn") /\ files' \in [Paths -> Contents \union {Absent}]

ANext == \E w \in Writers : Commit(w) \/ Refuse(w) \/ Tear(w)

ASpec == AInit /\ [][ANext]_avars
=============================================================================
