-------------------------- MODULE ChangeSetProofs --------------------------
(***************************************************************************)
(* Theorems about the change-set executor (ChangeSet).                     *)
(*                                                                         *)
(* RunsAsPlanned rests on an inductive invariant: only the holder of the   *)
(* lock is inside, its snapshot holds the planned digests, and what the    *)
(* comparison found is what was planned.                                   *)
(*                                                                         *)
(* TypeCorrect and Implements rest on what the steps mean.  Paths are      *)
(* sequences of names, and each system call leaves a tree in which what is *)
(* there is in directories.  MovedTree is the tree after the first r moves *)
(* of a set; the executor's tree may differ from it by directories that    *)
(* were made on the way and by contents and directories that the journals  *)
(* hold.  Shape says so at every step of the set (RunAt) and of its        *)
(* compensation (UndoAt), each by phases; at the last step of either the   *)
(* files are those of the whole set, or those there were before.           *)
(***************************************************************************)
EXTENDS ChangeSet, SequenceTheorems, FiniteSetTheorems, WellFoundedInduction, TLAPS

LEMMA InitIInv == Init => IInv
  BY DEF Init, IInv, Functions, InsideHoldsLock, SnapshotIsPlanned, FoundIsPlanned,
         Locked, Verified

(* A writer that moves on without touching plan or lock.                   *)
LEMMA AdvanceKeepsIInv ==
  ASSUME IInv, NEW w \in Writers, NEW stage, pc' = [pc EXCEPT ![w] = stage],
         lock' = lock, UNCHANGED <<planVars, before>>,
         \/ stage \in Verified /\ pc[w] \in Verified
         \/ stage \notin {"ready"} \union Locked
  PROVE  IInv'
  BY DEF IInv, Functions, InsideHoldsLock, SnapshotIsPlanned, FoundIsPlanned,
         Locked, Verified, planVars, Digest, IsFile

(* A writer that leaves the lock.                                          *)
LEMMA LeaveKeepsIInv ==
  ASSUME IInv, NEW w \in Writers, NEW how, Leave(w, how), pc[w] \in Locked,
         how \notin {"ready"} \union Locked, UNCHANGED <<planVars, before>>
  PROVE  IInv'
  BY DEF Leave, Goto, IInv, Functions, InsideHoldsLock, SnapshotIsPlanned, FoundIsPlanned,
         Locked, Verified, planVars, Digest, IsFile

LEMMA StayKeepsIInv ==
  ASSUME IInv, UNCHANGED <<pc, lock, planVars, before>>
  PROVE  IInv'
  BY DEF IInv, Functions, InsideHoldsLock, SnapshotIsPlanned, FoundIsPlanned,
         Locked, Verified, planVars, Digest, IsFile

(* Before the lock.                                                        *)
LEMMA PlanKeepsIInv ==
  ASSUME IInv, NEW w \in Writers, Plan(w) \/ TakeSnapshot(w)
  PROVE  IInv'
  <1>1. CASE Plan(w)
    <2>1. /\ pc' = [pc EXCEPT ![w] = "planned"]
          /\ UNCHANGED <<lock, snapshot, before>>
      BY <1>1 DEF Plan, Goto, historyVars
    <2>2. PICK c, e : cs' = [cs EXCEPT ![w] = c] /\ planned' = [planned EXCEPT ![w] = e]
      BY <1>1 DEF Plan
    <2>3. QED
      BY <2>1, <2>2 DEF IInv, Functions, InsideHoldsLock, SnapshotIsPlanned,
                        FoundIsPlanned, Locked, Verified, Digest, IsFile
  <1>2. CASE TakeSnapshot(w)
    <2>1. Functions' /\ InsideHoldsLock' /\ FoundIsPlanned'
      BY <1>2 DEF TakeSnapshot, Goto, IInv, Functions, InsideHoldsLock, FoundIsPlanned,
                  Locked, Verified, historyVars, Digest, IsFile
    <2>2. SnapshotIsPlanned'
      <3>1. /\ cs' = cs /\ planned' = planned
            /\ \A v \in Writers \ {w} : pc'[v] = pc[v] /\ snapshot'[v] = snapshot[v]
        BY <1>2 DEF TakeSnapshot, Goto, IInv, Functions
      <3>2. snapshot'[w] = [p \in cs[w].expect \union AllPaths(cs[w]) |->
              IF p \in cs[w].expect THEN planned[w][p] ELSE Digest(tree, p)]
        BY <1>2 DEF TakeSnapshot, IInv, Functions
      <3>3. \A p \in cs[w].expect :
              p \in DOMAIN snapshot'[w] /\ snapshot'[w][p] = planned[w][p]
        BY <3>2
      <3>4. QED
        BY <3>1, <3>3 DEF IInv, SnapshotIsPlanned
    <2>3. QED
      BY <2>1, <2>2 DEF IInv
  <1>3. QED
    BY <1>1, <1>2

LEMMA AcquireKeepsIInv ==
  ASSUME IInv, NEW w \in Writers, Acquire(w)
  PROVE  IInv'
  <1>1. CASE lock = NoLock \/ pc[lock] = "killed"
    <2>1. \A v \in Writers \ {w} : pc[v] \notin Locked
      BY <1>1, NoLockAssumption DEF IInv, InsideHoldsLock, Locked
    <2>2. QED
      BY <1>1, <2>1
      DEF Acquire, Goto, IInv, Functions, InsideHoldsLock, SnapshotIsPlanned, FoundIsPlanned,
          Locked, Verified, planVars, historyVars, Digest, IsFile
  <1>2. CASE ~(lock = NoLock \/ pc[lock] = "killed")
    <2>1. pc' = [pc EXCEPT ![w] = "refused"] /\ lock' = lock /\ UNCHANGED <<planVars, before>>
      BY <1>2 DEF Acquire, Goto, historyVars
    <2>2. QED
      BY <2>1, AdvanceKeepsIInv DEF Locked, Verified
  <1>3. QED
    BY <1>1, <1>2

(* The comparison under the lock: the only place that records what is      *)
(* found, when nobody else is inside.                                      *)
LEMMA CompareKeepsIInv ==
  ASSUME IInv, NEW w \in Writers, Compare(w)
  PROVE  IInv'
  <1>1. pc[w] = "locked"
    BY DEF Compare
  <1>2. CASE \A p \in DOMAIN snapshot[w] : Digest(tree, p) = snapshot[w][p]
    <2>1. \A v \in Writers \ {w} : pc[v] \notin Locked
      BY <1>1 DEF IInv, InsideHoldsLock, Locked
    <2>2. \A p \in cs[w].expect : Digest(tree, p) = planned[w][p]
      BY <1>1, <1>2 DEF IInv, SnapshotIsPlanned, Locked
    <2>3. /\ pc' = [pc EXCEPT ![w] = "verified"] /\ lock' = lock
          /\ UNCHANGED planVars /\ before' = tree
      BY <1>2 DEF Compare, Goto
    <2>4. FoundIsPlanned'
      BY <2>1, <2>2, <2>3
      DEF IInv, Functions, FoundIsPlanned, Locked, Verified, planVars, Digest, IsFile
    <2>5. QED
      BY <1>1, <2>3, <2>4
      DEF IInv, Functions, InsideHoldsLock, SnapshotIsPlanned, Locked, planVars
  <1>3. CASE ~(\A p \in DOMAIN snapshot[w] : Digest(tree, p) = snapshot[w][p])
    BY <1>1, <1>3, LeaveKeepsIInv DEF Compare, Locked
  <1>4. QED
    BY <1>2, <1>3

(* The steps of a change set and of its compensation.                      *)
LEMMA RunKeepsIInv ==
  ASSUME IInv, NEW w \in Writers,
         \/ DoMove(w) \/ ReadOriginals(w) \/ DoWrite(w) \/ DoDelete(w) \/ DoRmdir(w)
         \/ DoBody(w) \/ FailMove(w) \/ FailStep(w)
         \/ UndoRmdir(w) \/ UndoContent(w) \/ UndoMove(w) \/ UndoMadeDir(w) \/ UndoDone(w)
  PROVE  IInv'
  <1>1. UNCHANGED <<lock, planVars, before>>
    BY DEF DoMove, ReadOriginals, DoWrite, DoDelete, DoRmdir, DoBody, FailMove, FailStep,
           UndoRmdir, UndoContent, UndoMove, UndoMadeDir, UndoDone, historyVars
  <1>2. CASE pc' = pc
    BY <1>1, <1>2, StayKeepsIInv
  <1>3. CASE pc' # pc
    <2>1. PICK stage \in Verified : pc' = [pc EXCEPT ![w] = stage] /\ pc[w] \in Verified
      BY <1>3
      DEF DoMove, ReadOriginals, DoWrite, DoDelete, DoRmdir, DoBody, FailMove, FailStep,
          UndoRmdir, UndoContent, UndoMove, UndoMadeDir, UndoDone, Running, Goto, Verified
    <2>2. QED
      BY <1>1, <2>1, AdvanceKeepsIInv
  <1>4. QED
    BY <1>2, <1>3

LEMMA EnterKeepsIInv ==
  ASSUME IInv, NEW w \in Writers, ValidateMoves(w) \/ HookRefuses(w) \/ UndoFails(w) \/ Finish(w)
  PROVE  IInv'
  <1>1. UNCHANGED <<planVars, before>> /\ pc[w] \in Verified /\ pc[w] \in Locked
    BY DEF ValidateMoves, HookRefuses, UndoFails, Finish, historyVars, Verified, Locked
  <1>2. CASE pc' = [pc EXCEPT ![w] = "run"] /\ lock' = lock
    BY <1>1, <1>2, AdvanceKeepsIInv DEF Verified
  <1>3. CASE ~(pc' = [pc EXCEPT ![w] = "run"] /\ lock' = lock)
    <2>1. PICK how \in {"refused", "torn", "ok", "failed"} : Leave(w, how)
      BY <1>3 DEF ValidateMoves, HookRefuses, UndoFails, Finish, Goto
    <2>2. QED
      BY <1>1, <2>1, LeaveKeepsIInv DEF Locked
  <1>4. QED
    BY <1>2, <1>3

LEMMA StopKeepsIInv ==
  ASSUME IInv, NEW w \in Writers, Kill(w) \/ Interrupt(w)
  PROVE  IInv'
  <1>1. CASE Kill(w)
    BY <1>1, AdvanceKeepsIInv DEF Kill, Goto, Locked, Verified
  <1>2. CASE Interrupt(w)
    BY <1>2, LeaveKeepsIInv DEF Interrupt, Locked
  <1>3. QED
    BY <1>1, <1>2

LEMMA StepIInv == IInv /\ [Next]_vars => IInv'
  <1> SUFFICES ASSUME IInv, [Next]_vars PROVE IInv'
    OBVIOUS
  <1>1. ASSUME NEW w \in Writers, WriterStep(w) PROVE IInv'
    BY <1>1, PlanKeepsIInv, AcquireKeepsIInv, CompareKeepsIInv, RunKeepsIInv, EnterKeepsIInv
    DEF WriterStep
  <1>2. ASSUME NEW w \in Writers, Kill(w) \/ Interrupt(w) PROVE IInv'
    BY <1>2, StopKeepsIInv
  <1>3. ASSUME NEW p \in Paths, Edit(p) PROVE IInv'
    BY <1>3, StayKeepsIInv DEF Edit
  <1>4. CASE UNCHANGED vars
    BY <1>4, StayKeepsIInv DEF vars, historyVars
  <1>5. QED
    BY <1>1, <1>2, <1>3, <1>4 DEF Next

LEMMA InvariantIInv == Spec => []IInv
  BY InitIInv, StepIInv, PTL DEF Spec

(* Whoever changed a planned path between plan and lock, the change set    *)
(* does not run: change_set.py compares what the plan was made from.       *)
THEOREM RunsAsPlanned == Spec => []RunsOnPlannedContent
  <1>1. IInv => RunsOnPlannedContent
    BY DEF IInv, FoundIsPlanned, RunsOnPlannedContent, Verified
  <1>2. QED
    BY InvariantIInv, <1>1, PTL

(* At most one writer is inside a change set.                              *)
OneInside ==
  \A v, w \in Writers : pc[v] \in Locked /\ pc[w] \in Locked => v = w

THEOREM WritersExclude == Spec => []OneInside
  <1>1. IInv => OneInside
    BY DEF IInv, InsideHoldsLock, OneInside
  <1>2. QED
    BY InvariantIInv, <1>1, PTL
----------------------------------------------------------------------------
(* Paths and their prefixes                                                *)
LEMMA PathsAreSeqs ==
  ASSUME NEW p \in Paths
  PROVE  /\ p \in Seq(Names) /\ p # << >>
         /\ Len(p) \in Nat \ {0} /\ DOMAIN p = 1..Len(p)
         /\ p \in [1..Len(p) -> Names]
  <1>1. p \in Seq(Names) /\ p # << >>
    BY PathsAssumption
  <1>2. QED
    BY <1>1, LenProperties, EmptySeq

LEMMA UnderIs ==
  ASSUME NEW p \in Seq(Names), NEW d \in Seq(Names)
  PROVE  Under(p, d) <=> Len(d) <= Len(p) /\ \A i \in 1..Len(d) : p[i] = d[i]
  <1>1. Len(d) \in Nat /\ Len(p) \in Nat /\ DOMAIN d = 1..Len(d) /\ DOMAIN p = 1..Len(p)
    BY LenProperties
  <1>2. SubSeq(d, 1, Len(d)) = d
    BY SubSeqFull
  <1>3. ASSUME Len(d) <= Len(p)
        PROVE  /\ SubSeq(p, 1, Len(d)) \in Seq(Names)
               /\ Len(SubSeq(p, 1, Len(d))) = Len(d)
               /\ \A i \in 1..Len(d) : SubSeq(p, 1, Len(d))[i] = p[i]
    <2>1. \A i \in 1..Len(d) : p[i] \in Names
      BY <1>1, <1>3, ElementOfSeq
    <2>2. QED
      BY <1>1, <2>1, SubSeqProperties
  <1>4. ASSUME Len(d) <= Len(p), \A i \in 1..Len(d) : p[i] = d[i]
        PROVE  SubSeq(p, 1, Len(d)) = d
    BY <1>3, <1>4, SeqEqual
  <1>5. QED
    BY <1>1, <1>2, <1>3, <1>4 DEF Under, IsPrefix

LEMMA UnderItself ==
  ASSUME NEW p \in Seq(Names)
  PROVE  Under(p, p)
  BY UnderIs, LenProperties

LEMMA UnderTheRoot ==
  ASSUME NEW p \in Seq(Names)
  PROVE  Under(p, << >>)
  <1> DEFINE d == << >>
  <1>1. d \in Seq(Names) /\ Len(d) = 0 /\ Len(p) \in Nat
    BY EmptySeq, LenProperties
  <1> HIDE DEF d
  <1>2. d \in Seq(Names)
    BY <1>1
  <1>3. Len(d) <= Len(p) /\ \A i \in 1..Len(d) : p[i] = d[i]
    BY <1>1
  <1>4. Under(p, d)
    BY <1>2, <1>3, UnderIs
  <1>5. QED
    BY <1>4 DEF d

LEMMA UnderIsTransitive ==
  ASSUME NEW p \in Seq(Names), NEW q \in Seq(Names), NEW r \in Seq(Names),
         Under(p, q), Under(q, r)
  PROVE  Under(p, r)
  <1>1. Len(p) \in Nat /\ Len(q) \in Nat /\ Len(r) \in Nat
    BY LenProperties
  <1>2. QED
    BY <1>1, UnderIs

LEMMA UnderEachOther ==
  ASSUME NEW p \in Seq(Names), NEW q \in Seq(Names), Under(p, q), Under(q, p)
  PROVE  p = q
  <1>1. Len(p) \in Nat /\ Len(q) \in Nat
    BY LenProperties
  <1>2. Len(p) = Len(q) /\ \A i \in 1..Len(q) : p[i] = q[i]
    BY <1>1, UnderIs
  <1>3. QED
    BY <1>2, SeqEqual

(* Two paths that lead to the same are one above the other.                *)
LEMMA UnderBoth ==
  ASSUME NEW p \in Seq(Names), NEW a \in Seq(Names), NEW b \in Seq(Names),
         Under(p, a), Under(p, b)
  PROVE  Related(a, b)
  <1>1. Len(p) \in Nat /\ Len(a) \in Nat /\ Len(b) \in Nat
    BY LenProperties
  <1>2. CASE Len(a) <= Len(b)
    <2>1. \A i \in 1..Len(a) : b[i] = a[i]
      BY <1>1, <1>2, UnderIs
    <2>2. QED
      BY <1>2, <2>1, UnderIs DEF Related
  <1>3. CASE Len(b) <= Len(a)
    <2>1. \A i \in 1..Len(b) : a[i] = b[i]
      BY <1>1, <1>3, UnderIs
    <2>2. QED
      BY <1>3, <2>1, UnderIs DEF Related
  <1>4. QED
    BY <1>1, <1>2, <1>3

LEMMA PrefixesArePaths ==
  ASSUME NEW p \in Paths, NEW d \in Seq(Names), d # << >>, Under(p, d)
  PROVE  d \in Paths
  <1>1. p \in Seq(Names) /\ Len(p) \in Nat \ {0}
    BY PathsAreSeqs
  <1>2. Len(d) \in 1..Len(p)
    BY <1>1, UnderIs, LenProperties, EmptySeq
  <1>3. d = SubSeq(p, 1, Len(d))
    BY <1>1, SubSeqFull DEF Under, IsPrefix
  <1>4. QED
    BY <1>2, <1>3, PathsAssumption

LEMMA AncestorsOfAncestors ==
  ASSUME NEW p \in Paths, NEW d \in Ancestors(p), NEW e \in Ancestors(d)
  PROVE  e \in Ancestors(p)
  <1>1. p \in Seq(Names) /\ d \in Paths /\ d \in Seq(Names) /\ e \in Paths /\ e \in Seq(Names)
    BY PathsAreSeqs DEF Ancestors
  <1>2. Under(p, d) /\ Under(d, e) /\ d # p /\ e # d
    BY DEF Ancestors
  <1>3. Under(p, e)
    BY <1>1, <1>2, UnderIsTransitive
  <1>4. e # p
    BY <1>1, <1>2, UnderEachOther
  <1>5. QED
    BY <1>1, <1>3, <1>4 DEF Ancestors

(* When the parent of p is a directory, all its ancestors are.             *)
LEMMA ParentIsEnough ==
  ASSUME NEW t, Coherent(t), Dir # Absent, NEW p \in Paths, IsDir(t, Front(p)), NEW d \in Ancestors(p)
  PROVE  t[d] = Dir
  <1>1. /\ p \in Seq(Names) /\ Len(p) \in Nat \ {0}
        /\ d \in Paths /\ d \in Seq(Names) /\ Len(d) \in Nat \ {0} /\ Under(p, d) /\ d # p
    BY PathsAreSeqs DEF Ancestors
  <1>2. /\ Len(d) <= Len(p) /\ \A i \in 1..Len(d) : p[i] = d[i]
    BY <1>1, UnderIs
  <1>3. Len(d) < Len(p)
    BY <1>1, <1>2, SeqEqual
  <1>4. Len(p) - 1 \in 1..Len(p)
    BY <1>1, <1>3
  <1> DEFINE q == SubSeq(p, 1, Len(p) - 1)
  <1>5. q \in Paths
    BY <1>4, PathsAssumption
  <1>6. \A i \in 1..(Len(p) - 1) : p[i] \in Names
    BY <1>1, ElementOfSeq
  <1>7. q \in Seq(Names) /\ Len(q) = Len(p) - 1 /\ \A i \in 1..(Len(p) - 1) : q[i] = p[i]
    BY <1>1, <1>4, <1>6, SubSeqProperties
  <1>8. Under(q, d)
    <2> HIDE DEF q
    <2>1. Len(d) <= Len(q) /\ \A i \in 1..Len(d) : q[i] = d[i]
      BY <1>1, <1>2, <1>3, <1>7
    <2>2. QED
      BY <1>1, <1>7, <2>1, UnderIs
  <1>9. Front(p) = q /\ q # << >>
    BY <1>5, PathsAreSeqs DEF Front
  <1>10. t[q] = Dir
    BY <1>9 DEF IsDir
  <1>11. CASE q = d
    BY <1>10, <1>11
  <1>12. CASE q # d
    BY <1>1, <1>5, <1>8, <1>10, <1>12 DEF Coherent, Exists, Ancestors
  <1>13. QED
    BY <1>11, <1>12

LEMMA RebasedIs ==
  ASSUME NEW p \in Seq(Names), NEW from \in Seq(Names), NEW to \in Seq(Names), Under(p, from)
  PROVE  LET q == Rebased(p, from, to)
         IN  /\ q \in Seq(Names) /\ Len(q) = Len(to) + Len(p) - Len(from)
             /\ \A i \in 1..Len(to) : q[i] = to[i]
             /\ \A i \in 1..(Len(p) - Len(from)) : q[Len(to) + i] = p[Len(from) + i]
  <1> DEFINE s == SubSeq(p, Len(from) + 1, Len(p))
  <1>1. Len(p) \in Nat /\ Len(from) \in Nat /\ Len(to) \in Nat /\ Len(from) <= Len(p)
    BY LenProperties, UnderIs
  <1>2. \A i \in (Len(from) + 1)..Len(p) : p[i] \in Names
    BY <1>1, ElementOfSeq
  <1>3. /\ s \in Seq(Names) /\ Len(s) = Len(p) - Len(from)
        /\ \A i \in 1..(Len(p) - Len(from)) : s[i] = p[Len(from) + i]
    <2>1. /\ s \in Seq(Names)
          /\ Len(s) = IF Len(from) + 1 <= Len(p) THEN Len(p) - (Len(from) + 1) + 1 ELSE 0
          /\ \A i \in 1..(Len(p) - (Len(from) + 1) + 1) : s[i] = p[(Len(from) + 1) + i - 1]
      <3> HIDE DEF s
      <3>1. Len(from) + 1 \in Int /\ Len(p) \in Int
        BY <1>1
      <3>2. QED
        BY <1>2, <3>1, SubSeqProperties DEF s
    <2>2. QED
      BY <1>1, <2>1
  <1>4. Rebased(p, from, to) = to \o s
    BY DEF Rebased
  <1> HIDE DEF s
  <1>5. /\ to \o s \in Seq(Names) /\ Len(to \o s) = Len(to) + Len(s)
        /\ \A i \in 1..Len(to) + Len(s) :
             (to \o s)[i] = IF i <= Len(to) THEN to[i] ELSE s[i - Len(to)]
    BY <1>3, ConcatProperties
  <1>6. QED
    BY <1>1, <1>3, <1>4, <1>5

RebasedAt(q, p, from, to) ==
  /\ q \in Seq(Names) /\ Len(q) = Len(to) + Len(p) - Len(from)
  /\ \A i \in 1..Len(to) : q[i] = to[i]
  /\ \A i \in 1..(Len(p) - Len(from)) : q[Len(to) + i] = p[Len(from) + i]

LEMMA RebasedIsAt ==
  ASSUME NEW p \in Seq(Names), NEW from \in Seq(Names), NEW to \in Seq(Names), Under(p, from)
  PROVE  RebasedAt(Rebased(p, from, to), p, from, to)
  BY RebasedIs DEF RebasedAt

LEMMA RebasedIsUnder ==
  ASSUME NEW p \in Seq(Names), NEW from \in Seq(Names), NEW to \in Seq(Names), Under(p, from)
  PROVE  Rebased(p, from, to) \in Seq(Names) /\ Under(Rebased(p, from, to), to)
  <1>1. Len(p) \in Nat /\ Len(from) \in Nat /\ Len(to) \in Nat /\ Len(from) <= Len(p)
    BY LenProperties, UnderIs
  <1> DEFINE q == Rebased(p, from, to)
  <1>2. /\ q \in Seq(Names) /\ Len(q) = Len(to) + Len(p) - Len(from)
        /\ \A i \in 1..Len(to) : q[i] = to[i]
    BY RebasedIs
  <1> HIDE DEF q
  <1>3. Under(q, to)
    BY <1>1, <1>2, UnderIs
  <1>4. QED
    BY <1>2, <1>3 DEF q

LEMMA RebasedItself ==
  ASSUME NEW from \in Seq(Names), NEW to \in Seq(Names)
  PROVE  Rebased(from, from, to) = to
  <1>1. Len(from) \in Nat /\ Len(to) \in Nat /\ Under(from, from)
    BY LenProperties, UnderItself
  <1> DEFINE q == Rebased(from, from, to)
  <1>2. /\ q \in Seq(Names) /\ Len(q) = Len(to) + Len(from) - Len(from)
        /\ \A i \in 1..Len(to) : q[i] = to[i]
    BY <1>1, RebasedIs
  <1> HIDE DEF q
  <1>3. Len(q) = Len(to)
    BY <1>1, <1>2
  <1>4. q = to
    BY <1>2, <1>3, SeqEqual
  <1>5. QED
    BY <1>4 DEF q

LEMMA RebasedBack ==
  ASSUME NEW p \in Seq(Names), NEW from \in Seq(Names), NEW to \in Seq(Names), Under(p, from)
  PROVE  Rebased(Rebased(p, from, to), to, from) = p
  <1> DEFINE q == Rebased(p, from, to)
             r == Rebased(q, to, from)
  <1>1. Len(p) \in Nat /\ Len(from) \in Nat /\ Len(to) \in Nat /\ Len(from) <= Len(p)
    BY LenProperties, UnderIs
  <1>2. /\ q \in Seq(Names) /\ Under(q, to) /\ Len(q) = Len(to) + Len(p) - Len(from)
        /\ \A i \in 1..(Len(p) - Len(from)) : q[Len(to) + i] = p[Len(from) + i]
    BY RebasedIs, RebasedIsUnder
  <1> HIDE DEF q
  <1>3. /\ r \in Seq(Names) /\ Len(r) = Len(from) + Len(q) - Len(to)
        /\ \A i \in 1..Len(from) : r[i] = from[i]
        /\ \A i \in 1..(Len(q) - Len(to)) : r[Len(from) + i] = q[Len(to) + i]
    <2>1. RebasedAt(r, q, to, from)
      BY <1>2, RebasedIsAt
    <2>2. QED
      BY <2>1 DEF RebasedAt
  <1> HIDE DEF r
  <1>4. Len(r) = Len(p)
    BY <1>1, <1>2, <1>3
  <1>5. \A i \in 1..Len(from) : r[i] = p[i]
    BY <1>1, <1>3, UnderIs
  <1>6. \A i \in 1..(Len(p) - Len(from)) : r[Len(from) + i] = p[Len(from) + i]
    <2>1. Len(q) - Len(to) = Len(p) - Len(from)
      BY <1>1, <1>2
    <2>2. QED
      BY <1>2, <1>3, <2>1
  <1>7. \A i \in 1..Len(p) : r[i] = p[i]
    <2>1. ASSUME NEW i \in 1..Len(p), i > Len(from) PROVE r[i] = p[i]
      <3>1. i - Len(from) \in 1..(Len(p) - Len(from)) /\ Len(from) + (i - Len(from)) = i
        BY <1>1, <2>1
      <3>2. QED
        BY <1>6, <3>1
    <2>2. QED
      BY <1>1, <1>5, <2>1
  <1>8. QED
    BY <1>3, <1>4, <1>7, SeqEqual DEF q, r

LEMMA RebasedKeepsOrder ==
  ASSUME NEW p \in Seq(Names), NEW d \in Seq(Names), NEW from \in Seq(Names), NEW to \in Seq(Names),
         Under(p, d), Under(d, from)
  PROVE  Under(Rebased(p, from, to), Rebased(d, from, to))
  <1> DEFINE q == Rebased(p, from, to)
             e == Rebased(d, from, to)
  <1>1. /\ Len(p) \in Nat /\ Len(d) \in Nat /\ Len(from) \in Nat /\ Len(to) \in Nat
        /\ Len(from) <= Len(d) /\ Len(d) <= Len(p) /\ \A i \in 1..Len(d) : p[i] = d[i]
    BY LenProperties, UnderIs
  <1>2. Under(p, from)
    BY UnderIsTransitive
  <1>3. /\ q \in Seq(Names) /\ Len(q) = Len(to) + Len(p) - Len(from)
        /\ \A i \in 1..Len(to) : q[i] = to[i]
        /\ \A i \in 1..(Len(p) - Len(from)) : q[Len(to) + i] = p[Len(from) + i]
    <2>1. RebasedAt(q, p, from, to)
      BY <1>2, RebasedIsAt
    <2>2. QED
      BY <2>1 DEF RebasedAt
  <1>4. /\ e \in Seq(Names) /\ Len(e) = Len(to) + Len(d) - Len(from)
        /\ \A i \in 1..Len(to) : e[i] = to[i]
        /\ \A i \in 1..(Len(d) - Len(from)) : e[Len(to) + i] = d[Len(from) + i]
    <2>1. RebasedAt(e, d, from, to)
      BY RebasedIsAt
    <2>2. QED
      BY <2>1 DEF RebasedAt
  <1> HIDE DEF q, e
  <1>5. \A i \in 1..(Len(d) - Len(from)) : q[Len(to) + i] = e[Len(to) + i]
    BY <1>1, <1>3, <1>4
  <1>6. ASSUME NEW i \in 1..Len(e) PROVE q[i] = e[i]
    <2>1. CASE i <= Len(to)
      BY <1>1, <1>3, <1>4, <2>1
    <2>2. CASE i > Len(to)
      <3>1. i - Len(to) \in 1..(Len(d) - Len(from)) /\ Len(to) + (i - Len(to)) = i
        BY <1>1, <1>4, <2>2
      <3>2. QED
        BY <1>5, <3>1
    <2>3. QED
      BY <1>1, <1>4, <2>1, <2>2
  <1>7. Len(e) <= Len(q)
    BY <1>1, <1>3, <1>4
  <1>8. Under(q, e)
    BY <1>3, <1>4, <1>6, <1>7, UnderIs
  <1>9. QED
    BY <1>8 DEF q, e
----------------------------------------------------------------------------
(* Trees: what each system call leaves                                     *)
Trees == [Paths -> Contents \union {Dir, Absent}]

LEMMA ParentsMade ==
  ASSUME NEW t \in Trees, Coherent(t), NEW p \in Paths, Reachable(t, p)
  PROVE  LET u == WithParents(t, p)
         IN  /\ u \in Trees /\ Coherent(u)
             /\ \A d \in Ancestors(p) : u[d] = Dir
             /\ \A q \in Paths : u[q] = t[q] \/ (q \in Ancestors(p) /\ t[q] = Absent /\ u[q] = Dir)
  <1> DEFINE u == WithParents(t, p)
  <1>1. u \in Trees
    BY DEF WithParents, Trees
  <1>2. \A q \in Paths : u[q] = IF q \in Ancestors(p) /\ t[q] = Absent THEN Dir ELSE t[q]
    BY DEF WithParents, MissingParents
  <1>3. Ancestors(p) \subseteq Paths
    BY DEF Ancestors
  <1>4. \A d \in Ancestors(p) : u[d] = Dir
    BY <1>2, <1>3 DEF Reachable, IsFile
  <1> HIDE DEF u
  <1>5. ASSUME NEW q \in Paths, u[q] # Absent, NEW d \in Ancestors(q) PROVE u[d] = Dir
    <2>1. d \in Paths
      BY DEF Ancestors
    <2>2. CASE q \in Ancestors(p)
      BY <1>4, <2>2, AncestorsOfAncestors
    <2>3. CASE q \notin Ancestors(p)
      <3>1. t[q] # Absent
        BY <1>2, <1>5, <2>3
      <3>2. t[d] = Dir
        BY <3>1 DEF Coherent, Exists
      <3>3. QED
        BY <1>2, <2>1, <3>2, PathsAssumption
    <2>4. QED
      BY <2>2, <2>3
  <1>6. Coherent(u)
    BY <1>5 DEF Coherent, Exists
  <1>7. QED
    BY <1>1, <1>2, <1>4, <1>6 DEF u

LEMMA FileWritten ==
  ASSUME NEW t \in Trees, Coherent(t), NEW p \in Paths, NEW content \in Contents, CanWrite(t, p)
  PROVE  LET u == Written(t, p, content)
         IN  /\ u \in Trees /\ Coherent(u) /\ u[p] = content
             /\ \A q \in Paths \ {p} :
                  u[q] = t[q] \/ (q \in Ancestors(p) /\ t[q] = Absent /\ u[q] = Dir)
  <1> DEFINE v == WithParents(t, p)
             u == Written(t, p, content)
  <1>1. /\ v \in Trees /\ Coherent(v) /\ \A d \in Ancestors(p) : v[d] = Dir
        /\ \A q \in Paths : v[q] = t[q] \/ (q \in Ancestors(p) /\ t[q] = Absent /\ v[q] = Dir)
    BY ParentsMade DEF CanWrite
  <1>2. u = [v EXCEPT ![p] = content]
    BY DEF Written
  <1> HIDE DEF u, v
  <1>3. u \in Trees /\ u[p] = content /\ \A q \in Paths \ {p} : u[q] = v[q]
    BY <1>1, <1>2 DEF Trees
  <1>4. p \notin Ancestors(p) /\ t[p] # Dir
    BY DEF Ancestors, CanWrite
  <1>5. ASSUME NEW q \in Paths, u[q] # Absent, NEW d \in Ancestors(q) PROVE u[d] = Dir
    <2>1. d \in Paths
      BY DEF Ancestors
    <2>2. CASE q = p
      BY <1>1, <1>3, <1>4, <2>1, <2>2
    <2>3. CASE q # p
      <3>1. v[d] = Dir
        BY <1>1, <1>3, <1>5, <2>3 DEF Coherent, Exists
      <3>2. v[p] # Dir
        BY <1>1, <1>4
      <3>3. QED
        BY <1>3, <2>1, <3>1, <3>2
    <2>4. QED
      BY <2>2, <2>3
  <1>6. Coherent(u)
    BY <1>5 DEF Coherent, Exists
  <1>7. QED
    BY <1>1, <1>3, <1>6 DEF u

LEMMA PathRemoved ==
  ASSUME NEW t \in Trees, Coherent(t), NEW p \in Paths, t[p] # Dir \/ CanRmdir(t, p)
  PROVE  [t EXCEPT ![p] = Absent] \in Trees /\ Coherent([t EXCEPT ![p] = Absent])
  <1> DEFINE u == [t EXCEPT ![p] = Absent]
  <1>1. u \in Trees /\ u[p] = Absent /\ \A q \in Paths \ {p} : u[q] = t[q]
    BY DEF Trees
  <1>2. ASSUME NEW q \in Paths, u[q] # Absent, NEW d \in Ancestors(q) PROVE u[d] = Dir
    <2>1. d \in Paths /\ q # p /\ Under(q, d) /\ d # q
      BY <1>1, <1>2 DEF Ancestors
    <2>2. t[q] # Absent
      BY <1>1, <1>2, <2>1
    <2>3. t[d] = Dir
      BY <2>2 DEF Coherent, Exists
    <2>4. d # p
      BY <2>1, <2>2, <2>3 DEF CanRmdir, Children, Exists
    <2>5. QED
      BY <1>1, <2>1, <2>3, <2>4
  <1>3. QED
    BY <1>1, <1>2 DEF Coherent, Exists

LEMMA DirectoryMade ==
  ASSUME NEW t \in Trees, Coherent(t), NEW p \in Paths, CanMkdir(t, p)
  PROVE  LET u == [WithParents(t, p) EXCEPT ![p] = Dir]
         IN  /\ u \in Trees /\ Coherent(u) /\ u[p] = Dir
             /\ \A q \in Paths \ {p} :
                  u[q] = t[q] \/ (q \in Ancestors(p) /\ t[q] = Absent /\ u[q] = Dir)
             /\ t[p] \in {Dir, Absent}
  <1> DEFINE v == WithParents(t, p)
             u == [WithParents(t, p) EXCEPT ![p] = Dir]
  <1>1. /\ v \in Trees /\ Coherent(v) /\ \A d \in Ancestors(p) : v[d] = Dir
        /\ \A q \in Paths : v[q] = t[q] \/ (q \in Ancestors(p) /\ t[q] = Absent /\ v[q] = Dir)
    BY ParentsMade DEF CanMkdir
  <1>2. u = [v EXCEPT ![p] = Dir]
    OBVIOUS
  <1> HIDE DEF u, v
  <1>3. u \in Trees /\ u[p] = Dir /\ \A q \in Paths \ {p} : u[q] = v[q]
    BY <1>1, <1>2 DEF Trees
  <1>4. ASSUME NEW q \in Paths, u[q] # Absent, NEW d \in Ancestors(q) PROVE u[d] = Dir
    <2>1. d \in Paths
      BY DEF Ancestors
    <2>2. CASE q = p
      BY <1>1, <1>3, <2>1, <2>2
    <2>3. CASE q # p
      BY <1>1, <1>3, <1>4, <2>1, <2>3 DEF Coherent, Exists
    <2>4. QED
      BY <2>2, <2>3
  <1>5. Coherent(u)
    BY <1>4 DEF Coherent, Exists
  <1>6. t[p] \in {Dir, Absent}
    BY DEF CanMkdir, IsFile
  <1>7. QED
    BY <1>1, <1>3, <1>5, <1>6 DEF u

(* What a rename leaves: the source's content at the target                *)
LEMMA RenamedIs ==
  ASSUME NEW t \in Trees, NEW from \in Paths, NEW to \in Paths
  PROVE  LET u == Renamed(t, from, to)
         IN  /\ u \in Trees
             /\ \A p \in Paths : Under(p, to) =>
                  u[p] = IF Rebased(p, to, from) \in Paths THEN t[Rebased(p, to, from)] ELSE Absent
             /\ \A p \in Paths : ~Under(p, to) /\ Under(p, from) => u[p] = Absent
             /\ \A p \in Paths : ~Under(p, to) /\ ~Under(p, from) => u[p] = t[p]
  BY DEF Renamed, Trees

LEMMA PathRenamed ==
  ASSUME NEW t \in Trees, Coherent(t), NEW from \in Paths, NEW to \in Paths,
         CanRename(t, from, to), ~Under(to, from)
  PROVE  Renamed(t, from, to) \in Trees /\ Coherent(Renamed(t, from, to))
  <1> DEFINE u == Renamed(t, from, to)
  <1>1. /\ u \in Trees
        /\ \A p \in Paths : Under(p, to) =>
             u[p] = IF Rebased(p, to, from) \in Paths THEN t[Rebased(p, to, from)] ELSE Absent
        /\ \A p \in Paths : ~Under(p, to) /\ Under(p, from) => u[p] = Absent
        /\ \A p \in Paths : ~Under(p, to) /\ ~Under(p, from) => u[p] = t[p]
    BY RenamedIs
  <1> HIDE DEF u
  <1>2. from \in Seq(Names) /\ to \in Seq(Names) /\ from # << >> /\ to # << >>
    BY PathsAreSeqs
  <1>3. ASSUME NEW q \in Paths, u[q] # Absent, NEW d \in Ancestors(q) PROVE u[d] = Dir
    <2>1. /\ d \in Paths /\ d \in Seq(Names) /\ q \in Seq(Names) /\ Under(q, d) /\ d # q
      BY PathsAreSeqs DEF Ancestors
    <2>2. CASE Under(q, to) /\ Under(d, to)
      <3> DEFINE o == Rebased(q, to, from)
                 e == Rebased(d, to, from)
      <3>1. o \in Paths /\ t[o] # Absent
        BY <1>1, <1>3, <2>2
      <3>2. /\ o \in Seq(Names) /\ e \in Seq(Names) /\ Under(o, e) /\ Under(e, from)
            /\ Rebased(o, from, to) = q /\ Rebased(e, from, to) = d
        BY <1>2, <2>1, <2>2, RebasedIsUnder, RebasedKeepsOrder, RebasedBack
      <3> HIDE DEF o, e
      <3>3. e # << >>
        BY <1>2, <3>2, UnderTheRoot, UnderEachOther, EmptySeq
      <3>4. e \in Paths /\ e # o
        BY <2>1, <3>1, <3>2, <3>3, PrefixesArePaths
      <3>5. t[e] = Dir
        BY <3>1, <3>2, <3>4 DEF Coherent, Exists, Ancestors
      <3>6. QED
        BY <1>1, <2>1, <2>2, <3>4, <3>5 DEF e
    <2>3. CASE Under(q, to) /\ ~Under(d, to)
      <3>1. Related(d, to)
        BY <1>2, <2>1, <2>3, UnderBoth
      <3>2. Under(to, d) /\ d # to
        BY <1>2, <2>3, <3>1, UnderItself DEF Related
      <3>3. t[d] = Dir
        BY <2>1, <3>2, ParentIsEnough, PathsAssumption DEF Ancestors, CanRename
      <3>4. ~Under(d, from)
        BY <1>2, <2>1, <3>2, UnderIsTransitive
      <3>5. QED
        BY <1>1, <2>1, <2>3, <3>3, <3>4
    <2>4. CASE ~Under(q, to)
      <3>1. ~Under(q, from) /\ t[q] # Absent
        BY <1>1, <1>3, <2>4
      <3>2. t[d] = Dir
        BY <3>1 DEF Coherent, Exists
      <3>3. ~Under(d, from) /\ ~Under(d, to)
        BY <1>2, <2>1, <2>4, <3>1, UnderIsTransitive
      <3>4. QED
        BY <1>1, <2>1, <3>2, <3>3
    <2>5. QED
      BY <2>2, <2>3, <2>4
  <1>4. QED
    BY <1>1, <1>3 DEF Coherent, Exists, u
----------------------------------------------------------------------------
(* Sequences: the steps of a change set and of its compensation            *)
LEMMA FunctionIsSeq ==
  ASSUME NEW n \in Nat, NEW S, NEW f \in [1..n -> S]
  PROVE  f \in Seq(S) /\ Len(f) = n
  <1>1. f \in Seq(S)
    BY SeqDef
  <1>2. Len(f) \in Nat /\ DOMAIN f = 1..Len(f) /\ DOMAIN f = 1..n
    BY <1>1, LenProperties
  <1>3. QED
    BY <1>1, <1>2

LEMMA ReverseIs ==
  ASSUME NEW S, NEW s \in Seq(S)
  PROVE  /\ Reverse(s) \in Seq(S) /\ Len(Reverse(s)) = Len(s)
         /\ \A i \in 1..Len(s) : Reverse(s)[i] = s[Len(s) + 1 - i]
  <1>1. Len(s) \in Nat
    BY LenProperties
  <1>2. \A i \in 1..Len(s) : Len(s) - i + 1 \in 1..Len(s) /\ Len(s) - i + 1 = Len(s) + 1 - i
    BY <1>1
  <1>3. Reverse(s) = [i \in 1..Len(s) |-> s[Len(s) - i + 1]]
    BY DEF Reverse
  <1>4. Reverse(s) \in [1..Len(s) -> S]
    BY <1>2, <1>3, ElementOfSeq
  <1>5. QED
    BY <1>1, <1>2, <1>3, <1>4, FunctionIsSeq

(* A finite set as a sequence: each element is somewhere in it.            *)
LEMMA Listed ==
  ASSUME NEW S, IsFiniteSet(S)
  PROVE  /\ SetToSeq(S) \in Seq(S)
         /\ \A x \in S : \E i \in 1..Len(SetToSeq(S)) : SetToSeq(S)[i] = x
  <1> DEFINE n == Cardinality(S)
             f == SetToSeq(S)
  <1>1. n \in Nat /\ ExistsBijection(1..n, S)
    BY FS_CardinalityType
  <1>2. \E g \in [1..n -> S] : IsInjective(g)
    BY <1>1 DEF ExistsBijection, Bijection, Injection
  <1>3. f \in [1..n -> S] /\ IsInjective(f)
    BY <1>2 DEF SetToSeq
  <1> HIDE DEF f
  <1>4. f \in Injection(1..n, S)
    BY <1>3 DEF Injection
  <1>5. Cardinality(1..n) = n
    BY <1>1, FS_Interval
  <1>6. f \in Surjection(1..n, S)
    BY <1>4, <1>5, FS_Injection
  <1>7. f \in Seq(S) /\ Len(f) = n
    BY <1>1, <1>3, FunctionIsSeq
  <1>8. \A x \in S : \E i \in 1..n : f[i] = x
    BY <1>6 DEF Surjection
  <1>9. QED
    BY <1>7, <1>8 DEF f

LEMMA SeqElementsFinite ==
  ASSUME NEW S, NEW s \in Seq(S)
  PROVE  IsFiniteSet(Elements(s)) /\ Elements(s) = {s[i] : i \in 1..Len(s)} /\ Elements(s) \subseteq S
  <1>1. Len(s) \in Nat /\ DOMAIN s = 1..Len(s) /\ s \in [1..Len(s) -> S]
    BY LenProperties
  <1>2. Elements(s) = {s[i] : i \in 1..Len(s)} /\ Elements(s) \subseteq S
    BY <1>1 DEF Elements
  <1>3. s \in Surjection(1..Len(s), Elements(s))
    BY <1>1, <1>2 DEF Surjection
  <1>4. IsFiniteSet(1..Len(s))
    BY <1>1, FS_Interval
  <1>5. QED
    BY <1>2, <1>3, <1>4, FS_Surjection

AllChangeSets == UNION {ChangeSets[w] : w \in Writers}

TypedSteps ==
  [op : {"move", "moveback"}, arg : MoveRecords] \union [op : {"write"}, arg : WriteRecords]
    \union [op : {"delete", "rmdir", "mkdir", "restore", "rmmade"}, arg : Paths]
    \union [op : {"read", "body"}, arg : AllChangeSets]

LEMMA TaggedIs ==
  ASSUME NEW op, NEW S, NEW s \in Seq(S), [op : {op}, arg : S] \subseteq TypedSteps
  PROVE  /\ Tagged(op, s) \in Seq(TypedSteps) /\ Len(Tagged(op, s)) = Len(s)
         /\ \A i \in 1..Len(s) : Tagged(op, s)[i] = [op |-> op, arg |-> s[i]]
  <1>1. Len(s) \in Nat /\ DOMAIN s = 1..Len(s)
    BY LenProperties
  <1>2. Tagged(op, s) = [i \in 1..Len(s) |-> [op |-> op, arg |-> s[i]]]
    BY <1>1 DEF Tagged
  <1>3. \A i \in 1..Len(s) : [op |-> op, arg |-> s[i]] \in TypedSteps
    BY ElementOfSeq
  <1>4. Tagged(op, s) \in [1..Len(s) -> TypedSteps]
    BY <1>2, <1>3
  <1>5. QED
    BY <1>1, <1>2, <1>4, FunctionIsSeq

Nm(c) == Len(c.moves)
Nw(c) == Len(c.writes)
Nd(c) == Len(c.deletes)
Nr(c) == Len(c.rmdirs)

LEMMA ChangeSetIs ==
  ASSUME NEW c \in AllChangeSets
  PROVE  /\ c.moves \in Seq(MoveRecords) /\ c.writes \in Seq(WriteRecords)
         /\ c.deletes \in Seq(Paths) /\ c.rmdirs \in Seq(Paths) /\ c.expect \subseteq Paths
         /\ Nm(c) \in Nat /\ Nw(c) \in Nat /\ Nd(c) \in Nat /\ Nr(c) \in Nat
         /\ \A i \in 1..Nm(c) : c.moves[i] \in MoveRecords /\ c.moves[i].source \in Paths
                                /\ c.moves[i].target \in Paths
         /\ \A i \in 1..Nw(c) : c.writes[i] \in WriteRecords /\ c.writes[i].path \in Paths
                                /\ c.writes[i].content \in Contents
         /\ \A i \in 1..Nd(c) : c.deletes[i] \in Paths
         /\ \A i \in 1..Nr(c) : c.rmdirs[i] \in Paths
         /\ MovesApart(c) /\ WritesApart(c) /\ MovesStayInPaths(c)
  <1>1. IsChangeSet(c) /\ MovesApart(c) /\ WritesApart(c) /\ MovesStayInPaths(c)
    BY ChangeSetsAssumption DEF AllChangeSets
  <1>2. /\ c.moves \in Seq(MoveRecords) /\ c.writes \in Seq(WriteRecords)
        /\ c.deletes \in Seq(Paths) /\ c.rmdirs \in Seq(Paths) /\ c.expect \subseteq Paths
    BY <1>1 DEF IsChangeSet
  <1>3. Nm(c) \in Nat /\ Nw(c) \in Nat /\ Nd(c) \in Nat /\ Nr(c) \in Nat
    BY <1>2, LenProperties DEF Nm, Nw, Nd, Nr
  <1>4. /\ \A i \in 1..Nm(c) : c.moves[i] \in MoveRecords
        /\ \A i \in 1..Nw(c) : c.writes[i] \in WriteRecords
        /\ \A i \in 1..Nd(c) : c.deletes[i] \in Paths
        /\ \A i \in 1..Nr(c) : c.rmdirs[i] \in Paths
    BY <1>2, ElementOfSeq DEF Nm, Nw, Nd, Nr
  <1>5. QED
    BY <1>1, <1>2, <1>3, <1>4 DEF MoveRecords, WriteRecords

IsConcat(z, x, y) == z = x \o y
Splices(z, x, y) ==
  /\ Len(z) = Len(x) + Len(y)
  /\ \A i \in 1..Len(x) : z[i] = x[i]
  /\ \A i \in 1..Len(y) : z[Len(x) + i] = y[i]

LEMMA ConcatIs ==
  ASSUME NEW S, NEW x \in Seq(S), NEW y \in Seq(S)
  PROVE  /\ x \o y \in Seq(S) /\ Len(x \o y) = Len(x) + Len(y)
         /\ \A i \in 1..Len(x) : (x \o y)[i] = x[i]
         /\ \A i \in 1..Len(y) : (x \o y)[Len(x) + i] = y[i]
  <1>1. Len(x) \in Nat /\ Len(y) \in Nat
    BY LenProperties
  <1>2. /\ x \o y \in Seq(S) /\ Len(x \o y) = Len(x) + Len(y)
        /\ \A i \in 1..Len(x) + Len(y) : (x \o y)[i] = IF i <= Len(x) THEN x[i] ELSE y[i - Len(x)]
    BY ConcatProperties
  <1>3. \A i \in 1..Len(y) : Len(x) + i \in 1..Len(x) + Len(y) /\ ~(Len(x) + i <= Len(x))
                              /\ (Len(x) + i) - Len(x) = i
    BY <1>1
  <1>4. \A i \in 1..Len(x) : i \in 1..Len(x) + Len(y) /\ i <= Len(x)
    BY <1>1
  <1>5. QED
    BY <1>2, <1>3, <1>4

LEMMA Joined ==
  ASSUME NEW S, NEW x \in Seq(S), NEW y \in Seq(S), NEW xy, IsConcat(xy, x, y)
  PROVE  xy \in Seq(S) /\ Splices(xy, x, y)
  BY ConcatIs DEF IsConcat, Splices

SixParts(all, a, b, d, e, f, g) ==
  /\ Len(all) = Len(a) + Len(b) + Len(d) + Len(e) + Len(f) + Len(g)
  /\ \A i \in 1..Len(a) : all[i] = a[i]
  /\ \A i \in 1..Len(b) : all[Len(a) + i] = b[i]
  /\ \A i \in 1..Len(d) : all[Len(a) + Len(b) + i] = d[i]
  /\ \A i \in 1..Len(e) : all[Len(a) + Len(b) + Len(d) + i] = e[i]
  /\ \A i \in 1..Len(f) : all[Len(a) + Len(b) + Len(d) + Len(e) + i] = f[i]
  /\ \A i \in 1..Len(g) : all[Len(a) + Len(b) + Len(d) + Len(e) + Len(f) + i] = g[i]

LEMMA SixJoined ==
  ASSUME NEW S, NEW a \in Seq(S), NEW b \in Seq(S), NEW d \in Seq(S), NEW e \in Seq(S),
         NEW f \in Seq(S), NEW g \in Seq(S),
         NEW ab, IsConcat(ab, a, b), NEW abd, IsConcat(abd, ab, d), NEW abde, IsConcat(abde, abd, e),
         NEW abdef, IsConcat(abdef, abde, f), NEW all, IsConcat(all, abdef, g)
  PROVE  all \in Seq(S) /\ SixParts(all, a, b, d, e, f, g)
  <1>1. /\ Len(a) \in Nat /\ Len(b) \in Nat /\ Len(d) \in Nat /\ Len(e) \in Nat /\ Len(f) \in Nat
    BY LenProperties
  <1>2. ab \in Seq(S) /\ Splices(ab, a, b)
    BY Joined
  <1>3. abd \in Seq(S) /\ Splices(abd, ab, d)
    BY <1>2, Joined
  <1>4. abde \in Seq(S) /\ Splices(abde, abd, e)
    BY <1>3, Joined
  <1>5. abdef \in Seq(S) /\ Splices(abdef, abde, f)
    BY <1>4, Joined
  <1>6. all \in Seq(S) /\ Splices(all, abdef, g)
    BY <1>5, Joined
  <1>7. /\ Len(ab) = Len(a) + Len(b) /\ Len(abd) = Len(a) + Len(b) + Len(d)
        /\ Len(abde) = Len(a) + Len(b) + Len(d) + Len(e)
        /\ Len(abdef) = Len(a) + Len(b) + Len(d) + Len(e) + Len(f)
        /\ Len(all) = Len(a) + Len(b) + Len(d) + Len(e) + Len(f) + Len(g)
    BY <1>1, <1>2, <1>3, <1>4, <1>5, <1>6 DEF Splices
  <1>8. \A i \in 1..Len(abd) : all[i] = abd[i]
    <2>1. \A i \in 1..Len(abd) : i \in 1..Len(abde) /\ i \in 1..Len(abdef)
      BY <1>1, <1>7
    <2>2. QED
      BY <2>1, <1>4, <1>5, <1>6 DEF Splices
  <1>9. \A i \in 1..Len(ab) : all[i] = ab[i]
    <2>1. \A i \in 1..Len(ab) : i \in 1..Len(abd)
      BY <1>1, <1>7
    <2>2. QED
      BY <2>1, <1>3, <1>8 DEF Splices
  <1>10. \A i \in 1..Len(a) : all[i] = a[i]
    <2>1. \A i \in 1..Len(a) : i \in 1..Len(ab)
      BY <1>1, <1>7
    <2>2. QED
      BY <2>1, <1>2, <1>9 DEF Splices
  <1>11. \A i \in 1..Len(b) : all[Len(a) + i] = b[i]
    <2>1. \A i \in 1..Len(b) : Len(a) + i \in 1..Len(ab)
      BY <1>1, <1>7
    <2>2. QED
      BY <2>1, <1>2, <1>9 DEF Splices
  <1>12. \A i \in 1..Len(d) : all[Len(ab) + i] = d[i]
    <2>1. \A i \in 1..Len(d) : Len(ab) + i \in 1..Len(abd)
      BY <1>1, <1>7
    <2>2. QED
      BY <2>1, <1>3, <1>8 DEF Splices
  <1>13. \A i \in 1..Len(e) : all[Len(abd) + i] = e[i]
    <2>1. \A i \in 1..Len(e) : Len(abd) + i \in 1..Len(abde) /\ Len(abd) + i \in 1..Len(abdef)
      BY <1>1, <1>7
    <2>2. QED
      BY <2>1, <1>4, <1>5, <1>6 DEF Splices
  <1>14. \A i \in 1..Len(f) : all[Len(abde) + i] = f[i]
    <2>1. \A i \in 1..Len(f) : Len(abde) + i \in 1..Len(abdef)
      BY <1>1, <1>7
    <2>2. QED
      BY <2>1, <1>5, <1>6 DEF Splices
  <1>15. \A i \in 1..Len(g) : all[Len(abdef) + i] = g[i]
    BY <1>6 DEF Splices
  <1>16. /\ \A i \in 1..Len(d) : all[Len(a) + Len(b) + i] = d[i]
         /\ \A i \in 1..Len(e) : all[Len(a) + Len(b) + Len(d) + i] = e[i]
    BY <1>7, <1>12, <1>13
  <1>17. \A i \in 1..Len(f) : all[Len(a) + Len(b) + Len(d) + Len(e) + i] = f[i]
    BY <1>7, <1>14
  <1>18. \A i \in 1..Len(g) : all[Len(a) + Len(b) + Len(d) + Len(e) + Len(f) + i] = g[i]
    BY <1>7, <1>15
  <1>19. QED
    BY <1>6, <1>7, <1>10, <1>11, <1>16, <1>17, <1>18 DEF SixParts

LEMMA StepsAre ==
  ASSUME NEW c \in AllChangeSets
  PROVE  LET S == Steps(c)
         IN  /\ S \in Seq(TypedSteps)
             /\ Len(S) = Nm(c) + Nw(c) + Nd(c) + Nr(c) + 2
             /\ \A i \in 1..Nm(c) : S[i] = [op |-> "move", arg |-> c.moves[i]]
             /\ S[Nm(c) + 1] = [op |-> "read", arg |-> c]
             /\ \A i \in 1..Nw(c) : S[Nm(c) + 1 + i] = [op |-> "write", arg |-> c.writes[i]]
             /\ \A i \in 1..Nd(c) :
                  S[Nm(c) + 1 + Nw(c) + i] = [op |-> "delete", arg |-> c.deletes[i]]
             /\ \A i \in 1..Nr(c) :
                  S[Nm(c) + 1 + Nw(c) + Nd(c) + i] = [op |-> "rmdir", arg |-> c.rmdirs[i]]
             /\ S[Len(S)] = [op |-> "body", arg |-> c]
  <1> DEFINE a == Tagged("move", c.moves)
             b == Tagged("read", <<c>>)
             d == Tagged("write", c.writes)
             e == Tagged("delete", c.deletes)
             f == Tagged("rmdir", c.rmdirs)
             g == Tagged("body", <<c>>)
  <1>1. /\ a \in Seq(TypedSteps) /\ Len(a) = Nm(c)
        /\ \A i \in 1..Nm(c) : a[i] = [op |-> "move", arg |-> c.moves[i]]
    BY ChangeSetIs, TaggedIs DEF Nm, TypedSteps
  <1>2. /\ d \in Seq(TypedSteps) /\ Len(d) = Nw(c)
        /\ \A i \in 1..Nw(c) : d[i] = [op |-> "write", arg |-> c.writes[i]]
    BY ChangeSetIs, TaggedIs DEF Nw, TypedSteps
  <1>3. /\ e \in Seq(TypedSteps) /\ Len(e) = Nd(c)
        /\ \A i \in 1..Nd(c) : e[i] = [op |-> "delete", arg |-> c.deletes[i]]
    BY ChangeSetIs, TaggedIs DEF Nd, TypedSteps
  <1>4. /\ f \in Seq(TypedSteps) /\ Len(f) = Nr(c)
        /\ \A i \in 1..Nr(c) : f[i] = [op |-> "rmdir", arg |-> c.rmdirs[i]]
    BY ChangeSetIs, TaggedIs DEF Nr, TypedSteps
  <1>5. <<c>> \in Seq(AllChangeSets) /\ Len(<<c>>) = 1 /\ <<c>>[1] = c
    OBVIOUS
  <1>6. /\ b \in Seq(TypedSteps) /\ Len(b) = 1 /\ b[1] = [op |-> "read", arg |-> c]
        /\ g \in Seq(TypedSteps) /\ Len(g) = 1 /\ g[1] = [op |-> "body", arg |-> c]
    <2>1. [op : {"read"}, arg : AllChangeSets] \subseteq TypedSteps
          /\ [op : {"body"}, arg : AllChangeSets] \subseteq TypedSteps
      BY DEF TypedSteps
    <2> DEFINE s == <<c>>
    <2>2. s \in Seq(AllChangeSets) /\ Len(s) = 1 /\ s[1] = c
      BY <1>5
    <2> HIDE DEF s
    <2>3. /\ Tagged("read", s) \in Seq(TypedSteps) /\ Len(Tagged("read", s)) = Len(s)
          /\ \A i \in 1..Len(s) : Tagged("read", s)[i] = [op |-> "read", arg |-> s[i]]
      BY <2>1, <2>2, TaggedIs
    <2>4. /\ Tagged("body", s) \in Seq(TypedSteps) /\ Len(Tagged("body", s)) = Len(s)
          /\ \A i \in 1..Len(s) : Tagged("body", s)[i] = [op |-> "body", arg |-> s[i]]
      BY <2>1, <2>2, TaggedIs
    <2>5. 1 \in 1..1
      OBVIOUS
    <2>6. QED
      BY <2>2, <2>3, <2>4, <2>5 DEF s
  <1>7. Nm(c) \in Nat /\ Nw(c) \in Nat /\ Nd(c) \in Nat /\ Nr(c) \in Nat
    BY ChangeSetIs
  <1> HIDE DEF a, b, d, e, f, g
  <1>8. Steps(c) = ((((a \o b) \o d) \o e) \o f) \o g
    BY DEF Steps, a, b, d, e, f, g
  <1>9. PICK ab, abd, abde, abdef, S :
          /\ IsConcat(ab, a, b) /\ IsConcat(abd, ab, d) /\ IsConcat(abde, abd, e)
          /\ IsConcat(abdef, abde, f) /\ IsConcat(S, abdef, g) /\ S = Steps(c)
    BY <1>8 DEF IsConcat
  <1>10. /\ a \in Seq(TypedSteps) /\ b \in Seq(TypedSteps) /\ d \in Seq(TypedSteps)
         /\ e \in Seq(TypedSteps) /\ f \in Seq(TypedSteps) /\ g \in Seq(TypedSteps)
    BY <1>1, <1>2, <1>3, <1>4, <1>6
  <1>11. S \in Seq(TypedSteps) /\ SixParts(S, a, b, d, e, f, g)
    BY <1>9, <1>10, SixJoined
  <1>12. /\ S \in Seq(TypedSteps) /\ Len(S) = Len(a) + Len(b) + Len(d) + Len(e) + Len(f) + Len(g)
         /\ \A i \in 1..Len(a) : S[i] = a[i]
         /\ \A i \in 1..Len(b) : S[Len(a) + i] = b[i]
         /\ \A i \in 1..Len(d) : S[Len(a) + Len(b) + i] = d[i]
         /\ \A i \in 1..Len(e) : S[Len(a) + Len(b) + Len(d) + i] = e[i]
         /\ \A i \in 1..Len(f) : S[Len(a) + Len(b) + Len(d) + Len(e) + i] = f[i]
         /\ \A i \in 1..Len(g) : S[Len(a) + Len(b) + Len(d) + Len(e) + Len(f) + i] = g[i]
    BY <1>11 DEF SixParts
  <1>13. /\ Len(S) = Nm(c) + Nw(c) + Nd(c) + Nr(c) + 2
         /\ Len(a) + Len(b) + Len(d) + Len(e) + Len(f) + 1 = Len(S)
         /\ 1 \in 1..Len(b) /\ 1 \in 1..Len(g)
    BY <1>1, <1>2, <1>3, <1>4, <1>6, <1>7, <1>12
  <1>14. S[Nm(c) + 1] = [op |-> "read", arg |-> c] /\ S[Len(S)] = [op |-> "body", arg |-> c]
    <2>1. S[Len(a) + 1] = b[1] /\ S[Len(S)] = g[1]
      BY <1>12, <1>13
    <2>2. QED
      BY <2>1, <1>1, <1>6
  <1>15. \A i \in 1..Nm(c) : S[i] = [op |-> "move", arg |-> c.moves[i]]
    BY <1>1, <1>12
  <1>16. \A i \in 1..Nw(c) : S[Nm(c) + 1 + i] = [op |-> "write", arg |-> c.writes[i]]
    BY <1>1, <1>2, <1>6, <1>12
  <1>17. \A i \in 1..Nd(c) : S[Nm(c) + 1 + Nw(c) + i] = [op |-> "delete", arg |-> c.deletes[i]]
    BY <1>1, <1>2, <1>3, <1>6, <1>12
  <1>18. \A i \in 1..Nr(c) :
           S[Nm(c) + 1 + Nw(c) + Nd(c) + i] = [op |-> "rmdir", arg |-> c.rmdirs[i]]
    BY <1>1, <1>2, <1>3, <1>4, <1>6, <1>12
  <1>19. QED
    BY <1>9, <1>12, <1>13, <1>14, <1>15, <1>16, <1>17, <1>18
----------------------------------------------------------------------------
(* Moves: the tree after the first r moves of c, begun with the tree b     *)
MovedTree(c, r, b) ==
  [p \in Paths |->
     IF \E i \in 1..r : Under(p, c.moves[i].target)
     THEN LET i == CHOOSE i \in 1..r : Under(p, c.moves[i].target)
              o == Rebased(p, c.moves[i].target, c.moves[i].source)
          IN  IF o \in Paths THEN b[o] ELSE Absent
     ELSE IF \E i \in 1..r : Under(p, c.moves[i].source) THEN Absent ELSE b[p]]

Clear(c, r, p) == \A i \in 1..r : ~Under(p, c.moves[i].source)

MovesPossible(c, b) ==
  /\ b \in Trees /\ Coherent(b)
  /\ \A i \in 1..Nm(c) : /\ b[c.moves[i].source] # Absent /\ b[c.moves[i].target] = Absent
                         /\ ~Under(c.moves[i].target, c.moves[i].source)

(* Nothing is under two of the sources and targets.                        *)
EndsApart(c) ==
  \A p \in Paths : \A i, j \in 1..Nm(c) :
    /\ i # j => ~(Under(p, c.moves[i].source) /\ Under(p, c.moves[j].source))
    /\ i # j => ~(Under(p, c.moves[i].target) /\ Under(p, c.moves[j].target))
    /\ ~(Under(p, c.moves[i].source) /\ Under(p, c.moves[j].target))

LEMMA MovesAreApart ==
  ASSUME NEW c \in AllChangeSets, NEW b, MovesPossible(c, b)
  PROVE  EndsApart(c)
  <1>1. /\ c.moves \in Seq(MoveRecords) /\ Nm(c) \in Nat /\ MovesApart(c)
        /\ \A i \in 1..Nm(c) : c.moves[i].source \in Paths /\ c.moves[i].target \in Paths
    BY ChangeSetIs
  <1>2. DOMAIN c.moves = 1..Nm(c)
    BY <1>1, LenProperties DEF Nm
  <1>3. SUFFICES ASSUME NEW p \in Paths, NEW i \in 1..Nm(c), NEW j \in 1..Nm(c)
                 PROVE  /\ i # j => ~(Under(p, c.moves[i].source) /\ Under(p, c.moves[j].source))
                        /\ i # j => ~(Under(p, c.moves[i].target) /\ Under(p, c.moves[j].target))
                        /\ ~(Under(p, c.moves[i].source) /\ Under(p, c.moves[j].target))
    BY DEF EndsApart
  <1> DEFINE si == c.moves[i].source
             sj == c.moves[j].source
             ti == c.moves[i].target
             tj == c.moves[j].target
  <1>4. /\ si \in Seq(Names) /\ sj \in Seq(Names) /\ ti \in Seq(Names) /\ tj \in Seq(Names)
        /\ p \in Seq(Names) /\ si \in Paths /\ tj \in Paths /\ ti \in Paths /\ sj \in Paths
    BY <1>1, PathsAreSeqs
  <1>5. i # j => ~Related(si, sj) /\ ~Related(ti, tj) /\ ~Under(tj, si)
    BY <1>1, <1>2 DEF MovesApart
  <1>6. ~Under(tj, si)
    BY <1>5 DEF MovesPossible
  <1>7. ~Under(si, tj)
    <2>1. b[si] # Absent /\ b[tj] = Absent /\ Coherent(b)
      BY DEF MovesPossible
    <2>2. si # tj
      BY <2>1
    <2>3. ASSUME Under(si, tj) PROVE FALSE
      <3>1. tj \in Ancestors(si)
        BY <1>4, <2>2, <2>3 DEF Ancestors
      <3>2. b[tj] = Dir
        BY <1>4, <2>1, <3>1 DEF Coherent, Exists
      <3>3. QED
        BY <2>1, <3>2, PathsAssumption
    <2>4. QED
      BY <2>3
  <1> HIDE DEF si, sj, ti, tj
  <1>8. i # j => ~(Under(p, si) /\ Under(p, sj)) /\ ~(Under(p, ti) /\ Under(p, tj))
    BY <1>4, <1>5, UnderBoth
  <1>9. ~(Under(p, si) /\ Under(p, tj))
    BY <1>4, <1>6, <1>7, UnderBoth DEF Related
  <1>10. QED
    BY <1>8, <1>9 DEF si, sj, ti, tj

LEMMA MovedTreeAt ==
  ASSUME NEW c \in AllChangeSets, NEW b, MovesPossible(c, b), NEW r \in 0..Nm(c), NEW p \in Paths
  PROVE  LET M == MovedTree(c, r, b)
         IN  /\ \A i \in 1..r : Under(p, c.moves[i].target) =>
                  M[p] = IF Rebased(p, c.moves[i].target, c.moves[i].source) \in Paths
                         THEN b[Rebased(p, c.moves[i].target, c.moves[i].source)] ELSE Absent
             /\ \A i \in 1..r : Under(p, c.moves[i].source) => M[p] = Absent
             /\ (\A i \in 1..r : ~Under(p, c.moves[i].target) /\ ~Under(p, c.moves[i].source))
                  => M[p] = b[p]
  <1> DEFINE M == MovedTree(c, r, b)
  <1>1. EndsApart(c)
    BY MovesAreApart
  <1>2. Nm(c) \in Nat /\ \A i \in 1..r : i \in 1..Nm(c)
    BY ChangeSetIs
  <1>3. ASSUME NEW i \in 1..r, Under(p, c.moves[i].target)
        PROVE  M[p] = IF Rebased(p, c.moves[i].target, c.moves[i].source) \in Paths
                      THEN b[Rebased(p, c.moves[i].target, c.moves[i].source)] ELSE Absent
    <2>1. \A j \in 1..r : Under(p, c.moves[j].target) => j = i
      BY <1>1, <1>2, <1>3 DEF EndsApart
    <2>2. (CHOOSE j \in 1..r : Under(p, c.moves[j].target)) = i
      BY <1>3, <2>1
    <2>3. QED
      BY <1>3, <2>2 DEF MovedTree
  <1>4. ASSUME NEW i \in 1..r, Under(p, c.moves[i].source) PROVE M[p] = Absent
    <2>1. \A j \in 1..r : ~Under(p, c.moves[j].target)
      BY <1>1, <1>2, <1>4 DEF EndsApart
    <2>2. QED
      BY <1>4, <2>1 DEF MovedTree
  <1>5. (\A i \in 1..r : ~Under(p, c.moves[i].target) /\ ~Under(p, c.moves[i].source)) => M[p] = b[p]
    BY DEF MovedTree
  <1>6. QED
    BY <1>3, <1>4, <1>5

LEMMA NothingMoved ==
  ASSUME NEW c \in AllChangeSets, NEW b \in Trees
  PROVE  MovedTree(c, 0, b) = b
  BY DEF MovedTree, Trees

LEMMA MovedTreeIsTree ==
  ASSUME NEW c \in AllChangeSets, NEW b, MovesPossible(c, b), NEW r \in 0..Nm(c)
  PROVE  MovedTree(c, r, b) \in Trees
  <1>1. b \in Trees
    BY DEF MovesPossible
  <1>2. QED
    BY <1>1 DEF MovedTree, Trees

LEMMA WhatIsThereIsClear ==
  ASSUME NEW c \in AllChangeSets, NEW b, MovesPossible(c, b), NEW r \in 0..Nm(c), NEW p \in Paths,
         MovedTree(c, r, b)[p] # Absent
  PROVE  Clear(c, r, p)
  BY MovedTreeAt DEF Clear

LEMMA AboveIsClear ==
  ASSUME NEW c \in AllChangeSets, NEW r \in 0..Nm(c), NEW p \in Paths, Clear(c, r, p),
         NEW d \in Ancestors(p)
  PROVE  Clear(c, r, d)
  <1>1. d \in Seq(Names) /\ p \in Seq(Names) /\ Under(p, d)
    BY PathsAreSeqs DEF Ancestors
  <1>2. ASSUME NEW i \in 1..r, Under(d, c.moves[i].source) PROVE FALSE
    <2>1. c.moves[i].source \in Seq(Names)
      BY ChangeSetIs, PathsAreSeqs
    <2>2. Under(p, c.moves[i].source)
      BY <1>1, <1>2, <2>1, UnderIsTransitive
    <2>3. QED
      BY <2>2 DEF Clear
  <1>3. QED
    BY <1>2 DEF Clear
(* How a tree t that the executor works on resembles the tree u it means,  *)
(* outside the paths of Q.                                                 *)
SameFiles(t, u, Q) == \A p \in Paths \ Q : Digest(t, p) = Digest(u, p)
KeepsDirs(t, u, Q) == \A p \in Paths \ Q : u[p] = Dir => t[p] = Dir
DirsClear(c, r, t) == \A p \in Paths : t[p] = Dir => Clear(c, r, p)

LEMMA ParentsResemble ==
  ASSUME NEW t \in Trees, Coherent(t), NEW p \in Paths, Reachable(t, p),
         NEW u \in Trees, NEW Q, NEW R, NEW c, NEW r,
         KeepsDirs(t, u, R), DirsClear(c, r, t), \A d \in Ancestors(p) : Clear(c, r, d)
  PROVE  LET v == WithParents(t, p)
         IN  /\ v \in Trees /\ Coherent(v)
             /\ \A q \in Paths : Digest(v, q) = Digest(t, q)
             /\ KeepsDirs(v, u, R) /\ DirsClear(c, r, v)
  <1> DEFINE v == WithParents(t, p)
  <1>1. /\ v \in Trees /\ Coherent(v)
        /\ \A q \in Paths : v[q] = t[q] \/ (q \in Ancestors(p) /\ t[q] = Absent /\ v[q] = Dir)
    BY ParentsMade
  <1> HIDE DEF v
  <1>2. \A q \in Paths : Digest(v, q) = Digest(t, q)
    BY <1>1 DEF Digest, IsFile
  <1>3. KeepsDirs(v, u, R)
    BY <1>1, PathsAssumption DEF KeepsDirs
  <1>4. DirsClear(c, r, v)
    BY <1>1 DEF DirsClear
  <1>5. QED
    BY <1>1, <1>2, <1>3, <1>4 DEF v

(* A move forth: the tree means one more move.                             *)
LEMMA MovedForth ==
  ASSUME NEW c \in AllChangeSets, NEW b, MovesPossible(c, b), NEW r \in 0..Nm(c), r < Nm(c),
         NEW t \in Trees, Coherent(t), SameFiles(t, MovedTree(c, r, b), {}),
         KeepsDirs(t, MovedTree(c, r, b), {}), DirsClear(c, r, t),
         Reachable(t, c.moves[r + 1].target),
         CanRename(WithParents(t, c.moves[r + 1].target), c.moves[r + 1].source, c.moves[r + 1].target)
  PROVE  LET v == Renamed(WithParents(t, c.moves[r + 1].target),
                          c.moves[r + 1].source, c.moves[r + 1].target)
         IN  /\ v \in Trees /\ Coherent(v)
             /\ SameFiles(v, MovedTree(c, r + 1, b), {})
             /\ KeepsDirs(v, MovedTree(c, r + 1, b), {})
             /\ DirsClear(c, r + 1, v)
  <1> DEFINE s  == c.moves[r + 1].source
             g  == c.moves[r + 1].target
             M  == MovedTree(c, r, b)
             M1 == MovedTree(c, r + 1, b)
             y  == WithParents(t, g)
             v  == Renamed(y, s, g)
  <1>1. /\ Nm(c) \in Nat /\ r + 1 \in 1..Nm(c) /\ r + 1 \in 0..Nm(c) /\ r + 1 \in 1..(r + 1)
        /\ \A i \in 1..r : i \in 1..Nm(c) /\ i # r + 1 /\ i \in 1..(r + 1)
        /\ \A i \in 1..(r + 1) : i = r + 1 \/ i \in 1..r
    BY ChangeSetIs
  <1>2. s \in Paths /\ g \in Paths /\ EndsApart(c) /\ ~Under(g, s)
    BY <1>1, ChangeSetIs, MovesAreApart DEF MovesPossible
  <1>3. s \in Seq(Names) /\ g \in Seq(Names)
    BY <1>2, PathsAreSeqs
  <1>4. M \in Trees /\ M1 \in Trees /\ b \in Trees
    BY <1>1, MovedTreeIsTree DEF MovesPossible
  <1>5. /\ y \in Trees /\ Coherent(y)
        /\ \A q \in Paths : y[q] = t[q] \/ (q \in Ancestors(g) /\ t[q] = Absent /\ y[q] = Dir)
    BY <1>2, ParentsMade
  <1>6. CanRename(y, s, g)
    OBVIOUS
  <1>7. v \in Trees /\ Coherent(v)
    <2> HIDE DEF y
    <2>1. QED
      BY <1>2, <1>5, <1>6, PathRenamed
  <1>8. /\ \A p \in Paths : Under(p, g) =>
             v[p] = IF Rebased(p, g, s) \in Paths THEN y[Rebased(p, g, s)] ELSE Absent
        /\ \A p \in Paths : ~Under(p, g) /\ Under(p, s) => v[p] = Absent
        /\ \A p \in Paths : ~Under(p, g) /\ ~Under(p, s) => v[p] = y[p]
    <2> HIDE DEF y, s, g
    <2>1. QED
      BY <1>2, <1>5, RenamedIs
  <1>9. \A p \in Paths : /\ Under(p, g) =>
                              M1[p] = IF Rebased(p, g, s) \in Paths THEN b[Rebased(p, g, s)] ELSE Absent
                         /\ Under(p, s) => M1[p] = Absent
    BY <1>1, MovedTreeAt
  <1>10. \A p \in Paths : Under(p, s) => M[p] = b[p]
    <2>1. ASSUME NEW p \in Paths, Under(p, s), NEW i \in 1..r
          PROVE  ~Under(p, c.moves[i].target) /\ ~Under(p, c.moves[i].source)
      BY <1>1, <1>2, <2>1 DEF EndsApart
    <2>2. QED
      BY <2>1, MovedTreeAt
  <1>11. \A p \in Paths : ~Under(p, g) /\ ~Under(p, s) => M1[p] = M[p]
    <2>1. ASSUME NEW p \in Paths, ~Under(p, g), ~Under(p, s) PROVE M1[p] = M[p]
      <3>1. CASE \E i \in 1..r : Under(p, c.moves[i].target) \/ Under(p, c.moves[i].source)
        BY <1>1, <3>1, MovedTreeAt
      <3>2. CASE \A i \in 1..r : ~Under(p, c.moves[i].target) /\ ~Under(p, c.moves[i].source)
        <4>1. M[p] = b[p]
          BY <3>2, MovedTreeAt
        <4>2. \A i \in 1..(r + 1) : ~Under(p, c.moves[i].target) /\ ~Under(p, c.moves[i].source)
          BY <1>1, <2>1, <3>2
        <4>3. M1[p] = b[p]
          BY <1>1, <4>2, MovedTreeAt
        <4>4. QED
          BY <4>1, <4>3
      <3>3. QED
        BY <3>1, <3>2
    <2>2. QED
      BY <2>1
  <1>12. \A p \in Paths : Under(p, s) => y[p] = t[p]
    <2>1. ASSUME NEW p \in Paths, Under(p, s), p \in Ancestors(g) PROVE FALSE
      BY <1>2, <1>3, <2>1, PathsAreSeqs, UnderIsTransitive DEF Ancestors
    <2>2. QED
      BY <1>5, <2>1
  <1>13. \A p \in Paths : Under(p, g) => p \in Seq(Names) /\ Under(Rebased(p, g, s), s)
    BY <1>3, PathsAreSeqs, RebasedIsUnder
  <1>14. \A p \in Paths : Digest(y, p) = Digest(t, p) /\ (t[p] = Dir => y[p] = Dir)
    BY <1>5, PathsAssumption DEF Digest, IsFile
  <1>15. \A p \in Paths : Digest(t, p) = Digest(M, p) /\ (M[p] = Dir => t[p] = Dir)
    BY DEF SameFiles, KeepsDirs
  <1> HIDE DEF v, y, M, M1, s, g
  <1>16. ASSUME NEW p \in Paths PROVE Digest(v, p) = Digest(M1, p) /\ (M1[p] = Dir => v[p] = Dir)
    <2>1. CASE Under(p, g)
      <3> DEFINE o == Rebased(p, g, s)
      <3> HIDE DEF o
      <3>1. CASE o \in Paths
        <4>1. v[p] = t[o] /\ M1[p] = M[o]
          BY <1>8, <1>9, <1>10, <1>12, <1>13, <2>1, <3>1 DEF o
        <4>2. QED
          BY <1>15, <3>1, <4>1 DEF Digest, IsFile
      <3>2. CASE o \notin Paths
        BY <1>8, <1>9, <2>1, <3>2, PathsAssumption DEF o, Digest, IsFile
      <3>3. QED
        BY <3>1, <3>2
    <2>2. CASE ~Under(p, g) /\ Under(p, s)
      BY <1>8, <1>9, <2>2, PathsAssumption DEF Digest, IsFile
    <2>3. CASE ~Under(p, g) /\ ~Under(p, s)
      <3>1. v[p] = y[p] /\ M1[p] = M[p]
        BY <1>8, <1>11, <2>3
      <3>2. QED
        BY <1>14, <1>15, <3>1 DEF Digest, IsFile
    <2>4. QED
      BY <2>1, <2>2, <2>3
  <1>17. ASSUME NEW p \in Paths, v[p] = Dir PROVE Clear(c, r + 1, p)
    <2>1. ~Under(p, s) => \A i \in 1..r : ~Under(p, c.moves[i].source)
      <3>1. CASE Under(p, g)
        BY <1>1, <1>2, <3>1 DEF EndsApart, g
      <3>2. CASE ~Under(p, g) /\ ~Under(p, s)
        <4>1. y[p] = Dir
          BY <1>8, <1>17, <3>2
        <4>2. CASE t[p] = Dir
          BY <4>2 DEF DirsClear, Clear
        <4>3. CASE p \in Ancestors(g)
          <5>1. ASSUME NEW i \in 1..r, Under(p, c.moves[i].source) PROVE FALSE
            <6>1. c.moves[i].source \in Seq(Names) /\ p \in Seq(Names) /\ Under(g, p)
              BY <1>1, <4>3, ChangeSetIs, PathsAreSeqs DEF Ancestors
            <6>2. Under(g, c.moves[i].source)
              BY <1>3, <5>1, <6>1, UnderIsTransitive
            <6>3. Under(g, g)
              BY <1>3, UnderItself
            <6>4. QED
              BY <1>1, <1>2, <6>2, <6>3 DEF EndsApart, g
          <5>2. QED
            BY <5>1
        <4>4. QED
          BY <1>5, <4>1, <4>2, <4>3
      <3>3. QED
        BY <3>1, <3>2
    <2>2. ~Under(p, s)
      <3>1. Under(p, g) => ~Under(p, s)
        BY <1>1, <1>2 DEF EndsApart, g, s
      <3>2. QED
        BY <1>8, <1>17, <3>1, PathsAssumption
    <2>3. QED
      BY <1>1, <2>1, <2>2 DEF Clear, s
  <1>18. SameFiles(v, M1, {}) /\ KeepsDirs(v, M1, {}) /\ DirsClear(c, r + 1, v)
    BY <1>16, <1>17 DEF SameFiles, KeepsDirs, DirsClear
  <1>19. QED
    BY <1>7, <1>18 DEF v, y, M1, s, g

(* A move back, once the contents and the removed directories are back.    *)
LEMMA MovedBack ==
  ASSUME NEW c \in AllChangeSets, NEW b, MovesPossible(c, b), NEW r \in 1..Nm(c),
         NEW t \in Trees, Coherent(t), SameFiles(t, MovedTree(c, r, b), {}),
         KeepsDirs(t, MovedTree(c, r, b), {}), DirsClear(c, r, t)
  PROVE  LET m == c.moves[r]
             v == Renamed(t, m.target, m.source)
         IN  /\ Exists(t, m.target) /\ ~Exists(t, m.source)
             /\ CanRename(t, m.target, m.source) =>
                  /\ v \in Trees /\ Coherent(v)
                  /\ SameFiles(v, MovedTree(c, r - 1, b), {})
                  /\ KeepsDirs(v, MovedTree(c, r - 1, b), {})
                  /\ DirsClear(c, r - 1, v)
  <1> DEFINE s  == c.moves[r].source
             g  == c.moves[r].target
             M  == MovedTree(c, r, b)
             M1 == MovedTree(c, r - 1, b)
             v  == Renamed(t, g, s)
  <1>1. /\ Nm(c) \in Nat /\ r \in 0..Nm(c) /\ r - 1 \in 0..Nm(c) /\ r \in 1..r
        /\ \A i \in 1..(r - 1) : i \in 1..Nm(c) /\ i # r /\ i \in 1..r
        /\ \A i \in 1..r : i = r \/ i \in 1..(r - 1)
    BY ChangeSetIs
  <1>2. s \in Paths /\ g \in Paths /\ EndsApart(c) /\ ~Under(g, s) /\ b[s] # Absent /\ b[g] = Absent
    BY ChangeSetIs, MovesAreApart DEF MovesPossible
  <1>3. s \in Seq(Names) /\ g \in Seq(Names) /\ Under(s, s) /\ Under(g, g)
    BY <1>2, PathsAreSeqs, UnderItself
  <1>4. M \in Trees /\ M1 \in Trees /\ b \in Trees /\ Coherent(b)
    BY <1>1, MovedTreeIsTree DEF MovesPossible
  <1>5. \A p \in Paths : /\ Under(p, g) =>
                              M[p] = IF Rebased(p, g, s) \in Paths THEN b[Rebased(p, g, s)] ELSE Absent
                         /\ Under(p, s) => M[p] = Absent
    BY <1>1, MovedTreeAt
  <1>6. \A p \in Paths : Under(p, s) \/ Under(p, g) => M1[p] = b[p]
    <2>1. ASSUME NEW p \in Paths, Under(p, s) \/ Under(p, g), NEW i \in 1..(r - 1)
          PROVE  ~Under(p, c.moves[i].target) /\ ~Under(p, c.moves[i].source)
      BY <1>1, <1>2, <2>1 DEF EndsApart
    <2>2. QED
      BY <1>1, <2>1, MovedTreeAt
  <1>7. \A p \in Paths : ~Under(p, g) /\ ~Under(p, s) => M1[p] = M[p]
    <2>1. ASSUME NEW p \in Paths, ~Under(p, g), ~Under(p, s) PROVE M1[p] = M[p]
      <3>1. CASE \E i \in 1..(r - 1) : Under(p, c.moves[i].target) \/ Under(p, c.moves[i].source)
        BY <1>1, <3>1, MovedTreeAt
      <3>2. CASE \A i \in 1..(r - 1) : ~Under(p, c.moves[i].target) /\ ~Under(p, c.moves[i].source)
        <4>1. M1[p] = b[p]
          BY <1>1, <3>2, MovedTreeAt
        <4>2. \A i \in 1..r : ~Under(p, c.moves[i].target) /\ ~Under(p, c.moves[i].source)
          BY <1>1, <2>1, <3>2
        <4>3. M[p] = b[p]
          BY <1>1, <4>2, MovedTreeAt
        <4>4. QED
          BY <4>1, <4>3
      <3>3. QED
        BY <3>1, <3>2
    <2>2. QED
      BY <2>1
  <1>8. \A p \in Paths : Under(p, s) =>
          /\ Rebased(p, s, g) \in Paths /\ Under(Rebased(p, s, g), g)
          /\ Rebased(Rebased(p, s, g), g, s) = p
    <2>1. ASSUME NEW p \in Paths, Under(p, s)
          PROVE  Under(Rebased(p, s, g), g) /\ Rebased(Rebased(p, s, g), g, s) = p
      BY <1>3, <2>1, PathsAreSeqs, RebasedIsUnder, RebasedBack
    <2>2. c.moves[r] \in Elements(c.moves)
      <3>1. r \in DOMAIN c.moves
        BY ChangeSetIs, LenProperties DEF Nm
      <3>2. QED
        BY <3>1 DEF Elements
    <2>3. \A p \in Paths : Under(p, s) => Rebased(p, s, g) \in Paths
      BY <2>2, ChangeSetIs DEF MovesStayInPaths
    <2>4. QED
      BY <2>1, <2>3
  <1>9. ~Under(s, g)
    BY <1>2, <1>3 DEF EndsApart
  <1>10. \A p \in Paths : Under(p, g) => b[p] = Absent
    <2>1. ASSUME NEW p \in Paths, Under(p, g), b[p] # Absent PROVE FALSE
      <3>1. p # g
        BY <1>2, <2>1
      <3>2. b[g] = Dir
        BY <1>2, <1>4, <2>1, <3>1 DEF Coherent, Exists, Ancestors
      <3>3. QED
        BY <1>2, <3>2, PathsAssumption
    <2>2. QED
      BY <2>1
  <1>11. \A p \in Paths : Digest(t, p) = Digest(M, p) /\ (M[p] = Dir => t[p] = Dir)
    BY DEF SameFiles, KeepsDirs
  <1>12. Exists(t, g)
    <2>1. M[g] # Absent
      <3>1. Rebased(s, s, g) \in Paths /\ Rebased(g, g, s) \in Seq(Names) /\ Under(Rebased(g, g, s), s)
        BY <1>2, <1>3, <1>8, RebasedIsUnder
      <3>2. Rebased(g, g, s) = s
        BY <1>3, RebasedItself
      <3>3. QED
        BY <1>2, <1>3, <1>5, <3>2
    <2>2. QED
      BY <1>2, <1>11, <2>1, PathsAssumption DEF Digest, IsFile, Exists
  <1>13. ~Exists(t, s)
    <2>1. M[s] = Absent
      BY <1>2, <1>3, <1>5
    <2>2. t[s] # Dir
      <3>1. ~Clear(c, r, s)
        BY <1>1, <1>3 DEF Clear
      <3>2. QED
        BY <1>2, <3>1 DEF DirsClear
    <2>3. QED
      BY <1>2, <1>11, <2>1, <2>2, PathsAssumption DEF Digest, IsFile, Exists
  <1>14. ASSUME CanRename(t, g, s) PROVE v \in Trees /\ Coherent(v)
    <2> HIDE DEF s, g
    <2>1. QED
      BY <1>2, <1>9, <1>14, PathRenamed
  <1>15. /\ \A p \in Paths : Under(p, s) =>
             v[p] = IF Rebased(p, s, g) \in Paths THEN t[Rebased(p, s, g)] ELSE Absent
         /\ \A p \in Paths : ~Under(p, s) /\ Under(p, g) => v[p] = Absent
         /\ \A p \in Paths : ~Under(p, s) /\ ~Under(p, g) => v[p] = t[p]
    <2> HIDE DEF s, g
    <2>1. QED
      BY <1>2, RenamedIs
  <1> HIDE DEF v, M, M1, s, g
  <1>16. ASSUME NEW p \in Paths PROVE Digest(v, p) = Digest(M1, p) /\ (M1[p] = Dir => v[p] = Dir)
    <2>1. CASE Under(p, s)
      <3> DEFINE o == Rebased(p, s, g)
      <3>1. o \in Paths /\ Under(o, g) /\ Rebased(o, g, s) = p
        BY <1>8, <2>1
      <3>2. v[p] = t[o]
        BY <1>15, <2>1, <3>1
      <3> HIDE DEF o
      <3>3. M1[p] = M[o]
        BY <1>5, <1>6, <2>1, <3>1
      <3>4. QED
        BY <1>11, <3>1, <3>2, <3>3 DEF Digest, IsFile
    <2>2. CASE ~Under(p, s) /\ Under(p, g)
      BY <1>6, <1>10, <1>15, <2>2, PathsAssumption DEF Digest, IsFile
    <2>3. CASE ~Under(p, s) /\ ~Under(p, g)
      <3>1. v[p] = t[p] /\ M1[p] = M[p]
        BY <1>7, <1>15, <2>3
      <3>2. QED
        BY <1>11, <3>1 DEF Digest, IsFile
    <2>4. QED
      BY <2>1, <2>2, <2>3
  <1>17. ASSUME NEW p \in Paths, v[p] = Dir PROVE Clear(c, r - 1, p)
    <2>1. CASE Under(p, s)
      BY <1>1, <1>2, <2>1 DEF EndsApart, Clear, s
    <2>2. CASE ~Under(p, s)
      <3>1. ~Under(p, g)
        BY <1>15, <1>17, <2>2, PathsAssumption
      <3>2. t[p] = Dir
        BY <1>15, <1>17, <2>2, <3>1
      <3>3. QED
        BY <1>1, <3>2 DEF DirsClear, Clear
    <2>3. QED
      BY <2>1, <2>2
  <1>18. SameFiles(v, M1, {}) /\ KeepsDirs(v, M1, {}) /\ DirsClear(c, r - 1, v)
    BY <1>16, <1>17 DEF SameFiles, KeepsDirs, DirsClear
  <1>19. QED
    BY <1>12, <1>13, <1>14, <1>18 DEF v, M, M1, s, g
----------------------------------------------------------------------------
(* The steps of the compensation                                           *)
FourParts(all, a, b, d, e) ==
  /\ Len(all) = Len(a) + Len(b) + Len(d) + Len(e)
  /\ \A i \in 1..Len(a) : all[i] = a[i]
  /\ \A i \in 1..Len(b) : all[Len(a) + i] = b[i]
  /\ \A i \in 1..Len(d) : all[Len(a) + Len(b) + i] = d[i]
  /\ \A i \in 1..Len(e) : all[Len(a) + Len(b) + Len(d) + i] = e[i]

LEMMA FourJoined ==
  ASSUME NEW S, NEW a \in Seq(S), NEW b \in Seq(S), NEW d \in Seq(S), NEW e \in Seq(S),
         NEW ab, IsConcat(ab, a, b), NEW abd, IsConcat(abd, ab, d), NEW all, IsConcat(all, abd, e)
  PROVE  all \in Seq(S) /\ FourParts(all, a, b, d, e)
  <1>1. Len(a) \in Nat /\ Len(b) \in Nat /\ Len(d) \in Nat /\ Len(e) \in Nat
    BY LenProperties
  <1>2. ab \in Seq(S) /\ Splices(ab, a, b)
    BY Joined
  <1>3. abd \in Seq(S) /\ Splices(abd, ab, d)
    BY <1>2, Joined
  <1>4. all \in Seq(S) /\ Splices(all, abd, e)
    BY <1>3, Joined
  <1>5. /\ Len(ab) = Len(a) + Len(b) /\ Len(abd) = Len(a) + Len(b) + Len(d)
        /\ Len(all) = Len(a) + Len(b) + Len(d) + Len(e)
    BY <1>1, <1>2, <1>3, <1>4 DEF Splices
  <1>6. \A i \in 1..Len(ab) : all[i] = ab[i]
    <2>1. \A i \in 1..Len(ab) : i \in 1..Len(abd)
      BY <1>1, <1>5
    <2>2. QED
      BY <2>1, <1>3, <1>4 DEF Splices
  <1>7. \A i \in 1..Len(a) : all[i] = a[i]
    <2>1. \A i \in 1..Len(a) : i \in 1..Len(ab)
      BY <1>1, <1>5
    <2>2. QED
      BY <2>1, <1>2, <1>6 DEF Splices
  <1>8. \A i \in 1..Len(b) : all[Len(a) + i] = b[i]
    <2>1. \A i \in 1..Len(b) : Len(a) + i \in 1..Len(ab)
      BY <1>1, <1>5
    <2>2. QED
      BY <2>1, <1>2, <1>6 DEF Splices
  <1>9. \A i \in 1..Len(d) : all[Len(ab) + i] = d[i]
    <2>1. \A i \in 1..Len(d) : Len(ab) + i \in 1..Len(abd)
      BY <1>1, <1>5
    <2>2. QED
      BY <2>1, <1>3, <1>4 DEF Splices
  <1>10. \A i \in 1..Len(e) : all[Len(abd) + i] = e[i]
    BY <1>4 DEF Splices
  <1>11. /\ \A i \in 1..Len(d) : all[Len(a) + Len(b) + i] = d[i]
         /\ \A i \in 1..Len(e) : all[Len(a) + Len(b) + Len(d) + i] = e[i]
    BY <1>5, <1>9, <1>10
  <1>12. QED
    BY <1>4, <1>5, <1>7, <1>8, <1>11 DEF FourParts

UndoOf(rm, og, mv, md) ==
  Tagged("mkdir", Reverse(rm)) \o Tagged("restore", SetToSeq(DOMAIN og))
    \o Tagged("moveback", Reverse(mv)) \o Tagged("rmmade", Reverse(md))

Listing(og) == SetToSeq(DOMAIN og)

Journal(rm, og, mv, md) ==
  /\ rm \in Seq(Paths) /\ md \in Seq(Paths) /\ mv \in Seq(MoveRecords)
  /\ IsFiniteSet(DOMAIN og) /\ DOMAIN og \subseteq Paths

UndoLaidOut(U, rm, og, mv, md) ==
  LET n1 == Len(rm)
      n2 == Len(Listing(og))
      n3 == Len(mv)
      n4 == Len(md)
  IN  /\ U \in Seq(TypedSteps) /\ Len(U) = n1 + n2 + n3 + n4
      /\ \A i \in 1..n1 : U[i] = [op |-> "mkdir", arg |-> rm[n1 + 1 - i]]
      /\ \A i \in 1..n2 : U[n1 + i] = [op |-> "restore", arg |-> Listing(og)[i]]
      /\ \A i \in 1..n3 : U[n1 + n2 + i] = [op |-> "moveback", arg |-> mv[n3 + 1 - i]]
      /\ \A i \in 1..n4 : U[n1 + n2 + n3 + i] = [op |-> "rmmade", arg |-> md[n4 + 1 - i]]

LEMMA UndoStepsAre ==
  ASSUME NEW rm, NEW og, NEW mv, NEW md, Journal(rm, og, mv, md)
  PROVE  UndoLaidOut(UndoOf(rm, og, mv, md), rm, og, mv, md)
  <1> DEFINE a == Tagged("mkdir", Reverse(rm))
             b == Tagged("restore", Listing(og))
             d == Tagged("moveback", Reverse(mv))
             e == Tagged("rmmade", Reverse(md))
  <1>1. /\ rm \in Seq(Paths) /\ md \in Seq(Paths) /\ mv \in Seq(MoveRecords)
        /\ IsFiniteSet(DOMAIN og) /\ DOMAIN og \subseteq Paths
    BY DEF Journal
  <1>2. /\ [op : {"mkdir"}, arg : Paths] \subseteq TypedSteps
        /\ [op : {"rmmade"}, arg : Paths] \subseteq TypedSteps
        /\ [op : {"restore"}, arg : DOMAIN og] \subseteq TypedSteps
        /\ [op : {"moveback"}, arg : MoveRecords] \subseteq TypedSteps
    BY <1>1 DEF TypedSteps
  <1>3. /\ Reverse(rm) \in Seq(Paths) /\ Len(Reverse(rm)) = Len(rm)
        /\ \A i \in 1..Len(rm) : Reverse(rm)[i] = rm[Len(rm) + 1 - i]
    BY <1>1, ReverseIs
  <1>4. /\ Reverse(md) \in Seq(Paths) /\ Len(Reverse(md)) = Len(md)
        /\ \A i \in 1..Len(md) : Reverse(md)[i] = md[Len(md) + 1 - i]
    BY <1>1, ReverseIs
  <1>5. /\ Reverse(mv) \in Seq(MoveRecords) /\ Len(Reverse(mv)) = Len(mv)
        /\ \A i \in 1..Len(mv) : Reverse(mv)[i] = mv[Len(mv) + 1 - i]
    BY <1>1, ReverseIs
  <1>6. Listing(og) \in Seq(DOMAIN og)
    BY <1>1, Listed DEF Listing
  <1>7. /\ a \in Seq(TypedSteps) /\ Len(a) = Len(Reverse(rm))
        /\ \A i \in 1..Len(Reverse(rm)) : a[i] = [op |-> "mkdir", arg |-> Reverse(rm)[i]]
    BY <1>2, <1>3, TaggedIs
  <1>8. /\ b \in Seq(TypedSteps) /\ Len(b) = Len(Listing(og))
        /\ \A i \in 1..Len(Listing(og)) : b[i] = [op |-> "restore", arg |-> Listing(og)[i]]
    BY <1>2, <1>6, TaggedIs
  <1>9. /\ d \in Seq(TypedSteps) /\ Len(d) = Len(Reverse(mv))
        /\ \A i \in 1..Len(Reverse(mv)) : d[i] = [op |-> "moveback", arg |-> Reverse(mv)[i]]
    BY <1>2, <1>5, TaggedIs
  <1>10. /\ e \in Seq(TypedSteps) /\ Len(e) = Len(Reverse(md))
         /\ \A i \in 1..Len(Reverse(md)) : e[i] = [op |-> "rmmade", arg |-> Reverse(md)[i]]
    BY <1>2, <1>4, TaggedIs
  <1>11. UndoOf(rm, og, mv, md) = ((a \o b) \o d) \o e
    BY DEF UndoOf, Listing
  <1> HIDE DEF a, b, d, e
  <1>12. PICK ab, abd, U : /\ IsConcat(ab, a, b) /\ IsConcat(abd, ab, d) /\ IsConcat(U, abd, e)
                           /\ U = UndoOf(rm, og, mv, md)
    BY <1>11 DEF IsConcat
  <1>13. a \in Seq(TypedSteps) /\ b \in Seq(TypedSteps) /\ d \in Seq(TypedSteps) /\ e \in Seq(TypedSteps)
    BY <1>7, <1>8, <1>9, <1>10
  <1>14. U \in Seq(TypedSteps) /\ FourParts(U, a, b, d, e)
    BY <1>12, <1>13, FourJoined
  <1>15. /\ Len(U) = Len(a) + Len(b) + Len(d) + Len(e)
         /\ \A i \in 1..Len(a) : U[i] = a[i]
         /\ \A i \in 1..Len(b) : U[Len(a) + i] = b[i]
         /\ \A i \in 1..Len(d) : U[Len(a) + Len(b) + i] = d[i]
         /\ \A i \in 1..Len(e) : U[Len(a) + Len(b) + Len(d) + i] = e[i]
    BY <1>14 DEF FourParts
  <1>16. /\ Len(a) = Len(rm) /\ Len(b) = Len(Listing(og)) /\ Len(d) = Len(mv) /\ Len(e) = Len(md)
    BY <1>3, <1>4, <1>5, <1>7, <1>8, <1>9, <1>10
  <1>17. \A i \in 1..Len(rm) : U[i] = [op |-> "mkdir", arg |-> rm[Len(rm) + 1 - i]]
    <2>1. \A i \in 1..Len(rm) : a[i] = [op |-> "mkdir", arg |-> rm[Len(rm) + 1 - i]]
      BY <1>3, <1>7
    <2>2. QED
      BY <1>15, <1>16, <2>1
  <1>18. \A i \in 1..Len(Listing(og)) :
           U[Len(rm) + i] = [op |-> "restore", arg |-> Listing(og)[i]]
    BY <1>8, <1>15, <1>16
  <1>19. \A i \in 1..Len(mv) :
           U[Len(rm) + Len(Listing(og)) + i] = [op |-> "moveback", arg |-> mv[Len(mv) + 1 - i]]
    BY <1>5, <1>9, <1>15, <1>16
  <1>20. \A i \in 1..Len(md) :
           U[Len(rm) + Len(Listing(og)) + Len(mv) + i] = [op |-> "rmmade", arg |-> md[Len(md) + 1 - i]]
    BY <1>4, <1>10, <1>15, <1>16
  <1>21. Len(U) = Len(rm) + Len(Listing(og)) + Len(mv) + Len(md)
    BY <1>15, <1>16
  <1>22. QED
    BY <1>12, <1>14, <1>17, <1>18, <1>19, <1>20, <1>21 DEF UndoLaidOut

(* t is what is left of the sequence of steps S.                           *)
IsRest(t, S) ==
  /\ t \in Seq(TypedSteps) /\ S \in Seq(TypedSteps) /\ Len(t) <= Len(S)
  /\ \A i \in 1..Len(t) : t[i] = S[Len(S) - Len(t) + i]
Taken(t, S) == Len(S) - Len(t)

LEMMA AllIsRest ==
  ASSUME NEW S \in Seq(TypedSteps)
  PROVE  IsRest(S, S) /\ Taken(S, S) = 0
  <1>1. Len(S) \in Nat
    BY LenProperties
  <1>2. \A i \in 1..Len(S) : Len(S) - Len(S) + i = i
    BY <1>1
  <1>3. QED
    BY <1>1, <1>2 DEF IsRest, Taken

LEMMA NextOfRest ==
  ASSUME NEW S, NEW t, IsRest(t, S), t # << >>
  PROVE  /\ Taken(t, S) \in Nat /\ Taken(t, S) + 1 \in 1..Len(S) /\ Len(S) \in Nat
         /\ Head(t) = S[Taken(t, S) + 1] /\ Head(t) \in TypedSteps
         /\ IsRest(Tail(t), S) /\ Taken(Tail(t), S) = Taken(t, S) + 1
         /\ Tail(t) = << >> <=> Taken(t, S) + 1 = Len(S)
  <1>1. /\ t \in Seq(TypedSteps) /\ S \in Seq(TypedSteps) /\ Len(t) <= Len(S)
        /\ \A i \in 1..Len(t) : t[i] = S[Len(S) - Len(t) + i]
    BY DEF IsRest
  <1>2. Len(t) \in Nat \ {0} /\ Len(S) \in Nat
    BY <1>1, LenProperties, EmptySeq
  <1>3. /\ Head(t) \in TypedSteps /\ Tail(t) \in Seq(TypedSteps) /\ Head(t) = t[1]
        /\ Len(Tail(t)) = Len(t) - 1 /\ \A i \in 1..Len(Tail(t)) : Tail(t)[i] = t[i + 1]
    BY <1>1, HeadTailProperties
  <1>4. Head(t) = S[Taken(t, S) + 1]
    BY <1>1, <1>2, <1>3 DEF Taken
  <1>5. \A i \in 1..Len(Tail(t)) : Tail(t)[i] = S[Len(S) - Len(Tail(t)) + i]
    <2>1. ASSUME NEW i \in 1..Len(Tail(t)) PROVE Tail(t)[i] = S[Len(S) - Len(Tail(t)) + i]
      <3>1. i + 1 \in 1..Len(t) /\ Len(S) - Len(t) + (i + 1) = Len(S) - Len(Tail(t)) + i
        BY <1>2, <1>3
      <3>2. QED
        BY <1>1, <1>3, <3>1
    <2>2. QED
      BY <2>1
  <1>6. Len(Tail(t)) <= Len(S) /\ Len(Tail(t)) \in Nat
    BY <1>1, <1>2, <1>3
  <1>7. IsRest(Tail(t), S)
    BY <1>1, <1>3, <1>5, <1>6 DEF IsRest
  <1>8. /\ Taken(t, S) \in Nat /\ Taken(t, S) + 1 \in 1..Len(S)
        /\ Taken(Tail(t), S) = Taken(t, S) + 1
    BY <1>1, <1>2, <1>3 DEF Taken
  <1>9. Tail(t) = << >> <=> Len(Tail(t)) = 0
    BY <1>3, EmptySeq
  <1>10. Len(Tail(t)) = 0 <=> Taken(t, S) + 1 = Len(S)
    BY <1>2, <1>3 DEF Taken
  <1>11. QED
    BY <1>2, <1>3, <1>4, <1>7, <1>8, <1>9, <1>10

(* Where the step after the k-th is among a moves, one reading, b writes,  *)
(* d deletes, e removed directories and the body, n steps altogether.      *)
PartAt(k, a, b, d, e, n) ==
  /\ k < a => k + 1 \in 1..a /\ k + 1 # n /\ ~(k >= a)
  /\ k = a => k >= a /\ k + 1 # n
  /\ k > a /\ k <= a + b =>
       k - a \in 1..b /\ k + 1 = a + 1 + (k - a) /\ k >= a /\ k + 1 # n
  /\ k > a + b /\ k <= a + b + d =>
       k - a - b \in 1..d /\ k + 1 = a + 1 + b + (k - a - b) /\ k >= a /\ k + 1 # n
  /\ k > a + b + d /\ k <= a + b + d + e =>
       /\ k - a - b - d \in 1..e /\ k + 1 = a + 1 + b + d + (k - a - b - d)
       /\ k >= a /\ k + 1 # n
  /\ k > a + b + d + e => k + 1 = n /\ k = a + b + d + e + 1 /\ k >= a

LEMMA PartIs ==
  ASSUME NEW k \in Nat, NEW a \in Nat, NEW b \in Nat, NEW d \in Nat, NEW e \in Nat, NEW n \in Nat,
         n = a + b + d + e + 2, k + 1 <= n
  PROVE  PartAt(k, a, b, d, e, n)
  <1>1. k < a => k + 1 \in 1..a /\ k + 1 # n /\ ~(k >= a)
    OBVIOUS
  <1>2. k = a => k >= a /\ k + 1 # n
    OBVIOUS
  <1>3. k > a /\ k <= a + b => k - a \in 1..b /\ k + 1 = a + 1 + (k - a) /\ k >= a /\ k + 1 # n
    OBVIOUS
  <1>4. k > a + b /\ k <= a + b + d =>
          k - a - b \in 1..d /\ k + 1 = a + 1 + b + (k - a - b) /\ k >= a /\ k + 1 # n
    OBVIOUS
  <1>5. k > a + b + d /\ k <= a + b + d + e =>
          /\ k - a - b - d \in 1..e /\ k + 1 = a + 1 + b + d + (k - a - b - d)
          /\ k >= a /\ k + 1 # n
    OBVIOUS
  <1>6. k > a + b + d + e => k + 1 = n /\ k = a + b + d + e + 1 /\ k >= a
    OBVIOUS
  <1>7. QED
    BY <1>1, <1>2, <1>3, <1>4, <1>5, <1>6 DEF PartAt

(* Which step comes when k steps are taken.                                *)
LEMMA StepIs ==
  ASSUME NEW c \in AllChangeSets, NEW k \in Nat, k + 1 \in 1..Len(Steps(c)),
         NEW s, s = Steps(c)[k + 1]
  PROVE  /\ s.op = "move" => k + 1 \in 1..Nm(c) /\ s.arg = c.moves[k + 1]
         /\ s.op # "move" => k >= Nm(c)
         /\ s.op = "read" => k = Nm(c) /\ s.arg = c
         /\ s.op = "write" => k - Nm(c) \in 1..Nw(c) /\ s.arg = c.writes[k - Nm(c)]
         /\ s.op = "delete" => /\ k - Nm(c) - Nw(c) \in 1..Nd(c)
                               /\ s.arg = c.deletes[k - Nm(c) - Nw(c)]
         /\ s.op = "rmdir" => /\ k - Nm(c) - Nw(c) - Nd(c) \in 1..Nr(c)
                              /\ s.arg = c.rmdirs[k - Nm(c) - Nw(c) - Nd(c)]
         /\ s.op = "body" => k = Nm(c) + Nw(c) + Nd(c) + Nr(c) + 1
         /\ s.op \in {"move", "read", "write", "delete", "rmdir", "body"}
         /\ k + 1 = Len(Steps(c)) <=> s.op = "body"
  <1> DEFINE S == Steps(c)
  <1>1. /\ Nm(c) \in Nat /\ Nw(c) \in Nat /\ Nd(c) \in Nat /\ Nr(c) \in Nat
    BY ChangeSetIs
  <1>2. /\ Len(S) = Nm(c) + Nw(c) + Nd(c) + Nr(c) + 2
        /\ \A i \in 1..Nm(c) : S[i] = [op |-> "move", arg |-> c.moves[i]]
        /\ S[Nm(c) + 1] = [op |-> "read", arg |-> c]
        /\ \A i \in 1..Nw(c) : S[Nm(c) + 1 + i] = [op |-> "write", arg |-> c.writes[i]]
        /\ \A i \in 1..Nd(c) : S[Nm(c) + 1 + Nw(c) + i] = [op |-> "delete", arg |-> c.deletes[i]]
        /\ \A i \in 1..Nr(c) :
             S[Nm(c) + 1 + Nw(c) + Nd(c) + i] = [op |-> "rmdir", arg |-> c.rmdirs[i]]
        /\ S[Len(S)] = [op |-> "body", arg |-> c]
    BY StepsAre
  <1>3. k + 1 \in 1..Len(S) /\ s = S[k + 1]
    OBVIOUS
  <1> HIDE DEF S
  <1>4. PartAt(k, Nm(c), Nw(c), Nd(c), Nr(c), Len(S))
    <2>1. Len(S) = Nm(c) + Nw(c) + Nd(c) + Nr(c) + 2
      BY <1>2
    <2>2. Len(S) \in Nat
      BY <1>1, <2>1
    <2>3. k + 1 <= Len(S)
      BY <1>3, <2>2
    <2>4. QED
      BY <1>1, <2>1, <2>2, <2>3, PartIs
  <1>5. CASE k < Nm(c)
    <2>1. k + 1 \in 1..Nm(c) /\ k + 1 # Len(S) /\ ~(k >= Nm(c))
      BY <1>5, <1>4 DEF PartAt
    <2>2. s = [op |-> "move", arg |-> c.moves[k + 1]]
      BY <1>2, <1>3, <2>1
    <2>3. QED
      BY <2>1, <2>2 DEF S
  <1>6. CASE k = Nm(c)
    <2>1. k >= Nm(c) /\ k + 1 # Len(S)
      BY <1>6, <1>4 DEF PartAt
    <2>2. s = [op |-> "read", arg |-> c]
      BY <1>2, <1>3, <1>6
    <2>3. QED
      BY <1>6, <2>1, <2>2 DEF S
  <1>7. CASE k > Nm(c) /\ k <= Nm(c) + Nw(c)
    <2> DEFINE i == k - Nm(c)
    <2>1. i \in 1..Nw(c) /\ k + 1 = Nm(c) + 1 + i /\ k >= Nm(c) /\ k + 1 # Len(S)
      BY <1>7, <1>4 DEF PartAt
    <2>2. s = [op |-> "write", arg |-> c.writes[i]]
      <3> HIDE DEF i
      <3>1. QED
        BY <1>2, <1>3, <2>1
    <2>3. QED
      BY <2>1, <2>2 DEF S
  <1>8. CASE k > Nm(c) + Nw(c) /\ k <= Nm(c) + Nw(c) + Nd(c)
    <2> DEFINE i == k - Nm(c) - Nw(c)
    <2>1. i \in 1..Nd(c) /\ k + 1 = Nm(c) + 1 + Nw(c) + i /\ k >= Nm(c) /\ k + 1 # Len(S)
      BY <1>8, <1>4 DEF PartAt
    <2>2. s = [op |-> "delete", arg |-> c.deletes[i]]
      <3> HIDE DEF i
      <3>1. QED
        BY <1>2, <1>3, <2>1
    <2>3. QED
      BY <2>1, <2>2 DEF S
  <1>9. CASE k > Nm(c) + Nw(c) + Nd(c) /\ k <= Nm(c) + Nw(c) + Nd(c) + Nr(c)
    <2> DEFINE i == k - Nm(c) - Nw(c) - Nd(c)
    <2>1. /\ i \in 1..Nr(c) /\ k + 1 = Nm(c) + 1 + Nw(c) + Nd(c) + i /\ k >= Nm(c)
          /\ k + 1 # Len(S)
      BY <1>9, <1>4 DEF PartAt
    <2>2. s = [op |-> "rmdir", arg |-> c.rmdirs[i]]
      <3> HIDE DEF i
      <3>1. QED
        BY <1>2, <1>3, <2>1
    <2>3. QED
      BY <2>1, <2>2 DEF S
  <1>10. CASE k > Nm(c) + Nw(c) + Nd(c) + Nr(c)
    <2>1. k + 1 = Len(S) /\ k = Nm(c) + Nw(c) + Nd(c) + Nr(c) + 1 /\ k >= Nm(c)
      BY <1>10, <1>4 DEF PartAt
    <2>2. s = [op |-> "body", arg |-> c]
      BY <1>2, <1>3, <2>1
    <2>3. QED
      BY <2>1, <2>2 DEF S
  <1>11. QED
    BY <1>1, <1>5, <1>6, <1>7, <1>8, <1>9, <1>10

UndoStepAt(s, k, rm, og, mv, md) ==
  LET n1 == Len(rm)
      n2 == Len(Listing(og))
      n3 == Len(mv)
      n4 == Len(md)
  IN  /\ n1 \in Nat /\ n2 \in Nat /\ n3 \in Nat /\ n4 \in Nat
      /\ s.op = "mkdir" => k + 1 \in 1..n1 /\ n1 - k \in 1..n1 /\ s.arg = rm[n1 - k]
      /\ s.op = "restore" => k + 1 - n1 \in 1..n2 /\ s.arg = Listing(og)[k + 1 - n1]
      /\ s.op = "moveback" => /\ k + 1 - n1 - n2 \in 1..n3
                              /\ n1 + n2 + n3 - k \in 1..n3
                              /\ s.arg = mv[n1 + n2 + n3 - k]
      /\ s.op = "rmmade" => k >= n1 + n2 + n3 /\ \E i \in 1..n4 : s.arg = md[i]
      /\ s.op \in {"mkdir", "restore", "moveback", "rmmade"}

LEMMA UndoStepIs ==
  ASSUME NEW rm, NEW og, NEW mv, NEW md, Journal(rm, og, mv, md),
         NEW k \in Nat, k + 1 \in 1..Len(UndoOf(rm, og, mv, md)),
         NEW s, s = UndoOf(rm, og, mv, md)[k + 1]
  PROVE  UndoStepAt(s, k, rm, og, mv, md)
  <1> DEFINE n1 == Len(rm)
             n2 == Len(Listing(og))
             n3 == Len(mv)
             n4 == Len(md)
             U  == UndoOf(rm, og, mv, md)
  <1>1. n1 \in Nat /\ n2 \in Nat /\ n3 \in Nat /\ n4 \in Nat
    <2>1. Listing(og) \in Seq(DOMAIN og)
      BY Listed DEF Journal, Listing
    <2>2. QED
      BY <2>1, LenProperties DEF Journal
  <1>2. /\ Len(U) = n1 + n2 + n3 + n4
        /\ \A i \in 1..n1 : U[i] = [op |-> "mkdir", arg |-> rm[n1 + 1 - i]]
        /\ \A i \in 1..n2 : U[n1 + i] = [op |-> "restore", arg |-> Listing(og)[i]]
        /\ \A i \in 1..n3 : U[n1 + n2 + i] = [op |-> "moveback", arg |-> mv[n3 + 1 - i]]
        /\ \A i \in 1..n4 : U[n1 + n2 + n3 + i] = [op |-> "rmmade", arg |-> md[n4 + 1 - i]]
    BY UndoStepsAre DEF UndoLaidOut
  <1>3. k + 1 \in 1..Len(U) /\ s = U[k + 1]
    OBVIOUS
  <1> HIDE DEF U, n1, n2, n3, n4
  <1>4. CASE k < n1
    <2>1. k + 1 \in 1..n1 /\ n1 - k \in 1..n1 /\ n1 + 1 - (k + 1) = n1 - k
      BY <1>1, <1>4
    <2>2. s = [op |-> "mkdir", arg |-> rm[n1 - k]]
      BY <1>2, <1>3, <2>1
    <2>3. QED
      BY <1>1, <2>1, <2>2 DEF n1, n2, n3, n4, UndoStepAt
  <1>5. CASE k >= n1 /\ k < n1 + n2
    <2> DEFINE i == k + 1 - n1
    <2>1. i \in 1..n2 /\ k + 1 = n1 + i
      BY <1>1, <1>5
    <2>2. s = [op |-> "restore", arg |-> Listing(og)[i]]
      <3> HIDE DEF i
      <3>1. QED
        BY <1>2, <1>3, <2>1
    <2>3. QED
      BY <1>1, <2>1, <2>2 DEF n1, n2, n3, n4, UndoStepAt
  <1>6. CASE k >= n1 + n2 /\ k < n1 + n2 + n3
    <2> DEFINE i == k + 1 - n1 - n2
               j == n1 + n2 + n3 - k
    <2>1. i \in 1..n3 /\ k + 1 = n1 + n2 + i /\ n3 + 1 - i = j /\ j \in 1..n3
      BY <1>1, <1>6
    <2>2. s = [op |-> "moveback", arg |-> mv[j]]
      <3> HIDE DEF i, j
      <3>1. QED
        BY <1>2, <1>3, <2>1
    <2>3. QED
      BY <1>1, <2>1, <2>2 DEF n1, n2, n3, n4, UndoStepAt
  <1>7. CASE k >= n1 + n2 + n3
    <2> DEFINE i == k + 1 - n1 - n2 - n3
               j == n4 + 1 - i
    <2>1. i \in 1..n4 /\ k + 1 = n1 + n2 + n3 + i /\ n4 + 1 - i = j /\ j \in 1..n4
      BY <1>1, <1>2, <1>3, <1>7
    <2>2. s = [op |-> "rmmade", arg |-> md[j]]
      <3> HIDE DEF i, j
      <3>1. QED
        BY <1>2, <1>3, <2>1
    <2>3. QED
      BY <1>1, <1>7, <2>1, <2>2 DEF n1, n2, n3, n4, UndoStepAt
  <1>8. QED
    BY <1>1, <1>4, <1>5, <1>6, <1>7
----------------------------------------------------------------------------
(* Types                                                                   *)
LEMMA MaxIsIn ==
  ASSUME NEW n \in Nat, NEW S, S \subseteq 0..n, S # {}
  PROVE  Max(S) \in S
  <1> DEFINE T == {n - x : x \in S}
             R == {p \in Nat \X Nat : p[1] < p[2]}
  <1>1. T \subseteq Nat /\ T # {}
    <2>1. \A x \in S : n - x \in Nat
      OBVIOUS
    <2>2. QED
      BY <2>1
  <1>2. IsWellFoundedOn(R, Nat)
    BY NatLessThanWellFounded DEF OpToRel
  <1> HIDE DEF R
  <1>3. PICK x \in T : \A y \in T : ~ (<<y, x>> \in R)
    BY <1>1, <1>2, WFMin
  <1>4. \A y \in T : x <= y
    <2>1. ASSUME NEW y \in T PROVE x <= y
      <3>1. x \in Nat /\ y \in Nat /\ ~(<<y, x>> \in R)
        BY <1>1, <1>3
      <3>2. ~(y < x)
        BY <3>1 DEF R
      <3>3. QED
        BY <3>1, <3>2
    <2>2. QED
      BY <2>1
  <1>5. PICK m \in S : x = n - m
    OBVIOUS
  <1>6. \A y \in S : m >= y
    <2>1. ASSUME NEW y \in S PROVE m >= y
      <3>1. n - y \in T
        OBVIOUS
      <3>2. n - m <= n - y /\ m \in Nat /\ y \in Nat
        BY <1>4, <1>5, <3>1
      <3>3. QED
        BY <3>2
    <2>2. QED
      BY <2>1
  <1>7. QED
    BY <1>6 DEF Max

(* The directories a move makes are paths.                                 *)
LEMMA NewDirsArePaths ==
  ASSUME NEW m \in MoveRecords
  PROVE  NewDirs(m) \in Seq(Paths)
  <1> DEFINE g == m.target
             there == {n \in 0..(Len(g) - 1) : IsDir(tree, SubSeq(g, 1, n))}
  <1>1. g \in Paths /\ Len(g) \in Nat \ {0} /\ \A n \in 1..Len(g) : SubSeq(g, 1, n) \in Paths
    BY PathsAreSeqs, PathsAssumption DEF MoveRecords
  <1>2. SubSeq(g, 1, 0) = << >>
    BY <1>1
  <1>3. 0 \in there
    BY <1>1, <1>2 DEF IsDir
  <1> HIDE DEF g
  <1>4. there \subseteq 0..(Len(g) - 1) /\ there # {} /\ Len(g) - 1 \in Nat
    BY <1>1, <1>3
  <1> DEFINE n == Max(there)
  <1>5. n \in 0..(Len(g) - 1)
    <2> HIDE DEF there
    <2>1. QED
      BY <1>4, MaxIsIn
  <1>6. NewDirs(m) = [i \in 1..(Len(g) - 1 - n) |-> SubSeq(g, 1, n + i)]
    BY DEF NewDirs, g
  <1> HIDE DEF n
  <1>7. Len(g) - 1 - n \in Nat /\ \A i \in 1..(Len(g) - 1 - n) : n + i \in 1..Len(g)
    BY <1>1, <1>5
  <1>8. NewDirs(m) \in [1..(Len(g) - 1 - n) -> Paths]
    BY <1>1, <1>6, <1>7
  <1>9. QED
    BY <1>7, <1>8, FunctionIsSeq

Stages == {"idle", "planned", "ready"} \union Locked \union Ended

TreesTyped == tree \in Trees /\ Coherent(tree) /\ before \in Trees /\ Coherent(before)
StagesTyped ==
  /\ pc \in [Writers -> Stages] /\ lock \in Writers \union {NoLock}
  /\ lock # NoLock => pc[lock] \in Locked \union {"killed"}
PlansTyped ==
  \A w \in Writers : /\ cs[w] \in ChangeSets[w] \union {NoChange}
                     /\ pc[w] # "idle" => cs[w] \in ChangeSets[w]
JournalTyped ==
  /\ Journal(removed, originals, moved, made)
  /\ \A p \in DOMAIN originals : originals[p] \in Contents \union {Absent}
  /\ \A i \in 1..Len(moved) : ~Related(moved[i].source, moved[i].target)
BoundsTyped ==
  /\ edits \in 0..MaxEdits /\ kills \in 0..MaxKills /\ calm \in BOOLEAN
  /\ calm => edits = 0 /\ kills = 0

(* What is left to do are the last steps of the set, or of its undoing.    *)
Valid(c) == \A i \in 1..Nm(c) : ~Related(c.moves[i].source, c.moves[i].target)
TodoTyped ==
  \A w \in Writers :
    /\ pc[w] = "run" => todo # << >> /\ IsRest(todo, Steps(cs[w])) /\ Valid(cs[w])
    /\ pc[w] = "undo" => IsRest(todo, UndoOf(removed, originals, moved, made))

Typing == TreesTyped /\ StagesTyped /\ PlansTyped /\ JournalTyped /\ BoundsTyped /\ TodoTyped

LEMMA EmptyJournal ==
  /\ Journal(<< >>, NoDigests, << >>, << >>)
  /\ \A p \in DOMAIN NoDigests : NoDigests[p] \in Contents \union {Absent}
  /\ \A m : \A i \in 1..Len(<< >>) : m
  <1>1. DOMAIN NoDigests = {}
    BY DEF NoDigests
  <1>2. IsFiniteSet({})
    BY FS_EmptySet
  <1>3. QED
    BY <1>1, <1>2, EmptySeq DEF Journal

LEMMA InitTyping == Init => Typing
  <1> SUFFICES ASSUME Init PROVE Typing
    OBVIOUS
  <1>1. TreesTyped
    BY VaultsAssumption DEF Init, TreesTyped, Trees
  <1>2. StagesTyped
    BY DEF Init, StagesTyped, Stages
  <1>3. PlansTyped
    BY DEF Init, PlansTyped
  <1>4. JournalTyped
    BY EmptyJournal DEF Init, JournalTyped
  <1>5. BoundsTyped
    BY VaultsAssumption DEF Init, BoundsTyped
  <1>6. TodoTyped
    BY DEF Init, TodoTyped
  <1>7. QED
    BY <1>1, <1>2, <1>3, <1>4, <1>5, <1>6 DEF Typing

(* The step of the change set that comes next.                             *)
LEMMA RunStep ==
  ASSUME Typing, NEW w \in Writers, pc[w] = "run"
  PROVE  LET c == cs[w]
             k == Taken(todo, Steps(c))
             s == Head(todo)
         IN  /\ c \in AllChangeSets /\ k \in Nat /\ k + 1 \in 1..Len(Steps(c)) /\ Valid(c)
             /\ IsRest(Tail(todo), Steps(c)) /\ Taken(Tail(todo), Steps(c)) = k + 1
             /\ s = Steps(c)[k + 1] /\ s \in TypedSteps
             /\ s.op # "body" => Tail(todo) # << >>
             /\ s.op = "move" => s.arg \in MoveRecords /\ ~Related(s.arg.source, s.arg.target)
             /\ s.op = "read" => s.arg = c
             /\ s.op = "write" => s.arg \in WriteRecords
             /\ s.op \in {"delete", "rmdir"} => s.arg \in Paths
  <1> DEFINE c == cs[w]
             k == Taken(todo, Steps(c))
             s == Head(todo)
  <1>1. c \in AllChangeSets /\ todo # << >> /\ IsRest(todo, Steps(c)) /\ Valid(c)
    BY DEF Typing, PlansTyped, TodoTyped, AllChangeSets
  <1>2. /\ k \in Nat /\ k + 1 \in 1..Len(Steps(c)) /\ s = Steps(c)[k + 1] /\ s \in TypedSteps
        /\ IsRest(Tail(todo), Steps(c)) /\ Taken(Tail(todo), Steps(c)) = k + 1
        /\ Tail(todo) = << >> <=> k + 1 = Len(Steps(c))
    BY <1>1, NextOfRest
  <1> HIDE DEF c, k, s
  <1>3. /\ s.op = "move" => k + 1 \in 1..Nm(c) /\ s.arg = c.moves[k + 1]
        /\ s.op = "read" => s.arg = c
        /\ s.op = "write" => k - Nm(c) \in 1..Nw(c) /\ s.arg = c.writes[k - Nm(c)]
        /\ s.op = "delete" => /\ k - Nm(c) - Nw(c) \in 1..Nd(c)
                              /\ s.arg = c.deletes[k - Nm(c) - Nw(c)]
        /\ s.op = "rmdir" => /\ k - Nm(c) - Nw(c) - Nd(c) \in 1..Nr(c)
                             /\ s.arg = c.rmdirs[k - Nm(c) - Nw(c) - Nd(c)]
        /\ k + 1 = Len(Steps(c)) <=> s.op = "body"
    BY <1>1, <1>2, StepIs
  <1>4. /\ s.op = "move" => s.arg \in MoveRecords /\ ~Related(s.arg.source, s.arg.target)
        /\ s.op = "write" => s.arg \in WriteRecords
        /\ s.op \in {"delete", "rmdir"} => s.arg \in Paths
    BY <1>1, <1>3, ChangeSetIs DEF Valid
  <1>5. QED
    BY <1>1, <1>2, <1>3, <1>4 DEF c, k, s

LEMMA UndoStep ==
  ASSUME Typing, NEW w \in Writers, pc[w] = "undo", todo # << >>
  PROVE  LET U == UndoOf(removed, originals, moved, made)
             k == Taken(todo, U)
             s == Head(todo)
         IN  /\ k \in Nat /\ k + 1 \in 1..Len(U) /\ s = U[k + 1]
             /\ IsRest(Tail(todo), U) /\ Taken(Tail(todo), U) = k + 1
             /\ s.op = "restore" => s.arg \in DOMAIN originals
             /\ s.op \in {"mkdir", "restore", "rmmade"} => s.arg \in Paths
             /\ s.op = "moveback" => s.arg \in MoveRecords /\ ~Related(s.arg.source, s.arg.target)
  <1> DEFINE U == UndoOf(removed, originals, moved, made)
             k == Taken(todo, U)
             s == Head(todo)
  <1>1. /\ IsRest(todo, U) /\ Journal(removed, originals, moved, made)
        /\ \A i \in 1..Len(moved) : ~Related(moved[i].source, moved[i].target)
    BY DEF Typing, TodoTyped, JournalTyped
  <1>2. /\ k \in Nat /\ k + 1 \in 1..Len(U) /\ s = U[k + 1]
        /\ IsRest(Tail(todo), U) /\ Taken(Tail(todo), U) = k + 1
    BY <1>1, NextOfRest
  <1> DEFINE n1 == Len(removed)
             n2 == Len(Listing(originals))
             n3 == Len(moved)
             n4 == Len(made)
  <1>3. /\ s.op = "mkdir" => n1 - k \in 1..n1 /\ s.arg = removed[n1 - k]
        /\ s.op = "restore" => k + 1 - n1 \in 1..n2 /\ s.arg = Listing(originals)[k + 1 - n1]
        /\ s.op = "moveback" => n1 + n2 + n3 - k \in 1..n3 /\ s.arg = moved[n1 + n2 + n3 - k]
        /\ s.op = "rmmade" => \E i \in 1..n4 : s.arg = made[i]
    <2>1. UndoStepAt(s, k, removed, originals, moved, made)
      <3> HIDE DEF k, s
      <3>1. QED
        BY <1>1, <1>2, UndoStepIs
    <2>2. QED
      BY <2>1 DEF UndoStepAt
  <1>4. /\ removed \in Seq(Paths) /\ made \in Seq(Paths) /\ moved \in Seq(MoveRecords)
        /\ DOMAIN originals \subseteq Paths /\ Listing(originals) \in Seq(DOMAIN originals)
    BY <1>1, Listed DEF Journal, Listing
  <1> HIDE DEF U, k, s
  <1>5. /\ s.op = "restore" => s.arg \in DOMAIN originals
        /\ s.op \in {"mkdir", "restore", "rmmade"} => s.arg \in Paths
        /\ s.op = "moveback" => s.arg \in MoveRecords /\ ~Related(s.arg.source, s.arg.target)
    BY <1>1, <1>3, <1>4, ElementOfSeq
  <1>6. QED
    BY <1>2, <1>5 DEF U, k, s

(* A step of the change set is done: the rest stays to be done.            *)
LEMMA TakesStep ==
  ASSUME Typing, IInv, NEW w \in Writers, pc[w] = "run", Head(todo).op # "body",
         UNCHANGED <<lock, pc, planVars, historyVars>>, todo' = Tail(todo),
         tree' \in Trees, Coherent(tree'), JournalTyped'
  PROVE  Typing'
  <1>1. TreesTyped' /\ StagesTyped' /\ PlansTyped' /\ BoundsTyped'
    BY DEF Typing, TreesTyped, StagesTyped, PlansTyped, BoundsTyped, planVars, historyVars
  <1>2. TodoTyped'
    <2>1. IsRest(Tail(todo), Steps(cs[w])) /\ Tail(todo) # << >> /\ Valid(cs[w])
      BY RunStep
    <2>2. \A v \in Writers : (pc[v] = "run" => v = w) /\ pc[v] # "undo"
      BY DEF IInv, InsideHoldsLock, Locked
    <2>3. QED
      BY <2>1, <2>2 DEF TodoTyped, planVars
  <1>3. QED
    BY <1>1, <1>2 DEF Typing

(* A step fails: the compensation of what is in the journal begins.        *)
LEMMA StartsUndo ==
  ASSUME Typing, IInv, NEW w \in Writers, pc[w] = "run", pc' = [pc EXCEPT ![w] = "undo"],
         UNCHANGED <<lock, planVars, historyVars>>,
         todo' = UndoOf(removed', originals', moved', made'),
         tree' \in Trees, Coherent(tree'), JournalTyped'
  PROVE  Typing' /\ IsRest(todo', UndoOf(removed', originals', moved', made'))
         /\ Taken(todo', UndoOf(removed', originals', moved', made')) = 0
  <1>1. TreesTyped' /\ BoundsTyped'
    BY DEF Typing, TreesTyped, BoundsTyped, planVars, historyVars
  <1>2. StagesTyped' /\ PlansTyped'
    BY DEF Typing, StagesTyped, PlansTyped, planVars, Stages, Locked
  <1>3. IsRest(todo', UndoOf(removed', originals', moved', made'))
        /\ Taken(todo', UndoOf(removed', originals', moved', made')) = 0
    <2>1. UndoOf(removed', originals', moved', made') \in Seq(TypedSteps)
      BY UndoStepsAre DEF JournalTyped, UndoLaidOut
    <2>2. QED
      BY <2>1, AllIsRest
  <1>4. TodoTyped'
    <2>1. \A v \in Writers : pc'[v] # "run" /\ (pc'[v] = "undo" => v = w)
      BY DEF Typing, StagesTyped, IInv, InsideHoldsLock, Locked
    <2>2. QED
      BY <1>3, <2>1 DEF TodoTyped
  <1>5. QED
    BY <1>1, <1>2, <1>3, <1>4 DEF Typing

(* A step of the compensation is done.                                     *)
LEMMA UndoesStep ==
  ASSUME Typing, IInv, NEW w \in Writers, pc[w] = "undo", todo # << >>,
         UNCHANGED <<lock, pc, journalVars, planVars, historyVars>>, todo' = Tail(todo),
         tree' \in Trees, Coherent(tree')
  PROVE  Typing'
  <1>1. TreesTyped' /\ StagesTyped' /\ PlansTyped' /\ BoundsTyped' /\ JournalTyped'
    BY DEF Typing, TreesTyped, StagesTyped, PlansTyped, BoundsTyped, JournalTyped,
           planVars, historyVars, journalVars
  <1>2. TodoTyped'
    <2>1. IsRest(Tail(todo), UndoOf(removed, originals, moved, made))
      BY UndoStep
    <2>2. \A v \in Writers : pc[v] # "run"
      BY DEF IInv, InsideHoldsLock, Locked
    <2>3. QED
      BY <2>1, <2>2 DEF TodoTyped, planVars, journalVars
  <1>3. QED
    BY <1>1, <1>2 DEF Typing

(* A writer moves on, and neither runs nor undoes.                         *)
LEMMA MovesOn ==
  ASSUME Typing, IInv, NEW w \in Writers, NEW stage \in Stages \ {"run", "undo"},
         pc' = [pc EXCEPT ![w] = stage],
         UNCHANGED <<tree, journalVars, planVars, calm, edits>>,
         kills' = kills \/ (kills < MaxKills /\ kills' = kills + 1 /\ ~calm),
         before' = before \/ before' = tree,
         \/ todo' = todo
         \/ \A v \in Writers : pc'[v] \notin {"run", "undo"},
         stage = "idle" => pc[w] = "idle", pc[w] # "idle",
         \/ lock' = lock /\ (lock = w => stage \in Locked \union {"killed"})
         \/ lock' = NoLock
         \/ lock' = w /\ stage \in Locked
  PROVE  Typing'
  <1>1. TreesTyped' /\ JournalTyped'
    BY DEF Typing, TreesTyped, JournalTyped, journalVars
  <1>2. StagesTyped' /\ PlansTyped'
    BY DEF Typing, StagesTyped, PlansTyped, planVars
  <1>3. BoundsTyped'
    BY VaultsAssumption DEF Typing, BoundsTyped
  <1>4. TodoTyped'
    BY DEF Typing, StagesTyped, TodoTyped, planVars, journalVars
  <1>5. QED
    BY <1>1, <1>2, <1>3, <1>4 DEF Typing

LEMMA BeforeLockTyped ==
  ASSUME Typing, IInv, NEW w \in Writers, Plan(w) \/ TakeSnapshot(w)
  PROVE  Typing'
  <1>1. TreesTyped' /\ JournalTyped' /\ BoundsTyped'
    BY DEF Plan, TakeSnapshot, Typing, TreesTyped, JournalTyped, BoundsTyped, journalVars, historyVars
  <1>2. PICK stage \in {"planned", "ready"} : pc' = [pc EXCEPT ![w] = stage] /\ lock' = lock
    BY DEF Plan, TakeSnapshot, Goto
  <1>3. pc[w] \notin Locked \union {"killed"}
    BY DEF Plan, TakeSnapshot, Locked
  <1>4. StagesTyped'
    BY <1>2, <1>3 DEF Typing, StagesTyped, Stages
  <1>5. PlansTyped'
    <2>1. CASE Plan(w)
      <3>1. PICK c \in ChangeSets[w] : cs' = [cs EXCEPT ![w] = c]
        BY <2>1 DEF Plan
      <3>2. QED
        BY <1>2, <3>1 DEF Typing, StagesTyped, PlansTyped, IInv, Functions
    <2>2. CASE TakeSnapshot(w)
      BY <1>2, <2>2 DEF TakeSnapshot, Typing, StagesTyped, PlansTyped
    <2>3. QED
      BY <2>1, <2>2
  <1>6. TodoTyped'
    <2>1. \A v \in Writers : pc'[v] \in {"run", "undo"} => pc[v] = pc'[v] /\ cs'[v] = cs[v]
      <3>1. \A v \in Writers : pc'[v] \in {"run", "undo"} => pc[v] = pc'[v] /\ v # w
        BY <1>2 DEF Typing, StagesTyped
      <3>2. \A v \in Writers \ {w} : cs'[v] = cs[v]
        BY DEF Plan, TakeSnapshot, IInv, Functions
      <3>3. QED
        BY <3>1, <3>2
    <2>2. UNCHANGED <<todo, removed, originals, moved, made>>
      BY DEF Plan, TakeSnapshot, journalVars
    <2>3. QED
      BY <2>1, <2>2 DEF Typing, TodoTyped
  <1>7. QED
    BY <1>1, <1>4, <1>5, <1>6 DEF Typing

LEMMA LockTyped ==
  ASSUME Typing, IInv, NEW w \in Writers,
         \/ Acquire(w) \/ Compare(w) \/ HookRefuses(w) \/ Finish(w) \/ Kill(w) \/ Interrupt(w)
         \/ UndoDone(w) \/ UndoFails(w)
  PROVE  Typing'
  <1>1. /\ pc \in [Writers -> Stages] /\ (pc[w] \in Locked => lock = w)
        /\ (lock # NoLock => pc[lock] \in Locked \union {"killed"})
    BY DEF Typing, StagesTyped, IInv, InsideHoldsLock
  <1>2. CASE Acquire(w)
    <2>1. pc[w] = "ready" /\ lock # w
      BY <1>1, <1>2, NoLockAssumption DEF Acquire, Locked
    <2>2. QED
      BY <1>1, <1>2, <2>1, MovesOn DEF Acquire, Goto, Stages, Locked, Ended, historyVars
  <1>3. CASE Compare(w)
    BY <1>1, <1>3, MovesOn DEF Compare, Goto, Leave, Stages, Locked, Ended
  <1>4. CASE HookRefuses(w)
    BY <1>1, <1>4, MovesOn DEF HookRefuses, Goto, Leave, Stages, Locked, Ended, historyVars
  <1>5. CASE Finish(w)
    BY <1>1, <1>5, MovesOn DEF Finish, Goto, Leave, Stages, Locked, Ended, historyVars
  <1>6. CASE Kill(w)
    BY <1>1, <1>6, MovesOn DEF Kill, Goto, Leave, Stages, Locked, Ended, historyVars
  <1>7. CASE Interrupt(w)
    BY <1>1, <1>7, MovesOn DEF Interrupt, Goto, Leave, Stages, Locked, Ended, historyVars
  <1>8. CASE UndoDone(w)
    BY <1>1, <1>8, MovesOn DEF UndoDone, Goto, Leave, Stages, Locked, Ended, historyVars
  <1>9. CASE UndoFails(w)
    <2>1. \A v \in Writers \ {w} : pc[v] \notin {"run", "undo"}
      BY <1>9 DEF UndoFails, IInv, InsideHoldsLock, Locked
    <2>2. /\ pc[w] = "undo" /\ pc' = [pc EXCEPT ![w] = "torn"] /\ lock' = NoLock
          /\ UNCHANGED <<tree, journalVars, planVars, historyVars>>
      BY <1>9 DEF UndoFails, Leave, Goto
    <2>3. \A v \in Writers : pc'[v] \notin {"run", "undo"}
      BY <1>1, <2>1, <2>2
    <2>4. "torn" \in Stages \ {"run", "undo"}
      BY DEF Stages, Ended
    <2>5. QED
      BY <2>2, <2>3, <2>4, MovesOn DEF historyVars
  <1>10. QED
    BY <1>2, <1>3, <1>4, <1>5, <1>6, <1>7, <1>8, <1>9

LEMMA ContentPathsAre ==
  ASSUME NEW c \in AllChangeSets
  PROVE  /\ IsFiniteSet(ContentPaths(c)) /\ ContentPaths(c) \subseteq Paths
         /\ \A p : p \in ContentPaths(c) <=> \/ \E j \in 1..Nw(c) : c.writes[j].path = p
                                             \/ \E j \in 1..Nd(c) : c.deletes[j] = p
  <1> DEFINE W == {x.path : x \in Elements(c.writes)}
  <1>1. /\ IsFiniteSet(Elements(c.writes)) /\ IsFiniteSet(Elements(c.deletes))
        /\ Elements(c.writes) = {c.writes[i] : i \in 1..Nw(c)} /\ Elements(c.writes) \subseteq WriteRecords
        /\ Elements(c.deletes) = {c.deletes[i] : i \in 1..Nd(c)} /\ Elements(c.deletes) \subseteq Paths
    BY ChangeSetIs, SeqElementsFinite DEF Nw, Nd
  <1>2. IsFiniteSet(W)
    <2> DEFINE f == [x \in Elements(c.writes) |-> x.path]
    <2>1. f \in Surjection(Elements(c.writes), W)
      BY DEF Surjection
    <2> HIDE DEF f, W
    <2>2. QED
      BY <1>1, <2>1, FS_Surjection
  <1>3. ContentPaths(c) = W \union Elements(c.deletes)
    BY DEF ContentPaths
  <1>4. IsFiniteSet(ContentPaths(c))
    <2> DEFINE D == Elements(c.deletes)
    <2>1. IsFiniteSet(D)
      BY <1>1
    <2> HIDE DEF W, D
    <2>2. IsFiniteSet(W \union D)
      BY <1>2, <2>1, FS_Union
    <2>3. QED
      BY <1>3, <2>2 DEF D
  <1>5. ContentPaths(c) \subseteq Paths
    BY <1>1, <1>3 DEF WriteRecords
  <1>6. \A p : p \in ContentPaths(c) <=> \/ \E j \in 1..Nw(c) : c.writes[j].path = p
                                         \/ \E j \in 1..Nd(c) : c.deletes[j] = p
    BY <1>1, <1>3
  <1>7. QED
    BY <1>4, <1>5, <1>6

(* What each step of the change set does, as far as its types go.          *)
LEMMA MoveIsTyped ==
  ASSUME Typing, IInv, NEW w \in Writers, DoMove(w)
  PROVE  Typing'
  <1> DEFINE m == Head(todo).arg
             y == WithParents(tree, m.target)
  <1>1. /\ pc[w] = "run" /\ Head(todo).op = "move" /\ Reachable(tree, m.target)
        /\ CanRename(y, m.source, m.target) /\ tree' = Renamed(y, m.source, m.target)
        /\ made' = made \o NewDirs(m) /\ moved' = Append(moved, m) /\ todo' = Tail(todo)
        /\ UNCHANGED <<lock, pc, removed, originals, planVars, historyVars>>
    BY DEF DoMove, Running, Arg, Next1, Done1
  <1>2. m \in MoveRecords /\ m.source \in Paths /\ m.target \in Paths /\ ~Related(m.source, m.target)
    BY <1>1, RunStep DEF MoveRecords
  <1>3. y \in Trees /\ Coherent(y)
    BY <1>1, <1>2, ParentsMade DEF Typing, TreesTyped
  <1>4. tree' \in Trees /\ Coherent(tree')
    <2> HIDE DEF y
    <2>1. QED
      BY <1>1, <1>2, <1>3, PathRenamed DEF Related
  <1>5. JournalTyped'
    <2>1. /\ Journal(removed, originals, moved, made)
          /\ \A i \in 1..Len(moved) : ~Related(moved[i].source, moved[i].target)
      BY DEF Typing, JournalTyped
    <2>2. moved \in Seq(MoveRecords) /\ made \in Seq(Paths) /\ NewDirs(m) \in Seq(Paths)
      BY <1>2, <2>1, NewDirsArePaths DEF Journal
    <2>3. made' \in Seq(Paths)
      BY <1>1, <2>2, ConcatProperties
    <2>4. /\ Append(moved, m) \in Seq(MoveRecords) /\ Len(moved) \in Nat
          /\ Len(Append(moved, m)) = Len(moved) + 1
          /\ \A i \in 1..Len(moved) : Append(moved, m)[i] = moved[i]
          /\ Append(moved, m)[Len(moved) + 1] = m
      BY <1>2, <2>2, AppendProperties, LenProperties
    <2>5. \A i \in 1..Len(moved') : ~Related(moved'[i].source, moved'[i].target)
      <3>1. ASSUME NEW i \in 1..Len(moved') PROVE ~Related(moved'[i].source, moved'[i].target)
        <4>1. i \in 1..Len(moved) \/ i = Len(moved) + 1
          BY <1>1, <2>4
        <4>2. QED
          BY <1>1, <1>2, <2>1, <2>4, <4>1
      <3>2. QED
        BY <3>1
    <2>6. moved' \in Seq(MoveRecords)
      BY <1>1, <2>4
    <2>7. Journal(removed, originals, moved', made')
      BY <2>1, <2>3, <2>6 DEF Journal
    <2>8. QED
      BY <1>1, <2>5, <2>7 DEF Typing, JournalTyped
  <1>6. QED
    BY <1>1, <1>4, <1>5, TakesStep

LEMMA ReadIsTyped ==
  ASSUME Typing, IInv, NEW w \in Writers, ReadOriginals(w)
  PROVE  Typing'
  <1> DEFINE c == cs[w]
  <1>1. /\ pc[w] = "run" /\ Head(todo).op = "read" /\ todo' = Tail(todo)
        /\ originals' = [p \in ContentPaths(Head(todo).arg) |-> Digest(tree, p)]
        /\ UNCHANGED <<tree, lock, pc, moved, made, removed, planVars, historyVars>>
    BY DEF ReadOriginals, Running, Arg, Next1, Done1
  <1>2. c \in AllChangeSets /\ Head(todo).arg = c
    BY <1>1, RunStep
  <1>3. tree' \in Trees /\ Coherent(tree')
    BY <1>1 DEF Typing, TreesTyped
  <1>4. /\ originals' = [p \in ContentPaths(c) |-> Digest(tree, p)]
        /\ IsFiniteSet(ContentPaths(c)) /\ ContentPaths(c) \subseteq Paths
    BY <1>1, <1>2, ContentPathsAre
  <1>5. /\ DOMAIN originals' = ContentPaths(c)
        /\ \A p \in ContentPaths(c) : originals'[p] = Digest(tree, p)
    BY <1>4
  <1>6. \A p \in Paths : Digest(tree, p) \in Contents \union {Absent}
    BY DEF Typing, TreesTyped, Trees, Digest, IsFile
  <1>7. JournalTyped'
    <2>1. Journal(removed, originals', moved, made)
      BY <1>4, <1>5 DEF Typing, JournalTyped, Journal
    <2>2. QED
      BY <1>1, <1>4, <1>5, <1>6, <2>1 DEF Typing, JournalTyped
  <1>8. QED
    BY <1>1, <1>3, <1>7, TakesStep

LEMMA ChangeIsTyped ==
  ASSUME Typing, IInv, NEW w \in Writers, DoWrite(w) \/ DoDelete(w) \/ DoRmdir(w)
  PROVE  Typing'
  <1> DEFINE a == Head(todo).arg
  <1>1. /\ pc[w] = "run" /\ Head(todo).op \in {"write", "delete", "rmdir"} /\ todo' = Tail(todo)
        /\ UNCHANGED <<lock, pc, moved, made, originals, planVars, historyVars>>
    BY DEF DoWrite, DoDelete, DoRmdir, Running, Next1, Done1, journalVars
  <1>2. tree \in Trees /\ Coherent(tree)
    BY DEF Typing, TreesTyped
  <1>3. tree' \in Trees /\ Coherent(tree')
    <2>1. CASE DoWrite(w)
      <3>1. a \in WriteRecords /\ CanWrite(tree, a.path) /\ tree' = Written(tree, a.path, a.content)
        BY <1>1, <2>1, RunStep DEF DoWrite, Running, Next1, Arg
      <3>2. a.path \in Paths /\ a.content \in Contents
        BY <3>1 DEF WriteRecords
      <3>3. QED
        BY <1>2, <3>1, <3>2, FileWritten
    <2>2. CASE DoDelete(w) \/ DoRmdir(w)
      <3>1. /\ a \in Paths /\ tree' = [tree EXCEPT ![a] = Absent]
            /\ tree[a] # Dir \/ CanRmdir(tree, a)
        BY <1>1, <2>2, RunStep DEF DoDelete, DoRmdir, Running, Next1, Arg, CanUnlink
      <3>2. QED
        BY <1>2, <3>1, PathRemoved
    <2>3. QED
      BY <2>1, <2>2
  <1>4. JournalTyped'
    <2>1. removed \in Seq(Paths)
      BY DEF Typing, JournalTyped, Journal
    <2>2. CASE removed' = removed
      BY <1>1, <2>2 DEF Typing, JournalTyped
    <2>3. CASE removed' # removed
      <3>1. Head(todo).op = "rmdir" /\ removed' = Append(removed, a)
        BY <2>3 DEF DoWrite, DoDelete, DoRmdir, Running, Next1, Arg, journalVars
      <3>2. a \in Paths
        BY <1>1, <3>1, RunStep
      <3>3. removed' \in Seq(Paths)
        BY <2>1, <3>1, <3>2, AppendProperties
      <3>4. QED
        BY <1>1, <3>3 DEF Typing, JournalTyped, Journal
    <2>4. QED
      BY <2>2, <2>3
  <1>5. QED
    BY <1>1, <1>3, <1>4, TakesStep

LEMMA FailIsTyped ==
  ASSUME Typing, IInv, NEW w \in Writers, FailMove(w) \/ FailStep(w)
  PROVE  /\ Typing' /\ IsRest(todo', UndoOf(removed', originals', moved', made'))
         /\ Taken(todo', UndoOf(removed', originals', moved', made')) = 0
  <1>1. /\ pc[w] = "run" /\ pc' = [pc EXCEPT ![w] = "undo"]
        /\ UNCHANGED <<lock, moved, removed, originals, planVars, historyVars>>
    BY DEF FailMove, FailStep, Running, Goto, journalVars
  <1>2. tree \in Trees /\ Coherent(tree)
    BY DEF Typing, TreesTyped
  <1> DEFINE m == Head(todo).arg
  <1>3. todo' = UndoOf(removed', originals', moved', made')
    BY <1>1 DEF FailMove, FailStep, UndoSteps, UndoOf, Arg, journalVars
  <1>4. CASE FailMove(w)
    <2>1. m \in MoveRecords /\ m.target \in Paths
      BY <1>1, <1>4, RunStep DEF FailMove, Running, Next1, MoveRecords
    <2>2. \/ UNCHANGED <<tree, made>>
          \/ /\ Reachable(tree, m.target) /\ tree' = WithParents(tree, m.target)
             /\ made' = made \o NewDirs(m)
      BY <1>4 DEF FailMove, Arg
    <2>3. tree' \in Trees /\ Coherent(tree')
      BY <1>2, <2>1, <2>2, ParentsMade
    <2>4. made' \in Seq(Paths)
      <3>1. made \in Seq(Paths) /\ NewDirs(m) \in Seq(Paths)
        BY <2>1, NewDirsArePaths DEF Typing, JournalTyped, Journal
      <3>2. QED
        BY <2>2, <3>1, ConcatProperties
    <2>5. JournalTyped'
      BY <1>1, <2>4 DEF Typing, JournalTyped, Journal
    <2>6. QED
      BY <1>1, <1>3, <2>3, <2>5, StartsUndo
  <1>5. CASE FailStep(w)
    <2>1. JournalTyped'
      BY <1>5 DEF Typing, JournalTyped, FailStep, journalVars
    <2>2. \/ tree' = tree
          \/ Head(todo).op = "write" /\ Reachable(tree, m.path) /\ tree' = WithParents(tree, m.path)
      BY <1>5 DEF FailStep, Next1, Arg
    <2>3. Head(todo).op = "write" => m.path \in Paths
      BY <1>1, RunStep DEF WriteRecords
    <2>4. tree' \in Trees /\ Coherent(tree')
      BY <1>2, <2>2, <2>3, ParentsMade
    <2>5. QED
      BY <1>1, <1>3, <2>1, <2>4, StartsUndo
  <1>6. QED
    BY <1>4, <1>5

LEMMA UndoIsTyped ==
  ASSUME Typing, IInv, NEW w \in Writers,
         UndoRmdir(w) \/ UndoContent(w) \/ UndoMove(w) \/ UndoMadeDir(w)
  PROVE  Typing'
  <1> DEFINE a == Head(todo).arg
  <1>1. /\ pc[w] = "undo" /\ todo # << >> /\ todo' = Tail(todo)
        /\ UNCHANGED <<lock, pc, journalVars, planVars, historyVars>>
    BY DEF UndoRmdir, UndoContent, UndoMove, UndoMadeDir, Undoing, Done1
  <1>2. tree \in Trees /\ Coherent(tree)
    BY DEF Typing, TreesTyped
  <1>3. /\ Head(todo).op = "restore" => a \in DOMAIN originals
        /\ Head(todo).op \in {"mkdir", "restore", "rmmade"} => a \in Paths
        /\ Head(todo).op = "moveback" => a \in MoveRecords /\ ~Related(a.source, a.target)
    BY <1>1, UndoStep
  <1>4. tree' \in Trees /\ Coherent(tree')
    <2>1. CASE UndoRmdir(w)
      <3>1. a \in Paths /\ CanMkdir(tree, a) /\ tree' = [WithParents(tree, a) EXCEPT ![a] = Dir]
        BY <1>3, <2>1 DEF UndoRmdir, Undoing, Next1, Arg
      <3>2. QED
        BY <1>2, <3>1, DirectoryMade
    <2>2. CASE UndoContent(w)
      <3>1. a \in Paths /\ originals[a] \in Contents \union {Absent}
        BY <1>3, <2>2 DEF UndoContent, Undoing, Next1, Typing, JournalTyped
      <3>2. CASE originals[a] = Absent
        <4>1. tree' = [tree EXCEPT ![a] = Absent] /\ tree[a] # Dir
          BY <2>2, <3>2 DEF UndoContent, Arg, CanUnlink
        <4>2. QED
          BY <1>2, <3>1, <4>1, PathRemoved
      <3>3. CASE originals[a] # Absent
        <4>1. CanWrite(tree, a) /\ tree' = Written(tree, a, originals[a]) /\ originals[a] \in Contents
          BY <2>2, <3>1, <3>3 DEF UndoContent, Arg
        <4>2. QED
          BY <1>2, <3>1, <4>1, FileWritten
      <3>4. QED
        BY <3>2, <3>3
    <2>3. CASE UndoMove(w)
      <3>1. a.source \in Paths /\ a.target \in Paths /\ ~Related(a.source, a.target)
        BY <1>3, <2>3 DEF UndoMove, Undoing, Next1, MoveRecords
      <3>2. \/ tree' = tree
            \/ CanRename(tree, a.target, a.source) /\ tree' = Renamed(tree, a.target, a.source)
        BY <2>3 DEF UndoMove, Arg
      <3>3. QED
        BY <1>2, <3>1, <3>2, PathRenamed DEF Related
    <2>4. CASE UndoMadeDir(w)
      <3>1. a \in Paths /\ tree' = IF CanRmdir(tree, a) THEN [tree EXCEPT ![a] = Absent] ELSE tree
        BY <1>3, <2>4 DEF UndoMadeDir, Undoing, Next1, Arg
      <3>2. QED
        BY <1>2, <3>1, PathRemoved
    <2>5. QED
      BY <2>1, <2>2, <2>3, <2>4
  <1>5. QED
    BY <1>1, <1>4, UndoesStep

(* The moves are valid: nothing above or below each other.                 *)
LEMMA ValidatedIs ==
  ASSUME NEW c \in AllChangeSets, tree \in Trees, Coherent(tree),
         \A m \in Elements(c.moves) : ValidMove(m)
  PROVE  MovesPossible(c, tree) /\ Valid(c)
  <1>1. \A i \in 1..Nm(c) : /\ c.moves[i] \in Elements(c.moves)
                            /\ c.moves[i].source \in Paths /\ c.moves[i].target \in Paths
    <2>1. DOMAIN c.moves = 1..Nm(c)
      BY ChangeSetIs, LenProperties DEF Nm
    <2>2. QED
      BY <2>1, ChangeSetIs DEF Elements
  <1>2. ASSUME NEW i \in 1..Nm(c)
        PROVE  /\ tree[c.moves[i].source] # Absent /\ tree[c.moves[i].target] = Absent
               /\ ~Under(c.moves[i].target, c.moves[i].source)
    BY <1>1 DEF ValidMove, Exists
  <1>3. MovesPossible(c, tree)
    BY <1>2 DEF MovesPossible
  <1>4. ASSUME NEW i \in 1..Nm(c) PROVE ~Related(c.moves[i].source, c.moves[i].target)
    <2> DEFINE s == c.moves[i].source
               g == c.moves[i].target
    <2>1. s \in Paths /\ s \in Seq(Names) /\ Under(s, s) /\ EndsApart(c) /\ ~Under(g, s)
      BY <1>1, <1>2, <1>3, PathsAreSeqs, UnderItself, MovesAreApart
    <2>2. ~Under(s, g)
      BY <2>1 DEF EndsApart
    <2>3. QED
      BY <2>1, <2>2 DEF Related
  <1>5. QED
    BY <1>3, <1>4 DEF Valid

LEMMA ValidateIsTyped ==
  ASSUME Typing, IInv, NEW w \in Writers, ValidateMoves(w)
  PROVE  Typing'
  <1> DEFINE c == cs[w]
  <1>1. /\ pc \in [Writers -> Stages] /\ lock = w /\ pc[w] = "verified" /\ c \in AllChangeSets
        /\ tree \in Trees /\ Coherent(tree)
    BY DEF ValidateMoves, Typing, TreesTyped, StagesTyped, PlansTyped, IInv, InsideHoldsLock, Locked,
           AllChangeSets
  <1>2. CASE \A m \in Elements(c.moves) : ValidMove(m)
    <2>1. /\ pc' = [pc EXCEPT ![w] = "run"] /\ todo' = Steps(c)
          /\ moved' = << >> /\ made' = << >> /\ removed' = << >> /\ originals' = NoDigests
          /\ UNCHANGED <<tree, lock, planVars, historyVars>>
      BY <1>2 DEF ValidateMoves, Goto
    <2>2. TreesTyped' /\ StagesTyped' /\ PlansTyped' /\ BoundsTyped'
      BY <1>1, <2>1 DEF Typing, TreesTyped, StagesTyped, PlansTyped, BoundsTyped, planVars,
                        historyVars, Stages, Locked
    <2>3. JournalTyped'
      BY <2>1, EmptyJournal DEF JournalTyped
    <2>4. TodoTyped'
      <3>1. /\ Steps(c) \in Seq(TypedSteps)
            /\ Len(Steps(c)) = Nm(c) + Nw(c) + Nd(c) + Nr(c) + 2
        BY <1>1, StepsAre
      <3>2. Len(Steps(c)) # 0 /\ Steps(c) # << >>
        <4>1. Len(Steps(c)) # 0
          BY <1>1, <3>1, ChangeSetIs
        <4>2. QED
          BY <3>1, <4>1, EmptySeq
      <3>3. IsRest(Steps(c), Steps(c)) /\ Valid(c)
        BY <1>1, <1>2, <3>1, AllIsRest, ValidatedIs
      <3>4. \A v \in Writers : pc'[v] # "undo" /\ (pc'[v] = "run" => v = w)
        BY <1>1, <2>1 DEF IInv, InsideHoldsLock, Locked
      <3>5. QED
        BY <2>1, <3>2, <3>3, <3>4 DEF TodoTyped, planVars
    <2>5. QED
      BY <2>2, <2>3, <2>4 DEF Typing
  <1>3. CASE ~(\A m \in Elements(c.moves) : ValidMove(m))
    BY <1>1, <1>3, MovesOn DEF ValidateMoves, Leave, Goto, Stages, Ended, Locked, historyVars
  <1>4. QED
    BY <1>2, <1>3

LEMMA BodyIsTyped ==
  ASSUME Typing, IInv, NEW w \in Writers, DoBody(w)
  PROVE  Typing'
  <1>1. /\ pc \in [Writers -> Stages] /\ lock = w /\ pc[w] = "run" /\ pc' = [pc EXCEPT ![w] = "commit"]
        /\ UNCHANGED <<tree, lock, journalVars, planVars, historyVars>>
    BY DEF DoBody, Running, Goto, Typing, StagesTyped, IInv, InsideHoldsLock, Locked
  <1>2. \A v \in Writers : pc'[v] \notin {"run", "undo"}
    BY <1>1 DEF IInv, InsideHoldsLock, Locked
  <1>3. "commit" \in Stages \ {"run", "undo"} /\ "commit" \in Locked
    BY DEF Stages, Locked
  <1>4. QED
    BY <1>1, <1>2, <1>3, MovesOn DEF historyVars

LEMMA EditIsTyped ==
  ASSUME Typing, IInv, NEW p \in Paths, Edit(p)
  PROVE  Typing'
  <1>1. /\ ~calm /\ edits < MaxEdits /\ tree[p] # Dir /\ IsDir(tree, Front(p)) /\ edits' = edits + 1
        /\ UNCHANGED <<lock, pc, todo, journalVars, planVars, before, calm, kills>>
    BY DEF Edit
  <1>2. PICK content \in EditorText \union {Absent} : tree' = [tree EXCEPT ![p] = content]
    BY DEF Edit
  <1>3. tree \in Trees /\ Coherent(tree) /\ content \in Contents \union {Absent}
        /\ Dir # Absent /\ content # Dir
    BY VaultsAssumption, PathsAssumption DEF Typing, TreesTyped
  <1>4. tree' \in Trees /\ \A q \in Paths : tree'[q] = IF q = p THEN content ELSE tree[q]
    BY <1>2, <1>3 DEF Trees
  <1>5. Coherent(tree')
    <2>1. ASSUME NEW q \in Paths, tree'[q] # Absent, NEW d \in Ancestors(q) PROVE tree'[d] = Dir
      <3>1. d \in Paths
        BY DEF Ancestors
      <3>2. tree[d] = Dir
        <4>1. CASE q = p
          BY <1>1, <1>3, <2>1, <4>1, ParentIsEnough
        <4>2. CASE q # p
          BY <1>3, <1>4, <2>1, <4>2 DEF Coherent, Exists
        <4>3. QED
          BY <4>1, <4>2
      <3>3. QED
        BY <1>1, <1>4, <3>1, <3>2
    <2>2. QED
      BY <2>1 DEF Coherent, Exists
  <1>6. TreesTyped' /\ StagesTyped' /\ PlansTyped' /\ JournalTyped' /\ BoundsTyped' /\ TodoTyped'
    BY <1>1, <1>4, <1>5, VaultsAssumption
    DEF Typing, TreesTyped, StagesTyped, PlansTyped, JournalTyped, BoundsTyped, TodoTyped,
        journalVars, planVars
  <1>7. QED
    BY <1>6 DEF Typing

LEMMA StepTyping == Typing /\ IInv /\ [Next]_vars => Typing'
  <1> SUFFICES ASSUME Typing, IInv, [Next]_vars PROVE Typing'
    OBVIOUS
  <1>1. ASSUME NEW w \in Writers, WriterStep(w) PROVE Typing'
    BY <1>1, BeforeLockTyped, LockTyped, ValidateIsTyped, MoveIsTyped, ReadIsTyped, ChangeIsTyped,
       BodyIsTyped, FailIsTyped, UndoIsTyped
    DEF WriterStep
  <1>2. ASSUME NEW w \in Writers, Kill(w) \/ Interrupt(w) PROVE Typing'
    BY <1>2, LockTyped
  <1>3. ASSUME NEW p \in Paths, Edit(p) PROVE Typing'
    BY <1>3, EditIsTyped
  <1>4. CASE UNCHANGED vars
    BY <1>4 DEF vars, Typing, TreesTyped, StagesTyped, PlansTyped, JournalTyped, BoundsTyped, TodoTyped,
                planVars, journalVars, historyVars
  <1>5. QED
    BY <1>1, <1>2, <1>3, <1>4 DEF Next

LEMMA InvariantTyping == Spec => []Typing
  BY InitTyping, StepTyping, InvariantIInv, PTL DEF Spec

(* The tree stays a tree, only the holder of the lock is inside, and the   *)
(* journals of the transaction hold paths of the Vault.                    *)
THEOREM TypeCorrect == Spec => []TypeOK
  <1>1. IInv /\ Typing => TypeOK
    <2> SUFFICES ASSUME IInv, Typing PROVE TypeOK
      OBVIOUS
    <2>1. Elements(made) \union Elements(removed) \union DOMAIN originals \subseteq Paths
      BY SeqElementsFinite DEF Typing, JournalTyped, Journal
    <2>2. QED
      BY <2>1 DEF TypeOK, IInv, InsideHoldsLock, Typing, TreesTyped, StagesTyped, PlansTyped,
                  BoundsTyped, Trees, Stages
  <1>2. QED
    BY InvariantIInv, InvariantTyping, <1>1, PTL

----------------------------------------------------------------------------
(* What the executor has done after k steps of the change set c: the       *)
(* digest it means p to have, u being the tree after all the moves.        *)
Expected(c, k, u, p) ==
  IF \E j \in 1..Nd(c) : Nm(c) + 1 + Nw(c) + j <= k /\ c.deletes[j] = p THEN Absent
  ELSE IF \E j \in 1..Nw(c) : Nm(c) + 1 + j <= k /\ c.writes[j].path = p
       THEN c.writes[CHOOSE j \in 1..Nw(c) : c.writes[j].path = p].content
       ELSE Digest(u, p)

(* r moves are done and in the journal, and the directories are there that *)
(* the moved tree has, up to those of the journal.                         *)
Base(c, r, b, t, mv, rm) ==
  /\ MovesPossible(c, b) /\ r \in 0..Nm(c)
  /\ Len(mv) = r /\ \A i \in 1..r : mv[i] = c.moves[i]
  /\ \A p \in Elements(rm) : Clear(c, r, p)
  /\ KeepsDirs(t, MovedTree(c, r, b), Elements(rm)) /\ DirsClear(c, r, t)

(* Among the moves, and after them.                                        *)
Moving(c, k, b, t, mv, og, rm) ==
  /\ k <= Nm(c) /\ Base(c, k, b, t, mv, rm)
  /\ SameFiles(t, MovedTree(c, k, b), {})
  /\ og = NoDigests /\ rm = << >>
Changing(c, k, b, t, mv, og, rm) ==
  /\ k > Nm(c) /\ Base(c, Nm(c), b, t, mv, rm)
  /\ DOMAIN og = ContentPaths(c)
  /\ \A p \in ContentPaths(c) : og[p] = Digest(MovedTree(c, Nm(c), b), p)
  /\ \A p \in Paths : Digest(t, p) = Expected(c, k, MovedTree(c, Nm(c), b), p)
RunAt(c, k, b, t, mv, og, rm) ==
  Moving(c, k, b, t, mv, og, rm) \/ Changing(c, k, b, t, mv, og, rm)

LEMMA NothingIn == Elements(<< >>) = {}
  BY DEF Elements

LEMMA TargetsAreClear ==
  ASSUME NEW c \in AllChangeSets, NEW b, MovesPossible(c, b), NEW r \in 0..Nm(c), r < Nm(c),
         NEW d \in Ancestors(c.moves[r + 1].target)
  PROVE  Clear(c, r, d)
  <1>1. c.moves[r + 1].target \in Paths /\ MovesApart(c) /\ Nm(c) \in Nat
    BY ChangeSetIs
  <1>2. DOMAIN c.moves = 1..Nm(c)
    BY ChangeSetIs DEF Nm
  <1>3. Clear(c, r, c.moves[r + 1].target)
    BY <1>1, <1>2 DEF MovesApart, Clear
  <1>4. QED
    BY <1>1, <1>3, AboveIsClear

LEMMA MoveGoesOn ==
  ASSUME NEW c \in AllChangeSets, NEW k \in Nat, k < Nm(c), NEW b, NEW t \in Trees, Coherent(t),
         NEW mv \in Seq(MoveRecords), NEW og, NEW rm, Moving(c, k, b, t, mv, og, rm),
         NEW m, m = c.moves[k + 1], Reachable(t, m.target),
         CanRename(WithParents(t, m.target), m.source, m.target)
  PROVE  Moving(c, k + 1, b, Renamed(WithParents(t, m.target), m.source, m.target),
                Append(mv, m), og, rm)
  <1> DEFINE v == Renamed(WithParents(t, m.target), m.source, m.target)
  <1>1. /\ MovesPossible(c, b) /\ k \in 0..Nm(c) /\ SameFiles(t, MovedTree(c, k, b), {})
        /\ KeepsDirs(t, MovedTree(c, k, b), {}) /\ DirsClear(c, k, t) /\ rm = << >> /\ og = NoDigests
        /\ Len(mv) = k /\ \A i \in 1..k : mv[i] = c.moves[i]
    BY NothingIn DEF Moving, Base
  <1>2. /\ SameFiles(v, MovedTree(c, k + 1, b), {}) /\ KeepsDirs(v, MovedTree(c, k + 1, b), {})
        /\ DirsClear(c, k + 1, v)
    BY <1>1, MovedForth
  <1>3. k + 1 \in 0..Nm(c) /\ k + 1 <= Nm(c)
    BY <1>1, ChangeSetIs
  <1>4. m \in MoveRecords
    BY <1>3, ChangeSetIs
  <1>5. Len(Append(mv, m)) = k + 1 /\ \A i \in 1..(k + 1) : Append(mv, m)[i] = c.moves[i]
    BY <1>1, <1>4
  <1> HIDE DEF v
  <1>6. Base(c, k + 1, b, v, Append(mv, m), rm)
    BY <1>1, <1>2, <1>3, <1>5, NothingIn DEF Base
  <1>7. QED
    BY <1>1, <1>2, <1>3, <1>6 DEF Moving, v

LEMMA ReadGoesOn ==
  ASSUME NEW c \in AllChangeSets, NEW b, NEW t \in Trees, NEW mv, NEW og, NEW rm,
         Moving(c, Nm(c), b, t, mv, og, rm)
  PROVE  Changing(c, Nm(c) + 1, b, t, mv, [p \in ContentPaths(c) |-> Digest(t, p)], rm)
  <1> DEFINE u == MovedTree(c, Nm(c), b)
             o == [p \in ContentPaths(c) |-> Digest(t, p)]
  <1>1. Base(c, Nm(c), b, t, mv, rm) /\ SameFiles(t, u, {})
    BY DEF Moving
  <1>2. Nm(c) \in Nat /\ Nw(c) \in Nat /\ Nd(c) \in Nat /\ ContentPaths(c) \subseteq Paths
    BY ChangeSetIs, ContentPathsAre
  <1>3. \A p \in Paths : Digest(t, p) = Digest(u, p)
    BY <1>1 DEF SameFiles
  <1>4. \A p \in Paths : Expected(c, Nm(c) + 1, u, p) = Digest(u, p)
    <2> HIDE DEF u
    <2>1. QED
      BY <1>2 DEF Expected
  <1> HIDE DEF u
  <1>5. DOMAIN o = ContentPaths(c) /\ \A p \in ContentPaths(c) : o[p] = Digest(u, p)
    BY <1>2, <1>3
  <1> HIDE DEF o
  <1>6. QED
    BY <1>1, <1>2, <1>3, <1>4, <1>5 DEF Changing, u, o

(* What one more step adds to what is expected.                            *)
LEMMA ExpectedAfterWrite ==
  ASSUME NEW c \in AllChangeSets, NEW k \in Nat, k - Nm(c) \in 1..Nw(c), NEW u, NEW p
  PROVE  Expected(c, k + 1, u, p) = IF c.writes[k - Nm(c)].path = p THEN c.writes[k - Nm(c)].content
                                    ELSE Expected(c, k, u, p)
  <1> DEFINE j == k - Nm(c)
  <1>1. Nm(c) \in Nat /\ Nw(c) \in Nat /\ Nd(c) \in Nat /\ j \in 1..Nw(c)
    BY ChangeSetIs
  <1>2. \A i \in 1..Nw(c) : c.writes[i].path = c.writes[j].path => i = j
    BY <1>1, ChangeSetIs DEF WritesApart, Nw
  <1>3. \A i \in 1..Nd(c) : ~(Nm(c) + 1 + Nw(c) + i <= k + 1) /\ ~(Nm(c) + 1 + Nw(c) + i <= k)
    BY <1>1
  <1>4. \A i \in 1..Nw(c) : Nm(c) + 1 + i <= k + 1 <=> Nm(c) + 1 + i <= k \/ i = j
    BY <1>1
  <1>5. Nm(c) + 1 + j <= k + 1
    BY <1>1
  <1> HIDE DEF j
  <1>6. CASE c.writes[j].path = p
    <2>1. (CHOOSE i \in 1..Nw(c) : c.writes[i].path = p) = j
      BY <1>1, <1>2, <1>6
    <2>2. Expected(c, k + 1, u, p) = c.writes[j].content
      BY <1>1, <1>3, <1>5, <1>6, <2>1 DEF Expected
    <2>3. QED
      BY <1>6, <2>2 DEF j
  <1>7. CASE c.writes[j].path # p
    <2>1. (\E i \in 1..Nw(c) : Nm(c) + 1 + i <= k + 1 /\ c.writes[i].path = p)
            <=> (\E i \in 1..Nw(c) : Nm(c) + 1 + i <= k /\ c.writes[i].path = p)
      BY <1>4, <1>7
    <2>2. Expected(c, k + 1, u, p) = Expected(c, k, u, p)
      BY <1>3, <2>1 DEF Expected
    <2>3. QED
      BY <1>7, <2>2 DEF j
  <1>8. QED
    BY <1>6, <1>7

LEMMA ExpectedAfterDelete ==
  ASSUME NEW c \in AllChangeSets, NEW k \in Nat, k - Nm(c) - Nw(c) \in 1..Nd(c), NEW u, NEW p
  PROVE  Expected(c, k + 1, u, p) = IF c.deletes[k - Nm(c) - Nw(c)] = p THEN Absent
                                    ELSE Expected(c, k, u, p)
  <1> DEFINE j == k - Nm(c) - Nw(c)
  <1>1. Nm(c) \in Nat /\ Nw(c) \in Nat /\ Nd(c) \in Nat /\ j \in 1..Nd(c)
    BY ChangeSetIs
  <1>2. \A i \in 1..Nw(c) : Nm(c) + 1 + i <= k + 1 /\ Nm(c) + 1 + i <= k
    BY <1>1
  <1>3. \A i \in 1..Nd(c) : Nm(c) + 1 + Nw(c) + i <= k + 1 <=> Nm(c) + 1 + Nw(c) + i <= k \/ i = j
    BY <1>1
  <1>4. Nm(c) + 1 + Nw(c) + j <= k + 1
    BY <1>1
  <1> HIDE DEF j
  <1>5. CASE c.deletes[j] = p
    <2>1. Expected(c, k + 1, u, p) = Absent
      BY <1>1, <1>4, <1>5 DEF Expected
    <2>2. QED
      BY <1>5, <2>1 DEF j
  <1>6. CASE c.deletes[j] # p
    <2>1. (\E i \in 1..Nd(c) : Nm(c) + 1 + Nw(c) + i <= k + 1 /\ c.deletes[i] = p)
            <=> (\E i \in 1..Nd(c) : Nm(c) + 1 + Nw(c) + i <= k /\ c.deletes[i] = p)
      BY <1>3, <1>6
    <2>2. (\E i \in 1..Nw(c) : Nm(c) + 1 + i <= k + 1 /\ c.writes[i].path = p)
            <=> (\E i \in 1..Nw(c) : Nm(c) + 1 + i <= k /\ c.writes[i].path = p)
      BY <1>2
    <2>3. Expected(c, k + 1, u, p) = Expected(c, k, u, p)
      BY <2>1, <2>2 DEF Expected
    <2>4. QED
      BY <1>6, <2>3 DEF j
  <1>7. QED
    BY <1>5, <1>6

(* What is expected when all contents are written and deleted.             *)
Final(c, u, p) ==
  IF \E j \in 1..Nd(c) : c.deletes[j] = p THEN Absent
  ELSE IF \E j \in 1..Nw(c) : c.writes[j].path = p
       THEN c.writes[CHOOSE j \in 1..Nw(c) : c.writes[j].path = p].content
       ELSE Digest(u, p)

LEMMA ExpectedAtLast ==
  ASSUME NEW c \in AllChangeSets, NEW k \in Nat, k > Nm(c) + Nw(c) + Nd(c), NEW u, NEW p
  PROVE  Expected(c, k, u, p) = Final(c, u, p)
  <1>1. Nm(c) \in Nat /\ Nw(c) \in Nat /\ Nd(c) \in Nat
    BY ChangeSetIs
  <1>2. \A j \in 1..Nw(c) : Nm(c) + 1 + j <= k
    BY <1>1
  <1>3. \A j \in 1..Nd(c) : Nm(c) + 1 + Nw(c) + j <= k
    BY <1>1
  <1>4. QED
    BY <1>2, <1>3 DEF Expected, Final

(* The paths above what is written have not been moved away.               *)
LEMMA AboveWritesIsClear ==
  ASSUME NEW c \in AllChangeSets, NEW j \in 1..Nw(c), NEW d \in Ancestors(c.writes[j].path)
  PROVE  Clear(c, Nm(c), d)
  <1> DEFINE p == c.writes[j].path
  <1>1. p \in Paths /\ WritesApart(c) /\ d \in Paths /\ d # p /\ Under(p, d)
    BY ChangeSetIs DEF Ancestors
  <1>2. SUFFICES ASSUME NEW i \in 1..Nm(c), Under(d, c.moves[i].source)
                 PROVE  FALSE
    BY DEF Clear
  <1> DEFINE s == c.moves[i].source
  <1>3. s \in Paths /\ c.moves[i] \in Elements(c.moves) /\ c.writes[j] \in Elements(c.writes)
    <2>1. c.moves \in Seq(MoveRecords) /\ c.writes \in Seq(WriteRecords) /\ s \in Paths
      BY ChangeSetIs
    <2>2. i \in DOMAIN c.moves /\ j \in DOMAIN c.writes
      BY <1>2, <2>1 DEF Nm, Nw
    <2>3. QED
      BY <2>1, <2>2 DEF Elements
  <1>4. p \in Seq(Names) /\ d \in Seq(Names) /\ s \in Seq(Names)
    BY <1>1, <1>3, PathsAreSeqs
  <1>5. Under(p, s)
    BY <1>1, <1>2, <1>4, UnderIsTransitive
  <1>6. p = s
    BY <1>1, <1>3, <1>5 DEF WritesApart
  <1>7. p = d
    BY <1>1, <1>2, <1>4, <1>6, UnderEachOther
  <1>8. QED
    BY <1>1, <1>7

LEMMA BaseIs ==
  ASSUME NEW c, NEW r, NEW b, NEW t, NEW mv, NEW rm, Base(c, r, b, t, mv, rm)
  PROVE  /\ MovesPossible(c, b) /\ r \in 0..Nm(c)
         /\ \A p \in Elements(rm) : Clear(c, r, p)
         /\ KeepsDirs(t, MovedTree(c, r, b), Elements(rm)) /\ DirsClear(c, r, t)
  BY DEF Base

LEMMA BaseOfAnother ==
  ASSUME NEW c, NEW r, NEW b, NEW t, NEW mv, NEW rm, Base(c, r, b, t, mv, rm), NEW v,
         KeepsDirs(v, MovedTree(c, r, b), Elements(rm)), DirsClear(c, r, v)
  PROVE  Base(c, r, b, v, mv, rm)
  BY DEF Base

LEMMA WriteGoesOn ==
  ASSUME NEW c \in AllChangeSets, NEW k \in Nat, k - Nm(c) \in 1..Nw(c), NEW b,
         NEW t \in Trees, Coherent(t), NEW mv, NEW og, NEW rm, Changing(c, k, b, t, mv, og, rm),
         NEW x, x = c.writes[k - Nm(c)], CanWrite(t, x.path)
  PROVE  Changing(c, k + 1, b, Written(t, x.path, x.content), mv, og, rm)
  <1> DEFINE v == Written(t, x.path, x.content)
             u == MovedTree(c, Nm(c), b)
  <1>1. /\ Base(c, Nm(c), b, t, mv, rm) /\ k > Nm(c) /\ DOMAIN og = ContentPaths(c)
        /\ \A p \in ContentPaths(c) : og[p] = Digest(u, p)
        /\ \A p \in Paths : Digest(t, p) = Expected(c, k, u, p)
    BY DEF Changing
  <1>2. x.path \in Paths /\ x.content \in Contents /\ Nm(c) \in Nat
    BY ChangeSetIs
  <1>3. /\ v \in Trees /\ v[x.path] = x.content
        /\ \A q \in Paths \ {x.path} :
             v[q] = t[q] \/ (q \in Ancestors(x.path) /\ t[q] = Absent /\ v[q] = Dir)
    BY <1>2, FileWritten
  <1>4. \A d \in Ancestors(x.path) : Clear(c, Nm(c), d)
    BY AboveWritesIsClear
  <1>5. KeepsDirs(t, u, Elements(rm)) /\ DirsClear(c, Nm(c), t)
    BY <1>1, BaseIs
  <1>6. x.content # Dir /\ x.content # Absent /\ Dir # Absent /\ t[x.path] # Dir
    BY <1>2, VaultsAssumption, PathsAssumption DEF CanWrite
  <1> HIDE DEF v, u
  <1>7. \A q \in Paths : Digest(v, q) = IF x.path = q THEN x.content ELSE Digest(t, q)
    BY <1>3, <1>6 DEF Digest, IsFile
  <1>8. \A q \in Paths : Digest(v, q) = Expected(c, k + 1, u, q)
    BY <1>1, <1>7, ExpectedAfterWrite
  <1>9. KeepsDirs(v, u, Elements(rm)) \/ u[x.path] = Dir
    BY <1>3, <1>5, <1>6 DEF KeepsDirs
  <1>10. KeepsDirs(v, u, Elements(rm))
    <2>1. SUFFICES ASSUME u[x.path] = Dir, x.path \notin Elements(rm)
                   PROVE  FALSE
      BY <1>3, <1>5, <1>6 DEF KeepsDirs
    <2>2. QED
      BY <1>2, <1>5, <1>6, <2>1 DEF KeepsDirs
  <1>11. DirsClear(c, Nm(c), v)
    BY <1>3, <1>4, <1>5, <1>6 DEF DirsClear
  <1>12. Base(c, Nm(c), b, v, mv, rm)
    BY <1>1, <1>10, <1>11, BaseOfAnother DEF u
  <1>13. k + 1 > Nm(c)
    BY <1>1, <1>2
  <1>14. QED
    BY <1>1, <1>8, <1>12, <1>13 DEF Changing, v, u

LEMMA DeleteGoesOn ==
  ASSUME NEW c \in AllChangeSets, NEW k \in Nat, k - Nm(c) - Nw(c) \in 1..Nd(c), NEW b,
         NEW t \in Trees, Coherent(t), NEW mv, NEW og, NEW rm, Changing(c, k, b, t, mv, og, rm),
         NEW x, x = c.deletes[k - Nm(c) - Nw(c)], CanUnlink(t, x)
  PROVE  Changing(c, k + 1, b, [t EXCEPT ![x] = Absent], mv, og, rm)
  <1> DEFINE v == [t EXCEPT ![x] = Absent]
             u == MovedTree(c, Nm(c), b)
  <1>1. /\ Base(c, Nm(c), b, t, mv, rm) /\ k > Nm(c) /\ DOMAIN og = ContentPaths(c)
        /\ \A p \in ContentPaths(c) : og[p] = Digest(u, p)
        /\ \A p \in Paths : Digest(t, p) = Expected(c, k, u, p)
    BY DEF Changing
  <1>2. x \in Paths /\ Nm(c) \in Nat
    BY ChangeSetIs
  <1>3. v[x] = Absent /\ \A q \in Paths \ {x} : v[q] = t[q]
    BY <1>2 DEF Trees
  <1>4. KeepsDirs(t, u, Elements(rm)) /\ DirsClear(c, Nm(c), t)
    BY <1>1, BaseIs
  <1>5. Dir # Absent /\ t[x] # Dir
    BY PathsAssumption DEF CanUnlink
  <1> HIDE DEF v, u
  <1>6. \A q \in Paths : Digest(v, q) = IF x = q THEN Absent ELSE Digest(t, q)
    BY <1>3, <1>5 DEF Digest, IsFile
  <1>7. \A q \in Paths : Digest(v, q) = Expected(c, k + 1, u, q)
    BY <1>1, <1>6, ExpectedAfterDelete
  <1>8. KeepsDirs(v, u, Elements(rm)) /\ DirsClear(c, Nm(c), v)
    BY <1>2, <1>3, <1>4, <1>5 DEF KeepsDirs, DirsClear
  <1>9. Base(c, Nm(c), b, v, mv, rm)
    BY <1>1, <1>8, BaseOfAnother DEF u
  <1>10. k + 1 > Nm(c)
    BY <1>1, <1>2
  <1>11. QED
    BY <1>1, <1>7, <1>9, <1>10 DEF Changing, v, u

LEMMA ElementsOfAppend ==
  ASSUME NEW S, NEW s \in Seq(S), NEW x \in S
  PROVE  Elements(Append(s, x)) = Elements(s) \union {x}
  <1> DEFINE a == Append(s, x)
  <1>1. /\ DOMAIN a = 1..(Len(s) + 1) /\ DOMAIN s = 1..Len(s) /\ Len(s) \in Nat
        /\ a[Len(s) + 1] = x /\ \A i \in 1..Len(s) : a[i] = s[i]
    OBVIOUS
  <1> HIDE DEF a
  <1>2. \A i : i \in DOMAIN a <=> i \in DOMAIN s \/ i = Len(s) + 1
    BY <1>1
  <1>3. QED
    BY <1>1, <1>2 DEF Elements, a

LEMMA RmdirGoesOn ==
  ASSUME NEW c \in AllChangeSets, NEW k \in Nat, k - Nm(c) - Nw(c) - Nd(c) \in 1..Nr(c), NEW b,
         NEW t \in Trees, Coherent(t), NEW mv, NEW og, NEW rm \in Seq(Paths),
         Changing(c, k, b, t, mv, og, rm),
         NEW x, x = c.rmdirs[k - Nm(c) - Nw(c) - Nd(c)], CanRmdir(t, x)
  PROVE  Changing(c, k + 1, b, [t EXCEPT ![x] = Absent], mv, og, Append(rm, x))
  <1> DEFINE v == [t EXCEPT ![x] = Absent]
             u == MovedTree(c, Nm(c), b)
             R == Elements(Append(rm, x))
  <1>1. /\ Base(c, Nm(c), b, t, mv, rm) /\ k > Nm(c) /\ DOMAIN og = ContentPaths(c)
        /\ \A p \in ContentPaths(c) : og[p] = Digest(u, p)
        /\ \A p \in Paths : Digest(t, p) = Expected(c, k, u, p)
    BY DEF Changing
  <1>2. x \in Paths /\ Nm(c) \in Nat /\ Nw(c) \in Nat /\ Nd(c) \in Nat
    BY ChangeSetIs
  <1>3. v[x] = Absent /\ \A q \in Paths \ {x} : v[q] = t[q]
    BY <1>2 DEF Trees
  <1>4. /\ KeepsDirs(t, u, Elements(rm)) /\ DirsClear(c, Nm(c), t)
        /\ \A p \in Elements(rm) : Clear(c, Nm(c), p)
    BY <1>1, BaseIs
  <1>5. Dir # Absent /\ t[x] = Dir
    BY PathsAssumption DEF CanRmdir
  <1>6. R = Elements(rm) \union {x}
    BY <1>2, ElementsOfAppend
  <1> HIDE DEF v, u, R
  <1>7. \A q \in Paths : Digest(v, q) = Digest(t, q)
    BY <1>3, <1>5 DEF Digest, IsFile
  <1>8. \A q \in Paths : Digest(v, q) = Expected(c, k + 1, u, q)
    <2>1. k > Nm(c) + Nw(c) + Nd(c) /\ k + 1 \in Nat /\ k + 1 > Nm(c) + Nw(c) + Nd(c)
      BY <1>2, ChangeSetIs
    <2>2. ASSUME NEW q \in Paths
          PROVE  Expected(c, k + 1, u, q) = Expected(c, k, u, q)
      BY <2>1, ExpectedAtLast
    <2>3. QED
      BY <1>1, <1>7, <2>2
  <1>9. KeepsDirs(v, u, R) /\ DirsClear(c, Nm(c), v) /\ \A p \in R : Clear(c, Nm(c), p)
    BY <1>2, <1>3, <1>4, <1>5, <1>6 DEF KeepsDirs, DirsClear
  <1>10. Base(c, Nm(c), b, v, mv, Append(rm, x))
    BY <1>1, <1>9 DEF Base, u, R
  <1>11. k + 1 > Nm(c)
    BY <1>1, <1>2
  <1>12. QED
    BY <1>1, <1>8, <1>10, <1>11 DEF Changing, v, u

----------------------------------------------------------------------------
(* What the compensation has done after k of its steps: the contents and   *)
(* the removed directories that are still to come, then the moves, and at  *)
(* last the directories made for the moves.                                *)
Unrestored(k, rm, og) == {Listing(og)[j] : j \in {i \in 1..Len(Listing(og)) : Len(rm) + i > k}}
Unmade(k, rm) == {rm[Len(rm) + 1 - j] : j \in {i \in 1..Len(rm) : i > k}}

Undoable(c, b, mv, og, rm) ==
  /\ MovesPossible(c, b)
  /\ Len(mv) \in 0..Nm(c) /\ \A i \in 1..Len(mv) : mv[i] = c.moves[i]
  /\ \A p \in DOMAIN og : og[p] = Digest(MovedTree(c, Len(mv), b), p)
  /\ \A p \in Elements(rm) : Clear(c, Len(mv), p)

Restoring(c, k, b, t, mv, og, rm) ==
  LET u == MovedTree(c, Len(mv), b)
  IN  /\ k <= Len(rm) + Len(Listing(og))
      /\ SameFiles(t, u, Unrestored(k, rm, og)) /\ KeepsDirs(t, u, Unmade(k, rm))
      /\ DirsClear(c, Len(mv), t)
MovingBack(c, k, b, t, mv, og, rm) ==
  LET r == Len(rm) + Len(Listing(og)) + Len(mv) - k
      u == MovedTree(c, r, b)
  IN  /\ r \in 0..Len(mv)
      /\ SameFiles(t, u, {}) /\ KeepsDirs(t, u, {}) /\ DirsClear(c, r, t)
Tidying(k, b, t, mv, og, rm) ==
  k >= Len(rm) + Len(Listing(og)) + Len(mv) /\ SameFiles(t, b, {})

UndoAt(c, k, b, t, mv, og, rm) ==
  /\ Undoable(c, b, mv, og, rm)
  /\ \/ Restoring(c, k, b, t, mv, og, rm)
     \/ MovingBack(c, k, b, t, mv, og, rm)
     \/ Tidying(k, b, t, mv, og, rm)

LEMMA LengthsOf ==
  ASSUME NEW rm, NEW og, NEW mv, NEW md, Journal(rm, og, mv, md)
  PROVE  /\ Len(rm) \in Nat /\ Len(Listing(og)) \in Nat /\ Len(mv) \in Nat /\ Len(md) \in Nat
         /\ Listing(og) \in Seq(DOMAIN og)
         /\ \A p \in DOMAIN og : \E j \in 1..Len(Listing(og)) : Listing(og)[j] = p
         /\ Elements(rm) = {rm[i] : i \in 1..Len(rm)} /\ Elements(rm) \subseteq Paths
  <1>1. rm \in Seq(Paths) /\ mv \in Seq(MoveRecords) /\ md \in Seq(Paths) /\ IsFiniteSet(DOMAIN og)
    BY DEF Journal
  <1>2. /\ Listing(og) \in Seq(DOMAIN og)
        /\ \A p \in DOMAIN og : \E j \in 1..Len(Listing(og)) : Listing(og)[j] = p
    BY <1>1, Listed DEF Listing
  <1>3. Elements(rm) = {rm[i] : i \in 1..Len(rm)} /\ Elements(rm) \subseteq Paths
    BY <1>1, SeqElementsFinite
  <1>4. Len(rm) \in Nat /\ Len(Listing(og)) \in Nat /\ Len(mv) \in Nat /\ Len(md) \in Nat
    BY <1>1, <1>2
  <1>5. QED
    BY <1>2, <1>3, <1>4

(* When a step fails, everything is to be undone.                          *)
LEMMA NothingUndone ==
  ASSUME NEW rm, NEW og, NEW mv, NEW md, Journal(rm, og, mv, md)
  PROVE  Unrestored(0, rm, og) = DOMAIN og /\ Unmade(0, rm) = Elements(rm)
  <1>1. /\ Len(rm) \in Nat /\ Len(Listing(og)) \in Nat /\ Listing(og) \in Seq(DOMAIN og)
        /\ \A p \in DOMAIN og : \E j \in 1..Len(Listing(og)) : Listing(og)[j] = p
        /\ Elements(rm) = {rm[i] : i \in 1..Len(rm)}
    BY LengthsOf
  <1>2. Unrestored(0, rm, og) = DOMAIN og
    <2> DEFINE L == Listing(og)
    <2>1. /\ \A j \in 1..Len(L) : L[j] \in DOMAIN og /\ Len(rm) + j > 0
      BY <1>1
    <2> HIDE DEF L
    <2>2. {L[j] : j \in {i \in 1..Len(L) : Len(rm) + i > 0}} = DOMAIN og
      BY <1>1, <2>1 DEF L
    <2>3. QED
      BY <2>2 DEF L, Unrestored
  <1>3. Unmade(0, rm) = Elements(rm)
    <2>1. \A i \in 1..Len(rm) : i > 0 /\ Len(rm) + 1 - i \in 1..Len(rm) /\ Len(rm) + 1 - (Len(rm) + 1 - i) = i
      BY <1>1
    <2>2. QED
      BY <1>1, <2>1 DEF Unmade
  <1>4. QED
    BY <1>2, <1>3

LEMMA AllRestored ==
  ASSUME NEW rm, NEW og, NEW mv, NEW md, Journal(rm, og, mv, md), NEW k \in Nat
  PROVE  /\ k >= Len(rm) + Len(Listing(og)) => Unrestored(k, rm, og) = {}
         /\ k >= Len(rm) => Unmade(k, rm) = {}
  <1>1. Len(rm) \in Nat /\ Len(Listing(og)) \in Nat
    BY LengthsOf
  <1>2. QED
    BY <1>1 DEF Unrestored, Unmade

(* One step of the compensation takes one path off what is to come.        *)
LEMMA OneMade ==
  ASSUME NEW rm, NEW og, NEW mv, NEW md, Journal(rm, og, mv, md), NEW k \in Nat, k + 1 \in 1..Len(rm)
  PROVE  /\ Unmade(k, rm) = Unmade(k + 1, rm) \union {rm[Len(rm) - k]}
         /\ Unrestored(k + 1, rm, og) = Unrestored(k, rm, og)
         /\ rm[Len(rm) - k] \in Elements(rm)
  <1>1. Len(rm) \in Nat /\ Len(Listing(og)) \in Nat /\ Elements(rm) = {rm[i] : i \in 1..Len(rm)}
    BY LengthsOf
  <1>2. /\ \A i \in 1..Len(rm) : i > k <=> i > k + 1 \/ i = k + 1
        /\ Len(rm) + 1 - (k + 1) = Len(rm) - k /\ Len(rm) - k \in 1..Len(rm)
    BY <1>1
  <1>3. \A i \in 1..Len(Listing(og)) : Len(rm) + i > k /\ Len(rm) + i > k + 1
    BY <1>1
  <1>4. Unmade(k, rm) = Unmade(k + 1, rm) \union {rm[Len(rm) - k]}
    BY <1>2 DEF Unmade
  <1>5. Unrestored(k + 1, rm, og) = Unrestored(k, rm, og)
    BY <1>3 DEF Unrestored
  <1>6. QED
    BY <1>1, <1>2, <1>4, <1>5

LEMMA OneRestored ==
  ASSUME NEW rm, NEW og, NEW mv, NEW md, Journal(rm, og, mv, md), NEW k \in Nat,
         k + 1 - Len(rm) \in 1..Len(Listing(og))
  PROVE  Unrestored(k, rm, og) = Unrestored(k + 1, rm, og) \union {Listing(og)[k + 1 - Len(rm)]}
  <1>1. Len(rm) \in Nat /\ Len(Listing(og)) \in Nat
    BY LengthsOf
  <1>2. \A i \in 1..Len(Listing(og)) : Len(rm) + i > k <=> Len(rm) + i > k + 1 \/ i = k + 1 - Len(rm)
    BY <1>1
  <1>3. QED
    BY <1>2 DEF Unrestored

LEMMA RestoringAtFirst ==
  ASSUME NEW rm, NEW og, NEW mv, NEW md, Journal(rm, og, mv, md), NEW c, NEW b, NEW t,
         Undoable(c, b, mv, og, rm), SameFiles(t, MovedTree(c, Len(mv), b), DOMAIN og),
         KeepsDirs(t, MovedTree(c, Len(mv), b), Elements(rm)), DirsClear(c, Len(mv), t)
  PROVE  UndoAt(c, 0, b, t, mv, og, rm)
  <1>1. Unrestored(0, rm, og) = DOMAIN og /\ Unmade(0, rm) = Elements(rm)
    BY NothingUndone
  <1>2. 0 <= Len(rm) + Len(Listing(og))
    BY LengthsOf
  <1>3. Restoring(c, 0, b, t, mv, og, rm)
    BY <1>1, <1>2 DEF Restoring
  <1>4. QED
    BY <1>3 DEF UndoAt

LEMMA NotWrittenNotExpected ==
  ASSUME NEW c \in AllChangeSets, NEW k, NEW u, NEW p, p \notin ContentPaths(c)
  PROVE  Expected(c, k, u, p) = Digest(u, p)
  BY ContentPathsAre DEF Expected

(* The state in which a step fails can be undone.                          *)
LEMMA MovingCanBeUndone ==
  ASSUME NEW rm, NEW og, NEW mv, NEW md, Journal(rm, og, mv, md),
         NEW c \in AllChangeSets, NEW k, NEW b, NEW t, Moving(c, k, b, t, mv, og, rm)
  PROVE  /\ Undoable(c, b, mv, og, rm) /\ Len(mv) = k /\ k \in 0..Nm(c)
         /\ SameFiles(t, MovedTree(c, k, b), DOMAIN og)
         /\ KeepsDirs(t, MovedTree(c, k, b), Elements(rm)) /\ DirsClear(c, k, t)
  <1>1. /\ Base(c, k, b, t, mv, rm) /\ SameFiles(t, MovedTree(c, k, b), {})
        /\ og = NoDigests
    BY DEF Moving
  <1>2. DOMAIN og = {}
    BY <1>1 DEF NoDigests
  <1>3. Undoable(c, b, mv, og, rm) /\ Len(mv) = k /\ k \in 0..Nm(c)
    BY <1>1, <1>2 DEF Base, Undoable
  <1>4. QED
    BY <1>1, <1>2, <1>3, BaseIs

LEMMA ChangingCanBeUndone ==
  ASSUME NEW rm, NEW og, NEW mv, NEW md, Journal(rm, og, mv, md),
         NEW c \in AllChangeSets, NEW k, NEW b, NEW t, Changing(c, k, b, t, mv, og, rm)
  PROVE  /\ Undoable(c, b, mv, og, rm) /\ Len(mv) = Nm(c) /\ Nm(c) \in 0..Nm(c)
         /\ SameFiles(t, MovedTree(c, Nm(c), b), DOMAIN og)
         /\ KeepsDirs(t, MovedTree(c, Nm(c), b), Elements(rm)) /\ DirsClear(c, Nm(c), t)
  <1> DEFINE u == MovedTree(c, Nm(c), b)
  <1>1. /\ Base(c, Nm(c), b, t, mv, rm)
        /\ DOMAIN og = ContentPaths(c) /\ \A p \in ContentPaths(c) : og[p] = Digest(u, p)
        /\ \A p \in Paths : Digest(t, p) = Expected(c, k, u, p)
    BY DEF Changing
  <1>2. Undoable(c, b, mv, og, rm) /\ Len(mv) = Nm(c) /\ Nm(c) \in 0..Nm(c)
    BY <1>1 DEF Base, Undoable
  <1> HIDE DEF u
  <1>3. SameFiles(t, u, DOMAIN og)
    BY <1>1, NotWrittenNotExpected DEF SameFiles
  <1>4. QED
    BY <1>1, <1>2, <1>3, BaseIs DEF u

(* Parents that were made before a step failed change nothing of it.       *)
LEMMA ParentsChangeNothing ==
  ASSUME NEW c \in AllChangeSets, NEW r, NEW b, MovesPossible(c, b), r \in 0..Nm(c),
         NEW t \in Trees, Coherent(t), NEW p \in Paths, Reachable(t, p),
         \A d \in Ancestors(p) : Clear(c, r, d), NEW Q, NEW R,
         SameFiles(t, MovedTree(c, r, b), Q), KeepsDirs(t, MovedTree(c, r, b), R), DirsClear(c, r, t)
  PROVE  LET v == WithParents(t, p)
         IN  /\ SameFiles(v, MovedTree(c, r, b), Q) /\ KeepsDirs(v, MovedTree(c, r, b), R)
             /\ DirsClear(c, r, v)
  <1> DEFINE u == MovedTree(c, r, b)
             v == WithParents(t, p)
  <1>1. u \in Trees
    BY MovedTreeIsTree
  <1> HIDE DEF u
  <1>2. KeepsDirs(t, u, R) /\ SameFiles(t, u, Q)
    BY DEF u
  <1>3. /\ \A q \in Paths : Digest(v, q) = Digest(t, q)
        /\ KeepsDirs(v, u, R) /\ DirsClear(c, r, v)
    BY <1>1, <1>2, ParentsResemble
  <1> HIDE DEF v
  <1>4. SameFiles(v, u, Q)
    BY <1>2, <1>3 DEF SameFiles
  <1>5. QED
    BY <1>3, <1>4 DEF u, v

----------------------------------------------------------------------------
(* The steps of the compensation                                           *)
LEMMA RestoredIsMovingBack ==
  ASSUME NEW rm, NEW og, NEW mv, NEW md, Journal(rm, og, mv, md), NEW k \in Nat,
         NEW c, NEW b, NEW t, UndoAt(c, k, b, t, mv, og, rm),
         k >= Len(rm) + Len(Listing(og)), k <= Len(rm) + Len(Listing(og)) + Len(mv)
  PROVE  MovingBack(c, k, b, t, mv, og, rm) \/ Tidying(k, b, t, mv, og, rm)
  <1>1. Len(rm) \in Nat /\ Len(Listing(og)) \in Nat /\ Len(mv) \in Nat
    BY LengthsOf
  <1>2. SUFFICES ASSUME Restoring(c, k, b, t, mv, og, rm)
                 PROVE  MovingBack(c, k, b, t, mv, og, rm)
    BY DEF UndoAt
  <1>3. k = Len(rm) + Len(Listing(og))
    BY <1>1, <1>2 DEF Restoring
  <1>4. Unrestored(k, rm, og) = {} /\ Unmade(k, rm) = {}
    <2>1. k >= Len(rm)
      BY <1>1, <1>3
    <2>2. QED
      BY <2>1, AllRestored
  <1>5. Len(rm) + Len(Listing(og)) + Len(mv) - k = Len(mv) /\ Len(mv) \in 0..Len(mv)
    BY <1>1, <1>3
  <1>6. QED
    BY <1>2, <1>4, <1>5 DEF Restoring, MovingBack

LEMMA MovedBackIsTidying ==
  ASSUME NEW rm, NEW og, NEW mv, NEW md, Journal(rm, og, mv, md), NEW k \in Nat,
         NEW c \in AllChangeSets, NEW b, NEW t, UndoAt(c, k, b, t, mv, og, rm),
         k >= Len(rm) + Len(Listing(og)) + Len(mv)
  PROVE  Tidying(k, b, t, mv, og, rm)
  <1>1. Len(rm) \in Nat /\ Len(Listing(og)) \in Nat /\ Len(mv) \in Nat
    BY LengthsOf
  <1>2. MovesPossible(c, b) /\ b \in Trees
    BY DEF UndoAt, Undoable, MovesPossible
  <1>3. MovingBack(c, k, b, t, mv, og, rm) \/ Tidying(k, b, t, mv, og, rm)
    <2>1. CASE k <= Len(rm) + Len(Listing(og)) + Len(mv)
      <3>1. k >= Len(rm) + Len(Listing(og))
        BY <1>1
      <3>2. QED
        BY <2>1, <3>1, RestoredIsMovingBack
    <2>2. CASE ~(k <= Len(rm) + Len(Listing(og)) + Len(mv))
      <3>1. ~Restoring(c, k, b, t, mv, og, rm)
        BY <1>1, <2>2 DEF Restoring
      <3>2. QED
        BY <3>1 DEF UndoAt
    <2>3. QED
      BY <2>1, <2>2
  <1>4. SUFFICES ASSUME MovingBack(c, k, b, t, mv, og, rm)
                 PROVE  Tidying(k, b, t, mv, og, rm)
    BY <1>3
  <1>5. Len(rm) + Len(Listing(og)) + Len(mv) - k = 0
    BY <1>1, <1>4 DEF MovingBack
  <1>6. MovedTree(c, 0, b) = b
    BY <1>2, NothingMoved
  <1>7. SameFiles(t, b, {})
    BY <1>4, <1>5, <1>6 DEF MovingBack
  <1>8. QED
    BY <1>7 DEF Tidying

MadeAt(v, t, p) ==
  /\ v[p] = Dir /\ t[p] \in {Dir, Absent}
  /\ \A q \in Paths \ {p} : v[q] = t[q] \/ (q \in Ancestors(p) /\ t[q] = Absent /\ v[q] = Dir)

LEMMA DirectoryIsMade ==
  ASSUME NEW t \in Trees, Coherent(t), NEW p \in Paths, CanMkdir(t, p)
  PROVE  MadeAt([WithParents(t, p) EXCEPT ![p] = Dir], t, p)
  BY DirectoryMade DEF MadeAt

(* A removed directory comes back.                                         *)
LEMMA DirectoryComesBack ==
  ASSUME NEW rm, NEW og, NEW mv, NEW md, Journal(rm, og, mv, md), NEW k \in Nat,
         NEW c \in AllChangeSets, NEW b, NEW t \in Trees, Coherent(t),
         UndoAt(c, k, b, t, mv, og, rm), k + 1 \in 1..Len(rm),
         NEW d, d = rm[Len(rm) - k], CanMkdir(t, d)
  PROVE  UndoAt(c, k + 1, b, [WithParents(t, d) EXCEPT ![d] = Dir], mv, og, rm)
  <1> DEFINE v == [WithParents(t, d) EXCEPT ![d] = Dir]
             r == Len(mv)
             u == MovedTree(c, r, b)
  <1>1. /\ Len(rm) \in Nat /\ Len(Listing(og)) \in Nat /\ r \in Nat
        /\ Elements(rm) \subseteq Paths
    BY LengthsOf
  <1>2. Undoable(c, b, mv, og, rm) /\ Restoring(c, k, b, t, mv, og, rm)
    <2>1. ~MovingBack(c, k, b, t, mv, og, rm)
      BY <1>1 DEF MovingBack
    <2>2. ~Tidying(k, b, t, mv, og, rm)
      BY <1>1 DEF Tidying
    <2>3. QED
      BY <2>1, <2>2 DEF UndoAt
  <1>3. /\ r \in 0..Nm(c) /\ \A p \in Elements(rm) : Clear(c, r, p)
    BY <1>2 DEF Undoable
  <1>4. /\ Unmade(k, rm) = Unmade(k + 1, rm) \union {d} /\ d \in Elements(rm)
        /\ Unrestored(k + 1, rm, og) = Unrestored(k, rm, og)
    BY OneMade
  <1>5. d \in Paths /\ Clear(c, r, d)
    BY <1>1, <1>3, <1>4
  <1>6. /\ SameFiles(t, u, Unrestored(k, rm, og)) /\ KeepsDirs(t, u, Unmade(k, rm)) /\ DirsClear(c, r, t)
    BY <1>2 DEF Restoring
  <1>7. /\ v[d] = Dir /\ t[d] \in {Dir, Absent}
        /\ \A q \in Paths \ {d} : v[q] = t[q] \/ (q \in Ancestors(d) /\ t[q] = Absent /\ v[q] = Dir)
    <2>1. MadeAt(v, t, d)
      BY <1>5, DirectoryIsMade
    <2> HIDE DEF v
    <2>2. QED
      BY <2>1 DEF MadeAt
  <1>8. \A q \in Ancestors(d) : Clear(c, r, q)
    BY <1>3, <1>5, AboveIsClear
  <1> HIDE DEF v, u, r
  <1>9. \A q \in Paths : Digest(v, q) = Digest(t, q)
    BY <1>7 DEF Digest, IsFile
  <1>10. SameFiles(v, u, Unrestored(k + 1, rm, og))
    BY <1>4, <1>6, <1>9 DEF SameFiles
  <1>11. KeepsDirs(v, u, Unmade(k + 1, rm))
    BY <1>4, <1>6, <1>7 DEF KeepsDirs
  <1>12. DirsClear(c, r, v)
    BY <1>5, <1>6, <1>7, <1>8 DEF DirsClear
  <1>13. k + 1 <= Len(rm) + Len(Listing(og))
    BY <1>1
  <1>14. Restoring(c, k + 1, b, v, mv, og, rm)
    BY <1>10, <1>11, <1>12, <1>13 DEF Restoring, u, r
  <1>15. QED
    BY <1>2, <1>14 DEF UndoAt, v

(* A content comes back, or what was written where nothing was goes.       *)
LEMMA ContentComesBack ==
  ASSUME NEW rm, NEW og, NEW mv, NEW md, Journal(rm, og, mv, md), NEW k \in Nat,
         NEW c \in AllChangeSets, NEW b, NEW t \in Trees, Coherent(t),
         UndoAt(c, k, b, t, mv, og, rm), k + 1 - Len(rm) \in 1..Len(Listing(og)),
         NEW p, p = Listing(og)[k + 1 - Len(rm)], p \in DOMAIN og, og[p] \in Contents \union {Absent},
         NEW v, IF og[p] = Absent THEN CanUnlink(t, p) /\ v = [t EXCEPT ![p] = Absent]
                                  ELSE CanWrite(t, p) /\ v = Written(t, p, og[p])
  PROVE  UndoAt(c, k + 1, b, v, mv, og, rm)
  <1> DEFINE r == Len(mv)
             u == MovedTree(c, r, b)
  <1>1. /\ Len(rm) \in Nat /\ Len(Listing(og)) \in Nat /\ r \in Nat /\ p \in Paths
    BY LengthsOf DEF Journal
  <1>2. Undoable(c, b, mv, og, rm) /\ Restoring(c, k, b, t, mv, og, rm)
    <2>1. ~MovingBack(c, k, b, t, mv, og, rm)
      BY <1>1 DEF MovingBack
    <2>2. ~Tidying(k, b, t, mv, og, rm)
      BY <1>1 DEF Tidying
    <2>3. QED
      BY <2>1, <2>2 DEF UndoAt
  <1>3. r \in 0..Nm(c) /\ MovesPossible(c, b) /\ og[p] = Digest(u, p)
    BY <1>2 DEF Undoable
  <1>4. Unrestored(k, rm, og) = Unrestored(k + 1, rm, og) \union {p}
    BY OneRestored
  <1>5. Unmade(k, rm) = {} /\ Unmade(k + 1, rm) = {}
    <2>1. k >= Len(rm) /\ k + 1 >= Len(rm) /\ k + 1 \in Nat
      BY <1>1
    <2>2. QED
      BY <2>1, AllRestored
  <1>6. /\ SameFiles(t, u, Unrestored(k, rm, og)) /\ KeepsDirs(t, u, {}) /\ DirsClear(c, r, t)
    BY <1>2, <1>5 DEF Restoring
  <1>7. u \in Trees
    BY <1>3, MovedTreeIsTree
  <1>8. k + 1 <= Len(rm) + Len(Listing(og))
    BY <1>1
  <1>9. /\ SameFiles(v, u, Unrestored(k + 1, rm, og)) /\ KeepsDirs(v, u, {}) /\ DirsClear(c, r, v)
    <2>1. CASE og[p] = Absent
      <3>1. v[p] = Absent /\ t[p] # Dir /\ \A q \in Paths \ {p} : v[q] = t[q]
        BY <1>1, <2>1 DEF Trees, CanUnlink
      <3> HIDE DEF u, r
      <3>2. Digest(v, p) = Digest(u, p) /\ \A q \in Paths \ {p} : Digest(v, q) = Digest(t, q)
        BY <1>3, <2>1, <3>1 DEF Digest, IsFile
      <3>3. SameFiles(v, u, Unrestored(k + 1, rm, og))
        BY <1>4, <1>6, <3>2 DEF SameFiles
      <3>4. KeepsDirs(v, u, {})
        BY <1>1, <1>6, <3>1 DEF KeepsDirs
      <3>5. DirsClear(c, r, v)
        BY <1>1, <1>6, <3>1, PathsAssumption DEF DirsClear
      <3>6. QED
        BY <3>3, <3>4, <3>5
    <2>2. CASE og[p] # Absent
      <3>1. /\ og[p] \in Contents /\ og[p] # Dir /\ Dir # Absent
        BY <2>2, VaultsAssumption, PathsAssumption
      <3>2. /\ v[p] = og[p] /\ t[p] # Dir
            /\ \A q \in Paths \ {p} : v[q] = t[q] \/ (q \in Ancestors(p) /\ t[q] = Absent /\ v[q] = Dir)
        BY <1>1, <2>2, <3>1, FileWritten DEF CanWrite
      <3>3. u[p] # Absent /\ u[p] # Dir
        BY <1>3, <2>2, <3>1 DEF Digest, IsFile
      <3>4. Clear(c, r, p)
        BY <1>1, <1>3, <3>3, WhatIsThereIsClear
      <3>5. \A q \in Ancestors(p) : Clear(c, r, q)
        BY <1>1, <1>3, <3>4, AboveIsClear
      <3> HIDE DEF u, r
      <3>6. Digest(v, p) = Digest(u, p) /\ \A q \in Paths \ {p} : Digest(v, q) = Digest(t, q)
        BY <1>3, <2>2, <3>1, <3>2 DEF Digest, IsFile
      <3>7. SameFiles(v, u, Unrestored(k + 1, rm, og))
        BY <1>4, <1>6, <3>6 DEF SameFiles
      <3>8. KeepsDirs(v, u, {})
        BY <1>1, <1>6, <3>2, <3>3 DEF KeepsDirs
      <3>9. DirsClear(c, r, v)
        BY <1>1, <1>6, <3>1, <3>2, <3>5 DEF DirsClear
      <3>10. QED
        BY <3>7, <3>8, <3>9
    <2>3. QED
      BY <2>1, <2>2
  <1>10. Restoring(c, k + 1, b, v, mv, og, rm)
    BY <1>5, <1>8, <1>9 DEF Restoring
  <1>11. QED
    BY <1>2, <1>10 DEF UndoAt

(* A move is taken back; it is never left out.                             *)
LEMMA MoveComesBack ==
  ASSUME NEW rm, NEW og, NEW mv, NEW md, Journal(rm, og, mv, md), NEW k \in Nat,
         NEW c \in AllChangeSets, NEW b, NEW t \in Trees, Coherent(t),
         UndoAt(c, k, b, t, mv, og, rm), k + 1 - Len(rm) - Len(Listing(og)) \in 1..Len(mv),
         NEW m, m = mv[Len(rm) + Len(Listing(og)) + Len(mv) - k]
  PROVE  /\ Exists(t, m.target) /\ ~Exists(t, m.source)
         /\ CanRename(t, m.target, m.source) =>
              UndoAt(c, k + 1, b, Renamed(t, m.target, m.source), mv, og, rm)
  <1> DEFINE r == Len(rm) + Len(Listing(og)) + Len(mv) - k
             v == Renamed(t, m.target, m.source)
  <1>1. /\ Len(rm) \in Nat /\ Len(Listing(og)) \in Nat /\ Len(mv) \in Nat
    BY LengthsOf
  <1>2. Undoable(c, b, mv, og, rm) /\ MovingBack(c, k, b, t, mv, og, rm)
    <2>1. ~Tidying(k, b, t, mv, og, rm)
      BY <1>1 DEF Tidying
    <2>2. k >= Len(rm) + Len(Listing(og)) /\ k <= Len(rm) + Len(Listing(og)) + Len(mv)
      BY <1>1
    <2>3. QED
      BY <2>1, <2>2, RestoredIsMovingBack DEF UndoAt
  <1>3. /\ MovesPossible(c, b) /\ r \in 1..Nm(c) /\ m = c.moves[r] /\ r \in 1..Len(mv)
    <2>1. Len(mv) \in 0..Nm(c) /\ \A i \in 1..Len(mv) : mv[i] = c.moves[i]
      BY <1>2 DEF Undoable
    <2>2. r \in 1..Len(mv)
      BY <1>1
    <2>3. r \in 1..Nm(c)
      BY <2>1, <2>2, ChangeSetIs
    <2>4. QED
      BY <1>2, <2>1, <2>2, <2>3 DEF Undoable
  <1>4. SameFiles(t, MovedTree(c, r, b), {}) /\ KeepsDirs(t, MovedTree(c, r, b), {}) /\ DirsClear(c, r, t)
    BY <1>2 DEF MovingBack
  <1>5. r - 1 \in 0..Len(mv) /\ Len(rm) + Len(Listing(og)) + Len(mv) - (k + 1) = r - 1
    BY <1>1, <1>3
  <1> HIDE DEF r
  <1>6. /\ Exists(t, m.target) /\ ~Exists(t, m.source)
        /\ CanRename(t, m.target, m.source) =>
             /\ SameFiles(v, MovedTree(c, r - 1, b), {})
             /\ KeepsDirs(v, MovedTree(c, r - 1, b), {})
             /\ DirsClear(c, r - 1, v)
    BY <1>3, <1>4, MovedBack
  <1> HIDE DEF v
  <1>7. ASSUME CanRename(t, m.target, m.source)
        PROVE  MovingBack(c, k + 1, b, v, mv, og, rm)
    BY <1>5, <1>6, <1>7 DEF MovingBack
  <1>8. QED
    BY <1>2, <1>6, <1>7 DEF UndoAt, v

(* A directory made for a move goes, if it is empty.                       *)
LEMMA MadeDirGoes ==
  ASSUME NEW rm, NEW og, NEW mv, NEW md, Journal(rm, og, mv, md), NEW k \in Nat,
         NEW c \in AllChangeSets, NEW b, NEW t \in Trees,
         UndoAt(c, k, b, t, mv, og, rm), k >= Len(rm) + Len(Listing(og)) + Len(mv),
         NEW p \in Paths, NEW v, v = t \/ (CanRmdir(t, p) /\ v = [t EXCEPT ![p] = Absent])
  PROVE  UndoAt(c, k + 1, b, v, mv, og, rm)
  <1>1. Len(rm) + Len(Listing(og)) + Len(mv) \in Nat
    BY LengthsOf
  <1>2. Tidying(k, b, t, mv, og, rm) /\ Undoable(c, b, mv, og, rm)
    BY MovedBackIsTidying DEF UndoAt
  <1>3. \A q \in Paths : Digest(v, q) = Digest(t, q)
    BY PathsAssumption DEF Digest, IsFile, CanRmdir, Trees
  <1>4. SameFiles(v, b, {})
    BY <1>2, <1>3 DEF Tidying, SameFiles
  <1>5. k + 1 >= Len(rm) + Len(Listing(og)) + Len(mv)
    BY <1>1
  <1>6. QED
    BY <1>2, <1>4, <1>5 DEF UndoAt, Tidying

----------------------------------------------------------------------------
(* In a calm behaviour the Vault is, at every step, what the change set    *)
(* and its compensation mean it to be.                                     *)
Inside(w) ==
  LET c == cs[w]
      U == UndoOf(removed, originals, moved, made)
  IN  /\ pc[w] = "verified" => before = tree
      /\ pc[w] = "run" => RunAt(c, Taken(todo, Steps(c)), before, tree, moved, originals, removed)
      /\ pc[w] = "undo" => UndoAt(c, Taken(todo, U), before, tree, moved, originals, removed)
Shape == calm => \A w \in Writers : Inside(w)

Active == {"verified", "run", "undo"}

LEMMA OthersAreOutside ==
  ASSUME IInv, NEW w \in Writers, pc[w] \in Locked, NEW v \in Writers, v # w
  PROVE  pc[v] \notin Locked
  BY DEF IInv, InsideHoldsLock

(* What happens outside, or after the change, changes nothing of it.       *)
LEMMA OutsideKeepsShape ==
  ASSUME Shape, UNCHANGED <<tree, before, todo, journalVars, calm>>,
         \A w \in Writers : pc'[w] \in Active => pc[w] = pc'[w] /\ cs'[w] = cs[w]
  PROVE  Shape'
  <1>1. SUFFICES ASSUME calm, NEW w \in Writers
                 PROVE  Inside(w)'
    BY DEF Shape
  <1>2. Inside(w)
    BY <1>1 DEF Shape
  <1>3. CASE pc'[w] \in Active
    BY <1>2, <1>3 DEF Inside, journalVars
  <1>4. CASE pc'[w] \notin Active
    BY <1>4 DEF Inside, Active
  <1>5. QED
    BY <1>3, <1>4

(* Only the holder of the lock is inside: its step is all that counts.     *)
LEMMA InsideKeepsShape ==
  ASSUME IInv, NEW w \in Writers, pc[w] \in Locked, NEW stage, pc' = [pc EXCEPT ![w] = stage],
         calm' => Inside(w)'
  PROVE  Shape'
  <1>1. SUFFICES ASSUME calm', NEW v \in Writers, v # w
                 PROVE  Inside(v)'
    BY DEF Shape
  <1>2. pc[v] \notin Locked /\ pc'[v] = pc[v]
    BY <1>1, OthersAreOutside DEF IInv, Functions
  <1>3. QED
    BY <1>2 DEF Inside, Locked

LEMMA MoveKeepsShape ==
  ASSUME Shape, Typing, IInv, NEW w \in Writers, DoMove(w)
  PROVE  Shape'
  <1> DEFINE c == cs[w]
             k == Taken(todo, Steps(c))
             m == Head(todo).arg
             v == Renamed(WithParents(tree, m.target), m.source, m.target)
  <1>1. /\ pc[w] = "run" /\ Head(todo).op = "move" /\ Reachable(tree, m.target)
        /\ CanRename(WithParents(tree, m.target), m.source, m.target) /\ tree' = v
        /\ moved' = Append(moved, m) /\ todo' = Tail(todo)
        /\ UNCHANGED <<pc, cs, removed, originals, before, calm>>
    BY DEF DoMove, Running, Arg, Next1, Done1, planVars, historyVars
  <1>2. /\ c \in AllChangeSets /\ k \in Nat /\ k + 1 \in 1..Len(Steps(c))
        /\ Head(todo) = Steps(c)[k + 1] /\ Taken(Tail(todo), Steps(c)) = k + 1
    BY <1>1, RunStep
  <1>3. k + 1 \in 1..Nm(c) /\ m = c.moves[k + 1]
    BY <1>1, <1>2, StepIs
  <1>4. /\ tree \in Trees /\ Coherent(tree) /\ moved \in Seq(MoveRecords)
    BY DEF Typing, TreesTyped, JournalTyped, Journal
  <1>5. k < Nm(c)
    BY <1>2, <1>3, ChangeSetIs
  <1>6. pc' = [pc EXCEPT ![w] = "run"] /\ pc[w] \in Locked
    BY <1>1 DEF IInv, Functions, Locked
  <1>7. ASSUME calm'
        PROVE  Inside(w)'
    <2>1. Moving(c, k, before, tree, moved, originals, removed)
      <3>1. RunAt(c, k, before, tree, moved, originals, removed)
        BY <1>1, <1>7 DEF Shape, Inside
      <3>2. ~(k > Nm(c))
        BY <1>2, <1>3, ChangeSetIs
      <3>3. QED
        BY <3>1, <3>2 DEF RunAt, Changing
    <2> HIDE DEF k, c, m
    <2>2. Moving(c, k + 1, before, v, Append(moved, m), originals, removed)
      BY <1>1, <1>2, <1>3, <1>4, <1>5, <2>1, MoveGoesOn
    <2>3. RunAt(c, k + 1, before, tree', moved', originals', removed')
      BY <1>1, <2>2 DEF RunAt
    <2>4. QED
      BY <1>1, <1>2, <2>3 DEF Inside, c
  <1>8. QED
    BY <1>6, <1>7, InsideKeepsShape

LEMMA ReadKeepsShape ==
  ASSUME Shape, Typing, IInv, NEW w \in Writers, ReadOriginals(w)
  PROVE  Shape'
  <1> DEFINE c == cs[w]
             k == Taken(todo, Steps(c))
             a == Head(todo).arg
  <1>1. /\ pc[w] = "run" /\ Head(todo).op = "read" /\ todo' = Tail(todo)
        /\ originals' = [p \in ContentPaths(a) |-> Digest(tree, p)]
        /\ UNCHANGED <<tree, pc, cs, removed, moved, before, calm>>
    BY DEF ReadOriginals, Running, Arg, Next1, Done1, planVars, historyVars
  <1>2. /\ c \in AllChangeSets /\ k \in Nat /\ k + 1 \in 1..Len(Steps(c))
        /\ Head(todo) = Steps(c)[k + 1] /\ Taken(Tail(todo), Steps(c)) = k + 1
    BY <1>1, RunStep
  <1>3. k = Nm(c) /\ a = c
    BY <1>1, <1>2, StepIs
  <1>4. tree \in Trees
    BY DEF Typing, TreesTyped
  <1>5. pc' = [pc EXCEPT ![w] = "run"] /\ pc[w] \in Locked
    BY <1>1 DEF IInv, Functions, Locked
  <1>6. ASSUME calm'
        PROVE  Inside(w)'
    <2>1. Moving(c, k, before, tree, moved, originals, removed)
      <3>1. RunAt(c, k, before, tree, moved, originals, removed)
        BY <1>1, <1>6 DEF Shape, Inside
      <3>2. ~(k > Nm(c))
        BY <1>2, <1>3, ChangeSetIs
      <3>3. QED
        BY <3>1, <3>2 DEF RunAt, Changing
    <2> HIDE DEF k, c, a
    <2>2. Changing(c, k + 1, before, tree, moved, originals', removed)
      BY <1>1, <1>2, <1>3, <1>4, <2>1, ReadGoesOn
    <2>3. RunAt(c, k + 1, before, tree', moved', originals', removed')
      BY <1>1, <2>2 DEF RunAt
    <2>4. QED
      BY <1>1, <1>2, <2>3 DEF Inside, c
  <1>7. QED
    BY <1>5, <1>6, InsideKeepsShape

LEMMA ChangeKeepsShape ==
  ASSUME Shape, Typing, IInv, NEW w \in Writers, DoWrite(w) \/ DoDelete(w) \/ DoRmdir(w)
  PROVE  Shape'
  <1> DEFINE c == cs[w]
             k == Taken(todo, Steps(c))
             a == Head(todo).arg
  <1>1. /\ pc[w] = "run" /\ Head(todo).op \in {"write", "delete", "rmdir"} /\ todo' = Tail(todo)
        /\ UNCHANGED <<pc, cs, moved, originals, before, calm>>
    BY DEF DoWrite, DoDelete, DoRmdir, Running, Next1, Done1, planVars, historyVars, journalVars
  <1>2. /\ c \in AllChangeSets /\ k \in Nat /\ k + 1 \in 1..Len(Steps(c))
        /\ Head(todo) = Steps(c)[k + 1] /\ Taken(Tail(todo), Steps(c)) = k + 1
    BY <1>1, RunStep
  <1>3. /\ Head(todo).op = "write" => k - Nm(c) \in 1..Nw(c) /\ a = c.writes[k - Nm(c)]
        /\ Head(todo).op = "delete" => /\ k - Nm(c) - Nw(c) \in 1..Nd(c)
                                       /\ a = c.deletes[k - Nm(c) - Nw(c)]
        /\ Head(todo).op = "rmdir" => /\ k - Nm(c) - Nw(c) - Nd(c) \in 1..Nr(c)
                                      /\ a = c.rmdirs[k - Nm(c) - Nw(c) - Nd(c)]
    BY <1>2, StepIs
  <1>4. /\ tree \in Trees /\ Coherent(tree) /\ removed \in Seq(Paths)
    BY DEF Typing, TreesTyped, JournalTyped, Journal
  <1>5. pc' = [pc EXCEPT ![w] = "run"] /\ pc[w] \in Locked
    BY <1>1 DEF IInv, Functions, Locked
  <1>6. k > Nm(c)
    BY <1>1, <1>2, <1>3, ChangeSetIs
  <1>7. ASSUME calm'
        PROVE  Inside(w)'
    <2>1. Changing(c, k, before, tree, moved, originals, removed)
      <3>1. RunAt(c, k, before, tree, moved, originals, removed)
        BY <1>1, <1>7 DEF Shape, Inside
      <3>2. ~(k <= Nm(c))
        BY <1>2, <1>6, ChangeSetIs
      <3>3. QED
        BY <3>1, <3>2 DEF RunAt, Moving
    <2>2. Changing(c, k + 1, before, tree', moved, originals, removed')
      <3>1. CASE DoWrite(w)
        <4>1. /\ Head(todo).op = "write" /\ CanWrite(tree, a.path)
              /\ tree' = Written(tree, a.path, a.content) /\ removed' = removed
          BY <3>1 DEF DoWrite, Running, Next1, Arg, journalVars
        <4> HIDE DEF k, c, a
        <4>2. QED
          BY <1>2, <1>3, <1>4, <2>1, <4>1, WriteGoesOn
      <3>2. CASE DoDelete(w)
        <4>1. /\ Head(todo).op = "delete" /\ CanUnlink(tree, a)
              /\ tree' = [tree EXCEPT ![a] = Absent] /\ removed' = removed
          BY <3>2 DEF DoDelete, Running, Next1, Arg, journalVars
        <4> HIDE DEF k, c, a
        <4>2. QED
          BY <1>2, <1>3, <1>4, <2>1, <4>1, DeleteGoesOn
      <3>3. CASE DoRmdir(w)
        <4>1. /\ Head(todo).op = "rmdir" /\ CanRmdir(tree, a)
              /\ tree' = [tree EXCEPT ![a] = Absent] /\ removed' = Append(removed, a)
          BY <3>3 DEF DoRmdir, Running, Next1, Arg
        <4> HIDE DEF k, c, a
        <4>2. QED
          BY <1>2, <1>3, <1>4, <2>1, <4>1, RmdirGoesOn
      <3>4. QED
        BY <3>1, <3>2, <3>3
    <2> HIDE DEF k, c, a
    <2>3. RunAt(c, k + 1, before, tree', moved', originals', removed')
      BY <1>1, <2>2 DEF RunAt
    <2>4. QED
      BY <1>1, <1>2, <2>3 DEF Inside, c
  <1>8. QED
    BY <1>5, <1>7, InsideKeepsShape

(* What may be undone as it is: the compensation starts from it.           *)
LEMMA CanBeUndone ==
  ASSUME Shape, Typing, NEW w \in Writers, pc[w] = "run", calm
  PROVE  LET c == cs[w]
             r == Len(moved)
             u == MovedTree(c, r, before)
         IN  /\ c \in AllChangeSets /\ Undoable(c, before, moved, originals, removed) /\ r \in 0..Nm(c)
             /\ SameFiles(tree, u, DOMAIN originals)
             /\ KeepsDirs(tree, u, Elements(removed)) /\ DirsClear(c, r, tree)
             /\ Taken(todo, Steps(c)) >= Nm(c) => r = Nm(c)
             /\ Taken(todo, Steps(c)) <= Nm(c) => r = Taken(todo, Steps(c))
  <1> DEFINE c == cs[w]
             k == Taken(todo, Steps(c))
  <1>1. c \in AllChangeSets /\ k \in Nat /\ Nm(c) \in Nat
    BY RunStep, ChangeSetIs
  <1>2. RunAt(c, k, before, tree, moved, originals, removed)
    BY DEF Shape, Inside
  <1>3. Journal(removed, originals, moved, made)
    BY DEF Typing, JournalTyped
  <1> HIDE DEF k, c
  <1>4. CASE Moving(c, k, before, tree, moved, originals, removed)
    <2>1. /\ Undoable(c, before, moved, originals, removed) /\ Len(moved) = k /\ k \in 0..Nm(c)
          /\ SameFiles(tree, MovedTree(c, k, before), DOMAIN originals)
          /\ KeepsDirs(tree, MovedTree(c, k, before), Elements(removed)) /\ DirsClear(c, k, tree)
      BY <1>1, <1>3, <1>4, MovingCanBeUndone
    <2>2. k >= Nm(c) => k = Nm(c)
      BY <1>1, <2>1
    <2>3. QED
      BY <1>1, <2>1, <2>2 DEF c, k
  <1>5. CASE Changing(c, k, before, tree, moved, originals, removed)
    <2>1. /\ Undoable(c, before, moved, originals, removed) /\ Len(moved) = Nm(c) /\ Nm(c) \in 0..Nm(c)
          /\ SameFiles(tree, MovedTree(c, Nm(c), before), DOMAIN originals)
          /\ KeepsDirs(tree, MovedTree(c, Nm(c), before), Elements(removed))
          /\ DirsClear(c, Nm(c), tree)
      BY <1>1, <1>3, <1>5, ChangingCanBeUndone
    <2>2. ~(k <= Nm(c))
      BY <1>1, <1>5 DEF Changing
    <2>3. QED
      BY <1>1, <2>1, <2>2 DEF c, k
  <1>6. QED
    BY <1>2, <1>4, <1>5 DEF RunAt

LEMMA FailKeepsShape ==
  ASSUME Shape, Typing, IInv, NEW w \in Writers, FailMove(w) \/ FailStep(w)
  PROVE  Shape'
  <1> DEFINE c == cs[w]
             k == Taken(todo, Steps(c))
             r == Len(moved)
             u == MovedTree(c, r, before)
  <1>1. /\ pc[w] = "run" /\ pc' = [pc EXCEPT ![w] = "undo"]
        /\ UNCHANGED <<cs, moved, removed, originals, before, calm>>
    BY DEF FailMove, FailStep, Running, Goto, planVars, historyVars, journalVars
  <1>2. /\ Journal(removed', originals', moved', made')
        /\ Taken(todo', UndoOf(removed', originals', moved', made')) = 0
    BY FailIsTyped DEF Typing, JournalTyped
  <1>3. /\ c \in AllChangeSets /\ k \in Nat /\ k + 1 \in 1..Len(Steps(c)) /\ Head(todo) = Steps(c)[k + 1]
    BY <1>1, RunStep
  <1>4. /\ Head(todo).op = "move" => k + 1 \in 1..Nm(c) /\ Head(todo).arg = c.moves[k + 1]
        /\ Head(todo).op = "write" => k - Nm(c) \in 1..Nw(c) /\ Head(todo).arg = c.writes[k - Nm(c)]
    BY <1>3, StepIs
  <1>5. tree \in Trees /\ Coherent(tree) /\ pc[w] \in Locked /\ pc'[w] = "undo"
    BY <1>1 DEF Typing, TreesTyped, IInv, Functions, Locked
  <1>6. ASSUME calm'
        PROVE  Inside(w)'
    <2>1. /\ Undoable(c, before, moved, originals, removed) /\ r \in 0..Nm(c)
          /\ SameFiles(tree, u, DOMAIN originals)
          /\ KeepsDirs(tree, u, Elements(removed)) /\ DirsClear(c, r, tree)
          /\ k >= Nm(c) => r = Nm(c)
          /\ k <= Nm(c) => r = k
      BY <1>1, <1>6, CanBeUndone
    <2>2. MovesPossible(c, before)
      BY <2>1 DEF Undoable
    <2>3. /\ SameFiles(tree', u, DOMAIN originals)
          /\ KeepsDirs(tree', u, Elements(removed)) /\ DirsClear(c, r, tree')
      <3>1. CASE tree' = tree
        BY <2>1, <3>1
      <3>2. ASSUME NEW p \in Paths, Reachable(tree, p), tree' = WithParents(tree, p),
                   \A d \in Ancestors(p) : Clear(c, r, d)
            PROVE  /\ SameFiles(tree', u, DOMAIN originals)
                   /\ KeepsDirs(tree', u, Elements(removed)) /\ DirsClear(c, r, tree')
        <4> HIDE DEF c, r
        <4>1. QED
          BY <1>3, <1>5, <2>1, <2>2, <3>2, ParentsChangeNothing
      <3>3. CASE FailMove(w) /\ tree' # tree
        <4>1. /\ Head(todo).op = "move" /\ Reachable(tree, Head(todo).arg.target)
              /\ tree' = WithParents(tree, Head(todo).arg.target)
          BY <3>3 DEF FailMove, Running, Next1, Arg
        <4>2. k \in 0..Nm(c) /\ k < Nm(c) /\ r = k /\ c.moves[k + 1].target \in Paths
          <5>1. k + 1 \in 1..Nm(c) /\ Nm(c) \in Nat
            BY <1>3, <1>4, <4>1, ChangeSetIs
          <5>2. k \in 0..Nm(c) /\ k < Nm(c)
            BY <1>3, <5>1
          <5>3. r = k
            BY <2>1, <5>2
          <5>4. c.moves[k + 1].target \in Paths
            BY <1>3, <5>1, ChangeSetIs
          <5>5. QED
            BY <5>2, <5>3, <5>4
        <4>3. \A d \in Ancestors(c.moves[k + 1].target) : Clear(c, k, d)
          BY <1>3, <2>2, <4>2, TargetsAreClear
        <4>4. QED
          BY <1>4, <3>2, <4>1, <4>2, <4>3
      <3>4. CASE FailStep(w) /\ tree' # tree
        <4>1. /\ Head(todo).op = "write" /\ Reachable(tree, Head(todo).arg.path)
              /\ tree' = WithParents(tree, Head(todo).arg.path)
          BY <3>4 DEF FailStep, Next1, Arg
        <4>2. r = Nm(c) /\ c.writes[k - Nm(c)].path \in Paths
          <5>1. k - Nm(c) \in 1..Nw(c) /\ Nm(c) \in Nat
            BY <1>3, <1>4, <4>1, ChangeSetIs
          <5>2. k >= Nm(c)
            BY <1>3, <5>1
          <5>3. r = Nm(c)
            BY <2>1, <5>2
          <5>4. c.writes[k - Nm(c)].path \in Paths
            BY <1>3, <5>1, ChangeSetIs
          <5>5. QED
            BY <5>3, <5>4
        <4>3. \A d \in Ancestors(c.writes[k - Nm(c)].path) : Clear(c, Nm(c), d)
          BY <1>3, <1>4, <4>1, AboveWritesIsClear
        <4>4. QED
          BY <1>4, <3>2, <4>1, <4>2, <4>3
      <3>5. QED
        BY <3>1, <3>3, <3>4
    <2>4. UndoAt(c, 0, before, tree', moved', originals', removed')
      <3> HIDE DEF c
      <3>1. QED
        BY <1>1, <1>2, <2>1, <2>3, RestoringAtFirst
    <2>5. QED
      BY <1>1, <1>2, <1>5, <2>4 DEF Inside
  <1>7. QED
    BY <1>1, <1>5, <1>6, InsideKeepsShape

LEMMA UndoKeepsShape ==
  ASSUME Shape, Typing, IInv, NEW w \in Writers,
         UndoRmdir(w) \/ UndoContent(w) \/ UndoMove(w) \/ UndoMadeDir(w)
  PROVE  Shape'
  <1> DEFINE c == cs[w]
             U == UndoOf(removed, originals, moved, made)
             k == Taken(todo, U)
             a == Head(todo).arg
  <1>1. /\ pc[w] = "undo" /\ todo # << >> /\ todo' = Tail(todo)
        /\ UNCHANGED <<pc, cs, moved, removed, originals, made, before, calm>>
    BY DEF UndoRmdir, UndoContent, UndoMove, UndoMadeDir, Undoing, Done1, planVars, historyVars,
           journalVars
  <1>2. /\ k \in Nat /\ k + 1 \in 1..Len(U) /\ Head(todo) = U[k + 1] /\ Taken(Tail(todo), U) = k + 1
        /\ Head(todo).op = "restore" => a \in DOMAIN originals
        /\ Head(todo).op = "rmmade" => a \in Paths
    BY <1>1, UndoStep
  <1>3. Journal(removed, originals, moved, made) /\ \A p \in DOMAIN originals : originals[p] \in Contents \union {Absent}
    BY DEF Typing, JournalTyped
  <1>4. UndoStepAt(Head(todo), k, removed, originals, moved, made)
    BY <1>2, <1>3, UndoStepIs
  <1>5. /\ Head(todo).op = "mkdir" => k + 1 \in 1..Len(removed) /\ a = removed[Len(removed) - k]
        /\ Head(todo).op = "restore" => /\ k + 1 - Len(removed) \in 1..Len(Listing(originals))
                                        /\ a = Listing(originals)[k + 1 - Len(removed)]
        /\ Head(todo).op = "moveback" =>
             /\ k + 1 - Len(removed) - Len(Listing(originals)) \in 1..Len(moved)
             /\ a = moved[Len(removed) + Len(Listing(originals)) + Len(moved) - k]
        /\ Head(todo).op = "rmmade" => k >= Len(removed) + Len(Listing(originals)) + Len(moved)
    BY <1>4 DEF UndoStepAt
  <1>6. /\ tree \in Trees /\ Coherent(tree) /\ c \in AllChangeSets
    BY <1>1 DEF Typing, TreesTyped, PlansTyped, AllChangeSets
  <1>7. pc' = [pc EXCEPT ![w] = "undo"] /\ pc[w] \in Locked
    BY <1>1 DEF IInv, Functions, Locked
  <1>8. ASSUME calm'
        PROVE  Inside(w)'
    <2>1. UndoAt(c, k, before, tree, moved, originals, removed)
      BY <1>1, <1>8 DEF Shape, Inside
    <2>2. UndoAt(c, k + 1, before, tree', moved, originals, removed)
      <3>1. CASE UndoRmdir(w)
        <4>1. /\ Head(todo).op = "mkdir" /\ CanMkdir(tree, a)
              /\ tree' = [WithParents(tree, a) EXCEPT ![a] = Dir]
          BY <3>1 DEF UndoRmdir, Undoing, Next1, Arg
        <4> HIDE DEF k, c, a
        <4>2. UndoAt(c, k + 1, before, [WithParents(tree, a) EXCEPT ![a] = Dir], moved, originals, removed)
          BY <1>2, <1>3, <1>5, <1>6, <2>1, <4>1, DirectoryComesBack
        <4>3. QED
          BY <4>1, <4>2
      <3>2. CASE UndoContent(w)
        <4>1. /\ Head(todo).op = "restore"
              /\ IF originals[a] = Absent
                   THEN CanUnlink(tree, a) /\ tree' = [tree EXCEPT ![a] = Absent]
                   ELSE CanWrite(tree, a) /\ tree' = Written(tree, a, originals[a])
          BY <3>2 DEF UndoContent, Undoing, Next1, Arg
        <4>2. a \in DOMAIN originals /\ originals[a] \in Contents \union {Absent}
          BY <1>2, <1>3, <4>1
        <4> HIDE DEF k, c, a
        <4>3. QED
          BY <1>2, <1>3, <1>5, <1>6, <2>1, <4>1, <4>2, ContentComesBack
      <3>3. CASE UndoMove(w)
        <4>1. /\ Head(todo).op = "moveback"
              /\ IF Exists(tree, a.target) /\ ~Exists(tree, a.source)
                   THEN CanRename(tree, a.target, a.source) /\ tree' = Renamed(tree, a.target, a.source)
                   ELSE tree' = tree
          BY <3>3 DEF UndoMove, Undoing, Next1, Arg
        <4> HIDE DEF k, c, a
        <4>2. /\ Exists(tree, a.target) /\ ~Exists(tree, a.source)
              /\ CanRename(tree, a.target, a.source) =>
                   UndoAt(c, k + 1, before, Renamed(tree, a.target, a.source), moved, originals, removed)
          BY <1>2, <1>3, <1>5, <1>6, <2>1, <4>1, MoveComesBack
        <4>3. QED
          BY <4>1, <4>2
      <3>4. CASE UndoMadeDir(w)
        <4>1. /\ Head(todo).op = "rmmade"
              /\ tree' = tree \/ (CanRmdir(tree, a) /\ tree' = [tree EXCEPT ![a] = Absent])
          BY <3>4 DEF UndoMadeDir, Undoing, Next1, Arg
        <4>2. a \in Paths
          BY <1>2, <4>1
        <4> HIDE DEF k, c, a
        <4>3. QED
          BY <1>2, <1>3, <1>5, <1>6, <2>1, <4>1, <4>2, MadeDirGoes
      <3>5. QED
        BY <3>1, <3>2, <3>3, <3>4
    <2>3. QED
      BY <1>1, <1>2, <2>2 DEF Inside
  <1>9. QED
    BY <1>7, <1>8, InsideKeepsShape

LEMMA ValidateKeepsShape ==
  ASSUME Shape, Typing, IInv, NEW w \in Writers, ValidateMoves(w)
  PROVE  Shape'
  <1> DEFINE c == cs[w]
  <1>1. pc[w] = "verified" /\ pc[w] \in Locked
    BY DEF ValidateMoves, Locked
  <1>2. c \in AllChangeSets /\ tree \in Trees /\ Coherent(tree)
    BY <1>1 DEF Typing, TreesTyped, PlansTyped, AllChangeSets
  <1>3. CASE \A m \in Elements(c.moves) : ValidMove(m)
    <2>1. /\ pc' = [pc EXCEPT ![w] = "run"] /\ todo' = Steps(c)
          /\ moved' = << >> /\ removed' = << >> /\ originals' = NoDigests
          /\ UNCHANGED <<tree, cs, before, calm>>
      BY <1>3 DEF ValidateMoves, Goto, planVars, historyVars
    <2>2. ASSUME calm'
          PROVE  Inside(w)'
      <3>1. before = tree
        BY <1>1, <2>1, <2>2 DEF Shape, Inside
      <3>2. MovesPossible(c, tree)
        BY <1>2, <1>3, ValidatedIs
      <3>3. MovedTree(c, 0, tree) = tree
        BY <1>2, NothingMoved
      <3>4. Nm(c) \in Nat /\ 0 \in 0..Nm(c) /\ 0 <= Nm(c)
        BY <1>2, ChangeSetIs
      <3>5. Taken(Steps(c), Steps(c)) = 0
        BY <1>2, StepsAre, AllIsRest
      <3> HIDE DEF c
      <3>6. Base(c, 0, tree, tree, << >>, << >>)
        BY <3>2, <3>3, <3>4, NothingIn DEF Base, KeepsDirs, DirsClear, Clear
      <3>7. Moving(c, 0, tree, tree, << >>, NoDigests, << >>)
        BY <3>3, <3>4, <3>6 DEF Moving, SameFiles
      <3>8. RunAt(c, 0, tree, tree, << >>, NoDigests, << >>)
        BY <3>7 DEF RunAt
      <3>9. pc'[w] = "run" /\ cs'[w] = c
        BY <2>1 DEF IInv, Functions, c
      <3>10. QED
        BY <2>1, <3>1, <3>5, <3>8, <3>9 DEF Inside
    <2>3. QED
      BY <1>1, <2>1, <2>2, InsideKeepsShape
  <1>4. CASE ~\A m \in Elements(c.moves) : ValidMove(m)
    <2>1. pc' = [pc EXCEPT ![w] = "refused"]
      BY <1>4 DEF ValidateMoves, Leave, Goto
    <2>2. Inside(w)'
      BY <2>1 DEF Inside, IInv, Functions
    <2>3. QED
      BY <1>1, <2>1, <2>2, InsideKeepsShape
  <1>5. QED
    BY <1>3, <1>4

LEMMA CompareKeepsShape ==
  ASSUME Shape, Typing, IInv, NEW w \in Writers, Compare(w)
  PROVE  Shape'
  <1>1. pc[w] \in Locked
    BY DEF Compare, Locked
  <1>2. PICK stage : /\ pc' = [pc EXCEPT ![w] = stage]
                     /\ \/ stage = "verified" /\ before' = tree
                        \/ stage = "refused"
    BY DEF Compare, Goto, Leave
  <1>3. Inside(w)'
    <2>1. pc'[w] = stage /\ tree' = tree
      BY <1>2 DEF IInv, Functions, Compare
    <2>2. QED
      BY <1>2, <2>1 DEF Inside
  <1>4. QED
    BY <1>1, <1>2, <1>3, InsideKeepsShape

(* A writer that ends its change, or is ended.                             *)
LEMMA EndKeepsShape ==
  ASSUME Shape, Typing, IInv, NEW w \in Writers,
         \/ HookRefuses(w) \/ DoBody(w) \/ UndoDone(w) \/ UndoFails(w) \/ Finish(w)
         \/ Kill(w) \/ Interrupt(w)
  PROVE  Shape'
  <1>1. pc[w] \in Locked
    BY DEF HookRefuses, DoBody, Running, UndoDone, UndoFails, Finish, Kill, Interrupt, Locked
  <1>2. PICK stage : pc' = [pc EXCEPT ![w] = stage] /\ stage \notin Active
    <2>1. \E stage \in {"refused", "commit", "undone", "torn", "ok", "failed", "killed", "interrupted"} :
            Goto(w, stage)
      BY DEF HookRefuses, DoBody, UndoDone, UndoFails, Finish, Kill, Interrupt, Leave
    <2>2. QED
      BY <2>1 DEF Goto, Active
  <1>3. Inside(w)'
    BY <1>2 DEF Inside, Active, IInv, Functions
  <1>4. QED
    BY <1>1, <1>2, <1>3, InsideKeepsShape

LEMMA BeforeKeepsShape ==
  ASSUME Shape, Typing, IInv, NEW w \in Writers, Plan(w) \/ TakeSnapshot(w) \/ Acquire(w)
  PROVE  Shape'
  <1>1. UNCHANGED <<tree, before, todo, journalVars, calm>>
    BY DEF Plan, TakeSnapshot, Acquire, historyVars
  <1>2. PICK stage : pc' = [pc EXCEPT ![w] = stage] /\ stage \notin Active
    BY DEF Plan, TakeSnapshot, Acquire, Goto, Active
  <1>3. \A v \in Writers : v # w => pc'[v] = pc[v] /\ cs'[v] = cs[v]
    BY <1>2 DEF Plan, TakeSnapshot, Acquire, planVars, IInv, Functions
  <1>4. pc'[w] \notin Active
    BY <1>2 DEF IInv, Functions
  <1>5. QED
    BY <1>1, <1>3, <1>4, OutsideKeepsShape

LEMMA InitShape == Init => Shape
  BY DEF Init, Shape, Inside

LEMMA StepShape == Shape /\ Typing /\ IInv /\ [Next]_vars => Shape'
  <1> SUFFICES ASSUME Shape, Typing, IInv, [Next]_vars
               PROVE  Shape'
    OBVIOUS
  <1>1. CASE UNCHANGED vars
    BY <1>1, OutsideKeepsShape DEF vars, planVars, historyVars
  <1>2. ASSUME NEW w \in Writers, WriterStep(w)
        PROVE  Shape'
    <2>1. CASE Plan(w) \/ TakeSnapshot(w) \/ Acquire(w)
      BY <2>1, BeforeKeepsShape
    <2>2. CASE Compare(w)
      BY <2>2, CompareKeepsShape
    <2>3. CASE HookRefuses(w) \/ DoBody(w) \/ UndoDone(w) \/ UndoFails(w) \/ Finish(w)
      BY <2>3, EndKeepsShape
    <2>4. CASE ValidateMoves(w)
      BY <2>4, ValidateKeepsShape
    <2>5. CASE DoMove(w)
      BY <2>5, MoveKeepsShape
    <2>6. CASE ReadOriginals(w)
      BY <2>6, ReadKeepsShape
    <2>7. CASE DoWrite(w) \/ DoDelete(w) \/ DoRmdir(w)
      BY <2>7, ChangeKeepsShape
    <2>8. CASE FailMove(w) \/ FailStep(w)
      BY <2>8, FailKeepsShape
    <2>9. CASE UndoRmdir(w) \/ UndoContent(w) \/ UndoMove(w) \/ UndoMadeDir(w)
      BY <2>9, UndoKeepsShape
    <2>10. QED
      BY <1>2, <2>1, <2>2, <2>3, <2>4, <2>5, <2>6, <2>7, <2>8, <2>9 DEF WriterStep
  <1>3. ASSUME NEW w \in Writers, Kill(w) \/ Interrupt(w)
        PROVE  Shape'
    BY <1>3, EndKeepsShape
  <1>4. ASSUME NEW p \in Paths, Edit(p)
        PROVE  Shape'
    BY <1>4 DEF Edit, Shape
  <1>5. QED
    BY <1>1, <1>2, <1>3, <1>4 DEF Next

LEMMA InvariantShape == Spec => [](Shape /\ Typing /\ IInv)
  <1>1. Init => Shape
    BY InitShape
  <1>2. Shape /\ Typing /\ IInv /\ [Next]_vars => Shape'
    BY StepShape
  <1>3. Spec => []Typing /\ []IInv
    BY InvariantTyping, InvariantIInv, PTL
  <1>4. QED
    BY <1>1, <1>2, <1>3, PTL DEF Spec

----------------------------------------------------------------------------
(* The refinement: what the whole change set does to the files             *)
LEMMA SameWords ==
  /\ \A p, d : Atomic!Under(p, d) <=> Under(p, d)
  /\ \A p, f, t : Atomic!Rebased(p, f, t) = Rebased(p, f, t)
  /\ \A s : Atomic!Elements(s) = Elements(s)
  BY DEF Atomic!Under, Under, Atomic!Rebased, Rebased, Atomic!Elements, Elements, Atomic!IsPrefix,
         IsPrefix

LEMMA MovedFiles ==
  ASSUME NEW c \in AllChangeSets, NEW b, MovesPossible(c, b), NEW p \in Paths
  PROVE  Atomic!Moved(c, FilesOf(b))[p] = Digest(MovedTree(c, Nm(c), b), p)
  <1> DEFINE M == MovedTree(c, Nm(c), b)
             N == 1..Nm(c)
             f == FilesOf(b)
             arriving == {m \in Atomic!Elements(c.moves) : Atomic!Under(p, m.target)}
             leaving == {m \in Atomic!Elements(c.moves) : Atomic!Under(p, m.source)}
             origin == LET m == CHOOSE m \in arriving : TRUE
                       IN  Atomic!Rebased(p, m.target, m.source)
  <1>1. Atomic!Moved(c, f)[p] = IF arriving # {} THEN IF origin \in Paths THEN f[origin] ELSE Absent
                                ELSE IF leaving # {} THEN Absent ELSE f[p]
    <2> HIDE DEF f
    <2>1. QED
      BY DEF Atomic!Moved
  <1>2. /\ \A i \in N : Under(p, c.moves[i].target) =>
             M[p] = IF Rebased(p, c.moves[i].target, c.moves[i].source) \in Paths
                    THEN b[Rebased(p, c.moves[i].target, c.moves[i].source)] ELSE Absent
        /\ \A i \in N : Under(p, c.moves[i].source) => M[p] = Absent
        /\ (\A i \in N : ~Under(p, c.moves[i].target) /\ ~Under(p, c.moves[i].source)) => M[p] = b[p]
    <2>1. Nm(c) \in 0..Nm(c)
      BY ChangeSetIs
    <2>2. QED
      BY <2>1, MovedTreeAt
  <1>3. \A q \in Paths : f[q] = Digest(b, q)
    BY DEF FilesOf
  <1>4. Elements(c.moves) = {c.moves[i] : i \in N}
    BY ChangeSetIs, SeqElementsFinite DEF Nm
  <1>5. /\ arriving = {m \in Elements(c.moves) : Under(p, m.target)}
        /\ leaving = {m \in Elements(c.moves) : Under(p, m.source)}
    BY SameWords
  <1>6. Dir # Absent
    BY PathsAssumption
  <1> HIDE DEF M, f, N
  <1>7. CASE arriving # {}
    <2>1. PICK i \in N : c.moves[i] = (CHOOSE m \in arriving : TRUE) /\ Under(p, c.moves[i].target)
      BY <1>4, <1>7, <1>5
    <2>2. origin = Rebased(p, c.moves[i].target, c.moves[i].source)
      BY <2>1, SameWords
    <2> HIDE DEF origin, arriving, leaving
    <2>3. M[p] = IF origin \in Paths THEN b[origin] ELSE Absent
      BY <1>2, <2>1, <2>2
    <2>4. Digest(M, p) = IF origin \in Paths THEN f[origin] ELSE Absent
      BY <1>3, <1>6, <2>3 DEF Digest, IsFile
    <2>5. QED
      BY <1>1, <1>7, <2>4 DEF M, f
  <1>8. CASE arriving = {} /\ leaving # {}
    <2>1. PICK i \in N : Under(p, c.moves[i].source)
      BY <1>4, <1>8, <1>5
    <2>2. Digest(M, p) = Absent
      BY <1>2, <2>1 DEF Digest, IsFile
    <2> HIDE DEF origin, arriving, leaving
    <2>3. QED
      BY <1>1, <1>8, <2>2 DEF M, f
  <1>9. CASE arriving = {} /\ leaving = {}
    <2>1. \A i \in N : ~Under(p, c.moves[i].target) /\ ~Under(p, c.moves[i].source)
      BY <1>4, <1>9, <1>5
    <2>2. Digest(M, p) = f[p]
      BY <1>2, <1>3, <2>1 DEF Digest, IsFile
    <2> HIDE DEF origin, arriving, leaving
    <2>3. QED
      BY <1>1, <1>9, <2>2 DEF M, f
  <1>10. QED
    BY <1>7, <1>8, <1>9

LEMMA ResultIs ==
  ASSUME NEW c \in AllChangeSets, NEW b, MovesPossible(c, b), NEW t,
         \A p \in Paths : Digest(t, p) = Final(c, MovedTree(c, Nm(c), b), p)
  PROVE  FilesOf(t) = Atomic!Result(c, FilesOf(b))
  <1> DEFINE u == MovedTree(c, Nm(c), b)
             f == FilesOf(b)
             written(p) == {x \in Atomic!Elements(c.writes) : x.path = p}
  <1>1. Atomic!Result(c, f) =
          [p \in Paths |-> IF p \in Atomic!Elements(c.deletes) THEN Absent
                           ELSE IF written(p) # {} THEN (CHOOSE x \in written(p) : TRUE).content
                           ELSE Atomic!Moved(c, f)[p]]
    <2> HIDE DEF f
    <2>1. QED
      BY DEF Atomic!Result
  <1>2. /\ Atomic!Elements(c.writes) = {c.writes[i] : i \in 1..Nw(c)}
        /\ Atomic!Elements(c.deletes) = {c.deletes[i] : i \in 1..Nd(c)}
    BY SameWords, ChangeSetIs, SeqElementsFinite DEF Nw, Nd
  <1>3. \A i, j \in 1..Nw(c) : c.writes[i].path = c.writes[j].path => i = j
    BY ChangeSetIs DEF WritesApart, Nw
  <1>4. ASSUME NEW p \in Paths
        PROVE  Digest(t, p) = Atomic!Result(c, f)[p]
    <2> HIDE DEF f, u
    <2>1. Digest(t, p) = Final(c, u, p)
      BY DEF u
    <2>2. Atomic!Moved(c, f)[p] = Digest(u, p)
      BY MovedFiles DEF f, u
    <2>3. p \in Atomic!Elements(c.deletes) <=> \E j \in 1..Nd(c) : c.deletes[j] = p
      BY <1>2
    <2>4. written(p) # {} <=> \E j \in 1..Nw(c) : c.writes[j].path = p
      BY <1>2
    <2>5. ASSUME NEW j \in 1..Nw(c), c.writes[j].path = p
          PROVE  /\ (CHOOSE i \in 1..Nw(c) : c.writes[i].path = p) = j
                 /\ (CHOOSE x \in written(p) : TRUE) = c.writes[j]
      <3>1. (CHOOSE i \in 1..Nw(c) : c.writes[i].path = p) = j
        BY <1>3, <2>5
      <3>2. written(p) = {c.writes[j]}
        BY <1>2, <1>3, <2>5
      <3> HIDE DEF written
      <3>3. QED
        BY <3>1, <3>2
    <2> HIDE DEF written
    <2>6. Atomic!Result(c, f)[p] = IF p \in Atomic!Elements(c.deletes) THEN Absent
                           ELSE IF written(p) # {} THEN (CHOOSE x \in written(p) : TRUE).content
                           ELSE Atomic!Moved(c, f)[p]
      BY <1>1
    <2>7. Final(c, u, p) = IF p \in Atomic!Elements(c.deletes) THEN Absent
                           ELSE IF written(p) # {} THEN (CHOOSE x \in written(p) : TRUE).content
                           ELSE Digest(u, p)
      BY <2>3, <2>4, <2>5 DEF Final
    <2>8. QED
      BY <2>1, <2>2, <2>6, <2>7
  <1>5. DOMAIN Atomic!Result(c, f) = Paths /\ Atomic!Result(c, f) = [p \in Paths |-> Atomic!Result(c, f)[p]]
    BY <1>1
  <1> HIDE DEF f
  <1>6. FilesOf(t) = [p \in Paths |-> Digest(t, p)]
    BY DEF FilesOf
  <1>7. QED
    BY <1>4, <1>5, <1>6 DEF f

----------------------------------------------------------------------------
(* The refinement: the steps                                               *)
EndOf(stage) ==
  CASE stage \in {"commit", "ok"} -> "ok"
    [] stage \in {"undone", "failed", "refused"} -> "refused"
    [] stage = "torn" -> "torn"
    [] OTHER -> "pending"

LEMMA EndsAre ==
  /\ \A s \in {"idle", "planned", "ready", "locked", "verified", "run", "undo"} : EndOf(s) = "pending"
  /\ EndOf("commit") = "ok" /\ EndOf("ok") = "ok" /\ EndOf("torn") = "torn"
  /\ \A s \in {"undone", "failed", "refused"} : EndOf(s) = "refused"
  BY DEF EndOf

LEMMA OutcomeIs ==
  Outcome = [w \in Writers |-> EndOf(pc[w])]
  BY DEF Outcome, EndOf

LEMMA OutcomeThen ==
  ASSUME IInv, NEW w \in Writers, NEW stage, pc' = [pc EXCEPT ![w] = stage]
  PROVE  Outcome' = [Outcome EXCEPT ![w] = EndOf(stage)]
  <1>1. Outcome = [v \in Writers |-> EndOf(pc[v])]
    BY OutcomeIs
  <1>2. Outcome' = [v \in Writers |-> EndOf(pc'[v])]
    BY DEF Outcome, EndOf
  <1>3. pc'[w] = stage /\ \A v \in Writers : v # w => pc'[v] = pc[v]
    BY DEF IInv, Functions
  <1>4. QED
    BY <1>1, <1>2, <1>3

(* What is seen from outside when w holds the lock.                        *)
LEMMA Shows ==
  ASSUME IInv, NEW w \in Writers, pc[w] \in Locked
  PROVE  VisibleFiles = FilesOf(IF pc[w] \in {"run", "undo"} THEN before ELSE tree)
  <1>1. (\E v \in Writers : pc[v] \in {"run", "undo"}) <=> pc[w] \in {"run", "undo"}
    <2>1. \A v \in Writers : v # w => pc[v] \notin {"run", "undo"}
      BY OthersAreOutside DEF Locked
    <2>2. QED
      BY <2>1
  <1>2. QED
    BY <1>1 DEF VisibleFiles

LEMMA ShowsThen ==
  ASSUME IInv, NEW w \in Writers, pc[w] \in Locked, NEW stage, pc' = [pc EXCEPT ![w] = stage]
  PROVE  VisibleFiles' = FilesOf(IF stage \in {"run", "undo"} THEN before' ELSE tree')
  <1>1. (\E v \in Writers : pc'[v] \in {"run", "undo"}) <=> stage \in {"run", "undo"}
    <2>1. \A v \in Writers : v # w => pc'[v] \notin {"run", "undo"}
      BY OthersAreOutside DEF Locked, IInv, Functions
    <2>2. pc'[w] = stage
      BY DEF IInv, Functions
    <2>3. QED
      BY <2>1, <2>2
  <1>2. QED
    BY <1>1 DEF VisibleFiles, FilesOf, Digest, IsFile

(* The steps of the abstract specification, seen from the detailed one.    *)
Refuses(w) == VisibleFiles' = VisibleFiles /\ Outcome[w] = "pending" /\ Outcome' = [Outcome EXCEPT ![w] = "refused"]
Commits(w) ==
  /\ Outcome[w] = "pending" /\ Outcome' = [Outcome EXCEPT ![w] = "ok"]
  /\ cs[w] \in ChangeSets[w] /\ VisibleFiles' = Atomic!Result(cs[w], VisibleFiles)
Tears(w) ==
  /\ Outcome[w] = "pending" /\ Outcome' = [Outcome EXCEPT ![w] = "torn"]
  /\ VisibleFiles' \in [Paths -> Contents \union {Absent}]
Stutters == UNCHANGED <<VisibleFiles, Outcome>>

LEMMA CalmStep ==
  ASSUME calm, calm', NEW w \in Writers, Stutters \/ Refuses(w) \/ Commits(w) \/ Tears(w)
  PROVE  [Atomic!ANext]_<<CalmFiles, CalmOutcome>>
  <1>1. /\ CalmFiles = VisibleFiles /\ CalmFiles' = VisibleFiles'
        /\ CalmOutcome = Outcome /\ CalmOutcome' = Outcome'
    BY DEF CalmFiles, CalmOutcome
  <1>2. CASE Stutters
    BY <1>1, <1>2 DEF Stutters
  <1>3. CASE Refuses(w)
    <2>1. Atomic!Refuse(w)
      BY <1>1, <1>3 DEF Refuses, Atomic!Refuse, Atomic!Ends
    <2>2. QED
      BY <2>1 DEF Atomic!ANext
  <1>4. CASE Commits(w)
    <2>1. Atomic!Commit(w)
      BY <1>1, <1>4 DEF Commits, Atomic!Commit, Atomic!Ends
    <2>2. QED
      BY <2>1 DEF Atomic!ANext
  <1>5. CASE Tears(w)
    <2>1. Atomic!Tear(w)
      BY <1>1, <1>5 DEF Tears, Atomic!Tear, Atomic!Ends
    <2>2. QED
      BY <2>1 DEF Atomic!ANext
  <1>6. QED
    BY <1>2, <1>3, <1>4, <1>5

LEMMA RestlessStep ==
  ASSUME ~calm, ~calm'
  PROVE  [Atomic!ANext]_<<CalmFiles, CalmOutcome>>
  BY DEF CalmFiles, CalmOutcome

(* A writer that moves on and is still expected to end, or has ended.      *)
LEMMA StepStutters ==
  ASSUME IInv, NEW w \in Writers, pc[w] \in Locked, NEW stage, pc' = [pc EXCEPT ![w] = stage],
         EndOf(pc[w]) = EndOf(stage),
         FilesOf(IF stage \in {"run", "undo"} THEN before' ELSE tree')
           = FilesOf(IF pc[w] \in {"run", "undo"} THEN before ELSE tree)
  PROVE  Stutters
  <1>1. VisibleFiles' = VisibleFiles
    <2>1. VisibleFiles = FilesOf(IF pc[w] \in {"run", "undo"} THEN before ELSE tree)
      BY Shows
    <2>2. VisibleFiles' = FilesOf(IF stage \in {"run", "undo"} THEN before' ELSE tree')
      BY ShowsThen
    <2>3. QED
      BY <2>1, <2>2
  <1>2. Outcome' = Outcome
    <2>1. Outcome' = [Outcome EXCEPT ![w] = EndOf(stage)]
      BY OutcomeThen
    <2>2. Outcome = [v \in Writers |-> EndOf(pc[v])]
      BY OutcomeIs
    <2>3. QED
      BY <2>1, <2>2
  <1>3. QED
    BY <1>1, <1>2 DEF Stutters

LEMMA InsideMaps ==
  ASSUME IInv, Typing, Shape, calm, NEW w \in Writers,
         \/ ValidateMoves(w) \/ Compare(w) \/ HookRefuses(w) \/ Finish(w)
         \/ DoMove(w) \/ ReadOriginals(w) \/ DoWrite(w) \/ DoDelete(w) \/ DoRmdir(w)
         \/ FailMove(w) \/ FailStep(w)
         \/ UndoRmdir(w) \/ UndoContent(w) \/ UndoMove(w) \/ UndoMadeDir(w)
  PROVE  Stutters \/ Refuses(w)
  <1>1. ASSUME NEW stage \in {"run", "undo"}, pc[w] \in {"run", "undo"}, pc' = [pc EXCEPT ![w] = stage],
               before' = before
        PROVE  Stutters
    <2>1. pc[w] \in Locked /\ EndOf(pc[w]) = EndOf(stage)
      BY <1>1, EndsAre DEF Locked
    <2>2. QED
      BY <1>1, <2>1, StepStutters
  <1>2. ASSUME pc[w] \in {"locked", "verified"}, pc' = [pc EXCEPT ![w] = "refused"], tree' = tree
        PROVE  Refuses(w)
    <2>1. pc[w] \in Locked /\ EndOf(pc[w]) = "pending" /\ EndOf("refused") = "refused"
      BY <1>2, EndsAre DEF Locked
    <2>2. VisibleFiles = FilesOf(tree) /\ VisibleFiles' = FilesOf(tree')
      BY <1>2, <2>1, Shows, ShowsThen
    <2>3. Outcome[w] = "pending" /\ Outcome' = [Outcome EXCEPT ![w] = "refused"]
      BY <1>2, <2>1, OutcomeIs, OutcomeThen
    <2>4. QED
      BY <1>2, <2>2, <2>3 DEF Refuses
  <1>3. CASE ValidateMoves(w)
    <2>1. pc[w] = "verified" /\ tree' = tree /\ before' = before
      BY <1>3 DEF ValidateMoves, historyVars
    <2>2. CASE pc' = [pc EXCEPT ![w] = "refused"]
      BY <1>2, <2>1, <2>2
    <2>3. CASE pc' = [pc EXCEPT ![w] = "run"]
      <3>1. before = tree
        BY <2>1 DEF Shape, Inside
      <3>2. pc[w] \in Locked /\ EndOf(pc[w]) = EndOf("run")
        BY <2>1, EndsAre DEF Locked
      <3>3. QED
        BY <2>1, <2>3, <3>1, <3>2, StepStutters
    <2>4. QED
      BY <1>3, <2>2, <2>3 DEF ValidateMoves, Leave, Goto
  <1>4. CASE Compare(w)
    <2>1. pc[w] = "locked" /\ tree' = tree
      BY <1>4 DEF Compare
    <2>2. CASE pc' = [pc EXCEPT ![w] = "refused"]
      BY <1>2, <2>1, <2>2
    <2>3. CASE pc' = [pc EXCEPT ![w] = "verified"]
      <3>1. pc[w] \in Locked /\ EndOf(pc[w]) = EndOf("verified")
        BY <2>1, EndsAre DEF Locked
      <3>2. QED
        BY <2>1, <2>3, <3>1, StepStutters
    <2>4. QED
      BY <1>4, <2>2, <2>3 DEF Compare, Leave, Goto
  <1>5. CASE HookRefuses(w)
    BY <1>2, <1>5 DEF HookRefuses, Leave, Goto
  <1>6. CASE Finish(w)
    <2>1. PICK stage \in {"ok", "failed"} :
            /\ pc[w] \in {"commit", "undone"} /\ EndOf(pc[w]) = EndOf(stage)
            /\ pc' = [pc EXCEPT ![w] = stage] /\ tree' = tree
      BY <1>6, EndsAre DEF Finish, Leave, Goto
    <2>2. pc[w] \in Locked
      BY <2>1 DEF Locked
    <2>3. QED
      BY <2>1, <2>2, StepStutters
  <1>7. CASE DoMove(w) \/ ReadOriginals(w) \/ DoWrite(w) \/ DoDelete(w) \/ DoRmdir(w)
    <2>1. pc[w] = "run" /\ pc' = pc /\ before' = before
      BY <1>7 DEF DoMove, ReadOriginals, DoWrite, DoDelete, DoRmdir, Running, historyVars
    <2>2. pc' = [pc EXCEPT ![w] = "run"]
      BY <2>1 DEF IInv, Functions
    <2>3. QED
      BY <1>1, <2>1, <2>2
  <1>8. CASE FailMove(w) \/ FailStep(w)
    <2>1. pc[w] = "run" /\ pc' = [pc EXCEPT ![w] = "undo"] /\ before' = before
      BY <1>8 DEF FailMove, FailStep, Running, Goto, historyVars
    <2>2. QED
      BY <1>1, <2>1
  <1>9. CASE UndoRmdir(w) \/ UndoContent(w) \/ UndoMove(w) \/ UndoMadeDir(w)
    <2>1. pc[w] = "undo" /\ pc' = pc /\ before' = before
      BY <1>9 DEF UndoRmdir, UndoContent, UndoMove, UndoMadeDir, Undoing, historyVars
    <2>2. pc' = [pc EXCEPT ![w] = "undo"]
      BY <2>1 DEF IInv, Functions
    <2>3. QED
      BY <1>1, <2>1, <2>2
  <1>10. QED
    BY <1>3, <1>4, <1>5, <1>6, <1>7, <1>8, <1>9

(* The whole change shows in the step that cannot fail any more.           *)
LEMMA BodyMaps ==
  ASSUME IInv, Typing, Shape, calm, NEW w \in Writers, DoBody(w)
  PROVE  Commits(w)
  <1> DEFINE c == cs[w]
             k == Taken(todo, Steps(c))
  <1>1. /\ pc[w] = "run" /\ Head(todo).op = "body" /\ pc' = [pc EXCEPT ![w] = "commit"]
        /\ tree' = tree
    BY DEF DoBody, Running, Next1, Goto
  <1>2. /\ c \in AllChangeSets /\ k \in Nat /\ k + 1 \in 1..Len(Steps(c)) /\ Head(todo) = Steps(c)[k + 1]
    BY <1>1, RunStep
  <1>3. Nm(c) \in Nat /\ Nw(c) \in Nat /\ Nd(c) \in Nat /\ Nr(c) \in Nat
    BY <1>2, ChangeSetIs
  <1>4. k = Nm(c) + Nw(c) + Nd(c) + Nr(c) + 1
    BY <1>1, <1>2, StepIs
  <1>5. Changing(c, k, before, tree, moved, originals, removed)
    <2>1. RunAt(c, k, before, tree, moved, originals, removed)
      BY <1>1 DEF Shape, Inside
    <2>2. ~(k <= Nm(c))
      BY <1>3, <1>4
    <2>3. QED
      BY <2>1, <2>2 DEF RunAt, Moving
  <1>6. FilesOf(tree) = Atomic!Result(c, FilesOf(before))
    <2> HIDE DEF c, k
    <2>1. MovesPossible(c, before)
      BY <1>5 DEF Changing, Base
    <2>2. k > Nm(c) + Nw(c) + Nd(c)
      BY <1>3, <1>4
    <2>3. ASSUME NEW p \in Paths
          PROVE  Digest(tree, p) = Final(c, MovedTree(c, Nm(c), before), p)
      <3>1. Digest(tree, p) = Expected(c, k, MovedTree(c, Nm(c), before), p)
        BY <1>5 DEF Changing
      <3>2. Expected(c, k, MovedTree(c, Nm(c), before), p) = Final(c, MovedTree(c, Nm(c), before), p)
        BY <1>2, <2>2, ExpectedAtLast
      <3>3. QED
        BY <3>1, <3>2
    <2>4. QED
      BY <1>2, <2>1, <2>3, ResultIs
  <1>7. pc[w] \in Locked /\ EndOf(pc[w]) = "pending" /\ EndOf("commit") = "ok"
    BY <1>1, EndsAre DEF Locked
  <1>8. VisibleFiles = FilesOf(before)
    BY <1>1, <1>7, Shows
  <1>9. VisibleFiles' = FilesOf(tree)
    <2>1. VisibleFiles' = FilesOf(IF "commit" \in {"run", "undo"} THEN before' ELSE tree')
      BY <1>1, <1>7, ShowsThen
    <2>2. QED
      BY <1>1, <2>1
  <1>10. Outcome' = [Outcome EXCEPT ![w] = "ok"]
    BY <1>1, <1>7, OutcomeThen
  <1>11. Outcome[w] = "pending"
    BY <1>7, OutcomeIs
  <1>12. cs[w] \in ChangeSets[w]
    BY <1>1 DEF Typing, PlansTyped
  <1>13. QED
    BY <1>6, <1>8, <1>9, <1>10, <1>11, <1>12 DEF Commits

(* A compensation that ends without an error has restored every file.      *)
LEMMA UndoneMaps ==
  ASSUME IInv, Typing, Shape, calm, NEW w \in Writers, UndoDone(w)
  PROVE  Refuses(w)
  <1> DEFINE c == cs[w]
             U == UndoOf(removed, originals, moved, made)
             k == Taken(todo, U)
  <1>1. /\ pc[w] = "undo" /\ todo = << >> /\ pc' = [pc EXCEPT ![w] = "undone"] /\ tree' = tree
    BY DEF UndoDone, Goto
  <1>2. Journal(removed, originals, moved, made) /\ c \in AllChangeSets
    BY <1>1 DEF Typing, JournalTyped, PlansTyped, AllChangeSets
  <1>3. UndoLaidOut(U, removed, originals, moved, made)
    BY <1>2, UndoStepsAre
  <1>4. /\ Len(removed) \in Nat /\ Len(Listing(originals)) \in Nat /\ Len(moved) \in Nat
        /\ Len(made) \in Nat
    BY <1>2, LengthsOf
  <1>5. k = Len(removed) + Len(Listing(originals)) + Len(moved) + Len(made)
    <2>1. Len(U) = Len(removed) + Len(Listing(originals)) + Len(moved) + Len(made)
      BY <1>3 DEF UndoLaidOut
    <2>2. Len(todo) = 0
      BY <1>1
    <2> HIDE DEF U
    <2>3. QED
      BY <1>4, <2>1, <2>2 DEF Taken
  <1>6. UndoAt(c, k, before, tree, moved, originals, removed)
    BY <1>1 DEF Shape, Inside
  <1>7. SameFiles(tree, before, {})
    <2> HIDE DEF c, k
    <2>1. k \in Nat /\ k >= Len(removed) + Len(Listing(originals)) + Len(moved)
      BY <1>4, <1>5
    <2>2. Tidying(k, before, tree, moved, originals, removed)
      BY <1>2, <1>6, <2>1, MovedBackIsTidying
    <2>3. QED
      BY <2>2 DEF Tidying
  <1>8. FilesOf(tree) = FilesOf(before)
    BY <1>7 DEF SameFiles, FilesOf
  <1>9. pc[w] \in Locked /\ EndOf(pc[w]) = "pending" /\ EndOf("undone") = "refused"
    BY <1>1, EndsAre DEF Locked
  <1>10. VisibleFiles = FilesOf(before)
    BY <1>1, <1>9, Shows
  <1>11. VisibleFiles' = FilesOf(tree)
    BY <1>1, <1>9, ShowsThen
  <1>12. Outcome' = [Outcome EXCEPT ![w] = "refused"]
    BY <1>1, <1>9, OutcomeThen
  <1>13. Outcome[w] = "pending"
    BY <1>9, OutcomeIs
  <1>14. QED
    BY <1>8, <1>10, <1>11, <1>12, <1>13 DEF Refuses

LEMMA FilesAreTyped ==
  ASSUME NEW t \in Trees
  PROVE  FilesOf(t) \in [Paths -> Contents \union {Absent}]
  BY DEF FilesOf, Digest, IsFile, Trees

LEMMA UndoFailsMaps ==
  ASSUME IInv, Typing, Shape, calm, NEW w \in Writers, UndoFails(w)
  PROVE  Tears(w)
  <1>1. pc[w] = "undo" /\ pc' = [pc EXCEPT ![w] = "torn"] /\ tree' = tree
    BY DEF UndoFails, Leave, Goto
  <1>2. pc[w] \in Locked /\ EndOf(pc[w]) = "pending" /\ EndOf("torn") = "torn"
    BY <1>1, EndsAre DEF Locked
  <1>3. VisibleFiles' = FilesOf(tree)
    BY <1>1, <1>2, ShowsThen
  <1>4. tree \in Trees
    BY DEF Typing, TreesTyped
  <1>5. VisibleFiles' \in [Paths -> Contents \union {Absent}]
    BY <1>3, <1>4, FilesAreTyped
  <1>6. Outcome' = [Outcome EXCEPT ![w] = "torn"]
    BY <1>1, <1>2, OutcomeThen
  <1>7. Outcome[w] = "pending"
    BY <1>2, OutcomeIs
  <1>8. QED
    BY <1>5, <1>6, <1>7 DEF Tears

(* Before the lock nothing is seen, or the refusal of the lock.            *)
LEMMA BeforeMaps ==
  ASSUME IInv, Typing, Shape, calm, NEW w \in Writers, Plan(w) \/ TakeSnapshot(w) \/ Acquire(w)
  PROVE  Stutters \/ Refuses(w)
  <1>1. /\ tree' = tree /\ before' = before /\ pc[w] \in {"idle", "planned", "ready"}
    BY DEF Plan, TakeSnapshot, Acquire, historyVars
  <1>2. PICK stage \in {"planned", "ready", "locked", "refused"} : pc' = [pc EXCEPT ![w] = stage]
    BY DEF Plan, TakeSnapshot, Acquire, Goto
  <1>3. (\E v \in Writers : pc'[v] \in {"run", "undo"}) <=> (\E v \in Writers : pc[v] \in {"run", "undo"})
    <2>1. \A v \in Writers : pc'[v] \in {"run", "undo"} <=> pc[v] \in {"run", "undo"}
      BY <1>1, <1>2 DEF IInv, Functions
    <2>2. QED
      BY <2>1
  <1>4. VisibleFiles' = VisibleFiles
    BY <1>1, <1>3 DEF VisibleFiles, FilesOf, Digest, IsFile
  <1>5. Outcome' = [Outcome EXCEPT ![w] = EndOf(stage)]
    BY <1>2, OutcomeThen
  <1>6. EndOf(pc[w]) = "pending" /\ (EndOf(stage) = "pending" \/ EndOf(stage) = "refused")
    BY <1>1, <1>2, EndsAre
  <1>7. Outcome = [v \in Writers |-> EndOf(pc[v])]
    BY OutcomeIs
  <1>8. Outcome[w] = "pending"
    BY <1>6, <1>7
  <1>9. CASE EndOf(stage) = "pending"
    <2>1. Outcome' = Outcome
      BY <1>5, <1>7, <1>8, <1>9
    <2>2. QED
      BY <1>4, <2>1 DEF Stutters
  <1>10. CASE EndOf(stage) = "refused"
    BY <1>4, <1>5, <1>8, <1>10 DEF Refuses
  <1>11. QED
    BY <1>6, <1>9, <1>10

----------------------------------------------------------------------------
LEMMA InitMaps == Init => Atomic!AInit
  <1> SUFFICES ASSUME Init
               PROVE  Atomic!AInit
    OBVIOUS
  <1>1. tree \in Trees
    BY VaultsAssumption DEF Init, Trees
  <1>2. VisibleFiles = FilesOf(tree)
    BY DEF Init, VisibleFiles
  <1>3. VisibleFiles \in [Paths -> Contents \union {Absent}]
    BY <1>1, <1>2, FilesAreTyped
  <1>4. CalmFiles \in [Paths -> Contents \union {Absent}]
    BY <1>3 DEF CalmFiles
  <1>5. Outcome = [w \in Writers |-> "pending"]
    BY OutcomeIs, EndsAre DEF Init
  <1>6. QED
    BY <1>4, <1>5 DEF Atomic!AInit, CalmOutcome

LEMMA StepMaps ==
  IInv /\ Typing /\ Shape /\ [Next]_vars => [Atomic!ANext]_<<CalmFiles, CalmOutcome>>
  <1> SUFFICES ASSUME IInv, Typing, Shape, [Next]_vars
               PROVE  [Atomic!ANext]_<<CalmFiles, CalmOutcome>>
    OBVIOUS
  <1>1. calm' = calm /\ calm \in BOOLEAN
    BY DEF Typing, BoundsTyped, Next, WriterStep, Plan, TakeSnapshot, Acquire, Compare, HookRefuses,
           ValidateMoves, DoMove, ReadOriginals, DoWrite, DoDelete, DoRmdir, DoBody, FailMove,
           FailStep, UndoRmdir, UndoContent, UndoMove, UndoMadeDir, UndoDone, UndoFails, Finish,
           Kill, Interrupt, Edit, historyVars, vars
  <1>2. CASE ~calm
    BY <1>1, <1>2, RestlessStep
  <1>3. CASE UNCHANGED vars
    BY <1>3 DEF vars, historyVars, CalmFiles, CalmOutcome, VisibleFiles, Outcome, FilesOf, Digest, IsFile
  <1>4. ASSUME calm, NEW w \in Writers, WriterStep(w)
        PROVE  [Atomic!ANext]_<<CalmFiles, CalmOutcome>>
    <2>1. CASE Plan(w) \/ TakeSnapshot(w) \/ Acquire(w)
      BY <1>1, <1>4, <2>1, BeforeMaps, CalmStep
    <2>2. CASE DoBody(w)
      BY <1>1, <1>4, <2>2, BodyMaps, CalmStep
    <2>3. CASE UndoDone(w)
      BY <1>1, <1>4, <2>3, UndoneMaps, CalmStep
    <2>4. CASE UndoFails(w)
      BY <1>1, <1>4, <2>4, UndoFailsMaps, CalmStep
    <2>5. CASE \/ ValidateMoves(w) \/ Compare(w) \/ HookRefuses(w) \/ Finish(w)
               \/ DoMove(w) \/ ReadOriginals(w) \/ DoWrite(w) \/ DoDelete(w) \/ DoRmdir(w)
               \/ FailMove(w) \/ FailStep(w)
               \/ UndoRmdir(w) \/ UndoContent(w) \/ UndoMove(w) \/ UndoMadeDir(w)
      BY <1>1, <1>4, <2>5, InsideMaps, CalmStep
    <2>6. QED
      BY <1>4, <2>1, <2>2, <2>3, <2>4, <2>5 DEF WriterStep
  <1>5. CASE calm /\ \E w \in Writers : Kill(w) \/ Interrupt(w)
    BY <1>5 DEF Kill, Interrupt
  <1>6. CASE calm /\ \E p \in Paths : Edit(p)
    BY <1>6 DEF Edit
  <1>7. QED
    BY <1>1, <1>2, <1>3, <1>4, <1>5, <1>6 DEF Next

(* In calm behaviours the executor is all or nothing: whatever fails and   *)
(* wherever, the files of the Vault change in one step to the result of    *)
(* the whole change set, or are as they were, or the writer has said that  *)
(* its compensation failed.                                                *)
THEOREM Implements == Spec => AtomicSpec
  <1>1. Init => Atomic!AInit
    BY InitMaps
  <1>2. IInv /\ Typing /\ Shape /\ [Next]_vars => [Atomic!ANext]_<<CalmFiles, CalmOutcome>>
    BY StepMaps
  <1>3. Spec => [](Shape /\ Typing /\ IInv)
    BY InvariantShape
  <1>4. QED
    BY <1>1, <1>2, <1>3, PTL DEF Spec, AtomicSpec, Atomic!ASpec, Atomic!avars
=============================================================================
