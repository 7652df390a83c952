--------------------------- MODULE DomainsProofs ---------------------------
(***************************************************************************)
(* Theorems about the lock under which commands write (WriteLock) and      *)
(* about the Space and Domain commands (Domains), for any PIDs, processes, *)
(* Vaults, requests and drafts.                                            *)
(*                                                                         *)
(* WriteLock: LockIInv is preserved action by action; the safety           *)
(* properties follow from it.                                              *)
(*                                                                         *)
(* Domains: what a command makes of a Vault is a Vault again, also when it *)
(* was planned on another one; IInv says in addition what a job's plan     *)
(* stands on, and ContentKept is shown of every step from IInv, command by *)
(* command.                                                                *)
(***************************************************************************)
EXTENDS Domains, WriteLock, SequenceTheorems, FiniteSetTheorems, TLAPS

(* The invariant holds when no process has started. *)
LEMMA InitLockIInv == LockInit => LockIInv
  <1> SUFFICES ASSUME LockInit PROVE LockIInv
    OBVIOUS
  <1>1. LockTypeOK
    <2>1. recovered \in BOOLEAN
      BY DEF LockInit
    <2>2. pc \in [Pids -> PCs] /\ seen \in [Pids -> Pids \union {NoPid}]
      BY DEF LockInit, PCs
    <2>3. QED
      BY <2>1, <2>2, MaxCrashesAssumption DEF LockInit, LockTypeOK
  <1>2. OwnedUntilRecovery /\ FileNamesCreator
    BY DEF LockInit, OwnedUntilRecovery, Critical, FileNamesCreator
  <1>3. NamedPidsStarted /\ StaleVerdictSound
    BY DEF LockInit, NamedPidsStarted, StaleVerdictSound
  <1>4. QED
    BY <1>1, <1>2, <1>3 DEF LockIInv

(* Every step keeps it. *)
LEMMA StepLockIInv == LockIInv /\ [LockNext]_lockVars => LockIInv'
  <1> SUFFICES ASSUME LockIInv, [LockNext]_lockVars
               PROVE  LockIInv'
    OBVIOUS
  <1> USE NoPidAssumption, ReusableAssumption, MaxCrashesAssumption
          DEF LockIInv, LockTypeOK, PCs, Contending, Critical, Goto, OwnedUntilRecovery,
              FileNamesCreator, NamedPidsStarted, StaleVerdictSound
  <1>1. ASSUME NEW p \in Pids, Open(p) PROVE LockIInv'
    BY <1>1 DEF Open
  <1>2. ASSUME NEW p \in Pids, ReadPid(p) PROVE LockIInv'
    BY <1>2 DEF ReadPid
  <1>3. ASSUME NEW p \in Pids, CheckPid(p) PROVE LockIInv'
    BY <1>3 DEF CheckPid, PidExists
  <1>4. ASSUME NEW p \in Pids, UnlinkStale(p) PROVE LockIInv'
    BY <1>4 DEF UnlinkStale, Unlink
  <1>5. ASSUME NEW p \in Pids, OpenAgain(p) PROVE LockIInv'
    BY <1>5 DEF OpenAgain
  <1>6. ASSUME NEW p \in Pids, WritePid(p) PROVE LockIInv'
    BY <1>6 DEF WritePid
  <1>7. ASSUME NEW p \in Pids, WriteFails(p) \/ Release(p) PROVE LockIInv'
    BY <1>7 DEF WriteFails, Release, Unlink
  <1>8. ASSUME NEW p \in Pids, Start(p) PROVE LockIInv'
    BY <1>8 DEF Start
  <1>9. ASSUME NEW p \in Pids, Exit(p) PROVE LockIInv'
    BY <1>9 DEF Exit
  <1>10. ASSUME NEW p \in Pids, Crash(p) PROVE LockIInv'
    BY <1>10 DEF Crash
  <1>11. ASSUME NEW p \in Pids, ReusePid(p) PROVE LockIInv'
    BY <1>11 DEF ReusePid
  <1>12. CASE UNCHANGED lockVars
    BY <1>12 DEF lockVars
  <1>13. QED
    BY <1>1, <1>2, <1>3, <1>4, <1>5, <1>6, <1>7, <1>8, <1>9, <1>10, <1>11, <1>12
    DEF LockNext, LockStep

LEMMA InvariantLockIInv == LockSpec => []LockIInv
  BY InitLockIInv, StepLockIInv, PTL DEF LockSpec

(* The variables keep their types, and a contender that compares PIDs has  *)
(* one in hand: locking.py rejects an empty lock text first.               *)
THEOREM LockTypesHold == LockSpec => []LockTypeOK
  <1>1. LockIInv => LockTypeOK
    BY DEF LockIInv
  <1>2. QED
    BY InvariantLockIInv, <1>1, PTL

(* Governed writes of one scope exclude each other as long as no contender *)
(* of locking.py has taken a lock for stale.                               *)
THEOREM MutexHoldsUntilRecovery == LockSpec => []MutexUntilRecovery
  <1>1. LockIInv => MutexUntilRecovery
    BY DEF LockIInv, OwnedUntilRecovery, MutexUntilRecovery, MutualExclusion
  <1>2. QED
    BY InvariantLockIInv, <1>1, PTL

(* The text of the lock file names the process that created that file.     *)
THEOREM LockNamesItsCreator == LockSpec => []FileNamesCreator
  <1>1. LockIInv => FileNamesCreator
    BY DEF LockIInv
  <1>2. QED
    BY InvariantLockIInv, <1>1, PTL

(* A process found dead by _acquire is dead for good while its PID is not  *)
(* handed out again.                                                       *)
THEOREM StaleVerdictsAreSound == LockSpec => []StaleVerdictSound
  <1>1. LockIInv => StaleVerdictSound
    BY DEF LockIInv
  <1>2. QED
    BY InvariantLockIInv, <1>1, PTL

----------------------------------------------------------------------------
(* Paths and their prefixes                                                *)
Names == STRING

LEMMA UnderIs ==
  ASSUME NEW p \in Seq(Names), NEW d \in Seq(Names)
  PROVE  Under(p, d) <=> Len(d) <= Len(p) /\ \A i \in 1..Len(d) : p[i] = d[i]
  <1>1. Len(d) \in Nat /\ Len(p) \in Nat /\ DOMAIN d = 1..Len(d) /\ DOMAIN p = 1..Len(p)
    BY LenProperties
  <1>2. SubSeq(d, 1, Len(d)) = d
    BY SubSeqFull
  <1>3. ASSUME Len(d) <= Len(p)
        PROVE  /\ SubSeq(p, 1, Len(d)) \in Seq(Names)
               /\ Len(SubSeq(p, 1, Len(d))) = Len(d)
               /\ \A i \in 1..Len(d) : SubSeq(p, 1, Len(d))[i] = p[i]
    <2>1. \A i \in 1..Len(d) : p[i] \in Names
      BY <1>1, <1>3, ElementOfSeq
    <2>2. QED
      BY <1>1, <2>1, SubSeqProperties
  <1>4. ASSUME Len(d) <= Len(p), \A i \in 1..Len(d) : p[i] = d[i]
        PROVE  SubSeq(p, 1, Len(d)) = d
    BY <1>3, <1>4, SeqEqual
  <1>5. QED
    BY <1>1, <1>2, <1>3, <1>4 DEF Under, IsPrefix

LEMMA UnderItself ==
  ASSUME NEW p \in Seq(Names)
  PROVE  Under(p, p)
  BY UnderIs, LenProperties

LEMMA UnderIsTransitive ==
  ASSUME NEW p \in Seq(Names), NEW q \in Seq(Names), NEW r \in Seq(Names),
         Under(p, q), Under(q, r)
  PROVE  Under(p, r)
  <1>1. Len(p) \in Nat /\ Len(q) \in Nat /\ Len(r) \in Nat
    BY LenProperties
  <1>2. QED
    BY <1>1, UnderIs

LEMMA UnderEachOther ==
  ASSUME NEW p \in Seq(Names), NEW q \in Seq(Names), Under(p, q), Under(q, p)
  PROVE  p = q
  <1>1. Len(p) \in Nat /\ Len(q) \in Nat
    BY LenProperties
  <1>2. Len(p) = Len(q) /\ \A i \in 1..Len(q) : p[i] = q[i]
    BY <1>1, UnderIs
  <1>3. QED
    BY <1>2, SeqEqual

(* Two paths that lead to the same are one above the other.                *)
LEMMA UnderBoth ==
  ASSUME NEW p \in Seq(Names), NEW a \in Seq(Names), NEW b \in Seq(Names),
         Under(p, a), Under(p, b)
  PROVE  Under(a, b) \/ Under(b, a)
  <1>1. Len(p) \in Nat /\ Len(a) \in Nat /\ Len(b) \in Nat
    BY LenProperties
  <1>2. CASE Len(a) <= Len(b)
    <2>1. \A i \in 1..Len(a) : b[i] = a[i]
      BY <1>1, <1>2, UnderIs
    <2>2. QED
      BY <1>2, <2>1, UnderIs
  <1>3. CASE Len(b) <= Len(a)
    <2>1. \A i \in 1..Len(b) : a[i] = b[i]
      BY <1>1, <1>3, UnderIs
    <2>2. QED
      BY <1>3, <2>1, UnderIs
  <1>4. QED
    BY <1>1, <1>2, <1>3

(* A path that moves with its directory                                    *)
Rebased(p, from, to) == to \o SubSeq(p, Len(from) + 1, Len(p))

LEMMA RebasedIs ==
  ASSUME NEW p \in Seq(Names), NEW from \in Seq(Names), NEW to \in Seq(Names), Under(p, from)
  PROVE  LET q == Rebased(p, from, to)
         IN  /\ q \in Seq(Names) /\ Len(q) = Len(to) + Len(p) - Len(from)
             /\ \A i \in 1..Len(to) : q[i] = to[i]
             /\ \A i \in 1..(Len(p) - Len(from)) : q[Len(to) + i] = p[Len(from) + i]
  <1> DEFINE s == SubSeq(p, Len(from) + 1, Len(p))
  <1>1. Len(p) \in Nat /\ Len(from) \in Nat /\ Len(to) \in Nat /\ Len(from) <= Len(p)
    BY LenProperties, UnderIs
  <1>2. \A i \in (Len(from) + 1)..Len(p) : p[i] \in Names
    BY <1>1, ElementOfSeq
  <1>3. /\ s \in Seq(Names) /\ Len(s) = Len(p) - Len(from)
        /\ \A i \in 1..(Len(p) - Len(from)) : s[i] = p[Len(from) + i]
    <2>1. /\ s \in Seq(Names)
          /\ Len(s) = IF Len(from) + 1 <= Len(p) THEN Len(p) - (Len(from) + 1) + 1 ELSE 0
          /\ \A i \in 1..(Len(p) - (Len(from) + 1) + 1) : s[i] = p[(Len(from) + 1) + i - 1]
      <3> HIDE DEF s
      <3>1. Len(from) + 1 \in Int /\ Len(p) \in Int
        BY <1>1
      <3>2. QED
        BY <1>2, <3>1, SubSeqProperties DEF s
    <2>2. QED
      BY <1>1, <2>1
  <1>4. Rebased(p, from, to) = to \o s
    BY DEF Rebased
  <1> HIDE DEF s
  <1>5. /\ to \o s \in Seq(Names) /\ Len(to \o s) = Len(to) + Len(s)
        /\ \A i \in 1..Len(to) + Len(s) :
             (to \o s)[i] = IF i <= Len(to) THEN to[i] ELSE s[i - Len(to)]
    BY <1>3, ConcatProperties
  <1>6. QED
    BY <1>1, <1>3, <1>4, <1>5

RebasedAt(q, p, from, to) ==
  /\ q \in Seq(Names) /\ Len(q) = Len(to) + Len(p) - Len(from)
  /\ \A i \in 1..Len(to) : q[i] = to[i]
  /\ \A i \in 1..(Len(p) - Len(from)) : q[Len(to) + i] = p[Len(from) + i]

LEMMA RebasedIsAt ==
  ASSUME NEW p \in Seq(Names), NEW from \in Seq(Names), NEW to \in Seq(Names), Under(p, from)
  PROVE  RebasedAt(Rebased(p, from, to), p, from, to)
  BY RebasedIs DEF RebasedAt

LEMMA RebasedIsUnder ==
  ASSUME NEW p \in Seq(Names), NEW from \in Seq(Names), NEW to \in Seq(Names), Under(p, from)
  PROVE  Rebased(p, from, to) \in Seq(Names) /\ Under(Rebased(p, from, to), to)
  <1>1. Len(p) \in Nat /\ Len(from) \in Nat /\ Len(to) \in Nat /\ Len(from) <= Len(p)
    BY LenProperties, UnderIs
  <1> DEFINE q == Rebased(p, from, to)
  <1>2. /\ q \in Seq(Names) /\ Len(q) = Len(to) + Len(p) - Len(from)
        /\ \A i \in 1..Len(to) : q[i] = to[i]
    BY RebasedIs
  <1> HIDE DEF q
  <1>3. Under(q, to)
    BY <1>1, <1>2, UnderIs
  <1>4. QED
    BY <1>2, <1>3 DEF q

LEMMA RebasedItself ==
  ASSUME NEW from \in Seq(Names), NEW to \in Seq(Names)
  PROVE  Rebased(from, from, to) = to
  <1>1. Len(from) \in Nat /\ Len(to) \in Nat /\ Under(from, from)
    BY LenProperties, UnderItself
  <1> DEFINE q == Rebased(from, from, to)
  <1>2. /\ q \in Seq(Names) /\ Len(q) = Len(to) + Len(from) - Len(from)
        /\ \A i \in 1..Len(to) : q[i] = to[i]
    BY <1>1, RebasedIs
  <1> HIDE DEF q
  <1>3. Len(q) = Len(to)
    BY <1>1, <1>2
  <1>4. q = to
    BY <1>2, <1>3, SeqEqual
  <1>5. QED
    BY <1>4 DEF q

LEMMA RebasedBack ==
  ASSUME NEW p \in Seq(Names), NEW from \in Seq(Names), NEW to \in Seq(Names), Under(p, from)
  PROVE  Rebased(Rebased(p, from, to), to, from) = p
  <1> DEFINE q == Rebased(p, from, to)
             r == Rebased(q, to, from)
  <1>1. Len(p) \in Nat /\ Len(from) \in Nat /\ Len(to) \in Nat /\ Len(from) <= Len(p)
    BY LenProperties, UnderIs
  <1>2. /\ q \in Seq(Names) /\ Under(q, to) /\ Len(q) = Len(to) + Len(p) - Len(from)
        /\ \A i \in 1..(Len(p) - Len(from)) : q[Len(to) + i] = p[Len(from) + i]
    BY RebasedIs, RebasedIsUnder
  <1> HIDE DEF q
  <1>3. /\ r \in Seq(Names) /\ Len(r) = Len(from) + Len(q) - Len(to)
        /\ \A i \in 1..Len(from) : r[i] = from[i]
        /\ \A i \in 1..(Len(q) - Len(to)) : r[Len(from) + i] = q[Len(to) + i]
    <2>1. RebasedAt(r, q, to, from)
      BY <1>2, RebasedIsAt
    <2>2. QED
      BY <2>1 DEF RebasedAt
  <1> HIDE DEF r
  <1>4. Len(r) = Len(p)
    BY <1>1, <1>2, <1>3
  <1>5. \A i \in 1..Len(from) : r[i] = p[i]
    BY <1>1, <1>3, UnderIs
  <1>6. \A i \in 1..(Len(p) - Len(from)) : r[Len(from) + i] = p[Len(from) + i]
    <2>1. Len(q) - Len(to) = Len(p) - Len(from)
      BY <1>1, <1>2
    <2>2. QED
      BY <1>2, <1>3, <2>1
  <1>7. \A i \in 1..Len(p) : r[i] = p[i]
    <2>1. ASSUME NEW i \in 1..Len(p), i > Len(from) PROVE r[i] = p[i]
      <3>1. i - Len(from) \in 1..(Len(p) - Len(from)) /\ Len(from) + (i - Len(from)) = i
        BY <1>1, <2>1
      <3>2. QED
        BY <1>6, <3>1
    <2>2. QED
      BY <1>1, <1>5, <2>1
  <1>8. QED
    BY <1>3, <1>4, <1>7, SeqEqual DEF q, r

LEMMA RebasedKeepsOrder ==
  ASSUME NEW p \in Seq(Names), NEW d \in Seq(Names), NEW from \in Seq(Names), NEW to \in Seq(Names),
         Under(p, d), Under(d, from)
  PROVE  Under(Rebased(p, from, to), Rebased(d, from, to))
  <1> DEFINE q == Rebased(p, from, to)
             e == Rebased(d, from, to)
  <1>1. /\ Len(p) \in Nat /\ Len(d) \in Nat /\ Len(from) \in Nat /\ Len(to) \in Nat
        /\ Len(from) <= Len(d) /\ Len(d) <= Len(p) /\ \A i \in 1..Len(d) : p[i] = d[i]
    BY LenProperties, UnderIs
  <1>2. Under(p, from)
    BY UnderIsTransitive
  <1>3. /\ q \in Seq(Names) /\ Len(q) = Len(to) + Len(p) - Len(from)
        /\ \A i \in 1..Len(to) : q[i] = to[i]
        /\ \A i \in 1..(Len(p) - Len(from)) : q[Len(to) + i] = p[Len(from) + i]
    <2>1. RebasedAt(q, p, from, to)
      BY <1>2, RebasedIsAt
    <2>2. QED
      BY <2>1 DEF RebasedAt
  <1>4. /\ e \in Seq(Names) /\ Len(e) = Len(to) + Len(d) - Len(from)
        /\ \A i \in 1..Len(to) : e[i] = to[i]
        /\ \A i \in 1..(Len(d) - Len(from)) : e[Len(to) + i] = d[Len(from) + i]
    <2>1. RebasedAt(e, d, from, to)
      BY RebasedIsAt
    <2>2. QED
      BY <2>1 DEF RebasedAt
  <1> HIDE DEF q, e
  <1>5. \A i \in 1..(Len(d) - Len(from)) : q[Len(to) + i] = e[Len(to) + i]
    BY <1>1, <1>3, <1>4
  <1>6. ASSUME NEW i \in 1..Len(e) PROVE q[i] = e[i]
    <2>1. CASE i <= Len(to)
      BY <1>1, <1>3, <1>4, <2>1
    <2>2. CASE i > Len(to)
      <3>1. i - Len(to) \in 1..(Len(d) - Len(from)) /\ Len(to) + (i - Len(to)) = i
        BY <1>1, <1>4, <2>2
      <3>2. QED
        BY <1>5, <3>1
    <2>3. QED
      BY <1>1, <1>4, <2>1, <2>2
  <1>7. Len(e) <= Len(q)
    BY <1>1, <1>3, <1>4
  <1>8. Under(q, e)
    BY <1>3, <1>4, <1>6, <1>7, UnderIs
  <1>9. QED
    BY <1>8 DEF q, e


(* What lies above a path                                                  *)
LEMMA ParentIs ==
  ASSUME NEW p \in Seq(Names), NEW d \in Parents(p)
  PROVE  IsPath(d) /\ Under(p, d) /\ p # d /\ Len(d) < Len(p)
  <1>1. PICK n \in 1..Len(p) - 1 : d = SubSeq(p, 1, n)
    BY DEF Parents
  <1>2. Len(p) \in Nat /\ n \in Nat /\ 1 <= n /\ n < Len(p)
    BY LenProperties
  <1>3. \A i \in 1..n : p[i] \in Names
    BY <1>2, ElementOfSeq
  <1>4. d \in Seq(Names) /\ Len(d) = n /\ \A i \in 1..n : d[i] = p[i]
    <2>1. /\ SubSeq(p, 1, n) \in Seq(Names)
          /\ Len(SubSeq(p, 1, n)) = IF 1 <= n THEN n - 1 + 1 ELSE 0
          /\ \A i \in 1..n - 1 + 1 : SubSeq(p, 1, n)[i] = p[1 + i - 1]
      BY <1>2, <1>3, SubSeqProperties
    <2>2. QED
      BY <1>1, <1>2, <2>1
  <1>5. d # << >>
    BY <1>2, <1>4, EmptySeq
  <1>6. Under(p, d)
    BY <1>2, <1>4, UnderIs
  <1>7. QED
    BY <1>2, <1>4, <1>5, <1>6 DEF IsPath, Names

LEMMA AboveIsParent ==
  ASSUME NEW p \in Seq(Names), NEW d \in Seq(Names), d # << >>, Under(p, d), p # d
  PROVE  d \in Parents(p)
  <1>1. Len(p) \in Nat /\ Len(d) \in Nat /\ Len(d) <= Len(p)
    BY LenProperties, UnderIs
  <1>2. Len(d) # 0
    BY EmptySeq
  <1>3. Len(d) # Len(p)
    <2>1. SUFFICES ASSUME Len(d) = Len(p) PROVE FALSE
      OBVIOUS
    <2>2. \A i \in 1..Len(d) : p[i] = d[i]
      BY UnderIs
    <2>3. QED
      BY <2>1, <2>2, SeqEqual
  <1>4. d = SubSeq(p, 1, Len(d))
    BY SubSeqFull DEF Under, IsPrefix
  <1>5. Len(d) \in 1..Len(p) - 1
    BY <1>1, <1>2, <1>3
  <1>6. QED
    BY <1>4, <1>5 DEF Parents

LEMMA ParentsAbove ==
  ASSUME NEW p \in Seq(Names), NEW d \in Parents(p)
  PROVE  Parents(d) \subseteq Parents(p)
  <1>1. d \in Seq(Names) /\ Under(p, d) /\ p # d
    BY ParentIs DEF IsPath, Names
  <1>2. ASSUME NEW e \in Parents(d) PROVE e \in Parents(p)
    <2>1. e \in Seq(Names) /\ e # << >> /\ Under(d, e) /\ d # e
      BY <1>1, ParentIs DEF IsPath, Names
    <2>2. Under(p, e)
      BY <1>1, <2>1, UnderIsTransitive
    <2>3. p # e
      BY <1>1, <2>1, UnderEachOther
    <2>4. QED
      BY <2>1, <2>2, <2>3, AboveIsParent
  <1>3. QED
    BY <1>2

LEMMA RebasedInPlace ==
  ASSUME NEW p \in Seq(Names), NEW from \in Seq(Names), Under(p, from)
  PROVE  Rebased(p, from, from) = p
  <1> DEFINE q == Rebased(p, from, from)
  <1>1. Len(p) \in Nat /\ Len(from) \in Nat /\ Len(from) <= Len(p)
    BY LenProperties, UnderIs
  <1>2. RebasedAt(q, p, from, from)
    BY RebasedIsAt
  <1> HIDE DEF q
  <1>3. /\ q \in Seq(Names) /\ Len(q) = Len(p)
        /\ \A i \in 1..Len(from) : q[i] = p[i]
        /\ \A i \in 1..(Len(p) - Len(from)) : q[Len(from) + i] = p[Len(from) + i]
    BY <1>1, <1>2, UnderIs DEF RebasedAt
  <1>4. ASSUME NEW i \in 1..Len(p) PROVE q[i] = p[i]
    <2>1. CASE i <= Len(from)
      BY <1>1, <1>3, <2>1
    <2>2. CASE i > Len(from)
      <3>1. i - Len(from) \in 1..(Len(p) - Len(from)) /\ Len(from) + (i - Len(from)) = i
        BY <1>1, <2>2
      <3>2. QED
        BY <1>3, <3>1
    <2>3. QED
      BY <1>1, <2>1, <2>2
  <1>5. q = p
    BY <1>3, <1>4, SeqEqual
  <1>6. QED
    BY <1>5 DEF q

(* A path when something moves                                             *)
LEMMA MovedIs ==
  ASSUME NEW p \in Seq(Names), NEW from \in Seq(Names), NEW to \in Seq(Names)
  PROVE  /\ Under(p, from) => Moved(p, from, to) = Rebased(p, from, to) /\ Under(Moved(p, from, to), to)
         /\ ~Under(p, from) => Moved(p, from, to) = p
         /\ Moved(p, from, to) \in Seq(Names)
  BY RebasedIsUnder DEF Moved, Rebased

LEMMA MovedPath ==
  ASSUME NEW p, NEW from, NEW to, IsPath(p), IsPath(from), IsPath(to)
  PROVE  IsPath(Moved(p, from, to)) /\ (Len(p) > 1 /\ Len(to) > 1 => Len(Moved(p, from, to)) > 1)
  <1>1. p \in Seq(Names) /\ from \in Seq(Names) /\ to \in Seq(Names) /\ p # << >> /\ to # << >>
    BY DEF IsPath, Names
  <1>2. CASE ~Under(p, from)
    BY <1>1, <1>2, MovedIs
  <1>3. CASE Under(p, from)
    <2> DEFINE q == Moved(p, from, to)
    <2>1. q \in Seq(Names) /\ Under(q, to)
      BY <1>1, <1>3, MovedIs
    <2> HIDE DEF q
    <2>2. Len(q) \in Nat /\ Len(to) \in Nat /\ Len(to) <= Len(q)
      BY <1>1, <2>1, LenProperties, UnderIs
    <2>3. Len(to) # 0
      BY <1>1, EmptySeq
    <2>4. q # << >>
      BY <2>2, <2>3, EmptySeq
    <2>5. QED
      BY <2>1, <2>2, <2>4 DEF IsPath, Names, q
  <1>4. QED
    BY <1>2, <1>3

LEMMA MovedInPlace ==
  ASSUME NEW p \in Seq(Names), NEW d \in Seq(Names)
  PROVE  Moved(p, d, d) = p
  BY MovedIs, RebasedInPlace

LEMMA MovedItself ==
  ASSUME NEW from \in Seq(Names), NEW to \in Seq(Names)
  PROVE  Moved(from, from, to) = to
  BY MovedIs, UnderItself, RebasedItself

(* Different paths stay different, unless one moves to where another is.   *)
LEMMA MovedApart ==
  ASSUME NEW p \in Seq(Names), NEW q \in Seq(Names), NEW from \in Seq(Names), NEW to \in Seq(Names),
         Moved(p, from, to) = Moved(q, from, to),
         Under(p, from) <=> Under(q, from)
  PROVE  p = q
  <1>1. CASE Under(p, from)
    <2>1. Rebased(p, from, to) = Rebased(q, from, to)
      BY <1>1, MovedIs
    <2>2. QED
      BY <1>1, <2>1, RebasedBack
  <1>2. CASE ~Under(p, from)
    BY <1>2, MovedIs
  <1>3. QED
    BY <1>1, <1>2

(* Functions over paths                                                    *)
LEMMA ImageIsFinite ==
  ASSUME NEW S, IsFiniteSet(S), NEW from, NEW to
  PROVE  IsFiniteSet({Moved(p, from, to) : p \in S})
  <1> DEFINE T == {Moved(p, from, to) : p \in S}
             g == [p \in S |-> Moved(p, from, to)]
  <1>1. g \in Surjection(S, T)
    BY DEF Surjection
  <1> HIDE DEF g, T
  <1>2. IsFiniteSet(T)
    BY <1>1, FS_Surjection
  <1>3. QED
    BY <1>2 DEF T

IsShift(g, f, from, to) ==
  /\ IsMap(g)
  /\ \A p \in DOMAIN f : Moved(p, from, to) \in DOMAIN g
  /\ \A x \in DOMAIN g : \E p \in DOMAIN f : x = Moved(p, from, to) /\ g[x] = f[p]

LEMMA ShiftIs ==
  ASSUME NEW f, IsMap(f), NEW from, NEW to
  PROVE  IsShift(Shift(f, from, to), f, from, to)
  <1> DEFINE g == Shift(f, from, to)
             T == {Moved(p, from, to) : p \in DOMAIN f}
  <1>1. DOMAIN g = T /\ g = [x \in DOMAIN g |-> g[x]]
    BY DEF Shift
  <1>2. IsFiniteSet(T)
    BY ImageIsFinite DEF IsMap
  <1>3. ASSUME NEW x \in T
        PROVE  \E p \in DOMAIN f : x = Moved(p, from, to) /\ g[x] = f[p]
    <2> DEFINE r == CHOOSE p \in DOMAIN f : Moved(p, from, to) = x
    <2>1. r \in DOMAIN f /\ Moved(r, from, to) = x
      BY <1>3
    <2>2. g[x] = f[r]
      BY <1>3 DEF Shift
    <2>3. QED
      BY <2>1, <2>2
  <1>4. QED
    BY <1>1, <1>2, <1>3 DEF IsMap, IsShift

(* No two paths of P move to the same.                                     *)
Apart(P, from, to) == \A p, q \in P : Moved(p, from, to) = Moved(q, from, to) => p = q

LEMMA ApartWhenFree ==
  ASSUME NEW P, \A p \in P : p \in Seq(Names), NEW from \in Seq(Names), NEW to \in Seq(Names),
         \A p \in P : Under(p, to) => Under(p, from)
  PROVE  Apart(P, from, to)
  <1> SUFFICES ASSUME NEW p \in P, NEW q \in P, Moved(p, from, to) = Moved(q, from, to)
               PROVE  p = q
    BY DEF Apart
  <1>1. p \in Seq(Names) /\ q \in Seq(Names)
    OBVIOUS
  <1>2. CASE Under(p, from) <=> Under(q, from)
    BY <1>1, <1>2, MovedApart
  <1>3. CASE Under(p, from) /\ ~Under(q, from)
    <2>1. Moved(q, from, to) = q /\ Under(Moved(p, from, to), to)
      BY <1>1, <1>3, MovedIs
    <2>2. QED
      BY <1>3, <2>1
  <1>4. CASE ~Under(p, from) /\ Under(q, from)
    <2>1. Moved(p, from, to) = p /\ Under(Moved(q, from, to), to)
      BY <1>1, <1>4, MovedIs
    <2>2. QED
      BY <1>4, <2>1
  <1>5. QED
    BY <1>2, <1>3, <1>4

LEMMA ShiftAt ==
  ASSUME NEW f, NEW from, NEW to, Apart(DOMAIN f, from, to),
         NEW g, IsShift(g, f, from, to)
  PROVE  \A p \in DOMAIN f : g[Moved(p, from, to)] = f[p]
  <1> SUFFICES ASSUME NEW p \in DOMAIN f PROVE g[Moved(p, from, to)] = f[p]
    OBVIOUS
  <1>1. PICK q \in DOMAIN f : Moved(p, from, to) = Moved(q, from, to) /\ g[Moved(p, from, to)] = f[q]
    BY DEF IsShift
  <1>2. QED
    BY <1>1 DEF Apart

IsWith(g, f, x, y) ==
  /\ IsMap(g) /\ DOMAIN g = DOMAIN f \union {x} /\ g[x] = y
  /\ \A z \in DOMAIN f : z # x => g[z] = f[z]

LEMMA WithIs ==
  ASSUME NEW f, IsMap(f), NEW x, NEW y
  PROVE  IsWith(With(f, x, y), f, x, y)
  <1>1. IsFiniteSet(DOMAIN f \union {x})
    BY FS_AddElement DEF IsMap
  <1>2. QED
    BY <1>1 DEF With, IsMap, IsWith

IsDrop(g, f, S) == IsMap(g) /\ DOMAIN g = DOMAIN f \ S /\ \A z \in DOMAIN f \ S : g[z] = f[z]

LEMMA DropIs ==
  ASSUME NEW f, IsMap(f), NEW S
  PROVE  IsDrop(Drop(f, S), f, S)
  <1>1. IsFiniteSet(DOMAIN f \ S)
    BY FS_Difference DEF IsMap
  <1>2. QED
    BY <1>1 DEF Drop, IsMap, IsDrop

(* What a plan leaves of a function, and what it writes                    *)
Writing(old, new, x) == x \in DOMAIN new /\ (x \in DOMAIN old => new[x] # old[x])
IsPatched(f, old, new, now) ==
  /\ IsMap(f)
  /\ \A x \in DOMAIN f : IF Writing(old, new, x) THEN x \in DOMAIN new /\ f[x] = new[x]
                         ELSE x \in DOMAIN now /\ f[x] = now[x]
  /\ \A x \in DOMAIN new : Writing(old, new, x) => x \in DOMAIN f
  /\ \A x \in DOMAIN now : x \in DOMAIN new \/ x \notin DOMAIN old => x \in DOMAIN f

LEMMA PatchedIs ==
  ASSUME NEW old, NEW new, NEW now, IsMap(new), IsMap(now)
  PROVE  IsPatched(Patched(old, new, now), old, new, now)
  <1> DEFINE written == {x \in DOMAIN new : x \in DOMAIN old => new[x] # old[x]}
             D == (DOMAIN now \ (DOMAIN old \ DOMAIN new)) \union written
             f == [x \in D |-> IF x \in written THEN new[x] ELSE now[x]]
  <1>1. Patched(old, new, now) = f
    BY DEF Patched
  <1>2. IsFiniteSet(D)
    <2>1. IsFiniteSet(DOMAIN new \union DOMAIN now)
      BY FS_Union DEF IsMap
    <2>2. D \in SUBSET (DOMAIN new \union DOMAIN now)
      OBVIOUS
    <2>3. QED
      BY <2>1, <2>2, FS_Subset
  <1>3. IsMap(f) /\ DOMAIN f = D
    BY <1>2 DEF IsMap
  <1>4. \A x : x \in written <=> Writing(old, new, x)
    BY DEF Writing
  <1>5. \A x \in D : IF x \in written THEN f[x] = new[x] ELSE x \in DOMAIN now /\ f[x] = now[x]
    OBVIOUS
  <1> HIDE DEF f
  <1>6. IsPatched(f, old, new, now)
    BY <1>3, <1>4, <1>5 DEF IsPatched
  <1>7. QED
    BY <1>1, <1>6

LEMMA PatchedNothing ==
  ASSUME NEW f, NEW now, IsMap(now)
  PROVE  Patched(f, f, now) = now
  BY DEF Patched, IsMap

LEMMA PatchedAll ==
  ASSUME NEW old, NEW new, IsMap(new)
  PROVE  Patched(old, new, old) = new
  <1>1. Patched(old, new, old) = [x \in DOMAIN new |-> new[x]]
    BY DEF Patched
  <1>2. QED
    BY <1>1 DEF IsMap

(* A plan over what is still there and what nobody has taken is carried    *)
(* out in full.                                                            *)
LEMMA PatchedOver ==
  ASSUME NEW old, NEW new, NEW now, NEW f, IsPatched(f, old, new, now),
         \A x \in DOMAIN old : x \in DOMAIN now /\ now[x] = old[x],
         \A x \in DOMAIN new : x \in DOMAIN old \/ x \notin DOMAIN now
  PROVE  /\ \A x \in DOMAIN new : x \in DOMAIN f /\ f[x] = new[x]
         /\ \A x \in DOMAIN now \ DOMAIN old : x \in DOMAIN f /\ f[x] = now[x]
  BY DEF IsPatched, Writing

(* One more entry that is not there yet                                    *)
LEMMA PatchedOne ==
  ASSUME NEW old, NEW now, IsMap(old), IsMap(now), NEW x, NEW y,
         x \notin DOMAIN old, x \notin DOMAIN now
  PROVE  Patched(old, With(old, x, y), now) = With(now, x, y)
  BY DEF Patched, With, IsMap

----------------------------------------------------------------------------
(* Vaults.  Nothing lies below what does not exist.                        *)
LEMMA NothingBelow ==
  ASSUME NEW V, IsVault(V), NEW to, IsPath(to), ~Exists(V, to)
  PROVE  \A p \in V.dirs \union DOMAIN V.doc \union DOMAIN V.marker : ~Under(p, to)
  <1>1. \A p \in V.dirs \union DOMAIN V.doc : p \in Seq(Names)
    BY DEF IsVault, HasTypes, AreDocs, IsPath, Names
  <1>2. to \in Seq(Names) /\ to # << >> /\ DOMAIN V.marker \subseteq V.dirs
    BY DEF IsPath, Names, IsVault, IsTree
  <1>3. ASSUME NEW p \in V.dirs \union DOMAIN V.doc, Under(p, to) PROVE FALSE
    <2>1. p # to
      BY DEF Exists
    <2>2. to \in Parents(p)
      BY <1>1, <1>2, <1>3, <2>1, AboveIsParent
    <2>3. to \in V.dirs
      BY <2>2 DEF IsVault, IsTree
    <2>4. QED
      BY <2>3 DEF Exists
  <1>4. QED
    BY <1>2, <1>3

(* find_domain: the one Domain with an id                                  *)
LEMMA KnownIs ==
  ASSUME NEW V, HasTypes(V), NEW id, Known(V, id)
  PROVE  /\ DirOf(V, id) \in DOMAIN V.marker /\ V.marker[DirOf(V, id)].id = id
         /\ \A d \in DOMAIN V.marker : V.marker[d].id = id => d = DirOf(V, id)
         /\ IsPath(DirOf(V, id)) /\ Len(DirOf(V, id)) > 1
  <1> DEFINE D == DirsOf(V, id)
  <1>1. D \subseteq DOMAIN V.marker /\ \A d \in DOMAIN V.marker : d \in D <=> V.marker[d].id = id
    BY DEF DirsOf
  <1>2. IsFiniteSet(D) /\ Cardinality(D) = 1
    <2>1. IsFiniteSet(DOMAIN V.marker)
      BY DEF HasTypes, AreMarkers, IsMap
    <2>2. QED
      BY <1>1, <2>1, FS_Subset DEF Known
  <1>3. DirOf(V, id) = CHOOSE d \in D : TRUE
    BY DEF DirOf
  <1> HIDE DEF D
  <1>4. PICK x : D = {x}
    BY <1>2, FS_Singleton
  <1>5. DirOf(V, id) = x
    BY <1>3, <1>4
  <1>6. \A d \in DOMAIN V.marker : IsPath(d) /\ Len(d) > 1
    BY DEF HasTypes, AreMarkers
  <1>7. QED
    BY <1>1, <1>4, <1>5, <1>6

LEMMA FrontIs ==
  ASSUME NEW d \in Seq(Names), Len(d) > 1
  PROVE  /\ Front(d) \in Seq(Names) /\ Len(Front(d)) = Len(d) - 1 /\ Front(d) \in Parents(d)
         /\ \A i \in 1..Len(d) - 1 : Front(d)[i] = d[i]
  <1>1. Len(d) \in Nat
    BY LenProperties
  <1>2. \A i \in 1..Len(d) - 1 : d[i] \in Names
    BY <1>1, ElementOfSeq
  <1>3. /\ SubSeq(d, 1, Len(d) - 1) \in Seq(Names)
        /\ Len(SubSeq(d, 1, Len(d) - 1)) = IF 1 <= Len(d) - 1 THEN Len(d) - 1 - 1 + 1 ELSE 0
        /\ \A i \in 1..(Len(d) - 1) - 1 + 1 : SubSeq(d, 1, Len(d) - 1)[i] = d[1 + i - 1]
    BY <1>1, <1>2, SubSeqProperties
  <1>4. SubSeq(d, 1, Len(d) - 1) \in Parents(d)
    BY <1>1 DEF Parents
  <1>5. QED
    BY <1>1, <1>3, <1>4 DEF Front

LEMMA EntryIs ==
  ASSUME NEW d \in Seq(Names), NEW n \in Names
  PROVE  LET p == d \o <<n>>
         IN  p \in Seq(Names) /\ Len(p) = Len(d) + 1 /\ p # << >> /\ Last(p) = n /\ Under(p, d)
  <1> DEFINE p == d \o <<n>>
  <1>1. Len(d) \in Nat /\ <<n>> \in Seq(Names) /\ Len(<<n>>) = 1 /\ <<n>>[1] = n
    BY LenProperties
  <1>2. /\ p \in Seq(Names) /\ Len(p) = Len(d) + Len(<<n>>)
        /\ \A i \in 1..Len(d) + Len(<<n>>) : p[i] = IF i <= Len(d) THEN d[i] ELSE <<n>>[i - Len(d)]
    BY <1>1, ConcatProperties
  <1> HIDE DEF p
  <1>3. Len(p) = Len(d) + 1 /\ p[Len(d) + 1] = n /\ \A i \in 1..Len(d) : p[i] = d[i]
    BY <1>1, <1>2
  <1>4. p # << >>
    BY <1>1, <1>2, <1>3, EmptySeq
  <1>5. Under(p, d)
    BY <1>1, <1>2, <1>3, UnderIs
  <1>6. Last(p) = n
    BY <1>3 DEF Last
  <1>7. QED
    BY <1>2, <1>3, <1>4, <1>5, <1>6 DEF p

(* rename --folder-name and move: where the Domain is to be                *)
LEMMA FolderIs ==
  ASSUME NEW V, HasTypes(V), NEW q, Known(V, q.id), q.folder \in STRING
  PROVE  /\ IsPath(Folder(q, V)) /\ Len(Folder(q, V)) > 1
         /\ Under(Folder(q, V), Front(DirOf(V, q.id)))
  <1> DEFINE d == DirOf(V, q.id)
  <1>1. d \in Seq(Names) /\ Len(d) > 1 /\ Len(d) \in Nat
    BY KnownIs, LenProperties DEF IsPath, Names
  <1> HIDE DEF d
  <1>2. Front(d) \in Seq(Names) /\ Len(Front(d)) = Len(d) - 1
    BY <1>1, FrontIs
  <1>3. LET p == Front(d) \o <<q.folder>>
        IN  p \in Seq(Names) /\ Len(p) = Len(Front(d)) + 1 /\ p # << >> /\ Under(p, Front(d))
    BY <1>2, EntryIs DEF Names
  <1>4. QED
    BY <1>1, <1>2, <1>3 DEF Folder, d, IsPath, Names

LEMMA NewParentIs ==
  ASSUME NEW V, HasTypes(V), NEW q, MayMove(q, V)
  PROVE  /\ IsPath(NewParent(q, V)) /\ Len(NewParent(q, V)) \in Nat /\ Len(NewParent(q, V)) >= 1
         /\ NewParent(q, V) \in DOMAIN V.space \union DOMAIN V.marker
         /\ SpacesOf(V, q.to) = {} => Known(V, q.to) /\ NewParent(q, V) = DirOf(V, q.to)
  <1>1. CASE SpacesOf(V, q.to) = {}
    <2>1. Cardinality(DirsOf(V, q.to)) + Cardinality(SpacesOf(V, q.to)) = 1
      BY DEF MayMove
    <2>2. IsFiniteSet(DirsOf(V, q.to))
      <3>1. IsFiniteSet(DOMAIN V.marker) /\ DirsOf(V, q.to) \in SUBSET DOMAIN V.marker
        BY DEF HasTypes, AreMarkers, IsMap, DirsOf
      <3>2. QED
        BY <3>1, FS_Subset
    <2>3. Cardinality(DirsOf(V, q.to)) = 1
      BY <1>1, <2>1, <2>2, FS_EmptySet, FS_CardinalityType
    <2>4. Known(V, q.to) /\ NewParent(q, V) = DirOf(V, q.to)
      BY <1>1, <2>3 DEF Known, NewParent
    <2>5. QED
      BY <2>4, KnownIs, LenProperties DEF IsPath
  <1>2. CASE SpacesOf(V, q.to) # {}
    <2>1. NewParent(q, V) \in SpacesOf(V, q.to)
      BY <1>2 DEF NewParent
    <2>2. NewParent(q, V) \in DOMAIN V.space
      BY <2>1 DEF SpacesOf
    <2>3. IsPath(NewParent(q, V)) /\ Len(NewParent(q, V)) = 1
      BY <2>2 DEF HasTypes, AreSpaces
    <2>4. QED
      BY <1>2, <2>2, <2>3
  <1>3. QED
    BY <1>1, <1>2

LEMMA NewPlaceIs ==
  ASSUME NEW V, HasTypes(V), NEW q, MayMove(q, V)
  PROVE  /\ IsPath(NewPlace(q, V)) /\ Len(NewPlace(q, V)) > 1
         /\ Under(NewPlace(q, V), NewParent(q, V))
  <1> DEFINE d == DirOf(V, q.id)
             t == NewParent(q, V)
  <1>1. d \in Seq(Names) /\ Len(d) > 1 /\ Len(d) \in Nat
    BY KnownIs, LenProperties DEF IsPath, Names, MayMove
  <1>2. t \in Seq(Names) /\ Len(t) \in Nat /\ Len(t) >= 1
    BY NewParentIs DEF IsPath, Names
  <1> HIDE DEF d, t
  <1>3. Last(d) \in Names
    BY <1>1, ElementOfSeq DEF Last
  <1>4. LET p == t \o <<Last(d)>>
        IN  p \in Seq(Names) /\ Len(p) = Len(t) + 1 /\ p # << >> /\ Under(p, t)
    BY <1>2, <1>3, EntryIs
  <1>5. QED
    BY <1>2, <1>4 DEF NewPlace, d, t, IsPath, Names

(* Every step of a command keeps the types of a Vault.                     *)
Shaped(V) == V = [space |-> V.space, dirs |-> V.dirs, marker |-> V.marker, doc |-> V.doc,
                  roots |-> V.roots, outside |-> V.outside]

LEMMA IsShaped ==
  ASSUME NEW V, HasTypes(V)
  PROVE  Shaped(V)
  BY DEF HasTypes, Shaped

LEMMA StaysShaped ==
  ASSUME NEW V, Shaped(V), NEW W, DOMAIN W = DOMAIN V, W = [x \in DOMAIN V |-> W[x]]
  PROVE  Shaped(W)
  BY DEF Shaped

(* A Vault with other contents                                             *)
LEMMA Filled ==
  ASSUME NEW V, HasTypes(V), NEW W, Shaped(W),
         W.space = V.space \/ AreSpaces(W.space), W.marker = V.marker \/ AreMarkers(W.marker),
         W.doc = V.doc \/ AreDocs(W.doc), W.outside = V.outside \/ AreOutside(W.outside),
         W.roots = V.roots \/ IsMap(W.roots), \A d \in W.dirs : d \in V.dirs \/ IsPath(d)
  PROVE  HasTypes(W)
  BY DEF HasTypes, Shaped

LEMMA ShiftedMarkers ==
  ASSUME NEW f, AreMarkers(f), NEW from, NEW to, IsPath(from), IsPath(to), Len(to) > 1
  PROVE  AreMarkers(Shift(f, from, to))
  <1> DEFINE g == Shift(f, from, to)
  <1>1. IsShift(g, f, from, to)
    BY ShiftIs DEF AreMarkers
  <1>2. \A p \in DOMAIN f : IsPath(Moved(p, from, to)) /\ Len(Moved(p, from, to)) > 1
    BY MovedPath DEF AreMarkers
  <1> HIDE DEF g
  <1>3. AreMarkers(g)
    BY <1>1, <1>2 DEF AreMarkers, IsShift
  <1>4. QED
    BY <1>3 DEF g

LEMMA ShiftedDocs ==
  ASSUME NEW f, AreDocs(f), NEW from, NEW to, IsPath(from), IsPath(to), Len(to) > 1
  PROVE  AreDocs(Shift(f, from, to))
  <1> DEFINE g == Shift(f, from, to)
  <1>1. IsShift(g, f, from, to)
    BY ShiftIs DEF AreDocs
  <1>2. \A p \in DOMAIN f : IsPath(Moved(p, from, to)) /\ Len(Moved(p, from, to)) > 1
    BY MovedPath DEF AreDocs
  <1> HIDE DEF g
  <1>3. AreDocs(g)
    BY <1>1, <1>2 DEF AreDocs, IsShift
  <1>4. QED
    BY <1>3 DEF g

IsShiftAll(W, V, from, to) ==
  /\ Shaped(W)
  /\ W.space = Drop(V.space, {s \in DOMAIN V.space : Under(s, from)})
  /\ W.dirs = {Moved(d, from, to) : d \in V.dirs}
  /\ W.marker = Shift(V.marker, from, to) /\ W.doc = Shift(V.doc, from, to)
  /\ W.roots = V.roots /\ W.outside = V.outside

LEMMA ShiftAllIs ==
  ASSUME NEW V, HasTypes(V), NEW from, NEW to
  PROVE  IsShiftAll(ShiftAll(V, from, to), V, from, to)
  <1> DEFINE W == ShiftAll(V, from, to)
  <1>1. Shaped(V)
    BY IsShaped
  <1>2. DOMAIN W = DOMAIN V /\ W = [x \in DOMAIN V |-> W[x]]
    BY <1>1 DEF ShiftAll, Shaped
  <1>3. /\ W.space = Drop(V.space, {s \in DOMAIN V.space : Under(s, from)})
        /\ W.dirs = {Moved(d, from, to) : d \in V.dirs}
        /\ W.marker = Shift(V.marker, from, to) /\ W.doc = Shift(V.doc, from, to)
        /\ W.roots = V.roots /\ W.outside = V.outside
    BY <1>1 DEF ShiftAll, Shaped
  <1> HIDE DEF W
  <1>4. Shaped(W)
    BY <1>1, <1>2, StaysShaped
  <1>5. IsShiftAll(W, V, from, to)
    BY <1>3, <1>4 DEF IsShiftAll
  <1>6. QED
    BY <1>5 DEF W

LEMMA SpacesDropped ==
  ASSUME NEW f, AreSpaces(f), NEW S
  PROVE  AreSpaces(Drop(f, S))
  <1> DEFINE g == Drop(f, S)
  <1>1. IsDrop(g, f, S)
    BY DropIs DEF AreSpaces
  <1> HIDE DEF g
  <1>2. AreSpaces(g)
    BY <1>1 DEF AreSpaces, IsDrop
  <1>3. QED
    BY <1>2 DEF g

LEMMA MarkersDropped ==
  ASSUME NEW f, AreMarkers(f), NEW S
  PROVE  AreMarkers(Drop(f, S))
  <1> DEFINE g == Drop(f, S)
  <1>1. IsDrop(g, f, S)
    BY DropIs DEF AreMarkers
  <1> HIDE DEF g
  <1>2. AreMarkers(g)
    BY <1>1 DEF AreMarkers, IsDrop
  <1>3. QED
    BY <1>2 DEF g

LEMMA TypesShifted ==
  ASSUME NEW V, HasTypes(V), NEW from, NEW to, IsPath(from), IsPath(to), Len(to) > 1
  PROVE  HasTypes(ShiftAll(V, from, to))
  <1> DEFINE W == ShiftAll(V, from, to)
  <1>1. AreMarkers(Shift(V.marker, from, to)) /\ AreDocs(Shift(V.doc, from, to))
    BY ShiftedMarkers, ShiftedDocs DEF HasTypes
  <1>2. AreSpaces(Drop(V.space, {s \in DOMAIN V.space : Under(s, from)}))
    <2>1. AreSpaces(V.space)
      BY DEF HasTypes
    <2>2. QED
      BY <2>1, SpacesDropped
  <1>3. \A d \in V.dirs : IsPath(Moved(d, from, to))
    BY MovedPath DEF HasTypes
  <1>4. /\ Shaped(W) /\ AreSpaces(W.space) /\ AreMarkers(W.marker) /\ AreDocs(W.doc)
        /\ W.outside = V.outside /\ W.roots = V.roots /\ \A d \in W.dirs : IsPath(d)
    <2>1. IsShiftAll(W, V, from, to)
      BY ShiftAllIs
    <2>2. QED
      BY <1>1, <1>2, <1>3, <2>1 DEF IsShiftAll
  <1> HIDE DEF W
  <1>5. HasTypes(W)
    BY <1>4, Filled
  <1>6. QED
    BY <1>5 DEF W

IsMade(M, V, p) ==
  /\ Shaped(M) /\ M.dirs = V.dirs \union {p} \union Parents(p)
  /\ M.space = V.space /\ M.marker = V.marker /\ M.doc = V.doc
  /\ M.roots = V.roots /\ M.outside = V.outside

LEMMA TypesMade ==
  ASSUME NEW V, HasTypes(V), NEW p, IsPath(p)
  PROVE  HasTypes(Make(V, p)) /\ IsMade(Make(V, p), V, p)
  <1> DEFINE M == Make(V, p)
  <1>1. \A d \in Parents(p) : IsPath(d)
    BY ParentIs DEF IsPath, Names
  <1>2. Shaped(V)
    BY IsShaped
  <1>3. /\ Shaped(M) /\ M.dirs = V.dirs \union {p} \union Parents(p)
        /\ M.space = V.space /\ M.marker = V.marker /\ M.doc = V.doc
        /\ M.roots = V.roots /\ M.outside = V.outside
    BY <1>2 DEF Make, Shaped
  <1> HIDE DEF M
  <1>4. HasTypes(M)
    BY <1>1, <1>3, Filled
  <1>5. QED
    BY <1>3, <1>4 DEF M, IsMade

LEMMA NewMarkerIs ==
  ASSUME NEW id, NEW parent
  PROVE  IsMarker(NewMarker(id, parent)) /\ NewMarker(id, parent).text = "plain"
         /\ NewMarker(id, parent).id = id /\ NewMarker(id, parent).parent = parent
  BY DEF IsMarker, NewMarker

LEMMA MarkersWith ==
  ASSUME NEW f, AreMarkers(f), NEW p, IsPath(p), Len(p) > 1, NEW m, IsMarker(m)
  PROVE  AreMarkers(With(f, p, m))
  <1> DEFINE g == With(f, p, m)
  <1>1. IsWith(g, f, p, m)
    BY WithIs DEF AreMarkers
  <1> HIDE DEF g
  <1>2. AreMarkers(g)
    BY <1>1 DEF AreMarkers, IsWith
  <1>3. QED
    BY <1>2 DEF g

LEMMA SpacesWith ==
  ASSUME NEW f, AreSpaces(f), NEW p, IsPath(p), Len(p) = 1, NEW m, IsSpace(m)
  PROVE  AreSpaces(With(f, p, m))
  <1> DEFINE g == With(f, p, m)
  <1>1. IsWith(g, f, p, m)
    BY WithIs DEF AreSpaces
  <1> HIDE DEF g
  <1>2. AreSpaces(g)
    BY <1>1 DEF AreSpaces, IsWith
  <1>3. QED
    BY <1>2 DEF g

LEMMA DocsWith ==
  ASSUME NEW f, AreDocs(f), NEW p, IsPath(p), Len(p) > 1, NEW m, IsDoc(m)
  PROVE  AreDocs(With(f, p, m))
  <1> DEFINE g == With(f, p, m)
  <1>1. IsWith(g, f, p, m)
    BY WithIs DEF AreDocs
  <1> HIDE DEF g
  <1>2. AreDocs(g)
    BY <1>1 DEF AreDocs, IsWith
  <1>3. QED
    BY <1>2 DEF g

LEMMA TypesDefined ==
  ASSUME NEW S, HasTypes(S), NEW q, IsPath(q.path), Len(q.path) = 1
  PROVE  HasTypes(DefineSpace(q, S))
  <1> DEFINE f == With(S.space, q.path, [id |-> q.id, loose |-> FALSE])
             W == DefineSpace(q, S)
             M == Make(S, q.path)
  <1>1. AreSpaces(f)
    <2>1. IsSpace([id |-> q.id, loose |-> FALSE])
      BY DEF IsSpace
    <2>2. QED
      BY <2>1, SpacesWith DEF HasTypes
  <1>2. HasTypes(M) /\ Shaped(M) /\ M.space = S.space
    <2>1. HasTypes(M) /\ IsMade(M, S, q.path)
      BY TypesMade
    <2>2. QED
      BY <2>1 DEF IsMade
  <1>3. W = [M EXCEPT !.space = With(@, q.path, [id |-> q.id, loose |-> FALSE])]
    BY DEF DefineSpace
  <1> HIDE DEF M, W
  <1>4. Shaped(W) /\ W.space = f /\ W.dirs = M.dirs /\ W.marker = M.marker /\ W.doc = M.doc
        /\ W.roots = M.roots /\ W.outside = M.outside
    BY <1>2, <1>3 DEF Shaped
  <1> HIDE DEF f
  <1>5. HasTypes(W)
    BY <1>1, <1>2, <1>4, Filled
  <1>6. QED
    BY <1>5 DEF W

LEMMA TypesDeclared ==
  ASSUME NEW S, HasTypes(S), NEW q, IsPath(q.path), Len(q.path) > 1
  PROVE  HasTypes(Declare(S, q))
  <1> DEFINE f == With(S.marker, q.path, NewMarker(q.id, Nearest(S, q.path)))
             W == Declare(S, q)
             M == Make(S, q.path)
  <1>1. AreMarkers(f)
    BY MarkersWith, NewMarkerIs DEF HasTypes
  <1>2. HasTypes(M) /\ Shaped(M) /\ M.marker = S.marker
    <2>1. HasTypes(M) /\ IsMade(M, S, q.path)
      BY TypesMade
    <2>2. QED
      BY <2>1 DEF IsMade
  <1>3. W = [M EXCEPT !.marker = With(@, q.path, NewMarker(q.id, Nearest(S, q.path)))]
    BY DEF Declare
  <1> HIDE DEF M, W
  <1>4. Shaped(W) /\ W.marker = f /\ W.dirs = M.dirs /\ W.space = M.space /\ W.doc = M.doc
        /\ W.roots = M.roots /\ W.outside = M.outside
    BY <1>2, <1>3 DEF Shaped
  <1> HIDE DEF f
  <1>5. HasTypes(W)
    BY <1>1, <1>2, <1>4, Filled
  <1>6. QED
    BY <1>5 DEF W

(* A change of declarations keeps which there are, their ids and texts.    *)
Marked(W, V) ==
  /\ Shaped(W) /\ W.space = V.space /\ W.dirs = V.dirs /\ W.doc = V.doc
  /\ W.roots = V.roots /\ W.outside = V.outside
  /\ AreMarkers(W.marker) /\ DOMAIN W.marker = DOMAIN V.marker
  /\ \A d \in DOMAIN V.marker : W.marker[d].id = V.marker[d].id /\ W.marker[d].text = V.marker[d].text

LEMMA MarkedHasTypes ==
  ASSUME NEW V, HasTypes(V), NEW W, Marked(W, V)
  PROVE  HasTypes(W)
  <1>1. /\ Shaped(W) /\ W.space = V.space /\ W.dirs = V.dirs /\ W.doc = V.doc
        /\ W.roots = V.roots /\ W.outside = V.outside /\ AreMarkers(W.marker)
    BY DEF Marked
  <1>2. QED
    BY <1>1, Filled

LEMMA MarkedItself ==
  ASSUME NEW V, HasTypes(V)
  PROVE  Marked(V, V)
  BY IsShaped DEF Marked, HasTypes

(* The same declaration with another name, parent or layout                *)
SameMarker(n, m) == IsMarker(n) /\ n.id = m.id /\ n.text = m.text

LEMMA MarkerChanged ==
  ASSUME NEW m, IsMarker(m), NEW x
  PROVE  /\ SameMarker([m EXCEPT !.name = x], m)
         /\ SameMarker([m EXCEPT !.parent = x], m)
         /\ SameMarker([m EXCEPT !.loose = x], m)
  <1> DEFINE a == [m EXCEPT !.name = x]
             b == [m EXCEPT !.parent = x]
             c == [m EXCEPT !.loose = x]
  <1>1. m = [id |-> m.id, parent |-> m.parent, name |-> m.name, text |-> m.text, loose |-> m.loose]
    BY DEF IsMarker
  <1>2. a.id = m.id /\ a.text = m.text /\ a = [id |-> a.id, parent |-> a.parent, name |-> a.name, text |-> a.text, loose |-> a.loose]
    BY <1>1
  <1>3. b.id = m.id /\ b.text = m.text /\ b = [id |-> b.id, parent |-> b.parent, name |-> b.name, text |-> b.text, loose |-> b.loose]
    BY <1>1
  <1>4. c.id = m.id /\ c.text = m.text /\ c = [id |-> c.id, parent |-> c.parent, name |-> c.name, text |-> c.text, loose |-> c.loose]
    BY <1>1
  <1> HIDE DEF a, b, c
  <1>5. SameMarker(a, m) /\ SameMarker(b, m) /\ SameMarker(c, m)
    BY <1>2, <1>3, <1>4 DEF SameMarker, IsMarker
  <1>6. QED
    BY <1>5 DEF a, b, c

LEMMA MarkedOne ==
  ASSUME NEW V, HasTypes(V), NEW d, NEW n, d \in DOMAIN V.marker => SameMarker(n, V.marker[d]),
         NEW W, Shaped(W), W.space = V.space, W.dirs = V.dirs, W.doc = V.doc,
         W.roots = V.roots, W.outside = V.outside,
         W.marker = [V.marker EXCEPT ![d] = n]
  PROVE  Marked(W, V)
  <1> DEFINE f == V.marker
             g == W.marker
  <1>1. AreMarkers(f) /\ g = [f EXCEPT ![d] = n]
    BY DEF HasTypes
  <1>2. d \in DOMAIN f => SameMarker(n, f[d])
    OBVIOUS
  <1> HIDE DEF f, g
  <1>3. f = [z \in DOMAIN f |-> f[z]] /\ IsFiniteSet(DOMAIN f)
        /\ \A z \in DOMAIN f : IsPath(z) /\ Len(z) > 1 /\ IsMarker(f[z])
    BY <1>1 DEF AreMarkers, IsMap
  <1>4. g = [z \in DOMAIN f |-> IF z = d THEN n ELSE f[z]]
    BY <1>1, <1>3
  <1>5. AreMarkers(g) /\ DOMAIN g = DOMAIN f
    BY <1>2, <1>3, <1>4 DEF AreMarkers, IsMap, SameMarker
  <1>6. \A z \in DOMAIN f : g[z].id = f[z].id /\ g[z].text = f[z].text
    BY <1>2, <1>4 DEF SameMarker
  <1>7. QED
    BY <1>5, <1>6 DEF Marked, f, g

LEMMA NamedIs ==
  ASSUME NEW V, HasTypes(V), NEW d, NEW x
  PROVE  Marked([V EXCEPT !.marker[d].name = x], V)
  <1> DEFINE W == [V EXCEPT !.marker[d].name = x]
             n == [V.marker[d] EXCEPT !.name = x]
  <1>1. Shaped(V)
    BY IsShaped
  <1>2. /\ Shaped(W) /\ W.space = V.space /\ W.dirs = V.dirs /\ W.doc = V.doc
        /\ W.roots = V.roots /\ W.outside = V.outside
    BY <1>1 DEF Shaped
  <1>3. W.marker = [V.marker EXCEPT ![d] = n]
    BY <1>1 DEF Shaped
  <1>4. d \in DOMAIN V.marker => SameMarker(n, V.marker[d])
    BY MarkerChanged DEF HasTypes, AreMarkers
  <1> HIDE DEF W, n
  <1>5. Marked(W, V)
    BY <1>2, <1>3, <1>4, MarkedOne
  <1>6. QED
    BY <1>5 DEF W

LEMMA PlacedIs ==
  ASSUME NEW V, HasTypes(V), NEW d, NEW x
  PROVE  Marked([V EXCEPT !.marker[d].parent = x], V)
  <1> DEFINE W == [V EXCEPT !.marker[d].parent = x]
             n == [V.marker[d] EXCEPT !.parent = x]
  <1>1. Shaped(V)
    BY IsShaped
  <1>2. /\ Shaped(W) /\ W.space = V.space /\ W.dirs = V.dirs /\ W.doc = V.doc
        /\ W.roots = V.roots /\ W.outside = V.outside
    BY <1>1 DEF Shaped
  <1>3. W.marker = [V.marker EXCEPT ![d] = n]
    BY <1>1 DEF Shaped
  <1>4. d \in DOMAIN V.marker => SameMarker(n, V.marker[d])
    BY MarkerChanged DEF HasTypes, AreMarkers
  <1> HIDE DEF W, n
  <1>5. Marked(W, V)
    BY <1>2, <1>3, <1>4, MarkedOne
  <1>6. QED
    BY <1>5 DEF W

LEMMA FormattedIs ==
  ASSUME NEW V, HasTypes(V), NEW d, NEW x
  PROVE  Marked([V EXCEPT !.marker[d].loose = x], V)
  <1> DEFINE W == [V EXCEPT !.marker[d].loose = x]
             n == [V.marker[d] EXCEPT !.loose = x]
  <1>1. Shaped(V)
    BY IsShaped
  <1>2. /\ Shaped(W) /\ W.space = V.space /\ W.dirs = V.dirs /\ W.doc = V.doc
        /\ W.roots = V.roots /\ W.outside = V.outside
    BY <1>1 DEF Shaped
  <1>3. W.marker = [V.marker EXCEPT ![d] = n]
    BY <1>1 DEF Shaped
  <1>4. d \in DOMAIN V.marker => SameMarker(n, V.marker[d])
    BY MarkerChanged DEF HasTypes, AreMarkers
  <1> HIDE DEF W, n
  <1>5. Marked(W, V)
    BY <1>2, <1>3, <1>4, MarkedOne
  <1>6. QED
    BY <1>5 DEF W

LEMMA SpaceChanged ==
  ASSUME NEW m, IsSpace(m), NEW x
  PROVE  IsSpace([m EXCEPT !.loose = x])
  <1> DEFINE a == [m EXCEPT !.loose = x]
  <1>1. m = [id |-> m.id, loose |-> m.loose]
    BY DEF IsSpace
  <1>2. a = [id |-> a.id, loose |-> a.loose]
    BY <1>1
  <1>3. QED
    BY <1>2 DEF IsSpace

LEMMA TypesFormatted ==
  ASSUME NEW S, HasTypes(S), NEW q
  PROVE  HasTypes(Format(q, S))
  <1>1. CASE q.op = "format"
    <2>1. Marked(Format(q, S), S)
      BY <1>1, FormattedIs DEF Format
    <2>2. QED
      BY <2>1, MarkedHasTypes
  <1>2. CASE q.op # "format"
    <2> DEFINE s == CHOOSE z \in SpacesOf(S, q.id) : TRUE
               W == Format(q, S)
               g == [z \in DOMAIN S.space |-> IF z = s THEN [S.space[s] EXCEPT !.loose = FALSE] ELSE S.space[z]]
    <2> HIDE DEF s
    <2>1. Shaped(S) /\ AreSpaces(S.space)
      BY IsShaped DEF HasTypes
    <2>2. W = [S EXCEPT !.space[s].loose = FALSE]
      BY <1>2 DEF Format, s
    <2> HIDE DEF W
    <2>3. /\ Shaped(W) /\ W.marker = S.marker /\ W.dirs = S.dirs /\ W.doc = S.doc
          /\ W.roots = S.roots /\ W.outside = S.outside
      BY <2>1, <2>2 DEF Shaped
    <2>4. W.space = [S.space EXCEPT ![s] = [S.space[s] EXCEPT !.loose = FALSE]]
      BY <2>1, <2>2 DEF Shaped
    <2>5. S.space = [z \in DOMAIN S.space |-> S.space[z]] /\ \A z \in DOMAIN S.space : IsSpace(S.space[z])
      BY <2>1 DEF AreSpaces, IsMap
    <2>6. W.space = g
      BY <2>4, <2>5
    <2>7. s \in DOMAIN S.space => IsSpace([S.space[s] EXCEPT !.loose = FALSE])
      BY <2>5, SpaceChanged
    <2>8. AreSpaces(g)
      BY <2>1, <2>7 DEF AreSpaces, IsMap
    <2> HIDE DEF g
    <2>9. HasTypes(W)
      BY <2>1, <2>3, <2>6, <2>8, Filled
    <2>10. QED
      BY <2>9 DEF W
  <1>3. QED
    BY <1>1, <1>2

(* The same document with another reference or Domain                      *)
SameBody(n, d) == IsDoc(n) /\ n.of = d.of /\ n.rev = d.rev

Referring(n, m, x) == SameBody(n, m) /\ n.dom = m.dom /\ n.ref = x
Belonging(n, m, x) == SameBody(n, m) /\ n.ref = m.ref /\ n.dom = x

LEMMA DocChanged ==
  ASSUME NEW m, IsDoc(m), NEW x
  PROVE  /\ Referring([m EXCEPT !.ref = x], m, x)
         /\ Belonging([m EXCEPT !.dom = x], m, x)
         /\ IsDoc([m EXCEPT !.rev = x])
  <1> DEFINE a == [m EXCEPT !.ref = x]
             b == [m EXCEPT !.dom = x]
             c == [m EXCEPT !.rev = x]
  <1>1. m = [of |-> m.of, rev |-> m.rev, ref |-> m.ref, dom |-> m.dom]
    BY DEF IsDoc
  <1>2. a.of = m.of /\ a.rev = m.rev /\ a.ref = x /\ a.dom = m.dom /\ a = [of |-> a.of, rev |-> a.rev, ref |-> a.ref, dom |-> a.dom]
    BY <1>1
  <1>3. b.of = m.of /\ b.rev = m.rev /\ b.ref = m.ref /\ b.dom = x /\ b = [of |-> b.of, rev |-> b.rev, ref |-> b.ref, dom |-> b.dom]
    BY <1>1
  <1>4. c = [of |-> c.of, rev |-> c.rev, ref |-> c.ref, dom |-> c.dom]
    BY <1>1
  <1> HIDE DEF a, b, c
  <1>5. Referring(a, m, x) /\ Belonging(b, m, x) /\ IsDoc(c)
    BY <1>2, <1>3, <1>4 DEF Referring, Belonging, SameBody, IsDoc
  <1>6. QED
    BY <1>5 DEF a, b, c

(* Documents whose references or Domains are written again                 *)
SameBodies(f, g) ==
  /\ AreDocs(f) /\ DOMAIN f = DOMAIN g
  /\ \A p \in DOMAIN g : SameBody(f[p], g[p])

LEMMA DocsChanged ==
  ASSUME NEW g, AreDocs(g), NEW f, f = [p \in DOMAIN g |-> f[p]],
         \A p \in DOMAIN g : SameBody(f[p], g[p])
  PROVE  SameBodies(f, g)
  BY DEF AreDocs, IsMap, SameBodies, SameBody

LEMMA SameBodiesAgain ==
  ASSUME NEW f, NEW g, NEW h, SameBodies(f, g), SameBodies(g, h)
  PROVE  SameBodies(f, h)
  BY DEF SameBodies, SameBody

NewRef(V, p, from, to) ==
  IF V.doc[p].ref \in DOMAIN V.doc THEN Moved(V.doc[p].ref, from, to) ELSE V.doc[p].ref
IsFollow(f, V, from, to) ==
  /\ SameBodies(f, V.doc)
  /\ \A p \in DOMAIN V.doc : f[p].dom = V.doc[p].dom /\ f[p].ref = NewRef(V, p, from, to)

LEMMA FollowIs ==
  ASSUME NEW V, AreDocs(V.doc), NEW from, NEW to
  PROVE  IsFollow(Follow(V, from, to), V, from, to)
  <1> DEFINE f == Follow(V, from, to)
  <1>1. f = [p \in DOMAIN V.doc |-> [V.doc[p] EXCEPT !.ref = NewRef(V, p, from, to)]]
    BY DEF Follow, NewRef
  <1> HIDE DEF f
  <1>2. \A p \in DOMAIN V.doc : f[p] = [V.doc[p] EXCEPT !.ref = NewRef(V, p, from, to)]
    BY <1>1
  <1>3. ASSUME NEW p \in DOMAIN V.doc
        PROVE  SameBody(f[p], V.doc[p]) /\ f[p].ref = NewRef(V, p, from, to) /\ f[p].dom = V.doc[p].dom
    <2> DEFINE x == NewRef(V, p, from, to)
               m == V.doc[p]
    <2>1. IsDoc(m) /\ f[p] = [m EXCEPT !.ref = x]
      BY <1>2 DEF AreDocs
    <2> HIDE DEF x, m
    <2>2. Referring(f[p], m, x)
      BY <2>1, DocChanged
    <2>3. QED
      BY <2>2 DEF x, m, Referring
  <1>4. f = [p \in DOMAIN V.doc |-> f[p]]
    BY <1>1
  <1>5. SameBodies(f, V.doc)
    BY <1>3, <1>4, DocsChanged
  <1>6. QED
    BY <1>3, <1>5 DEF IsFollow, f

(* What Relocate makes of a Vault                                          *)
IsRelocate(W, V, from, to) ==
  /\ Shaped(W) /\ W.space = Drop(V.space, {s \in DOMAIN V.space : Under(s, from)})
  /\ W.dirs = {Moved(d, from, to) : d \in V.dirs}
  /\ W.marker = Shift(V.marker, from, to) /\ W.doc = Shift(Follow(V, from, to), from, to)
  /\ W.roots = V.roots /\ W.outside = V.outside

LEMMA RelocateIs ==
  ASSUME NEW V, HasTypes(V), NEW from, NEW to, IsPath(from), IsPath(to), Len(to) > 1
  PROVE  HasTypes(Relocate(V, from, to)) /\ IsRelocate(Relocate(V, from, to), V, from, to)
  <1> DEFINE f == Follow(V, from, to)
             U == [V EXCEPT !.doc = f]
             W == ShiftAll(U, from, to)
  <1>1. AreDocs(f)
    BY FollowIs DEF HasTypes, IsFollow, SameBodies
  <1>2. Shaped(V)
    BY IsShaped
  <1> HIDE DEF f
  <1>3. /\ Shaped(U) /\ U.space = V.space /\ U.dirs = V.dirs /\ U.marker = V.marker
        /\ U.doc = f /\ U.roots = V.roots /\ U.outside = V.outside
    BY <1>2 DEF Shaped
  <1> HIDE DEF U
  <1>4. HasTypes(U)
    BY <1>1, <1>3, Filled
  <1>5. HasTypes(W) /\ IsShiftAll(W, U, from, to)
    BY <1>4, TypesShifted, ShiftAllIs
  <1>6. Relocate(V, from, to) = W
    BY DEF Relocate, U, f
  <1> HIDE DEF W
  <1>7. IsRelocate(W, V, from, to)
    BY <1>3, <1>5 DEF IsShiftAll, IsRelocate, f
  <1>8. QED
    BY <1>5, <1>6, <1>7

(* Rewritten: an id is replaced wherever it stands.                        *)
IsRewritten(W, V, old, new) ==
  /\ Marked([V EXCEPT !.marker = W.marker], V)
  /\ \A d \in DOMAIN V.marker : W.marker[d].parent = Instead(V.marker[d].parent, old, new)
  /\ SameBodies(W.doc, V.doc)
  /\ \A p \in DOMAIN V.doc : W.doc[p].ref = V.doc[p].ref /\ W.doc[p].dom = Instead(V.doc[p].dom, old, new)
  /\ IsMap(W.roots) /\ DOMAIN W.roots = DOMAIN V.roots
  /\ \A p \in DOMAIN V.roots : W.roots[p] = Instead(V.roots[p], old, new)
  /\ Shaped(W) /\ W.space = V.space /\ W.dirs = V.dirs /\ W.outside = V.outside

LEMMA RewrittenIs ==
  ASSUME NEW V, HasTypes(V), NEW old, NEW new
  PROVE  HasTypes(Rewritten(V, old, new)) /\ IsRewritten(Rewritten(V, old, new), V, old, new)
  <1> DEFINE W == Rewritten(V, old, new)
             g == Reparented(V, old, new)
             f == Reassigned(V, old, new)
             r == [p \in DOMAIN V.roots |-> Instead(V.roots[p], old, new)]
  <1>1. Shaped(V) /\ AreMarkers(V.marker) /\ AreDocs(V.doc) /\ IsMap(V.roots)
    BY IsShaped DEF HasTypes
  <1>0. W = [V EXCEPT !.marker = g, !.doc = f, !.roots = r]
    BY DEF Rewritten
  <1> HIDE DEF W, f, g, r
  <1>2. /\ DOMAIN W = DOMAIN V /\ W = [x \in DOMAIN V |-> W[x]]
    BY <1>0, <1>1 DEF Shaped
  <1>3. /\ W.space = V.space /\ W.dirs = V.dirs /\ W.marker = g
        /\ W.doc = f /\ W.roots = r /\ W.outside = V.outside
    BY <1>0, <1>1 DEF Shaped
  <1>4. Shaped(W)
    BY <1>1, <1>2, StaysShaped
  <1>5. g = [d \in DOMAIN V.marker |-> [V.marker[d] EXCEPT !.parent = Instead(V.marker[d].parent, old, new)]]
    BY DEF Reparented, g
  <1>6. ASSUME NEW d \in DOMAIN V.marker
        PROVE  SameMarker(g[d], V.marker[d]) /\ g[d].parent = Instead(V.marker[d].parent, old, new)
    <2> DEFINE m == V.marker[d]
               x == Instead(V.marker[d].parent, old, new)
    <2>1. IsMarker(m) /\ g[d] = [m EXCEPT !.parent = x]
      BY <1>1, <1>5 DEF AreMarkers
    <2> HIDE DEF m, x
    <2>2. SameMarker(g[d], m)
      BY <2>1, MarkerChanged
    <2>3. g[d].parent = x
      BY <2>1 DEF IsMarker
    <2>4. QED
      BY <2>2, <2>3 DEF m, x
  <1>7. g = [d \in DOMAIN V.marker |-> g[d]]
    BY <1>5
  <1>8. AreMarkers(g) /\ DOMAIN g = DOMAIN V.marker
    BY <1>1, <1>6, <1>7 DEF AreMarkers, IsMap, SameMarker
  <1>9. ASSUME NEW p \in DOMAIN V.doc
        PROVE  SameBody(f[p], V.doc[p]) /\ f[p].ref = V.doc[p].ref /\ f[p].dom = Instead(V.doc[p].dom, old, new)
    <2> DEFINE m == V.doc[p]
               x == Instead(V.doc[p].dom, old, new)
    <2>1. IsDoc(m) /\ f[p] = [m EXCEPT !.dom = x]
      BY <1>1 DEF AreDocs, f, Reassigned
    <2> HIDE DEF m, x
    <2>2. Belonging(f[p], m, x)
      BY <2>1, DocChanged
    <2>3. QED
      BY <2>2 DEF m, x, Belonging
  <1>10. f = [p \in DOMAIN V.doc |-> f[p]]
    BY DEF f, Reassigned
  <1>11. SameBodies(f, V.doc)
    BY <1>1, <1>9, <1>10, DocsChanged
  <1>12. IsMap(r) /\ DOMAIN r = DOMAIN V.roots /\ \A p \in DOMAIN V.roots : r[p] = Instead(V.roots[p], old, new)
    BY <1>1 DEF IsMap, r
  <1>13. Marked([V EXCEPT !.marker = W.marker], V)
    <2> DEFINE U == [V EXCEPT !.marker = g]
    <2>1. /\ Shaped(U) /\ U.space = V.space /\ U.dirs = V.dirs /\ U.doc = V.doc
          /\ U.roots = V.roots /\ U.outside = V.outside /\ U.marker = g
      BY <1>1 DEF Shaped
    <2> HIDE DEF U
    <2>2. Marked(U, V)
      BY <1>6, <1>8, <2>1 DEF Marked, SameMarker
    <2>3. QED
      BY <1>3, <2>2 DEF U
  <1>14. AreDocs(f)
    BY <1>11 DEF SameBodies
  <1>15. HasTypes(W)
    BY <1>3, <1>4, <1>8, <1>12, <1>14, Filled
  <1>16. IsRewritten(W, V, old, new)
    BY <1>3, <1>4, <1>6, <1>9, <1>11, <1>12, <1>13 DEF IsRewritten
  <1>17. QED
    BY <1>15, <1>16 DEF W

(* rekey: the id of the Domain is replaced as well.                        *)
IsRekey(W, V, d, old, new) ==
  /\ Shaped(W) /\ W.space = V.space /\ W.dirs = V.dirs /\ W.outside = V.outside
  /\ AreMarkers(W.marker) /\ DOMAIN W.marker = DOMAIN V.marker
  /\ \A e \in DOMAIN V.marker : /\ W.marker[e].text = V.marker[e].text
                                /\ W.marker[e].id = IF e = d THEN new ELSE V.marker[e].id
  /\ SameBodies(W.doc, V.doc)
  /\ \A p \in DOMAIN V.doc : W.doc[p].ref = V.doc[p].ref /\ W.doc[p].dom = Instead(V.doc[p].dom, old, new)
  /\ IsMap(W.roots) /\ DOMAIN W.roots = DOMAIN V.roots
  /\ \A p \in DOMAIN V.roots : W.roots[p] = Instead(V.roots[p], old, new)

Rekeyed(n, m, x) == IsMarker(n) /\ n.text = m.text /\ n.id = x

LEMMA IdChanged ==
  ASSUME NEW m, IsMarker(m), NEW x
  PROVE  Rekeyed([m EXCEPT !.id = x], m, x)
  <1> DEFINE a == [m EXCEPT !.id = x]
  <1>1. m = [id |-> m.id, parent |-> m.parent, name |-> m.name, text |-> m.text, loose |-> m.loose]
    BY DEF IsMarker
  <1>2. a.id = x /\ a.text = m.text /\ a = [id |-> a.id, parent |-> a.parent, name |-> a.name, text |-> a.text, loose |-> a.loose]
    BY <1>1
  <1> HIDE DEF a
  <1>3. Rekeyed(a, m, x)
    BY <1>2 DEF Rekeyed, IsMarker
  <1>4. QED
    BY <1>3 DEF a

LEMMA RekeyIs ==
  ASSUME NEW V, HasTypes(V), NEW q
  PROVE  HasTypes(Rekey(q, V)) /\ IsRekey(Rekey(q, V), V, DirOf(V, q.id), q.id, q.to)
  <1> DEFINE R == Rewritten(V, q.id, q.to)
             d == DirOf(V, q.id)
             n == [R.marker[d] EXCEPT !.id = q.to]
             W == [R EXCEPT !.marker[d].id = q.to]
  <1>1. HasTypes(R) /\ IsRewritten(R, V, q.id, q.to)
    BY RewrittenIs
  <1>2. Rekey(q, V) = W
    BY DEF Rekey
  <1> HIDE DEF R, d
  <1>3. Shaped(R) /\ AreMarkers(R.marker)
    BY <1>1, IsShaped DEF HasTypes
  <1>4. /\ Shaped(W) /\ W.space = R.space /\ W.dirs = R.dirs /\ W.doc = R.doc
        /\ W.roots = R.roots /\ W.outside = R.outside
    BY <1>3 DEF Shaped
  <1>5. W.marker = [R.marker EXCEPT ![d] = n]
    BY <1>3 DEF Shaped
  <1>6. DOMAIN R.marker = DOMAIN V.marker
        /\ \A e \in DOMAIN V.marker : R.marker[e].id = V.marker[e].id /\ R.marker[e].text = V.marker[e].text
    <2> DEFINE U == [V EXCEPT !.marker = R.marker]
    <2>1. Marked(U, V)
      BY <1>1 DEF IsRewritten
    <2>2. U.marker = R.marker
      BY IsShaped DEF Shaped
    <2> HIDE DEF U
    <2>3. QED
      BY <2>1, <2>2 DEF Marked
  <1>7. d \in DOMAIN V.marker => IsMarker(n) /\ n.text = V.marker[d].text /\ n.id = q.to
    <2>1. ASSUME d \in DOMAIN V.marker PROVE Rekeyed(n, R.marker[d], q.to)
      <3>1. IsMarker(R.marker[d])
        BY <1>3, <1>6, <2>1 DEF AreMarkers
      <3>2. QED
        BY <3>1, IdChanged
    <2>2. QED
      BY <1>6, <2>1 DEF Rekeyed
  <1> DEFINE g == W.marker
             f == R.marker
  <1> HIDE DEF W, n
  <1>8. g = [f EXCEPT ![d] = n] /\ AreMarkers(f) /\ DOMAIN f = DOMAIN V.marker
        /\ \A e \in DOMAIN V.marker : f[e].id = V.marker[e].id /\ f[e].text = V.marker[e].text
    BY <1>3, <1>5, <1>6
  <1> HIDE DEF f, g
  <1>9. f = [e \in DOMAIN V.marker |-> f[e]] /\ IsFiniteSet(DOMAIN V.marker)
        /\ \A e \in DOMAIN V.marker : IsPath(e) /\ Len(e) > 1 /\ IsMarker(f[e])
    BY <1>8 DEF AreMarkers, IsMap
  <1>10. g = [e \in DOMAIN V.marker |-> IF e = d THEN n ELSE f[e]]
    BY <1>8, <1>9
  <1>11. AreMarkers(g) /\ DOMAIN g = DOMAIN V.marker
    BY <1>7, <1>9, <1>10 DEF AreMarkers, IsMap
  <1>12. \A e \in DOMAIN V.marker : /\ g[e].text = V.marker[e].text
                                    /\ g[e].id = IF e = d THEN q.to ELSE V.marker[e].id
    BY <1>7, <1>8, <1>10
  <1>13. HasTypes(W)
    BY <1>1, <1>4, <1>11, Filled DEF g
  <1>14. IsRekey(W, V, d, q.id, q.to)
    BY <1>1, <1>4, <1>11, <1>12 DEF IsRekey, IsRewritten, g
  <1>15. QED
    BY <1>2, <1>13, <1>14 DEF d, W

(* merge: the documents of the source, and those it takes, follow.         *)
IsTaken(f, V, s) ==
  /\ SameBodies(f, V.doc)
  /\ \A p \in DOMAIN V.doc : f[p].ref = V.doc[p].ref /\ f[p].dom \in {V.doc[p].dom, V.marker[s].id}

LEMMA TakenIs ==
  ASSUME NEW V, AreDocs(V.doc), NEW s
  PROVE  IsTaken(Taken(V, s), V, s)
  <1> DEFINE f == Taken(V, s)
  <1>1. ASSUME NEW p \in DOMAIN V.doc
        PROVE  SameBody(f[p], V.doc[p]) /\ f[p].ref = V.doc[p].ref /\ f[p].dom \in {V.doc[p].dom, V.marker[s].id}
    <2> DEFINE m == V.doc[p]
               x == V.marker[s].id
    <2>1. IsDoc(m) /\ (f[p] = [m EXCEPT !.dom = x] \/ f[p] = m)
      BY DEF AreDocs, Taken
    <2> HIDE DEF m, x, f
    <2>2. CASE f[p] = [m EXCEPT !.dom = x]
      <3>1. Belonging(f[p], m, x)
        BY <2>1, <2>2, DocChanged
      <3>2. QED
        BY <3>1 DEF m, x, Belonging
    <2>3. CASE f[p] = m
      BY <2>1, <2>3 DEF SameBody, m
    <2>4. QED
      BY <2>1, <2>2, <2>3
  <1>2. f = [p \in DOMAIN V.doc |-> f[p]]
    BY DEF Taken
  <1> HIDE DEF f
  <1>3. SameBodies(f, V.doc)
    BY <1>1, <1>2, DocsChanged
  <1>4. QED
    BY <1>1, <1>3 DEF IsTaken, f

LEMMA TypesOfParents ==
  ASSUME NEW p, IsPath(p)
  PROVE  \A d \in Parents(p) : IsPath(d)
  BY ParentIs DEF IsPath, Names

MergedMarkers(g, V) ==
  /\ AreMarkers(g) /\ DOMAIN g = DOMAIN V.marker
  /\ \A d \in DOMAIN V.marker : g[d].id = V.marker[d].id /\ g[d].text = V.marker[d].text
MergedDocs(f, V, s, t, old, new) ==
  /\ SameBodies(f, V.doc)
  /\ \A p \in DOMAIN V.doc : /\ f[p].ref = NewRef(V, p, s, t)
                             /\ \E x \in {V.doc[p].dom, V.marker[s].id} : f[p].dom = Instead(x, old, new)
AboveMerged(V, s, t) == UNION {Parents(Moved(p, s, t)) : p \in Retained(V, s)}
DeclaredByMerge(V, s, t) == {Moved(d, s, t) : d \in Retained(V, s) \intersect DOMAIN V.marker}
MadeByMerge(V, s, t) == DeclaredByMerge(V, s, t) \union AboveMerged(V, s, t)

LEMMA MadeByMergeIs ==
  ASSUME NEW V, NEW s, NEW t, NEW d
  PROVE  d \in MadeByMerge(V, s, t) <=>
           \/ \E p \in Retained(V, s) : d \in Parents(Moved(p, s, t))
           \/ \E p \in Retained(V, s) \intersect DOMAIN V.marker : d = Moved(p, s, t)
  <1> DEFINE A == {Parents(Moved(p, s, t)) : p \in Retained(V, s)}
  <1>1. d \in UNION A <=> \E D \in A : d \in D
    OBVIOUS
  <1>2. \A D : D \in A <=> \E p \in Retained(V, s) : D = Parents(Moved(p, s, t))
    OBVIOUS
  <1>3. d \in UNION A <=> \E p \in Retained(V, s) : d \in Parents(Moved(p, s, t))
    <2> HIDE DEF A
    <2>1. QED
      BY <1>1, <1>2
  <1>4. d \in AboveMerged(V, s, t) <=> \E p \in Retained(V, s) : d \in Parents(Moved(p, s, t))
    BY <1>3 DEF AboveMerged
  <1>5. d \in DeclaredByMerge(V, s, t) <=> \E p \in Retained(V, s) \intersect DOMAIN V.marker : d = Moved(p, s, t)
    BY DEF DeclaredByMerge
  <1>6. QED
    BY <1>4, <1>5 DEF MadeByMerge

IsMerge(W, V, s, t, old, new) ==
  /\ Shaped(W) /\ W.space = V.space /\ W.outside = V.outside
  /\ W.dirs = {d \in V.dirs : ~Under(d, s)} \union MadeByMerge(V, s, t)
  /\ \E g : MergedMarkers(g, V) /\ W.marker = Shift(Drop(g, {s}), s, t)
  /\ \E f : MergedDocs(f, V, s, t, old, new) /\ W.doc = Shift(f, s, t)
  /\ IsMap(W.roots) /\ DOMAIN W.roots = DOMAIN V.roots
  /\ \A p \in DOMAIN V.roots : W.roots[p] = Instead(V.roots[p], old, new)

LEMMA MergeIs ==
  ASSUME NEW V, HasTypes(V), NEW q, Known(V, q.id), Known(V, q.to)
  PROVE  /\ HasTypes(Merge(q, V))
         /\ IsMerge(Merge(q, V), V, DirOf(V, q.id), DirOf(V, q.to), q.id, q.to)
  <1> DEFINE s == DirOf(V, q.id)
             t == DirOf(V, q.to)
             h == Taken(V, s)
             T == [V EXCEPT !.doc = h]
             R == Rewritten(T, q.id, q.to)
             f == Follow(R, s, t)
             F == [R EXCEPT !.doc = f]
             g == Drop(R.marker, {s})
             left == {d \in V.dirs : ~Under(d, s)}
             made == MadeByMerge(V, s, t)
             M == Merge(q, V)
             new == Shift(g, s, t)
             doc == Shift(f, s, t)
  <1>1. IsPath(s) /\ IsPath(t) /\ Len(t) > 1
    BY KnownIs
  <1>2. Shaped(V) /\ AreDocs(V.doc)
    BY IsShaped DEF HasTypes
  <1>3. IsTaken(h, V, s)
    BY <1>2, TakenIs
  <1> HIDE DEF h
  <1>4. Shaped(T) /\ T.doc = h /\ T.space = V.space /\ T.dirs = V.dirs /\ T.marker = V.marker
        /\ T.roots = V.roots /\ T.outside = V.outside
    BY <1>2 DEF Shaped
  <1>5. HasTypes(T)
    <2> HIDE DEF T
    <2>1. AreDocs(T.doc)
      BY <1>3, <1>4 DEF IsTaken, SameBodies
    <2>2. QED
      BY <1>4, <2>1, Filled
  <1>6. HasTypes(R) /\ IsRewritten(R, T, q.id, q.to)
    BY <1>5, RewrittenIs
  <1>7. Shaped(R) /\ AreDocs(R.doc)
    BY <1>6, IsShaped DEF HasTypes
  <1>8. IsFollow(f, R, s, t)
    BY <1>7, FollowIs
  <1>9. M = [F EXCEPT !.marker = Shift(Drop(@, {s}), s, t), !.doc = Shift(@, s, t),
                      !.dirs = {d \in @ : ~Under(d, s)} \union made]
    BY DEF Merge, MadeByMerge, AboveMerged, DeclaredByMerge, T, R, F, f, h, made
  <1> HIDE DEF M, T, R, f, s, t, made
  <1>10. Shaped(F) /\ F.doc = f /\ F.space = R.space /\ F.dirs = R.dirs /\ F.marker = R.marker
         /\ F.roots = R.roots /\ F.outside = R.outside
    BY <1>7 DEF Shaped
  <1> HIDE DEF F
  <1>11. DOMAIN M = DOMAIN F /\ M = [x \in DOMAIN F |-> M[x]]
    BY <1>9, <1>10 DEF Shaped
  <1>12. /\ M.space = F.space /\ M.roots = F.roots /\ M.outside = F.outside
         /\ M.marker = Shift(Drop(F.marker, {s}), s, t) /\ M.doc = Shift(F.doc, s, t)
         /\ M.dirs = {d \in F.dirs : ~Under(d, s)} \union made
    BY <1>9, <1>10 DEF Shaped
  <1>13. Shaped(M)
    BY <1>10, <1>11, StaysShaped
  <1>14. R.space = V.space /\ R.dirs = V.dirs /\ R.outside = V.outside
    BY <1>4, <1>6 DEF IsRewritten
  <1>15. MergedMarkers(R.marker, V)
    <2> DEFINE U == [T EXCEPT !.marker = R.marker]
    <2>1. Marked(U, T)
      BY <1>6 DEF IsRewritten
    <2>2. U.marker = R.marker
      BY <1>4 DEF Shaped
    <2> HIDE DEF U
    <2>3. AreMarkers(R.marker)
      BY <1>6 DEF HasTypes
    <2>4. QED
      BY <1>4, <2>1, <2>2, <2>3 DEF Marked, MergedMarkers
  <1>16. MergedDocs(f, V, s, t, q.id, q.to)
    <2>1. SameBodies(f, R.doc) /\ SameBodies(R.doc, T.doc) /\ SameBodies(T.doc, V.doc)
      BY <1>3, <1>4, <1>6, <1>8 DEF IsFollow, IsRewritten, IsTaken
    <2>2. SameBodies(f, V.doc)
      BY <2>1, SameBodiesAgain
    <2>3. DOMAIN R.doc = DOMAIN V.doc /\ DOMAIN T.doc = DOMAIN V.doc
      BY <2>1 DEF SameBodies
    <2>4. ASSUME NEW p \in DOMAIN V.doc
          PROVE  /\ f[p].ref = NewRef(V, p, s, t)
                 /\ \E x \in {V.doc[p].dom, V.marker[s].id} : f[p].dom = Instead(x, q.id, q.to)
      <3>1. f[p].dom = R.doc[p].dom /\ f[p].ref = NewRef(R, p, s, t)
        BY <1>8, <2>3 DEF IsFollow
      <3>2. R.doc[p].ref = T.doc[p].ref /\ R.doc[p].dom = Instead(T.doc[p].dom, q.id, q.to)
        BY <1>6, <2>3 DEF IsRewritten
      <3>3. T.doc[p].ref = V.doc[p].ref /\ T.doc[p].dom \in {V.doc[p].dom, V.marker[s].id}
        BY <1>3, <1>4 DEF IsTaken
      <3>4. NewRef(R, p, s, t) = NewRef(V, p, s, t)
        BY <2>3, <3>2, <3>3 DEF NewRef
      <3>5. QED
        BY <3>1, <3>2, <3>3, <3>4
    <2>5. QED
      BY <2>2, <2>4 DEF MergedDocs
  <1>17. IsMap(M.roots) /\ DOMAIN M.roots = DOMAIN V.roots
         /\ \A p \in DOMAIN V.roots : M.roots[p] = Instead(V.roots[p], q.id, q.to)
    BY <1>4, <1>6, <1>10, <1>12 DEF IsRewritten
  <1>18. AreMarkers(M.marker)
    <2>1. AreMarkers(g)
      BY <1>6, MarkersDropped DEF HasTypes
    <2>2. QED
      BY <1>1, <1>10, <1>12, <2>1, ShiftedMarkers
  <1>19. AreDocs(M.doc)
    <2>1. AreDocs(f)
      BY <1>8 DEF IsFollow, SameBodies
    <2>2. QED
      BY <1>1, <1>10, <1>12, <2>1, ShiftedDocs
  <1>20. \A d \in made : IsPath(d)
    <2>1. \A p \in Retained(V, s) : IsPath(p)
      BY DEF Retained, Files, HasTypes, AreDocs, AreMarkers
    <2>2. \A p \in Retained(V, s) : IsPath(Moved(p, s, t))
      BY <1>1, <2>1, MovedPath
    <2>3. \A p \in Retained(V, s) : \A d \in Parents(Moved(p, s, t)) : IsPath(d)
      BY <2>2, TypesOfParents
    <2>4. ASSUME NEW d \in made PROVE IsPath(d)
      <3>1. \/ \E p \in Retained(V, s) : d \in Parents(Moved(p, s, t))
            \/ \E p \in Retained(V, s) : d = Moved(p, s, t)
        BY MadeByMergeIs DEF made
      <3>2. QED
        BY <2>2, <2>3, <3>1
    <2>5. QED
      BY <2>4
  <1>21. HasTypes(M)
    BY <1>10, <1>12, <1>13, <1>14, <1>17, <1>18, <1>19, <1>20, Filled
  <1>22. IsMerge(M, V, s, t, q.id, q.to)
    BY <1>10, <1>12, <1>13, <1>14, <1>15, <1>16, <1>17 DEF IsMerge, made
  <1>23. QED
    BY <1>21, <1>22 DEF M, s, t

(* delete                                                                  *)
IsDelete(W, V, d) ==
  /\ Shaped(W) /\ W.space = V.space /\ W.doc = V.doc /\ W.roots = V.roots /\ W.outside = V.outside
  /\ W.marker = Drop(V.marker, {d}) /\ W.dirs = {e \in V.dirs : ~Under(e, d)}

LEMMA DeleteIs ==
  ASSUME NEW V, HasTypes(V), NEW q
  PROVE  HasTypes(Delete(q, V)) /\ IsDelete(Delete(q, V), V, DirOf(V, q.id))
  <1> DEFINE d == DirOf(V, q.id)
             W == Delete(q, V)
             g == Drop(V.marker, {d})
             left == {e \in V.dirs : ~Under(e, d)}
  <1>1. W = [V EXCEPT !.marker = g, !.dirs = left]
    BY DEF Delete
  <1>2. Shaped(V) /\ AreMarkers(g)
    BY IsShaped, MarkersDropped DEF HasTypes
  <1>3. \A e \in left : e \in V.dirs
    OBVIOUS
  <1> HIDE DEF d, W, g, left
  <1>4. DOMAIN W = DOMAIN V /\ W = [x \in DOMAIN V |-> W[x]]
    BY <1>1, <1>2 DEF Shaped
  <1>5. /\ W.space = V.space /\ W.doc = V.doc /\ W.roots = V.roots /\ W.outside = V.outside
        /\ W.marker = g /\ W.dirs = left
    BY <1>1, <1>2 DEF Shaped
  <1>6. Shaped(W)
    BY <1>2, <1>4, StaysShaped
  <1>7. HasTypes(W)
    BY <1>2, <1>3, <1>5, <1>6, Filled
  <1>8. IsDelete(W, V, d)
    BY <1>5, <1>6 DEF IsDelete, g, left
  <1>9. QED
    BY <1>7, <1>8 DEF d, W

(* adopt from outside: the files arrive in a folder that is new.           *)
IsBrought(f, V, path) ==
  /\ AreDocs(f)
  /\ \A p \in DOMAIN V.doc : p \in DOMAIN f /\ f[p] = V.doc[p]
  /\ \A p \in DOMAIN f : p \in DOMAIN V.doc \/ Under(p, path)

LEMMA BringIs ==
  ASSUME NEW V, HasTypes(V), NEW q, IsPath(q.path), Len(q.path) > 1
  PROVE  /\ HasTypes(Bring(q, V)) /\ Shaped(Bring(q, V)) /\ IsBrought(Bring(q, V).doc, V, q.path)
         /\ Bring(q, V).marker = V.marker /\ Bring(q, V).space = V.space /\ Bring(q, V).dirs = V.dirs
         /\ Bring(q, V).roots = V.roots
  <1> DEFINE O == DOMAIN V.outside
             P == DOMAIN V.doc
             T == {q.path \o <<n>> : n \in O}
             f == [p \in P \union T |-> IF p \in P THEN V.doc[p] ELSE V.outside[Last(p)]]
             W == Bring(q, V)
  <1>1. Shaped(V) /\ AreDocs(V.doc) /\ AreOutside(V.outside)
    BY IsShaped DEF HasTypes
  <1>2. W = [V EXCEPT !.doc = f]
    BY DEF Bring
  <1>3. IsFiniteSet(P) /\ IsFiniteSet(O) /\ \A p \in P : IsPath(p) /\ Len(p) > 1 /\ IsDoc(V.doc[p])
    BY <1>1 DEF AreDocs, AreOutside, IsMap
  <1>4. IsFiniteSet(T)
    <2> DEFINE g == [n \in O |-> q.path \o <<n>>]
    <2>1. g \in Surjection(O, T)
      BY DEF Surjection
    <2> HIDE DEF g, O, T
    <2>2. QED
      BY <1>3, <2>1, FS_Surjection
  <1>5. ASSUME NEW p \in T
        PROVE  IsPath(p) /\ Len(p) > 1 /\ Under(p, q.path) /\ IsDoc(V.outside[Last(p)])
    <2>1. PICK n \in O : p = q.path \o <<n>>
      OBVIOUS
    <2>2. n \in Names /\ IsDoc(V.outside[n]) /\ q.path \in Seq(Names) /\ Len(q.path) \in Nat
      BY <1>1, LenProperties DEF AreOutside, IsPath, Names
    <2>3. LET e == q.path \o <<n>>
          IN  e \in Seq(Names) /\ Len(e) = Len(q.path) + 1 /\ e # << >> /\ Last(e) = n /\ Under(e, q.path)
      BY <2>2, EntryIs
    <2>4. QED
      BY <2>1, <2>2, <2>3 DEF IsPath, Names
  <1> HIDE DEF T, O
  <1>6. AreDocs(f)
    <2>1. IsFiniteSet(P \union T)
      BY <1>3, <1>4, FS_Union
    <2>2. IsMap(f) /\ DOMAIN f = P \union T
      BY <2>1 DEF IsMap
    <2>3. \A p \in P \union T : IsPath(p) /\ Len(p) > 1 /\ IsDoc(f[p])
      BY <1>3, <1>5
    <2> HIDE DEF f
    <2>4. QED
      BY <2>2, <2>3 DEF AreDocs
  <1>7. IsBrought(f, V, q.path)
    <2>1. DOMAIN f = P \union T /\ \A p \in P : f[p] = V.doc[p]
      OBVIOUS
    <2> HIDE DEF f
    <2>2. QED
      BY <1>5, <1>6, <2>1 DEF IsBrought
  <1> HIDE DEF f, W
  <1>8. /\ Shaped(W) /\ W.doc = f /\ W.space = V.space /\ W.dirs = V.dirs /\ W.marker = V.marker
        /\ W.roots = V.roots /\ W.outside = V.outside
    BY <1>1, <1>2 DEF Shaped
  <1>9. HasTypes(W)
    BY <1>6, <1>8, Filled
  <1>10. QED
    BY <1>7, <1>8, <1>9 DEF W

Arrived(q, V) == IF q.from = None THEN Bring(q, V) ELSE Place(q, V)
IsAdopt(W, U, V, q) ==
  /\ Shaped(W) /\ W.space = U.space /\ W.doc = U.doc /\ W.outside = U.outside
  /\ W.dirs = U.dirs \union {q.path} \union Parents(q.path)
  /\ W.marker = With(U.marker, q.path, NewMarker(q.id, Nearest(V, q.path)))
  /\ W.roots = IF q.project = None THEN U.roots ELSE [U.roots EXCEPT ![q.project] = q.id]

LEMMA TypesPlaced ==
  ASSUME NEW V, HasTypes(V), NEW q, IsPath(q.path), Len(q.path) > 1, q.from # None => IsPath(q.from)
  PROVE  HasTypes(Place(q, V))
  BY TypesShifted DEF Place

LEMMA AdoptIs ==
  ASSUME NEW V, HasTypes(V), NEW q, IsPath(q.path), Len(q.path) > 1, q.from # None => IsPath(q.from)
  PROVE  HasTypes(Adopt(q, V)) /\ IsAdopt(Adopt(q, V), Arrived(q, V), V, q)
  <1> DEFINE U == Arrived(q, V)
             M == Make(U, q.path)
             g == With(U.marker, q.path, NewMarker(q.id, Nearest(V, q.path)))
             D == [M EXCEPT !.marker = g]
             r == [U.roots EXCEPT ![q.project] = q.id]
             W == IF q.project = None THEN D ELSE [D EXCEPT !.roots[q.project] = q.id]
  <1>1. HasTypes(U)
    BY BringIs, TypesPlaced DEF Arrived
  <1>2. HasTypes(M) /\ IsMade(M, U, q.path)
    <2> HIDE DEF U
    <2>1. QED
      BY <1>1, TypesMade
  <1>3. Adopt(q, V) = W
    <2> HIDE DEF U
    <2>1. M.marker = U.marker
      BY <1>2 DEF IsMade
    <2> HIDE DEF M
    <2>2. [M EXCEPT !.marker = With(M.marker, q.path, NewMarker(q.id, Nearest(V, q.path)))] = D
      BY <2>1
    <2>3. QED
      BY <2>2 DEF Adopt, U, M, Arrived
  <1> HIDE DEF U, M
  <1>4. /\ M.dirs = U.dirs \union {q.path} \union Parents(q.path)
        /\ Shaped(M) /\ M.space = U.space /\ M.marker = U.marker /\ M.doc = U.doc
        /\ M.roots = U.roots /\ M.outside = U.outside
    BY <1>2 DEF IsMade
  <1>5. AreMarkers(g) /\ IsMap(U.roots)
    BY <1>1, MarkersWith, NewMarkerIs DEF HasTypes
  <1> HIDE DEF g
  <1>6. /\ Shaped(D) /\ D.space = M.space /\ D.dirs = M.dirs /\ D.marker = g /\ D.doc = M.doc
        /\ D.roots = M.roots /\ D.outside = M.outside
    BY <1>4 DEF Shaped
  <1> HIDE DEF D
  <1>7. IsMap(r)
    BY <1>5 DEF IsMap
  <1>8. /\ Shaped(W) /\ W.space = D.space /\ W.dirs = D.dirs /\ W.marker = D.marker /\ W.doc = D.doc
        /\ W.outside = D.outside
        /\ W.roots = IF q.project = None THEN D.roots ELSE [D.roots EXCEPT ![q.project] = q.id]
    <2>1. CASE q.project = None
      BY <1>6, <2>1
    <2>2. CASE q.project # None
      BY <1>6, <2>2 DEF Shaped
    <2>3. QED
      BY <2>1, <2>2
  <1> HIDE DEF W, r
  <1>9. W.roots = M.roots \/ IsMap(W.roots)
    BY <1>4, <1>6, <1>7, <1>8 DEF r
  <1>10. HasTypes(W)
    BY <1>2, <1>5, <1>6, <1>8, <1>9, Filled
  <1>11. IsAdopt(W, U, V, q)
    BY <1>4, <1>6, <1>8 DEF IsAdopt, g
  <1>12. QED
    BY <1>3, <1>10, <1>11 DEF U

(* What a command makes of a Vault that allows it has the types again.     *)
LEMMA AllowedIs ==
  ASSUME NEW S, NEW q, IsRequest(q), Allowed(q, S)
  PROVE  /\ q.op \in {"space-create", "space-adopt"} => MayDefineSpace(q, S)
         /\ q.op = "create" => MayDefine(q, S)
         /\ q.op \in {"format", "space-format"} => MayFormat(q, S)
         /\ q.op = "rename" => MayRename(q, S)
         /\ q.op = "move" => MayMove(q, S)
         /\ q.op = "rekey" => MayRekey(q, S)
         /\ q.op = "merge" => MayMerge(q, S)
         /\ q.op = "delete" => MayDelete(q, S)
         /\ q.op = "adopt" => MayAdopt(q, S)
  BY DEF Allowed, IsRequest

LEMMA EffectIs ==
  ASSUME NEW S, NEW q, IsRequest(q)
  PROVE  /\ q.op \in {"space-create", "space-adopt"} => Effect(q, S) = DefineSpace(q, S)
         /\ q.op = "create" => Effect(q, S) = Declare(S, q)
         /\ q.op \in {"format", "space-format"} => Effect(q, S) = Format(q, S)
         /\ q.op = "rename" => Effect(q, S) = Rename(q, S)
         /\ q.op = "move" => Effect(q, S) = Move(q, S)
         /\ q.op = "rekey" => Effect(q, S) = Rekey(q, S)
         /\ q.op = "merge" => Effect(q, S) = Merge(q, S)
         /\ q.op = "delete" => Effect(q, S) = Delete(q, S)
         /\ q.op = "adopt" => Effect(q, S) = Adopt(q, S)
  BY DEF Effect, IsRequest

LEMMA BaseIs ==
  ASSUME NEW S, NEW V, NEW q, IsRequest(q)
  PROVE  /\ q.op = "rename" /\ q.folder # None => Base(q, S, V) = Carried(q, V, DirOf(S, q.id), Folder(q, S))
         /\ q.op = "rename" /\ q.folder = None => Base(q, S, V) = V
         /\ q.op = "move" => Base(q, S, V) = Carried(q, V, DirOf(S, q.id), NewPlace(q, S))
         /\ q.op = "adopt" => Base(q, S, V) = Place(q, V)
         /\ q.op \in {"space-create", "space-adopt", "create", "format", "space-format", "rekey", "merge", "delete"}
              => Base(q, S, V) = V
  BY DEF Base, IsRequest

(* The parts of a rename and of a move                                     *)
Named(q, V) == IF q.name = None THEN V ELSE [V EXCEPT !.marker[DirOf(V, q.id)].name = q.name]
Resettled(q, V) ==
  [V EXCEPT !.marker[DirOf(V, q.id)].parent = IF SpacesOf(V, q.to) = {} THEN q.to ELSE None]

LEMMA RenameIs ==
  ASSUME NEW V, HasTypes(V), NEW q, IsRequest(q), q.op = "rename", MayRename(q, V)
  PROVE  /\ Marked(Named(q, V), V) /\ HasTypes(Named(q, V))
         /\ q.folder = None => Rename(q, V) = Named(q, V)
         /\ q.folder # None =>
              /\ Rename(q, V) = Relocate(Named(q, V), DirOf(V, q.id), Folder(q, V))
              /\ IsPath(DirOf(V, q.id)) /\ IsPath(Folder(q, V)) /\ Len(Folder(q, V)) > 1
  <1>1. Marked(Named(q, V), V)
    BY NamedIs, MarkedItself DEF Named
  <1>2. HasTypes(Named(q, V))
    BY <1>1, MarkedHasTypes
  <1>3. Rename(q, V) = IF q.folder = None THEN Named(q, V)
                       ELSE Relocate(Named(q, V), DirOf(V, q.id), Folder(q, V))
    BY DEF Rename, Named
  <1>4. q.folder # None => IsPath(DirOf(V, q.id)) /\ IsPath(Folder(q, V)) /\ Len(Folder(q, V)) > 1
    BY KnownIs, FolderIs DEF IsRequest, MayRename
  <1>5. QED
    BY <1>1, <1>2, <1>3, <1>4

LEMMA MoveIs ==
  ASSUME NEW V, HasTypes(V), NEW q, MayMove(q, V)
  PROVE  /\ Marked(Resettled(q, V), V) /\ HasTypes(Resettled(q, V))
         /\ Move(q, V) = Relocate(Resettled(q, V), DirOf(V, q.id), NewPlace(q, V))
         /\ IsPath(DirOf(V, q.id)) /\ IsPath(NewPlace(q, V)) /\ Len(NewPlace(q, V)) > 1
  <1>1. Marked(Resettled(q, V), V)
    BY PlacedIs DEF Resettled
  <1>2. HasTypes(Resettled(q, V))
    BY <1>1, MarkedHasTypes
  <1>3. Move(q, V) = Relocate(Resettled(q, V), DirOf(V, q.id), NewPlace(q, V))
    BY DEF Move, Resettled
  <1>4. IsPath(DirOf(V, q.id)) /\ IsPath(NewPlace(q, V)) /\ Len(NewPlace(q, V)) > 1
    BY KnownIs, NewPlaceIs DEF MayMove
  <1>5. QED
    BY <1>1, <1>2, <1>3, <1>4

LEMMA AdoptedPaths ==
  ASSUME NEW V, HasTypes(V), NEW q, IsRequest(q), q.op = "adopt", MayAdopt(q, V)
  PROVE  IsPath(q.path) /\ Len(q.path) > 1 /\ (q.from # None => IsPath(q.from))
  BY DEF IsRequest, MayAdopt, InSpace

LEMMA EffectHasTypes ==
  ASSUME NEW S, HasTypes(S), NEW q, IsRequest(q), Allowed(q, S)
  PROVE  HasTypes(Effect(q, S))
  <1>1. CASE q.op \in {"space-create", "space-adopt"}
    BY <1>1, TypesDefined, EffectIs DEF IsRequest
  <1>2. CASE q.op = "create"
    <2>1. IsPath(q.path) /\ Len(q.path) > 1
      BY <1>2, AllowedIs DEF IsRequest, MayDefine, Fits, InSpace
    <2>2. QED
      BY <1>2, <2>1, TypesDeclared, EffectIs
  <1>3. CASE q.op \in {"format", "space-format"}
    BY <1>3, TypesFormatted, EffectIs
  <1>4. CASE q.op = "rename"
    <2>1. MayRename(q, S)
      BY <1>4, AllowedIs
    <2>2. HasTypes(Rename(q, S))
      BY <1>4, <2>1, RenameIs, RelocateIs
    <2>3. QED
      BY <1>4, <2>2, EffectIs
  <1>5. CASE q.op = "move"
    <2>1. HasTypes(Move(q, S))
      BY <1>5, AllowedIs, MoveIs, RelocateIs
    <2>2. QED
      BY <1>5, <2>1, EffectIs
  <1>6. CASE q.op = "rekey"
    BY <1>6, RekeyIs, EffectIs
  <1>7. CASE q.op = "merge"
    <2>1. Known(S, q.id) /\ Known(S, q.to)
      BY <1>7, AllowedIs DEF MayMerge
    <2>2. QED
      BY <1>7, <2>1, MergeIs, EffectIs
  <1>8. CASE q.op = "delete"
    BY <1>8, DeleteIs, EffectIs
  <1>9. CASE q.op = "adopt"
    <2>1. IsPath(q.path) /\ Len(q.path) > 1 /\ (q.from # None => IsPath(q.from))
      BY <1>9, AllowedIs, AdoptedPaths
    <2>2. QED
      BY <1>9, <2>1, AdoptIs, EffectIs
  <1>10. QED
    BY <1>1, <1>2, <1>3, <1>4, <1>5, <1>6, <1>7, <1>8, <1>9 DEF IsRequest

LEMMA BaseHasTypes ==
  ASSUME NEW S, HasTypes(S), NEW V, HasTypes(V), NEW q, IsRequest(q), Allowed(q, S)
  PROVE  HasTypes(Base(q, S, V))
  <1>1. CASE q.op = "rename" /\ q.folder # None
    <2>1. IsPath(DirOf(S, q.id)) /\ IsPath(Folder(q, S)) /\ Len(Folder(q, S)) > 1
      BY <1>1, AllowedIs, RenameIs
    <2>2. QED
      BY <1>1, <2>1, TypesShifted, BaseIs DEF Carried
  <1>2. CASE q.op = "move"
    <2>1. IsPath(DirOf(S, q.id)) /\ IsPath(NewPlace(q, S)) /\ Len(NewPlace(q, S)) > 1
      BY <1>2, AllowedIs, MoveIs
    <2>2. QED
      BY <1>2, <2>1, TypesShifted, BaseIs DEF Carried
  <1>3. CASE q.op = "adopt"
    <2>1. IsPath(q.path) /\ Len(q.path) > 1 /\ (q.from # None => IsPath(q.from))
      BY <1>3, AllowedIs, AdoptedPaths
    <2>2. QED
      BY <1>3, <2>1, TypesPlaced, BaseIs
  <1>4. CASE ~(q.op = "rename" /\ q.folder # None) /\ q.op # "move" /\ q.op # "adopt"
    BY <1>4, BaseIs DEF IsRequest
  <1>5. QED
    BY <1>1, <1>2, <1>3, <1>4

(* The fields of the Vault that a change set leaves                        *)
IsApplied(W, q, S, V) ==
  LET old == Base(q, S, S)
      new == Effect(q, S)
      now == Base(q, S, V)
  IN  /\ Shaped(W) /\ W.outside = now.outside
      /\ IsPatched(W.space, old.space, new.space, now.space) /\ W.space = Patched(old.space, new.space, now.space)
      /\ IsPatched(W.marker, old.marker, new.marker, now.marker) /\ W.marker = Patched(old.marker, new.marker, now.marker)
      /\ IsPatched(W.doc, old.doc, new.doc, now.doc) /\ W.doc = Patched(old.doc, new.doc, now.doc)
      /\ IsPatched(W.roots, old.roots, new.roots, now.roots) /\ W.roots = Patched(old.roots, new.roots, now.roots)
      /\ W.dirs = Closed((now.dirs \ (old.dirs \ new.dirs)) \union (new.dirs \ old.dirs)
                           \union DOMAIN W.space \union DOMAIN W.marker, DOMAIN W.doc)

LEMMA AppliedIs ==
  ASSUME NEW S, HasTypes(S), NEW V, HasTypes(V), NEW q, IsRequest(q), Allowed(q, S)
  PROVE  IsApplied(Applied(q, S, V), q, S, V)
  <1> DEFINE old == Base(q, S, S)
             new == Effect(q, S)
             now == Base(q, S, V)
             space == Patched(old.space, new.space, now.space)
             marker == Patched(old.marker, new.marker, now.marker)
             doc == Patched(old.doc, new.doc, now.doc)
             roots == Patched(old.roots, new.roots, now.roots)
             dirs == Closed((now.dirs \ (old.dirs \ new.dirs)) \union (new.dirs \ old.dirs)
                              \union DOMAIN space \union DOMAIN marker, DOMAIN doc)
             W == Applied(q, S, V)
  <1>1. HasTypes(old) /\ HasTypes(new) /\ HasTypes(now)
    BY BaseHasTypes, EffectHasTypes
  <1>2. W = [now EXCEPT !.space = space, !.marker = marker, !.doc = doc, !.roots = roots, !.dirs = dirs]
    BY DEF Applied
  <1> HIDE DEF old, new, now, W
  <1>3. /\ IsPatched(space, old.space, new.space, now.space) /\ IsPatched(marker, old.marker, new.marker, now.marker)
        /\ IsPatched(doc, old.doc, new.doc, now.doc) /\ IsPatched(roots, old.roots, new.roots, now.roots)
    BY <1>1, PatchedIs DEF HasTypes, AreSpaces, AreMarkers, AreDocs
  <1>4. Shaped(now)
    BY <1>1, IsShaped
  <1> HIDE DEF space, marker, doc, roots, dirs
  <1>5. DOMAIN W = DOMAIN now /\ W = [x \in DOMAIN now |-> W[x]]
    BY <1>2, <1>4 DEF Shaped
  <1>6. /\ W.space = space /\ W.marker = marker /\ W.doc = doc /\ W.roots = roots /\ W.dirs = dirs
        /\ W.outside = now.outside
    BY <1>2, <1>4 DEF Shaped
  <1>7. Shaped(W)
    BY <1>4, <1>5, StaysShaped
  <1>8. W.dirs = Closed((now.dirs \ (old.dirs \ new.dirs)) \union (new.dirs \ old.dirs)
                           \union DOMAIN W.space \union DOMAIN W.marker, DOMAIN W.doc)
    BY <1>6 DEF dirs
  <1>9. IsApplied(W, q, S, V)
    BY <1>3, <1>6, <1>7, <1>8 DEF IsApplied, old, new, now, space, marker, doc, roots
  <1>10. QED
    BY <1>9 DEF W

(* A change set that is applied leaves a Vault.                            *)
LEMMA ClosedIs ==
  ASSUME NEW dirs, NEW files, NEW d
  PROVE  d \in Closed(dirs, files) <=> d \in dirs \/ \E p \in dirs \union files : d \in Parents(p)
  <1> DEFINE A == {Parents(p) : p \in dirs \union files}
             C == UNION A
  <1>1. d \in C <=> \E D \in A : d \in D
    OBVIOUS
  <1>2. \A D : D \in A <=> \E p \in dirs \union files : D = Parents(p)
    OBVIOUS
  <1>3. Closed(dirs, files) = dirs \union C
    BY DEF Closed
  <1> HIDE DEF C
  <1>4. d \in Closed(dirs, files) <=> d \in dirs \/ d \in C
    BY <1>3
  <1> HIDE DEF A
  <1>5. d \in C <=> \E p \in dirs \union files : d \in Parents(p)
    BY <1>1, <1>2
  <1>6. QED
    BY <1>4, <1>5

LEMMA ClosedIsClosed ==
  ASSUME NEW dirs, NEW files, \A p \in dirs \union files : IsPath(p)
  PROVE  /\ dirs \subseteq Closed(dirs, files)
         /\ \A d \in Closed(dirs, files) : IsPath(d)
         /\ \A p \in Closed(dirs, files) \union files : Parents(p) \subseteq Closed(dirs, files)
  <1>1. ASSUME NEW d \in dirs PROVE d \in Closed(dirs, files)
    BY <1>1, ClosedIs
  <1>2. ASSUME NEW d \in Closed(dirs, files) PROVE IsPath(d)
    <2>1. d \in dirs \/ \E p \in dirs \union files : d \in Parents(p)
      BY ClosedIs
    <2>2. QED
      BY <2>1, TypesOfParents
  <1>3. ASSUME NEW p \in dirs \union files, NEW d \in Parents(p) PROVE d \in Closed(dirs, files)
    BY ClosedIs
  <1>4. ASSUME NEW p \in Closed(dirs, files), NEW d \in Parents(p) PROVE d \in Closed(dirs, files)
    <2>1. CASE p \in dirs
      BY <1>3, <2>1
    <2>2. CASE p \notin dirs
      <3>1. PICK r \in dirs \union files : p \in Parents(r)
        BY <2>2, ClosedIs
      <3>2. r \in Seq(Names)
        BY DEF IsPath, Names
      <3>3. d \in Parents(r)
        BY <3>1, <3>2, ParentsAbove
      <3>4. QED
        BY <1>3, <3>3
    <2>3. QED
      BY <2>1, <2>2
  <1>5. QED
    BY <1>1, <1>2, <1>3, <1>4

LEMMA PatchedTypes ==
  ASSUME NEW f, NEW old, NEW new, NEW now, IsPatched(f, old, new, now)
  PROVE  /\ AreSpaces(new) /\ AreSpaces(now) => AreSpaces(f)
         /\ AreMarkers(new) /\ AreMarkers(now) => AreMarkers(f)
         /\ AreDocs(new) /\ AreDocs(now) => AreDocs(f)
  <1>1. IsMap(f) /\ \A x \in DOMAIN f : (x \in DOMAIN new /\ f[x] = new[x]) \/ (x \in DOMAIN now /\ f[x] = now[x])
    BY DEF IsPatched
  <1>2. ASSUME AreSpaces(new), AreSpaces(now) PROVE AreSpaces(f)
    BY <1>1, <1>2 DEF AreSpaces
  <1>3. ASSUME AreMarkers(new), AreMarkers(now) PROVE AreMarkers(f)
    BY <1>1, <1>3 DEF AreMarkers
  <1>4. ASSUME AreDocs(new), AreDocs(now) PROVE AreDocs(f)
    BY <1>1, <1>4 DEF AreDocs
  <1>5. QED
    BY <1>2, <1>3, <1>4

LEMMA AppliedIsVault ==
  ASSUME NEW S, HasTypes(S), NEW V, HasTypes(V), NEW q, IsRequest(q), Allowed(q, S),
         Possible(Applied(q, S, V))
  PROVE  IsVault(Applied(q, S, V))
  <1> DEFINE old == Base(q, S, S)
             new == Effect(q, S)
             now == Base(q, S, V)
             W == Applied(q, S, V)
             dirs == (now.dirs \ (old.dirs \ new.dirs)) \union (new.dirs \ old.dirs)
                       \union DOMAIN W.space \union DOMAIN W.marker
  <1>1. HasTypes(old) /\ HasTypes(new) /\ HasTypes(now)
    BY BaseHasTypes, EffectHasTypes
  <1>2. IsApplied(W, q, S, V)
    BY AppliedIs
  <1>3. /\ Shaped(W) /\ W.outside = now.outside
        /\ IsPatched(W.space, old.space, new.space, now.space)
        /\ IsPatched(W.marker, old.marker, new.marker, now.marker)
        /\ IsPatched(W.doc, old.doc, new.doc, now.doc)
        /\ IsPatched(W.roots, old.roots, new.roots, now.roots)
        /\ W.dirs = Closed(dirs, DOMAIN W.doc)
    BY <1>2 DEF IsApplied
  <1>4. Possible(W)
    OBVIOUS
  <1> HIDE DEF old, new, now, W
  <1>5. AreSpaces(W.space)
    BY <1>1, <1>3, PatchedTypes DEF HasTypes
  <1>6. AreMarkers(W.marker)
    BY <1>1, <1>3, PatchedTypes DEF HasTypes
  <1>7. AreDocs(W.doc)
    BY <1>1, <1>3, PatchedTypes DEF HasTypes
  <1>8. IsMap(W.roots)
    BY <1>3 DEF IsPatched
  <1>9. \A p \in dirs \union DOMAIN W.doc : IsPath(p)
    BY <1>1, <1>5, <1>6, <1>7 DEF HasTypes, AreSpaces, AreMarkers, AreDocs
  <1>10. DOMAIN W.space \subseteq dirs /\ DOMAIN W.marker \subseteq dirs
    OBVIOUS
  <1> HIDE DEF dirs
  <1>11. /\ dirs \subseteq W.dirs
         /\ \A d \in W.dirs : IsPath(d)
         /\ \A p \in W.dirs \union DOMAIN W.doc : Parents(p) \subseteq W.dirs
    <2>1. /\ dirs \subseteq Closed(dirs, DOMAIN W.doc)
          /\ \A d \in Closed(dirs, DOMAIN W.doc) : IsPath(d)
          /\ \A p \in Closed(dirs, DOMAIN W.doc) \union DOMAIN W.doc : Parents(p) \subseteq Closed(dirs, DOMAIN W.doc)
      BY <1>9, ClosedIsClosed
    <2>2. QED
      BY <1>3, <2>1
  <1>12. HasTypes(W)
    BY <1>1, <1>3, <1>5, <1>6, <1>7, <1>8, <1>11, Filled
  <1>13. IsTree(W)
    BY <1>4, <1>10, <1>11 DEF IsTree, Possible
  <1>14. QED
    BY <1>12, <1>13 DEF IsVault, W

----------------------------------------------------------------------------
(* What an editor or a project command makes of a Vault is one.            *)
LEMMA TreeKept ==
  ASSUME NEW V, IsTree(V), NEW W, W.dirs = V.dirs, DOMAIN W.space = DOMAIN V.space,
         DOMAIN W.marker = DOMAIN V.marker, DOMAIN W.doc = DOMAIN V.doc
  PROVE  IsTree(W)
  BY DEF IsTree

LEMMA DocSaved ==
  ASSUME NEW V, IsVault(V), NEW p \in DOMAIN V.doc, NEW n
  PROVE  IsVault([V EXCEPT !.doc[p].rev = n])
  <1> DEFINE W == [V EXCEPT !.doc[p].rev = n]
             m == [V.doc[p] EXCEPT !.rev = n]
             f == [V.doc EXCEPT ![p] = m]
  <1>1. HasTypes(V) /\ Shaped(V) /\ AreDocs(V.doc)
    BY IsShaped DEF IsVault, HasTypes
  <1>2. IsDoc(m)
    BY <1>1, DocChanged DEF AreDocs
  <1> HIDE DEF m
  <1>3. DOMAIN f = DOMAIN V.doc /\ f = [x \in DOMAIN V.doc |-> IF x = p THEN m ELSE V.doc[x]]
    BY <1>1 DEF AreDocs, IsMap
  <1> HIDE DEF f
  <1>4. IsMap(f) /\ \A x \in DOMAIN f : f[x] = IF x = p THEN m ELSE V.doc[x]
    BY <1>1, <1>3 DEF AreDocs, IsMap
  <1>5. AreDocs(f)
    BY <1>1, <1>2, <1>3, <1>4 DEF AreDocs
  <1>6. /\ Shaped(W) /\ W.doc = f /\ W.dirs = V.dirs /\ W.space = V.space /\ W.marker = V.marker
        /\ W.roots = V.roots /\ W.outside = V.outside
    BY <1>1 DEF Shaped, f, m
  <1> HIDE DEF W
  <1>7. HasTypes(W)
    BY <1>1, <1>5, <1>6, Filled
  <1>8. IsTree(W)
    BY <1>3, <1>6, TreeKept DEF IsVault
  <1>9. QED
    BY <1>7, <1>8 DEF IsVault, W

LEMMA OutsideSaved ==
  ASSUME NEW V, IsVault(V), NEW p \in DOMAIN V.outside, NEW n
  PROVE  IsVault([V EXCEPT !.outside[p].rev = n])
  <1> DEFINE W == [V EXCEPT !.outside[p].rev = n]
             m == [V.outside[p] EXCEPT !.rev = n]
             f == [V.outside EXCEPT ![p] = m]
  <1>1. HasTypes(V) /\ Shaped(V) /\ AreOutside(V.outside)
    BY IsShaped DEF IsVault, HasTypes
  <1>2. IsDoc(m)
    BY <1>1, DocChanged DEF AreOutside
  <1> HIDE DEF m
  <1>3. DOMAIN f = DOMAIN V.outside /\ f = [x \in DOMAIN V.outside |-> IF x = p THEN m ELSE V.outside[x]]
    BY <1>1 DEF AreOutside, IsMap
  <1> HIDE DEF f
  <1>4. IsMap(f) /\ \A x \in DOMAIN f : f[x] = IF x = p THEN m ELSE V.outside[x]
    BY <1>1, <1>3 DEF AreOutside, IsMap
  <1>5. AreOutside(f)
    BY <1>1, <1>2, <1>3, <1>4 DEF AreOutside
  <1>6. /\ Shaped(W) /\ W.outside = f /\ W.dirs = V.dirs /\ W.space = V.space /\ W.marker = V.marker
        /\ W.roots = V.roots /\ W.doc = V.doc
    BY <1>1 DEF Shaped, f, m
  <1> HIDE DEF W
  <1>7. HasTypes(W)
    BY <1>1, <1>5, <1>6, Filled
  <1>8. IsTree(W)
    BY <1>6, TreeKept DEF IsVault
  <1>9. QED
    BY <1>7, <1>8 DEF IsVault, W

LEMMA MarkerAuthored ==
  ASSUME NEW V, IsVault(V), NEW d \in DOMAIN V.marker, NEW x
  PROVE  IsVault([V EXCEPT !.marker[d].text = x])
  <1> DEFINE W == [V EXCEPT !.marker[d].text = x]
             m == [V.marker[d] EXCEPT !.text = x]
             f == [V.marker EXCEPT ![d] = m]
  <1>1. HasTypes(V) /\ Shaped(V) /\ AreMarkers(V.marker)
    BY IsShaped DEF IsVault, HasTypes
  <1>2. IsMarker(m)
    <2>1. IsMarker(V.marker[d])
      BY <1>1 DEF AreMarkers
    <2>2. m = [id |-> m.id, parent |-> m.parent, name |-> m.name, text |-> m.text, loose |-> m.loose]
      BY <2>1 DEF IsMarker
    <2>3. QED
      BY <2>2 DEF IsMarker
  <1> HIDE DEF m
  <1>3. DOMAIN f = DOMAIN V.marker /\ f = [z \in DOMAIN V.marker |-> IF z = d THEN m ELSE V.marker[z]]
    BY <1>1 DEF AreMarkers, IsMap
  <1> HIDE DEF f
  <1>4. IsMap(f) /\ \A z \in DOMAIN f : f[z] = IF z = d THEN m ELSE V.marker[z]
    BY <1>1, <1>3 DEF AreMarkers, IsMap
  <1>5. AreMarkers(f)
    BY <1>1, <1>2, <1>3, <1>4 DEF AreMarkers
  <1>6. /\ Shaped(W) /\ W.marker = f /\ W.dirs = V.dirs /\ W.space = V.space /\ W.doc = V.doc
        /\ W.roots = V.roots /\ W.outside = V.outside
    BY <1>1 DEF Shaped, f, m
  <1> HIDE DEF W
  <1>7. HasTypes(W)
    BY <1>1, <1>5, <1>6, Filled
  <1>8. IsTree(W)
    BY <1>3, <1>6, TreeKept DEF IsVault
  <1>9. QED
    BY <1>7, <1>8 DEF IsVault, W

LEMMA ParentsOfFront ==
  ASSUME NEW p, IsPath(p), Len(p) > 1
  PROVE  Parents(p) \subseteq Parents(Front(p)) \union {Front(p)}
  <1> SUFFICES ASSUME NEW d \in Parents(p), d # Front(p) PROVE d \in Parents(Front(p))
    OBVIOUS
  <1>1. p \in Seq(Names)
    BY DEF IsPath, Names
  <1>2. IsPath(d) /\ Under(p, d) /\ Len(d) < Len(p)
    BY <1>1, ParentIs
  <1>3. d \in Seq(Names) /\ d # << >>
    BY <1>2 DEF IsPath, Names
  <1>4. Front(p) \in Seq(Names) /\ Len(Front(p)) = Len(p) - 1 /\ \A i \in 1..Len(p) - 1 : Front(p)[i] = p[i]
    BY <1>1, FrontIs
  <1>5. Len(d) \in Nat /\ Len(p) \in Nat /\ \A i \in 1..Len(d) : p[i] = d[i]
    BY <1>1, <1>2, <1>3, UnderIs
  <1>6. Under(Front(p), d)
    <2>1. Len(d) <= Len(Front(p)) /\ \A i \in 1..Len(d) : Front(p)[i] = d[i]
      BY <1>2, <1>4, <1>5
    <2>2. QED
      BY <1>3, <1>4, <2>1, UnderIs
  <1>7. QED
    BY <1>3, <1>4, <1>6, AboveIsParent

LEMMA LongerPath ==
  ASSUME NEW p, IsPath(p), Len(p) # 1
  PROVE  Len(p) > 1
  <1>1. p \in Seq(STRING) /\ Len(p) \in Nat
    BY DEF IsPath
  <1>2. Len(p) # 0
    BY <1>1, EmptySeq DEF IsPath
  <1>3. \A n \in Nat : n # 0 /\ n # 1 => n > 1
    OBVIOUS
  <1>4. QED
    BY <1>1, <1>2, <1>3

LEMMA DocDrafted ==
  ASSUME NEW V, IsVault(V), NEW p, IsPath(p), Front(p) \in V.dirs, ~Exists(V, p), NEW m, IsDoc(m)
  PROVE  IsVault([V EXCEPT !.doc = With(@, p, m)])
  <1> DEFINE f == With(V.doc, p, m)
             W == [V EXCEPT !.doc = With(@, p, m)]
  <1>1. HasTypes(V) /\ Shaped(V) /\ AreDocs(V.doc) /\ IsTree(V)
    BY IsShaped DEF IsVault, HasTypes
  <1>2. Len(p) > 1
    <2>1. Len(p) = 1 => Front(p) = << >>
      BY DEF Front, IsPath
    <2>2. Front(p) # << >>
      BY <1>1 DEF HasTypes, IsPath
    <2>3. QED
      BY <2>1, <2>2, LongerPath
  <1>3. AreDocs(f)
    BY <1>1, <1>2, DocsWith
  <1>4. IsWith(f, V.doc, p, m)
    BY <1>1, WithIs DEF AreDocs
  <1>5. DOMAIN f = DOMAIN V.doc \union {p}
    BY <1>4 DEF IsWith
  <1> HIDE DEF f
  <1>6. W = [V EXCEPT !.doc = f]
    BY DEF f
  <1> HIDE DEF W
  <1>7. /\ Shaped(W) /\ W.doc = f /\ W.dirs = V.dirs /\ W.space = V.space /\ W.marker = V.marker
        /\ W.roots = V.roots /\ W.outside = V.outside
    BY <1>1, <1>6 DEF Shaped
  <1>8. HasTypes(W)
    BY <1>1, <1>3, <1>7, Filled
  <1>9. Parents(p) \subseteq V.dirs
    BY <1>1, <1>2, ParentsOfFront DEF IsTree
  <1>10. IsTree(W)
    BY <1>1, <1>5, <1>7, <1>9 DEF IsTree, Exists
  <1>11. QED
    BY <1>8, <1>10 DEF IsVault, W

LEMMA RootBound ==
  ASSUME NEW V, IsVault(V), NEW p, NEW id
  PROVE  IsVault([V EXCEPT !.roots = With(@, p, id)])
  <1> DEFINE f == With(V.roots, p, id)
             W == [V EXCEPT !.roots = With(@, p, id)]
  <1>1. HasTypes(V) /\ Shaped(V) /\ IsMap(V.roots)
    BY IsShaped DEF IsVault, HasTypes
  <1>2. IsMap(f)
    BY <1>1, WithIs DEF IsWith
  <1> HIDE DEF f
  <1>3. W = [V EXCEPT !.roots = f]
    BY DEF f
  <1> HIDE DEF W
  <1>4. /\ Shaped(W) /\ W.doc = V.doc /\ W.dirs = V.dirs /\ W.space = V.space /\ W.marker = V.marker
        /\ W.roots = f /\ W.outside = V.outside
    BY <1>1, <1>3 DEF Shaped
  <1>5. HasTypes(W)
    BY <1>1, <1>2, <1>4, Filled
  <1>6. IsTree(W)
    BY <1>4, TreeKept DEF IsVault
  <1>7. QED
    BY <1>5, <1>6 DEF IsVault, W

----------------------------------------------------------------------------
(* What a process has read allows its command; what it has hashed is what  *)
(* it has read of; what it has entered with has stood the comparison.      *)
IsPlan(j) == j.at # "idle" =>
  /\ Allowed(j.req, j.seen)
  /\ j.at = "preview" => j.req.op = "rename"
  /\ j.at = "stage" => j.req.op = "adopt"
  /\ j.at \in {"enter", "write"} /\ j.req.op \in {"merge", "delete"} =>
       CanHash(j.req, j.seen, j.hashed)
  /\ j.at = "write" => Stands(j.req, j.seen, j.hashed, j.entered)
Jobs == \A c \in Procs : IsJob(job[c]) /\ IsPlan(job[c])
OneWriter == \A b, c \in Procs :
  At(b, "write") /\ At(c, "write") /\ b # c => ~SameLock(job[b].req, job[c].req)
IInv ==
  /\ IsVault(vault) /\ ran \in Nat /\ edits \in Nat
  /\ job = [c \in Procs |-> job[c]] /\ Jobs /\ OneWriter

LEMMA InitIInv == Init => IInv
  <1> SUFFICES ASSUME Init PROVE IInv
    OBVIOUS
  <1>1. IsVault(vault) /\ ran \in Nat /\ edits \in Nat
    BY StartsAssumption DEF Init
  <1>2. job = [c \in Procs |-> NoJob] /\ job = [c \in Procs |-> job[c]] /\ \A c \in Procs : job[c] = NoJob
    BY DEF Init
  <1>3. NoJob.at = "idle" /\ IsJob(NoJob)
    BY DEF NoJob, IsJob
  <1>4. Jobs
    BY <1>2, <1>3 DEF Jobs, IsPlan
  <1>5. OneWriter
    BY <1>2, <1>3 DEF OneWriter, At
  <1>6. QED
    BY <1>1, <1>2, <1>4, <1>5 DEF IInv

(* A process may come to a place where it has what it needs there.         *)
LEMMA GoKeepsIInv ==
  ASSUME IInv, NEW c \in Procs, NEW j, Go(c, j), IsJob(j), IsPlan(j),
         j.at = "write" => Free(c) /\ j.req = job[c].req,
         IsVault(vault'), ran' \in Nat, edits' = edits
  PROVE  IInv'
  <1>1. job = [b \in Procs |-> job[b]] /\ job' = [job EXCEPT ![c] = j]
    BY DEF IInv, Go
  <1>2. job' = [b \in Procs |-> job'[b]] /\ job'[c] = j /\ \A b \in Procs : b # c => job'[b] = job[b]
    BY <1>1
  <1>3. Jobs'
    BY <1>2 DEF IInv, Jobs
  <1>4. OneWriter'
    <2> SUFFICES ASSUME NEW a \in Procs, NEW b \in Procs, job'[a].at = "write", job'[b].at = "write", a # b
                 PROVE  ~SameLock(job'[a].req, job'[b].req)
      BY DEF OneWriter, At
    <2>1. CASE a = c
      BY <1>2, <2>1 DEF Free, At, SameLock
    <2>2. CASE b = c
      BY <1>2, <2>2 DEF Free, At, SameLock
    <2>3. CASE a # c /\ b # c
      BY <1>2, <2>3 DEF IInv, OneWriter, At
    <2>4. QED
      BY <2>1, <2>2, <2>3
  <1>5. QED
    BY <1>2, <1>3, <1>4 DEF IInv

(* ... or be done.                                                         *)
LEMMA DoneKeepsIInv ==
  ASSUME IInv, NEW c \in Procs, Done(c), IsVault(vault'), ran' = ran, edits' = edits
  PROVE  IInv'
  <1>1. NoJob.at = "idle" /\ IsJob(NoJob) /\ IsPlan(NoJob)
    BY DEF NoJob, IsJob, IsPlan
  <1>2. Go(c, NoJob)
    BY DEF Go, Done
  <1>3. ran' \in Nat
    BY DEF IInv
  <1>4. QED
    BY <1>1, <1>2, <1>3, GoKeepsIInv

(* A job with other contents                                               *)
Job(at, q, S, H, V) == [at |-> at, req |-> q, seen |-> S, hashed |-> H, entered |-> V]

LEMMA JobStays ==
  ASSUME NEW j, j = Job(j.at, j.req, j.seen, j.hashed, j.entered),
         NEW e, DOMAIN e = DOMAIN j, e = [z \in DOMAIN j |-> e[z]]
  PROVE  e = Job(e.at, e.req, e.seen, e.hashed, e.entered)
  BY DEF Job

LEMMA JobIs ==
  ASSUME NEW j, j = [at |-> j.at, req |-> j.req, seen |-> j.seen, hashed |-> j.hashed, entered |-> j.entered],
         NEW x, NEW y
  PROVE  /\ [j EXCEPT !.at = x] = Job(x, j.req, j.seen, j.hashed, j.entered)
         /\ [j EXCEPT !.at = x, !.seen = y] = Job(x, j.req, y, j.hashed, j.entered)
         /\ [j EXCEPT !.at = x, !.hashed = y] = Job(x, j.req, j.seen, y, j.entered)
  <1>1. j = Job(j.at, j.req, j.seen, j.hashed, j.entered)
    BY DEF Job
  <1>2. [j EXCEPT !.at = x] = Job(x, j.req, j.seen, j.hashed, j.entered)
    <2> DEFINE e == [j EXCEPT !.at = x]
    <2>1. DOMAIN e = DOMAIN j /\ e = [z \in DOMAIN j |-> e[z]]
      BY <1>1 DEF Job
    <2>2. e.at = x /\ e.req = j.req /\ e.seen = j.seen /\ e.hashed = j.hashed /\ e.entered = j.entered
      BY <1>1 DEF Job
    <2> HIDE DEF e
    <2>3. e = Job(e.at, e.req, e.seen, e.hashed, e.entered)
      BY <1>1, <2>1, JobStays
    <2>4. e = Job(x, j.req, j.seen, j.hashed, j.entered)
      BY <2>2, <2>3
    <2>5. QED
      BY <2>4 DEF e
  <1>3. [j EXCEPT !.at = x, !.seen = y] = Job(x, j.req, y, j.hashed, j.entered)
    <2> DEFINE e == [j EXCEPT !.at = x, !.seen = y]
    <2>1. DOMAIN e = DOMAIN j /\ e = [z \in DOMAIN j |-> e[z]]
      BY <1>1 DEF Job
    <2>2. e.at = x /\ e.req = j.req /\ e.seen = y /\ e.hashed = j.hashed /\ e.entered = j.entered
      BY <1>1 DEF Job
    <2> HIDE DEF e
    <2>3. e = Job(e.at, e.req, e.seen, e.hashed, e.entered)
      BY <1>1, <2>1, JobStays
    <2>4. e = Job(x, j.req, y, j.hashed, j.entered)
      BY <2>2, <2>3
    <2>5. QED
      BY <2>4 DEF e
  <1>4. [j EXCEPT !.at = x, !.hashed = y] = Job(x, j.req, j.seen, y, j.entered)
    <2> DEFINE e == [j EXCEPT !.at = x, !.hashed = y]
    <2>1. DOMAIN e = DOMAIN j /\ e = [z \in DOMAIN j |-> e[z]]
      BY <1>1 DEF Job
    <2>2. e.at = x /\ e.req = j.req /\ e.seen = j.seen /\ e.hashed = y /\ e.entered = j.entered
      BY <1>1 DEF Job
    <2> HIDE DEF e
    <2>3. e = Job(e.at, e.req, e.seen, e.hashed, e.entered)
      BY <1>1, <2>1, JobStays
    <2>4. e = Job(x, j.req, j.seen, y, j.entered)
      BY <2>2, <2>3
    <2>5. QED
      BY <2>4 DEF e
  <1>6. QED
    BY <1>2, <1>3, <1>4

LEMMA JobEnters ==
  ASSUME NEW j, j = [at |-> j.at, req |-> j.req, seen |-> j.seen, hashed |-> j.hashed, entered |-> j.entered],
         NEW x, NEW y
  PROVE  [j EXCEPT !.at = x, !.entered = y] = Job(x, j.req, j.seen, j.hashed, y)
  <1>1. j = Job(j.at, j.req, j.seen, j.hashed, j.entered)
    BY DEF Job
  <1>2. [j EXCEPT !.at = x, !.entered = y] = Job(x, j.req, j.seen, j.hashed, y)
    <2> DEFINE e == [j EXCEPT !.at = x, !.entered = y]
    <2>1. DOMAIN e = DOMAIN j /\ e = [z \in DOMAIN j |-> e[z]]
      BY <1>1 DEF Job
    <2>2. e.at = x /\ e.req = j.req /\ e.seen = j.seen /\ e.hashed = j.hashed /\ e.entered = y
      BY <1>1 DEF Job
    <2> HIDE DEF e
    <2>3. e = Job(e.at, e.req, e.seen, e.hashed, e.entered)
      BY <1>1, <2>1, JobStays
    <2>4. e = Job(x, j.req, j.seen, j.hashed, y)
      BY <2>2, <2>3
    <2>5. QED
      BY <2>4 DEF e
  <1>3. QED
    BY <1>2

LEMMA PlanKeepsIInv ==
  ASSUME IInv, NEW c \in Procs, NEW q \in Requests, Plan(c, q)
  PROVE  IInv'
  <1> DEFINE j == Job(FirstPlace(q), q, vault, None, None)
  <1>1. Go(c, j) /\ Allowed(q, vault) /\ ran' = ran + 1 /\ vault' = vault /\ edits' = edits
    <2>1. \A x : [NoJob EXCEPT !.at = x, !.req = q, !.seen = vault] = Job(x, q, vault, None, None)
      <3> SUFFICES ASSUME NEW x PROVE [NoJob EXCEPT !.at = x, !.req = q, !.seen = vault] = Job(x, q, vault, None, None)
        OBVIOUS
      <3> DEFINE e == [NoJob EXCEPT !.at = x, !.req = q, !.seen = vault]
      <3>1. DOMAIN e = DOMAIN NoJob /\ e = [z \in DOMAIN NoJob |-> e[z]]
        BY DEF NoJob
      <3>2. e.at = x /\ e.req = q /\ e.seen = vault /\ e.hashed = None /\ e.entered = None
        BY DEF NoJob
      <3> HIDE DEF e
      <3>3. NoJob = Job(NoJob.at, NoJob.req, NoJob.seen, NoJob.hashed, NoJob.entered)
        BY DEF NoJob, Job
      <3>4. e = Job(e.at, e.req, e.seen, e.hashed, e.entered)
        BY <3>1, <3>3, JobStays
      <3>5. e = Job(x, q, vault, None, None)
        BY <3>2, <3>4
      <3>6. QED
        BY <3>5 DEF e
    <2>2. /\ Go(c, [NoJob EXCEPT !.at = FirstPlace(q), !.req = q, !.seen = vault])
          /\ Allowed(q, vault) /\ ran' = ran + 1 /\ vault' = vault /\ edits' = edits
      BY DEF Plan, Go
    <2>3. [NoJob EXCEPT !.at = FirstPlace(q), !.req = q, !.seen = vault] = j
      BY <2>1
    <2> HIDE DEF j
    <2>4. QED
      BY <2>2, <2>3
  <1>2. FirstPlace(q) \in {"preview", "hash", "stage", "enter"}
    BY DEF FirstPlace
  <1>3. /\ FirstPlace(q) = "enter" => q.op \notin {"merge", "delete"}
        /\ FirstPlace(q) = "preview" => q.op = "rename"
        /\ FirstPlace(q) = "stage" => q.op = "adopt"
    BY DEF FirstPlace
  <1>4. j.at = FirstPlace(q) /\ j.req = q /\ j.seen = vault
    BY DEF Job
  <1>5. IsJob(j)
    <2>1. j = [at |-> j.at, req |-> j.req, seen |-> j.seen, hashed |-> j.hashed, entered |-> j.entered]
      BY DEF Job
    <2> HIDE DEF j
    <2>2. QED
      BY <1>2, <1>3, <1>4, <2>1 DEF IsJob, IInv
  <1> HIDE DEF j
  <1>6. IsPlan(j)
    BY <1>1, <1>2, <1>3, <1>4 DEF IsPlan
  <1>7. ran' \in Nat /\ IsVault(vault') /\ j.at # "write"
    BY <1>1, <1>2, <1>4 DEF IInv
  <1>8. QED
    BY <1>1, <1>5, <1>6, <1>7, GoKeepsIInv

LEMMA ConfirmKeepsIInv ==
  ASSUME IInv, NEW c \in Procs, Confirm(c)
  PROVE  IInv'
  <1> DEFINE i == job[c]
             j == Job("enter", i.req, vault, i.hashed, i.entered)
  <1>1. IsJob(i) /\ IsPlan(i) /\ i.at = "preview" /\ Allowed(i.req, vault) /\ IsVault(vault)
    BY DEF IInv, Jobs, Confirm, At
  <1>2. i.req \in Requests /\ i.req.op = "rename"
    BY <1>1 DEF IsJob, IsPlan
  <1>3. Go(c, [i EXCEPT !.at = "enter", !.seen = vault]) /\ vault' = vault /\ ran' = ran /\ edits' = edits
    BY DEF Confirm, Stay
  <1>4. [i EXCEPT !.at = "enter", !.seen = vault] = j
    BY <1>1, JobIs DEF IsJob
  <1>5. /\ j = [at |-> j.at, req |-> j.req, seen |-> j.seen, hashed |-> j.hashed, entered |-> j.entered]
        /\ j.at = "enter" /\ j.req = i.req /\ j.seen = vault
    BY DEF Job
  <1> HIDE DEF i, j
  <1>6. Go(c, j)
    BY <1>3, <1>4
  <1>7. IsJob(j) /\ IsPlan(j)
    BY <1>1, <1>2, <1>5 DEF IsJob, IsPlan
  <1>8. ran' \in Nat /\ IsVault(vault')
    BY <1>3 DEF IInv
  <1>9. QED
    BY <1>3, <1>5, <1>6, <1>7, <1>8, GoKeepsIInv

LEMMA HashKeepsIInv ==
  ASSUME IInv, NEW c \in Procs, Hash(c)
  PROVE  IInv'
  <1> DEFINE i == job[c]
             j == Job("enter", i.req, i.seen, vault, i.entered)
  <1>1. IsJob(i) /\ IsPlan(i) /\ i.at = "hash" /\ IsVault(vault)
    BY DEF IInv, Jobs, Hash, At
  <1>2. vault' = vault /\ ran' = ran /\ edits' = edits /\ ran' \in Nat /\ IsVault(vault')
    BY DEF Hash, Stay, IInv
  <1>3. CASE CanHash(i.req, i.seen, vault)
    <2>1. Go(c, [i EXCEPT !.at = "enter", !.hashed = vault])
      BY <1>3 DEF Hash
    <2>2. [i EXCEPT !.at = "enter", !.hashed = vault] = j
      BY <1>1, JobIs DEF IsJob
    <2>3. /\ j = [at |-> j.at, req |-> j.req, seen |-> j.seen, hashed |-> j.hashed, entered |-> j.entered]
          /\ j.at = "enter" /\ j.req = i.req /\ j.seen = i.seen /\ j.hashed = vault
      BY DEF Job
    <2> HIDE DEF i, j
    <2>4. Go(c, j)
      BY <2>1, <2>2
    <2>5. IsJob(j) /\ IsPlan(j)
      BY <1>1, <1>3, <2>3 DEF IsJob, IsPlan
    <2>6. QED
      BY <1>2, <2>3, <2>4, <2>5, GoKeepsIInv
  <1>4. CASE ~CanHash(i.req, i.seen, vault)
    <2>1. Done(c)
      BY <1>4 DEF Hash
    <2>2. QED
      BY <1>2, <2>1, DoneKeepsIInv
  <1>5. QED
    BY <1>3, <1>4

LEMMA StageKeepsIInv ==
  ASSUME IInv, NEW c \in Procs, Stage(c)
  PROVE  IInv'
  <1> DEFINE i == job[c]
             j == Job("enter", i.req, i.seen, i.hashed, i.entered)
  <1>1. IsJob(i) /\ IsPlan(i) /\ i.at = "stage"
    BY DEF IInv, Jobs, Stage, At
  <1>2. vault' = vault /\ ran' = ran /\ edits' = edits /\ ran' \in Nat /\ IsVault(vault')
    BY DEF Stage, Stay, IInv
  <1>3. CASE vault.outside = i.seen.outside
    <2>1. Go(c, [i EXCEPT !.at = "enter"])
      BY <1>3 DEF Stage
    <2>2. [i EXCEPT !.at = "enter"] = j
      <3>1. i = [at |-> i.at, req |-> i.req, seen |-> i.seen, hashed |-> i.hashed, entered |-> i.entered]
        BY <1>1 DEF IsJob
      <3> HIDE DEF i
      <3>2. \A x, y : [i EXCEPT !.at = x] = Job(x, i.req, i.seen, i.hashed, i.entered)
        BY <3>1, JobIs
      <3>3. QED
        BY <3>2
    <2>3. /\ j = [at |-> j.at, req |-> j.req, seen |-> j.seen, hashed |-> j.hashed, entered |-> j.entered]
          /\ j.at = "enter" /\ j.req = i.req /\ j.seen = i.seen
      BY DEF Job
    <2> HIDE DEF i, j
    <2>4. Go(c, j)
      BY <2>1, <2>2
    <2>5. IsJob(j) /\ IsPlan(j)
      BY <1>1, <2>3 DEF IsJob, IsPlan
    <2>6. QED
      BY <1>2, <2>3, <2>4, <2>5, GoKeepsIInv
  <1>4. CASE vault.outside # i.seen.outside
    <2>1. Done(c)
      BY <1>4 DEF Stage
    <2>2. QED
      BY <1>2, <2>1, DoneKeepsIInv
  <1>5. QED
    BY <1>3, <1>4

LEMMA EnterKeepsIInv ==
  ASSUME IInv, NEW c \in Procs, Enter(c)
  PROVE  IInv'
  <1> DEFINE i == job[c]
             j == Job("write", i.req, i.seen, i.hashed, vault)
  <1>1. /\ IsJob(i) /\ IsPlan(i) /\ i.at = "enter" /\ IsVault(vault) /\ Free(c)
        /\ Stands(i.req, i.seen, i.hashed, vault)
    BY DEF IInv, Jobs, Enter, At
  <1>2. vault' = vault /\ ran' = ran /\ edits' = edits /\ ran' \in Nat /\ IsVault(vault')
    BY DEF Enter, Stay, IInv
  <1>3. Go(c, [i EXCEPT !.at = "write", !.entered = vault])
    BY DEF Enter
  <1>4. [i EXCEPT !.at = "write", !.entered = vault] = j
    <2>1. i = [at |-> i.at, req |-> i.req, seen |-> i.seen, hashed |-> i.hashed, entered |-> i.entered]
      BY <1>1 DEF IsJob
    <2> HIDE DEF i, j
    <2>2. [i EXCEPT !.at = "write", !.entered = vault] = Job("write", i.req, i.seen, i.hashed, vault)
      BY ONLY <2>1, JobEnters
    <2>3. QED
      BY <2>2 DEF j
  <1>5. /\ j = [at |-> j.at, req |-> j.req, seen |-> j.seen, hashed |-> j.hashed, entered |-> j.entered]
        /\ j.at = "write" /\ j.req = i.req /\ j.seen = i.seen /\ j.hashed = i.hashed /\ j.entered = vault
    BY DEF Job
  <1> HIDE DEF j
  <1>6. j.req = job[c].req
    BY <1>5
  <1> HIDE DEF i
  <1>7. Go(c, j)
    BY <1>3, <1>4
  <1>8. IsJob(j) /\ IsPlan(j)
    BY <1>1, <1>5 DEF IsJob, IsPlan
  <1>9. QED
    BY <1>1, <1>2, <1>6, <1>7, <1>8, GoKeepsIInv

LEMMA WriteKeepsIInv ==
  ASSUME IInv, NEW c \in Procs, Write(c)
  PROVE  IInv'
  <1> DEFINE j == job[c]
             q == j.req
             S == j.seen
             W == Applied(q, S, vault)
  <1>1. IsJob(j) /\ IsPlan(j) /\ j.at = "write" /\ IsVault(vault)
    BY DEF IInv, Jobs, Write, At
  <1>2. IsRequest(q) /\ IsVault(S) /\ Allowed(q, S)
    BY <1>1, RequestsAssumption DEF IsJob, IsPlan
  <1>3. ~CannotApply(q, S, vault) => IsVault(W)
    <2>1. ~CannotApply(q, S, vault) => Possible(W)
      BY DEF CannotApply
    <2> HIDE DEF W, q, S, j
    <2>2. HasTypes(S) /\ HasTypes(vault)
      BY <1>1, <1>2 DEF IsVault
    <2>3. QED
      BY <1>2, <2>1, <2>2, AppliedIsVault DEF W
  <1>4. vault' = IF CannotApply(q, S, vault) THEN vault ELSE W
    BY DEF Write
  <1>5. Done(c) /\ ran' = ran /\ edits' = edits
    BY DEF Write
  <1>6. IsVault(vault')
    BY <1>1, <1>3, <1>4
  <1>7. QED
    BY <1>5, <1>6, DoneKeepsIInv

LEMMA EditKeepsIInv ==
  ASSUME IInv, NEW W, Edit(W), IsVault(W)
  PROVE  IInv'
  BY DEF IInv, Edit, Jobs, OneWriter, At

LEMMA OthersKeepIInv ==
  ASSUME IInv, Others
  PROVE  IInv'
  <1>1. IsVault(vault)
    BY DEF IInv
  <1>2. CASE Save
    <2>1. PICK p \in DOMAIN vault.doc : Edit([vault EXCEPT !.doc[p].rev = edits + 1])
      BY <1>2 DEF Save
    <2>2. IsVault([vault EXCEPT !.doc[p].rev = edits + 1])
      BY <1>1, DocSaved
    <2>3. QED
      BY <2>1, <2>2, EditKeepsIInv
  <1>3. CASE Author
    <2>1. PICK d \in DOMAIN vault.marker : Edit([vault EXCEPT !.marker[d].text = "authored"])
      BY <1>3 DEF Author
    <2>2. IsVault([vault EXCEPT !.marker[d].text = "authored"])
      BY <1>1, MarkerAuthored
    <2>3. QED
      BY <2>1, <2>2, EditKeepsIInv
  <1>4. CASE Draft
    <2>1. PICK p \in DOMAIN Drafts : /\ Front(p) \in vault.dirs /\ ~Exists(vault, p)
                                    /\ Edit([vault EXCEPT !.doc = With(@, p, Drafts[p])])
      BY <1>4 DEF Draft
    <2>2. IsVault([vault EXCEPT !.doc = With(@, p, Drafts[p])])
      BY <1>1, <2>1, DocDrafted, DraftsAssumption
    <2>3. QED
      BY <2>1, <2>2, EditKeepsIInv
  <1>5. CASE SaveOutside
    <2>1. PICK n \in DOMAIN vault.outside : Edit([vault EXCEPT !.outside[n].rev = edits + 1])
      BY <1>5 DEF SaveOutside
    <2>2. IsVault([vault EXCEPT !.outside[n].rev = edits + 1])
      BY <1>1, OutsideSaved
    <2>3. QED
      BY <2>1, <2>2, EditKeepsIInv
  <1>6. CASE Bind
    <2>1. PICK b \in Bindings : Edit([vault EXCEPT !.roots = With(@, b[1], b[2])])
      BY <1>6 DEF Bind
    <2>2. IsVault([vault EXCEPT !.roots = With(@, b[1], b[2])])
      BY <1>1, RootBound
    <2>3. QED
      BY <2>1, <2>2, EditKeepsIInv
  <1>7. QED
    BY <1>2, <1>3, <1>4, <1>5, <1>6 DEF Others

LEMMA StepIInv == IInv /\ [Next]_vars => IInv'
  <1> SUFFICES ASSUME IInv, [Next]_vars PROVE IInv'
    OBVIOUS
  <1>1. CASE UNCHANGED vars
    BY <1>1 DEF vars, IInv, Jobs, OneWriter, At
  <1>2. ASSUME NEW c \in Procs, NEW q \in Requests, Plan(c, q) PROVE IInv'
    BY <1>2, PlanKeepsIInv
  <1>3. ASSUME NEW c \in Procs, Refuse(c) PROVE IInv'
    <2>1. Done(c) /\ IsVault(vault') /\ ran' = ran /\ edits' = edits
      BY <1>3 DEF Refuse, Stay, IInv
    <2>2. QED
      BY <2>1, DoneKeepsIInv
  <1>4. ASSUME NEW c \in Procs, Confirm(c) \/ Hash(c) \/ Stage(c) \/ Enter(c) \/ Write(c) PROVE IInv'
    BY <1>4, ConfirmKeepsIInv, HashKeepsIInv, StageKeepsIInv, EnterKeepsIInv, WriteKeepsIInv
  <1>5. CASE Others
    BY <1>5, OthersKeepIInv
  <1>6. QED
    BY <1>1, <1>2, <1>3, <1>4, <1>5 DEF Next

LEMMA InvariantIInv == Spec => []IInv
  BY InitIInv, StepIInv, PTL DEF Spec

LEMMA IInvTypeOK == IInv => TypeOK
  BY DEF IInv, Jobs, OneWriter, TypeOK

(* The Vault is a tree of directories with its declarations and documents  *)
(* whatever commands write over each other's and the editors' changes; and *)
(* two commands under the same lock do not write at the same time.         *)
THEOREM TypeCorrect == Spec => []TypeOK
  BY InvariantIInv, IInvTypeOK, PTL

----------------------------------------------------------------------------
(* Content that is kept: the bodies of the documents, and the texts that   *)
(* somebody has written, each in a declaration of its own.                 *)
Texts(V) == {d \in DOMAIN V.marker : V.marker[d].text = "authored"}
KeepsBodies(W, V) == \A p \in DOMAIN V.doc : \E o \in DOMAIN W.doc :
  W.doc[o].of = V.doc[p].of /\ W.doc[o].rev = V.doc[p].rev
KeepsTexts(W, V) == \E m \in [Texts(V) -> Texts(W)] : \A d, e \in Texts(V) : m[d] = m[e] => d = e

LEMMA BodiesKept ==
  ASSUME NEW W, NEW V, KeepsBodies(W, V)
  PROVE  Bodies(V) \subseteq Bodies(W)
  <1> SUFFICES ASSUME NEW b \in Bodies(V) PROVE b \in Bodies(W)
    OBVIOUS
  <1>1. PICK d \in Values(V.doc) : b = <<d.of, d.rev>>
    BY DEF Bodies
  <1>2. PICK p \in DOMAIN V.doc : d = V.doc[p]
    BY DEF Values
  <1>3. PICK o \in DOMAIN W.doc : W.doc[o].of = V.doc[p].of /\ W.doc[o].rev = V.doc[p].rev
    BY DEF KeepsBodies
  <1>4. W.doc[o] \in Values(W.doc)
    BY DEF Values
  <1>5. b = <<W.doc[o].of, W.doc[o].rev>>
    BY <1>1, <1>2, <1>3
  <1>6. QED
    BY <1>4, <1>5 DEF Bodies

LEMMA TextsKept ==
  ASSUME NEW W, NEW V, IsFiniteSet(DOMAIN W.marker), KeepsTexts(W, V)
  PROVE  Authored(V) <= Authored(W)
  <1>1. PICK m \in [Texts(V) -> Texts(W)] : \A d, e \in Texts(V) : m[d] = m[e] => d = e
    BY DEF KeepsTexts
  <1>2. m \in Injection(Texts(V), Texts(W))
    BY <1>1 DEF Injection, IsInjective
  <1>3. Texts(W) \in SUBSET DOMAIN W.marker
    BY DEF Texts
  <1>4. IsFiniteSet(Texts(W))
    BY <1>3, FS_Subset
  <1>5. Cardinality(Texts(V)) <= Cardinality(Texts(W))
    BY <1>2, <1>4, FS_Injection
  <1>6. QED
    BY <1>5 DEF Authored, Texts

LEMMA SameDocsKept ==
  ASSUME NEW W, NEW V, SameBodies(W.doc, V.doc) \/ W.doc = V.doc
  PROVE  KeepsBodies(W, V)
  BY DEF KeepsBodies, SameBodies, SameBody

LEMMA ShiftedDocsKept ==
  ASSUME NEW W, NEW V, NEW f, SameBodies(f, V.doc) \/ f = V.doc, NEW from, NEW to, IsShift(W.doc, f, from, to),
         Apart(DOMAIN f, from, to)
  PROVE  KeepsBodies(W, V)
  <1>1. \A p \in DOMAIN f : Moved(p, from, to) \in DOMAIN W.doc /\ W.doc[Moved(p, from, to)] = f[p]
    BY ShiftAt DEF IsShift
  <1>2. \A p \in DOMAIN V.doc : p \in DOMAIN f /\ f[p].of = V.doc[p].of /\ f[p].rev = V.doc[p].rev
    BY DEF SameBodies, SameBody
  <1>3. QED
    BY <1>1, <1>2 DEF KeepsBodies

(* Where every text stays in its declaration                               *)
LEMMA SameTextsKept ==
  ASSUME NEW W, NEW V, \A d \in Texts(V) : d \in Texts(W)
  PROVE  KeepsTexts(W, V)
  <1> DEFINE m == [d \in Texts(V) |-> d]
  <1>1. m \in [Texts(V) -> Texts(W)] /\ \A d, e \in Texts(V) : m[d] = m[e] => d = e
    OBVIOUS
  <1>2. QED
    BY <1>1 DEF KeepsTexts

(* ... and where it moves with its declaration                             *)
LEMMA MovedTextsKept ==
  ASSUME NEW W, NEW V, NEW from, NEW to, Apart(DOMAIN V.marker, from, to),
         \A d \in Texts(V) : Moved(d, from, to) \in Texts(W)
  PROVE  KeepsTexts(W, V)
  <1> DEFINE m == [d \in Texts(V) |-> Moved(d, from, to)]
  <1>1. m \in [Texts(V) -> Texts(W)]
    OBVIOUS
  <1>2. ASSUME NEW d \in Texts(V), NEW e \in Texts(V), m[d] = m[e] PROVE d = e
    <2>1. d \in DOMAIN V.marker /\ e \in DOMAIN V.marker
      BY DEF Texts
    <2>2. Moved(d, from, to) = Moved(e, from, to)
      BY <1>2
    <2>3. QED
      BY <2>1, <2>2 DEF Apart
  <1> HIDE DEF m
  <1>3. QED
    BY <1>1, <1>2 DEF KeepsTexts

LEMMA ShiftedTextsKept ==
  ASSUME NEW W, NEW V, NEW f, NEW g, NEW from, NEW to, Apart(DOMAIN V.marker, from, to),
         IsShift(g, f, from, to), DOMAIN f = DOMAIN V.marker,
         \A d \in DOMAIN f : f[d].text = V.marker[d].text,
         \A d \in DOMAIN g : d \in DOMAIN W.marker /\ W.marker[d] = g[d]
  PROVE  KeepsTexts(W, V)
  <1>1. \A d \in DOMAIN f : Moved(d, from, to) \in DOMAIN g /\ g[Moved(d, from, to)] = f[d]
    BY ShiftAt DEF IsShift
  <1>2. \A d \in Texts(V) : Moved(d, from, to) \in Texts(W)
    BY <1>1 DEF Texts
  <1>3. QED
    BY <1>2, MovedTextsKept

(* Nothing that moves meets anything else: the target is new or the source.*)
LEMMA ApartInVault ==
  ASSUME NEW V, IsVault(V), NEW from, NEW to, IsPath(from), IsPath(to), to = from \/ ~Exists(V, to)
  PROVE  Apart(DOMAIN V.doc, from, to) /\ Apart(DOMAIN V.marker, from, to)
  <1>1. from \in Seq(Names) /\ to \in Seq(Names)
    BY DEF IsPath, Names
  <1>2. \A p \in DOMAIN V.doc \union DOMAIN V.marker : p \in Seq(Names)
    BY DEF IsVault, HasTypes, AreDocs, AreMarkers, IsPath, Names
  <1>3. \A p \in DOMAIN V.doc \union DOMAIN V.marker : Under(p, to) => Under(p, from)
    BY NothingBelow
  <1>4. QED
    BY <1>1, <1>2, <1>3, ApartWhenFree

(* What has been compared before a command writes, and that it may write   *)
Ready(q, S, H, V) ==
  /\ IsVault(S) /\ IsVault(V) /\ IsRequest(q) /\ Allowed(q, S) /\ Stands(q, S, H, V) /\ ~CannotApply(q, S, V)
  /\ q.op \in {"merge", "delete"} =>
       /\ \A p \in HashedDocs(q, S) : H.doc[p] = S.doc[p]
       /\ \A d \in HashedMarkers(q, S) : H.marker[d] = S.marker[d]
  /\ q.op = "adopt" /\ q.from # None => q.from \notin DOMAIN V.marker

LEMMA ReadyIs ==
  ASSUME NEW q, NEW S, NEW H, NEW V, Ready(q, S, H, V)
  PROVE  /\ HasTypes(S) /\ HasTypes(V) /\ IsTree(S) /\ IsTree(V) /\ IsRequest(q) /\ Allowed(q, S)
         /\ IsApplied(Applied(q, S, V), q, S, V)
         /\ ~CannotMove(q, S, V) /\ ~CannotEmpty(q, S, V) /\ ~CannotMake(q, V) /\ IsVault(Applied(q, S, V))
  <1>1. HasTypes(S) /\ HasTypes(V) /\ IsTree(S) /\ IsTree(V) /\ IsRequest(q) /\ Allowed(q, S)
    BY DEF Ready, IsVault
  <1>2. ~CannotMove(q, S, V) /\ ~CannotEmpty(q, S, V) /\ ~CannotMake(q, V) /\ Possible(Applied(q, S, V))
    BY DEF Ready, CannotApply
  <1>3. QED
    BY <1>1, <1>2, AppliedIs, AppliedIsVault

LEMMA StandsIs ==
  ASSUME NEW q, NEW S, NEW H, NEW V, IsRequest(q), Stands(q, S, H, V)
  PROVE  /\ q.op \in {"space-create", "space-adopt", "create"} => DefineStands(q, V)
         /\ q.op \in {"format", "space-format"} => FormatStands(q, S, V)
         /\ q.op = "merge" => MergeStands(q, S, H, V)
         /\ q.op = "delete" => SameFiles(q, S, H, V)
         /\ q.op = "adopt" => AdoptStands(q, S, V)
         /\ q.op \in {"rename", "move", "rekey"} => SamePlan(q, S, V)
  BY DEF Stands, IsRequest

LEMMA DirsWhenFree ==
  ASSUME NEW V, IsTree(V), NEW p, ~Exists(V, p)
  PROVE  p \notin DOMAIN V.marker /\ p \notin DOMAIN V.doc
  BY DEF IsTree, Exists

(* The fields that a plan leaves                                           *)
LEMMA DocsLeft ==
  ASSUME NEW q, NEW S, NEW H, NEW V, Ready(q, S, H, V), Base(q, S, S) = S, Base(q, S, V) = V, Effect(q, S).doc = S.doc
  PROVE  Applied(q, S, V).doc = V.doc
  <1>1. IsApplied(Applied(q, S, V), q, S, V) /\ AreDocs(V.doc)
    BY ReadyIs DEF HasTypes
  <1>2. Applied(q, S, V).doc = Patched(S.doc, S.doc, V.doc)
    BY <1>1 DEF IsApplied
  <1>3. QED
    BY <1>1, <1>2, PatchedNothing DEF AreDocs

LEMMA MarkersLeft ==
  ASSUME NEW q, NEW S, NEW H, NEW V, Ready(q, S, H, V), Base(q, S, S) = S, Base(q, S, V) = V, Effect(q, S).marker = S.marker
  PROVE  Applied(q, S, V).marker = V.marker
  <1>1. IsApplied(Applied(q, S, V), q, S, V) /\ AreMarkers(V.marker)
    BY ReadyIs DEF HasTypes
  <1>2. Applied(q, S, V).marker = Patched(S.marker, S.marker, V.marker)
    BY <1>1 DEF IsApplied
  <1>3. QED
    BY <1>1, <1>2, PatchedNothing DEF AreMarkers

LEMMA MarkerNew ==
  ASSUME NEW q, NEW S, NEW H, NEW V, Ready(q, S, H, V), NEW m, IsMap(Base(q, S, S).marker), IsMap(Base(q, S, V).marker),
         Effect(q, S).marker = With(Base(q, S, S).marker, q.path, m),
         q.path \notin DOMAIN Base(q, S, S).marker, q.path \notin DOMAIN Base(q, S, V).marker
  PROVE  Applied(q, S, V).marker = With(Base(q, S, V).marker, q.path, m)
         /\ IsWith(Applied(q, S, V).marker, Base(q, S, V).marker, q.path, m)
  <1>1. IsApplied(Applied(q, S, V), q, S, V)
    BY ReadyIs
  <1>2. Applied(q, S, V).marker = Patched(Base(q, S, S).marker, With(Base(q, S, S).marker, q.path, m), Base(q, S, V).marker)
    BY <1>1 DEF IsApplied
  <1>3. Applied(q, S, V).marker = With(Base(q, S, V).marker, q.path, m)
    BY <1>2, PatchedOne
  <1>4. QED
    BY <1>3, WithIs

LEMMA SpacesKeep ==
  ASSUME NEW q, NEW S, NEW H, NEW V, Ready(q, S, H, V), q.op \in {"space-create", "space-adopt"} \/ q.op = "space-format"
  PROVE  KeepsBodies(Applied(q, S, V), V) /\ KeepsTexts(Applied(q, S, V), V)
  <1>1. HasTypes(S) /\ IsRequest(q)
    BY ReadyIs
  <1>2. Base(q, S, S) = S /\ Base(q, S, V) = V
    BY <1>1, BaseIs
  <1>3. Shaped(S)
    BY <1>1, IsShaped
  <1>4. Effect(q, S).doc = S.doc /\ Effect(q, S).marker = S.marker
    <2>1. CASE q.op \in {"space-create", "space-adopt"}
      <3>1. IsPath(q.path)
        BY <1>1, <2>1 DEF IsRequest
      <3>2. IsMade(Make(S, q.path), S, q.path) /\ Effect(q, S) = DefineSpace(q, S)
        BY <1>1, <2>1, <3>1, TypesMade, EffectIs
      <3>3. DefineSpace(q, S).doc = Make(S, q.path).doc /\ DefineSpace(q, S).marker = Make(S, q.path).marker
        BY <3>2 DEF DefineSpace, IsMade, Shaped
      <3>4. QED
        BY <3>2, <3>3 DEF IsMade
    <2>2. CASE q.op = "space-format"
      <3>1. Effect(q, S) = Format(q, S)
        BY <1>1, <2>2, EffectIs
      <3> DEFINE s == CHOOSE z \in SpacesOf(S, q.id) : TRUE
      <3>2. Format(q, S) = [S EXCEPT !.space[s].loose = FALSE]
        BY <2>2 DEF Format
      <3> HIDE DEF s
      <3>3. Format(q, S).doc = S.doc /\ Format(q, S).marker = S.marker
        BY <1>3, <3>2 DEF Shaped
      <3>4. QED
        BY <3>1, <3>3
    <2>3. QED
      BY <2>1, <2>2
  <1>5. Applied(q, S, V).doc = V.doc /\ Applied(q, S, V).marker = V.marker
    BY <1>2, <1>4, DocsLeft, MarkersLeft
  <1>6. QED
    BY <1>5, SameDocsKept, SameTextsKept DEF Texts

LEMMA CreateKeeps ==
  ASSUME NEW q, NEW S, NEW H, NEW V, Ready(q, S, H, V), q.op = "create"
  PROVE  KeepsBodies(Applied(q, S, V), V) /\ KeepsTexts(Applied(q, S, V), V)
  <1>1. HasTypes(S) /\ HasTypes(V) /\ IsTree(S) /\ IsTree(V) /\ IsRequest(q) /\ IsPath(q.path) /\ Allowed(q, S)
    BY ReadyIs DEF IsRequest
  <1>2. Base(q, S, S) = S /\ Base(q, S, V) = V /\ Effect(q, S) = Declare(S, q)
    BY <1>1, BaseIs, EffectIs
  <1>3. q.path \notin DOMAIN S.marker /\ q.path \notin DOMAIN V.marker
    <2>1. MayDefine(q, S) /\ DefineStands(q, V)
      BY <1>1, AllowedIs, StandsIs DEF Ready
    <2>2. ~Exists(S, q.path) /\ ~Exists(V, q.path)
      BY <2>1 DEF MayDefine, Fits, DefineStands
    <2>3. QED
      BY <1>1, <2>2, DirsWhenFree
  <1> DEFINE m == NewMarker(q.id, Nearest(S, q.path))
  <1>4. Declare(S, q).doc = S.doc /\ Declare(S, q).marker = With(S.marker, q.path, m)
    <2>1. IsMade(Make(S, q.path), S, q.path)
      BY <1>1, TypesMade
    <2>2. Declare(S, q) = [Make(S, q.path) EXCEPT !.marker = With(@, q.path, m)]
      BY DEF Declare
    <2> HIDE DEF m
    <2>3. /\ Declare(S, q).doc = Make(S, q.path).doc
          /\ Declare(S, q).marker = With(Make(S, q.path).marker, q.path, m)
      BY <2>1, <2>2 DEF IsMade, Shaped
    <2>4. QED
      BY <2>1, <2>3 DEF IsMade
  <1> HIDE DEF m
  <1>5. Applied(q, S, V).doc = V.doc
    BY <1>2, <1>4, DocsLeft
  <1>6. IsMap(S.marker) /\ IsMap(V.marker)
    BY <1>1 DEF HasTypes, AreMarkers
  <1>7. IsWith(Applied(q, S, V).marker, V.marker, q.path, m)
    <2>1. IsMap(Base(q, S, S).marker) /\ IsMap(Base(q, S, V).marker)
      BY <1>2, <1>6
    <2>2. Effect(q, S).marker = With(Base(q, S, S).marker, q.path, m)
      BY <1>2, <1>4
    <2>3. q.path \notin DOMAIN Base(q, S, S).marker /\ q.path \notin DOMAIN Base(q, S, V).marker
      BY <1>2, <1>3
    <2>4. IsWith(Applied(q, S, V).marker, Base(q, S, V).marker, q.path, m)
      BY <2>1, <2>2, <2>3, MarkerNew
    <2>5. QED
      BY <1>2, <2>4
  <1>8. \A d \in Texts(V) : d \in Texts(Applied(q, S, V))
    BY <1>3, <1>7 DEF IsWith, Texts
  <1>9. QED
    BY <1>5, <1>8, SameDocsKept, SameTextsKept

LEMMA FormatKeeps ==
  ASSUME NEW q, NEW S, NEW H, NEW V, Ready(q, S, H, V), q.op = "format"
  PROVE  KeepsBodies(Applied(q, S, V), V) /\ KeepsTexts(Applied(q, S, V), V)
  <1> DEFINE d == DirOf(S, q.id)
             W == Applied(q, S, V)
             n == Effect(q, S).marker
  <1>1. HasTypes(S) /\ HasTypes(V) /\ IsRequest(q) /\ Allowed(q, S) /\ IsApplied(W, q, S, V)
    BY ReadyIs
  <1>2. Base(q, S, S) = S /\ Base(q, S, V) = V /\ Effect(q, S) = Format(q, S)
    BY <1>1, BaseIs, EffectIs
  <1>3. d \in DOMAIN V.marker /\ V.marker[d] = S.marker[d]
    BY <1>1, StandsIs DEF Ready, FormatStands
  <1>4. Format(q, S) = [S EXCEPT !.marker[d].loose = FALSE]
    BY DEF Format
  <1>5. Marked(Format(q, S), S)
    BY <1>1, FormattedIs DEF Format
  <1>6. \A e \in DOMAIN S.marker : e # d => Format(q, S).marker[e] = S.marker[e]
    <2> HIDE DEF d
    <2>1. Shaped(S) /\ IsMap(S.marker)
      BY <1>1, IsShaped DEF HasTypes, AreMarkers
    <2>2. QED
      BY <1>4, <2>1 DEF Shaped, IsMap
  <1>7. Applied(q, S, V).doc = V.doc
    BY <1>2, <1>5, DocsLeft DEF Marked
  <1>8. IsPatched(W.marker, S.marker, n, V.marker)
    BY <1>1, <1>2 DEF IsApplied
  <1>9. /\ DOMAIN n = DOMAIN S.marker
        /\ \A e \in DOMAIN S.marker : n[e].text = S.marker[e].text /\ (e # d => n[e] = S.marker[e])
    BY <1>2, <1>5, <1>6 DEF Marked
  <1> HIDE DEF d, W, n
  <1>10. ASSUME NEW e \in Texts(V) PROVE e \in Texts(W)
    <2>1. e \in DOMAIN V.marker /\ V.marker[e].text = "authored"
      BY DEF Texts
    <2>2. e \in DOMAIN W.marker
      BY <1>8, <1>9, <2>1 DEF IsPatched
    <2>3. CASE Writing(S.marker, n, e)
      <3>1. e = d /\ W.marker[e] = n[e] /\ n[e].text = S.marker[e].text
        BY <1>8, <1>9, <2>2, <2>3 DEF IsPatched, Writing
      <3>2. QED
        BY <1>3, <2>1, <2>2, <3>1 DEF Texts
    <2>4. CASE ~Writing(S.marker, n, e)
      BY <1>8, <2>1, <2>2, <2>4 DEF IsPatched, Texts
    <2>5. QED
      BY <2>3, <2>4
  <1>11. QED
    BY <1>7, <1>10, SameDocsKept, SameTextsKept DEF W

(* rename, move and rekey compare all documents and declarations: what     *)
(* they write is their effect.                                             *)
LEMMA CarriedAlike ==
  ASSUME NEW S, HasTypes(S), NEW V, HasTypes(V), V.doc = S.doc, V.marker = S.marker, V.roots = S.roots,
         NEW q, NEW from, NEW to
  PROVE  LET old == Carried(q, S, from, to)
             now == Carried(q, V, from, to)
         IN  now.doc = old.doc /\ now.marker = old.marker /\ now.roots = old.roots
  <1>1. CASE from = to
    BY <1>1 DEF Carried
  <1>2. CASE from # to
    <2>1. IsShiftAll(ShiftAll(S, from, to), S, from, to) /\ IsShiftAll(ShiftAll(V, from, to), V, from, to)
      BY ShiftAllIs
    <2>2. /\ ShiftAll(V, from, to).doc = ShiftAll(S, from, to).doc
          /\ ShiftAll(V, from, to).marker = ShiftAll(S, from, to).marker
          /\ ShiftAll(V, from, to).roots = ShiftAll(S, from, to).roots
      BY <2>1 DEF IsShiftAll
    <2>3. QED
      BY <1>2, <2>2 DEF Carried
  <1>3. QED
    BY <1>1, <1>2

LEMMA SamePlanApplies ==
  ASSUME NEW q, NEW S, NEW H, NEW V, Ready(q, S, H, V), q.op \in {"rename", "move", "rekey"}
  PROVE  /\ V.doc = S.doc /\ V.marker = S.marker /\ V.roots = S.roots
         /\ Applied(q, S, V).doc = Effect(q, S).doc /\ Applied(q, S, V).marker = Effect(q, S).marker
         /\ Applied(q, S, V).roots = Effect(q, S).roots
  <1> DEFINE old == Base(q, S, S)
             now == Base(q, S, V)
             new == Effect(q, S)
             W == Applied(q, S, V)
  <1>1. HasTypes(S) /\ HasTypes(V) /\ IsRequest(q) /\ Allowed(q, S) /\ IsApplied(W, q, S, V)
    BY ReadyIs
  <1>2. V.doc = S.doc /\ V.marker = S.marker /\ V.roots = S.roots
    BY <1>1, StandsIs DEF Ready, SamePlan
  <1>3. now.doc = old.doc /\ now.marker = old.marker /\ now.roots = old.roots
    <2>1. CASE q.op = "rename" /\ q.folder # None
      <3>1. old = Carried(q, S, DirOf(S, q.id), Folder(q, S)) /\ now = Carried(q, V, DirOf(S, q.id), Folder(q, S))
        BY <1>1, <2>1, BaseIs
      <3> HIDE DEF old, now
      <3>2. QED
        BY <1>1, <1>2, <3>1, CarriedAlike
    <2>2. CASE q.op = "move"
      <3>1. old = Carried(q, S, DirOf(S, q.id), NewPlace(q, S)) /\ now = Carried(q, V, DirOf(S, q.id), NewPlace(q, S))
        BY <1>1, <2>2, BaseIs
      <3> HIDE DEF old, now
      <3>2. QED
        BY <1>1, <1>2, <3>1, CarriedAlike
    <2>3. CASE (q.op = "rename" /\ q.folder = None) \/ q.op = "rekey"
      <3>1. old = S /\ now = V
        BY <1>1, <2>3, BaseIs
      <3>2. QED
        BY <1>2, <3>1
    <2>4. QED
      BY <2>1, <2>2, <2>3
  <1>4. HasTypes(new)
    BY <1>1, EffectHasTypes
  <1>5. IsMap(new.doc) /\ IsMap(new.marker) /\ IsMap(new.roots)
    BY <1>4 DEF HasTypes, AreDocs, AreMarkers
  <1>6. /\ W.doc = Patched(old.doc, new.doc, now.doc) /\ W.marker = Patched(old.marker, new.marker, now.marker)
        /\ W.roots = Patched(old.roots, new.roots, now.roots)
    BY <1>1 DEF IsApplied
  <1> HIDE DEF old, now, new, W
  <1>7. W.doc = new.doc /\ W.marker = new.marker /\ W.roots = new.roots
    BY <1>3, <1>5, <1>6, PatchedAll
  <1>8. QED
    BY <1>2, <1>7 DEF W, new

(* The place that a command wants is new, or where it is already.          *)
LEMMA TargetIsFree ==
  ASSUME NEW V, IsVault(V), NEW q, IsRequest(q)
  PROVE  /\ q.op = "rename" /\ MayRename(q, V) /\ q.folder # None =>
              Folder(q, V) = DirOf(V, q.id) \/ ~Exists(V, Folder(q, V))
         /\ MayMove(q, V) => NewPlace(q, V) = DirOf(V, q.id) \/ ~Exists(V, NewPlace(q, V))
  BY DEF MayRename, MayMove, Fits

(* What moves as a whole keeps everything.                                 *)
LEMMA RelocateKeeps ==
  ASSUME NEW V, IsVault(V), NEW U, Marked(U, V), NEW from, NEW to, IsPath(from), IsPath(to), Len(to) > 1,
         to = from \/ ~Exists(V, to), NEW W,
         W.doc = Relocate(U, from, to).doc, W.marker = Relocate(U, from, to).marker
  PROVE  KeepsBodies(W, V) /\ KeepsTexts(W, V)
  <1>1. HasTypes(V) /\ HasTypes(U)
    BY MarkedHasTypes DEF IsVault
  <1>2. Apart(DOMAIN V.doc, from, to) /\ Apart(DOMAIN V.marker, from, to)
    BY ApartInVault
  <1>3. U.doc = V.doc /\ DOMAIN U.marker = DOMAIN V.marker /\ \A d \in DOMAIN V.marker : U.marker[d].text = V.marker[d].text
    BY DEF Marked
  <1>4. IsFollow(Follow(U, from, to), U, from, to)
    BY <1>1, FollowIs DEF HasTypes
  <1>5. IsRelocate(Relocate(U, from, to), U, from, to)
    BY <1>1, RelocateIs
  <1> DEFINE f == Follow(U, from, to)
  <1>6. SameBodies(f, V.doc) /\ IsMap(f)
    BY <1>3, <1>4 DEF IsFollow, SameBodies, AreDocs
  <1>7. W.doc = Shift(f, from, to) /\ W.marker = Shift(U.marker, from, to)
    BY <1>5 DEF IsRelocate
  <1> HIDE DEF f
  <1>8. IsShift(W.doc, f, from, to)
    <2>1. IsShift(Shift(f, from, to), f, from, to)
      BY <1>6, ShiftIs
    <2>2. QED
      BY <1>7, <2>1
  <1>9. IsShift(W.marker, U.marker, from, to)
    <2>1. IsMap(U.marker)
      BY <1>1 DEF HasTypes, AreMarkers
    <2>2. IsShift(Shift(U.marker, from, to), U.marker, from, to)
      BY <2>1, ShiftIs
    <2>3. QED
      BY <1>7, <2>2
  <1>10. Apart(DOMAIN f, from, to)
    BY <1>2, <1>6 DEF SameBodies
  <1>11. KeepsBodies(W, V)
    BY <1>6, <1>8, <1>10, ShiftedDocsKept
  <1>12. KeepsTexts(W, V)
    BY <1>2, <1>3, <1>9, ShiftedTextsKept
  <1>13. QED
    BY <1>11, <1>12

LEMMA RenameKeeps ==
  ASSUME NEW q, NEW S, NEW H, NEW V, Ready(q, S, H, V), q.op \in {"rename", "move", "rekey"}
  PROVE  KeepsBodies(Applied(q, S, V), V) /\ KeepsTexts(Applied(q, S, V), V)
  <1> DEFINE W == Applied(q, S, V)
             new == Effect(q, S)
  <1>1. HasTypes(S) /\ IsRequest(q) /\ Allowed(q, S) /\ IsVault(S)
    BY ReadyIs DEF Ready
  <1>2. V.doc = S.doc /\ V.marker = S.marker /\ W.doc = new.doc /\ W.marker = new.marker
    BY SamePlanApplies
  <1>3. KeepsBodies(new, S) /\ KeepsTexts(new, S)
    <2>1. CASE q.op = "rename"
      <3>1. MayRename(q, S) /\ new = Rename(q, S)
        BY <1>1, <2>1, AllowedIs, EffectIs
      <3>2. Marked(Named(q, S), S)
        BY <1>1, <2>1, <3>1, RenameIs
      <3>3. CASE q.folder = None
        <4>1. new = Named(q, S)
          BY <1>1, <2>1, <3>1, <3>3, RenameIs
        <4> HIDE DEF new
        <4>2. QED
          BY <3>2, <4>1, SameDocsKept, SameTextsKept DEF Marked, Texts
      <3>4. CASE q.folder # None
        <4>1. /\ new = Relocate(Named(q, S), DirOf(S, q.id), Folder(q, S))
              /\ IsPath(DirOf(S, q.id)) /\ IsPath(Folder(q, S)) /\ Len(Folder(q, S)) > 1
          BY <1>1, <2>1, <3>1, <3>4, RenameIs
        <4>2. Folder(q, S) = DirOf(S, q.id) \/ ~Exists(S, Folder(q, S))
          BY <1>1, <2>1, <3>1, <3>4, TargetIsFree
        <4> HIDE DEF new
        <4>3. QED
          BY <1>1, <3>2, <4>1, <4>2, RelocateKeeps
      <3>5. QED
        BY <3>3, <3>4
    <2>2. CASE q.op = "move"
      <3>1. MayMove(q, S) /\ new = Move(q, S)
        BY <1>1, <2>2, AllowedIs, EffectIs
      <3>2. /\ Marked(Resettled(q, S), S) /\ new = Relocate(Resettled(q, S), DirOf(S, q.id), NewPlace(q, S))
            /\ IsPath(DirOf(S, q.id)) /\ IsPath(NewPlace(q, S)) /\ Len(NewPlace(q, S)) > 1
        BY <1>1, <3>1, MoveIs
      <3>3. NewPlace(q, S) = DirOf(S, q.id) \/ ~Exists(S, NewPlace(q, S))
        BY <1>1, <3>1, TargetIsFree
      <3> HIDE DEF new
      <3>4. QED
        BY <1>1, <3>2, <3>3, RelocateKeeps
    <2>3. CASE q.op = "rekey"
      <3>1. IsRekey(new, S, DirOf(S, q.id), q.id, q.to)
        BY <1>1, <2>3, EffectIs, RekeyIs
      <3> HIDE DEF new
      <3>2. QED
        BY <3>1, SameDocsKept, SameTextsKept DEF IsRekey, Texts
    <2>4. QED
      BY <2>1, <2>2, <2>3
  <1> HIDE DEF W, new
  <1>4. KeepsBodies(W, V)
    BY <1>2, <1>3 DEF KeepsBodies
  <1>5. Texts(V) = Texts(S) /\ Texts(W) = Texts(new)
    BY <1>2 DEF Texts
  <1>6. KeepsTexts(W, V)
    BY <1>3, <1>5 DEF KeepsTexts
  <1>7. QED
    BY <1>4, <1>6 DEF W

(* merge: everything that was read is as it was, every target is free.     *)
MergeFree(S, V, s, t) ==
  /\ \A p \in DOMAIN S.doc : Under(p, s) => Moved(p, s, t) \notin DOMAIN V.doc
  /\ \A d \in DOMAIN S.marker : Under(d, s) /\ d # s => Moved(d, s, t) \notin DOMAIN V.marker
Extends(V, S) ==
  /\ \A p \in DOMAIN S.doc : p \in DOMAIN V.doc /\ V.doc[p] = S.doc[p]
  /\ \A d \in DOMAIN S.marker : d \in DOMAIN V.marker /\ V.marker[d] = S.marker[d]

LEMMA MergeIsFree ==
  ASSUME NEW S, IsTree(S), NEW V, NEW s \in DOMAIN S.marker, NEW t, ~TargetExists(S, V, s, t)
  PROVE  MergeFree(S, V, s, t)
  <1>1. \A p \in DOMAIN S.doc : p \notin DOMAIN S.marker
    BY DEF IsTree
  <1>2. ASSUME NEW p \in DOMAIN S.doc, Under(p, s) PROVE Moved(p, s, t) \notin DOMAIN V.doc
    <2>1. p \in Retained(S, s)
      BY <1>1, <1>2 DEF Retained, Files
    <2>2. ~Exists(V, Moved(p, s, t))
      BY <2>1 DEF TargetExists
    <2>3. QED
      BY <2>2 DEF Exists
  <1>3. ASSUME NEW d \in DOMAIN S.marker, Under(d, s), d # s PROVE Moved(d, s, t) \notin DOMAIN V.marker
    <2>1. d \in Retained(S, s) /\ d \notin DOMAIN S.doc
      BY <1>1, <1>3 DEF Retained, Files
    <2>2. QED
      BY <2>1 DEF TargetExists
  <1>4. QED
    BY <1>2, <1>3 DEF MergeFree

(* Over entries Q that include P, of which those below s have free targets *)
LEMMA ApartWhenMerged ==
  ASSUME NEW P, NEW Q, P \subseteq Q, \A p \in Q : p \in Seq(Names), NEW s \in Seq(Names), NEW t \in Seq(Names),
         \A p \in P : Under(p, s) => Moved(p, s, t) \notin Q
  PROVE  Apart(P, s, t) /\ \A p \in P, x \in Q \ P : Moved(p, s, t) # x
  <1>1. \A p \in P : ~Under(p, s) => Moved(p, s, t) = p
    BY MovedIs
  <1>2. ASSUME NEW p \in P, NEW r \in P, Moved(p, s, t) = Moved(r, s, t) PROVE p = r
    <2>1. Under(p, s) <=> Under(r, s)
      BY <1>1, <1>2
    <2>2. p \in Seq(Names) /\ r \in Seq(Names)
      OBVIOUS
    <2>3. QED
      BY <1>2, <2>1, <2>2, MovedApart
  <1>3. \A p \in P, x \in Q \ P : Moved(p, s, t) # x
    BY <1>1
  <1>4. QED
    BY <1>2, <1>3 DEF Apart

LEMMA MergeKeeps ==
  ASSUME NEW q, NEW S, NEW H, NEW V, Ready(q, S, H, V), q.op = "merge"
  PROVE  KeepsBodies(Applied(q, S, V), V) /\ KeepsTexts(Applied(q, S, V), V)
  <1> DEFINE W == Applied(q, S, V)
             new == Effect(q, S)
             s == DirOf(S, q.id)
             t == DirOf(S, q.to)
  <1>1. HasTypes(S) /\ HasTypes(V) /\ IsTree(S) /\ IsTree(V) /\ IsRequest(q) /\ Allowed(q, S) /\ IsApplied(W, q, S, V)
    BY ReadyIs
  <1>2. /\ MayMerge(q, S) /\ MergeStands(q, S, H, V)
        /\ Base(q, S, S) = S /\ Base(q, S, V) = V /\ new = Merge(q, S)
    BY <1>1, AllowedIs, StandsIs, BaseIs, EffectIs DEF Ready
  <1>3. Extends(V, S)
    BY <1>2 DEF Ready, MergeStands, SameFiles, HashedDocs, HashedMarkers, Extends
  <1>4. Known(S, q.id) /\ Known(S, q.to) /\ S.marker[s].text = "plain"
    BY <1>2 DEF MayMerge
  <1>5. /\ s \in DOMAIN S.marker /\ IsPath(s) /\ IsPath(t)
        /\ s \in Seq(Names) /\ t \in Seq(Names)
    BY <1>1, <1>4, KnownIs DEF IsPath, Names
  <1>6. MergeFree(S, V, s, t)
    <2>1. ~TargetExists(S, V, s, t)
      BY <1>2 DEF MergeStands
    <2> HIDE DEF s, t
    <2>2. QED
      BY <1>1, <1>5, <2>1, MergeIsFree
  <1>7. IsMerge(new, S, s, t, q.id, q.to)
    BY <1>1, <1>2, <1>4, MergeIs
  <1>8. IsPatched(W.doc, S.doc, new.doc, V.doc) /\ IsPatched(W.marker, S.marker, new.marker, V.marker)
    BY <1>1, <1>2 DEF IsApplied
  <1> HIDE DEF W, new, s, t
  <1>9. \A p \in DOMAIN V.doc \union DOMAIN V.marker : p \in Seq(Names)
    BY <1>1 DEF HasTypes, AreDocs, AreMarkers, IsPath, Names
  <1>10. KeepsBodies(W, V)
    <2>1. PICK f : MergedDocs(f, S, s, t, q.id, q.to) /\ new.doc = Shift(f, s, t)
      BY <1>7 DEF IsMerge
    <2>2. SameBodies(f, S.doc) /\ IsMap(f) /\ DOMAIN f = DOMAIN S.doc
      BY <2>1 DEF MergedDocs, SameBodies, AreDocs
    <2>3. IsShift(new.doc, f, s, t)
      BY <2>1, <2>2, ShiftIs
    <2>4. /\ Apart(DOMAIN S.doc, s, t)
          /\ \A p \in DOMAIN S.doc, x \in DOMAIN V.doc \ DOMAIN S.doc : Moved(p, s, t) # x
      <3>1. DOMAIN S.doc \subseteq DOMAIN V.doc /\ \A p \in DOMAIN S.doc : Under(p, s) => Moved(p, s, t) \notin DOMAIN V.doc
        BY <1>3, <1>6 DEF Extends, MergeFree
      <3>2. QED
        BY <1>5, <1>9, <3>1, ApartWhenMerged
    <2>5. /\ \A x \in DOMAIN S.doc : x \in DOMAIN V.doc /\ V.doc[x] = S.doc[x]
          /\ \A x \in DOMAIN new.doc : x \in DOMAIN S.doc \/ x \notin DOMAIN V.doc
      BY <1>3, <2>2, <2>3, <2>4 DEF Extends, IsShift
    <2>6. /\ \A x \in DOMAIN new.doc : x \in DOMAIN W.doc /\ W.doc[x] = new.doc[x]
          /\ \A x \in DOMAIN V.doc \ DOMAIN S.doc : x \in DOMAIN W.doc /\ W.doc[x] = V.doc[x]
      BY <1>8, <2>5, PatchedOver
    <2>7. \A p \in DOMAIN f : Moved(p, s, t) \in DOMAIN new.doc /\ new.doc[Moved(p, s, t)] = f[p]
      BY <2>2, <2>3, <2>4, ShiftAt DEF IsShift
    <2>8. ASSUME NEW p \in DOMAIN V.doc
          PROVE  \E o \in DOMAIN W.doc : W.doc[o].of = V.doc[p].of /\ W.doc[o].rev = V.doc[p].rev
      <3>1. CASE p \in DOMAIN S.doc
        <4>1. Moved(p, s, t) \in DOMAIN W.doc /\ W.doc[Moved(p, s, t)] = f[p]
          BY <2>2, <2>6, <2>7, <3>1
        <4>2. f[p].of = V.doc[p].of /\ f[p].rev = V.doc[p].rev
          BY <2>2, <2>5, <3>1 DEF SameBodies, SameBody
        <4>3. QED
          BY <4>1, <4>2
      <3>2. CASE p \notin DOMAIN S.doc
        BY <2>6, <3>2
      <3>3. QED
        BY <3>1, <3>2
    <2>9. QED
      BY <2>8 DEF KeepsBodies
  <1>11. KeepsTexts(W, V)
    <2>1. PICK g : MergedMarkers(g, S) /\ new.marker = Shift(Drop(g, {s}), s, t)
      BY <1>7 DEF IsMerge
    <2> DEFINE f == Drop(g, {s})
               P == DOMAIN S.marker \ {s}
    <2>2. IsMap(g) /\ DOMAIN g = DOMAIN S.marker /\ \A d \in DOMAIN S.marker : g[d].text = S.marker[d].text
      BY <2>1 DEF MergedMarkers, AreMarkers
    <2>3. IsDrop(f, g, {s})
      BY <2>2, DropIs
    <2>4. IsMap(f) /\ DOMAIN f = P /\ \A d \in P : f[d].text = S.marker[d].text
      BY <2>2, <2>3 DEF IsDrop
    <2> HIDE DEF f
    <2>5. IsShift(new.marker, f, s, t)
      BY <2>1, <2>4, ShiftIs DEF f
    <2>6. Apart(P, s, t) /\ \A d \in P, x \in DOMAIN V.marker \ P : Moved(d, s, t) # x
      <3>1. P \subseteq DOMAIN V.marker /\ \A d \in P : Under(d, s) => Moved(d, s, t) \notin DOMAIN V.marker
        BY <1>3, <1>6 DEF Extends, MergeFree
      <3> HIDE DEF P
      <3>2. QED
        BY <1>5, <1>9, <3>1, ApartWhenMerged
    <2>7. /\ \A x \in DOMAIN S.marker : x \in DOMAIN V.marker /\ V.marker[x] = S.marker[x]
          /\ \A x \in DOMAIN new.marker : x \in DOMAIN S.marker \/ x \notin DOMAIN V.marker
      BY <1>3, <2>4, <2>5, <2>6 DEF Extends, IsShift
    <2>8. /\ \A x \in DOMAIN new.marker : x \in DOMAIN W.marker /\ W.marker[x] = new.marker[x]
          /\ \A x \in DOMAIN V.marker \ DOMAIN S.marker : x \in DOMAIN W.marker /\ W.marker[x] = V.marker[x]
      BY <1>8, <2>7, PatchedOver
    <2>9. \A d \in P : Moved(d, s, t) \in DOMAIN W.marker /\ W.marker[Moved(d, s, t)].text = S.marker[d].text
      <3>1. \A d \in DOMAIN f : Moved(d, s, t) \in DOMAIN new.marker /\ new.marker[Moved(d, s, t)] = f[d]
        BY <2>4, <2>5, <2>6, ShiftAt DEF IsShift
      <3>2. QED
        BY <2>4, <2>8, <3>1
    <2> DEFINE m == [d \in Texts(V) |-> IF d \in P THEN Moved(d, s, t) ELSE d]
    <2>10. \A d \in Texts(V) : d \in P \/ d \notin DOMAIN S.marker
      BY <1>4, <2>7 DEF Texts, s
    <2>11. ASSUME NEW d \in Texts(V) PROVE m[d] \in Texts(W)
      <3>1. CASE d \in P
        BY <2>7, <2>9, <3>1 DEF Texts
      <3>2. CASE d \notin P
        BY <2>8, <2>10, <3>2 DEF Texts
      <3>3. QED
        BY <3>1, <3>2
    <2>12. \A d \in Texts(V) : d \in DOMAIN V.marker
      BY DEF Texts
    <2>13. \A d \in Texts(V) : m[d] = IF d \in P THEN Moved(d, s, t) ELSE d
      OBVIOUS
    <2>14. m \in [Texts(V) -> Texts(W)]
      <3>1. m = [d \in Texts(V) |-> m[d]]
        OBVIOUS
      <3> HIDE DEF m
      <3>2. QED
        BY <2>11, <3>1
    <2> HIDE DEF m, P
    <2>15. ASSUME NEW d \in Texts(V), NEW e \in Texts(V), m[d] = m[e] PROVE d = e
      <3>1. CASE d \in P /\ e \in P
        BY <2>6, <2>13, <2>15, <3>1 DEF Apart
      <3>2. CASE d \in P /\ e \notin P
        BY <2>6, <2>12, <2>13, <2>15, <3>2
      <3>3. CASE d \notin P /\ e \in P
        BY <2>6, <2>12, <2>13, <2>15, <3>3
      <3>4. CASE d \notin P /\ e \notin P
        BY <2>13, <2>15, <3>4
      <3>5. QED
        BY <3>1, <3>2, <3>3, <3>4
    <2>16. QED
      BY <2>14, <2>15 DEF KeepsTexts
  <1>12. QED
    BY <1>10, <1>11 DEF W

(* delete: the declaration that goes is the one that was read.             *)
LEMMA DeleteKeeps ==
  ASSUME NEW q, NEW S, NEW H, NEW V, Ready(q, S, H, V), q.op = "delete"
  PROVE  KeepsBodies(Applied(q, S, V), V) /\ KeepsTexts(Applied(q, S, V), V)
  <1> DEFINE W == Applied(q, S, V)
             n == Effect(q, S).marker
             d == DirOf(S, q.id)
  <1>1. HasTypes(S) /\ HasTypes(V) /\ IsRequest(q) /\ Allowed(q, S) /\ IsApplied(W, q, S, V)
    BY ReadyIs
  <1>2. /\ MayDelete(q, S) /\ SameFiles(q, S, H, V)
        /\ Base(q, S, S) = S /\ Base(q, S, V) = V /\ Effect(q, S) = Delete(q, S)
    BY <1>1, AllowedIs, StandsIs, BaseIs, EffectIs DEF Ready
  <1>3. S.marker[d].text = "plain" /\ d \in DOMAIN S.marker
    BY <1>1, <1>2, KnownIs DEF MayDelete
  <1>4. d \in DOMAIN V.marker /\ V.marker[d] = S.marker[d]
    BY <1>2, <1>3 DEF SameFiles, HashedMarkers, Ready
  <1>5. IsDelete(Delete(q, S), S, d)
    BY <1>1, DeleteIs
  <1>6. W.doc = V.doc
    BY <1>2, <1>5, DocsLeft DEF IsDelete
  <1>7. n = Drop(S.marker, {d})
    BY <1>2, <1>5 DEF IsDelete
  <1>8. IsPatched(W.marker, S.marker, n, V.marker)
    BY <1>1, <1>2 DEF IsApplied
  <1> HIDE DEF W, n, d
  <1>9. DOMAIN n = DOMAIN S.marker \ {d} /\ \A e \in DOMAIN n : n[e] = S.marker[e]
    <2>1. IsMap(S.marker)
      BY <1>1 DEF HasTypes, AreMarkers
    <2>2. IsDrop(Drop(S.marker, {d}), S.marker, {d})
      BY <2>1, DropIs
    <2>3. QED
      BY <1>7, <2>2 DEF IsDrop
  <1>10. ASSUME NEW e \in Texts(V) PROVE e \in Texts(W)
    <2>1. e \in DOMAIN V.marker /\ V.marker[e].text = "authored" /\ e # d
      BY <1>3, <1>4 DEF Texts
    <2>2. e \in DOMAIN W.marker
      BY <1>8, <1>9, <2>1 DEF IsPatched
    <2>3. ~Writing(S.marker, n, e)
      BY <1>9 DEF Writing
    <2>4. W.marker[e] = V.marker[e]
      BY <1>8, <2>2, <2>3 DEF IsPatched
    <2>5. QED
      BY <2>1, <2>2, <2>4 DEF Texts
  <1>11. QED
    BY <1>6, <1>10, SameDocsKept, SameTextsKept DEF W

(* adopt: nothing is where the folder goes, and no declaration where the   *)
(* new one is written.                                                     *)
LEMMA PathIsNew ==
  ASSUME NEW f, NEW g, NEW from, NEW path, from \in Seq(Names), path \in Seq(Names), IsShift(g, f, from, path),
         \A p \in DOMAIN f : p \in Seq(Names), from \notin DOMAIN f, path \notin DOMAIN f
  PROVE  path \notin DOMAIN g
  <1> SUFFICES ASSUME path \in DOMAIN g PROVE FALSE
    OBVIOUS
  <1>1. PICK d \in DOMAIN f : path = Moved(d, from, path)
    BY DEF IsShift
  <1>2. d \in Seq(Names)
    OBVIOUS
  <1>3. CASE Under(d, from)
    <2>1. Moved(from, from, path) = path /\ Under(from, from)
      BY MovedItself, UnderItself
    <2>2. Moved(d, from, path) = Moved(from, from, path)
      BY <1>1, <2>1
    <2>3. d = from
      BY <1>2, <1>3, <2>1, <2>2, MovedApart
    <2>4. QED
      BY <2>3
  <1>4. CASE ~Under(d, from)
    BY <1>1, <1>2, <1>4, MovedIs
  <1>5. QED
    BY <1>3, <1>4

LEMMA AdoptKeeps ==
  ASSUME NEW q, NEW S, NEW H, NEW V, Ready(q, S, H, V), q.op = "adopt"
  PROVE  KeepsBodies(Applied(q, S, V), V) /\ KeepsTexts(Applied(q, S, V), V)
  <1> DEFINE W == Applied(q, S, V)
             new == Effect(q, S)
             old == Base(q, S, S)
             now == Base(q, S, V)
             m == NewMarker(q.id, Nearest(S, q.path))
  <1>1. /\ HasTypes(S) /\ HasTypes(V) /\ IsTree(S) /\ IsTree(V) /\ IsVault(V) /\ IsVault(S)
        /\ IsRequest(q) /\ Allowed(q, S) /\ IsApplied(W, q, S, V) /\ ~CannotMove(q, S, V)
    BY ReadyIs DEF Ready
  <1>2. /\ MayAdopt(q, S) /\ AdoptStands(q, S, V) /\ (q.from # None => q.from \notin DOMAIN V.marker)
        /\ old = Place(q, S) /\ now = Place(q, V) /\ new = Adopt(q, S)
    BY <1>1, AllowedIs, StandsIs, BaseIs, EffectIs DEF Ready
  <1>3. IsPath(q.path) /\ Len(q.path) > 1 /\ (q.from # None => IsPath(q.from)) /\ q.path # None
    BY <1>1, <1>2, AdoptedPaths DEF IsRequest
  <1>4. q.from # q.path => ~Exists(S, q.path) /\ ~Exists(V, q.path)
    <2>1. q.from # q.path => ~Exists(S, q.path)
      BY <1>2 DEF MayAdopt
    <2>2. q.from # q.path => ~Exists(V, q.path)
      BY <1>1 DEF CannotMove, Source, Target
    <2>3. QED
      BY <2>1, <2>2
  <1>5. q.path \notin DOMAIN V.marker
    BY <1>2 DEF AdoptStands
  <1>6. q.path \notin DOMAIN S.marker
    <2>1. CASE q.from = q.path
      BY <1>2, <1>3, <2>1 DEF MayAdopt
    <2>2. CASE q.from # q.path
      BY <1>1, <1>4, <2>2, DirsWhenFree
    <2>3. QED
      BY <2>1, <2>2
  <1>7. IsAdopt(new, Arrived(q, S), S, q)
    BY <1>1, <1>2, <1>3, AdoptIs
  <1>8. new.doc = Arrived(q, S).doc /\ new.marker = With(Arrived(q, S).marker, q.path, m)
    BY <1>7 DEF IsAdopt
  <1>9. /\ W.doc = Patched(old.doc, new.doc, now.doc) /\ IsPatched(W.doc, old.doc, new.doc, now.doc)
        /\ IsPatched(W.marker, old.marker, new.marker, now.marker)
    BY <1>1 DEF IsApplied
  <1>10. HasTypes(old) /\ HasTypes(now)
    BY <1>1, <1>2, <1>3, TypesPlaced
  <1>11. IsMap(old.marker) /\ IsMap(now.marker) /\ IsMap(now.doc) /\ IsMap(S.marker) /\ IsMap(V.marker) /\ IsMap(V.doc)
    BY <1>1, <1>10 DEF HasTypes, AreMarkers, AreDocs
  <1>12. ASSUME new.marker = With(old.marker, q.path, m), q.path \notin DOMAIN old.marker, q.path \notin DOMAIN now.marker
         PROVE  \A d \in DOMAIN now.marker : d \in DOMAIN W.marker /\ W.marker[d] = now.marker[d]
    <2>1. IsWith(W.marker, now.marker, q.path, m)
      <3> HIDE DEF m
      <3>1. QED
        BY <1>11, <1>12, MarkerNew
    <2> HIDE DEF W, now, m
    <2>2. QED
      BY <1>12, <2>1 DEF IsWith
  <1> HIDE DEF W, new, old, now, m
  <1>13. CASE q.from = None
    <2>1. old = S /\ now = V /\ Arrived(q, S) = Bring(q, S)
      BY <1>2, <1>13 DEF Place, Arrived
    <2>2. Bring(q, S).marker = S.marker /\ IsBrought(Bring(q, S).doc, S, q.path)
      BY <1>1, <1>3, BringIs
    <2>3. ~Exists(V, q.path)
      BY <1>3, <1>4, <1>13
    <2>4. \A p \in DOMAIN V.doc : ~Under(p, q.path)
      BY <1>1, <1>3, <2>3, NothingBelow
    <2>5. IsBrought(new.doc, S, q.path) /\ IsPatched(W.doc, S.doc, new.doc, V.doc)
      BY <1>8, <1>9, <2>1, <2>2
    <2>6. ASSUME NEW p \in DOMAIN V.doc PROVE p \in DOMAIN W.doc /\ W.doc[p] = V.doc[p]
      <3>1. ~Writing(S.doc, new.doc, p)
        BY <2>4, <2>5 DEF Writing, IsBrought
      <3>2. p \in DOMAIN W.doc
        BY <2>5 DEF IsPatched, IsBrought
      <3>3. QED
        BY <2>5, <3>1, <3>2 DEF IsPatched
    <2>7. KeepsBodies(W, V)
      BY <2>6 DEF KeepsBodies
    <2>8. \A d \in DOMAIN V.marker : d \in DOMAIN W.marker /\ W.marker[d] = V.marker[d]
      BY <1>5, <1>6, <1>8, <1>12, <2>1, <2>2
    <2>9. QED
      BY <2>7, <2>8, SameTextsKept DEF Texts, W
  <1>14. CASE q.from = q.path
    <2>1. old = S /\ now = V /\ Arrived(q, S) = S
      BY <1>2, <1>3, <1>14 DEF Place, Arrived
    <2>2. W.doc = V.doc
      BY <1>8, <1>9, <1>11, <2>1, PatchedNothing
    <2>3. \A d \in DOMAIN V.marker : d \in DOMAIN W.marker /\ W.marker[d] = V.marker[d]
      BY <1>5, <1>6, <1>8, <1>12, <2>1
    <2>4. QED
      BY <2>2, <2>3, SameDocsKept, SameTextsKept DEF Texts, W
  <1>15. CASE q.from # None /\ q.from # q.path
    <2>1. old = ShiftAll(S, q.from, q.path) /\ now = ShiftAll(V, q.from, q.path) /\ Arrived(q, S) = old
      BY <1>2, <1>15 DEF Place, Arrived
    <2>2. IsPath(q.from) /\ ~Exists(V, q.path) /\ ~Exists(S, q.path)
      BY <1>3, <1>4, <1>15
    <2>3. /\ now.doc = Shift(V.doc, q.from, q.path) /\ now.marker = Shift(V.marker, q.from, q.path)
          /\ old.marker = Shift(S.marker, q.from, q.path)
      <3>1. IsShiftAll(ShiftAll(S, q.from, q.path), S, q.from, q.path) /\ IsShiftAll(ShiftAll(V, q.from, q.path), V, q.from, q.path)
        BY <1>1, ShiftAllIs
      <3>2. IsShiftAll(old, S, q.from, q.path) /\ IsShiftAll(now, V, q.from, q.path)
        BY <2>1, <3>1
      <3>3. QED
        BY <3>2 DEF IsShiftAll
    <2>4. /\ IsShift(now.doc, V.doc, q.from, q.path) /\ IsShift(now.marker, V.marker, q.from, q.path)
          /\ IsShift(old.marker, S.marker, q.from, q.path)
      BY <1>11, <2>3, ShiftIs
    <2>5. Apart(DOMAIN V.doc, q.from, q.path) /\ Apart(DOMAIN V.marker, q.from, q.path)
      BY <1>1, <1>3, <2>2, ApartInVault
    <2>6. W.doc = now.doc
      BY <1>8, <1>9, <1>11, <2>1, PatchedNothing
    <2>7. KeepsBodies(W, V)
      BY <2>4, <2>5, <2>6, ShiftedDocsKept
    <2>8. q.path \notin DOMAIN old.marker /\ q.path \notin DOMAIN now.marker
      <3>1. q.from \in Seq(Names) /\ q.path \in Seq(Names)
        BY <1>3, <2>2 DEF IsPath, Names
      <3>2. \A d \in DOMAIN S.marker \union DOMAIN V.marker : d \in Seq(Names)
        BY <1>1 DEF HasTypes, AreMarkers, IsPath, Names
      <3>3. q.from \notin DOMAIN S.marker /\ q.from \notin DOMAIN V.marker
        BY <1>2, <1>15 DEF MayAdopt
      <3>4. QED
        BY <1>5, <1>6, <2>4, <3>1, <3>2, <3>3, PathIsNew
    <2>9. \A d \in DOMAIN now.marker : d \in DOMAIN W.marker /\ W.marker[d] = now.marker[d]
      BY <1>8, <1>12, <2>1, <2>8
    <2>10. KeepsTexts(W, V)
      BY <2>4, <2>5, <2>9, ShiftedTextsKept
    <2>11. QED
      BY <2>7, <2>10 DEF W
  <1>16. QED
    BY <1>13, <1>14, <1>15

LEMMA AppliedKeeps ==
  ASSUME NEW q, NEW S, NEW H, NEW V, Ready(q, S, H, V)
  PROVE  Bodies(V) \subseteq Bodies(Applied(q, S, V)) /\ Authored(V) <= Authored(Applied(q, S, V))
  <1>1. IsRequest(q) /\ IsVault(Applied(q, S, V))
    BY ReadyIs
  <1>2. KeepsBodies(Applied(q, S, V), V) /\ KeepsTexts(Applied(q, S, V), V)
    BY <1>1, SpacesKeep, CreateKeeps, FormatKeeps, RenameKeeps, MergeKeeps, DeleteKeeps, AdoptKeeps DEF IsRequest
  <1>3. IsFiniteSet(DOMAIN Applied(q, S, V).marker)
    BY <1>1 DEF IsVault, HasTypes, AreMarkers, IsMap
  <1>4. QED
    BY <1>2, <1>3, BodiesKept, TextsKept

(* Only Write ends a command and changes the Vault.                        *)
LEMMA WritesIs ==
  ASSUME IInv, [Next]_vars, NEW c \in Procs, Writes(c)
  PROVE  Write(c)
  <1>1. job = [b \in Procs |-> job[b]] /\ job[c].at = "write" /\ job'[c].at = "idle" /\ vault' # vault
    BY DEF IInv, Writes, At
  <1>2. CASE UNCHANGED vars
    BY <1>1, <1>2 DEF vars
  <1>3. CASE Others
    BY <1>1, <1>3 DEF Others, Save, Author, Draft, SaveOutside, Bind, Edit
  <1>4. ASSUME NEW b \in Procs,
               (\E q \in Requests : Plan(b, q)) \/ Confirm(b) \/ Hash(b) \/ Stage(b) \/ Enter(b) \/ Refuse(b)
        PROVE  FALSE
    BY <1>1, <1>4 DEF Plan, Confirm, Hash, Stage, Enter, Refuse, Stay
  <1>5. ASSUME NEW b \in Procs, Write(b) PROVE b = c
    <2>1. Done(b)
      BY <1>5 DEF Write
    <2>2. b # c => job'[c] = job[c]
      BY <1>1, <2>1 DEF Done
    <2>3. QED
      BY <1>1, <2>2
  <1>6. QED
    BY <1>2, <1>3, <1>4, <1>5 DEF Next

Undeclared(c) == job[c].req.op = "adopt" /\ job[c].req.from # None => job[c].req.from \notin DOMAIN vault.marker

LEMMA WriterIsReady ==
  ASSUME IInv, [Next]_vars, NEW c \in Procs, Writes(c), ~Late(c), ~Stirred(c), Undeclared(c)
  PROVE  /\ Ready(job[c].req, job[c].seen, job[c].hashed, vault)
         /\ vault' = Applied(job[c].req, job[c].seen, vault)
  <1> DEFINE j == job[c]
             q == j.req
             S == j.seen
             H == j.hashed
  <1>1. IsJob(j) /\ IsPlan(j) /\ j.at = "write" /\ IsVault(vault) /\ j.entered = vault
    BY DEF IInv, Jobs, Writes, At, Late
  <1>2. q \in Requests /\ IsRequest(q) /\ IsVault(S) /\ Allowed(q, S) /\ Stands(q, S, H, vault)
    BY <1>1, RequestsAssumption DEF IsJob, IsPlan
  <1>3. ~CannotApply(q, S, vault) /\ vault' = Applied(q, S, vault)
    <2>1. vault' = (IF CannotApply(q, S, vault) THEN vault ELSE Applied(q, S, vault)) /\ vault' # vault
      BY WritesIs DEF Write, Writes
    <2>2. QED
      BY <2>1
  <1>4. q.op \in {"merge", "delete"} =>
          /\ \A p \in HashedDocs(q, S) : H.doc[p] = S.doc[p]
          /\ \A d \in HashedMarkers(q, S) : H.marker[d] = S.marker[d]
    BY DEF Stirred
  <1>5. q.op = "adopt" /\ q.from # None => q.from \notin DOMAIN vault.marker
    BY DEF Undeclared
  <1>6. QED
    BY <1>1, <1>2, <1>3, <1>4, <1>5 DEF Ready

(* No command of structure_service.py, domain_restructure_service.py or    *)
(* adoption_service.py loses a saved body or a text that somebody has      *)
(* written, whoever else has changed the Vault since it was planned,       *)
(* outside the windows that ContentKept names.                             *)
THEOREM ContentIsKept == Spec => ContentKept
  <1>1. ASSUME IInv, [Next]_vars
        PROVE  \A c \in Procs : Writes(c) /\ ~Late(c) /\ ~Stirred(c) /\ ~DeclaredSince(c) =>
                 Bodies(vault) \subseteq Bodies(vault') /\ Authored(vault) <= Authored(vault')
    <2> SUFFICES ASSUME NEW c \in Procs, Writes(c), ~Late(c), ~Stirred(c), ~DeclaredSince(c)
                 PROVE  Bodies(vault) \subseteq Bodies(vault') /\ Authored(vault) <= Authored(vault')
      OBVIOUS
    <2>1. /\ Ready(job[c].req, job[c].seen, job[c].hashed, vault)
          /\ vault' = Applied(job[c].req, job[c].seen, vault)
      BY <1>1, WriterIsReady DEF DeclaredSince, Undeclared
    <2>2. /\ Bodies(vault) \subseteq Bodies(Applied(job[c].req, job[c].seen, vault))
          /\ Authored(vault) <= Authored(Applied(job[c].req, job[c].seen, vault))
      BY <2>1, AppliedKeeps
    <2>3. QED
      BY <2>1, <2>2
  <1>2. QED
    BY <1>1, InvariantIInv, PTL DEF Spec, ContentKept

----------------------------------------------------------------------------
(* References, Domains and roots that follow                               *)
IdsKept(W, V, old, new) == \A d \in DOMAIN V.marker : Instead(V.marker[d].id, old, new) \in Ids(W)
MovesTo(W, V, f, from, to) ==
  /\ SameBodies(f, V.doc) /\ \A p \in DOMAIN V.doc : f[p].ref = NewRef(V, p, from, to)
  /\ \A p \in DOMAIN V.doc : Moved(p, from, to) \in DOMAIN W.doc /\ W.doc[Moved(p, from, to)] = f[p]

LEMMA ReferencesMoved ==
  ASSUME NEW W, NEW V, NEW f, NEW from, NEW to, MovesTo(W, V, f, from, to),
         \A p \in DOMAIN V.doc : V.doc[p].dom \in Ids(V) => f[p].dom \in Ids(W)
  PROVE  \A p \in DOMAIN V.doc : Follows(V, W, p)
  <1> SUFFICES ASSUME NEW p \in DOMAIN V.doc PROVE Follows(V, W, p)
    OBVIOUS
  <1> DEFINE o == Moved(p, from, to)
             r == V.doc[p].ref
  <1>1. \A x \in DOMAIN V.doc : Moved(x, from, to) \in DOMAIN W.doc /\ W.doc[Moved(x, from, to)] = f[x] /\ f[x].of = V.doc[x].of
    BY DEF MovesTo, SameBodies, SameBody
  <1>2. o \in DOMAIN W.doc /\ W.doc[o] = f[p] /\ W.doc[o].of = V.doc[p].of
    BY <1>1
  <1>3. r \in DOMAIN V.doc => /\ f[p].ref = Moved(r, from, to) /\ Moved(r, from, to) \in DOMAIN W.doc
                              /\ W.doc[Moved(r, from, to)].of = V.doc[r].of
    BY <1>1 DEF MovesTo, NewRef
  <1>4. V.doc[p].dom \in Ids(V) => W.doc[o].dom \in Ids(W)
    BY <1>2
  <1> HIDE DEF o
  <1>5. Resolves(V, p) => Resolves(W, o) /\ W.doc[W.doc[o].ref].of = V.doc[r].of
    BY <1>2, <1>3 DEF Resolves
  <1>6. QED
    BY <1>2, <1>4, <1>5 DEF Follows

LEMMA IdsAre ==
  ASSUME NEW V, NEW id
  PROVE  id \in Ids(V) <=> \E d \in DOMAIN V.marker : V.marker[d].id = id
  BY DEF Ids

RootsFollow(W, V) == \A p \in DOMAIN V.roots : V.roots[p] \in Ids(V) => W.roots[p] \in Ids(W)
AllFollow(W, V) == (\A p \in DOMAIN V.doc : Follows(V, W, p)) /\ RootsFollow(W, V)

LEMMA SameDocsFollow ==
  ASSUME NEW W, NEW V, SameBodies(W.doc, V.doc) \/ W.doc = V.doc,
         \A p \in DOMAIN V.doc : W.doc[p].ref = V.doc[p].ref,
         \A p \in DOMAIN V.doc : V.doc[p].dom \in Ids(V) => W.doc[p].dom \in Ids(W)
  PROVE  \A p \in DOMAIN V.doc : Follows(V, W, p)
  BY DEF Follows, Resolves, SameBodies, SameBody

LEMMA RelocateFollows ==
  ASSUME NEW V, IsVault(V), NEW U, Marked(U, V), NEW from, NEW to, IsPath(from), IsPath(to), Len(to) > 1,
         to = from \/ ~Exists(V, to)
  PROVE  AllFollow(Relocate(U, from, to), V)
  <1> DEFINE W == Relocate(U, from, to)
             f == Follow(U, from, to)
  <1>1. HasTypes(V) /\ HasTypes(U)
    BY MarkedHasTypes DEF IsVault
  <1>2. Apart(DOMAIN V.doc, from, to) /\ Apart(DOMAIN V.marker, from, to)
    BY ApartInVault
  <1>3. /\ U.doc = V.doc /\ U.roots = V.roots /\ DOMAIN U.marker = DOMAIN V.marker
        /\ \A d \in DOMAIN V.marker : U.marker[d].id = V.marker[d].id
    BY DEF Marked
  <1>4. IsFollow(f, U, from, to)
    BY <1>1, FollowIs DEF HasTypes
  <1>5. IsRelocate(W, U, from, to)
    BY <1>1, RelocateIs
  <1>6. W.doc = Shift(f, from, to) /\ W.marker = Shift(U.marker, from, to) /\ W.roots = V.roots
    BY <1>3, <1>5 DEF IsRelocate
  <1> HIDE DEF f, W
  <1>7. /\ SameBodies(f, V.doc) /\ IsMap(f) /\ DOMAIN f = DOMAIN V.doc
        /\ \A p \in DOMAIN V.doc : f[p].dom = V.doc[p].dom /\ f[p].ref = NewRef(V, p, from, to)
    BY <1>3, <1>4 DEF IsFollow, SameBodies, AreDocs, NewRef
  <1>8. \A p \in DOMAIN V.doc : Moved(p, from, to) \in DOMAIN W.doc /\ W.doc[Moved(p, from, to)] = f[p]
    <2>1. IsShift(W.doc, f, from, to)
      BY <1>6, <1>7, ShiftIs
    <2>2. QED
      BY <1>2, <1>7, <2>1, ShiftAt DEF IsShift
  <1>9. \A d \in DOMAIN V.marker : Moved(d, from, to) \in DOMAIN W.marker /\ W.marker[Moved(d, from, to)].id = V.marker[d].id
    <2>1. IsMap(U.marker)
      BY <1>1 DEF HasTypes, AreMarkers
    <2>2. IsShift(W.marker, U.marker, from, to)
      BY <1>6, <2>1, ShiftIs
    <2>3. QED
      BY <1>2, <1>3, <2>2, ShiftAt DEF IsShift
  <1>10. \A id \in Ids(V) : id \in Ids(W)
    BY <1>9, IdsAre
  <1>11. MovesTo(W, V, f, from, to)
    BY <1>7, <1>8 DEF MovesTo
  <1>12. \A p \in DOMAIN V.doc : Follows(V, W, p)
    BY <1>7, <1>10, <1>11, ReferencesMoved
  <1>13. RootsFollow(W, V)
    BY <1>6, <1>10 DEF RootsFollow
  <1>14. QED
    BY <1>12, <1>13 DEF AllFollow, W

LEMMA MarkedFollows ==
  ASSUME NEW V, NEW W, Marked(W, V)
  PROVE  AllFollow(W, V)
  <1>1. \A id \in Ids(V) : id \in Ids(W)
    BY IdsAre DEF Marked
  <1>2. W.doc = V.doc /\ W.roots = V.roots
    BY DEF Marked
  <1>3. \A p \in DOMAIN V.doc : Follows(V, W, p)
    BY <1>1, <1>2, SameDocsFollow
  <1>4. QED
    BY <1>1, <1>2, <1>3 DEF AllFollow, RootsFollow

LEMMA RekeyFollows ==
  ASSUME NEW V, HasTypes(V), NEW q, Known(V, q.id), NEW W, IsRekey(W, V, DirOf(V, q.id), q.id, q.to)
  PROVE  AllFollow(W, V)
  <1> DEFINE d == DirOf(V, q.id)
  <1>1. d \in DOMAIN V.marker /\ V.marker[d].id = q.id
    BY KnownIs
  <1>2. /\ DOMAIN W.marker = DOMAIN V.marker
        /\ \A e \in DOMAIN V.marker : W.marker[e].id = IF e = d THEN q.to ELSE V.marker[e].id
    BY DEF IsRekey
  <1>3. /\ SameBodies(W.doc, V.doc)
        /\ \A p \in DOMAIN V.doc : W.doc[p].ref = V.doc[p].ref /\ W.doc[p].dom = Instead(V.doc[p].dom, q.id, q.to)
        /\ \A p \in DOMAIN V.roots : W.roots[p] = Instead(V.roots[p], q.id, q.to)
    BY DEF IsRekey
  <1> HIDE DEF d
  <1>4. \A id \in Ids(V) : Instead(id, q.id, q.to) \in Ids(W)
    <2> SUFFICES ASSUME NEW id \in Ids(V) PROVE Instead(id, q.id, q.to) \in Ids(W)
      OBVIOUS
    <2>1. PICK e \in DOMAIN V.marker : V.marker[e].id = id
      BY IdsAre
    <2>2. CASE id = q.id
      BY <1>1, <1>2, <2>2, IdsAre DEF Instead
    <2>3. CASE id # q.id
      BY <1>1, <1>2, <2>1, <2>3, IdsAre DEF Instead
    <2>4. QED
      BY <2>2, <2>3
  <1>5. \A p \in DOMAIN V.doc : Follows(V, W, p)
    BY <1>3, <1>4, SameDocsFollow
  <1>6. RootsFollow(W, V)
    BY <1>3, <1>4 DEF RootsFollow
  <1>7. QED
    BY <1>5, <1>6 DEF AllFollow

LEMMA MergeFollows ==
  ASSUME NEW V, IsVault(V), NEW q, MayMerge(q, V)
  PROVE  AllFollow(Merge(q, V), V)
  <1> DEFINE W == Merge(q, V)
             s == DirOf(V, q.id)
             t == DirOf(V, q.to)
             P == DOMAIN V.marker \ {s}
  <1>1. HasTypes(V) /\ IsTree(V)
    BY DEF IsVault
  <1>2. Known(V, q.id) /\ Known(V, q.to) /\ ~Under(t, s) /\ ~TargetExists(V, V, s, t)
    BY DEF MayMerge
  <1>3. /\ s \in DOMAIN V.marker /\ V.marker[s].id = q.id /\ s \in Seq(Names)
        /\ t \in DOMAIN V.marker /\ V.marker[t].id = q.to /\ t \in Seq(Names)
    BY <1>1, <1>2, KnownIs DEF IsPath, Names
  <1>4. IsMerge(W, V, s, t, q.id, q.to)
    BY <1>1, <1>2, MergeIs
  <1> HIDE DEF W, s, t
  <1>5. MergeFree(V, V, s, t)
    BY <1>1, <1>2, <1>3, MergeIsFree
  <1>6. \A p \in DOMAIN V.doc \union DOMAIN V.marker : p \in Seq(Names)
    BY <1>1 DEF HasTypes, AreDocs, AreMarkers, IsPath, Names
  <1>7. PICK f : MergedDocs(f, V, s, t, q.id, q.to) /\ W.doc = Shift(f, s, t)
    BY <1>4 DEF IsMerge
  <1>8. PICK g : MergedMarkers(g, V) /\ W.marker = Shift(Drop(g, {s}), s, t)
    BY <1>4 DEF IsMerge
  <1>9. /\ SameBodies(f, V.doc) /\ IsMap(f) /\ DOMAIN f = DOMAIN V.doc
        /\ \A p \in DOMAIN V.doc : /\ f[p].ref = NewRef(V, p, s, t)
                                   /\ \E x \in {V.doc[p].dom, q.id} : f[p].dom = Instead(x, q.id, q.to)
    BY <1>3, <1>7 DEF MergedDocs, SameBodies, AreDocs
  <1>10. \A p \in DOMAIN V.doc : Moved(p, s, t) \in DOMAIN W.doc /\ W.doc[Moved(p, s, t)] = f[p]
    <2>1. IsShift(W.doc, f, s, t)
      BY <1>7, <1>9, ShiftIs
    <2>2. Apart(DOMAIN V.doc, s, t)
      <3>1. \A p \in DOMAIN V.doc : Under(p, s) => Moved(p, s, t) \notin DOMAIN V.doc
        BY <1>5 DEF MergeFree
      <3>2. QED
        BY <1>3, <1>6, <3>1, ApartWhenMerged
    <2>3. QED
      BY <1>9, <2>1, <2>2, ShiftAt DEF IsShift
  <1>11. \A d \in P : Moved(d, s, t) \in DOMAIN W.marker /\ W.marker[Moved(d, s, t)].id = V.marker[d].id
    <2> DEFINE h == Drop(g, {s})
    <2>1. IsMap(g) /\ DOMAIN g = DOMAIN V.marker /\ \A d \in DOMAIN V.marker : g[d].id = V.marker[d].id
      BY <1>8 DEF MergedMarkers, AreMarkers
    <2>2. IsDrop(h, g, {s})
      BY <2>1, DropIs
    <2> HIDE DEF h
    <2>3. IsMap(h) /\ DOMAIN h = P /\ \A d \in P : h[d].id = V.marker[d].id
      BY <2>1, <2>2 DEF IsDrop
    <2>4. IsShift(W.marker, h, s, t)
      BY <1>8, <2>3, ShiftIs DEF h
    <2>5. Apart(P, s, t)
      <3>1. P \subseteq DOMAIN V.marker /\ \A d \in P : Under(d, s) => Moved(d, s, t) \notin DOMAIN V.marker
        BY <1>5 DEF MergeFree
      <3> HIDE DEF P
      <3>2. QED
        BY <1>3, <1>6, <3>1, ApartWhenMerged
    <2>6. QED
      BY <2>3, <2>4, <2>5, ShiftAt DEF IsShift
  <1>12. \A id \in Ids(V) : Instead(id, q.id, q.to) \in Ids(W)
    <2> SUFFICES ASSUME NEW id \in Ids(V) PROVE Instead(id, q.id, q.to) \in Ids(W)
      OBVIOUS
    <2>1. PICK e \in DOMAIN V.marker : V.marker[e].id = id
      BY IdsAre
    <2>2. CASE id = q.id
      <3>1. t \in P
        BY <1>2, <1>3, UnderItself
      <3>2. QED
        BY <1>3, <1>11, <2>2, <3>1, IdsAre DEF Instead
    <2>3. CASE id # q.id
      <3>1. e \in P
        BY <1>3, <2>1, <2>3
      <3>2. QED
        BY <1>11, <2>1, <2>3, <3>1, IdsAre DEF Instead
    <2>4. QED
      BY <2>2, <2>3
  <1>13. q.id \in Ids(V)
    BY <1>3, IdsAre
  <1>14. \A p \in DOMAIN V.doc : V.doc[p].dom \in Ids(V) => f[p].dom \in Ids(W)
    BY <1>9, <1>12, <1>13
  <1>15. MovesTo(W, V, f, s, t)
    BY <1>9, <1>10 DEF MovesTo
  <1>16. \A p \in DOMAIN V.doc : Follows(V, W, p)
    BY <1>14, <1>15, ReferencesMoved
  <1>17. RootsFollow(W, V)
    <2>1. \A p \in DOMAIN V.roots : W.roots[p] = Instead(V.roots[p], q.id, q.to)
      BY <1>4 DEF IsMerge
    <2>2. QED
      BY <1>12, <2>1 DEF RootsFollow
  <1>18. QED
    BY <1>16, <1>17 DEF AllFollow, W

(* What follows depends on documents, declarations and roots alone.        *)
LEMMA FollowsAlike ==
  ASSUME NEW W, NEW V, NEW X, NEW S, W.doc = X.doc, W.marker = X.marker, W.roots = X.roots,
         V.doc = S.doc, V.marker = S.marker, V.roots = S.roots, AllFollow(X, S)
  PROVE  AllFollow(W, V)
  <1>1. Ids(W) = Ids(X) /\ Ids(V) = Ids(S)
    BY DEF Ids
  <1>2. ASSUME NEW p \in DOMAIN V.doc PROVE Follows(V, W, p)
    <2>1. Follows(S, X, p)
      BY <1>2 DEF AllFollow
    <2>2. QED
      BY <1>1, <2>1 DEF Follows, Resolves
  <1>3. RootsFollow(W, V)
    BY <1>1 DEF AllFollow, RootsFollow
  <1>4. QED
    BY <1>2, <1>3 DEF AllFollow

(* What each command makes of the Vault that it has read                   *)
LEMMA EffectFollows ==
  ASSUME NEW S, IsVault(S), NEW q, IsRequest(q), Allowed(q, S), q.op \in {"rename", "move", "rekey", "merge"}
  PROVE  AllFollow(Effect(q, S), S)
  <1> DEFINE new == Effect(q, S)
  <1>1. HasTypes(S)
    BY DEF IsVault
  <1>2. CASE q.op = "rename"
    <2>1. MayRename(q, S) /\ new = Rename(q, S)
      BY <1>2, AllowedIs, EffectIs
    <2>2. Marked(Named(q, S), S)
      BY <1>1, <1>2, <2>1, RenameIs
    <2>3. CASE q.folder = None
      <3>1. new = Named(q, S)
        BY <1>1, <1>2, <2>1, <2>3, RenameIs
      <3> HIDE DEF new
      <3>2. QED
        BY <2>2, <3>1, MarkedFollows DEF new
    <2>4. CASE q.folder # None
      <3>1. /\ new = Relocate(Named(q, S), DirOf(S, q.id), Folder(q, S))
            /\ IsPath(DirOf(S, q.id)) /\ IsPath(Folder(q, S)) /\ Len(Folder(q, S)) > 1
        BY <1>1, <1>2, <2>1, <2>4, RenameIs
      <3>2. Folder(q, S) = DirOf(S, q.id) \/ ~Exists(S, Folder(q, S))
        BY <1>2, <2>1, <2>4, TargetIsFree
      <3>3. AllFollow(Relocate(Named(q, S), DirOf(S, q.id), Folder(q, S)), S)
        BY <2>2, <3>1, <3>2, RelocateFollows
      <3>4. QED
        BY <3>1, <3>3
    <2>5. QED
      BY <2>3, <2>4
  <1>3. CASE q.op = "move"
    <2>1. MayMove(q, S) /\ new = Move(q, S)
      BY <1>3, AllowedIs, EffectIs
    <2>2. /\ Marked(Resettled(q, S), S) /\ new = Relocate(Resettled(q, S), DirOf(S, q.id), NewPlace(q, S))
          /\ IsPath(DirOf(S, q.id)) /\ IsPath(NewPlace(q, S)) /\ Len(NewPlace(q, S)) > 1
      BY <1>1, <2>1, MoveIs
    <2>3. NewPlace(q, S) = DirOf(S, q.id) \/ ~Exists(S, NewPlace(q, S))
      BY <2>1, TargetIsFree
    <2>4. AllFollow(Relocate(Resettled(q, S), DirOf(S, q.id), NewPlace(q, S)), S)
      BY <2>2, <2>3, RelocateFollows
    <2>5. QED
      BY <2>2, <2>4
  <1>4. CASE q.op = "rekey"
    <2>1. MayRekey(q, S) /\ new = Rekey(q, S)
      BY <1>4, AllowedIs, EffectIs
    <2>2. Known(S, q.id) /\ IsRekey(Rekey(q, S), S, DirOf(S, q.id), q.id, q.to)
      BY <1>1, <2>1, RekeyIs DEF MayRekey
    <2>3. QED
      BY <1>1, <2>1, <2>2, RekeyFollows
  <1>5. CASE q.op = "merge"
    <2>1. MayMerge(q, S) /\ new = Merge(q, S)
      BY <1>5, AllowedIs, EffectIs
    <2>2. QED
      BY <2>1, MergeFollows
  <1>6. QED
    BY <1>2, <1>3, <1>4, <1>5

(* merge compares what it has read; where nothing is new, what it writes is*)
(* its effect.                                                             *)
LEMMA MergeApplies ==
  ASSUME NEW q, NEW S, NEW H, NEW V, Ready(q, S, H, V), q.op = "merge",
         S.roots = V.roots, DOMAIN S.doc = DOMAIN V.doc, DOMAIN S.marker = DOMAIN V.marker
  PROVE  /\ V.doc = S.doc /\ V.marker = S.marker /\ V.roots = S.roots
         /\ Applied(q, S, V).doc = Effect(q, S).doc /\ Applied(q, S, V).marker = Effect(q, S).marker
         /\ Applied(q, S, V).roots = Effect(q, S).roots
  <1> DEFINE new == Effect(q, S)
             W == Applied(q, S, V)
  <1>1. HasTypes(S) /\ HasTypes(V) /\ IsRequest(q) /\ Allowed(q, S) /\ IsApplied(W, q, S, V)
    BY ReadyIs
  <1>2. Base(q, S, S) = S /\ Base(q, S, V) = V
    BY <1>1, BaseIs
  <1>3. IsMap(S.doc) /\ IsMap(V.doc) /\ IsMap(S.marker) /\ IsMap(V.marker)
    BY <1>1 DEF HasTypes, AreDocs, AreMarkers
  <1>4. Extends(V, S)
    BY <1>1, StandsIs DEF Ready, MergeStands, SameFiles, HashedDocs, HashedMarkers, Extends
  <1>5. V.doc = S.doc /\ V.marker = S.marker
    BY <1>3, <1>4 DEF Extends, IsMap
  <1>6. HasTypes(new)
    BY <1>1, EffectHasTypes
  <1>7. IsMap(new.doc) /\ IsMap(new.marker) /\ IsMap(new.roots)
    BY <1>6 DEF HasTypes, AreDocs, AreMarkers
  <1>8. /\ W.doc = Patched(S.doc, new.doc, S.doc) /\ W.marker = Patched(S.marker, new.marker, S.marker)
        /\ W.roots = Patched(S.roots, new.roots, S.roots)
    BY <1>1, <1>2, <1>5 DEF IsApplied
  <1> HIDE DEF new, W
  <1>9. W.doc = new.doc /\ W.marker = new.marker /\ W.roots = new.roots
    BY <1>7, <1>8, PatchedAll
  <1>10. QED
    BY <1>5, <1>9 DEF W, new

(* Every reference that resolved still resolves to the same document, every*)
(* Domain that a document or a project named by its id is still found by   *)
(* the id that is named then, after rename, move, rekey and merge of       *)
(* domain_restructure_service.py, outside the windows of ReferencesFollow. *)
THEOREM ReferencesComeAlong == Spec => ReferencesFollow
  <1>1. ASSUME IInv, [Next]_vars
        PROVE  \A c \in Procs :
                 Writes(c) /\ ~Late(c) /\ ~Stirred(c) /\ ~Unseen(c) /\ job[c].req.op \in {"rename", "move", "rekey", "merge"} =>
                   AllFollow(vault', vault)
    <2> SUFFICES ASSUME NEW c \in Procs, Writes(c), ~Late(c), ~Stirred(c), ~Unseen(c),
                        job[c].req.op \in {"rename", "move", "rekey", "merge"}
                 PROVE  AllFollow(vault', vault)
      OBVIOUS
    <2> DEFINE q == job[c].req
               S == job[c].seen
               H == job[c].hashed
    <2>1. Undeclared(c)
      BY DEF Undeclared
    <2>2. Ready(q, S, H, vault) /\ vault' = Applied(q, S, vault)
      BY <1>1, <2>1, WriterIsReady
    <2>3. q.op = "merge" => S.roots = vault.roots /\ DOMAIN S.doc = DOMAIN vault.doc /\ DOMAIN S.marker = DOMAIN vault.marker
      BY DEF Unseen
    <2> HIDE DEF q, S, H
    <2>4. /\ vault.doc = S.doc /\ vault.marker = S.marker /\ vault.roots = S.roots
          /\ vault'.doc = Effect(q, S).doc /\ vault'.marker = Effect(q, S).marker /\ vault'.roots = Effect(q, S).roots
      <3>1. CASE q.op = "merge"
        BY <2>2, <2>3, <3>1, MergeApplies
      <3>2. CASE q.op \in {"rename", "move", "rekey"}
        BY <2>2, <3>2, SamePlanApplies
      <3>3. QED
        BY <3>1, <3>2 DEF q
    <2>5. AllFollow(Effect(q, S), S)
      BY <2>2, EffectFollows DEF Ready, q
    <2>6. QED
      BY <2>4, <2>5, FollowsAlike
  <1>2. ASSUME IInv, [Next]_vars
        PROVE  \A c \in Procs :
                 Writes(c) /\ ~Late(c) /\ ~Stirred(c) /\ ~Unseen(c) /\ job[c].req.op \in {"rename", "move", "rekey", "merge"} =>
                   /\ \A p \in DOMAIN vault.doc : Follows(vault, vault', p)
                   /\ \A p \in DOMAIN vault.roots : vault.roots[p] \in Ids(vault) => vault'.roots[p] \in Ids(vault')
    BY <1>1, <1>2 DEF AllFollow, RootsFollow
  <1>3. QED
    BY <1>2, InvariantIInv, PTL DEF Spec, ReferencesFollow

----------------------------------------------------------------------------
(* As if alone.  What a command asks of a Vault, and what it makes of it,  *)
(* depends on what it has compared and on what it has not seen change.     *)
LEMMA MarkersAlike ==
  ASSUME NEW S, NEW V, V.marker = S.marker
  PROVE  /\ Linked(V) = Linked(S) /\ Ids(V) = Ids(S)
         /\ \A p : Above(V, p) = Above(S, p) /\ Nearest(V, p) = Nearest(S, p)
         /\ \A id : DirsOf(V, id) = DirsOf(S, id) /\ DirOf(V, id) = DirOf(S, id) /\ (Known(V, id) <=> Known(S, id))
  <1>1. Linked(V) = Linked(S)
    BY DEF Linked, Above
  <1>2. Ids(V) = Ids(S)
    BY DEF Ids
  <1>3. ASSUME NEW p PROVE Above(V, p) = Above(S, p) /\ Nearest(V, p) = Nearest(S, p)
    <2>1. Above(V, p) = Above(S, p)
      BY DEF Above
    <2>2. QED
      BY <2>1 DEF Nearest
  <1>4. ASSUME NEW id PROVE DirsOf(V, id) = DirsOf(S, id) /\ DirOf(V, id) = DirOf(S, id) /\ (Known(V, id) <=> Known(S, id))
    <2>1. DirsOf(V, id) = DirsOf(S, id)
      BY DEF DirsOf
    <2>2. QED
      BY <2>1 DEF DirOf, Known
  <1>5. QED
    BY <1>1, <1>2, <1>3, <1>4

LEMMA RootsAlike ==
  ASSUME NEW S, NEW V, V.marker = S.marker, V.roots = S.roots
  PROVE  /\ Readable(V) <=> Readable(S)
         /\ \A id : IsRoot(V, id) <=> IsRoot(S, id)
         /\ \A d : ProjectOf(V, d) = ProjectOf(S, d)
         /\ \A q : ParentAgrees(V, q) <=> ParentAgrees(S, q)
  <1>1. (Readable(V) <=> Readable(S)) /\ \A id : IsRoot(V, id) <=> IsRoot(S, id)
    BY DEF Readable, IsRoot
  <1>2. ASSUME NEW d PROVE ProjectOf(V, d) = ProjectOf(S, d)
    <2>1. Claims(V, d) = Claims(S, d)
      <3>1. Above(V, d) = Above(S, d)
        BY MarkersAlike
      <3>2. \A A : RootsAt(V, A) = RootsAt(S, A)
        BY DEF RootsAt
      <3>3. QED
        BY <3>1, <3>2 DEF Claims
    <2>2. QED
      BY <2>1, MarkersAlike DEF ProjectOf
  <1>3. ASSUME NEW q PROVE ParentAgrees(V, q) <=> ParentAgrees(S, q)
    BY <1>2, MarkersAlike DEF ParentAgrees
  <1>4. QED
    BY <1>1, <1>2, <1>3

LEMMA SameVault ==
  ASSUME NEW W, Shaped(W), NEW E, Shaped(E), W.space = E.space, W.dirs = E.dirs, W.marker = E.marker,
         W.doc = E.doc, W.roots = E.roots, W.outside = E.outside
  PROVE  W = E
  BY DEF Shaped

(* What lies there lies in directories: what an effect makes hangs together*)
(* as a Vault does, but for a document where a directory is made.          *)
Hangs(dirs, spaces, markers, docs) ==
  /\ spaces \subseteq dirs /\ markers \subseteq dirs
  /\ \A p \in dirs \union docs : Parents(p) \subseteq dirs
HangsTogether(E) == Hangs(E.dirs, DOMAIN E.space, DOMAIN E.marker, DOMAIN E.doc)

LEMMA TreeHangs ==
  ASSUME NEW V, IsTree(V)
  PROVE  HangsTogether(V)
  BY DEF IsTree, HangsTogether, Hangs

LEMMA ClosedOver ==
  ASSUME NEW X, NEW F, NEW D, X \subseteq D, \A p \in D \union F : Parents(p) \subseteq D,
         \A d \in D : d \in X \/ \E p \in X \union F : d \in Parents(p)
  PROVE  Closed(X, F) = D
  <1>1. ASSUME NEW d \in Closed(X, F) PROVE d \in D
    <2>1. d \in X \/ \E p \in X \union F : d \in Parents(p)
      BY ClosedIs
    <2>2. QED
      BY <2>1
  <1>2. ASSUME NEW d \in D PROVE d \in Closed(X, F)
    BY ClosedIs
  <1>3. QED
    BY <1>1, <1>2

(* The directories of a Vault in which a command changes none, and of one  *)
(* in which it makes one.                                                  *)
LEMMA NoneMade ==
  ASSUME NEW old, NEW now, NEW spaces, NEW markers, NEW docs, Hangs(now, spaces, markers, docs)
  PROVE  Closed((now \ (old \ old)) \union (old \ old) \union spaces \union markers, docs) = now
  <1> DEFINE X == (now \ (old \ old)) \union (old \ old) \union spaces \union markers
  <1>1. X = now
    BY DEF Hangs
  <1>2. Closed(X, docs) = now
    <2> HIDE DEF X
    <2>1. QED
      BY <1>1, ClosedOver DEF Hangs
  <1>3. QED
    BY <1>2

Adds(new, old, p) == new = old \union {p} \union Parents(p)

LEMMA OneMade ==
  ASSUME NEW old, NEW now, NEW spaces, NEW markers, NEW docs, NEW p, NEW new, NEW made,
         Adds(new, old, p), Adds(made, now, p), Hangs(made, spaces, markers, docs), p \in spaces \union markers
  PROVE  Closed((now \ (old \ new)) \union (new \ old) \union spaces \union markers, docs) = made
  <1> DEFINE X == (now \ (old \ new)) \union (new \ old) \union spaces \union markers
  <1>1. X \subseteq made /\ now \subseteq X /\ p \in X
    BY DEF Hangs, Adds
  <1>2. \A d \in made : d \in X \/ d \in Parents(p)
    BY <1>1 DEF Adds
  <1>3. Closed(X, docs) = made
    <2> HIDE DEF X
    <2>1. \A x \in made \union docs : Parents(x) \subseteq made
      BY DEF Hangs
    <2>2. \A d \in made : d \in X \/ \E x \in X \union docs : d \in Parents(x)
      BY <1>1, <1>2
    <2>3. QED
      BY <1>1, <2>1, <2>2, ClosedOver
  <1>4. QED
    BY <1>3

LEMMA MadeHangs ==
  ASSUME NEW dirs, NEW spaces, NEW markers, NEW docs, Hangs(dirs, spaces, markers, docs), NEW p, IsPath(p)
  PROVE  Hangs(dirs \union {p} \union Parents(p), spaces \union {p}, markers, docs)
         /\ Hangs(dirs \union {p} \union Parents(p), spaces, markers \union {p}, docs)
  <1> DEFINE D == dirs \union {p} \union Parents(p)
  <1>1. p \in Seq(Names)
    BY DEF IsPath, Names
  <1>2. ASSUME NEW x \in D \union docs PROVE Parents(x) \subseteq D
    <2>1. CASE x \in dirs \union docs
      BY <2>1 DEF Hangs
    <2>2. CASE x = p
      BY <2>2
    <2>3. CASE x \in Parents(p)
      BY <1>1, <2>3, ParentsAbove
    <2>4. QED
      BY <2>1, <2>2, <2>3
  <1>3. spaces \subseteq D /\ markers \subseteq D /\ p \in D
    BY DEF Hangs
  <1> HIDE DEF D
  <1>4. QED
    BY <1>2, <1>3 DEF Hangs, D

(* What no comparison covers is as it was read.                            *)
SeenAlike(q, S, V) ==
  /\ q.op \in {"space-create", "space-adopt", "create", "adopt"} =>
       V.marker = S.marker /\ V.space = S.space /\ V.roots = S.roots /\ V.outside = S.outside
  /\ q.op = "merge" => S.roots = V.roots /\ DOMAIN S.doc = DOMAIN V.doc /\ DOMAIN S.marker = DOMAIN V.marker
  /\ q.op = "delete" => V.roots = S.roots /\ DirsOf(V, q.id) = DirsOf(S, q.id)
  /\ q.op = "format" => Readable(V) /\ DirsOf(V, q.id) = DirsOf(S, q.id)
  /\ q.op = "space-format" => SpacesOf(V, q.id) = SpacesOf(S, q.id)
  /\ q.op \in {"rename", "move"} => DOMAIN S.space \subseteq DOMAIN V.space
  /\ q.op = "move" => SpacesOf(V, q.to) = SpacesOf(S, q.to)

(* The fields that a plan leaves, as DocsLeft and MarkersLeft              *)
InPlace(q, S, V) == Base(q, S, S) = S /\ Base(q, S, V) = V
PatchedInPlace(W, new, S, V) ==
  /\ Shaped(W) /\ W.outside = V.outside
  /\ W.space = Patched(S.space, new.space, V.space) /\ W.marker = Patched(S.marker, new.marker, V.marker)
  /\ W.doc = Patched(S.doc, new.doc, V.doc) /\ W.roots = Patched(S.roots, new.roots, V.roots)
  /\ new.space = S.space => W.space = V.space
  /\ new.marker = S.marker => W.marker = V.marker
  /\ new.doc = S.doc => W.doc = V.doc
  /\ new.roots = S.roots => W.roots = V.roots
  /\ W.dirs = Closed((V.dirs \ (S.dirs \ new.dirs)) \union (new.dirs \ S.dirs)
                       \union DOMAIN W.space \union DOMAIN W.marker, DOMAIN W.doc)

LEMMA OthersLeft ==
  ASSUME NEW q, NEW S, NEW H, NEW V, Ready(q, S, H, V), InPlace(q, S, V)
  PROVE  PatchedInPlace(Applied(q, S, V), Effect(q, S), S, V)
  <1> DEFINE W == Applied(q, S, V)
             new == Effect(q, S)
  <1>1. IsApplied(W, q, S, V) /\ HasTypes(V)
    BY ReadyIs
  <1>2. IsMap(V.space) /\ IsMap(V.roots) /\ IsMap(V.marker) /\ IsMap(V.doc)
    BY <1>1 DEF HasTypes, AreSpaces, AreMarkers, AreDocs
  <1>3. /\ Shaped(W) /\ W.outside = V.outside
        /\ W.space = Patched(S.space, new.space, V.space) /\ W.marker = Patched(S.marker, new.marker, V.marker)
        /\ W.doc = Patched(S.doc, new.doc, V.doc) /\ W.roots = Patched(S.roots, new.roots, V.roots)
        /\ W.dirs = Closed((V.dirs \ (S.dirs \ new.dirs)) \union (new.dirs \ S.dirs)
                             \union DOMAIN W.space \union DOMAIN W.marker, DOMAIN W.doc)
    BY <1>1 DEF IsApplied, InPlace
  <1> HIDE DEF W, new
  <1>4. PatchedInPlace(W, new, S, V)
    BY <1>2, <1>3, PatchedNothing DEF PatchedInPlace
  <1>5. QED
    BY <1>4 DEF W, new

LEMMA AllowedAgain ==
  ASSUME NEW q, NEW V, IsRequest(q),
         q.op \notin {"space-create", "space-adopt", "space-format"} => Readable(V)
  PROVE  /\ q.op \in {"space-create", "space-adopt"} /\ MayDefineSpace(q, V) => Allowed(q, V)
         /\ q.op = "create" /\ MayDefine(q, V) => Allowed(q, V)
         /\ q.op \in {"format", "space-format"} /\ MayFormat(q, V) => Allowed(q, V)
         /\ q.op = "rename" /\ MayRename(q, V) => Allowed(q, V)
         /\ q.op = "move" /\ MayMove(q, V) => Allowed(q, V)
         /\ q.op = "rekey" /\ MayRekey(q, V) => Allowed(q, V)
         /\ q.op = "merge" /\ MayMerge(q, V) => Allowed(q, V)
         /\ q.op = "delete" /\ MayDelete(q, V) => Allowed(q, V)
         /\ q.op = "adopt" /\ MayAdopt(q, V) => Allowed(q, V)
  BY DEF Allowed, IsRequest

LEMMA ReadableWas ==
  ASSUME NEW q, NEW S, Allowed(q, S), q.op \notin {"space-create", "space-adopt", "space-format"}
  PROVE  Readable(S)
  BY DEF Allowed

(* space create and space adopt                                            *)
IsSpaceDefined(E, V, q) ==
  /\ Shaped(E) /\ Adds(E.dirs, V.dirs, q.path)
  /\ E.space = With(V.space, q.path, [id |-> q.id, loose |-> FALSE])
  /\ E.marker = V.marker /\ E.doc = V.doc /\ E.roots = V.roots /\ E.outside = V.outside

LEMMA DefineSpaceIs ==
  ASSUME NEW V, HasTypes(V), NEW q, IsPath(q.path)
  PROVE  IsSpaceDefined(DefineSpace(q, V), V, q)
  <1> DEFINE M == Make(V, q.path)
             s == [id |-> q.id, loose |-> FALSE]
             W == DefineSpace(q, V)
  <1>1. IsMade(M, V, q.path)
    BY TypesMade
  <1>2. W = [M EXCEPT !.space = With(@, q.path, s)]
    BY DEF DefineSpace
  <1> HIDE DEF M, s, W
  <1>3. DOMAIN W = DOMAIN M /\ W = [x \in DOMAIN M |-> W[x]]
    BY <1>1, <1>2 DEF IsMade, Shaped
  <1>4. /\ W.space = With(M.space, q.path, s) /\ W.dirs = M.dirs /\ W.marker = M.marker /\ W.doc = M.doc
        /\ W.roots = M.roots /\ W.outside = M.outside
    BY <1>1, <1>2 DEF IsMade, Shaped
  <1>5. Shaped(W)
    BY <1>1, <1>3, StaysShaped DEF IsMade
  <1>6. IsSpaceDefined(W, V, q)
    BY <1>1, <1>4, <1>5 DEF IsMade, IsSpaceDefined, Adds, s
  <1>7. QED
    BY <1>6 DEF W

LEMMA SpaceAlone ==
  ASSUME NEW q, NEW S, NEW H, NEW V, Ready(q, S, H, V), SeenAlike(q, S, V), q.op \in {"space-create", "space-adopt"}
  PROVE  Allowed(q, V) /\ Applied(q, S, V) = Effect(q, V)
  <1> DEFINE W == Applied(q, S, V)
             E == Effect(q, V)
             new == Effect(q, S)
  <1>1. HasTypes(S) /\ HasTypes(V) /\ IsTree(S) /\ IsTree(V) /\ IsRequest(q) /\ Allowed(q, S) /\ ~CannotMake(q, V)
    BY ReadyIs
  <1>2. IsPath(q.path) /\ V.marker = S.marker /\ V.space = S.space /\ V.roots = S.roots
    BY <1>1 DEF IsRequest, SeenAlike
  <1>3. MayDefineSpace(q, S) /\ DefineStands(q, V)
    BY <1>1, AllowedIs, StandsIs DEF Ready
  <1>4. MayDefineSpace(q, V)
    <2>1. (q.path \in V.dirs) <=> q.op = "space-adopt"
      BY <1>3 DEF DefineStands, Exists
    <2>2. SpacesOf(V, q.id) = SpacesOf(S, q.id)
      BY <1>2 DEF SpacesOf
    <2>3. QED
      BY <1>2, <1>3, <2>1, <2>2 DEF MayDefineSpace
  <1>5. PatchedInPlace(W, new, S, V) /\ E = DefineSpace(q, V) /\ new = DefineSpace(q, S)
    <2>1. InPlace(q, S, V)
      BY <1>1, BaseIs DEF InPlace
    <2>2. QED
      BY <1>1, <2>1, OthersLeft, EffectIs
  <1>6. IsSpaceDefined(E, V, q) /\ IsSpaceDefined(new, S, q)
    BY <1>1, <1>2, <1>5, DefineSpaceIs
  <1> HIDE DEF W, E, new
  <1>7. W.marker = V.marker /\ W.doc = V.doc
    BY <1>5, <1>6 DEF IsSpaceDefined, PatchedInPlace
  <1>8. /\ Shaped(W) /\ W.roots = V.roots /\ W.outside = V.outside
        /\ W.dirs = Closed((V.dirs \ (S.dirs \ new.dirs)) \union (new.dirs \ S.dirs)
                             \union DOMAIN W.space \union DOMAIN W.marker, DOMAIN W.doc)
    BY <1>5, <1>6 DEF IsSpaceDefined, PatchedInPlace
  <1>9. W.space = Patched(S.space, new.space, V.space) /\ IsMap(new.space)
    <2>1. HasTypes(new)
      BY <1>1, EffectHasTypes DEF new
    <2>2. QED
      BY <1>5, <2>1 DEF PatchedInPlace, HasTypes, AreSpaces
  <1>10. W.space = E.space
    <2>1. W.space = new.space
      BY <1>2, <1>9, PatchedAll
    <2>2. QED
      BY <1>2, <1>6, <2>1 DEF IsSpaceDefined
  <1>11. W.dirs = E.dirs
    <2>1. DOMAIN E.space = DOMAIN V.space \union {q.path}
      <3>1. IsMap(V.space)
        BY <1>1 DEF HasTypes, AreSpaces
      <3>2. IsWith(E.space, V.space, q.path, [id |-> q.id, loose |-> FALSE])
        BY <1>6, <3>1, WithIs DEF IsSpaceDefined
      <3>3. QED
        BY <3>2 DEF IsWith
    <2>2. Hangs(E.dirs, DOMAIN E.space, DOMAIN E.marker, DOMAIN E.doc)
      <3>1. Hangs(V.dirs, DOMAIN V.space, DOMAIN V.marker, DOMAIN V.doc)
        BY <1>1, TreeHangs DEF HangsTogether
      <3>2. Hangs(V.dirs \union {q.path} \union Parents(q.path), DOMAIN V.space \union {q.path}, DOMAIN V.marker, DOMAIN V.doc)
        BY <1>2, <3>1, MadeHangs
      <3>3. QED
        BY <1>6, <2>1, <3>2 DEF IsSpaceDefined, Adds
    <2>3. Adds(new.dirs, S.dirs, q.path) /\ Adds(E.dirs, V.dirs, q.path) /\ q.path \in DOMAIN E.space \union DOMAIN E.marker
      BY <1>6, <2>1 DEF IsSpaceDefined
    <2>4. E.dirs = Closed((V.dirs \ (S.dirs \ new.dirs)) \union (new.dirs \ S.dirs)
                            \union DOMAIN E.space \union DOMAIN E.marker, DOMAIN E.doc)
      BY <2>2, <2>3, OneMade
    <2>5. DOMAIN W.space = DOMAIN E.space /\ DOMAIN W.marker = DOMAIN E.marker /\ DOMAIN W.doc = DOMAIN E.doc
      BY <1>6, <1>7, <1>10 DEF IsSpaceDefined
    <2>6. QED
      BY <1>8, <2>4, <2>5
  <1>12. W = E
    BY <1>6, <1>7, <1>8, <1>10, <1>11, SameVault DEF IsSpaceDefined
  <1>13. Allowed(q, V)
    BY <1>1, <1>4, AllowedAgain
  <1>14. QED
    BY <1>12, <1>13 DEF W, E

(* domain create                                                           *)
IsDeclared(E, V, q, m) ==
  /\ Shaped(E) /\ Adds(E.dirs, V.dirs, q.path) /\ E.marker = With(V.marker, q.path, m)
  /\ E.space = V.space /\ E.doc = V.doc /\ E.roots = V.roots /\ E.outside = V.outside

LEMMA DeclareIs ==
  ASSUME NEW V, HasTypes(V), NEW q, IsPath(q.path)
  PROVE  IsDeclared(Declare(V, q), V, q, NewMarker(q.id, Nearest(V, q.path)))
  <1> DEFINE M == Make(V, q.path)
             m == NewMarker(q.id, Nearest(V, q.path))
             W == Declare(V, q)
  <1>1. IsMade(M, V, q.path)
    BY TypesMade
  <1>2. W = [M EXCEPT !.marker = With(@, q.path, m)]
    BY DEF Declare
  <1> HIDE DEF M, m, W
  <1>3. DOMAIN W = DOMAIN M /\ W = [x \in DOMAIN M |-> W[x]]
    BY <1>1, <1>2 DEF IsMade, Shaped
  <1>4. /\ W.marker = With(M.marker, q.path, m) /\ W.dirs = M.dirs /\ W.space = M.space /\ W.doc = M.doc
        /\ W.roots = M.roots /\ W.outside = M.outside
    BY <1>1, <1>2 DEF IsMade, Shaped
  <1>5. Shaped(W)
    BY <1>1, <1>3, StaysShaped DEF IsMade
  <1>6. IsDeclared(W, V, q, m)
    BY <1>1, <1>4, <1>5 DEF IsMade, IsDeclared, Adds
  <1>7. QED
    BY <1>6 DEF W, m

LEMMA CreateAlone ==
  ASSUME NEW q, NEW S, NEW H, NEW V, Ready(q, S, H, V), SeenAlike(q, S, V), q.op = "create"
  PROVE  Allowed(q, V) /\ Applied(q, S, V) = Effect(q, V)
  <1> DEFINE W == Applied(q, S, V)
             E == Effect(q, V)
             new == Effect(q, S)
             m == NewMarker(q.id, Nearest(S, q.path))
  <1>1. HasTypes(S) /\ HasTypes(V) /\ IsTree(S) /\ IsTree(V) /\ IsRequest(q) /\ Allowed(q, S) /\ ~CannotMake(q, V)
    BY ReadyIs
  <1>2. IsPath(q.path) /\ V.marker = S.marker /\ V.space = S.space /\ V.roots = S.roots
    BY <1>1 DEF IsRequest, SeenAlike
  <1>3. MayDefine(q, S) /\ ~Exists(S, q.path) /\ ~Exists(V, q.path)
    BY <1>1, AllowedIs, StandsIs DEF Ready, MayDefine, Fits, DefineStands
  <1>4. MayDefine(q, V)
    <2>1. Ids(V) = Ids(S) /\ (ParentAgrees(V, q) <=> ParentAgrees(S, q))
      BY <1>2, MarkersAlike, RootsAlike
    <2>2. InSpace(V, q.path)
      BY <1>2, <1>3 DEF MayDefine, Fits, InSpace
    <2>3. QED
      BY <1>3, <2>1, <2>2 DEF MayDefine, Fits
  <1>5. PatchedInPlace(W, new, S, V) /\ E = Declare(V, q) /\ new = Declare(S, q)
    <2>1. InPlace(q, S, V)
      BY <1>1, BaseIs DEF InPlace
    <2>2. QED
      BY <1>1, <2>1, OthersLeft, EffectIs
  <1>6. IsDeclared(E, V, q, m) /\ IsDeclared(new, S, q, m)
    <2>1. Nearest(V, q.path) = Nearest(S, q.path)
      BY <1>2, MarkersAlike
    <2>2. QED
      BY <1>1, <1>2, <1>5, <2>1, DeclareIs
  <1> HIDE DEF m, W, E, new
  <1>7. W.doc = V.doc
    BY <1>5, <1>6 DEF IsDeclared, PatchedInPlace
  <1>8. /\ Shaped(W) /\ W.space = V.space /\ W.roots = V.roots /\ W.outside = V.outside
        /\ W.dirs = Closed((V.dirs \ (S.dirs \ new.dirs)) \union (new.dirs \ S.dirs)
                             \union DOMAIN W.space \union DOMAIN W.marker, DOMAIN W.doc)
    BY <1>5, <1>6 DEF IsDeclared, PatchedInPlace
  <1>9. W.marker = Patched(S.marker, new.marker, V.marker) /\ IsMap(new.marker)
    <2>1. HasTypes(new)
      BY <1>1, EffectHasTypes DEF new
    <2>2. QED
      BY <1>5, <2>1 DEF PatchedInPlace, HasTypes, AreMarkers
  <1>10. W.marker = E.marker
    <2>1. W.marker = new.marker
      BY <1>2, <1>9, PatchedAll
    <2>2. QED
      BY <1>2, <1>6, <2>1 DEF IsDeclared
  <1>11. W.dirs = E.dirs
    <2>1. DOMAIN E.marker = DOMAIN V.marker \union {q.path}
      <3>1. IsMap(V.marker)
        BY <1>1 DEF HasTypes, AreMarkers
      <3>2. IsWith(E.marker, V.marker, q.path, m)
        BY <1>6, <3>1, WithIs DEF IsDeclared
      <3>3. QED
        BY <3>2 DEF IsWith
    <2>2. Hangs(E.dirs, DOMAIN E.space, DOMAIN E.marker, DOMAIN E.doc)
      <3>1. Hangs(V.dirs, DOMAIN V.space, DOMAIN V.marker, DOMAIN V.doc)
        BY <1>1, TreeHangs DEF HangsTogether
      <3>2. Hangs(V.dirs \union {q.path} \union Parents(q.path), DOMAIN V.space, DOMAIN V.marker \union {q.path}, DOMAIN V.doc)
        BY <1>2, <3>1, MadeHangs
      <3>3. QED
        BY <1>6, <2>1, <3>2 DEF IsDeclared, Adds
    <2>3. Adds(new.dirs, S.dirs, q.path) /\ Adds(E.dirs, V.dirs, q.path) /\ q.path \in DOMAIN E.space \union DOMAIN E.marker
      BY <1>6, <2>1 DEF IsDeclared
    <2>4. E.dirs = Closed((V.dirs \ (S.dirs \ new.dirs)) \union (new.dirs \ S.dirs)
                            \union DOMAIN E.space \union DOMAIN E.marker, DOMAIN E.doc)
      BY <2>2, <2>3, OneMade
    <2>5. DOMAIN W.space = DOMAIN E.space /\ DOMAIN W.marker = DOMAIN E.marker /\ DOMAIN W.doc = DOMAIN E.doc
      BY <1>6, <1>7, <1>8, <1>10 DEF IsDeclared
    <2>6. QED
      BY <1>8, <2>4, <2>5
  <1>12. W = E
    BY <1>6, <1>7, <1>8, <1>10, <1>11, SameVault DEF IsDeclared
  <1>13. Allowed(q, V)
    <2>1. Readable(V)
      BY <1>1, <1>2, ReadableWas, RootsAlike
    <2>2. QED
      BY <1>1, <1>4, <2>1, AllowedAgain
  <1>14. QED
    BY <1>12, <1>13 DEF W, E

(* One entry changes, and it is as it was read: what is written is what    *)
(* would be written now.                                                   *)
LEMMA PatchedAt ==
  ASSUME NEW old, IsMap(old), NEW now, IsMap(now), NEW x \in DOMAIN old, x \in DOMAIN now, now[x] = old[x], NEW y
  PROVE  Patched(old, [old EXCEPT ![x] = y], now) = [now EXCEPT ![x] = y]
  <1> DEFINE n == [old EXCEPT ![x] = y]
             g == Patched(old, n, now)
             k == [now EXCEPT ![x] = y]
  <1>1. DOMAIN n = DOMAIN old /\ n[x] = y /\ \A z \in DOMAIN old : z # x => n[z] = old[z]
    OBVIOUS
  <1>2. DOMAIN k = DOMAIN now /\ k[x] = y /\ (\A z \in DOMAIN now : z # x => k[z] = now[z]) /\ k = [z \in DOMAIN k |-> k[z]]
    OBVIOUS
  <1>3. IsMap(n)
    <2>1. n = [z \in DOMAIN n |-> n[z]]
      OBVIOUS
    <2> HIDE DEF n
    <2>2. QED
      BY <1>1, <2>1 DEF IsMap
  <1>4. IsPatched(g, old, n, now)
    <2> HIDE DEF n
    <2>1. QED
      BY <1>3, PatchedIs
  <1> HIDE DEF n, g, k
  <1>5. g = [z \in DOMAIN g |-> g[z]]
    BY <1>4 DEF IsPatched, IsMap
  <1>6. \A z : Writing(old, n, z) => z = x
    BY <1>1 DEF Writing
  <1>7. DOMAIN g = DOMAIN now
    <2>1. ASSUME NEW z \in DOMAIN g PROVE z \in DOMAIN now
      BY <1>4, <1>6 DEF IsPatched
    <2>2. ASSUME NEW z \in DOMAIN now PROVE z \in DOMAIN g
      BY <1>1, <1>4 DEF IsPatched
    <2>3. QED
      BY <2>1, <2>2
  <1>8. ASSUME NEW z \in DOMAIN now PROVE g[z] = k[z]
    <2>1. CASE Writing(old, n, z)
      BY <1>1, <1>2, <1>4, <1>6, <1>7, <2>1 DEF IsPatched
    <2>2. CASE ~Writing(old, n, z) /\ z # x
      BY <1>2, <1>4, <1>7, <2>2 DEF IsPatched
    <2>3. CASE ~Writing(old, n, z) /\ z = x
      <3>1. g[x] = now[x]
        BY <1>4, <1>7, <2>3 DEF IsPatched
      <3>2. old[x] = y
        BY <1>1, <2>3 DEF Writing
      <3>3. QED
        BY <1>2, <2>3, <3>1, <3>2
    <2>4. QED
      BY <2>1, <2>2, <2>3
  <1>9. g = k
    BY <1>2, <1>5, <1>7, <1>8
  <1>10. QED
    BY <1>9 DEF g, k, n

(* domain format and space format                                          *)
IsFormatted(E, V, d, m) ==
  /\ Shaped(E) /\ E.marker = [V.marker EXCEPT ![d] = m]
  /\ E.dirs = V.dirs /\ E.space = V.space /\ E.doc = V.doc /\ E.roots = V.roots /\ E.outside = V.outside
IsSpaceFormatted(E, V, s, m) ==
  /\ Shaped(E) /\ E.space = [V.space EXCEPT ![s] = m]
  /\ E.dirs = V.dirs /\ E.marker = V.marker /\ E.doc = V.doc /\ E.roots = V.roots /\ E.outside = V.outside

LEMMA FormatIs ==
  ASSUME NEW V, Shaped(V), NEW d, NEW s
  PROVE  /\ IsFormatted([V EXCEPT !.marker[d].loose = FALSE], V, d, [V.marker[d] EXCEPT !.loose = FALSE])
         /\ IsSpaceFormatted([V EXCEPT !.space[s].loose = FALSE], V, s, [V.space[s] EXCEPT !.loose = FALSE])
  <1>1. IsFormatted([V EXCEPT !.marker[d].loose = FALSE], V, d, [V.marker[d] EXCEPT !.loose = FALSE])
    <2> DEFINE m == [V.marker[d] EXCEPT !.loose = FALSE]
               f == [V.marker EXCEPT ![d] = m]
               W == [V EXCEPT !.marker[d].loose = FALSE]
    <2>1. W = [V EXCEPT !.marker = f]
      OBVIOUS
    <2> HIDE DEF m, f, W
    <2>2. DOMAIN W = DOMAIN V /\ W = [x \in DOMAIN V |-> W[x]]
      BY <2>1 DEF Shaped
    <2>3. /\ W.marker = f /\ W.space = V.space /\ W.dirs = V.dirs /\ W.doc = V.doc
          /\ W.roots = V.roots /\ W.outside = V.outside
      BY <2>1 DEF Shaped
    <2>4. Shaped(W)
      BY <2>2, StaysShaped
    <2>5. QED
      BY <2>3, <2>4 DEF IsFormatted, W, f, m
  <1>2. IsSpaceFormatted([V EXCEPT !.space[s].loose = FALSE], V, s, [V.space[s] EXCEPT !.loose = FALSE])
    <2> DEFINE m == [V.space[s] EXCEPT !.loose = FALSE]
               f == [V.space EXCEPT ![s] = m]
               W == [V EXCEPT !.space[s].loose = FALSE]
    <2>1. W = [V EXCEPT !.space = f]
      OBVIOUS
    <2> HIDE DEF m, f, W
    <2>2. DOMAIN W = DOMAIN V /\ W = [x \in DOMAIN V |-> W[x]]
      BY <2>1 DEF Shaped
    <2>3. /\ W.space = f /\ W.marker = V.marker /\ W.dirs = V.dirs /\ W.doc = V.doc
          /\ W.roots = V.roots /\ W.outside = V.outside
      BY <2>1 DEF Shaped
    <2>4. Shaped(W)
      BY <2>2, StaysShaped
    <2>5. QED
      BY <2>3, <2>4 DEF IsSpaceFormatted, W, f, m
  <1>3. QED
    BY <1>1, <1>2

(* What makes no directory leaves them.                                    *)
LEMMA DirsLeft ==
  ASSUME NEW W, NEW new, NEW S, NEW V, IsTree(V), PatchedInPlace(W, new, S, V), new.dirs = S.dirs,
         DOMAIN W.space = DOMAIN V.space, DOMAIN W.marker = DOMAIN V.marker, DOMAIN W.doc = DOMAIN V.doc
  PROVE  W.dirs = V.dirs
  <1>1. W.dirs = Closed((V.dirs \ (S.dirs \ S.dirs)) \union (S.dirs \ S.dirs) \union DOMAIN V.space \union DOMAIN V.marker,
                        DOMAIN V.doc)
    BY DEF PatchedInPlace
  <1>2. Hangs(V.dirs, DOMAIN V.space, DOMAIN V.marker, DOMAIN V.doc)
    BY TreeHangs DEF HangsTogether
  <1>3. QED
    BY <1>1, <1>2, NoneMade

LEMMA FormatAlone ==
  ASSUME NEW q, NEW S, NEW H, NEW V, Ready(q, S, H, V), SeenAlike(q, S, V), q.op = "format"
  PROVE  Allowed(q, V) /\ Applied(q, S, V) = Effect(q, V)
  <1> DEFINE W == Applied(q, S, V)
             E == Effect(q, V)
             new == Effect(q, S)
             d == DirOf(S, q.id)
             m == [S.marker[d] EXCEPT !.loose = FALSE]
  <1>1. HasTypes(S) /\ HasTypes(V) /\ IsTree(V) /\ IsRequest(q) /\ Allowed(q, S) /\ Readable(V) /\ DirsOf(V, q.id) = DirsOf(S, q.id)
    BY ReadyIs DEF SeenAlike
  <1>2. Known(S, q.id) /\ Known(V, q.id) /\ DirOf(V, q.id) = d
    <2>1. Known(S, q.id)
      BY <1>1, AllowedIs DEF MayFormat
    <2>2. QED
      BY <1>1, <2>1 DEF Known, DirOf
  <1>3. d \in DOMAIN S.marker /\ d \in DOMAIN V.marker /\ V.marker[d] = S.marker[d]
    BY <1>1, <1>2, KnownIs, StandsIs DEF Ready, FormatStands
  <1>4. PatchedInPlace(W, new, S, V)
    <2>1. InPlace(q, S, V)
      BY <1>1, BaseIs DEF InPlace
    <2>2. QED
      BY <2>1, OthersLeft
  <1>5. E = [V EXCEPT !.marker[DirOf(V, q.id)].loose = FALSE] /\ new = [S EXCEPT !.marker[d].loose = FALSE]
    BY <1>1, EffectIs DEF Format
  <1>6. IsFormatted(E, V, d, m) /\ IsFormatted(new, S, d, m)
    <2>1. Shaped(V) /\ Shaped(S)
      BY <1>1, IsShaped
    <2>2. IsFormatted([V EXCEPT !.marker[d].loose = FALSE], V, d, [V.marker[d] EXCEPT !.loose = FALSE])
      <3> HIDE DEF d
      <3>1. QED
        BY <2>1, FormatIs
    <2>3. IsFormatted([S EXCEPT !.marker[d].loose = FALSE], S, d, m)
      <3> HIDE DEF d
      <3>1. QED
        BY <2>1, FormatIs
    <2>4. QED
      BY <1>2, <1>3, <1>5, <2>2, <2>3
  <1> HIDE DEF m, d, W, E, new
  <1>7. Shaped(W) /\ W.doc = V.doc /\ W.space = V.space /\ W.roots = V.roots /\ W.outside = V.outside
    BY <1>4, <1>6 DEF IsFormatted, PatchedInPlace
  <1>8. W.marker = [V.marker EXCEPT ![d] = m]
    <2>1. W.marker = Patched(S.marker, new.marker, V.marker) /\ new.marker = [S.marker EXCEPT ![d] = m]
      BY <1>4, <1>6 DEF IsFormatted, PatchedInPlace
    <2>2. IsMap(S.marker) /\ IsMap(V.marker)
      BY <1>1 DEF HasTypes, AreMarkers
    <2>3. QED
      BY <1>3, <2>1, <2>2, PatchedAt
  <1>9. new.dirs = S.dirs
    BY <1>6 DEF IsFormatted
  <1>10. W.dirs = V.dirs
    <2>1. DOMAIN W.marker = DOMAIN V.marker
      BY <1>8
    <2>2. QED
      BY <1>1, <1>4, <1>7, <1>9, <2>1, DirsLeft
  <1>11. W = E
    BY <1>6, <1>7, <1>8, <1>10, SameVault DEF IsFormatted
  <1>12. Allowed(q, V)
    BY <1>1, <1>2, AllowedAgain DEF MayFormat
  <1>13. QED
    BY <1>11, <1>12 DEF W, E

LEMMA SpaceFormatAlone ==
  ASSUME NEW q, NEW S, NEW H, NEW V, Ready(q, S, H, V), SeenAlike(q, S, V), q.op = "space-format"
  PROVE  Allowed(q, V) /\ Applied(q, S, V) = Effect(q, V)
  <1> DEFINE W == Applied(q, S, V)
             E == Effect(q, V)
             new == Effect(q, S)
             s == CHOOSE z \in SpacesOf(S, q.id) : TRUE
             m == [S.space[s] EXCEPT !.loose = FALSE]
  <1>1. HasTypes(S) /\ HasTypes(V) /\ IsTree(V) /\ IsRequest(q) /\ Allowed(q, S) /\ SpacesOf(V, q.id) = SpacesOf(S, q.id)
    BY ReadyIs DEF SeenAlike
  <1>2. MayFormat(q, S) /\ FormatStands(q, S, V)
    BY <1>1, AllowedIs, StandsIs DEF Ready
  <1>3. SpacesOf(S, q.id) # {} /\ s \in SpacesOf(S, q.id)
    BY <1>2 DEF MayFormat
  <1>4. s \in DOMAIN S.space /\ s \in DOMAIN V.space /\ V.space[s] = S.space[s]
    <2> HIDE DEF s
    <2>1. QED
      BY <1>2, <1>3 DEF FormatStands, SpacesOf
  <1>5. PatchedInPlace(W, new, S, V)
    <2>1. InPlace(q, S, V)
      BY <1>1, BaseIs DEF InPlace
    <2>2. QED
      BY <2>1, OthersLeft
  <1>6. E = [V EXCEPT !.space[s].loose = FALSE] /\ new = [S EXCEPT !.space[s].loose = FALSE]
    <2>1. E = Format(q, V) /\ new = Format(q, S)
      BY <1>1, EffectIs
    <2>2. s = CHOOSE z \in SpacesOf(V, q.id) : TRUE
      BY <1>1
    <2> HIDE DEF E, new
    <2>3. E = [V EXCEPT !.space[s].loose = FALSE]
      BY <2>1, <2>2 DEF Format
    <2>4. new = [S EXCEPT !.space[s].loose = FALSE]
      BY <2>1 DEF Format
    <2>5. QED
      BY <2>3, <2>4
  <1> HIDE DEF s
  <1>7. IsSpaceFormatted(E, V, s, m) /\ IsSpaceFormatted(new, S, s, m)
    <2>1. Shaped(V) /\ Shaped(S)
      BY <1>1, IsShaped
    <2>2. IsSpaceFormatted([V EXCEPT !.space[s].loose = FALSE], V, s, [V.space[s] EXCEPT !.loose = FALSE])
      BY <2>1, FormatIs
    <2>3. IsSpaceFormatted([S EXCEPT !.space[s].loose = FALSE], S, s, m)
      BY <2>1, FormatIs
    <2>4. QED
      BY <1>4, <1>6, <2>2, <2>3
  <1> HIDE DEF m, W, E, new
  <1>8. Shaped(W) /\ W.doc = V.doc /\ W.marker = V.marker /\ W.roots = V.roots /\ W.outside = V.outside
    BY <1>5, <1>7 DEF IsSpaceFormatted, PatchedInPlace
  <1>9. W.space = [V.space EXCEPT ![s] = m]
    <2>1. W.space = Patched(S.space, new.space, V.space) /\ new.space = [S.space EXCEPT ![s] = m]
      BY <1>5, <1>7 DEF IsSpaceFormatted, PatchedInPlace
    <2>2. IsMap(S.space) /\ IsMap(V.space)
      BY <1>1 DEF HasTypes, AreSpaces
    <2>3. QED
      BY <1>4, <2>1, <2>2, PatchedAt
  <1>10. new.dirs = S.dirs
    BY <1>7 DEF IsSpaceFormatted
  <1>11. W.dirs = V.dirs
    <2>1. DOMAIN W.space = DOMAIN V.space
      BY <1>9
    <2>2. QED
      BY <1>1, <1>5, <1>8, <1>10, <2>1, DirsLeft
  <1>12. W = E
    BY <1>7, <1>8, <1>9, <1>11, SameVault DEF IsSpaceFormatted
  <1>13. Allowed(q, V)
    <2>1. MayFormat(q, V)
      BY <1>1, <1>3 DEF MayFormat
    <2>2. QED
      BY <1>1, <2>1 DEF Allowed
  <1>14. QED
    BY <1>12, <1>13 DEF W, E

(* What rename, move, rekey and merge write depends on documents,          *)
(* declarations and roots, and on nothing else.                            *)
Alike(V, S) == V.doc = S.doc /\ V.marker = S.marker /\ V.roots = S.roots
SameRest(W, V) == Shaped(W) /\ W.space = V.space /\ W.dirs = V.dirs /\ W.outside = V.outside

LEMMA MarkerPutAlike ==
  ASSUME NEW V, Shaped(V), NEW S, Shaped(S), Alike(V, S), NEW f
  PROVE  /\ Alike([V EXCEPT !.marker = f], [S EXCEPT !.marker = f])
         /\ SameRest([V EXCEPT !.marker = f], V)
  <1> DEFINE W == [V EXCEPT !.marker = f]
             U == [S EXCEPT !.marker = f]
  <1>1. DOMAIN W = DOMAIN V /\ W = [x \in DOMAIN V |-> W[x]]
    BY DEF Shaped
  <1>2. /\ W.marker = f /\ W.doc = V.doc /\ W.roots = V.roots
        /\ W.space = V.space /\ W.dirs = V.dirs /\ W.outside = V.outside
    BY DEF Shaped
  <1>3. U.marker = f /\ U.doc = S.doc /\ U.roots = S.roots
    BY DEF Shaped
  <1> HIDE DEF W, U
  <1>4. Shaped(W)
    BY <1>1, StaysShaped
  <1>5. Alike(W, U) /\ SameRest(W, V)
    BY <1>2, <1>3, <1>4 DEF Alike, SameRest
  <1>6. QED
    BY <1>5 DEF W, U

LEMMA MarkerChangedAlike ==
  ASSUME NEW V, Shaped(V), NEW S, Shaped(S), Alike(V, S), NEW d, NEW x
  PROVE  /\ Alike([V EXCEPT !.marker[d].name = x], [S EXCEPT !.marker[d].name = x])
         /\ SameRest([V EXCEPT !.marker[d].name = x], V)
         /\ Alike([V EXCEPT !.marker[d].parent = x], [S EXCEPT !.marker[d].parent = x])
         /\ SameRest([V EXCEPT !.marker[d].parent = x], V)
         /\ Alike([V EXCEPT !.marker[d].id = x], [S EXCEPT !.marker[d].id = x])
         /\ SameRest([V EXCEPT !.marker[d].id = x], V)
  <1>0. V.marker = S.marker
    BY DEF Alike
  <1>1. Alike([V EXCEPT !.marker[d].name = x], [S EXCEPT !.marker[d].name = x]) /\ SameRest([V EXCEPT !.marker[d].name = x], V)
    <2> DEFINE f == [V.marker EXCEPT ![d] = [V.marker[d] EXCEPT !.name = x]]
    <2>1. [V EXCEPT !.marker[d].name = x] = [V EXCEPT !.marker = f]
      OBVIOUS
    <2>2. [S EXCEPT !.marker[d].name = x] = [S EXCEPT !.marker = f]
      BY <1>0
    <2> HIDE DEF f
    <2>3. QED
      BY <2>1, <2>2, MarkerPutAlike
  <1>2. Alike([V EXCEPT !.marker[d].parent = x], [S EXCEPT !.marker[d].parent = x]) /\ SameRest([V EXCEPT !.marker[d].parent = x], V)
    <2> DEFINE f == [V.marker EXCEPT ![d] = [V.marker[d] EXCEPT !.parent = x]]
    <2>1. [V EXCEPT !.marker[d].parent = x] = [V EXCEPT !.marker = f]
      OBVIOUS
    <2>2. [S EXCEPT !.marker[d].parent = x] = [S EXCEPT !.marker = f]
      BY <1>0
    <2> HIDE DEF f
    <2>3. QED
      BY <2>1, <2>2, MarkerPutAlike
  <1>3. Alike([V EXCEPT !.marker[d].id = x], [S EXCEPT !.marker[d].id = x]) /\ SameRest([V EXCEPT !.marker[d].id = x], V)
    <2> DEFINE f == [V.marker EXCEPT ![d] = [V.marker[d] EXCEPT !.id = x]]
    <2>1. [V EXCEPT !.marker[d].id = x] = [V EXCEPT !.marker = f]
      OBVIOUS
    <2>2. [S EXCEPT !.marker[d].id = x] = [S EXCEPT !.marker = f]
      BY <1>0
    <2> HIDE DEF f
    <2>3. QED
      BY <2>1, <2>2, MarkerPutAlike
  <1>4. QED
    BY <1>1, <1>2, <1>3

RootsInstead(r, old, new) == [p \in DOMAIN r |-> Instead(r[p], old, new)]

LEMMA RewrittenFields ==
  ASSUME NEW V, Shaped(V), NEW old, NEW new
  PROVE  /\ SameRest(Rewritten(V, old, new), V)
         /\ Rewritten(V, old, new).marker = Reparented(V, old, new)
         /\ Rewritten(V, old, new).doc = Reassigned(V, old, new)
         /\ Rewritten(V, old, new).roots = RootsInstead(V.roots, old, new)
  <1> DEFINE W == Rewritten(V, old, new)
             g == Reparented(V, old, new)
             f == Reassigned(V, old, new)
             r == RootsInstead(V.roots, old, new)
  <1>1. W = [V EXCEPT !.marker = g, !.doc = f, !.roots = r]
    BY DEF Rewritten, RootsInstead
  <1> HIDE DEF W, f, g, r
  <1>2. DOMAIN W = DOMAIN V /\ W = [x \in DOMAIN V |-> W[x]]
    BY <1>1 DEF Shaped
  <1>3. /\ W.space = V.space /\ W.dirs = V.dirs /\ W.marker = g
        /\ W.doc = f /\ W.roots = r /\ W.outside = V.outside
    BY <1>1 DEF Shaped
  <1>4. Shaped(W)
    BY <1>2, StaysShaped
  <1>5. QED
    BY <1>3, <1>4 DEF SameRest, W, g, f, r

LEMMA RewrittenAlike ==
  ASSUME NEW V, Shaped(V), NEW S, Shaped(S), Alike(V, S), NEW old, NEW new
  PROVE  Alike(Rewritten(V, old, new), Rewritten(S, old, new)) /\ SameRest(Rewritten(V, old, new), V)
  <1>1. Reparented(V, old, new) = Reparented(S, old, new)
    BY DEF Alike, Reparented
  <1>2. Reassigned(V, old, new) = Reassigned(S, old, new)
    BY DEF Alike, Reassigned
  <1>3. RootsInstead(V.roots, old, new) = RootsInstead(S.roots, old, new)
    BY DEF Alike
  <1>4. QED
    BY <1>1, <1>2, <1>3, RewrittenFields DEF Alike

LEMMA FollowAlike ==
  ASSUME NEW V, NEW S, V.doc = S.doc, NEW from, NEW to
  PROVE  Follow(V, from, to) = Follow(S, from, to)
  BY DEF Follow

LEMMA RekeyAlike ==
  ASSUME NEW V, Shaped(V), NEW S, Shaped(S), Alike(V, S), NEW q
  PROVE  Alike(Rekey(q, V), Rekey(q, S)) /\ SameRest(Rekey(q, V), V)
  <1> DEFINE R == Rewritten(V, q.id, q.to)
             Q == Rewritten(S, q.id, q.to)
             d == DirOf(S, q.id)
  <1>1. DirOf(V, q.id) = d
    BY MarkersAlike DEF Alike
  <1>2. Rekey(q, V) = [R EXCEPT !.marker[d].id = q.to] /\ Rekey(q, S) = [Q EXCEPT !.marker[d].id = q.to]
    BY <1>1 DEF Rekey
  <1>3. Alike(R, Q) /\ SameRest(R, V) /\ SameRest(Q, S)
    <2>1. Alike(S, S)
      BY DEF Alike
    <2>2. QED
      BY <2>1, RewrittenAlike
  <1> HIDE DEF R, Q, d
  <1>4. /\ Alike([R EXCEPT !.marker[d].id = q.to], [Q EXCEPT !.marker[d].id = q.to])
        /\ SameRest([R EXCEPT !.marker[d].id = q.to], R)
    <2> DEFINE x == q.to
    <2>1. Shaped(R) /\ Shaped(Q) /\ Alike(R, Q)
      BY <1>3 DEF SameRest
    <2> HIDE DEF x
    <2>2. /\ Alike([R EXCEPT !.marker[d].id = x], [Q EXCEPT !.marker[d].id = x])
          /\ SameRest([R EXCEPT !.marker[d].id = x], R)
      BY <2>1, MarkerChangedAlike
    <2>3. QED
      BY <2>2 DEF x
  <1>5. SameRest(Rekey(q, V), R)
    BY <1>2, <1>4
  <1>6. SameRest(Rekey(q, V), V)
    BY <1>3, <1>5 DEF SameRest
  <1>7. QED
    BY <1>2, <1>4, <1>6

LEMMA RekeyAlone ==
  ASSUME NEW q, NEW S, NEW H, NEW V, Ready(q, S, H, V), SeenAlike(q, S, V), q.op = "rekey"
  PROVE  Allowed(q, V) /\ Applied(q, S, V) = Effect(q, V)
  <1> DEFINE W == Applied(q, S, V)
             E == Effect(q, V)
             new == Effect(q, S)
  <1>1. HasTypes(S) /\ HasTypes(V) /\ IsTree(V) /\ IsRequest(q) /\ Allowed(q, S)
    BY ReadyIs
  <1>2. Alike(V, S) /\ Alike(W, new)
    BY SamePlanApplies DEF Alike
  <1>3. PatchedInPlace(W, new, S, V)
    <2>1. InPlace(q, S, V)
      BY <1>1, BaseIs DEF InPlace
    <2>2. QED
      BY <2>1, OthersLeft
  <1>4. Alike(E, new) /\ SameRest(E, V) /\ SameRest(new, S)
    <2>1. E = Rekey(q, V) /\ new = Rekey(q, S)
      BY <1>1, EffectIs
    <2>2. Shaped(V) /\ Shaped(S) /\ Alike(S, S)
      BY <1>1, IsShaped DEF Alike
    <2> HIDE DEF E, new
    <2>3. QED
      BY <1>2, <2>1, <2>2, RekeyAlike
  <1>5. DOMAIN new.marker = DOMAIN S.marker /\ DOMAIN new.doc = DOMAIN S.doc
    <2>1. IsRekey(new, S, DirOf(S, q.id), q.id, q.to)
      BY <1>1, EffectIs, RekeyIs
    <2> HIDE DEF new
    <2>2. QED
      BY <2>1 DEF IsRekey, SameBodies
  <1> HIDE DEF W, E, new
  <1>6. Shaped(W) /\ W.space = V.space /\ W.outside = V.outside
    BY <1>3, <1>4 DEF PatchedInPlace, SameRest
  <1>7. W.dirs = V.dirs
    <2>1. new.dirs = S.dirs /\ DOMAIN W.space = DOMAIN V.space
      BY <1>4, <1>6 DEF SameRest
    <2>2. DOMAIN W.marker = DOMAIN V.marker /\ DOMAIN W.doc = DOMAIN V.doc
      BY <1>2, <1>5 DEF Alike
    <2>3. QED
      BY <1>1, <1>3, <2>1, <2>2, DirsLeft
  <1>8. W = E
    BY <1>2, <1>4, <1>6, <1>7, SameVault DEF SameRest, Alike
  <1>9. Allowed(q, V)
    <2>1. MayRekey(q, S)
      BY <1>1, AllowedIs
    <2>2. MayRekey(q, V) /\ Readable(V)
      BY <1>1, <1>2, <2>1, MarkersAlike, RootsAlike, ReadableWas DEF Alike, MayRekey
    <2>3. QED
      BY <1>1, <2>2, AllowedAgain
  <1>10. QED
    BY <1>8, <1>9 DEF W, E

(* What one command removes is removed, whatever else is there by then.    *)
LEMMA PatchedGone ==
  ASSUME NEW old, NEW new, NEW now, NEW x \in DOMAIN old, x \notin DOMAIN new
  PROVE  x \notin DOMAIN Patched(old, new, now)
  BY DEF Patched

LEMMA PatchedWithout ==
  ASSUME NEW old, IsMap(old), NEW now, IsMap(now), NEW x \in DOMAIN old
  PROVE  Patched(old, Drop(old, {x}), now) = Drop(now, {x})
  <1> DEFINE n == Drop(old, {x})
             k == Drop(now, {x})
             g == Patched(old, n, now)
  <1>1. IsDrop(n, old, {x}) /\ IsDrop(k, now, {x})
    BY DropIs
  <1> HIDE DEF n, k
  <1>2. IsPatched(g, old, n, now)
    BY <1>1, PatchedIs DEF IsDrop
  <1> HIDE DEF g
  <1>3. g = [z \in DOMAIN g |-> g[z]] /\ k = [z \in DOMAIN k |-> k[z]]
    BY <1>1, <1>2 DEF IsPatched, IsDrop, IsMap
  <1>4. \A z : ~Writing(old, n, z)
    BY <1>1 DEF Writing, IsDrop
  <1>5. ASSUME NEW z PROVE z \in DOMAIN g <=> z \in DOMAIN k
    <2>1. CASE z = x
      <3>1. x \notin DOMAIN g
        <4>1. x \notin DOMAIN n
          BY <1>1 DEF IsDrop
        <4>2. QED
          BY <4>1, PatchedGone DEF g
      <3>2. QED
        BY <1>1, <2>1, <3>1 DEF IsDrop
    <2>2. CASE z # x
      BY <1>1, <1>2, <1>4, <2>2 DEF IsPatched, IsDrop
    <2>3. QED
      BY <2>1, <2>2
  <1>6. DOMAIN g = DOMAIN k
    BY <1>5
  <1>7. ASSUME NEW z \in DOMAIN k PROVE g[z] = k[z]
    <2>1. z \in DOMAIN now /\ z # x /\ z \in DOMAIN g
      BY <1>1, <1>6, <1>7 DEF IsDrop
    <2>2. g[z] = now[z] /\ k[z] = now[z]
      BY <1>1, <1>2, <1>4, <2>1 DEF IsPatched, IsDrop
    <2>3. QED
      BY <2>2
  <1>8. g = k
    BY <1>3, <1>6, <1>7
  <1>9. QED
    BY <1>8 DEF g, k, n

(* The directories of delete and merge: those that are left go, those of   *)
(* the files that move are made.                                           *)
LeavesOf(new, old, s, made) == new = {d \in old : ~Under(d, s)} \union made

(* What is made is a declaration's directory, or above one or a document   *)
Rooted(made, markers, docs) == \A d \in made : d \in markers \/ \E p \in markers \union docs : d \in Parents(p)

LEMMA ClosedRooted ==
  ASSUME NEW X, NEW F, NEW D, X \subseteq D, \A p \in D \union F : Parents(p) \subseteq D, Rooted(D, X, F)
  PROVE  Closed(X, F) = D
  <1>1. ASSUME NEW d \in Closed(X, F) PROVE d \in D
    <2>1. d \in X \/ \E p \in X \union F : d \in Parents(p)
      BY ClosedIs
    <2>2. QED
      BY <2>1
  <1>2. ASSUME NEW d \in D PROVE d \in Closed(X, F)
    <2>1. d \in X \/ \E p \in X \union F : d \in Parents(p)
      BY DEF Rooted
    <2>2. QED
      BY <2>1, ClosedIs
  <1>3. QED
    BY <1>1, <1>2

LEMMA LeftBehind ==
  ASSUME NEW old, NEW now, NEW s, NEW made, NEW new, LeavesOf(new, old, s, made), NEW D, LeavesOf(D, now, s, made),
         NEW spaces, NEW markers, NEW docs, Hangs(D, spaces, markers, docs),
         \A d \in now \ old : ~Under(d, s),
         Rooted(made, markers, docs)
  PROVE  Closed((now \ (old \ new)) \union (new \ old) \union spaces \union markers, docs) = D
  <1> DEFINE X == (now \ (old \ new)) \union (new \ old) \union spaces \union markers
  <1>1. X \subseteq D
    BY DEF Hangs, LeavesOf
  <1>2. \A d \in D : d \in X \/ d \in made
    BY DEF LeavesOf
  <1>3. markers \subseteq X
    OBVIOUS
  <1> HIDE DEF X
  <1>4. Rooted(D, X, docs)
    BY <1>2, <1>3 DEF Rooted
  <1>5. Closed(X, docs) = D
    <2>1. \A p \in D \union docs : Parents(p) \subseteq D
      BY DEF Hangs
    <2>2. QED
      BY <1>1, <1>4, <2>1, ClosedRooted
  <1>6. QED
    BY <1>5 DEF X

LEMMA NotUnder ==
  ASSUME NEW V, HasTypes(V), NEW d, IsPath(d), Len(d) > 1
  PROVE  /\ \A s \in DOMAIN V.space : ~Under(s, d)
         /\ \A p \in V.dirs \union DOMAIN V.doc : ~Under(p, d) => \A x \in Parents(p) : ~Under(x, d)
  <1>1. ASSUME NEW s \in DOMAIN V.space PROVE ~Under(s, d)
    <2>1. s \in Seq(Names) /\ d \in Seq(Names) /\ Len(s) = 1
      BY DEF HasTypes, AreSpaces, IsPath, Names
    <2>2. QED
      BY <2>1, UnderIs
  <1>2. ASSUME NEW p \in V.dirs \union DOMAIN V.doc, ~Under(p, d), NEW x \in Parents(p) PROVE ~Under(x, d)
    <2>1. p \in Seq(Names) /\ d \in Seq(Names)
      BY DEF HasTypes, AreDocs, IsPath, Names
    <2>2. x \in Seq(Names) /\ Under(p, x)
      BY <2>1, ParentIs DEF IsPath, Names
    <2>3. QED
      BY <1>2, <2>1, <2>2, UnderIsTransitive
  <1>3. QED
    BY <1>1, <1>2

LEMMA DeleteAlone ==
  ASSUME NEW q, NEW S, NEW H, NEW V, Ready(q, S, H, V), SeenAlike(q, S, V), q.op = "delete"
  PROVE  Allowed(q, V) /\ Applied(q, S, V) = Effect(q, V)
  <1> DEFINE W == Applied(q, S, V)
             E == Effect(q, V)
             new == Effect(q, S)
             d == DirOf(S, q.id)
  <1>1. HasTypes(S) /\ HasTypes(V) /\ IsTree(V) /\ IsRequest(q) /\ Allowed(q, S) /\ ~CannotEmpty(q, S, V)
    BY ReadyIs
  <1>2. V.roots = S.roots /\ DirsOf(V, q.id) = DirsOf(S, q.id)
    BY DEF SeenAlike
  <1>3. MayDelete(q, S) /\ SameFiles(q, S, H, V)
    BY <1>1, AllowedIs, StandsIs DEF Ready
  <1>4. Known(S, q.id) /\ Known(V, q.id) /\ DirOf(V, q.id) = d
    BY <1>2, <1>3 DEF MayDelete, Known, DirOf
  <1>5. d \in DOMAIN S.marker /\ IsPath(d) /\ Len(d) > 1 /\ d \in Seq(Names)
    BY <1>1, <1>4, KnownIs DEF IsPath, Names
  <1>6. d \in DOMAIN V.marker /\ V.marker[d] = S.marker[d]
    BY <1>3, <1>5 DEF SameFiles, HashedMarkers, Ready
  <1>7. Files(S, d) = {d} /\ ~IsRoot(S, q.id) /\ S.marker[d].text = "plain"
    BY <1>3 DEF MayDelete
  <1>8. Files(V, d) \ Files(S, d) = {} /\ {e \in V.dirs \ S.dirs : Under(e, d)} = {}
    BY <1>1 DEF CannotEmpty
  <1>9. PatchedInPlace(W, new, S, V) /\ IsDelete(E, V, d) /\ IsDelete(new, S, d)
    <2>1. InPlace(q, S, V)
      BY <1>1, BaseIs DEF InPlace
    <2>2. E = Delete(q, V) /\ new = Delete(q, S)
      BY <1>1, EffectIs
    <2>3. IsDelete(E, V, DirOf(V, q.id)) /\ IsDelete(new, S, d)
      BY <1>1, <2>2, DeleteIs
    <2>4. QED
      BY <1>4, <2>1, <2>3, OthersLeft
  <1> HIDE DEF d, W, E, new
  <1>10. Files(V, d) = {d}
    <2>1. Under(d, d)
      BY <1>5, UnderItself
    <2>2. d \in Files(V, d)
      BY <1>6, <2>1 DEF Files
    <2>3. QED
      BY <1>7, <1>8, <2>2
  <1>11. Shaped(W) /\ W.doc = V.doc /\ W.space = V.space /\ W.roots = V.roots /\ W.outside = V.outside
    BY <1>9 DEF IsDelete, PatchedInPlace
  <1>12. W.marker = Drop(V.marker, {d})
    <2>1. W.marker = Patched(S.marker, new.marker, V.marker) /\ new.marker = Drop(S.marker, {d})
      BY <1>9 DEF IsDelete, PatchedInPlace
    <2>2. IsMap(S.marker) /\ IsMap(V.marker)
      BY <1>1 DEF HasTypes, AreMarkers
    <2>3. QED
      BY <1>5, <2>1, <2>2, PatchedWithout
  <1>13. W.dirs = E.dirs
    <2>1. DOMAIN W.marker = DOMAIN V.marker \ {d}
      <3>1. IsMap(V.marker)
        BY <1>1 DEF HasTypes, AreMarkers
      <3>2. IsDrop(W.marker, V.marker, {d})
        BY <1>12, <3>1, DropIs
      <3>3. QED
        BY <3>2 DEF IsDrop
    <2>2. LeavesOf(new.dirs, S.dirs, d, {}) /\ LeavesOf(E.dirs, V.dirs, d, {})
      BY <1>9 DEF IsDelete, LeavesOf
    <2>3. E.dirs = {e \in V.dirs : ~Under(e, d)}
      BY <1>9 DEF IsDelete
    <2>4. Hangs(E.dirs, DOMAIN W.space, DOMAIN W.marker, DOMAIN W.doc)
      <3>1. DOMAIN V.space \subseteq E.dirs
        BY <1>1, <1>5, <2>3, NotUnder DEF IsTree
      <3>2. \A e \in DOMAIN V.marker \ {d} : ~Under(e, d)
        BY <1>10 DEF Files
      <3>3. DOMAIN V.marker \ {d} \subseteq E.dirs
        BY <1>1, <2>3, <3>2 DEF IsTree
      <3>4. \A p \in DOMAIN V.doc : ~Under(p, d)
        <4>1. d \in V.dirs
          BY <1>1, <1>6 DEF IsTree
        <4>2. d \notin DOMAIN V.doc
          BY <1>1, <4>1 DEF IsTree
        <4>3. QED
          BY <1>10, <4>2 DEF Files
      <3>5. \A p \in E.dirs \union DOMAIN V.doc : p \in V.dirs \union DOMAIN V.doc /\ ~Under(p, d)
        BY <2>3, <3>4
      <3>6. \A p \in E.dirs \union DOMAIN V.doc : \A x \in Parents(p) : x \in V.dirs /\ ~Under(x, d)
        BY <1>1, <1>5, <3>5, NotUnder DEF IsTree
      <3>7. \A p \in E.dirs \union DOMAIN V.doc : Parents(p) \subseteq E.dirs
        BY <2>3, <3>6
      <3>8. QED
        BY <1>11, <2>1, <3>1, <3>3, <3>7 DEF Hangs
    <2>5. W.dirs = Closed((V.dirs \ (S.dirs \ new.dirs)) \union (new.dirs \ S.dirs)
                            \union DOMAIN W.space \union DOMAIN W.marker, DOMAIN W.doc)
      BY <1>9 DEF PatchedInPlace
    <2>6. \A e \in V.dirs \ S.dirs : ~Under(e, d)
      BY <1>8
    <2>7. QED
      <3>1. Rooted({}, DOMAIN W.marker, DOMAIN W.doc)
        BY DEF Rooted
      <3>2. QED
        BY <2>2, <2>4, <2>5, <2>6, <3>1, LeftBehind
  <1>14. W = E
    BY <1>9, <1>11, <1>12, <1>13, SameVault DEF IsDelete
  <1>15. Allowed(q, V)
    <2>1. Readable(V) /\ ~IsRoot(V, q.id)
      BY <1>1, <1>2, <1>7, ReadableWas DEF Readable, IsRoot
    <2>2. MayDelete(q, V)
      BY <1>4, <1>6, <1>7, <1>10, <2>1 DEF MayDelete
    <2>3. QED
      BY <1>1, <2>1, <2>2, AllowedAgain
  <1>16. QED
    BY <1>14, <1>15 DEF W, E

(* rename and move: what moves as a whole.  What is above it at its new    *)
(* place is there.                                                         *)
LEMMA ParentsOfEntry ==
  ASSUME NEW d, IsPath(d), NEW n \in Names
  PROVE  Parents(d \o <<n>>) \subseteq Parents(d) \union {d}
  <1> DEFINE p == d \o <<n>>
  <1>1. d \in Seq(Names) /\ d # << >>
    BY DEF IsPath, Names
  <1>2. p \in Seq(Names) /\ Len(p) = Len(d) + 1 /\ Under(p, d)
    BY <1>1, EntryIs
  <1> HIDE DEF p
  <1>3. ASSUME NEW x \in Parents(p), x # d PROVE x \in Parents(d)
    <2>1. x \in Seq(Names) /\ x # << >> /\ Under(p, x) /\ Len(x) < Len(p)
      BY <1>2, <1>3, ParentIs DEF IsPath, Names
    <2>2. Under(d, x)
      <3>1. CASE Under(x, d)
        <4>1. Len(x) = Len(d) /\ \A i \in 1..Len(d) : x[i] = d[i]
          BY <1>1, <1>2, <2>1, <3>1, UnderIs
        <4>2. QED
          BY <1>1, <2>1, <4>1, UnderIs
      <3>2. CASE Under(d, x)
        BY <3>2
      <3>3. QED
        BY <1>1, <1>2, <2>1, <3>1, <3>2, UnderBoth
    <2>3. QED
      BY <1>1, <1>3, <2>1, <2>2, AboveIsParent
  <1>4. QED
    BY <1>3 DEF p

LEMMA ParentsMoved ==
  ASSUME NEW V, HasTypes(V), IsTree(V), NEW from \in V.dirs, NEW to, IsPath(to), NEW D,
         \A d \in V.dirs : Moved(d, from, to) \in D, \A x \in Parents(to) : x \in D
  PROVE  \A p \in V.dirs \union DOMAIN V.doc : Parents(Moved(p, from, to)) \subseteq D
  <1>1. from \in Seq(Names) /\ to \in Seq(Names)
    BY DEF HasTypes, IsPath, Names
  <1>2. SUFFICES ASSUME NEW p \in V.dirs \union DOMAIN V.doc, NEW x \in Parents(Moved(p, from, to))
                 PROVE  x \in D
    OBVIOUS
  <1>3. p \in Seq(Names) /\ p # << >> /\ Parents(p) \subseteq V.dirs
    BY DEF HasTypes, AreDocs, IsTree, IsPath, Names
  <1>4. Moved(p, from, to) \in Seq(Names)
    BY <1>1, <1>3, MovedIs
  <1>5. x \in Seq(Names) /\ x # << >> /\ Under(Moved(p, from, to), x) /\ Moved(p, from, to) # x
    BY <1>4, ParentIs DEF IsPath, Names
  <1>6. CASE ~Under(p, from)
    <2>1. Moved(p, from, to) = p
      BY <1>1, <1>3, <1>6, MovedIs
    <2>2. x \in V.dirs /\ Under(p, x)
      BY <1>3, <1>5, <2>1
    <2>3. ~Under(x, from)
      BY <1>1, <1>3, <1>5, <1>6, <2>2, UnderIsTransitive
    <2>4. Moved(x, from, to) = x
      BY <1>1, <1>5, <2>3, MovedIs
    <2>5. QED
      BY <2>2, <2>4
  <1>7. CASE Under(p, from)
    <2>1. Moved(p, from, to) = Rebased(p, from, to) /\ Under(Rebased(p, from, to), to) /\ Rebased(p, from, to) \in Seq(Names)
      BY <1>1, <1>3, <1>7, MovedIs, RebasedIsUnder
    <2>2. CASE Under(x, to)
      <3> DEFINE y == Rebased(x, to, from)
      <3>1. y \in Seq(Names) /\ Under(y, from) /\ Rebased(y, from, to) = x
        BY <1>1, <1>5, <2>2, RebasedIsUnder, RebasedBack
      <3>2. Under(p, y)
        <4>1. Under(Rebased(Rebased(p, from, to), to, from), y)
          BY <1>1, <1>5, <2>1, <2>2, RebasedKeepsOrder
        <4>2. Rebased(Rebased(p, from, to), to, from) = p
          BY <1>1, <1>3, <1>7, RebasedBack
        <4>3. QED
          BY <4>1, <4>2
      <3>3. y # p
        BY <1>5, <2>1, <3>1
      <3>4. y # << >>
        <4>1. from # << >> /\ Len(from) > 0
          BY <1>1 DEF HasTypes, IsPath
        <4>2. Len(from) <= Len(y)
          BY <1>1, <3>1, UnderIs
        <4> HIDE DEF y
        <4>3. QED
          BY <4>1, <4>2
      <3>5. y \in Parents(p)
        BY <1>3, <3>1, <3>2, <3>3, <3>4, AboveIsParent
      <3>6. Moved(y, from, to) = x
        BY <1>1, <3>1, MovedIs
      <3>7. y \in V.dirs
        BY <1>3, <3>5
      <3> HIDE DEF y
      <3>8. QED
        BY <3>6, <3>7
    <2>3. CASE ~Under(x, to)
      <3>1. Under(to, x)
        BY <1>1, <1>5, <2>1, <2>3, UnderBoth
      <3>2. x # to
        BY <1>1, <2>3, UnderItself
      <3>3. x \in Parents(to)
        BY <1>1, <1>5, <3>1, <3>2, AboveIsParent
      <3>4. QED
        BY <3>3
    <2>4. QED
      BY <2>2, <2>3
  <1>8. QED
    BY <1>6, <1>7

Image(dirs, from, to) == {Moved(d, from, to) : d \in dirs}

LEMMA RelocatedHangs ==
  ASSUME NEW V, HasTypes(V), IsTree(V), NEW from \in V.dirs, Len(from) > 1, NEW to, IsPath(to),
         to # from => ~Under(to, from), \A x \in Parents(to) : x \in V.dirs
  PROVE  Hangs(Image(V.dirs, from, to), DOMAIN V.space, Image(DOMAIN V.marker, from, to), Image(DOMAIN V.doc, from, to))
  <1> DEFINE D == Image(V.dirs, from, to)
  <1>1. from \in Seq(Names) /\ to \in Seq(Names) /\ IsPath(from)
    BY DEF HasTypes, IsPath, Names
  <1>2. \A d \in V.dirs : d \in Seq(Names)
    BY DEF HasTypes, IsPath, Names
  <1>3. \A d \in V.dirs : Moved(d, from, to) \in D
    BY DEF Image
  <1>4. ASSUME NEW x \in V.dirs, ~Under(x, from) PROVE x \in D
    <2>1. Moved(x, from, to) = x
      BY <1>1, <1>2, <1>4, MovedIs
    <2>2. QED
      BY <1>3, <2>1
  <1>5. ASSUME NEW x \in Parents(to) PROVE x \in D
    <2>1. CASE to = from
      <3>1. Moved(x, from, to) = x
        BY <1>1, <1>2, <2>1, MovedInPlace
      <3>2. QED
        BY <1>3, <3>1
    <2>2. CASE to # from
      <3>1. x \in Seq(Names) /\ Under(to, x)
        BY <1>1, <1>2, ParentIs
      <3>2. ~Under(x, from)
        BY <1>1, <2>2, <3>1, UnderIsTransitive
      <3>3. QED
        BY <1>4, <3>2
    <2>3. QED
      BY <2>1, <2>2
  <1>6. \A p \in V.dirs \union DOMAIN V.doc : Parents(Moved(p, from, to)) \subseteq D
    <2> HIDE DEF D
    <2>1. QED
      BY <1>3, <1>5, ParentsMoved
  <1>7. DOMAIN V.space \subseteq D
    BY <1>1, <1>4, NotUnder DEF IsTree
  <1>8. Image(DOMAIN V.marker, from, to) \subseteq D
    BY DEF IsTree, Image
  <1>9. ASSUME NEW y \in D \union Image(DOMAIN V.doc, from, to) PROVE Parents(y) \subseteq D
    <2>1. \E p \in V.dirs \union DOMAIN V.doc : y = Moved(p, from, to)
      BY <1>9 DEF Image
    <2> HIDE DEF D
    <2>2. QED
      BY <1>6, <2>1
  <1> HIDE DEF D
  <1>10. Hangs(D, DOMAIN V.space, Image(DOMAIN V.marker, from, to), Image(DOMAIN V.doc, from, to))
    BY <1>7, <1>8, <1>9 DEF Hangs
  <1>11. QED
    BY <1>10 DEF D

IsCarried(W, V, from, to) ==
  Shaped(W) /\ W.space = V.space /\ W.dirs = Image(V.dirs, from, to) /\ W.outside = V.outside

LEMMA NoSpaceMoves ==
  ASSUME NEW V, HasTypes(V), NEW from, IsPath(from), Len(from) > 1
  PROVE  Drop(V.space, {s \in DOMAIN V.space : Under(s, from)}) = V.space
  <1> DEFINE X == {s \in DOMAIN V.space : Under(s, from)}
             g == Drop(V.space, X)
  <1>1. X = {}
    BY NotUnder
  <1>2. IsMap(V.space)
    BY DEF HasTypes, AreSpaces
  <1> HIDE DEF X
  <1>3. IsDrop(g, V.space, X)
    BY <1>2, DropIs
  <1> HIDE DEF g
  <1>4. DOMAIN g = DOMAIN V.space /\ \A s \in DOMAIN V.space : g[s] = V.space[s]
    BY <1>1, <1>3 DEF IsDrop
  <1>5. g = V.space
    BY <1>2, <1>3, <1>4 DEF IsDrop, IsMap
  <1>6. QED
    BY <1>5 DEF g, X

LEMMA CarriedIs ==
  ASSUME NEW V, HasTypes(V), NEW q, NEW from, IsPath(from), Len(from) > 1, NEW to
  PROVE  IsCarried(Carried(q, V, from, to), V, from, to)
  <1>1. CASE from = to
    <2>1. Carried(q, V, from, to) = V /\ Shaped(V)
      BY <1>1, IsShaped DEF Carried
    <2>2. \A d \in V.dirs : Moved(d, from, from) = d
      <3>1. from \in Seq(Names) /\ \A d \in V.dirs : d \in Seq(Names)
        BY DEF HasTypes, IsPath, Names
      <3>2. QED
        BY <3>1, MovedInPlace
    <2>3. Image(V.dirs, from, from) = V.dirs
      <3> HIDE DEF Moved
      <3>1. QED
        BY <2>2 DEF Image
    <2>4. QED
      BY <1>1, <2>1, <2>3 DEF IsCarried
  <1>2. CASE from # to
    <2>1. Carried(q, V, from, to) = ShiftAll(V, from, to)
      BY <1>2 DEF Carried
    <2>2. IsShiftAll(ShiftAll(V, from, to), V, from, to)
      BY ShiftAllIs
    <2>3. IsCarried(ShiftAll(V, from, to), V, from, to)
      BY <2>2, NoSpaceMoves DEF IsShiftAll, IsCarried, Image
    <2>4. QED
      BY <2>1, <2>3
  <1>3. QED
    BY <1>1, <1>2

LEMMA RelocateAlike ==
  ASSUME NEW V, HasTypes(V), NEW S, HasTypes(S), Alike(V, S), NEW from, IsPath(from), Len(from) > 1,
         NEW to, IsPath(to), Len(to) > 1
  PROVE  /\ Alike(Relocate(V, from, to), Relocate(S, from, to))
         /\ IsCarried(Relocate(V, from, to), V, from, to)
         /\ DOMAIN Relocate(V, from, to).marker = Image(DOMAIN V.marker, from, to)
         /\ DOMAIN Relocate(V, from, to).doc = Image(DOMAIN V.doc, from, to)
  <1> DEFINE W == Relocate(V, from, to)
             U == Relocate(S, from, to)
             f == Follow(V, from, to)
  <1>1. IsRelocate(W, V, from, to) /\ IsRelocate(U, S, from, to)
    BY RelocateIs
  <1>2. f = Follow(S, from, to) /\ DOMAIN f = DOMAIN V.doc
    BY FollowAlike DEF Alike, Follow
  <1> HIDE DEF W, U, f
  <1>3. W.marker = Shift(V.marker, from, to) /\ W.doc = Shift(f, from, to)
    BY <1>1 DEF IsRelocate, f
  <1>4. Alike(W, U)
    BY <1>1, <1>2, <1>3 DEF IsRelocate, Alike
  <1>5. IsCarried(W, V, from, to)
    BY <1>1, NoSpaceMoves DEF IsRelocate, IsCarried, Image
  <1>6. DOMAIN W.marker = Image(DOMAIN V.marker, from, to) /\ DOMAIN W.doc = Image(DOMAIN V.doc, from, to)
    BY <1>2, <1>3 DEF Shift, Image
  <1>7. QED
    BY <1>4, <1>5, <1>6 DEF W, U

(* What both make of the Vault of the plan and of the Vault of the moment: *)
(* the directory moves, and U is the Vault in which its marker is written. *)
Carries(q, S, V, U, from, to) ==
  /\ Base(q, S, V) = Carried(q, V, from, to) /\ Effect(q, V) = Relocate(U, from, to)
  /\ Marked(U, V)

LEMMA CarriesAlone ==
  ASSUME NEW q, NEW S, NEW H, NEW V, Ready(q, S, H, V), q.op \in {"rename", "move"},
         NEW X, NEW U, Alike(U, X), NEW from \in V.dirs, IsPath(from), Len(from) > 1, NEW to, IsPath(to), Len(to) > 1,
         Carries(q, S, S, X, from, to), Carries(q, S, V, U, from, to),
         to # from => ~Under(to, from), \A x \in Parents(to) : x \in V.dirs
  PROVE  Applied(q, S, V) = Effect(q, V)
  <1> DEFINE old == Base(q, S, S)
             now == Base(q, S, V)
             new == Effect(q, S)
             E == Effect(q, V)
             W == Applied(q, S, V)
  <1>1. HasTypes(S) /\ HasTypes(V) /\ IsTree(V) /\ IsApplied(W, q, S, V)
    BY ReadyIs
  <1>2. Alike(V, S) /\ Alike(W, new)
    BY SamePlanApplies DEF Alike
  <1>3. IsCarried(old, S, from, to) /\ IsCarried(now, V, from, to)
    <2>1. old = Carried(q, S, from, to) /\ now = Carried(q, V, from, to)
      BY DEF Carries
    <2> HIDE DEF old, now
    <2>2. QED
      BY <1>1, <2>1, CarriedIs
  <1>4. /\ Alike(E, new) /\ IsCarried(E, U, from, to) /\ IsCarried(new, X, from, to)
        /\ DOMAIN E.marker = Image(DOMAIN U.marker, from, to) /\ DOMAIN E.doc = Image(DOMAIN U.doc, from, to)
    <2>1. E = Relocate(U, from, to) /\ new = Relocate(X, from, to)
      BY DEF Carries
    <2> HIDE DEF E, new
    <2>2. HasTypes(U) /\ HasTypes(X)
      BY <1>1, MarkedHasTypes DEF Carries
    <2>3. Alike(X, X)
      BY DEF Alike
    <2>4. Alike(E, new) /\ IsCarried(E, U, from, to)
          /\ DOMAIN E.marker = Image(DOMAIN U.marker, from, to) /\ DOMAIN E.doc = Image(DOMAIN U.doc, from, to)
      BY <2>1, <2>2, RelocateAlike
    <2>5. IsCarried(new, X, from, to)
      BY <2>1, <2>2, <2>3, RelocateAlike
    <2>6. QED
      BY <2>4, <2>5
  <1>5. Marked(U, V) /\ Marked(X, S)
    BY DEF Carries
  <1>6. /\ Shaped(W) /\ W.outside = now.outside /\ W.space = Patched(old.space, new.space, now.space)
        /\ W.dirs = Closed((now.dirs \ (old.dirs \ new.dirs)) \union (new.dirs \ old.dirs)
                             \union DOMAIN W.space \union DOMAIN W.marker, DOMAIN W.doc)
    BY <1>1 DEF IsApplied
  <1> HIDE DEF old, now, new, E, W
  <1>7. W.space = V.space /\ W.outside = V.outside /\ E.space = V.space /\ E.outside = V.outside /\ Shaped(E)
    <2>1. W.space = Patched(S.space, S.space, V.space)
      BY <1>3, <1>4, <1>5, <1>6 DEF IsCarried, Marked
    <2>2. IsMap(V.space)
      BY <1>1 DEF HasTypes, AreSpaces
    <2>3. W.space = V.space
      BY <2>1, <2>2, PatchedNothing
    <2>4. QED
      BY <1>3, <1>4, <1>5, <1>6, <2>3 DEF IsCarried, Marked
  <1>8. W.doc = E.doc /\ W.marker = E.marker /\ W.roots = E.roots
    BY <1>2, <1>4 DEF Alike
  <1>9. E.dirs = Image(V.dirs, from, to) /\ now.dirs = E.dirs /\ new.dirs = old.dirs
    BY <1>3, <1>4, <1>5 DEF IsCarried, Marked
  <1>10. W.dirs = E.dirs
    <2>1. Hangs(E.dirs, DOMAIN W.space, DOMAIN W.marker, DOMAIN W.doc)
      <3>1. Hangs(Image(V.dirs, from, to), DOMAIN V.space, Image(DOMAIN V.marker, from, to), Image(DOMAIN V.doc, from, to))
        BY <1>1, RelocatedHangs
      <3>2. DOMAIN U.marker = DOMAIN V.marker /\ DOMAIN U.doc = DOMAIN V.doc
        BY <1>5 DEF Marked
      <3>3. QED
        BY <1>4, <1>7, <1>8, <1>9, <3>1, <3>2
    <2>2. W.dirs = Closed((E.dirs \ (old.dirs \ old.dirs)) \union (old.dirs \ old.dirs)
                            \union DOMAIN W.space \union DOMAIN W.marker, DOMAIN W.doc)
      BY <1>6, <1>9
    <2>3. QED
      BY <2>1, <2>2, NoneMade
  <1>11. W = E
    BY <1>6, <1>7, <1>8, <1>10, SameVault
  <1>12. QED
    BY <1>11 DEF W, E

LEMMA NamedAlike ==
  ASSUME NEW V, HasTypes(V), NEW S, HasTypes(S), Alike(V, S), NEW q
  PROVE  /\ Alike(Named(q, V), Named(q, S)) /\ SameRest(Named(q, V), V)
         /\ SpacesOf(V, q.to) = SpacesOf(S, q.to) => Alike(Resettled(q, V), Resettled(q, S))
  <1> DEFINE d == DirOf(S, q.id)
             x == q.name
             y == IF SpacesOf(S, q.to) = {} THEN q.to ELSE None
  <1>1. Shaped(V) /\ Shaped(S) /\ DirOf(V, q.id) = d
    BY IsShaped, MarkersAlike DEF Alike
  <1>2. Resettled(q, S) = [S EXCEPT !.marker[d].parent = y]
    BY DEF Resettled
  <1>3. SpacesOf(V, q.to) = SpacesOf(S, q.to) => Resettled(q, V) = [V EXCEPT !.marker[d].parent = y]
    BY <1>1 DEF Resettled
  <1>4. /\ x = None => Named(q, V) = V /\ Named(q, S) = S
        /\ x # None => Named(q, V) = [V EXCEPT !.marker[d].name = x] /\ Named(q, S) = [S EXCEPT !.marker[d].name = x]
    BY <1>1 DEF Named
  <1> HIDE DEF d, x, y
  <1>5. Alike([V EXCEPT !.marker[d].parent = y], [S EXCEPT !.marker[d].parent = y])
    BY <1>1, MarkerChangedAlike
  <1>6. Alike([V EXCEPT !.marker[d].name = x], [S EXCEPT !.marker[d].name = x]) /\ SameRest([V EXCEPT !.marker[d].name = x], V)
    BY <1>1, MarkerChangedAlike
  <1>7. SpacesOf(V, q.to) = SpacesOf(S, q.to) => Alike(Resettled(q, V), Resettled(q, S))
    BY <1>2, <1>3, <1>5
  <1>8. Alike(Named(q, V), Named(q, S)) /\ SameRest(Named(q, V), V)
    BY <1>1, <1>4, <1>6 DEF SameRest
  <1>9. QED
    BY <1>7, <1>8

LEMMA EntryBeside ==
  ASSUME NEW p, IsPath(p), NEW n \in Names, NEW d, IsPath(d), ~Under(p, d), p \o <<n>> # d
  PROVE  ~Under(p \o <<n>>, d)
  <1> DEFINE x == p \o <<n>>
  <1>1. SUFFICES ASSUME Under(x, d) PROVE FALSE
    OBVIOUS
  <1>2. p \in Seq(Names) /\ d \in Seq(Names) /\ d # << >>
    BY DEF IsPath, Names
  <1>3. x \in Seq(Names) /\ Parents(x) \subseteq Parents(p) \union {p}
    BY <1>2, EntryIs, ParentsOfEntry
  <1> HIDE DEF x
  <1>4. d \in Parents(x)
    BY <1>1, <1>2, <1>3, AboveIsParent DEF x
  <1>5. d # p
    BY <1>2, UnderItself
  <1>6. d \in Parents(p)
    BY <1>3, <1>4, <1>5
  <1>7. QED
    BY <1>2, <1>6, ParentIs

LEMMA RenameAlone ==
  ASSUME NEW q, NEW S, NEW H, NEW V, Ready(q, S, H, V), SeenAlike(q, S, V), q.op = "rename"
  PROVE  Allowed(q, V) /\ Applied(q, S, V) = Effect(q, V)
  <1> DEFINE W == Applied(q, S, V)
             E == Effect(q, V)
             new == Effect(q, S)
             d == DirOf(S, q.id)
             to == Folder(q, S)
  <1>1. HasTypes(S) /\ HasTypes(V) /\ IsTree(V) /\ IsRequest(q) /\ Allowed(q, S) /\ ~CannotMove(q, S, V)
    BY ReadyIs
  <1>2. Alike(V, S) /\ Alike(W, new)
    BY SamePlanApplies DEF Alike
  <1>3. DirOf(V, q.id) = d /\ Folder(q, V) = to /\ (Known(V, q.id) <=> Known(S, q.id))
    BY <1>2, MarkersAlike DEF Alike, Folder
  <1>4. MayRename(q, S) /\ Known(S, q.id)
    BY <1>1, AllowedIs DEF MayRename
  <1>5. DOMAIN S.space \subseteq DOMAIN V.space
    BY DEF SeenAlike
  <1>6. q.folder # None /\ to # d => ~Exists(V, to) /\ ~Under(to, d)
    <2>1. Source(q, S) = d /\ Target(q, S) = to
      BY DEF Source, Target
    <2>2. q.folder # None /\ d # to => ~Exists(V, Target(q, S))
      BY <1>1, <2>1 DEF CannotMove
    <2>3. ASSUME q.folder # None, to # d PROVE ~Under(to, d)
      <3> DEFINE e == Front(d)
                 n == q.folder
      <3>1. IsPath(d) /\ Len(d) > 1 /\ d \in Seq(Names) /\ n \in Names
        BY <1>1, <1>4, <2>3, KnownIs DEF IsPath, Names, IsRequest
      <3>2. to = e \o <<n>> /\ e \in Parents(d)
        BY <3>1, FrontIs DEF Folder
      <3> HIDE DEF e, n, to, d
      <3>3. IsPath(e) /\ e \in Seq(Names) /\ Len(e) < Len(d)
        BY <3>1, <3>2, ParentIs DEF IsPath, Names
      <3>4. ~Under(e, d)
        BY <3>1, <3>3, UnderIs
      <3>5. QED
        BY <2>3, <3>1, <3>2, <3>3, <3>4, EntryBeside
    <2> HIDE DEF d, to
    <2>4. QED
      BY <2>1, <2>2, <2>3
  <1>7. MayRename(q, V)
    <2>1. q.folder # None /\ to # d => InSpace(S, to)
      BY <1>4 DEF MayRename, Fits
    <2>2. q.folder # None /\ to # d => InSpace(V, to)
      BY <1>5, <2>1 DEF InSpace
    <2> HIDE DEF d, to
    <2>3. q.folder # None /\ to # d => Fits(V, to)
      BY <1>6, <2>2 DEF Fits
    <2>4. QED
      BY <1>3, <1>4, <2>3 DEF MayRename
  <1>8. Allowed(q, V)
    <2>1. Readable(V)
      BY <1>1, <1>2, RootsAlike, ReadableWas DEF Alike
    <2>2. QED
      BY <1>1, <1>7, <2>1, AllowedAgain
  <1>9. Alike(Named(q, V), Named(q, S)) /\ SameRest(Named(q, V), V) /\ SameRest(Named(q, S), S)
    <2>1. Alike(S, S)
      BY DEF Alike
    <2>2. QED
      BY <1>1, <1>2, <2>1, NamedAlike
  <1>10. E = Rename(q, V) /\ new = Rename(q, S) /\ Marked(Named(q, V), V) /\ Marked(Named(q, S), S)
    BY <1>1, <1>4, <1>7, EffectIs, RenameIs
  <1>11. CASE q.folder = None
    <2>1. E = Named(q, V) /\ new = Named(q, S)
      BY <1>1, <1>4, <1>7, <1>10, <1>11, RenameIs
    <2>2. PatchedInPlace(W, new, S, V)
      <3>1. InPlace(q, S, V)
        BY <1>1, <1>11, BaseIs DEF InPlace
      <3>2. QED
        BY <3>1, OthersLeft
    <2> HIDE DEF W, E, new
    <2>3. Alike(E, new) /\ SameRest(E, V) /\ SameRest(new, S)
      BY <1>9, <2>1
    <2>4. Shaped(W) /\ W.space = V.space /\ W.outside = V.outside
      BY <2>2, <2>3 DEF PatchedInPlace, SameRest
    <2>5. W.dirs = V.dirs
      <3>1. new.dirs = S.dirs /\ DOMAIN W.space = DOMAIN V.space
        BY <2>3, <2>4 DEF SameRest
      <3>2. DOMAIN E.marker = DOMAIN V.marker /\ DOMAIN E.doc = DOMAIN V.doc
        BY <1>10, <2>1 DEF Marked
      <3>3. DOMAIN W.marker = DOMAIN V.marker /\ DOMAIN W.doc = DOMAIN V.doc
        BY <1>2, <2>3, <3>2 DEF Alike
      <3>4. QED
        BY <1>1, <2>2, <3>1, <3>3, DirsLeft
    <2>6. W = E
      BY <1>2, <2>3, <2>4, <2>5, SameVault DEF SameRest, Alike
    <2>7. QED
      BY <1>8, <2>6 DEF W, E
  <1>12. CASE q.folder # None
    <2>1. /\ E = Relocate(Named(q, V), d, to) /\ new = Relocate(Named(q, S), d, to)
          /\ IsPath(d) /\ IsPath(to) /\ Len(to) > 1
      BY <1>1, <1>3, <1>4, <1>7, <1>10, <1>12, RenameIs
    <2>2. d \in V.dirs /\ Len(d) > 1
      <3>1. Known(V, q.id)
        BY <1>3, <1>4
      <3>2. DirOf(V, q.id) \in DOMAIN V.marker /\ Len(DirOf(V, q.id)) > 1
        BY <1>1, <3>1, KnownIs
      <3> HIDE DEF d
      <3>3. QED
        BY <1>1, <1>3, <3>2 DEF IsTree
    <2>3. Carries(q, S, S, Named(q, S), d, to) /\ Carries(q, S, V, Named(q, V), d, to)
      BY <1>1, <1>10, <1>12, <2>1, BaseIs DEF Carries
    <2>4. \A x \in Parents(to) : x \in V.dirs
      <3> DEFINE e == Front(d)
                 n == q.folder
      <3>1. d \in Seq(Names) /\ n \in Names
        BY <1>1, <1>12, <2>1 DEF IsPath, Names, IsRequest
      <3>2. e \in Parents(d) /\ to = e \o <<n>>
        BY <2>2, <3>1, FrontIs DEF Folder
      <3>3. Parents(e) \subseteq Parents(d) /\ IsPath(e)
        BY <3>1, <3>2, ParentsAbove, ParentIs
      <3>4. Parents(d) \subseteq V.dirs
        BY <1>1, <2>2 DEF IsTree
      <3> HIDE DEF e, n, to, d
      <3>5. Parents(to) \subseteq Parents(e) \union {e}
        BY <3>1, <3>2, <3>3, ParentsOfEntry
      <3>6. QED
        BY <3>2, <3>3, <3>4, <3>5
    <2> HIDE DEF d, to
    <2>5. Applied(q, S, V) = Effect(q, V)
      BY <1>6, <1>9, <1>12, <2>1, <2>2, <2>3, <2>4, CarriesAlone
    <2>6. QED
      BY <1>8, <2>5
  <1>13. QED
    BY <1>11, <1>12

LEMMA MoveAlone ==
  ASSUME NEW q, NEW S, NEW H, NEW V, Ready(q, S, H, V), SeenAlike(q, S, V), q.op = "move"
  PROVE  Allowed(q, V) /\ Applied(q, S, V) = Effect(q, V)
  <1> DEFINE d == DirOf(S, q.id)
             to == NewPlace(q, S)
             p == NewParent(q, S)
  <1>1. HasTypes(S) /\ HasTypes(V) /\ IsTree(V) /\ IsRequest(q) /\ Allowed(q, S) /\ ~CannotMove(q, S, V)
    BY ReadyIs
  <1>2. Alike(V, S)
    BY SamePlanApplies DEF Alike
  <1>3. DOMAIN S.space \subseteq DOMAIN V.space /\ SpacesOf(V, q.to) = SpacesOf(S, q.to)
    BY DEF SeenAlike
  <1>4. MayMove(q, S) /\ Known(S, q.id)
    BY <1>1, AllowedIs DEF MayMove
  <1>5. /\ DirOf(V, q.id) = d /\ (Known(V, q.id) <=> Known(S, q.id))
        /\ DirOf(V, q.to) = DirOf(S, q.to) /\ DirsOf(V, q.to) = DirsOf(S, q.to)
    BY <1>2, MarkersAlike DEF Alike
  <1>6. NewParent(q, V) = p
    BY <1>3, <1>5 DEF NewParent
  <1>7. NewPlace(q, V) = to
    <2> HIDE DEF p
    <2>1. QED
      BY <1>5, <1>6 DEF NewPlace, p
  <1>8. IsPath(d) /\ Len(d) > 1 /\ d \in Seq(Names) /\ Last(d) \in Names
    <2>1. IsPath(d) /\ Len(d) > 1
      BY <1>1, <1>4, KnownIs
    <2> HIDE DEF d
    <2>2. d \in Seq(Names)
      BY <2>1 DEF IsPath, Names
    <2>3. Last(d) \in Names
      BY <2>1, <2>2 DEF Last
    <2>4. QED
      BY <2>1, <2>2, <2>3
  <1>9. to = p \o <<Last(d)>> /\ IsPath(p) /\ p \in DOMAIN S.space \union DOMAIN S.marker /\ IsPath(to) /\ Len(to) > 1
    BY <1>1, <1>4, NewParentIs, NewPlaceIs DEF NewPlace
  <1>10. to # d => ~Exists(V, to)
    <2>1. Source(q, S) = d /\ Target(q, S) = to
      BY DEF Source, Target
    <2>2. d # to => ~Exists(V, Target(q, S))
      BY <1>1, <2>1 DEF CannotMove
    <2> HIDE DEF d, to
    <2>3. QED
      BY <2>1, <2>2
  <1>11. ~Under(p, d)
    <2>1. CASE SpacesOf(S, q.to) = {}
      <3>1. p = DirOf(S, q.to)
        BY <2>1 DEF NewParent
      <3>2. QED
        BY <1>4, <2>1, <3>1 DEF MayMove
    <2>2. CASE SpacesOf(S, q.to) # {}
      <3>1. p \in SpacesOf(S, q.to)
        BY <2>2 DEF NewParent
      <3> HIDE DEF p, d
      <3>2. p \in DOMAIN S.space
        BY <3>1 DEF SpacesOf
      <3>3. QED
        BY <1>1, <1>8, <3>2, NotUnder
    <2>3. QED
      BY <2>1, <2>2
  <1>12. to # d => ~Under(to, d)
    <2> HIDE DEF p, d, to
    <2>1. QED
      BY <1>8, <1>9, <1>11, EntryBeside
  <1>13. \A x \in Parents(to) : x \in V.dirs
    <2> HIDE DEF p, d, to
    <2>1. Parents(to) \subseteq Parents(p) \union {p}
      BY <1>8, <1>9, ParentsOfEntry
    <2>2. p \in V.dirs
      BY <1>1, <1>2, <1>3, <1>9 DEF IsTree, Alike
    <2>3. Parents(p) \subseteq V.dirs
      BY <1>1, <2>2 DEF IsTree
    <2>4. QED
      BY <2>1, <2>2, <2>3
  <1>14. MayMove(q, V)
    <2>1. NewPlace(q, V) = DirOf(V, q.id) \/ Fits(V, NewPlace(q, V))
      <3>1. to # d => InSpace(S, to)
        BY <1>4 DEF MayMove, Fits
      <3>2. to # d => InSpace(V, to)
        BY <1>3, <3>1 DEF InSpace
      <3> HIDE DEF d, to
      <3>3. to # d => Fits(V, to)
        BY <1>10, <3>2 DEF Fits
      <3>4. QED
        BY <1>5, <1>7, <3>3
    <2>2. SpacesOf(V, q.to) = {} =>
            /\ ~Under(DirOf(V, q.to), DirOf(V, q.id))
            /\ ProjectOf(V, DirOf(V, q.to)) # ProjectOf(V, DirOf(V, q.id)) => IsRoot(V, q.id) /\ ProjectOf(V, DirOf(V, q.to)) = None
      <3>1. \A e : ProjectOf(V, e) = ProjectOf(S, e)
        BY <1>2, RootsAlike DEF Alike
      <3>2. IsRoot(V, q.id) <=> IsRoot(S, q.id)
        BY <1>2, RootsAlike DEF Alike
      <3>3. QED
        BY <1>3, <1>4, <1>5, <3>1, <3>2 DEF MayMove
    <2>3. Cardinality(DirsOf(V, q.to)) + Cardinality(SpacesOf(V, q.to)) = 1
      BY <1>3, <1>4, <1>5 DEF MayMove
    <2>4. QED
      BY <1>4, <1>5, <2>1, <2>2, <2>3 DEF MayMove
  <1>15. Allowed(q, V)
    <2>1. Readable(V)
      BY <1>1, <1>2, RootsAlike, ReadableWas DEF Alike
    <2>2. QED
      BY <1>1, <1>14, <2>1, AllowedAgain
  <1>16. Alike(Resettled(q, V), Resettled(q, S))
    BY <1>1, <1>2, <1>3, NamedAlike
  <1>17. Carries(q, S, S, Resettled(q, S), d, to) /\ Carries(q, S, V, Resettled(q, V), d, to)
    <2>1. Effect(q, V) = Move(q, V) /\ Effect(q, S) = Move(q, S)
      BY <1>1, EffectIs
    <2>2. /\ Marked(Resettled(q, V), V) /\ Move(q, V) = Relocate(Resettled(q, V), DirOf(V, q.id), NewPlace(q, V))
          /\ Marked(Resettled(q, S), S) /\ Move(q, S) = Relocate(Resettled(q, S), d, to)
      BY <1>1, <1>4, <1>14, MoveIs
    <2>3. Base(q, S, S) = Carried(q, S, d, to) /\ Base(q, S, V) = Carried(q, V, d, to)
      BY <1>1, BaseIs
    <2> HIDE DEF d, to
    <2>4. QED
      BY <1>5, <1>7, <2>1, <2>2, <2>3 DEF Carries
  <1>18. d \in V.dirs
    <2>1. d \in DOMAIN S.marker
      BY <1>1, <1>4, KnownIs
    <2> HIDE DEF d
    <2>2. QED
      BY <1>1, <1>2, <2>1 DEF IsTree, Alike
  <1> HIDE DEF d, to, p
  <1>19. Applied(q, S, V) = Effect(q, V)
    BY <1>8, <1>9, <1>12, <1>13, <1>16, <1>17, <1>18, CarriesAlone
  <1>20. QED
    BY <1>15, <1>19

(* merge                                                                   *)
LEMMA DocPutAlike ==
  ASSUME NEW V, Shaped(V), NEW S, Shaped(S), Alike(V, S), NEW f
  PROVE  /\ Alike([V EXCEPT !.doc = f], [S EXCEPT !.doc = f])
         /\ Shaped([V EXCEPT !.doc = f]) /\ Shaped([S EXCEPT !.doc = f])
  <1> DEFINE W == [V EXCEPT !.doc = f]
             U == [S EXCEPT !.doc = f]
  <1>1. DOMAIN W = DOMAIN V /\ W = [x \in DOMAIN V |-> W[x]] /\ DOMAIN U = DOMAIN S /\ U = [x \in DOMAIN S |-> U[x]]
    BY DEF Shaped
  <1>2. W.doc = f /\ W.marker = V.marker /\ W.roots = V.roots
    BY DEF Shaped
  <1>3. U.doc = f /\ U.marker = S.marker /\ U.roots = S.roots
    BY DEF Shaped
  <1> HIDE DEF W, U
  <1>4. Shaped(W) /\ Shaped(U)
    BY <1>1, StaysShaped
  <1>5. Alike(W, U)
    BY <1>2, <1>3 DEF Alike
  <1>6. QED
    BY <1>4, <1>5 DEF W, U

(* What merge writes, F being the Vault in which ids and references follow *)
Gathered(M, F, s, t) ==
  /\ M.marker = Shift(Drop(F.marker, {s}), s, t) /\ M.doc = Shift(F.doc, s, t) /\ M.roots = F.roots

Gather(F, s, t, made) ==
  [F EXCEPT !.marker = Shift(Drop(@, {s}), s, t), !.doc = Shift(@, s, t), !.dirs = {d \in @ : ~Under(d, s)} \union made]

LEMMA GatheredIs ==
  ASSUME NEW F, Shaped(F), NEW s, NEW t, NEW made
  PROVE  Gathered(Gather(F, s, t, made), F, s, t)
  <1> DEFINE g == Shift(Drop(F.marker, {s}), s, t)
             f == Shift(F.doc, s, t)
             e == {d \in F.dirs : ~Under(d, s)} \union made
             M == [F EXCEPT !.marker = g, !.doc = f, !.dirs = e]
  <1>1. Gather(F, s, t, made) = M
    BY DEF Gather
  <1> HIDE DEF g, f, e
  <1>2. M.marker = g /\ M.doc = f /\ M.roots = F.roots
    BY DEF Shaped
  <1> HIDE DEF M
  <1>3. QED
    BY <1>1, <1>2 DEF Gathered, g, f

LEMMA MergeAlike ==
  ASSUME NEW V, Shaped(V), NEW S, Shaped(S), Alike(V, S), NEW q
  PROVE  Alike(Merge(q, V), Merge(q, S))
  <1> DEFINE s == DirOf(S, q.id)
             t == DirOf(S, q.to)
             h == Taken(S, s)
             T == [V EXCEPT !.doc = h]
             U == [S EXCEPT !.doc = h]
             R == Rewritten(T, q.id, q.to)
             Q == Rewritten(U, q.id, q.to)
             f == Follow(Q, s, t)
             F == [R EXCEPT !.doc = f]
             G == [Q EXCEPT !.doc = f]
  <1>1. DirOf(V, q.id) = s /\ DirOf(V, q.to) = t
    BY MarkersAlike DEF Alike
  <1>2. Taken(V, s) = h
    <2>1. \A p : Nearest(V, p) = Nearest(S, p)
      BY MarkersAlike DEF Alike
    <2> HIDE DEF s
    <2>2. QED
      BY <2>1 DEF Taken, Alike
  <1>3. Alike(T, U) /\ Shaped(T) /\ Shaped(U)
    <2> HIDE DEF h
    <2>1. QED
      BY DocPutAlike
  <1>4. Alike(R, Q) /\ Shaped(R) /\ Shaped(Q)
    <2> HIDE DEF T, U
    <2>1. Alike(U, U)
      BY DEF Alike
    <2>2. QED
      BY <1>3, <2>1, RewrittenAlike DEF SameRest
  <1>5. Follow(R, s, t) = f
    <2> HIDE DEF R, Q, s, t
    <2>1. QED
      BY <1>4, FollowAlike DEF Alike
  <1>6. Alike(F, G) /\ Shaped(F) /\ Shaped(G)
    <2> HIDE DEF R, Q, f
    <2>1. QED
      BY <1>4, DocPutAlike
  <1>7. Merge(q, V) = Gather(F, s, t, MadeByMerge(V, s, t))
    BY <1>1, <1>2, <1>5 DEF Merge, Gather, MadeByMerge, AboveMerged, DeclaredByMerge
  <1>8. Merge(q, S) = Gather(G, s, t, MadeByMerge(S, s, t))
    BY DEF Merge, Gather, MadeByMerge, AboveMerged, DeclaredByMerge
  <1> HIDE DEF F, G, s, t
  <1>9. Gathered(Merge(q, V), F, s, t) /\ Gathered(Merge(q, S), G, s, t)
    <2>1. Gathered(Merge(q, V), F, s, t)
      BY <1>6, <1>7, GatheredIs
    <2>2. Gathered(Merge(q, S), G, s, t)
      BY <1>6, <1>8, GatheredIs
    <2>3. QED
      BY <2>1, <2>2
  <1>10. QED
    BY <1>6, <1>9 DEF Gathered, Alike

OtherMarkers(V, s) == DOMAIN V.marker \ {s}

LEMMA MergedDomains ==
  ASSUME NEW E, NEW V, NEW s, NEW t, NEW old, NEW new, IsMerge(E, V, s, t, old, new)
  PROVE  /\ DOMAIN E.marker = Image(OtherMarkers(V, s), s, t)
         /\ DOMAIN E.doc = Image(DOMAIN V.doc, s, t)
  <1>1. PICK g : MergedMarkers(g, V) /\ E.marker = Shift(Drop(g, {s}), s, t)
    BY DEF IsMerge
  <1>2. PICK f : MergedDocs(f, V, s, t, old, new) /\ E.doc = Shift(f, s, t)
    BY DEF IsMerge
  <1>3. DOMAIN Drop(g, {s}) = DOMAIN V.marker \ {s}
    BY <1>1 DEF MergedMarkers, Drop
  <1>4. DOMAIN f = DOMAIN V.doc
    BY <1>2 DEF MergedDocs, SameBodies
  <1>5. QED
    BY <1>1, <1>2, <1>3, <1>4 DEF Shift, Image, OtherMarkers

LEMMA MergedHangs ==
  ASSUME NEW V, HasTypes(V), IsTree(V), NEW s \in V.dirs, IsPath(s), Len(s) > 1, NEW t, IsPath(t), NEW D,
         LeavesOf(D, V.dirs, s, MadeByMerge(V, s, t))
  PROVE  /\ Hangs(D, DOMAIN V.space, Image(OtherMarkers(V, s), s, t), Image(DOMAIN V.doc, s, t))
         /\ Rooted(MadeByMerge(V, s, t), Image(OtherMarkers(V, s), s, t), Image(DOMAIN V.doc, s, t))
  <1> DEFINE made == MadeByMerge(V, s, t)
             markers == Image(OtherMarkers(V, s), s, t)
             docs == Image(DOMAIN V.doc, s, t)
  <1>1. s \in Seq(Names) /\ t \in Seq(Names)
    BY DEF IsPath, Names
  <1>2. \A p \in V.dirs \union DOMAIN V.doc : p \in Seq(Names)
    BY DEF HasTypes, AreDocs, IsPath, Names
  <1>3. s \notin DOMAIN V.doc
    BY DEF IsTree
  <1>4. \A p : p \in Retained(V, s) <=> p # s /\ Under(p, s) /\ p \in DOMAIN V.doc \union DOMAIN V.marker
    BY DEF Retained, Files
  <1>5. /\ \A p \in Retained(V, s) : Parents(Moved(p, s, t)) \subseteq made
        /\ \A p \in Retained(V, s) \intersect DOMAIN V.marker : Moved(p, s, t) \in made
    BY MadeByMergeIs
  <1>6. \A d \in made : \/ \E p \in Retained(V, s) : d \in Parents(Moved(p, s, t))
                        \/ \E p \in Retained(V, s) \intersect DOMAIN V.marker : d = Moved(p, s, t)
    BY MadeByMergeIs
  <1>7. D = {d \in V.dirs : ~Under(d, s)} \union made
    BY DEF LeavesOf
  <1> HIDE DEF made
  <1>8. \A d \in made : d \in markers \/ \E p \in markers \union docs : d \in Parents(p)
    <2>1. \A p \in Retained(V, s) : Moved(p, s, t) \in markers \union docs
      BY <1>4 DEF Image, OtherMarkers
    <2>2. \A p \in Retained(V, s) \intersect DOMAIN V.marker : Moved(p, s, t) \in markers
      BY <1>4 DEF Image, OtherMarkers
    <2> HIDE DEF markers, docs
    <2>3. QED
      BY <1>6, <2>1, <2>2
  <1>9. ASSUME NEW p \in V.dirs \union DOMAIN V.doc, ~Under(p, s) PROVE Moved(p, s, t) = p /\ Parents(p) \subseteq D
    <2>1. Moved(p, s, t) = p
      BY <1>1, <1>2, <1>9, MovedIs
    <2>2. \A x \in Parents(p) : x \in V.dirs /\ ~Under(x, s)
      BY <1>9, NotUnder DEF IsTree
    <2>3. QED
      BY <1>7, <2>1, <2>2
  <1>10. DOMAIN V.space \subseteq D
    BY <1>7, NotUnder DEF IsTree
  <1>11. ASSUME NEW y \in markers PROVE y \in D
    <2>1. PICK d \in DOMAIN V.marker \ {s} : y = Moved(d, s, t)
      BY <1>11 DEF Image, OtherMarkers
    <2>2. CASE Under(d, s)
      BY <1>4, <1>5, <1>7, <2>1, <2>2
    <2>3. CASE ~Under(d, s)
      BY <1>7, <1>9, <2>1, <2>3 DEF IsTree
    <2>4. QED
      BY <2>2, <2>3
  <1>12. ASSUME NEW y \in docs PROVE Parents(y) \subseteq D
    <2>1. PICK d \in DOMAIN V.doc : y = Moved(d, s, t)
      BY <1>12 DEF Image
    <2>2. CASE Under(d, s)
      <3>1. d \in Retained(V, s)
        BY <1>3, <1>4, <2>2
      <3>2. QED
        BY <1>5, <1>7, <2>1, <3>1
    <2>3. CASE ~Under(d, s)
      BY <1>9, <2>1, <2>3
    <2>4. QED
      BY <2>2, <2>3
  <1>13. ASSUME NEW d \in D PROVE Parents(d) \subseteq D
    <2>1. CASE d \in V.dirs /\ ~Under(d, s)
      BY <1>9, <2>1
    <2>2. CASE d \in made
      <3>1. \A p \in Retained(V, s) : p \in Seq(Names)
        BY <1>2, <1>4 DEF IsTree
      <3>2. \A p \in Retained(V, s) : Moved(p, s, t) \in Seq(Names)
        BY <1>1, <3>1, MovedIs
      <3>3. CASE \E p \in Retained(V, s) : d \in Parents(Moved(p, s, t))
        BY <1>5, <1>7, <3>2, <3>3, ParentsAbove
      <3>4. CASE \E p \in Retained(V, s) \intersect DOMAIN V.marker : d = Moved(p, s, t)
        BY <1>5, <1>7, <3>4
      <3>5. QED
        BY <1>6, <2>2, <3>3, <3>4
    <2>3. QED
      BY <1>7, <2>1, <2>2
  <1> HIDE DEF markers, docs
  <1>14. Hangs(D, DOMAIN V.space, markers, docs)
    BY <1>10, <1>11, <1>12, <1>13 DEF Hangs
  <1>15. QED
    BY <1>8, <1>14 DEF markers, docs, made, Rooted

LEMMA MergeAlone ==
  ASSUME NEW q, NEW S, NEW H, NEW V, Ready(q, S, H, V), SeenAlike(q, S, V), q.op = "merge"
  PROVE  Allowed(q, V) /\ Applied(q, S, V) = Effect(q, V)
  <1> DEFINE W == Applied(q, S, V)
             E == Effect(q, V)
             new == Effect(q, S)
             s == DirOf(S, q.id)
             t == DirOf(S, q.to)
  <1>1. HasTypes(S) /\ HasTypes(V) /\ IsTree(V) /\ IsRequest(q) /\ Allowed(q, S) /\ ~CannotEmpty(q, S, V)
    BY ReadyIs
  <1>2. Alike(V, S) /\ Alike(W, new)
    BY MergeApplies DEF Alike, SeenAlike
  <1>3. MayMerge(q, S) /\ MergeStands(q, S, H, V)
    BY <1>1, AllowedIs, StandsIs DEF Ready
  <1>4. Known(S, q.id) /\ Known(S, q.to) /\ Known(V, q.id) /\ Known(V, q.to) /\ DirOf(V, q.id) = s /\ DirOf(V, q.to) = t
    BY <1>2, <1>3, MarkersAlike DEF Alike, MayMerge
  <1>5. s \in DOMAIN S.marker /\ IsPath(s) /\ Len(s) > 1 /\ IsPath(t)
    BY <1>1, <1>4, KnownIs
  <1>6. s \in V.dirs
    <2> HIDE DEF s
    <2>1. QED
      BY <1>1, <1>2, <1>5 DEF Alike, IsTree
  <1>7. Files(V, s) = Files(S, s) /\ Retained(V, s) = Retained(S, s)
    BY <1>2 DEF Alike, Files, Retained
  <1>8. MadeByMerge(V, s, t) = MadeByMerge(S, s, t)
    <2> HIDE DEF s, t
    <2>1. QED
      BY <1>2, <1>7 DEF Alike, MadeByMerge, AboveMerged, DeclaredByMerge
  <1>9. \A d \in V.dirs \ S.dirs : ~Under(d, s)
    BY <1>1 DEF CannotEmpty
  <1>10. Allowed(q, V)
    <2>1. Readable(V) /\ (IsRoot(V, q.id) <=> IsRoot(S, q.id)) /\ \A d : ProjectOf(V, d) = ProjectOf(S, d)
      BY <1>1, <1>2, RootsAlike, ReadableWas DEF Alike
    <2>2. ~TargetExists(V, V, s, t)
      <3>1. ~TargetExists(S, V, s, t)
        BY <1>3 DEF MergeStands
      <3> HIDE DEF s, t
      <3>2. QED
        BY <1>2, <1>7, <3>1 DEF TargetExists, Alike
    <2>3. V.marker[s].text = "plain" /\ ~Under(t, s) /\ (ProjectOf(S, s) # ProjectOf(S, t) => IsRoot(S, q.id) /\ ProjectOf(S, t) = None)
      BY <1>2, <1>3 DEF MayMerge, Alike
    <2> HIDE DEF s, t
    <2>4. MayMerge(q, V)
      BY <1>4, <2>1, <2>2, <2>3 DEF MayMerge
    <2>5. QED
      BY <1>1, <2>1, <2>4, AllowedAgain
  <1>11. E = Merge(q, V) /\ new = Merge(q, S)
    BY <1>1, EffectIs
  <1>12. PatchedInPlace(W, new, S, V)
    <2>1. InPlace(q, S, V)
      BY <1>1, BaseIs DEF InPlace
    <2>2. QED
      BY <2>1, OthersLeft
  <1>13. IsMerge(E, V, s, t, q.id, q.to) /\ IsMerge(new, S, s, t, q.id, q.to)
    <2>1. IsMerge(Merge(q, V), V, DirOf(V, q.id), DirOf(V, q.to), q.id, q.to) /\ IsMerge(Merge(q, S), S, s, t, q.id, q.to)
      BY <1>1, <1>4, MergeIs
    <2> HIDE DEF E, new, s, t
    <2>2. QED
      BY <1>4, <1>11, <2>1
  <1>14. Alike(E, new)
    <2>1. Shaped(V) /\ Shaped(S)
      BY <1>1, IsShaped
    <2> HIDE DEF E, new
    <2>2. QED
      BY <1>2, <1>11, <2>1, MergeAlike
  <1> HIDE DEF s, t, W, E, new
  <1>15. LeavesOf(E.dirs, V.dirs, s, MadeByMerge(V, s, t)) /\ LeavesOf(new.dirs, S.dirs, s, MadeByMerge(V, s, t))
    BY <1>8, <1>13 DEF IsMerge, LeavesOf
  <1>16. W.doc = E.doc /\ W.marker = E.marker /\ W.roots = E.roots
    BY <1>2, <1>14 DEF Alike
  <1>17. Shaped(W) /\ W.space = V.space /\ W.outside = V.outside /\ Shaped(E) /\ E.space = V.space /\ E.outside = V.outside
    BY <1>12, <1>13 DEF PatchedInPlace, IsMerge
  <1>18. W.dirs = E.dirs
    <2> DEFINE made == MadeByMerge(V, s, t)
    <2>1. DOMAIN W.marker = Image(OtherMarkers(V, s), s, t) /\ DOMAIN W.doc = Image(DOMAIN V.doc, s, t)
      BY <1>13, <1>16, MergedDomains
    <2>2. /\ Hangs(E.dirs, DOMAIN V.space, DOMAIN W.marker, DOMAIN W.doc)
          /\ Rooted(made, DOMAIN W.marker, DOMAIN W.doc)
      <3>1. LeavesOf(E.dirs, V.dirs, s, made)
        BY <1>15
      <3>2. QED
        <4>1. /\ Hangs(E.dirs, DOMAIN V.space, Image(OtherMarkers(V, s), s, t), Image(DOMAIN V.doc, s, t))
              /\ Rooted(made, Image(OtherMarkers(V, s), s, t), Image(DOMAIN V.doc, s, t))
          BY <1>1, <1>5, <1>6, <3>1, MergedHangs
        <4>2. QED
          BY <2>1, <4>1
    <2>3. W.dirs = Closed((V.dirs \ (S.dirs \ new.dirs)) \union (new.dirs \ S.dirs)
                            \union DOMAIN V.space \union DOMAIN W.marker, DOMAIN W.doc)
      BY <1>12, <1>17 DEF PatchedInPlace
    <2>4. LeavesOf(E.dirs, V.dirs, s, made) /\ LeavesOf(new.dirs, S.dirs, s, made)
      BY <1>15
    <2> HIDE DEF made
    <2>5. QED
      BY <1>9, <2>2, <2>3, <2>4, LeftBehind
  <1>19. W = E
    BY <1>16, <1>17, <1>18, SameVault
  <1>20. QED
    BY <1>10, <1>19 DEF W, E

(* adopt                                                                   *)
SameButDocs(U, V) ==
  U.space = V.space /\ U.dirs = V.dirs /\ U.marker = V.marker /\ U.roots = V.roots /\ U.outside = V.outside
Coming(V, path) == {path \o <<n>> : n \in DOMAIN V.outside}
Brought(V, path) ==
  [p \in DOMAIN V.doc \union Coming(V, path) |-> IF p \in DOMAIN V.doc THEN V.doc[p] ELSE V.outside[Last(p)]]

LEMMA ArrivedIs ==
  ASSUME NEW V, HasTypes(V), NEW q
  PROVE  /\ SameButDocs(Arrived(q, V), Place(q, V))
         /\ q.from # None => Arrived(q, V).doc = Place(q, V).doc
         /\ q.from = None => Arrived(q, V).doc = Brought(V, q.path) /\ Place(q, V) = V
  <1>1. CASE q.from # None
    BY <1>1 DEF Arrived, SameButDocs
  <1>2. CASE q.from = None
    <2> DEFINE f == Brought(V, q.path)
               W == [V EXCEPT !.doc = f]
    <2>1. Arrived(q, V) = W /\ Place(q, V) = V
      BY <1>2 DEF Arrived, Bring, Place, Brought, Coming
    <2>2. Shaped(V)
      BY IsShaped
    <2> HIDE DEF f
    <2>3. W.doc = f /\ SameButDocs(W, V)
      BY <2>2 DEF Shaped, SameButDocs
    <2> HIDE DEF W
    <2>4. QED
      BY <1>2, <2>1, <2>3 DEF f
  <1>3. QED
    BY <1>1, <1>2

LEMMA PlaceAlike ==
  ASSUME NEW V, HasTypes(V), NEW S, HasTypes(S), NEW q, V.marker = S.marker, V.space = S.space
  PROVE  /\ Place(q, V).marker = Place(q, S).marker /\ Place(q, V).space = Place(q, S).space
         /\ Place(q, V).roots = V.roots /\ Place(q, V).outside = V.outside
  <1>1. CASE q.from = None \/ q.from = q.path
    <2>1. Place(q, V) = V /\ Place(q, S) = S
      BY <1>1 DEF Place
    <2>2. QED
      BY <2>1
  <1>2. CASE q.from # None /\ q.from # q.path
    <2>1. Place(q, V) = ShiftAll(V, q.from, q.path) /\ Place(q, S) = ShiftAll(S, q.from, q.path)
      BY <1>2 DEF Place
    <2>2. IsShiftAll(Place(q, V), V, q.from, q.path) /\ IsShiftAll(Place(q, S), S, q.from, q.path)
      BY <2>1, ShiftAllIs
    <2>3. QED
      BY <2>2 DEF IsShiftAll
  <1>3. QED
    BY <1>1, <1>2

LEMMA ComingIs ==
  ASSUME NEW V, HasTypes(V), NEW path, IsPath(path), NEW z \in Coming(V, path)
  PROVE  Under(z, path) /\ Parents(z) \subseteq Parents(path) \union {path}
  <1>1. PICK n \in DOMAIN V.outside : z = path \o <<n>>
    BY DEF Coming
  <1>2. n \in Names /\ path \in Seq(Names)
    BY DEF HasTypes, AreOutside, IsPath, Names
  <1>3. Under(path \o <<n>>, path) /\ Parents(path \o <<n>>) \subseteq Parents(path) \union {path}
    BY <1>2, EntryIs, ParentsOfEntry
  <1>4. QED
    BY <1>1, <1>3

LEMMA PatchedBrought ==
  ASSUME NEW S, HasTypes(S), NEW V, HasTypes(V), V.outside = S.outside, NEW path, IsPath(path),
         \A p \in DOMAIN S.doc \union DOMAIN V.doc : ~Under(p, path), IsMap(Brought(S, path))
  PROVE  Patched(S.doc, Brought(S, path), V.doc) = Brought(V, path)
  <1> DEFINE old == S.doc
             new == Brought(S, path)
             now == V.doc
             T == Coming(S, path)
             f == Patched(old, new, now)
             g == Brought(V, path)
  <1>1. /\ DOMAIN new = DOMAIN old \union T /\ \A z \in DOMAIN old : new[z] = old[z]
        /\ \A z \in T \ DOMAIN old : new[z] = S.outside[Last(z)]
    BY DEF Brought
  <1>2. /\ DOMAIN g = DOMAIN now \union T /\ g = [z \in DOMAIN g |-> g[z]]
        /\ \A z \in DOMAIN now : g[z] = now[z]
        /\ \A z \in T \ DOMAIN now : g[z] = S.outside[Last(z)]
    BY DEF Brought, Coming
  <1>3. \A z \in T : z \notin DOMAIN old /\ z \notin DOMAIN now
    BY ComingIs
  <1>4. IsPatched(f, old, new, now)
    BY PatchedIs DEF HasTypes, AreDocs
  <1> HIDE DEF old, new, now, T, f, g
  <1>5. \A z : Writing(old, new, z) <=> z \in T
    BY <1>1, <1>3 DEF Writing
  <1>6. f = [z \in DOMAIN f |-> f[z]]
    BY <1>4 DEF IsPatched, IsMap
  <1>7. DOMAIN f = DOMAIN g
    <2>1. ASSUME NEW z \in DOMAIN f PROVE z \in DOMAIN g
      BY <1>2, <1>4, <1>5 DEF IsPatched
    <2>2. ASSUME NEW z \in DOMAIN now PROVE z \in DOMAIN f
      BY <1>1, <1>4, <2>2 DEF IsPatched
    <2>3. ASSUME NEW z \in T PROVE z \in DOMAIN f
      BY <1>1, <1>4, <1>5, <2>3 DEF IsPatched
    <2>4. QED
      BY <1>2, <2>1, <2>2, <2>3
  <1>8. ASSUME NEW z \in DOMAIN f PROVE f[z] = g[z]
    <2>1. CASE z \in T
      <3>1. f[z] = new[z]
        BY <1>4, <1>5, <2>1 DEF IsPatched
      <3>2. QED
        BY <1>1, <1>2, <1>3, <2>1, <3>1
    <2>2. CASE z \notin T
      <3>1. z \in DOMAIN now /\ f[z] = now[z]
        BY <1>4, <1>5, <2>2 DEF IsPatched
      <3>2. QED
        BY <1>2, <3>1
    <2>3. QED
      BY <2>1, <2>2
  <1>9. f = g
    BY <1>2, <1>6, <1>7, <1>8
  <1>10. QED
    BY <1>9 DEF f, g, old, new, now

(* The folder and what arrives in it hang together.                        *)
LEMMA AdoptedHangs ==
  ASSUME NEW V, HasTypes(V), IsTree(V), NEW q, IsPath(q.path), q.from # None => q.from \in V.dirs,
         NEW D, Adds(D, Place(q, V).dirs, q.path)
  PROVE  /\ Hangs(D, DOMAIN Place(q, V).space, DOMAIN Place(q, V).marker \union {q.path}, DOMAIN Place(q, V).doc)
         /\ q.from = None =>
              Hangs(D, DOMAIN V.space, DOMAIN V.marker \union {q.path}, DOMAIN V.doc \union Coming(V, q.path))
  <1>1. D = Place(q, V).dirs \union {q.path} \union Parents(q.path)
    BY DEF Adds
  <1>2. CASE q.from = None \/ q.from = q.path
    <2>1. Place(q, V) = V
      BY <1>2 DEF Place
    <2>2. Hangs(D, DOMAIN V.space, DOMAIN V.marker \union {q.path}, DOMAIN V.doc)
      <3>1. Hangs(V.dirs, DOMAIN V.space, DOMAIN V.marker, DOMAIN V.doc)
        BY TreeHangs DEF HangsTogether
      <3>2. QED
        BY <1>1, <2>1, <3>1, MadeHangs
    <2>3. \A z \in Coming(V, q.path) : Parents(z) \subseteq D
      BY <1>1, ComingIs
    <2>4. Hangs(D, DOMAIN V.space, DOMAIN V.marker \union {q.path}, DOMAIN V.doc \union Coming(V, q.path))
      BY <2>2, <2>3 DEF Hangs
    <2>5. QED
      BY <2>1, <2>2, <2>4
  <1>3. CASE q.from # None /\ q.from # q.path
    <2> DEFINE from == q.from
               to == q.path
               P == Place(q, V)
    <2>1. IsShiftAll(P, V, from, to)
      BY <1>3, ShiftAllIs DEF Place
    <2>2. from \in V.dirs /\ from \in Seq(Names) /\ to \in Seq(Names) /\ \A d \in V.dirs : d \in Seq(Names)
      BY <1>3 DEF HasTypes, IsPath, Names
    <2> HIDE DEF P
    <2>3. D = P.dirs \union {to} \union Parents(to) /\ P.dirs = {Moved(d, from, to) : d \in V.dirs}
      BY <1>1, <2>1 DEF P, IsShiftAll
    <2> HIDE DEF from, to
    <2>4. \A d \in V.dirs : Moved(d, from, to) \in D
      BY <2>3
    <2>5. \A p \in V.dirs \union DOMAIN V.doc : Parents(Moved(p, from, to)) \subseteq D
      <3>1. IsPath(to) /\ \A x \in Parents(to) : x \in D
        BY <2>3 DEF to
      <3>2. QED
        BY <2>2, <2>4, <3>1, ParentsMoved
    <2>6. DOMAIN P.space \subseteq D
      <3>1. ASSUME NEW s \in DOMAIN P.space PROVE s \in D
        <4>1. s \in DOMAIN V.space /\ ~Under(s, from)
          BY <2>1, <3>1 DEF IsShiftAll, Drop
        <4>2. s \in V.dirs
          BY <4>1 DEF IsTree
        <4>3. Moved(s, from, to) = s
          BY <2>2, <4>1, <4>2, MovedIs
        <4>4. QED
          BY <2>4, <4>2, <4>3
      <3>2. QED
        BY <3>1
    <2>7. DOMAIN P.marker \union {to} \subseteq D
      <3>1. ASSUME NEW y \in DOMAIN P.marker PROVE y \in D
        <4>1. \E d \in DOMAIN V.marker : y = Moved(d, from, to)
          BY <2>1, <3>1 DEF IsShiftAll, Shift
        <4>2. QED
          BY <2>4, <4>1 DEF IsTree
      <3>2. to \in D
        BY <2>3
      <3>3. QED
        BY <3>1, <3>2
    <2>8. ASSUME NEW y \in D \union DOMAIN P.doc PROVE Parents(y) \subseteq D
      <3>1. CASE \E p \in V.dirs \union DOMAIN V.doc : y = Moved(p, from, to)
        BY <2>5, <3>1
      <3>2. CASE y = to \/ y \in Parents(to)
        <4>1. Parents(to) \subseteq D
          BY <2>3
        <4>2. y \in Parents(to) => Parents(y) \subseteq Parents(to)
          BY <2>2, ParentsAbove
        <4>3. QED
          BY <3>2, <4>1, <4>2
      <3>3. y \in DOMAIN P.doc => \E p \in DOMAIN V.doc : y = Moved(p, from, to)
        BY <2>1 DEF IsShiftAll, Shift
      <3>4. y \in D => (\E p \in V.dirs : y = Moved(p, from, to)) \/ y = to \/ y \in Parents(to)
        BY <2>3
      <3>5. QED
        BY <2>8, <3>1, <3>2, <3>3, <3>4
    <2>9. Hangs(D, DOMAIN P.space, DOMAIN P.marker \union {to}, DOMAIN P.doc)
      BY <2>6, <2>7, <2>8 DEF Hangs
    <2>10. QED
      BY <1>3, <2>9 DEF P, to
  <1>4. QED
    BY <1>2, <1>3

IsAdopted(E, P, V, q, m) ==
  /\ Shaped(E) /\ E.space = P.space /\ E.outside = P.outside
  /\ Adds(E.dirs, P.dirs, q.path) /\ E.marker = With(P.marker, q.path, m)
  /\ E.roots = IF q.project = None THEN P.roots ELSE [P.roots EXCEPT ![q.project] = q.id]
  /\ q.from # None => E.doc = P.doc
  /\ q.from = None => E.doc = Brought(V, q.path) /\ P = V

LEMMA AdoptedIs ==
  ASSUME NEW V, HasTypes(V), NEW q, IsPath(q.path), Len(q.path) > 1, q.from # None => IsPath(q.from)
  PROVE  IsAdopted(Adopt(q, V), Place(q, V), V, q, NewMarker(q.id, Nearest(V, q.path)))
  <1> DEFINE m == NewMarker(q.id, Nearest(V, q.path))
  <1>1. IsAdopt(Adopt(q, V), Arrived(q, V), V, q)
    BY AdoptIs
  <1>2. /\ SameButDocs(Arrived(q, V), Place(q, V))
        /\ q.from # None => Arrived(q, V).doc = Place(q, V).doc
        /\ q.from = None => Arrived(q, V).doc = Brought(V, q.path) /\ Place(q, V) = V
    BY ArrivedIs
  <1>3. QED
    BY <1>1, <1>2 DEF IsAdopt, IsAdopted, SameButDocs, Adds

LEMMA AdoptAlone ==
  ASSUME NEW q, NEW S, NEW H, NEW V, Ready(q, S, H, V), SeenAlike(q, S, V), q.op = "adopt"
  PROVE  Allowed(q, V) /\ Applied(q, S, V) = Effect(q, V)
  <1> DEFINE W == Applied(q, S, V)
             E == Effect(q, V)
             new == Effect(q, S)
             old == Place(q, S)
             now == Place(q, V)
             m == NewMarker(q.id, Nearest(S, q.path))
  <1>1. /\ HasTypes(S) /\ HasTypes(V) /\ IsTree(S) /\ IsTree(V) /\ IsVault(S) /\ IsVault(V)
        /\ IsRequest(q) /\ Allowed(q, S) /\ IsApplied(W, q, S, V) /\ ~CannotMove(q, S, V)
    BY ReadyIs DEF Ready
  <1>2. V.marker = S.marker /\ V.space = S.space /\ V.roots = S.roots /\ V.outside = S.outside
    BY DEF SeenAlike
  <1>3. MayAdopt(q, S) /\ AdoptStands(q, S, V) /\ (q.from # None => q.from \notin DOMAIN V.marker)
    BY <1>1, AllowedIs, StandsIs DEF Ready
  <1>4. IsPath(q.path) /\ Len(q.path) > 1 /\ (q.from # None => IsPath(q.from)) /\ q.path # None
    BY <1>1, <1>3, AdoptedPaths DEF IsRequest
  <1>5. q.from # q.path => ~Exists(S, q.path) /\ ~Exists(V, q.path)
    <2>1. q.from # q.path => ~Exists(S, q.path)
      BY <1>3 DEF MayAdopt
    <2>2. q.from # q.path => ~Exists(V, q.path)
      BY <1>1 DEF CannotMove, Source, Target
    <2>3. QED
      BY <2>1, <2>2
  <1>6. q.from # None => q.from \in V.dirs
    BY <1>3 DEF AdoptStands
  <1>7. Allowed(q, V)
    <2>1. Ids(V) = Ids(S) /\ (ParentAgrees(V, q) <=> ParentAgrees(S, q)) /\ Readable(V)
      BY <1>1, <1>2, MarkersAlike, RootsAlike, ReadableWas
    <2>2. InSpace(V, q.path)
      BY <1>2, <1>3 DEF MayAdopt, InSpace
    <2>3. MayAdopt(q, V)
      BY <1>2, <1>3, <1>5, <1>6, <2>1, <2>2 DEF MayAdopt
    <2>4. QED
      BY <1>1, <2>1, <2>3, AllowedAgain
  <1>8. E = Adopt(q, V) /\ new = Adopt(q, S) /\ Base(q, S, S) = old /\ Base(q, S, V) = now
    BY <1>1, EffectIs, BaseIs
  <1>9. IsAdopted(E, now, V, q, m) /\ IsAdopted(new, old, S, q, m)
    <2>1. Nearest(V, q.path) = Nearest(S, q.path)
      BY <1>2, MarkersAlike
    <2>2. IsAdopted(Adopt(q, V), now, V, q, NewMarker(q.id, Nearest(V, q.path)))
          /\ IsAdopted(Adopt(q, S), old, S, q, m)
      BY <1>1, <1>4, AdoptedIs
    <2> HIDE DEF E, new, old, now
    <2>3. QED
      BY <1>8, <2>1, <2>2
  <1>10. now.marker = old.marker /\ now.space = old.space /\ now.roots = old.roots
    <2>1. Place(q, V).roots = V.roots /\ Place(q, S).roots = S.roots
      BY <1>1, PlaceAlike
    <2>2. QED
      BY <1>1, <1>2, <2>1, PlaceAlike
  <1>11. HasTypes(old) /\ HasTypes(now) /\ HasTypes(new)
    BY <1>1, <1>4, TypesPlaced, EffectHasTypes
  <1>12. /\ q.from = None => \A p \in DOMAIN S.doc \union DOMAIN V.doc : ~Under(p, q.path)
         /\ Hangs(E.dirs, DOMAIN now.space, DOMAIN now.marker \union {q.path}, DOMAIN now.doc)
         /\ q.from = None => Hangs(E.dirs, DOMAIN V.space, DOMAIN V.marker \union {q.path}, DOMAIN V.doc \union Coming(V, q.path))
    <2>1. ASSUME q.from = None PROVE \A p \in DOMAIN S.doc \union DOMAIN V.doc : ~Under(p, q.path)
      <3>1. ~Exists(S, q.path) /\ ~Exists(V, q.path)
        BY <1>4, <1>5, <2>1
      <3>2. QED
        BY <1>1, <1>4, <3>1, NothingBelow
    <2>2. Adds(E.dirs, now.dirs, q.path)
      BY <1>9 DEF IsAdopted
    <2> HIDE DEF E
    <2>3. QED
      BY <1>1, <1>4, <1>6, <2>1, <2>2, AdoptedHangs
  <1>13. /\ Shaped(W) /\ W.outside = now.outside
         /\ W.space = Patched(old.space, new.space, now.space) /\ W.marker = Patched(old.marker, new.marker, now.marker)
         /\ W.doc = Patched(old.doc, new.doc, now.doc) /\ W.roots = Patched(old.roots, new.roots, now.roots)
         /\ W.dirs = Closed((now.dirs \ (old.dirs \ new.dirs)) \union (new.dirs \ old.dirs)
                              \union DOMAIN W.space \union DOMAIN W.marker, DOMAIN W.doc)
    <2> HIDE DEF W, new, old, now
    <2>1. QED
      BY <1>1, <1>8 DEF IsApplied, new
  <1> HIDE DEF W, E, new, old, now, m
  <1>14. W.space = E.space
    <2>1. IsMap(now.space) /\ new.space = old.space /\ E.space = now.space
      BY <1>9, <1>11 DEF IsAdopted, HasTypes, AreSpaces
    <2>2. Patched(old.space, old.space, now.space) = now.space
      BY <2>1, PatchedNothing
    <2>3. QED
      BY <1>13, <2>1, <2>2
  <1>15. W.marker = E.marker
    <2>1. IsMap(new.marker)
      BY <1>11 DEF HasTypes, AreMarkers
    <2>2. Patched(old.marker, new.marker, old.marker) = new.marker
      BY <2>1, PatchedAll
    <2>3. new.marker = E.marker
      BY <1>9, <1>10 DEF IsAdopted
    <2>4. QED
      BY <1>10, <1>13, <2>2, <2>3
  <1>16. W.roots = E.roots
    <2>1. IsMap(new.roots)
      BY <1>11 DEF HasTypes
    <2>2. Patched(old.roots, new.roots, old.roots) = new.roots
      BY <2>1, PatchedAll
    <2>3. new.roots = E.roots
      BY <1>9, <1>10 DEF IsAdopted
    <2>4. QED
      BY <1>10, <1>13, <2>2, <2>3
  <1>17. W.doc = E.doc
    <2>1. CASE q.from # None
      <3>1. IsMap(now.doc) /\ new.doc = old.doc /\ E.doc = now.doc
        BY <1>9, <1>11, <2>1 DEF IsAdopted, HasTypes, AreDocs
      <3>2. Patched(old.doc, old.doc, now.doc) = now.doc
        BY <3>1, PatchedNothing
      <3>3. QED
        BY <1>13, <3>1, <3>2
    <2>2. CASE q.from = None
      <3>1. new.doc = Brought(S, q.path) /\ E.doc = Brought(V, q.path) /\ old = S /\ now = V
        BY <1>9, <2>2 DEF IsAdopted
      <3>2. IsMap(Brought(S, q.path))
        BY <1>11, <3>1 DEF HasTypes, AreDocs
      <3>3. Patched(S.doc, Brought(S, q.path), V.doc) = Brought(V, q.path)
        BY <1>1, <1>2, <1>4, <1>12, <2>2, <3>2, PatchedBrought
      <3>4. QED
        BY <1>13, <3>1, <3>3
    <2>3. QED
      BY <2>1, <2>2
  <1>18. W.dirs = E.dirs
    <2>1. DOMAIN E.marker = DOMAIN now.marker \union {q.path}
      <3>1. IsMap(now.marker)
        BY <1>11 DEF HasTypes, AreMarkers
      <3>2. IsWith(E.marker, now.marker, q.path, m)
        BY <1>9, <3>1, WithIs DEF IsAdopted
      <3>3. QED
        BY <3>2 DEF IsWith
    <2>2. Hangs(E.dirs, DOMAIN E.space, DOMAIN E.marker, DOMAIN E.doc)
      <3>1. E.space = now.space
        BY <1>9 DEF IsAdopted
      <3>2. CASE q.from # None
        <4>1. E.doc = now.doc
          BY <1>9, <3>2 DEF IsAdopted
        <4>2. QED
          BY <1>12, <2>1, <3>1, <4>1
      <3>3. CASE q.from = None
        <4>1. E.doc = Brought(V, q.path) /\ now = V
          BY <1>9, <3>3 DEF IsAdopted
        <4>2. DOMAIN E.doc = DOMAIN V.doc \union Coming(V, q.path)
          BY <4>1 DEF Brought
        <4>3. Hangs(E.dirs, DOMAIN V.space, DOMAIN V.marker \union {q.path}, DOMAIN V.doc \union Coming(V, q.path))
          BY <1>12, <3>3
        <4>4. DOMAIN E.space = DOMAIN V.space /\ DOMAIN E.marker = DOMAIN V.marker \union {q.path}
          BY <2>1, <3>1, <4>1
        <4>5. QED
          BY <4>2, <4>3, <4>4
      <3>4. QED
        BY <3>2, <3>3
    <2>3. Adds(new.dirs, old.dirs, q.path) /\ Adds(E.dirs, now.dirs, q.path) /\ q.path \in DOMAIN E.space \union DOMAIN E.marker
      BY <1>9, <2>1 DEF IsAdopted
    <2>4. E.dirs = Closed((now.dirs \ (old.dirs \ new.dirs)) \union (new.dirs \ old.dirs)
                            \union DOMAIN E.space \union DOMAIN E.marker, DOMAIN E.doc)
      BY <2>2, <2>3, OneMade
    <2>5. QED
      BY <1>13, <1>14, <1>15, <1>17, <2>4
  <1>19. Shaped(W) /\ Shaped(E) /\ W.outside = E.outside
    BY <1>9, <1>13 DEF IsAdopted
  <1>20. W = E
    BY <1>14, <1>15, <1>16, <1>17, <1>18, <1>19, SameVault
  <1>21. QED
    BY <1>7, <1>20 DEF W, E

LEMMA AppliedAlone ==
  ASSUME NEW q, NEW S, NEW H, NEW V, Ready(q, S, H, V), SeenAlike(q, S, V)
  PROVE  Allowed(q, V) /\ Applied(q, S, V) = Effect(q, V)
  <1>1. IsRequest(q)
    BY ReadyIs
  <1>2. QED
    BY <1>1, SpaceAlone, CreateAlone, FormatAlone, SpaceFormatAlone, RekeyAlone, DeleteAlone, RenameAlone,
       MoveAlone, MergeAlone, AdoptAlone DEF IsRequest

LEMMA UnseenIs ==
  ASSUME NEW c \in Procs, IsRequest(job[c].req), ~Unseen(c)
  PROVE  SeenAlike(job[c].req, job[c].seen, vault)
  <1> DEFINE q == job[c].req
             S == job[c].seen
  <1>1. CASE q.op \in {"create", "adopt", "space-create", "space-adopt"}
    BY <1>1 DEF Unseen, SeenAlike
  <1>2. CASE q.op = "merge"
    BY <1>2 DEF Unseen, SeenAlike
  <1>3. CASE q.op = "delete"
    BY <1>3 DEF Unseen, SeenAlike
  <1>4. CASE q.op = "format"
    BY <1>4 DEF Unseen, SeenAlike
  <1>5. CASE q.op = "space-format"
    BY <1>5 DEF Unseen, SeenAlike
  <1>6. CASE q.op \in {"rename", "move"}
    BY <1>6 DEF Unseen, SeenAlike
  <1>7. CASE q.op = "rekey"
    BY <1>7 DEF SeenAlike
  <1>8. QED
    BY <1>1, <1>2, <1>3, <1>4, <1>5, <1>6, <1>7 DEF IsRequest

(* adopt moves no folder that has been declared since: its declaration     *)
(* would be among those that have changed.                                 *)
LEMMA SeenUndeclared ==
  ASSUME NEW c \in Procs, IsPlan(job[c]), IsRequest(job[c].req), ~Unseen(c), job[c].at # "idle"
  PROVE  Undeclared(c)
  <1> DEFINE q == job[c].req
             S == job[c].seen
  <1>1. SUFFICES ASSUME q.op = "adopt", q.from # None PROVE q.from \notin DOMAIN vault.marker
    BY DEF Undeclared
  <1>2. SeenAlike(q, S, vault) /\ Allowed(q, S)
    BY UnseenIs DEF IsPlan
  <1>3. S.marker = vault.marker /\ MayAdopt(q, S)
    BY <1>1, <1>2, AllowedIs DEF SeenAlike
  <1>4. QED
    BY <1>1, <1>3 DEF MayAdopt

(* Whatever other commands and editors have done since it was planned, what*)
(* a command of SpaceService, DomainService, DomainRestructureService and  *)
(* AdoptionService writes is what it does to the Vault of that moment, and *)
(* it is allowed on it, outside the windows of AsIfAlone.                  *)
THEOREM ActsAlone == Spec => AsIfAlone
  <1>1. ASSUME IInv, [Next]_vars
        PROVE  \A c \in Procs : Writes(c) /\ ~Late(c) /\ ~Stirred(c) /\ ~Unseen(c) =>
                 Allowed(job[c].req, vault) /\ vault' = Effect(job[c].req, vault)
    <2> SUFFICES ASSUME NEW c \in Procs, Writes(c), ~Late(c), ~Stirred(c), ~Unseen(c)
                 PROVE  Allowed(job[c].req, vault) /\ vault' = Effect(job[c].req, vault)
      OBVIOUS
    <2> DEFINE q == job[c].req
               S == job[c].seen
               H == job[c].hashed
    <2>1. IsJob(job[c]) /\ IsPlan(job[c]) /\ job[c].at = "write"
      BY <1>1 DEF IInv, Jobs, Writes, At
    <2>2. IsRequest(q)
      BY <2>1, RequestsAssumption DEF IsJob
    <2>3. Undeclared(c)
      BY <2>1, <2>2, SeenUndeclared
    <2>4. Ready(q, S, H, vault) /\ vault' = Applied(q, S, vault)
      BY <1>1, <2>3, WriterIsReady
    <2>5. SeenAlike(q, S, vault)
      BY <2>2, UnseenIs
    <2> HIDE DEF q, S, H
    <2>6. Allowed(q, vault) /\ Applied(q, S, vault) = Effect(q, vault)
      BY <2>4, <2>5, AppliedAlone
    <2>7. QED
      BY <2>4, <2>6 DEF q
  <1>2. QED
    BY <1>1, InvariantIInv, PTL DEF Spec, AsIfAlone
=============================================================================
