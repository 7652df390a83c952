----------------------------- MODULE VideoProofs -----------------------------
(***************************************************************************)
(* What video promises, for any number of processes, contents and bounds.  *)
(* Contents are numbered as they are saved, so what was read later has a   *)
(* number at least as high, and equal numbers are equal contents: whoever  *)
(* finds the first content again at the end knows that all it read between *)
(* is that content.                                                        *)
(***************************************************************************)
EXTENDS Video, TLAPS

JobFields == {"at", "args", "expected", "plan", "hashed", "got", "since"}
TargetShape(t) == t = [f \in {"prefix", "own", "body"} |-> t[f]]
Shapes ==
  /\ job = [p \in Procs |-> [f \in JobFields |-> job[p][f]]]
  /\ bundles = [d \in Bundles |-> bundles[d]]
  /\ lock = [r \in Roots |-> lock[r]]
  /\ TargetShape(target)
  /\ count \in [runs : Nat, saves : 0..MaxSaves, faults : Nat]

Numbered ==
  /\ film \in 0..count.saves /\ subtitle \in 0..count.saves
  /\ draft \in [source : Nat, kind : {"transcript", "article"}, ids : Seq(Nat), omitted : SUBSET Nat,
                text : 0..count.saves]

SetupInv(p) ==
  /\ At(p, "install") => job[p].plan = job[p].expected
  /\ job[p].at \in {"download", "model lock", "model check", "model publish"} => job[p].expected.download
  /\ job[p].at \in {"model lock", "model check", "model publish"} => job[p].got = "whole"

OutFits(out, source) == out \in Bundles /\ (out \notin Named => out = source)
WordsSince(by, first, words) == IF by = "subtitle" THEN first \in Nat /\ words \in first..subtitle ELSE words = first
Made(plan, got) == got = [source |-> plan.source, of |-> got.of, words |-> got.words]
PrepareInv(p) ==
  /\ At(p, "prepare") => job[p].args.out \in Named \union {None}
  /\ job[p].at \in {"transcribe", "home lock", "compare", "publish"} =>
       /\ job[p].plan = job[p].expected
       /\ job[p].plan.source \in 0..film /\ OutFits(job[p].plan.out, job[p].plan.source)
  /\ At(p, "transcribe") =>
       IF job[p].plan.by = "subtitle" THEN job[p].plan.words \in 0..subtitle ELSE job[p].plan.words = None
  /\ job[p].at \in {"home lock", "compare", "publish"} =>
       /\ Made(job[p].plan, job[p].got) /\ job[p].got.of \in job[p].plan.source..film
       /\ WordsSince(job[p].plan.by, job[p].plan.words, job[p].got.words)
  /\ job[p].at \in {"compare", "publish"} => lock["home"] = p
  /\ At(p, "publish") => /\ job[p].got.of = job[p].plan.source /\ job[p].got.words = job[p].plan.words
                         /\ bundles[job[p].plan.out] = None

(* d was there no later than e.                                            *)
Before(d, e) == d.text \in Nat /\ d.text <= e.text /\ (d.text = e.text => d = e)
GoodInputs(inputs) ==
  Valid(inputs.draft, inputs.material) /\ inputs.material.of = inputs.material.source
  /\ inputs.draft.kind \in {"transcript", "article"} /\ Len(inputs.draft.ids) \in Nat
DeliverInv(p) ==
  /\ job[p].at \in {"deliver", "read", "plan"} => job[p].args \in Bundles
  /\ job[p].at \in {"read", "plan"} => Before(job[p].hashed.draft, draft)
  /\ At(p, "plan") => /\ Before(job[p].hashed.draft, job[p].got.draft) /\ Before(job[p].got.draft, draft)
                      /\ GoodInputs(job[p].got)
  /\ job[p].at \in {"vault lock", "hook", "write"} =>
       /\ GoodInputs(job[p].got)
       /\ job[p].plan = job[p].expected /\ job[p].expected.inputs = job[p].hashed
       /\ job[p].hashed.draft = job[p].got.draft
       /\ TargetShape(job[p].plan.target)
       /\ job[p].plan.target.own = None /\ job[p].plan.target.body = None
  /\ job[p].at \in {"hook", "write"} =>
       /\ lock["vault"] = p /\ job[p].since \in 0..count.saves
       /\ job[p].since = count.saves => target = job[p].plan.target
  /\ At(p, "write") => (job[p].since = count.saves => draft = job[p].got.draft)

(* Material is of the content whose hash it bears.                         *)
MaterialIsOfItsSource ==
  \A d \in Bundles : bundles[d] # None =>
    /\ bundles[d].of = bundles[d].source
    /\ d \notin Named => bundles[d].source = d
JobInv(p) == SetupInv(p) /\ PrepareInv(p) /\ DeliverInv(p)
IInv == Shapes /\ Numbered /\ MaterialIsOfItsSource /\ \A p \in Procs : JobInv(p)

----------------------------------------------------------------------------
(* Only p moved: the others are where they were.                           *)
Only(p) ==
  /\ job' = [q \in Procs |-> [f \in JobFields |-> job'[q][f]]]
  /\ \A q \in Procs \ {p} : job'[q] = job[q]

LEMMA Moves ==
  ASSUME Shapes, NEW p \in Procs, NEW r, r = [f \in JobFields |-> r[f]], job' = [job EXCEPT ![p] = r]
  PROVE  Only(p) /\ job'[p] = r
<1>1. \A q \in Procs : job'[q] = IF q = p THEN r ELSE job[q]
  BY DEF Shapes
<1>2. DOMAIN job' = Procs /\ job' = [q \in Procs |-> job'[q]]
  BY DEF Shapes
<1>3. \A q \in Procs : job'[q] = [f \in JobFields |-> job'[q][f]]
  BY <1>1 DEF Shapes
<1> QED BY <1>1, <1>2, <1>3 DEF Only

LEMMA JobsAreRecords ==
  ASSUME Shapes, NEW p \in Procs
  PROVE  job[p] = [f \in JobFields |-> job[p][f]]
BY DEF Shapes

LEMMA Finishing ==
  ASSUME Shapes, NEW p \in Procs, Finish(p)
  PROVE  Only(p) /\ job'[p] = Idle
<1>1. Idle = [f \in JobFields |-> Idle[f]]
  BY DEF Idle, JobFields
<1> QED BY <1>1, Moves DEF Finish

LEMMA Going ==
  ASSUME Shapes, NEW p \in Procs, NEW there, Goto(p, there)
  PROVE  /\ Only(p)
         /\ job'[p].at = there /\ job'[p].args = job[p].args /\ job'[p].expected = job[p].expected
         /\ job'[p].plan = job[p].plan /\ job'[p].hashed = job[p].hashed /\ job'[p].got = job[p].got
         /\ job'[p].since = job[p].since
<1> DEFINE r == [job[p] EXCEPT !.at = there]
<1>1. job[p] = [f \in JobFields |-> job[p][f]]
  BY JobsAreRecords
<1>2. r = [f \in JobFields |-> r[f]]
  BY <1>1 DEF JobFields
<1>3. job' = [job EXCEPT ![p] = r]
  BY DEF Goto
<1>4. /\ r.at = there /\ r.args = job[p].args /\ r.expected = job[p].expected
      /\ r.plan = job[p].plan /\ r.hashed = job[p].hashed /\ r.got = job[p].got /\ r.since = job[p].since
  BY <1>1 DEF JobFields
<1> HIDE DEF r
<1>5. Only(p) /\ job'[p] = r
  BY <1>2, <1>3, Moves
<1> QED BY <1>4, <1>5

(* What a process relies on, when another one takes a step.                *)
LEMMA OthersStay ==
  ASSUME NEW q \in Procs, JobInv(q), job'[q] = job[q],
         film' = film, subtitle' = subtitle, draft' = draft, count'.saves = count.saves,
         target' = target \/ lock["vault"] # q, bundles' = bundles \/ lock["home"] # q,
         \A r \in {"vault", "home"} : lock'[r] = lock[r] \/ lock[r] # q
  PROVE  JobInv(q)'
<1>1. SetupInv(q)'
  BY DEF JobInv, SetupInv, At
<1>2. PrepareInv(q)'
  BY DEF JobInv, PrepareInv, OutFits, Made, WordsSince, At
<1>3. DeliverInv(q)'
  <2>1. CASE job[q].at \in {"hook", "write"}
    <3>1. lock["vault"] = q /\ target' = target /\ lock'["vault"] = q
      BY <2>1 DEF JobInv, DeliverInv
    <3> QED BY <3>1 DEF JobInv, DeliverInv, GoodInputs, Before, TargetShape, At
  <2>2. CASE job[q].at \notin {"hook", "write"}
    BY <2>2 DEF JobInv, DeliverInv, GoodInputs, Before, TargetShape, At
  <2> QED BY <2>1, <2>2
<1> QED BY <1>1, <1>2, <1>3 DEF JobInv

LEMMA StepConcludes ==
  ASSUME IInv, NEW p \in Procs, Only(p), Shapes', MaterialIsOfItsSource', JobInv(p)',
         film' = film, subtitle' = subtitle, draft' = draft, count'.saves = count.saves,
         target' = target \/ lock["vault"] = p, bundles' = bundles \/ lock["home"] = p,
         \A q \in Procs \ {p} : \A r \in {"vault", "home"} : lock'[r] = lock[r] \/ lock[r] # q
  PROVE  IInv'
<1>1. ASSUME NEW q \in Procs PROVE JobInv(q)'
  <2>1. CASE q = p
    BY <2>1
  <2>2. CASE q # p
    <3>1. job'[q] = job[q] /\ JobInv(q)
      BY <2>2 DEF Only, IInv
    <3> QED BY <3>1, <2>2, OthersStay
  <2> QED BY <2>1, <2>2
<1>2. Numbered'
  BY DEF IInv, Numbered
<1> QED BY <1>1, <1>2 DEF IInv

(* Releasing, and taking a lock.                                           *)
LEMMA Releasing ==
  ASSUME Shapes, NEW p \in Procs, lock' = Unlocked(p)
  PROVE  /\ lock' = [r \in Roots |-> lock'[r]]
         /\ \A q \in Procs \ {p} : \A r \in {"vault", "home"} : lock'[r] = lock[r] \/ lock[r] # q
BY DEF Shapes, Unlocked, Roots

LEMMA Counting ==
  ASSUME Shapes, Tally("runs", MaxRuns) \/ Tally("faults", MaxFaults)
  PROVE  count' \in [runs : Nat, saves : 0..MaxSaves, faults : Nat] /\ count'.saves = count.saves
BY DEF Shapes, Tally

(* Places where nothing is remembered that an invariant is about.          *)
LEMMA EarlyPlaces ==
  ASSUME NEW p \in Procs, job'[p].at \in {"idle", "setup", "validate"}
  PROVE  JobInv(p)'
BY DEF JobInv, SetupInv, PrepareInv, DeliverInv, At

(* A step that changes no file and no lock.                                *)
LEMMA QuietStep ==
  ASSUME IInv, NEW p \in Procs, Only(p), JobInv(p)', Unwritten, UNCHANGED lock,
         UNCHANGED count \/ Tally("runs", MaxRuns) \/ Tally("faults", MaxFaults)
  PROVE  IInv'
<1>1. count' \in [runs : Nat, saves : 0..MaxSaves, faults : Nat] /\ count'.saves = count.saves
  BY Counting DEF IInv, Shapes
<1>2. Shapes'
  BY <1>1 DEF IInv, Shapes, TargetShape, Only, Unwritten, texts
<1>3. MaterialIsOfItsSource'
  BY DEF IInv, MaterialIsOfItsSource, Unwritten
<1> QED BY <1>1, <1>2, <1>3, StepConcludes DEF Unwritten, texts

----------------------------------------------------------------------------
LEMMA SetupPreviewStep ==
  ASSUME IInv, NEW p \in Procs, SetupPreview(p)
  PROVE  IInv'
<1> DEFINE r == [job[p] EXCEPT !.at = "setup", !.expected = SetupPlan]
<1>1. Shapes
  BY DEF IInv
<1>2. r = [f \in JobFields |-> r[f]] /\ r.at = "setup"
  BY <1>1 DEF Shapes, JobFields
<1>3. job' = [job EXCEPT ![p] = r] \/ Finish(p)
  BY DEF SetupPreview
<1> HIDE DEF r
<1>4. Only(p) /\ job'[p].at \in {"idle", "setup"}
  BY <1>1, <1>2, <1>3, Moves, Finishing DEF Idle
<1>5. JobInv(p)'
  BY <1>4, EarlyPlaces
<1> QED BY <1>4, <1>5, QuietStep DEF SetupPreview, MayRun

LEMMA SetupStep ==
  ASSUME IInv, NEW p \in Procs, Setup(p)
  PROVE  IInv'
<1> DEFINE next == SetupNext(SetupPlan)
           plan == SetupPlan
           r == [job[p] EXCEPT !.at = next, !.plan = plan]
<1>1. Shapes
  BY DEF IInv
<1>2. CASE Finish(p)
  <2>1. Only(p) /\ JobInv(p)'
    BY <1>1, <1>2, Finishing, EarlyPlaces DEF Idle
  <2> QED BY <2>1, QuietStep DEF Setup, Quiet
<1>3. CASE ~Finish(p)
  <2>1. job' = [job EXCEPT ![p] = r] /\ job[p].expected = plan
    BY <1>3 DEF Setup
  <2>2. next \in {"install", "download", "validate"} /\ (next = "download" => plan.download)
    BY DEF SetupNext
  <2> HIDE DEF next, plan
  <2>3. /\ r = [f \in JobFields |-> r[f]] /\ r.at = next /\ r.plan = plan /\ r.expected = job[p].expected
    BY <1>1, JobsAreRecords DEF JobFields
  <2> HIDE DEF r
  <2>4. Only(p) /\ job'[p].at = next /\ job'[p].plan = plan /\ job'[p].expected = plan
    BY <1>1, <2>1, <2>3, Moves
  <2>5. JobInv(p)'
    BY <2>2, <2>4 DEF JobInv, SetupInv, PrepareInv, DeliverInv, At
  <2> QED BY <2>4, <2>5, QuietStep DEF Setup, Quiet
<1> QED BY <1>2, <1>3

(* Steps that go to one of the early places, or stop.                      *)
LEMMA EndingQuietly ==
  ASSUME IInv, NEW p \in Procs, Finish(p), Unwritten, UNCHANGED lock,
         UNCHANGED count \/ Tally("runs", MaxRuns) \/ Tally("faults", MaxFaults)
  PROVE  IInv'
<1>1. Only(p) /\ JobInv(p)'
  BY Finishing, EarlyPlaces DEF Idle, IInv
<1> QED BY <1>1, QuietStep

LEMMA InstallStep ==
  ASSUME IInv, NEW p \in Procs, Install(p)
  PROVE  IInv'
<1>1. Shapes /\ SetupInv(p)
  BY DEF IInv, JobInv
<1>2. Only(p) /\ JobInv(p)'
  <2>1. CASE Finish(p)
    BY <1>1, <2>1, Finishing, EarlyPlaces DEF Idle
  <2>2. CASE Goto(p, "download") /\ job[p].plan.download
    <3>1. job[p].expected.download
      BY <1>1, <2>2 DEF Install, SetupInv
    <3>2. Only(p) /\ job'[p].at = "download" /\ job'[p].expected = job[p].expected
      BY <1>1, <2>2, Going
    <3> QED BY <3>1, <3>2 DEF JobInv, SetupInv, PrepareInv, DeliverInv, At
  <2>3. CASE Goto(p, "validate")
    BY <1>1, <2>3, Going, EarlyPlaces
  <2> QED BY <2>1, <2>2, <2>3 DEF Install
<1>3. Shapes'
  BY <1>2 DEF IInv, Shapes, TargetShape, Only, Install, texts
<1>4. MaterialIsOfItsSource'
  BY DEF IInv, MaterialIsOfItsSource, Install
<1> QED BY <1>2, <1>3, <1>4, StepConcludes DEF Install, texts

LEMMA DownloadStep ==
  ASSUME IInv, NEW p \in Procs, Download(p)
  PROVE  IInv'
<1>1. CASE Finish(p)
  BY <1>1, EndingQuietly DEF Download, Quiet
<1>2. CASE ~Finish(p)
  <2> DEFINE r == [job[p] EXCEPT !.at = "model lock", !.got = "whole"]
  <2>1. job' = [job EXCEPT ![p] = r]
    BY <1>2 DEF Download
  <2>2. Shapes /\ SetupInv(p)
    BY DEF IInv, JobInv
  <2>3. r = [f \in JobFields |-> r[f]] /\ r.at = "model lock" /\ r.got = "whole" /\ r.expected = job[p].expected
    BY <2>2, JobsAreRecords DEF JobFields
  <2> HIDE DEF r
  <2>4. Only(p) /\ job'[p].at = "model lock" /\ job'[p].got = "whole" /\ job'[p].expected = job[p].expected
    BY <2>1, <2>2, <2>3, Moves
  <2>5. JobInv(p)'
    BY <2>2, <2>4 DEF Download, JobInv, SetupInv, PrepareInv, DeliverInv, At
  <2> QED BY <2>4, <2>5, QuietStep DEF Download, Quiet
<1> QED BY <1>1, <1>2

(* Taking the lock of a root.                                              *)
LEMMA Locking ==
  ASSUME Shapes, NEW p \in Procs, NEW root \in Roots, NEW there, Lock(p, root, there), lock[root] = None
  PROVE  /\ Only(p) /\ lock' = [lock EXCEPT ![root] = p]
         /\ job'[p].at = there /\ job'[p].args = job[p].args /\ job'[p].expected = job[p].expected
         /\ job'[p].plan = job[p].plan /\ job'[p].hashed = job[p].hashed /\ job'[p].got = job[p].got
         /\ job'[p].since = count.saves
<1> DEFINE saves == count.saves
           r == [job[p] EXCEPT !.at = there, !.since = saves]
<1>1. job' = [job EXCEPT ![p] = r] /\ lock' = [lock EXCEPT ![root] = p]
  BY DEF Lock
<1> HIDE DEF saves
<1>2. r = [f \in JobFields |-> r[f]]
  BY JobsAreRecords DEF JobFields
<1>3. /\ r.at = there /\ r.args = job[p].args /\ r.expected = job[p].expected
      /\ r.plan = job[p].plan /\ r.hashed = job[p].hashed /\ r.got = job[p].got /\ r.since = saves
  BY JobsAreRecords DEF JobFields
<1> HIDE DEF r
<1>4. Only(p) /\ job'[p] = r
  BY <1>1, <1>2, Moves
<1> QED BY <1>1, <1>3, <1>4 DEF saves

(* Taking a lock that is not the one of the Workspace.                     *)
LEMMA LockStep ==
  ASSUME IInv, NEW p \in Procs, NEW root \in {"models", "home"}, NEW there,
         Lock(p, root, there), lock[root] = None, JobInv(p)', Unwritten, UNCHANGED count
  PROVE  IInv'
<1>1. Only(p) /\ lock' = [lock EXCEPT ![root] = p] /\ Shapes
  BY Locking DEF IInv, Roots
<1>2. /\ lock' = [x \in Roots |-> lock'[x]]
      /\ \A q \in Procs \ {p} : \A r \in {"vault", "home"} : lock'[r] = lock[r] \/ lock[r] # q
  BY <1>1, VideoAssumption DEF Shapes, Roots
<1>3. Shapes'
  BY <1>1, <1>2 DEF Shapes, TargetShape, Only, Unwritten, texts
<1>4. MaterialIsOfItsSource'
  BY DEF IInv, MaterialIsOfItsSource, Unwritten
<1> QED BY <1>1, <1>2, <1>3, <1>4, StepConcludes DEF Unwritten, texts

LEMMA ModelLockStep ==
  ASSUME IInv, NEW p \in Procs, ModelLock(p)
  PROVE  IInv'
<1>1. CASE lock["models"] # None
  BY <1>1, EndingQuietly DEF ModelLock, Lock
<1>2. CASE lock["models"] = None
  <2>1. Lock(p, "models", "model check") /\ Shapes /\ SetupInv(p)
    BY DEF ModelLock, IInv, JobInv
  <2>2. job'[p].at = "model check" /\ job'[p].got = job[p].got /\ job'[p].expected = job[p].expected
    BY <1>2, <2>1, Locking DEF Roots
  <2>3. JobInv(p)'
    BY <2>1, <2>2 DEF ModelLock, JobInv, SetupInv, PrepareInv, DeliverInv, At
  <2> QED BY <1>2, <2>1, <2>3, LockStep DEF ModelLock
<1> QED BY <1>1, <1>2

LEMMA ModelPublishStep ==
  ASSUME IInv, NEW p \in Procs, ModelPublish(p)
  PROVE  IInv'
<1>1. Shapes /\ lock' = Unlocked(p)
  BY DEF IInv, ModelPublish
<1>2. Only(p) /\ JobInv(p)'
  <2>1. CASE Finish(p)
    BY <1>1, <2>1, Finishing, EarlyPlaces DEF Idle
  <2>2. CASE Goto(p, "validate")
    BY <1>1, <2>2, Going, EarlyPlaces
  <2> QED BY <2>1, <2>2 DEF ModelPublish
<1>3. Shapes'
  BY <1>1, <1>2, Releasing DEF Shapes, TargetShape, Only, ModelPublish, texts
<1>4. MaterialIsOfItsSource'
  BY DEF IInv, MaterialIsOfItsSource, ModelPublish
<1> QED BY <1>1, <1>2, <1>3, <1>4, Releasing, StepConcludes DEF ModelPublish, texts

LEMMA Stopping ==
  ASSUME IInv, NEW p \in Procs, Stop(p), Unwritten, UNCHANGED count \/ Tally("faults", MaxFaults)
  PROVE  IInv'
<1>1. Only(p) /\ JobInv(p)' /\ lock' = Unlocked(p) /\ Shapes
  BY Finishing, EarlyPlaces DEF Idle, IInv, Stop
<1>2. count' \in [runs : Nat, saves : 0..MaxSaves, faults : Nat] /\ count'.saves = count.saves
  BY Counting DEF IInv, Shapes
<1>3. Shapes'
  BY <1>1, <1>2, Releasing DEF Shapes, TargetShape, Only, Unwritten, texts
<1>4. MaterialIsOfItsSource'
  BY DEF IInv, MaterialIsOfItsSource, Unwritten
<1> QED BY <1>1, <1>2, <1>3, <1>4, Releasing, StepConcludes DEF Unwritten, texts

LEMMA ModelCheckStep ==
  ASSUME IInv, NEW p \in Procs, ModelCheck(p)
  PROVE  IInv'
<1>1. CASE Stop(p)
  BY <1>1, Stopping DEF ModelCheck
<1>2. CASE ~Stop(p)
  <2>1. Goto(p, "model publish") /\ UNCHANGED lock /\ SetupInv(p)
    BY <1>2 DEF ModelCheck, IInv, JobInv
  <2>2. /\ Only(p) /\ job'[p].at = "model publish" /\ job'[p].got = job[p].got
        /\ job'[p].expected = job[p].expected
    BY <2>1, Going DEF IInv
  <2>3. JobInv(p)'
    BY <2>1, <2>2 DEF ModelCheck, JobInv, SetupInv, PrepareInv, DeliverInv, At
  <2> QED BY <2>1, <2>2, <2>3, QuietStep DEF ModelCheck
<1> QED BY <1>1, <1>2

LEMMA ValidateStep ==
  ASSUME IInv, NEW p \in Procs, Validate(p)
  PROVE  IInv'
BY EndingQuietly DEF Validate, Quiet

----------------------------------------------------------------------------
LEMMA PreparePreviewStep ==
  ASSUME IInv, NEW p \in Procs, PreparePreview(p)
  PROVE  IInv'
<1>1. CASE Finish(p)
  BY <1>1, EndingQuietly DEF PreparePreview, MayRun
<1>2. CASE ~Finish(p)
  <2>1. PICK out \in Named \union {None}, by \in {"model", "subtitle"} :
          LET args == [out |-> out, by |-> by]
          IN  job' = [job EXCEPT ![p] = [@ EXCEPT !.at = "prepare", !.args = args, !.expected = PreparePlan(args)]]
    BY <1>2 DEF PreparePreview
  <2> DEFINE args == [out |-> out, by |-> by]
             plan == PreparePlan(args)
             r == [job[p] EXCEPT !.at = "prepare", !.args = args, !.expected = plan]
  <2>2. job' = [job EXCEPT ![p] = r]
    BY <2>1
  <2>3. args.out = out
    OBVIOUS
  <2> HIDE DEF args, plan
  <2>4. r = [f \in JobFields |-> r[f]] /\ r.at = "prepare" /\ r.args = args
    BY JobsAreRecords DEF JobFields, IInv
  <2> HIDE DEF r
  <2>5. Only(p) /\ job'[p].at = "prepare" /\ job'[p].args.out = out
    BY <2>2, <2>3, <2>4, Moves DEF IInv
  <2>6. JobInv(p)'
    BY <2>5 DEF JobInv, SetupInv, PrepareInv, DeliverInv, At
  <2> QED BY <2>5, <2>6, QuietStep DEF PreparePreview, MayRun
<1> QED BY <1>1, <1>2

LEMMA PlansFit ==
  ASSUME IInv, NEW args, args.out \in Named \union {None}
  PROVE  LET plan == PreparePlan(args) IN
         /\ plan.source \in 0..film /\ OutFits(plan.out, plan.source)
         /\ IF plan.by = "subtitle" THEN plan.words \in 0..subtitle ELSE plan.words = None
<1>1. film \in 0..film /\ film \in Bundles /\ subtitle \in 0..subtitle
  BY VideoAssumption DEF IInv, Shapes, Numbered, Bundles, Contents
<1> QED BY <1>1 DEF PreparePlan, OutFits, Bundles

LEMMA PrepareStep ==
  ASSUME IInv, NEW p \in Procs, Prepare(p)
  PROVE  IInv'
<1>1. CASE Finish(p)
  BY <1>1, EndingQuietly DEF Prepare, Quiet
<1>2. CASE ~Finish(p)
  <2> DEFINE plan == PreparePlan(job[p].args)
             r == [job[p] EXCEPT !.at = "transcribe", !.plan = plan]
  <2>1. job' = [job EXCEPT ![p] = r] /\ plan = job[p].expected
    BY <1>2 DEF Prepare
  <2>2. /\ plan.source \in 0..film /\ OutFits(plan.out, plan.source)
        /\ IF plan.by = "subtitle" THEN plan.words \in 0..subtitle ELSE plan.words = None
    BY PlansFit DEF Prepare, IInv, JobInv, PrepareInv
  <2> HIDE DEF plan
  <2>3. r = [f \in JobFields |-> r[f]] /\ r.at = "transcribe" /\ r.plan = plan /\ r.expected = job[p].expected
    BY JobsAreRecords DEF JobFields, IInv
  <2> HIDE DEF r
  <2>4. Only(p) /\ job'[p].at = "transcribe" /\ job'[p].plan = plan /\ job'[p].expected = plan
    BY <2>1, <2>3, Moves DEF IInv
  <2>5. film' = film /\ subtitle' = subtitle
    BY DEF Prepare, Quiet, Unwritten, texts
  <2>6. JobInv(p)'
    BY <2>2, <2>4, <2>5 DEF JobInv, SetupInv, PrepareInv, OutFits, DeliverInv, At
  <2> QED BY <2>4, <2>6, QuietStep DEF Prepare, Quiet
<1> QED BY <1>1, <1>2

LEMMA TranscribeStep ==
  ASSUME IInv, NEW p \in Procs, Transcribe(p)
  PROVE  IInv'
<1>1. CASE Finish(p)
  BY <1>1, EndingQuietly DEF Transcribe, Quiet
<1>2. CASE ~Finish(p)
  <2> DEFINE got == MediaWorker(job[p].plan)
             r == [job[p] EXCEPT !.at = "home lock", !.got = got]
  <2>1. job' = [job EXCEPT ![p] = r]
    BY <1>2 DEF Transcribe
  <2>2. /\ Made(job[p].plan, got) /\ got.of = film
        /\ got.words = IF job[p].plan.by = "subtitle" THEN subtitle ELSE None
    BY DEF MediaWorker, Made
  <2> HIDE DEF got
  <2>3. /\ r = [f \in JobFields |-> r[f]] /\ r.at = "home lock" /\ r.got = got
        /\ r.plan = job[p].plan /\ r.expected = job[p].expected
    BY JobsAreRecords DEF JobFields, IInv
  <2> HIDE DEF r
  <2>4. /\ Only(p) /\ job'[p].at = "home lock" /\ job'[p].got = got
        /\ job'[p].plan = job[p].plan /\ job'[p].expected = job[p].expected
    BY <2>1, <2>3, Moves DEF IInv
  <2>5. film' = film /\ film \in Nat /\ subtitle' = subtitle /\ subtitle \in Nat
    BY DEF Transcribe, Quiet, Unwritten, texts, IInv, Numbered, Shapes
  <2>6. /\ job[p].plan.source \in 0..film /\ OutFits(job[p].plan.out, job[p].plan.source)
        /\ job[p].plan = job[p].expected
        /\ IF job[p].plan.by = "subtitle" THEN job[p].plan.words \in 0..subtitle ELSE job[p].plan.words = None
    BY DEF Transcribe, At, IInv, JobInv, PrepareInv
  <2>7. film \in job[p].plan.source..film /\ WordsSince(job[p].plan.by, job[p].plan.words, got.words)
    BY <2>2, <2>5, <2>6 DEF WordsSince
  <2>8. SetupInv(p)' /\ DeliverInv(p)'
    BY <2>4 DEF SetupInv, DeliverInv, At
  <2>9. PrepareInv(p)'
    BY <2>2, <2>4, <2>5, <2>6, <2>7 DEF PrepareInv, OutFits, Made, WordsSince, At
  <2> QED BY <2>4, <2>8, <2>9, QuietStep DEF Transcribe, Quiet, JobInv
<1> QED BY <1>1, <1>2

LEMMA HomeLockStep ==
  ASSUME IInv, NEW p \in Procs, HomeLock(p)
  PROVE  IInv'
<1>1. CASE lock["home"] # None
  BY <1>1, EndingQuietly DEF HomeLock, Lock
<1>2. CASE lock["home"] = None
  <2>1. Lock(p, "home", "compare") /\ Shapes /\ PrepareInv(p)
    BY DEF HomeLock, IInv, JobInv
  <2>2. /\ job'[p].at = "compare" /\ job'[p].got = job[p].got /\ job'[p].plan = job[p].plan
        /\ job'[p].expected = job[p].expected /\ lock' = [lock EXCEPT !["home"] = p]
    BY <1>2, <2>1, Locking DEF Roots
  <2>3. film' = film /\ subtitle' = subtitle /\ lock'["home"] = p
    BY <2>1, <2>2 DEF HomeLock, Unwritten, texts, Shapes, Roots
  <2>4. JobInv(p)'
    BY <2>1, <2>2, <2>3 DEF HomeLock, JobInv, SetupInv, PrepareInv, OutFits, Made, WordsSince, DeliverInv, At
  <2> QED BY <1>2, <2>1, <2>4, LockStep DEF HomeLock
<1> QED BY <1>1, <1>2

LEMMA CompareStep ==
  ASSUME IInv, NEW p \in Procs, Compare(p)
  PROVE  IInv'
<1>1. CASE Stop(p)
  BY <1>1, Stopping DEF Compare
<1>2. CASE ~Stop(p)
  <2>1. /\ Goto(p, "publish") /\ UNCHANGED lock /\ film = job[p].plan.source
        /\ bundles[job[p].plan.out] = None /\ (job[p].plan.by = "subtitle" => subtitle = job[p].plan.words)
    BY <1>2 DEF Compare
  <2>2. /\ job[p].plan.source \in 0..film /\ OutFits(job[p].plan.out, job[p].plan.source)
        /\ job[p].plan = job[p].expected /\ lock["home"] = p
        /\ Made(job[p].plan, job[p].got) /\ job[p].got.of \in job[p].plan.source..film
        /\ WordsSince(job[p].plan.by, job[p].plan.words, job[p].got.words)
    BY DEF Compare, At, IInv, JobInv, PrepareInv
  <2>3. job[p].got.of = job[p].plan.source /\ job[p].got.words = job[p].plan.words
    BY <2>1, <2>2 DEF IInv, Numbered, Shapes, WordsSince
  <2>4. /\ Only(p) /\ job'[p].at = "publish" /\ job'[p].got = job[p].got
        /\ job'[p].plan = job[p].plan /\ job'[p].expected = job[p].expected
    BY <2>1, Going DEF IInv
  <2>5. film' = film /\ subtitle' = subtitle /\ bundles' = bundles
    BY DEF Compare, Unwritten, texts
  <2>6. SetupInv(p)' /\ DeliverInv(p)'
    BY <2>4 DEF SetupInv, DeliverInv, At
  <2>8. /\ OutFits(job[p].plan.out, job[p].plan.source)'
        /\ Made(job[p].plan, job[p].got)'
        /\ WordsSince(job[p].plan.by, job[p].plan.words, job[p].got.words)'
    BY <2>2, <2>4, <2>5 DEF OutFits, Made, WordsSince
  <2>7. PrepareInv(p)'
    BY <2>1, <2>2, <2>3, <2>4, <2>5, <2>8 DEF PrepareInv, At
  <2> QED BY <2>1, <2>4, <2>6, <2>7, QuietStep DEF Compare, JobInv
<1> QED BY <1>1, <1>2

LEMMA PublishStep ==
  ASSUME IInv, NEW p \in Procs, Publish(p)
  PROVE  IInv'
<1>1. Only(p) /\ JobInv(p)' /\ lock' = Unlocked(p) /\ Shapes
  BY Finishing, EarlyPlaces DEF Idle, IInv, Publish, Stop
<1>2. /\ OutFits(job[p].plan.out, job[p].plan.source) /\ lock["home"] = p
      /\ job[p].got.source = job[p].plan.source /\ job[p].got.of = job[p].plan.source
  <2>1. PrepareInv(p) /\ job[p].at = "publish"
    BY DEF Publish, At, IInv, JobInv
  <2>2. /\ OutFits(job[p].plan.out, job[p].plan.source) /\ lock["home"] = p
        /\ Made(job[p].plan, job[p].got) /\ job[p].got.of = job[p].plan.source
    BY <2>1 DEF PrepareInv, At
  <2> DEFINE plan == job[p].plan
             got == job[p].got
  <2>3. Made(plan, got)
    BY <2>2
  <2> HIDE DEF plan, got
  <2>4. got.source = plan.source
    BY <2>3 DEF Made
  <2> QED BY <2>2, <2>4 DEF plan, got
<1>3. bundles' = [bundles EXCEPT ![job[p].plan.out] = job[p].got]
  BY DEF Publish
<1>4. bundles' = [d \in Bundles |-> bundles'[d]]
  BY <1>1, <1>3 DEF Shapes
<1>5. Shapes'
  BY <1>1, <1>4, Releasing DEF Shapes, TargetShape, Only, Publish, texts
<1>6. MaterialIsOfItsSource'
  BY <1>1, <1>2, <1>3 DEF IInv, MaterialIsOfItsSource, Shapes, OutFits
<1> QED BY <1>1, <1>2, <1>5, <1>6, Releasing, StepConcludes DEF Publish, texts

----------------------------------------------------------------------------
LEMMA DeliverHashStep ==
  ASSUME IInv, NEW p \in Procs, DeliverHash(p)
  PROVE  IInv'
<1>1. CASE Finish(p)
  BY <1>1, EndingQuietly DEF DeliverHash, MayRun
<1>2. CASE ~Finish(p)
  <2>1. PICK dir \in Bundles :
          \/ job' = [job EXCEPT ![p] = [@ EXCEPT !.at = "read", !.args = dir, !.hashed = Inputs(dir)]]
          \/ job[p].args = dir /\ job' = [job EXCEPT ![p] = [@ EXCEPT !.at = "read", !.hashed = Inputs(dir)]]
    BY <1>2 DEF DeliverHash, IInv, JobInv, DeliverInv, At
  <2> DEFINE hashed == Inputs(dir)
             r == [job[p] EXCEPT !.at = "read", !.args = dir, !.hashed = hashed]
             s == [job[p] EXCEPT !.at = "read", !.hashed = hashed]
  <2>2. job' = [job EXCEPT ![p] = r] \/ (job[p].args = dir /\ job' = [job EXCEPT ![p] = s])
    BY <2>1
  <2>3. hashed.draft = draft
    BY DEF Inputs
  <2> HIDE DEF hashed
  <2>4. r = [f \in JobFields |-> r[f]] /\ r.at = "read" /\ r.args = dir /\ r.hashed = hashed
    BY JobsAreRecords DEF JobFields, IInv
  <2>5. s = [f \in JobFields |-> s[f]] /\ s.at = "read" /\ s.args = job[p].args /\ s.hashed = hashed
    BY JobsAreRecords DEF JobFields, IInv
  <2> HIDE DEF r, s
  <2>6. Only(p) /\ job'[p].at = "read" /\ job'[p].args = dir /\ job'[p].hashed = hashed
    BY <2>2, <2>4, <2>5, Moves DEF IInv
  <2>7. draft' = draft
    BY DEF DeliverHash, Unwritten, texts
  <2>8. Before(draft, draft)
    BY DEF Before, IInv, Numbered, Shapes
  <2>9. JobInv(p)'
    BY <2>3, <2>6, <2>7, <2>8 DEF JobInv, SetupInv, PrepareInv, DeliverInv, Before, At
  <2> QED BY <2>6, <2>9, QuietStep DEF DeliverHash, MayRun
<1> QED BY <1>1, <1>2

LEMMA DeliverReadStep ==
  ASSUME IInv, NEW p \in Procs, DeliverRead(p)
  PROVE  IInv'
<1>1. CASE Finish(p)
  BY <1>1, EndingQuietly DEF DeliverRead, Quiet
<1>2. CASE ~Finish(p)
  <2> DEFINE inputs == Inputs(job[p].args)
             r == [job[p] EXCEPT !.at = "plan", !.got = inputs]
  <2>1. /\ job' = [job EXCEPT ![p] = r]
        /\ inputs.material # None /\ Valid(inputs.draft, inputs.material)
    BY <1>2 DEF DeliverRead
  <2>2. /\ job[p].args \in Bundles /\ Before(job[p].hashed.draft, draft)
        /\ inputs.draft = draft /\ inputs.material = bundles[job[p].args]
    BY DEF DeliverRead, At, IInv, JobInv, DeliverInv, Inputs
  <2>3. GoodInputs(inputs)
    <3>1. Len(draft.ids) \in Nat /\ draft.kind \in {"transcript", "article"}
      BY DEF IInv, Numbered
    <3> QED BY <2>1, <2>2, <3>1 DEF GoodInputs, IInv, MaterialIsOfItsSource
  <2>9. Before(draft, draft)
    BY DEF Before, IInv, Numbered, Shapes
  <2> HIDE DEF inputs
  <2>4. /\ r = [f \in JobFields |-> r[f]] /\ r.at = "plan" /\ r.got = inputs
        /\ r.args = job[p].args /\ r.hashed = job[p].hashed
    BY JobsAreRecords DEF JobFields, IInv
  <2> HIDE DEF r
  <2>5. /\ Only(p) /\ job'[p].at = "plan" /\ job'[p].got = inputs
        /\ job'[p].args = job[p].args /\ job'[p].hashed = job[p].hashed
    BY <2>1, <2>4, Moves DEF IInv
  <2>6. draft' = draft
    BY DEF DeliverRead, Quiet, Unwritten, texts
  <2>7. SetupInv(p)' /\ PrepareInv(p)'
    BY <2>5 DEF SetupInv, PrepareInv, At
  <2>8. DeliverInv(p)'
    BY <2>2, <2>3, <2>5, <2>6, <2>9 DEF DeliverInv, GoodInputs, Before, At
  <2> QED BY <2>5, <2>7, <2>8, QuietStep DEF DeliverRead, Quiet, JobInv
<1> QED BY <1>1, <1>2

(* What is read first and last and found the same was the same in between. *)
LEMMA SameInBetween ==
  ASSUME NEW first, NEW middle, NEW last, first.text \in Nat, middle.text \in Nat, last = first,
         Before(first, middle), Before(middle, last)
  PROVE  middle = first
BY DEF Before

LEMMA DeliverPlanStep ==
  ASSUME IInv, NEW p \in Procs, DeliverPlan(p)
  PROVE  IInv'
<1>1. CASE Finish(p)
  BY <1>1, EndingQuietly DEF DeliverPlan, Quiet
<1>2. CASE ~Finish(p)
  <2> DEFINE plan == [inputs |-> job[p].hashed, target |-> target]
             next == IF job[p].expected = None THEN "deliver" ELSE "vault lock"
             r == [job[p] EXCEPT !.at = next, !.expected = plan, !.plan = plan]
  <2>1. job' = [job EXCEPT ![p] = r] /\ Inputs(job[p].args) = job[p].hashed /\ EmptyBody
    BY <1>2 DEF DeliverPlan
  <2>2. /\ job[p].args \in Bundles /\ GoodInputs(job[p].got)
        /\ Before(job[p].hashed.draft, job[p].got.draft) /\ Before(job[p].got.draft, draft)
    BY DEF DeliverPlan, At, IInv, JobInv, DeliverInv
  <2>3. draft = job[p].hashed.draft
    BY <2>1 DEF Inputs
  <2>4. job[p].got.draft = job[p].hashed.draft
    BY <2>2, <2>3, SameInBetween DEF Before
  <2>5. next \in {"deliver", "vault lock"} /\ plan.inputs = job[p].hashed /\ plan.target = target
    OBVIOUS
  <2>6. TargetShape(target) /\ target.own = None /\ target.body = None
    BY <2>1 DEF EmptyBody, IInv, Shapes
  <2> HIDE DEF plan, next
  <2>7. /\ r = [f \in JobFields |-> r[f]] /\ r.at = next /\ r.expected = plan /\ r.plan = plan
        /\ r.args = job[p].args /\ r.hashed = job[p].hashed /\ r.got = job[p].got
    BY JobsAreRecords DEF JobFields, IInv
  <2> HIDE DEF r
  <2>8. /\ Only(p) /\ job'[p].at = next /\ job'[p].expected = plan /\ job'[p].plan = plan
        /\ job'[p].args = job[p].args /\ job'[p].hashed = job[p].hashed /\ job'[p].got = job[p].got
    BY <2>1, <2>7, Moves DEF IInv
  <2>9. SetupInv(p)' /\ PrepareInv(p)'
    BY <2>5, <2>8 DEF SetupInv, PrepareInv, At
  <2>10. DeliverInv(p)'
    BY <2>2, <2>4, <2>5, <2>6, <2>8 DEF DeliverInv, GoodInputs, TargetShape, At
  <2> QED BY <2>8, <2>9, <2>10, QuietStep DEF DeliverPlan, Quiet, JobInv
<1> QED BY <1>1, <1>2

LEMMA VaultLockStep ==
  ASSUME IInv, NEW p \in Procs, VaultLock(p)
  PROVE  IInv'
<1>1. CASE lock["vault"] # None \/ target # job[p].plan.target
  BY <1>1, EndingQuietly DEF VaultLock, Lock
<1>2. CASE lock["vault"] = None /\ target = job[p].plan.target
  <2>1. Lock(p, "vault", "hook") /\ Shapes /\ DeliverInv(p) /\ At(p, "vault lock")
    BY <1>2 DEF VaultLock, IInv, JobInv
  <2>2. /\ Only(p) /\ lock' = [lock EXCEPT !["vault"] = p]
        /\ job'[p].at = "hook" /\ job'[p].expected = job[p].expected /\ job'[p].plan = job[p].plan
        /\ job'[p].hashed = job[p].hashed /\ job'[p].got = job[p].got /\ job'[p].since = count.saves
    BY <1>2, <2>1, Locking DEF Roots
  <2>3. lock' = [x \in Roots |-> lock'[x]] /\ lock'["vault"] = p
    BY <2>1, <2>2 DEF Shapes, Roots
  <2>4. Unwritten /\ count' = count
    BY DEF VaultLock
  <2>10. target' = target
    BY <2>4 DEF Unwritten, texts
  <2>11. count.saves \in 0..count.saves
    <3>1. count.saves \in 0..MaxSaves /\ MaxSaves \in Nat
      BY <2>1, VideoAssumption DEF Shapes
    <3> QED BY <3>1
  <2>5. Shapes'
    BY <2>1, <2>2, <2>3, <2>4 DEF Shapes, TargetShape, Only, Unwritten, texts
  <2>6. MaterialIsOfItsSource'
    BY <2>4 DEF IInv, MaterialIsOfItsSource, Unwritten
  <2>7. SetupInv(p)' /\ PrepareInv(p)'
    BY <2>2 DEF SetupInv, PrepareInv, At
  <2>8. DeliverInv(p)'
    BY <1>2, <2>1, <2>2, <2>3, <2>4, <2>10, <2>11 DEF DeliverInv, GoodInputs, TargetShape, At
  <2>9. \A q \in Procs \ {p} : \A x \in {"vault", "home"} : lock'[x] = lock[x] \/ lock[x] # q
    BY <1>2, <2>1, <2>2, VideoAssumption DEF Shapes, Roots
  <2> QED BY <2>2, <2>4, <2>5, <2>6, <2>7, <2>8, <2>9, StepConcludes DEF JobInv, Unwritten, texts
<1> QED BY <1>1, <1>2

LEMMA HookStep ==
  ASSUME IInv, NEW p \in Procs, Hook(p)
  PROVE  IInv'
<1>1. CASE Stop(p)
  BY <1>1, Stopping DEF Hook
<1>2. CASE ~Stop(p)
  <2>1. Goto(p, "write") /\ UNCHANGED lock /\ Inputs(job[p].args) = job[p].hashed
    BY <1>2 DEF Hook
  <2>2. DeliverInv(p) /\ At(p, "hook")
    BY DEF Hook, IInv, JobInv
  <2>3. /\ Only(p) /\ job'[p].at = "write" /\ job'[p].expected = job[p].expected /\ job'[p].plan = job[p].plan
        /\ job'[p].hashed = job[p].hashed /\ job'[p].got = job[p].got /\ job'[p].since = job[p].since
    BY <2>1, Going DEF IInv
  <2>4. draft = job[p].hashed.draft
    BY <2>1 DEF Inputs
  <2>5. Unwritten /\ count' = count
    BY DEF Hook
  <2>6. SetupInv(p)' /\ PrepareInv(p)'
    BY <2>3 DEF SetupInv, PrepareInv, At
  <2>7. DeliverInv(p)'
    BY <2>1, <2>2, <2>3, <2>4, <2>5 DEF DeliverInv, GoodInputs, TargetShape, At, Unwritten, texts
  <2> QED BY <2>1, <2>3, <2>5, <2>6, <2>7, QuietStep DEF JobInv
<1> QED BY <1>1, <1>2

LEMMA WriteStep ==
  ASSUME IInv, NEW p \in Procs, Write(p)
  PROVE  IInv'
<1>1. Only(p) /\ JobInv(p)' /\ lock' = Unlocked(p) /\ Shapes
  BY Finishing, EarlyPlaces DEF Idle, IInv, Write, Stop
<1>2. TargetShape(job[p].plan.target) /\ lock["vault"] = p
  BY DEF Write, At, IInv, JobInv, DeliverInv
<1>3. TargetShape(target')
  BY <1>2 DEF Write, TargetShape
<1>4. Shapes'
  BY <1>1, <1>3, Releasing DEF Shapes, TargetShape, Only, Write
<1>5. MaterialIsOfItsSource'
  BY DEF IInv, MaterialIsOfItsSource, Write
<1> QED BY <1>1, <1>2, <1>4, <1>5, Releasing, StepConcludes DEF Write

LEMMA FailStep ==
  ASSUME IInv, NEW p \in Procs, Fail(p)
  PROVE  IInv'
BY Stopping DEF Fail

----------------------------------------------------------------------------
(* The user: contents get higher numbers, and whoever compares the count   *)
(* of saves sees it.                                                       *)
LEMMA UserLeaves ==
  ASSUME NEW q \in Procs, JobInv(q), job' = job, lock' = lock, count.saves \in Nat, count'.saves = count.saves + 1,
         film \in Nat, film' = film \/ film' = count.saves + 1, film <= count.saves,
         subtitle \in Nat, subtitle' \in Nat, subtitle <= subtitle',
         \A d \in Bundles : bundles[d] = None => bundles'[d] = None,
         draft' = draft \/ (draft'.text = count.saves + 1 /\ draft.text <= count.saves), draft.text \in Nat
  PROVE  JobInv(q)'
<1>1. SetupInv(q)'
  BY DEF JobInv, SetupInv, At
<1>2. \A n \in 0..film : n \in 0..film' /\ \A m \in n..film : m \in n..film'
  OBVIOUS
<1>3. PrepareInv(q)'
  <2>1. PrepareInv(q)
    BY DEF JobInv
  <2>2. job[q].at \in {"transcribe", "home lock", "compare", "publish"} =>
          job[q].plan.source \in 0..film /\ job[q].plan.source \in 0..film'
    BY <1>2, <2>1 DEF PrepareInv
  <2>3. job[q].at \in {"home lock", "compare", "publish"} => job[q].got.of \in job[q].plan.source..film'
    BY <1>2, <2>1, <2>2 DEF PrepareInv
  <2>4. \A by, first, words : WordsSince(by, first, words) => WordsSince(by, first, words)'
    BY DEF WordsSince
  <2>5. At(q, "transcribe") =>
          IF job[q].plan.by = "subtitle" THEN job[q].plan.words \in 0..subtitle' ELSE job[q].plan.words = None
    <3>1. \A n \in 0..subtitle : n \in 0..subtitle'
      OBVIOUS
    <3> QED BY <2>1, <3>1 DEF PrepareInv
  <2>6. At(q, "publish") => bundles'[job[q].plan.out] = None
    BY <2>1 DEF PrepareInv, OutFits, At
  <2> QED BY <2>1, <2>2, <2>3, <2>4, <2>5, <2>6 DEF PrepareInv, OutFits, Made, At
<1>4. \A d : Before(d, draft) => Before(d, draft)'
  BY DEF Before
<1>5. DeliverInv(q)'
  <2>1. /\ job[q].at \in {"deliver", "read", "plan"} => job[q].args \in Bundles
        /\ job[q].at \in {"read", "plan"} => Before(job[q].hashed.draft, draft)'
        /\ At(q, "plan") => /\ Before(job[q].hashed.draft, job[q].got.draft) /\ Before(job[q].got.draft, draft)'
                            /\ GoodInputs(job[q].got)
    BY <1>4 DEF JobInv, DeliverInv, At
  <2>2. job[q].at \in {"hook", "write"} =>
          lock'["vault"] = q /\ job[q].since \in 0..count'.saves /\ job[q].since # count'.saves
    <3>1. job[q].at \in {"hook", "write"} => lock["vault"] = q /\ job[q].since \in 0..count.saves
      BY DEF JobInv, DeliverInv
    <3>2. \A n \in 0..count.saves : n \in 0..count'.saves /\ n # count'.saves
      OBVIOUS
    <3> QED BY <3>1, <3>2
  <2> QED BY <2>1, <2>2 DEF JobInv, DeliverInv, GoodInputs, TargetShape, Before, At
<1> QED BY <1>1, <1>3, <1>5 DEF JobInv

LEMMA UserStep ==
  ASSUME IInv, User
  PROVE  IInv'
<1>1. /\ job' = job /\ lock' = lock
      /\ SaveFilm \/ SaveSubtitle \/ SaveDraft \/ SaveTarget \/ PlaceModel \/ Discard
  BY DEF User
<1>2. /\ count.saves \in Nat /\ count'.saves = count.saves + 1
      /\ count' \in [runs : Nat, saves : 0..MaxSaves, faults : Nat]
  BY VideoAssumption DEF User, Tally, IInv, Shapes
<1>3. film' \in {film, count.saves + 1} /\ subtitle' \in {subtitle, count.saves + 1}
  BY <1>1 DEF SaveFilm, SaveSubtitle, SaveDraft, SaveTarget, PlaceModel, Discard, Fresh, texts
<1>4. draft' = draft \/ \E d \in Drafts : draft' = [d EXCEPT !.text = count.saves + 1]
  BY <1>1 DEF SaveFilm, SaveSubtitle, SaveDraft, SaveTarget, PlaceModel, Discard, Fresh, texts
<1>5. /\ draft' = draft \/ draft'.text = count.saves + 1
      /\ draft' \in [source : Nat, kind : {"transcript", "article"}, ids : Seq(Nat), omitted : SUBSET Nat,
                     text : 0..(count.saves + 1)]
  <2>1. CASE draft' = draft
    BY <1>2, <2>1 DEF IInv, Numbered
  <2>2. CASE draft' # draft
    <3> DEFINE fresh == count.saves + 1
    <3>1. PICK d \in Drafts : draft' = [d EXCEPT !.text = fresh]
      BY <1>4, <2>2
    <3>3. fresh \in 0..fresh
      BY <1>2
    <3>2. d \in [source : Nat, kind : {"transcript", "article"}, ids : Seq(Nat), omitted : SUBSET Nat, text : {0}]
      BY VideoAssumption
    <3> HIDE DEF fresh
    <3>4. draft'.text = fresh /\ draft' \in [source : Nat, kind : {"transcript", "article"}, ids : Seq(Nat),
                                            omitted : SUBSET Nat, text : 0..fresh]
      BY <3>1, <3>2, <3>3
    <3> QED BY <3>4 DEF fresh
  <2> QED BY <2>1, <2>2
<1>6. Numbered'
  <2>1. \A n \in 0..count.saves : n \in 0..count'.saves
    BY <1>2
  <2>2. film' \in 0..count'.saves /\ subtitle' \in 0..count'.saves
    BY <1>2, <1>3, <2>1 DEF IInv, Numbered
  <2> QED BY <1>2, <1>5, <2>2 DEF Numbered
<1>7. TargetShape(target')
  BY <1>1 DEF SaveFilm, SaveSubtitle, SaveDraft, SaveTarget, PlaceModel, Discard, texts, IInv, Shapes, TargetShape
<1>8. bundles' = bundles \/ \E d \in Bundles : bundles' = [bundles EXCEPT ![d] = None]
  BY <1>1 DEF SaveFilm, SaveSubtitle, SaveDraft, SaveTarget, PlaceModel, Discard
<1>9. bundles' = [d \in Bundles |-> bundles'[d]] /\ MaterialIsOfItsSource'
  BY <1>8 DEF IInv, Shapes, MaterialIsOfItsSource
<1>12. \A d \in Bundles : bundles[d] = None => bundles'[d] = None
  BY <1>8 DEF IInv, Shapes
<1>13. subtitle \in Nat /\ subtitle' \in Nat /\ subtitle <= subtitle'
  BY <1>2, <1>3 DEF IInv, Numbered
<1>10. Shapes'
  BY <1>1, <1>2, <1>7, <1>9 DEF IInv, Shapes, TargetShape
<1>11. ASSUME NEW q \in Procs PROVE JobInv(q)'
  BY <1>1, <1>2, <1>3, <1>5, <1>12, <1>13, UserLeaves DEF IInv, Numbered
<1> QED BY <1>6, <1>9, <1>10, <1>11 DEF IInv

LEMMA Stuttering ==
  ASSUME IInv, UNCHANGED vars
  PROVE  IInv'
<1>1. ASSUME NEW q \in Procs PROVE JobInv(q)'
  BY DEF vars, environment, texts, IInv, JobInv, SetupInv, PrepareInv, OutFits, Made, WordsSince,
         DeliverInv, GoodInputs, TargetShape, Before, At
<1>2. Shapes' /\ Numbered' /\ MaterialIsOfItsSource'
  BY DEF vars, environment, texts, IInv, Shapes, TargetShape, Numbered, MaterialIsOfItsSource
<1> QED BY <1>1, <1>2 DEF IInv

LEMMA Initially == Init => IInv
<1> SUFFICES ASSUME Init PROVE IInv
  OBVIOUS
<1>1. PICK s \in Starts : bundles = [d \in Bundles |-> s.bundles[d]]
  BY DEF Init
<1>2. MaterialIsOfItsSource
  BY <1>1, VideoAssumption DEF MaterialIsOfItsSource
<1>3. Shapes
  BY <1>1, VideoAssumption DEF Init, Shapes, TargetShape, Idle, JobFields
<1>4. Numbered
  BY VideoAssumption DEF Init, Numbered
<1>5. ASSUME NEW p \in Procs PROVE JobInv(p)
  BY DEF Init, Idle, JobInv, SetupInv, PrepareInv, DeliverInv, At
<1> QED BY <1>2, <1>3, <1>4, <1>5 DEF IInv

LEMMA Inductive == IInv /\ [Next]_vars => IInv'
<1> SUFFICES ASSUME IInv, [Next]_vars PROVE IInv'
  OBVIOUS
<1>1. CASE UNCHANGED vars
  BY <1>1, Stuttering
<1>2. CASE User
  BY <1>2, UserStep
<1>3. ASSUME NEW p \in Procs, Command(p) PROVE IInv'
  BY <1>3, SetupPreviewStep, SetupStep, InstallStep, DownloadStep, ModelLockStep, ModelCheckStep,
     ModelPublishStep, ValidateStep,
     PreparePreviewStep, PrepareStep, TranscribeStep, HomeLockStep, CompareStep, PublishStep,
     DeliverHashStep, DeliverReadStep, DeliverPlanStep, VaultLockStep, HookStep, WriteStep, FailStep DEF Command
<1> QED BY <1>1, <1>2, <1>3 DEF Next

----------------------------------------------------------------------------
(* Who changes the model and the document.                                 *)
LEMMA ModelWriters ==
  ASSUME NEW p \in Procs, Command(p), ~ModelPublish(p)
  PROVE  model' = model
BY DEF Command, SetupPreview, Setup, Install, Download, ModelLock, ModelCheck, Validate, PreparePreview, Prepare, Transcribe,
       HomeLock, Compare, Publish, DeliverHash, DeliverRead, DeliverPlan, VaultLock, Hook, Write, Fail,
       Quiet, Unwritten, environment

LEMMA TargetWriters ==
  ASSUME NEW p \in Procs, Command(p), ~Write(p)
  PROVE  target' = target
BY DEF Command, SetupPreview, Setup, Install, Download, ModelLock, ModelCheck, ModelPublish, Validate, PreparePreview,
       Prepare, Transcribe, HomeLock, Compare, Publish, DeliverHash, DeliverRead, DeliverPlan, VaultLock, Hook, Fail,
       Quiet, Unwritten, texts

LEMMA MaterialWriters ==
  ASSUME NEW p \in Procs, Command(p), ~Publish(p)
  PROVE  bundles' = bundles
BY DEF Command, SetupPreview, Setup, Install, Download, ModelLock, ModelCheck, ModelPublish, Validate, PreparePreview,
       Prepare, Transcribe, HomeLock, Compare, DeliverHash, DeliverRead, DeliverPlan, VaultLock, Hook, Write, Fail,
       Quiet, Unwritten

(* For any number of processes, contents and bounds: material that a       *)
(* prepare makes appear is what its preview announced, by the film and the *)
(* subtitles of that time, where nothing was, although both may be saved   *)
(* at any moment and others prepare beside it (video_service.py 177-182,   *)
(* 237-259).                                                               *)
THEOREM MaterialStaysTrue == Spec => MaterialIsAsPreviewed
<1> DEFINE Announced(p, d) ==
             LET plan == job[p].expected
             IN  /\ bundles[d] = None /\ d = plan.out /\ (d \notin Named => d = plan.source)
                 /\ bundles'[d] = [source |-> plan.source, of |-> plan.source, words |-> plan.words]
           A == \A p \in Procs, d \in Bundles : job'[p] # job[p] /\ bundles'[d] # bundles[d] => Announced(p, d)
<1>1. ASSUME IInv, [Next]_vars PROVE [A]_vars
  <2> SUFFICES ASSUME Next, NEW p \in Procs, NEW d \in Bundles, job'[p] # job[p], bundles'[d] # bundles[d]
               PROVE  Announced(p, d)
    BY <1>1
  <2>1. PICK q \in Procs : Command(q)
    BY DEF Next, User
  <2>2. Publish(q)
    BY <2>1, MaterialWriters
  <2>3. p = q
    BY <1>1, <2>2, Finishing DEF Publish, Stop, Only, IInv
  <2>4. /\ job[p].plan = job[p].expected /\ OutFits(job[p].plan.out, job[p].plan.source)
        /\ Made(job[p].plan, job[p].got) /\ job[p].got.of = job[p].plan.source
        /\ job[p].got.words = job[p].plan.words /\ bundles[job[p].plan.out] = None
    BY <1>1, <2>2, <2>3 DEF IInv, JobInv, PrepareInv, Publish, At
  <2>5. d = job[p].plan.out /\ bundles'[d] = job[p].got
    BY <1>1, <2>2, <2>3 DEF Publish, IInv, Shapes
  <2> QED BY <2>4, <2>5 DEF OutFits, Made
<1> QED BY Initially, Inductive, <1>1, PTL DEF Spec, MaterialIsAsPreviewed

(* For any number of processes: a setup makes the model appear only where  *)
(* there is none, downloaded whole, and only if its preview announced the  *)
(* download, whoever else sets up or places models (video_service.py       *)
(* 145-162).                                                               *)
THEOREM ModelIsNeverReplaced == Spec => ModelAppearsWhole
<1> DEFINE A == \A p \in Procs : model' # model /\ job'[p] # job[p] =>
                  model = None /\ model' = "whole" /\ job[p].expected.download
<1>1. ASSUME IInv, [Next]_vars PROVE [A]_vars
  <2> SUFFICES ASSUME Next, NEW p \in Procs, model' # model, job'[p] # job[p]
               PROVE  model = None /\ model' = "whole" /\ job[p].expected.download
    BY <1>1
  <2>1. PICK q \in Procs : Command(q)
    BY DEF Next, User
  <2>2. ModelPublish(q)
    BY <2>1, ModelWriters
  <2>3. p = q
    BY <1>1, <2>2, Finishing, Going DEF ModelPublish, Only, IInv
  <2>4. SetupInv(p)
    BY <1>1 DEF IInv, JobInv
  <2> QED BY <2>2, <2>3, <2>4 DEF ModelPublish, SetupInv, At
<1> QED BY Initially, Inductive, <1>1, PTL DEF Spec, ModelAppearsWhole

LEMMA ValidAccounts ==
  ASSUME NEW d, NEW m, Valid(d, m), d.kind \in {"transcript", "article"}, Len(d.ids) \in Nat
  PROVE  AccountsFor(d, m)
<1>1. CASE d.kind = "article"
  BY <1>1 DEF Valid, AccountsFor
<1>2. CASE d.kind = "transcript"
  <2>1. d.ids = [i \in 1..(Len(d.ids)) |-> i - 1] /\ Used(d) = Segments(m)
    BY <1>2 DEF Valid
  <2> SUFFICES ASSUME NEW i \in Segments(m) PROVE Once(d, i)
    BY DEF AccountsFor
  <2>2. PICK n \in DOMAIN d.ids : d.ids[n] = i
    BY <2>1 DEF Used
  <2>3. \A k \in DOMAIN d.ids : k \in Int /\ d.ids[k] = k - 1
    BY <2>1
  <2> QED BY <2>2, <2>3 DEF Once
<1> QED BY <1>1, <1>2

(* For any number of processes, drafts and saves: what is delivered is the *)
(* draft that was previewed, into a body that was empty, and it accounts   *)
(* for every segment of true material, unless the user saves between the   *)
(* comparison under the lock and the write (video_service.py 376-402,      *)
(* 467-474).                                                               *)
THEOREM DeliveriesAreReviewed == Spec => DeliveredAsReviewed
<1> DEFINE
      Reviewed(p) ==
        LET d == target'.body.draft
            m == target'.body.material
        IN  /\ EmptyBody /\ target'.prefix = target.prefix /\ target'.own = None
            /\ job[p].expected.target = target /\ job[p].expected.inputs.draft = d /\ d = draft
            /\ d.source = m.of /\ AccountsFor(d, m)
      A == \A p \in Procs :
             At(p, "write") /\ target'.body # target.body /\ count.saves = job[p].since => Reviewed(p)
<1>1. ASSUME IInv, [Next]_vars PROVE [A]_vars
  <2> SUFFICES ASSUME Next, NEW p \in Procs, At(p, "write"), target'.body # target.body, count.saves = job[p].since
               PROVE  Reviewed(p)
    BY <1>1
  <2>1. ~User
    <3>1. TargetShape(target)
      BY <1>1 DEF IInv, Shapes
    <3>2. User => target' = target \/ \E n : \E part \in {"prefix", "own"} : target' = [target EXCEPT ![part] = n]
      BY DEF User, SaveFilm, SaveSubtitle, SaveDraft, SaveTarget, PlaceModel, Discard, texts
    <3> QED BY <3>1, <3>2 DEF TargetShape
  <2>2. PICK q \in Procs : Command(q)
    BY <2>1 DEF Next
  <2>3. Write(q)
    BY <2>2, TargetWriters
  <2>4. DeliverInv(p) /\ DeliverInv(q)
    BY <1>1 DEF IInv, JobInv
  <2>5. p = q
    BY <2>3, <2>4 DEF Write, DeliverInv, At
  <2>6. /\ target = job[p].plan.target /\ draft = job[p].got.draft /\ GoodInputs(job[p].got)
        /\ job[p].plan = job[p].expected /\ job[p].expected.inputs.draft = job[p].got.draft
        /\ TargetShape(target) /\ EmptyBody
    BY <2>4 DEF DeliverInv, At, EmptyBody
  <2>7. target' = [target EXCEPT !.body = job[p].got]
    BY <2>3, <2>5, <2>6 DEF Write
  <2>8. target'.body = job[p].got /\ target'.prefix = target.prefix /\ target'.own = target.own
    BY <2>6, <2>7 DEF TargetShape
  <2>9. /\ job[p].got.draft.source = job[p].got.material.of
        /\ AccountsFor(job[p].got.draft, job[p].got.material)
    BY <2>6, ValidAccounts DEF GoodInputs, Valid
  <2> QED BY <2>6, <2>8, <2>9 DEF EmptyBody
<1> QED BY Initially, Inductive, <1>1, PTL DEF Spec, DeliveredAsReviewed
=============================================================================
