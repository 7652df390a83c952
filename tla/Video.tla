-------------------------------- MODULE Video --------------------------------
(***************************************************************************)
(* video setup, prepare and deliver (VideoService): bring the model and    *)
(* the dependencies to this device, transcribe a film into a directory of  *)
(* material, and put a reviewed draft into the empty body of a document.   *)
(* Each command is previewed, and confirmed with the plan it showed.       *)
(*                                                                         *)
(* Downloads and transcriptions take long, run in other processes and are  *)
(* made beside their place; a directory appears by a rename, under the     *)
(* lock of its own root: models, CAMPFIRE_HOME or the Workspace.  The user *)
(* goes on saving the film, the subtitles, the draft and the document,     *)
(* places models by hand and discards material.  Every save is a content   *)
(* that was never there before; a hash is as good as the content.          *)
(***************************************************************************)
EXTENDS Integers, Sequences

CONSTANTS
  Procs,      \* the processes that run commands
  Commands,   \* the commands they may run
  Named,      \* directories that --output may name
  Heard,      \* how many segments each content of the film or the subtitles has
  Drafts,     \* what the user may write: [source, kind, ids, omitted, text]
  Starts,     \* what there may be at first
  None,
  MaxRuns, MaxSaves, MaxFaults   \* bounds

VARIABLES
  missing,    \* whether Python dependencies are missing
  model,      \* the directory of the default model: None, part or whole
  film, subtitle, draft,
  target,     \* the document: what precedes the body, the user's text in it, what was delivered
  bundles,    \* directory -> material, or None
  lock,       \* who holds the lock of each root
  job,        \* where each process is, and its local variables
  count       \* how often each bounded thing has happened

environment == <<missing, model>>
texts == <<film, subtitle, draft, target>>
vars  == <<environment, texts, bundles, lock, job, count>>

Contents == 0..MaxSaves
Bundles  == Named \union Contents   \* by default a directory has the hash of the film
Roots    == {"models", "home", "vault"}
Idle == [at |-> "idle", args |-> None, expected |-> None, plan |-> None, hashed |-> None, got |-> None,
         since |-> 0]   \* since: the saves before its lock was taken, for the properties only

ASSUME VideoAssumption ==
  /\ MaxSaves \in Nat /\ Named \intersect Contents = {} /\ None \notin Bundles
  /\ Heard \in [Contents -> Nat] /\ None \notin Procs
  /\ Drafts \subseteq [source : Nat, kind : {"transcript", "article"}, ids : Seq(Nat),
                        omitted : SUBSET Nat, text : {0}]
  /\ \A s \in Starts : \A d \in Bundles :
       s.bundles[d] # None => /\ s.bundles[d].of = s.bundles[d].source
                              /\ d \notin Named => s.bundles[d].source = d

Init ==
  /\ \E s \in Starts : missing = s.missing /\ model = s.model /\ bundles = [d \in Bundles |-> s.bundles[d]]
  /\ film = 0 /\ subtitle = 0 /\ target = [prefix |-> 0, own |-> None, body |-> None]
  /\ draft \in Drafts
  /\ lock = [r \in Roots |-> None]
  /\ job = [p \in Procs |-> Idle]
  /\ count = [runs |-> 0, saves |-> 0, faults |-> 0]

At(p, there)   == job[p].at = there
Goto(p, there) == job' = [job EXCEPT ![p] = [@ EXCEPT !.at = there]]
Finish(p)      == job' = [job EXCEPT ![p] = Idle]
Unlocked(p)    == [r \in Roots |-> IF lock[r] = p THEN None ELSE lock[r]]
Stop(p)        == Finish(p) /\ lock' = Unlocked(p)
Tally(what, bound) == count[what] < bound /\ count' = [count EXCEPT ![what] = @ + 1]
MayRun(p)      == At(p, "idle") /\ Tally("runs", MaxRuns)
Lock(p, root, there) ==
  IF lock[root] = None THEN /\ lock' = [lock EXCEPT ![root] = p]
                            /\ job' = [job EXCEPT ![p] = [@ EXCEPT !.at = there, !.since = count.saves]]
                       ELSE Finish(p) /\ UNCHANGED lock
Unwritten == UNCHANGED <<environment, texts, bundles>>
Quiet     == Unwritten /\ UNCHANGED <<lock, count>>

----------------------------------------------------------------------------
(* video setup.  Without an installer it only says what is needed.         *)
SetupPlan == [missing |-> missing, download |-> model = None]
SetupNext(plan) == IF plan.missing THEN "install" ELSE IF plan.download THEN "download" ELSE "validate"
SetupPreview(p) ==
  /\ "setup" \in Commands /\ MayRun(p)
  /\ \/ model # "part" /\ job' = [job EXCEPT ![p] = [@ EXCEPT !.at = "setup", !.expected = SetupPlan]]
     \/ (model = "part" \/ missing) /\ Finish(p)
  /\ Unwritten /\ UNCHANGED lock
Setup(p) ==
  /\ At(p, "setup")
  /\ IF model # "part" /\ SetupPlan = job[p].expected
     THEN job' = [job EXCEPT ![p] = [@ EXCEPT !.at = SetupNext(SetupPlan), !.plan = SetupPlan]]
     ELSE Finish(p)
  /\ Quiet

(* It plans once more; failed or partial installations go by Fail.         *)
Install(p) ==
  /\ At(p, "install")
  /\ IF missing THEN missing' = FALSE /\ Goto(p, IF job[p].plan.download THEN "download" ELSE "validate")
                ELSE Finish(p) /\ UNCHANGED missing
  /\ UNCHANGED <<model, texts, bundles, lock, count>>
Downloaded == {"part", "whole"}
DownloadUnseen(p) ==
  /\ At(p, "download")
  /\ \E got \in Downloaded : job' = [job EXCEPT ![p] = [@ EXCEPT !.at = "model lock", !.got = got]]
  /\ Quiet
Download(p) ==
  /\ At(p, "download")
  /\ \E got \in Downloaded :
       IF got = "whole" THEN job' = [job EXCEPT ![p] = [@ EXCEPT !.at = "model lock", !.got = got]]
                        ELSE Finish(p)
  /\ Quiet
ModelLock(p) ==
  /\ At(p, "model lock") /\ Lock(p, "models", "model check")
  /\ Unwritten /\ UNCHANGED count
ModelCheck(p) ==
  /\ At(p, "model check")
  /\ IF model = None THEN Goto(p, "model publish") /\ UNCHANGED lock ELSE Stop(p)
  /\ Unwritten /\ UNCHANGED count
(* The user may place a model between the two: a rename does not succeed   *)
(* onto a directory that holds something.                                  *)
ModelPublish(p) ==
  /\ At(p, "model publish") /\ lock' = Unlocked(p)
  /\ IF model = None THEN model' = job[p].got /\ Goto(p, "validate") ELSE Finish(p) /\ UNCHANGED model
  /\ UNCHANGED <<missing, texts, bundles, count>>
Validate(p) == At(p, "validate") /\ Finish(p) /\ Quiet

----------------------------------------------------------------------------
(* video prepare, with the default model or with subtitles.                *)
PreparePlan(args) ==
  [source |-> film, by |-> args.by, out |-> IF args.out = None THEN film ELSE args.out,
   words |-> IF args.by = "subtitle" THEN subtitle ELSE None]
CanPrepare(plan) == bundles[plan.out] = None /\ (plan.by = "model" => model = "whole")
PreparePreview(p) ==
  /\ "prepare" \in Commands /\ MayRun(p)
  /\ \E out \in Named \union {None}, by \in {"model", "subtitle"} :
       LET args == [out |-> out, by |-> by]
       IN  IF CanPrepare(PreparePlan(args))
           THEN job' = [job EXCEPT ![p] = [@ EXCEPT !.at = "prepare", !.args = args, !.expected = PreparePlan(args)]]
           ELSE Finish(p)
  /\ Unwritten /\ UNCHANGED lock
Prepare(p) ==
  /\ At(p, "prepare")
  /\ LET plan == PreparePlan(job[p].args)
     IN  IF CanPrepare(plan) /\ plan = job[p].expected /\ ~missing
         THEN job' = [job EXCEPT ![p] = [@ EXCEPT !.at = "transcribe", !.plan = plan]]
         ELSE Finish(p)
  /\ Quiet

(* The media worker reads the film, and the subtitles, again.              *)
MediaWorker(plan) ==
  [source |-> plan.source, of |-> film, words |-> IF plan.by = "subtitle" THEN subtitle ELSE None]
Transcribe(p) ==
  /\ At(p, "transcribe")
  /\ IF job[p].plan.by = "model" => model = "whole"
     THEN job' = [job EXCEPT ![p] = [@ EXCEPT !.at = "home lock",
                    !.got = MediaWorker(job[p].plan)]]
     ELSE Finish(p)
  /\ Quiet
HomeLock(p) ==
  /\ At(p, "home lock") /\ Lock(p, "home", "compare")
  /\ Unwritten /\ UNCHANGED count
CompareFilm(p) ==
  /\ At(p, "compare")
  /\ IF bundles[job[p].plan.out] = None /\ film = job[p].plan.source
     THEN Goto(p, "publish") /\ UNCHANGED lock ELSE Stop(p)
  /\ Unwritten /\ UNCHANGED count
Compare(p) ==
  /\ At(p, "compare")
  /\ LET plan == job[p].plan
     IN  IF bundles[plan.out] = None /\ film = plan.source /\ (plan.by = "subtitle" => subtitle = plan.words)
         THEN Goto(p, "publish") /\ UNCHANGED lock ELSE Stop(p)
  /\ Unwritten /\ UNCHANGED count
Publish(p) ==
  /\ At(p, "publish") /\ Stop(p)
  /\ bundles' = [bundles EXCEPT ![job[p].plan.out] = job[p].got]
  /\ UNCHANGED <<environment, texts, count>>

----------------------------------------------------------------------------
(* video deliver.  A transcript covers every segment once and in order; an *)
(* article uses or gives up each of them.                                  *)
Segments(m) == 0..(Heard[IF m.words = None THEN m.of ELSE m.words] - 1)
Used(d)     == {d.ids[i] : i \in DOMAIN d.ids}
Valid(d, m) ==
  /\ d.source = m.source /\ Segments(m) # {}
  /\ IF d.kind = "transcript" THEN d.ids = [i \in 1..(Len(d.ids)) |-> i - 1] /\ d.omitted = {}
     ELSE Used(d) \intersect d.omitted = {}
  /\ Used(d) \union d.omitted = Segments(m)

Inputs(dir) == [material |-> bundles[dir], draft |-> draft]
DeliverHash(p) ==
  /\ \/ /\ "deliver" \in Commands /\ MayRun(p)
        /\ \E dir \in {d \in Bundles : bundles[d] # None} :
             job' = [job EXCEPT ![p] = [@ EXCEPT !.at = "read", !.args = dir, !.hashed = Inputs(dir)]]
     \/ /\ At(p, "deliver") /\ UNCHANGED count
        /\ IF bundles[job[p].args] # None
           THEN job' = [job EXCEPT ![p] = [@ EXCEPT !.at = "read", !.hashed = Inputs(job[p].args)]]
           ELSE Finish(p)
  /\ Unwritten /\ UNCHANGED lock
DeliverRead(p) ==
  /\ At(p, "read")
  /\ LET inputs == Inputs(job[p].args)
     IN  IF inputs.material # None /\ Valid(inputs.draft, inputs.material)
         THEN job' = [job EXCEPT ![p] = [@ EXCEPT !.at = "plan", !.got = inputs]]
         ELSE Finish(p)
  /\ Quiet
EmptyBody == target.own = None /\ target.body = None
DeliverPlan(p) ==
  /\ At(p, "plan")
  /\ LET plan == [inputs |-> job[p].hashed, target |-> target]
     IN  IF Inputs(job[p].args) # job[p].hashed \/ ~EmptyBody \/ job[p].expected \notin {None, plan}
         THEN Finish(p)
         ELSE job' = [job EXCEPT ![p] = [@ EXCEPT !.at = IF job[p].expected = None THEN "deliver" ELSE "vault lock",
                                                  !.expected = plan, !.plan = plan]]
  /\ Quiet
VaultLock(p) ==
  /\ At(p, "vault lock")
  /\ IF target = job[p].plan.target THEN Lock(p, "vault", "hook") ELSE Finish(p) /\ UNCHANGED lock
  /\ Unwritten /\ UNCHANGED count
HookLeftOut(p) == At(p, "hook") /\ Goto(p, "write") /\ Quiet
Hook(p) ==
  /\ At(p, "hook")
  /\ IF Inputs(job[p].args) = job[p].hashed THEN Goto(p, "write") /\ UNCHANGED lock ELSE Stop(p)
  /\ Unwritten /\ UNCHANGED count
Write(p) ==
  /\ At(p, "write") /\ Stop(p)
  /\ target' = [job[p].plan.target EXCEPT !.body = job[p].got]
  /\ UNCHANGED <<environment, film, subtitle, draft, bundles, count>>

----------------------------------------------------------------------------
(* A tool fails or is stopped by its timeout, or the command is killed: it *)
(* leaves at most a staging directory, and a lock that nobody holds.       *)
Fail(p) ==
  /\ ~At(p, "idle") /\ Tally("faults", MaxFaults)
  /\ Stop(p) /\ Unwritten

(* The user, who asks for no lock.                                         *)
Fresh == count.saves + 1
SaveFilm     == film' = Fresh /\ UNCHANGED <<environment, subtitle, draft, target, bundles>>
SaveSubtitle == subtitle' = Fresh /\ UNCHANGED <<environment, film, draft, target, bundles>>
SaveDraft ==
  /\ \E d \in Drafts : draft' = [d EXCEPT !.text = Fresh]
  /\ UNCHANGED <<environment, film, subtitle, target, bundles>>
SaveTarget ==
  /\ \E part \in {"prefix", "own"} : target' = [target EXCEPT ![part] = Fresh]
  /\ UNCHANGED <<environment, film, subtitle, draft, bundles>>
PlaceModel ==
  /\ \E m \in {None, "part", "whole"} \ {model} : model' = m
  /\ UNCHANGED <<missing, texts, bundles>>
Discard ==
  /\ \E d \in Bundles : bundles[d] # None /\ bundles' = [bundles EXCEPT ![d] = None]
  /\ UNCHANGED <<environment, texts>>
User ==
  /\ Tally("saves", MaxSaves) /\ UNCHANGED <<lock, job>>
  /\ SaveFilm \/ SaveSubtitle \/ SaveDraft \/ SaveTarget \/ PlaceModel \/ Discard

Command(p) ==
  \/ SetupPreview(p) \/ Setup(p) \/ Install(p) \/ Download(p) \/ ModelLock(p) \/ ModelCheck(p) \/ ModelPublish(p)
  \/ Validate(p)
  \/ PreparePreview(p) \/ Prepare(p) \/ Transcribe(p) \/ HomeLock(p) \/ Compare(p) \/ Publish(p)
  \/ DeliverHash(p) \/ DeliverRead(p) \/ DeliverPlan(p) \/ VaultLock(p) \/ Hook(p) \/ Write(p) \/ Fail(p)
Next == User \/ \E p \in Procs : Command(p)
Spec == Init /\ [][Next]_vars

----------------------------------------------------------------------------
(* Material that a prepare makes appear is what its preview announced: the *)
(* transcription of the film of that time, whose hash it bears, by the     *)
(* subtitles of that time if it was from subtitles, in the directory that  *)
(* --output named or else in that of the hash, and nothing was there.  The *)
(* film and the subtitles may be saved at any moment between, and another  *)
(* prepare may be ahead (video_service.py 177-182, 237-259).               *)
MaterialIsAsPreviewed ==
  [][\A p \in Procs, d \in Bundles : job'[p] # job[p] /\ bundles'[d] # bundles[d] =>
       LET plan == job[p].expected
       IN  /\ bundles[d] = None /\ d = plan.out /\ (d \notin Named => d = plan.source)
           /\ bundles'[d] = [source |-> plan.source, of |-> plan.source, words |-> plan.words]]_vars

(* Only what was downloaded whole becomes the model, where there is none   *)
(* and the preview announced the download; setup, run twice or beside a    *)
(* user who copies a model, even between its check and its rename, never   *)
(* replaces one (video_service.py 145-162).                                *)
ModelAppearsWhole ==
  [][\A p \in Procs : model' # model /\ job'[p] # job[p] =>
       model = None /\ model' = "whole" /\ job[p].expected.download]_vars

(* What is delivered fills a body that was empty, in the document as it    *)
(* was previewed, with the draft that was previewed and is still there,    *)
(* and this draft accounts for every segment of material that was          *)
(* transcribed from the content that the draft names: a transcript has     *)
(* each once, an article uses or gives up each.  Excepted is a save        *)
(* between the comparison under the lock and the write (video_service.py   *)
(* 376-402, 467-474).                                                      *)
Once(d, i) == \E n \in DOMAIN d.ids : d.ids[n] = i /\ \A k \in DOMAIN d.ids : d.ids[k] = i => k = n
AccountsFor(d, m) ==
  \A i \in Segments(m) : Once(d, i) \/ (d.kind = "article" /\ i \in Used(d) \union d.omitted)
DeliveredAsReviewed ==
  [][\A p \in Procs :
       At(p, "write") /\ target'.body # target.body /\ count.saves = job[p].since =>
         LET d == target'.body.draft
             m == target'.body.material
         IN  /\ EmptyBody /\ target'.prefix = target.prefix /\ target'.own = None
             /\ job[p].expected.target = target /\ job[p].expected.inputs.draft = d /\ d = draft
             /\ d.source = m.of /\ AccountsFor(d, m)]_vars
=============================================================================
