--------------------------- MODULE RegistryProofs ---------------------------
(***************************************************************************)
(* What the registry keeps for every number of processes, commands and     *)
(* faults.                                                                 *)
(***************************************************************************)
EXTENDS Registry, TLAPS

----------------------------------------------------------------------------
(* What each place is about, and what a process has with it there.         *)
JobFields == {"at", "req", "entry", "seen", "next", "overtaken", "rewritten"}
Shapes == DOMAIN job = Procs /\ \A c \in Procs : DOMAIN job[c] = JobFields

IsBackup(b) ==
  /\ b.reg \in WorkspaceRegistry
  /\ \A w \in DOMAIN b.entries : b.entries[w] \in ProjectEntries

Placed(j) ==
  /\ j.at \in {"show", "read"} => j.req.op \in {"adopt", "update"}
  /\ j.at \in {"check", "domain"} => j.req.op = "create"
  /\ j.at = "preview" => j.req.op \in Confirmed
  /\ j.at = "change" => j.req.op \in {"bind"} \union Confirmed
  /\ j.at \in {"enter", "manifest", "local"} => j.req.op \in ProjectOps
  /\ j.at \in {"plan", "hash", "commit", "apply"} => j.req.op \in DomainOps
  /\ j.at \in {"vacant", "scaffold", "found"} => j.req.op = "workspace-create"
  /\ j.at = "register" => j.req.op \in {"workspace-create", "setup"} /\ j.req.w # None
  /\ j.at = "setup" => j.req.op = "setup"
  /\ j.at = "attach" => j.req.op = "setup" /\ j.req.w # None
  /\ j.at = "default" => j.req.op = "default"
  /\ j.at \in {"export", "export-projects"} => j.req.op = "export"
  /\ j.at \in {"replace", "import"} => j.req.op = "import"

Furnished(j) ==
  /\ j.at \in {"read", "domain", "enter", "manifest", "local"} => j.entry \in ProjectEntry
  /\ j.at \in {"manifest", "local"} =>
       j.next.was \in Manifest /\ j.next.man \in Manifest /\ j.next.local \in WorkspaceRegistry
  /\ j.at = "attach" => j.next \in Manifest
  /\ j.at = "export-projects" => j.next \in WorkspaceRegistry
  /\ j.at = "import" => /\ IsBackup(j.entry) /\ j.next \subseteq DOMAIN j.entry.reg.ws
                        /\ j.seen.local \in WorkspaceRegistry /\ j.seen.man \in [Vaults -> Manifest]
  /\ j.at \in {"hash", "commit", "apply"} => j.next \in Or(Manifest) /\ DOMAIN j.seen = {"man", "declared"}
  /\ j.at \in {"hash", "commit", "apply"} /\ j.req.op = "delete" => j.next = None

JobOK(j) ==
  j.at # "idle" =>
    /\ IsRequest(j.req) /\ Placed(j) /\ Furnished(j)
    /\ j.req.op \in ProjectOps \union DomainOps => j.req.w # None /\ j.req.v # None

FilesOK ==
  /\ local \in WorkspaceRegistry
  /\ man \in [Vaults -> Manifest]
  /\ dirs \subseteq Vaults /\ declared \in [Vaults -> SUBSET Domains]
  /\ backup = None \/ IsBackup(backup)
Alone == \A b, c \in Procs : job[b].at \in InHome /\ job[c].at \in InHome => b = c
Imported(c) ==
  At(c, "import") =>
    /\ Registered = DOMAIN job[c].entry.reg.ws
    /\ \A w \in Registered : PathOf(w) = job[c].entry.reg.ws[w].path

Types == Shapes /\ FilesOK /\ Alone /\ \A c \in Procs : JobOK(job[c]) /\ Imported(c)

(* A step of one process leaves of the others all but a flag or two, and   *)
(* the domain of a project that a domain command has moved meanwhile.      *)
Acts(c) ==
  \/ \E q \in Requests : Start(c, q)
  \/ ProjectStep(c) \/ WorkspaceStep(c) \/ DomainStep(c)
  \/ Refuse(c) \/ Kill(c)
Relabelled(b) ==
  \/ job'[b].entry = job[b].entry
  \/ At(b, "local") /\ \E d \in Domains : job'[b].entry = [job[b].entry EXCEPT !.domain = d]
Untouched(b) ==
  /\ DOMAIN job'[b] = JobFields
  /\ job'[b].at = job[b].at /\ job'[b].req = job[b].req
  /\ job'[b].seen = job[b].seen /\ job'[b].next = job[b].next
  /\ Relabelled(b)
  /\ job[b].overtaken => job'[b].overtaken
  /\ job[b].rewritten => job'[b].rewritten
Untouching(c) == DOMAIN job' = Procs /\ \A b \in Procs \ {c} : Untouched(b)

LEMMA Overtakes ==
  ASSUME Shapes, NEW keys
  PROVE  /\ DOMAIN Overtaking(keys) = Procs
         /\ \A b \in Procs :
              LET j == Overtaking(keys)[b] IN
              /\ DOMAIN j = JobFields /\ j.at = job[b].at /\ j.req = job[b].req
              /\ j.entry = job[b].entry /\ j.seen = job[b].seen /\ j.next = job[b].next
              /\ j.rewritten = job[b].rewritten
              /\ j.overtaken <=> job[b].overtaken \/ (LooksElsewhere(b) /\ \E k \in keys : k[2] = job[b].req.p)
<1> QED BY DEF Shapes, JobFields, Overtaking

LEMMA OvertakesOne ==
  ASSUME Shapes, NEW b \in Procs, NEW keys, job'[b] = Overtaking(keys)[b]
  PROVE  Untouched(b)
<1>1. job'[b] = IF LooksElsewhere(b) /\ \E k \in keys : k[2] = job[b].req.p
                THEN [job[b] EXCEPT !.overtaken = TRUE] ELSE job[b]
  BY DEF Overtaking
<1> QED BY <1>1 DEF Shapes, JobFields, Untouched, Relabelled

LEMMA OvertakesOthers ==
  ASSUME Shapes, NEW c \in Procs, NEW keys, NEW x, job' = [Overtaking(keys) EXCEPT ![c] = x]
  PROVE  Untouching(c)
<1>1. ASSUME NEW b \in Procs \ {c} PROVE Untouched(b)
  <2>1. job'[b] = Overtaking(keys)[b]
    BY Overtakes
  <2> QED BY <2>1, OvertakesOne
<1> QED BY <1>1, Overtakes DEF Untouching

(* A registration and a new Manifest: what becomes of who makes them.      *)
LEMMA OvertakesNot ==
  ASSUME Shapes, NEW b \in Procs, ~LooksElsewhere(b), NEW keys
  PROVE  Overtaking(keys)[b] = job[b]
<1> QED BY DEF Shapes, Overtaking

LEMMA RegistersAs ==
  ASSUME Shapes, NEW c \in Procs, Register(c)
  PROVE  /\ \E keys, x : job' = [Overtaking(keys) EXCEPT ![c] = x]
         /\ job'[c] = IF job[c].req.op = "workspace-create" THEN [job[c] EXCEPT !.at = "found"] ELSE NoJob
<1> DEFINE q == job[c].req
           keys == IF q.w \in Registered THEN {} ELSE InVaultOf(q, man[q.v])
           O == Overtaking(keys)
<1>1. /\ At(c, "register")
      /\ job' = IF q.op = "workspace-create" THEN [O EXCEPT ![c].at = "found"] ELSE [O EXCEPT ![c] = NoJob]
  BY DEF Register, At_May
<1>2. DOMAIN O = Procs
  BY Overtakes
<1>3. ~LooksElsewhere(c)
  BY <1>1 DEF LooksElsewhere, At
<1> HIDE DEF keys
<1>4. O[c] = job[c]
  BY <1>3, OvertakesNot
<1>5. \E x : job' = [O EXCEPT ![c] = x]
  BY <1>1
<1> HIDE DEF O
<1>6. job'[c] = IF q.op = "workspace-create" THEN [job[c] EXCEPT !.at = "found"] ELSE NoJob
  BY <1>1, <1>2, <1>4
<1> QED BY <1>5, <1>6 DEF O

LEMMA AttachesAs ==
  ASSUME Shapes, NEW c \in Procs, Attach(c)
  PROVE  /\ \E keys, x : job' = [Overtaking(keys) EXCEPT ![c] = x]
         /\ job'[c] = [job[c] EXCEPT !.at = "register"]
<1> DEFINE keys == InVaultOf(job[c].req, job[c].next)
           O == Overtaking(keys)
<1>1. At(c, "attach") /\ job' = [O EXCEPT ![c].at = "register"]
  BY DEF Attach
<1>2. DOMAIN O = Procs
  BY Overtakes
<1>3. ~LooksElsewhere(c)
  BY <1>1 DEF LooksElsewhere, At
<1> HIDE DEF keys
<1>4. O[c] = job[c]
  BY <1>3, OvertakesNot
<1>5. \E x : job' = [O EXCEPT ![c] = x]
  BY <1>1
<1> HIDE DEF O
<1>6. job'[c] = [job[c] EXCEPT !.at = "register"]
  BY <1>1, <1>2, <1>4
<1> QED BY <1>5, <1>6 DEF O

LEMMA Others == ASSUME Types, NEW c \in Procs, Acts(c) PROVE Untouching(c)
<1>0. Shapes /\ JobOK(job[c])
  BY DEF Types
<1>1. CASE \E q \in Requests : Start(c, q)
  BY <1>0, <1>1 DEF Start, NoJob, Shapes, JobFields, Untouching, Untouched, Relabelled
<1>2. CASE ProjectStep(c)
  <2>1. CASE WriteManifest(c) \/ WriteLocal(c) \/ LocalFails(c)
    <3>1. \E x : job' = [Overtaking({Key(c)}) EXCEPT ![c] = x]
      BY <2>1 DEF WriteManifest, WriteLocal, LocalFails
    <3> QED BY <1>0, <3>1, OvertakesOthers
  <2>2. CASE Show(c) \/ Read(c) \/ Preview(c) \/ Change(c) \/ Check(c) \/ Declare(c) \/ Enter(c)
    BY <1>0, <2>2 DEF Show, Read, Preview, Change, Check, Declare, Enter, Reach, Go, Shapes, JobFields, Untouching, Untouched, Relabelled
  <2> QED BY <1>2, <2>1, <2>2 DEF ProjectStep
<1>3. CASE WorkspaceStep(c)
  <2>1. CASE Import(c) \/ ImportProjects(c) \/ ImportFails(c)
    <3>1. \E x : job' = [Overtaking(Everywhere) EXCEPT ![c] = x]
      BY Zenon, <2>1 DEF Import, ImportProjects, ImportFails, Finished
    <3> QED BY <1>0, <3>1, OvertakesOthers
  <2>2. CASE Vacant(c) \/ Scaffold(c) \/ Found(c) \/ SetUp(c) \/ SetDefault(c) \/ Export(c) \/ ExportProjects(c)
    BY <1>0, <2>2 DEF Vacant, Scaffold, Found, SetUp, SetDefault, Export, ExportProjects,
                   Reach, Go, Done, Shapes, JobFields, Untouching, Untouched, Relabelled
  <2>3. CASE Register(c) \/ Attach(c)
    <3>1. \E keys, x : job' = [Overtaking(keys) EXCEPT ![c] = x]
      BY <1>0, <2>3, RegistersAs, AttachesAs
    <3> QED BY <1>0, <3>1, OvertakesOthers
  <2> QED BY <1>3, <2>1, <2>2, <2>3 DEF WorkspaceStep
<1>4. CASE DomainStep(c)
  <2>1. CASE Plan(c) \/ Hash(c) \/ Commit(c)
    BY <1>0, <2>1 DEF Plan, Hash, Commit, Reach, Go, Shapes, JobFields, Untouching, Untouched, Relabelled
  <2>2. CASE Apply(c)
    <3>1. job[c].next # None => job[c].req.e \in Domains
      <4>1. At(c, "apply") /\ JobOK(job[c])
        BY <1>0, <2>2 DEF Apply
      <4> QED BY <4>1 DEF At, JobOK, Placed, Furnished, IsRequest, DomainOps, Or
    <3>2. CASE job[c].next = None
      BY <1>0, <2>2, <3>2 DEF Apply, Shapes, JobFields, Untouching, Untouched, Relabelled
    <3>3. CASE job[c].next # None
      <4> DEFINE keys == Moved(job[c].req, job[c].next)
      <4>1. job' = [b \in Procs |-> IF b = c THEN NoJob ELSE Renamed(b, job[c].req.v, keys, job[c].req.e)]
        BY <2>2, <3>3 DEF Apply
      <4>2. ASSUME NEW b \in Procs \ {c} PROVE Untouched(b)
        <5>1. job'[b] = Renamed(b, job[c].req.v, keys, job[c].req.e)
          BY <1>0, <4>1 DEF Shapes
        <5>2. CASE At(b, "local") /\ job[b].req.v = job[c].req.v
          <6>1. job'[b] = [job[b] EXCEPT !.rewritten = TRUE,
                             !.entry.domain = IF Key(b) \in keys THEN job[c].req.e ELSE @]
            BY <5>1, <5>2 DEF Renamed
          <6>2. job'[b].entry = [job[b].entry EXCEPT !.domain = IF Key(b) \in keys THEN job[c].req.e ELSE @]
            BY <1>0, <6>1 DEF Shapes, JobFields
          <6>3. job[b].entry \in ProjectEntry
            BY <5>2 DEF Types, JobOK, Furnished, At
          <6>4. job[b].entry.domain \in Domains
            BY <6>3 DEF ProjectEntry
          <6>5. \E d \in Domains : job'[b].entry = [job[b].entry EXCEPT !.domain = d]
            <7>1. CASE Key(b) \in keys
              <8> job'[b].entry = [job[b].entry EXCEPT !.domain = job[c].req.e]
                BY <6>2, <7>1
              <8> QED BY <3>1, <3>3
            <7>2. CASE Key(b) \notin keys
              <8> job'[b].entry = [job[b].entry EXCEPT !.domain = job[b].entry.domain]
                BY <6>2, <7>2
              <8> QED BY <6>4
            <7> QED BY <7>1, <7>2
          <6>6. /\ DOMAIN job'[b] = JobFields
                /\ job'[b].at = job[b].at /\ job'[b].req = job[b].req
                /\ job'[b].seen = job[b].seen /\ job'[b].next = job[b].next
            BY <1>0, <6>1 DEF Shapes, JobFields
          <6>7. (job[b].overtaken => job'[b].overtaken) /\ job'[b].rewritten
            BY <1>0, <6>1 DEF Shapes, JobFields
          <6>8. Relabelled(b)
            BY <6>5, <5>2 DEF Relabelled
          <6> QED BY <6>6, <6>7, <6>8 DEF Untouched
        <5>3. CASE ~(At(b, "local") /\ job[b].req.v = job[c].req.v)
          <6>1. job'[b] = Overtaking(keys)[b]
            BY <5>1, <5>3 DEF Renamed
          <6> HIDE DEF keys
          <6> QED BY <1>0, <6>1, OvertakesOne
        <5> QED BY <5>2, <5>3
      <4>3. DOMAIN job' = Procs
        BY <4>1
      <4> QED BY <4>2, <4>3 DEF Untouching
    <3> QED BY <3>2, <3>3
  <2> QED BY <1>4, <2>1, <2>2 DEF DomainStep
<1>5. CASE Refuse(c) \/ Kill(c)
  BY <1>0, <1>5 DEF Refuse, Kill, Done, Shapes, JobFields, Untouching, Untouched, Relabelled
<1> QED BY <1>1, <1>2, <1>3, <1>4, <1>5 DEF Acts

----------------------------------------------------------------------------
(* The operators on Manifests, bindings and projects keep their types, and *)
(* what they do to the domain and the status of a project.                 *)
LEMMA PartialType ==
  ASSUME NEW S, NEW T, NEW f
  PROVE  f \in Partial(S, T) <=> DOMAIN f \subseteq S /\ f \in [DOMAIN f -> T]
<1> QED BY DEF Partial

LEMMA PartialValue ==
  ASSUME NEW S, NEW T, NEW f \in Partial(S, T)
  PROVE  DOMAIN f \subseteq S /\ \A x \in DOMAIN f : f[x] \in T
<1> QED BY DEF Partial

LEMMA RegistryParts ==
  ASSUME NEW l \in WorkspaceRegistry
  PROVE  /\ l = [ws |-> l.ws, default |-> l.default] /\ l.default \in Or(DOMAIN l.ws)
         /\ DOMAIN l.ws \subseteq Workspaces /\ l.ws \in [DOMAIN l.ws -> WorkspaceEntry]
         /\ \A w \in DOMAIN l.ws : l.ws[w].path \in Vaults /\ l.ws[w].binds \in Partial(Projects \X Repos, Dirs)
<1>1. l \in [ws : Partial(Workspaces, WorkspaceEntry), default : Or(Workspaces)] /\ l.default \in Or(DOMAIN l.ws)
  BY DEF WorkspaceRegistry
<1>2. DOMAIN l.ws \subseteq Workspaces /\ l.ws \in [DOMAIN l.ws -> WorkspaceEntry]
  BY <1>1, PartialType
<1> QED BY <1>1, <1>2 DEF WorkspaceEntry

LEMMA RegistryMade ==
  ASSUME NEW ws, NEW default, DOMAIN ws \subseteq Workspaces, ws \in [DOMAIN ws -> WorkspaceEntry],
         default \in Or(DOMAIN ws)
  PROVE  [ws |-> ws, default |-> default] \in WorkspaceRegistry
<1>1. ws \in Partial(Workspaces, WorkspaceEntry)
  BY PartialType
<1> QED BY <1>1 DEF WorkspaceRegistry, Or

LEMMA ManifestParts ==
  ASSUME NEW m \in Manifest
  PROVE  /\ m = [id |-> m.id, projects |-> m.projects] /\ m.id \in Or(Workspaces)
         /\ DOMAIN m.projects \subseteq Projects /\ m.projects \in [DOMAIN m.projects -> ManifestProject]
<1> QED BY PartialType DEF Manifest

LEMMA ManifestMade ==
  ASSUME NEW id \in Or(Workspaces), NEW P, DOMAIN P \subseteq Projects, P \in [DOMAIN P -> ManifestProject]
  PROVE  [id |-> id, projects |-> P] \in Manifest
<1> QED BY PartialType DEF Manifest

LEMMA EmptyIn ==
  ASSUME NEW S, NEW T PROVE Empty \in Partial(S, T) /\ DOMAIN Empty = {}
<1> QED BY PartialType DEF Empty

LEMMA WithType ==
  ASSUME NEW S, NEW T, NEW f \in Partial(S, T), NEW x \in S, NEW y \in T
  PROVE  With(f, x, y) \in Partial(S, T)
<1>1. DOMAIN With(f, x, y) \subseteq S /\ With(f, x, y) \in [DOMAIN With(f, x, y) -> T]
  BY PartialValue DEF With
<1> QED BY <1>1, PartialType

LEMMA KeepIn ==
  ASSUME NEW S, NEW T, NEW f \in Partial(S, T), NEW X
  PROVE  Keep(f, X) \in Partial(S, T)
<1>1. DOMAIN Keep(f, X) \subseteq S /\ Keep(f, X) \in [DOMAIN Keep(f, X) -> T]
  BY PartialValue DEF Keep
<1> QED BY <1>1, PartialType

LEMMA PortableType ==
  ASSUME NEW e \in ProjectEntry
  PROVE  Portable(e) \in ManifestProject /\ Portable(e).domain = e.domain /\ Portable(e).status = e.status
<1>1. e = [domain |-> e.domain, status |-> e.status, repos |-> e.repos] /\ e.repos \in Partial(Repos, RepositoryEntry)
      /\ e.domain \in Domains /\ e.status \in Statuses
  BY DEF ProjectEntry
<1>2. ASSUME NEW r \in DOMAIN e.repos PROVE r \in Repos /\ e.repos[r].meta \in Or(Urls)
  <2>1. r \in Repos /\ e.repos[r] \in RepositoryEntry
    BY <1>1, PartialValue
  <2> QED BY <2>1 DEF RepositoryEntry
<1> DEFINE metas == [r \in DOMAIN e.repos |-> e.repos[r].meta]
<1>3. metas \in Partial(Repos, Or(Urls))
  BY <1>2, PartialType
<1>4. Portable(e) = [domain |-> e.domain, status |-> e.status, repos |-> metas]
  BY <1>1 DEF Portable
<1> QED BY <1>1, <1>3, <1>4 DEF ManifestProject

LEMMA JoinedType ==
  ASSUME NEW m \in Manifest, NEW binds \in Partial(Projects \X Repos, Dirs)
  PROVE  /\ Joined(m, binds) \in ProjectEntries /\ DOMAIN Joined(m, binds) = DOMAIN m.projects
         /\ \A p \in DOMAIN m.projects : /\ Joined(m, binds)[p].domain = m.projects[p].domain
                                         /\ Joined(m, binds)[p].status = m.projects[p].status
<1> DEFINE J == Joined(m, binds)
<1>1. ASSUME NEW p \in DOMAIN m.projects
      PROVE  J[p] \in ProjectEntry /\ J[p].domain = m.projects[p].domain /\ J[p].status = m.projects[p].status
  <2> DEFINE e == m.projects[p]
             paths == [r \in DOMAIN e.repos |-> [meta |-> e.repos[r], path |-> Bound(binds, p, r)]]
  <2>1. e \in ManifestProject
    BY ManifestParts
  <2>2. e = [domain |-> e.domain, status |-> e.status, repos |-> e.repos] /\ e.repos \in Partial(Repos, Or(Urls))
        /\ e.domain \in Domains /\ e.status \in Statuses
    BY <2>1 DEF ManifestProject
  <2>3. ASSUME NEW r \in DOMAIN e.repos PROVE r \in Repos /\ paths[r] \in RepositoryEntry
    <3>1. r \in Repos /\ e.repos[r] \in Or(Urls)
      BY <2>2, PartialValue
    <3>2. Bound(binds, p, r) \in Or(Dirs)
      BY PartialValue DEF Bound, Or
    <3> QED BY <3>1, <3>2 DEF RepositoryEntry
  <2>4. paths \in Partial(Repos, RepositoryEntry)
    BY <2>3, PartialType
  <2>5. J[p] = [e EXCEPT !.repos = paths]
    BY DEF Joined
  <2> HIDE DEF paths
  <2>6. J[p] = [domain |-> e.domain, status |-> e.status, repos |-> paths]
    BY <2>5, <2>2
  <2> QED BY <2>2, <2>4, <2>6 DEF ProjectEntry
<1>2. DOMAIN J = DOMAIN m.projects /\ J = [p \in DOMAIN J |-> J[p]]
  BY DEF Joined
<1>3. DOMAIN m.projects \subseteq Projects
  BY ManifestParts
<1> HIDE DEF J
<1>4. J \in ProjectEntries
  BY <1>1, <1>2, <1>3, PartialType DEF ProjectEntries
<1> QED BY <1>1, <1>2, <1>4 DEF J

LEMMA ManifestForType ==
  ASSUME NEW m \in Manifest, NEW es \in ProjectEntries
  PROVE  /\ ManifestFor(m, es) \in Manifest /\ ManifestFor(m, es).id = m.id
         /\ DOMAIN ManifestFor(m, es).projects = DOMAIN es
         /\ \A p \in DOMAIN es : /\ ManifestFor(m, es).projects[p].domain = es[p].domain
                                 /\ ManifestFor(m, es).projects[p].status = es[p].status
<1> DEFINE P == [p \in DOMAIN es |-> Portable(es[p])]
<1>1. \A p \in DOMAIN es : p \in Projects /\ es[p] \in ProjectEntry
  BY PartialValue DEF ProjectEntries
<1>2. \A p \in DOMAIN es : P[p] \in ManifestProject /\ P[p].domain = es[p].domain /\ P[p].status = es[p].status
  BY <1>1, PortableType
<1>3. DOMAIN P \subseteq Projects /\ P \in [DOMAIN P -> ManifestProject]
  BY <1>1, <1>2
<1>4. ManifestFor(m, es) = [id |-> m.id, projects |-> P]
  BY ManifestParts DEF ManifestFor
<1>5. DOMAIN P = DOMAIN es
  OBVIOUS
<1>6. m.id \in Or(Workspaces)
  BY ManifestParts
<1> HIDE DEF P
<1> QED BY <1>2, <1>3, <1>4, <1>5, <1>6, ManifestMade

LEMMA BindsForType ==
  ASSUME NEW binds \in Partial(Projects \X Repos, Dirs), NEW es \in ProjectEntries
  PROVE  BindsFor(binds, es) \in Partial(Projects \X Repos, Dirs)
<1> DEFINE here == {k \in (DOMAIN es) \X Repos : k[2] \in DOMAIN es[k[1]].repos /\ es[k[1]].repos[k[2]].path # None}
           kept == {k \in DOMAIN binds : k[1] \notin DOMAIN es}
           B == BindsFor(binds, es)
<1>1. \A p \in DOMAIN es : p \in Projects /\ es[p] \in ProjectEntry
  BY PartialValue DEF ProjectEntries
<1>2. ASSUME NEW k \in here PROVE k \in Projects \X Repos /\ es[k[1]].repos[k[2]].path \in Dirs
  <2>1. k[1] \in DOMAIN es /\ k[2] \in Repos /\ k[2] \in DOMAIN es[k[1]].repos /\ es[k[1]].repos[k[2]].path # None
    OBVIOUS
  <2>2. es[k[1]].repos \in Partial(Repos, RepositoryEntry)
    BY <1>1, <2>1 DEF ProjectEntry
  <2>3. es[k[1]].repos[k[2]] \in RepositoryEntry
    BY <2>1, <2>2, PartialValue
  <2>4. k \in Projects \X Repos
    BY <1>1
  <2> QED BY <2>1, <2>3, <2>4 DEF RepositoryEntry, Or
<1>3. ASSUME NEW k \in kept PROVE k \in Projects \X Repos /\ binds[k] \in Dirs
  BY PartialValue
<1>4. /\ DOMAIN B = here \union kept /\ B = [k \in DOMAIN B |-> B[k]]
      /\ \A k \in here \union kept : B[k] = IF k \in here THEN es[k[1]].repos[k[2]].path ELSE binds[k]
  BY Zenon DEF BindsFor
<1> HIDE DEF here, kept, B
<1>5. DOMAIN B \subseteq Projects \X Repos /\ \A k \in DOMAIN B : B[k] \in Dirs
  BY <1>2, <1>3, <1>4
<1>6. B \in [DOMAIN B -> Dirs]
  BY <1>4, <1>5
<1> QED BY <1>5, <1>6, PartialType DEF B

LEMMA BindsSet ==
  ASSUME NEW l \in WorkspaceRegistry, NEW w \in DOMAIN l.ws, NEW b \in Partial(Projects \X Repos, Dirs)
  PROVE  LET n == [l EXCEPT !.ws[w].binds = b] IN
         /\ n \in WorkspaceRegistry /\ DOMAIN n.ws = DOMAIN l.ws
         /\ \A x \in DOMAIN l.ws : n.ws[x].path = l.ws[x].path
<1> DEFINE ws == [l.ws EXCEPT ![w] = [l.ws[w] EXCEPT !.binds = b]]
<1>1. l = [ws |-> l.ws, default |-> l.default] /\ l.ws \in [DOMAIN l.ws -> WorkspaceEntry]
      /\ DOMAIN l.ws \subseteq Workspaces /\ l.default \in Or(DOMAIN l.ws)
  BY RegistryParts
<1>2. [l.ws[w] EXCEPT !.binds = b] \in WorkspaceEntry /\ [l.ws[w] EXCEPT !.binds = b].path = l.ws[w].path
  BY <1>1 DEF WorkspaceEntry
<1>3. ws \in [DOMAIN l.ws -> WorkspaceEntry] /\ DOMAIN ws = DOMAIN l.ws
      /\ \A x \in DOMAIN l.ws : ws[x].path = l.ws[x].path
  BY <1>1, <1>2
<1>4. [l EXCEPT !.ws[w].binds = b] = [ws |-> ws, default |-> l.default]
  BY <1>1
<1> HIDE DEF ws
<1>5. [ws |-> ws, default |-> l.default] \in WorkspaceRegistry
  BY <1>1, <1>3, RegistryMade
<1> QED BY <1>3, <1>4, <1>5

LEMMA ListedType ==
  ASSUME FilesOK, NEW w \in Registered
  PROVE  /\ PathOf(w) \in Vaults /\ w \in Workspaces
         /\ Listed(w) \in ProjectEntries /\ DOMAIN Listed(w) = DOMAIN man[PathOf(w)].projects
         /\ \A p \in DOMAIN Listed(w) : /\ Listed(w)[p].domain = man[PathOf(w)].projects[p].domain
                                        /\ Listed(w)[p].status = man[PathOf(w)].projects[p].status
<1>1. local.ws[w].path \in Vaults /\ local.ws[w].binds \in Partial(Projects \X Repos, Dirs) /\ w \in Workspaces
  BY RegistryParts DEF FilesOK, Registered
<1>2. man[PathOf(w)] \in Manifest
  BY <1>1 DEF FilesOK, PathOf
<1> QED BY <1>1, <1>2, JoinedType DEF Listed, PathOf

LEMMA GotType ==
  ASSUME FilesOK, NEW p, Got(p) # None
  PROVE  /\ Got(p).w \in Registered /\ p \in DOMAIN man[PathOf(Got(p).w)].projects
         /\ Got(p).entry = Listed(Got(p).w)[p] /\ Got(p).entry \in ProjectEntry
         /\ Got(p).entry.domain = man[PathOf(Got(p).w)].projects[p].domain
         /\ Got(p).entry.status = man[PathOf(Got(p).w)].projects[p].status
<1> DEFINE o == CHOOSE w \in Owners(p) : TRUE
<1>1. Owners(p) # {}
  BY DEF Got
<1>2. o \in Owners(p)
  BY <1>1
<1>3. Got(p) = [w |-> o, entry |-> Listed(o)[p]]
  BY <1>1 DEF Got
<1> HIDE DEF o
<1>4. o \in Registered /\ p \in DOMAIN man[PathOf(o)].projects
  BY <1>2 DEF Owners
<1>5. p \in DOMAIN Listed(o) /\ Listed(o)[p] \in ProjectEntry
  BY <1>4, ListedType, PartialValue DEF ProjectEntries
<1>6. Listed(o)[p].domain = man[PathOf(o)].projects[p].domain /\ Listed(o)[p].status = man[PathOf(o)].projects[p].status
  BY <1>4, <1>5, ListedType
<1> QED BY <1>3, <1>4, <1>5, <1>6

(* One project is replaced in the Manifest and in the bindings.            *)
Replaces(m, n, p, e) ==
  /\ n.id = m.id /\ DOMAIN n.projects = DOMAIN m.projects \union {p}
  /\ n.projects[p].domain = e.domain /\ n.projects[p].status = e.status
  /\ \A o \in DOMAIN m.projects \ {p} : /\ n.projects[o].domain = m.projects[o].domain
                                        /\ n.projects[o].status = m.projects[o].status
SamePlaces(l, n) ==
  DOMAIN n.ws = DOMAIN l.ws /\ \A w \in DOMAIN l.ws : n.ws[w].path = l.ws[w].path

LEMMA SavedType ==
  ASSUME FilesOK, NEW w \in Registered, NEW p \in Projects, NEW e \in ProjectEntry
  PROVE  /\ Saved(w, p, e).was = man[PathOf(w)] /\ man[PathOf(w)] \in Manifest
         /\ Saved(w, p, e).man \in Manifest /\ Replaces(man[PathOf(w)], Saved(w, p, e).man, p, e)
         /\ Saved(w, p, e).local \in WorkspaceRegistry /\ SamePlaces(local, Saved(w, p, e).local)
<1> DEFINE es == With(Listed(w), p, e)
           m == man[PathOf(w)]
           b == BindsFor(local.ws[w].binds, es)
<1>1. Listed(w) \in Partial(Projects, ProjectEntry) /\ DOMAIN Listed(w) = DOMAIN m.projects /\ PathOf(w) \in Vaults
  BY ListedType DEF ProjectEntries
<1>2. es \in Partial(Projects, ProjectEntry)
      /\ DOMAIN es = DOMAIN m.projects \union {p} /\ es[p] = e /\ \A o \in DOMAIN Listed(w) \ {p} : es[o] = Listed(w)[o]
  <2>1. es \in Partial(Projects, ProjectEntry)
    BY <1>1, WithType
  <2>2. DOMAIN es = DOMAIN Listed(w) \union {p} /\ es[p] = e /\ \A o \in DOMAIN Listed(w) \ {p} : es[o] = Listed(w)[o]
    BY DEF With
  <2> QED BY <1>1, <2>1, <2>2
<1>3. m \in Manifest /\ local \in WorkspaceRegistry /\ w \in DOMAIN local.ws
  BY <1>1 DEF FilesOK, Registered
<1>4. local.ws[w].binds \in Partial(Projects \X Repos, Dirs)
  BY <1>3, RegistryParts
<1> HIDE DEF es, m
<1>5. b \in Partial(Projects \X Repos, Dirs)
  BY <1>2, <1>4, BindsForType DEF ProjectEntries
<1>6. ManifestFor(m, es) \in Manifest /\ Replaces(m, ManifestFor(m, es), p, e)
  <2>1. /\ ManifestFor(m, es) \in Manifest /\ ManifestFor(m, es).id = m.id
        /\ DOMAIN ManifestFor(m, es).projects = DOMAIN es
        /\ \A o \in DOMAIN es : /\ ManifestFor(m, es).projects[o].domain = es[o].domain
                                /\ ManifestFor(m, es).projects[o].status = es[o].status
    BY <1>2, <1>3, ManifestForType DEF ProjectEntries
  <2>2. \A o \in DOMAIN m.projects : /\ Listed(w)[o].domain = m.projects[o].domain
                                     /\ Listed(w)[o].status = m.projects[o].status
    BY <1>1, ListedType DEF m
  <2> QED BY <1>1, <1>2, <2>1, <2>2 DEF Replaces
<1>7. /\ Saved(w, p, e).was = m /\ Saved(w, p, e).man = ManifestFor(m, es)
      /\ Saved(w, p, e).local = [local EXCEPT !.ws[w].binds = b]
  BY DEF Saved, es, m
<1> HIDE DEF b
<1>8. /\ [local EXCEPT !.ws[w].binds = b] \in WorkspaceRegistry
      /\ SamePlaces(local, [local EXCEPT !.ws[w].binds = b])
  BY ZenonT(30), <1>3, <1>5, BindsSet DEF SamePlaces
<1> QED BY <1>3, <1>6, <1>7, <1>8 DEF m

(* What a command makes of a project.                                      *)
LEMMA AskedType ==
  ASSUME NEW q, IsRequest(q), q.op \in {"adopt", "create"}
  PROVE  Asked(q) \in ProjectEntry /\ Asked(q).domain = q.d /\ Asked(q).status = q.st
<1> QED BY DEF IsRequest, Asked, ProjectEntry, Or

LEMMA UpdatedType ==
  ASSUME NEW q, IsRequest(q), NEW e \in ProjectEntry
  PROVE  Updated(q, e) \in ProjectEntry
<1>1. Domain(q, e) \in Domains /\ Status(q, e) \in Statuses
  BY DEF IsRequest, Domain, Status, ProjectEntry, Or
<1> QED BY <1>1 DEF Updated, ProjectEntry

LEMMA FilledType ==
  ASSUME NEW x \in RepositoryEntry PROVE Filled(x) \in RepositoryEntry
<1>1. x.path # None => Remote[x.path] \in Or(Urls)
  BY RemoteAssumption DEF RepositoryEntry, Or
<1> QED BY <1>1 DEF RepositoryEntry, Filled

LEMMA AsFilledType ==
  ASSUME NEW e \in ProjectEntry
  PROVE  AsFilled(e) \in ProjectEntry /\ AsFilled(e).domain = e.domain /\ AsFilled(e).status = e.status
<1> DEFINE R == [r \in DOMAIN e.repos |-> Filled(e.repos[r])]
<1>1. e = [domain |-> e.domain, status |-> e.status, repos |-> e.repos] /\ e.repos \in Partial(Repos, RepositoryEntry)
      /\ e.domain \in Domains /\ e.status \in Statuses
  BY DEF ProjectEntry
<1>2. \A r \in DOMAIN e.repos : r \in Repos /\ e.repos[r] \in RepositoryEntry
  BY <1>1, PartialValue
<1>3. R \in Partial(Repos, RepositoryEntry)
  BY <1>2, FilledType, PartialType
<1>4. AsFilled(e) = [domain |-> e.domain, status |-> e.status, repos |-> R]
  BY <1>1 DEF AsFilled
<1> HIDE DEF R
<1> QED BY <1>1, <1>3, <1>4 DEF ProjectEntry

LEMMA ChangedType ==
  ASSUME NEW q, IsRequest(q), q.op \in {"bind", "set", "unbind", "remove"}, NEW e \in ProjectEntry
  PROVE  Changed(q, e) \in ProjectEntry /\ Changed(q, e).domain = e.domain /\ Changed(q, e).status = e.status
<1>1. e = [domain |-> e.domain, status |-> e.status, repos |-> e.repos] /\ e.repos \in Partial(Repos, RepositoryEntry)
      /\ e.domain \in Domains /\ e.status \in Statuses
  BY DEF ProjectEntry
<1>2. q.r \in Repos /\ q.dir \in Or(Dirs)
  BY DEF IsRequest, Or
<1> DEFINE old == IF q.r \in DOMAIN e.repos THEN e.repos[q.r] ELSE NewRepo
           new == CASE q.op = "unbind" -> [old EXCEPT !.path = None]
                    [] OTHER           -> [old EXCEPT !.path = q.dir]
<1>3. old \in RepositoryEntry
  <2>1. q.r \in DOMAIN e.repos => e.repos[q.r] \in RepositoryEntry
    BY <1>1, PartialValue
  <2>2. NewRepo \in RepositoryEntry
    BY DEF NewRepo, RepositoryEntry, Or
  <2> QED BY <2>1, <2>2
<1>4. new \in RepositoryEntry
  BY <1>2, <1>3 DEF RepositoryEntry, Or
<1>5. With(e.repos, q.r, Filled(new)) \in Partial(Repos, RepositoryEntry)
  BY <1>1, <1>2, <1>4, FilledType, WithType
<1>6. Keep(e.repos, Repos \ {q.r}) \in Partial(Repos, RepositoryEntry)
  BY <1>1, KeepIn
<1>7. Changed(q, e) = IF q.op = "remove" THEN [e EXCEPT !.repos = Keep(e.repos, Repos \ {q.r})]
                      ELSE [e EXCEPT !.repos = With(e.repos, q.r, Filled(new))]
  BY DEF Changed
<1> HIDE DEF new
<1> QED BY <1>1, <1>5, <1>6, <1>7 DEF ProjectEntry

----------------------------------------------------------------------------
(* Types: what a step does to the files and to the process that takes it.  *)
Deed(c) ==
  /\ FilesOK' /\ DOMAIN job'[c] = JobFields /\ JobOK(job'[c]) /\ Imported(c)'
  /\ job'[c].at \in InHome => HomeFree \/ job[c].at \in InHome
  /\ local' = local \/ HomeFree \/ job[c].at \in InHome

LEMMA Combined ==
  ASSUME Types, NEW c \in Procs, Untouching(c), Deed(c) PROVE Types'
<1>1. Shapes'
  BY DEF Deed, Untouching, Untouched, Shapes
<1>2. ASSUME NEW b \in Procs \ {c} PROVE JobOK(job'[b])
  <2>1. Untouched(b) /\ JobOK(job[b])
    BY DEF Untouching, Types
  <2>2. job'[b].at \in {"read", "domain", "enter", "manifest", "local"} => job'[b].entry \in ProjectEntry
    <3> SUFFICES ASSUME job'[b].at \in {"read", "domain", "enter", "manifest", "local"}
                 PROVE  job'[b].entry \in ProjectEntry
      OBVIOUS
    <3>1. job[b].entry \in ProjectEntry
      BY <2>1 DEF Untouched, JobOK, Furnished
    <3>2. \A d \in Domains : [job[b].entry EXCEPT !.domain = d] \in ProjectEntry
      BY <3>1 DEF ProjectEntry
    <3> QED BY <2>1, <3>1, <3>2 DEF Untouched, Relabelled
  <2>3. job'[b].at = "import" => job'[b].entry = job[b].entry
    BY <2>1 DEF Untouched, Relabelled, At
  <2> QED BY <2>1, <2>2, <2>3 DEF Untouched, JobOK, Placed, Furnished
<1>3. Alone'
  BY DEF Types, Alone, Deed, Untouching, Untouched, HomeFree
<1>4. ASSUME NEW b \in Procs \ {c} PROVE Imported(b)'
  <2>1. Untouched(b) /\ Imported(b)
    BY DEF Untouching, Types
  <2>2. CASE ~At(b, "import")
    BY <2>1, <2>2 DEF Imported, At, Untouched
  <2>3. CASE At(b, "import")
    <3>1. local' = local
      BY <2>3 DEF Deed, HomeFree, Types, Alone, At, InHome
    <3>2. job'[b].entry = job[b].entry
      BY <2>1, <2>3 DEF Untouched, Relabelled, At
    <3> QED BY <2>1, <3>1, <3>2 DEF Imported, At, Untouched, Registered, PathOf
  <2> QED BY <2>2, <2>3
<1> QED BY <1>1, <1>2, <1>3, <1>4 DEF Types, Deed

LEMMA CurrentType ==
  ASSUME FilesOK, NEW q, IsRequest(q), q.w \in Registered
  PROVE  /\ IsRequest(Current(q)) /\ Current(q).v = PathOf(q.w) /\ PathOf(q.w) \in Vaults
         /\ Current(q).op = q.op /\ Current(q).w = q.w /\ Current(q).p = q.p
         /\ Current(q).d = q.d /\ Current(q).st = q.st
<1>1. PathOf(q.w) \in Vaults
  BY ListedType
<1> QED BY <1>1, NoneAssumption DEF Current, IsRequest, Or

LEMMA IdleType ==
  ASSUME Types, NEW c \in Procs, job'[c] = NoJob, FilesOK',
         local' = local \/ HomeFree \/ job[c].at \in InHome
  PROVE  Deed(c)
<1> QED BY DEF Deed, NoJob, JobFields, JobOK, Imported, At, InHome

(* The files stay, and the process goes on outside the lock.               *)
LEMMA GoesOn ==
  ASSUME Types, NEW c \in Procs, UNCHANGED files, DOMAIN job'[c] = JobFields, JobOK(job'[c]),
         job'[c].at \notin InHome
  PROVE  Deed(c)
<1> QED BY DEF Types, Deed, files, FilesOK, Imported, At, InHome

LEMMA StartType ==
  ASSUME Types, NEW c \in Procs, NEW q \in Requests, Start(c, q) PROVE Deed(c)
<1>1. job'[c].at = FirstPlace(q.op) /\ job'[c].req = q /\ DOMAIN job'[c] = JobFields
  BY DEF Start, NoJob, Types, Shapes, JobFields
<1>2. IsRequest(q) /\ (q.op \in ProjectOps \union DomainOps => q.w \in Registered /\ PathOf(q.w) = q.v)
  BY RequestsAssumption DEF Start
<1>3. q.op \in ProjectOps \union DomainOps => q.w # None /\ q.v # None
  BY <1>2, ListedType, NoneAssumption DEF Types
<1>4. JobOK(job'[c]) /\ job'[c].at \notin InHome
  BY <1>1, <1>2, <1>3 DEF JobOK, Placed, Furnished, FirstPlace, IsRequest, Ops, ProjectOps, DomainOps, Confirmed, InHome
<1> QED BY <1>1, <1>4, GoesOn DEF Start

LEMMA SaveType ==
  ASSUME Types, NEW c \in Procs,
         Show(c) \/ Read(c) \/ Preview(c) \/ Change(c) \/ Check(c) \/ Declare(c) \/ Enter(c)
  PROVE  Deed(c)
<1> DEFINE j == job[c]
           q == job[c].req
           n == job'[c]
<1>1. JobOK(j) /\ FilesOK /\ DOMAIN j = JobFields /\ DOMAIN job = Procs
  BY DEF Types, Shapes
<1>2. CASE Show(c)
  <2>1. /\ j.at = "show" /\ n.at = "read" /\ n.req = q /\ DOMAIN n = JobFields /\ UNCHANGED files
        /\ n.entry = IF q.op = "adopt" THEN Asked(q) ELSE Updated(q, Got(q.p).entry)
    BY <1>1, <1>2 DEF Show, At_May, At, Reach, JobFields
  <2>2. IsRequest(q) /\ q.op \in {"adopt", "update"} /\ q.w # None /\ q.v # None
    BY <1>1, <2>1 DEF JobOK, Placed, ProjectOps
  <2>3. q.op # "adopt" => Got(q.p) # None
    BY <1>2, <2>1 DEF Show, At_May, May
  <2>4. n.entry \in ProjectEntry
    BY <1>1, <2>1, <2>2, <2>3, AskedType, UpdatedType, GotType
  <2>5. JobOK(n)
    BY <2>1, <2>2, <2>4 DEF JobOK, Placed, Furnished
  <2> QED BY <2>1, <2>5, GoesOn DEF InHome
<1>3. CASE Read(c)
  <2>1. /\ j.at = "read" /\ n.at = "enter" /\ n.req = Current(q) /\ DOMAIN n = JobFields /\ UNCHANGED files
        /\ n.entry = AsFilled(j.entry)
    BY <1>1, <1>3 DEF Read, At_May, At, Reach, JobFields
  <2>2. IsRequest(q) /\ q.op \in {"adopt", "update"} /\ q.w # None /\ j.entry \in ProjectEntry
    BY <1>1, <2>1 DEF JobOK, Placed, Furnished, ProjectOps
  <2>3. q.w \in Registered
    BY Zenon, <1>3, <2>1 DEF Read, At_May, May, Prepared
  <2>4. IsRequest(n.req) /\ n.req.op = q.op /\ n.req.w # None /\ n.req.v # None
    BY <1>1, <2>1, <2>2, <2>3, CurrentType, NoneAssumption
  <2>5. n.entry \in ProjectEntry
    BY <2>1, <2>2, AsFilledType
  <2>6. JobOK(n)
    BY <2>1, <2>2, <2>4, <2>5 DEF JobOK, Placed, Furnished, ProjectOps
  <2> QED BY <2>1, <2>6, GoesOn DEF InHome
<1>4. CASE Preview(c)
  <2>1. j.at = "preview" /\ n.at = "change" /\ n.req = q /\ DOMAIN n = JobFields /\ UNCHANGED files
    BY <1>1, <1>4 DEF Preview, At_May, At, Reach, JobFields
  <2>2. JobOK(n)
    BY <1>1, <2>1 DEF JobOK, Placed, Furnished
  <2> QED BY <2>1, <2>2, GoesOn DEF InHome
<1>5. CASE Change(c)
  <2>1. /\ j.at = "change" /\ n.at = "enter" /\ n.req = Current(q) /\ DOMAIN n = JobFields /\ UNCHANGED files
        /\ n.entry = Changed(q, Got(q.p).entry)
    BY <1>1, <1>5 DEF Change, At_May, At, Reach, JobFields
  <2>2. IsRequest(q) /\ q.op \in {"bind", "set", "unbind", "remove"}
    BY <1>1, <2>1 DEF JobOK, Placed, Confirmed
  <2>3. Got(q.p) # None /\ Got(q.p).w = q.w
    BY <1>5, <2>1 DEF Change, At_May, May
  <2>4. q.w \in Registered /\ n.entry \in ProjectEntry
    BY <1>1, <2>1, <2>2, <2>3, GotType, ChangedType
  <2>5. IsRequest(n.req) /\ n.req.op = q.op /\ n.req.w # None /\ n.req.v # None
    BY <1>1, <2>1, <2>2, <2>4, CurrentType, ListedType, NoneAssumption
  <2>6. JobOK(n)
    BY <2>1, <2>2, <2>4, <2>5 DEF JobOK, Placed, Furnished, ProjectOps
  <2> QED BY <2>1, <2>6, GoesOn DEF InHome
<1>6. CASE Check(c)
  <2>1. /\ j.at = "check" /\ n.at = "domain" /\ n.req = Current(q) /\ DOMAIN n = JobFields /\ UNCHANGED files
        /\ n.entry = AsFilled(Asked(q))
    BY <1>1, <1>6 DEF Check, At_May, At, Reach, JobFields
  <2>2. IsRequest(q) /\ q.op = "create"
    BY <1>1, <2>1 DEF JobOK, Placed
  <2>3. q.w \in Registered
    BY Zenon, <1>6, <2>1 DEF Check, At_May, May, Prepared
  <2>4. IsRequest(n.req) /\ n.req.op = q.op /\ n.req.w # None /\ n.req.v # None
    BY <1>1, <2>1, <2>2, <2>3, CurrentType, ListedType, NoneAssumption
  <2>5. n.entry \in ProjectEntry
    BY <2>1, <2>2, AskedType, AsFilledType
  <2>6. JobOK(n)
    BY <2>1, <2>2, <2>4, <2>5 DEF JobOK, Placed, Furnished
  <2> QED BY <2>1, <2>6, GoesOn DEF InHome
<1>7. CASE Declare(c)
  <2>1. /\ j.at = "domain" /\ n.at = "enter" /\ n.req = q /\ n.entry = j.entry /\ DOMAIN n = JobFields
        /\ local' = local /\ man' = man /\ dirs' = dirs /\ backup' = backup
        /\ declared' = [declared EXCEPT ![q.v] = @ \union {q.d}]
    BY <1>1, <1>7 DEF Declare, At_May, At, Go, JobFields
  <2>2. IsRequest(q) /\ q.op = "create" /\ q.v # None /\ q.w # None /\ j.entry \in ProjectEntry
    BY <1>1, <2>1 DEF JobOK, Placed, Furnished, ProjectOps
  <2>3. q.d \in Domains /\ q.v \in Vaults
    BY <2>2 DEF IsRequest, Or
  <2>4. FilesOK'
    BY <1>1, <2>1, <2>3 DEF FilesOK
  <2>5. JobOK(n)
    BY <2>1, <2>2 DEF JobOK, Placed, Furnished, ProjectOps
  <2> QED BY <2>1, <2>4, <2>5 DEF Deed, InHome, Imported, At
<1>8. CASE Enter(c)
  <2>1. /\ j.at = "enter" /\ n.at = "manifest" /\ n.req = Current(q) /\ n.entry = j.entry /\ DOMAIN n = JobFields
        /\ n.next = Saved(q.w, q.p, j.entry) /\ UNCHANGED files /\ HomeFree /\ q.w \in Registered
    BY <1>1, <1>8 DEF Enter, At, Reach, JobFields, SameAsRead, SameSnapshot
  <2>2. IsRequest(q) /\ q.op \in ProjectOps /\ q.w # None /\ j.entry \in ProjectEntry
    BY <1>1, <2>1 DEF JobOK, Placed, Furnished
  <2>3. IsRequest(n.req) /\ n.req.op = q.op /\ n.req.w # None /\ n.req.v # None
    BY <1>1, <2>1, <2>2, CurrentType, ListedType, NoneAssumption
  <2>4. q.p \in Projects
    BY <2>2 DEF IsRequest, Or
  <2>5. n.next.was \in Manifest /\ n.next.man \in Manifest /\ n.next.local \in WorkspaceRegistry
    BY <1>1, <2>1, <2>2, <2>4, SavedType
  <2>6. JobOK(n)
    BY <2>1, <2>2, <2>3, <2>5 DEF JobOK, Placed, Furnished
  <2> QED BY <1>1, <2>1, <2>6 DEF Deed, files, FilesOK, Imported, At
<1> QED BY <1>2, <1>3, <1>4, <1>5, <1>6, <1>7, <1>8

LEMMA WriteType ==
  ASSUME Types, NEW c \in Procs, WriteManifest(c) \/ WriteLocal(c) \/ LocalFails(c) PROVE Deed(c)
<1> DEFINE j == job[c]
           q == job[c].req
           n == job'[c]
           O == Overtaking({Key(c)})
<1>1. JobOK(j) /\ FilesOK /\ DOMAIN j = JobFields /\ DOMAIN job = Procs /\ Shapes
  BY DEF Types, Shapes
<1>2. j.at \in {"manifest", "local"}
  BY DEF WriteManifest, WriteLocal, LocalFails, At
<1>3. IsRequest(q) /\ q.op \in ProjectOps /\ q.w # None /\ q.v \in Vaults /\ j.entry \in ProjectEntry
      /\ j.next.was \in Manifest /\ j.next.man \in Manifest /\ j.next.local \in WorkspaceRegistry
  BY <1>1, <1>2 DEF JobOK, Placed, Furnished, IsRequest, Or
<1>4. /\ DOMAIN O = Procs /\ DOMAIN O[c] = JobFields /\ O[c].at = j.at /\ O[c].req = q
      /\ O[c].entry = j.entry /\ O[c].next = j.next
  BY <1>1, Overtakes
<1> HIDE DEF O
<1>5. CASE WriteManifest(c)
  <2>1. /\ n.at = "local" /\ n.req = q /\ n.entry = j.entry /\ n.next = j.next /\ DOMAIN n = JobFields
        /\ local' = local /\ dirs' = dirs /\ declared' = declared /\ backup' = backup
        /\ man' = man \/ man' = [man EXCEPT ![q.v] = j.next.man]
    <3>1. job' = [O EXCEPT ![c].at = "local"]
      BY <1>5 DEF WriteManifest, O
    <3> QED BY ZenonT(30), <1>4, <1>5, <3>1 DEF WriteManifest, JobFields
  <2>2. FilesOK'
    BY <1>1, <1>3, <2>1 DEF FilesOK
  <2>3. JobOK(n)
    BY <1>3, <2>1, NoneAssumption DEF JobOK, Placed, Furnished
  <2> QED BY <2>1, <2>2, <2>3, <1>5 DEF Deed, Imported, At, WriteManifest, InHome
<1>6. CASE WriteLocal(c)
  <2>1. n = NoJob /\ local' = j.next.local /\ man' = man /\ dirs' = dirs /\ declared' = declared /\ backup' = backup
        /\ j.at = "local"
    BY <1>4, <1>6 DEF WriteLocal, O, At
  <2>2. FilesOK'
    BY <1>1, <1>3, <2>1 DEF FilesOK
  <2> QED BY <2>1, <2>2, IdleType DEF InHome
<1>7. CASE LocalFails(c)
  <2>1. n = NoJob /\ local' = local /\ man' = PutBack(c) /\ dirs' = dirs /\ declared' = declared /\ backup' = backup
    BY <1>4, <1>7 DEF LocalFails, O
  <2>2. FilesOK'
    BY <1>1, <1>3, <2>1 DEF FilesOK, PutBack
  <2> QED BY <2>1, <2>2, IdleType
<1> QED BY <1>5, <1>6, <1>7

LEMMA SetUpType ==
  ASSUME Types, NEW c \in Procs, Vacant(c) \/ Scaffold(c) \/ Register(c) \/ Found(c) \/ SetUp(c) \/ Attach(c) \/ SetDefault(c)
  PROVE  Deed(c)
<1> DEFINE j == job[c]
           q == job[c].req
           n == job'[c]
<1>1. JobOK(j) /\ FilesOK /\ DOMAIN j = JobFields /\ DOMAIN job = Procs
  BY DEF Types, Shapes
<1>2. local \in WorkspaceRegistry /\ man \in [Vaults -> Manifest]
  BY <1>1 DEF FilesOK
<1>3. CASE Scaffold(c)
  <2>1. /\ j.at = "scaffold" /\ n.at = "register" /\ n.req = q /\ DOMAIN n = JobFields
        /\ local' = local /\ man' = man /\ dirs' = dirs \union {q.v} /\ declared' = declared /\ backup' = backup
    BY <1>1, <1>3 DEF Scaffold, At, Go, JobFields
  <2>2. IsRequest(q) /\ q.op = "workspace-create"
    BY <1>1, <2>1 DEF JobOK, Placed
  <2>3. q.v \in Vaults /\ q.w # None
    BY <2>2 DEF IsRequest, Or
  <2>4. FilesOK'
    BY <1>1, <2>1, <2>3 DEF FilesOK
  <2>5. JobOK(n)
    BY <2>1, <2>2, <2>3 DEF JobOK, Placed, Furnished, ProjectOps, DomainOps
  <2> QED BY <2>1, <2>4, <2>5 DEF Deed, InHome, Imported, At
<1>10. CASE Vacant(c)
  <2>1. /\ j.at = "vacant" /\ n.at = "scaffold" /\ n.req = q /\ DOMAIN n = JobFields
        /\ local' = local /\ man' = man /\ dirs' = dirs /\ declared' = declared /\ backup' = backup
    BY <1>1, <1>10 DEF Vacant, At_May, At, Go, JobFields, files
  <2>2. IsRequest(q) /\ q.op = "workspace-create"
    BY <1>1, <2>1 DEF JobOK, Placed
  <2>3. q.v \in Vaults /\ q.w # None
    BY <2>2 DEF IsRequest, Or
  <2>4. FilesOK'
    BY <1>1, <2>1, <2>3 DEF FilesOK
  <2>5. JobOK(n)
    BY <2>1, <2>2, <2>3 DEF JobOK, Placed, Furnished, ProjectOps, DomainOps
  <2> QED BY <2>1, <2>4, <2>5 DEF Deed, InHome, Imported, At
<1>4. CASE Register(c)
  <2> DEFINE new == IF q.w \in Registered THEN local.ws[q.w] ELSE NewEntry(q.v)
             ws == With(local.ws, q.w, new)
             default == IF local.default = None THEN q.w ELSE local.default
  <2>1. /\ j.at = "register" /\ HomeFree
        /\ local' = [ws |-> ws, default |-> default]
        /\ man' = man /\ dirs' = dirs /\ declared' = declared /\ backup' = backup
    BY <1>4 DEF Register, At_May, At
  <2>2. IsRequest(q) /\ q.op \in {"workspace-create", "setup"} /\ q.w # None
    BY <1>1, <2>1 DEF JobOK, Placed
  <2>3. q.w \in Workspaces /\ q.v \in Vaults
    BY <2>2 DEF IsRequest, Or
  <2>4. NewEntry(q.v) \in WorkspaceEntry
    BY <2>3, EmptyIn DEF NewEntry, WorkspaceEntry
  <2>5. new \in WorkspaceEntry
    BY <2>4, <1>2, RegistryParts DEF Registered
  <2>6. local.ws \in Partial(Workspaces, WorkspaceEntry) /\ local.default \in Or(DOMAIN local.ws)
    BY <1>2 DEF WorkspaceRegistry
  <2> HIDE DEF new
  <2>7. ws \in Partial(Workspaces, WorkspaceEntry) /\ DOMAIN ws = DOMAIN local.ws \union {q.w}
    <3>1. ws \in Partial(Workspaces, WorkspaceEntry)
      BY <2>3, <2>5, <2>6, WithType
    <3>2. DOMAIN ws = DOMAIN local.ws \union {q.w}
      BY DEF With
    <3> QED BY <3>1, <3>2
  <2>8. default \in Or(DOMAIN ws)
    BY <2>6, <2>7 DEF Or
  <2>9. local' \in WorkspaceRegistry
    <3> HIDE DEF ws, default
    <3>1. DOMAIN ws \subseteq Workspaces /\ ws \in [DOMAIN ws -> WorkspaceEntry]
      BY <2>7, PartialType
    <3> QED BY <2>1, <2>8, <3>1, RegistryMade
  <2>10. FilesOK'
    BY <1>1, <2>1, <2>9 DEF FilesOK
  <2>11. CASE q.op = "workspace-create"
    <3>1. n.at = "found" /\ n.req = q /\ DOMAIN n = JobFields
      BY <1>1, <1>4, <2>11, RegistersAs DEF JobFields, Types
    <3>2. JobOK(n)
      BY <2>2, <2>11, <3>1 DEF JobOK, Placed, Furnished, ProjectOps, DomainOps
    <3> QED BY <2>1, <2>10, <3>1, <3>2 DEF Deed, InHome, Imported, At
  <2>12. CASE q.op # "workspace-create"
    <3>1. n = NoJob
      BY <1>1, <1>4, <2>12, RegistersAs DEF Types
    <3> QED BY <2>1, <2>10, <3>1, IdleType
  <2> QED BY <2>11, <2>12
<1>5. CASE Found(c)
  <2>1. /\ j.at = "found" /\ n = NoJob
        /\ local' = local /\ man' = [man EXCEPT ![q.v] = FoundManifest(q)]
        /\ dirs' = dirs /\ declared' = declared /\ backup' = backup
    BY <1>1, <1>5 DEF Found, At, Done
  <2>2. IsRequest(q) /\ q.op = "workspace-create"
    BY <1>1, <2>1 DEF JobOK, Placed
  <2>3. FoundManifest(q) \in Manifest
    BY <2>2, EmptyIn DEF IsRequest, Or, FoundManifest, NewManifest, Manifest
  <2>4. FilesOK'
    BY <1>1, <2>1, <2>3 DEF FilesOK
  <2> QED BY <2>1, <2>4, IdleType
<1>6. CASE SetUp(c)
  <2> DEFINE id == IF man[q.v].id = None THEN q.w ELSE man[q.v].id
             P == IF id \in Registered THEN man[PathOf(id)].projects ELSE Empty
             first == [NewManifest(id) EXCEPT !.projects = P]
  <2>1. /\ j.at = "setup" /\ n.at = IF man[q.v].id = None THEN "attach" ELSE "register"
        /\ n.req = [q EXCEPT !.w = id] /\ n.next = first /\ DOMAIN n = JobFields /\ UNCHANGED files /\ MaySetUp(q)
    BY <1>1, <1>6 DEF SetUp, At_May, At, May, Reach, JobFields
  <2>2. IsRequest(q) /\ q.op = "setup"
    BY <1>1, <2>1 DEF JobOK, Placed
  <2>3. q.v \in Vaults
    BY <2>2 DEF IsRequest, Or
  <2>4. id \in Workspaces /\ id # None
    <3>1. man[q.v].id \in Or(Workspaces) /\ q.w \in Or(Workspaces)
      BY <1>2, <2>2, <2>3, ManifestParts DEF IsRequest
    <3> QED BY Zenon, <3>1, <2>1, NoneAssumption DEF MaySetUp, Or
  <2>5. P \in Partial(Projects, ManifestProject)
    <3>1. id \in Registered => man[PathOf(id)] \in Manifest
      BY <1>1, <1>2, ListedType
    <3> QED BY <3>1, EmptyIn DEF Manifest
  <2>6. first \in Manifest
    BY Zenon, <2>4, <2>5 DEF NewManifest, Manifest, Or
  <2> HIDE DEF id, first
  <2>7. IsRequest(n.req) /\ n.req.op = "setup" /\ n.req.w = id
    BY <2>1, <2>2, <2>4 DEF IsRequest, Or
  <2>8. JobOK(n)
    BY <2>1, <2>4, <2>6, <2>7 DEF JobOK, Placed, Furnished, ProjectOps, DomainOps
  <2> QED BY <2>1, <2>8, GoesOn DEF InHome
<1>7. CASE Attach(c)
  <2>1. /\ j.at = "attach" /\ n.at = "register" /\ n.req = q /\ DOMAIN n = JobFields
        /\ local' = local /\ man' = [man EXCEPT ![q.v] = j.next]
        /\ dirs' = dirs /\ declared' = declared /\ backup' = backup
    <3>1. n = [j EXCEPT !.at = "register"]
      BY <1>7, AttachesAs DEF Types
    <3> QED BY <1>1, <1>7, <3>1 DEF Attach, At, JobFields
  <2>2. IsRequest(q) /\ q.op = "setup" /\ q.w # None /\ j.next \in Manifest
    BY <1>1, <2>1 DEF JobOK, Placed, Furnished
  <2>3. FilesOK'
    BY <1>1, <2>1, <2>2 DEF FilesOK
  <2>4. JobOK(n)
    BY <2>1, <2>2 DEF JobOK, Placed, Furnished, ProjectOps, DomainOps
  <2> QED BY <2>1, <2>3, <2>4 DEF Deed, InHome, Imported, At
<1>8. CASE SetDefault(c)
  <2>1. /\ j.at = "default" /\ n = NoJob /\ HomeFree /\ q.w \in Registered
        /\ local' = [local EXCEPT !.default = q.w]
        /\ man' = man /\ dirs' = dirs /\ declared' = declared /\ backup' = backup
    BY <1>1, <1>8 DEF SetDefault, At_May, At, May, Done
  <2>2. local' \in WorkspaceRegistry
    <3>1. local \in [ws : Partial(Workspaces, WorkspaceEntry), default : Or(Workspaces)] /\ DOMAIN local.ws \subseteq Workspaces
      BY <1>2, RegistryParts DEF WorkspaceRegistry
    <3> QED BY <2>1, <3>1 DEF WorkspaceRegistry, Registered, Or
  <2>3. FilesOK'
    BY <1>1, <2>1, <2>2 DEF FilesOK
  <2> QED BY <2>1, <2>3, IdleType
<1> QED BY <1>3, <1>4, <1>5, <1>6, <1>7, <1>8, <1>10

LEMMA TransferType ==
  ASSUME Types, NEW c \in Procs, Export(c) \/ ExportProjects(c) \/ Import(c) \/ ImportProjects(c) \/ ImportFails(c)
  PROVE  Deed(c)
<1> DEFINE j == job[c]
           q == job[c].req
           n == job'[c]
           O == Overtaking(Everywhere)
<1>1. JobOK(j) /\ FilesOK /\ DOMAIN j = JobFields /\ DOMAIN job = Procs /\ Shapes
  BY DEF Types, Shapes
<1>2. local \in WorkspaceRegistry /\ man \in [Vaults -> Manifest]
  BY <1>1 DEF FilesOK
<1>3. /\ DOMAIN O = Procs /\ DOMAIN O[c] = JobFields /\ O[c].at = j.at /\ O[c].req = q
      /\ O[c].entry = j.entry /\ O[c].next = j.next /\ O[c].seen = j.seen
  BY <1>1, Overtakes
<1> HIDE DEF O
<1>4. CASE Export(c)
  <2>1. j.at = "export" /\ n.at = "export-projects" /\ n.req = q /\ n.next = local /\ DOMAIN n = JobFields /\ UNCHANGED files
    BY <1>1, <1>4 DEF Export, At, Reach, JobFields
  <2>2. JobOK(n)
    BY <1>1, <1>2, <2>1 DEF JobOK, Placed, Furnished
  <2> QED BY <2>1, <2>2, GoesOn DEF InHome
<1>5. CASE ExportProjects(c)
  <2>1. /\ j.at = "export-projects" /\ n = NoJob /\ local' = local /\ man' = man /\ dirs' = dirs /\ declared' = declared
        /\ backup' = [reg |-> j.next, entries |-> [w \in Registered |-> Listed(w)]]
    BY <1>1, <1>5 DEF ExportProjects, At_May, At, Done
  <2>2. j.next \in WorkspaceRegistry
    BY <1>1, <2>1 DEF JobOK, Furnished
  <2>3. IsBackup(backup')
    BY <1>1, <2>1, <2>2, ListedType DEF IsBackup
  <2>4. FilesOK'
    BY <1>1, <2>1, <2>3 DEF FilesOK
  <2> QED BY <2>1, <2>4, IdleType
<1>6. CASE Import(c)
  <2>1. /\ j.at = "replace" /\ HomeFree /\ Importable /\ local' = backup.reg
        /\ man' = man /\ dirs' = dirs /\ declared' = declared /\ backup' = backup
    BY <1>6 DEF Import, At_May, At, May
  <2>2. IsBackup(backup)
    BY <1>1, <2>1 DEF FilesOK, Importable
  <2>3. FilesOK'
    BY <1>1, <2>1, <2>2 DEF FilesOK, IsBackup
  <2>4. CASE DOMAIN backup.reg.ws = {}
    <3>1. job' = [O EXCEPT ![c] = NoJob]
      BY <1>6, <2>4 DEF Import, Finished, O
    <3>2. n = NoJob
      BY <1>3, <3>1
    <3> QED BY <2>1, <2>3, <3>2, IdleType
  <2>5. CASE DOMAIN backup.reg.ws # {}
    <3>1. job' = [O EXCEPT ![c].at = "import", ![c].entry = backup, ![c].next = DOMAIN backup.reg.ws,
                           ![c].seen = [local |-> local, man |-> man]]
      BY <1>6, <2>5 DEF Import, O
    <3>2. /\ n.at = "import" /\ n.req = q /\ n.entry = backup /\ n.next = DOMAIN backup.reg.ws
          /\ n.seen = [local |-> local, man |-> man] /\ DOMAIN n = JobFields
      BY <1>3, <3>1 DEF JobFields
    <3>3. JobOK(n)
      BY <1>1, <1>2, <2>1, <2>2, <3>2 DEF JobOK, Placed, Furnished
    <3>4. Imported(c)'
      BY <2>1, <3>2 DEF Imported, Registered, PathOf
    <3> QED BY <2>1, <2>3, <3>2, <3>3, <3>4 DEF Deed
  <2> QED BY <2>4, <2>5
<1>7. CASE ImportProjects(c)
  <2>1. PICK w \in j.next :
          LET v == PathOf(w) IN
          /\ man' = [man EXCEPT ![v] = ManifestFor(@, Entries(c, w))]
          /\ local' = [local EXCEPT !.ws[w].binds = BindsFor(@, Entries(c, w))]
          /\ IF j.next = {w} THEN Finished(c, local', man')
             ELSE acked' = acked /\ job' = [Overtaking(Everywhere) EXCEPT ![c].next = @ \ {w}]
          /\ UNCHANGED <<dirs, declared, backup>>
    BY <1>7 DEF ImportProjects
  <2>2. j.at = "import"
    BY <1>7 DEF ImportProjects, At
  <2>3. IsBackup(j.entry) /\ j.next \subseteq DOMAIN j.entry.reg.ws
        /\ j.seen.local \in WorkspaceRegistry /\ j.seen.man \in [Vaults -> Manifest]
    BY <1>1, <2>2 DEF JobOK, Furnished
  <2>4. Registered = DOMAIN j.entry.reg.ws /\ \A x \in Registered : PathOf(x) = j.entry.reg.ws[x].path
    BY <2>2 DEF Types, Imported, At
  <2>5. w \in Registered /\ w \in DOMAIN local.ws
    BY <2>1, <2>3, <2>4 DEF Registered
  <2>6. PathOf(w) \in Vaults
    BY <1>1, <2>5, ListedType
  <2>7. Entries(c, w) \in ProjectEntries
    BY <2>3, EmptyIn DEF Entries, IsBackup, ProjectEntries
  <2>8. man' \in [Vaults -> Manifest]
    <3>1. ManifestFor(man[PathOf(w)], Entries(c, w)) \in Manifest
      BY <1>2, <2>6, <2>7, ManifestForType
    <3> QED BY <1>2, <2>1, <3>1
  <2>9. local' \in WorkspaceRegistry /\ SamePlaces(local, local')
    <3>1. local.ws[w].binds \in Partial(Projects \X Repos, Dirs)
      BY <1>2, <2>5, RegistryParts
    <3> DEFINE b == BindsFor(local.ws[w].binds, Entries(c, w))
    <3>2. b \in Partial(Projects \X Repos, Dirs)
      BY <2>7, <3>1, BindsForType
    <3>3. local' = [local EXCEPT !.ws[w].binds = b]
      BY <2>1
    <3> HIDE DEF b
    <3>4. /\ [local EXCEPT !.ws[w].binds = b] \in WorkspaceRegistry
          /\ SamePlaces(local, [local EXCEPT !.ws[w].binds = b])
      BY <1>2, <2>5, <3>2, BindsSet DEF SamePlaces
    <3> QED BY <3>3, <3>4
  <2>10. FilesOK'
    BY <1>1, <2>1, <2>8, <2>9 DEF FilesOK
  <2>11. CASE j.next = {w}
    <3>1. job' = [O EXCEPT ![c] = NoJob]
      BY <2>1, <2>11 DEF Finished, O
    <3>2. n = NoJob
      BY <1>3, <3>1
    <3> QED BY <2>2, <2>10, <3>2, IdleType DEF InHome
  <2>12. CASE j.next # {w}
    <3>1. job' = [O EXCEPT ![c].next = @ \ {w}]
      BY <2>1, <2>12 DEF O
    <3>2. /\ n.at = "import" /\ n.req = q /\ n.entry = j.entry /\ n.next = j.next \ {w} /\ n.seen = j.seen
          /\ DOMAIN n = JobFields
      BY <1>3, <2>2, <3>1 DEF JobFields
    <3>3. JobOK(n)
      BY <1>1, <2>2, <2>3, <3>2 DEF JobOK, Placed, Furnished
    <3>4. Imported(c)'
      BY <2>4, <2>9, <3>2 DEF Imported, Registered, PathOf, SamePlaces
    <3> QED BY <2>2, <2>10, <3>2, <3>3, <3>4 DEF Deed, InHome
  <2> QED BY <2>11, <2>12
<1>8. CASE ImportFails(c)
  <2>1. j.at = "import"
    BY <1>8 DEF ImportFails, At
  <2>2. j.seen.local \in WorkspaceRegistry /\ j.seen.man \in [Vaults -> Manifest]
    BY <1>1, <2>1 DEF JobOK, Furnished
  <2>3. job' = [O EXCEPT ![c] = NoJob] /\ local' = j.seen.local /\ dirs' = dirs /\ declared' = declared /\ backup' = backup
    BY <1>8 DEF ImportFails, O
  <2>4. man' \in [Vaults -> Manifest]
    BY <1>2, <2>2, <1>8 DEF ImportFails
  <2>5. FilesOK'
    BY <1>1, <2>2, <2>3, <2>4 DEF FilesOK
  <2>6. n = NoJob
    BY <1>3, <2>3
  <2> QED BY <2>1, <2>5, <2>6, IdleType DEF InHome
<1> QED BY <1>4, <1>5, <1>6, <1>7, <1>8

LEMMA OwnType ==
  ASSUME FilesOK, NEW w PROVE Own(w) \in Partial(Projects, ManifestProject)
<1>1. w \in Registered => man[PathOf(w)] \in Manifest
  BY ListedType DEF FilesOK
<1> QED BY <1>1, EmptyIn DEF Own, Manifest

LEMMA ReboundType ==
  ASSUME FilesOK, NEW q, IsRequest(q), q.v \in Vaults, q.op \in DomainOps
  PROVE  /\ Rebound(q) \in Manifest /\ Rebound(q).id = man[q.v].id
         /\ DOMAIN Rebound(q).projects = DOMAIN Own(q.w)
         /\ \A p \in DOMAIN Own(q.w) :
              /\ Rebound(q).projects[p].domain = IF p \in Affected(q) THEN q.e ELSE Own(q.w)[p].domain
              /\ Rebound(q).projects[p].status = Own(q.w)[p].status
<1> DEFINE P == [p \in DOMAIN Own(q.w) |->
                   IF p \in Affected(q) THEN [Own(q.w)[p] EXCEPT !.domain = q.e] ELSE Own(q.w)[p]]
<1>1. Own(q.w) \in Partial(Projects, ManifestProject)
  BY OwnType
<1>2. \A p \in DOMAIN Own(q.w) : p \in Projects /\ Own(q.w)[p] \in ManifestProject
  BY <1>1, PartialValue
<1>3. Affected(q) # {} => q.e \in Domains
  BY DEF Affected, IsRequest, Or, DomainOps
<1>4. ASSUME NEW p \in DOMAIN Own(q.w)
      PROVE  /\ P[p] \in ManifestProject
             /\ P[p].domain = IF p \in Affected(q) THEN q.e ELSE Own(q.w)[p].domain
             /\ P[p].status = Own(q.w)[p].status
  BY <1>2, <1>3 DEF ManifestProject
<1>5. P \in Partial(Projects, ManifestProject)
  BY <1>2, <1>4, PartialType
<1>6. man[q.v] \in Manifest
  BY DEF FilesOK
<1>7. man[q.v] = [id |-> man[q.v].id, projects |-> man[q.v].projects] /\ man[q.v].id \in Or(Workspaces)
  BY <1>6, ManifestParts
<1>8. Rebound(q) = [id |-> man[q.v].id, projects |-> P]
  BY <1>7 DEF Rebound
<1>9. DOMAIN P = DOMAIN Own(q.w)
  OBVIOUS
<1> HIDE DEF P
<1> QED BY <1>4, <1>5, <1>7, <1>8, <1>9 DEF Manifest

LEMMA DomainType ==
  ASSUME Types, NEW c \in Procs, DomainStep(c) PROVE Deed(c)
<1> DEFINE j == job[c]
           q == job[c].req
           n == job'[c]
<1>1. JobOK(j) /\ FilesOK /\ DOMAIN j = JobFields /\ DOMAIN job = Procs /\ Shapes
  BY DEF Types, Shapes
<1>2. j.at \in {"plan", "hash", "commit", "apply"}
  BY DEF DomainStep, Plan, Hash, Commit, Apply, At_May, At
<1>3. IsRequest(q) /\ q.op \in DomainOps /\ q.w # None /\ q.v # None /\ q.v \in Vaults
  BY <1>1, <1>2 DEF JobOK, Placed, IsRequest, Or
<1>4. CASE Plan(c)
  <2>1. /\ j.at = "plan" /\ n.at \in {"hash", "commit"} /\ n.req = q /\ DOMAIN n = JobFields /\ UNCHANGED files
        /\ n.next = IF WritesManifest(q) THEN Rebound(q) ELSE None
        /\ n.seen = [man |-> man[q.v], declared |-> declared[q.v]]
    BY <1>1, <1>4 DEF Plan, At_May, At, Reach, JobFields
  <2>2. n.next \in Or(Manifest)
    BY <1>1, <1>3, <2>1, ReboundType DEF Or
  <2>3. q.op = "delete" => ~WritesManifest(q)
    BY DEF WritesManifest, Affected
  <2>4. JobOK(n)
    BY <1>3, <2>1, <2>2, <2>3 DEF JobOK, Placed, Furnished
  <2> QED BY <2>1, <2>4, GoesOn DEF InHome
<1>5. CASE Hash(c) \/ Commit(c)
  <2>1. /\ j.at \in {"hash", "commit"} /\ n.at \in {"commit", "apply"} /\ n.req = q /\ n.next = j.next
        /\ DOMAIN n = JobFields /\ UNCHANGED files
        /\ n.seen = j.seen \/ n.seen = [j.seen EXCEPT !.man = man[q.v]]
    BY <1>1, <1>5 DEF Hash, Commit, At_May, At, Reach, Go, JobFields
  <2>2. JobOK(n)
    BY <1>1, <1>3, <2>1 DEF JobOK, Placed, Furnished
  <2> QED BY <2>1, <2>2, GoesOn DEF InHome
<1>6. CASE Apply(c)
  <2>1. /\ n = NoJob /\ local' = local /\ dirs' = dirs /\ backup' = backup /\ j.at = "apply"
        /\ declared' = [declared EXCEPT ![q.v] = Redeclared(q)]
        /\ man' = man \/ (j.next # None /\ man' = [man EXCEPT ![q.v] = j.next])
    BY <1>1, <1>6 DEF Apply, At
  <2>2. j.next \in Or(Manifest)
    BY <1>1, <2>1 DEF JobOK, Furnished
  <2>3. Redeclared(q) \subseteq Domains
    BY <1>1, <1>3 DEF Redeclared, FilesOK, IsRequest, Or, DomainOps
  <2>4. FilesOK'
    BY <1>1, <1>3, <2>1, <2>2, <2>3 DEF FilesOK, Or
  <2> QED BY <2>1, <2>4, IdleType
<1> QED BY <1>4, <1>5, <1>6 DEF DomainStep

LEMMA EndType ==
  ASSUME Types, NEW c \in Procs, Refuse(c) \/ Kill(c) PROVE Deed(c)
<1> DEFINE q == job[c].req
<1>1. JobOK(job[c]) /\ FilesOK /\ job'[c] = NoJob
  BY DEF Types, Shapes, Refuse, Kill, Done
<1>2. CASE Refuse(c)
  BY <1>1, <1>2, IdleType DEF Refuse, files, FilesOK
<1>3. CASE Kill(c)
  <2>1. local' = local /\ man' = man /\ dirs' = dirs /\ backup' = backup
        /\ (declared' = declared \/ (At(c, "apply") /\ declared' = [declared EXCEPT ![q.v] = Redeclared(q)]))
    BY <1>3 DEF Kill
  <2>2. At(c, "apply") => IsRequest(q) /\ q.op \in DomainOps /\ q.v \in Vaults
    BY <1>1 DEF JobOK, Placed, IsRequest, Or, At
  <2>3. At(c, "apply") => Redeclared(q) \subseteq Domains
    BY <1>1, <2>2 DEF Redeclared, FilesOK, IsRequest, Or, DomainOps
  <2>4. FilesOK'
    BY <1>1, <2>1, <2>2, <2>3 DEF FilesOK
  <2> QED BY <1>1, <2>1, <2>4, IdleType
<1> QED BY <1>2, <1>3

LEMMA TypeInit == Init => Types
<1> SUFFICES ASSUME Init PROVE Types
  OBVIOUS
<1>1. PICK s \in Starts : local = s.local /\ man = s.man /\ dirs = s.dirs /\ declared = s.declared
  BY DEF Init
<1>2. FilesOK
  BY <1>1, StartsAssumption DEF Init, FilesOK, IsStart
<1>3. job = [c \in Procs |-> NoJob]
  BY DEF Init
<1> QED BY <1>2, <1>3 DEF Types, Shapes, NoJob, JobFields, Alone, InHome, JobOK, Imported, At

LEMMA Deeds ==
  ASSUME Types, NEW c \in Procs, Acts(c) PROVE Deed(c)
<1> QED BY StartType, SaveType, WriteType, SetUpType, TransferType, DomainType, EndType
        DEF Acts, ProjectStep, WorkspaceStep

LEMMA TypeStep ==
  ASSUME Types, NEW c \in Procs, Acts(c) PROVE Types'
<1> QED BY Deeds, Others, Combined

LEMMA TypeStays == Types /\ [Next]_vars => Types'
<1>1. ASSUME Types, UNCHANGED vars PROVE Types'
  BY <1>1 DEF vars, files, Types, Shapes, FilesOK, Alone, Imported, Registered, PathOf, At
<1> QED BY <1>1, TypeStep DEF Next, Acts

LEMMA Typed == Spec => []Types
BY TypeInit, TypeStays, PTL DEF Spec

(* Whatever the commands do and wherever they are killed, the files are    *)
(* ones that the program can read, and only one process is in a section of *)
(* the lock of CAMPFIRE_HOME (workspace_write_lock).                       *)
THEOREM TypeCorrect == Spec => []TypeOK
<1>1. Types => TypeOK
  BY DEF Types, FilesOK, Alone, TypeOK, IsBackup
<1> QED BY <1>1, Typed, PTL
----------------------------------------------------------------------------
(* What stays as long as no Manifest is written in a window nobody checks. *)
(* A registry is readable if every Workspace in it finds its own Manifest; *)
(* that goes for local.yaml and for every copy that may replace it.  And   *)
(* what a process relies on is still in the Manifest.                      *)
Readable(l, m, jobs, killed) == \A w \in DOMAIN l.ws :
  \/ m[l.ws[w].path].id = w \/ w \in killed
  \/ \E b \in Procs : jobs[b].at = "found" /\ jobs[b].req.w = w /\ jobs[b].req.v = l.ws[w].path
CanRead(l) == Readable(l, man, job, broken)

Besides(m, n, p) == \A o \in Projects \ {p} :
  /\ o \in DOMAIN m.projects <=> o \in DOMAIN n.projects
  /\ o \in DOMAIN m.projects => /\ n.projects[o].domain = m.projects[o].domain
                                /\ n.projects[o].status = m.projects[o].status

Marked(b) ==
  LET j == job[b]
      v == j.req.v
  IN
  /\ j.at = "register" /\ j.req.op = "setup" => man[v].id = j.req.w
  /\ j.at = "attach" => man[v].id = None /\ j.next.id = j.req.w /\ v \in dirs
  /\ j.at \in {"scaffold", "register", "found"} /\ j.req.op = "workspace-create" => man[v].id = None
  /\ j.at \in {"register", "found"} /\ j.req.op = "workspace-create" => v \in dirs
  /\ j.at = "manifest" => man[v] = j.next.was
  /\ j.at = "local" => j.rewritten \/ man[v] = j.next.man
  /\ j.at \in {"manifest", "local"} =>
       /\ man[v].id = j.req.w /\ j.next.was.id = j.req.w /\ j.next.man.id = j.req.w
       /\ Besides(j.next.was, j.next.man, j.req.p) /\ SamePlaces(local, j.next.local)
  /\ j.at \in {"hash", "apply"} /\ j.next # None => j.seen.man = man[v]
  /\ j.at \in {"hash", "commit", "apply"} /\ j.next # None => j.next.id = j.seen.man.id
  /\ j.at = "import" => \A x \in Vaults : j.seen.man[x].id = man[x].id
Copies(b) ==
  /\ At(b, "import") => CanRead(job[b].entry.reg) /\ CanRead(job[b].seen.local)
  /\ At(b, "export-projects") => CanRead(job[b].next)

Kept ==
  /\ CanRead(local) /\ (backup # None => CanRead(backup.reg))
  /\ \A v \in Vaults : man[v].id # None => v \in dirs
  /\ \A b \in Procs : Marked(b) /\ Copies(b)

(* What a process has with it where it has just come to.                   *)
CameWith(c) ==
  LET j == job[c]
      n == job'[c]
  IN
  /\ n.at = "manifest" => /\ Enter(c) /\ n.req = Current(j.req) /\ n.entry = j.entry
                          /\ n.next = Saved(j.req.w, j.req.p, j.entry)
  /\ n.at = "local" => WriteManifest(c) /\ n.req = j.req /\ n.entry = j.entry /\ n.next = j.next
  /\ n.at = "scaffold" => Vacant(c) /\ n.req = j.req
  /\ n.at = "register" => \/ (Scaffold(c) \/ Attach(c)) /\ n.req = j.req
                          \/ SetUp(c) /\ n.req.v = j.req.v /\ n.req.op = j.req.op /\ n.req.w = man[j.req.v].id
  /\ n.at = "found" => Register(c) /\ n.req = j.req
  /\ n.at = "attach" => /\ SetUp(c) /\ n.req.v = j.req.v /\ n.req.op = j.req.op /\ n.req.w = j.req.w
                        /\ man[j.req.v].id = None /\ n.next.id = j.req.w
  /\ n.at = "import" =>
       /\ acked' = acked
       /\ \/ ImportProjects(c) /\ n.entry = j.entry /\ n.seen = j.seen
          \/ Import(c) /\ n.entry = backup /\ n.seen = [local |-> local, man |-> man]
  /\ n.at = "export-projects" => Export(c) /\ n.next = local
  /\ n.at \in {"hash", "commit", "apply"} =>
       /\ n.req = j.req
       /\ \/ /\ Plan(c) /\ n.next = IF WritesManifest(j.req) THEN Rebound(j.req) ELSE None
             /\ n.seen = [man |-> man[j.req.v], declared |-> declared[j.req.v]]
          \/ Hash(c) /\ n.next = j.next /\ n.seen.man = man[j.req.v]
          \/ Commit(c) /\ n.next = j.next /\ n.seen = j.seen

LEMMA Arrival == ASSUME Types, NEW c \in Procs, Acts(c) PROVE CameWith(c)
<1> DEFINE j == job[c]
           n == job'[c]
           Elsewhere == {"idle", "show", "read", "preview", "change", "check", "domain", "enter", "plan",
                       "vacant", "setup", "default", "export", "replace"}
<1>1. FilesOK /\ JobOK(j) /\ DOMAIN j = JobFields /\ DOMAIN job = Procs /\ Shapes
  BY DEF Types, Shapes
<1>2. n.at \in Elsewhere => CameWith(c)
  BY DEF CameWith
<1> HIDE DEF Elsewhere
<1>3. CASE (\E r \in Requests : Start(c, r)) \/ Refuse(c) \/ Kill(c)
  <2>1. CASE \E r \in Requests : Start(c, r)
    <3>1. PICK r \in Requests : Start(c, r)
      BY <2>1
    <3>2. n.at = FirstPlace(r.op) /\ r.op \in Ops
      BY <1>1, <3>1, RequestsAssumption DEF Start, NoJob, IsRequest
    <3> QED BY <1>2, <3>2 DEF FirstPlace, Ops, ProjectOps, DomainOps, Elsewhere
  <2>2. CASE Refuse(c) \/ Kill(c)
    BY <1>1, <1>2, <2>2 DEF Refuse, Kill, Done, NoJob, Elsewhere
  <2> QED BY <1>3, <2>1, <2>2
<1>4. CASE ProjectStep(c)
  <2>1. CASE Show(c) \/ Read(c) \/ Preview(c) \/ Change(c) \/ Check(c) \/ Declare(c)
    <3>1. n.at \in {"read", "enter", "change", "domain"}
      <4>1. CASE Show(c) \/ Read(c) \/ Preview(c)
        BY <1>1, <4>1 DEF Show, Read, Preview, Reach, JobFields
      <4>2. CASE Change(c) \/ Check(c) \/ Declare(c)
        BY <1>1, <4>2 DEF Change, Check, Declare, Reach, Go, JobFields
      <4> QED BY <2>1, <4>1, <4>2
    <3> QED BY <1>2, <3>1 DEF Elsewhere
  <2>2. CASE Enter(c)
    <3>1. /\ n.at = "manifest" /\ n.req = Current(j.req) /\ n.entry = j.entry
          /\ n.next = Saved(j.req.w, j.req.p, j.entry)
      BY <1>1, <2>2 DEF Enter, Reach, JobFields
    <3> QED BY <2>2, <3>1 DEF CameWith
  <2>3. CASE WriteManifest(c)
    <3> DEFINE O == Overtaking({Key(c)})
    <3>1. DOMAIN O = Procs /\ DOMAIN O[c] = JobFields /\ O[c].req = j.req /\ O[c].next = j.next /\ O[c].entry = j.entry
      BY <1>1, Overtakes
    <3>2. job' = [O EXCEPT ![c].at = "local"]
      BY <2>3 DEF WriteManifest
    <3> HIDE DEF O
    <3>3. n.at = "local" /\ n.req = j.req /\ n.next = j.next /\ n.entry = j.entry
      BY <3>1, <3>2 DEF JobFields
    <3> QED BY <2>3, <3>3 DEF CameWith
  <2>4. CASE WriteLocal(c) \/ LocalFails(c)
    <3> DEFINE O == Overtaking({Key(c)})
    <3>1. DOMAIN O = Procs
      BY <1>1, Overtakes
    <3>2. job' = [O EXCEPT ![c] = NoJob]
      BY <2>4 DEF WriteLocal, LocalFails
    <3> HIDE DEF O
    <3>3. n = NoJob
      BY <3>1, <3>2
    <3> QED BY <1>2, <3>3 DEF NoJob, Elsewhere
  <2> QED BY <1>4, <2>1, <2>2, <2>3, <2>4 DEF ProjectStep
<1>5. CASE WorkspaceStep(c)
  <2>1. CASE Scaffold(c) \/ Attach(c)
    <3>1. n = [j EXCEPT !.at = "register"]
      BY <1>1, <2>1, AttachesAs DEF Scaffold, Go
    <3>2. n.at = "register" /\ n.req = j.req
      BY <1>1, <3>1 DEF JobFields
    <3> QED BY <2>1, <3>2 DEF CameWith
  <2>9. CASE Vacant(c)
    <3>1. n = [j EXCEPT !.at = "scaffold"]
      BY <1>1, <2>9 DEF Vacant, Go
    <3>2. n.at = "scaffold" /\ n.req = j.req
      BY <1>1, <3>1 DEF JobFields
    <3> QED BY <2>9, <3>2 DEF CameWith
  <2>6. CASE Register(c)
    <3>1. n = NoJob \/ (n.at = "found" /\ n.req = j.req)
      BY <1>1, <2>6, RegistersAs DEF JobFields
    <3> QED BY <1>2, <2>6, <3>1 DEF NoJob, Elsewhere, CameWith
  <2>7. CASE SetUp(c)
    <3> DEFINE v == j.req.v
               id == IF man[v].id = None THEN j.req.w ELSE man[v].id
               P == IF id \in Registered THEN man[PathOf(id)].projects ELSE Empty
    <3>1. /\ n.at = IF man[v].id = None THEN "attach" ELSE "register"
          /\ n.req = [j.req EXCEPT !.w = id] /\ n.next = [NewManifest(id) EXCEPT !.projects = P]
      BY <1>1, <2>7 DEF SetUp, Reach, JobFields
    <3>2. IsRequest(j.req)
      BY <1>1, <2>7 DEF SetUp, At_May, At, JobOK
    <3>3. n.req.w = id /\ n.req.v = v /\ n.req.op = j.req.op
      BY Zenon, <3>1, <3>2 DEF IsRequest
    <3>4. n.next.id = id
      BY <3>1 DEF NewManifest
    <3> HIDE DEF P
    <3> QED BY Zenon, <2>7, <3>1, <3>3, <3>4 DEF CameWith
  <2>8. CASE Found(c) \/ SetDefault(c) \/ ExportProjects(c)
    <3>1. n = NoJob
      BY <1>1, <2>8 DEF Found, SetDefault, ExportProjects, Done
    <3> QED BY <1>2, <3>1 DEF NoJob, Elsewhere
  <2>2. CASE Export(c)
    <3>1. n.at = "export-projects" /\ n.next = local
      BY <1>1, <2>2 DEF Export, Reach, JobFields
    <3> QED BY <2>2, <3>1 DEF CameWith
  <2>3. CASE Import(c)
    <3> DEFINE O == Overtaking(Everywhere)
    <3>1. DOMAIN O = Procs /\ DOMAIN O[c] = JobFields
      BY <1>1, Overtakes
    <3>2. CASE DOMAIN backup.reg.ws = {}
      <4>1. job' = [O EXCEPT ![c] = NoJob]
        BY <2>3, <3>2 DEF Import, Finished
      <4> HIDE DEF O
      <4>2. n = NoJob
        BY <3>1, <4>1
      <4> QED BY <1>2, <4>2 DEF NoJob, Elsewhere
    <3>3. CASE DOMAIN backup.reg.ws # {}
      <4>1. acked' = acked
            /\ job' = [O EXCEPT ![c].at = "import", ![c].entry = backup, ![c].next = DOMAIN backup.reg.ws,
                                ![c].seen = [local |-> local, man |-> man]]
        BY <2>3, <3>3 DEF Import
      <4> HIDE DEF O
      <4>2. n.at = "import" /\ n.entry = backup /\ n.seen = [local |-> local, man |-> man]
        BY <3>1, <4>1 DEF JobFields
      <4> QED BY <2>3, <4>1, <4>2 DEF CameWith
    <3> QED BY <3>2, <3>3
  <2>4. CASE ImportProjects(c)
    <3> DEFINE O == Overtaking(Everywhere)
    <3>0. j.at = "import"
      BY <2>4 DEF ImportProjects, At
    <3>1. DOMAIN O = Procs /\ DOMAIN O[c] = JobFields /\ O[c].entry = j.entry /\ O[c].seen = j.seen /\ O[c].at = "import"
      BY <1>1, <3>0, Overtakes
    <3>2. job' = [O EXCEPT ![c] = NoJob] \/ (acked' = acked /\ \E w : job' = [O EXCEPT ![c].next = @ \ {w}])
      BY <2>4 DEF ImportProjects, Finished
    <3> HIDE DEF O
    <3>3. n = NoJob \/ (n.at = "import" /\ n.entry = j.entry /\ n.seen = j.seen /\ acked' = acked)
      <4>1. CASE job' = [O EXCEPT ![c] = NoJob]
        BY <3>1, <4>1
      <4>2. ASSUME NEW w, job' = [O EXCEPT ![c].next = @ \ {w}] PROVE n.at = "import" /\ n.entry = j.entry /\ n.seen = j.seen
        BY <3>1, <4>2 DEF JobFields
      <4> QED BY <3>2, <4>1, <4>2
    <3> QED BY <1>2, <2>4, <3>3 DEF NoJob, Elsewhere, CameWith
  <2>5. CASE ImportFails(c)
    <3> DEFINE O == Overtaking(Everywhere)
    <3>1. DOMAIN O = Procs /\ job' = [O EXCEPT ![c] = NoJob]
      BY <1>1, <2>5, Overtakes DEF ImportFails
    <3> HIDE DEF O
    <3>2. n = NoJob
      BY <3>1
    <3> QED BY <1>2, <3>2 DEF NoJob, Elsewhere
  <2> QED BY <1>5, <2>1, <2>2, <2>3, <2>4, <2>5, <2>6, <2>7, <2>8, <2>9 DEF WorkspaceStep
<1>6. CASE DomainStep(c)
  <2>1. CASE Plan(c)
    <3> DEFINE writes == WritesManifest(j.req)
               x == IF writes /\ j.req.op # "rekey" THEN "hash" ELSE "commit"
               r == IF writes THEN Rebound(j.req) ELSE None
               s == [man |-> man[j.req.v], declared |-> declared[j.req.v]]
    <3>1. job' = [job EXCEPT ![c] = [[j EXCEPT !.next = r, !.seen = s] EXCEPT !.at = x]]
      BY <2>1 DEF Plan, Reach
    <3> HIDE DEF r, s
    <3>2. n.at \in {"hash", "commit"} /\ n.req = j.req /\ n.next = r /\ n.seen = s
      BY <1>1, <3>1 DEF JobFields
    <3> QED BY <2>1, <3>2 DEF CameWith, r, s
  <2>2. CASE Hash(c)
    <3>1. At(c, "hash") /\ n.at = "commit" /\ n.req = j.req /\ n.next = j.next
          /\ n.seen = [j.seen EXCEPT !.man = man[j.req.v]]
      BY <1>1, <2>2 DEF Hash, Reach, JobFields
    <3>2. DOMAIN j.seen = {"man", "declared"}
      BY <3>1 DEF Types, JobOK, Furnished, At
    <3>3. n.seen.man = man[j.req.v]
      BY <3>1, <3>2
    <3> QED BY <2>2, <3>1, <3>3 DEF CameWith
  <2>3. CASE Commit(c)
    <3>1. n.at = "apply" /\ n.req = j.req /\ n.next = j.next /\ n.seen = j.seen
      BY <1>1, <2>3 DEF Commit, Go, JobFields
    <3> QED BY <2>3, <3>1 DEF CameWith
  <2>4. CASE Apply(c)
    <3>1. n = NoJob
      BY <2>4 DEF Apply
    <3> QED BY <1>2, <3>1 DEF NoJob, Elsewhere
  <2> QED BY <1>6, <2>1, <2>2, <2>3, <2>4 DEF DomainStep
<1> QED BY <1>3, <1>4, <1>5, <1>6 DEF Acts

(* A Manifest that a step writes is one on which nobody else relies.       *)
LEMMA Blindly ==
  ASSUME Types, NEW c \in Procs, Acts(c), ~crossed'
  PROVE  ~crossed /\ \A v \in Vaults : man'[v] = man[v] \/ ~WrittenBlindly(c, v)
<1> DEFINE q == job[c].req
<1>0. man \in [Vaults -> Manifest]
  BY DEF Types, FilesOK
<1>1. CASE (\E r \in Requests : Start(c, r)) \/ Refuse(c) \/ Kill(c)
  <2>1. man' = man /\ crossed' = crossed
    BY <1>1 DEF Start, Refuse, Kill, files, history
  <2> QED BY <2>1
<1>2. CASE ProjectStep(c)
  <2>1. CASE WriteManifest(c)
    BY <1>0, <2>1 DEF WriteManifest
  <2>2. CASE LocalFails(c)
    BY <1>0, <2>2 DEF LocalFails, PutBack
  <2>3. CASE ~WriteManifest(c) /\ ~LocalFails(c)
    BY <1>2, <2>3 DEF ProjectStep, Show, Read, Preview, Change, Check, Declare, Enter, WriteLocal, files, history
  <2> QED BY <2>1, <2>2, <2>3
<1>3. CASE WorkspaceStep(c)
  <2>1. CASE Found(c)
    BY <1>0, <2>1 DEF Found
  <2>2. CASE Attach(c)
    BY <1>0, <2>2 DEF Attach
  <2>3. CASE ImportProjects(c)
    <3>1. PICK w \in job[c].next :
            /\ man' = [man EXCEPT ![PathOf(w)] = ManifestFor(@, Entries(c, w))]
            /\ crossed' = (crossed \/ WrittenBlindly(c, PathOf(w)))
      BY <2>3 DEF ImportProjects
    <3> QED BY <1>0, <3>1
  <2>4. CASE ImportFails(c)
    BY <2>4 DEF ImportFails
  <2>5. CASE Vacant(c) \/ Scaffold(c) \/ Register(c) \/ SetUp(c) \/ SetDefault(c) \/ Export(c) \/ ExportProjects(c) \/ Import(c)
    <3>1. man' = man /\ crossed' = crossed
      <4>1. CASE Register(c)
        BY <4>1 DEF Register, history
      <4>2. CASE ~Register(c)
        BY <2>5, <4>2 DEF Vacant, Scaffold, SetUp, SetDefault, Export, ExportProjects, Import, files, history
      <4> QED BY <4>1, <4>2
    <3> QED BY <3>1
  <2> QED BY <1>3, <2>1, <2>2, <2>3, <2>4, <2>5 DEF WorkspaceStep
<1>4. CASE DomainStep(c)
  <2>1. CASE Apply(c)
    <3>1. CASE job[c].next = None
      BY <2>1, <3>1 DEF Apply
    <3>2. CASE job[c].next # None
      BY <1>0, <2>1, <3>2 DEF Apply
    <3> QED BY <3>1, <3>2
  <2>2. CASE Plan(c)
    <3>1. man' = man /\ (crossed => crossed')
      BY <2>2 DEF Plan, files
    <3> QED BY <3>1
  <2>3. CASE Hash(c) \/ Commit(c)
    BY <2>3 DEF Hash, Commit, files, history
  <2> QED BY <1>4, <2>1, <2>2, <2>3 DEF DomainStep
<1> QED BY <1>1, <1>2, <1>3, <1>4 DEF Acts

(* What a Manifest says about its Workspace changes only when it is made.  *)
Makes(c, v) ==
  /\ man[v].id = None /\ job[c].at \in {"found", "attach"} /\ v = job[c].req.v
  /\ man'[v].id = job[c].req.w /\ v \in dirs

LEMMA Identity ==
  ASSUME Types, Kept, NEW c \in Procs, Acts(c), ~crossed'
  PROVE  \A v \in Vaults : man'[v].id = man[v].id \/ Makes(c, v)
<1> DEFINE j == job[c]
           q == job[c].req
<1>0. man \in [Vaults -> Manifest] /\ Marked(c) /\ JobOK(j)
  BY DEF Types, FilesOK, Kept
<1>1. CASE (\E r \in Requests : Start(c, r)) \/ Refuse(c) \/ Kill(c)
  BY <1>1 DEF Start, Refuse, Kill, files
<1>2. CASE ProjectStep(c)
  <2>1. CASE WriteManifest(c)
    <3>1. j.at = "manifest" /\ (man' = man \/ man' = [man EXCEPT ![q.v] = j.next.man])
      BY <2>1 DEF WriteManifest, At
    <3> QED BY <1>0, <3>1 DEF Marked
  <2>2. CASE LocalFails(c)
    <3>1. j.at = "local" /\ (man' = man \/ man' = [man EXCEPT ![q.v] = j.next.was])
      BY <2>2 DEF LocalFails, PutBack, At
    <3> QED BY <1>0, <3>1 DEF Marked
  <2>3. CASE ~WriteManifest(c) /\ ~LocalFails(c)
    BY <1>2, <2>3 DEF ProjectStep, Show, Read, Preview, Change, Check, Declare, Enter, WriteLocal, files
  <2> QED BY <2>1, <2>2, <2>3
<1>3. CASE WorkspaceStep(c)
  <2>1. CASE Found(c)
    <3>1. j.at = "found" /\ man' = [man EXCEPT ![q.v] = NewManifest(q.w)]
      BY <2>1 DEF Found, FoundManifest, At
    <3>2. man[q.v].id = None /\ q.v \in dirs
      BY <1>0, <3>1 DEF Marked, JobOK, Placed
    <3> QED BY <1>0, <3>1, <3>2 DEF NewManifest, Makes
  <2>2. CASE Attach(c)
    <3>1. j.at = "attach" /\ man' = [man EXCEPT ![q.v] = j.next]
      BY <2>2 DEF Attach, At
    <3> QED BY <1>0, <3>1 DEF Marked, Makes
  <2>3. CASE ImportProjects(c)
    <3>1. PICK w \in j.next : man' = [man EXCEPT ![PathOf(w)] = ManifestFor(@, Entries(c, w))]
      BY <2>3 DEF ImportProjects
    <3>2. \A m : m.id = ManifestFor(m, Entries(c, w)).id \/ m \notin Manifest
      <4> SUFFICES ASSUME NEW m \in Manifest PROVE ManifestFor(m, Entries(c, w)).id = m.id
        OBVIOUS
      <4> QED BY ManifestParts DEF ManifestFor
    <3> QED BY <1>0, <3>1, <3>2
  <2>4. CASE ImportFails(c)
    <3>1. j.at = "import" /\ \A v \in Vaults : man'[v] \in {man[v], j.seen.man[v]}
      BY <2>4 DEF ImportFails, At
    <3> QED BY <1>0, <3>1 DEF Marked
  <2>5. CASE Vacant(c) \/ Scaffold(c) \/ Register(c) \/ SetUp(c) \/ SetDefault(c) \/ Export(c) \/ ExportProjects(c) \/ Import(c)
    BY <2>5 DEF Vacant, Scaffold, Register, SetUp, SetDefault, Export, ExportProjects, Import, files
  <2> QED BY <1>3, <2>1, <2>2, <2>3, <2>4, <2>5 DEF WorkspaceStep
<1>4. CASE DomainStep(c)
  <2>1. CASE Apply(c)
    <3>1. j.at = "apply" /\ (man' = man \/ (j.next # None /\ man' = [man EXCEPT ![q.v] = j.next]))
      BY <2>1 DEF Apply, At
    <3> QED BY <1>0, <3>1 DEF Marked
  <2>2. CASE Plan(c) \/ Hash(c) \/ Commit(c)
    BY <2>2 DEF Plan, Hash, Commit, files
  <2> QED BY <1>4, <2>1, <2>2 DEF DomainStep
<1> QED BY <1>1, <1>2, <1>3, <1>4 DEF Acts

LEMMA Directories == ASSUME NEW c \in Procs, Acts(c) PROVE dirs \subseteq dirs'
<1>1. CASE (\E r \in Requests : Start(c, r)) \/ Refuse(c) \/ Kill(c)
  BY <1>1 DEF Start, Refuse, Kill, files
<1>2. CASE ProjectStep(c)
  BY <1>2 DEF ProjectStep, Show, Read, Preview, Change, Check, Declare, Enter,
              WriteManifest, WriteLocal, LocalFails, files
<1>3. CASE WorkspaceStep(c)
  BY Zenon, <1>3 DEF WorkspaceStep, Vacant, Scaffold, Register, Found, SetUp, Attach, SetDefault,
              Export, ExportProjects, Import, ImportProjects, ImportFails, files
<1>4. CASE DomainStep(c)
  BY <1>4 DEF DomainStep, Plan, Hash, Commit, Apply, files
<1> QED BY <1>1, <1>2, <1>3, <1>4 DEF Acts

LEMMA InAVault ==
  ASSUME Types, NEW b \in Procs, job[b].at \in Blind \union {"enter", "local", "plan", "commit"}
  PROVE  job[b].req.v \in Vaults
<1>1. JobOK(job[b]) /\ job[b].at # "idle"
  BY DEF Types, Blind
<1>2. IsRequest(job[b].req) /\ Placed(job[b])
  BY <1>1 DEF JobOK
<1>3. job[b].req.op \in ProjectOps \union DomainOps \union {"workspace-create", "setup"}
  BY <1>2 DEF Placed, Blind, ProjectOps
<1>4. job[b].req.v # None
  BY <1>1, <1>2, <1>3 DEF JobOK, IsRequest
<1> QED BY <1>2, <1>4 DEF IsRequest, Or

LEMMA Writers ==
  ASSUME Types, Kept, NEW c \in Procs, Acts(c), NEW v \in Vaults, man[v].id # None, man'[v] # man[v]
  PROVE  \/ WriteManifest(c) \/ LocalFails(c) \/ ImportProjects(c) \/ ImportFails(c)
         \/ Apply(c) /\ job[c].next # None /\ job[c].req.v = v
<1>0. man \in [Vaults -> Manifest] /\ Marked(c) /\ JobOK(job[c])
  BY DEF Types, FilesOK, Kept
<1>1. man' # man
  OBVIOUS
<1>2. ~((\E r \in Requests : Start(c, r)) \/ Refuse(c) \/ Kill(c))
  BY <1>1 DEF Start, Refuse, Kill, files
<1>3. ProjectStep(c) => WriteManifest(c) \/ LocalFails(c)
  BY <1>1 DEF ProjectStep, Show, Read, Preview, Change, Check, Declare, Enter, WriteLocal, files
<1>4. ~Found(c)
  <2> SUFFICES ASSUME Found(c) PROVE FALSE
    OBVIOUS
  <2>1. job[c].at = "found" /\ man' = [man EXCEPT ![job[c].req.v] = FoundManifest(job[c].req)]
    BY DEF Found, At
  <2>2. man[job[c].req.v].id = None
    BY <1>0, <2>1 DEF Marked, JobOK, Placed
  <2> QED BY <1>0, <2>1, <2>2
<1>5. ~Attach(c)
  <2> SUFFICES ASSUME Attach(c) PROVE FALSE
    OBVIOUS
  <2>1. job[c].at = "attach" /\ man' = [man EXCEPT ![job[c].req.v] = job[c].next]
    BY DEF Attach, At
  <2>2. man[job[c].req.v].id = None
    BY <1>0, <2>1 DEF Marked
  <2> QED BY <1>0, <2>1, <2>2
<1>6. WorkspaceStep(c) => ImportProjects(c) \/ ImportFails(c)
  BY <1>1, <1>4, <1>5 DEF WorkspaceStep, Vacant, Scaffold, Register, SetUp, SetDefault, Export, ExportProjects, Import, files
<1>7. DomainStep(c) => Apply(c)
  BY <1>1 DEF DomainStep, Plan, Hash, Commit, files
<1>8. Apply(c) => job[c].next # None /\ job[c].req.v = v
  BY <1>0 DEF Apply
<1> QED BY <1>2, <1>3, <1>6, <1>7, <1>8 DEF Acts

(* Where the Workspaces are changes only by a registration and an import.  *)
Registers(c) ==
  LET q == job[c].req IN
  /\ Register(c) /\ man' = man
  /\ DOMAIN local'.ws = DOMAIN local.ws \union {q.w} /\ local'.ws[q.w].path = q.v
  /\ \A x \in DOMAIN local.ws \ {q.w} : local'.ws[x] = local.ws[x] /\ local.ws[x].path # q.v
  /\ q.w \in DOMAIN local.ws => local'.ws[q.w] = local.ws[q.w]

LEMMA ImportsThere ==
  ASSUME local \in WorkspaceRegistry, NEW c \in Procs, ImportProjects(c)
  PROVE  SamePlaces(local, local')
<1>1. PICK w \in job[c].next : local' = [local EXCEPT !.ws[w].binds = BindsFor(@, Entries(c, w))]
  BY DEF ImportProjects
<1>2. local.ws \in [DOMAIN local.ws -> WorkspaceEntry]
  BY RegistryParts
<1>3. DOMAIN local'.ws = DOMAIN local.ws
  BY <1>1, RegistryParts
<1>4. \A x \in DOMAIN local.ws : local'.ws[x] = local.ws[x] \/ \E b : local'.ws[x] = [local.ws[x] EXCEPT !.binds = b]
  BY <1>1, <1>2, RegistryParts
<1> QED BY <1>2, <1>3, <1>4 DEF WorkspaceEntry, SamePlaces

LEMMA Places ==
  ASSUME Types, Kept, NEW c \in Procs, Acts(c)
  PROVE  \/ SamePlaces(local, local')
         \/ Registers(c)
         \/ Import(c) /\ local' = backup.reg /\ backup # None
         \/ ImportFails(c) /\ At(c, "import") /\ local' = job[c].seen.local
<1> DEFINE j == job[c]
           q == job[c].req
<1>1. Marked(c) /\ local \in WorkspaceRegistry
  BY DEF Types, FilesOK, Kept
<1>2. local' = local => SamePlaces(local, local')
  BY DEF SamePlaces
<1>3. CASE (\E r \in Requests : Start(c, r)) \/ Refuse(c) \/ Kill(c)
  BY <1>2, <1>3 DEF Start, Refuse, Kill, files
<1>4. CASE ProjectStep(c)
  <2>1. CASE WriteLocal(c)
    BY <1>1, <2>1 DEF WriteLocal, At, Marked
  <2>2. CASE ~WriteLocal(c)
    BY <1>2, <1>4, <2>2 DEF ProjectStep, Show, Read, Preview, Change, Check, Declare, Enter, WriteManifest, LocalFails, files
  <2> QED BY <2>1, <2>2
<1>5. CASE WorkspaceStep(c)
  <2>1. CASE Register(c)
    <3>1. /\ local'.ws = With(local.ws, q.w, IF q.w \in Registered THEN local.ws[q.w] ELSE NewEntry(q.v))
          /\ man' = man
          /\ (q.w \in Registered => PathOf(q.w) = q.v) /\ \A x \in Registered \ {q.w} : PathOf(x) # q.v
      BY <2>1 DEF Register, At_May, At, May, MayRegister
    <3> QED BY <2>1, <3>1 DEF With, NewEntry, Registered, PathOf, Registers
  <2>2. CASE SetDefault(c)
    <3>1. local' = [local EXCEPT !.default = q.w]
      BY <2>2 DEF SetDefault
    <3>2. local'.ws = local.ws
      BY <1>1, <3>1, RegistryParts
    <3> QED BY <3>2 DEF SamePlaces
  <2>3. CASE Import(c)
    <3>1. local' = backup.reg /\ backup # None
      BY <2>3 DEF Import, At_May, At, May, Importable
    <3> QED BY <2>3, <3>1
  <2>4. CASE ImportProjects(c)
    BY <1>1, <2>4, ImportsThere
  <2>5. CASE ImportFails(c)
    BY <2>5 DEF ImportFails, At
  <2>6. CASE Vacant(c) \/ Scaffold(c) \/ Found(c) \/ SetUp(c) \/ Attach(c) \/ Export(c) \/ ExportProjects(c)
    BY <1>2, <2>6 DEF Vacant, Scaffold, Found, SetUp, Attach, Export, ExportProjects, files
  <2> QED BY <1>5, <2>1, <2>2, <2>3, <2>4, <2>5, <2>6 DEF WorkspaceStep
<1>6. CASE DomainStep(c)
  BY <1>2, <1>6 DEF DomainStep, Plan, Hash, Commit, Apply, files
<1> QED BY <1>3, <1>4, <1>5, <1>6 DEF Acts

LEMMA BackedUp ==
  ASSUME NEW c \in Procs, Acts(c)
  PROVE  backup' = backup \/ (At(c, "export-projects") /\ backup'.reg = job[c].next)
<1>1. CASE (\E r \in Requests : Start(c, r)) \/ Refuse(c) \/ Kill(c)
  BY <1>1 DEF Start, Refuse, Kill, files
<1>2. CASE ProjectStep(c)
  BY <1>2 DEF ProjectStep, Show, Read, Preview, Change, Check, Declare, Enter, WriteManifest, WriteLocal, LocalFails, files
<1>3. CASE WorkspaceStep(c)
  <2>1. CASE ExportProjects(c)
    BY <2>1 DEF ExportProjects, At_May
  <2>2. CASE ~ExportProjects(c)
    BY Zenon, <1>3, <2>2 DEF WorkspaceStep, Vacant, Scaffold, Register, Found, SetUp, Attach, SetDefault,
                Export, Import, ImportProjects, ImportFails, files
  <2> QED BY <2>1, <2>2
<1>4. CASE DomainStep(c)
  BY <1>4 DEF DomainStep, Plan, Hash, Commit, Apply, files
<1> QED BY <1>1, <1>2, <1>3, <1>4 DEF Acts

LEMMA ReadableStays ==
  ASSUME Types, Kept, NEW c \in Procs, Acts(c), ~crossed',
         NEW l \in WorkspaceRegistry, Readable(l, man, job, broken)
  PROVE  Readable(l, man', job', broken')
<1>1. ASSUME NEW w \in DOMAIN l.ws
      PROVE  \/ man'[l.ws[w].path].id = w \/ w \in broken'
             \/ \E b \in Procs : job'[b].at = "found" /\ job'[b].req.w = w /\ job'[b].req.v = l.ws[w].path
  <2> DEFINE v == l.ws[w].path
  <2>1. v \in Vaults /\ w \in Workspaces /\ w # None
    BY RegistryParts, NoneAssumption
  <2>2. CASE man[v].id = w
    BY <2>1, <2>2, Identity DEF Makes
  <2>3. CASE \E b \in Procs \ {c} : job[b].at = "found" /\ job[b].req.w = w /\ job[b].req.v = v
    BY <2>3, Others DEF Untouching, Untouched
  <2>4. CASE job[c].at = "found" /\ job[c].req.w = w /\ job[c].req.v = v
    <3>1. Found(c) \/ Kill(c)
      BY <2>4 DEF Acts, Start, Refuse, May, ProjectStep, Show, Read, Preview, Change, Check, Declare, Enter,
         WriteManifest, WriteLocal, LocalFails, WorkspaceStep, Vacant, Scaffold, Register, SetUp, Attach, SetDefault,
         Export, ExportProjects, Import, ImportProjects, ImportFails, DomainStep, Plan, Hash, Commit, Apply, At, At_May
    <3>2. CASE Found(c)
      BY <2>1, <2>4, <3>2 DEF Found, FoundManifest, NewManifest, Types, FilesOK
    <3>3. CASE Kill(c)
      BY <2>4, <3>3 DEF Kill, At
    <3> QED BY <3>1, <3>2, <3>3
  <2>5. CASE w \in broken
    <3>1. broken \subseteq broken'
      <4>1. CASE Kill(c)
        BY <4>1 DEF Kill
      <4>2. CASE (\E r \in Requests : Start(c, r)) \/ Refuse(c)
        BY <4>2 DEF Start, Refuse, history
      <4>3. CASE ProjectStep(c)
        BY <4>3 DEF ProjectStep, Show, Read, Preview, Change, Check, Declare, Enter,
                    WriteManifest, WriteLocal, LocalFails, history
      <4>4. CASE WorkspaceStep(c)
        BY Zenon, <4>4 DEF WorkspaceStep, Vacant, Scaffold, Register, Found, SetUp, Attach, SetDefault,
                    Export, ExportProjects, Import, ImportProjects, ImportFails, history
      <4>5. CASE DomainStep(c)
        BY <4>5 DEF DomainStep, Plan, Hash, Commit, Apply, history
      <4> QED BY <4>1, <4>2, <4>3, <4>4, <4>5 DEF Acts
    <3> QED BY <2>5, <3>1
  <2> QED BY <2>2, <2>3, <2>4, <2>5 DEF Readable
<1> QED BY <1>1 DEF Readable

LEMMA MarkedOthers ==
  ASSUME Types, Kept, NEW c \in Procs, Acts(c), ~crossed', NEW b \in Procs \ {c}
  PROVE  Marked(b)'
<1> DEFINE j == job[b]
           v == job[b].req.v
<1>1. Untouched(b) /\ JobOK(j) /\ Marked(b) /\ Deed(c)
  BY Others, Deeds DEF Untouching, Types, Kept
<1>2. \A x \in Vaults : man'[x] = man[x] \/ ~WrittenBlindly(c, x)
  BY Blindly
<1>3. j.at \in Blind => v \in Vaults /\ man'[v] = man[v]
  BY <1>2, InAVault DEF WrittenBlindly
<1>4. j.at = "import" => \A x \in Vaults : man'[x] = man[x]
  BY <1>2 DEF WrittenBlindly
<1>5. dirs \subseteq dirs'
  BY Directories
<1>6. j.at \in {"manifest", "local"} => local' = local /\ job[c].at \notin InHome
  BY <1>1 DEF Deed, HomeFree, Types, Alone, InHome
<1>7. j.at = "local" => v \in Vaults /\ man'[v].id = man[v].id
  <2> SUFFICES ASSUME j.at = "local" PROVE v \in Vaults /\ man'[v].id = man[v].id
    OBVIOUS
  <2>1. v \in Vaults
    BY InAVault
  <2>2. man[v].id = j.req.w /\ j.req.w # None
    BY <1>1 DEF Marked, JobOK, Placed
  <2> QED BY <2>1, <2>2, Identity DEF Makes
<1>8. j.at = "local" => job'[b].rewritten \/ (man'[v] = man[v] /\ ~j.rewritten)
  <2> SUFFICES ASSUME j.at = "local", ~j.rewritten, man'[v] # man[v] PROVE job'[b].rewritten
    BY <1>1 DEF Untouched
  <2>1. v \in Vaults /\ man[v].id # None
    BY <1>1, InAVault DEF Marked, JobOK, Placed
  <2>2. job[c].at \notin InHome /\ ~HomeFree
    BY <1>6 DEF HomeFree, InHome
  <2>6. ~(WriteManifest(c) \/ LocalFails(c) \/ ImportProjects(c) \/ ImportFails(c))
    BY <2>2 DEF WriteManifest, LocalFails, ImportProjects, ImportFails, At, InHome
  <2>7. Apply(c) /\ job[c].next # None /\ job[c].req.v = v
    BY <2>1, <2>6, Writers
  <2>9. job'[b] = Renamed(b, v, Moved(job[c].req, job[c].next), job[c].req.e)
    BY <2>7 DEF Apply
  <2>10. job'[b] = [job[b] EXCEPT !.rewritten = TRUE,
                      !.entry.domain = IF Key(b) \in Moved(job[c].req, job[c].next) THEN job[c].req.e ELSE @]
    BY <2>9 DEF Renamed, At
  <2>11. DOMAIN job[b] = JobFields
    BY DEF Types, Shapes
  <2> QED BY <2>10, <2>11 DEF JobFields
<1>9. SamePlaces(local, j.next.local) /\ local' = local => SamePlaces(local', j.next.local)
  OBVIOUS
<1> QED BY <1>1, <1>3, <1>4, <1>5, <1>6, <1>7, <1>8, <1>9 DEF Marked, Untouched, Blind

LEMMA CopiesStay ==
  ASSUME Types, Kept, NEW c \in Procs, Acts(c), ~crossed', NEW b \in Procs
  PROVE  Copies(b)'
<1> DEFINE j == job[b]
           n == job'[b]
<1>1. JobOK(j) /\ Copies(b) /\ FilesOK /\ DOMAIN j = JobFields /\ DOMAIN job = Procs /\ Shapes
  BY DEF Types, Kept, Shapes
<1>2. ASSUME n.at = "import", j.at = "import", n.entry = j.entry, n.seen = j.seen PROVE Copies(b)'
  <2>1. j.entry.reg \in WorkspaceRegistry /\ j.seen.local \in WorkspaceRegistry
    BY <1>1, <1>2 DEF JobOK, Furnished, IsBackup
  <2>2. Readable(j.entry.reg, man', job', broken') /\ Readable(j.seen.local, man', job', broken')
    BY <1>1, <1>2, <2>1, ReadableStays DEF Copies, At, CanRead
  <2> QED BY <1>2, <2>2 DEF Copies, At, CanRead
<1>3. ASSUME n.at = "export-projects", j.at = "export-projects", n.next = j.next PROVE Copies(b)'
  <2>1. j.next \in WorkspaceRegistry
    BY <1>1, <1>3 DEF JobOK, Furnished
  <2>2. Readable(j.next, man', job', broken')
    BY <1>1, <1>3, <2>1, ReadableStays DEF Copies, At, CanRead
  <2> QED BY <1>3, <2>2 DEF Copies, At, CanRead
<1>4. CASE b # c
  <2>1. Untouched(b)
    BY <1>4, Others DEF Untouching
  <2> QED BY <1>2, <1>3, <2>1 DEF Copies, Untouched, Relabelled, At
<1>5. CASE b = c
  <2>0. CameWith(c) /\ local \in WorkspaceRegistry /\ Readable(local, man', job', broken')
    BY <1>1, Arrival, ReadableStays DEF FilesOK, Kept, CanRead
  <2>1. CASE n.at = "import" /\ ImportProjects(c)
    <3>1. j.at = "import"
      BY <1>5, <2>1 DEF ImportProjects, At
    <3>2. n.entry = j.entry /\ n.seen = j.seen
      BY <1>5, <2>0, <2>1, <3>1 DEF CameWith, Import, At_May, At
    <3> QED BY <1>2, <2>1, <3>1, <3>2
  <2>2. CASE n.at = "import" /\ ~ImportProjects(c)
    <3>1. Import(c) /\ n.entry = backup /\ n.seen.local = local
      BY <1>5, <2>0, <2>2 DEF CameWith
    <3>2. IsBackup(backup) /\ backup # None
      BY <1>1, <3>1 DEF Import, At_May, At, May, Importable, FilesOK
    <3>3. Readable(backup.reg, man', job', broken')
      BY <3>2, ReadableStays DEF Kept, CanRead, IsBackup
    <3> QED BY <2>0, <2>2, <3>1, <3>3 DEF Copies, At, CanRead
  <2>3. CASE n.at = "export-projects"
    BY <1>5, <2>0, <2>3 DEF CameWith, Copies, At, CanRead
  <2> QED BY <2>1, <2>2, <2>3 DEF Copies, At
<1> QED BY <1>4, <1>5

LEMMA MarkedSelf ==
  ASSUME Types, Kept, NEW c \in Procs, Acts(c), ~crossed'
  PROVE  Marked(c)'
<1> DEFINE j == job[c]
           q == job[c].req
           n == job'[c]
<1>1. JobOK(j) /\ FilesOK /\ Marked(c) /\ JobOK(n) /\ CameWith(c) /\ man \in [Vaults -> Manifest]
  BY Deeds, Arrival DEF Types, Kept, Deed, FilesOK
<1>2. CASE n.at \notin {"scaffold", "register", "found", "attach", "manifest", "local", "import", "hash", "commit", "apply"}
  BY <1>2 DEF Marked
<1>3. CASE n.at = "manifest"
  <2> DEFINE s == Saved(q.w, q.p, j.entry)
             m == man[PathOf(q.w)]
  <2>1. /\ j.at = "enter" /\ n.req = Current(q) /\ n.next = s
        /\ man' = man /\ local' = local /\ q.w \in Registered /\ CanList(q.w)
    BY <1>1, <1>3 DEF CameWith, Enter, At, SameAsRead, SameSnapshot, files
  <2>2. IsRequest(q) /\ q.p \in Projects /\ j.entry \in ProjectEntry
    BY <1>1, <2>1 DEF JobOK, Placed, Furnished, IsRequest, Or
  <2>3. n.req.v = PathOf(q.w) /\ n.req.w = q.w /\ n.req.p = q.p
    BY <1>1, <2>1, <2>2, CurrentType
  <2>4. s.was = m /\ Replaces(m, s.man, q.p, j.entry) /\ SamePlaces(local, s.local)
    BY <1>1, <2>1, <2>2, SavedType
  <2>5. m.id = q.w
    BY <2>1 DEF CanList
  <2> HIDE DEF s
  <2>6. s.man.id = q.w /\ Besides(s.was, s.man, q.p)
    BY Zenon, <2>4, <2>5 DEF Replaces, Besides
  <2> QED BY <1>3, <2>1, <2>3, <2>4, <2>5, <2>6 DEF Marked
<1>4. CASE n.at = "local"
  <2>1. WriteManifest(c) /\ j.at = "manifest" /\ n.req = q /\ n.next = j.next
    BY <1>1, <1>4 DEF CameWith, WriteManifest, At
  <2>2. q.v \in Vaults /\ man[q.v] = j.next.was
    BY <1>1, <2>1, InAVault DEF Blind, Marked
  <2>3. local' = local /\ man'[q.v] = j.next.man
    BY <1>1, <2>1, <2>2 DEF WriteManifest
  <2> QED BY <1>1, <1>4, <2>1, <2>3 DEF Marked
<1>5. CASE n.at = "register"
  <2>1. CASE Scaffold(c) /\ n.req = q
    <3>1. j.at = "scaffold" /\ dirs' = dirs \union {q.v} /\ man' = man
      BY <2>1 DEF Scaffold, At
    <3>2. q.op = "workspace-create" /\ q.v \in Vaults
      BY <1>1, <3>1 DEF JobOK, Placed, IsRequest, Or
    <3>3. man[q.v].id = None
      BY <1>1, <3>1, <3>2 DEF Marked
    <3> QED BY <1>5, <2>1, <3>1, <3>2, <3>3 DEF Marked
  <2>2. CASE Attach(c) /\ n.req = q
    <3>1. j.at = "attach" /\ man' = [man EXCEPT ![q.v] = j.next]
      BY <2>2 DEF Attach, At
    <3>2. q.op = "setup" /\ q.v \in Vaults
      BY <1>1, <3>1, InAVault DEF JobOK, Placed, Blind
    <3>3. man'[q.v].id = q.w
      BY <1>1, <3>1, <3>2 DEF Marked
    <3> QED BY <1>5, <2>2, <3>2, <3>3 DEF Marked
  <2>3. CASE SetUp(c) /\ n.req.v = q.v /\ n.req.op = q.op /\ n.req.w = man[q.v].id
    <3>1. j.at = "setup" /\ man' = man
      BY Zenon, <2>3 DEF SetUp, At_May, At, files
    <3>2. q.op = "setup"
      BY <1>1, <3>1 DEF JobOK, Placed
    <3> QED BY <1>5, <2>3, <3>1, <3>2 DEF Marked
  <2> QED BY <1>1, <1>5, <2>1, <2>2, <2>3 DEF CameWith
<1>6. CASE n.at = "found"
  <2>1. Register(c) /\ j.at = "register" /\ n.req = q /\ man' = man /\ dirs' = dirs
    BY <1>1, <1>6 DEF CameWith, Register, At_May, At
  <2>2. q.op = "workspace-create"
    BY <1>1, <1>6, <2>1 DEF JobOK, Placed
  <2> QED BY <1>1, <1>6, <2>1, <2>2 DEF Marked
<1>7. CASE n.at = "attach"
  <2>1. /\ SetUp(c) /\ n.req.v = q.v /\ n.req.w = q.w /\ n.next.id = q.w /\ man[q.v].id = None
    BY <1>1, <1>7 DEF CameWith
  <2>2. man' = man /\ dirs' = dirs /\ q.v \in dirs
    BY <2>1 DEF SetUp, At_May, At, May, MaySetUp, files
  <2> QED BY <1>7, <2>1, <2>2 DEF Marked
<1>8. CASE n.at = "import"
  <2>1. CASE ImportProjects(c) /\ n.seen = j.seen
    <3>1. j.at = "import"
      BY <2>1 DEF ImportProjects, At
    <3> QED BY <1>1, <1>8, <2>1, <3>1, Identity DEF Marked, Makes
  <2>2. CASE Import(c) /\ n.seen = [local |-> local, man |-> man]
    <3>1. man' = man
      BY <2>2 DEF Import
    <3> QED BY <1>8, <2>2, <3>1 DEF Marked
  <2> QED BY <1>1, <1>8, <2>1, <2>2 DEF CameWith
<1>9. CASE n.at \in {"hash", "commit", "apply"}
  <2>0. n.req = q
    BY <1>1, <1>9 DEF CameWith
  <2>1. CASE Plan(c) /\ n.next = (IF WritesManifest(q) THEN Rebound(q) ELSE None) /\ n.seen.man = man[q.v]
    <3>1. j.at = "plan" /\ man' = man
      BY <2>1 DEF Plan, At_May, At, files
    <3>2. IsRequest(q) /\ q.op \in DomainOps /\ q.v \in Vaults
      BY <1>1, <3>1, InAVault DEF JobOK, Placed
    <3>3. Rebound(q).id = man[q.v].id
      BY <1>1, <3>2, ReboundType
    <3> QED BY <1>9, <2>0, <2>1, <3>1, <3>3 DEF Marked
  <2>2. CASE Hash(c) /\ n.next = j.next /\ n.seen.man = man[q.v]
    <3>1. j.at = "hash" /\ man' = man
      BY <2>2 DEF Hash, At, files
    <3>2. j.next # None => j.seen.man = man[q.v]
      BY <1>1, <3>1 DEF Marked
    <3> QED BY <1>1, <1>9, <2>0, <2>2, <3>1, <3>2 DEF Marked
  <2>3. CASE Commit(c) /\ n.next = j.next /\ n.seen = j.seen
    <3>1. j.at = "commit" /\ man' = man /\ AsPlanned(c)
      BY <2>3 DEF Commit, At_May, At, May, files
    <3>2. q.op \in DomainOps /\ (q.op = "delete" => j.next = None)
      BY <1>1, <3>1 DEF JobOK, Placed, Furnished
    <3>3. j.next # None => man[q.v] = j.seen.man
      BY <3>1, <3>2 DEF AsPlanned, DomainOps
    <3> QED BY <1>1, <1>9, <2>0, <2>3, <3>1, <3>3 DEF Marked
  <2> QED BY <1>1, <1>9, <2>1, <2>2, <2>3 DEF CameWith
<1>10. CASE n.at = "scaffold"
  <2>1. Vacant(c) /\ n.req = q
    BY <1>1, <1>10 DEF CameWith
  <2>2. j.at = "vacant" /\ q.v \notin dirs /\ dirs' = dirs /\ man' = man
    BY <2>1 DEF Vacant, At_May, At, May, files
  <2>3. q.op = "workspace-create" /\ q.v \in Vaults
    BY <1>1, <2>2 DEF JobOK, Placed, IsRequest, Or
  <2>4. man[q.v].id = None
    BY <2>2, <2>3 DEF Kept
  <2> QED BY <1>10, <2>1, <2>2, <2>3, <2>4 DEF Marked
<1> QED BY <1>2, <1>3, <1>4, <1>5, <1>6, <1>7, <1>8, <1>9, <1>10

LEMMA KeptStep ==
  ASSUME Types, Kept, NEW c \in Procs, Acts(c), ~crossed'
  PROVE  Kept'
<1> DEFINE j == job[c]
           q == job[c].req
<1>1. JobOK(j) /\ FilesOK /\ FilesOK' /\ Shapes /\ Marked(c) /\ Copies(c)
  BY Deeds DEF Types, Kept, Deed
<1>2. local \in WorkspaceRegistry /\ local' \in WorkspaceRegistry
  BY <1>1 DEF FilesOK
<1>3. Readable(local, man', job', broken')
  BY <1>2, ReadableStays DEF Kept, CanRead
<1>4. ASSUME NEW l \in WorkspaceRegistry, SamePlaces(l, local') , Readable(l, man', job', broken')
      PROVE  CanRead(local)'
  BY <1>4 DEF SamePlaces, CanRead, Readable
<1>5. SamePlaces(local, local') => CanRead(local)'
  BY <1>2, <1>3, <1>4
<1>6. CanRead(local)'
  <2>1. CASE Registers(c)
    <3>1. /\ j.at = "register" /\ man' = man /\ local'.ws[q.w].path = q.v
          /\ job'[c] = IF q.op = "workspace-create" THEN [j EXCEPT !.at = "found"] ELSE NoJob
      BY Zenon, <1>1, <2>1, RegistersAs DEF Registers, Register, At_May, At
    <3>2. ASSUME NEW x \in DOMAIN local'.ws, x # q.w
          PROVE  \/ man'[local'.ws[x].path].id = x \/ x \in broken'
                 \/ \E b \in Procs : job'[b].at = "found" /\ job'[b].req.w = x /\ job'[b].req.v = local'.ws[x].path
      BY <1>3, <2>1, <3>2 DEF Registers, Readable
    <3>3. \/ man'[q.v].id = q.w
          \/ \E b \in Procs : job'[b].at = "found" /\ job'[b].req.w = q.w /\ job'[b].req.v = q.v
      <4>1. CASE q.op = "workspace-create"
        <5>1. job'[c].at = "found" /\ job'[c].req = q
          BY <1>1, <3>1, <4>1 DEF Go, Shapes, JobFields
        <5> QED BY <5>1
      <4>2. CASE q.op # "workspace-create"
        BY <1>1, <3>1, <4>2 DEF JobOK, Placed, Marked
      <4> QED BY <4>1, <4>2
    <3> QED BY <3>1, <3>2, <3>3 DEF CanRead, Readable
  <2>2. CASE Import(c) /\ local' = backup.reg /\ backup # None
    <3>1. Readable(backup.reg, man', job', broken')
      BY <1>1, <2>2, ReadableStays DEF Kept, CanRead, FilesOK, IsBackup
    <3> QED BY <2>2, <3>1 DEF CanRead
  <2>3. CASE ImportFails(c) /\ At(c, "import") /\ local' = j.seen.local
    <3>1. j.seen.local \in WorkspaceRegistry /\ Readable(j.seen.local, man, job, broken)
      BY <1>1, <2>3 DEF JobOK, Furnished, Copies, At, CanRead
    <3>2. Readable(j.seen.local, man', job', broken')
      BY <3>1, ReadableStays
    <3> QED BY <2>3, <3>2 DEF CanRead
  <2> QED BY <1>5, <2>1, <2>2, <2>3, Places
<1>7. backup' # None => CanRead(backup.reg)'
  <2>1. CASE At(c, "export-projects") /\ backup'.reg = j.next
    <3>1. j.next \in WorkspaceRegistry /\ Readable(j.next, man, job, broken)
      BY <1>1, <2>1 DEF JobOK, Furnished, Copies, At, CanRead
    <3> QED BY <2>1, <3>1, ReadableStays DEF CanRead
  <2>2. CASE backup' = backup
    <3>1. backup # None => backup.reg \in WorkspaceRegistry
      BY <1>1 DEF FilesOK, IsBackup
    <3> QED BY <2>2, <3>1, ReadableStays DEF Kept, CanRead
  <2> QED BY <2>1, <2>2, BackedUp
<1>8. \A v \in Vaults : man'[v].id # None => v \in dirs'
  BY Identity, Directories DEF Kept, Makes
<1>9. \A b \in Procs : Marked(b)' /\ Copies(b)'
  BY MarkedSelf, MarkedOthers, CopiesStay
<1> QED BY <1>6, <1>7, <1>8, <1>9 DEF Kept

KeptInv == Types /\ (~crossed => Kept)

LEMMA KeptInit == Init => KeptInv
<1> SUFFICES ASSUME Init PROVE KeptInv
  OBVIOUS
<1>1. PICK s \in Starts : local = s.local /\ man = s.man /\ dirs = s.dirs
  BY DEF Init
<1>2. CanRead(local) /\ \A v \in Vaults : man[v].id # None => v \in dirs
  BY <1>1, StartsAssumption DEF IsStart, CanRead, Readable
<1>3. \A b \in Procs : job[b].at = "idle"
  BY DEF Init, NoJob
<1> QED BY <1>2, <1>3, TypeInit DEF KeptInv, Init, Kept, Marked, Copies, At

LEMMA KeptStays == KeptInv /\ [Next]_vars => KeptInv'
<1> SUFFICES ASSUME KeptInv, [Next]_vars PROVE KeptInv'
  OBVIOUS
<1>1. Types'
  BY TypeStays DEF KeptInv
<1>2. CASE UNCHANGED vars
  <2>1. /\ local' = local /\ man' = man /\ dirs' = dirs /\ backup' = backup /\ job' = job
        /\ crossed' = crossed /\ broken' = broken
    BY <1>2 DEF vars, files, history
  <2>2. ASSUME NEW b \in Procs, Marked(b), Copies(b) PROVE Marked(b)' /\ Copies(b)'
    <3>1. Marked(b)'
      BY <2>1, <2>2 DEF Marked
    <3>2. Copies(b)'
      BY <2>1, <2>2 DEF Copies, CanRead, At
    <3> QED BY <3>1, <3>2
  <2>3. (CanRead(local) => CanRead(local)') /\ (CanRead(backup.reg) => CanRead(backup.reg)')
    BY <2>1 DEF CanRead, Readable
  <2> QED BY <1>1, <2>1, <2>2, <2>3 DEF KeptInv, Kept
<1>3. ASSUME NEW c \in Procs, Acts(c) PROVE KeptInv'
  BY <1>1, <1>3, KeptStep, Blindly DEF KeptInv
<1> QED BY <1>2, <1>3 DEF Next, Acts

(* list_projects finds in every registered Workspace the Manifest of that  *)
(* Workspace, except while the Workspace is created and after its creation *)
(* was killed; whatever is imported, put back or saved at the same time.   *)
THEOREM Readability == Spec => []RegistryReadable
<1>1. KeptInv => RegistryReadable
  <2> SUFFICES ASSUME Kept PROVE RegistryReadable
    BY DEF KeptInv, RegistryReadable
  <2>1. ASSUME NEW w \in Registered
        PROVE  CanList(w) \/ w \in broken \/ \E c \in Procs : At(c, "found") /\ job[c].req.w = w
    BY DEF Kept, CanRead, Readable, CanList, Registered, PathOf, At
  <2> QED BY <2>1 DEF RegistryReadable
<1> QED BY <1>1, KeptInit, KeptStays, PTL DEF Spec

----------------------------------------------------------------------------
(* What stays as long as no root changes, either, in a window that nobody  *)
(* checks: every Manifest is sound, every list of projects that may become *)
(* one has no shared root, and what a process has found out about the root *)
(* it is about to write or to remove still holds when it gets there.       *)
NoShare(P) == \A p, o \in DOMAIN P :
  p # o /\ P[p].status = "active" /\ P[o].status = "active" => P[p].domain # P[o].domain
Free(P, p, d) == \A o \in DOMAIN P \ {p} : P[o].domain = d => P[o].status # "active"
Has(P, p, e)  == p \in DOMAIN P /\ P[p].domain = e.domain /\ P[p].status = e.status
Moves(q, P, Q) ==
  /\ DOMAIN Q = DOMAIN P
  /\ \A p \in DOMAIN P :
       /\ Q[p].status = P[p].status
       /\ Q[p].domain = q.e \/ (Q[p].domain = P[p].domain /\ (q.op \in {"rekey", "merge"} => P[p].domain # q.d))

(* At the lock: the root that a project command has found free.            *)
Grounded(b) ==
  LET j == job[b]
      q == j.req
  IN
  /\ j.at \in {"domain", "enter"} /\ q.op = "create" =>
       j.entry.domain = q.d /\ Free(man[q.v].projects, q.p, q.d)
  /\ j.at = "enter" /\ q.op = "create" => q.d \in declared[q.v]
  /\ j.at = "enter" /\ q.op \in {"adopt", "update"} =>
       /\ q.v = j.seen.local.ws[q.w].path
       /\ Free(j.seen.man.projects, q.p, j.entry.domain)
       /\ j.entry.domain \in declared[q.v] \union RootsOf(j.seen.man)
  /\ j.at = "enter" /\ q.op = "bind" =>
       /\ j.seen.project # None /\ j.seen.project.w = q.w
       /\ j.seen.project.entry.domain = j.entry.domain /\ j.seen.project.entry.status = j.entry.status
  /\ j.at = "enter" /\ q.op \in Confirmed /\ ~j.overtaken =>
       /\ q.w \in Registered /\ PathOf(q.w) = q.v /\ man[q.v].id # None
       /\ Has(man[q.v].projects, q.p, j.entry)
Overdue(j) == j.overtaken /\ j.req.op \in Confirmed
Rooted(b) ==
  LET j == job[b]
      q == j.req
  IN
  /\ j.at = "manifest" /\ ~Overdue(j) =>
       /\ NoShare(j.next.man.projects) /\ RootsOf(j.next.man) \subseteq RootsOf(j.next.was) \union {j.entry.domain}
       /\ j.entry.domain \in declared[q.v]
  /\ j.at \in {"manifest", "local"} => NoShare(j.next.was.projects)
  /\ j.at = "attach" => NoShare(j.next.projects)
  /\ j.at = "import" => /\ \A v \in Vaults : NoShare(j.seen.man[v].projects)
                        /\ \A w \in DOMAIN j.entry.entries : NoShare(j.entry.entries[w])
  /\ j.at = "hash" => j.next # None
  /\ j.at \in {"hash", "commit", "apply"} /\ j.next # None =>
       NoShare(j.next.projects) /\ Moves(q, j.seen.man.projects, j.next.projects)
  /\ j.at \in {"commit", "apply"} /\ j.next = None /\ q.op \in {"rekey", "merge", "delete"} =>
       q.d \notin RootsOf(man[q.v])

SoundIn(v) == NoShare(man[v].projects) /\ RootsOf(man[v]) \subseteq declared[v]
Sound ==
  /\ \A v \in Vaults : SoundIn(v)
  /\ backup # None => \A w \in DOMAIN backup.entries : NoShare(backup.entries[w])
  /\ \A b \in Procs : Grounded(b) /\ Rooted(b)

LEMMA OneFree ==
  ASSUME NEW m, NEW n, NEW p, NEW e, NoShare(m.projects), Replaces(m, n, p, e),
         Free(m.projects, p, e.domain) \/ Has(m.projects, p, e)
  PROVE  NoShare(n.projects) /\ RootsOf(n) \subseteq RootsOf(m) \union {e.domain}
<1>1. ASSUME NEW a \in DOMAIN n.projects, NEW o \in DOMAIN n.projects, a # o,
             n.projects[a].status = "active", n.projects[o].status = "active"
      PROVE  n.projects[a].domain # n.projects[o].domain
  <2>1. CASE a # p /\ o # p
    BY <1>1, <2>1 DEF NoShare, Replaces
  <2>2. CASE a = p \/ o = p
    BY <1>1, <2>2 DEF NoShare, Replaces, Free, Has
  <2> QED BY <2>1, <2>2
<1>2. RootsOf(n) \subseteq RootsOf(m) \union {e.domain}
  BY DEF RootsOf, Replaces
<1> QED BY <1>1, <1>2 DEF NoShare

LEMMA ReboundSound ==
  ASSUME FilesOK, NEW q, IsRequest(q), q.op \in DomainOps, q.v \in Vaults,
         q.w \in Registered, PathOf(q.w) = q.v, NoShare(man[q.v].projects), q.e \notin RootsOf(man[q.v])
  PROVE  NoShare(Rebound(q).projects) /\ Moves(q, man[q.v].projects, Rebound(q).projects)
<1> DEFINE P == man[q.v].projects
           Q == Rebound(q).projects
<1>1. Own(q.w) = P
  BY DEF Own
<1>2. DOMAIN Q = DOMAIN P /\ \A p \in DOMAIN P :
        /\ Q[p].domain = IF p \in Affected(q) THEN q.e ELSE P[p].domain
        /\ Q[p].status = P[p].status
  BY <1>1, ReboundType
<1>3. \A p \in DOMAIN P : P[p].domain # q.e
  BY DEF RootsOf
<1>4. q.op \in {"rekey", "merge"} => Affected(q) = {p \in DOMAIN P : P[p].domain = q.d}
  BY <1>1 DEF Affected
<1>5. q.op \notin {"rekey", "merge"} => \A p, o \in Affected(q) : p = o
  BY DEF Affected
<1> HIDE DEF P, Q
<1>6. NoShare(Q)
  <2>1. ASSUME NEW p \in DOMAIN P, NEW o \in DOMAIN P, p # o, Q[p].status = "active", Q[o].status = "active",
               Q[p].domain = Q[o].domain
        PROVE  FALSE
    <3>1. p \in Affected(q) <=> o \in Affected(q)
      BY <1>2, <1>3, <2>1
    <3>2. p \in Affected(q)
      BY <1>2, <2>1, <3>1 DEF NoShare, P
    <3> QED BY <1>2, <1>4, <1>5, <2>1, <3>1, <3>2 DEF NoShare, P
  <2> QED BY <1>2, <2>1 DEF NoShare
<1>7. Moves(q, P, Q)
  BY <1>2, <1>4 DEF Moves
<1> QED BY <1>6, <1>7 DEF P, Q

LEMMA Noticed ==
  ASSUME Types, NEW c \in Procs, Acts(c), ~unseen' PROVE ~unseen
<1>1. CASE (\E r \in Requests : Start(c, r)) \/ Refuse(c) \/ Kill(c)
  <2>1. CASE Kill(c)
    BY <2>1 DEF Kill
  <2>2. CASE (\E r \in Requests : Start(c, r)) \/ Refuse(c)
    <3>1. unseen' = unseen
      BY <2>2 DEF Start, Refuse, history
    <3> QED BY <3>1
  <2> QED BY <1>1, <2>1, <2>2
<1>2. CASE ProjectStep(c)
  BY <1>2 DEF ProjectStep, Show, Read, Preview, Change, Check, Declare, Enter, WriteManifest, WriteLocal, LocalFails, history
<1>3. CASE WorkspaceStep(c)
  BY Zenon, <1>3 DEF WorkspaceStep, Vacant, Scaffold, Register, Found, SetUp, Attach, SetDefault,
              Export, ExportProjects, Import, ImportProjects, ImportFails, history
<1>4. CASE DomainStep(c)
  BY <1>4 DEF DomainStep, Plan, Hash, Commit, Apply, history
<1> QED BY <1>1, <1>2, <1>3, <1>4 DEF Acts

(* A root is taken back only by the domain command that moves or removes   *)
(* it, and then no project command relies on it.                           *)
LEMMA DeclaredStays ==
  ASSUME Types, NEW c \in Procs, Acts(c), ~unseen', NEW v \in Vaults, NEW d \in declared[v], d \notin declared'[v]
  PROVE  Apply(c) /\ job[c].req.v = v /\ job[c].req.d = d /\ job[c].req.op # "domain-adopt"
         /\ ~RootTaken(job[c].req)
<1> DEFINE q == job[c].req
<1>0. declared \in [Vaults -> SUBSET Domains]
  BY DEF Types, FilesOK
<1>1. ~(\E r \in Requests : Start(c, r)) /\ ~Refuse(c) /\ ~Kill(c)
  <2>1. ~(\E r \in Requests : Start(c, r)) /\ ~Refuse(c)
    BY DEF Start, Refuse, files
  <2>2. ~Kill(c)
    BY DEF Kill
  <2> QED BY <2>1, <2>2
<1>2. ~ProjectStep(c)
  <2>1. ~Declare(c)
    BY <1>0 DEF Declare
  <2> QED BY <2>1 DEF ProjectStep, Show, Read, Preview, Change, Check, Enter, WriteManifest, WriteLocal, LocalFails, files
<1>3. ~WorkspaceStep(c)
  BY Zenon DEF WorkspaceStep, Vacant, Scaffold, Register, Found, SetUp, Attach, SetDefault,
         Export, ExportProjects, Import, ImportProjects, ImportFails, files
<1>4. Apply(c)
  BY <1>1, <1>2, <1>3 DEF Acts, DomainStep, Plan, Hash, Commit, files
<1>5. declared' = [declared EXCEPT ![q.v] = Redeclared(q)] /\ ~RootTaken(q)
  BY <1>4 DEF Apply
<1>6. q.v = v /\ d \notin Redeclared(q)
  BY <1>0, <1>5
<1> QED BY <1>4, <1>5, <1>6 DEF Redeclared

LEMMA RootsWritten ==
  ASSUME Types, Kept, Sound, NEW c \in Procs, Acts(c), ~crossed', ~unseen', NEW v \in Vaults, man'[v] # man[v]
  PROVE  /\ NoShare(man'[v].projects)
         /\ \A d \in RootsOf(man'[v]) :
              d \in declared'[v] /\ (d \in RootsOf(man[v]) \/ ~RootInDanger(v, d))
<1> DEFINE j == job[c]
           q == job[c].req
<1>1. man \in [Vaults -> Manifest] /\ JobOK(j) /\ Marked(c) /\ Rooted(c) /\ SoundIn(v)
  BY DEF Types, FilesOK, Kept, Sound
<1>2. ASSUME NEW m, man'[v] = m, declared' = declared, NoShare(m.projects), ~Unchecked(v, m)
      PROVE  /\ NoShare(man'[v].projects)
             /\ \A d \in RootsOf(man'[v]) :
                  d \in declared'[v] /\ (d \in RootsOf(man[v]) \/ ~RootInDanger(v, d))
  BY <1>2 DEF Unchecked
<1>3. CASE WriteManifest(c)
  <2>1. /\ j.at = "manifest" /\ q.v = v /\ man'[v] = j.next.man /\ declared' = declared
        /\ ~RootInDanger(v, j.entry.domain) /\ ~Overdue(j)
    BY <1>1, <1>3 DEF WriteManifest, At, Overdue
  <2>2. /\ NoShare(j.next.man.projects) /\ j.entry.domain \in declared[v] /\ man[v] = j.next.was
        /\ RootsOf(j.next.man) \subseteq RootsOf(man[v]) \union {j.entry.domain}
    BY <1>1, <2>1 DEF Rooted, Marked
  <2> QED BY <1>1, <2>1, <2>2 DEF SoundIn
<1>4. CASE LocalFails(c)
  <2>1. /\ j.at = "local" /\ man' = PutBack(c) /\ PutBack(c) # man /\ declared' = declared
    BY <1>4 DEF LocalFails, At
  <2>2. man' = [man EXCEPT ![q.v] = j.next.was]
    BY <2>1 DEF PutBack
  <2>3. q.v = v /\ man'[v] = j.next.was
    BY <1>1, <2>2
  <2>4. ~Unchecked(v, j.next.was) /\ NoShare(j.next.was.projects)
    BY <1>1, <1>4, <2>1, <2>3 DEF LocalFails, Rooted
  <2> QED BY <1>2, <2>1, <2>3, <2>4
<1>5. CASE Found(c)
  <2>1. man'[v] = NewManifest(q.w)
    BY <1>1, <1>5 DEF Found, FoundManifest
  <2> QED BY <2>1 DEF NewManifest, Empty, NoShare, RootsOf
<1>6. CASE Attach(c)
  <2>1. /\ j.at = "attach" /\ q.v = v /\ man'[v] = j.next /\ declared' = declared /\ ~Unchecked(v, j.next)
    BY <1>1, <1>6 DEF Attach, At
  <2> QED BY <1>1, <1>2, <2>1 DEF Rooted
<1>7. CASE ImportProjects(c)
  <2>1. PICK w \in j.next :
          /\ man' = [man EXCEPT ![PathOf(w)] = ManifestFor(@, Entries(c, w))]
          /\ unseen' = (unseen \/ Unchecked(PathOf(w), man'[PathOf(w)]))
    BY <1>7 DEF ImportProjects
  <2>2. j.at = "import" /\ declared' = declared
    BY <1>7 DEF ImportProjects, At
  <2>3. PathOf(w) = v /\ man'[v] = ManifestFor(man[v], Entries(c, w)) /\ ~Unchecked(v, man'[v])
    BY <1>1, <2>1
  <2>4. Entries(c, w) \in ProjectEntries /\ NoShare(Entries(c, w))
    <3>1. CASE w \in DOMAIN j.entry.entries
      BY <1>1, <2>2, <3>1 DEF JobOK, Furnished, IsBackup, Rooted, Entries
    <3>2. CASE w \notin DOMAIN j.entry.entries
      BY <3>2, EmptyIn DEF Entries, ProjectEntries, NoShare
    <3> QED BY <3>1, <3>2
  <2>5. NoShare(man'[v].projects)
    <3> DEFINE es == Entries(c, w)
    <3>1. /\ DOMAIN ManifestFor(man[v], es).projects = DOMAIN es
          /\ \A p \in DOMAIN es : /\ ManifestFor(man[v], es).projects[p].domain = es[p].domain
                                  /\ ManifestFor(man[v], es).projects[p].status = es[p].status
      BY <1>1, <2>4, ManifestForType
    <3> HIDE DEF es
    <3>2. NoShare(ManifestFor(man[v], es).projects)
      BY <2>4, <3>1 DEF NoShare, es
    <3> QED BY <2>3, <3>2 DEF es
  <2> QED BY <1>2, <2>2, <2>3, <2>5
<1>8. CASE ImportFails(c)
  <2> DEFINE ws == j.entry.reg.ws
             restored == {ws[w].path : w \in DOMAIN ws}
  <2>1. /\ j.at = "import" /\ man'[v] = IF v \in restored THEN j.seen.man[v] ELSE man[v]
        /\ declared' = declared /\ \A x \in restored : ~Unchecked(x, j.seen.man[x])
    BY Zenon, <1>8 DEF ImportFails, At
  <2> HIDE DEF restored
  <2>2. man'[v] = j.seen.man[v] /\ ~Unchecked(v, j.seen.man[v])
    BY <2>1
  <2> QED BY <1>1, <1>2, <2>1, <2>2 DEF Rooted
<1>9. CASE Apply(c)
  <2>1. j.at = "apply" /\ j.next # None
    BY <1>9 DEF Apply, At
  <2>2. /\ q.v = v /\ man'[v] = j.next
        /\ (Moved(q, j.next) # {} => ~RootInDanger(v, q.e))
    BY <1>1, <1>9, <2>1 DEF Apply
  <2>3. declared'[v] = Redeclared(q)
    BY <1>9, <2>2 DEF Apply, Types, FilesOK
  <2>4. q.op \in {"rekey", "merge", "domain-adopt"}
    BY <1>1, <2>1 DEF JobOK, Placed, Furnished, DomainOps
  <2>5. NoShare(j.next.projects) /\ Moves(q, man[v].projects, j.next.projects)
    BY <1>1, <2>1, <2>2 DEF Rooted, Marked
  <2>6. ASSUME NEW d \in RootsOf(j.next)
        PROVE  d \in Redeclared(q) /\ (d \in RootsOf(man[v]) \/ ~RootInDanger(v, d))
    <3>1. PICK p \in DOMAIN j.next.projects : d = j.next.projects[p].domain
      BY DEF RootsOf
    <3>2. CASE d = q.e
      <4>1. Moved(q, j.next) # {}
        <5>1. p \in {o \in DOMAIN j.next.projects : j.next.projects[o].domain = q.e}
          BY <3>1, <3>2
        <5>2. <<q.v, p>> \in Moved(q, j.next)
          BY <2>1, <5>1 DEF Moved
        <5> QED BY <5>2
      <4> QED BY <2>2, <2>4, <3>2, <4>1 DEF Redeclared
    <3>3. CASE d # q.e
      <4>1. p \in DOMAIN man[v].projects /\ man[v].projects[p].domain = d /\ (q.op \in {"rekey", "merge"} => d # q.d)
        BY <2>5, <3>1, <3>3 DEF Moves
      <4>2. d \in RootsOf(man[v])
        BY <4>1 DEF RootsOf
      <4> QED BY <1>1, <2>2, <2>4, <4>1, <4>2 DEF SoundIn, Redeclared
    <3> QED BY <3>2, <3>3
  <2> QED BY <2>2, <2>3, <2>5, <2>6
<1>10. ~((\E r \in Requests : Start(c, r)) \/ Refuse(c) \/ Kill(c))
  BY DEF Start, Refuse, Kill, files
<1>11. ~(Show(c) \/ Read(c) \/ Preview(c) \/ Change(c) \/ Check(c) \/ Declare(c) \/ Enter(c) \/ WriteLocal(c))
  BY DEF Show, Read, Preview, Change, Check, Declare, Enter, WriteLocal, files
<1>12. ~(Vacant(c) \/ Scaffold(c) \/ Register(c) \/ SetUp(c) \/ SetDefault(c) \/ Export(c) \/ ExportProjects(c) \/ Import(c))
  BY DEF Vacant, Scaffold, Register, SetUp, SetDefault, Export, ExportProjects, Import, files
<1>13. ~(Plan(c) \/ Hash(c) \/ Commit(c))
  BY DEF Plan, Hash, Commit, files
<1> QED BY <1>3, <1>4, <1>5, <1>6, <1>7, <1>8, <1>9, <1>10, <1>11, <1>12, <1>13
        DEF Acts, ProjectStep, WorkspaceStep, DomainStep

LEMMA SoundStays ==
  ASSUME Types, Kept, Sound, NEW c \in Procs, Acts(c), ~crossed', ~unseen', NEW v \in Vaults
  PROVE  SoundIn(v)'
<1> DEFINE j == job[c]
           q == job[c].req
<1>1. CASE man'[v] # man[v]
  BY <1>1, RootsWritten DEF SoundIn
<1>2. CASE man'[v] = man[v]
  <2>1. NoShare(man[v].projects) /\ RootsOf(man[v]) \subseteq declared[v]
    BY DEF Sound, SoundIn
  <2>2. ASSUME NEW d \in RootsOf(man[v]), d \notin declared'[v] PROVE FALSE
    <3>1. Apply(c) /\ q.v = v /\ q.d = d /\ q.op # "domain-adopt"
      BY <2>1, <2>2, DeclaredStays
    <3>2. j.at = "apply" /\ JobOK(j) /\ Rooted(c) /\ Marked(c) /\ declared'[v] = Redeclared(q)
      BY <3>1 DEF Apply, At, Types, FilesOK, Sound, Kept
    <3>3. q.op \in {"rekey", "merge", "delete"} /\ (q.op = "delete" => j.next = None)
      BY <3>1, <3>2 DEF JobOK, Placed, Furnished, DomainOps
    <3>4. j.next # None
      BY <3>1, <3>2, <3>3 DEF Rooted
    <3>5. man[v] = j.next /\ Moves(q, man[v].projects, j.next.projects)
      BY <1>2, <3>1, <3>2, <3>4 DEF Apply, Types, FilesOK, Rooted, Marked
    <3>6. d = q.e
      BY <3>1, <3>3, <3>4, <3>5 DEF Moves, RootsOf
    <3> QED BY <2>2, <3>2, <3>3, <3>4, <3>6 DEF Redeclared
  <2> QED BY <1>2, <2>1, <2>2 DEF SoundIn
<1> QED BY <1>1, <1>2

(* A confirmed change that nobody has overtaken finds its project as it    *)
(* was: who rewrites it or its Manifest marks the change as overtaken.     *)
LEMMA Overtaken ==
  ASSUME Types, Kept, Sound, NEW c \in Procs, Acts(c), ~crossed', ~unseen', NEW b \in Procs \ {c},
         At(b, "enter"), job[b].req.op \in Confirmed, ~job'[b].overtaken
  PROVE  LET q == job[b].req IN
         /\ q.w \in DOMAIN local'.ws /\ local'.ws[q.w].path = q.v /\ man'[q.v].id # None
         /\ Has(man'[q.v].projects, q.p, job[b].entry)
<1> DEFINE q == job[b].req
           v == job[b].req.v
           p == job[b].req.p
           e == job[b].entry
           j == job[c]
<1>1. Untouched(b) /\ ~job[b].overtaken /\ JobOK(job[b]) /\ JobOK(j) /\ Shapes /\ Marked(c) /\ Rooted(c)
  BY Others DEF Untouching, Untouched, Types, Kept, Sound
<1>2. q.w \in Registered /\ PathOf(q.w) = v /\ man[v].id # None /\ Has(man[v].projects, p, e)
  BY <1>1 DEF Sound, Grounded, At
<1>3. v \in Vaults /\ p \in Projects
  BY <1>1 DEF JobOK, Placed, IsRequest, Or, At, Confirmed, ProjectOps
<1>4. man \in [Vaults -> Manifest] /\ local \in WorkspaceRegistry
  BY DEF Types, FilesOK
<1>5. man'[v].id # None
  BY <1>2, <1>3, Identity DEF Makes
<1>6. LooksElsewhere(b)
  BY <1>1 DEF LooksElsewhere, At
<1>7. ASSUME NEW keys, job'[b] = Overtaking(keys)[b] PROVE <<v, p>> \notin keys
  BY <1>1, <1>6, <1>7, Overtakes
<1>8. ASSUME NEW keys, NEW x, job' = [Overtaking(keys) EXCEPT ![c] = x] PROVE <<v, p>> \notin keys
  <2>1. job'[b] = Overtaking(keys)[b]
    BY <1>1, <1>8, Overtakes
  <2> QED BY <2>1, <1>7
<1>9. ~(Import(c) \/ ImportProjects(c) \/ ImportFails(c))
  <2> SUFFICES ASSUME Import(c) \/ ImportProjects(c) \/ ImportFails(c) PROVE FALSE
    OBVIOUS
  <2>1. \E x : job' = [Overtaking(Everywhere) EXCEPT ![c] = x]
    BY Zenon DEF Import, ImportProjects, ImportFails, Finished
  <2>2. <<v, p>> \in Everywhere
    BY <1>3 DEF Everywhere
  <2> QED BY <1>8, <2>1, <2>2
<1>10. q.w \in DOMAIN local'.ws /\ local'.ws[q.w].path = v
  <2> SUFFICES q.w \in DOMAIN local'.ws /\ local'.ws[q.w].path = local.ws[q.w].path
    BY <1>2 DEF Registered, PathOf
  <2>1. q.w \in DOMAIN local.ws
    BY <1>2 DEF Registered
  <2>2. CASE local' = local
    BY <2>1, <2>2
  <2>3. CASE WriteLocal(c)
    BY Zenon, <1>1, <2>1, <2>3 DEF WriteLocal, Marked, SamePlaces, At
  <2>4. CASE Register(c)
    BY <2>1, <2>4 DEF Register, With, Registered
  <2>5. CASE SetDefault(c)
    <3>1. local'.ws = local.ws
      BY <1>4, <2>5, RegistryParts DEF SetDefault
    <3> QED BY <2>1, <3>1
  <2>6. ~((\E r \in Requests : Start(c, r)) \/ Refuse(c) \/ Kill(c)) \/ local' = local
    BY DEF Start, Refuse, Kill, files
  <2>7. ~ProjectStep(c) \/ WriteLocal(c) \/ local' = local
    BY DEF ProjectStep, Show, Read, Preview, Change, Check, Declare, Enter, WriteManifest, LocalFails, files
  <2>8. ~WorkspaceStep(c) \/ Register(c) \/ SetDefault(c) \/ local' = local
    BY <1>9 DEF WorkspaceStep, Vacant, Scaffold, Found, SetUp, Attach, Export, ExportProjects, files
  <2>9. ~DomainStep(c) \/ local' = local
    BY DEF DomainStep, Plan, Hash, Commit, Apply, files
  <2> QED BY <2>2, <2>3, <2>4, <2>5, <2>6, <2>7, <2>8, <2>9 DEF Acts
<1>11. ASSUME man'[v] # man[v] PROVE Has(man'[v].projects, p, e)
  <2>1. ASSUME j.at \in {"manifest", "local"}, j.req.v = v,
               \E x : job' = [Overtaking({Key(c)}) EXCEPT ![c] = x],
               Besides(man[v], man'[v], j.req.p)
        PROVE  Has(man'[v].projects, p, e)
    <3>1. p # j.req.p
      BY <1>8, <2>1 DEF Key
    <3> QED BY Zenon, <1>2, <1>3, <2>1, <3>1 DEF Besides, Has
  <2>2. CASE WriteManifest(c)
    <3>1. j.at = "manifest" /\ j.req.v = v /\ man'[v] = j.next.man
      BY <1>3, <1>4, <1>11, <2>2 DEF WriteManifest, At
    <3>2. \E x : job' = [Overtaking({Key(c)}) EXCEPT ![c] = x]
      BY <2>2 DEF WriteManifest
    <3>3. Besides(man[v], man'[v], j.req.p)
      BY <1>1, <3>1 DEF Marked
    <3> QED BY <2>1, <3>1, <3>2, <3>3
  <2>3. CASE LocalFails(c)
    <3>1. j.at = "local" /\ j.req.v = v /\ man'[v] = j.next.was
      BY Zenon, <1>3, <1>4, <1>11, <2>3 DEF LocalFails, PutBack, At
    <3>2. ~j.rewritten
      BY <2>3 DEF LocalFails
    <3>3. \E x : job' = [Overtaking({Key(c)}) EXCEPT ![c] = x]
      BY <2>3 DEF LocalFails
    <3>4. man[v] = j.next.man /\ Besides(j.next.was, j.next.man, j.req.p)
      BY <1>1, <3>1, <3>2 DEF Marked
    <3>5. Besides(man[v], man'[v], j.req.p)
      BY <3>1, <3>4 DEF Besides
    <3> QED BY <2>1, <3>1, <3>3, <3>5
  <2>4. CASE Apply(c)
    <3> DEFINE keys == Moved(j.req, j.next)
    <3>1. j.at = "apply" /\ j.next # None /\ j.req.v = v /\ man'[v] = j.next
      BY <1>3, <1>4, <1>11, <2>4 DEF Apply, At
    <3>2. job'[b] = Renamed(b, v, keys, j.req.e)
      BY <2>4, <3>1 DEF Apply
    <3>3. job'[b] = Overtaking(keys)[b]
      BY <3>2 DEF Renamed, At
    <3>4. <<v, p>> \notin keys
      <4> HIDE DEF keys
      <4> QED BY <1>7, <3>3
    <3>5. Moves(j.req, man[v].projects, j.next.projects)
      BY <1>1, <3>1 DEF Rooted, Marked
    <3>6. p \in DOMAIN j.next.projects => j.next.projects[p].domain # j.req.e
      BY <3>1, <3>4 DEF Moved
    <3> QED BY Zenon, <1>2, <3>1, <3>5, <3>6 DEF Moves, Has
  <2>5. ~Found(c) /\ ~Attach(c)
    <3> SUFFICES ASSUME Found(c) \/ Attach(c) PROVE FALSE
      OBVIOUS
    <3>1. j.at \in {"found", "attach"} /\ j.req.v = v
      BY <1>3, <1>4, <1>11 DEF Found, Attach, At
    <3> QED BY <1>1, <1>2, <3>1 DEF Marked, JobOK, Placed
  <2>6. ~((\E r \in Requests : Start(c, r)) \/ Refuse(c) \/ Kill(c))
    BY <1>11 DEF Start, Refuse, Kill, files
  <2>7. ~(Show(c) \/ Read(c) \/ Preview(c) \/ Change(c) \/ Check(c) \/ Declare(c) \/ Enter(c) \/ WriteLocal(c))
    BY <1>11 DEF Show, Read, Preview, Change, Check, Declare, Enter, WriteLocal, files
  <2>8. ~(Vacant(c) \/ Scaffold(c) \/ Register(c) \/ SetUp(c) \/ SetDefault(c) \/ Export(c) \/ ExportProjects(c))
    BY <1>11 DEF Vacant, Scaffold, Register, SetUp, SetDefault, Export, ExportProjects, files
  <2>9. ~(Plan(c) \/ Hash(c) \/ Commit(c))
    BY <1>11 DEF Plan, Hash, Commit, files
  <2> QED BY <1>9, <2>2, <2>3, <2>4, <2>5, <2>6, <2>7, <2>8, <2>9 DEF Acts, ProjectStep, WorkspaceStep, DomainStep
<1> QED BY <1>2, <1>5, <1>10, <1>11

LEMMA GroundedOthers ==
  ASSUME Types, Kept, Sound, NEW c \in Procs, Acts(c), ~crossed', ~unseen', NEW b \in Procs \ {c}
  PROVE  Grounded(b)'
<1> DEFINE j == job[b]
           q == job[b].req
<1>1. Untouched(b) /\ JobOK(j) /\ Grounded(b)
  BY Others DEF Untouching, Types, Sound
<1>2. j.at # "local" => job'[b].entry = j.entry
  BY <1>1 DEF Untouched, Relabelled, At
<1>3. j.at \in {"domain", "enter"} => q.v \in Vaults
  BY InAVault DEF Blind
<1>4. j.at \in {"domain", "enter"} /\ q.op = "create" => man'[q.v] = man[q.v]
  BY <1>3, Blindly DEF WrittenBlindly, Blind
<1>5. ASSUME NEW d \in declared[q.v], j.at = "enter", j.entry.domain = d,
             q.op = "create" \/ d \notin RootsOf(j.seen.man)
      PROVE  d \in declared'[q.v]
  <2> SUFFICES ASSUME d \notin declared'[q.v] PROVE FALSE
    OBVIOUS
  <2>1. job[c].req.v = q.v /\ job[c].req.d = d /\ ~RootTaken(job[c].req)
    BY <1>3, <1>5, DeclaredStays
  <2> QED BY <1>5, <2>1 DEF RootTaken, At
<1>6. j.at = "enter" /\ q.op \in Confirmed /\ ~job'[b].overtaken =>
        /\ q.w \in DOMAIN local'.ws /\ local'.ws[q.w].path = q.v /\ man'[q.v].id # None
        /\ Has(man'[q.v].projects, q.p, j.entry)
  BY Overtaken DEF At
<1> QED BY <1>1, <1>2, <1>4, <1>5, <1>6 DEF Grounded, Untouched, Registered, PathOf

LEMMA RootedOthers ==
  ASSUME Types, Kept, Sound, NEW c \in Procs, Acts(c), ~crossed', ~unseen', NEW b \in Procs \ {c}
  PROVE  Rooted(b)'
<1> DEFINE j == job[b]
           q == job[b].req
<1>1. Untouched(b) /\ JobOK(j) /\ Rooted(b)
  BY Others DEF Untouching, Types, Sound
<1>2. j.at # "local" => job'[b].entry = j.entry
  BY <1>1 DEF Untouched, Relabelled, At
<1>3. j.at \in {"manifest", "commit", "apply"} => q.v \in Vaults
  BY InAVault DEF Blind
<1>4. ASSUME j.at = "manifest", j.entry.domain \in declared[q.v] PROVE j.entry.domain \in declared'[q.v]
  <2> SUFFICES ASSUME j.entry.domain \notin declared'[q.v] PROVE FALSE
    OBVIOUS
  <2>1. job[c].req.v = q.v /\ job[c].req.d = j.entry.domain /\ ~RootTaken(job[c].req)
    BY <1>3, <1>4, DeclaredStays
  <2> QED BY <1>4, <2>1 DEF RootTaken, At
<1>5. ASSUME j.at \in {"commit", "apply"}, j.next = None, q.d \notin RootsOf(man[q.v])
      PROVE  q.d \notin RootsOf(man'[q.v])
  <2> SUFFICES ASSUME q.d \in RootsOf(man'[q.v]) PROVE FALSE
    OBVIOUS
  <2>1. ~RootInDanger(q.v, q.d)
    BY <1>3, <1>5, RootsWritten
  <2> QED BY <1>5, <2>1 DEF RootInDanger
<1>6. Overdue(j) => Overdue(job'[b])
  BY <1>1 DEF Overdue, Untouched
<1> QED BY <1>1, <1>2, <1>4, <1>5, <1>6 DEF Rooted, Untouched

(* What a process finds out before the lock, and what it makes of it.      *)
LEMMA GroundedSelf ==
  ASSUME Types, Kept, Sound, NEW c \in Procs, Acts(c), ~crossed', ~unseen'
  PROVE  Grounded(c)'
<1> DEFINE j == job[c]
           q == job[c].req
           n == job'[c]
           v == PathOf(q.w)
<1>1. JobOK(j) /\ FilesOK /\ DOMAIN j = JobFields /\ DOMAIN job = Procs /\ Shapes /\ Grounded(c)
  BY DEF Types, Shapes, Sound
<1>2. n.at \notin {"domain", "enter"} => Grounded(c)'
  BY DEF Grounded
<1>3. CASE Read(c)
  <2>1. /\ j.at = "read" /\ n.at = "enter" /\ n.req = Current(q) /\ n.entry = AsFilled(j.entry)
        /\ n.seen = Snapshot(q) /\ Prepared(q, j.entry) /\ j.entry.domain \in declared[v]
        /\ declared' = declared
    BY <1>1, <1>3 DEF Read, At_May, At, May, Reach, JobFields, files
  <2>2. IsRequest(q) /\ q.op \in {"adopt", "update"} /\ j.entry \in ProjectEntry /\ q.w \in Registered
    BY <1>1, <2>1 DEF JobOK, Placed, Furnished, Prepared
  <2>3. n.req.v = v /\ n.req.w = q.w /\ n.req.p = q.p /\ n.req.op = q.op
    BY <1>1, <2>1, <2>2, CurrentType
  <2>4. n.entry.domain = j.entry.domain
    BY <2>1, <2>2, AsFilledType
  <2>5. n.seen.local.ws[q.w].path = v /\ n.seen.man = man[v]
    BY <2>1 DEF Snapshot, PathOf
  <2>6. Free(man[v].projects, q.p, j.entry.domain)
    BY Zenon, <2>1 DEF Prepared, Roots, Free
  <2> QED BY <2>1, <2>2, <2>3, <2>4, <2>5, <2>6 DEF Grounded, Confirmed
<1>4. CASE Change(c)
  <2>1. /\ j.at = "change" /\ n.at = "enter" /\ n.req = Current(q) /\ n.entry = Changed(q, Got(q.p).entry)
        /\ (q.op = "bind" => n.seen = Snapshot(q)) /\ CanGet(q.p) /\ Got(q.p) # None /\ Got(q.p).w = q.w
        /\ man' = man /\ local' = local
    BY <1>1, <1>4 DEF Change, At_May, At, May, Reach, JobFields, files
  <2>2. IsRequest(q) /\ q.op \in {"bind", "set", "unbind", "remove"} /\ q.w # None
    BY <1>1, <2>1 DEF JobOK, Placed, Confirmed, ProjectOps
  <2>3. /\ q.w \in Registered /\ q.p \in DOMAIN man[v].projects /\ Got(q.p).entry \in ProjectEntry
        /\ Got(q.p).entry.domain = man[v].projects[q.p].domain
        /\ Got(q.p).entry.status = man[v].projects[q.p].status
    BY <1>1, <2>1, GotType
  <2>4. n.req.v = v /\ n.req.w = q.w /\ n.req.p = q.p /\ n.req.op = q.op
    BY <1>1, <2>1, <2>2, <2>3, CurrentType
  <2>5. n.entry.domain = Got(q.p).entry.domain /\ n.entry.status = Got(q.p).entry.status
    BY <2>1, <2>2, <2>3, ChangedType
  <2>6. q.op = "bind" => n.seen.project = Got(q.p)
    BY <2>1 DEF Snapshot
  <2>7. man[v].id # None
    BY <2>1, <2>2, <2>3 DEF CanGet, CanList
  <2>8. Has(man'[v].projects, q.p, n.entry)
    BY <2>1, <2>3, <2>5 DEF Has
  <2>9. q.w \in DOMAIN local'.ws /\ local'.ws[q.w].path = v
    BY Zenon, <2>1, <2>3 DEF Registered, PathOf
  <2> QED BY Zenon, <2>1, <2>2, <2>4, <2>5, <2>6, <2>7, <2>8, <2>9 DEF Grounded, Confirmed, Registered, PathOf
<1>5. CASE Check(c)
  <2>1. /\ j.at = "check" /\ n.at = "domain" /\ n.req = Current(q) /\ n.entry = AsFilled(Asked(q))
        /\ Prepared(q, Asked(q)) /\ man' = man
    BY <1>1, <1>5 DEF Check, At_May, At, May, Reach, JobFields, files
  <2>2. IsRequest(q) /\ q.op = "create" /\ q.w \in Registered
    BY <1>1, <2>1 DEF JobOK, Placed, Prepared
  <2>3. n.req.v = v /\ n.req.w = q.w /\ n.req.p = q.p /\ n.req.op = q.op /\ n.req.d = q.d
    BY <1>1, <2>1, <2>2, CurrentType
  <2>4. n.entry.domain = q.d /\ Asked(q).domain = q.d
    BY <2>1, <2>2, AskedType, AsFilledType
  <2>5. Free(man[v].projects, q.p, q.d)
    BY Zenon, <2>1, <2>4 DEF Prepared, Roots, Free
  <2> QED BY <2>1, <2>2, <2>3, <2>4, <2>5 DEF Grounded
<1>6. CASE Declare(c)
  <2>1. /\ j.at = "domain" /\ n.at = "enter" /\ n.req = q /\ n.entry = j.entry /\ man' = man
        /\ declared' = [declared EXCEPT ![q.v] = @ \union {q.d}]
    BY <1>1, <1>6 DEF Declare, At_May, At, Go, JobFields
  <2>2. q.op = "create" /\ q.v \in Vaults
    BY <1>1, <2>1, InAVault DEF JobOK, Placed, Blind
  <2>3. q.d \in declared'[q.v]
    BY <1>1, <2>1, <2>2 DEF FilesOK
  <2> QED BY <1>1, <2>1, <2>2, <2>3 DEF Grounded, Confirmed
<1>7. CASE (\E r \in Requests : Start(c, r)) \/ Refuse(c) \/ Kill(c)
  <2>1. CASE \E r \in Requests : Start(c, r)
    <3>1. PICK r \in Requests : Start(c, r)
      BY <2>1
    <3>2. n.at = FirstPlace(r.op) /\ r.op \in Ops
      BY <1>1, <3>1, RequestsAssumption DEF Start, NoJob, IsRequest
    <3>3. n.at \notin {"domain", "enter"}
      BY <3>2 DEF FirstPlace, Ops, ProjectOps, DomainOps
    <3> QED BY <1>2, <3>3
  <2>2. CASE Refuse(c) \/ Kill(c)
    BY <1>1, <1>2, <2>2 DEF Refuse, Kill, Done, NoJob
  <2> QED BY <1>7, <2>1, <2>2
<1>8. CASE Show(c) \/ Preview(c) \/ Enter(c)
  BY <1>1, <1>2, <1>8 DEF Show, Preview, Enter, Reach, JobFields
<1>9. CASE \E keys : \/ job' = [Overtaking(keys) EXCEPT ![c].at = "local"]
                     \/ job' = [Overtaking(keys) EXCEPT ![c] = NoJob]
                     \/ job' = [Overtaking(keys) EXCEPT ![c].at = "import", ![c].entry = backup,
                                  ![c].next = DOMAIN backup.reg.ws, ![c].seen = [local |-> local, man |-> man]]
                     \/ j.at = "import" /\ \E w : job' = [Overtaking(keys) EXCEPT ![c].next = @ \ {w}]
  <2>1. PICK keys : \/ job' = [Overtaking(keys) EXCEPT ![c].at = "local"]
                    \/ job' = [Overtaking(keys) EXCEPT ![c] = NoJob]
                    \/ job' = [Overtaking(keys) EXCEPT ![c].at = "import", ![c].entry = backup,
                                  ![c].next = DOMAIN backup.reg.ws, ![c].seen = [local |-> local, man |-> man]]
                    \/ j.at = "import" /\ \E w : job' = [Overtaking(keys) EXCEPT ![c].next = @ \ {w}]
    BY <1>9
  <2> DEFINE O == Overtaking(keys)
  <2>2. DOMAIN O = Procs /\ DOMAIN O[c] = JobFields /\ O[c].at = j.at
    BY <1>1, Overtakes
  <2> HIDE DEF O
  <2>3. n.at \notin {"domain", "enter"}
    BY <2>1, <2>2 DEF O, NoJob, JobFields
  <2> QED BY <1>2, <2>3
<1>10. CASE WriteManifest(c) \/ WriteLocal(c) \/ LocalFails(c) \/ Import(c) \/ ImportProjects(c) \/ ImportFails(c)
  <2>1. CASE WriteManifest(c) \/ WriteLocal(c) \/ LocalFails(c)
    BY <1>9, <2>1 DEF WriteManifest, WriteLocal, LocalFails
  <2>2. CASE Import(c) \/ ImportProjects(c) \/ ImportFails(c)
    BY ZenonT(30), <1>9, <2>2 DEF Import, ImportProjects, ImportFails, Finished, At
  <2> QED BY <1>10, <2>1, <2>2
<1>11. CASE Vacant(c) \/ Scaffold(c) \/ Register(c) \/ Found(c) \/ Attach(c) \/ SetDefault(c) \/ ExportProjects(c)
  <2>1. n = NoJob \/ n = [j EXCEPT !.at = "scaffold"] \/ n = [j EXCEPT !.at = "register"]
       \/ n = [j EXCEPT !.at = "found"]
    BY <1>1, <1>11, RegistersAs, AttachesAs DEF Vacant, Scaffold, Found, SetDefault, ExportProjects, Go, Done
  <2> QED BY <1>1, <1>2, <2>1 DEF NoJob, JobFields
<1>12. CASE SetUp(c) \/ Export(c)
  <2>1. CASE SetUp(c)
    BY <1>1, <1>2, <2>1 DEF SetUp, Reach, JobFields
  <2>2. CASE Export(c)
    BY <1>1, <1>2, <2>2 DEF Export, Reach, JobFields
  <2> QED BY <1>12, <2>1, <2>2
<1>13. CASE DomainStep(c)
  <2>1. CASE Plan(c)
    BY <1>1, <1>2, <2>1 DEF Plan, Reach, JobFields
  <2>2. CASE Hash(c) \/ Commit(c)
    BY <1>1, <1>2, <2>2 DEF Hash, Commit, Reach, Go, JobFields
  <2>3. CASE Apply(c)
    BY <1>1, <1>2, <2>3 DEF Apply, NoJob
  <2> QED BY <1>13, <2>1, <2>2, <2>3 DEF DomainStep
<1> QED BY <1>3, <1>4, <1>5, <1>6, <1>7, <1>8, <1>10, <1>11, <1>12, <1>13 DEF Acts, ProjectStep, WorkspaceStep

(* Under the lock: the look that is compared tells what the Manifest has.  *)
LEMMA EnterSound ==
  ASSUME Types, Kept, Sound, NEW c \in Procs, Enter(c), ~unseen'
  PROVE  Rooted(c)'
<1> DEFINE j == job[c]
           q == job[c].req
           n == job'[c]
           v == PathOf(q.w)
           e == job[c].entry
           m == man[PathOf(q.w)]
<1>1. JobOK(j) /\ FilesOK /\ DOMAIN j = JobFields /\ DOMAIN job = Procs /\ Grounded(c)
  BY DEF Types, Shapes, Sound
<1>2. /\ j.at = "enter" /\ n.at = "manifest" /\ n.req = Current(q) /\ n.next = Saved(q.w, q.p, e) /\ n.entry = e
      /\ n.overtaken = j.overtaken /\ man' = man /\ declared' = declared
      /\ SameSnapshot(c) /\ (q.op = "create" => q.v = v)
  BY <1>1 DEF Enter, At, Reach, JobFields, SameAsRead, files
<1>3. IsRequest(q) /\ q.op \in ProjectOps /\ q.w # None /\ e \in ProjectEntry
  BY <1>1, <1>2 DEF JobOK, Placed, Furnished
<1>4. q.p \in Projects /\ q.w \in Registered /\ CanList(q.w)
  BY <1>2, <1>3 DEF IsRequest, Or, SameSnapshot
<1>5. n.req.v = v /\ n.req.w = q.w /\ n.req.p = q.p /\ n.req.op = q.op /\ v \in Vaults
  BY <1>1, <1>2, <1>3, <1>4, CurrentType
<1>6. n.next.was = m /\ Replaces(m, n.next.man, q.p, e)
  BY <1>1, <1>2, <1>3, <1>4, SavedType
<1>7. NoShare(m.projects) /\ RootsOf(m) \subseteq declared[v]
  BY <1>5 DEF Sound, SoundIn
<1>8. ASSUME Has(m.projects, q.p, e) PROVE e.domain \in declared[v]
  BY Zenon, <1>7, <1>8 DEF Has, RootsOf
<1>9. ~Overdue(n) => /\ Free(m.projects, q.p, e.domain) \/ Has(m.projects, q.p, e)
                     /\ e.domain \in declared[v]
  <2>1. CASE q.op = "create"
    BY <1>1, <1>2, <2>1 DEF Grounded
  <2>2. CASE q.op \in {"adopt", "update"}
    <3>1. Snapshot(q) = j.seen
      BY <1>2, <2>2 DEF SameSnapshot
    <3>2. j.seen.man = m /\ j.seen.local = local
      BY <3>1 DEF Snapshot
    <3> QED BY Zenon, <1>1, <1>2, <1>7, <2>2, <3>2 DEF Grounded, PathOf
  <2>3. CASE q.op = "bind"
    <3>1. Snapshot(q) = j.seen
      BY <1>2, <2>3 DEF SameSnapshot
    <3>2. j.seen.project = Got(q.p)
      BY <3>1 DEF Snapshot
    <3>3. Got(q.p) # None /\ Got(q.p).w = q.w /\ Got(q.p).entry.domain = e.domain /\ Got(q.p).entry.status = e.status
      BY <1>1, <1>2, <2>3, <3>2 DEF Grounded
    <3>4. Has(m.projects, q.p, e)
      BY <1>1, <3>3, GotType DEF Has
    <3> QED BY <1>8, <3>4
  <2>4. CASE q.op \in Confirmed
    <3>1. ~Overdue(n) => Has(m.projects, q.p, e)
      BY <1>1, <1>2, <1>5, <2>4 DEF Grounded, Overdue
    <3> QED BY <1>8, <3>1
  <2> QED BY <1>3, <2>1, <2>2, <2>3, <2>4 DEF ProjectOps, Confirmed
<1> HIDE DEF m, v
<1>10. ~Overdue(n) => NoShare(n.next.man.projects) /\ RootsOf(n.next.man) \subseteq RootsOf(m) \union {e.domain}
  BY <1>6, <1>7, <1>9, OneFree
<1> QED BY <1>2, <1>5, <1>6, <1>7, <1>9, <1>10 DEF Rooted

LEMMA PlanSound ==
  ASSUME Types, Kept, Sound, NEW c \in Procs, Plan(c), ~unseen'
  PROVE  Rooted(c)'
<1> DEFINE j == job[c]
           q == job[c].req
           n == job'[c]
<1>1. JobOK(j) /\ FilesOK /\ DOMAIN j = JobFields /\ DOMAIN job = Procs
  BY DEF Types, Shapes
<1>2. /\ j.at = "plan" /\ n.at = IF WritesManifest(q) /\ q.op # "rekey" THEN "hash" ELSE "commit"
      /\ n.req = q /\ n.seen.man = man[q.v] /\ n.next = IF WritesManifest(q) THEN Rebound(q) ELSE None
      /\ MayPlan(q) /\ man' = man /\ q.w \in Registered /\ PathOf(q.w) = q.v
  <2>1. MayPlan(q) /\ j.at = "plan" /\ man' = man /\ ~HasMoved(q)
    BY DEF Plan, At_May, At, May, files
  <2> DEFINE x == IF WritesManifest(q) /\ q.op # "rekey" THEN "hash" ELSE "commit"
             r == IF WritesManifest(q) THEN Rebound(q) ELSE None
             s == [man |-> man[q.v], declared |-> declared[q.v]]
  <2>2. job' = [job EXCEPT ![c] = [[j EXCEPT !.next = r, !.seen = s] EXCEPT !.at = x]]
    BY DEF Plan, Reach
  <2> HIDE DEF x, r, s
  <2>3. n.at = x /\ n.req = q /\ n.next = r /\ n.seen = s
    BY <1>1, <2>2 DEF JobFields
  <2> QED BY <2>1, <2>3 DEF HasMoved, x, r, s
<1>3. IsRequest(q) /\ q.op \in DomainOps /\ q.v \in Vaults
  BY <1>1, <1>2, InAVault DEF JobOK, Placed
<1>4. NoShare(man[q.v].projects) /\ RootsOf(man[q.v]) \subseteq declared[q.v]
  BY <1>3 DEF Sound, SoundIn
<1>5. CASE WritesManifest(q)
  <2>1. Rebound(q) # None
    BY <1>1, <1>3, ReboundType, NoneAssumption
  <2>2. q.op # "delete"
    BY <1>5 DEF WritesManifest, Affected
  <2>3. q.e \notin RootsOf(man[q.v])
    <3>1. CASE q.op = "merge"
      BY Zenon, <1>2, <3>1 DEF MayPlan, Roots, RootsOf
    <3>2. CASE q.op # "merge"
      BY <1>2, <1>3, <1>4, <2>2, <3>2 DEF MayPlan, DomainOps
    <3> QED BY <3>1, <3>2
  <2>4. NoShare(Rebound(q).projects) /\ Moves(q, man[q.v].projects, Rebound(q).projects)
    BY <1>1, <1>2, <1>3, <1>4, <2>3, ReboundSound
  <2> QED BY <1>2, <1>5, <2>1, <2>4 DEF Rooted
<1>6. CASE ~WritesManifest(q)
  <2>1. n.at = "commit" /\ n.next = None
    BY <1>2, <1>6
  <2>2. q.op \in {"rekey", "merge"} => q.d \notin RootsOf(man[q.v])
    BY Zenon, <1>2, <1>6 DEF WritesManifest, Affected, Own, RootsOf
  <2>3. q.op = "delete" => q.d \notin RootsOf(man[q.v])
    BY Zenon, <1>2 DEF MayPlan, Roots, RootsOf
  <2> QED BY <1>2, <2>1, <2>2, <2>3 DEF Rooted
<1> QED BY <1>5, <1>6

LEMMA RootedSelf ==
  ASSUME Types, Kept, Sound, NEW c \in Procs, Acts(c), ~crossed', ~unseen'
  PROVE  Rooted(c)'
<1> DEFINE j == job[c]
           q == job[c].req
           n == job'[c]
           Quiet == {"idle", "show", "read", "preview", "change", "check", "domain", "enter", "plan", "vacant",
                     "scaffold",
                     "register", "found", "setup", "default", "export", "export-projects", "replace"}
<1>1. JobOK(j) /\ FilesOK /\ DOMAIN j = JobFields /\ DOMAIN job = Procs /\ Shapes /\ Rooted(c) /\ Marked(c)
  BY DEF Types, Shapes, Sound, Kept
<1>2. n.at \in Quiet => Rooted(c)'
  BY DEF Rooted
<1> HIDE DEF Quiet
<1>3. CASE (\E r \in Requests : Start(c, r)) \/ Refuse(c) \/ Kill(c)
  <2>1. CASE \E r \in Requests : Start(c, r)
    <3>1. PICK r \in Requests : Start(c, r)
      BY <2>1
    <3>2. n.at = FirstPlace(r.op) /\ r.op \in Ops
      BY <1>1, <3>1, RequestsAssumption DEF Start, NoJob, IsRequest
    <3> QED BY <1>2, <3>2 DEF FirstPlace, Ops, ProjectOps, DomainOps, Quiet
  <2>2. CASE Refuse(c) \/ Kill(c)
    BY <1>1, <1>2, <2>2 DEF Refuse, Kill, Done, NoJob, Quiet
  <2> QED BY <1>3, <2>1, <2>2
<1>4. CASE Show(c) \/ Read(c) \/ Preview(c) \/ Change(c) \/ Check(c) \/ Declare(c)
  <2>1. CASE Show(c) \/ Read(c) \/ Preview(c)
    BY <1>1, <1>2, <2>1 DEF Show, Read, Preview, Reach, JobFields, Quiet
  <2>2. CASE Change(c) \/ Check(c) \/ Declare(c)
    BY <1>1, <1>2, <2>2 DEF Change, Check, Declare, Reach, Go, JobFields, Quiet
  <2> QED BY <1>4, <2>1, <2>2
<1>5. CASE WriteManifest(c)
  <2> DEFINE O == Overtaking({Key(c)})
  <2>1. DOMAIN O = Procs /\ DOMAIN O[c] = JobFields /\ O[c].next = j.next /\ j.at = "manifest"
    BY ZenonT(30), <1>1, <1>5, Overtakes DEF WriteManifest, At
  <2>2. job' = [O EXCEPT ![c].at = "local"]
    BY <1>5 DEF WriteManifest
  <2> HIDE DEF O
  <2>3. n.at = "local" /\ n.next = j.next
    BY <2>1, <2>2 DEF JobFields
  <2> QED BY <1>1, <2>1, <2>3 DEF Rooted
<1>6. CASE WriteLocal(c) \/ LocalFails(c) \/ ImportFails(c)
  <2>1. PICK keys : job' = [Overtaking(keys) EXCEPT ![c] = NoJob]
    BY <1>6 DEF WriteLocal, LocalFails, ImportFails
  <2>2. DOMAIN Overtaking(keys) = Procs
    BY <1>1, Overtakes
  <2>3. n = NoJob
    BY <2>1, <2>2
  <2> QED BY <1>2, <2>3 DEF NoJob, Quiet
<1>7. CASE Vacant(c) \/ Scaffold(c) \/ Register(c) \/ Found(c) \/ Attach(c) \/ SetDefault(c) \/ ExportProjects(c)
  <2>1. n = NoJob \/ n = [j EXCEPT !.at = "scaffold"] \/ n = [j EXCEPT !.at = "register"]
       \/ n = [j EXCEPT !.at = "found"]
    BY <1>1, <1>7, RegistersAs, AttachesAs DEF Vacant, Scaffold, Found, SetDefault, ExportProjects, Go, Done
  <2> QED BY <1>1, <1>2, <2>1 DEF NoJob, JobFields, Quiet
<1>8. CASE SetUp(c)
  <2> DEFINE id == IF man[q.v].id = None THEN q.w ELSE man[q.v].id
             P == IF id \in Registered THEN man[PathOf(id)].projects ELSE Empty
  <2>1. n.at \in {"attach", "register"} /\ n.next = [NewManifest(id) EXCEPT !.projects = P]
    BY <1>1, <1>8 DEF SetUp, Reach, JobFields
  <2>2. NoShare(P)
    <3>1. id \in Registered => NoShare(man[PathOf(id)].projects)
      BY <1>1, ListedType DEF Sound, SoundIn
    <3>2. NoShare(Empty)
      BY DEF NoShare, Empty
    <3> QED BY <3>1, <3>2
  <2> HIDE DEF id, P
  <2>3. n.next.projects = P
    BY <2>1 DEF NewManifest
  <2> QED BY <2>1, <2>2, <2>3 DEF Rooted
<1>9. CASE Export(c)
  BY <1>1, <1>2, <1>9 DEF Export, Reach, JobFields, Quiet
<1>10. CASE Import(c) \/ ImportProjects(c)
  <2> DEFINE O == Overtaking(Everywhere)
  <2>1. DOMAIN O = Procs /\ DOMAIN O[c] = JobFields /\ O[c].at = j.at /\ O[c].seen = j.seen /\ O[c].entry = j.entry
    BY <1>1, Overtakes
  <2>2. \/ job' = [O EXCEPT ![c] = NoJob]
        \/ /\ backup # None
           /\ job' = [O EXCEPT ![c].at = "import", ![c].entry = backup, ![c].next = DOMAIN backup.reg.ws,
                               ![c].seen = [local |-> local, man |-> man]]
        \/ j.at = "import" /\ \E w : job' = [O EXCEPT ![c].next = @ \ {w}]
    BY Zenon, <1>10 DEF Import, ImportProjects, Finished, At, At_May, May, Importable
  <2> HIDE DEF O
  <2>3. \/ n = NoJob
        \/ n.at = "import" /\ backup # None /\ n.entry = backup /\ n.seen.man = man
        \/ n.at = "import" /\ j.at = "import" /\ n.entry = j.entry /\ n.seen = j.seen
    BY <2>1, <2>2 DEF JobFields
  <2>4. CASE n = NoJob
    BY <1>2, <2>4 DEF NoJob, Quiet
  <2>5. CASE n.at = "import" /\ backup # None /\ n.entry = backup /\ n.seen.man = man
    BY <2>5 DEF Rooted, Sound, SoundIn
  <2>6. CASE n.at = "import" /\ j.at = "import" /\ n.entry = j.entry /\ n.seen = j.seen
    BY <1>1, <2>6 DEF Rooted
  <2> QED BY <2>3, <2>4, <2>5, <2>6
<1>11. CASE Hash(c)
  <2>1. /\ j.at = "hash" /\ n.at = "commit" /\ n.next = j.next /\ n.req = q
        /\ n.seen = [j.seen EXCEPT !.man = man[q.v]]
    BY <1>1, <1>11 DEF Hash, At, Reach, JobFields
  <2>2. j.next # None /\ DOMAIN j.seen = {"man", "declared"}
    BY <1>1, <2>1 DEF Rooted, JobOK, Furnished
  <2>3. n.seen.man = j.seen.man
    BY <1>1, <2>1, <2>2 DEF Marked
  <2> QED BY <1>1, <2>1, <2>2, <2>3 DEF Rooted
<1>12. CASE Commit(c)
  <2>1. j.at = "commit" /\ n.at = "apply" /\ n.next = j.next /\ n.req = q /\ n.seen = j.seen /\ man' = man
    BY <1>1, <1>12 DEF Commit, At_May, At, Go, JobFields, files
  <2> QED BY <1>1, <2>1 DEF Rooted
<1>13. CASE Apply(c)
  BY <1>1, <1>2, <1>13 DEF Apply, NoJob, Quiet
<1> QED BY <1>3, <1>4, <1>5, <1>6, <1>7, <1>8, <1>9, <1>10, <1>11, <1>12, <1>13, EnterSound, PlanSound
        DEF Acts, ProjectStep, WorkspaceStep, DomainStep

LEMMA SoundStep ==
  ASSUME Types, Kept, Sound, NEW c \in Procs, Acts(c), ~crossed', ~unseen'
  PROVE  Sound'
<1>1. \A v \in Vaults : SoundIn(v)'
  BY SoundStays
<1>2. \A b \in Procs : Grounded(b)' /\ Rooted(b)'
  BY GroundedSelf, GroundedOthers, RootedSelf, RootedOthers
<1>3. backup' # None => \A w \in DOMAIN backup'.entries : NoShare(backup'.entries[w])
  <2>1. CASE ExportProjects(c)
    <3>1. backup'.entries = [w \in Registered |-> Listed(w)]
      BY <2>1 DEF ExportProjects
    <3>2. ASSUME NEW w \in Registered PROVE NoShare(Listed(w))
      <4>1. /\ PathOf(w) \in Vaults /\ DOMAIN Listed(w) = DOMAIN man[PathOf(w)].projects
            /\ \A p \in DOMAIN Listed(w) : /\ Listed(w)[p].domain = man[PathOf(w)].projects[p].domain
                                           /\ Listed(w)[p].status = man[PathOf(w)].projects[p].status
        BY ListedType DEF Types
      <4>2. NoShare(man[PathOf(w)].projects)
        BY <4>1 DEF Sound, SoundIn
      <4> QED BY <4>1, <4>2 DEF NoShare
    <3> QED BY <3>1, <3>2
  <2>2. CASE backup' = backup
    BY <2>2 DEF Sound
  <2>3. ExportProjects(c) \/ backup' = backup
    <3>1. CASE (\E r \in Requests : Start(c, r)) \/ Refuse(c) \/ Kill(c)
      BY <3>1 DEF Start, Refuse, Kill, files
    <3>2. CASE ProjectStep(c)
      BY <3>2 DEF ProjectStep, Show, Read, Preview, Change, Check, Declare, Enter, WriteManifest, WriteLocal, LocalFails, files
    <3>3. CASE WorkspaceStep(c)
      BY Zenon, <3>3 DEF WorkspaceStep, Vacant, Scaffold, Register, Found, SetUp, Attach, SetDefault,
                  Export, Import, ImportProjects, ImportFails, files
    <3>4. CASE DomainStep(c)
      BY <3>4 DEF DomainStep, Plan, Hash, Commit, Apply, files
    <3> QED BY <3>1, <3>2, <3>3, <3>4 DEF Acts
  <2> QED BY <2>1, <2>2, <2>3
<1> QED BY <1>1, <1>2, <1>3 DEF Sound

SoundInv == KeptInv /\ (~crossed /\ ~unseen => Sound)

LEMMA SoundInit == Init => SoundInv
<1> SUFFICES ASSUME Init PROVE SoundInv
  OBVIOUS
<1>1. PICK s \in Starts : man = s.man /\ declared = s.declared
  BY DEF Init
<1>2. \A v \in Vaults : SoundIn(v)
  BY <1>1, StartsAssumption DEF IsStart, SoundIn, NoShare, RootsOf
<1>3. \A b \in Procs : job[b].at = "idle"
  BY DEF Init, NoJob
<1> QED BY <1>2, <1>3, KeptInit DEF SoundInv, Init, Sound, Grounded, Rooted

LEMMA SoundKept == SoundInv /\ [Next]_vars => SoundInv'
<1> SUFFICES ASSUME SoundInv, [Next]_vars PROVE SoundInv'
  OBVIOUS
<1>1. KeptInv'
  BY KeptStays DEF SoundInv
<1>2. CASE UNCHANGED vars
  <2>1. /\ local' = local /\ man' = man /\ declared' = declared /\ backup' = backup /\ job' = job
        /\ crossed' = crossed /\ unseen' = unseen
    BY <1>2 DEF vars, files, history
  <2>2. ASSUME NEW b \in Procs, Grounded(b), Rooted(b) PROVE Grounded(b)' /\ Rooted(b)'
    <3>1. Grounded(b)'
      BY <2>1, <2>2 DEF Grounded, Registered, PathOf
    <3>2. Rooted(b)'
      BY <2>1, <2>2 DEF Rooted, Overdue
    <3> QED BY <3>1, <3>2
  <2>3. \A v \in Vaults : SoundIn(v) => SoundIn(v)'
    BY <2>1 DEF SoundIn
  <2> QED BY <1>1, <2>1, <2>2, <2>3 DEF SoundInv, Sound
<1>3. ASSUME NEW c \in Procs, Acts(c) PROVE SoundInv'
  BY <1>1, <1>3, SoundStep, Blindly, Noticed DEF SoundInv, KeptInv
<1> QED BY <1>2, <1>3 DEF Next, Acts

(* Every project has a root that is declared in its Vault, and no two      *)
(* active projects share one, whatever commands are refused, overtaken, or *)
(* killed between two of their steps (ProjectService, project_root_map).   *)
THEOREM RootsStaySound == Spec => []RootsSound
<1>1. SoundInv => RootsSound
  <2> SUFFICES ASSUME SoundInv, ~crossed, ~unseen, NEW w \in Registered
               PROVE  LET v == PathOf(w)
                          P == DOMAIN man[v].projects
                      IN (\A p \in P : RootDeclared(v, p)) /\ (\A p, o \in P : p # o => ~ActiveShare(v, p, o))
    BY DEF RootsSound
  <2>1. PathOf(w) \in Vaults
    BY ListedType DEF SoundInv, KeptInv, Types
  <2>2. SoundIn(PathOf(w))
    BY <2>1 DEF SoundInv, Sound
  <2> QED BY <2>2 DEF SoundIn, NoShare, RootsOf, RootDeclared, ActiveShare
<1> QED BY <1>1, SoundInit, SoundKept, PTL DEF Spec


----------------------------------------------------------------------------
(* What a project is in the two files: what is saved is what will be read, *)
(* and what is saved beside it stays as it was.                            *)
AsRead(e, binds, p) ==
  [e EXCEPT !.repos = [r \in DOMAIN e.repos |-> [meta |-> e.repos[r], path |-> Bound(binds, p, r)]]]

LEMMA JoinedAt ==
  ASSUME NEW m, NEW binds, NEW p \in DOMAIN m.projects
  PROVE  Joined(m, binds)[p] = AsRead(m.projects[p], binds, p)
<1> QED BY DEF Joined, AsRead

LEMMA PortableRead ==
  ASSUME NEW e \in ManifestProject, NEW binds, NEW p
  PROVE  Portable(AsRead(e, binds, p)) = e
<1>1. e = [domain |-> e.domain, status |-> e.status, repos |-> e.repos] /\ e.repos \in Partial(Repos, Or(Urls))
  BY DEF ManifestProject
<1>2. e.repos = [r \in DOMAIN e.repos |-> e.repos[r]]
  BY <1>1, PartialType
<1> DEFINE both == [r \in DOMAIN e.repos |-> [meta |-> e.repos[r], path |-> Bound(binds, p, r)]]
<1>3. [r \in DOMAIN both |-> both[r].meta] = e.repos
  BY <1>2
<1>4. AsRead(e, binds, p) = [domain |-> e.domain, status |-> e.status, repos |-> both]
  BY <1>1 DEF AsRead
<1> HIDE DEF both
<1>5. Portable(AsRead(e, binds, p)) = [domain |-> e.domain, status |-> e.status, repos |-> [r \in DOMAIN both |-> both[r].meta]]
  BY <1>4 DEF Portable
<1> QED BY <1>1, <1>3, <1>5

LEMMA ReadPortable ==
  ASSUME NEW e \in ProjectEntry, NEW binds, NEW p,
         \A r \in DOMAIN e.repos : Bound(binds, p, r) = e.repos[r].path
  PROVE  AsRead(Portable(e), binds, p) = e
<1>1. e = [domain |-> e.domain, status |-> e.status, repos |-> e.repos] /\ e.repos \in Partial(Repos, RepositoryEntry)
  BY DEF ProjectEntry
<1>2. e.repos = [r \in DOMAIN e.repos |-> e.repos[r]]
  BY <1>1, PartialType
<1>a. ASSUME NEW r \in DOMAIN e.repos
      PROVE  e.repos[r] = [meta |-> e.repos[r].meta, path |-> e.repos[r].path]
  <2>1. e.repos[r] \in RepositoryEntry
    BY <1>1, PartialValue
  <2> QED BY <2>1 DEF RepositoryEntry
<1> DEFINE metas == [r \in DOMAIN e.repos |-> e.repos[r].meta]
           both == [r \in DOMAIN metas |-> [meta |-> metas[r], path |-> Bound(binds, p, r)]]
<1>3. Portable(e) = [domain |-> e.domain, status |-> e.status, repos |-> metas]
  BY <1>1 DEF Portable
<1>b. both = [r \in DOMAIN e.repos |-> [meta |-> e.repos[r].meta, path |-> e.repos[r].path]]
  OBVIOUS
<1>c. both = [r \in DOMAIN e.repos |-> e.repos[r]]
  BY <1>a, <1>b
<1>4. both = e.repos
  BY <1>2, <1>c
<1> HIDE DEF metas, both
<1>5. AsRead(Portable(e), binds, p) = [domain |-> e.domain, status |-> e.status, repos |-> both]
  BY <1>3 DEF AsRead, both
<1> QED BY <1>1, <1>4, <1>5

LEMMA ReadMoved ==
  ASSUME NEW e \in ManifestProject, NEW d \in Domains, NEW binds, NEW p
  PROVE  AsRead([e EXCEPT !.domain = d], binds, p) = [AsRead(e, binds, p) EXCEPT !.domain = d]
<1>1. e = [domain |-> e.domain, status |-> e.status, repos |-> e.repos]
  BY DEF ManifestProject
<1> DEFINE both == [r \in DOMAIN e.repos |-> [meta |-> e.repos[r], path |-> Bound(binds, p, r)]]
<1>2. AsRead(e, binds, p) = [domain |-> e.domain, status |-> e.status, repos |-> both]
  BY <1>1 DEF AsRead
<1>3. [e EXCEPT !.domain = d] = [domain |-> d, status |-> e.status, repos |-> e.repos]
  BY <1>1
<1>4. AsRead([domain |-> d, status |-> e.status, repos |-> e.repos], binds, p)
      = [domain |-> d, status |-> e.status, repos |-> both]
  BY DEF AsRead
<1> HIDE DEF both
<1>5. [AsRead(e, binds, p) EXCEPT !.domain = d] = [domain |-> d, status |-> e.status, repos |-> both]
  BY <1>2
<1> QED BY <1>3, <1>4, <1>5

LEMMA BoundFor ==
  ASSUME NEW binds, NEW es \in ProjectEntries, NEW p \in DOMAIN es, NEW r \in DOMAIN es[p].repos
  PROVE  Bound(BindsFor(binds, es), p, r) = es[p].repos[r].path
<1> DEFINE here == {k \in (DOMAIN es) \X Repos : k[2] \in DOMAIN es[k[1]].repos /\ es[k[1]].repos[k[2]].path # None}
           kept == {k \in DOMAIN binds : k[1] \notin DOMAIN es}
           B == BindsFor(binds, es)
<1>1. r \in Repos
  <2>1. es[p] \in ProjectEntry
    BY PartialValue DEF ProjectEntries
  <2> QED BY <2>1, PartialValue DEF ProjectEntry
<1>2. /\ DOMAIN B = here \union kept
      /\ \A k \in here \union kept : B[k] = IF k \in here THEN es[k[1]].repos[k[2]].path ELSE binds[k]
  BY DEF BindsFor
<1>3. <<p, r>> \notin kept
  OBVIOUS
<1>4. <<p, r>> \in here <=> es[p].repos[r].path # None
  BY <1>1
<1>5. <<p, r>> \in here => B[<<p, r>>] = es[p].repos[r].path
  BY <1>2
<1> HIDE DEF here, kept, B
<1> QED BY <1>2, <1>3, <1>4, <1>5 DEF Bound, B

LEMMA SavedIsRead ==
  ASSUME NEW m \in Manifest, NEW binds, NEW es \in ProjectEntries, NEW p \in DOMAIN es
  PROVE  /\ p \in DOMAIN ManifestFor(m, es).projects
         /\ Joined(ManifestFor(m, es), BindsFor(binds, es))[p] = es[p]
<1>1. DOMAIN ManifestFor(m, es).projects = DOMAIN es /\ ManifestFor(m, es).projects[p] = Portable(es[p])
  BY ManifestParts DEF ManifestFor
<1>2. es[p] \in ProjectEntry
  BY PartialValue DEF ProjectEntries
<1>3. AsRead(Portable(es[p]), BindsFor(binds, es), p) = es[p]
  BY <1>2, BoundFor, ReadPortable
<1> QED BY <1>1, <1>3, JoinedAt

LEMMA SavedIsKept ==
  ASSUME NEW m \in Manifest, NEW binds, NEW es \in ProjectEntries, NEW p \in DOMAIN m.projects,
         p \in DOMAIN es, es[p] = Joined(m, binds)[p]
  PROVE  p \in DOMAIN ManifestFor(m, es).projects /\ ManifestFor(m, es).projects[p] = m.projects[p]
<1>1. DOMAIN ManifestFor(m, es).projects = DOMAIN es /\ ManifestFor(m, es).projects[p] = Portable(es[p])
  BY ManifestParts DEF ManifestFor
<1>2. m.projects[p] \in ManifestProject
  BY ManifestParts
<1> QED BY <1>1, <1>2, JoinedAt, PortableRead

LEMMA SavedStands ==
  ASSUME FilesOK, NEW w \in Registered, NEW p \in Projects, NEW e \in ProjectEntry
  PROVE  LET s == Saved(w, p, e)
             m == man[PathOf(w)]
             old == local.ws[w].binds
             new == s.local.ws[w].binds
         IN /\ p \in DOMAIN s.man.projects /\ Joined(s.man, new)[p] = e
            /\ \A o \in DOMAIN m.projects \ {p} :
                 /\ o \in DOMAIN s.man.projects
                 /\ Joined(s.man, old)[o] = Joined(m, old)[o] /\ Joined(s.man, new)[o] = Joined(m, old)[o]
            /\ \A x \in Registered \ {w} : s.local.ws[x] = local.ws[x]
<1> DEFINE m == man[PathOf(w)]
           old == local.ws[w].binds
           es == With(Listed(w), p, e)
           b == BindsFor(old, es)
           s == Saved(w, p, e)
<1>1. /\ m \in Manifest /\ local \in WorkspaceRegistry /\ w \in DOMAIN local.ws
      /\ Listed(w) \in ProjectEntries /\ DOMAIN Listed(w) = DOMAIN m.projects
  BY ListedType DEF FilesOK, Registered
<1>2. es \in ProjectEntries /\ DOMAIN es = DOMAIN m.projects \union {p} /\ es[p] = e
      /\ \A o \in DOMAIN m.projects \ {p} : es[o] = Listed(w)[o]
  <2>1. es \in ProjectEntries
    BY <1>1, WithType DEF ProjectEntries
  <2> QED BY <1>1, <2>1 DEF With
<1>3. Listed(w) = Joined(m, old)
  BY DEF Listed, PathOf
<1>4. s.man = ManifestFor(m, es) /\ s.local = [local EXCEPT !.ws[w].binds = b]
  BY DEF Saved
<1>5. local.ws \in [DOMAIN local.ws -> WorkspaceEntry] /\ local = [ws |-> local.ws, default |-> local.default]
  BY <1>1, RegistryParts
<1> HIDE DEF es
<1>6. s.local.ws[w].binds = b /\ \A x \in Registered \ {w} : s.local.ws[x] = local.ws[x]
  <2> HIDE DEF b, s
  <2>1. s.local.ws = [local.ws EXCEPT ![w] = [local.ws[w] EXCEPT !.binds = b]]
    BY <1>4, <1>5
  <2>2. [local.ws[w] EXCEPT !.binds = b].binds = b
    BY <1>1, <1>5 DEF WorkspaceEntry
  <2> QED BY <1>1, <2>1, <2>2 DEF Registered
<1> HIDE DEF s, m, old
<1>7. p \in DOMAIN s.man.projects /\ Joined(s.man, b)[p] = e
  BY <1>1, <1>2, <1>4, SavedIsRead
<1>8. ASSUME NEW o \in DOMAIN m.projects \ {p}
      PROVE  /\ o \in DOMAIN s.man.projects
             /\ Joined(s.man, old)[o] = Joined(m, old)[o] /\ Joined(s.man, b)[o] = Joined(m, old)[o]
  <2>1. o \in DOMAIN es /\ es[o] = Joined(m, old)[o]
    BY <1>2, <1>3
  <2>2. o \in DOMAIN s.man.projects /\ s.man.projects[o] = m.projects[o]
    BY <1>1, <1>2, <1>4, <2>1, SavedIsKept
  <2>3. Joined(s.man, old)[o] = Joined(m, old)[o]
    BY <2>2, JoinedAt
  <2>4. Joined(s.man, b)[o] = es[o]
    BY <1>1, <1>2, <1>4, <2>1, SavedIsRead DEF b
  <2> QED BY <2>1, <2>2, <2>3, <2>4
<1> QED BY <1>6, <1>7, <1>8 DEF s, m, old

----------------------------------------------------------------------------
(* What was acknowledged is in the files, or a process is about to put it  *)
(* there.  k is <<Vault, Project>>.                                        *)
Says(m, binds, k, x) == k[2] \in DOMAIN m.projects /\ Joined(m, binds)[k[2]] = x
HeldIn(l, m, k, x) == \E w \in DOMAIN l.ws : l.ws[w].path = k[1] /\ Says(m[k[1]], l.ws[w].binds, k, x)
OneEach(l) == \A w, x \in DOMAIN l.ws : l.ws[w].path = l.ws[x].path => w = x

(* Between the two writes: what local.yaml will say, what it says still if *)
(* it is not written, and what both say if the Manifest is put back.       *)
Filed(b) ==
  LET j == job[b]
      v == j.req.v
      w == j.req.w
      m == IF At(b, "local") THEN man[v] ELSE j.next.man
      old == local.ws[w].binds
      new == j.next.local.ws[w].binds
  IN j.at \in {"manifest", "local"} =>
     /\ w \in Registered /\ PathOf(w) = v
     /\ \A x \in Registered \ {w} : j.next.local.ws[x] = local.ws[x]
     /\ Says(m, new, Key(b), j.entry)
     /\ \A k \in DOMAIN acked : k[1] = v /\ k[2] # j.req.p => Says(m, old, k, acked[k]) /\ Says(m, new, k, acked[k])
     /\ At(b, "local") /\ ~j.rewritten => \A k \in DOMAIN acked : k[1] = v => Says(j.next.was, old, k, acked[k])

(* What an import puts back if it fails.                                   *)
Restorable(b) ==
  LET before == job[b].seen
      ws == job[b].entry.reg.ws
  IN At(b, "import") =>
     /\ \A k \in DOMAIN acked : HeldIn(before.local, before.man, k, acked[k])
     /\ \A v \in Vaults : man[v] = before.man[v] \/ \E w \in DOMAIN ws : ws[w].path = v
     /\ \A w \in DOMAIN ws : man[ws[w].path].id # None

(* What a domain command will write of the Manifest it was made from.      *)
Rebinds(b) ==
  LET j == job[b]
      m == j.seen.man
  IN j.at \in {"hash", "commit", "apply"} /\ j.next # None =>
     /\ DOMAIN j.next.projects = DOMAIN m.projects
     /\ \A p \in DOMAIN m.projects : \/ j.next.projects[p] = m.projects[p]
                                     \/ j.next.projects[p] = [m.projects[p] EXCEPT !.domain = j.req.e]
Apart(b) ==
  /\ At(b, "import") => OneEach(job[b].entry.reg) /\ OneEach(job[b].seen.local)
  /\ At(b, "export-projects") => OneEach(job[b].next)

Acknowledged ==
  /\ OneEach(local) /\ (backup # None => OneEach(backup.reg))
  /\ \A k \in DOMAIN acked : k \in Vaults \X Projects /\ man[k[1]].id # None
  /\ \A k \in DOMAIN acked : Writing(k[1]) \/ HeldIn(local, man, k, acked[k])
  /\ \A b \in Procs : Filed(b) /\ Restorable(b) /\ Rebinds(b) /\ Apart(b)

LEMMA OneEachStays ==
  ASSUME Types, Kept, Acknowledged, NEW c \in Procs, Acts(c)
  PROVE  /\ OneEach(local)' /\ (backup' # None => OneEach(backup.reg)')
         /\ \A b \in Procs : Apart(b)'
<1>1. OneEach(local)'
  <2>1. CASE SamePlaces(local, local')
    BY <2>1 DEF SamePlaces, Acknowledged, OneEach
  <2>2. CASE Registers(c)
    BY <2>2 DEF Registers, Acknowledged, OneEach
  <2>3. CASE Import(c) /\ local' = backup.reg /\ backup # None
    BY <2>3 DEF Acknowledged, OneEach
  <2>4. CASE ImportFails(c) /\ At(c, "import") /\ local' = job[c].seen.local
    BY <2>4 DEF Acknowledged, Apart, OneEach
  <2> QED BY <2>1, <2>2, <2>3, <2>4, Places
<1>2. backup' # None => OneEach(backup.reg)'
  BY BackedUp DEF Acknowledged, Apart, OneEach
<1>3. ASSUME NEW b \in Procs \ {c} PROVE Apart(b)'
  <2>1. Untouched(b) /\ Apart(b)
    BY Others DEF Untouching, Acknowledged
  <2> QED BY <2>1 DEF Untouched, Relabelled, Apart, At, OneEach
<1>4. Apart(c)'
  <2>1. CameWith(c) /\ Apart(c) /\ OneEach(local) /\ (backup # None => OneEach(backup.reg))
    BY Arrival DEF Acknowledged
  <2>2. Import(c) => backup # None
    BY DEF Import, At_May, At, May, Importable
  <2>3. ImportProjects(c) => At(c, "import")
    BY DEF ImportProjects
  <2> QED BY <2>1, <2>2, <2>3 DEF CameWith, Apart, At, OneEach
<1> QED BY <1>1, <1>2, <1>3, <1>4

(* Beside a process in a section of the lock of CAMPFIRE_HOME only a       *)
(* domain command writes a Manifest that belongs to a Workspace.           *)
LEMMA Beside ==
  ASSUME Types, NEW c \in Procs, Acts(c), NEW b \in Procs \ {c}, job[b].at \in InHome
  PROVE  local' = local /\ job[c].at \notin InHome /\ (Apply(c) \/ (job'[b] = job[b] /\ acked' = acked))
<1>1. ~HomeFree /\ job[c].at \notin InHome /\ DOMAIN job = Procs
  BY DEF HomeFree, Types, Alone, Shapes
<1>2. local' = local
  BY <1>1, Deeds DEF Deed
<1>3. CASE (\E r \in Requests : Start(c, r)) \/ Refuse(c)
  BY <1>1, <1>2, <1>3 DEF Start, Refuse, Done, history
<1>4. CASE Kill(c)
  <2>1. ~At(c, "local") /\ ~At(c, "import")
    BY <1>1 DEF At, InHome
  <2> QED BY <1>1, <1>2, <1>4, <2>1 DEF Kill, Done
<1>5. CASE ProjectStep(c)
  <2>1. ~(Declare(c) \/ Enter(c) \/ WriteManifest(c) \/ WriteLocal(c) \/ LocalFails(c))
    BY <1>1 DEF Declare, Enter, WriteManifest, WriteLocal, LocalFails, At, InHome
  <2> QED BY <1>1, <1>2, <1>5, <2>1 DEF ProjectStep, Show, Read, Preview, Change, Check, Reach, history
<1>6. CASE WorkspaceStep(c)
  <2>1. ~(Register(c) \/ SetDefault(c) \/ Import(c) \/ ImportProjects(c) \/ ImportFails(c))
    BY <1>1 DEF Register, SetDefault, Import, ImportProjects, ImportFails, At, InHome
  <2>2. CASE Attach(c)
    <3> DEFINE O == Overtaking(InVaultOf(job[c].req, job[c].next))
    <3>1. job' = [O EXCEPT ![c].at = "register"] /\ acked' = acked
      BY <2>2 DEF Attach
    <3>2. ~LooksElsewhere(b)
      BY DEF LooksElsewhere, At, InHome
    <3>3. O[b] = job[b] /\ DOMAIN O = Procs
      BY <3>2, OvertakesNot, Overtakes DEF Types
    <3> HIDE DEF O
    <3>4. job'[b] = job[b]
      BY <3>1, <3>3
    <3> QED BY <1>1, <1>2, <3>1, <3>4
  <2> QED BY <1>1, <1>2, <1>6, <2>1, <2>2
        DEF WorkspaceStep, Vacant, Scaffold, Found, SetUp, Export, ExportProjects, Reach, Go, Done, history
<1>7. CASE DomainStep(c)
  BY <1>1, <1>2, <1>7 DEF DomainStep, Plan, Hash, Commit, Reach, Go, history
<1> QED BY <1>3, <1>4, <1>5, <1>6, <1>7 DEF Acts

(* A domain command moves what is acknowledged along with the Manifest.    *)
Rebinding(m, n, d) ==
  /\ DOMAIN n.projects = DOMAIN m.projects
  /\ \A p \in DOMAIN m.projects : \/ n.projects[p] = m.projects[p]
                                  \/ n.projects[p] = [m.projects[p] EXCEPT !.domain = d]

LEMMA RebindingSays ==
  ASSUME NEW m \in Manifest, NEW n, NEW d \in Domains, Rebinding(m, n, d),
         NEW binds, NEW k, NEW x, Says(m, binds, k, x)
  PROVE  /\ n.projects[k[2]].domain = d => Says(n, binds, k, [x EXCEPT !.domain = d])
         /\ n.projects[k[2]].domain # d => Says(n, binds, k, x)
         /\ [x EXCEPT !.domain = x.domain] = x
<1> DEFINE p == k[2]
           e == m.projects[p]
<1>1. p \in DOMAIN m.projects /\ p \in DOMAIN n.projects /\ x = AsRead(e, binds, p) /\ e \in ManifestProject
  BY JoinedAt, ManifestParts DEF Says, Rebinding
<1>2. Joined(n, binds)[p] = AsRead(n.projects[p], binds, p)
  BY <1>1, JoinedAt
<1>3. e = [domain |-> e.domain, status |-> e.status, repos |-> e.repos] /\ e.domain \in Domains
  BY <1>1 DEF ManifestProject
<1>4. PICK r : x = [domain |-> e.domain, status |-> e.status, repos |-> r]
  BY <1>1, <1>3 DEF AsRead
<1>5. [x EXCEPT !.domain = x.domain] = x /\ x.domain = e.domain
  BY <1>4
<1>6. CASE n.projects[p] = e
  BY <1>1, <1>2, <1>3, <1>5, <1>6 DEF Says
<1>7. CASE n.projects[p] = [e EXCEPT !.domain = d]
  <2>1. n.projects[p].domain = d
    BY <1>3, <1>7
  <2>2. Joined(n, binds)[p] = [x EXCEPT !.domain = d]
    BY <1>1, <1>2, <1>7, ReadMoved
  <2> QED BY <1>1, <1>5, <2>1, <2>2 DEF Says
<1> QED BY <1>1, <1>5, <1>6, <1>7 DEF Rebinding

(* What is acknowledged of it, or will be when local.yaml is written.       *)
Along(n, d, k, x) == IF n.projects[k[2]].domain = d THEN [x EXCEPT !.domain = d] ELSE x

LEMMA SaysAlong ==
  ASSUME NEW m \in Manifest, NEW n, NEW d \in Domains, Rebinding(m, n, d),
         NEW binds, NEW k, NEW x, Says(m, binds, k, x)
  PROVE  Says(n, binds, k, Along(n, d, k, x))
<1>1. CASE n.projects[k[2]].domain = d
  <2>1. Along(n, d, k, x) = [x EXCEPT !.domain = d]
    BY <1>1 DEF Along
  <2>2. Says(n, binds, k, [x EXCEPT !.domain = d])
    BY <1>1, RebindingSays
  <2> QED BY <2>1, <2>2
<1>2. CASE n.projects[k[2]].domain # d
  <2>1. Along(n, d, k, x) = x
    BY <1>2 DEF Along
  <2>2. Says(n, binds, k, x)
    BY <1>2, RebindingSays
  <2> QED BY <2>1, <2>2
<1> QED BY <1>1, <1>2

LEMMA StepOfApply ==
  ASSUME Types, NEW c \in Procs, Apply(c)
  PROVE  LET q == job[c].req
             next == job[c].next
             keys == Moved(q, next)
         IN /\ DOMAIN acked' = DOMAIN acked /\ local' = local
            /\ \A k \in DOMAIN acked : acked'[k] = IF k \in keys THEN [acked[k] EXCEPT !.domain = q.e] ELSE acked[k]
            /\ next = None => keys = {} /\ man' = man
            /\ next # None => /\ man' = [man EXCEPT ![q.v] = next] /\ next \in Manifest /\ q.e \in Domains
                              /\ keys = {q.v} \X {p \in DOMAIN next.projects : next.projects[p].domain = q.e}
                              /\ crossed' = (crossed \/ WrittenBlindly(c, q.v))
            /\ \A b \in Procs \ {c} : IF next = None THEN job'[b] = job[b] ELSE job'[b] = Renamed(b, q.v, keys, q.e)
<1> DEFINE q == job[c].req
           next == job[c].next
           keys == Moved(q, next)
<1>1. JobOK(job[c]) /\ job[c].at = "apply"
  BY DEF Types, Apply, At
<1>2. next \in Or(Manifest) /\ IsRequest(q) /\ q.op \in DomainOps /\ (q.op = "delete" => next = None)
  BY <1>1 DEF JobOK, Placed, Furnished
<1>3. next # None => next \in Manifest /\ q.e \in Domains
  BY <1>2 DEF Or, IsRequest, DomainOps
<1>4. acked' = [k \in DOMAIN acked |-> IF k \in keys THEN [acked[k] EXCEPT !.domain = q.e] ELSE acked[k]]
  BY DEF Apply
<1>5. IF next = None THEN UNCHANGED <<man, crossed>>
      ELSE man' = [man EXCEPT ![q.v] = next] /\ crossed' = (crossed \/ WrittenBlindly(c, q.v))
  BY DEF Apply
<1>6. job' = [b \in Procs |-> IF b = c THEN NoJob ELSE IF next = None THEN job[b] ELSE Renamed(b, q.v, keys, q.e)]
  BY DEF Apply
<1>7. local' = local
  BY DEF Apply
<1>8. keys = IF next = None THEN {} ELSE {q.v} \X {p \in DOMAIN next.projects : next.projects[p].domain = q.e}
  BY DEF Moved
<1>9. \A b \in Procs \ {c} : IF next = None THEN job'[b] = job[b] ELSE job'[b] = Renamed(b, q.v, keys, q.e)
  BY <1>6
<1> HIDE DEF keys
<1>10. /\ DOMAIN acked' = DOMAIN acked
       /\ \A k \in DOMAIN acked : acked'[k] = IF k \in keys THEN [acked[k] EXCEPT !.domain = q.e] ELSE acked[k]
  BY <1>4
<1> QED BY <1>3, <1>5, <1>7, <1>8, <1>9, <1>10 DEF keys

LEMMA RebindsStay ==
  ASSUME Types, Kept, Acknowledged, NEW c \in Procs, Acts(c), ~crossed', NEW b \in Procs
  PROVE  Rebinds(b)'
<1>1. CASE b # c
  <2>1. Untouched(b) /\ Rebinds(b)
    BY <1>1, Others DEF Untouching, Acknowledged
  <2> QED BY <2>1 DEF Untouched, Rebinds
<1>2. CASE b = c
  <2> DEFINE j == job[c]
             n == job'[c]
             q == job[c].req
  <2>0. CameWith(c) /\ Rebinds(c) /\ Marked(c) /\ JobOK(j)
    BY Arrival DEF Acknowledged, Kept, Types
  <2>1. n.at \in {"hash", "commit", "apply"} => Plan(c) \/ Hash(c) \/ Commit(c)
    BY <2>0 DEF CameWith
  <2>2. CASE n.at \notin {"hash", "commit", "apply"}
    BY <1>2, <2>2 DEF Rebinds
  <2>3. CASE Plan(c) /\ n.at \in {"hash", "commit", "apply"}
    <3>1. At(c, "plan") /\ (WritesManifest(q) => ~HasMoved(q))
      BY <2>3 DEF Plan, At_May
    <3>2. n.req = q /\ n.seen.man = man[q.v] /\ n.next = IF WritesManifest(q) THEN Rebound(q) ELSE None
      BY <2>0, <2>3, <3>1 DEF CameWith, Hash, Commit, At, At_May
    <3>3. CASE ~WritesManifest(q)
      BY <1>2, <3>2, <3>3 DEF Rebinds
    <3>4. CASE WritesManifest(q)
      <4>1. q.w \in Registered /\ PathOf(q.w) = q.v
        BY <3>1, <3>4 DEF HasMoved
      <4>2. Own(q.w) = man[q.v].projects
        BY <4>1 DEF Own
      <4>3. man[q.v] \in Manifest
        BY <4>1, ListedType DEF Types, FilesOK
      <4>4. /\ DOMAIN Rebound(q).projects = DOMAIN man[q.v].projects
            /\ \A p \in DOMAIN man[q.v].projects :
                 \/ Rebound(q).projects[p] = man[q.v].projects[p]
                 \/ Rebound(q).projects[p] = [man[q.v].projects[p] EXCEPT !.domain = q.e]
        BY Zenon, <4>2, <4>3, ManifestParts DEF Rebound
      <4> QED BY <1>2, <3>2, <3>4, <4>4 DEF Rebinds
    <3> QED BY <3>3, <3>4
  <2>4. CASE Hash(c) /\ n.at \in {"hash", "commit", "apply"}
    <3>1. j.at = "hash" /\ n.req = q /\ n.next = j.next /\ n.seen.man = man[q.v]
      BY <2>0, <2>4 DEF CameWith, Plan, Hash, Commit, At, At_May
    <3>2. n.next # None => n.seen.man = j.seen.man
      BY <2>0, <3>1 DEF Marked
    <3> QED BY <1>2, <2>0, <3>1, <3>2 DEF Rebinds
  <2>5. CASE Commit(c) /\ n.at \in {"hash", "commit", "apply"}
    <3>1. j.at = "commit" /\ n.req = q /\ n.next = j.next /\ n.seen = j.seen
      BY <2>0, <2>5 DEF CameWith, Plan, Hash, Commit, At, At_May
    <3> QED BY <1>2, <2>0, <3>1 DEF Rebinds
  <2> QED BY <2>1, <2>2, <2>3, <2>4, <2>5
<1> QED BY <1>1, <1>2

LEMMA ViewHeld ==
  ASSUME NEW l, NEW m, NEW k \in DOMAIN View(l, m)
  PROVE  /\ HeldIn(l, m, k, View(l, m)[k]) /\ k \in Vaults \X Projects
         /\ \E w \in DOMAIN l.ws : l.ws[w].path = k[1]
<1> DEFINE w == CHOOSE w \in DOMAIN l.ws : l.ws[w].path = k[1]
<1>1. k \in Vaults \X Projects /\ \E x \in DOMAIN l.ws : l.ws[x].path = k[1] /\ k[2] \in DOMAIN m[k[1]].projects
  BY DEF View
<1>2. View(l, m)[k] = Joined(m[k[1]], l.ws[w].binds)[k[2]]
  BY DEF View
<1>3. w \in DOMAIN l.ws /\ l.ws[w].path = k[1]
  BY <1>1
<1> HIDE DEF w
<1> QED BY <1>1, <1>2, <1>3 DEF HeldIn, Says

(* k is held by the one Workspace at its Vault.                            *)
LEMMA HeldBy ==
  ASSUME OneEach(local), NEW w \in Registered, NEW k, NEW x, k[1] = PathOf(w), HeldIn(local, man, k, x)
  PROVE  Says(man[PathOf(w)], local.ws[w].binds, k, x)
<1> QED BY DEF OneEach, HeldIn, Registered, PathOf

LEMMA FiledOthers ==
  ASSUME Types, Kept, Acknowledged, NEW c \in Procs, Acts(c), ~crossed', NEW b \in Procs \ {c}
  PROVE  Filed(b)'
<1> DEFINE j == job[b]
           v == j.req.v
           w == j.req.w
           old == local.ws[w].binds
           new == j.next.local.ws[w].binds
<1>1. Untouched(b) /\ Filed(b) /\ Marked(b) /\ JobOK(j) /\ FilesOK /\ DOMAIN j = JobFields
  BY Others DEF Untouching, Acknowledged, Kept, Types, Shapes
<1>2. SUFFICES ASSUME j.at \in {"manifest", "local"} PROVE Filed(b)'
  BY Zenon, <1>1 DEF Untouched, Filed
<1>3. j.at \in InHome
  BY <1>2 DEF InHome
<1>4. local' = local /\ job[c].at \notin InHome /\ (Apply(c) \/ (job'[b] = j /\ acked' = acked))
  BY <1>3, Beside
<1>5. v \in Vaults /\ man[v].id # None
  BY <1>1, <1>2, InAVault DEF Marked, Blind, JobOK, Placed
<1>6. ~(WriteManifest(c) \/ LocalFails(c) \/ ImportProjects(c) \/ ImportFails(c))
  BY <1>4 DEF WriteManifest, LocalFails, ImportProjects, ImportFails, At, InHome
<1>7. CASE ~Apply(c)
  <2>1. man'[v] = man[v]
    BY <1>5, <1>6, <1>7, Writers
  <2> QED BY Zenon, <1>1, <1>4, <1>7, <2>1 DEF Filed, At, Key, Registered, PathOf
<1>8. CASE Apply(c)
  <2> DEFINE q == job[c].req
             next == job[c].next
             keys == Moved(q, next)
  <2>1. /\ DOMAIN acked' = DOMAIN acked
        /\ \A k \in DOMAIN acked : acked'[k] = IF k \in keys THEN [acked[k] EXCEPT !.domain = q.e] ELSE acked[k]
        /\ next = None => keys = {} /\ man' = man
        /\ next # None => /\ man' = [man EXCEPT ![q.v] = next] /\ next \in Manifest /\ q.e \in Domains
                          /\ keys = {q.v} \X {p \in DOMAIN next.projects : next.projects[p].domain = q.e}
                          /\ crossed' = (crossed \/ WrittenBlindly(c, q.v))
        /\ IF next = None THEN job'[b] = j ELSE job'[b] = Renamed(b, q.v, keys, q.e)
    BY <1>8, StepOfApply
  <2>2. CASE next = None \/ q.v # v
    <3>1. man'[v] = man[v] /\ \A k \in DOMAIN acked : k[1] = v => acked'[k] = acked[k]
      BY <1>1, <1>5, <2>1, <2>2 DEF FilesOK
    <3>2. job'[b] = j
      <4>1. ~LooksElsewhere(b)
        BY <1>2 DEF LooksElsewhere, At
      <4> QED BY <2>1, <2>2, <4>1 DEF Renamed, Overtaking
    <3> QED BY ZenonT(30), <1>1, <1>4, <2>1, <3>1, <3>2 DEF Filed, At, Key, Registered, PathOf
  <2>3. CASE next # None /\ q.v = v
    <3>1. j.at = "local"
      BY <1>2, <2>1, <2>3 DEF WrittenBlindly, Blind
    <3>2. man'[v] = next /\ man[v] \in Manifest
      BY <1>1, <1>5, <2>1, <2>3 DEF FilesOK
    <3>3. Rebinding(man[v], next, q.e)
      <4>1. Rebinds(c) /\ Marked(c) /\ job[c].at = "apply"
        BY <1>8 DEF Acknowledged, Kept, Apply, At
      <4>2. job[c].seen.man = man[v]
        BY <2>3, <4>1 DEF Marked
      <4> QED BY Zenon, <2>3, <4>1, <4>2 DEF Rebinds, Rebinding
    <3>a. q.e \in Domains
      BY <2>1, <2>3
    <3>4. ASSUME NEW k \in DOMAIN acked, k[1] = v, k[2] # j.req.p
          PROVE  Says(next, old, k, acked'[k]) /\ Says(next, new, k, acked'[k])
      <4>1. Says(man[v], old, k, acked[k]) /\ Says(man[v], new, k, acked[k])
        BY Zenon, <1>1, <3>1, <3>4 DEF Filed, At
      <4>2. k \in keys <=> next.projects[k[2]].domain = q.e
        <5>1. k \in Vaults \X Projects
          BY DEF Acknowledged
        <5>2. k[2] \in DOMAIN next.projects
          BY Zenon, <3>3, <4>1 DEF Says, Rebinding
        <5> QED BY <2>1, <2>3, <3>4, <5>1, <5>2
      <4>3. acked'[k] = Along(next, q.e, k, acked[k])
        <5> HIDE DEF keys
        <5> QED BY <2>1, <4>2 DEF Along
      <4> HIDE DEF keys, next, old, new, q
      <4>4. Says(next, old, k, Along(next, q.e, k, acked[k])) /\ Says(next, new, k, Along(next, q.e, k, acked[k]))
        BY <3>2, <3>3, <3>a, <4>1, SaysAlong
      <4> QED BY <4>3, <4>4
    <3>5. job'[b] = [j EXCEPT !.rewritten = TRUE, !.entry.domain = IF Key(b) \in keys THEN q.e ELSE @]
      BY <2>1, <2>3, <3>1 DEF Renamed, At
    <3>6. job'[b].rewritten /\ job'[b].entry = [j.entry EXCEPT !.domain = IF Key(b) \in keys THEN q.e ELSE j.entry.domain]
      BY <1>1, <3>5 DEF JobFields
    <3>7. Says(next, new, Key(b), job'[b].entry)
      <4>1. Says(man[v], new, Key(b), j.entry)
        BY Zenon, <1>1, <3>1 DEF Filed, At
      <4>2. Key(b) \in keys <=> next.projects[Key(b)[2]].domain = q.e
        <5>1. Key(b)[2] \in DOMAIN next.projects
          BY Zenon, <3>3, <4>1 DEF Says, Rebinding
        <5> QED BY <2>1, <2>3, <5>1 DEF Key
      <4>3. [j.entry EXCEPT !.domain = j.entry.domain] = j.entry
        BY <1>1, <1>2 DEF JobOK, Furnished, ProjectEntry
      <4> HIDE DEF keys, next, old, new, q
      <4>4. job'[b].entry = Along(next, q.e, Key(b), j.entry)
        BY <3>6, <4>2, <4>3 DEF Along
      <4>5. Says(next, new, Key(b), Along(next, q.e, Key(b), j.entry))
        BY <3>2, <3>3, <3>a, <4>1, SaysAlong
      <4> QED BY <4>4, <4>5
    <3>8. job'[b].at = "local" /\ job'[b].req = j.req /\ job'[b].next = j.next
      BY <1>1, <3>1 DEF Untouched
    <3>9. Key(b)' = Key(b)
      BY <3>8 DEF Key
    <3>10. w \in Registered /\ PathOf(w) = v /\ \A x \in Registered \ {w} : j.next.local.ws[x] = local.ws[x]
      BY <1>1, <1>2 DEF Filed
    <3>11. DOMAIN acked' = DOMAIN acked
      BY <2>1
    <3>12. Says(man'[v], j.next.local.ws[w].binds, Key(b), job'[b].entry)
      BY <3>2, <3>7
    <3>13. \A k \in DOMAIN acked' : k[1] = v /\ k[2] # j.req.p =>
             Says(man'[v], local.ws[w].binds, k, acked'[k]) /\ Says(man'[v], j.next.local.ws[w].binds, k, acked'[k])
      BY <3>2, <3>4, <3>11
    <3>14. /\ job'[b].at = "local" /\ job'[b].rewritten /\ job'[b].next = j.next
           /\ job'[b].req.v = v /\ job'[b].req.w = w /\ job'[b].req.p = j.req.p /\ local' = local
      BY <1>4, <3>6, <3>8
    <3> HIDE DEF keys, next, q, old, new, v, w, j
    <3> QED BY <3>9, <3>10, <3>12, <3>13, <3>14 DEF Filed, At, Registered, PathOf
  <2> QED BY <2>2, <2>3
<1> QED BY <1>7, <1>8

(* Nobody else is between his two writes or in an import.                  *)
LEMMA NobodyWrites ==
  ASSUME Types, Acknowledged, NEW c \in Procs, HomeFree \/ job[c].at \in InHome,
         ~At(c, "import"), NEW k \in DOMAIN acked, At(c, "local") => job[c].req.v # k[1]
  PROVE  HeldIn(local, man, k, acked[k])
<1>1. ~Writing(k[1])
  BY DEF Writing, HomeFree, InHome, Types, Alone, At
<1> QED BY <1>1 DEF Acknowledged

LEMMA FiledSelf ==
  ASSUME Types, Kept, Acknowledged, NEW c \in Procs, Acts(c), ~crossed'
  PROVE  Filed(c)'
<1> DEFINE j == job[c]
           n == job'[c]
           q == job[c].req
<1>1. CameWith(c) /\ Filed(c) /\ Marked(c) /\ JobOK(j) /\ FilesOK
  BY Arrival DEF Acknowledged, Kept, Types
<1>2. CASE n.at \notin {"manifest", "local"}
  BY <1>2 DEF Filed
<1>3. CASE n.at = "manifest"
  <2> DEFINE w == q.w
             v == PathOf(w)
             s == Saved(w, q.p, j.entry)
             old == local.ws[w].binds
             new == s.local.ws[w].binds
  <2>1. Enter(c) /\ n.req = Current(q) /\ n.entry = j.entry /\ n.next = s
    BY <1>1, <1>3 DEF CameWith
  <2>2. j.at = "enter" /\ HomeFree /\ w \in Registered /\ man' = man /\ local' = local /\ acked' = acked
    BY <2>1 DEF Enter, At, SameAsRead, SameSnapshot, files
  <2>3. IsRequest(q) /\ q.p \in Projects /\ j.entry \in ProjectEntry
    BY <1>1, <2>2 DEF JobOK, Placed, Furnished, IsRequest, Or
  <2>4. n.req.v = v /\ n.req.w = w /\ n.req.p = q.p
    BY <1>1, <2>1, <2>2, <2>3, CurrentType
  <2>5. ASSUME NEW k \in DOMAIN acked, k[1] = v PROVE Says(man[v], old, k, acked[k])
    <3>1. HeldIn(local, man, k, acked[k])
      BY <2>2, NobodyWrites DEF At
    <3> QED BY <2>2, <2>5, <3>1, HeldBy DEF Acknowledged
  <2>6. /\ q.p \in DOMAIN s.man.projects /\ Joined(s.man, new)[q.p] = j.entry
        /\ \A o \in DOMAIN man[v].projects \ {q.p} :
             /\ o \in DOMAIN s.man.projects
             /\ Joined(s.man, old)[o] = Joined(man[v], old)[o] /\ Joined(s.man, new)[o] = Joined(man[v], old)[o]
        /\ \A x \in Registered \ {w} : s.local.ws[x] = local.ws[x]
    <3>1. FilesOK
      BY <1>1
    <3> HIDE DEF j, q
    <3> QED BY <2>2, <2>3, <3>1, SavedStands
  <2> HIDE DEF s, old, new
  <2>7. Says(s.man, new, <<v, q.p>>, j.entry)
    BY <2>6 DEF Says
  <2>8. ASSUME NEW k \in DOMAIN acked, k[1] = v, k[2] # q.p
        PROVE  Says(s.man, old, k, acked[k]) /\ Says(s.man, new, k, acked[k])
    BY <2>5, <2>6, <2>8 DEF Says
  <2>9. Key(c)' = <<v, q.p>>
    BY <2>4 DEF Key
  <2>10. /\ w \in Registered /\ local' = local /\ acked' = acked
         /\ n.at = "manifest" /\ n.next = s /\ n.entry = j.entry
    BY <1>3, <2>1, <2>2
  <2> USE DEF old, new
  <2> HIDE DEF j, q, n
  <2> QED BY Zenon, <2>4, <2>6, <2>7, <2>8, <2>9, <2>10 DEF Filed, At, Registered, PathOf, n
<1>4. CASE n.at = "local"
  <2> DEFINE w == q.w
             v == q.v
             old == local.ws[w].binds
             new == j.next.local.ws[w].binds
  <2>1. WriteManifest(c) /\ n.req = q /\ n.entry = j.entry /\ n.next = j.next
    BY <1>1, <1>4 DEF CameWith
  <2>2. j.at = "manifest" /\ local' = local /\ acked' = acked /\ man[v] = j.next.was
    BY <1>1, <2>1 DEF WriteManifest, At, Marked
  <2>3. v \in Vaults /\ man \in [Vaults -> Manifest]
    BY <1>1, <2>2, InAVault DEF Blind, FilesOK
  <2>4. man'[v] = j.next.man
    BY <2>1, <2>2, <2>3 DEF WriteManifest
  <2>5. /\ w \in Registered /\ PathOf(w) = v
        /\ \A x \in Registered \ {w} : j.next.local.ws[x] = local.ws[x]
        /\ Says(j.next.man, new, Key(c), j.entry)
        /\ \A k \in DOMAIN acked : k[1] = v /\ k[2] # q.p =>
             Says(j.next.man, old, k, acked[k]) /\ Says(j.next.man, new, k, acked[k])
    BY Zenon, <1>1, <2>2 DEF Filed, At
  <2>6. ASSUME NEW k \in DOMAIN acked, k[1] = v PROVE Says(j.next.was, old, k, acked[k])
    <3>1. HeldIn(local, man, k, acked[k])
      BY <2>2, NobodyWrites DEF At, InHome
    <3> QED BY Zenon, <2>2, <2>5, <2>6, <3>1, HeldBy DEF Acknowledged
  <2>7. Key(c)' = Key(c)
    BY <2>1 DEF Key
  <2> QED BY ZenonT(30), <1>4, <2>1, <2>2, <2>4, <2>5, <2>6, <2>7 DEF Filed, At, Registered, PathOf
<1> QED BY <1>2, <1>3, <1>4

(* The Manifest stays while somebody imports, or he would put back another.*)
LEMMA RestorableOthers ==
  ASSUME Types, Acknowledged, NEW c \in Procs, Acts(c), ~crossed', NEW b \in Procs \ {c}
  PROVE  Restorable(b)'
<1>1. Untouched(b) /\ Restorable(b)
  BY Others DEF Untouching, Acknowledged
<1>2. SUFFICES ASSUME At(b, "import") PROVE Restorable(b)'
  BY Zenon, <1>1 DEF Untouched, Restorable, At
<1>3. \A v \in Vaults : man'[v] = man[v]
  BY <1>2, Blindly DEF WrittenBlindly, At
<1>4. Apply(c) \/ (job'[b] = job[b] /\ acked' = acked)
  BY <1>2, Beside DEF At, InHome
<1>5. job'[b] = job[b] /\ DOMAIN acked' = DOMAIN acked /\ \A k \in DOMAIN acked : acked'[k] = acked[k]
  <2>1. CASE Apply(c)
    <3>1. job[c].next = None
      BY <1>2, <2>1, StepOfApply DEF WrittenBlindly, At
    <3> QED BY <2>1, <3>1, StepOfApply
  <2> QED BY <1>4, <2>1
<1>6. \A v \in Vaults : man'[v] = job[b].seen.man[v] \/ \E w \in DOMAIN job[b].entry.reg.ws : job[b].entry.reg.ws[w].path = v
  BY <1>1, <1>2, <1>3 DEF Restorable
<1>7. \A w \in DOMAIN job[b].entry.reg.ws : man'[job[b].entry.reg.ws[w].path].id # None
  <2>1. ASSUME NEW w \in DOMAIN job[b].entry.reg.ws PROVE job[b].entry.reg.ws[w].path \in Vaults
    BY <1>2, RegistryParts DEF Types, JobOK, Furnished, IsBackup, At
  <2> QED BY Zenon, <1>1, <1>2, <1>3, <2>1 DEF Restorable
<1> QED BY Zenon, <1>1, <1>2, <1>5, <1>6, <1>7 DEF Restorable, At

LEMMA RestorableSelf ==
  ASSUME Types, Kept, Acknowledged, NEW c \in Procs, Acts(c), ~crossed'
  PROVE  Restorable(c)'
<1> DEFINE j == job[c]
           n == job'[c]
<1>1. CameWith(c) /\ Restorable(c) /\ Marked(c) /\ JobOK(j) /\ FilesOK /\ Imported(c)
  BY Arrival DEF Acknowledged, Kept, Types
<1>2. SUFFICES ASSUME n.at = "import" PROVE Restorable(c)'
  BY Zenon DEF Restorable, At
<1>3. acked' = acked
  BY <1>1, <1>2 DEF CameWith
<1>4. CASE Import(c) /\ n.entry = backup /\ n.seen = [local |-> local, man |-> man]
  <2>1. man' = man /\ HomeFree /\ At(c, "replace") /\ Importable
    BY <1>4 DEF Import, At_May, At, May
  <2>2. \A k \in DOMAIN acked : HeldIn(local, man, k, acked[k])
    BY <2>1, NobodyWrites DEF At
  <2>3. \A w \in DOMAIN backup.reg.ws : man[backup.reg.ws[w].path].id # None
    BY <2>1 DEF Importable
  <2> QED BY <1>3, <1>4, <2>1, <2>2, <2>3 DEF Restorable
<1>5. CASE ImportProjects(c) /\ n.entry = j.entry /\ n.seen = j.seen
  <2> DEFINE ws == j.entry.reg.ws
  <2>1. PICK w \in j.next : man' = [man EXCEPT ![PathOf(w)] = ManifestFor(@, Entries(c, w))]
    BY <1>5 DEF ImportProjects
  <2>2. j.at = "import" /\ w \in DOMAIN ws /\ PathOf(w) = ws[w].path
    BY <1>1, <1>5, <2>1 DEF ImportProjects, At, JobOK, Furnished, Imported
  <2>3. \A v \in Vaults : man'[v] = j.seen.man[v] \/ \E x \in DOMAIN ws : ws[x].path = v
    BY Zenon, <1>1, <2>1, <2>2 DEF Restorable, At, FilesOK
  <2>4. \A x \in DOMAIN ws : man'[ws[x].path].id # None
    <3> SUFFICES ASSUME NEW x \in DOMAIN ws PROVE man'[ws[x].path].id # None
      OBVIOUS
    <3>1. ws[x].path \in Vaults
      BY <1>1, <2>2, RegistryParts DEF JobOK, Furnished, IsBackup
    <3>2. man[ws[x].path].id # None
      BY Zenon, <1>1, <2>2 DEF Restorable, At
    <3> QED BY <3>1, <3>2, Identity DEF Makes
  <2>5. \A k \in DOMAIN acked : HeldIn(j.seen.local, j.seen.man, k, acked[k])
    BY <1>1, <2>2 DEF Restorable, At
  <2> QED BY Zenon, <1>3, <1>5, <2>3, <2>4, <2>5 DEF Restorable
<1> QED BY <1>1, <1>2, <1>4, <1>5 DEF CameWith

(* What a step does to what is acknowledged.                               *)
LEMMA Remembers ==
  ASSUME NEW c \in Procs, Acts(c)
  PROVE  \/ DOMAIN acked' \subseteq DOMAIN acked /\ (Apply(c) \/ \A k \in DOMAIN acked' : acked'[k] = acked[k])
         \/ WriteLocal(c)
         \/ (Import(c) \/ ImportProjects(c)) /\ acked' = View(local', man')
<1>1. CASE acked' = acked
  BY <1>1
<1>2. CASE Kill(c)
  <2>1. acked' = Keep(acked, DOMAIN acked \ {<<job[c].req.v, job[c].req.p>>}) \/ acked' = [k \in {} |-> None] \/ acked' = acked
    BY <1>2 DEF Kill
  <2> QED BY <2>1 DEF Keep
<1>3. CASE (\E r \in Requests : Start(c, r)) \/ Refuse(c)
  BY <1>1, <1>3 DEF Start, Refuse, history
<1>4. CASE ProjectStep(c)
  BY <1>1, <1>4 DEF ProjectStep, Show, Read, Preview, Change, Check, Declare, Enter, WriteManifest, LocalFails, history
<1>5. CASE WorkspaceStep(c)
  <2>1. CASE Import(c) \/ ImportProjects(c)
    BY <1>1, <2>1 DEF Import, ImportProjects, Finished
  <2> QED BY Zenon, <1>1, <1>5, <2>1 DEF WorkspaceStep, Vacant, Scaffold, Register, Found, SetUp, Attach, SetDefault,
                Export, ExportProjects, ImportFails, history
<1>6. CASE DomainStep(c)
  <2>1. CASE Apply(c)
    BY <2>1 DEF Apply
  <2> QED BY <1>1, <1>6, <2>1 DEF DomainStep, Plan, Hash, Commit, history
<1> QED BY <1>2, <1>3, <1>4, <1>5, <1>6 DEF Acts

LEMMA KeysStay ==
  ASSUME Types, Kept, Acknowledged, NEW c \in Procs, Acts(c), ~crossed', NEW k \in DOMAIN acked'
  PROVE  k \in Vaults \X Projects /\ man'[k[1]].id # None
<1>1. \A v \in Vaults : man[v].id # None => man'[v].id # None
  BY Identity DEF Makes
<1>2. \A i \in DOMAIN acked : i \in Vaults \X Projects /\ man[i[1]].id # None
  BY DEF Acknowledged
<1>3. CASE k \in DOMAIN acked
  BY <1>1, <1>2, <1>3
<1>4. CASE WriteLocal(c) /\ k \notin DOMAIN acked
  <2> DEFINE q == job[c].req
  <2>1. job[c].at = "local" /\ k = <<q.v, q.p>>
    BY <1>4 DEF WriteLocal, With, Key, At
  <2>2. q.v \in Vaults
    BY <2>1, InAVault
  <2>3. JobOK(job[c]) /\ Marked(c)
    BY DEF Types, Kept
  <2>4. q.p \in Projects /\ q.w # None
    BY <2>1, <2>3 DEF JobOK, Placed, IsRequest, Or
  <2>5. man[q.v].id # None
    BY <2>1, <2>3, <2>4 DEF Marked
  <2> QED BY <1>1, <2>1, <2>2, <2>4, <2>5
<1>5. CASE (Import(c) \/ ImportProjects(c)) /\ acked' = View(local', man')
  <2>1. k \in Vaults \X Projects /\ \E w \in DOMAIN local'.ws : local'.ws[w].path = k[1]
    BY <1>5, ViewHeld
  <2>2. PICK w \in DOMAIN local'.ws : local'.ws[w].path = k[1]
    BY <2>1
  <2>3. CASE Import(c)
    <3>1. Importable /\ local' = backup.reg
      BY <2>3 DEF Import, At_May, At, May
    <3>2. man[k[1]].id # None
      BY <2>2, <3>1 DEF Importable
    <3> QED BY <1>1, <2>1, <3>2
  <2>4. CASE ImportProjects(c)
    <3>1. job[c].at = "import" /\ Imported(c) /\ Restorable(c)
      BY <2>4 DEF ImportProjects, At, Types, Acknowledged
    <3>2. SamePlaces(local, local')
      BY <2>4, ImportsThere DEF Types, FilesOK
    <3>3. w \in Registered /\ PathOf(w) = k[1]
      BY <2>2, <3>2 DEF SamePlaces, Registered, PathOf
    <3>4. man[k[1]].id # None
      BY <3>1, <3>3 DEF Imported, Restorable, At
    <3> QED BY <1>1, <2>1, <3>4
  <2> QED BY <1>5, <2>3, <2>4
<1> QED BY <1>3, <1>4, <1>5, Remembers

(* Outside the lock of CAMPFIRE_HOME only an import and a domain command   *)
(* touch what is held.                                                     *)
LEMMA LocalsStay ==
  ASSUME Types, NEW c \in Procs, Acts(c), job[c].at \notin InHome, ~Import(c), NEW w \in DOMAIN local.ws
  PROVE  w \in DOMAIN local'.ws /\ local'.ws[w] = local.ws[w]
<1>1. ~(WriteManifest(c) \/ WriteLocal(c) \/ LocalFails(c) \/ ImportProjects(c) \/ ImportFails(c))
  BY DEF WriteManifest, WriteLocal, LocalFails, ImportProjects, ImportFails, At, InHome
<1>2. CASE (\E r \in Requests : Start(c, r)) \/ Refuse(c) \/ Kill(c)
  BY <1>2 DEF Start, Refuse, Kill, files
<1>3. CASE ProjectStep(c)
  BY <1>1, <1>3 DEF ProjectStep, Show, Read, Preview, Change, Check, Declare, Enter, files
<1>4. CASE WorkspaceStep(c)
  <2>1. CASE Register(c)
    <3>1. local'.ws = With(local.ws, job[c].req.w, IF job[c].req.w \in Registered THEN local.ws[job[c].req.w]
                                                   ELSE NewEntry(job[c].req.v))
      BY <2>1 DEF Register
    <3> QED BY <3>1 DEF With, Registered
  <2>2. CASE SetDefault(c)
    <3>1. local' = [local EXCEPT !.default = job[c].req.w] /\ local \in WorkspaceRegistry
      BY <2>2 DEF SetDefault, Types, FilesOK
    <3> QED BY <3>1, RegistryParts
  <2>3. CASE Vacant(c) \/ Scaffold(c) \/ Found(c) \/ SetUp(c) \/ Attach(c) \/ Export(c) \/ ExportProjects(c)
    BY <2>3 DEF Vacant, Scaffold, Found, SetUp, Attach, Export, ExportProjects, files
  <2> QED BY <1>1, <1>4, <2>1, <2>2, <2>3 DEF WorkspaceStep
<1>5. CASE DomainStep(c)
  BY <1>5 DEF DomainStep, Plan, Hash, Commit, Apply, files
<1> QED BY <1>2, <1>3, <1>4, <1>5 DEF Acts

LEMMA HeldStill ==
  ASSUME Types, Kept, Acknowledged, NEW c \in Procs, Acts(c),
         job[c].at \notin InHome, ~Import(c), ~Apply(c), NEW k \in DOMAIN acked', HeldIn(local, man, k, acked[k])
  PROVE  HeldIn(local', man', k, acked'[k])
<1>1. ~(WriteManifest(c) \/ WriteLocal(c) \/ LocalFails(c) \/ ImportProjects(c) \/ ImportFails(c))
  BY DEF WriteManifest, WriteLocal, LocalFails, ImportProjects, ImportFails, At, InHome
<1>2. k \in DOMAIN acked /\ acked'[k] = acked[k]
  BY <1>1, Remembers
<1>3. k[1] \in Vaults /\ man[k[1]].id # None
  BY <1>2 DEF Acknowledged
<1>4. man'[k[1]] = man[k[1]]
  BY <1>1, <1>3, Writers
<1>5. PICK w \in DOMAIN local.ws : local.ws[w].path = k[1] /\ Says(man[k[1]], local.ws[w].binds, k, acked[k])
  BY DEF HeldIn
<1>6. w \in DOMAIN local'.ws /\ local'.ws[w] = local.ws[w]
  BY LocalsStay
<1> QED BY <1>2, <1>4, <1>5, <1>6 DEF HeldIn

LEMMA HeldAlong ==
  ASSUME Types, Kept, Acknowledged, NEW c \in Procs, Apply(c), NEW k \in DOMAIN acked', HeldIn(local, man, k, acked[k])
  PROVE  HeldIn(local', man', k, acked'[k])
<1> DEFINE q == job[c].req
           next == job[c].next
           keys == Moved(q, next)
<1>1. /\ DOMAIN acked' = DOMAIN acked /\ local' = local
      /\ \A i \in DOMAIN acked : acked'[i] = IF i \in keys THEN [acked[i] EXCEPT !.domain = q.e] ELSE acked[i]
      /\ next = None => keys = {} /\ man' = man
      /\ next # None => /\ man' = [man EXCEPT ![q.v] = next] /\ next \in Manifest /\ q.e \in Domains
                        /\ keys = {q.v} \X {p \in DOMAIN next.projects : next.projects[p].domain = q.e}
  BY StepOfApply
<1>2. k \in Vaults \X Projects /\ man \in [Vaults -> Manifest]
  BY <1>1 DEF Acknowledged, Types, FilesOK
<1>3. PICK w \in DOMAIN local.ws : local.ws[w].path = k[1] /\ Says(man[k[1]], local.ws[w].binds, k, acked[k])
  BY DEF HeldIn
<1>4. CASE next = None \/ q.v # k[1]
  <2>1. man'[k[1]] = man[k[1]] /\ acked'[k] = acked[k]
    BY <1>1, <1>2, <1>4
  <2> QED BY <1>1, <1>3, <2>1 DEF HeldIn
<1>5. CASE next # None /\ q.v = k[1]
  <2>1. man'[k[1]] = next /\ man[k[1]] \in Manifest /\ q.e \in Domains
    BY <1>1, <1>2, <1>5
  <2>2. Rebinding(man[k[1]], next, q.e)
    <3>1. Rebinds(c) /\ Marked(c) /\ job[c].at = "apply"
      BY DEF Acknowledged, Kept, Apply, At
    <3>2. job[c].seen.man = man[k[1]]
      BY <1>5, <3>1 DEF Marked
    <3> QED BY <1>5, <3>1, <3>2 DEF Rebinds, Rebinding
  <2>3. k \in keys <=> next.projects[k[2]].domain = q.e
    <3>1. k[2] \in DOMAIN next.projects
      BY <1>3, <2>2 DEF Says, Rebinding
    <3> QED BY <1>1, <1>2, <1>5, <3>1
  <2>4. acked'[k] = Along(next, q.e, k, acked[k])
    <3> HIDE DEF keys
    <3> QED BY <1>1, <2>3 DEF Along
  <2> HIDE DEF keys, next, q
  <2>5. Says(next, local.ws[w].binds, k, Along(next, q.e, k, acked[k]))
    BY <1>3, <2>1, <2>2, SaysAlong
  <2> QED BY <1>1, <1>3, <2>1, <2>4, <2>5 DEF HeldIn
<1> QED BY <1>4, <1>5

(* The same under the lock, of what is not his own project.                *)
LEMMA HeldUnder ==
  ASSUME Types, Kept, Acknowledged, NEW c \in Procs, job[c].at \in {"manifest", "local"},
         NEW k \in DOMAIN acked, job[c].at = "local" => k[1] # job[c].req.v
  PROVE  HeldIn(local, man, k, acked[k])
<1> QED BY NobodyWrites DEF At, InHome

LEMMA HeldByManifest ==
  ASSUME Types, Kept, Acknowledged, NEW c \in Procs, WriteManifest(c), NEW k \in DOMAIN acked'
  PROVE  Writing(k[1])' \/ HeldIn(local', man', k, acked'[k])
<1> DEFINE q == job[c].req
<1>1. job[c].at = "manifest" /\ local' = local /\ acked' = acked /\ (man' = man \/ man' = [man EXCEPT ![q.v] = job[c].next.man])
  BY DEF WriteManifest, At
<1>2. HeldIn(local, man, k, acked[k]) /\ k[1] \in Vaults
  BY <1>1, HeldUnder DEF Acknowledged
<1>3. CASE k[1] = q.v
  <2> DEFINE O == Overtaking({Key(c)})
  <2>1. job' = [O EXCEPT ![c].at = "local"]
    BY DEF WriteManifest
  <2>2. DOMAIN O = Procs /\ DOMAIN O[c] = JobFields /\ O[c].req = q
    BY Overtakes DEF Types
  <2> HIDE DEF O
  <2>3. job'[c].at = "local" /\ job'[c].req = q
    BY <2>1, <2>2 DEF JobFields
  <2> QED BY <1>3, <2>3 DEF Writing, At
<1>4. CASE k[1] # q.v
  <2>1. man'[k[1]] = man[k[1]]
    BY <1>1, <1>2, <1>4 DEF Types, FilesOK
  <2> QED BY <1>1, <1>2, <2>1 DEF HeldIn
<1> QED BY <1>3, <1>4

LEMMA HeldByLocal ==
  ASSUME Types, Kept, Acknowledged, NEW c \in Procs, WriteLocal(c), NEW k \in DOMAIN acked'
  PROVE  HeldIn(local', man', k, acked'[k])
<1> DEFINE j == job[c]
           v == j.req.v
           w == j.req.w
           new == j.next.local.ws[w].binds
<1>1. j.at = "local" /\ local' = j.next.local /\ man' = man /\ acked' = With(acked, Key(c), j.entry) /\ Key(c) = <<v, j.req.p>>
  BY DEF WriteLocal, At, Key
<1>2. Filed(c) /\ Marked(c) /\ \A i \in DOMAIN acked : i \in Vaults \X Projects
  BY DEF Acknowledged, Kept
<1>3. /\ w \in DOMAIN local.ws /\ local.ws[w].path = v /\ Says(man[v], new, Key(c), j.entry)
      /\ \A x \in DOMAIN local.ws \ {w} : j.next.local.ws[x] = local.ws[x]
      /\ \A i \in DOMAIN acked : i[1] = v /\ i[2] # j.req.p => Says(man[v], new, i, acked[i])
  BY Zenon, <1>1, <1>2 DEF Filed, At, Registered, PathOf
<1>4. DOMAIN local'.ws = DOMAIN local.ws /\ local'.ws[w].path = v
  BY Zenon, <1>1, <1>2, <1>3 DEF Marked, SamePlaces
<1>5. CASE k = Key(c)
  <2>1. acked'[k] = j.entry /\ k[1] = v
    BY <1>1, <1>5 DEF With
  <2> QED BY Zenon, <1>1, <1>3, <1>4, <1>5, <2>1 DEF HeldIn
<1>6. CASE k # Key(c)
  <2>1. k \in DOMAIN acked /\ acked'[k] = acked[k]
    BY <1>1, <1>6 DEF With
  <2>2. k = <<k[1], k[2]>>
    BY <1>2, <2>1
  <2>3. CASE k[1] = v
    <3>1. Says(man[v], new, k, acked[k])
      BY Zenon, <1>1, <1>3, <1>6, <2>1, <2>2, <2>3
    <3> QED BY Zenon, <1>1, <1>3, <1>4, <2>1, <2>3, <3>1 DEF HeldIn
  <2>4. CASE k[1] # v
    <3>1. HeldIn(local, man, k, acked[k])
      BY <1>1, <2>1, <2>4, HeldUnder
    <3>2. PICK x \in DOMAIN local.ws : local.ws[x].path = k[1] /\ Says(man[k[1]], local.ws[x].binds, k, acked[k])
      BY <3>1 DEF HeldIn
    <3>3. local'.ws[x] = local.ws[x]
      BY Zenon, <1>1, <1>3, <2>4, <3>2
    <3> QED BY Zenon, <1>1, <1>4, <2>1, <3>2, <3>3 DEF HeldIn
  <2> QED BY <2>3, <2>4
<1> QED BY <1>5, <1>6

(* The Manifest is put back, or the process is killed between the writes.  *)
LEMMA HeldByFailure ==
  ASSUME Types, Kept, Acknowledged, NEW c \in Procs, LocalFails(c), ~crossed', NEW k \in DOMAIN acked'
  PROVE  HeldIn(local', man', k, acked'[k])
<1> DEFINE j == job[c]
           v == j.req.v
           w == j.req.w
<1>1. j.at = "local" /\ local' = local /\ man' = PutBack(c) /\ acked' = acked /\ ~j.rewritten
  BY DEF LocalFails, At
<1>2. Filed(c) /\ Marked(c) /\ man \in [Vaults -> Manifest] /\ v \in Vaults
  BY <1>1, InAVault DEF Acknowledged, Kept, Types, FilesOK
<1>3. man'[v] = j.next.was /\ \A x \in Vaults \ {v} : man'[x] = man[x]
  BY <1>1, <1>2 DEF PutBack, Marked
<1>4. CASE k[1] = v
  <2>1. w \in DOMAIN local.ws /\ local.ws[w].path = v /\ Says(j.next.was, local.ws[w].binds, k, acked[k])
    BY Zenon, <1>1, <1>2, <1>4 DEF Filed, At, Registered, PathOf
  <2> QED BY <1>1, <1>3, <1>4, <2>1 DEF HeldIn
<1>5. CASE k[1] # v
  <2>1. HeldIn(local, man, k, acked[k]) /\ k[1] \in Vaults
    BY <1>1, <1>5, HeldUnder DEF Acknowledged
  <2>2. man'[k[1]] = man[k[1]]
    BY <1>3, <1>5, <2>1
  <2> QED BY <1>1, <2>1, <2>2 DEF HeldIn
<1> QED BY <1>4, <1>5

LEMMA HeldByKill ==
  ASSUME Types, Kept, Acknowledged, NEW c \in Procs, Kill(c), job[c].at \in InHome, NEW k \in DOMAIN acked'
  PROVE  HeldIn(local', man', k, acked'[k])
<1> DEFINE j == job[c]
           v == j.req.v
           w == j.req.w
<1>1. local' = local /\ man' = man
  BY DEF Kill
<1>2. CASE j.at = "manifest"
  <2>1. acked' = acked
    BY <1>2 DEF Kill, At
  <2> QED BY <1>1, <1>2, <2>1, HeldUnder
<1>3. CASE j.at = "local"
  <2>1. acked' = Keep(acked, DOMAIN acked \ {<<v, j.req.p>>})
    BY <1>3 DEF Kill, At
  <2>2. k \in DOMAIN acked /\ acked'[k] = acked[k] /\ k # <<v, j.req.p>>
    BY <2>1 DEF Keep
  <2>3. k = <<k[1], k[2]>> /\ Filed(c)
    BY <2>2 DEF Acknowledged
  <2>4. CASE k[1] = v
    <3>1. w \in DOMAIN local.ws /\ local.ws[w].path = v /\ Says(man[v], local.ws[w].binds, k, acked[k])
      BY Zenon, <1>3, <2>2, <2>3, <2>4 DEF Filed, At, Registered, PathOf
    <3> QED BY <1>1, <2>2, <2>4, <3>1 DEF HeldIn
  <2>5. CASE k[1] # v
    BY <1>1, <1>3, <2>2, <2>5, HeldUnder
  <2> QED BY <2>4, <2>5
<1>4. CASE j.at = "import"
  BY <1>4 DEF Kill, At
<1> QED BY <1>2, <1>3, <1>4 DEF InHome

LEMMA HeldByReturn ==
  ASSUME Types, Kept, Acknowledged, NEW c \in Procs, ImportFails(c), NEW k \in DOMAIN acked'
  PROVE  HeldIn(local', man', k, acked'[k])
<1> DEFINE before == job[c].seen
           ws == job[c].entry.reg.ws
           restored == {ws[w].path : w \in DOMAIN ws}
<1>1. /\ At(c, "import") /\ local' = before.local /\ acked' = acked
      /\ man' = [v \in Vaults |-> IF v \in restored THEN before.man[v] ELSE man[v]]
  BY DEF ImportFails
<1>2. Restorable(c) /\ k[1] \in Vaults
  BY <1>1 DEF Acknowledged
<1>3. man'[k[1]] = before.man[k[1]]
  BY <1>1, <1>2 DEF Restorable
<1>4. HeldIn(before.local, before.man, k, acked[k])
  BY <1>1, <1>2 DEF Restorable
<1> QED BY Zenon, <1>1, <1>3, <1>4 DEF HeldIn

LEMMA HeldStays ==
  ASSUME Types, Kept, Acknowledged, NEW c \in Procs, Acts(c), ~crossed', NEW k \in DOMAIN acked'
  PROVE  Writing(k[1])' \/ HeldIn(local', man', k, acked'[k])
<1> DEFINE j == job[c]
           Imports == (Import(c) \/ ImportProjects(c)) /\ acked' = View(local', man')
<1>1. CASE Imports
  <2>1. HeldIn(local', man', k, View(local', man')[k])
    BY <1>1, ViewHeld
  <2> QED BY <1>1, <2>1
<1>2. CASE job'[c].at = "import"
  BY <1>2 DEF Writing, At
<1>3. CASE j.at \in InHome /\ ~Imports /\ job'[c].at # "import"
  <2>1. ~ImportProjects(c)
    <3> SUFFICES ASSUME ImportProjects(c) PROVE FALSE
      OBVIOUS
    <3>1. At(c, "import")
      BY DEF ImportProjects
    <3>2. acked' = acked /\ \E w : job' = [Overtaking(Everywhere) EXCEPT ![c].next = @ \ {w}]
      BY <1>3 DEF ImportProjects, Finished
    <3> DEFINE O == Overtaking(Everywhere)
    <3>3. PICK w : job' = [O EXCEPT ![c].next = @ \ {w}]
      BY <3>2
    <3>4. DOMAIN O = Procs /\ DOMAIN O[c] = JobFields /\ O[c].at = "import"
      BY <3>1, Overtakes DEF Types, At
    <3> HIDE DEF O
    <3>5. job'[c].at = "import"
      BY <3>3, <3>4 DEF JobFields
    <3> QED BY <1>3, <3>5
  <2>2. WriteManifest(c) \/ WriteLocal(c) \/ LocalFails(c) \/ ImportFails(c) \/ Kill(c)
    <3>1. ~((\E r \in Requests : Start(c, r)) \/ Refuse(c))
      BY Zenon, <1>3 DEF Start, Refuse, May, At, InHome
    <3>2. ProjectStep(c) => WriteManifest(c) \/ WriteLocal(c) \/ LocalFails(c)
      BY <1>3 DEF ProjectStep, Show, Read, Preview, Change, Check, Declare, Enter, At_May, At, InHome
    <3>3. WorkspaceStep(c) => ImportFails(c)
      BY Zenon, <1>3, <2>1 DEF WorkspaceStep, Vacant, Scaffold, Register, Found, SetUp, Attach, SetDefault,
                        Export, ExportProjects, Import, At_May, At, InHome
    <3>4. ~DomainStep(c)
      BY <1>3 DEF DomainStep, Plan, Hash, Commit, Apply, At_May, At, InHome
    <3> QED BY <3>1, <3>2, <3>3, <3>4 DEF Acts
  <2> QED BY <1>3, <2>2, HeldByManifest, HeldByLocal, HeldByFailure, HeldByReturn, HeldByKill
<1>4. CASE j.at \notin InHome /\ ~Imports /\ job'[c].at # "import"
  <2>1. ~Import(c)
    <3> SUFFICES ASSUME Import(c) PROVE FALSE
      OBVIOUS
    <3> DEFINE O == Overtaking(Everywhere)
    <3>1. DOMAIN O = Procs /\ DOMAIN O[c] = JobFields
      BY Overtakes DEF Types
    <3>2. job' = [O EXCEPT ![c].at = "import", ![c].entry = backup, ![c].next = DOMAIN backup.reg.ws,
                           ![c].seen = [local |-> local, man |-> man]]
      BY <1>4 DEF Import, Finished
    <3> HIDE DEF O
    <3>3. job'[c].at = "import"
      BY <3>1, <3>2 DEF JobFields
    <3> QED BY <1>4, <3>3
  <2>2. k \in DOMAIN acked
    BY <1>4, <2>1, Remembers DEF WriteLocal, ImportProjects, At, InHome
  <2>3. CASE Writing(k[1])
    <3>1. PICK b \in Procs : At(b, "import") \/ (At(b, "local") /\ job[b].req.v = k[1])
      BY <2>3 DEF Writing
    <3>2. b # c
      BY <1>4, <3>1 DEF At, InHome
    <3>3. Untouched(b)
      BY <3>2, Others DEF Untouching
    <3> QED BY <3>1, <3>3 DEF Untouched, Writing, At
  <2>4. CASE HeldIn(local, man, k, acked[k])
    BY <1>4, <2>1, <2>4, HeldStill, HeldAlong
  <2> QED BY <2>2, <2>3, <2>4 DEF Acknowledged
<1> QED BY <1>1, <1>2, <1>3, <1>4

LEMMA AckStep ==
  ASSUME Types, Kept, Acknowledged, NEW c \in Procs, Acts(c), ~crossed'
  PROVE  Acknowledged'
<1>1. OneEach(local)' /\ (backup' # None => OneEach(backup.reg)')
  BY OneEachStays
<1>2. \A k \in DOMAIN acked' : k \in Vaults \X Projects /\ man'[k[1]].id # None
  BY KeysStay
<1>3. \A k \in DOMAIN acked' : Writing(k[1])' \/ HeldIn(local', man', k, acked'[k])
  BY HeldStays
<1>4. ASSUME NEW b \in Procs PROVE Filed(b)' /\ Restorable(b)' /\ Rebinds(b)' /\ Apart(b)'
  BY FiledSelf, FiledOthers, RestorableSelf, RestorableOthers, RebindsStay, OneEachStays
<1> QED BY <1>1, <1>2, <1>3, <1>4 DEF Acknowledged

AckInv == KeptInv /\ (~crossed => Acknowledged)

LEMMA AckInit == Init => AckInv
<1> SUFFICES ASSUME Init PROVE Acknowledged
  BY KeptInit DEF AckInv
<1>1. PICK s \in Starts : local = s.local /\ man = s.man
  BY DEF Init
<1>2. IsStart(s)
  BY StartsAssumption
<1>3. \A w \in DOMAIN local.ws : man[local.ws[w].path].id = w /\ w # None
  <2>1. DOMAIN local.ws \subseteq Workspaces
    BY <1>1, <1>2, RegistryParts DEF IsStart
  <2> QED BY <1>1, <1>2, <2>1, NoneAssumption DEF IsStart
<1>4. OneEach(local)
  BY <1>3 DEF OneEach
<1>5. acked = View(local, man) /\ backup = None /\ \A b \in Procs : job[b].at = "idle"
  BY DEF Init, NoJob
<1>6. ASSUME NEW k \in DOMAIN acked
      PROVE  k \in Vaults \X Projects /\ man[k[1]].id # None /\ HeldIn(local, man, k, acked[k])
  BY <1>3, <1>5, ViewHeld
<1> QED BY Zenon, <1>4, <1>5, <1>6 DEF Acknowledged, Filed, Restorable, Rebinds, Apart, At

LEMMA AckStays == AckInv /\ [Next]_vars => AckInv'
<1> SUFFICES ASSUME AckInv, [Next]_vars PROVE AckInv'
  OBVIOUS
<1>1. KeptInv'
  BY KeptStays DEF AckInv
<1>2. CASE UNCHANGED vars
  <2>1. local' = local /\ man' = man /\ backup' = backup /\ job' = job /\ crossed' = crossed /\ acked' = acked
    BY <1>2 DEF vars, files, history
  <2>2. ASSUME NEW b \in Procs, Filed(b), Restorable(b), Rebinds(b), Apart(b)
        PROVE  Filed(b)' /\ Restorable(b)' /\ Rebinds(b)' /\ Apart(b)'
    <3>1. Filed(b)'
      BY Zenon, <2>1, <2>2 DEF Filed, At, Key, Registered, PathOf
    <3>2. Restorable(b)'
      BY <2>1, <2>2 DEF Restorable, At
    <3>3. Rebinds(b)' /\ Apart(b)'
      BY <2>1, <2>2 DEF Rebinds, Apart, At, OneEach
    <3> QED BY <3>1, <3>2, <3>3
  <2>3. \A v : Writing(v)' <=> Writing(v)
    BY <2>1 DEF Writing, At
  <2>4. Acknowledged => Acknowledged'
    BY <2>1, <2>2, <2>3 DEF Acknowledged, OneEach
  <2> QED BY <1>1, <2>1, <2>4 DEF AckInv
<1>3. ASSUME NEW c \in Procs, Acts(c) PROVE AckInv'
  BY <1>1, <1>3, AckStep, Blindly DEF AckInv, KeptInv
<1> QED BY <1>2, <1>3 DEF Next, Acts

(* The Manifest and local.yaml hold of every project what its last         *)
(* successful command left there, whichever commands write them at once,   *)
(* fail or are killed, unless a Manifest was written in a window that      *)
(* nobody checks.                                                          *)
THEOREM AcknowledgedStays == Spec => []AcknowledgedHolds
<1>1. AckInv => AcknowledgedHolds
  <2> SUFFICES ASSUME Acknowledged, NEW k \in DOMAIN acked PROVE Writing(k[1]) \/ Holds(k[1], k[2])
    BY DEF AckInv, AcknowledgedHolds
  <2>1. k = <<k[1], k[2]>>
    BY DEF Acknowledged
  <2>2. HeldIn(local, man, k, acked[k]) => Holds(k[1], k[2])
    BY <2>1 DEF HeldIn, Says, Holds, Listed, Registered, PathOf
  <2> QED BY <2>2 DEF Acknowledged
<1> QED BY <1>1, AckInit, AckStays, PTL DEF Spec

----------------------------------------------------------------------------
(* What a process writes was made from what it read, and what it read is   *)
(* what the last command left: nobody changes the project unseen.          *)
Bare == \A v \in Vaults : man[v].id = None => DOMAIN man[v].projects = {}

(* Every project but p says in the one Manifest, with the one bindings,    *)
(* what it says in the other.                                              *)
Carries(m, a, n, b, p) ==
  \A o \in DOMAIN m.projects \ {p} : o \in DOMAIN n.projects /\ Joined(n, b)[o] = Joined(m, a)[o]
Level(b) ==
  LET j == job[b]
      m == IF At(b, "local") THEN man[j.req.v] ELSE j.next.man
      old == local.ws[j.req.w].binds
      new == j.next.local.ws[j.req.w].binds
  IN j.at \in {"manifest", "local"} =>
     /\ Carries(j.next.was, old, j.next.man, old, j.req.p) /\ Carries(j.next.man, old, j.next.was, old, j.req.p)
     /\ Carries(m, old, m, new, j.req.p)

(* A Workspace shows the project as x; no Workspace has the project.       *)
Shown(l, m, w, p, x) ==
  w \in DOMAIN l.ws /\ p \in DOMAIN m[l.ws[w].path].projects /\ Joined(m[l.ws[w].path], l.ws[w].binds)[p] = x
Shows(l, m, p, x) == \E w \in DOMAIN l.ws : Shown(l, m, w, p, x)
Unlisted(l, m, p) == \A w \in DOMAIN l.ws : p \notin DOMAIN m[l.ws[w].path].projects

Based(b) ==
  LET j == job[b]
      q == j.req
      found == j.seen.project
  IN ~j.overtaken =>
     /\ j.at = "read" /\ q.op = "adopt" => Unlisted(local, man, q.p)
     /\ j.at = "read" /\ q.op = "update" =>
          \E x \in ProjectEntry : Shows(local, man, q.p, x) /\ j.entry = Updated(q, x)
     /\ j.at = "enter" /\ q.op = "adopt" => found = None
     /\ j.at = "enter" /\ q.op = "update" => j.entry = AsFilled(Updated(q, found.entry))
     /\ j.at = "enter" /\ q.op = "bind" => j.entry = Changed(q, found.entry)
     /\ j.at = "enter" /\ q.op \in Confirmed =>
          \E x \in ProjectEntry : Shows(local, man, q.p, x) /\ j.entry = Changed(q, x)
     /\ j.at \in {"manifest", "local"} /\ Key(b) \in DOMAIN acked => SameBut(q, acked[Key(b)], j.entry)
Looked ==
  /\ Bare /\ (\A k \in DOMAIN acked : acked[k] \in ProjectEntry)
  /\ \A b \in Procs : Level(b) /\ Based(b)

LEMMA Unmarked ==
  ASSUME Shapes, NEW c \in Procs, NEW b \in Procs \ {c}, LooksElsewhere(b), ~job'[b].overtaken,
         NEW keys, NEW x, job' = [Overtaking(keys) EXCEPT ![c] = x]
  PROVE  \A k \in keys : k[2] # job[b].req.p
<1>1. job'[b] = Overtaking(keys)[b]
  BY Overtakes
<1> QED BY <1>1, Overtakes

LEMMA OneLooked ==
  ASSUME Types, NEW b \in Procs, LooksElsewhere(b)
  PROVE  job[b].req.p \in Projects /\ job[b].req.v \in Vaults
<1>1. JobOK(job[b]) /\ job[b].at \in {"read", "enter"}
  BY DEF Types, LooksElsewhere, At
<1>2. IsRequest(job[b].req) /\ job[b].req.op \in ProjectOps
  BY <1>1 DEF JobOK, Placed, ProjectOps
<1>3. job[b].req.p # None /\ job[b].req.v # None
  BY <1>1, <1>2 DEF JobOK, IsRequest
<1> QED BY <1>2, <1>3 DEF IsRequest, Or

LEMMA NoImport ==
  ASSUME Types, NEW c \in Procs, NEW b \in Procs \ {c}, LooksElsewhere(b), ~job'[b].overtaken
  PROVE  ~(Import(c) \/ ImportProjects(c) \/ ImportFails(c))
<1> SUFFICES ASSUME Import(c) \/ ImportProjects(c) \/ ImportFails(c) PROVE FALSE
  OBVIOUS
<1>1. \E x : job' = [Overtaking(Everywhere) EXCEPT ![c] = x]
  BY Zenon DEF Import, ImportProjects, ImportFails, Finished
<1>2. <<job[b].req.v, job[b].req.p>> \in Everywhere
  BY OneLooked DEF Everywhere
<1>3. PICK x : job' = [Overtaking(Everywhere) EXCEPT ![c] = x]
  BY <1>1
<1>4. \A k \in Everywhere : k[2] # job[b].req.p
  BY <1>3, Unmarked DEF Types
<1> QED BY <1>2, <1>4

(* The writes under the lock leave the other projects as they were.        *)

LEMMA ShownByManifest ==
  ASSUME Types, Kept, Acknowledged, Looked, NEW c \in Procs, WriteManifest(c), NEW w, NEW x,
         NEW p, p # job[c].req.p, Shown(local, man, w, p, x)
  PROVE  Shown(local', man', w, p, x)
<1> DEFINE j == job[c]
           q == job[c].req
           old == local.ws[w].binds
<1>1. j.at = "manifest" /\ local' = local /\ (man' = man \/ man' = [man EXCEPT ![q.v] = j.next.man])
  BY DEF WriteManifest, At
<1>2. Marked(c) /\ Filed(c) /\ Level(c) /\ OneEach(local) /\ man \in [Vaults -> Manifest]
  BY DEF Kept, Acknowledged, Looked, Types, FilesOK
<1>3. q.w \in DOMAIN local.ws /\ local.ws[q.w].path = q.v
  BY Zenon, <1>1, <1>2 DEF Filed, At, Registered, PathOf
<1>4. CASE man' = man \/ local.ws[w].path # q.v
  <2>1. local.ws[w].path \in Vaults
    BY RegistryParts DEF Types, FilesOK, Shown
  <2>2. man'[local.ws[w].path] = man[local.ws[w].path]
    BY <1>1, <1>2, <1>4, <2>1
  <2> QED BY <1>1, <2>2 DEF Shown
<1>5. CASE man' = [man EXCEPT ![q.v] = j.next.man] /\ local.ws[w].path = q.v
  <2>1. w = q.w
    BY <1>2, <1>3, <1>5 DEF OneEach, Shown
  <2>2. man[q.v] = j.next.was /\ Carries(j.next.was, old, j.next.man, old, q.p)
    BY Zenon, <1>1, <1>2, <2>1 DEF Marked, Level
  <2>3. q.v \in Vaults
    BY <1>1, InAVault DEF Blind
  <2>4. man'[q.v] = j.next.man
    BY <1>2, <1>5, <2>3
  <2>5. local.ws[w].path = q.v /\ local' = local
    BY <1>1, <1>5
  <2> QED BY <2>2, <2>4, <2>5 DEF Shown, Carries
<1> QED BY <1>1, <1>4, <1>5

LEMMA ShownByLocal ==
  ASSUME Types, Kept, Acknowledged, Looked, NEW c \in Procs, WriteLocal(c), NEW w, NEW x,
         NEW p, p # job[c].req.p, Shown(local, man, w, p, x)
  PROVE  Shown(local', man', w, p, x)
<1> DEFINE j == job[c]
           q == job[c].req
           old == local.ws[w].binds
           new == j.next.local.ws[w].binds
<1>1. j.at = "local" /\ local' = j.next.local /\ man' = man
  BY DEF WriteLocal, At
<1>2. Marked(c) /\ Filed(c) /\ Level(c)
  BY DEF Kept, Acknowledged, Looked
<1>3. /\ q.w \in DOMAIN local.ws /\ local.ws[q.w].path = q.v
      /\ \A z \in DOMAIN local.ws \ {q.w} : j.next.local.ws[z] = local.ws[z]
  BY Zenon, <1>1, <1>2 DEF Filed, At, Registered, PathOf
<1>4. w \in DOMAIN local'.ws /\ local'.ws[w].path = local.ws[w].path
  BY Zenon, <1>1, <1>2 DEF Marked, SamePlaces, Shown
<1>5. CASE w # q.w
  BY <1>1, <1>3, <1>4, <1>5 DEF Shown
<1>6. CASE w = q.w
  <2>1. Carries(man[q.v], old, man[q.v], new, q.p)
    BY Zenon, <1>1, <1>2, <1>6 DEF Level, At
  <2>2. local.ws[w].path = q.v /\ local'.ws[w].binds = new /\ man' = man
    BY <1>1, <1>3, <1>6
  <2> QED BY <1>4, <2>1, <2>2 DEF Shown, Carries
<1> QED BY <1>5, <1>6

LEMMA ShownByFailure ==
  ASSUME Types, Kept, Acknowledged, Looked, NEW c \in Procs, LocalFails(c), ~crossed', NEW w, NEW x,
         NEW p, p # job[c].req.p, Shown(local, man, w, p, x)
  PROVE  Shown(local', man', w, p, x)
<1> DEFINE j == job[c]
           q == job[c].req
           old == local.ws[w].binds
<1>1. j.at = "local" /\ local' = local /\ man' = PutBack(c) /\ ~j.rewritten
  BY DEF LocalFails, At
<1>2. Marked(c) /\ Filed(c) /\ Level(c) /\ OneEach(local) /\ man \in [Vaults -> Manifest] /\ q.v \in Vaults
  BY <1>1, InAVault DEF Kept, Acknowledged, Looked, Types, FilesOK
<1>3. q.w \in DOMAIN local.ws /\ local.ws[q.w].path = q.v
  BY Zenon, <1>1, <1>2 DEF Filed, At, Registered, PathOf
<1>4. man[q.v] = j.next.man /\ man'[q.v] = j.next.was /\ \A v \in Vaults \ {q.v} : man'[v] = man[v]
  BY <1>1, <1>2 DEF PutBack, Marked
<1>5. CASE local.ws[w].path # q.v
  <2>1. local.ws[w].path \in Vaults
    BY RegistryParts DEF Types, FilesOK, Shown
  <2> QED BY <1>1, <1>4, <1>5, <2>1 DEF Shown
<1>6. CASE local.ws[w].path = q.v
  <2>1. w = q.w
    BY <1>2, <1>3, <1>6 DEF OneEach, Shown
  <2>2. Carries(j.next.man, old, j.next.was, old, q.p)
    BY Zenon, <1>1, <1>2, <2>1 DEF Level
  <2> QED BY <1>1, <1>4, <1>6, <2>2 DEF Shown, Carries
<1> QED BY <1>5, <1>6

LEMMA ShownByApply ==
  ASSUME Types, Kept, Acknowledged, NEW c \in Procs, Apply(c), NEW w, NEW x,
         NEW p, Shown(local, man, w, p, x), \A k \in Moved(job[c].req, job[c].next) : k[2] # p
  PROVE  Shown(local', man', w, p, x)
<1> DEFINE q == job[c].req
           next == job[c].next
           v == local.ws[w].path
           e == man[v].projects[p]
<1>1. /\ local' = local /\ (next = None => man' = man)
      /\ next # None => /\ man' = [man EXCEPT ![q.v] = next] /\ q.e \in Domains
                        /\ Moved(q, next) = {q.v} \X {o \in DOMAIN next.projects : next.projects[o].domain = q.e}
  BY StepOfApply
<1>2. v \in Vaults /\ man \in [Vaults -> Manifest] /\ w \in DOMAIN local.ws /\ p \in DOMAIN man[v].projects
  BY RegistryParts DEF Types, FilesOK, Shown
<1>3. CASE next = None \/ q.v # v
  BY <1>1, <1>2, <1>3 DEF Shown
<1>4. CASE next # None /\ q.v = v
  <2>1. Rebinding(man[v], next, q.e)
    <3>1. Rebinds(c) /\ Marked(c) /\ job[c].at = "apply"
      BY DEF Acknowledged, Kept, Apply, At
    <3>2. job[c].seen.man = man[v]
      BY <1>4, <3>1 DEF Marked
    <3> QED BY <1>4, <3>1, <3>2 DEF Rebinds, Rebinding
  <2>2. p \in DOMAIN next.projects
    BY <1>2, <2>1 DEF Rebinding
  <2>3. next.projects[p].domain # q.e
    <3> SUFFICES ASSUME next.projects[p].domain = q.e PROVE FALSE
      OBVIOUS
    <3>1. <<q.v, p>> \in Moved(q, next)
      BY <1>1, <1>4, <2>2
    <3> QED BY <3>1
  <2>4. [e EXCEPT !.domain = q.e].domain = q.e
    <3>1. e \in ManifestProject
      BY <1>2, ManifestParts
    <3> QED BY <3>1 DEF ManifestProject
  <2>5. next.projects[p] = e
    BY <1>2, <2>1, <2>3, <2>4 DEF Rebinding
  <2>6. Joined(next, local.ws[w].binds)[p] = Joined(man[v], local.ws[w].binds)[p]
    BY <1>2, <2>2, <2>5, JoinedAt
  <2>7. man'[v] = next
    BY <1>1, <1>2, <1>4
  <2> QED BY <1>1, <1>2, <2>2, <2>6, <2>7 DEF Shown
<1> QED BY <1>3, <1>4

(* Outside these and an import nobody writes a Manifest with projects.     *)
LEMMA ShownElsewhere ==
  ASSUME Types, Kept, Acknowledged, Looked, NEW c \in Procs, Acts(c), NEW w, NEW x,
         ~(WriteManifest(c) \/ WriteLocal(c) \/ LocalFails(c) \/ Apply(c)),
         ~(Import(c) \/ ImportProjects(c) \/ ImportFails(c)),
         NEW p, Shown(local, man, w, p, x)
  PROVE  Shown(local', man', w, p, x)
<1> DEFINE v == local.ws[w].path
<1>1. w \in DOMAIN local.ws /\ p \in DOMAIN man[v].projects /\ v \in Vaults
  BY RegistryParts DEF Types, FilesOK, Shown
<1>2. man[v].id # None
  BY <1>1 DEF Looked, Bare
<1>3. man'[v] = man[v]
  BY <1>1, <1>2, Writers
<1>4. w \in DOMAIN local'.ws /\ local'.ws[w] = local.ws[w]
  <2>1. CASE job[c].at \notin InHome
    BY <1>1, <2>1, LocalsStay
  <2>2. CASE job[c].at \in InHome
    <3>1. Kill(c)
      <4>1. ~((\E r \in Requests : Start(c, r)) \/ Refuse(c))
        BY Zenon, <2>2 DEF Start, Refuse, May, At, InHome
      <4>2. ~ProjectStep(c)
        BY <2>2 DEF ProjectStep, Show, Read, Preview, Change, Check, Declare, Enter, At_May, At, InHome
      <4>3. ~WorkspaceStep(c)
        BY Zenon, <2>2 DEF WorkspaceStep, Vacant, Scaffold, Register, Found, SetUp, Attach, SetDefault,
                          Export, ExportProjects, At_May, At, InHome
      <4>4. ~DomainStep(c)
        BY <2>2 DEF DomainStep, Plan, Hash, Commit, At_May, At, InHome
      <4> QED BY <4>1, <4>2, <4>3, <4>4 DEF Acts
    <3> QED BY <1>1, <3>1 DEF Kill
  <2> QED BY <2>1, <2>2
<1> QED BY <1>1, <1>3, <1>4 DEF Shown

(* What a process relies on, having looked at it, is there until somebody  *)
(* marks the process as overtaken.                                         *)
LEMMA ShownStays ==
  ASSUME Types, Kept, Acknowledged, Looked, NEW c \in Procs, Acts(c), ~crossed',
         NEW b \in Procs \ {c}, LooksElsewhere(b), ~job'[b].overtaken,
         NEW w, NEW x, Shown(local, man, w, job[b].req.p, x)
  PROVE  Shown(local', man', w, job[b].req.p, x)
<1> DEFINE p == job[b].req.p
<1>1. ~(Import(c) \/ ImportProjects(c) \/ ImportFails(c))
  BY NoImport
<1>2. CASE WriteManifest(c) \/ WriteLocal(c) \/ LocalFails(c)
  <2>1. PICK y : job' = [Overtaking({Key(c)}) EXCEPT ![c] = y]
    BY <1>2 DEF WriteManifest, WriteLocal, LocalFails
  <2>2. \A k \in {Key(c)} : k[2] # p
    BY <2>1, Unmarked DEF Types
  <2>3. p # job[c].req.p
    BY <2>2 DEF Key
  <2> QED BY <1>2, <2>3, ShownByManifest, ShownByLocal, ShownByFailure
<1>3. CASE Apply(c)
  <2> DEFINE keys == Moved(job[c].req, job[c].next)
  <2>1. job'[b] = IF job[c].next = None THEN job[b] ELSE Renamed(b, job[c].req.v, keys, job[c].req.e)
    BY <1>3, StepOfApply
  <2>2. \A k \in keys : k[2] # p
    <3>1. CASE job[c].next = None
      BY <1>3, <3>1, StepOfApply
    <3>2. CASE job[c].next # None
      <4>1. ~At(b, "local")
        BY DEF LooksElsewhere, At
      <4> HIDE DEF keys
      <4>2. job'[b] = Overtaking(keys)[b]
        BY <2>1, <3>2, <4>1 DEF Renamed
      <4> QED BY <4>2, Overtakes DEF Types
    <3> QED BY <3>1, <3>2
  <2> QED BY <1>3, <2>2, ShownByApply
<1>4. CASE ~(WriteManifest(c) \/ WriteLocal(c) \/ LocalFails(c) \/ Apply(c))
  BY <1>1, <1>4, ShownElsewhere
<1> QED BY <1>2, <1>3, <1>4

(* Nor does somebody list a project, without marking, that he has found    *)
(* nowhere.                                                                *)

LEMMA UnlistedByManifest ==
  ASSUME Types, Kept, Acknowledged, Looked, NEW c \in Procs, WriteManifest(c) \/ WriteLocal(c) \/ LocalFails(c),
         ~crossed', NEW p, p # job[c].req.p, Unlisted(local, man, p)
  PROVE  Unlisted(local', man', p)
<1> DEFINE j == job[c]
           q == job[c].req
<1>1. j.at \in {"manifest", "local"}
  BY DEF WriteManifest, WriteLocal, LocalFails, At
<1>2. Marked(c) /\ Filed(c) /\ Level(c) /\ man \in [Vaults -> Manifest] /\ q.v \in Vaults
  BY <1>1, InAVault DEF Kept, Acknowledged, Looked, Types, FilesOK, Blind
<1>3. q.w \in DOMAIN local.ws /\ local.ws[q.w].path = q.v
  BY Zenon, <1>1, <1>2 DEF Filed, At, Registered, PathOf
<1>4. p \notin DOMAIN man[q.v].projects
  BY <1>3 DEF Unlisted
<1>5. /\ p \in DOMAIN j.next.man.projects => p \in DOMAIN j.next.was.projects
      /\ p \in DOMAIN j.next.was.projects => p \in DOMAIN j.next.man.projects
  BY <1>1, <1>2 DEF Level, Carries
<1>6. CASE WriteLocal(c)
  <2>1. man' = man /\ SamePlaces(local, local')
    BY <1>1, <1>2, <1>6 DEF WriteLocal, Marked
  <2> QED BY <2>1 DEF SamePlaces, Unlisted
<1>7. CASE WriteManifest(c) \/ LocalFails(c)
  <2>1. local' = local
    BY <1>7 DEF WriteManifest, LocalFails
  <2>2. \A v \in Vaults : p \notin DOMAIN man[v].projects => p \notin DOMAIN man'[v].projects
    <3>1. CASE WriteManifest(c)
      <4>1. j.at = "manifest" /\ (man' = man \/ man' = [man EXCEPT ![q.v] = j.next.man])
        BY <3>1 DEF WriteManifest, At
      <4>2. man[q.v] = j.next.was
        BY <1>2, <4>1 DEF Marked
      <4> QED BY <1>2, <1>4, <1>5, <4>1, <4>2
    <3>2. CASE LocalFails(c)
      <4>1. man' = man \/ man' = [man EXCEPT ![q.v] = j.next.was]
        BY <3>2 DEF LocalFails, PutBack
      <4>2. j.at = "local" /\ ~j.rewritten
        BY <3>2 DEF LocalFails, At
      <4>3. man[q.v] = j.next.man
        BY <1>2, <4>2 DEF Marked
      <4> QED BY <1>2, <1>4, <1>5, <4>1, <4>3
    <3> QED BY <1>7, <3>1, <3>2
  <2>3. \A w \in DOMAIN local.ws : local.ws[w].path \in Vaults
    BY RegistryParts DEF Types, FilesOK
  <2> QED BY <2>1, <2>2, <2>3 DEF Unlisted
<1> QED BY <1>6, <1>7

LEMMA UnlistedByApply ==
  ASSUME Types, Kept, Acknowledged, NEW c \in Procs, Apply(c), NEW p, Unlisted(local, man, p)
  PROVE  Unlisted(local', man', p)
<1> DEFINE q == job[c].req
           next == job[c].next
<1>1. local' = local /\ (man' = man \/ (next # None /\ man' = [man EXCEPT ![q.v] = next]))
  BY DEF Apply
<1>2. next # None => DOMAIN next.projects = DOMAIN man[q.v].projects
  <2>1. Rebinds(c) /\ Marked(c) /\ job[c].at = "apply"
    BY DEF Acknowledged, Kept, Apply, At
  <2> QED BY <2>1 DEF Marked, Rebinds
<1>3. man \in [Vaults -> Manifest] /\ \A w \in DOMAIN local.ws : local.ws[w].path \in Vaults
  BY RegistryParts DEF Types, FilesOK
<1>4. ASSUME NEW w \in DOMAIN local.ws PROVE p \notin DOMAIN man'[local.ws[w].path].projects
  BY <1>1, <1>2, <1>3 DEF Unlisted
<1> QED BY <1>1, <1>4 DEF Unlisted

LEMMA UnlistedByRegister ==
  ASSUME Types, NEW c \in Procs, Register(c), NEW b \in Procs \ {c}, LooksElsewhere(b), ~job'[b].overtaken,
         Unlisted(local, man, job[b].req.p)
  PROVE  Unlisted(local', man', job[b].req.p)
<1> DEFINE q == job[c].req
           p == job[b].req.p
           keys == IF q.w \in Registered THEN {} ELSE InVaultOf(q, man[q.v])
           new == IF q.w \in Registered THEN local.ws[q.w] ELSE NewEntry(q.v)
<1>1. local'.ws = With(local.ws, q.w, new) /\ man' = man
  BY DEF Register
<1>2. \E x : job' = [Overtaking(keys) EXCEPT ![c] = x]
  BY DEF Register
<1>3. \A k \in keys : k[2] # p
  <2> HIDE DEF keys
  <2>1. PICK x : job' = [Overtaking(keys) EXCEPT ![c] = x]
    BY <1>2
  <2> QED BY <2>1, Unmarked DEF Types
<1>4. p \notin DOMAIN man[new.path].projects
  <2>1. CASE q.w \in Registered
    BY <2>1 DEF Registered, Unlisted
  <2>2. CASE q.w \notin Registered
    <3>1. new.path = q.v
      BY <2>2 DEF NewEntry
    <3>2. ASSUME p \in DOMAIN man[q.v].projects PROVE FALSE
      <4>1. <<q.v, p>> \in keys
        BY <2>2, <3>2 DEF InVaultOf
      <4> HIDE DEF keys, new
      <4>2. <<q.v, p>>[2] # p
        BY <1>3, <4>1
      <4> QED BY <4>2
    <3> HIDE DEF new
    <3> QED BY <3>1, <3>2
  <2> QED BY <2>1, <2>2
<1> HIDE DEF new
<1> QED BY <1>1, <1>4 DEF With, Unlisted

LEMMA UnlistedStays ==
  ASSUME Types, Kept, Acknowledged, Looked, NEW c \in Procs, Acts(c), ~crossed',
         NEW b \in Procs \ {c}, LooksElsewhere(b), ~job'[b].overtaken, Unlisted(local, man, job[b].req.p)
  PROVE  Unlisted(local', man', job[b].req.p)
<1> DEFINE p == job[b].req.p
           q == job[c].req
<1>0. man \in [Vaults -> Manifest] /\ local \in WorkspaceRegistry
  BY DEF Types, FilesOK
<1>a. \A w \in DOMAIN local.ws : local.ws[w].path \in Vaults
  BY <1>0, RegistryParts
<1>1. ~(Import(c) \/ ImportProjects(c) \/ ImportFails(c))
  BY NoImport
<1>2. CASE WriteManifest(c) \/ WriteLocal(c) \/ LocalFails(c)
  <2>1. PICK y : job' = [Overtaking({Key(c)}) EXCEPT ![c] = y]
    BY <1>2 DEF WriteManifest, WriteLocal, LocalFails
  <2>2. \A k \in {Key(c)} : k[2] # p
    BY <2>1, Unmarked DEF Types
  <2>3. p # job[c].req.p
    BY <2>2 DEF Key
  <2> QED BY <1>2, <2>3, UnlistedByManifest
<1>3. CASE Apply(c)
  BY <1>3, UnlistedByApply
<1>4. CASE Register(c)
  BY <1>4, UnlistedByRegister
<1>5. CASE Found(c)
  <2>1. local' = local /\ man' = [man EXCEPT ![q.v] = FoundManifest(q)]
    BY <1>5 DEF Found
  <2>2. DOMAIN FoundManifest(q).projects = {}
    BY EmptyIn DEF FoundManifest, NewManifest
  <2> QED BY <1>0, <1>a, <2>1, <2>2 DEF Unlisted
<1>6. CASE Attach(c)
  <2> DEFINE keys == InVaultOf(q, job[c].next)
  <2>1. local' = local /\ man' = [man EXCEPT ![q.v] = job[c].next]
    BY <1>6 DEF Attach
  <2>2. \E x : job' = [Overtaking(keys) EXCEPT ![c] = x]
    BY <1>6 DEF Attach
  <2>3. \A k \in keys : k[2] # p
    <3> HIDE DEF keys
    <3>1. PICK x : job' = [Overtaking(keys) EXCEPT ![c] = x]
      BY <2>2
    <3> QED BY <3>1, Unmarked DEF Types
  <2>4. p \notin DOMAIN job[c].next.projects
    <3> SUFFICES ASSUME p \in DOMAIN job[c].next.projects PROVE FALSE
      OBVIOUS
    <3>1. <<q.v, p>> \in keys
      BY DEF InVaultOf
    <3> QED BY <2>3, <3>1
  <2> QED BY <1>0, <1>a, <2>1, <2>4 DEF Unlisted
<1>7. CASE SetDefault(c)
  <2>1. local'.ws = local.ws /\ man' = man
    BY <1>0, <1>7, RegistryParts DEF SetDefault
  <2> QED BY <2>1 DEF Unlisted
<1>8. ASSUME local' = local, man' = man PROVE Unlisted(local', man', p)
  BY <1>8
<1>9. CASE (\E r \in Requests : Start(c, r)) \/ Refuse(c) \/ Kill(c)
  BY <1>8, <1>9 DEF Start, Refuse, Kill, files
<1>10. CASE ProjectStep(c)
  BY <1>2, <1>8, <1>10 DEF ProjectStep, Show, Read, Preview, Change, Check, Declare, Enter, files
<1>11. CASE WorkspaceStep(c)
  BY <1>1, <1>4, <1>5, <1>6, <1>7, <1>8, <1>11 DEF WorkspaceStep, Vacant, Scaffold, SetUp, Export, ExportProjects, files
<1>12. CASE DomainStep(c)
  BY <1>3, <1>8, <1>12 DEF DomainStep, Plan, Hash, Commit, files
<1> QED BY <1>9, <1>10, <1>11, <1>12 DEF Acts

(* A project that can be got is the one that a Workspace shows.            *)
LEMMA OnlyOne ==
  ASSUME FilesOK, NEW p, CanGet(p), NEW x, Shows(local, man, p, x)
  PROVE  Got(p) # None /\ Got(p).entry = x /\ x \in ProjectEntry
<1>1. PICK w \in Registered : p \in DOMAIN man[PathOf(w)].projects /\ Listed(w)[p] = x
  BY DEF Shows, Shown, Registered, PathOf, Listed
<1>2. Owners(p) = {w}
  BY <1>1 DEF CanGet, Owners
<1>3. Got(p) = [w |-> w, entry |-> x]
  BY <1>1, <1>2 DEF Got
<1>4. w \in Workspaces /\ x \in ProjectEntry
  BY <1>1, ListedType, PartialValue DEF ProjectEntries
<1> QED BY <1>3, <1>4, NoneAssumption

LEMMA NotThere ==
  ASSUME FilesOK, NEW p, CanGet(p)
  PROVE  /\ Got(p) = None => Unlisted(local, man, p)
         /\ Unlisted(local, man, p) => Got(p) = None
<1>1. Unlisted(local, man, p) => Owners(p) = {}
  BY DEF Unlisted, Owners, Registered, PathOf
<1>2. Got(p) = None => Unlisted(local, man, p)
  <2> SUFFICES ASSUME Got(p) = None, NEW w \in DOMAIN local.ws, p \in DOMAIN man[local.ws[w].path].projects PROVE FALSE
    BY DEF Unlisted
  <2>1. Shown(local, man, w, p, Joined(man[local.ws[w].path], local.ws[w].binds)[p])
    BY DEF Shown
  <2> QED BY <2>1, OnlyOne DEF Shows
<1> QED BY <1>1, <1>2 DEF Got

LEMMA GotShown ==
  ASSUME FilesOK, NEW p, Got(p) # None
  PROVE  Shows(local, man, p, Got(p).entry) /\ Got(p).entry \in ProjectEntry
<1> QED BY GotType DEF Shows, Shown, Registered, PathOf, Listed

(* The current Vault of a request changes nothing of what it asks for.     *)
LEMMA CurrentSame ==
  ASSUME NEW q, IsRequest(q)
  PROVE  /\ \A x : Updated(Current(q), x) = Updated(q, x) /\ Changed(Current(q), x) = Changed(q, x)
         /\ \A x, y : SameBut(Current(q), x, y) <=> SameBut(q, x, y)
<1>1. /\ Current(q).op = q.op /\ Current(q).d = q.d /\ Current(q).st = q.st
      /\ Current(q).r = q.r /\ Current(q).dir = q.dir
  BY DEF Current, IsRequest
<1> HIDE DEF Current
<1>2. \A x : Updated(Current(q), x) = Updated(q, x)
  BY <1>1 DEF Updated, Domain, Status
<1>3. \A x : Changed(Current(q), x) = Changed(q, x)
  BY <1>1 DEF Changed
<1>4. \A x, y : SameBut(Current(q), x, y) <=> SameBut(q, x, y)
  BY <1>1 DEF SameBut
<1> QED BY <1>2, <1>3, <1>4

(* An update and a change of one repository are what the property asks of  *)
(* them, and stay so when a domain command moves the project.              *)
LEMMA UpdatesBut ==
  ASSUME NEW q, IsRequest(q), q.op = "update", NEW x \in ProjectEntry
  PROVE  SameBut(q, x, AsFilled(Updated(q, x)))
<1> DEFINE u == Updated(q, x)
<1>1. u.domain = Domain(q, x) /\ u.status = Status(q, x) /\ u.repos = x.repos /\ u \in ProjectEntry
  BY UpdatedType DEF Updated, ProjectEntry
<1>2. AsFilled(u).domain = u.domain /\ AsFilled(u).status = u.status
  BY <1>1, AsFilledType
<1>3. AsFilled(u).repos = AsFilled(x).repos
  <2>1. \A e \in ProjectEntry : AsFilled(e).repos = [r \in DOMAIN e.repos |-> Filled(e.repos[r])]
    BY DEF AsFilled, ProjectEntry
  <2> HIDE DEF u
  <2> QED BY <1>1, <2>1
<1> HIDE DEF u
<1> QED BY <1>1, <1>2, <1>3 DEF SameBut, Domain, Status, u

LEMMA ChangesBut ==
  ASSUME NEW q, IsRequest(q), q.op \in {"bind", "set", "unbind", "remove"}, NEW x \in ProjectEntry
  PROVE  SameBut(q, x, Changed(q, x))
<1> DEFINE y == Changed(q, x)
           S == Repos \ {q.r}
<1>1. y.domain = x.domain /\ y.status = x.status
  BY ChangedType
<1>2. \E z : y.repos = IF q.op = "remove" THEN Keep(x.repos, S) ELSE With(x.repos, q.r, z)
  BY DEF Changed, ProjectEntry
<1>3. PICK z : y.repos = IF q.op = "remove" THEN Keep(x.repos, S) ELSE With(x.repos, q.r, z)
  BY <1>2
<1>4. Keep(Keep(x.repos, S), S) = Keep(x.repos, S)
  BY DEF Keep
<1>5. Keep(With(x.repos, q.r, z), S) = Keep(x.repos, S)
  <2>1. (DOMAIN x.repos \union {q.r}) \intersect S = DOMAIN x.repos \intersect S
    OBVIOUS
  <2>2. \A i \in DOMAIN x.repos \intersect S : With(x.repos, q.r, z)[i] = x.repos[i]
    BY DEF With
  <2>3. DOMAIN With(x.repos, q.r, z) \intersect S = DOMAIN x.repos \intersect S
    BY <2>1 DEF With
  <2> QED BY <2>2, <2>3 DEF Keep
<1>6. Keep(y.repos, S) = Keep(x.repos, S)
  BY <1>3, <1>4, <1>5
<1> HIDE DEF y
<1> QED BY <1>1, <1>6 DEF SameBut, y

LEMMA SameButAlong ==
  ASSUME NEW q, NEW x \in ProjectEntry, NEW y \in ProjectEntry, SameBut(q, x, y), NEW d \in Domains
  PROVE  SameBut(q, [x EXCEPT !.domain = d], [y EXCEPT !.domain = d])
<1> DEFINE a == [x EXCEPT !.domain = d]
           b == [y EXCEPT !.domain = d]
<1>1. /\ a.domain = d /\ a.status = x.status /\ a.repos = x.repos
      /\ b.domain = d /\ b.status = y.status /\ b.repos = y.repos
  BY DEF ProjectEntry
<1>2. AsFilled(a).repos = AsFilled(x).repos
  <2>1. a \in ProjectEntry
    BY DEF ProjectEntry
  <2>2. \A e \in ProjectEntry : AsFilled(e).repos = [r \in DOMAIN e.repos |-> Filled(e.repos[r])]
    BY DEF AsFilled, ProjectEntry
  <2> HIDE DEF a
  <2> QED BY <1>1, <2>1, <2>2
<1> HIDE DEF a, b
<1> QED BY <1>1, <1>2 DEF SameBut, a, b

(* Where a process takes its looks at the project.                         *)
LEMMA Looking ==
  ASSUME Types, NEW c \in Procs, Acts(c)
  PROVE  /\ job'[c].at = "read" => Show(c)
         /\ job'[c].at = "enter" => Read(c) \/ Change(c) \/ Declare(c)
<1> DEFINE j == job[c]
           n == job'[c]
           Looks == Show(c) \/ Read(c) \/ Change(c) \/ Declare(c)
<1>0. DOMAIN j = JobFields /\ DOMAIN job = Procs /\ Shapes
  BY DEF Types, Shapes
<1> SUFFICES (Show(c) => n.at = "read") /\ (Read(c) \/ Change(c) \/ Declare(c) => n.at = "enter")
             /\ (~Looks => n.at \notin {"read", "enter"})
  OBVIOUS
<1>1. Show(c) => n.at = "read"
  BY <1>0 DEF Show, Reach, JobFields
<1>2. Read(c) \/ Change(c) \/ Declare(c) => n.at = "enter"
  BY <1>0 DEF Read, Change, Declare, Reach, Go, JobFields
<1>3. CASE (\E r \in Requests : Start(c, r)) \/ Refuse(c) \/ Kill(c)
  <2>1. CASE \E r \in Requests : Start(c, r)
    <3>1. PICK r \in Requests : Start(c, r)
      BY <2>1
    <3>2. n.at = FirstPlace(r.op) /\ r.op \in Ops
      BY <1>0, <3>1, RequestsAssumption DEF Start, NoJob, IsRequest
    <3>3. n.at \notin {"read", "enter"}
      BY <3>2 DEF FirstPlace, Ops, ProjectOps, DomainOps
    <3> QED BY <1>1, <1>2, <3>3
  <2>2. CASE Refuse(c) \/ Kill(c)
    <3>1. n.at = "idle"
      BY <1>0, <2>2 DEF Refuse, Kill, Done, NoJob
    <3> QED BY <1>1, <1>2, <3>1
  <2> QED BY <1>3, <2>1, <2>2
<1>4. CASE Preview(c) \/ Check(c) \/ Enter(c)
  <2>1. n.at \notin {"read", "enter"}
    BY <1>0, <1>4 DEF Preview, Check, Enter, Reach, JobFields
  <2> QED BY <1>1, <1>2, <2>1
<1>5. CASE \E keys : \/ job' = [Overtaking(keys) EXCEPT ![c].at = "local"]
                     \/ job' = [Overtaking(keys) EXCEPT ![c] = NoJob]
                     \/ job' = [Overtaking(keys) EXCEPT ![c].at = "import", ![c].entry = backup,
                                  ![c].next = DOMAIN backup.reg.ws, ![c].seen = [local |-> local, man |-> man]]
                     \/ j.at = "import" /\ \E w : job' = [Overtaking(keys) EXCEPT ![c].next = @ \ {w}]
  <2>1. PICK keys : \/ job' = [Overtaking(keys) EXCEPT ![c].at = "local"]
                    \/ job' = [Overtaking(keys) EXCEPT ![c] = NoJob]
                    \/ job' = [Overtaking(keys) EXCEPT ![c].at = "import", ![c].entry = backup,
                                  ![c].next = DOMAIN backup.reg.ws, ![c].seen = [local |-> local, man |-> man]]
                    \/ j.at = "import" /\ \E w : job' = [Overtaking(keys) EXCEPT ![c].next = @ \ {w}]
    BY <1>5
  <2> DEFINE O == Overtaking(keys)
  <2>2. DOMAIN O = Procs /\ DOMAIN O[c] = JobFields /\ O[c].at = j.at
    BY <1>0, Overtakes
  <2> HIDE DEF O
  <2>3. n.at \notin {"read", "enter"}
    BY <2>1, <2>2 DEF O, NoJob, JobFields
  <2> QED BY <1>1, <1>2, <2>3
<1>6. CASE WriteManifest(c) \/ WriteLocal(c) \/ LocalFails(c) \/ Import(c) \/ ImportProjects(c) \/ ImportFails(c)
  <2>1. CASE WriteManifest(c) \/ WriteLocal(c) \/ LocalFails(c)
    BY <1>5, <2>1 DEF WriteManifest, WriteLocal, LocalFails
  <2>2. CASE Import(c) \/ ImportProjects(c) \/ ImportFails(c)
    BY ZenonT(30), <1>5, <2>2 DEF Import, ImportProjects, ImportFails, Finished, At
  <2> QED BY <1>6, <2>1, <2>2
<1>7. CASE Vacant(c) \/ Scaffold(c) \/ Register(c) \/ Found(c) \/ Attach(c) \/ SetDefault(c) \/ ExportProjects(c)
  <2>1. n = NoJob \/ n = [j EXCEPT !.at = "scaffold"] \/ n = [j EXCEPT !.at = "register"]
       \/ n = [j EXCEPT !.at = "found"]
    BY <1>0, <1>7, RegistersAs, AttachesAs DEF Vacant, Scaffold, Found, SetDefault, ExportProjects, Go, Done
  <2>2. n.at \notin {"read", "enter"}
    BY <1>0, <2>1 DEF NoJob, JobFields
  <2> QED BY <1>1, <1>2, <2>2
<1>8. CASE SetUp(c) \/ Export(c)
  <2>1. n.at \notin {"read", "enter"}
    BY <1>0, <1>8 DEF SetUp, Export, Reach, JobFields
  <2> QED BY <1>1, <1>2, <2>1
<1>9. CASE DomainStep(c)
  <2>1. CASE Plan(c)
    BY <1>0, <1>1, <1>2, <2>1 DEF Plan, Reach, JobFields
  <2>2. CASE Hash(c) \/ Commit(c)
    BY <1>0, <1>1, <1>2, <2>2 DEF Hash, Commit, Reach, Go, JobFields
  <2>3. CASE Apply(c)
    BY <1>0, <1>1, <1>2, <2>3 DEF Apply, NoJob
  <2> QED BY <1>9, <2>1, <2>2, <2>3 DEF DomainStep
<1> QED BY <1>1, <1>2, <1>3, <1>4, <1>6, <1>7, <1>8, <1>9 DEF Acts, ProjectStep, WorkspaceStep

LEMMA BasedByShow ==
  ASSUME Types, NEW c \in Procs, Show(c) PROVE Based(c)'
<1> DEFINE j == job[c]
           q == job[c].req
           n == job'[c]
<1>1. /\ j.at = "show" /\ n.at = "read" /\ n.req = q /\ local' = local /\ man' = man
      /\ n.entry = IF q.op = "adopt" THEN Asked(q) ELSE Updated(q, Got(q.p).entry)
      /\ CanGet(q.p) /\ (q.op = "adopt" => Got(q.p) = None) /\ (q.op # "adopt" => Got(q.p) # None)
  BY DEF Types, Shapes, Show, At_May, At, May, Reach, JobFields, files
<1>2. FilesOK
  BY DEF Types
<1>3. q.op = "adopt" => Unlisted(local, man, q.p)
  BY <1>1, <1>2, NotThere
<1>4. q.op = "update" => \E x \in ProjectEntry : Shows(local, man, q.p, x) /\ n.entry = Updated(q, x)
  BY <1>1, <1>2, GotShown
<1> QED BY <1>1, <1>3, <1>4 DEF Based

LEMMA BasedByRead ==
  ASSUME Types, Looked, NEW c \in Procs, Read(c) PROVE Based(c)'
<1> DEFINE j == job[c]
           q == job[c].req
           n == job'[c]
<1>1. /\ j.at = "read" /\ n.at = "enter" /\ n.req = Current(q) /\ n.entry = AsFilled(j.entry)
      /\ n.seen = Snapshot(q) /\ CanGet(q.p) /\ Prepared(q, j.entry) /\ n.overtaken = j.overtaken
  BY DEF Types, Shapes, Read, At_May, At, May, Reach, JobFields, files
<1>2. FilesOK /\ JobOK(j) /\ Based(c)
  BY DEF Types, Looked
<1>3. IsRequest(q) /\ q.op \in {"adopt", "update"} /\ q.w \in Registered
  BY <1>1, <1>2 DEF JobOK, Placed, Prepared
<1>4. n.req.op = q.op
  BY <1>1, <1>2, <1>3, CurrentType
<1>5. n.seen.project = Got(q.p)
  BY <1>1 DEF Snapshot
<1>6. ~j.overtaken /\ q.op = "adopt" => n.seen.project = None
  BY <1>1, <1>2, <1>5, NotThere DEF Based
<1>7. ~j.overtaken /\ q.op = "update" => n.entry = AsFilled(Updated(n.req, n.seen.project.entry))
  <2> SUFFICES ASSUME ~j.overtaken, q.op = "update" PROVE n.entry = AsFilled(Updated(n.req, n.seen.project.entry))
    OBVIOUS
  <2>1. PICK x \in ProjectEntry : Shows(local, man, q.p, x) /\ j.entry = Updated(q, x)
    BY <1>1, <1>2 DEF Based
  <2>2. Got(q.p).entry = x
    BY <1>1, <1>2, <2>1, OnlyOne
  <2>3. Updated(n.req, x) = Updated(q, x)
    BY <1>1, <1>3, CurrentSame
  <2> QED BY <1>1, <1>5, <2>1, <2>2, <2>3
<1> QED BY <1>1, <1>3, <1>4, <1>6, <1>7 DEF Based, Confirmed

LEMMA BasedByChange ==
  ASSUME Types, NEW c \in Procs, Change(c) PROVE Based(c)'
<1> DEFINE j == job[c]
           q == job[c].req
           n == job'[c]
<1>1. /\ j.at = "change" /\ n.at = "enter" /\ n.req = Current(q) /\ n.entry = Changed(q, Got(q.p).entry)
      /\ (q.op = "bind" => n.seen = Snapshot(q)) /\ Got(q.p) # None /\ Got(q.p).w = q.w
      /\ man' = man /\ local' = local
  BY DEF Types, Shapes, Change, At_May, At, May, Reach, JobFields, files
<1>2. FilesOK /\ JobOK(j)
  BY DEF Types
<1>3. IsRequest(q) /\ q.op \in {"bind"} \union Confirmed /\ q.w \in Registered
  BY <1>1, <1>2, GotType DEF JobOK, Placed
<1>4. n.req.op = q.op /\ n.req.p = q.p /\ \A x : Changed(n.req, x) = Changed(q, x)
  BY <1>1, <1>2, <1>3, CurrentType, CurrentSame
<1>5. q.op = "bind" => n.seen.project = Got(q.p)
  BY <1>1 DEF Snapshot
<1>6. \E x \in ProjectEntry : Shows(local, man, q.p, x) /\ n.entry = Changed(q, x)
  BY <1>1, <1>2, GotShown
<1> QED BY <1>1, <1>3, <1>4, <1>5, <1>6 DEF Based, Confirmed

(* Under the lock: what the project says there, if it was acknowledged.    *)
LEMMA BasedByEnter ==
  ASSUME Types, Kept, Acknowledged, Looked, NEW c \in Procs, Enter(c) PROVE Based(c)'
<1> DEFINE j == job[c]
           q == job[c].req
           n == job'[c]
           k == <<PathOf(q.w), q.p>>
           x == acked[k]
<1>1. /\ j.at = "enter" /\ HomeFree /\ n.at = "manifest" /\ n.req = Current(q) /\ n.entry = j.entry
      /\ n.overtaken = j.overtaken /\ acked' = acked
      /\ CanGet(q.p) /\ q.w \in Registered
      /\ IF q.op = "create" THEN Got(q.p) = None ELSE Snapshot(q) = j.seen
  BY DEF Types, Shapes, Enter, At, SameAsRead, SameSnapshot, Reach, JobFields, files
<1>2. FilesOK /\ JobOK(j) /\ Based(c)
  BY DEF Types, Looked
<1>3. IsRequest(q) /\ q.op \in ProjectOps
  BY <1>1, <1>2 DEF JobOK, Placed
<1>4. Key(c)' = k /\ \A y, z : SameBut(n.req, y, z) <=> SameBut(q, y, z)
  BY <1>1, <1>2, <1>3, CurrentType, CurrentSame DEF Key
<1> SUFFICES ASSUME ~j.overtaken, k \in DOMAIN acked PROVE SameBut(q, x, n.entry)
  BY <1>1, <1>4 DEF Based
<1>5. HeldIn(local, man, k, x)
  BY <1>1, NobodyWrites DEF At
<1>6. Shows(local, man, q.p, x)
  <2>1. k[1] = PathOf(q.w) /\ k[2] = q.p
    OBVIOUS
  <2> HIDE DEF k, x
  <2> QED BY <1>5, <2>1 DEF HeldIn, Says, Shows, Shown
<1>7. Got(q.p) # None /\ Got(q.p).entry = x /\ x \in ProjectEntry
  BY <1>1, <1>2, <1>6, OnlyOne
<1>8. q.op # "create" /\ j.seen.project = Got(q.p)
  BY <1>1, <1>7 DEF Snapshot
<1> HIDE DEF x
<1>9. CASE q.op = "adopt"
  BY <1>1, <1>2, <1>7, <1>8, <1>9 DEF Based
<1>10. CASE q.op = "update"
  <2>1. j.entry = AsFilled(Updated(q, x))
    BY <1>1, <1>2, <1>7, <1>8, <1>10 DEF Based
  <2> QED BY <1>1, <1>3, <1>7, <1>10, <2>1, UpdatesBut
<1>11. CASE q.op = "bind"
  <2>1. j.entry = Changed(q, x)
    BY <1>1, <1>2, <1>7, <1>8, <1>11 DEF Based
  <2> QED BY <1>1, <1>3, <1>7, <1>11, <2>1, ChangesBut
<1>12. CASE q.op \in Confirmed
  <2>1. PICK y \in ProjectEntry : Shows(local, man, q.p, y) /\ j.entry = Changed(q, y)
    BY <1>1, <1>2, <1>12 DEF Based
  <2>2. y = x
    BY <1>1, <1>2, <1>7, <2>1, OnlyOne
  <2>3. q.op \in {"bind", "set", "unbind", "remove"}
    BY <1>12 DEF Confirmed
  <2> QED BY <1>1, <1>3, <1>7, <2>1, <2>2, <2>3, ChangesBut
<1> QED BY <1>3, <1>8, <1>9, <1>10, <1>11, <1>12 DEF ProjectOps, Confirmed

LEMMA BasedByManifest ==
  ASSUME Types, Looked, NEW c \in Procs, WriteManifest(c) PROVE Based(c)'
<1> DEFINE O == Overtaking({Key(c)})
<1>1. At(c, "manifest") /\ job' = [O EXCEPT ![c].at = "local"] /\ acked' = acked /\ Shapes /\ Based(c)
  BY DEF WriteManifest, Types, Looked
<1>2. DOMAIN O = Procs /\ O[c] = job[c] /\ DOMAIN job[c] = JobFields
  BY <1>1, Overtakes, OvertakesNot DEF LooksElsewhere, At, Shapes
<1> HIDE DEF O
<1>3. job'[c] = [job[c] EXCEPT !.at = "local"]
  BY <1>1, <1>2
<1>4. /\ job'[c].at = "local" /\ job'[c].req = job[c].req /\ job'[c].entry = job[c].entry
      /\ job'[c].overtaken = job[c].overtaken /\ Key(c)' = Key(c)
  BY <1>2, <1>3 DEF JobFields, Key
<1> QED BY <1>1, <1>4 DEF Based, At

LEMMA BasedSelf ==
  ASSUME Types, Kept, Acknowledged, Looked, NEW c \in Procs, Acts(c) PROVE Based(c)'
<1>1. CASE job'[c].at \notin {"read", "enter", "manifest", "local"}
  BY <1>1 DEF Based
<1>2. CASE job'[c].at = "read"
  BY <1>2, Looking, BasedByShow
<1>3. CASE job'[c].at = "enter"
  <2>1. CASE Declare(c)
    <3>1. job'[c].req.op = "create"
      BY <2>1 DEF Declare, At_May, At, Go, Types, Shapes, JobFields, JobOK, Placed
    <3> QED BY <1>3, <3>1 DEF Based, Confirmed
  <2> QED BY <1>3, <2>1, Looking, BasedByRead, BasedByChange
<1>4. CASE job'[c].at = "manifest"
  BY <1>4, Arrival, BasedByEnter DEF CameWith
<1>5. CASE job'[c].at = "local"
  BY <1>5, Arrival, BasedByManifest DEF CameWith
<1> QED BY <1>1, <1>2, <1>3, <1>4, <1>5

(* What the others do to it meanwhile: a domain command may move it along. *)
LEMMA BasedAlong ==
  ASSUME Types, Kept, Acknowledged, Looked, NEW c \in Procs, Apply(c), ~crossed', NEW b \in Procs \ {c},
         job[b].at \in {"manifest", "local"}, ~job[b].overtaken, Key(b) \in DOMAIN acked'
  PROVE  SameBut(job[b].req, acked'[Key(b)], job'[b].entry)
<1> DEFINE j == job[b]
           q == job[c].req
           next == job[c].next
           keys == Moved(q, next)
           x == acked[Key(b)]
<1>1. /\ DOMAIN acked' = DOMAIN acked
      /\ acked'[Key(b)] = IF Key(b) \in keys THEN [x EXCEPT !.domain = q.e] ELSE x
      /\ next = None => keys = {}
      /\ next # None => /\ q.e \in Domains /\ crossed' = (crossed \/ WrittenBlindly(c, q.v))
                        /\ keys = {q.v} \X {p \in DOMAIN next.projects : next.projects[p].domain = q.e}
      /\ IF next = None THEN job'[b] = j ELSE job'[b] = Renamed(b, q.v, keys, q.e)
  <2> HIDE DEF keys
  <2> QED BY StepOfApply DEF keys
<1>2. SameBut(j.req, x, j.entry) /\ x \in ProjectEntry /\ j.entry \in ProjectEntry /\ DOMAIN j = JobFields
  <2>1. Based(b) /\ Shapes /\ JobOK(j) /\ Key(b) \in DOMAIN acked
    BY <1>1 DEF Looked, Types
  <2> QED BY <2>1 DEF Based, Looked, Shapes, JobOK, Furnished
<1>3. CASE next = None \/ q.v # j.req.v
  <2>1. Key(b) \notin keys
    BY <1>1, <1>3 DEF Key
  <2>2. ~LooksElsewhere(b)
    BY DEF LooksElsewhere, At
  <2>3. job'[b] = j
    BY <1>1, <1>3, <2>2, OvertakesNot DEF Renamed, Types
  <2> HIDE DEF keys, x
  <2> QED BY <1>1, <1>2, <2>1, <2>3
<1>4. CASE next # None /\ q.v = j.req.v
  <2>1. At(b, "local")
    BY <1>1, <1>4 DEF WrittenBlindly, Blind, At
  <2>2. job'[b] = [j EXCEPT !.rewritten = TRUE, !.entry.domain = IF Key(b) \in keys THEN q.e ELSE @]
    BY <1>1, <1>4, <2>1 DEF Renamed
  <2>3. job'[b].entry = [j.entry EXCEPT !.domain = IF Key(b) \in keys THEN q.e ELSE j.entry.domain]
    BY <1>2, <2>2 DEF JobFields
  <2>4. [j.entry EXCEPT !.domain = j.entry.domain] = j.entry
    BY <1>2 DEF ProjectEntry
  <2>5. q.e \in Domains
    BY <1>1, <1>4
  <2> HIDE DEF keys, x
  <2>6. CASE Key(b) \in keys
    <3>1. job'[b].entry = [j.entry EXCEPT !.domain = q.e] /\ acked'[Key(b)] = [x EXCEPT !.domain = q.e]
      BY <1>1, <2>3, <2>6
    <3>2. SameBut(j.req, [x EXCEPT !.domain = q.e], [j.entry EXCEPT !.domain = q.e])
      BY <1>2, <2>5, SameButAlong
    <3> QED BY <3>1, <3>2
  <2>7. CASE Key(b) \notin keys
    BY <1>1, <1>2, <2>3, <2>4, <2>7
  <2> QED BY <2>6, <2>7
<1> QED BY <1>3, <1>4

LEMMA BasedOthers ==
  ASSUME Types, Kept, Acknowledged, Looked, NEW c \in Procs, Acts(c), ~crossed', NEW b \in Procs \ {c}
  PROVE  Based(b)'
<1> DEFINE j == job[b]
           q == job[b].req
           n == job'[b]
<1>1. Untouched(b) /\ Based(b)
  BY Others DEF Untouching, Looked
<1>2. /\ n.at = j.at /\ n.req = q /\ n.seen = j.seen /\ (~n.overtaken => ~j.overtaken) /\ Key(b)' = Key(b)
      /\ (j.at # "local" => n.entry = j.entry)
  BY <1>1 DEF Untouched, Relabelled, Key, At
<1> SUFFICES ASSUME ~n.overtaken PROVE Based(b)'
  BY DEF Based
<1>3. ASSUME LooksElsewhere(b), NEW x, Shows(local, man, q.p, x) PROVE Shows(local', man', q.p, x)
  <2>1. PICK w \in DOMAIN local.ws : Shown(local, man, w, q.p, x)
    BY <1>3 DEF Shows
  <2>2. Shown(local', man', w, q.p, x)
    BY <1>3, <2>1, ShownStays
  <2> QED BY <2>2 DEF Shows, Shown
<1>4. LooksElsewhere(b) /\ Unlisted(local, man, q.p) => Unlisted(local', man', q.p)
  BY UnlistedStays
<1>5. CASE j.at = "read"
  <2>1. LooksElsewhere(b)
    BY <1>5 DEF LooksElsewhere, At
  <2>2. q.op = "update" => \E x \in ProjectEntry : Shows(local', man', q.p, x) /\ n.entry = Updated(q, x)
    BY <1>1, <1>2, <1>3, <1>5, <2>1 DEF Based
  <2>3. q.op = "adopt" => Unlisted(local', man', q.p)
    BY <1>1, <1>2, <1>4, <1>5, <2>1 DEF Based
  <2> QED BY <1>2, <1>5, <2>2, <2>3 DEF Based
<1>6. CASE j.at = "enter"
  <2>1. q.op \in Confirmed => LooksElsewhere(b)
    BY <1>6 DEF LooksElsewhere, At
  <2>2. q.op \in Confirmed => \E x \in ProjectEntry : Shows(local', man', q.p, x) /\ n.entry = Changed(q, x)
    BY <1>1, <1>2, <1>3, <1>6, <2>1 DEF Based
  <2> QED BY <1>1, <1>2, <1>6, <2>2 DEF Based
<1>7. CASE j.at \in {"manifest", "local"}
  <2>1. Apply(c) \/ (job'[b] = job[b] /\ acked' = acked)
    BY <1>7, Beside DEF InHome
  <2>2. CASE Apply(c)
    <3>1. Key(b) \in DOMAIN acked' => SameBut(q, acked'[Key(b)], n.entry)
      BY <1>2, <1>7, <2>2, BasedAlong
    <3> QED BY <1>2, <1>7, <3>1 DEF Based
  <2>3. CASE job'[b] = job[b] /\ acked' = acked
    BY <1>1, <1>2, <1>7, <2>3 DEF Based
  <2> QED BY <2>1, <2>2, <2>3
<1>8. CASE j.at \notin {"read", "enter", "manifest", "local"}
  BY <1>2, <1>8 DEF Based
<1> QED BY <1>5, <1>6, <1>7, <1>8

LEMMA CarriesAlong ==
  ASSUME NEW m \in Manifest, NEW n, NEW d \in Domains, Rebinding(m, n, d),
         NEW old, NEW new, NEW p, Carries(m, old, m, new, p)
  PROVE  Carries(n, old, n, new, p)
<1> SUFFICES ASSUME NEW o \in DOMAIN n.projects \ {p} PROVE Joined(n, new)[o] = Joined(n, old)[o]
  BY DEF Carries
<1> DEFINE k == <<p, o>>
           x == Joined(m, old)[o]
<1>1. k[2] = o /\ o \in DOMAIN m.projects /\ Joined(m, new)[o] = x
  BY DEF Rebinding, Carries
<1> HIDE DEF k, x
<1>2. Says(m, old, k, x) /\ Says(m, new, k, x)
  BY <1>1 DEF Says, x
<1>3. Says(n, old, k, Along(n, d, k, x)) /\ Says(n, new, k, Along(n, d, k, x))
  BY <1>2, SaysAlong
<1> QED BY <1>1, <1>3 DEF Says

LEMMA LevelOthers ==
  ASSUME Types, Kept, Acknowledged, Looked, NEW c \in Procs, Acts(c), ~crossed', NEW b \in Procs \ {c}
  PROVE  Level(b)'
<1> DEFINE j == job[b]
           v == j.req.v
           w == j.req.w
           old == local.ws[w].binds
           new == j.next.local.ws[w].binds
<1>1. Untouched(b) /\ Level(b) /\ Marked(b) /\ JobOK(j) /\ FilesOK
  BY Others DEF Untouching, Looked, Kept, Types
<1>2. SUFFICES ASSUME j.at \in {"manifest", "local"} PROVE Level(b)'
  BY <1>1 DEF Untouched, Level
<1>3. local' = local /\ job[c].at \notin InHome
  BY <1>2, Beside DEF InHome
<1>4. v \in Vaults /\ man[v].id # None
  BY <1>1, <1>2, InAVault DEF Marked, Blind, JobOK, Placed
<1>5. ~(WriteManifest(c) \/ LocalFails(c) \/ ImportProjects(c) \/ ImportFails(c))
  BY <1>3 DEF WriteManifest, LocalFails, ImportProjects, ImportFails, At, InHome
<1>6. /\ job'[b].at = j.at /\ job'[b].req = j.req /\ job'[b].next = j.next
  BY <1>1 DEF Untouched
<1>7. CASE man'[v] = man[v]
  BY <1>1, <1>3, <1>6, <1>7 DEF Level, At
<1>8. CASE man'[v] # man[v]
  <2> DEFINE q == job[c].req
             next == job[c].next
  <2>1. Apply(c) /\ next # None /\ q.v = v
    BY <1>4, <1>5, <1>8, Writers
  <2>2. man' = [man EXCEPT ![v] = next] /\ q.e \in Domains /\ crossed' = (crossed \/ WrittenBlindly(c, v))
    BY <2>1, StepOfApply
  <2>3. j.at = "local"
    BY <1>2, <2>1, <2>2 DEF WrittenBlindly, Blind
  <2>4. man'[v] = next /\ man[v] \in Manifest
    BY <1>1, <1>4, <2>2 DEF FilesOK
  <2>5. Rebinding(man[v], next, q.e)
    <3>1. Rebinds(c) /\ Marked(c) /\ job[c].at = "apply"
      BY <2>1 DEF Acknowledged, Kept, Apply, At
    <3>2. job[c].seen.man = man[v]
      BY <2>1, <3>1 DEF Marked
    <3> QED BY Zenon, <2>1, <3>1, <3>2 DEF Rebinds, Rebinding
  <2>6. /\ Carries(j.next.was, old, j.next.man, old, j.req.p) /\ Carries(j.next.man, old, j.next.was, old, j.req.p)
        /\ Carries(man[v], old, man[v], new, j.req.p)
    BY Zenon, <1>1, <2>3 DEF Level, At
  <2>7. Carries(next, old, next, new, j.req.p)
    <3> HIDE DEF next, old, new, q, j
    <3> QED BY <2>2, <2>4, <2>5, <2>6, CarriesAlong
  <2> QED BY Zenon, <1>3, <1>6, <2>3, <2>4, <2>6, <2>7 DEF Level, At
<1> QED BY <1>7, <1>8

LEMMA LevelSelf ==
  ASSUME Types, Kept, Looked, NEW c \in Procs, Acts(c)
  PROVE  Level(c)'
<1> DEFINE j == job[c]
           q == job[c].req
           n == job'[c]
<1>1. CameWith(c) /\ Level(c) /\ Marked(c) /\ JobOK(j) /\ FilesOK
  BY Arrival DEF Looked, Kept, Types
<1>2. CASE n.at \notin {"manifest", "local"}
  BY <1>2 DEF Level
<1>3. CASE n.at = "manifest"
  <2> DEFINE w == q.w
             m == man[PathOf(q.w)]
             s == Saved(w, q.p, j.entry)
             old == local.ws[w].binds
             new == s.local.ws[w].binds
  <2>1. Enter(c) /\ n.req = Current(q) /\ n.next = s
    BY <1>1, <1>3 DEF CameWith
  <2>2. j.at = "enter" /\ w \in Registered /\ local' = local
    BY <2>1 DEF Enter, At, SameAsRead, SameSnapshot, files
  <2>3. IsRequest(q) /\ q.p \in Projects /\ j.entry \in ProjectEntry
    BY <1>1, <2>2 DEF JobOK, Placed, Furnished, IsRequest, Or
  <2>4. n.req.w = w /\ n.req.p = q.p
    BY <1>1, <2>1, <2>2, <2>3, CurrentType
  <2>5. \A o \in DOMAIN m.projects \ {q.p} :
             /\ o \in DOMAIN s.man.projects
             /\ Joined(s.man, old)[o] = Joined(m, old)[o] /\ Joined(s.man, new)[o] = Joined(m, old)[o]
    <3>1. FilesOK
      BY <1>1
    <3> HIDE DEF j, q
    <3> QED BY <2>2, <2>3, <3>1, SavedStands
  <2>6. s.was = m /\ DOMAIN s.man.projects = DOMAIN m.projects \union {q.p}
    <3>1. s.was = m /\ Replaces(m, s.man, q.p, j.entry)
      BY <1>1, <2>2, <2>3, SavedType
    <3> QED BY <3>1 DEF Replaces
  <2> HIDE DEF s, old, new, m
  <2>7. /\ Carries(s.was, old, s.man, old, q.p) /\ Carries(s.man, old, s.was, old, q.p)
        /\ Carries(s.man, old, s.man, new, q.p)
    BY <2>5, <2>6 DEF Carries
  <2> USE DEF old, new
  <2> HIDE DEF j, q, n
  <2> QED BY Zenon, <1>3, <2>1, <2>2, <2>4, <2>7 DEF Level, At, n
<1>4. CASE n.at = "local"
  <2>1. WriteManifest(c) /\ n.req = q /\ n.next = j.next
    BY <1>1, <1>4 DEF CameWith
  <2>2. j.at = "manifest" /\ local' = local /\ man[q.v] = j.next.was
    BY <1>1, <2>1 DEF WriteManifest, At, Marked
  <2>3. q.v \in Vaults /\ man \in [Vaults -> Manifest]
    BY <1>1, <2>2, InAVault DEF Blind, FilesOK
  <2>4. man'[q.v] = j.next.man
    BY <2>1, <2>2, <2>3 DEF WriteManifest
  <2> QED BY ZenonT(30), <1>1, <1>4, <2>1, <2>2, <2>4 DEF Level, At
<1> QED BY <1>2, <1>3, <1>4

(* A Vault without a Manifest has no projects, and what is acknowledged is *)
(* always a project.                                                       *)
LEMMA BareStays ==
  ASSUME Types, Kept, Acknowledged, Looked, NEW c \in Procs, Acts(c), ~crossed'
  PROVE  Bare'
<1> DEFINE j == job[c]
           q == job[c].req
<1>0. man \in [Vaults -> Manifest] /\ Marked(c) /\ JobOK(j) /\ Imported(c) /\ Restorable(c)
  BY DEF Types, FilesOK, Kept, Acknowledged
<1> SUFFICES ASSUME NEW v \in Vaults, man'[v].id = None PROVE DOMAIN man'[v].projects = {}
  BY DEF Bare
<1>1. man[v].id = None
  <2>1. ASSUME Makes(c, v) PROVE FALSE
    <3>1. j.at \in {"found", "attach"} /\ man'[v].id = q.w
      BY <2>1 DEF Makes
    <3>2. q.w # None
      BY <1>0, <3>1 DEF JobOK, Placed, IsRequest
    <3> QED BY <3>1, <3>2
  <2> QED BY <2>1, Identity
<1>2. DOMAIN man[v].projects = {}
  BY <1>1 DEF Looked, Bare
<1> SUFFICES ASSUME man'[v] # man[v] PROVE DOMAIN man'[v].projects = {}
  BY <1>2
<1>3. ~((\E r \in Requests : Start(c, r)) \/ Refuse(c) \/ Kill(c))
  BY DEF Start, Refuse, Kill, files
<1>4. ~ProjectStep(c)
  <2>1. ~(WriteManifest(c) \/ LocalFails(c))
    <3> SUFFICES ASSUME WriteManifest(c) \/ LocalFails(c) PROVE FALSE
      OBVIOUS
    <3>1. j.at \in {"manifest", "local"} /\ \E m : man' = [man EXCEPT ![q.v] = m]
      BY DEF WriteManifest, LocalFails, PutBack, At
    <3>2. q.v = v
      BY <1>0, <3>1
    <3>3. man[v].id = q.w /\ q.w # None
      BY <1>0, <3>1, <3>2 DEF Marked, JobOK, Placed
    <3> QED BY <1>1, <3>3
  <2> QED BY <2>1 DEF ProjectStep, Show, Read, Preview, Change, Check, Declare, Enter, WriteLocal, files
<1>5. ~WorkspaceStep(c)
  <2>1. ~(Found(c) \/ Attach(c))
    <3> SUFFICES ASSUME Found(c) \/ Attach(c) PROVE FALSE
      OBVIOUS
    <3>1. j.at \in {"found", "attach"} /\ \E m : man' = [man EXCEPT ![q.v] = m] /\ (j.at = "found" => m = NewManifest(q.w))
                                                /\ (j.at = "attach" => m = j.next)
      BY DEF Found, FoundManifest, Attach, At
    <3>2. q.v = v
      BY <1>0, <3>1
    <3>3. man'[v].id = q.w
      BY <1>0, <3>1, <3>2 DEF NewManifest, Marked
    <3>4. q.w # None
      BY <1>0, <3>1 DEF JobOK, Placed, IsRequest
    <3> QED BY <3>3, <3>4
  <2>2. ~ImportProjects(c)
    <3> SUFFICES ASSUME ImportProjects(c) PROVE FALSE
      OBVIOUS
    <3>1. PICK w \in j.next : man' = [man EXCEPT ![PathOf(w)] = ManifestFor(@, Entries(c, w))]
      BY DEF ImportProjects
    <3>2. At(c, "import") /\ v = PathOf(w)
      BY <1>0, <3>1 DEF ImportProjects
    <3>3. w \in DOMAIN j.entry.reg.ws /\ PathOf(w) = j.entry.reg.ws[w].path
      BY <1>0, <3>1, <3>2 DEF Imported, JobOK, Furnished, At
    <3>4. man[v].id # None
      BY <1>0, <3>2, <3>3 DEF Restorable
    <3> QED BY <1>1, <3>4
  <2>3. ~ImportFails(c)
    <3> SUFFICES ASSUME ImportFails(c) PROVE FALSE
      OBVIOUS
    <3>1. At(c, "import") /\ v \in {j.entry.reg.ws[w].path : w \in DOMAIN j.entry.reg.ws}
      BY DEF ImportFails
    <3>2. man[v].id # None
      BY <1>0, <3>1 DEF Restorable
    <3> QED BY <1>1, <3>2
  <2> QED BY <2>1, <2>2, <2>3 DEF WorkspaceStep, Vacant, Scaffold, Register, SetUp, SetDefault, Export, ExportProjects, Import, files
<1>6. CASE DomainStep(c)
  <2>1. Apply(c)
    BY <1>6 DEF DomainStep, Plan, Hash, Commit, files
  <2>2. man' = [man EXCEPT ![q.v] = j.next] /\ j.next # None
    BY <2>1, StepOfApply
  <2>3. q.v = v /\ man'[v] = j.next
    BY <1>0, <2>2
  <2>4. DOMAIN j.next.projects = DOMAIN man[v].projects
    <3>1. Rebinds(c) /\ Marked(c) /\ j.at = "apply"
      BY <2>1 DEF Acknowledged, Kept, Apply, At
    <3> QED BY <2>2, <2>3, <3>1 DEF Marked, Rebinds
  <2> QED BY <1>2, <2>3, <2>4
<1> QED BY <1>3, <1>4, <1>5, <1>6 DEF Acts

LEMMA ViewType ==
  ASSUME NEW l \in WorkspaceRegistry, NEW m \in [Vaults -> Manifest], NEW k \in DOMAIN View(l, m)
  PROVE  View(l, m)[k] \in ProjectEntry
<1> DEFINE x == View(l, m)[k]
<1>1. HeldIn(l, m, k, x)
  BY ViewHeld
<1> HIDE DEF x
<1>2. PICK w \in DOMAIN l.ws : l.ws[w].path = k[1] /\ Says(m[k[1]], l.ws[w].binds, k, x)
  BY <1>1 DEF HeldIn
<1>3. l.ws[w].binds \in Partial(Projects \X Repos, Dirs) /\ m[k[1]] \in Manifest
  BY <1>2, RegistryParts
<1>4. /\ k[2] \in DOMAIN m[k[1]].projects /\ Joined(m[k[1]], l.ws[w].binds)[k[2]] = x
      /\ Joined(m[k[1]], l.ws[w].binds) \in ProjectEntries
      /\ DOMAIN Joined(m[k[1]], l.ws[w].binds) = DOMAIN m[k[1]].projects
  BY <1>2, <1>3, JoinedType DEF Says
<1>5. x \in ProjectEntry
  BY <1>4, PartialValue DEF ProjectEntries
<1> QED BY <1>5 DEF x

LEMMA ProjectsStay ==
  ASSUME Types, Looked, NEW c \in Procs, Acts(c), NEW k \in DOMAIN acked'
  PROVE  acked'[k] \in ProjectEntry
<1>1. \A i \in DOMAIN acked : acked[i] \in ProjectEntry
  BY DEF Looked
<1>2. CASE Apply(c)
  <2> DEFINE keys == Moved(job[c].req, job[c].next)
  <2>1. /\ k \in DOMAIN acked /\ acked'[k] = IF k \in keys THEN [acked[k] EXCEPT !.domain = job[c].req.e] ELSE acked[k]
        /\ k \in keys => job[c].req.e \in Domains
    BY <1>2, StepOfApply
  <2> HIDE DEF keys
  <2> QED BY <1>1, <2>1 DEF ProjectEntry
<1>3. CASE WriteLocal(c)
  <2>1. job[c].entry \in ProjectEntry
    BY <1>3 DEF Types, JobOK, Furnished, WriteLocal, At
  <2> QED BY <1>1, <1>3, <2>1 DEF WriteLocal, With
<1>4. CASE acked' = View(local', man')
  <2>1. local' \in WorkspaceRegistry /\ man' \in [Vaults -> Manifest]
    BY Deeds DEF Deed, FilesOK
  <2> QED BY <1>4, <2>1, ViewType
<1>5. CASE DOMAIN acked' \subseteq DOMAIN acked /\ \A i \in DOMAIN acked' : acked'[i] = acked[i]
  BY <1>1, <1>5
<1> QED BY <1>2, <1>3, <1>4, <1>5, Remembers

LEMMA LookStep ==
  ASSUME Types, Kept, Acknowledged, Looked, NEW c \in Procs, Acts(c), ~crossed'
  PROVE  Looked'
<1>1. Bare' /\ \A k \in DOMAIN acked' : acked'[k] \in ProjectEntry
  BY BareStays, ProjectsStay
<1>2. ASSUME NEW b \in Procs PROVE Level(b)' /\ Based(b)'
  BY LevelSelf, LevelOthers, BasedSelf, BasedOthers
<1> QED BY <1>1, <1>2 DEF Looked

LookInv == AckInv /\ (~crossed => Looked)

LEMMA LookInit == Init => LookInv
<1> SUFFICES ASSUME Init PROVE Looked
  BY AckInit DEF LookInv
<1>1. PICK s \in Starts : local = s.local /\ man = s.man
  BY DEF Init
<1>2. IsStart(s)
  BY StartsAssumption
<1>3. Bare
  BY <1>1, <1>2, EmptyIn DEF IsStart, Bare
<1>4. acked = View(local, man) /\ \A b \in Procs : job[b].at = "idle"
  BY DEF Init, NoJob
<1>5. \A k \in DOMAIN acked : acked[k] \in ProjectEntry
  BY <1>1, <1>2, <1>4, ViewType DEF IsStart
<1> QED BY <1>3, <1>4, <1>5 DEF Looked, Level, Based

LEMMA LookStays == LookInv /\ [Next]_vars => LookInv'
<1> SUFFICES ASSUME LookInv, [Next]_vars PROVE LookInv'
  OBVIOUS
<1>1. AckInv'
  BY AckStays DEF LookInv
<1>2. CASE UNCHANGED vars
  <2>1. local' = local /\ man' = man /\ job' = job /\ crossed' = crossed /\ acked' = acked
    BY <1>2 DEF vars, files, history
  <2>2. ASSUME NEW b \in Procs, Level(b), Based(b) PROVE Level(b)' /\ Based(b)'
    <3>1. Level(b)'
      BY Zenon, <2>1, <2>2 DEF Level, At
    <3>2. Based(b)'
      BY <2>1, <2>2 DEF Based, Key
    <3> QED BY <3>1, <3>2
  <2> QED BY <1>1, <2>1, <2>2 DEF LookInv, Looked, Bare
<1>3. ASSUME NEW c \in Procs, Acts(c) PROVE LookInv'
  BY <1>1, <1>3, LookStep, Blindly DEF LookInv, AckInv, KeptInv
<1> QED BY <1>2, <1>3 DEF Next, Acts

(* Who leaves the second write: he has written, failed or been killed.     *)
LEMMA Leaving ==
  ASSUME Types, NEW c \in Procs, Acts(c), NEW b \in Procs, At(b, "local"), job'[b].at = "idle"
  PROVE  b = c /\ (WriteLocal(c) \/ LocalFails(c) \/ Kill(c))
<1>1. b = c
  <2>1. b # c => job'[b].at = job[b].at
    BY Others DEF Untouching, Untouched
  <2> QED BY <2>1 DEF At
<1>2. job[c].at = "local"
  BY <1>1 DEF At
<1>3. ~((\E r \in Requests : Start(c, r)) \/ Refuse(c))
  BY Zenon, <1>2 DEF Start, Refuse, May, At
<1>4. ProjectStep(c) => WriteLocal(c) \/ LocalFails(c)
  BY <1>2 DEF ProjectStep, Show, Read, Preview, Change, Check, Declare, Enter, WriteManifest, At_May, At
<1>5. ~WorkspaceStep(c)
  BY Zenon, <1>2 DEF WorkspaceStep, Vacant, Scaffold, Register, Found, SetUp, Attach, SetDefault,
                    Export, ExportProjects, Import, ImportProjects, ImportFails, At_May, At
<1>6. ~DomainStep(c)
  BY <1>2 DEF DomainStep, Plan, Hash, Commit, Apply, At_May, At
<1> QED BY <1>1, <1>3, <1>4, <1>5, <1>6 DEF Acts

(* What the theorem says of one process.                                   *)
Asks(c) ==
  LET key == Key(c)
  IN At(c, "local") /\ job'[c].at = "idle" /\ key \in DOMAIN acked /\ key \in DOMAIN acked'
       => crossed' \/ job[c].overtaken \/ acked' = acked \/ SameBut(job[c].req, acked[key], acked'[key])

LEMMA AsksFor ==
  ASSUME LookInv, NEW c \in Procs, Acts(c), NEW b \in Procs
  PROVE  Asks(b)
<1> SUFFICES ASSUME At(b, "local"), job'[b].at = "idle", Key(b) \in DOMAIN acked, Key(b) \in DOMAIN acked',
                    ~crossed', ~job[b].overtaken, acked' # acked
             PROVE  SameBut(job[b].req, acked[Key(b)], acked'[Key(b)])
  BY DEF Asks
<1>1. Types /\ Looked
  BY Blindly DEF LookInv, AckInv, KeptInv
<1>2. b = c /\ (WriteLocal(c) \/ LocalFails(c) \/ Kill(c))
  BY <1>1, Leaving
<1>3. ~LocalFails(c)
  BY DEF LocalFails
<1>4. ~Kill(c)
  BY <1>2 DEF Kill, At, Keep, Key
<1>5. acked' = With(acked, Key(c), job[c].entry)
  BY <1>2, <1>3, <1>4 DEF WriteLocal
<1>6. acked'[Key(b)] = job[b].entry
  BY <1>2, <1>5 DEF With
<1>7. SameBut(job[b].req, acked[Key(b)], job[b].entry)
  BY <1>1 DEF Looked, Based, At
<1> QED BY <1>6, <1>7

(* A command that succeeds changes of a project what it was asked to       *)
(* change, and nothing that another command has written meanwhile, unless  *)
(* it was overtaken between its two looks at the project.                  *)
THEOREM ChangesAsAsked == Spec => ChangesWhatWasAsked
<1>1. LookInv /\ [Next]_vars => [\A c \in Procs :
        LET q == job[c].req
            key == Key(c)
        IN At(c, "local") /\ job'[c].at = "idle" /\ key \in DOMAIN acked /\ key \in DOMAIN acked'
             => crossed' \/ job[c].overtaken \/ acked' = acked \/ SameBut(q, acked[key], acked'[key])]_vars
  BY AsksFor DEF Next, Acts, Asks
<1> QED BY <1>1, LookInit, LookStays, PTL DEF Spec, ChangesWhatWasAsked
=============================================================================
