------------------------------ MODULE Registry ------------------------------
(***************************************************************************)
(* The Workspaces and Projects that campfire knows: local.yaml in          *)
(* CAMPFIRE_HOME (FilesystemWorkspaceRepository) and the Manifest          *)
(* .campfire.yaml in every Vault (WorkspaceManifestRepository), and the    *)
(* commands that write them: workspace project (ProjectService), workspace *)
(* create, setup, default, export and import (WorkspaceService), and what  *)
(* workspace domain rekey, merge, delete and adopt do to the Manifest      *)
(* (DomainRestructureService, AdoptionService; their files: Domains).      *)
(*                                                                         *)
(* Project commands write under the lock of CAMPFIRE_HOME, domain commands *)
(* under the lock of the Workspace, and workspace create and setup save    *)
(* the Manifest under none.  Nobody locks to read.  A lock is held exactly *)
(* while a process is at the places InHome or InVault (WriteLock says when *)
(* it excludes); who is killed there loses it.                             *)
(*                                                                         *)
(* A domain stands for its path.  Names, roles and branches are left out;  *)
(* a repository has its Git remote, portable, and its path on this device. *)
(* No Projects are listed in Workspaces other than the registered ones.    *)
(***************************************************************************)
EXTENDS Naturals, FiniteSets

CONSTANTS
  Procs,       \* the processes that run commands
  Workspaces, Vaults, Projects, Domains, Repos,
  Dirs,        \* directories with a clone of a repository
  Urls,        \* Git remotes
  Remote,      \* the Git remote of each clone, or None
  Requests,    \* the commands they may run
  Starts,      \* the registries to start from: [local, man, dirs, declared]
  None,
  MaxCommands, MaxFaults   \* bounds

VARIABLES
  local,     \* local.yaml: [ws : Workspace -> [path, binds], default]
  man,       \* the Manifest of each Vault: [id, projects]
  dirs,      \* the Vaults whose directory exists
  declared,  \* the domains that the markers in each Vault declare
  backup,    \* the file that workspace export wrote
  job,       \* where each process is, and its local variables
  ran,       \* number of commands started
  faults,    \* number of kills and failed writes
  acked,     \* history: <<Vault, Project>> as its last successful command left it
  crossed,   \* history: a Manifest was written, or made of another Vault's
             \* projects, in a window that nobody checks
  unseen,    \* history: a root changed in a window that nobody checks
  broken     \* history: the Workspaces whose creation was killed half way

files == <<local, man, dirs, declared, backup>>
history == <<acked, crossed, unseen, broken>>
vars == <<files, job, ran, faults, history>>

----------------------------------------------------------------------------
(* The records of the two files; a ProjectEntry is what is made of both.   *)
Or(S) == S \union {None}
Partial(S, T) == UNION {[A -> T] : A \in SUBSET S}
Statuses == {"active", "archived"}

RepositoryEntry == [meta : Or(Urls), path : Or(Dirs)]
ManifestProject == [domain : Domains, status : Statuses, repos : Partial(Repos, Or(Urls))]
ProjectEntry    == [domain : Domains, status : Statuses, repos : Partial(Repos, RepositoryEntry)]
ProjectEntries  == Partial(Projects, ProjectEntry)
Manifest        == [id : Or(Workspaces), projects : Partial(Projects, ManifestProject)]
WorkspaceEntry  == [path : Vaults, binds : Partial(Projects \X Repos, Dirs)]
WorkspaceRegistry ==
  {l \in [ws : Partial(Workspaces, WorkspaceEntry), default : Or(Workspaces)] :
     l.default \in Or(DOMAIN l.ws)}

(* The two files, and what list_projects reads from them.  NoManifest is a *)
(* Vault without .campfire.yaml.                                           *)
Empty      == [x \in {} |-> None]
NoManifest == [id |-> None, projects |-> Empty]
NewManifest(w) == [id |-> w, projects |-> Empty]
NewEntry(v) == [path |-> v, binds |-> Empty]

With(f, x, y) == [z \in DOMAIN f \union {x} |-> IF z = x THEN y ELSE f[z]]
Keep(f, S) == [z \in DOMAIN f \intersect S |-> f[z]]

Registered == DOMAIN local.ws
PathOf(w)  == local.ws[w].path

(* portable_project and restore_project with the bindings of local.yaml.   *)
Portable(entry) ==
  [entry EXCEPT !.repos = [r \in DOMAIN entry.repos |-> entry.repos[r].meta]]
Bound(binds, p, r) == IF <<p, r>> \in DOMAIN binds THEN binds[<<p, r>>] ELSE None
Joined(m, binds) ==
  [p \in DOMAIN m.projects |->
     [m.projects[p] EXCEPT !.repos = [r \in DOMAIN m.projects[p].repos |->
        [meta |-> m.projects[p].repos[r], path |-> Bound(binds, p, r)]]]]

Listed(w)  == Joined(man[PathOf(w)], local.ws[w].binds)

(* list_projects raises manifest-missing or manifest-workspace-mismatch.   *)
CanList(w) == w \in Registered => man[PathOf(w)].id = w

(* get_project looks through all Workspaces, and raises project-ambiguous. *)
Owners(p)  == {w \in Registered : p \in DOMAIN man[PathOf(w)].projects}
CanGet(p)  == (\A w \in Registered : CanList(w)) /\ (\A w, x \in Owners(p) : w = x)
Got(p)     == IF Owners(p) = {} THEN None
              ELSE LET w == CHOOSE w \in Owners(p) : TRUE
                   IN [w |-> w, entry |-> Listed(w)[p]]

(* project_roots: every command that discovers domains raises when two     *)
(* projects of the Manifest, of whatever status, have the same root.       *)
RootsOf(m) == {m.projects[p].domain : p \in DOMAIN m.projects}
Roots(v, S) == {p \in DOMAIN man[v].projects : man[v].projects[p].domain \in S}
Discoverable(v) == \A d \in Domains : Cardinality(Roots(v, {d})) <= 1

----------------------------------------------------------------------------
(* replace_projects: the Manifest and the bindings for a list of projects; *)
(* bindings of projects that are not in the list stay.                     *)
ManifestFor(m, entries) ==
  [m EXCEPT !.projects = [p \in DOMAIN entries |-> Portable(entries[p])]]
BindsFor(binds, entries) ==
  LET here == {k \in (DOMAIN entries) \X Repos :
                 /\ k[2] \in DOMAIN entries[k[1]].repos
                 /\ entries[k[1]].repos[k[2]].path # None}
      kept == {k \in DOMAIN binds : k[1] \notin DOMAIN entries}
  IN [k \in here \union kept |-> IF k \in here THEN entries[k[1]].repos[k[2]].path
                                                ELSE binds[k]]

(* save_project lists again and replaces one project.                      *)
Saved(w, p, entry) ==
  LET entries == With(Listed(w), p, entry)
  IN [was   |-> man[PathOf(w)],
      man   |-> ManifestFor(man[PathOf(w)], entries),
      local |-> [local EXCEPT !.ws[w].binds = BindsFor(@, entries)]]

(* _validated_repository: the clone fills in the remote, or agrees with it.*)
Valid(repo)  == repo.path # None /\ repo.meta # None => Remote[repo.path] \in {None, repo.meta}
Filled(repo) == IF repo.path # None /\ repo.meta = None
                THEN [repo EXCEPT !.meta = Remote[repo.path]] ELSE repo
NewRepo == [meta |-> None, path |-> None]

(* _prepare; the duplicates it looks for are active projects.              *)
PreparedShared(q, entry) ==
  /\ q.w \in Registered /\ CanList(q.w)
  /\ \A r \in DOMAIN entry.repos : Valid(entry.repos[r])
Prepared(q, entry) ==
  /\ q.w \in Registered /\ CanList(q.w) /\ Discoverable(PathOf(q.w))
  /\ LET v == PathOf(q.w)
     IN  \A p \in Roots(v, {entry.domain}) \ {q.p} : man[v].projects[p].status # "active"
  /\ \A r \in DOMAIN entry.repos : Valid(entry.repos[r])

Domain(q, entry) == IF q.d = None THEN entry.domain ELSE q.d
Status(q, entry) == IF q.st = None THEN entry.status ELSE q.st
Updated(q, entry) == [entry EXCEPT !.domain = Domain(q, entry), !.status = Status(q, entry)]
AsFilled(entry) == [entry EXCEPT !.repos = [r \in DOMAIN entry.repos |-> Filled(entry.repos[r])]]

(* bind and update_repository: the project with one repository changed.    *)
Changed(q, entry) ==
  LET old == IF q.r \in DOMAIN entry.repos THEN entry.repos[q.r] ELSE NewRepo
      new == CASE q.op = "unbind" -> [old EXCEPT !.path = None]
               [] OTHER           -> [old EXCEPT !.path = q.dir]
  IN IF q.op = "remove" THEN [entry EXCEPT !.repos = Keep(@, Repos \ {q.r})]
     ELSE [entry EXCEPT !.repos = With(@, q.r, Filled(new))]
MayChange(q, entry) ==
  /\ q.op # "set" => q.r \in DOMAIN entry.repos
  /\ q.op \in {"bind", "set"} /\ q.r \in DOMAIN entry.repos =>
       Valid([entry.repos[q.r] EXCEPT !.path = q.dir])

(* Each look at a Workspace finds its Vault in local.yaml anew.            *)
Current(q) == [q EXCEPT !.v = PathOf(q.w)]

(* _snapshot_hash, and what _save compares: the project and both files.    *)
Snapshot(q) == [project |-> Got(q.p), man |-> man[PathOf(q.w)], local |-> local]

(* All projects of the registered Workspaces.                              *)
View(l, m) ==
  LET keys == {k \in Vaults \X Projects : \E w \in DOMAIN l.ws :
                 l.ws[w].path = k[1] /\ k[2] \in DOMAIN m[k[1]].projects}
  IN [k \in keys |-> LET w == CHOOSE w \in DOMAIN l.ws : l.ws[w].path = k[1]
                     IN Joined(m[k[1]], l.ws[w].binds)[k[2]]]

----------------------------------------------------------------------------
NoJob == [at |-> "idle", req |-> None, entry |-> None, seen |-> None, next |-> None,
          overtaken |-> FALSE, rewritten |-> FALSE]

Init ==
  /\ \E s \in Starts : /\ local = s.local /\ man = s.man
                       /\ dirs = s.dirs /\ declared = s.declared
  /\ backup = None
  /\ job = [c \in Procs |-> NoJob]
  /\ ran = 0 /\ faults = 0
  /\ acked = View(local, man)
  /\ crossed = FALSE /\ unseen = FALSE /\ broken = {}

InHome  == {"manifest", "local", "import"}
InVault == {"apply"}
LockIgnored == TRUE
HomeFree     == \A c \in Procs : job[c].at \notin InHome
VaultFree(v) == \A c \in Procs : job[c].at \in InVault => job[c].req.v # v

At(c, place) == job[c].at = place
Go(c, place) == job' = [job EXCEPT ![c].at = place]
Done(c)      == job' = [job EXCEPT ![c] = NoJob]

(* A Manifest is written while somebody else relies on what he has read of *)
(* it and will not compare any more.                                       *)
Blind == {"domain", "manifest", "hash", "apply", "attach", "scaffold", "register", "found"}
WrittenBlindly(c, v) ==
  \E b \in Procs \ {c} :
    \/ job[b].at = "import"
    \/ /\ job[b].at \in Blind \/ (job[b].at = "enter" /\ job[b].req.op = "create")
       /\ job[b].req.v = v

ProjectOps == {"adopt", "update", "create", "bind", "set", "unbind", "remove"}
DomainOps  == {"rekey", "merge", "delete", "domain-adopt"}
FirstPlace(op) ==
  CASE op \in {"adopt", "update"}         -> "show"
    [] op = "create"                      -> "check"
    [] op = "bind"                        -> "change"
    [] op \in {"set", "unbind", "remove"} -> "preview"
    [] op \in DomainOps                   -> "plan"
    [] op = "workspace-create"            -> "vacant"
    [] op = "import"                      -> "replace"
    [] OTHER                              -> op

(* What a request carries, and that the registry to start from is one that *)
(* the commands have left: its roots are declared, and not shared.         *)
Ops == ProjectOps \union DomainOps \union {"workspace-create", "setup", "default", "export", "import"}
IsRequest(q) ==
  /\ DOMAIN q = {"op", "w", "v", "p", "d", "e", "st", "r", "dir", "repos"} /\ q.op \in Ops
  /\ q.w \in Or(Workspaces) /\ q.v \in Or(Vaults) /\ q.p \in Or(Projects)
  /\ q.d \in Or(Domains) /\ q.e \in Or(Domains) /\ q.st \in Or(Statuses)
  /\ q.r \in Or(Repos) /\ q.dir \in Or(Dirs) /\ q.repos \in Partial(Repos, RepositoryEntry)
  /\ q.op \in ProjectOps => q.p # None
  /\ q.op \in {"adopt", "create"} => q.d # None /\ q.st # None
  /\ q.op \in {"bind", "set", "unbind", "remove"} => q.r # None
  /\ q.op \in {"bind", "set"} => q.dir # None
  /\ q.op \in {"rekey", "merge", "delete"} => q.d # None
  /\ q.op \in {"rekey", "merge", "domain-adopt"} => q.e # None
  /\ q.op \in {"workspace-create", "default"} => q.w # None
  /\ q.op \in {"workspace-create", "setup"} => q.v # None
IsStart(s) ==
  /\ s.local \in WorkspaceRegistry /\ s.man \in [Vaults -> Manifest]
  /\ s.dirs \subseteq Vaults /\ s.declared \in [Vaults -> SUBSET Domains]
  /\ \A w \in DOMAIN s.local.ws : s.man[s.local.ws[w].path].id = w
  /\ \A v \in Vaults :
       LET P == s.man[v].projects IN
       /\ IF s.man[v].id = None THEN P = Empty ELSE v \in s.dirs
       /\ \A p \in DOMAIN P : P[p].domain \in s.declared[v]
       /\ \A p, o \in DOMAIN P :
            p # o /\ P[p].status = "active" /\ P[o].status = "active" => P[p].domain # P[o].domain
ASSUME NoneAssumption ==
  None \notin Workspaces \union Vaults \union Projects \union Domains \union Repos \union Dirs
               \union Statuses \union Manifest \union [w : Workspaces, entry : ProjectEntry]
ASSUME RemoteAssumption == Remote \in [Dirs -> Or(Urls)]
ASSUME RequestsAssumption == \A q \in Requests : IsRequest(q)
ASSUME StartsAssumption == \A s \in Starts : IsStart(s)

(* A command starts; --workspace must name a registered Workspace.         *)
Start(c, q) ==
  /\ At(c, "idle") /\ ran < MaxCommands
  /\ q.op \in ProjectOps \union DomainOps => q.w \in Registered /\ PathOf(q.w) = q.v
  /\ job' = [job EXCEPT ![c] = [NoJob EXCEPT !.at = FirstPlace(q.op), !.req = q]]
  /\ ran' = ran + 1
  /\ UNCHANGED <<files, faults, history>>

----------------------------------------------------------------------------
(* What each place asks before it goes on; else the command is refused.    *)
Asked(q) == [domain |-> q.d, status |-> q.st, repos |-> q.repos]
MayRegister(w, v) ==
  /\ w \in Registered => PathOf(w) = v
  /\ \A x \in Registered \ {w} : PathOf(x) # v
MaySetUp(q) ==
  /\ q.v \in dirs
  /\ IF man[q.v].id = None THEN q.w # None /\ CanList(q.w) ELSE q.w \in {None, man[q.v].id}
Importable ==
  /\ backup # None
  /\ \A w \in DOMAIN backup.entries : backup.entries[w] # Empty => w \in DOMAIN backup.reg.ws
  /\ \A w, x \in DOMAIN backup.entries :
       w # x => DOMAIN backup.entries[w] \intersect DOMAIN backup.entries[x] = {}
  /\ \A w \in DOMAIN backup.reg.ws : man[backup.reg.ws[w].path].id # None
Own(w) == IF w \in Registered THEN man[PathOf(w)].projects ELSE Empty
Affected(q) ==
  CASE q.op \in {"rekey", "merge"} -> {p \in DOMAIN Own(q.w) : Own(q.w)[p].domain = q.d}
    [] q.op = "domain-adopt"       -> DOMAIN Own(q.w) \intersect {q.p}
    [] OTHER                       -> {}
WritesManifest(q) == Affected(q) # {} \/ (q.op = "domain-adopt" /\ q.p # None)
MayPlan(q) ==
  /\ Discoverable(q.v) /\ CanList(q.w) /\ (WritesManifest(q) => man[q.v].id # None)
  /\ CASE q.op = "rekey"  -> q.d \in declared[q.v] /\ q.e \notin declared[q.v]
       [] q.op = "merge"  -> {q.d, q.e} \subseteq declared[q.v] /\ Roots(q.v, {q.e}) = {}
       [] q.op = "delete" -> q.d \in declared[q.v] /\ Roots(q.v, {q.d}) = {}
       [] OTHER           -> q.e \notin declared[q.v] /\ (q.p # None => CanGet(q.p) /\ Got(q.p) # None)

(* The comparison under the Workspace's lock.  rekey plans again there,    *)
(* merge and delete compare the files they touch, and the Manifest only    *)
(* when they write it.                                                     *)
AsPlanned(c) ==
  LET q == job[c].req
      here == declared[q.v]
      sameManifest == man[q.v] = job[c].seen.man
  IN CASE q.op = "rekey"  -> here = job[c].seen.declared /\ sameManifest
       [] q.op = "merge"  -> job[c].seen.declared \subseteq here /\ (job[c].next # None => sameManifest)
       [] q.op = "delete" -> q.d \in here
       [] OTHER           -> q.e \notin here /\ (job[c].next # None => sameManifest)

SameSnapshot(c) ==
  LET q == job[c].req IN
  /\ CanGet(q.p) /\ q.w \in Registered /\ CanList(q.w)
  /\ IF q.op = "create" THEN Got(q.p) = None ELSE Snapshot(q) = job[c].seen

May(c) ==
  LET j == job[c]
      q == j.req
  IN CASE j.at = "show"     -> CanGet(q.p) /\ (IF q.op = "adopt" THEN Got(q.p) = None
                                               ELSE Got(q.p) # None /\ Got(q.p).w = q.w)
       [] j.at = "read"     -> CanGet(q.p) /\ Prepared(q, j.entry) /\ j.entry.domain \in declared[PathOf(q.w)]
       [] j.at = "check"    -> /\ CanGet(q.p) /\ Got(q.p) = None
                               /\ Prepared(q, Asked(q)) /\ q.d \notin declared[PathOf(q.w)]
       [] j.at = "domain"   -> HomeFree => Discoverable(q.v) /\ q.d \notin declared[q.v]
       [] j.at \in {"preview", "change"} ->
            CanGet(q.p) /\ Got(q.p) # None /\ Got(q.p).w = q.w /\ MayChange(q, Got(q.p).entry)
       [] j.at = "enter"    -> HomeFree => SameSnapshot(c)
       [] j.at = "vacant"   -> q.v \notin dirs
       [] j.at = "register" -> HomeFree => MayRegister(q.w, q.v)
       [] j.at = "setup"    -> MaySetUp(q)
       [] j.at = "default"  -> HomeFree => q.w \in Registered
       [] j.at = "export-projects" -> \A w \in Registered : CanList(w)
       [] j.at = "replace"  -> HomeFree => Importable
       [] j.at = "plan"     -> MayPlan(q)
       [] j.at = "commit"   -> VaultFree(q.v) => AsPlanned(c)
       [] OTHER             -> TRUE

Refuse(c) ==
  /\ ~At(c, "idle") /\ ~May(c)
  /\ Done(c)
  /\ UNCHANGED <<files, ran, faults, history>>

Reach(c, place, with) == job' = [job EXCEPT ![c] = [with EXCEPT !.at = place]]
At_May(c, place) == At(c, place) /\ May(c)

----------------------------------------------------------------------------
(* ProjectService.adopt and update: the project is looked up twice, first  *)
(* for what an update leaves alone.                                        *)
Show(c) ==
  LET q == job[c].req IN
  /\ At_May(c, "show")
  /\ Reach(c, "read", [job[c] EXCEPT !.entry = IF q.op = "adopt" THEN Asked(q)
                                               ELSE Updated(q, Got(q.p).entry)])
  /\ UNCHANGED <<files, ran, faults, history>>

(* _save up to the lock.                                                   *)
Read(c) ==
  /\ At_May(c, "read")
  /\ Reach(c, "enter", [job[c] EXCEPT !.req = Current(@), !.entry = AsFilled(@),
                                      !.seen = Snapshot(job[c].req)])
  /\ UNCHANGED <<files, ran, faults, history>>

(* update_repository without --confirm returns the hash to confirm with.   *)
Preview(c) ==
  /\ At_May(c, "preview")
  /\ Reach(c, "change", [job[c] EXCEPT !.seen = Snapshot(job[c].req)])
  /\ UNCHANGED <<files, ran, faults, history>>

(* bind and the confirmed update_repository up to the lock.                *)
Change(c) ==
  LET q == job[c].req IN
  /\ At_May(c, "change")
  /\ Reach(c, "enter", [job[c] EXCEPT !.req = Current(@), !.entry = Changed(q, Got(q.p).entry),
                                      !.seen = IF q.op = "bind" THEN Snapshot(q) ELSE @])
  /\ UNCHANGED <<files, ran, faults, history>>

(* create: the plan; then the domain, under a section of its own.          *)
Check(c) ==
  /\ At_May(c, "check")
  /\ Reach(c, "domain", [job[c] EXCEPT !.req = Current(@), !.entry = AsFilled(Asked(job[c].req))])
  /\ UNCHANGED <<files, ran, faults, history>>
Declare(c) ==
  /\ At_May(c, "domain") /\ HomeFree
  /\ declared' = [declared EXCEPT ![job[c].req.v] = @ \union {job[c].req.d}]
  /\ Go(c, "enter")
  /\ UNCHANGED <<local, man, dirs, backup, ran, faults, history>>

(* Under the lock of CAMPFIRE_HOME: compare, then the Manifest, then       *)
(* local.yaml.                                                             *)
StillThere(c) ==
  LET q == job[c].req IN
  /\ CanGet(q.p) /\ q.w \in Registered /\ CanList(q.w)
  /\ q.op = "create" <=> Got(q.p) = None
SameAsRead(c) == SameSnapshot(c)
Enter(c) ==
  LET q == job[c].req IN
  /\ At(c, "enter") /\ HomeFree /\ SameAsRead(c)
  /\ Reach(c, "manifest", [job[c] EXCEPT !.req = Current(@), !.next = Saved(q.w, q.p, job[c].entry)])
  /\ unseen' = (unseen \/ (q.op = "create" /\ q.v # PathOf(q.w)))
  /\ UNCHANGED <<files, ran, faults, acked, crossed, broken>>

(* adopt and update compare with their second look at a project only, and  *)
(* update_repository with the first (the preview's), not with the look it  *)
(* changes: what becomes of the project after that look, in whatever Vault,*)
(* need not be noticed.                                                    *)
Confirmed == {"set", "unbind", "remove"}
LooksElsewhere(b) == At(b, "read") \/ (At(b, "enter") /\ job[b].req.op \in Confirmed)
Overtaking(keys) ==
  [b \in Procs |-> IF LooksElsewhere(b) /\ \E k \in keys : k[2] = job[b].req.p
                   THEN [job[b] EXCEPT !.overtaken = TRUE] ELSE job[b]]
Key(c) == <<job[c].req.v, job[c].req.p>>

(* A root is bound that a domain command, which does not look at the       *)
(* Manifest any more, is about to remove.                                  *)
RootInDanger(v, d) ==
  \E b \in Procs : /\ job[b].at \in {"commit", "apply"} /\ job[b].next = None
                   /\ job[b].req.v = v /\ job[b].req.d = d
(* A Manifest is written whose roots nobody looks up any more.             *)
Unchecked(v, m) == \E d \in RootsOf(m) : d \notin declared[v] \/ RootInDanger(v, d)

WriteManifest(c) ==
  LET q == job[c].req IN
  /\ At(c, "manifest")
  /\ IF job[c].next.man # job[c].next.was
     THEN /\ man' = [man EXCEPT ![q.v] = job[c].next.man]
          /\ crossed' = (crossed \/ WrittenBlindly(c, q.v))
          /\ unseen' = (unseen \/ RootInDanger(q.v, job[c].entry.domain)
                               \/ (job[c].overtaken /\ q.op \in Confirmed))
     ELSE UNCHANGED <<man, crossed, unseen>>
  /\ job' = [Overtaking({Key(c)}) EXCEPT ![c].at = "local"]
  /\ UNCHANGED <<local, dirs, declared, backup, ran, faults, acked, broken>>

WriteLocal(c) ==
  /\ At(c, "local")
  /\ local' = job[c].next.local
  /\ acked' = With(acked, Key(c), job[c].entry)
  /\ job' = [Overtaking({Key(c)}) EXCEPT ![c] = NoJob]
  /\ UNCHANGED <<man, dirs, declared, backup, ran, faults, crossed, unseen, broken>>

(* local.yaml cannot be written: the Manifest is put back as it was read.  *)
LeftThere(c) == man
PutBack(c) ==
  IF job[c].next.man # job[c].next.was
  THEN [man EXCEPT ![job[c].req.v] = job[c].next.was] ELSE man
LocalFails(c) ==
  /\ At(c, "local") /\ faults < MaxFaults /\ job[c].next.local # local
  /\ man' = PutBack(c)
  /\ crossed' = (crossed \/ job[c].rewritten
                         \/ (PutBack(c) # man /\ WrittenBlindly(c, job[c].req.v)))
  /\ unseen' = (unseen \/ (PutBack(c) # man /\ Unchecked(job[c].req.v, job[c].next.was)))
  /\ faults' = faults + 1
  /\ job' = [Overtaking({Key(c)}) EXCEPT ![c] = NoJob]
  /\ UNCHANGED <<local, dirs, declared, backup, ran, acked, broken>>

----------------------------------------------------------------------------
(* WorkspaceService.create: where there is nothing, scaffold, registration *)
(* and then the Manifest.  To scaffold a directory that appeared since is  *)
(* no error.                                                               *)
Vacant(c) == At_May(c, "vacant") /\ Go(c, "scaffold") /\ UNCHANGED <<files, ran, faults, history>>
Scaffold(c) ==
  /\ At(c, "scaffold")
  /\ dirs' = dirs \union {job[c].req.v}
  /\ Go(c, "register")
  /\ UNCHANGED <<local, man, declared, backup, ran, faults, history>>

(* _initialize.  A Vault that is registered lists its projects.            *)
InVaultOf(q, m) == {q.v} \X DOMAIN m.projects
Register(c) ==
  LET q == job[c].req
      told == Overtaking(IF q.w \in Registered THEN {} ELSE InVaultOf(q, man[q.v]))
  IN
  /\ At_May(c, "register") /\ HomeFree
  /\ local' = [ws |-> With(local.ws, q.w, IF q.w \in Registered THEN local.ws[q.w] ELSE NewEntry(q.v)),
               default |-> IF local.default = None THEN q.w ELSE local.default]
  /\ job' = IF q.op = "workspace-create" THEN [told EXCEPT ![c].at = "found"] ELSE [told EXCEPT ![c] = NoJob]
  /\ UNCHANGED <<man, dirs, declared, backup, ran, faults, history>>

FoundNothing(q) == man[q.v]
FoundManifest(q) == NewManifest(q.w)
Found(c) ==
  LET q == job[c].req IN
  /\ At(c, "found")
  /\ man' = [man EXCEPT ![q.v] = FoundManifest(q)]
  /\ crossed' = (crossed \/ WrittenBlindly(c, q.v))
  /\ Done(c)
  /\ UNCHANGED <<local, dirs, declared, backup, ran, faults, acked, unseen, broken>>

(* setup of a Vault with a Manifest, or with none yet.  What it finds out  *)
(* about the projects after the registration is only reported.             *)
SetUp(c) ==
  LET q == job[c].req
      id == IF man[q.v].id = None THEN q.w ELSE man[q.v].id
      first == [NewManifest(id) EXCEPT
                  !.projects = IF id \in Registered THEN man[PathOf(id)].projects ELSE Empty]
  IN
  /\ At_May(c, "setup")
  /\ Reach(c, IF man[q.v].id = None THEN "attach" ELSE "register",
           [job[c] EXCEPT !.req.w = id, !.next = first])
  /\ UNCHANGED <<files, ran, faults, history>>
Attach(c) ==
  LET q == job[c].req IN
  /\ At(c, "attach")
  /\ man' = [man EXCEPT ![q.v] = job[c].next]
  /\ crossed' = (crossed \/ WrittenBlindly(c, q.v))
  /\ unseen' = (unseen \/ Unchecked(q.v, job[c].next))
  /\ job' = [Overtaking(InVaultOf(q, job[c].next)) EXCEPT ![c].at = "register"]
  /\ UNCHANGED <<local, dirs, declared, backup, ran, faults, acked, broken>>

SetDefault(c) ==
  /\ At_May(c, "default") /\ HomeFree
  /\ local' = [local EXCEPT !.default = job[c].req.w]
  /\ Done(c)
  /\ UNCHANGED <<man, dirs, declared, backup, ran, faults, history>>

(* export reads local.yaml, and then local.yaml and the Manifests.         *)
Export(c) ==
  /\ At(c, "export")
  /\ Reach(c, "export-projects", [job[c] EXCEPT !.next = local])
  /\ UNCHANGED <<files, ran, faults, history>>
ExportProjects(c) ==
  /\ At_May(c, "export-projects")
  /\ backup' = [reg |-> job[c].next, entries |-> [w \in Registered |-> Listed(w)]]
  /\ Done(c)
  /\ UNCHANGED <<local, man, dirs, declared, ran, faults, history>>

(* import: replace_registry, with the backup as it was read.  One          *)
(* Workspace after the other gets its projects (Manifest and bindings in   *)
(* one step here).                                                         *)
Everywhere == Vaults \X Projects
Finished(c, l, m) ==
  acked' = View(l, m) /\ job' = [Overtaking(Everywhere) EXCEPT ![c] = NoJob]
Import(c) ==
  /\ At_May(c, "replace") /\ HomeFree
  /\ local' = backup.reg
  /\ IF DOMAIN backup.reg.ws = {} THEN Finished(c, local', man)
     ELSE /\ job' = [Overtaking(Everywhere) EXCEPT
                      ![c].at = "import", ![c].entry = backup, ![c].next = DOMAIN backup.reg.ws,
                      ![c].seen = [local |-> local, man |-> man]]
          /\ acked' = acked
  /\ UNCHANGED <<man, dirs, declared, backup, ran, faults, crossed, unseen, broken>>
Entries(c, w) == LET entries == job[c].entry.entries
                 IN IF w \in DOMAIN entries THEN entries[w] ELSE Empty
ImportProjects(c) == At(c, "import") /\ \E w \in job[c].next :
  LET v == PathOf(w) IN
  /\ man' = [man EXCEPT ![v] = ManifestFor(@, Entries(c, w))]
  /\ local' = [local EXCEPT !.ws[w].binds = BindsFor(@, Entries(c, w))]
  /\ crossed' = (crossed \/ WrittenBlindly(c, v))
  /\ unseen' = (unseen \/ Unchecked(v, man'[v]))
  /\ IF job[c].next = {w} THEN Finished(c, local', man')
     ELSE acked' = acked /\ job' = [Overtaking(Everywhere) EXCEPT ![c].next = @ \ {w}]
  /\ UNCHANGED <<dirs, declared, backup, ran, faults, broken>>
ImportFails(c) ==
  LET ws == job[c].entry.reg.ws
      restored == {ws[w].path : w \in DOMAIN ws}
      before == job[c].seen
  IN
  /\ At(c, "import") /\ faults < MaxFaults
  /\ local' = before.local
  /\ man' = [v \in Vaults |-> IF v \in restored THEN before.man[v] ELSE man[v]]
  /\ crossed' = (crossed \/ \E v \in Vaults : WrittenBlindly(c, v))
  /\ unseen' = (unseen \/ \E v \in restored : Unchecked(v, before.man[v]))
  /\ faults' = faults + 1
  /\ job' = [Overtaking(Everywhere) EXCEPT ![c] = NoJob]
  /\ UNCHANGED <<dirs, declared, backup, ran, acked, broken>>

----------------------------------------------------------------------------
(* Domain commands, as far as the Manifest is concerned: _manifest_update  *)
(* renders it from list_projects, and its hash is taken afterwards.  After *)
(* an import the projects may be those of another Vault than the command's.*)
HasMoved(q) == q.w \notin Registered \/ PathOf(q.w) # q.v
Rebound(q) ==
  [man[q.v] EXCEPT !.projects = [p \in DOMAIN Own(q.w) |->
     IF p \in Affected(q) THEN [Own(q.w)[p] EXCEPT !.domain = q.e] ELSE Own(q.w)[p]]]

Plan(c) ==
  LET q == job[c].req
      writes == WritesManifest(q)
  IN
  /\ At_May(c, "plan")
  /\ Reach(c, IF writes /\ q.op # "rekey" THEN "hash" ELSE "commit",
           [job[c] EXCEPT !.next = IF writes THEN Rebound(q) ELSE None,
                          !.seen = [man |-> man[q.v], declared |-> declared[q.v]]])
  /\ unseen' = (unseen \/ HasMoved(q))
  /\ crossed' = (crossed \/ (writes /\ HasMoved(q)))
  /\ UNCHANGED <<files, ran, faults, acked, broken>>
Hash(c) ==
  /\ At(c, "hash")
  /\ Reach(c, "commit", [job[c] EXCEPT !.seen.man = man[job[c].req.v]])
  /\ UNCHANGED <<files, ran, faults, history>>

(* The change set compares under the Workspace's lock and is then applied. *)
Commit(c) ==
  /\ At_May(c, "commit") /\ VaultFree(job[c].req.v)
  /\ Go(c, "apply")
  /\ UNCHANGED <<files, ran, faults, history>>

(* A project command has found the root declared, and the Manifest as it   *)
(* has read it will not tell that the root has gone.                       *)
RootTaken(q) ==
  \E b \in Procs :
    /\ \/ At(b, "manifest")
       \/ /\ At(b, "enter")
          /\ job[b].req.op = "create" \/ q.d \notin RootsOf(job[b].seen.man)
    /\ job[b].req.v = q.v /\ job[b].entry.domain = q.d
Redeclared(q) ==
  (declared[q.v] \ (IF q.op = "domain-adopt" THEN {} ELSE {q.d}))
     \union (IF q.op = "delete" THEN {} ELSE {q.e})
(* What is acknowledged then: also by those whose Manifest is written and  *)
(* whose local.yaml is not yet.                                            *)
Moved(q, next) == IF next = None THEN {}
  ELSE {q.v} \X {p \in DOMAIN next.projects : next.projects[p].domain = q.e}
Renamed(b, v, keys, d) ==
  IF At(b, "local") /\ job[b].req.v = v
  THEN [job[b] EXCEPT !.rewritten = TRUE, !.entry.domain = IF Key(b) \in keys THEN d ELSE @]
  ELSE Overtaking(keys)[b]
Apply(c) ==
  LET q == job[c].req
      next == job[c].next
      keys == Moved(q, next)
  IN
  /\ At(c, "apply")
  /\ declared' = [declared EXCEPT ![q.v] = Redeclared(q)]
  /\ IF next = None THEN UNCHANGED <<man, crossed>>
     ELSE man' = [man EXCEPT ![q.v] = next] /\ crossed' = (crossed \/ WrittenBlindly(c, q.v))
  /\ unseen' = (unseen \/ RootTaken(q) \/ (keys # {} /\ RootInDanger(q.v, q.e)))
  /\ acked' = [k \in DOMAIN acked |-> IF k \in keys THEN [acked[k] EXCEPT !.domain = q.e] ELSE acked[k]]
  /\ job' = [b \in Procs |-> IF b = c THEN NoJob
                             ELSE IF next = None THEN job[b] ELSE Renamed(b, q.v, keys, q.e)]
  /\ UNCHANGED <<local, dirs, backup, ran, faults, broken>>

(* A kill; in the middle of a change set the files may be written and the  *)
(* Manifest not.                                                           *)
Kill(c) ==
  LET q == job[c].req IN
  /\ ~At(c, "idle") /\ faults < MaxFaults
  /\ faults' = faults + 1
  /\ Done(c)
  /\ acked' = CASE At(c, "local")  -> Keep(acked, DOMAIN acked \ {<<q.v, q.p>>})
                [] At(c, "import") -> [k \in {} |-> None]
                [] OTHER           -> acked
  /\ broken' = IF At(c, "found") THEN broken \union {q.w} ELSE broken
  /\ \/ UNCHANGED <<declared, unseen>>
     \/ /\ At(c, "apply") /\ unseen' = TRUE
        /\ declared' = [declared EXCEPT ![q.v] = Redeclared(q)]
  /\ UNCHANGED <<local, man, dirs, backup, ran, crossed>>

ProjectStep(c) ==
  \/ Show(c) \/ Read(c) \/ Preview(c) \/ Change(c) \/ Check(c) \/ Declare(c)
  \/ Enter(c) \/ WriteManifest(c) \/ WriteLocal(c) \/ LocalFails(c)
WorkspaceStep(c) ==
  \/ Vacant(c) \/ Scaffold(c) \/ Register(c) \/ Found(c) \/ SetUp(c) \/ Attach(c) \/ SetDefault(c)
  \/ Export(c) \/ ExportProjects(c) \/ Import(c) \/ ImportProjects(c) \/ ImportFails(c)
DomainStep(c) == Plan(c) \/ Hash(c) \/ Commit(c) \/ Apply(c)

Next == \E c \in Procs :
  \/ \E q \in Requests : Start(c, q)
  \/ ProjectStep(c) \/ WorkspaceStep(c) \/ DomainStep(c)
  \/ Refuse(c) \/ Kill(c)

Spec == Init /\ [][Next]_vars

----------------------------------------------------------------------------
(* Types; only one process is in a section of the lock of CAMPFIRE_HOME.   *)
TypeOK ==
  /\ local \in WorkspaceRegistry
  /\ man \in [Vaults -> Manifest]
  /\ dirs \subseteq Vaults /\ declared \in [Vaults -> SUBSET Domains]
  /\ backup = None \/ /\ backup.reg \in WorkspaceRegistry
                      /\ \A w \in DOMAIN backup.entries : backup.entries[w] \in ProjectEntries
  /\ \A b, c \in Procs : job[b].at \in InHome /\ job[c].at \in InHome => b = c

(* ARCHITECTURE.md: the Manifest and local.yaml are the facts about        *)
(* projects.  They hold for every project what its last successful command *)
(* left there, although they are two files, several commands write them at *)
(* once, fail or are killed, and most of what is written was read before   *)
(* the lock; unless a Manifest was written in a window nobody checks.      *)
Writing(v) == \E c \in Procs : At(c, "import") \/ (At(c, "local") /\ job[c].req.v = v)
Holds(v, p) == \E w \in Registered :
  PathOf(w) = v /\ p \in DOMAIN man[v].projects /\ Listed(w)[p] = acked[<<v, p>>]
AcknowledgedHolds ==
  ~crossed => \A k \in DOMAIN acked : Writing(k[1]) \/ Holds(k[1], k[2])

(* workspace/SPEC.md: an update submits the given fields only.  A command  *)
(* that succeeds changes of a project what it was asked to change, at most *)
(* the remote of a clone besides, and nothing that another command has     *)
(* written meanwhile; unless it wrote or registered the project between    *)
(* the two looks that adopt, update and update_repository take at it.      *)
SameBut(q, old, new) ==
  CASE q.op = "update"  -> /\ q.d = None => new.domain = old.domain
                           /\ q.st = None => new.status = old.status
                           /\ new.repos = AsFilled(old).repos
    [] q.op \in {"bind", "set", "unbind", "remove"} ->
         /\ new.domain = old.domain /\ new.status = old.status
         /\ Keep(new.repos, Repos \ {q.r}) = Keep(old.repos, Repos \ {q.r})
    [] OTHER -> FALSE
ChangesWhatWasAsked == [][\A c \in Procs :
  LET q == job[c].req
      key == Key(c)
  IN At(c, "local") /\ job'[c].at = "idle" /\ key \in DOMAIN acked /\ key \in DOMAIN acked'
       => crossed' \/ job[c].overtaken \/ acked' = acked \/ SameBut(q, acked[key], acked'[key])]_vars

(* SPEC.md: the Manifest alone binds a project to its root domain.  Every  *)
(* project has a root that is declared in its Vault, and no two active     *)
(* projects share one; unless a root changed in a window nobody checks.    *)
RootDeclared(v, p) == man[v].projects[p].domain \in declared[v]
ActiveShare(v, p, o) ==
  /\ man[v].projects[p].domain = man[v].projects[o].domain
  /\ man[v].projects[p].status = "active" /\ man[v].projects[o].status = "active"
RootsSound == ~crossed /\ ~unseen => \A w \in Registered :
  LET v == PathOf(w)
      P == DOMAIN man[v].projects
  IN (\A p \in P : RootDeclared(v, p)) /\ (\A p, o \in P : p # o => ~ActiveShare(v, p, o))

(* list_projects, on which every command about projects rests, can be read *)
(* for every registered Workspace, except while one is created and after   *)
(* such a creation was killed before its Manifest was saved.               *)
RegistryReadable == ~crossed => \A w \in Registered :
  CanList(w) \/ w \in broken \/ \E c \in Procs : At(c, "found") /\ job[c].req.w = w
=============================================================================
