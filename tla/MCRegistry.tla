----------------------------- MODULE MCRegistry -----------------------------
(* w1 has the project p on domain d, with one repository; the Vault of w2  *)
(* is not registered, or does not exist.                                   *)
EXTENDS Registry, TLC

CONSTANTS w1, w2, v1, v2, p, o, d, e, r, a, u, c1, c2

MCRemote == [x \in {a} |-> u]

Blank == [op |-> None, w |-> w1, v |-> v1, p |-> None, d |-> None, e |-> None,
          st |-> None, r |-> None, dir |-> None, repos |-> Empty]
Project(op, x) == [Blank EXCEPT !.op = op, !.p = x]
DomainOp(op, from, to) == [Blank EXCEPT !.op = op, !.d = from, !.e = to]
Workspace(op, w, v) == [Blank EXCEPT !.op = op, !.w = w, !.v = v]

MCRequests ==
  {[Project("adopt", o) EXCEPT !.d = e, !.st = "active"],
   [Project("adopt", o) EXCEPT !.d = d, !.st = "active", !.repos = [x \in {r} |-> NewRepo]],
   [Project("create", o) EXCEPT !.d = e, !.st = "active"],
   [Project("update", p) EXCEPT !.st = "archived"],
   [Project("update", p) EXCEPT !.d = e],
   [Project("bind", p) EXCEPT !.r = r, !.dir = a],
   [Project("set", p) EXCEPT !.r = r, !.dir = a],
   [Project("unbind", p) EXCEPT !.r = r],
   [Project("remove", p) EXCEPT !.r = r]}
  \union {DomainOp("rekey", d, e), DomainOp("merge", d, e), DomainOp("delete", e, None),
          [DomainOp("domain-adopt", None, e) EXCEPT !.p = p]}
  \union {Workspace("workspace-create", w2, v2), Workspace("setup", w2, v2),
          Workspace("setup", None, v2), Workspace("default", w2, v2),
          Workspace("export", None, None), Workspace("import", None, None)}

Entry(dom, st) == [domain |-> dom, status |-> st, repos |-> [x \in {r} |-> None]]
Start0(ms, ds, dm) ==
  [local |-> [ws |-> [x \in {w1} |-> NewEntry(v1)], default |-> w1],
   man |-> [v \in {v1, v2} |-> IF v = v1 THEN [id |-> w1, projects |-> [x \in {p} |-> Entry(d, "active")]] ELSE ms],
   dirs |-> ds, declared |-> [v \in {v1, v2} |-> IF v = v1 THEN dm ELSE IF v2 \in ds THEN {d} ELSE {}]]
MCStarts == {Start0(NoManifest, {v1}, {d}), Start0(NoManifest, {v1}, {d, e}),
             Start0([id |-> w2, projects |-> [x \in {p} |-> Entry(d, "active")]], {v1, v2}, {d, e})}
Symmetry == Permutations({c1, c2})
=============================================================================
