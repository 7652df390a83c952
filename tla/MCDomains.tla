----------------------------- MODULE MCDomains -----------------------------
(* Space s: Domain a, root of project p, with child b and a document each; *)
(* Domain d, which is empty but for a folder with a document; a folder f   *)
(* without a declaration and one folder outside.                           *)
EXTENDS Domains, TLC

CONSTANTS c1, c2

Blank == [op |-> None, id |-> None, path |-> None, from |-> None, to |-> None,
          name |-> None, folder |-> None, project |-> None]
On(op, id) == [Blank EXCEPT !.op = op, !.id = id]
To(op, id, to) == [On(op, id) EXCEPT !.to = to]
New(op, id, path) == [On(op, id) EXCEPT !.path = path]

MCRequests ==
  {New("space-create", "t", <<"t">>), New("space-adopt", "u", <<"u">>), On("space-format", "s"),
   New("create", "n", <<"s", "a", "n">>), New("create", "n", <<"s", "d", "n">>), On("format", "a"),
   [On("rename", "a") EXCEPT !.name = "A"], [On("rename", "a") EXCEPT !.folder = "z"],
   To("move", "b", "s"), To("move", "b", "a"), To("move", "d", "a"), To("rekey", "a", "k"),
   To("merge", "b", "a"), To("merge", "a", "d"), To("merge", "d", "a"), On("delete", "d"),
   New("adopt", "m", <<"s", "d", "m">>),
   [New("adopt", "m", <<"s", "f">>) EXCEPT !.from = <<"s", "f">>],
   [New("adopt", "m", <<"s", "a", "m">>) EXCEPT !.from = <<"s", "f">>, !.project = "p"]}

Doc(of, ref, dom) == [of |-> of, rev |-> 0, ref |-> ref, dom |-> dom]
Mark(id, parent) == [NewMarker(id, parent) EXCEPT !.loose = (id = "a")]
Start0(roots) ==
  [space |-> <<"s">> :> [id |-> "s", loose |-> TRUE],
   dirs |-> {<<"s">>, <<"u">>, <<"s", "a">>, <<"s", "a", "b">>, <<"s", "d">>, <<"s", "f">>},
   marker |-> <<"s", "a">> :> Mark("a", None) @@ <<"s", "a", "b">> :> Mark("b", "a") @@ <<"s", "d">> :> Mark("d", None),
   doc |-> <<"s", "a", "x">> :> Doc("x", <<"s", "a", "b", "y">>, "a")
             @@ <<"s", "a", "b", "y">> :> Doc("y", <<"s", "a", "x">>, "b")
             @@ <<"s", "f", "w">> :> Doc("w", <<"s", "a", "x">>, None),
   roots |-> roots,
   outside |-> "e" :> Doc("e", None, None)]
MCStarts == {Start0("p" :> "a"), Start0("p" :> "b")}
MCDrafts == <<"s", "d", "v">> :> Doc("v", <<"s", "a", "x">>, "d")
            @@ <<"s", "a", "n">> :> Doc("v", None, "a")
MCBindings == {<<"o", "d">>}
Symmetry == Permutations({c1, c2})
=============================================================================
