--------------------------- MODULE MCSkillRegistry ---------------------------
(***************************************************************************)
(* Definitions offered to SkillRegistry: for each of four skills a version *)
(* without dependencies and others with them, so that chains, diamonds,    *)
(* repeated dependencies, and cycles of every length are proposed.         *)
(***************************************************************************)
EXTENDS DagValidator, TLC

MCNames    == {"a", "b", "c", "d"}
MCVersions == {"1", "2"}

Def(n, v, ds) == [name |-> n, version |-> v, dependencies |-> ds]

MCOffered ==
  {Def("a", "1", <<>>), Def("a", "2", <<"b">>), Def("a", "2", <<"d", "c">>),
   Def("b", "1", <<>>), Def("b", "2", <<"a", "c">>),
   Def("c", "1", <<"a", "a">>), Def("c", "2", <<"c">>),
   Def("d", "1", <<"b", "c">>), Def("d", "2", <<>>),
   Def("c", "2", <<>>), Def("b", "2", <<"d">>), Def("d", "2", <<"a", "b">>)}
=============================================================================
