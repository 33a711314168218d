--------------------------- MODULE MCPythonVariant ---------------------------
(* Bodies: maps with up to two keys, among them two keys that are equal up *)
(* to a NUL, and values of every scalar type, at the edges of their range. *)
EXTENDS PythonVariant

MCLongLongBits == 3

MCChars == {"x", "nul"}

MCNul == "nul"

MCFloats == {"f"}

Scalars ==
  {Var("void", 0), Var("uuid", 0), Var("bool", TRUE), Var("bool", FALSE),
   Var("uint32", 1), Var("int32", -1), Var("uint64", 0), Var("uint64", 7),
   Var("int64", -4), Var("int64", 3), Var("float", "f"), Var("double", "f"),
   Var("string", << >>), Var("string", <<"x">>), Var("string", <<"x", "nul">>),
   Var("list", << Var("int64", 3) >>)}

MCKeys == {<<"x">>, <<"x", "nul">>}

MCBodies ==
  {Var("map", f) : f \in UNION {[ks -> Scalars] : ks \in SUBSET MCKeys}}

=============================================================================
