---------------------------- MODULE PythonVariant ----------------------------
(***************************************************************************)
(* The conversion between qpid::types::Variant and Python objects that the *)
(* SPF router uses at its boundary with the Python engine:                 *)
(* qpid::spf::PythonVariant (src/cpp/src/qpid/spf/PythonTypes.cpp).        *)
(*                                                                         *)
(* Router::handleControlMessage decodes a control message's body into a    *)
(* Variant::Map and passes PythonVariant(bodyMap).asPyObject() to the      *)
(* engine; Router::send_cb turns the dict the engine sends back into a     *)
(* Variant with PythonVariant(body).asVariant() and encodes it.  The model *)
(* lets the engine send back the body it was given.                        *)
(*                                                                         *)
(* Data.  A Variant is [t |-> type, v |-> value]; a Python object is       *)
(* [py |-> kind, v |-> value].  A string is a sequence of characters, with *)
(* NUL among them; a float is a model value.  The build is LP64 (long is   *)
(* 64 bits), so only long long's width matters: LongLongBits stands for   *)
(* its 64 bits.                                                            *)
(***************************************************************************)
EXTENDS Integers, Sequences, FiniteSets

CONSTANTS
  LongLongBits,  \* the width of long long (64 in the build), a positive Nat
  Chars,         \* the characters strings are made of
  NUL,           \* the character '\0', one of Chars
  Floats,        \* float and double values
  Bodies         \* the Variant::Map bodies control messages may carry

\* The range of int64_t and of uint64_t.
Int64 == -(2 ^ (LongLongBits - 1)) .. 2 ^ (LongLongBits - 1) - 1
UInt64 == 0 .. 2 ^ LongLongBits - 1

Var(t, v) == [t |-> t, v |-> v]
Py(k, v) == [py |-> k, v |-> v]

IntTypes32 == {"int8", "int16", "int32"}
UIntTypes32 == {"uint8", "uint16", "uint32"}

\* std::string(const char*): the characters before the first NUL.
CString(s) ==
  LET nuls == {i \in 1 .. Len(s) : s[i] = NUL}
  IN IF nuls = {} THEN s
     ELSE SubSeq(s, 1, (CHOOSE i \in nuls : \A j \in nuls : i <= j) - 1)

\* PyLong_AsLongLong: the value, or -1 (with an OverflowError set) when it
\* does not fit in a long long.
AsLongLong(n) == IF n \in Int64 THEN n ELSE -1

-----------------------------------------------------------------------------
(* C++ to Python.                                                           *)

\* VariantToPy, with MapToPy and ListToPy: void and uuid become None; the
\* 8- to 32-bit integers become a Python int, the 64-bit ones a long; float
\* and double a Python float; a string keeps all its bytes
\* (PyString_FromStringAndSize), and so does a map key.
RECURSIVE VariantToPy(_)
VariantToPy(x) ==
  CASE x.t \in {"void", "uuid"} -> Py("None", 0)
    [] x.t = "bool" -> Py("bool", x.v)
    [] x.t \in UIntTypes32 \cup IntTypes32 -> Py("int", x.v)
    [] x.t \in {"uint64", "int64"} -> Py("long", x.v)
    [] x.t \in {"float", "double"} -> Py("float", x.v)
    [] x.t = "string" -> Py("str", x.v)
    [] x.t = "map" -> Py("dict", [k \in DOMAIN x.v |-> VariantToPy(x.v[k])])
    [] x.t = "list" -> Py("list", [i \in 1 .. Len(x.v) |-> VariantToPy(x.v[i])])

-----------------------------------------------------------------------------
(* Python to C++.                                                           *)

\* PyToVariant, with PyToMap: bool is tested before int;
\* an int and a long become int64 (a long through PyLong_AsLongLong); a
\* str becomes std::string(PyString_AS_STRING(value)); a dict becomes a map
\* whose keys are built the same way, map[key] = value in PyDict_Next's
\* order, so of two keys equal up to their first NUL either value may be
\* kept: the result is a set of possible Variants.  A list and a tuple both
\* become a Variant list.
RECURSIVE PyToVariants(_), PySeqToList(_)

\* PyToList and PyTupleToList: the items in order, each through PyToVariant.
PySeqToList(p) ==
  LET n == Len(p.v)
  IN {Var("list", f) : f \in {g \in [1 .. n -> UNION {PyToVariants(p.v[i]) : i \in 1 .. n}] :
                                 \A i \in 1 .. n : g[i] \in PyToVariants(p.v[i])}}

PyToVariants(p) ==
  CASE p.py = "bool" -> {Var("bool", p.v)}
    [] p.py = "float" -> {Var("double", p.v)}
    [] p.py = "int" -> {Var("int64", p.v)}
    [] p.py = "long" -> {Var("int64", AsLongLong(p.v))}
    [] p.py = "str" -> {Var("string", CString(p.v))}
    [] p.py = "dict" ->
         LET keys == {CString(k) : k \in DOMAIN p.v}
             cands(ck) == UNION {PyToVariants(p.v[k]) : k \in {k2 \in DOMAIN p.v : CString(k2) = ck}}
         IN {Var("map", f) : f \in {g \in [keys -> UNION {cands(ck) : ck \in keys}] :
                                       \A ck \in keys : g[ck] \in cands(ck)}}
    [] p.py \in {"list", "tuple"} -> PySeqToList(p)
    [] OTHER -> {Var("void", 0)}

-----------------------------------------------------------------------------
(* What the conversion means to keep: the widening the switch of           *)
(* VariantToPy makes on purpose (every integer to int64, float to double,  *)
(* uuid to void), and nothing else.                                        *)

RECURSIVE Widened(_)
Widened(x) ==
  CASE x.t \in {"void", "uuid"} -> Var("void", 0)
    [] x.t \in UIntTypes32 \cup IntTypes32 \cup {"uint64", "int64"} -> Var("int64", x.v)
    [] x.t \in {"float", "double"} -> Var("double", x.v)
    [] x.t = "map" -> Var("map", [k \in DOMAIN x.v |-> Widened(x.v[k])])
    [] x.t = "list" -> Var("list", [i \in 1 .. Len(x.v) |-> Widened(x.v[i])])
    [] OTHER -> x

-----------------------------------------------------------------------------
(* The router's two crossings, and an engine that echoes.                  *)

VARIABLES
  sent,       \* the body handleControlMessage gave the engine (a Variant map)
  engineDict, \* the Python dict the engine holds
  routed,     \* the Variant send_cb built from the dict the engine sent
  echoed      \* the engine has sent the dict back

vars == <<sent, engineDict, routed, echoed>>

NoBody == Var("void", 0)

Init ==
  /\ sent = NoBody
  /\ engineDict = Py("None", 0)
  /\ routed = NoBody
  /\ echoed = FALSE

\* Router::handleControlMessage with a non-empty opcode: the decoded body
\* map is converted with PythonVariant(bodyMap) and passed to the engine's
\* handleControlMessage.
HandleControlMessage(b) ==
  /\ sent' = b
  /\ engineDict' = VariantToPy(b)
  /\ routed' = NoBody
  /\ echoed' = FALSE

\* Router::send_cb with the dict the engine holds: PythonVariant(body), then
\* asVariant() is encoded and routed.
SendCb ==
  /\ engineDict.py = "dict"
  /\ ~echoed
  /\ routed' \in PyToVariants(engineDict)
  /\ echoed' = TRUE
  /\ UNCHANGED <<sent, engineDict>>

Next == (\E b \in Bodies : HandleControlMessage(b)) \/ SendCb

Spec == Init /\ [][Next]_vars

-----------------------------------------------------------------------------

\* PythonVariant keeps a Variant and a Python object that stand for the same
\* value: a body the engine sends back unchanged is routed as the body it was
\* given, up to the widening VariantToPy's switch makes on purpose.
EchoFaithful == echoed => routed = Widened(sent)

=============================================================================
