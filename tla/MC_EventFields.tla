----------------------------- MODULE MC_EventFields -----------------------------
(* Model checking of EventFields: JSON of up to two elements.               *)
EXTENDS EventFields

Node(kind, text, members) == [kind |-> kind, text |-> text, members |-> members]
Scalar(v) == Node("scalar", v, <<>>)
Null      == Node("null", "", <<>>)
Obj(ms)   == Node("object", "", ms)
Arr(ns)   == Node("array", "", [n \in DOMAIN ns |-> <<"", ns[n]>>])

Named(name, v) == Obj(<< <<"@Name", Scalar(name)>>, <<"#text", Scalar(v)>> >>)

Items ==
  { Named("a", "v1"), Named("b", "v2"), Scalar("v3"), Scalar("v4"), Null,
    Obj(<< <<"@Name", Scalar("c")>> >>), Obj(<< <<"c", Scalar("v5")>> >>),
    Obj(<< <<"#text", Scalar("v6")>> >>) }

Elements ==
  { Scalar("w1"), Null, Arr(<<Scalar("w2"), Scalar("w3")>>), Obj(<< <<"a", Scalar("w4")>> >>),
    Arr(<<Obj(<< <<"b", Scalar("w5")>> >>), Scalar("w6")>>),
    Obj(<< <<"@xmlns", Scalar("ns")>>, <<"d", Obj(<< <<"e", Scalar("w7")>> >>)>> >>),
    Named("n", "w8"), Arr(<<Arr(<<Scalar("w9")>>)>>) }

Blocks2 ==
  { Obj(<< <<"Data", Arr(<<x, y, z>>)>> >>) : x \in Items, y \in Items, z \in Items }
    \cup { Obj(<< <<"Data", x>>, <<"f", y>> >>) : x \in Items, y \in Elements }
    \cup { Obj(<< <<"f", x>>, <<"g", y>> >>) : x \in Elements, y \in Elements }

MCTrees ==
  { <<b>> : b \in Blocks2 }
    \cup { <<Obj(<< <<"Data", x>> >>), Obj(<< <<"p", y>> >>)>> : x \in Items, y \in Elements }
=============================================================================
