--------------------------- MODULE MC_BinXmlDecoder ---------------------------
(* Model checking of BinXmlDecoder on chunks of two records. In one family  *)
(* the first record is any tokens; in the other it is an instance whose     *)
(* definition the second record may use again, with other values.           *)
EXTENDS BinXmlText

Tok(t)       == [t |-> t]
Open(o, l)   == [t |-> "open", name |-> o, list |-> l]
Attr(o, v)   == [t |-> "attr", name |-> o, value |-> v]
Subst(i)     == [t |-> "subst", index |-> i, ignore |-> FALSE]
Ignored      == [t |-> "subst", index |-> 0, ignore |-> TRUE]
Use(o)       == [t |-> "instance", def |-> o]
Far          == Length + 3

\* What stands at a position. Read as anything else it is of no use.
Bytes(tok)      == [token |-> tok, size |-> NoRecord, body |-> Far, values |-> <<>>]
Header(n)       == [Bytes(Tok("unknown")) EXCEPT !.size = n]
Definition(n)   == [Bytes(Tok("eos")) EXCEPT !.body = n]
Array(ds)       == [Bytes(Tok("skip")) EXCEPT !.values = ds]

Null        == [kind |-> "null"]
AScalar     == [kind |-> "scalar"]
AnArray     == [kind |-> "array"]
Part(n)     == [kind |-> "fragment", size |-> n]

ChunkOf(cells, free) ==
  [free   |-> free,
   name   |-> [p \in ChunkPositions |-> p],
   token  |-> [p \in ChunkPositions |-> cells[p + 1].token],
   size   |-> [p \in ChunkPositions |-> cells[p + 1].size],
   body   |-> [p \in ChunkPositions |-> cells[p + 1].body],
   values |-> [p \in ChunkPositions |-> cells[p + 1].values]]

Padded(cells) == cells \o [k \in 1 .. Length - Len(cells) |-> Bytes(Tok("eos"))]

\* A record of any tokens, and one that refers to a name within it.
AnyToken(p) ==
  {Tok(t) : t \in {"eos", "skip", "end", "value", "unknown"}}
    \cup {Open(p + 1, FALSE), Open(5, TRUE), Open(Far, FALSE), Subst(0), Attr(2, Tok("value"))}

TokensFirst ==
  \E a \in AnyToken(1), b \in AnyToken(2), c \in AnyToken(3), d \in {Tok("end"), Tok("value"), Tok("eos")}, free \in {7, Far} :
    chunk = ChunkOf(Padded(<<Header(6), Bytes(a), Bytes(b), Bytes(c), Bytes(d), Bytes(Tok("eos")),
                             Header(6), Bytes(Open(2, TRUE)), Bytes(Attr(9, Tok("value"))), Bytes(Tok("skip")),
                             Bytes(Tok("value"))>>), free)

\* An instance between a start tag and an end tag, its definition written in
\* place, and an instance of the same definition in the record behind it.
BodyFirst  == {Open(1, FALSE), Open(5, FALSE), Open(1, TRUE), Subst(0), Ignored}
BodySecond == {Attr(5, Subst(0)), Attr(Far, Subst(0)), Attr(1, Tok("open")), Subst(0), Subst(1), Tok("end")}
BodyThird  == {Tok("end"), Subst(1)}
ValueLists == {<<AScalar>>, <<Null, AScalar>>, <<Part(2)>>, <<Part(1), AScalar>>, <<Part(Far)>>,
               <<Null, Null, Null>>, <<AnArray>>}

Instances ==
  \E a \in BodyFirst, b \in BodySecond, c \in BodyThird, ds \in ValueLists,
     v \in {Tok("value"), Open(1, FALSE), Use(3), Subst(0)}, w \in {Tok("eos"), Tok("value")},
     then \in {<<3, <<AScalar>>>>, <<3, <<Part(1)>>>>, <<8, <<AScalar>>>>} :
    chunk = ChunkOf(<<Header(12), Bytes(Open(1, FALSE)), Bytes(Use(3)), Definition(3),
                      Bytes(a), Bytes(b), Bytes(c), Array(ds), Bytes(v),
                      [Bytes(w) EXCEPT !.values = <<AScalar>>], Bytes(Tok("end")), Bytes(Tok("eos")),
                      Header(5), Bytes(Use(then[1])), Array(then[2]), Bytes(Tok("value")), Bytes(Tok("eos"))>>, Far)

MCInit == (TokensFirst \/ Instances) /\ DecoderInit

MCSpec == MCInit /\ [][DecoderNext]_dvars /\ WF_dvars(DecoderNext)
=============================================================================
