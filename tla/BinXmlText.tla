------------------------------ MODULE BinXmlText ------------------------------
(***************************************************************************)
(* What the records of a chunk say, defined from the bytes alone: the      *)
(* sequence of start tags, end tags and texts that a fragment stands for,  *)
(* with each instance replaced by the body of its definition and each      *)
(* substitution by its value. No cursor, no stack and no cache: the        *)
(* reference for BinXmlDecoder. It is recursive, so only TLC uses it.      *)
(***************************************************************************)
EXTENDS BinXmlDecoder

Good(as) == [ok |-> TRUE, atoms |-> as]
Bad      == [ok |-> FALSE, atoms |-> <<>>]
Before(as, r) == IF r.ok THEN Good(as \o r.atoms) ELSE Bad

Start(n, as) == <<"start", n, as>>
End          == <<"end">>
Chars(p)     == <<"text", p>>

\* A name that is written where it is used is behind the token.
Behind(o, p) == IF o = p + 1 THEN p + 2 ELSE p + 1

\* The attributes written from `p` on, and where they end.
RECURSIVE Attributes(_, _)
Attributes(p, s) ==
  IF p >= Length \/ TokenAt(p).t # "attr" THEN [ok |-> TRUE, attrs |-> <<>>, next |-> p]
  ELSE LET t == TokenAt(p)
           rest == Attributes(Behind(t.name, p), s)
       IN IF ~NameReadable(t.name) \/ ~ValueReadable(s, t.value) \/ ~rest.ok
            THEN [ok |-> FALSE, attrs |-> <<>>, next |-> p]
            ELSE [rest EXCEPT !.attrs = <<[name |-> NameAt(t.name), text |-> AttrText(s, t.value, p)]>> \o @]

\* The atoms from `p` to the end of the fragment, `n` tokens and `d` open
\* elements after its beginning; `s` holds the values in scope.
RECURSIVE Atoms(_, _, _, _, _), ValuesFrom(_, _)
Atoms(p, e, s, n, d) ==
  LET t == TokenAt(p)
      On(as, q, depth) == Before(as, Atoms(q, e, s, n + 1, depth))
      Finish == Good([k \in 1 .. d |-> End])
      StartAt(l) == IF l.ok THEN On(<<Start(NameAt(t.name), l.attrs)>>, l.next, d + 1) ELSE Bad
      InstanceAt(a) ==
        LET vs   == ValuesFrom(ValuesAt(a), a + 1)
            e2   == t.def + 1 + BodyAt(t.def)
            body == Atoms(t.def + 1, e2, Scope(vs.vals), 0, 0)
        IN IF ~vs.ok \/ e2 > Length \/ ~body.ok THEN Bad ELSE On(body.atoms, vs.next, d)
  IN IF p >= e \/ p >= Length THEN Finish
     ELSE IF n = MaxTokens THEN Bad
     ELSE CASE t.t = "eos"      -> Finish
            [] t.t = "skip"     -> On(<<>>, p + 1, d)
            [] t.t = "value"    -> On(<<Chars(p)>>, p + 1, d)
            [] t.t = "end"      -> IF d = 0 THEN Bad ELSE On(<<End>>, p + 1, d - 1)
            [] t.t = "open"     -> IF d = MaxDepth \/ ~NameReadable(t.name) THEN Bad
                                   ELSE IF t.list THEN StartAt(Attributes(Behind(t.name, p), s))
                                   ELSE StartAt([ok |-> TRUE, attrs |-> <<>>, next |-> Behind(t.name, p)])
            [] t.t = "subst"    -> IF ~s.on THEN Bad
                                   ELSE LET v == Lookup(s, t)
                                        IN On(CASE v.kind = "null" -> <<>>
                                                [] v.kind = "text" -> <<Chars(v.at)>>
                                                [] v.kind = "nodes" -> v.nodes, p + 1, d)
            [] t.t = "instance" -> IF InstanceReadable(t.def, p) THEN InstanceAt(ArrayPos(t.def, p)) ELSE Bad
            [] OTHER            -> Bad

\* The values described by `ds`, the first at `p`. A fragment is its atoms.
ValuesFrom(ds, p) ==
  LET d == Head(ds)
      On(v, q) == LET rest == ValuesFrom(Tail(ds), q) IN [rest EXCEPT !.vals = <<v>> \o @]
      No == [ok |-> FALSE, vals |-> <<>>, next |-> p]
      Inner == Atoms(p, Length, NoScope, 0, 0)
  IN IF ds = <<>> THEN [ok |-> TRUE, vals |-> <<>>, next |-> p]
     ELSE CASE d.kind = "null"     -> On(NullValue, p)
            [] d.kind = "scalar"   -> IF p < Length THEN On(Scalar(p), p + 1) ELSE No
            [] d.kind = "fragment" -> IF Inner.ok /\ p + d.size <= Length
                                        THEN On(Fragment(Inner.atoms), p + d.size) ELSE No
            [] OTHER               -> No

Written(r) == Atoms(r + 1, Length, NoScope, 0, 0)

\* A tree, written down.
RECURSIVE Spell(_)
Spell(ns) ==
  IF ns = <<>> THEN <<>>
  ELSE LET n == Head(ns)
           it == IF "text" \in DOMAIN n THEN <<Chars(n.text)>>
                 ELSE <<Start(n.elem, n.attrs)>> \o Spell(n.children) \o <<End>>
       IN it \o Spell(Tail(ns))

RECURSIVE RecordsFrom(_)
RecordsFrom(p) == IF HasRecord(p) THEN <<p>> \o RecordsFrom(p + SizeAt(p)) ELSE <<>>

-----------------------------------------------------------------------------

\* Every tree says what the bytes of its record say: each element around what
\* was written in it, each substitution replaced by the value of the instance
\* it belongs to, the values taken from where they are, and the names those in
\* the text, whichever other records were decoded before (deserializer.rs,
\* template.rs, name.rs).
DecodedAsWritten ==
  \A k \in DOMAIN out : Written(out[k].record) = Good(Spell(out[k].nodes))

\* A record that cannot be decoded costs nothing but itself: at the end, those
\* of the chunk that say something are decoded, once and in order (reader.rs,
\* "skipped, not fatal").
OthersDecoded ==
  Done => [k \in DOMAIN out |-> out[k].record] = SelectSeq(RecordsFrom(0), LAMBDA r : Written(r).ok)
=============================================================================
