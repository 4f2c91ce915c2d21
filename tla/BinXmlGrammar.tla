---------------------------- MODULE BinXmlGrammar ----------------------------
(***************************************************************************)
(* What the records of a chunk say, as the rules of a grammar: a second    *)
(* reference for BinXmlDecoder, with no recursion, so that theorems can be *)
(* stated about it. It has no cursor, no stack and no cache either.        *)
(*                                                                         *)
(* A reading `g` holds sets of statements about the bytes. What the bytes  *)
(* say is what every reading that follows the rules must state, that is,   *)
(* what has a derivation by the rules.                                     *)
(***************************************************************************)
EXTENDS BinXmlDecoder, Ordering

\* From p on, in a fragment that ends at e, with the values s in scope, after
\* n tokens and within d open elements, the bytes are the nodes ns. They end at
\* q, after m tokens: with an end tag if `tag`, else with the fragment.
Says(g, p, e, s, n, d, ns, q, m, tag) == <<p, e, s, n, d, ns, q, m, tag>> \in g.nodes

\* The values described by ds, from p on, are vs; behind them is q.
HasValues(g, ds, p, vs, q) == <<ds, p, vs, q>> \in g.values

\* The attributes from p on are `ats`; behind them is q.
HasAttributes(g, s, p, ats, q) == <<s, p, ats, q>> \in g.attrs

IsReading(g) ==
  /\ \A p, e, s, n, d, ns, q, m, tag :
       Says(g, p, e, s, n, d, ns, q, m, tag) => IsSequence(ns) /\ q \in Nat /\ m \in Nat
  /\ \A ds, p, vs, q : HasValues(g, ds, p, vs, q) => IsSequence(vs) /\ q \in Nat
  /\ \A s, p, ats, q : HasAttributes(g, s, p, ats, q) => IsSequence(ats) /\ q \in Nat

-----------------------------------------------------------------------------
(* The rules.                                                              *)

Element(n, ats, ns) == [elem |-> n, attrs |-> ats, children |-> ns]

HasToken(p, e, n) == p < e /\ p < Length /\ n < MaxTokens

\* The end of the fragment: of its bytes, or its end of stream.
FragmentEnds(g) ==
  \A p, e, n, d \in Nat, s \in g.scopes :
    /\ p >= e \/ p >= Length => Says(g, p, e, s, n, d, <<>>, p, n, FALSE)
    /\ HasToken(p, e, n) /\ TokenAt(p).t = "eos" => Says(g, p, e, s, n, d, <<>>, p + 1, n + 1, FALSE)

\* The end of an element.
ElementEnds(g) ==
  \A p, e, n, d \in Nat, s \in g.scopes :
    HasToken(p, e, n) /\ TokenAt(p).t = "end" /\ d > 0 => Says(g, p, e, s, n, d, <<>>, p + 1, n + 1, TRUE)

\* The body of an instance is a fragment, the instance's values in its scope.
IsInstanceOf(g, o, p, ns, q) ==
  LET a == ArrayPos(o, p)
      e == o + 1 + BodyAt(o)
  IN /\ InstanceReadable(o, p) /\ e <= Length
     /\ \E vs, r, m : /\ HasValues(g, ValuesAt(a), a + 1, vs, q)
                      /\ Says(g, o + 1, e, Scope(vs), 0, 0, ns, r, m, FALSE)

\* What stands at p, if it is no start tag, is the nodes ns; behind it is q.
IsItem(g, s, p, ns, q) ==
  LET t == TokenAt(p)
  IN \/ t.t = "skip" /\ ns = <<>> /\ q = p + 1
     \/ t.t = "value" /\ ns = <<Text(p)>> /\ q = p + 1
     \/ t.t = "subst" /\ s.on /\ ns = Content(Lookup(s, t)) /\ q = p + 1
     \/ t.t = "instance" /\ IsInstanceOf(g, t.def, p, ns, q)

Items(g) ==
  \A p, e, n, d \in Nat, s \in g.scopes : \A ns, q, rest, r, m, tag :
    HasToken(p, e, n) /\ IsItem(g, s, p, ns, q) /\ Says(g, q, e, s, n + 1, d, rest, r, m, tag)
      => Says(g, p, e, s, n, d, ns \o rest, r, m, tag)

\* A start tag with the attributes `ats`; the content of the element is at q.
IsStartTag(g, s, p, ats, q) ==
  LET t == TokenAt(p)
  IN /\ t.t = "open" /\ NameReadable(t.name)
     /\ IF t.list THEN HasAttributes(g, s, After(t.name, p), ats, q)
                  ELSE ats = <<>> /\ q = After(t.name, p)

\* An element ends with its end tag, or with the fragment.
Elements(g) ==
  \A p, e, n, d \in Nat, s \in g.scopes : \A ats, q, cs, r, m :
    HasToken(p, e, n) /\ d < MaxDepth /\ IsStartTag(g, s, p, ats, q) =>
      LET it == <<Element(NameAt(TokenAt(p).name), ats, cs)>>
      IN /\ Says(g, q, e, s, n + 1, d + 1, cs, r, m, FALSE) => Says(g, p, e, s, n, d, it, r, m, FALSE)
         /\ Says(g, q, e, s, n + 1, d + 1, cs, r, m, TRUE) =>
              \A rest, r2, m2, tag : Says(g, r, e, s, m, d, rest, r2, m2, tag)
                                       => Says(g, p, e, s, n, d, it \o rest, r2, m2, tag)

IsAttribute(s, p) ==
  /\ p < Length /\ TokenAt(p).t = "attr"
  /\ NameReadable(TokenAt(p).name) /\ ValueReadable(s, TokenAt(p).value)

AttributeAt(s, p) == [name |-> NameAt(TokenAt(p).name), text |-> AttrText(s, TokenAt(p).value, p)]

AttributeLists(g) ==
  \A p \in Nat, s \in g.scopes :
    /\ p >= Length \/ TokenAt(p).t # "attr" => HasAttributes(g, s, p, <<>>, p)
    /\ IsAttribute(s, p) =>
         \A ats, q : HasAttributes(g, s, After(TokenAt(p).name, p), ats, q)
                      => HasAttributes(g, s, p, <<AttributeAt(s, p)>> \o ats, q)

\* A value at p; the next one is at q. A fragment has a scope of its own.
IsValueAt(g, d, p, v, q) ==
  \/ d.kind = "null" /\ v = NullValue /\ q = p
  \/ d.kind = "scalar" /\ p < Length /\ v = Scalar(p) /\ q = p + 1
  \/ d.kind = "fragment" /\ q = p + d.size /\ q <= Length
       /\ \E ns, r, m : Says(g, p, Length, NoScope, 0, 0, ns, r, m, FALSE) /\ v = Fragment(ns)

ValueLists(g) ==
  \A p \in Nat :
    /\ HasValues(g, <<>>, p, <<>>, p)
    /\ \A ds \in Seq(Descriptors) : \A v, q, vs, r :
         ds # <<>> /\ IsValueAt(g, Head(ds), p, v, q) /\ HasValues(g, Tail(ds), q, vs, r)
           => HasValues(g, ds, p, <<v>> \o vs, r)

\* The scopes there are.
Scopes(g) ==
  /\ NoScope \in g.scopes
  /\ \A ds, p, vs, q : HasValues(g, ds, p, vs, q) => Scope(vs) \in g.scopes

IsGrammatical(g) ==
  /\ IsReading(g)
  /\ FragmentEnds(g) /\ ElementEnds(g) /\ Items(g) /\ Elements(g)
  /\ AttributeLists(g) /\ ValueLists(g) /\ Scopes(g)

-----------------------------------------------------------------------------
\* The record at r says ns.
IsWrittenAs(r, ns) ==
  \A g : IsGrammatical(g) => \E q, m : Says(g, r + 1, Length, NoScope, 0, 0, ns, q, m, FALSE)
=============================================================================
