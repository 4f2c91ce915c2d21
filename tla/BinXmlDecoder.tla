---------------------------- MODULE BinXmlDecoder ----------------------------
(***************************************************************************)
(* The records of one chunk, decoded from BinXml to trees: the loop over   *)
(* the records (reader.rs), the token loop (deserializer.rs), template     *)
(* instances (template.rs) and the name cache (name.rs).                   *)
(*                                                                         *)
(* The code calls itself: an instance decodes values that are fragments,   *)
(* and then the body of its definition, which may hold instances. `calls`  *)
(* is that stack of calls. A call of the token loop keeps its own cursor,  *)
(* its own open elements and the values that are in scope; the cursor of   *)
(* an instance is the one of the loop that met it.                         *)
(*                                                                         *)
(* A position of the chunk stands for the bytes of one token with its      *)
(* operands, one name, one definition header, one array of descriptors or  *)
(* one value. Bytes can be read as any of them, so `chunk` gives a reading *)
(* of each kind at every position. A text is known by its position.        *)
(***************************************************************************)
EXTENDS Integers, Sequences, SequencesExt

CONSTANTS
  Length,     \* positions of the chunk
  MaxDepth,   \* MAX_DEPTH
  MaxTokens,  \* MAX_TOKENS
  MaxValues   \* MAX_SUBSTITUTIONS

ASSUME DecoderAssumption ==
  /\ Length \in Nat \ {0}
  /\ MaxDepth \in Nat
  /\ MaxTokens \in Nat
  /\ MaxValues \in Nat

ChunkPositions == 0 .. Length - 1

VARIABLES
  chunk,   \* what the bytes say
  record,  \* rec_off: the record to be decoded, or being decoded
  calls,   \* the calls under way, innermost last; <<>> between records
  names,   \* NameCache: the names read, by position
  out      \* the records decoded

dvars == <<chunk, record, calls, names, out>>

-----------------------------------------------------------------------------
(* What the bytes at a position can be read as: a token, or one descriptor *)
(* of an array. Names and definitions are referred to by offset, unchecked. *)

AttrValues == [t : {"value", "open", "other"}] \cup [t : {"subst"}, index : Nat, ignore : BOOLEAN]

Tokens ==
  [t : {"unknown", "eos", "skip", "end", "value"}]
    \cup [t : {"open"}, name : Nat, list : BOOLEAN]
    \cup [t : {"attr"}, name : Nat, value : AttrValues]
    \cup [t : {"subst"}, index : Nat, ignore : BOOLEAN]
    \cup [t : {"instance"}, def : Nat]

Descriptors == [kind : {"null", "scalar", "array"}] \cup [kind : {"fragment"}, size : Nat]

IsChunk ==
  /\ chunk.free \in Int
  /\ \A p \in ChunkPositions :
       /\ chunk.size[p] \in Int
       /\ chunk.token[p] \in Tokens
       /\ chunk.body[p] \in Nat
       /\ chunk.values[p] \in Seq(Descriptors)

-----------------------------------------------------------------------------
(* Readings of the bytes at a position.                                    *)

\* EvtxRecordHeader::parse: the size of the record, in positions, or NoRecord.
NoRecord    == -1
SizeAt(p)   == chunk.size[p]
TokenAt(p)  == chunk.token[p]
NameAt(p)   == chunk.name[p]    \* read_name_fields
BodyAt(p)   == chunk.body[p]    \* read_def_header: the length of the body
ValuesAt(p) == chunk.values[p]  \* the descriptors of the values that follow

\* The name `o` referred to by a token at `p`. If it stands right behind the
\* token it is read there, and the cursor moves over it.
Inline(o, p) == o = p + 1
After(o, p)  == IF Inline(o, p) THEN p + 2 ELSE p + 1

NameReadable(o) == o < Length

NameRef(o, p) == IF ~Inline(o, p) /\ o \in DOMAIN names THEN names[o] ELSE NameAt(o)

Cached(o, p) == [x \in DOMAIN names \cup {o} |-> IF x = o THEN NameRef(o, p) ELSE names[x]]

-----------------------------------------------------------------------------
(* Trees, values and calls.                                                *)

Text(p) == [text |-> p]
Elem(n) == [elem |-> n, attrs |-> <<>>, children |-> <<>>]

\* The result of a value: VT_NULL, a scalar, an embedded fragment.
NullValue     == [kind |-> "null"]
Scalar(p)     == [kind |-> "text", at |-> p]
Fragment(ns)  == [kind |-> "nodes", nodes |-> ns]

\* `substitutions` is None outside the body of a definition.
NoScope    == [on |-> FALSE, vals |-> <<>>]
Scope(vs)  == [on |-> TRUE, vals |-> vs]

\* A call of `run`. `list`: within read_attributes; `over`: its loop has ended.
Run(p, e, s) ==
  [call |-> "run", pos |-> p, end |-> e, scope |-> s, steps |-> 0, list |-> FALSE,
   over |-> FALSE, open |-> <<>>, roots |-> <<>>]

\* A call of `read_template_instance` whose values `todo` are still to be read.
Instance(p, b, e, ds) == [call |-> "instance", pos |-> p, body |-> b, end |-> e, todo |-> ds, vals |-> <<>>]

Top == Last(calls)
Set(f) == calls' = Append(Front(calls), f)
Call(f) == calls' = Append(calls, f)

InRun      == calls # <<>> /\ Top.call = "run"
InInstance == calls # <<>> /\ Top.call = "instance"

Attach(f, ns) ==
  IF f.open = <<>> THEN [f EXCEPT !.roots = @ \o ns]
                   ELSE [f EXCEPT !.open[Len(f.open)].children = @ \o ns]

Close(f) == Attach([f EXCEPT !.open = Front(@)], <<Last(f.open)>>)


-----------------------------------------------------------------------------
(* decode_chunk: record after record, as far as the sizes lead.            *)

HasRecord(p) ==
  /\ p < chunk.free /\ p < Length
  /\ SizeAt(p) >= 1
  /\ p + SizeAt(p) <= Length

NextRecord == record' = record + SizeAt(record)

DecodeRecord ==
  /\ calls = <<>> /\ HasRecord(record)
  /\ Call(Run(record + 1, Length, NoScope))
  /\ UNCHANGED <<chunk, record, names, out>>

\* Mutant: an error is the end of the chunk.
SkipAll == calls' = <<>> /\ record' = Length

\* Any error ends all the calls; the record is skipped, the names stay.
Skip == calls' = <<>> /\ NextRecord

Fails ==
  /\ Skip
  /\ UNCHANGED <<chunk, names, out>>

-----------------------------------------------------------------------------
(* run: the token loop.                                                    *)

Over(f) == f.over \/ f.pos >= f.end \/ f.pos >= Length

AtLoop == InRun /\ ~Top.list /\ ~Over(Top)

AtToken(t) == AtLoop /\ Top.steps < MaxTokens /\ TokenAt(Top.pos).t = t

Read(f) == [f EXCEPT !.pos = @ + 1, !.steps = @ + 1]

Token == TokenAt(Top.pos)

TooManyTokens == AtLoop /\ Top.steps >= MaxTokens /\ Fails

\* An invalid byte, a token this loop does not take, a value of unknown type.
UnknownToken == (AtToken("unknown") \/ AtToken("attr")) /\ Fails

EndOfStream ==
  /\ AtToken("eos")
  /\ Set([Read(Top) EXCEPT !.over = TRUE])
  /\ UNCHANGED <<chunk, record, names, out>>

\* A fragment header, or the end of a start tag.
SkipToken ==
  /\ AtToken("skip")
  /\ Set(Read(Top))
  /\ UNCHANGED <<chunk, record, names, out>>

TooDeep(f) == Len(f.open) >= MaxDepth

OpenElement ==
  /\ AtToken("open")
  /\ ~TooDeep(Top) /\ NameReadable(Token.name)
  /\ Set([Read(Top) EXCEPT !.pos = After(Token.name, Top.pos),
                           !.open = Append(@, Elem(NameRef(Token.name, Top.pos))),
                           !.list = Token.list])
  /\ names' = Cached(Token.name, Top.pos)
  /\ UNCHANGED <<chunk, record, out>>

OpenFails == AtToken("open") /\ (TooDeep(Top) \/ ~NameReadable(Token.name)) /\ Fails

EndElement ==
  /\ AtToken("end") /\ Top.open # <<>>
  /\ Set(Close(Read(Top)))
  /\ UNCHANGED <<chunk, record, names, out>>

UnbalancedClose == AtToken("end") /\ Top.open = <<>> /\ Fails

ValueToken ==
  /\ AtToken("value")
  /\ Set(Attach(Read(Top), <<Text(Top.pos)>>))
  /\ UNCHANGED <<chunk, record, names, out>>

\* lookup_substitution: an ignored one, or one out of range, is like VT_NULL.
Lookup(s, tok) ==
  IF tok.ignore \/ tok.index >= Len(s.vals) THEN NullValue ELSE s.vals[tok.index + 1]

Content(v) ==
  CASE v.kind = "null"  -> <<>>
    [] v.kind = "text"  -> <<Text(v.at)>>
    [] v.kind = "nodes" -> v.nodes

Substitution ==
  /\ AtToken("subst") /\ Top.scope.on
  /\ Set(Attach(Read(Top), Content(Lookup(Top.scope, Token))))
  /\ UNCHANGED <<chunk, record, names, out>>

OutsideTemplate == AtToken("subst") /\ ~Top.scope.on /\ Fails

-----------------------------------------------------------------------------
(* read_attributes. It looks for the end of the chunk, not of the body.    *)

AtAttribute == InRun /\ Top.list /\ Top.pos < Length /\ Token.t = "attr"

\* An attribute's value is the text at one position, or empty: <<>>.
ValueReadable(s, v) == v.t = "value" \/ (v.t = "subst" /\ s.on)

AttrText(s, v, p) ==
  IF v.t = "value" THEN <<p>>
  ELSE LET found == Lookup(s, v) IN IF found.kind = "text" THEN <<found.at>> ELSE <<>>

WithAttribute(f, n, txt) ==
  [f EXCEPT !.open[Len(f.open)].attrs = Append(@, [name |-> n, text |-> txt])]

Attribute ==
  /\ AtAttribute /\ NameReadable(Token.name) /\ ValueReadable(Top.scope, Token.value)
  /\ Set([WithAttribute(Top, NameRef(Token.name, Top.pos), AttrText(Top.scope, Token.value, Top.pos))
            EXCEPT !.pos = After(Token.name, Top.pos)])
  /\ names' = Cached(Token.name, Top.pos)
  /\ UNCHANGED <<chunk, record, out>>

\* The name is read, and kept, before the value is found to be of no use.
AttributeFails ==
  /\ AtAttribute
  /\ ~NameReadable(Token.name) \/ ~ValueReadable(Top.scope, Token.value)
  /\ Skip
  /\ names' = IF NameReadable(Token.name) THEN Cached(Token.name, Top.pos) ELSE names
  /\ UNCHANGED <<chunk, out>>

\* Mutant: the cursor is set back, and the loop goes on.
NoMoreForever(f) == f

NoMore(f) == [f EXCEPT !.list = FALSE]

EndOfList ==
  /\ InRun /\ Top.list /\ ~AtAttribute
  /\ Set(NoMore(Top))
  /\ UNCHANGED <<chunk, record, names, out>>

-----------------------------------------------------------------------------
(* read_template_instance.                                                 *)

\* Where the descriptors are: behind a definition that stands here.
ArrayPos(o, p) == IF Inline(o, p) THEN o + 1 + BodyAt(o) ELSE p + 1

InstanceReadable(o, p) ==
  /\ o < Length
  /\ ArrayPos(o, p) < Length
  /\ Len(ValuesAt(ArrayPos(o, p))) <= MaxValues

TemplateInstance ==
  /\ AtToken("instance") /\ InstanceReadable(Token.def, Top.pos)
  /\ LET o == Token.def
         a == ArrayPos(o, Top.pos)
     IN calls' = Append(Front(calls), Read(Top))
                 \o <<Instance(a + 1, o + 1, o + 1 + BodyAt(o), ValuesAt(a))>>
  /\ UNCHANGED <<chunk, record, names, out>>

InstanceFails == AtToken("instance") /\ ~InstanceReadable(Token.def, Top.pos) /\ Fails

AtValue(k) == InInstance /\ Top.todo # <<>> /\ Head(Top.todo).kind = k

Got(f, v, n) == [f EXCEPT !.vals = Append(@, v), !.todo = Tail(@), !.pos = @ + n]

NullRead ==
  /\ AtValue("null")
  /\ Set(Got(Top, NullValue, 0))
  /\ UNCHANGED <<chunk, record, names, out>>

ScalarRead ==
  /\ AtValue("scalar") /\ Top.pos < Length
  /\ Set(Got(Top, Scalar(Top.pos), 1))
  /\ UNCHANGED <<chunk, record, names, out>>

\* An array, a type unknown, or no bytes left.
ValueFails == (AtValue("array") \/ (AtValue("scalar") /\ Top.pos >= Length)) /\ Fails

\* A fragment is decoded by a new call, with limits of its own, and up to the
\* end of the chunk.
DecodeFragment ==
  /\ AtValue("fragment")
  /\ Call(Run(Top.pos, Length, NoScope))
  /\ UNCHANGED <<chunk, record, names, out>>

DecodeBody ==
  /\ InInstance /\ Top.todo = <<>> /\ Top.end <= Length
  /\ LET caller == Last(Front(calls))
     IN calls' = Append(Front(Front(calls)), [caller EXCEPT !.pos = Top.pos])
                 \o <<Run(Top.body, Top.end, Scope(Top.vals))>>
  /\ UNCHANGED <<chunk, record, names, out>>

BodyFails == InInstance /\ Top.todo = <<>> /\ Top.end > Length /\ Fails

-----------------------------------------------------------------------------
(* The end of a call of `run`.                                             *)

Ended == InRun /\ ~Top.list /\ Over(Top)

\* Elements left open are closed, the innermost first.
CloseUnclosed ==
  /\ Ended /\ Top.open # <<>>
  /\ Set(Close(Top))
  /\ UNCHANGED <<chunk, record, names, out>>

Returns == Ended /\ Top.open = <<>>

RecordDecoded ==
  /\ Returns /\ Len(calls) = 1
  /\ out' = Append(out, [record |-> record, nodes |-> Top.roots])
  /\ calls' = <<>>
  /\ NextRecord
  /\ UNCHANGED <<chunk, names>>

Caller == Last(Front(calls))

ReturnTo(f) == calls' = Append(Front(Front(calls)), f)

\* Mutant: the cursor of the fragment is taken.
AfterTokens(f, size, ended) == ended

\* The value's size tells where the next value is, not where its tokens ended.
AfterFragment(f, size, ended) == f + size

FragmentDecoded ==
  /\ Returns /\ Len(calls) > 1 /\ Caller.call = "instance"
  /\ LET next == AfterFragment(Caller.pos, Head(Caller.todo).size, Top.pos)
     IN /\ next <= Length
        /\ ReturnTo([Got(Caller, Fragment(Top.roots), 0) EXCEPT !.pos = next])
  /\ UNCHANGED <<chunk, record, names, out>>

FragmentFails ==
  /\ Returns /\ Len(calls) > 1 /\ Caller.call = "instance"
  /\ AfterFragment(Caller.pos, Head(Caller.todo).size, Top.pos) > Length
  /\ Fails

BodyDecoded ==
  /\ Returns /\ Len(calls) > 1 /\ Caller.call = "run"
  /\ ReturnTo(Attach(Caller, Top.roots))
  /\ UNCHANGED <<chunk, record, names, out>>

-----------------------------------------------------------------------------

DecoderInit ==
  /\ IsChunk
  /\ record = 0
  /\ calls = <<>>
  /\ names = [o \in {} |-> ""]
  /\ out = <<>>

TokenLoop ==
  \/ TooManyTokens \/ UnknownToken \/ EndOfStream \/ SkipToken
  \/ OpenElement \/ OpenFails \/ EndElement \/ UnbalancedClose
  \/ ValueToken \/ Substitution \/ OutsideTemplate
  \/ Attribute \/ AttributeFails \/ EndOfList
  \/ TemplateInstance \/ InstanceFails

Values == NullRead \/ ScalarRead \/ ValueFails \/ DecodeFragment \/ DecodeBody \/ BodyFails

Ends == CloseUnclosed \/ RecordDecoded \/ FragmentDecoded \/ FragmentFails \/ BodyDecoded

DecoderNext == DecodeRecord \/ TokenLoop \/ Values \/ Ends

DecoderSpec == DecoderInit /\ [][DecoderNext]_dvars /\ WF_dvars(DecoderNext)

Done == calls = <<>> /\ ~HasRecord(record)

-----------------------------------------------------------------------------
\* The loop over the records comes to an end: every call returns. Chunks in
\* which a definition holds an instance of itself are left out, see README.
DecodingEnds == <>Done
=============================================================================
