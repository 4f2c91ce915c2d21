------------------------------ MODULE EventFields ------------------------------
(***************************************************************************)
(* flatten_event_data (winevt-extract): a map of names and values from an  *)
(* event's EventData or UserData.                                          *)
(*                                                                         *)
(* A JSON value is [kind, text, members]: members are <<key, value>>.      *)
(***************************************************************************)
EXTENDS Integers, Sequences, TLC, SequencesExt

CONSTANT Trees  \* the trees events are made of

VARIABLES
  tree,  \* JSON of the EventData and UserData that are present
  flat   \* the map it became, or <<>>

flattened == <<tree, flat>>

-----------------------------------------------------------------------------
(* A name is <<key, index>>, without an index -1.                           *)

Plain(key) == <<key, -1>>

Attributes == {"@Name", "@Guid", "@xmlns"}

IsScalar(node) == node.kind = "scalar"

\* scalar_to_string; null is no value.
Leaf(name, node) == IF IsScalar(node) THEN << <<name, node.text>> >> ELSE <<>>

Each(members, F(_, _)) == FlattenSeq([n \in DOMAIN members |-> F(n, members[n])])

Member(node, key) == SelectSeq(node.members, LAMBDA m : m[1] = key)

RECURSIVE CollectFields(_)

\* Mutant: unnamed elements have no index.
InsertDataItemPlain(n, item) ==
  IF item.kind # "object" THEN Leaf(Plain("Data"), item)
  ELSE IF Member(item, "@Name") = <<>> THEN CollectFields(item)
  ELSE LET text == Member(item, "#text")
       IN  << <<Plain(Member(item, "@Name")[1][2].text),
                IF text # <<>> /\ IsScalar(text[1][2]) THEN text[1][2].text ELSE "">> >>

InsertDataItem(n, item) ==
  IF item.kind # "object" THEN Leaf(<<"Data", n - 1>>, item)
  ELSE IF Member(item, "@Name") = <<>> THEN CollectFields(item)
  ELSE LET text == Member(item, "#text")
       IN  << <<Plain(Member(item, "@Name")[1][2].text),
                IF text # <<>> /\ IsScalar(text[1][2]) THEN text[1][2].text ELSE "">> >>

CollectDataField(node) ==
  IF node.kind = "array" THEN Each(node.members, LAMBDA n, m : InsertDataItem(n, m[2]))
                         ELSE InsertDataItem(1, node)

\* Attributes and the text of an element are skipped.
CollectMember(key, node) ==
  CASE key \in Attributes \cup {"#text"} -> <<>>
    [] key = "Data"          -> CollectDataField(node)
    [] node.kind = "object"  -> CollectFields(node)
    [] node.kind = "array"   ->
         Each(node.members, LAMBDA n, m : IF m[2].kind = "object" THEN CollectFields(m[2])
                                          ELSE Leaf(<<key, n - 1>>, m[2]))
    [] OTHER                 -> Leaf(Plain(key), node)

CollectFields(node) ==
  IF node.kind # "object" THEN <<>>
  ELSE Each(node.members, LAMBDA n, m : CollectMember(m[1], m[2]))

\* A name inserted twice has the value inserted last.
Flatten ==
  /\ flat = <<>>
  /\ flat' = <<FoldLeft(LAMBDA m, e : (e[1] :> e[2]) @@ m, [x \in {} |-> x],
                       Each(tree, LAMBDA n, block : CollectFields(block)))>>
  /\ UNCHANGED tree

-----------------------------------------------------------------------------
FieldsInit == tree \in Trees /\ flat = <<>>

FieldsNext == Flatten

-----------------------------------------------------------------------------
\* The values below a node, those of attributes left out.
RECURSIVE Values(_)
Values(node) ==
  IF IsScalar(node) THEN {node.text}
  ELSE UNION { Values(node.members[n][2]) :
                 n \in { q \in DOMAIN node.members : node.members[q][1] \notin Attributes } }

\* The names below a node, as often as they occur, also where they are data.
RECURSIVE NamesBelow(_)
NamesBelow(node) ==
  Each(node.members, LAMBDA n, m :
    (IF m[1] = "@Name" THEN <<m[2].text>>
     ELSE IF m[1] \in Attributes \cup {"#text", ""} THEN <<>> ELSE <<m[1]>>) \o NamesBelow(m[2]))

\* Text of an element that is no named Data, and arrays in arrays.
RECURSIVE Stray(_, _)
Stray(node, isData) ==
  \E n \in DOMAIN node.members :
    LET key == node.members[n][1]
        sub == node.members[n][2]
    IN  \/ key = "#text" /\ ~(isData /\ IsScalar(sub) /\ Member(node, "@Name") # <<>>)
        \/ node.kind = "array" /\ sub.kind = "array"
        \/ Stray(sub, key = "Data" \/ (key = "" /\ isData))

(* No value of an event is lost when it is flattened, however its elements *)
(* are nested and listed, as long as no name is used twice and only named  *)
(* Data elements have text besides elements.                               *)
FlattenKeepsValues ==
  flat # <<>> =>
    LET names == Each(tree, LAMBDA n, block : NamesBelow(block))
    IN  ((\A m, n \in DOMAIN names : names[m] = names[n] => m = n)
           /\ \A n \in DOMAIN tree : ~Stray(tree[n], FALSE))
          => UNION { Values(tree[n]) : n \in DOMAIN tree }
               \subseteq { flat[1][name] : name \in DOMAIN flat[1] }

=============================================================================
