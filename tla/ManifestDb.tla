------------------------------- MODULE ManifestDb -------------------------------
(***************************************************************************)
(* The names of event fields.  winevt-manifest reads the templates of      *)
(* provider manifests, all files of a directory in any order, and renames  *)
(* the fields Param1, Param2, ... of an event to the names its template    *)
(* declares.                                                               *)
(*                                                                         *)
(* A manifest is the sequence of its XML elements: <<"provider", guid>>,   *)
(* <<"template", tid>>, <<"data", name>>, <<"/template">>,                 *)
(* <<"event", event, tid>>, other elements left out; "malformed" stands    *)
(* where it is no XML.                                                     *)
(***************************************************************************)
EXTENDS Ordering

CONSTANTS
  Manifests,  \* families of [dir, event, given], see the variables
  Normal,     \* normalize_guid: spelling of a guid -> guid
  Params      \* param_index + 1, of the keys that have one: Param1, Param01, Param2, ...

ASSUME ManifestsAssumption ==
  \A family \in DOMAIN Manifests : \A x \in Manifests[family] :
    /\ \A file \in DOMAIN x.dir : IsSequence(x.dir[file])
    /\ IsFiniteSet(DOMAIN x.given)
    /\ x.given = [key \in DOMAIN x.given |-> x.given[key]]

VARIABLES
  dir,        \* the directory: file name -> manifest
  unread,     \* the files not read yet
  elements,   \* the file being read
  place,      \* the element that is next
  templates,  \* its templates: tid -> names
  eventMap,   \* its events: <<guid, event, tid>>
  guid,       \* current_provider_guid
  tid,        \* current_template_tid
  inTemplate,
  db,         \* ManifestDb: <<guid, event>> -> names
  manifest,   \* "open", "read", "loaded", "failed", "renaming" or "renamed"
  event,      \* <<guid as spelt, event>> whose fields are renamed
  given,      \* its fields before: key -> value
  data,       \* and as they are now
  renames     \* <<old key, new key>>: renames left

parsing == <<elements, templates, eventMap, guid, tid, inTemplate>>
naming  == <<event, given, data, renames>>
mvars   == <<dir, unread, place, parsing, db, manifest, naming>>

NoEntries == [x \in {} |-> x]

Inserted(m, key, v) == [k \in DOMAIN m \cup {key} |-> IF k = key THEN v ELSE m[k]]

Removed(m, key) == [k \in DOMAIN m \ {key} |-> m[k]]

-----------------------------------------------------------------------------
(* load_into, of one manifest.                                              *)

Begin ==
  /\ manifest = "open"
  /\ \E file \in unread : elements' = dir[file] /\ unread' = unread \ {file}
  /\ place' = 1
  /\ manifest' = "read"
  /\ UNCHANGED <<dir, db, naming>>

\* Mutant: what was read of the file before is still there.
OpenStale == Begin /\ UNCHANGED <<templates, eventMap, guid, tid, inTemplate>>

\* read_dir lists the files in any order.
Open ==
  /\ Begin
  /\ templates' = NoEntries /\ eventMap' = <<>>
  /\ guid' = "" /\ tid' = "" /\ inTemplate' = FALSE

At(element) ==
  /\ manifest = "read"
  /\ place <= Len(elements)
  /\ elements[place][1] = element

Operand(n) == elements[place][n]

Advance ==
  /\ place' = place + 1
  /\ UNCHANGED <<dir, unread, elements, db, manifest, naming>>

Provider ==
  /\ At("provider")
  /\ guid' = Operand(2)
  /\ Advance
  /\ UNCHANGED <<templates, eventMap, tid, inTemplate>>

\* An empty element <template/> begins a template too, and no end follows.
Template ==
  /\ At("template")
  /\ tid' = Operand(2)
  /\ inTemplate' = TRUE
  /\ templates' = IF tid' \in DOMAIN templates THEN templates ELSE Inserted(templates, tid', <<>>)
  /\ Advance
  /\ UNCHANGED <<eventMap, guid>>

\* Templates of different providers with one tid are one.
Data ==
  /\ At("data")
  /\ templates' = IF inTemplate THEN Inserted(templates, tid, Append(templates[tid], Operand(2)))
                                ELSE templates
  /\ Advance
  /\ UNCHANGED <<eventMap, guid, tid, inTemplate>>

EndTemplate ==
  /\ At("/template")
  /\ inTemplate' = FALSE
  /\ Advance
  /\ UNCHANGED <<templates, eventMap, guid, tid>>

EventElement ==
  /\ At("event")
  /\ eventMap' = Append(eventMap, <<guid, Operand(2), Operand(3)>>)
  /\ Advance
  /\ UNCHANGED <<templates, guid, tid, inTemplate>>

\* One file that is not XML, and nothing is loaded.
Malformed ==
  /\ At("malformed")
  /\ manifest' = "failed"
  /\ UNCHANGED <<dir, unread, place, parsing, db, naming>>

\* The events whose template was met, and the key of each.
Known == { k \in 1 .. Len(eventMap) : eventMap[k][3] \in DOMAIN templates }

KeyAt(k) == <<Normal[eventMap[k][1]], eventMap[k][2]>>

FirstAt(key) == CHOOSE k \in Known : KeyAt(k) = key /\ \A j \in Known : KeyAt(j) = key => k <= j

\* What is there stays: the first declaration of an event holds.
EndOfManifest ==
  /\ manifest = "read"
  /\ place > Len(elements)
  /\ db' = [key \in DOMAIN db \cup { KeyAt(k) : k \in Known } |->
              IF key \in DOMAIN db THEN db[key] ELSE templates[eventMap[FirstAt(key)][3]]]
  /\ manifest' = "open"
  /\ UNCHANGED <<dir, unread, place, parsing, naming>>

Loaded ==
  /\ manifest = "open"
  /\ unread = {}
  /\ manifest' = "loaded"
  /\ UNCHANGED <<dir, unread, place, parsing, db, naming>>

-----------------------------------------------------------------------------
(* resolve_fields.                                                          *)

Names ==
  LET key == <<Normal[event[1]], event[2]>>
  IN  IF key \in DOMAIN db THEN db[key] ELSE <<>>

\* Mutant: the names are counted from zero.
ResolveFromZero ==
  /\ manifest = "loaded"
  /\ renames' = { <<key, Names[Params[key] + 1]>> :
                    key \in { q \in DOMAIN data \cap DOMAIN Params : Params[q] < Len(Names) } }
  /\ manifest' = "renaming"
  /\ UNCHANGED <<dir, unread, place, parsing, db, event, given, data>>

Resolve ==
  /\ manifest = "loaded"
  /\ renames' = { <<key, Names[Params[key]]>> :
                    key \in { q \in DOMAIN data \cap DOMAIN Params : Params[q] <= Len(Names) } }
  /\ manifest' = "renaming"
  /\ UNCHANGED <<dir, unread, place, parsing, db, event, given, data>>

\* One by one, in the order of a hash map.
Rename ==
  /\ manifest = "renaming"
  /\ \E r \in renames :
       /\ renames' = renames \ {r}
       /\ data' = IF r[1] \in DOMAIN data THEN Inserted(Removed(data, r[1]), r[2], data[r[1]])
                                          ELSE data
  /\ UNCHANGED <<dir, unread, place, parsing, db, manifest, event, given>>

Renamed ==
  /\ manifest = "renaming"
  /\ renames = {}
  /\ manifest' = "renamed"
  /\ UNCHANGED <<dir, unread, place, parsing, db, naming>>

-----------------------------------------------------------------------------
ManifestInit ==
  /\ \E family \in DOMAIN Manifests : \E x \in Manifests[family] :
       dir = x.dir /\ event = x.event /\ given = x.given
  /\ unread = DOMAIN dir
  /\ elements = <<>> /\ place = 1
  /\ templates = NoEntries /\ eventMap = <<>>
  /\ guid = "" /\ tid = "" /\ inTemplate = FALSE
  /\ db = NoEntries
  /\ manifest = "open"
  /\ data = given
  /\ renames = {}

ManifestNext ==
  \/ Open \/ Provider \/ Template \/ Data \/ EndTemplate \/ EventElement \/ Malformed
  \/ EndOfManifest \/ Loaded \/ Resolve \/ Rename \/ Renamed

ManifestSpec == ManifestInit /\ [][ManifestNext]_mvars

-----------------------------------------------------------------------------
\* No tid twice in a file, and every template ends.
Wellformed(file) ==
  /\ \A m, n \in DOMAIN file :
       m # n /\ file[m][1] = "template" /\ file[n][1] = "template" => file[m][2] # file[n][2]
  /\ \A n \in DOMAIN file :
       file[n][1] = "template" =>
         \E m \in DOMAIN file : /\ n < m /\ file[m][1] = "/template"
                                /\ \A q \in n + 1 .. m - 1 : file[q][1] = "data"

\* The names that stand between a template and its end.
Declared(file, id) ==
  LET from == CHOOSE n \in DOMAIN file : file[n][1] = "template" /\ file[n][2] = id
      to   == CHOOSE n \in DOMAIN file :
                /\ from < n /\ file[n][1] = "/template"
                /\ \A q \in from .. n - 1 : file[q][1] # "/template"
  IN  [n \in 1 .. to - from - 1 |-> file[from + n][2]]

HasTemplate(file, id) == \E n \in DOMAIN file : file[n][1] = "template" /\ file[n][2] = id

\* The provider whose element is the last one before n, if there is one.
IsProviderOf(file, m, n) ==
  /\ m \in DOMAIN file /\ m < n /\ file[m][1] = "provider"
  /\ \A q \in m + 1 .. n - 1 : file[q][1] # "provider"

ProviderAt(file, n) ==
  IF \E m \in DOMAIN file : IsProviderOf(file, m, n)
    THEN file[CHOOSE m \in DOMAIN file : IsProviderOf(file, m, n)][2]
    ELSE ""

\* <<event, names>> as the file has them.
Declarations(file) ==
  { <<<<Normal[ProviderAt(file, n)], file[n][2]>>, Declared(file, file[n][3])>> :
      n \in { m \in DOMAIN file : file[m][1] = "event" /\ HasTemplate(file, file[m][3]) } }

(* In whatever order the files of a directory are read, and whatever they  *)
(* have in common with others, an event is given the names that some file  *)
(* declares for it, and if any does it is given some: as long as no file   *)
(* uses a tid twice or leaves a template open.                             *)
FieldsAsDeclared ==
  (manifest \in {"loaded", "renaming", "renamed"} /\ \A file \in DOMAIN dir : Wellformed(dir[file])) =>
    LET declared == UNION { Declarations(dir[file]) : file \in DOMAIN dir }
    IN  /\ \A e \in DOMAIN db : <<e, db[e]>> \in declared
        /\ \A x \in declared : x[1] \in DOMAIN db

\* What the code means to call the value of a key.
IsNamed(key) == key \in DOMAIN Params /\ Params[key] <= Len(Names)

NameOf(key) == IF IsNamed(key) THEN Names[Params[key]] ELSE key

NamesApart ==
  \A p, q \in DOMAIN given : IsNamed(p) => NameOf(p) # q /\ (p # q => NameOf(p) # NameOf(q))

(* In whatever order fields are renamed each value ends under the name     *)
(* declared for its place, or its own where there is none: as long as no   *)
(* two get the same name, and none one that was a key.                     *)
NamesResolve ==
  manifest = "renamed" /\ NamesApart =>
    /\ Cardinality(DOMAIN data) = Cardinality(DOMAIN given)
    /\ \A key \in DOMAIN given : NameOf(key) \in DOMAIN data /\ data[NameOf(key)] = given[key]
=============================================================================
