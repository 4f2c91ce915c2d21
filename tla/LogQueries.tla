------------------------------- MODULE LogQueries -------------------------------
(***************************************************************************)
(* winevt-extract: the queries over event logs other than the pairing of   *)
(* logon sessions (module LogonSessions).  Each is a pass of its own over  *)
(* the records of a file; a step here takes one record through all of them.*)
(* Then what is computed of several files: the merged logon graph and the  *)
(* difference of two logs.                                                 *)
(*                                                                         *)
(* A record is [id, time, ok, eid, host, provider, data, fields, iocs,     *)
(* says]: whether it can be decoded; its Computer and Provider; whether it *)
(* has an EventData element and what is in it; the indicators the patterns *)
(* find in its text, in the order of the patterns; how it says the phrase  *)
(* searched for.  A field is [str, v]: a JSON string, or a number.         *)
(***************************************************************************)
EXTENDS Ordering, Timestamps, Functions

CONSTANTS
  Logs,       \* families of the files queries are made over
  RecordCap,  \* how many record ids an indicator keeps (10 in the code)
  MinZ2,      \* the square of the least z-score that is an anomaly
  RareBelow   \* the number of runs from which a process is not rare

ASSUME QueryAssumption ==
  RecordCap \in Nat /\ MinZ2 \in Nat /\ RareBelow \in Nat

\* The MessageNumber of a fragment is a number, where it is given as text.
IsRecord(rec) ==
  /\ rec.id \in Nat /\ rec.time \in Nat
  /\ rec.ok \in BOOLEAN /\ rec.data \in BOOLEAN
  /\ "MessageNumber" \in DOMAIN rec.fields /\ rec.fields["MessageNumber"].str
       => rec.fields["MessageNumber"].v \in Nat

IsLog(log) ==
  /\ log.opens \in BOOLEAN
  /\ IsSequence(log.records)
  /\ \A n \in 1 .. Len(log.records) : IsRecord(log.records[n])

ASSUME LogsAssumption ==
  \A family \in DOMAIN Logs : \A paths \in Logs[family] :
    IsSequence(paths) /\ \A k \in 1 .. Len(paths) : IsLog(paths[k])

VARIABLES
  logs,     \* the paths given: whether each opens, and its records
  at,       \* the file being read
  nth,      \* the record that is next
  acc,      \* what the queries have gathered of this file
  results,  \* what they returned for the files before it
  graph,    \* edge_map: the logon graphs of those merged
  total     \* the merged graph and the difference, in the end

qvars == <<logs, at, nth, acc, results, graph, total>>

-----------------------------------------------------------------------------
(* Reading a field.                                                         *)

None == "none"  \* also the event id of a record without one, as 0

\* event_data_str: strings only, whichever way the provider's template names
\* its fields.
Text(rec, key) ==
  IF key \in DOMAIN rec.fields /\ rec.fields[key].str THEN rec.fields[key].v ELSE None

TextOr(rec, key, otherwise) ==
  IF Text(rec, key) = None THEN otherwise ELSE Text(rec, key)

\* ... .parse(): a number given as text.
Parsed(rec, key, otherwise) ==
  IF key \in DOMAIN rec.fields /\ rec.fields[key].str THEN rec.fields[key].v ELSE otherwise

\* event_data_num: either.
Number(rec, key) == IF key \in DOMAIN rec.fields THEN rec.fields[key].v ELSE 0

\* sysmon_pid: numbers only.
SysmonPid(rec, key) ==
  IF key \in DOMAIN rec.fields /\ ~rec.fields[key].str THEN rec.fields[key].v ELSE 0

IsEvent(rec, ids) == rec.data /\ rec.eid \in ids

\* Mutant: the entries stay in the order of the file.
AsRead(s) == s

\* sort_by is stable.
ByText(s) == SortedBy(s, [k \in 1 .. Len(s) |-> TextKey(s[k].time)])

-----------------------------------------------------------------------------
(* Timelines.                                                               *)

Entry(rec) == [id |-> rec.id, time |-> rec.time, eid |-> rec.eid, provider |-> rec.provider]

Timeline(s, rec) == Append(s, Entry(rec))

\* The former pivot: any string of the record contains the phrase in any case.
Pivot(s, rec) == IF rec.says \in {"plain", "other case"} THEN Append(s, Entry(rec)) ELSE s

\* With --regex the phrase is matched as it is spelt.
Search(s, rec) == IF rec.says = "plain" THEN Append(s, Entry(rec)) ELSE s

HuntIds ==
  [kerberoast |-> {4769}, asrep |-> {4768}, dcsync |-> {4662}, lateralSmb |-> {5140, 5145},
   wmiPersistence |-> {5860, 5861}, scheduledTask |-> {4698, 4702}, lsassAccess |-> {10},
   defenderTamper |-> {5001, 5007}]

\* An event id is enough for three of the hunts, the others look further.
Hunted(name, rec) ==
  /\ rec.eid \in HuntIds[name]
  /\ CASE name = "kerberoast"  -> rec.data /\ Text(rec, "TicketEncryptionType") \in {"RC4", "AES"}
       [] name = "asrep"       -> rec.data /\ Text(rec, "PreAuthType") = "0"
       [] name = "dcsync"      -> rec.data /\ ( \/ Text(rec, "ObjectServer") = "Directory Service"
                                               \/ Text(rec, "AccessMask") = "0x100" )
       [] name = "lateralSmb"  -> rec.data /\ Text(rec, "ShareName") \in {"ADMIN$", "IPC$"}
       [] name = "lsassAccess" -> rec.data /\ Text(rec, "TargetImage") = "lsass"
       [] OTHER                -> TRUE

Hunts(h, rec) ==
  [name \in DOMAIN HuntIds |-> IF Hunted(name, rec) THEN Append(h[name], Entry(rec)) ELSE h[name]]

-----------------------------------------------------------------------------
(* Counts.                                                                  *)

NoCounts == [x \in {} |-> 0]

CountOf(b, x) == IF x \in DOMAIN b THEN b[x] ELSE 0

\* *entry(x).or_insert(0) += 1
Counted(b, x) == [y \in DOMAIN b \cup {x} |-> CountOf(b, y) + IF y = x THEN 1 ELSE 0]

Frequency(b, rec) == Counted(b, rec.eid)

Sum(b) == FoldFunction(+, 0, b)

\* The ids of anomalous frequency, by the square of their z-score
\* ((n c - sum) / sqrt(n sum of squares - sum squared))^2, and none where the
\* deviation is zero.
Deviation(b) ==
  LET n == Cardinality(DOMAIN b)
  IN  n * Sum([e \in DOMAIN b |-> b[e] * b[e]]) - Sum(b) * Sum(b)

\* Mutant: the variance is divided by the number of ids twice.
AnomaliesTwice(b) ==
  LET n == Cardinality(DOMAIN b)
      dev(e) == n * b[e] - Sum(b)
  IN  { e \in DOMAIN b :
          IF Deviation(b) > 0 THEN n * dev(e) * dev(e) >= MinZ2 * Deviation(b) ELSE MinZ2 = 0 }

Anomalies(b) ==
  LET dev(e) == Cardinality(DOMAIN b) * b[e] - Sum(b)
  IN  { e \in DOMAIN b :
          IF Deviation(b) > 0 THEN dev(e) * dev(e) >= MinZ2 * Deviation(b) ELSE MinZ2 = 0 }

\* extract_field, of one field: its strings.
FieldValues(b, rec) ==
  IF Text(rec, "TaskName") = None THEN b ELSE Counted(b, Text(rec, "TaskName"))

\* Each hit of a pattern counts, the first ones keep the record's id.
Iocs(m, rec) ==
  LET value(n) == rec.iocs[n]
      hits(v)  == { n \in DOMAIN rec.iocs : value(n) = v }
      old(v)   == IF v \in DOMAIN m THEN m[v]
                  ELSE [count |-> 0, first |-> rec.time, last |-> rec.time, ids |-> <<>>]
      more(v)  == [n \in 1 .. Cardinality(hits(v)) |-> rec.id]
      all(v)   == old(v).ids \o more(v)
  IN  [ v \in DOMAIN m \cup { value(n) : n \in DOMAIN rec.iocs } |->
          IF hits(v) = {} THEN m[v]
          ELSE [count |-> old(v).count + Cardinality(hits(v)),
                first |-> old(v).first,
                last  |-> rec.time,
                ids   |-> SubSeq(all(v), 1, IF Len(all(v)) < RecordCap THEN Len(all(v)) ELSE RecordCap)] ]

-----------------------------------------------------------------------------
(* Processes.                                                               *)

Creations == {4688, 1}

\* LOLBINS, by base name in any case.
LolBins == {"mshta.exe"}

Process(rec) ==
  IF rec.eid = 4688
    THEN [time |-> rec.time, pid |-> Parsed(rec, "NewProcessId", 0),
          parent |-> Parsed(rec, "ProcessId", 0), image |-> TextOr(rec, "NewProcessName", "-")]
    ELSE [time |-> rec.time, pid |-> SysmonPid(rec, "ProcessId"),
          parent |-> SysmonPid(rec, "ParentProcessId"), image |-> TextOr(rec, "Image", "-")]

ProcessTree(s, rec) == IF IsEvent(rec, Creations) THEN Append(s, Process(rec)) ELSE s

ImageOf(rec) == Text(rec, IF rec.eid = 4688 THEN "NewProcessName" ELSE "Image")

Put(m, x, v) == [y \in DOMAIN m \cup {x} |-> IF y = x THEN v ELSE m[y]]

\* Mutant: the times are those of the first and the last record.
RareInOrder(m, rec) ==
  IF ~IsEvent(rec, Creations) \/ ImageOf(rec) = None THEN m
  ELSE LET old == IF ImageOf(rec) \in DOMAIN m THEN m[ImageOf(rec)]
                  ELSE [count |-> 0, first |-> rec.time, last |-> rec.time]
       IN  Put(m, ImageOf(rec), [count |-> old.count + 1, first |-> old.first, last |-> rec.time])

\* One without an image is not counted.
Rare(m, rec) ==
  IF ~IsEvent(rec, Creations) \/ ImageOf(rec) = None THEN m
  ELSE LET old == IF ImageOf(rec) \in DOMAIN m THEN m[ImageOf(rec)]
                  ELSE [count |-> 0, first |-> rec.time, last |-> rec.time]
       IN  Put(m, ImageOf(rec),
             [count |-> old.count + 1,
              first |-> IF TextKey(rec.time) < TextKey(old.first) THEN rec.time ELSE old.first,
              last  |-> IF TextKey(rec.time) > TextKey(old.last)  THEN rec.time ELSE old.last])

RareProcesses(m) == { image \in DOMAIN m : m[image].count < RareBelow }

-----------------------------------------------------------------------------
(* Script blocks: [id, path, parts], in the order in which they first occur.*)

Part(rec) == [n |-> Parsed(rec, "MessageNumber", 1), text |-> Text(rec, "ScriptBlockText")]

Blocks(s, rec) ==
  LET id    == Text(rec, "ScriptBlockId")
      known == { k \in DOMAIN s : s[k].id = id }
  IN  IF ~IsEvent(rec, {4104}) \/ id = None THEN s
      ELSE IF known = {} THEN Append(s, [id |-> id, path |-> Text(rec, "Path"), parts |-> <<Part(rec)>>])
      ELSE [k \in DOMAIN s |->
              IF k \notin known THEN s[k]
              ELSE [id |-> id, path |-> s[k].path, parts |-> Append(s[k].parts, Part(rec))]]

\* Mutant: the fragments are joined in the order of the log.
JoinedAsLogged(block) == [k \in DOMAIN block.parts |-> block.parts[k].text]

Joined(block) ==
  LET parts == SortedBy(block.parts, [k \in 1 .. Len(block.parts) |-> block.parts[k].n])
  IN  [k \in 1 .. Len(block.parts) |-> parts[k].text]

-----------------------------------------------------------------------------
(* The logon graph: counts of <<source, target, logon type>>.               *)

NoHost   == {None, "", "-"}
Loopback == {"::1", "127.0.0.1"}

\* Of a remote interactive logon the workstation is the target.
ResolveLogonSource(type, workstation, ip) ==
  IF type # 10 /\ workstation \notin NoHost THEN workstation
  ELSE IF ip \notin NoHost \cup Loopback THEN ip
  ELSE None

Source(rec) ==
  ResolveLogonSource(Parsed(rec, "LogonType", 0), Text(rec, "WorkstationName"), Text(rec, "IpAddress"))

LogonGraph(b, rec) ==
  IF ~IsEvent(rec, {4624}) \/ Source(rec) = None THEN b
  ELSE Counted(b, <<Source(rec), rec.host, Parsed(rec, "LogonType", 0)>>)

Nodes(b) == UNION { {e[1], e[2]} : e \in DOMAIN b }

-----------------------------------------------------------------------------
(* The typed events.                                                        *)

LateralMovement(rec) ==
  IF ~IsEvent(rec, {4648, 4769, 4776}) THEN <<>>
  ELSE << [time |-> rec.time, id |-> rec.id,
           by   |-> Text(rec, IF rec.eid = 4648 THEN "SubjectUserName" ELSE "TargetUserName"),
           onto |-> Text(rec, CASE rec.eid = 4648 -> "TargetServerName"
                                [] rec.eid = 4769 -> "ClientAddress"
                                [] OTHER          -> "Workstation"),
           tag  |-> IF rec.eid = 4769 THEN Text(rec, "TicketEncryptionType") ELSE None] >>

RdpSessions(rec) ==
  IF ~IsEvent(rec, {4778, 4779}) THEN <<>>
  ELSE << [time |-> rec.time, id |-> rec.id, by |-> Text(rec, "AccountName"),
           onto |-> Text(rec, "ClientAddress"), tag |-> None] >>

SmbAccess(rec) ==
  IF ~IsEvent(rec, {5140, 5145}) THEN <<>>
  ELSE << [time |-> rec.time, id |-> rec.id, by |-> Text(rec, "SubjectUserName"),
           onto |-> Text(rec, "ShareName"), tag |-> None] >>

\* Of any provider.
DefenderEvents(rec) ==
  IF ~IsEvent(rec, {1006, 1116, 1117}) THEN <<>>
  ELSE << [time |-> rec.time, id |-> rec.id, by |-> Text(rec, "Process Name"),
           onto |-> Text(rec, "Path"), tag |-> Text(rec, "Threat Name")] >>

\* Not one of extract_all's; Defender has events of this id too.
PartitionDiag(rec) ==
  IF ~IsEvent(rec, {1006}) \/ rec.provider # "Partition" THEN <<>>
  ELSE << [time |-> rec.time, id |-> rec.id, disk |-> Number(rec, "DiskNumber")] >>

\* Without EventData the first element of UserData is read in its place, and
\* without either the event is told with no names.
WmiEvents(rec) ==
  IF rec.eid \notin {5857, 5858, 5860, 5861, 19, 20, 21} THEN <<>>
  ELSE << [time |-> rec.time, id |-> rec.id,
           by   |-> TextOr(rec, "ESS", IF rec.eid \in {19, 21} THEN Text(rec, "Name") ELSE None),
           onto |-> TextOr(rec, "CONSUMER", IF rec.eid \in {20, 21} THEN Text(rec, "Name") ELSE None),
           tag  |-> None] >>

ScheduledTasks(rec) ==
  IF ~IsEvent(rec, {4698, 4702}) THEN <<>>
  ELSE << [time |-> rec.time, id |-> rec.id, by |-> Text(rec, "SubjectUserName"),
           onto |-> Text(rec, "TaskName"), tag |-> None] >>

ProcessCmdlines(rec) ==
  IF ~IsEvent(rec, Creations) THEN <<>>
  ELSE << [time |-> rec.time, id |-> rec.id, by |-> Process(rec).pid, onto |-> Process(rec).image,
           tag  |-> IF Process(rec).image \in LolBins THEN "lolbin" ELSE None] >>

Kinds == {"LateralMovement", "RdpSession", "SmbAccess", "Defender", "Wmi", "ScheduledTask",
          "ProcessExecution"}

Extracted(kind, rec) ==
  CASE kind = "LateralMovement" -> LateralMovement(rec)
    [] kind = "RdpSession"      -> RdpSessions(rec)
    [] kind = "SmbAccess"       -> SmbAccess(rec)
    [] kind = "Defender"        -> DefenderEvents(rec)
    [] kind = "Wmi"             -> WmiEvents(rec)
    [] kind = "ScheduledTask"   -> ScheduledTasks(rec)
    [] OTHER                    -> ProcessCmdlines(rec)

Found(e, rec) == [kind \in Kinds |-> e[kind] \o Extracted(kind, rec)]

Labelled(e, kind) ==
  [n \in 1 .. Len(e[kind]) |-> [time |-> e[kind][n].time, id |-> e[kind][n].id, kind |-> kind]]

\* The extractors are called in this order. sort_unstable: events of one time
\* may be in any order; here they are as they were found.
ExtractAll(e) ==
  ByText(Labelled(e, "LateralMovement") \o Labelled(e, "RdpSession") \o Labelled(e, "SmbAccess")
         \o Labelled(e, "Defender") \o Labelled(e, "Wmi") \o Labelled(e, "ScheduledTask")
         \o Labelled(e, "ProcessExecution"))

-----------------------------------------------------------------------------
(* The passes over the files.                                               *)

Nothing ==
  [timeline |-> <<>>, pivot |-> <<>>, search |-> <<>>, hunts |-> [n \in DOMAIN HuntIds |-> <<>>],
   freq |-> NoCounts, values |-> NoCounts, iocs |-> [v \in {} |-> v], tree |-> <<>>,
   rare |-> [v \in {} |-> v], blocks |-> <<>>, graph |-> NoCounts,
   events |-> [kind \in Kinds |-> <<>>], disks |-> <<>>]

Failed == [failed |-> TRUE]

Gathered(a, rec) ==
  [timeline |-> Timeline(a.timeline, rec), pivot |-> Pivot(a.pivot, rec),
   search |-> Search(a.search, rec), hunts |-> Hunts(a.hunts, rec),
   freq |-> Frequency(a.freq, rec), values |-> FieldValues(a.values, rec),
   iocs |-> Iocs(a.iocs, rec), tree |-> ProcessTree(a.tree, rec), rare |-> Rare(a.rare, rec),
   blocks |-> Blocks(a.blocks, rec), graph |-> LogonGraph(a.graph, rec),
   events |-> Found(a.events, rec), disks |-> a.disks \o PartitionDiag(rec)]

\* What the queries return, of what they have gathered.
Result(a) ==
  [failed |-> FALSE, timeline |-> ByText(a.timeline), pivot |-> a.pivot, search |-> a.search,
   hunts |-> a.hunts, freq |-> a.freq, anomalies |-> Anomalies(a.freq), values |-> a.values,
   iocs |-> a.iocs, tree |-> a.tree, rareness |-> a.rare,
   rare |-> [image \in RareProcesses(a.rare) |-> a.rare[image]],
   blocks |-> [k \in 1 .. Len(a.blocks) |->
                 [id |-> a.blocks[k].id, path |-> a.blocks[k].path,
                  parts |-> Len(a.blocks[k].parts), text |-> Joined(a.blocks[k])]],
   graph |-> a.graph, events |-> ExtractAll(a.events), disks |-> a.disks]

\* Mutant: an edge of several files has the count of one of them.
MergedOver(b, g) == [e \in DOMAIN b \cup DOMAIN g |-> IF e \in DOMAIN g THEN g[e] ELSE b[e]]

\* logon_graph_multi: the edges of one more file.
Merged(b, g) == [e \in DOMAIN b \cup DOMAIN g |-> CountOf(b, e) + CountOf(g, e)]

Reading == at <= Len(logs) /\ logs[at].opens

Read ==
  /\ Reading
  /\ nth <= Len(logs[at].records)
  /\ acc' = IF logs[at].records[nth].ok THEN Gathered(acc, logs[at].records[nth]) ELSE acc
  /\ nth' = nth + 1
  /\ UNCHANGED <<logs, at, results, graph, total>>

EndOfFile ==
  /\ Reading
  /\ nth > Len(logs[at].records)
  /\ results' = Append(results, Result(acc))
  /\ graph' = Merged(graph, acc.graph)
  /\ at' = at + 1 /\ nth' = 1 /\ acc' = Nothing
  /\ UNCHANGED <<logs, total>>

\* Every query returns the error, and logon_graph_multi passes over the file.
FileFails ==
  /\ at <= Len(logs)
  /\ ~logs[at].opens
  /\ results' = Append(results, Failed)
  /\ at' = at + 1
  /\ UNCHANGED <<logs, nth, acc, graph, total>>

Opened == { k \in 1 .. Len(results) : ~results[k].failed }

\* Mutant: an entry is looked for under its event id.
DiffByEvent(a, b) ==
  LET ids(s) == { s[n].eid : n \in 1 .. Len(s) }
  IN  [added   |-> Only(b, { n \in 1 .. Len(b) : b[n].eid \notin ids(a) }),
       removed |-> Only(a, { n \in 1 .. Len(a) : a[n].eid \notin ids(b) })]

Diff(a, b) ==
  LET ids(s) == { s[n].id : n \in 1 .. Len(s) }
  IN  [added   |-> Only(b, { n \in 1 .. Len(b) : b[n].id \notin ids(a) }),
       removed |-> Only(a, { n \in 1 .. Len(a) : a[n].id \notin ids(b) })]

Conclude ==
  /\ at > Len(logs)
  /\ total = <<>>
  /\ total' = <<[edges |-> graph, nodes |-> Nodes(graph),
               diff  |-> IF {1, 2} \subseteq Opened
                           THEN Diff(results[1].timeline, results[2].timeline) ELSE Failed]>>
  /\ UNCHANGED <<logs, at, nth, acc, results, graph>>

QueryInit ==
  /\ \E family \in DOMAIN Logs : logs \in Logs[family]
  /\ at = 1 /\ nth = 1
  /\ acc = Nothing
  /\ results = <<>>
  /\ graph = NoCounts
  /\ total = <<>>

QueryNext == Read \/ EndOfFile \/ FileFails \/ Conclude

QuerySpec == QueryInit /\ [][QueryNext]_qvars

-----------------------------------------------------------------------------
\* The records of a log that can be decoded, those before position m.
DecodedTo(log, m) == { n \in 1 .. m : log.records[n].ok }

Decoded(k) == DecodedTo(logs[k], Len(logs[k].records))

IsFragment(rec, id) == IsEvent(rec, {4104}) /\ Text(rec, "ScriptBlockId") = id

IsLogonOn(rec, edge) ==
  /\ IsEvent(rec, {4624}) /\ Source(rec) # None
  /\ edge = <<Source(rec), rec.host, Parsed(rec, "LogonType", 0)>>

InOrder(s) == \A m, n \in 1 .. Len(s) : m < n => s[m].time \div Second <= s[n].time \div Second

(* Sorting by the text of the timestamps puts events in the order of time  *)
(* to the second, though within a second it need not: a timeline and the   *)
(* events of extract_all never go back by a second, and have every record. *)
InTimeOrder ==
  \A k \in Opened :
    /\ InOrder(results[k].timeline) /\ InOrder(results[k].events)
    /\ Len(results[k].timeline) = Cardinality(Decoded(k))

(* A script is put together again, whatever the order its fragments were   *)
(* logged in and however they are mixed with those of others, if each was  *)
(* logged once and bears its number as text.                               *)
BlocksJoin ==
  \A k \in Opened : \A b \in 1 .. Len(results[k].blocks) :
    LET block  == results[k].blocks[b]
        frags  == { n \in Decoded(k) : IsFragment(logs[k].records[n], block.id) }
        fld(n) == logs[k].records[n].fields
        num(n) == fld(n)["MessageNumber"]
    IN  (/\ \A n \in frags : "MessageNumber" \in DOMAIN fld(n) /\ num(n).str
         /\ \A m, n \in frags : m # n => num(m).v # num(n).v)
        => /\ block.parts = Cardinality(frags)
           /\ \A n \in frags :
                block.text[1 + Cardinality({ m \in frags : num(m).v < num(n).v })]
                  = Text(logs[k].records[n], "ScriptBlockText")

(* The merged graph is that of all the logons that can be read, however    *)
(* they are spread over files and whichever files fail: each edge counts   *)
(* every one of its logons once.                                           *)
GraphAddsUp ==
  total # <<>> =>
    LET logons == UNION { {k} \X Decoded(k) : k \in Opened }
        rec(kn) == logs[kn[1]].records[kn[2]]
        edges   == total[1].edges
    IN  /\ \A e \in DOMAIN edges : edges[e] = Cardinality({ kn \in logons : IsLogonOn(rec(kn), e) })
        /\ \A kn \in logons : IsEvent(rec(kn), {4624}) /\ Source(rec(kn)) # None
             => \E e \in DOMAIN edges : IsLogonOn(rec(kn), e)

(* Three passes of their own tell of the same processes: the tree has a    *)
(* node for each command line, and an image was run as often, and first    *)
(* and last seen, as its nodes say, whatever the order of the records. Of  *)
(* "-" that need not be: it is a process without an image, too.            *)
ProcessesAgree ==
  \A k \in Opened :
    LET tree == results[k].tree
        of(image) == { n \in 1 .. Len(tree) : tree[n].image = image }
        rare == results[k].rareness
        ran  == { n \in 1 .. Len(results[k].events) : results[k].events[n].kind = "ProcessExecution" }
    IN  /\ Len(tree) = Cardinality(ran)
        /\ \A image \in DOMAIN rare \ {"-"} :
             /\ rare[image].count = Cardinality(of(image))
             /\ \A n \in of(image) : /\ TextKey(rare[image].first) <= TextKey(tree[n].time)
                                     /\ TextKey(tree[n].time) <= TextKey(rare[image].last)

(* No event id of n deviates by more than the square root of n - 1: a log  *)
(* with MinZ2 event ids or fewer has no anomaly, however lopsided it is.   *)
AnomaliesNeedIds ==
  \A k \in Opened :
    results[k].anomalies # {} => MinZ2 <= Cardinality(DOMAIN results[k].freq) - 1

(* If a log was edited, the difference tells it: when records keep their   *)
(* ids, what is added and removed are exactly the records of one log that  *)
(* the other does not have, in whatever order.                             *)
DiffTellsEdits ==
  total # <<>> /\ {1, 2} \subseteq Opened =>
    LET side(k) == Range(results[k].timeline)
    IN  (\A x, y \in side(1) \cup side(2) : x.id = y.id => x = y)
          => /\ Range(total[1].diff.added)   = side(2) \ side(1)
             /\ Range(total[1].diff.removed) = side(1) \ side(2)

=============================================================================
