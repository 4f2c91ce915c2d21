----------------------------- MODULE MC_LogQueries -----------------------------
(* Model checking of LogQueries on six families of logs: the fragments of   *)
(* scripts in any order, logons spread over two files, process creations of *)
(* both logs, pairs of the events hunted for, event ids in any numbers, and *)
(* a log and its edited copy.                                               *)
EXTENDS LogQueries, TLC, SequencesExt

CONSTANTS MaxTime, MaxCount

Str(v) == [str |-> TRUE, v |-> v]
Num(v) == [str |-> FALSE, v |-> v]

Record(id, time, eid, fields) ==
  [id |-> id, time |-> time, ok |-> TRUE, eid |-> eid, host |-> "srv", provider |-> "other",
   data |-> DOMAIN fields # {}, fields |-> fields, iocs |-> <<>>, says |-> "no"]

NoFields == [k \in {} |-> k]

File(records) == [opens |-> TRUE, records |-> records]
Broken        == [opens |-> FALSE, records |-> <<>>]

\* Record n of a file has n for its id, unless the ids matter.
Numbered(s) == [n \in DOMAIN s |-> [s[n] EXCEPT !.id = n]]

Fragment(script, n, number) ==
  Record(0, n, 4104, [ScriptBlockId |-> Str(script), ScriptBlockText |-> Str(<<script, n>>),
                      MessageNumber |-> number, Path |-> Str("p")])

Fragments(T(_)) ==
  << Fragment("a", 1, T(1)), Fragment("a", 2, T(2)), Fragment("a", 3, T(3)),
     Fragment("b", 1, T(1)), Fragment("b", 2, T(2)) >>

Scripts ==
  { << File(Numbered([n \in 1 .. 5 |-> s[p[n]]])) >> :
      p \in { q \in [1 .. 5 -> 1 .. 5] : \A m, n \in 1 .. 5 : q[m] = q[n] => m = n },
      s \in {Fragments(Str), Fragments(Num), [Fragments(Str) EXCEPT ![5] = Fragments(Str)[4]]} }

LogonOf(type, ws, ip) ==
  Record(0, 0, 4624, [LogonType |-> type, WorkstationName |-> Str(ws), IpAddress |-> Str(ip)])

LogonPool ==
  { LogonOf(Str(3), "w1", "10.0.0.1"), LogonOf(Str(3), "-", "10.0.0.1"), LogonOf(Str(3), "-", "::1"),
    LogonOf(Str(10), "srv", "10.0.0.1"), LogonOf(Num(10), "w1", "10.0.0.1"),
    [LogonOf(Str(3), "w1", "10.0.0.1") EXCEPT !.ok = FALSE] }

LogonFiles == {Broken} \cup { File(Numbered(s)) : s \in BoundedSeq(LogonPool, 2) }

Creation(eid, image, time) ==
  IF eid = 4688
    THEN Record(0, time, 4688, [NewProcessName |-> Str(image), NewProcessId |-> Str(7),
                                ProcessId |-> Str(6)])
    ELSE Record(0, time, 1, [Image |-> Str(image), ProcessId |-> Num(7), ParentProcessId |-> Num(6)])

Creations3 ==
  { << File(Numbered(s)) >> :
      s \in [1 .. 3 -> { Creation(eid, image, t) : eid \in {4688, 1},
                          image \in {"mshta.exe", "x.exe"}, t \in 0 .. MaxTime }] }

\* One without EventData for each id that may be told without it.
HuntPool ==
  { <<4769, "TicketEncryptionType" :> Str("RC4")>>, <<4769, "TicketEncryptionType" :> Num("RC4")>>,
    <<4768, "PreAuthType" :> Str("0")>>, <<4662, "AccessMask" :> Str("0x100")>>,
    <<5140, "ShareName" :> Str("ADMIN$")>>, <<5860, "Query" :> Str("q")>>, <<5861, NoFields>>,
    <<4698, "TaskName" :> Str("t")>>, <<4702, NoFields>>, <<10, "TargetImage" :> Str("lsass")>>,
    <<5001, NoFields>>, <<4648, "TargetServerName" :> Str("h")>>,
    <<4778, "AccountName" :> Str("u")>>, <<1006, "Path" :> Str("p")>>,
    <<1116, "Path" :> Str("p")>>, <<19, "Name" :> Str("n")>> }

Mixed ==
  { << File(<<[Record(1, s, x[1], x[2]) EXCEPT !.says = "plain", !.iocs = <<"i", "j", "i">>],
              [Record(2, t, y[1], y[2]) EXCEPT !.says = "other case", !.iocs = <<"i">>,
                                               !.provider = "Partition"]>>) >> :
      x \in HuntPool, y \in HuntPool, s \in 0 .. MaxTime, t \in 0 .. MaxTime }

Repeated(c) ==
  FlattenSeq([e \in DOMAIN c |-> [n \in 1 .. c[e] |-> Record(0, 0, e, NoFields)]])

Counts == { << File(Numbered(Repeated(c))) >> : c \in [1 .. 4 -> 0 .. MaxCount] }

DiffPool == { Record(n, n, 4624 + (n % 2), NoFields) : n \in 1 .. 4 }

Orders == { s \in BoundedSeq(DiffPool, 3) : \A m, n \in DOMAIN s : m # n => s[m] # s[n] }

Edits == { <<File(a), File(b)>> : a \in Orders, b \in Orders }

MCLogs == <<Scripts, LogonFiles \X LogonFiles, Creations3, Mixed, Counts, Edits>>
=============================================================================
