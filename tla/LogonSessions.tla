---------------------------- MODULE LogonSessions ----------------------------
(***************************************************************************)
(* winevt-extract: logon events (4624) and logoff events (4634, 4647) are  *)
(* paired into sessions by the LUID in their TargetLogonId field.          *)
(*   "single"  sessions: one file, its events in file order;               *)
(*   "multi"   sessions_multi: the events of all readable files, sorted by *)
(*             the text of their timestamps.                               *)
(*                                                                         *)
(* The user name, address etc. of a session are copied from its logon      *)
(* event; here the position of that event stands for them.                 *)
(***************************************************************************)
EXTENDS Ordering, Timestamps

CONSTANTS
  Luids,     \* logon ids
  Missing,   \* the field is absent from the event
  Dash,      \* "-", the key under which a logon without the field is filed
  Times,     \* timestamps, in ticks
  MaxFiles,
  MaxEvents  \* in a file

ASSUME SessionAssumption ==
  /\ Missing \notin Luids
  /\ Missing # Dash
  /\ Dash \notin Luids
  /\ Times \subseteq Nat
  /\ MaxFiles \in Nat
  /\ MaxEvents \in Nat

\* Any other event, and a record that cannot be decoded, is "other".
Events == [kind : {"logon", "logoff", "other"}, luid : Luids \cup {Missing},
           data : BOOLEAN,  \* it has an EventData element
           time : Times]

Never == -1  \* logoff_time of a session without logoff

VARIABLES
  mode,     \* "single" or "multi"
  files,    \* the paths given: whether each opens, and its events
  phase,    \* "collect", "pair", "drain", "done" or "failed"
  f,        \* the next path
  raw,      \* the events to be paired: all_raw, or the file itself
  next,     \* the next of them, then the next id of order to be drained
  open,     \* sessions without logoff, by LUID
  order,    \* insertion_order
  closed    \* completed sessions, in the end the result

input == <<mode, files>>
vars  == <<mode, files, phase, f, raw, next, open, order, closed>>

EmptyMap == [l \in {} |-> l]

With(m, l, s) == [x \in DOMAIN m \cup {l} |-> IF x = l THEN s ELSE m[x]]
Without(m, l) == [x \in DOMAIN m \ {l} |-> m[x]]

-----------------------------------------------------------------------------
(* Collecting.                                                              *)

IsLogonEvent(e) == e.kind # "other"

LogonEvents(events) == Only(events, { m \in 1 .. Len(events) : IsLogonEvent(events[m]) })

SkipFile ==
  /\ phase = "collect"
  /\ f <= Len(files)
  /\ ~files[f].opens
  /\ f' = f + 1
  /\ UNCHANGED <<input, phase, raw, next, open, order, closed>>

\* Mutant: each file replaces what was read before.
ReadFileOver ==
  /\ phase = "collect"
  /\ f <= Len(files)
  /\ files[f].opens
  /\ f' = f + 1
  /\ raw' = LogonEvents(files[f].events)
  /\ UNCHANGED <<input, phase, next, open, order, closed>>

ReadFile ==
  /\ phase = "collect"
  /\ f <= Len(files)
  /\ files[f].opens
  /\ f' = f + 1
  /\ raw' = raw \o IF mode = "multi" THEN LogonEvents(files[f].events)
                   ELSE files[f].events
  /\ UNCHANGED <<input, phase, next, open, order, closed>>

\* Mutant: no sort.
Unsorted(s) == s

\* sort_by is stable.
SortedByText(s) == SortedBy(s, [k \in 1 .. Len(s) |-> TextKey(s[k].time)])

AnyOpened == \E k \in 1 .. Len(files) : files[k].opens

Collected ==
  /\ phase = "collect"
  /\ f > Len(files)
  /\ AnyOpened \/ (mode = "multi" /\ files = <<>>)
  /\ raw' = IF mode = "multi" THEN SortedByText(raw) ELSE raw
  /\ phase' = "pair"
  /\ UNCHANGED <<input, f, next, open, order, closed>>

Fail ==
  /\ phase = "collect"
  /\ f > Len(files)
  /\ files # <<>>
  /\ ~AnyOpened
  /\ phase' = "failed"
  /\ UNCHANGED <<input, f, raw, next, open, order, closed>>

-----------------------------------------------------------------------------
(* Pairing.                                                                 *)

Pairing == phase = "pair" /\ next <= Len(raw)

Usable(k, kind) == raw[k].kind = kind /\ raw[k].data

KeyOf(e) == IF e.luid = Missing THEN Dash ELSE e.luid

SessionAt(k) == [luid |-> KeyOf(raw[k]), from |-> k, logon |-> raw[k].time, logoff |-> Never]

\* A logon replaces a session that is still open under the same LUID.
Logon ==
  /\ Pairing
  /\ Usable(next, "logon")
  /\ LET l == KeyOf(raw[next])
     IN  /\ order' = IF l \in DOMAIN open THEN order ELSE Append(order, l)
         /\ open' = With(open, l, SessionAt(next))
  /\ next' = next + 1
  /\ UNCHANGED <<input, phase, f, raw, closed>>

\* Mutant: a logoff looks the session up and leaves it open.
LogoffKeeping ==
  /\ Pairing
  /\ Usable(next, "logoff")
  /\ LET l == raw[next].luid
     IN  /\ l \in DOMAIN open
         /\ closed' = Append(closed, [open[l] EXCEPT !.logoff = raw[next].time])
  /\ next' = next + 1
  /\ UNCHANGED <<input, phase, f, raw, open, order>>

Logoff ==
  /\ Pairing
  /\ Usable(next, "logoff")
  /\ LET l == raw[next].luid
     IN  /\ l \in DOMAIN open
         /\ closed' = Append(closed, [open[l] EXCEPT !.logoff = raw[next].time])
         /\ open' = Without(open, l)
         /\ order' = Only(order, { k \in 1 .. Len(order) : order[k] # l })
  /\ next' = next + 1
  /\ UNCHANGED <<input, phase, f, raw>>

PassOver ==
  /\ Pairing
  /\ ~Usable(next, "logon")
  /\ ~(Usable(next, "logoff") /\ raw[next].luid \in DOMAIN open)
  /\ next' = next + 1
  /\ UNCHANGED <<input, phase, f, raw, open, order, closed>>

StartDrain ==
  /\ phase = "pair"
  /\ next > Len(raw)
  /\ phase' = "drain"
  /\ next' = 1
  /\ UNCHANGED <<input, f, raw, open, order, closed>>

\* Sessions still open follow, by the age of their LUID.
Drain ==
  /\ phase = "drain"
  /\ next <= Len(order)
  /\ LET l == order[next]
     IN  /\ closed' = IF l \in DOMAIN open THEN Append(closed, open[l]) ELSE closed
         /\ open' = Without(open, l)
  /\ next' = next + 1
  /\ UNCHANGED <<input, phase, f, raw, order>>

Finish ==
  /\ phase = "drain"
  /\ next > Len(order)
  /\ phase' = "done"
  /\ UNCHANGED <<input, f, raw, next, open, order, closed>>

-----------------------------------------------------------------------------
EventLists == UNION { [1 .. k -> Events] : k \in 0 .. MaxEvents }
Files      == [opens : BOOLEAN, events : EventLists]

Init ==
  /\ mode \in {"single", "multi"}
  /\ files \in UNION { [1 .. k -> Files] : k \in IF mode = "single" THEN {1} ELSE 0 .. MaxFiles }
  /\ phase = "collect"
  /\ f = 1
  /\ raw = <<>>
  /\ next = 1
  /\ open = EmptyMap
  /\ order = <<>>
  /\ closed = <<>>

Next == SkipFile \/ ReadFile \/ Collected \/ Fail \/ Logon \/ Logoff \/ PassOver
          \/ StartDrain \/ Drain \/ Finish

\* One thread, bounded loops.
Spec == Init /\ [][Next]_vars /\ WF_vars(Next)

-----------------------------------------------------------------------------
\* k and l: events under one LUID, k before l.
SameLuid(k, l) == k < l /\ KeyOf(raw[k]) = KeyOf(raw[l]) /\ raw[l].luid # Missing

EndOf(k) == { l \in 1 .. Len(raw) : Usable(l, "logoff") /\ SameLuid(k, l) }

First(S) == CHOOSE x \in S : \A y \in S : x <= y

\* Another logon under its LUID comes before any logoff.
Superseded(k) ==
  \E l \in 1 .. Len(raw) :
    /\ Usable(l, "logon")
    /\ k < l /\ KeyOf(raw[k]) = KeyOf(raw[l])
    /\ \A e \in EndOf(k) : l < e

Expected ==
  { [SessionAt(k) EXCEPT !.logoff = IF EndOf(k) = {} THEN Never
                                    ELSE raw[First(EndOf(k))].time] :
      k \in { j \in 1 .. Len(raw) : Usable(j, "logon") /\ ~Superseded(j) } }

(* The sessions reported are exactly these: one for each logon that no     *)
(* other logon under its LUID follows before a logoff, ended by the first  *)
(* logoff under its LUID behind it.  None is reported twice.               *)
SessionsAreRight ==
  phase = "done" =>
    /\ { closed[k] : k \in 1 .. Len(closed) } = Expected
    /\ Len(closed) = Cardinality(Expected)

(* Every logon event of a file that opens is paired, and no event is       *)
(* paired twice, whichever other files fail to open.                       *)
NothingLostInMerge ==
  phase \in {"pair", "drain", "done"} =>
    \A e \in { ev \in UNION { { files[k].events[m] : m \in 1 .. Len(files[k].events) } :
                                k \in 1 .. Len(files) } : IsLogonEvent(ev) } :
      Cardinality({ k \in 1 .. Len(raw) : raw[k] = e })
        = Cardinality({ km \in (1 .. Len(files)) \X (1 .. MaxEvents) :
                          /\ files[km[1]].opens
                          /\ km[2] <= Len(files[km[1]].events)
                          /\ files[km[1]].events[km[2]] = e })

(* A logon in one file and its logoff in another are paired, in whatever   *)
(* order the paths are given, when they are the only events of their LUID  *)
(* and lie in different seconds.                                           *)
PairedAcrossFiles ==
  mode = "multi" /\ phase = "done" =>
    \A l \in Luids, a, b \in 1 .. Len(raw) :
      /\ Usable(a, "logon") /\ Usable(b, "logoff")
      /\ raw[a].time \div Second < raw[b].time \div Second
      /\ \A k \in 1 .. Len(raw) : raw[k].luid = l <=> k \in {a, b}
      => \E s \in 1 .. Len(closed) :
           /\ closed[s].luid = l
           /\ closed[s].logon = raw[a].time /\ closed[s].logoff = raw[b].time
=============================================================================
