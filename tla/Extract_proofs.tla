---------------------------- MODULE Extract_proofs ----------------------------
(***************************************************************************)
(* winevt-extract.  First the logon sessions: what the pairing of logons   *)
(* and logoffs has reported before an event, as a function of the events   *)
(* alone; the merge of the files; the invariants.  Then the other queries: *)
(* what each pass has gathered of a file before a record, what it returns, *)
(* and what is merged of the files.  Last winevt-manifest, which names the *)
(* fields of the events.                                                   *)
(***************************************************************************)
EXTENDS LogonSessions, LogQueries, ManifestDb, CommonLemmas

\* A LUID, or the key of those that have none.
Keys == Luids \cup {Dash}

IsLogon(s, k) == s[k].kind = "logon" /\ s[k].data

\* l is another logon under the LUID of k.
Again(s, k, l) == IsLogon(s, l) /\ k < l /\ KeyOf(s[k]) = KeyOf(s[l])

\* The logoffs under the LUID of k behind it.
Ends(s, k) ==
  { l \in 1 .. Len(s) : /\ s[l].kind = "logoff" /\ s[l].data
                        /\ k < l /\ KeyOf(s[k]) = KeyOf(s[l]) /\ s[l].luid # Missing }

\* The logons before n that nothing under their LUID follows before n.
Live(s, n) ==
  { k \in 1 .. Len(s) : /\ k < n /\ IsLogon(s, k)
                        /\ \A l \in 1 .. Len(s) : k < l /\ l < n => ~Again(s, k, l) /\ l \notin Ends(s, k) }

\* The logons whose session a logoff before n has ended.
Ended(s, n) ==
  { k \in 1 .. Len(s) : \E e \in Ends(s, k) : e < n /\ k \in Live(s, e) }

OpenSession(s, k) == [luid |-> KeyOf(s[k]), from |-> k, logon |-> s[k].time, logoff |-> Never]

WholeSession(s, k) ==
  [OpenSession(s, k) EXCEPT !.logoff = IF Ends(s, k) = {} THEN Never ELSE s[First(Ends(s, k))].time]

Sessions == [luid : Keys, from : Nat, logon : Times, logoff : Times \cup {Never}]

-----------------------------------------------------------------------------
(* Sessions of a list of events. *)

(* The first of a set of positions. *)
LEMMA FirstIsLeast ==
  ASSUME NEW S, S \subseteq Nat, NEW x \in S, \A y \in S : x <= y
  PROVE  First(S) = x
<1>1. First(S) \in S /\ \A y \in S : First(S) <= y
  BY DEF First
<1>2. First(S) \in Nat /\ x \in Nat /\ First(S) <= x /\ x <= First(S)
  BY <1>1
<1>. QED  BY <1>2

(* One event later, a logon is added and those it or a logoff follows are  *)
(* gone. *)
LEMMA LiveNext ==
  ASSUME NEW s \in Seq(Events), NEW n \in 1 .. Len(s)
  PROVE  Live(s, n + 1) = { k \in Live(s, n) : ~Again(s, k, n) /\ n \notin Ends(s, k) }
                            \cup { k \in {n} : IsLogon(s, n) }
<1>1. Len(s) \in Nat
  BY LenProperties
<1>2. \A k, l \in 1 .. Len(s) : l \in Ends(s, k) => k < l
  BY DEF Ends
<1>. QED  BY <1>1, <1>2 DEF Live, Again

(* The sessions that end there are those of the live logons it ends. *)
LEMMA EndedNext ==
  ASSUME NEW s \in Seq(Events), NEW n \in 1 .. Len(s)
  PROVE  Ended(s, n + 1) = Ended(s, n) \cup { k \in Live(s, n) : n \in Ends(s, k) }
<1>1. Len(s) \in Nat
  BY LenProperties
<1>2. \A k \in 1 .. Len(s) : \A e \in Ends(s, k) : e \in Int /\ (e < n + 1 <=> e < n \/ e = n)
  BY <1>1 DEF Ends
<1>3. \A k \in Live(s, n) : k \in 1 .. Len(s)
  BY DEF Live
<1>. QED  BY <1>2, <1>3 DEF Ended

(* Nothing is live or ended before the first event. *)
LEMMA NothingYet ==
  ASSUME NEW s \in Seq(Events)
  PROVE  Live(s, 1) = {} /\ Ended(s, 1) = {}
<1>1. Len(s) \in Nat
  BY LenProperties
<1>. QED  BY <1>1 DEF Live, Ended, Ends

(* No session is both, *)
LEMMA LiveOrEnded ==
  ASSUME NEW s \in Seq(Events), NEW n \in Nat, NEW k \in Live(s, n)
  PROVE  k \notin Ended(s, n)
<1>1. Len(s) \in Nat
  BY LenProperties
<1>. QED  BY <1>1 DEF Live, Ended, Ends

(* and no two live logons have one LUID. *)
LEMMA LiveKeys ==
  ASSUME NEW s \in Seq(Events), NEW n \in Nat, NEW k \in Live(s, n), NEW m \in Live(s, n),
         KeyOf(s[k]) = KeyOf(s[m])
  PROVE  k = m
<1>1. Len(s) \in Nat
  BY LenProperties
<1>. QED  BY <1>1 DEF Live, Again

(* A live logon has, before n, no logoff. *)
LEMMA EndIsFirst ==
  ASSUME NEW s \in Seq(Events), NEW k \in 1 .. Len(s), NEW e \in Ends(s, k), k \in Live(s, e)
  PROVE  WholeSession(s, k) = [OpenSession(s, k) EXCEPT !.logoff = s[e].time]
<1>1. Len(s) \in Nat /\ Ends(s, k) \subseteq 1 .. Len(s) /\ Ends(s, k) \subseteq Nat
  BY LenProperties DEF Ends
<1>2. \A l \in Ends(s, k) : e <= l
  <2> SUFFICES ASSUME NEW l \in Ends(s, k), l < e PROVE FALSE
    BY <1>1
  <2>1. k < l
    BY DEF Ends
  <2>. QED  BY <1>1, <2>1 DEF Live
<1>3. First(Ends(s, k)) = e
  BY <1>1, <1>2, FirstIsLeast
<1>. QED  BY <1>3 DEF WholeSession

(* In the end, live and ended are the logons that no other supersedes. *)
LEMMA InTheEnd ==
  ASSUME NEW s \in Seq(Events), NEW k \in 1 .. Len(s), IsLogon(s, k)
  PROVE  (\E l \in 1 .. Len(s) : Again(s, k, l) /\ \A e \in Ends(s, k) : l < e)
           <=> k \notin Live(s, Len(s) + 1) \cup Ended(s, Len(s) + 1)
<1>1. Len(s) \in Nat /\ Ends(s, k) \subseteq 1 .. Len(s) /\ Ends(s, k) \subseteq Nat
  BY LenProperties DEF Ends
<1>2. CASE Ends(s, k) = {}
  <2>1. k \in Live(s, Len(s) + 1) <=> \A l \in 1 .. Len(s) : k < l => ~Again(s, k, l)
    BY <1>1, <1>2 DEF Live
  <2>2. k \notin Ended(s, Len(s) + 1)
    BY <1>2 DEF Ended
  <2>. QED  BY <1>2, <2>1, <2>2 DEF Again
<1>3. CASE Ends(s, k) # {}
  <2>1. PICK e \in Ends(s, k) : \A d \in Ends(s, k) : e <= d
    BY <1>1, <1>3, LeastNat
  <2>2. e \in 1 .. Len(s) /\ k < e
    BY <1>1 DEF Ends
  <2>3. k \notin Live(s, Len(s) + 1)
    BY <1>1, <2>2 DEF Live
  <2>4. k \in Ended(s, Len(s) + 1) <=> k \in Live(s, e)
    <3>1. k \in Live(s, e) => k \in Ended(s, Len(s) + 1)
      BY <1>1, <2>2 DEF Ended
    <3>2. ASSUME NEW d \in Ends(s, k), k \in Live(s, d) PROVE k \in Live(s, e)
      <4>1. d = e \/ e < d
        BY <1>1, <2>1
      <4>. QED  BY <2>2, <3>2, <4>1 DEF Live
    <3>. QED  BY <3>1, <3>2 DEF Ended
  <2>5. k \in Live(s, e) <=> \A l \in 1 .. Len(s) : k < l /\ l < e => ~Again(s, k, l)
    BY <1>1, <2>1, <2>2 DEF Live
  <2>6. \A l \in 1 .. Len(s) : l < e <=> \A d \in Ends(s, k) : l < d
    BY <1>1, <2>1
  <2>. QED  BY <2>3, <2>4, <2>5, <2>6 DEF Again
<1>. QED  BY <1>2, <1>3

-----------------------------------------------------------------------------
(* The state. *)

TypeInv ==
  /\ mode \in {"single", "multi"}
  /\ files \in Seq(Files)
  /\ phase \in {"collect", "pair", "drain", "done", "failed"}
  /\ f \in 1 .. Len(files) + 1
  /\ raw \in Seq(Events)
  /\ next \in Nat
  /\ DOMAIN open \subseteq Keys
  /\ open \in [DOMAIN open -> Sessions]
  /\ order \in Seq(Keys)
  /\ closed \in Seq(Sessions)

\* The event before which everything is done.
Horizon == IF phase = "pair" THEN next ELSE Len(raw) + 1

\* The logons whose sessions are in closed.
Reported ==
  Ended(raw, Horizon) \cup { k \in Live(raw, Horizon) : KeyOf(raw[k]) \notin DOMAIN open }

BeforePairing == open = EmptyMap /\ order = <<>> /\ closed = <<>> /\ next = 1

OpenIsLive ==
  \A l \in DOMAIN open : \E k \in Live(raw, Horizon) : KeyOf(raw[k]) = l /\ open[l] = OpenSession(raw, k)

ClosedIsReported ==
  /\ \A i \in 1 .. Len(closed) : closed[i].from \in Reported /\ closed[i] = WholeSession(raw, closed[i].from)
  /\ \A k \in Reported : \E i \in 1 .. Len(closed) : closed[i].from = k
  /\ \A i, j \in 1 .. Len(closed) : closed[i].from = closed[j].from => i = j

OrderIsOnce == \A i, j \in 1 .. Len(order) : order[i] = order[j] => i = j

WhilePairing ==
  /\ next \in 1 .. Len(raw) + 1
  /\ \A i \in 1 .. Len(order) : order[i] \in DOMAIN open
  /\ \A l \in DOMAIN open : \E i \in 1 .. Len(order) : order[i] = l
  /\ \A k \in Live(raw, next) : KeyOf(raw[k]) \in DOMAIN open

WhileDraining ==
  /\ next \in 1 .. Len(order) + 1
  /\ \A l \in DOMAIN open : \E i \in next .. Len(order) : order[i] = l

(* Type correctness, and what has been reported by now. *)
PairingInv ==
  /\ TypeInv
  /\ phase \in {"collect", "failed"} => BeforePairing
  /\ phase \in {"pair", "drain", "done"} => OpenIsLive /\ ClosedIsReported /\ OrderIsOnce
  /\ phase = "pair" => WhilePairing
  /\ phase = "drain" => WhileDraining
  /\ phase = "done" => DOMAIN open = {}

(* A LUID the event has is a LUID. *)
LEMMA KeyIsKey ==
  ASSUME NEW e \in Events
  PROVE  KeyOf(e) \in Keys /\ e.time \in Times /\ (e.luid # Missing => KeyOf(e) = e.luid /\ e.luid \in Luids)
BY DEF KeyOf, Keys, Events

(* The sessions of a list of events. *)
LEMMA SessionIsSession ==
  ASSUME NEW s \in Seq(Events), NEW k \in 1 .. Len(s)
  PROVE  /\ OpenSession(s, k) \in Sessions /\ OpenSession(s, k).from = k /\ OpenSession(s, k).logoff = Never
         /\ WholeSession(s, k) \in Sessions /\ WholeSession(s, k).from = k
         /\ Ends(s, k) = {} => WholeSession(s, k) = OpenSession(s, k)
<1>1. s[k] \in Events /\ Len(s) \in Nat
  BY LenProperties
<1>2. OpenSession(s, k) \in Sessions
  BY <1>1, KeyIsKey DEF OpenSession, Sessions
<1>3. (IF Ends(s, k) = {} THEN Never ELSE s[First(Ends(s, k))].time) \in Times \cup {Never}
  <2>1. CASE Ends(s, k) # {}
    <3>1. Ends(s, k) \subseteq 1 .. Len(s) /\ Ends(s, k) \subseteq Nat
      BY <1>1 DEF Ends
    <3>2. PICK x \in Ends(s, k) : \A y \in Ends(s, k) : x <= y
      BY <2>1, <3>1, LeastNat
    <3>3. First(Ends(s, k)) = x
      BY <3>1, <3>2, FirstIsLeast
    <3>4. s[x] \in Events
      BY <3>1, <3>2
    <3>. QED  BY <2>1, <3>3, <3>4, KeyIsKey
  <2>. QED  BY <2>1
<1>4. WholeSession(s, k) \in Sessions
  BY <1>2, <1>3 DEF WholeSession, Sessions
<1>. QED  BY <1>2, <1>4 DEF WholeSession, OpenSession

(* Nothing to report. *)
LEMMA ClosedStays ==
  ASSUME ClosedIsReported, raw' = raw, closed' = closed, Reported' = Reported
  PROVE  ClosedIsReported'
BY Zenon DEF ClosedIsReported

(* One more session to report. *)
LEMMA ClosedGrows ==
  ASSUME TypeInv, ClosedIsReported, NEW k \in 1 .. Len(raw), k \notin Reported,
         raw' = raw, closed' = Append(closed, WholeSession(raw, k)), Reported' = Reported \cup {k}
  PROVE  ClosedIsReported'
<1> DEFINE n == Len(closed)
<1>1. closed \in Seq(Sessions) /\ raw \in Seq(Events)
  BY DEF TypeInv
<1>2. WholeSession(raw, k) \in Sessions /\ WholeSession(raw, k).from = k
  BY <1>1, SessionIsSession
<1>3. /\ n \in Nat /\ Len(closed') = n + 1
      /\ \A i \in 1 .. n : closed'[i] = closed[i]
      /\ closed'[n + 1] = WholeSession(raw, k)
  BY <1>1, <1>2, AppendProperties, LenProperties
<1>4. \A i \in 1 .. Len(closed') : (i \in 1 .. n) \/ i = n + 1
  BY <1>3
<1>. HIDE DEF n
<1>5. ASSUME NEW i \in 1 .. Len(closed')
      PROVE  closed'[i].from \in Reported' /\ closed'[i] = WholeSession(raw', closed'[i].from)
  <2>1. CASE i \in 1 .. n
    BY <1>3, <2>1 DEF ClosedIsReported, n
  <2>2. CASE i = n + 1
    BY <1>2, <1>3, <2>2
  <2>. QED  BY <1>4, <2>1, <2>2
<1>6. ASSUME NEW m \in Reported' PROVE \E i \in 1 .. Len(closed') : closed'[i].from = m
  <2>1. CASE m \in Reported
    <3>1. PICK i \in 1 .. n : closed[i].from = m
      BY <2>1 DEF ClosedIsReported, n
    <3>. QED  BY <1>3, <3>1
  <2>2. CASE m = k
    BY <1>2, <1>3, <2>2
  <2>. QED  BY <2>1, <2>2
<1>7. \A i \in 1 .. n : closed'[i].from \in Reported /\ closed'[i].from # k
  BY <1>3 DEF ClosedIsReported, n
<1>8. ASSUME NEW i \in 1 .. Len(closed'), NEW j \in 1 .. Len(closed'), closed'[i].from = closed'[j].from
      PROVE  i = j
  <2>1. CASE i \in 1 .. n /\ j \in 1 .. n
    BY <1>3, <1>8, <2>1 DEF ClosedIsReported, n
  <2>2. CASE i = n + 1 \/ j = n + 1
    BY <1>2, <1>3, <1>4, <1>7, <1>8, <2>2
  <2>. QED  BY <1>4, <2>1, <2>2
<1>. QED  BY <1>5, <1>6, <1>8 DEF ClosedIsReported

-----------------------------------------------------------------------------
(* The steps. *)

LEMMA Lists ==
  /\ EventLists \subseteq Seq(Events)
  /\ \A e \in EventLists : Len(e) \in 0 .. MaxEvents
  /\ \A n \in Nat : [1 .. n -> Files] \subseteq Seq(Files)
<1>1. MaxEvents \in Nat
  BY SessionAssumption
<1>2. ASSUME NEW e \in EventLists PROVE e \in Seq(Events) /\ Len(e) \in 0 .. MaxEvents
  <2>1. PICK k \in 0 .. MaxEvents : e \in [1 .. k -> Events]
    BY DEF EventLists
  <2>2. k \in Nat
    BY <1>1
  <2>3. e \in Seq(Events)
    BY <2>1, <2>2, SeqDef
  <2>4. Len(e) = k
    BY <2>1, <2>2, <2>3, LenProperties
  <2>. QED  BY <2>3, <2>4
<1>. QED  BY <1>2, SeqDef

LEMMA PairingInit ==
  ASSUME Init
  PROVE  PairingInv
<1>1. files \in Seq(Files)
  <2>1. PICK k \in Nat : files \in [1 .. k -> Files]
    BY SessionAssumption DEF Init
  <2>. QED  BY <2>1, Lists
<1>2. TypeInv
  BY <1>1, LenProperties, EmptySeq DEF Init, TypeInv, EmptyMap
<1>. QED  BY <1>2 DEF Init, PairingInv, BeforePairing

(* A file is passed over or read. *)
LEMMA CollectKeeps ==
  ASSUME PairingInv, SkipFile \/ ReadFile
  PROVE  PairingInv'
<1>1. TypeInv /\ BeforePairing /\ phase = "collect" /\ phase' = "collect"
  BY DEF PairingInv, SkipFile, ReadFile
<1>2. UNCHANGED <<input, next, open, order, closed>> /\ f' = f + 1 /\ f \in 1 .. Len(files)
  BY <1>1 DEF SkipFile, ReadFile, TypeInv
<1>3. raw' \in Seq(Events)
  <2>1. CASE SkipFile
    BY <1>1, <2>1 DEF SkipFile, TypeInv
  <2>2. CASE ReadFile
    <3>1. files[f].events \in Seq(Events)
      <4>1. files[f] \in Files
        BY <1>1, <1>2 DEF TypeInv
      <4>. QED  BY <4>1, Lists DEF Files
    <3>2. LogonEvents(files[f].events) \in Seq(Events)
      BY <3>1, OnlyInOrder DEF LogonEvents
    <3>. QED  BY <1>1, <2>2, <3>1, <3>2, ConcatProperties DEF ReadFile, TypeInv
  <2>. QED  BY <2>1, <2>2
<1>4. TypeInv'
  BY <1>1, <1>2, <1>3, LenProperties DEF TypeInv, input
<1>5. BeforePairing'
  BY <1>1, <1>2 DEF BeforePairing
<1>. QED  BY <1>1, <1>4, <1>5 DEF PairingInv

(* The last unit of a time is a unit, of which the time is a multiple. *)
LEMMA LastUnitTyped ==
  ASSUME NEW t \in Nat
  PROVE  LastUnit(t) \in 1 .. Second /\ t % LastUnit(t) = 0 /\ Second % LastUnit(t) = 0
<1>1. /\ Second \in Nat /\ Units \subseteq 1 .. Second /\ 1 \in Units
      /\ \A u \in Units : Second % u = 0
  BY SecondAssumption, UnitsAssumption
<1>2. \E u \in Units : t % u = 0 /\ \A w \in Units : t % w = 0 => w <= u
  BY <1>1, GreatestDivisor
<1>3. LastUnit(t) \in Units /\ t % LastUnit(t) = 0
  BY <1>2 DEF LastUnit
<1>. QED  BY <1>1, <1>3

LEMMA TextKeyTyped ==
  ASSUME NEW t \in Nat
  PROVE  TextKey(t) \in Nat
<1>1. Second \in Nat /\ LastUnit(t) \in 1 .. Second
  BY LastUnitTyped, SecondAssumption
<1> DEFINE x == t + LastUnit(t)
           n == Second + 1
<1>2. x \in Nat /\ n \in Nat /\ LastUnit(t) \in Nat
  BY <1>1
<1>3. TextKey(t) = x * n + LastUnit(t)
  BY DEF TextKey
<1>. HIDE DEF x, n
<1>4. x * n \in Nat
  BY <1>2
<1>. QED  BY <1>2, <1>3, <1>4

(* Sorting keeps the events. *)
LEMMA SortedByTextIsSorted ==
  ASSUME NEW s \in Seq(Events)
  PROVE  /\ SortedByText(s) \in Seq(Events) /\ Len(SortedByText(s)) = Len(s)
         /\ \A q, r \in 1 .. Len(s) :
              q < r => TextKey(SortedByText(s)[q].time) <= TextKey(SortedByText(s)[r].time)
         /\ \A e : Occurrences(SortedByText(s), e) = Occurrences(s, e)
<1> DEFINE key == [k \in 1 .. Len(s) |-> TextKey(s[k].time)]
<1>1. \A k \in 1 .. Len(s) : TextKey(s[k].time) \in Int
  <2>1. ASSUME NEW k \in 1 .. Len(s) PROVE TextKey(s[k].time) \in Int
    <3>0. s[k] \in Events
      OBVIOUS
    <3>1. s[k].time \in Nat
      BY <3>0, SessionAssumption, KeyIsKey
    <3>2. TextKey(s[k].time) \in Nat
      BY <3>1, TextKeyTyped
    <3>. QED  BY <3>2
  <2>. QED  BY <2>1
<1>2. key \in [1 .. Len(s) -> Int]
  BY <1>1
<1>3. SortedByText(s) = SortedBy(s, key)
  BY DEF SortedByText
<1>4. \A k \in 1 .. Len(s) : key[k] = TextKey(s[k].time)
  OBVIOUS
<1>. HIDE DEF key
<1>5. PICK a \in Bijection(1 .. Len(s), 1 .. Len(s)) :
        /\ \A r \in 1 .. Len(s) : SortedBy(s, key)[r] = s[a[r]]
        /\ \A q, r \in 1 .. Len(s) : q < r => key[a[q]] <= key[a[r]]
  BY <1>2, SortedInOrder
<1>6. \A r \in 1 .. Len(s) : a[r] \in 1 .. Len(s)
  BY DEF Bijection, Injection
<1>7. \A q, r \in 1 .. Len(s) :
        q < r => TextKey(SortedByText(s)[q].time) <= TextKey(SortedByText(s)[r].time)
  BY <1>3, <1>4, <1>5, <1>6
<1>8. \A e : Occurrences(SortedByText(s), e) = Occurrences(s, e)
  BY <1>2, <1>3, SortedOccurs
<1>9. SortedByText(s) \in Seq(Events) /\ Len(SortedByText(s)) = Len(s)
  BY <1>2, <1>3, SortedInOrder
<1>. QED  BY <1>7, <1>8, <1>9

LEMMA CollectedKeeps ==
  ASSUME PairingInv, Collected
  PROVE  PairingInv'
<1>1. /\ TypeInv /\ BeforePairing /\ phase' = "pair" /\ raw \in Seq(Events)
      /\ UNCHANGED <<input, f, next, open, order, closed>>
  BY DEF PairingInv, Collected, TypeInv
<1>2. raw' \in Seq(Events)
  BY <1>1, SortedByTextIsSorted DEF Collected
<1>3. TypeInv'
  BY <1>1, <1>2 DEF TypeInv, input
<1>4. Horizon' = 1 /\ Live(raw', 1) = {} /\ Ended(raw', 1) = {} /\ next' = 1
  BY <1>1, <1>2, NothingYet DEF Horizon, BeforePairing
<1>5. open' = EmptyMap /\ DOMAIN open' = {} /\ order' = <<>> /\ closed' = <<>> /\ Reported' = {}
  BY <1>1, <1>4 DEF BeforePairing, EmptyMap, Reported
<1>6. OpenIsLive' /\ ClosedIsReported' /\ OrderIsOnce'
  BY <1>4, <1>5 DEF OpenIsLive, ClosedIsReported, OrderIsOnce
<1>7. WhilePairing'
  BY <1>2, <1>4, <1>5, LenProperties DEF WhilePairing
<1>. QED  BY <1>1, <1>3, <1>6, <1>7 DEF PairingInv

LEMMA FailKeeps ==
  ASSUME PairingInv, Fail
  PROVE  PairingInv'
BY DEF PairingInv, Fail, TypeInv, BeforePairing, input

(* The events and the LUIDs that a step of pairing meets. *)
LEMMA WhatIsPaired ==
  ASSUME PairingInv, Pairing
  PROVE  /\ TypeInv /\ OpenIsLive /\ ClosedIsReported /\ OrderIsOnce /\ WhilePairing
         /\ raw \in Seq(Events) /\ next \in 1 .. Len(raw) /\ Len(raw) \in Nat
         /\ Horizon = next /\ raw[next] \in Events
         /\ Reported = Ended(raw, next)
         /\ \A k \in Live(raw, next) : k \in 1 .. Len(raw)
<1>1. /\ TypeInv /\ OpenIsLive /\ ClosedIsReported /\ OrderIsOnce /\ WhilePairing
      /\ raw \in Seq(Events) /\ Horizon = next
  BY DEF PairingInv, Pairing, Horizon, TypeInv
<1>2. Len(raw) \in Nat /\ next \in 1 .. Len(raw)
  BY <1>1, LenProperties DEF WhilePairing, Pairing
<1>3. Reported = Ended(raw, next)
  BY <1>1 DEF WhilePairing, Reported
<1>. QED  BY <1>1, <1>2, <1>3 DEF Live

(* What a step that pairs leaves to be shown. *)
LEMMA PairingAdvances ==
  ASSUME PairingInv, Pairing, UNCHANGED <<input, phase, f, raw>>, next' = next + 1,
         open' \in [DOMAIN open' -> Sessions], DOMAIN open' \subseteq Keys,
         order' \in Seq(Keys), closed' \in Seq(Sessions),
         OpenIsLive', ClosedIsReported', OrderIsOnce',
         \A i \in 1 .. Len(order') : order'[i] \in DOMAIN open',
         \A l \in DOMAIN open' : \E i \in 1 .. Len(order') : order'[i] = l,
         \A k \in Live(raw, next + 1) : KeyOf(raw[k]) \in DOMAIN open'
  PROVE  PairingInv'
<1>1. next' \in 1 .. Len(raw') + 1 /\ phase' = "pair" /\ raw' = raw /\ TypeInv
  BY WhatIsPaired DEF Pairing
<1>2. TypeInv'
  BY <1>1 DEF TypeInv, input
<1>3. WhilePairing'
  BY <1>1 DEF WhilePairing
<1>. QED  BY <1>1, <1>2, <1>3 DEF PairingInv

LEMMA LogonKeeps ==
  ASSUME PairingInv, Logon
  PROVE  PairingInv'
<1> DEFINE l == KeyOf(raw[next])
<1>1. Pairing /\ Usable(next, "logon") /\ UNCHANGED <<input, phase, f, raw, closed>> /\ next' = next + 1
  BY DEF Logon
<1>2. /\ order' = IF l \in DOMAIN open THEN order ELSE Append(order, l)
      /\ open' = With(open, l, SessionAt(next))
  BY DEF Logon
<1>3. /\ TypeInv /\ OpenIsLive /\ ClosedIsReported /\ OrderIsOnce /\ WhilePairing
      /\ raw \in Seq(Events) /\ next \in 1 .. Len(raw) /\ Len(raw) \in Nat
      /\ Horizon = next /\ raw[next] \in Events
      /\ Reported = Ended(raw, next)
      /\ \A k \in Live(raw, next) : k \in 1 .. Len(raw)
  BY <1>1, WhatIsPaired
<1>4. l \in Keys /\ SessionAt(next) = OpenSession(raw, next) /\ SessionAt(next) \in Sessions
  BY <1>3, KeyIsKey, SessionIsSession DEF SessionAt, OpenSession
<1>5. IsLogon(raw, next) /\ \A k \in 1 .. Len(raw) : next \notin Ends(raw, k)
  BY <1>1 DEF Usable, IsLogon, Ends
<1>6. Live(raw, next + 1) = { k \in Live(raw, next) : KeyOf(raw[k]) # l } \cup {next}
  <2>1. \A k \in Live(raw, next) : Again(raw, k, next) <=> KeyOf(raw[k]) = l
    BY <1>3, <1>5 DEF Again, Live
  <2>. QED  BY <1>3, <1>5, <2>1, LiveNext
<1>7. Ended(raw, next + 1) = Ended(raw, next)
  BY <1>3, <1>5, EndedNext
<1>8. Horizon' = next + 1 /\ raw' = raw /\ closed' = closed
  BY <1>1 DEF Horizon, Pairing
<1>9. /\ DOMAIN open' = DOMAIN open \cup {l} /\ open'[l] = OpenSession(raw, next)
      /\ \A x \in DOMAIN open : x # l => open'[x] = open[x]
  BY <1>2, <1>4 DEF With
<1>. HIDE DEF l
<1>10. DOMAIN open' \subseteq Keys /\ open' \in [DOMAIN open' -> Sessions]
  BY <1>2, <1>3, <1>4 DEF TypeInv, With
<1>11. /\ order' \in Seq(Keys) /\ OrderIsOnce'
       /\ \A i \in 1 .. Len(order') : order'[i] \in DOMAIN open'
       /\ \A x \in DOMAIN open' : \E i \in 1 .. Len(order') : order'[i] = x
  <2>1. CASE l \in DOMAIN open
    BY <1>2, <1>3, <1>9, <2>1 DEF TypeInv, OrderIsOnce, WhilePairing
  <2>2. CASE l \notin DOMAIN open
    <3>1. /\ order \in Seq(Keys) /\ order' = Append(order, l) /\ Len(order) \in Nat
      BY <1>2, <1>3, <2>2, LenProperties DEF TypeInv
    <3>2. /\ order' \in Seq(Keys) /\ Len(order') = Len(order) + 1 /\ order'[Len(order) + 1] = l
          /\ \A i \in 1 .. Len(order) : order'[i] = order[i] /\ order[i] \in DOMAIN open /\ order[i] # l
      BY <1>3, <1>4, <2>2, <3>1, AppendProperties DEF WhilePairing
    <3>3. \A i \in 1 .. Len(order') : i \in 1 .. Len(order) \/ i = Len(order) + 1
      BY <3>1, <3>2
    <3>4. \A i, j \in 1 .. Len(order') : order'[i] = order'[j] => i = j
      BY <1>3, <3>2, <3>3 DEF OrderIsOnce
    <3>5. \A i \in 1 .. Len(order') : order'[i] \in DOMAIN open'
      BY <1>9, <3>2, <3>3
    <3>6. ASSUME NEW x \in DOMAIN open' PROVE \E i \in 1 .. Len(order') : order'[i] = x
      <4>1. CASE x \in DOMAIN open
        <5>1. PICK i \in 1 .. Len(order) : order[i] = x
          BY <1>3, <4>1 DEF WhilePairing
        <5>. QED  BY <3>1, <3>2, <5>1
      <4>2. CASE x = l
        BY <3>1, <3>2, <4>2
      <4>. QED  BY <1>9, <4>1, <4>2
    <3>. QED  BY <3>2, <3>4, <3>5, <3>6 DEF OrderIsOnce
  <2>. QED  BY <2>1, <2>2
<1>12. \A k \in Live(raw, next + 1) : KeyOf(raw[k]) \in DOMAIN open'
  BY <1>3, <1>6, <1>9 DEF l, WhilePairing
<1>13. OpenIsLive'
  <2> SUFFICES ASSUME NEW x \in DOMAIN open'
               PROVE  \E k \in Live(raw, next + 1) : KeyOf(raw[k]) = x /\ open'[x] = OpenSession(raw, k)
    BY <1>8 DEF OpenIsLive
  <2>1. CASE x = l
    BY <1>6, <1>9, <2>1 DEF l
  <2>2. CASE x # l
    BY <1>3, <1>6, <1>9, <2>2 DEF OpenIsLive
  <2>. QED  BY <2>1, <2>2
<1>14. Reported' = Reported
  BY <1>3, <1>7, <1>8, <1>12 DEF Reported
<1>15. ClosedIsReported' /\ closed' \in Seq(Sessions)
  BY <1>3, <1>8, <1>14, ClosedStays DEF TypeInv
<1>. QED  BY <1>1, <1>10, <1>11, <1>12, <1>13, <1>15, PairingAdvances

LEMMA LogoffKeeps ==
  ASSUME PairingInv, Logoff
  PROVE  PairingInv'
<1> DEFINE l == raw[next].luid
           P == { k \in 1 .. Len(order) : order[k] # l }
<1>1. Pairing /\ Usable(next, "logoff") /\ UNCHANGED <<input, phase, f, raw>> /\ next' = next + 1
  BY DEF Logoff
<1>2. /\ l \in DOMAIN open
      /\ closed' = Append(closed, [open[l] EXCEPT !.logoff = raw[next].time])
      /\ open' = Without(open, l)
      /\ order' = Only(order, P)
  BY DEF Logoff
<1>3. /\ TypeInv /\ OpenIsLive /\ ClosedIsReported /\ OrderIsOnce /\ WhilePairing
      /\ raw \in Seq(Events) /\ next \in 1 .. Len(raw) /\ Len(raw) \in Nat
      /\ Horizon = next /\ raw[next] \in Events
      /\ Reported = Ended(raw, next)
      /\ \A k \in Live(raw, next) : k \in 1 .. Len(raw)
  BY <1>1, WhatIsPaired
<1>4. l # Missing /\ KeyOf(raw[next]) = l /\ l \in Keys
  <2>1. l \in Keys
    BY <1>2, <1>3 DEF TypeInv
  <2>2. l # Missing
    BY <2>1, SessionAssumption DEF Keys
  <2>. QED  BY <1>3, <2>1, <2>2, KeyIsKey
<1>5. PICK k0 \in Live(raw, next) : KeyOf(raw[k0]) = l /\ open[l] = OpenSession(raw, k0)
  BY <1>2, <1>3 DEF OpenIsLive
<1>6. k0 \in 1 .. Len(raw) /\ k0 \notin Reported
  BY <1>3, <1>5, LiveOrEnded
<1>7. \A k \in Live(raw, next) : next \in Ends(raw, k) <=> k = k0
  <2>1. \A k \in Live(raw, next) : next \in Ends(raw, k) <=> KeyOf(raw[k]) = l
    BY <1>1, <1>3, <1>4 DEF Ends, Usable, Live
  <2>2. \A k \in Live(raw, next) : KeyOf(raw[k]) = l => k = k0
    BY <1>3, <1>5, LiveKeys
  <2>. QED  BY <1>5, <2>1, <2>2
<1>8. ~IsLogon(raw, next)
  BY <1>1 DEF Usable, IsLogon
<1>9. Live(raw, next + 1) = Live(raw, next) \ {k0}
  BY <1>3, <1>7, <1>8, LiveNext DEF Again
<1>10. Ended(raw, next + 1) = Ended(raw, next) \cup {k0}
  BY <1>3, <1>5, <1>7, EndedNext
<1>11. closed' = Append(closed, WholeSession(raw, k0))
  <2>1. next \in Ends(raw, k0)
    BY <1>5, <1>7
  <2>. QED  BY <1>2, <1>3, <1>5, <1>6, <2>1, EndIsFirst
<1>12. Horizon' = next + 1 /\ raw' = raw
  BY <1>1 DEF Horizon, Pairing
<1>13. DOMAIN open' = DOMAIN open \ {l} /\ \A x \in DOMAIN open' : open'[x] = open[x]
  BY <1>2 DEF Without
<1>14. DOMAIN open' \subseteq Keys /\ open' \in [DOMAIN open' -> Sessions]
  BY <1>2, <1>3 DEF TypeInv, Without
<1>15. \A k \in Live(raw, next + 1) : KeyOf(raw[k]) \in DOMAIN open'
  <2>1. \A k \in Live(raw, next) : KeyOf(raw[k]) = l => k = k0
    BY <1>3, <1>5, LiveKeys
  <2>. QED  BY <1>3, <1>9, <1>13, <2>1 DEF WhilePairing
<1>16. Reported' = Reported \cup {k0}
  BY <1>3, <1>10, <1>12, <1>15 DEF Reported
<1>17. ClosedIsReported'
  BY <1>3, <1>6, <1>11, <1>12, <1>16, ClosedGrows
<1>18. closed' \in Seq(Sessions)
  BY <1>3, <1>6, <1>11, SessionIsSession, AppendProperties DEF TypeInv
<1>19. OpenIsLive'
  <2> SUFFICES ASSUME NEW x \in DOMAIN open'
               PROVE  \E k \in Live(raw, next + 1) : KeyOf(raw[k]) = x /\ open'[x] = OpenSession(raw, k)
    BY <1>12 DEF OpenIsLive
  <2>1. PICK k \in Live(raw, next) : KeyOf(raw[k]) = x /\ open[x] = OpenSession(raw, k)
    BY <1>3, <1>13 DEF OpenIsLive
  <2>2. k # k0
    BY <1>5, <1>13, <2>1
  <2>. QED  BY <1>9, <1>13, <2>1, <2>2
<1>20. /\ order' \in Seq(Keys) /\ OrderIsOnce'
       /\ \A i \in 1 .. Len(order') : order'[i] \in DOMAIN open'
       /\ \A x \in DOMAIN open' : \E i \in 1 .. Len(order') : order'[i] = x
  <2> DEFINE n == Cardinality(P)
             a == Ascending(P)
  <2>1. order \in Seq(Keys) /\ P \in SUBSET (1 .. Len(order)) /\ Len(order) \in Nat
    BY <1>3, LenProperties DEF TypeInv
  <2>2. \A p \in P : p \in 1 .. Len(order) /\ order[p] # l
    OBVIOUS
  <2>3. \A p \in 1 .. Len(order) : order[p] # l => p \in P
    OBVIOUS
  <2>. HIDE DEF P
  <2>4. /\ order' \in Seq(Keys) /\ Len(order') = n /\ n \in Nat /\ a \in [1 .. n -> P]
        /\ \A r \in 1 .. n : order'[r] = order[a[r]]
        /\ \A p \in P : \E r \in 1 .. n : a[r] = p
        /\ \A q, r \in 1 .. n : q < r <=> a[q] < a[r]
    BY <1>2, <2>1, OnlyInOrder
  <2>. HIDE DEF n, a
  <2>5. \A r \in 1 .. n : a[r] \in 1 .. Len(order) /\ order[a[r]] # l
    BY <2>2, <2>4
  <2>6. \A q, r \in 1 .. n : order'[q] = order'[r] => q = r
    <3> SUFFICES ASSUME NEW q \in 1 .. n, NEW r \in 1 .. n, order'[q] = order'[r], q # r PROVE FALSE
      OBVIOUS
    <3>0. order[a[q]] = order[a[r]] /\ a[q] \in 1 .. Len(order) /\ a[r] \in 1 .. Len(order)
      BY <2>4, <2>5
    <3>1. a[q] = a[r]
      BY <1>3, <3>0 DEF OrderIsOnce
    <3>2. q < r \/ r < q
      BY <2>4
    <3>. QED  BY <2>1, <2>4, <2>5, <3>1, <3>2
  <2>7. \A i \in 1 .. n : order'[i] \in DOMAIN open'
    <3> SUFFICES ASSUME NEW i \in 1 .. n PROVE order'[i] \in DOMAIN open'
      OBVIOUS
    <3>1. order'[i] = order[a[i]] /\ a[i] \in 1 .. Len(order) /\ order[a[i]] # l
      BY <2>4, <2>5
    <3>2. order[a[i]] \in DOMAIN open
      BY <1>3, <3>1 DEF WhilePairing
    <3>. QED  BY <1>13, <3>1, <3>2
  <2>8. ASSUME NEW x \in DOMAIN open' PROVE \E i \in 1 .. n : order'[i] = x
    <3>1. PICK p \in 1 .. Len(order) : order[p] = x
      BY <1>3, <1>13 DEF WhilePairing
    <3>2. p \in P
      BY <1>13, <2>3, <3>1
    <3>. QED  BY <2>4, <3>1, <3>2
  <2>. QED  BY <2>4, <2>6, <2>7, <2>8 DEF OrderIsOnce
<1>. QED  BY <1>1, <1>14, <1>15, <1>17, <1>18, <1>19, <1>20, PairingAdvances

LEMMA PassOverKeeps ==
  ASSUME PairingInv, PassOver
  PROVE  PairingInv'
<1>1. /\ Pairing /\ ~Usable(next, "logon") /\ next' = next + 1
      /\ ~(Usable(next, "logoff") /\ raw[next].luid \in DOMAIN open)
      /\ UNCHANGED <<input, phase, f, raw, open, order, closed>>
  BY DEF PassOver
<1>2. /\ TypeInv /\ OpenIsLive /\ ClosedIsReported /\ OrderIsOnce /\ WhilePairing
      /\ raw \in Seq(Events) /\ next \in 1 .. Len(raw) /\ Len(raw) \in Nat
      /\ Horizon = next /\ raw[next] \in Events
      /\ Reported = Ended(raw, next)
      /\ \A k \in Live(raw, next) : k \in 1 .. Len(raw)
  BY <1>1, WhatIsPaired
<1>3. ~IsLogon(raw, next)
  BY <1>1 DEF Usable, IsLogon
<1>4. ASSUME NEW k \in Live(raw, next) PROVE next \notin Ends(raw, k)
  <2> SUFFICES ASSUME next \in Ends(raw, k) PROVE FALSE
    OBVIOUS
  <2>1. Usable(next, "logoff") /\ raw[next].luid # Missing /\ KeyOf(raw[k]) = KeyOf(raw[next])
    BY DEF Ends, Usable
  <2>2. raw[next].luid \in DOMAIN open
    BY <1>2, <2>1, KeyIsKey DEF WhilePairing
  <2>. QED  BY <1>1, <2>1, <2>2
<1>5. Live(raw, next + 1) = Live(raw, next) /\ Ended(raw, next + 1) = Ended(raw, next)
  <2>1. Live(raw, next + 1) = { k \in Live(raw, next) : ~Again(raw, k, next) /\ next \notin Ends(raw, k) }
                                \cup { k \in {next} : IsLogon(raw, next) }
    BY <1>2, LiveNext
  <2>2. Ended(raw, next + 1) = Ended(raw, next) \cup { k \in Live(raw, next) : next \in Ends(raw, k) }
    BY <1>2, EndedNext
  <2>3. \A k \in Live(raw, next) : ~Again(raw, k, next)
    BY <1>3 DEF Again
  <2>. QED  BY <1>3, <1>4, <2>1, <2>2, <2>3
<1>6. Horizon' = next + 1 /\ raw' = raw
  BY <1>1 DEF Horizon, Pairing
<1>7. OpenIsLive'
  BY <1>1, <1>2, <1>5, <1>6 DEF OpenIsLive
<1>8. \A k \in Live(raw, next + 1) : KeyOf(raw[k]) \in DOMAIN open'
  BY <1>1, <1>2, <1>5 DEF WhilePairing
<1>9. Reported' = Reported
  BY <1>2, <1>5, <1>6, <1>8 DEF Reported
<1>10. ClosedIsReported'
  BY <1>1, <1>2, <1>9, ClosedStays
<1>11. OrderIsOnce' /\ open' = open /\ order' = order /\ closed' = closed
  BY <1>1, <1>2 DEF OrderIsOnce
<1>. QED  BY <1>1, <1>2, <1>7, <1>8, <1>10, <1>11, PairingAdvances DEF TypeInv, WhilePairing

LEMMA StartDrainKeeps ==
  ASSUME PairingInv, StartDrain
  PROVE  PairingInv'
<1>1. /\ TypeInv /\ OpenIsLive /\ ClosedIsReported /\ OrderIsOnce /\ WhilePairing
      /\ phase = "pair" /\ phase' = "drain" /\ next > Len(raw) /\ next' = 1
      /\ UNCHANGED <<input, f, raw, open, order, closed>>
  BY DEF PairingInv, StartDrain
<1>2. Len(raw) \in Nat /\ next = Len(raw) + 1 /\ Len(order) \in Nat
  BY <1>1, LenProperties DEF WhilePairing, TypeInv
<1>3. Horizon' = Horizon
  BY <1>1, <1>2 DEF Horizon
<1>4. Reported' = Reported /\ OpenIsLive' /\ OrderIsOnce' /\ TypeInv'
  BY <1>1, <1>3 DEF Reported, OpenIsLive, OrderIsOnce, TypeInv, input
<1>5. WhileDraining'
  BY <1>1, <1>2 DEF WhilePairing, WhileDraining
<1>. QED  BY <1>1, <1>4, <1>5, ClosedStays DEF PairingInv

LEMMA DrainKeeps ==
  ASSUME PairingInv, Drain
  PROVE  PairingInv'
<1> DEFINE l == order[next]
<1>1. /\ TypeInv /\ OpenIsLive /\ ClosedIsReported /\ OrderIsOnce /\ WhileDraining
      /\ phase = "drain" /\ phase' = "drain" /\ next' = next + 1 /\ next <= Len(order)
      /\ UNCHANGED <<input, f, raw, order>>
      /\ raw \in Seq(Events) /\ order \in Seq(Keys)
  BY DEF PairingInv, Drain, TypeInv
<1>2. /\ closed' = IF l \in DOMAIN open THEN Append(closed, open[l]) ELSE closed
      /\ open' = Without(open, l)
  BY DEF Drain
<1>3. Len(raw) \in Nat /\ Len(order) \in Nat /\ next \in 1 .. Len(order)
  BY <1>1, LenProperties DEF WhileDraining
<1>4. Horizon = Len(raw) + 1 /\ Horizon' = Len(raw) + 1
  BY <1>1 DEF Horizon
<1>5. DOMAIN open' = DOMAIN open \ {l} /\ \A x \in DOMAIN open' : open'[x] = open[x]
  BY <1>2 DEF Without
<1>6. DOMAIN open' \subseteq Keys /\ open' \in [DOMAIN open' -> Sessions]
  BY <1>1, <1>2 DEF TypeInv, Without
<1>7. OpenIsLive'
  BY <1>1, <1>4, <1>5 DEF OpenIsLive
<1>8. WhileDraining'
  <2>1. next' \in 1 .. Len(order') + 1
    BY <1>1, <1>3
  <2>2. ASSUME NEW x \in DOMAIN open' PROVE \E i \in next' .. Len(order') : order'[i] = x
    <3>1. PICK i \in next .. Len(order) : order[i] = x
      BY <1>1, <1>5 DEF WhileDraining
    <3>2. i # next
      BY <1>5, <3>1
    <3>. QED  BY <1>1, <1>3, <3>1, <3>2
  <2>. QED  BY <2>1, <2>2 DEF WhileDraining
<1>9. ClosedIsReported' /\ closed' \in Seq(Sessions)
  <2>1. CASE l \in DOMAIN open
    <3>1. PICK k \in Live(raw, Len(raw) + 1) : KeyOf(raw[k]) = l /\ open[l] = OpenSession(raw, k)
      BY <1>1, <1>4, <2>1 DEF OpenIsLive
    <3>2. k \in 1 .. Len(raw) /\ \A e \in 1 .. Len(raw) : e \notin Ends(raw, k)
      BY <1>3, <3>1 DEF Live, Ends
    <3>3. Ends(raw, k) = {}
      BY <3>2 DEF Ends
    <3>4. closed' = Append(closed, WholeSession(raw, k)) /\ WholeSession(raw, k) \in Sessions
      BY <1>1, <1>2, <2>1, <3>1, <3>2, <3>3, SessionIsSession
    <3>5. k \notin Reported
      BY <1>1, <1>3, <1>4, <2>1, <3>1, LiveOrEnded DEF Reported
    <3>6. \A m \in Live(raw, Len(raw) + 1) : KeyOf(raw[m]) = l => m = k
      BY <1>1, <1>3, <3>1, LiveKeys
    <3>7. Reported' = Reported \cup {k}
      BY <1>1, <1>4, <1>5, <3>1, <3>6 DEF Reported
    <3>. QED  BY <1>1, <3>2, <3>4, <3>5, <3>7, ClosedGrows, AppendProperties DEF TypeInv
  <2>2. CASE l \notin DOMAIN open
    <3>1. DOMAIN open' = DOMAIN open
      BY <1>5, <2>2
    <3>2. Reported' = Reported
      BY <1>1, <1>4, <3>1 DEF Reported
    <3>. QED  BY <1>1, <1>2, <2>2, <3>2, ClosedStays DEF TypeInv
  <2>. QED  BY <2>1, <2>2
<1>10. TypeInv' /\ OrderIsOnce'
  BY <1>1, <1>3, <1>6, <1>9 DEF TypeInv, OrderIsOnce, input
<1>. QED  BY <1>1, <1>7, <1>8, <1>9, <1>10 DEF PairingInv

LEMMA FinishKeeps ==
  ASSUME PairingInv, Finish
  PROVE  PairingInv'
<1>1. /\ TypeInv /\ OpenIsLive /\ ClosedIsReported /\ OrderIsOnce /\ WhileDraining
      /\ phase = "drain" /\ phase' = "done" /\ next > Len(order)
      /\ UNCHANGED <<input, f, raw, next, open, order, closed>>
      /\ order \in Seq(Keys) /\ Len(order) \in Nat
  BY LenProperties DEF PairingInv, Finish, TypeInv
<1>2. Horizon' = Horizon
  BY <1>1 DEF Horizon
<1>3. Reported' = Reported /\ OpenIsLive' /\ OrderIsOnce' /\ TypeInv'
  BY <1>1, <1>2 DEF Reported, OpenIsLive, OrderIsOnce, TypeInv, input
<1>4. DOMAIN open' = {}
  <2>1. ASSUME NEW x \in DOMAIN open PROVE FALSE
    <3>1. PICK i \in next .. Len(order) : order[i] = x
      BY <1>1 DEF WhileDraining
    <3>2. next \in Int /\ next > Len(order)
      BY <1>1 DEF WhileDraining
    <3>. QED  BY <1>1, <3>1, <3>2
  <2>. QED  BY <1>1, <2>1
<1>. QED  BY <1>1, <1>3, <1>4, ClosedStays DEF PairingInv

LEMMA PairingStutters ==
  ASSUME PairingInv, UNCHANGED vars
  PROVE  PairingInv'
<1>1. /\ mode' = mode /\ files' = files /\ phase' = phase /\ f' = f /\ raw' = raw /\ next' = next
      /\ open' = open /\ order' = order /\ closed' = closed
  BY DEF vars
<1>. QED  BY <1>1 DEF PairingInv, TypeInv, BeforePairing, OpenIsLive, ClosedIsReported, OrderIsOnce,
                     WhilePairing, WhileDraining, Horizon, Reported

(* In every state the sessions open and closed are those of the logons     *)
(* that are live or have been ended so far (sessions, sessions_multi).     *)
THEOREM PairingCorrect == Spec => []PairingInv
<1>1. Init => PairingInv
  BY PairingInit
<1>2. PairingInv /\ [Next]_vars => PairingInv'
  <2> SUFFICES ASSUME PairingInv, [Next]_vars PROVE PairingInv'
    OBVIOUS
  <2>. QED  BY CollectKeeps, CollectedKeeps, FailKeeps, LogonKeeps, LogoffKeeps, PassOverKeeps,
               StartDrainKeeps, DrainKeeps, FinishKeeps, PairingStutters DEF Next
<1>. QED  BY <1>1, <1>2, PTL DEF Spec

-----------------------------------------------------------------------------
(* What is reported in the end. *)

LEMMA AllReported ==
  ASSUME PairingInv, phase = "done"
  PROVE  /\ raw \in Seq(Events) /\ Len(raw) \in Nat /\ closed \in Seq(Sessions) /\ Len(closed) \in Nat
         /\ Reported = Ended(raw, Len(raw) + 1) \cup Live(raw, Len(raw) + 1)
         /\ ClosedIsReported
         /\ \A k \in Reported : k \in 1 .. Len(raw) /\ IsLogon(raw, k)
<1>1. /\ raw \in Seq(Events) /\ closed \in Seq(Sessions) /\ ClosedIsReported
      /\ DOMAIN open = {} /\ Horizon = Len(raw) + 1
  BY DEF PairingInv, TypeInv, Horizon
<1>2. Reported = Ended(raw, Len(raw) + 1) \cup Live(raw, Len(raw) + 1)
  BY <1>1 DEF Reported
<1>. QED  BY <1>1, <1>2, LenProperties DEF Live, Ended

(* The model's words for it are those used here. *)
LEMMA SameWords ==
  ASSUME raw \in Seq(Events), NEW k \in 1 .. Len(raw)
  PROVE  /\ Usable(k, "logon") <=> IsLogon(raw, k)
         /\ EndOf(k) = Ends(raw, k)
         /\ Superseded(k) <=> \E l \in 1 .. Len(raw) : Again(raw, k, l) /\ \A e \in Ends(raw, k) : l < e
         /\ [SessionAt(k) EXCEPT !.logoff = IF EndOf(k) = {} THEN Never ELSE raw[First(EndOf(k))].time]
              = WholeSession(raw, k)
<1>1. Usable(k, "logon") <=> IsLogon(raw, k)
  BY DEF Usable, IsLogon
<1>2. EndOf(k) = Ends(raw, k)
  BY DEF EndOf, Ends, Usable, SameLuid
<1>3. Superseded(k) <=> \E l \in 1 .. Len(raw) : Again(raw, k, l) /\ \A e \in Ends(raw, k) : l < e
  BY <1>2 DEF Superseded, Again, Usable, IsLogon
<1>. QED  BY <1>1, <1>2, <1>3 DEF SessionAt, OpenSession, WholeSession

LEMMA DoneIsRight ==
  ASSUME PairingInv
  PROVE  SessionsAreRight
<1> SUFFICES ASSUME phase = "done"
             PROVE  /\ { closed[k] : k \in 1 .. Len(closed) } = Expected
                    /\ Len(closed) = Cardinality(Expected)
  BY DEF SessionsAreRight
<1> DEFINE C == { closed[k] : k \in 1 .. Len(closed) }
           g == [k \in 1 .. Len(closed) |-> closed[k]]
<1>1. /\ raw \in Seq(Events) /\ Len(raw) \in Nat /\ closed \in Seq(Sessions) /\ Len(closed) \in Nat
      /\ Reported = Ended(raw, Len(raw) + 1) \cup Live(raw, Len(raw) + 1)
      /\ ClosedIsReported
      /\ \A k \in Reported : k \in 1 .. Len(raw) /\ IsLogon(raw, k)
  BY AllReported
<1>2. \A k \in 1 .. Len(raw) : k \in Reported <=> Usable(k, "logon") /\ ~Superseded(k)
  <2> SUFFICES ASSUME NEW k \in 1 .. Len(raw) PROVE k \in Reported <=> Usable(k, "logon") /\ ~Superseded(k)
    OBVIOUS
  <2>1. (Usable(k, "logon") <=> IsLogon(raw, k))
        /\ (Superseded(k) <=> \E l \in 1 .. Len(raw) : Again(raw, k, l) /\ \A e \in Ends(raw, k) : l < e)
    BY <1>1, SameWords
  <2>. QED  BY <1>1, <2>1, InTheEnd
<1>3. Expected = { WholeSession(raw, k) : k \in Reported }
  <2>1. { j \in 1 .. Len(raw) : Usable(j, "logon") /\ ~Superseded(j) } = Reported
    BY <1>1, <1>2
  <2>2. \A k \in Reported :
          [SessionAt(k) EXCEPT !.logoff = IF EndOf(k) = {} THEN Never ELSE raw[First(EndOf(k))].time]
            = WholeSession(raw, k)
    BY <1>1, SameWords
  <2>. QED  BY <2>1, <2>2 DEF Expected
<1>4. C = Expected
  <2>1. ASSUME NEW c \in C PROVE c \in Expected
    BY <1>1, <1>3 DEF ClosedIsReported
  <2>2. ASSUME NEW k \in Reported PROVE WholeSession(raw, k) \in C
    <3>1. PICK i \in 1 .. Len(closed) : closed[i].from = k
      BY <1>1 DEF ClosedIsReported
    <3>2. closed[i] = WholeSession(raw, k)
      BY <1>1, <3>1 DEF ClosedIsReported
    <3>. QED  BY <3>2
  <2>3. Expected \subseteq C
    <3>. HIDE DEF C
    <3>. QED  BY <1>3, <2>2
  <2>. QED  BY <2>1, <2>3
<1>5. g \in Bijection(1 .. Len(closed), C)
  <2>1. g \in [1 .. Len(closed) -> C]
    OBVIOUS
  <2>2. \A i, j \in 1 .. Len(closed) : g[i] = g[j] => i = j
    BY <1>1 DEF ClosedIsReported
  <2>3. \A c \in C : \E i \in 1 .. Len(closed) : g[i] = c
    OBVIOUS
  <2>. QED  BY <2>1, <2>2, <2>3 DEF Bijection, Injection, Surjection, IsInjective
<1>6. Cardinality(C) = Len(closed)
  <2>1. ExistsBijection(1 .. Len(closed), C)
    BY <1>5 DEF ExistsBijection
  <2>. HIDE DEF C
  <2>. QED  BY <1>1, <2>1, FS_Bijection, SeqPositions
<1>. QED  BY <1>4, <1>6

(* The sessions reported are exactly those of the logons that no other     *)
(* logon under their LUID follows before a logoff, each once, ended by the *)
(* first logoff behind.                                                    *)
THEOREM SessionsRight == Spec => []SessionsAreRight
BY PairingCorrect, DoneIsRight, PTL

-----------------------------------------------------------------------------
(* The merge of the files. *)

\* The places of e in the files before n that open.
Places(n, e) ==
  { km \in (1 .. Len(files)) \X (1 .. MaxEvents) :
      /\ km[1] < n
      /\ files[km[1]].opens
      /\ km[2] <= Len(files[km[1]].events)
      /\ files[km[1]].events[km[2]] = e }

(* What has been read holds each logon event as often as the files read so *)
(* far; what is paired is sorted when there may be several files.          *)
MergeInv ==
  /\ \A e \in Events : IsLogonEvent(e) => Occurrences(raw, e) = Cardinality(Places(f, e))
  /\ phase \in {"pair", "drain", "done"} => f = Len(files) + 1
  /\ phase \in {"pair", "drain", "done"} /\ mode = "multi" =>
       \A q, r \in 1 .. Len(raw) : q < r => TextKey(raw[q].time) <= TextKey(raw[r].time)

(* A set of pairs with one first component is as large as that of the      *)
(* second components. *)
LEMMA OneColumn ==
  ASSUME NEW x, NEW B, IsFiniteSet(B)
  PROVE  IsFiniteSet({x} \X B) /\ Cardinality({x} \X B) = Cardinality(B)
<1> DEFINE g == [b \in B |-> <<x, b>>]
<1>1. g \in Bijection(B, {x} \X B)
  BY DEF Bijection, Injection, Surjection, IsInjective
<1>2. ExistsBijection(B, {x} \X B)
  BY <1>1 DEF ExistsBijection
<1>. QED  BY <1>2, FS_Bijection

(* The places of an event are finitely many; those of one more file are    *)
(* added by it. *)
LEMMA PlacesAdded ==
  ASSUME TypeInv, NEW e \in Events, f \in 1 .. Len(files)
  PROVE  /\ ~files[f].opens => Places(f + 1, e) = Places(f, e)
         /\ files[f].opens =>
              Cardinality(Places(f + 1, e)) = Cardinality(Places(f, e)) + Occurrences(files[f].events, e)
<1> DEFINE ev  == files[f].events
           B   == { k \in 1 .. Len(ev) : ev[k] = e }
           New == {f} \X B
<1>1. /\ Len(files) \in Nat /\ MaxEvents \in Nat
      /\ \A k \in 1 .. Len(files) : files[k] \in Files
  BY SessionAssumption, LenProperties DEF TypeInv
<1>2. /\ ev \in Seq(Events) /\ Len(ev) \in 0 .. MaxEvents
  BY <1>1, Lists DEF Files
<1>3. ~files[f].opens => Places(f + 1, e) = Places(f, e)
  BY <1>1 DEF Places
<1>4. ASSUME files[f].opens
      PROVE  Cardinality(Places(f + 1, e)) = Cardinality(Places(f, e)) + Occurrences(ev, e)
  <2>1. Places(f + 1, e) = Places(f, e) \cup New
    <3>1. ASSUME NEW km \in Places(f + 1, e), km \notin Places(f, e) PROVE km \in New
      BY <1>1, <3>1 DEF Places
    <3>2. ASSUME NEW km \in New PROVE km \in Places(f + 1, e)
      BY <1>1, <1>2, <1>4 DEF Places
    <3>3. Places(f, e) \subseteq Places(f + 1, e)
      BY <1>1 DEF Places
    <3>. HIDE DEF New
    <3>. QED  BY <3>1, <3>2, <3>3
  <2>2. Places(f, e) \cap New = {}
    BY <1>1 DEF Places
  <2>3. IsFiniteSet(B) /\ Cardinality(B) = Occurrences(ev, e) /\ Cardinality(B) \in Nat
    <3>1. B \in SUBSET (1 .. Len(ev))
      OBVIOUS
    <3>2. Cardinality(B) = Occurrences(ev, e)
      BY DEF Occurrences
    <3>. HIDE DEF B, ev
    <3>. QED  BY <1>2, <3>1, <3>2, SeqPositions
  <2>4. IsFiniteSet(New) /\ Cardinality(New) = Cardinality(B)
    <3>. HIDE DEF B
    <3>. QED  BY <2>3, OneColumn
  <2>5. IsFiniteSet(Places(f, e)) /\ Cardinality(Places(f, e)) \in Nat
    <3>1. IsFiniteSet(1 .. Len(files)) /\ IsFiniteSet(1 .. MaxEvents)
      BY <1>1, FS_Interval
    <3>2. IsFiniteSet((1 .. Len(files)) \X (1 .. MaxEvents))
      BY <3>1, FS_Product
    <3>3. Places(f, e) \subseteq (1 .. Len(files)) \X (1 .. MaxEvents)
      BY DEF Places
    <3>. QED  BY <3>2, <3>3, FS_Subset, FS_CardinalityType
  <2>. HIDE DEF New, B
  <2>6. Cardinality(Places(f, e) \cup New)
          = Cardinality(Places(f, e)) + Cardinality(New) - Cardinality(Places(f, e) \cap New)
    BY <2>4, <2>5, FS_Union
  <2>7. Cardinality(Places(f, e) \cap New) = 0
    BY <2>2, FS_EmptySet
  <2>8. Cardinality(Places(f, e) \cup New) = Cardinality(Places(f, e)) + Cardinality(B)
    BY <2>3, <2>4, <2>5, <2>6, <2>7
  <2>. HIDE DEF ev
  <2>. QED  BY <2>1, <2>3, <2>8
<1>. QED  BY <1>3, <1>4

LEMMA MergeInit ==
  ASSUME Init
  PROVE  MergeInv
<1>1. raw = <<>> /\ f = 1 /\ phase = "collect" /\ files \in Seq(Files)
  BY PairingInit DEF Init, PairingInv, TypeInv
<1>2. \A e : Places(1, e) = {}
  BY <1>1, LenProperties DEF Places
<1>. QED  BY <1>1, <1>2, EmptyOccurs, FS_EmptySet DEF MergeInv

LEMMA MergeKeeps ==
  ASSUME PairingInv, MergeInv, [Next]_vars
  PROVE  MergeInv'
<1>0. TypeInv /\ raw \in Seq(Events) /\ Len(files) \in Nat /\ f \in 1 .. Len(files) + 1
  BY LenProperties DEF PairingInv, TypeInv
<1>1. CASE SkipFile
  <2>1. /\ raw' = raw /\ files' = files /\ f' = f + 1 /\ phase' = "collect" /\ ~files[f].opens
        /\ f \in 1 .. Len(files)
    BY <1>0, <1>1 DEF SkipFile, input
  <2>2. \A e \in Events : Places(f + 1, e) = Places(f, e)
    BY <1>0, <2>1, PlacesAdded
  <2>3. \A n, e : Places(n, e)' = Places(n, e)
    BY <2>1 DEF Places
  <2>. QED  BY <2>1, <2>2, <2>3 DEF MergeInv
<1>2. CASE ReadFile
  <2> DEFINE ev == files[f].events
  <2>1. /\ raw' = raw \o IF mode = "multi" THEN LogonEvents(ev) ELSE ev
        /\ files' = files /\ f' = f + 1 /\ phase' = "collect" /\ files[f].opens
        /\ f \in 1 .. Len(files)
    BY <1>0, <1>2 DEF ReadFile, input
  <2>2. ev \in Seq(Events)
    <3>1. files[f] \in Files
      BY <1>0, <2>1 DEF TypeInv
    <3>. QED  BY <3>1, Lists DEF Files
  <2>3. ASSUME NEW e \in Events, IsLogonEvent(e)
        PROVE  Occurrences(raw', e) = Cardinality(Places(f + 1, e))
    <3>1. Cardinality(Places(f + 1, e)) = Cardinality(Places(f, e)) + Occurrences(ev, e)
      BY <1>0, <2>1, PlacesAdded
    <3>2. Occurrences(raw, e) = Cardinality(Places(f, e))
      BY <2>3 DEF MergeInv
    <3>3. LogonEvents(ev) \in Seq(Events) /\ Occurrences(LogonEvents(ev), e) = Occurrences(ev, e)
      <4> DEFINE P == { m \in 1 .. Len(ev) : IsLogonEvent(ev[m]) }
      <4>1. P \in SUBSET (1 .. Len(ev)) /\ \A p \in 1 .. Len(ev) : ev[p] = e => p \in P
        BY <2>3
      <4>2. LogonEvents(ev) = Only(ev, P)
        BY DEF LogonEvents
      <4>. HIDE DEF P, ev
      <4>. QED  BY <2>2, <4>1, <4>2, OnlyInOrder, OnlyOccurs
    <3>. HIDE DEF ev
    <3>4. Occurrences(raw', e) = Occurrences(raw, e) + Occurrences(ev, e)
      BY <1>0, <2>1, <2>2, <3>3, ConcatOccurs
    <3>. QED  BY <3>1, <3>2, <3>4
  <2>4. \A n, e : Places(n, e)' = Places(n, e)
    BY <2>1 DEF Places
  <2>. QED  BY <2>1, <2>3, <2>4 DEF MergeInv
<1>3. CASE Collected
  <2>1. /\ raw' = IF mode = "multi" THEN SortedByText(raw) ELSE raw
        /\ mode' = mode /\ files' = files /\ f' = f /\ f = Len(files) + 1 /\ phase' = "pair"
    BY <1>0, <1>3 DEF Collected, input
  <2>2. \A e : Occurrences(raw', e) = Occurrences(raw, e)
    BY <1>0, <2>1, SortedByTextIsSorted
  <2>3. mode = "multi" =>
          \A q, r \in 1 .. Len(raw') : q < r => TextKey(raw'[q].time) <= TextKey(raw'[r].time)
    BY <1>0, <2>1, SortedByTextIsSorted
  <2>4. \A n, e : Places(n, e)' = Places(n, e)
    BY <2>1 DEF Places
  <2>. QED  BY <2>1, <2>2, <2>3, <2>4 DEF MergeInv
<1>4. CASE Fail
  <2>1. raw' = raw /\ files' = files /\ f' = f /\ phase' = "failed"
    BY <1>4 DEF Fail, input
  <2>2. \A n, e : Places(n, e)' = Places(n, e)
    BY <2>1 DEF Places
  <2>. QED  BY <2>1, <2>2 DEF MergeInv
<1>5. CASE Logon \/ Logoff \/ PassOver \/ StartDrain \/ Drain \/ Finish \/ UNCHANGED vars
  <2>1. /\ raw' = raw /\ mode' = mode /\ files' = files /\ f' = f
        /\ phase' \in {"pair", "drain", "done"} => phase \in {"pair", "drain", "done"}
    BY <1>5 DEF Logon, Logoff, PassOver, StartDrain, Drain, Finish, Pairing, input, vars
  <2>2. \A n, e : Places(n, e)' = Places(n, e)
    BY <2>1 DEF Places
  <2>. QED  BY <2>1, <2>2 DEF MergeInv
<1>. QED  BY <1>1, <1>2, <1>3, <1>4, <1>5 DEF Next

(* The merge keeps each event as often as the files that open have it, and *)
(* sorts them (sessions_multi). *)
THEOREM MergeCorrect == Spec => []MergeInv
<1>1. Init => MergeInv
  BY MergeInit
<1>2. PairingInv /\ MergeInv /\ [Next]_vars => MergeInv'
  BY MergeKeeps
<1>. QED  BY <1>1, <1>2, PairingCorrect, PTL DEF Spec

LEMMA MergeIsWhole ==
  ASSUME PairingInv, MergeInv
  PROVE  NothingLostInMerge
<1> DEFINE All == UNION { { files[k].events[m] : m \in 1 .. Len(files[k].events) } : k \in 1 .. Len(files) }
<1> SUFFICES ASSUME phase \in {"pair", "drain", "done"}, NEW e \in { ev \in All : IsLogonEvent(ev) }
             PROVE  Cardinality({ k \in 1 .. Len(raw) : raw[k] = e })
                      = Cardinality({ km \in (1 .. Len(files)) \X (1 .. MaxEvents) :
                                        /\ files[km[1]].opens
                                        /\ km[2] <= Len(files[km[1]].events)
                                        /\ files[km[1]].events[km[2]] = e })
  BY Zenon DEF NothingLostInMerge
<1>1. files \in Seq(Files) /\ Len(files) \in Nat /\ f = Len(files) + 1
  BY LenProperties DEF PairingInv, TypeInv, MergeInv
<1>2. e \in Events
  <2>1. PICK i \in 1 .. Len(files) : e \in { files[i].events[m] : m \in 1 .. Len(files[i].events) }
    OBVIOUS
  <2>2. files[i] \in Files
    BY <1>1
  <2>3. files[i].events \in Seq(Events)
    BY <2>2, Lists DEF Files
  <2>. QED  BY <2>1, <2>3
<1>3. IsLogonEvent(e)
  OBVIOUS
<1>4. Occurrences(raw, e) = Cardinality(Places(f, e))
  BY <1>2, <1>3 DEF MergeInv
<1>5. Places(f, e) = { km \in (1 .. Len(files)) \X (1 .. MaxEvents) :
                         /\ files[km[1]].opens
                         /\ km[2] <= Len(files[km[1]].events)
                         /\ files[km[1]].events[km[2]] = e }
  BY <1>1 DEF Places
<1>. QED  BY <1>4, <1>5 DEF Occurrences

(* Every logon event of a file that opens is paired, and no event twice,   *)
(* whichever other files fail to open.                                     *)
THEOREM NothingLost == Spec => []NothingLostInMerge
BY PairingCorrect, MergeCorrect, MergeIsWhole, PTL

-----------------------------------------------------------------------------
(* Pairs across files. *)

(* The texts of times in different seconds sort as the times do. *)
LEMMA SecondsInOrder ==
  ASSUME NEW t \in Nat, NEW u \in Nat, t \div Second < u \div Second
  PROVE  TextKey(t) < TextKey(u)
<1> DEFINE a == LastUnit(t)
           b == LastUnit(u)
<1>1. /\ a \in 1 .. Second /\ t % a = 0 /\ Second % a = 0
      /\ b \in 1 .. Second /\ Second \in Nat \ {0}
  BY LastUnitTyped, SecondAssumption
<1>2. /\ TextKey(t) = (t + a) * (Second + 1) + a
      /\ TextKey(u) = (u + b) * (Second + 1) + b
  BY DEF TextKey
<1>. HIDE DEF a, b
<1>3. (t + a) * (Second + 1) + a < (u + b) * (Second + 1) + b
  BY <1>1, TextOrder
<1>. QED  BY <1>2, <1>3, Zenon

LEMMA DoneIsPaired ==
  ASSUME PairingInv, MergeInv
  PROVE  PairedAcrossFiles
<1> SUFFICES ASSUME mode = "multi", phase = "done", NEW l \in Luids,
                    NEW a \in 1 .. Len(raw), NEW b \in 1 .. Len(raw),
                    Usable(a, "logon"), Usable(b, "logoff"),
                    raw[a].time \div Second < raw[b].time \div Second,
                    \A k \in 1 .. Len(raw) : raw[k].luid = l <=> k \in {a, b}
             PROVE  \E s \in 1 .. Len(closed) :
                      /\ closed[s].luid = l
                      /\ closed[s].logon = raw[a].time /\ closed[s].logoff = raw[b].time
  BY DEF PairedAcrossFiles
<1>1. /\ raw \in Seq(Events) /\ Len(raw) \in Nat
      /\ Reported = Ended(raw, Len(raw) + 1) \cup Live(raw, Len(raw) + 1)
      /\ ClosedIsReported
  BY AllReported
<1>2. raw[a] \in Events /\ raw[b] \in Events
  BY <1>1
<1>3. a < b
  <2>1. raw[a].time \in Nat /\ raw[b].time \in Nat
    BY <1>2, KeyIsKey, SessionAssumption
  <2>2. TextKey(raw[a].time) < TextKey(raw[b].time)
    BY <2>1, SecondsInOrder
  <2>3. TextKey(raw[a].time) \in Nat /\ TextKey(raw[b].time) \in Nat
    BY <2>1, TextKeyTyped
  <2>4. b < a => TextKey(raw[b].time) <= TextKey(raw[a].time)
    BY DEF MergeInv
  <2>. QED  BY <1>1, <2>2, <2>3, <2>4
<1>4. \A k \in 1 .. Len(raw) : KeyOf(raw[k]) = l <=> k \in {a, b}
  <2> SUFFICES ASSUME NEW k \in 1 .. Len(raw) PROVE KeyOf(raw[k]) = l <=> raw[k].luid = l
    OBVIOUS
  <2>. QED  BY SessionAssumption DEF KeyOf
<1>5. IsLogon(raw, a) /\ ~IsLogon(raw, b) /\ raw[a].kind = "logon" /\ raw[b].kind = "logoff" /\ raw[b].data
  BY DEF Usable, IsLogon
<1>6. b \in Ends(raw, a)
  BY <1>3, <1>4, <1>5, SessionAssumption DEF Ends
<1>7. a \in Live(raw, b)
  <2>1. \A k \in 1 .. Len(raw) : a < k /\ k < b => KeyOf(raw[k]) # KeyOf(raw[a])
    BY <1>1, <1>4
  <2>. QED  BY <1>3, <1>5, <2>1 DEF Live, Again, Ends
<1>8. a \in Reported
  BY <1>1, <1>6, <1>7 DEF Ended
<1>9. PICK s \in 1 .. Len(closed) : closed[s].from = a
  BY <1>1, <1>8 DEF ClosedIsReported
<1>10. closed[s] = [OpenSession(raw, a) EXCEPT !.logoff = raw[b].time]
  BY <1>1, <1>6, <1>7, <1>9, EndIsFirst DEF ClosedIsReported
<1>. QED  BY <1>4, <1>10 DEF OpenSession

(* A logon in one file and its logoff in another, the only events of their *)
(* LUID and in different seconds, are paired in whatever order the paths   *)
(* are given. *)
THEOREM PairedAcross == Spec => []PairedAcrossFiles
BY PairingCorrect, MergeCorrect, DoneIsPaired, PTL

-----------------------------------------------------------------------------
(* What a pass has gathered of the first m records of a log.                *)

\* The elements of s are what val has for the positions P, in any order.
Gathers(s, P, val) ==
  \E g \in Bijection(1 .. Len(s), P) : \A j \in 1 .. Len(s) : s[j] = val[g[j]]

Timed(s) == IsSequence(s) /\ \A j \in 1 .. Len(s) : s[j].time \in Nat

Identified(s) == \A j \in 1 .. Len(s) : s[j].id \in Nat

TimelineHolds(a, log, m) ==
  Timed(a.timeline) /\ Len(a.timeline) = Cardinality(DecodedTo(log, m))

EventsHold(a) ==
  \A kind \in Kinds : Timed(a.events[kind]) /\ Identified(a.events[kind])

WithImage(tree, image) == { n \in 1 .. Len(tree) : tree[n].image = image }

\* An image was run as often, and first and last seen, as the nodes say.
Recorded(rare, tree, image) ==
  /\ rare[image].count = Cardinality(WithImage(tree, image))
  /\ \A n \in WithImage(tree, image) :
       /\ TextKey(rare[image].first) <= TextKey(tree[n].time)
       /\ TextKey(tree[n].time) <= TextKey(rare[image].last)

ImagesKnown(rare, tree) == \A n \in 1 .. Len(tree) : tree[n].image \in DOMAIN rare \cup {"-"}

ImagesTold(rare, tree) ==
  \A image \in DOMAIN rare :
    /\ rare[image].first \in Nat /\ rare[image].last \in Nat
    /\ image # "-" => Recorded(rare, tree, image)

ProcessesHold(a) ==
  /\ Timed(a.tree) /\ Len(a.tree) = Len(a.events["ProcessExecution"])
  /\ ImagesKnown(a.rare, a.tree) /\ ImagesTold(a.rare, a.tree)

LogonsOn(log, m, e) == { n \in DecodedTo(log, m) : IsLogonOn(log.records[n], e) }

EdgeOf(rec) == <<Source(rec), rec.host, Parsed(rec, "LogonType", 0)>>

IsLogon4624(rec) == IsEvent(rec, {4624}) /\ Source(rec) # None

GraphHolds(a, log, m) ==
  /\ \A e \in DOMAIN a.graph : a.graph[e] = Cardinality(LogonsOn(log, m, e))
  /\ \A n \in DecodedTo(log, m) :
       IsLogon4624(log.records[n]) => EdgeOf(log.records[n]) \in DOMAIN a.graph

FragmentsOf(log, m, id) == { n \in DecodedTo(log, m) : IsFragment(log.records[n], id) }

Parts(log) == [n \in 1 .. Len(log.records) |-> Part(log.records[n])]

BlockHolds(block, log, m) ==
  /\ block.id # None
  /\ IsSequence(block.parts)
  /\ Gathers(block.parts, FragmentsOf(log, m, block.id), Parts(log))

IdOf(rec) == Text(rec, "ScriptBlockId")

IsScript(rec) == IsEvent(rec, {4104}) /\ IdOf(rec) # None

BlocksApart(blocks) == \A b, c \in 1 .. Len(blocks) : blocks[b].id = blocks[c].id => b = c

BlocksKnown(blocks, log, m) ==
  \A n \in DecodedTo(log, m) :
    IsScript(log.records[n]) => \E b \in 1 .. Len(blocks) : blocks[b].id = IdOf(log.records[n])

BlocksHold(a, log, m) ==
  /\ IsSequence(a.blocks) /\ BlocksApart(a.blocks) /\ BlocksKnown(a.blocks, log, m)
  /\ \A b \in 1 .. Len(a.blocks) : BlockHolds(a.blocks[b], log, m)

WithId(log, m, e) == { n \in DecodedTo(log, m) : log.records[n].eid = e }

FrequencyHolds(a, log, m) ==
  /\ DOMAIN a.freq = { log.records[n].eid : n \in DecodedTo(log, m) }
  /\ \A e \in DOMAIN a.freq : a.freq[e] = Cardinality(WithId(log, m, e))

Holds(a, log, m) ==
  /\ TimelineHolds(a, log, m) /\ EventsHold(a) /\ ProcessesHold(a)
  /\ GraphHolds(a, log, m) /\ BlocksHold(a, log, m) /\ FrequencyHolds(a, log, m)

-----------------------------------------------------------------------------
(* The invariant.                                                           *)

QueryTypeInv ==
  /\ IsSequence(logs) /\ \A k \in 1 .. Len(logs) : IsLog(logs[k])
  /\ at \in 1 .. Len(logs) + 1
  /\ IsSequence(results) /\ Len(results) = at - 1

GatheredInv ==
  /\ Reading => nth \in 1 .. Len(logs[at].records) + 1 /\ Holds(acc, logs[at], nth - 1)
  /\ ~Reading => nth = 1 /\ acc = Nothing

Returned(log, result) ==
  IF log.opens
    THEN \E a : Holds(a, log, Len(log.records)) /\ result = Result(a)
    ELSE result = Failed

ResultsInv == \A k \in 1 .. Len(results) : Returned(logs[k], results[k])

AllLogons == { kn \in UNION { {k} \X Decoded(k) : k \in Opened } :
                 IsLogon4624(logs[kn[1]].records[kn[2]]) }

EdgeAt(kn) == EdgeOf(logs[kn[1]].records[kn[2]])

GraphInv ==
  /\ IsFiniteSet(AllLogons)
  /\ \A e \in DOMAIN graph : graph[e] = Cardinality({ kn \in AllLogons : EdgeAt(kn) = e })
  /\ \A kn \in AllLogons : EdgeAt(kn) \in DOMAIN graph

TotalInv ==
  total # <<>> =>
    /\ at = Len(logs) + 1
    /\ total = <<[edges |-> graph, nodes |-> Nodes(graph),
                  diff  |-> IF {1, 2} \subseteq Opened
                              THEN Diff(results[1].timeline, results[2].timeline) ELSE Failed]>>

-----------------------------------------------------------------------------
(* Gathering.                                                               *)

LEMMA GathersNone ==
  ASSUME NEW val
  PROVE  Gathers(<<>>, {}, val)
<1> DEFINE g == [j \in 1 .. 0 |-> j]
<1>1. 1 .. Len(<<>>) = {} /\ 1 .. 0 = {}
  OBVIOUS
<1>2. g \in Bijection(1 .. Len(<<>>), {})
  BY <1>1 DEF Bijection, Injection, Surjection, IsInjective
<1>. QED  BY <1>1, <1>2 DEF Gathers

LEMMA GathersOne ==
  ASSUME NEW s, IsSequence(s), NEW P, NEW val, Gathers(s, P, val), NEW n, n \notin P
  PROVE  Gathers(Append(s, val[n]), P \cup {n}, val)
<1> DEFINE l == Len(s)
           t == Append(s, val[n])
           Q == P \cup {n}
<1>1. /\ l \in Nat /\ Len(t) = l + 1
      /\ \A j \in 1 .. l : t[j] = s[j]
      /\ t[l + 1] = val[n]
  BY AppendIsSequence
<1>2. PICK g \in Bijection(1 .. l, P) : \A j \in 1 .. l : s[j] = val[g[j]]
  BY DEF Gathers
<1>3. /\ g \in [1 .. l -> P]
      /\ \A i, j \in 1 .. l : g[i] = g[j] => i = j
      /\ \A p \in P : \E j \in 1 .. l : g[j] = p
  BY <1>2 DEF Bijection, Injection, Surjection, IsInjective
<1> DEFINE h == [j \in 1 .. l + 1 |-> IF j <= l THEN g[j] ELSE n]
<1>. HIDE DEF l, t
<1>4. h \in [1 .. l + 1 -> Q]
  BY <1>1, <1>3
<1>5. \A i, j \in 1 .. l + 1 : h[i] = h[j] => i = j
  BY <1>1, <1>3
<1>6. \A p \in Q : \E j \in 1 .. l + 1 : h[j] = p
  <2>1. ASSUME NEW p \in P PROVE \E j \in 1 .. l + 1 : h[j] = p
    <3>1. PICK j \in 1 .. l : g[j] = p
      BY <1>3
    <3>2. j \in 1 .. l + 1 /\ h[j] = p
      BY <3>1, <1>1
    <3>. QED  BY <3>2
  <2>2. l + 1 \in 1 .. l + 1 /\ h[l + 1] = n
    BY <1>1
  <2>. QED  BY <2>1, <2>2
<1>7. h \in Bijection(1 .. Len(t), Q)
  BY <1>1, <1>4, <1>5, <1>6 DEF Bijection, Injection, Surjection, IsInjective
<1>8. \A j \in 1 .. Len(t) : t[j] = val[h[j]]
  BY <1>1, <1>2
<1>. QED  BY <1>7, <1>8 DEF Gathers, t

LEMMA GathersCount ==
  ASSUME NEW s, IsSequence(s), NEW P, NEW val, Gathers(s, P, val)
  PROVE  IsFiniteSet(P) /\ Cardinality(P) = Len(s)
<1>1. s \in Seq({ s[k] : k \in DOMAIN s })
  BY SequenceIs
<1>2. ExistsBijection(1 .. Len(s), P)
  BY DEF Gathers, ExistsBijection
<1>3. IsFiniteSet(1 .. Len(s)) /\ Cardinality(1 .. Len(s)) = Len(s)
  BY <1>1, SeqPositions
<1> DEFINE D == 1 .. Len(s)
           n == Len(s)
<1>4. ExistsBijection(D, P) /\ IsFiniteSet(D) /\ Cardinality(D) = n
  BY <1>2, <1>3
<1>. HIDE DEF D, n
<1>5. IsFiniteSet(P) /\ Cardinality(P) = n
  BY <1>4, FS_Bijection
<1>. QED  BY <1>5 DEF n

-----------------------------------------------------------------------------
(* One record more.                                                         *)

LEMMA DecodedStep ==
  ASSUME NEW log, NEW m \in Nat
  PROVE  /\ IsFiniteSet(DecodedTo(log, m)) /\ Cardinality(DecodedTo(log, m)) \in Nat
         /\ m + 1 \notin DecodedTo(log, m)
         /\ m + 1 \notin DecodedTo(log, m + 1) => DecodedTo(log, m + 1) = DecodedTo(log, m)
         /\ m + 1 \in DecodedTo(log, m + 1) =>
              /\ DecodedTo(log, m + 1) = DecodedTo(log, m) \cup {m + 1}
              /\ Cardinality(DecodedTo(log, m + 1)) = Cardinality(DecodedTo(log, m)) + 1
<1>0. 1 \in Int /\ m \in Int
  OBVIOUS
<1>1. DecodedTo(log, m) \in SUBSET (1 .. m) /\ IsFiniteSet(1 .. m)
  BY <1>0, FS_Interval DEF DecodedTo
<1>2. IsFiniteSet(DecodedTo(log, m)) /\ Cardinality(DecodedTo(log, m)) \in Nat
  <2>1. IsFiniteSet(DecodedTo(log, m))
    BY <1>1, FS_Subset
  <2>. QED  BY <2>1, FS_CardinalityType
<1>3. m + 1 \notin DecodedTo(log, m)
  BY DEF DecodedTo
<1>4. m + 1 \notin DecodedTo(log, m + 1) => DecodedTo(log, m + 1) = DecodedTo(log, m)
  BY DEF DecodedTo
<1>5. m + 1 \in DecodedTo(log, m + 1) => DecodedTo(log, m + 1) = DecodedTo(log, m) \cup {m + 1}
  BY DEF DecodedTo
<1> DEFINE D == DecodedTo(log, m)
<1>6. Cardinality(D \cup {m + 1}) = Cardinality(D) + 1
  BY <1>2, <1>3, FS_AddElement
<1>. QED  BY <1>2, <1>3, <1>4, <1>5, <1>6

LEMMA NoneTimed == Timed(<<>>) /\ Identified(<<>>)
BY NoneIsSequence DEF Timed, Identified

LEMMA AppendTimed ==
  ASSUME NEW s, Timed(s), NEW e, e.time \in Nat
  PROVE  Timed(Append(s, e)) /\ Len(Append(s, e)) = Len(s) + 1
<1>1. /\ IsSequence(Append(s, e))
      /\ Len(s) \in Nat /\ Len(Append(s, e)) = Len(s) + 1
      /\ \A j \in 1 .. Len(s) : Append(s, e)[j] = s[j]
      /\ Append(s, e)[Len(s) + 1] = e
  BY AppendIsSequence DEF Timed
<1>2. ASSUME NEW j \in 1 .. Len(Append(s, e)) PROVE Append(s, e)[j].time \in Nat
  <2>1. CASE j \in 1 .. Len(s)
    BY <1>1, <2>1 DEF Timed
  <2>2. CASE j = Len(s) + 1
    BY <1>1, <2>2
  <2>. QED  BY <1>1, <1>2, <2>1, <2>2
<1>. QED  BY <1>1, <1>2 DEF Timed

LEMMA ConcatTimed ==
  ASSUME NEW s, Timed(s), Identified(s), NEW t, Timed(t), Identified(t)
  PROVE  Timed(s \o t) /\ Identified(s \o t) /\ Len(s \o t) = Len(s) + Len(t)
<1>1. /\ IsSequence(s \o t)
      /\ Len(s) \in Nat /\ Len(t) \in Nat /\ Len(s \o t) = Len(s) + Len(t)
      /\ \A j \in 1 .. Len(s) + Len(t) :
           (s \o t)[j] = IF j <= Len(s) THEN s[j] ELSE t[j - Len(s)]
  BY ConcatIsSequence DEF Timed
<1>2. ASSUME NEW j \in 1 .. Len(s \o t) PROVE (s \o t)[j].time \in Nat /\ (s \o t)[j].id \in Nat
  <2>1. CASE j <= Len(s)
    <3>1. j \in 1 .. Len(s) /\ (s \o t)[j] = s[j]
      BY <1>1, <2>1
    <3>. QED  BY <3>1 DEF Timed, Identified
  <2>2. CASE ~(j <= Len(s))
    <3>1. j - Len(s) \in 1 .. Len(t) /\ (s \o t)[j] = t[j - Len(s)]
      BY <1>1, <2>2
    <3>. QED  BY <3>1 DEF Timed, Identified
  <2>. QED  BY <2>1, <2>2
<1>. QED  BY <1>1, <1>2 DEF Timed, Identified

LEMMA TimelineStep ==
  ASSUME NEW log, IsLog(log), NEW m \in 0 .. Len(log.records) - 1, m + 1 \in DecodedTo(log, m + 1),
         NEW a, TimelineHolds(a, log, m)
  PROVE  TimelineHolds(Gathered(a, log.records[m + 1]), log, m + 1)
<1> DEFINE rec == log.records[m + 1]
<1>1. Gathered(a, rec).timeline = Append(a.timeline, Entry(rec))
  BY DEF Gathered, Timeline
<1>2. Len(log.records) \in Nat /\ m \in Nat /\ m + 1 \in 1 .. Len(log.records)
  BY SequenceIs DEF IsLog
<1>3. Entry(rec).time \in Nat
  BY <1>2 DEF Entry, IsLog, IsRecord
<1>4. Timed(a.timeline) /\ Len(a.timeline) = Cardinality(DecodedTo(log, m))
  BY DEF TimelineHolds
<1>5. Timed(Append(a.timeline, Entry(rec))) /\ Len(Append(a.timeline, Entry(rec))) = Len(a.timeline) + 1
  BY <1>3, <1>4, AppendTimed
<1>6. Cardinality(DecodedTo(log, m + 1)) = Cardinality(DecodedTo(log, m)) + 1
  BY <1>2, DecodedStep
<1>. QED  BY <1>1, <1>4, <1>5, <1>6 DEF TimelineHolds

(* Each extractor finds at most one event in a record, and all of them that *)
(* look for processes find the same.                                        *)
LEMMA ExtractedShort ==
  ASSUME NEW rec, IsRecord(rec), NEW kind \in Kinds
  PROVE  /\ Timed(Extracted(kind, rec)) /\ Identified(Extracted(kind, rec))
         /\ kind = "ProcessExecution" =>
              Len(Extracted(kind, rec)) = IF IsEvent(rec, Creations) THEN 1 ELSE 0
<1>0. rec.time \in Nat /\ rec.id \in Nat
  BY DEF IsRecord
<1>1. ASSUME NEW x, x.time = rec.time, x.id = rec.id
      PROVE  Timed(<<x>>) /\ Identified(<<x>>) /\ Len(<<x>>) = 1
  <2>1. <<x>> \in Seq({x}) /\ Len(<<x>>) = 1 /\ <<x>>[1] = x
    OBVIOUS
  <2>2. IsSequence(<<x>>)
    BY <2>1, IsSequenceFrom
  <2>. QED  BY <1>0, <1>1, <2>1, <2>2 DEF Timed, Identified
<1>2. Timed(<<>>) /\ Identified(<<>>) /\ Len(<<>>) = 0
  BY NoneTimed, NoneIsSequence
<1>3. CASE kind = "LateralMovement"
  BY <1>1, <1>2, <1>3 DEF Extracted, LateralMovement
<1>4. CASE kind = "RdpSession"
  BY <1>1, <1>2, <1>4 DEF Extracted, RdpSessions
<1>5. CASE kind = "SmbAccess"
  BY <1>1, <1>2, <1>5 DEF Extracted, SmbAccess
<1>6. CASE kind = "Defender"
  <2> DEFINE by  == Text(rec, "Process Name")
             tag == Text(rec, "Threat Name")
  <2>0. DefenderEvents(rec) =
          IF ~IsEvent(rec, {1006, 1116, 1117}) THEN <<>>
          ELSE << [time |-> rec.time, id |-> rec.id, by |-> by, onto |-> Text(rec, "Path"), tag |-> tag] >>
    BY Zenon DEF DefenderEvents
  <2>. HIDE DEF by, tag
  <2>1. \/ DefenderEvents(rec) = <<>>
        \/ \E x : /\ DefenderEvents(rec) = <<x>>
                 /\ x.time = rec.time /\ x.id = rec.id
    BY <2>0
  <2>2. Extracted(kind, rec) = DefenderEvents(rec)
    BY <1>6 DEF Extracted
  <2>. QED  BY <1>1, <1>2, <1>6, <2>1, <2>2
<1>7. CASE kind = "Wmi"
  BY <1>1, <1>2, <1>7 DEF Extracted, WmiEvents
<1>8. CASE kind = "ScheduledTask"
  BY <1>1, <1>2, <1>8 DEF Extracted, ScheduledTasks
<1>9. CASE kind = "ProcessExecution"
  BY <1>1, <1>2, <1>9 DEF Extracted, ProcessCmdlines
<1>. QED  BY <1>3, <1>4, <1>5, <1>6, <1>7, <1>8, <1>9 DEF Kinds

LEMMA EventsStep ==
  ASSUME NEW rec, IsRecord(rec), NEW a, EventsHold(a)
  PROVE  /\ EventsHold(Gathered(a, rec))
         /\ Len(Gathered(a, rec).events["ProcessExecution"])
              = Len(a.events["ProcessExecution"]) + IF IsEvent(rec, Creations) THEN 1 ELSE 0
<1> DEFINE b == Gathered(a, rec)
<1>1. \A kind \in Kinds : b.events[kind] = a.events[kind] \o Extracted(kind, rec)
  BY DEF Gathered, Found
<1>. HIDE DEF b
<1>2. ASSUME NEW kind \in Kinds
      PROVE  /\ Timed(b.events[kind]) /\ Identified(b.events[kind])
             /\ Len(b.events[kind]) = Len(a.events[kind]) + Len(Extracted(kind, rec))
  <2>1. Timed(a.events[kind]) /\ Identified(a.events[kind])
    BY DEF EventsHold
  <2>2. Timed(Extracted(kind, rec)) /\ Identified(Extracted(kind, rec))
    BY ExtractedShort
  <2>. QED  BY <1>1, <2>1, <2>2, ConcatTimed
<1>3. "ProcessExecution" \in Kinds
  BY DEF Kinds
<1>4. Len(Extracted("ProcessExecution", rec)) = IF IsEvent(rec, Creations) THEN 1 ELSE 0
  BY <1>3, ExtractedShort
<1>. QED  BY <1>2, <1>3, <1>4 DEF EventsHold, b

-----------------------------------------------------------------------------
(* Processes.                                                               *)

LEMMA WithImageStep ==
  ASSUME NEW tree, Timed(tree), NEW p, NEW image
  PROVE  /\ IsFiniteSet(WithImage(tree, image)) /\ Cardinality(WithImage(tree, image)) \in Nat
         /\ Len(tree) + 1 \notin WithImage(tree, image)
         /\ p.image # image => WithImage(Append(tree, p), image) = WithImage(tree, image)
         /\ p.image = image =>
              /\ WithImage(Append(tree, p), image) = WithImage(tree, image) \cup {Len(tree) + 1}
              /\ Cardinality(WithImage(Append(tree, p), image)) = Cardinality(WithImage(tree, image)) + 1
<1> DEFINE W == WithImage(tree, image)
           l == Len(tree)
           V == WithImage(Append(tree, p), image)
<1>1. /\ l \in Nat /\ Len(Append(tree, p)) = l + 1
      /\ \A j \in 1 .. l : Append(tree, p)[j] = tree[j]
      /\ Append(tree, p)[l + 1] = p
  BY AppendIsSequence DEF Timed
<1>2. IsFiniteSet(W) /\ Cardinality(W) \in Nat
  <2>1. 1 \in Int /\ l \in Int /\ W \in SUBSET (1 .. l)
    BY <1>1 DEF WithImage
  <2>2. IsFiniteSet(1 .. l)
    BY <2>1, FS_Interval
  <2>3. IsFiniteSet(W)
    BY <2>1, <2>2, FS_Subset
  <2>. QED  BY <2>3, FS_CardinalityType
<1>3. l + 1 \notin W
  BY <1>1 DEF WithImage
<1>4. p.image # image => V = W
  BY <1>1 DEF WithImage
<1>5. p.image = image => V = W \cup {l + 1}
  BY <1>1 DEF WithImage
<1>6. Cardinality(W \cup {l + 1}) = Cardinality(W) + 1
  BY <1>2, <1>3, FS_AddElement
<1>. QED  BY <1>2, <1>3, <1>4, <1>5, <1>6

LEMMA ProcessOf ==
  ASSUME NEW rec, rec.eid \in Creations
  PROVE  /\ Process(rec).time = rec.time
         /\ Process(rec).image = IF ImageOf(rec) = None THEN "-" ELSE ImageOf(rec)
BY DEF Process, ImageOf, TextOr, Creations

(* A process of another image changes nothing for this one, *)
LEMMA OtherRecorded ==
  ASSUME NEW tree, Timed(tree), NEW p, NEW image, p.image # image,
         NEW rare, NEW more, more[image] = rare[image], Recorded(rare, tree, image)
  PROVE  Recorded(more, Append(tree, p), image)
<1>1. WithImage(Append(tree, p), image) = WithImage(tree, image)
  BY WithImageStep
<1>2. \A j \in 1 .. Len(tree) : Append(tree, p)[j] = tree[j]
  BY AppendIsSequence DEF Timed
<1>3. \A n \in WithImage(tree, image) : Append(tree, p)[n] = tree[n]
  BY <1>2 DEF WithImage
<1>. QED  BY <1>1, <1>3 DEF Recorded

(* and one of its own is counted. *)
LEMMA OwnRecorded ==
  ASSUME NEW tree, Timed(tree), NEW p, p.time \in Nat,
         NEW rare, NEW more, NEW old, old.first \in Nat, old.last \in Nat,
         old.count = Cardinality(WithImage(tree, p.image)),
         \A n \in WithImage(tree, p.image) : /\ TextKey(old.first) <= TextKey(tree[n].time)
                                             /\ TextKey(tree[n].time) <= TextKey(old.last),
         more[p.image] =
           [count |-> old.count + 1,
            first |-> IF TextKey(p.time) < TextKey(old.first) THEN p.time ELSE old.first,
            last  |-> IF TextKey(p.time) > TextKey(old.last)  THEN p.time ELSE old.last]
  PROVE  Recorded(more, Append(tree, p), p.image)
<1> DEFINE W == WithImage(tree, p.image)
           l == Len(tree)
           t == Append(tree, p)
           first == more[p.image].first
           last  == more[p.image].last
<1>1. /\ WithImage(t, p.image) = W \cup {l + 1}
      /\ Cardinality(WithImage(t, p.image)) = Cardinality(W) + 1
  BY WithImageStep
<1>2. /\ \A j \in 1 .. l : t[j] = tree[j]
      /\ t[l + 1] = p
  BY AppendIsSequence DEF Timed
<1>3. more[p.image].count = Cardinality(WithImage(t, p.image))
  BY <1>1
<1>4. /\ TextKey(p.time) \in Nat /\ TextKey(old.first) \in Nat /\ TextKey(old.last) \in Nat
      /\ \A j \in 1 .. l : TextKey(tree[j].time) \in Nat
  BY TextKeyTyped DEF Timed
<1>5. /\ first = IF TextKey(p.time) < TextKey(old.first) THEN p.time ELSE old.first
      /\ last  = IF TextKey(p.time) > TextKey(old.last)  THEN p.time ELSE old.last
  OBVIOUS
<1>. HIDE DEF first, last
<1>6. /\ TextKey(first) <= TextKey(p.time) /\ TextKey(first) <= TextKey(old.first)
      /\ TextKey(p.time) <= TextKey(last) /\ TextKey(old.last) <= TextKey(last)
      /\ TextKey(first) \in Nat /\ TextKey(last) \in Nat
  BY <1>4, <1>5
<1>7. ASSUME NEW n \in W \cup {l + 1}
      PROVE  TextKey(first) <= TextKey(t[n].time) /\ TextKey(t[n].time) <= TextKey(last)
  <2>1. CASE n \in W
    <3>1. n \in 1 .. l /\ t[n] = tree[n]
      BY <1>2, <2>1 DEF WithImage
    <3>2. TextKey(old.first) <= TextKey(tree[n].time) /\ TextKey(tree[n].time) <= TextKey(old.last)
      BY <2>1
    <3>3. TextKey(tree[n].time) \in Nat
      BY <1>4, <3>1
    <3>. HIDE DEF W, t, l
    <3>. QED  BY <1>4, <1>6, <3>1, <3>2, <3>3
  <2>2. CASE n = l + 1
    BY <1>2, <1>6, <2>2
  <2>. QED  BY <2>1, <2>2
<1>. QED  BY <1>1, <1>3, <1>7 DEF Recorded, first, last

LEMMA ProcessesStep ==
  ASSUME NEW rec, IsRecord(rec), NEW a, EventsHold(a), ProcessesHold(a)
  PROVE  ProcessesHold(Gathered(a, rec))
<1> DEFINE b == Gathered(a, rec)
           p == Process(rec)
           i == ImageOf(rec)
<1>1. b.tree = ProcessTree(a.tree, rec) /\ b.rare = Rare(a.rare, rec)
  BY DEF Gathered
<1>2. Len(b.events["ProcessExecution"])
        = Len(a.events["ProcessExecution"]) + IF IsEvent(rec, Creations) THEN 1 ELSE 0
  BY EventsStep
<1>3. /\ Timed(a.tree) /\ Len(a.tree) = Len(a.events["ProcessExecution"]) /\ Len(a.tree) \in Nat
      /\ ImagesKnown(a.rare, a.tree) /\ ImagesTold(a.rare, a.tree)
  BY SequenceIs DEF ProcessesHold, Timed
<1>. HIDE DEF b
<1>4. ASSUME ~IsEvent(rec, Creations) PROVE ProcessesHold(b)
  <2>1. b.tree = a.tree /\ b.rare = a.rare
    BY <1>1, <1>4 DEF ProcessTree, Rare
  <2>2. Len(b.events["ProcessExecution"]) = Len(a.events["ProcessExecution"])
    BY <1>2, <1>3, <1>4
  <2>. QED  BY <1>3, <2>1, <2>2 DEF ProcessesHold
<1>5. ASSUME IsEvent(rec, Creations) PROVE ProcessesHold(b)
  <2>0. rec.eid \in Creations /\ rec.time \in Nat
    BY <1>5 DEF IsEvent, IsRecord
  <2>1. p.time = rec.time /\ p.time \in Nat /\ p.image = IF i = None THEN "-" ELSE i
    BY <2>0, ProcessOf
  <2>2. b.tree = Append(a.tree, p)
    BY <1>1, <1>5 DEF ProcessTree
  <2>. HIDE DEF p
  <2>3. /\ Timed(b.tree) /\ Len(b.tree) = Len(a.tree) + 1
        /\ \A j \in 1 .. Len(a.tree) : b.tree[j] = a.tree[j]
        /\ b.tree[Len(a.tree) + 1] = p
    BY <1>3, <2>1, <2>2, AppendTimed, AppendIsSequence, SMTT(30) DEF Timed
  <2>4. Len(b.tree) = Len(b.events["ProcessExecution"])
    BY <1>2, <1>3, <1>5, <2>3
  <2>5. CASE i = None
    <3>1. b.rare = a.rare /\ p.image = "-"
      BY <1>1, <2>1, <2>5 DEF Rare
    <3>2. ImagesKnown(b.rare, b.tree)
      <4>1. ASSUME NEW n \in 1 .. Len(b.tree)
            PROVE  b.tree[n].image \in DOMAIN b.rare \cup {"-"}
        <5>1. CASE n \in 1 .. Len(a.tree)
          BY <1>3, <2>3, <3>1, <5>1 DEF ImagesKnown
        <5>2. CASE n = Len(a.tree) + 1
          BY <2>3, <3>1, <5>2
        <5>. QED  BY <1>3, <2>3, <5>1, <5>2, SMTT(20)
      <4>. QED  BY <4>1 DEF ImagesKnown
    <3>3. ASSUME NEW image \in DOMAIN a.rare, image # "-"
          PROVE  Recorded(b.rare, b.tree, image)
      <4>1. Recorded(a.rare, a.tree, image)
        BY <1>3, <3>3 DEF ImagesTold
      <4>. QED  BY <1>3, <2>2, <3>1, <3>3, <4>1, OtherRecorded
    <3>4. ImagesTold(b.rare, b.tree)
      BY <1>3, <3>1, <3>3 DEF ImagesTold
    <3>. QED  BY <2>3, <2>4, <3>2, <3>4 DEF ProcessesHold
  <2>6. CASE i # None
    <3> DEFINE old == IF i \in DOMAIN a.rare THEN a.rare[i]
                      ELSE [count |-> 0, first |-> rec.time, last |-> rec.time]
               new == [count |-> old.count + 1,
                       first |-> IF TextKey(rec.time) < TextKey(old.first) THEN rec.time ELSE old.first,
                       last  |-> IF TextKey(rec.time) > TextKey(old.last)  THEN rec.time ELSE old.last]
    <3>1. b.rare = Put(a.rare, i, new) /\ p.image = i
      BY <1>1, <1>5, <2>1, <2>6 DEF Rare
    <3>2. old.first \in Nat /\ old.last \in Nat
      BY <1>3, <2>0 DEF ImagesTold
    <3>3. new.first \in Nat /\ new.last \in Nat
      BY <2>0, <3>2
    <3>4. /\ DOMAIN b.rare = DOMAIN a.rare \cup {i} /\ b.rare[i] = new
          /\ \A image \in DOMAIN a.rare : image # i => b.rare[image] = a.rare[image]
      BY <3>1 DEF Put
    <3>5. ImagesKnown(b.rare, b.tree)
      <4>1. ASSUME NEW n \in 1 .. Len(b.tree)
            PROVE  b.tree[n].image \in DOMAIN b.rare \cup {"-"}
        <5>1. CASE n \in 1 .. Len(a.tree)
          <6>1. a.tree[n].image \in DOMAIN a.rare \cup {"-"} /\ b.tree[n] = a.tree[n]
            BY <1>3, <2>3, <5>1 DEF ImagesKnown
          <6>. QED  BY <3>4, <6>1
        <5>2. CASE n = Len(a.tree) + 1
          BY <2>3, <3>1, <3>4, <5>2
        <5>. QED  BY <1>3, <2>3, <5>1, <5>2, SMTT(20)
      <4>. QED  BY <4>1 DEF ImagesKnown
    <3>6. ASSUME NEW image \in DOMAIN a.rare, image # "-", image # i
          PROVE  Recorded(b.rare, b.tree, image)
      <4>1. Recorded(a.rare, a.tree, image)
        BY <1>3, <3>6 DEF ImagesTold
      <4>. QED  BY <1>3, <2>2, <3>1, <3>4, <3>6, <4>1, OtherRecorded
    <3>7. ASSUME i # "-" PROVE Recorded(b.rare, b.tree, i)
      <4>1. CASE i \in DOMAIN a.rare
        <5>1. Recorded(a.rare, a.tree, i) /\ old = a.rare[i]
          BY <1>3, <3>7, <4>1 DEF ImagesTold
        <5>. HIDE DEF old
        <5>2. /\ old.count = Cardinality(WithImage(a.tree, i))
              /\ \A n \in WithImage(a.tree, i) : /\ TextKey(old.first) <= TextKey(a.tree[n].time)
                                                /\ TextKey(a.tree[n].time) <= TextKey(old.last)
          BY <5>1 DEF Recorded
        <5>. QED  BY <1>3, <2>1, <2>2, <3>1, <3>2, <3>4, <5>2, OwnRecorded, SMTT(20)
      <4>2. CASE i \notin DOMAIN a.rare
        <5>1. WithImage(a.tree, i) = {}
          BY <1>3, <3>7, <4>2 DEF WithImage, ImagesKnown
        <5>2. Cardinality(WithImage(a.tree, i)) = 0
          BY <5>1, FS_EmptySet
        <5>3. old.count = 0
          BY <4>2
        <5>4. /\ old.count = Cardinality(WithImage(a.tree, p.image))
              /\ \A n \in WithImage(a.tree, p.image) : /\ TextKey(old.first) <= TextKey(a.tree[n].time)
                                                      /\ TextKey(a.tree[n].time) <= TextKey(old.last)
          BY <3>1, <5>1, <5>2, <5>3
        <5>. HIDE DEF old
        <5>. QED  BY <5>4, <1>3, <2>1, <2>2, <3>1, <3>2, <3>4, <5>1, <5>2, <5>3, OwnRecorded, SMTT(30)
      <4>. QED  BY <4>1, <4>2
    <3>. HIDE DEF new, old
    <3>8. ImagesTold(b.rare, b.tree)
      <4>1. ASSUME NEW image \in DOMAIN b.rare
            PROVE  /\ b.rare[image].first \in Nat /\ b.rare[image].last \in Nat
                   /\ image # "-" => Recorded(b.rare, b.tree, image)
        <5>1. CASE image = i
          BY <3>3, <3>4, <3>7, <5>1
        <5>2. CASE image # i
          <6>1. image \in DOMAIN a.rare /\ b.rare[image] = a.rare[image]
            BY <3>4, <5>2
          <6>2. a.rare[image].first \in Nat /\ a.rare[image].last \in Nat
            BY <1>3, <6>1 DEF ImagesTold
          <6>. QED  BY <3>6, <5>2, <6>1, <6>2
        <5>. QED  BY <5>1, <5>2
      <4>. QED  BY <4>1 DEF ImagesTold
    <3>. QED  BY <2>3, <2>4, <3>5, <3>8 DEF ProcessesHold
  <2>. QED  BY <2>5, <2>6
<1>. QED  BY <1>4, <1>5 DEF b

-----------------------------------------------------------------------------
(* The logon graph.                                                         *)

LEMMA LogonsFinite ==
  ASSUME NEW log, NEW m \in Nat, NEW e
  PROVE  IsFiniteSet(LogonsOn(log, m, e)) /\ Cardinality(LogonsOn(log, m, e)) \in Nat
<1>1. LogonsOn(log, m, e) \in SUBSET DecodedTo(log, m)
  BY DEF LogonsOn
<1>2. IsFiniteSet(LogonsOn(log, m, e))
  BY <1>1, DecodedStep, FS_Subset
<1>. QED  BY <1>2, FS_CardinalityType

LEMMA GraphStep ==
  ASSUME NEW log, NEW m \in Nat, m + 1 \in DecodedTo(log, m + 1), NEW a, GraphHolds(a, log, m)
  PROVE  GraphHolds(Gathered(a, log.records[m + 1]), log, m + 1)
<1> DEFINE rec == log.records[m + 1]
           g == a.graph
           h == Gathered(a, rec).graph
           x == EdgeOf(rec)
<1>1. h = LogonGraph(g, rec)
  BY DEF Gathered
<1>2. DecodedTo(log, m + 1) = DecodedTo(log, m) \cup {m + 1} /\ m + 1 \notin DecodedTo(log, m)
  BY DecodedStep
<1>3. \A e : IsLogonOn(rec, e) <=> IsLogon4624(rec) /\ e = x
  BY DEF IsLogonOn, IsLogon4624, EdgeOf
<1>4. /\ \A e \in DOMAIN g : g[e] = Cardinality(LogonsOn(log, m, e))
      /\ \A n \in DecodedTo(log, m) :
           IsLogon4624(log.records[n]) => EdgeOf(log.records[n]) \in DOMAIN g
  BY DEF GraphHolds
<1>5. h = IF IsLogon4624(rec) THEN Counted(g, x) ELSE g
  BY <1>1 DEF LogonGraph, IsLogon4624, EdgeOf
<1>6. ASSUME NEW e, ~IsLogonOn(rec, e)
      PROVE  LogonsOn(log, m + 1, e) = LogonsOn(log, m, e)
  BY <1>2, <1>6 DEF LogonsOn
<1>7. ASSUME NEW e, IsLogonOn(rec, e)
      PROVE  Cardinality(LogonsOn(log, m + 1, e)) = Cardinality(LogonsOn(log, m, e)) + 1
  <2>1. LogonsOn(log, m + 1, e) = LogonsOn(log, m, e) \cup {m + 1}
    BY <1>2, <1>7 DEF LogonsOn
  <2>2. m + 1 \notin LogonsOn(log, m, e)
    BY <1>2 DEF LogonsOn
  <2>. QED  BY <2>1, <2>2, LogonsFinite, FS_AddElement
<1>. HIDE DEF h, g
<1>8. ASSUME NEW e \in DOMAIN h PROVE h[e] = Cardinality(LogonsOn(log, m + 1, e))
  <2>1. CASE ~IsLogonOn(rec, e)
    <3>1. e \in DOMAIN g /\ h[e] = g[e]
      <4>1. CASE IsLogon4624(rec)
        <5>1. e # x /\ h = Counted(g, x)
          BY <1>3, <1>5, <2>1, <4>1
        <5>2. e \in DOMAIN g /\ h[e] = CountOf(g, e) + 0
          BY <5>1 DEF Counted
        <5>3. g[e] \in Nat
          BY <1>4, <5>2, LogonsFinite
        <5>. QED  BY <5>2, <5>3 DEF CountOf
      <4>2. CASE ~IsLogon4624(rec)
        BY <1>5, <4>2
      <4>. QED  BY <4>1, <4>2
    <3>. QED  BY <1>4, <1>6, <2>1, <3>1
  <2>2. CASE IsLogonOn(rec, e)
    <3>1. e = x /\ h = Counted(g, x)
      BY <1>3, <1>5, <2>2
    <3>2. h[e] = CountOf(g, e) + 1
      BY <3>1 DEF Counted
    <3>3. CountOf(g, e) = Cardinality(LogonsOn(log, m, e))
      <4>1. CASE e \in DOMAIN g
        BY <1>4, <4>1 DEF CountOf
      <4>2. CASE e \notin DOMAIN g
        <5>1. LogonsOn(log, m, e) = {}
          BY <1>4, <4>2 DEF LogonsOn, IsLogonOn, IsLogon4624, EdgeOf
        <5>. QED  BY <4>2, <5>1, FS_EmptySet DEF CountOf
      <4>. QED  BY <4>1, <4>2
    <3>. QED  BY <1>7, <2>2, <3>2, <3>3
  <2>. QED  BY <2>1, <2>2
<1>9. ASSUME NEW n \in DecodedTo(log, m + 1), IsLogon4624(log.records[n])
      PROVE  EdgeOf(log.records[n]) \in DOMAIN h
  <2>1. DOMAIN g \subseteq DOMAIN h
    BY <1>5 DEF Counted
  <2>2. CASE n \in DecodedTo(log, m)
    BY <1>4, <1>9, <2>1, <2>2
  <2>3. CASE n = m + 1
    <3>1. h = Counted(g, x)
      BY <1>5, <1>9, <2>3
    <3>. QED  BY <2>3, <3>1 DEF Counted
  <2>. QED  BY <1>2, <2>2, <2>3
<1>. QED  BY <1>8, <1>9 DEF GraphHolds, h

-----------------------------------------------------------------------------
(* Script blocks.                                                           *)

LEMMA FragmentsStep ==
  ASSUME NEW log, NEW m \in Nat, m + 1 \in DecodedTo(log, m + 1), NEW id, id # None
  PROVE  /\ m + 1 \notin FragmentsOf(log, m, id)
         /\ IsScript(log.records[m + 1]) /\ IdOf(log.records[m + 1]) = id =>
              FragmentsOf(log, m + 1, id) = FragmentsOf(log, m, id) \cup {m + 1}
         /\ ~(IsScript(log.records[m + 1]) /\ IdOf(log.records[m + 1]) = id) =>
              FragmentsOf(log, m + 1, id) = FragmentsOf(log, m, id)
<1>1. DecodedTo(log, m + 1) = DecodedTo(log, m) \cup {m + 1} /\ m + 1 \notin DecodedTo(log, m)
  BY DecodedStep
<1>. QED  BY <1>1 DEF FragmentsOf, IsFragment, IsScript, IdOf

(* A block that the record is no fragment of stays as it is, *)
LEMMA OtherBlock ==
  ASSUME NEW log, NEW m \in Nat, m + 1 \in DecodedTo(log, m + 1), NEW block, BlockHolds(block, log, m),
         ~(IsScript(log.records[m + 1]) /\ IdOf(log.records[m + 1]) = block.id)
  PROVE  BlockHolds(block, log, m + 1)
<1>1. block.id # None
  BY DEF BlockHolds
<1>2. FragmentsOf(log, m + 1, block.id) = FragmentsOf(log, m, block.id)
  BY <1>1, FragmentsStep
<1>. QED  BY <1>2 DEF BlockHolds

(* and the record is gathered into its own. *)
LEMMA OwnBlock ==
  ASSUME NEW log, NEW m \in Nat, m + 1 \in 1 .. Len(log.records), m + 1 \in DecodedTo(log, m + 1),
         NEW block, IsScript(log.records[m + 1]), IdOf(log.records[m + 1]) = block.id,
         NEW parts, IsSequence(parts), Gathers(parts, FragmentsOf(log, m, block.id), Parts(log)),
         block.parts = Append(parts, Part(log.records[m + 1]))
  PROVE  BlockHolds(block, log, m + 1)
<1>1. block.id # None
  BY DEF IsScript
<1>2. /\ FragmentsOf(log, m + 1, block.id) = FragmentsOf(log, m, block.id) \cup {m + 1}
      /\ m + 1 \notin FragmentsOf(log, m, block.id)
  BY <1>1, FragmentsStep
<1>3. Parts(log)[m + 1] = Part(log.records[m + 1])
  BY DEF Parts
<1>4. IsSequence(block.parts)
  BY AppendIsSequence
<1> DEFINE P == FragmentsOf(log, m, block.id)
           val == Parts(log)
           n == m + 1
<1>. HIDE DEF P, val, n
<1>5. Gathers(Append(parts, val[n]), P \cup {n}, val)
  <2>1. Gathers(parts, P, val) /\ n \notin P
    BY <1>2 DEF P, val, n
  <2>. QED  BY <2>1, GathersOne
<1>6. Gathers(block.parts, FragmentsOf(log, m + 1, block.id), Parts(log))
  BY <1>2, <1>3, <1>5 DEF P, val, n
<1>. QED  BY <1>1, <1>4, <1>6 DEF BlockHolds

LEMMA BlocksStep ==
  ASSUME NEW log, NEW m \in Nat, m + 1 \in 1 .. Len(log.records), m + 1 \in DecodedTo(log, m + 1),
         NEW a, BlocksHold(a, log, m)
  PROVE  BlocksHold(Gathered(a, log.records[m + 1]), log, m + 1)
<1> DEFINE rec == log.records[m + 1]
           s == a.blocks
           t == Gathered(a, rec).blocks
           id == IdOf(rec)
           known == { k \in DOMAIN s : s[k].id = id }
<1>1. t = Blocks(s, rec)
  BY DEF Gathered
<1>2. DecodedTo(log, m + 1) = DecodedTo(log, m) \cup {m + 1}
  BY DecodedStep
<1>3. /\ IsSequence(s) /\ BlocksApart(s) /\ BlocksKnown(s, log, m)
      /\ \A b \in 1 .. Len(s) : BlockHolds(s[b], log, m)
  BY DEF BlocksHold
<1>4. Len(s) \in Nat /\ DOMAIN s = 1 .. Len(s)
  BY <1>3, SequenceIs
<1>. HIDE DEF s, t
<1>5. SUFFICES /\ IsSequence(t) /\ BlocksApart(t) /\ BlocksKnown(t, log, m + 1)
               /\ \A b \in 1 .. Len(t) : BlockHolds(t[b], log, m + 1)
  BY DEF BlocksHold, t
<1>6. CASE ~IsScript(rec)
  <2>1. t = s
    BY <1>1, <1>6 DEF Blocks, IsScript, IdOf
  <2>2. BlocksKnown(s, log, m + 1)
    BY <1>2, <1>3, <1>6 DEF BlocksKnown
  <2>3. \A b \in 1 .. Len(s) : BlockHolds(s[b], log, m + 1)
    BY <1>3, <1>6, OtherBlock
  <2>. QED  BY <1>3, <2>1, <2>2, <2>3
<1>7. CASE IsScript(rec) /\ known = {}
  <2> DEFINE new == [id |-> id, path |-> Text(rec, "Path"), parts |-> <<Part(rec)>>]
  <2>1. t = Append(s, new)
    BY <1>1, <1>7 DEF Blocks, IsScript, IdOf
  <2>2. /\ IsSequence(t) /\ Len(t) = Len(s) + 1
        /\ \A j \in 1 .. Len(s) : t[j] = s[j]
        /\ t[Len(s) + 1] = new
    BY <1>3, <2>1, AppendIsSequence
  <2>3. \A j \in 1 .. Len(s) : s[j].id # id
    BY <1>4, <1>7
  <2>4. FragmentsOf(log, m, id) = {}
    <3>1. ASSUME NEW n \in DecodedTo(log, m), IsFragment(log.records[n], id) PROVE FALSE
      <4>1. IsScript(log.records[n]) /\ IdOf(log.records[n]) = id
        BY <1>7, <3>1 DEF IsFragment, IsScript, IdOf
      <4>. QED  BY <1>3, <2>3, <3>1, <4>1 DEF BlocksKnown
    <3>. QED  BY <3>1 DEF FragmentsOf
  <2>5. BlockHolds(new, log, m + 1)
    <3>1. IsSequence(<<>>) /\ Gathers(<<>>, FragmentsOf(log, m, new.id), Parts(log))
      BY <2>4, NoneIsSequence, GathersNone
    <3>2. new.parts = Append(<<>>, Part(rec)) /\ new.id = id
      OBVIOUS
    <3>. QED  BY <1>7, <3>1, <3>2, OwnBlock
  <2>. HIDE DEF new
  <2>6. new.id = id
    BY DEF new
  <2>7. BlocksApart(t)
    BY <1>3, <1>4, <2>2, <2>3, <2>6 DEF BlocksApart
  <2>8. BlocksKnown(t, log, m + 1)
    <3>1. ASSUME NEW n \in DecodedTo(log, m + 1), IsScript(log.records[n])
          PROVE  \E b \in 1 .. Len(t) : t[b].id = IdOf(log.records[n])
      <4>1. CASE n \in DecodedTo(log, m)
        <5>1. PICK b \in 1 .. Len(s) : s[b].id = IdOf(log.records[n])
          BY <1>3, <3>1, <4>1 DEF BlocksKnown
        <5>2. b \in 1 .. Len(t) /\ t[b] = s[b]
          BY <1>4, <2>2
        <5>. QED  BY <5>1, <5>2
      <4>2. CASE n = m + 1
        <5>1. Len(s) + 1 \in 1 .. Len(t) /\ t[Len(s) + 1].id = IdOf(log.records[n])
          BY <1>4, <2>2, <2>6, <4>2
        <5>. QED  BY <5>1
      <4>. QED  BY <1>2, <4>1, <4>2
    <3>. QED  BY <3>1 DEF BlocksKnown
  <2>9. ASSUME NEW b \in 1 .. Len(t) PROVE BlockHolds(t[b], log, m + 1)
    <3>1. CASE b \in 1 .. Len(s)
      <4>1. BlockHolds(s[b], log, m) /\ s[b].id # id /\ t[b] = s[b]
        BY <1>3, <2>2, <2>3, <3>1
      <4>. QED  BY <4>1, OtherBlock
    <3>2. CASE b = Len(s) + 1
      BY <2>2, <2>5, <3>2
    <3>. QED  BY <1>4, <2>2, <3>1, <3>2
  <2>. QED  BY <2>2, <2>7, <2>8, <2>9
<1>8. CASE IsScript(rec) /\ known # {}
  <2> DEFINE with(k) == [id |-> id, path |-> s[k].path, parts |-> Append(s[k].parts, Part(rec))]
  <2>1. t = [k \in DOMAIN s |-> IF k \notin known THEN s[k] ELSE with(k)]
    BY <1>1, <1>8 DEF Blocks, IsScript, IdOf
  <2>2. IsSequence(t) /\ Len(t) = Len(s)
    <3>1. DOMAIN t = 1 .. Len(s) /\ t = [k \in 1 .. Len(s) |-> t[k]]
      BY <1>4, <2>1
    <3>. QED  BY <1>4, <3>1, MadeSequence
  <2>3. \A k \in 1 .. Len(s) : t[k] = IF s[k].id = id THEN with(k) ELSE s[k]
    BY <1>4, <2>1
  <2>4. \A k \in 1 .. Len(s) : t[k].id = s[k].id
    <3>1. ASSUME NEW k \in 1 .. Len(s), s[k].id = id PROVE with(k).id = s[k].id
      BY <3>1
    <3>. QED  BY <2>3, <3>1
  <2>. HIDE DEF with
  <2>5. BlocksApart(t)
    BY <1>3, <2>2, <2>4 DEF BlocksApart
  <2>6. PICK k0 \in 1 .. Len(s) : s[k0].id = id
    BY <1>4, <1>8
  <2>7. BlocksKnown(t, log, m + 1)
    BY <1>2, <1>3, <2>2, <2>4, <2>6 DEF BlocksKnown
  <2>8. ASSUME NEW b \in 1 .. Len(t) PROVE BlockHolds(t[b], log, m + 1)
    <3>0. b \in 1 .. Len(s) /\ BlockHolds(s[b], log, m)
      BY <1>3, <2>2
    <3>1. CASE s[b].id = id
      <4>1. t[b] = with(b) /\ t[b].id = id
        BY <2>3, <2>4, <3>0, <3>1
      <4>2. t[b].parts = Append(s[b].parts, Part(rec))
        BY <4>1 DEF with
      <4>3. IsSequence(s[b].parts) /\ Gathers(s[b].parts, FragmentsOf(log, m, t[b].id), Parts(log))
        BY <3>0, <3>1, <4>1 DEF BlockHolds
      <4>. QED  BY <1>8, <4>1, <4>2, <4>3, OwnBlock
    <3>2. CASE s[b].id # id
      <4>1. t[b] = s[b]
        BY <2>3, <3>0, <3>2
      <4>. QED  BY <3>0, <3>2, <4>1, OtherBlock
    <3>. QED  BY <3>1, <3>2
  <2>. QED  BY <2>2, <2>5, <2>7, <2>8
<1>. QED  BY <1>6, <1>7, <1>8

-----------------------------------------------------------------------------
(* All the passes.                                                          *)

LEMMA IdsFinite ==
  ASSUME NEW log, NEW m \in Nat
  PROVE  \A e : IsFiniteSet(WithId(log, m, e)) /\ Cardinality(WithId(log, m, e)) \in Nat
<1>1. \A e : WithId(log, m, e) \in SUBSET DecodedTo(log, m)
  BY DEF WithId
<1>2. \A e : IsFiniteSet(WithId(log, m, e))
  BY <1>1, DecodedStep, FS_Subset
<1>. QED  BY <1>2, FS_CardinalityType

LEMMA FrequencyStep ==
  ASSUME NEW log, NEW m \in Nat, m + 1 \in DecodedTo(log, m + 1), NEW a, FrequencyHolds(a, log, m)
  PROVE  FrequencyHolds(Gathered(a, log.records[m + 1]), log, m + 1)
<1> DEFINE rec == log.records[m + 1]
           g == a.freq
           h == Gathered(a, rec).freq
<1>1. h = Counted(g, rec.eid)
  BY DEF Gathered, Frequency
<1>2. DecodedTo(log, m + 1) = DecodedTo(log, m) \cup {m + 1} /\ m + 1 \notin DecodedTo(log, m)
  BY DecodedStep
<1>3. /\ DOMAIN g = { log.records[n].eid : n \in DecodedTo(log, m) }
      /\ \A e \in DOMAIN g : g[e] = Cardinality(WithId(log, m, e))
  BY DEF FrequencyHolds
<1>4. DOMAIN h = { log.records[n].eid : n \in DecodedTo(log, m + 1) }
  BY <1>1, <1>2, <1>3 DEF Counted
<1>. HIDE DEF g, h
<1>5. ASSUME NEW e \in DOMAIN h PROVE h[e] = Cardinality(WithId(log, m + 1, e))
  <2>1. CountOf(g, e) = Cardinality(WithId(log, m, e))
    <3>1. CASE e \in DOMAIN g
      BY <1>3, <3>1 DEF CountOf
    <3>2. CASE e \notin DOMAIN g
      <4>1. WithId(log, m, e) = {}
        BY <1>3, <3>2 DEF WithId
      <4>. QED  BY <3>2, <4>1, FS_EmptySet DEF CountOf
    <3>. QED  BY <3>1, <3>2
  <2>2. CASE e = rec.eid
    <3>1. WithId(log, m + 1, e) = WithId(log, m, e) \cup {m + 1} /\ m + 1 \notin WithId(log, m, e)
      BY <1>2, <2>2 DEF WithId
    <3>2. Cardinality(WithId(log, m + 1, e)) = Cardinality(WithId(log, m, e)) + 1
      BY <3>1, IdsFinite, FS_AddElement
    <3>3. h[e] = CountOf(g, e) + 1
      BY <1>1, <2>2 DEF Counted
    <3>. QED  BY <2>1, <3>2, <3>3
  <2>3. CASE e # rec.eid
    <3>1. WithId(log, m + 1, e) = WithId(log, m, e)
      BY <1>2, <2>3 DEF WithId
    <3>2. h[e] = CountOf(g, e) + 0
      BY <1>1, <2>3 DEF Counted
    <3>. QED  BY <2>1, <3>1, <3>2, IdsFinite
  <2>. QED  BY <2>2, <2>3
<1>. QED  BY <1>4, <1>5 DEF FrequencyHolds, h

LEMMA NothingHolds ==
  ASSUME NEW log
  PROVE  Holds(Nothing, log, 0)
<1>1. DecodedTo(log, 0) = {}
  BY DEF DecodedTo
<1>2. TimelineHolds(Nothing, log, 0)
  BY <1>1, NoneTimed, NoneIsSequence, FS_EmptySet DEF TimelineHolds, Nothing
<1>3. \A kind \in Kinds : Nothing.events[kind] = <<>>
  BY DEF Nothing
<1>4. EventsHold(Nothing)
  BY <1>3, NoneTimed DEF EventsHold
<1>5. ProcessesHold(Nothing)
  <2>1. Nothing.tree = <<>> /\ DOMAIN Nothing.rare = {}
    BY DEF Nothing
  <2>2. Nothing.events["ProcessExecution"] = <<>>
    BY <1>3 DEF Kinds
  <2>. QED  BY <2>1, <2>2, NoneTimed, NoneIsSequence DEF ProcessesHold, ImagesKnown, ImagesTold
<1>6. GraphHolds(Nothing, log, 0)
  <2>1. DOMAIN Nothing.graph = {}
    BY DEF Nothing, NoCounts
  <2>. QED  BY <1>1, <2>1 DEF GraphHolds
<1>7. BlocksHold(Nothing, log, 0)
  <2>1. Nothing.blocks = <<>>
    BY DEF Nothing
  <2>. QED  BY <1>1, <2>1, NoneIsSequence DEF BlocksHold, BlocksApart, BlocksKnown
<1>8. FrequencyHolds(Nothing, log, 0)
  <2>1. DOMAIN Nothing.freq = {}
    BY DEF Nothing, NoCounts
  <2>. QED  BY <1>1, <2>1 DEF FrequencyHolds
<1>. QED  BY <1>2, <1>4, <1>5, <1>6, <1>7, <1>8 DEF Holds

LEMMA GatheredStep ==
  ASSUME NEW log, IsLog(log), NEW m \in 0 .. Len(log.records) - 1, NEW a, Holds(a, log, m)
  PROVE  Holds(IF log.records[m + 1].ok THEN Gathered(a, log.records[m + 1]) ELSE a, log, m + 1)
<1>1. Len(log.records) \in Nat /\ m \in Nat /\ m + 1 \in 1 .. Len(log.records)
  BY SequenceIs DEF IsLog
<1>2. IsRecord(log.records[m + 1])
  BY <1>1 DEF IsLog
<1>3. /\ TimelineHolds(a, log, m) /\ EventsHold(a) /\ ProcessesHold(a)
      /\ GraphHolds(a, log, m) /\ BlocksHold(a, log, m) /\ FrequencyHolds(a, log, m)
  BY DEF Holds
<1>4. log.records[m + 1].ok <=> m + 1 \in DecodedTo(log, m + 1)
  BY <1>1 DEF DecodedTo
<1>5. CASE m + 1 \notin DecodedTo(log, m + 1)
  <2>1. DecodedTo(log, m + 1) = DecodedTo(log, m)
    BY <1>1, <1>5, DecodedStep
  <2>2. /\ \A e : LogonsOn(log, m + 1, e) = LogonsOn(log, m, e)
        /\ \A id : FragmentsOf(log, m + 1, id) = FragmentsOf(log, m, id)
        /\ \A e : WithId(log, m + 1, e) = WithId(log, m, e)
    BY <2>1 DEF LogonsOn, FragmentsOf, WithId
  <2>3. TimelineHolds(a, log, m + 1)
    BY <1>3, <2>1 DEF TimelineHolds
  <2>4. GraphHolds(a, log, m + 1)
    BY <1>3, <2>1, <2>2 DEF GraphHolds
  <2>5. BlocksHold(a, log, m + 1)
    BY <1>3, <2>1, <2>2 DEF BlocksHold, BlocksKnown, BlockHolds
  <2>6. FrequencyHolds(a, log, m + 1)
    BY <1>3, <2>1, <2>2 DEF FrequencyHolds
  <2>7. Holds(a, log, m + 1)
    BY <1>3, <2>3, <2>4, <2>5, <2>6 DEF Holds
  <2>. QED  BY <1>4, <1>5, <2>7
<1>6. CASE m + 1 \in DecodedTo(log, m + 1)
  <2> DEFINE b == Gathered(a, log.records[m + 1])
  <2>1. TimelineHolds(b, log, m + 1)
    BY <1>3, <1>6, TimelineStep
  <2>2. EventsHold(b)
    BY <1>2, <1>3, EventsStep
  <2>3. ProcessesHold(b)
    BY <1>2, <1>3, ProcessesStep
  <2>4. GraphHolds(b, log, m + 1)
    BY <1>1, <1>3, <1>6, GraphStep
  <2>5. BlocksHold(b, log, m + 1)
    BY <1>1, <1>3, <1>6, BlocksStep
  <2>6. FrequencyHolds(b, log, m + 1)
    BY <1>1, <1>3, <1>6, FrequencyStep
  <2>7. Holds(b, log, m + 1)
    BY <2>1, <2>2, <2>3, <2>4, <2>5, <2>6 DEF Holds
  <2>. QED  BY <1>4, <1>6, <2>7
<1>. QED  BY <1>5, <1>6

-----------------------------------------------------------------------------
(* What is returned.                                                        *)

(* What is sorted by the text of its times is in the order of the seconds.  *)
LEMMA ByTextSorts ==
  ASSUME NEW s, Timed(s)
  PROVE  /\ IsSequence(ByText(s)) /\ Len(ByText(s)) = Len(s) /\ Len(s) \in Nat
         /\ \E a \in Bijection(1 .. Len(s), 1 .. Len(s)) :
              \A j \in 1 .. Len(s) : ByText(s)[j] = s[a[j]]
         /\ InOrder(ByText(s))
<1> DEFINE key == [k \in 1 .. Len(s) |-> TextKey(s[k].time)]
           D == 1 .. Len(s)
<1>1. s \in Seq({ s[k] : k \in DOMAIN s }) /\ Len(s) \in Nat
  BY SequenceIs DEF Timed
<1>2. \A k \in D : s[k].time \in Nat /\ TextKey(s[k].time) \in Nat
  BY TextKeyTyped DEF Timed
<1>3. key \in [1 .. Len(s) -> Int] /\ \A k \in D : key[k] = TextKey(s[k].time)
  BY <1>2
<1>4. ByText(s) = SortedBy(s, key)
  BY DEF ByText
<1>. HIDE DEF key
<1>5. /\ SortedBy(s, key) \in Seq({ s[k] : k \in DOMAIN s })
      /\ Len(SortedBy(s, key)) = Len(s)
      /\ \E a \in Bijection(1 .. Len(s), 1 .. Len(s)) :
           /\ \A j \in 1 .. Len(s) : SortedBy(s, key)[j] = s[a[j]]
           /\ \A q, j \in 1 .. Len(s) : q < j => key[a[q]] <= key[a[j]]
  BY <1>1, <1>3, SortedInOrder
<1>6. IsSequence(ByText(s))
  BY <1>4, <1>5, IsSequenceFrom
<1>7. PICK a \in Bijection(D, D) :
           /\ \A j \in D : SortedBy(s, key)[j] = s[a[j]]
           /\ \A q, j \in D : q < j => key[a[q]] <= key[a[j]]
  BY <1>5
<1>8. a \in [D -> D]
  <2>. HIDE DEF D
  <2>1. a \in Bijection(D, D)
    OBVIOUS
  <2>. QED  BY <2>1 DEF Bijection, Injection
<1>9. InOrder(ByText(s))
  <2> SUFFICES ASSUME NEW m \in D, NEW n \in D, m < n
               PROVE  s[a[m]].time \div Second <= s[a[n]].time \div Second
    BY <1>4, <1>5, <1>7, SMTT(20) DEF InOrder
  <2>1. a[m] \in D /\ a[n] \in D
    BY <1>8
  <2> DEFINE t == s[a[m]].time
             u == s[a[n]].time
  <2>2. t \in Nat /\ u \in Nat /\ TextKey(t) \in Nat /\ TextKey(u) \in Nat
    BY <1>2, <2>1
  <2>3. TextKey(t) <= TextKey(u)
    BY <1>3, <1>7, <2>1
  <2>. HIDE DEF t, u
  <2>4. (t \div Second) \in Int /\ (u \div Second) \in Int
    BY <2>2, SecondAssumption, DivMod
  <2>5. ~(u \div Second < t \div Second)
    BY <2>2, <2>3, SecondsInOrder
  <2>6. t \div Second <= u \div Second
    BY <2>4, <2>5
  <2>. QED  BY <2>6 DEF t, u
<1>. QED  BY <1>1, <1>4, <1>5, <1>6, <1>7, <1>9

LEMMA ExtractedInOrder ==
  ASSUME NEW e, \A kind \in Kinds : Timed(e[kind]) /\ Identified(e[kind])
  PROVE  /\ InOrder(ExtractAll(e))
         /\ Cardinality({ n \in 1 .. Len(ExtractAll(e)) : ExtractAll(e)[n].kind = "ProcessExecution" })
              = Len(e["ProcessExecution"])
<1> DEFINE T == [time : Nat, id : Nat, kind : Kinds]
           F == [time : Nat, id : Nat, kind : Kinds \ {"ProcessExecution"}]
           L == Labelled(e, "ProcessExecution")
           front == Labelled(e, "LateralMovement") \o Labelled(e, "RdpSession")
                    \o Labelled(e, "SmbAccess") \o Labelled(e, "Defender") \o Labelled(e, "Wmi")
                    \o Labelled(e, "ScheduledTask")
           all == front \o L
<1>1. ASSUME NEW kind \in Kinds
      PROVE  /\ Labelled(e, kind) \in Seq([time : Nat, id : Nat, kind : {kind}])
             /\ Len(Labelled(e, kind)) = Len(e[kind]) /\ Len(e[kind]) \in Nat
  <2> DEFINE U == [time : Nat, id : Nat, kind : {kind}]
  <2>1. Len(e[kind]) \in Nat
    BY SequenceIs DEF Timed
  <2>2. Labelled(e, kind) \in [1 .. Len(e[kind]) -> U]
    <3>1. \A n \in 1 .. Len(e[kind]) : e[kind][n].time \in Nat /\ e[kind][n].id \in Nat
      BY DEF Timed, Identified
    <3>. QED  BY <3>1 DEF Labelled
  <2>. HIDE DEF U
  <2>3. Labelled(e, kind) \in Seq(U)
    BY <2>1, <2>2, SeqDef
  <2>4. Len(Labelled(e, kind)) = Len(e[kind])
    BY <2>1, <2>2, <2>3, LenProperties
  <2>. QED  BY <2>1, <2>3, <2>4 DEF U
<1>2. ASSUME NEW kind \in Kinds \ {"ProcessExecution"}
      PROVE  Labelled(e, kind) \in Seq(F)
  <2> DEFINE U == [time : Nat, id : Nat, kind : {kind}]
  <2>1. Labelled(e, kind) \in Seq(U) /\ U \subseteq F
    BY <1>1
  <2>. HIDE DEF U, F
  <2>. QED  BY <2>1, SeqWider
<1>3. front \in Seq(F)
  <2>1. /\ Labelled(e, "LateralMovement") \in Seq(F) /\ Labelled(e, "RdpSession") \in Seq(F)
        /\ Labelled(e, "SmbAccess") \in Seq(F) /\ Labelled(e, "Defender") \in Seq(F)
        /\ Labelled(e, "Wmi") \in Seq(F) /\ Labelled(e, "ScheduledTask") \in Seq(F)
    BY <1>2 DEF Kinds
  <2>. HIDE DEF F
  <2>. QED  BY <2>1, ConcatProperties
<1>4. /\ L \in Seq([time : Nat, id : Nat, kind : {"ProcessExecution"}])
      /\ Len(L) = Len(e["ProcessExecution"]) /\ Len(L) \in Nat
  BY <1>1 DEF Kinds
<1>5. ExtractAll(e) = ByText(all)
  BY DEF ExtractAll
<1>. HIDE DEF front, L
<1>6. /\ front \in Seq(T) /\ Len(front) \in Nat
      /\ \A n \in 1 .. Len(front) : front[n].kind # "ProcessExecution"
  <2>1. F \subseteq T /\ \A x \in F : x.kind # "ProcessExecution"
    OBVIOUS
  <2>. HIDE DEF F, T
  <2>. QED  BY <1>3, <2>1, SeqWider
<1>7. /\ L \in Seq(T)
      /\ \A n \in 1 .. Len(L) : L[n].kind = "ProcessExecution"
  <2> DEFINE U == [time : Nat, id : Nat, kind : {"ProcessExecution"}]
  <2>1. L \in Seq(U) /\ U \subseteq T /\ \A x \in U : x.kind = "ProcessExecution"
    BY <1>4 DEF Kinds
  <2>. HIDE DEF U, T
  <2>. QED  BY <2>1, SeqWider
<1>8. /\ all \in Seq(T) /\ Len(all) = Len(front) + Len(L)
      /\ \A n \in 1 .. Len(front) + Len(L) :
           all[n] = IF n <= Len(front) THEN front[n] ELSE L[n - Len(front)]
  <2>. HIDE DEF T
  <2>. QED  BY <1>6, <1>7, ConcatProperties
<1>. HIDE DEF all
<1>9. Timed(all)
  <2>1. \A n \in 1 .. Len(all) : all[n].time \in Nat
    <3>1. \A x \in T : x.time \in Nat
      OBVIOUS
    <3>. HIDE DEF T
    <3>. QED  BY <1>8, <3>1, SeqWider
  <2>2. IsSequence(all)
    BY <1>8, IsSequenceFrom
  <2>. QED  BY <2>1, <2>2 DEF Timed
<1>10. PICK a \in Bijection(1 .. Len(all), 1 .. Len(all)) :
         \A j \in 1 .. Len(all) : ByText(all)[j] = all[a[j]]
  BY <1>9, ByTextSorts
<1>11. InOrder(ByText(all)) /\ Len(ByText(all)) = Len(all)
  BY <1>9, ByTextSorts
<1> DEFINE D == 1 .. Len(all)
           p == Len(front)
           q == Len(L)
           P == { n \in D : all[n].kind = "ProcessExecution" }
           R == { n \in D : ByText(all)[n].kind = "ProcessExecution" }
           g == [n \in R |-> a[n]]
<1>12. /\ a \in [D -> D]
       /\ \A m, n \in D : a[m] = a[n] => m = n
       /\ \A m \in D : \E n \in D : a[n] = m
  <2>1. a \in Bijection(D, D)
    OBVIOUS
  <2>. HIDE DEF D
  <2>. QED  BY <2>1 DEF Bijection, Injection, Surjection, IsInjective
<1>13. p \in Nat /\ q \in Nat /\ Len(all) = p + q
  BY <1>4, <1>6, <1>8
<1>14. P = p + 1 .. p + q
  <2>1. ASSUME NEW n \in D PROVE n \in P <=> p < n
    <3>1. CASE n <= p
      <4>1. n \in 1 .. p /\ all[n] = front[n]
        BY <1>8, <1>13, <3>1
      <4>. QED  BY <1>6, <1>13, <3>1, <4>1
    <3>2. CASE p < n
      <4>1. n - p \in 1 .. q /\ all[n] = L[n - p]
        BY <1>8, <1>13, <3>2
      <4>. QED  BY <1>7, <3>2, <4>1
    <3>. QED  BY <1>13, <3>1, <3>2
  <2>2. P \subseteq D
    OBVIOUS
  <2>3. D = 1 .. p + q
    BY <1>13
  <2>. HIDE DEF P, D, p, q
  <2>4. \A n : n \in p + 1 .. p + q <=> n \in 1 .. p + q /\ p < n
    BY <1>13
  <2>5. \A n : n \in P <=> n \in p + 1 .. p + q
    BY <2>1, <2>2, <2>3, <2>4
  <2>. QED  BY <2>5
<1>15. IsFiniteSet(P) /\ Cardinality(P) = q
  <2>1. p + 1 \in Int /\ p + q \in Int
    BY <1>13
  <2>2. IsFiniteSet(p + 1 .. p + q) /\ Cardinality(p + 1 .. p + q) = IF p + 1 > p + q THEN 0 ELSE p + q - (p + 1) + 1
    BY <2>1, FS_Interval
  <2>. HIDE DEF P, p, q
  <2>. QED  BY <1>13, <1>14, <2>2
<1>16. g \in Bijection(R, P)
  <2>1. \A n \in R : n \in D /\ a[n] \in P
    BY <1>10, <1>12
  <2>2. g \in [R -> P]
    BY <2>1
  <2>3. \A m, n \in R : g[m] = g[n] => m = n
    BY <1>12, <2>1
  <2>4. ASSUME NEW m \in P PROVE \E n \in R : g[n] = m
    <3>1. PICK n \in D : a[n] = m
      BY <1>12
    <3>2. n \in R /\ g[n] = m
      BY <1>10, <3>1
    <3>. QED  BY <3>2
  <2>. HIDE DEF g, R, P
  <2>. QED  BY <2>2, <2>3, <2>4 DEF Bijection, Injection, Surjection, IsInjective
<1>17. R \in SUBSET D /\ IsFiniteSet(D)
  <2>1. 1 \in Int /\ Len(all) \in Int
    BY <1>13
  <2>. QED  BY <2>1, FS_Interval
<1>18. Cardinality(R) = q
  <2>. HIDE DEF g, R, P, D, q
  <2>1. IsFiniteSet(R) /\ ExistsBijection(R, P)
    BY <1>16, <1>17, FS_Subset DEF ExistsBijection
  <2>. QED  BY <2>1, <1>15, FS_Bijection
<1>. QED  BY <1>4, <1>5, <1>11, <1>18

MessageNumber(log, n) == log.records[n].fields["MessageNumber"]

\* Each of the fragments frags bears a number of its own.
Numbered(log, frags) ==
  /\ \A n \in frags : "MessageNumber" \in DOMAIN log.records[n].fields /\ MessageNumber(log, n).str
  /\ \A m, n \in frags : m # n => MessageNumber(log, m).v # MessageNumber(log, n).v

\* They are put together as the text of that many parts.
PutTogether(log, frags, parts, text) ==
  /\ parts = Cardinality(frags)
  /\ \A n \in frags :
       text[1 + Cardinality({ m \in frags : MessageNumber(log, m).v < MessageNumber(log, n).v })]
         = Text(log.records[n], "ScriptBlockText")

(* A block is joined in the order of the numbers of its fragments.          *)
LEMMA BlockJoins ==
  ASSUME NEW log, IsLog(log), NEW block, BlockHolds(block, log, Len(log.records)),
         Numbered(log, FragmentsOf(log, Len(log.records), block.id))
  PROVE  PutTogether(log, FragmentsOf(log, Len(log.records), block.id), Len(block.parts), Joined(block))
<1> DEFINE num == [n \in 1 .. Len(log.records) |-> MessageNumber(log, n)]
           F == FragmentsOf(log, Len(log.records), block.id)
           s == block.parts
           l == Len(s)
           D == 1 .. l
           key == [k \in D |-> s[k].n]
<1>1. IsSequence(s) /\ Gathers(s, F, Parts(log)) /\ F \subseteq 1 .. Len(log.records)
  BY DEF BlockHolds, FragmentsOf, DecodedTo
<1>2. Len(s) = Cardinality(F) /\ Len(s) \in Nat /\ s \in Seq({ s[k] : k \in DOMAIN s })
  BY <1>1, GathersCount, SequenceIs
<1>3. PICK g \in Bijection(D, F) : \A j \in D : s[j] = Parts(log)[g[j]]
  BY <1>1 DEF Gathers
<1>0. \A n \in F : num[n] = MessageNumber(log, n)
  BY <1>1
<1>. HIDE DEF F, num
<1>4. /\ g \in [D -> F]
      /\ \A i, j \in D : g[i] = g[j] => i = j
      /\ \A n \in F : \E j \in D : g[j] = n
  <2>1. g \in Bijection(D, F)
    OBVIOUS
  <2>. HIDE DEF D
  <2>. QED  BY <2>1 DEF Bijection, Injection, Surjection, IsInjective
<1>5. \A n \in F : /\ Part(log.records[n]).n = num[n].v /\ num[n].v \in Nat
                   /\ Part(log.records[n]).text = Text(log.records[n], "ScriptBlockText")
  <2> SUFFICES ASSUME NEW n \in F
               PROVE  /\ Part(log.records[n]).n = num[n].v /\ num[n].v \in Nat
                      /\ Part(log.records[n]).text = Text(log.records[n], "ScriptBlockText")
    OBVIOUS
  <2> DEFINE rec == log.records[n]
  <2>1. IsRecord(rec) /\ num[n] = rec.fields["MessageNumber"]
    BY <1>0, <1>1 DEF IsLog, MessageNumber
  <2>2. "MessageNumber" \in DOMAIN rec.fields /\ rec.fields["MessageNumber"].str
    BY <2>1 DEF F, Numbered, MessageNumber
  <2>3. rec.fields["MessageNumber"].v \in Nat
    BY <2>1, <2>2 DEF IsRecord
  <2>4. Parsed(rec, "MessageNumber", 1) = rec.fields["MessageNumber"].v
    BY <2>2 DEF Parsed
  <2>. QED  BY <2>1, <2>3, <2>4 DEF Part
<1>6. \A j \in D : s[j] = Part(log.records[g[j]])
  BY <1>1, <1>3, <1>4 DEF Parts
<1>7. \A j \in D : key[j] = num[g[j]].v /\ key[j] \in Nat
  <2> SUFFICES ASSUME NEW j \in D PROVE s[j].n = num[g[j]].v /\ s[j].n \in Nat
    OBVIOUS
  <2>1. g[j] \in F /\ s[j] = Part(log.records[g[j]])
    BY <1>4, <1>6
  <2>2. Part(log.records[g[j]]).n = num[g[j]].v /\ num[g[j]].v \in Nat
    BY <1>5, <2>1
  <2>. QED  BY <2>1, <2>2
<1>8. DOMAIN key = D /\ key = [j \in D |-> key[j]]
  OBVIOUS
<1>9. \A m, n \in F : m # n => num[m].v # num[n].v
  BY <1>0 DEF F, Numbered
<1>11. \A i \in D : Joined(block)[i] = SortedBy(s, key)[i].text
  BY DEF Joined
<1>. HIDE DEF key
<1>10. /\ key \in [D -> Int]
       /\ \A i, j \in D : key[i] = key[j] => i = j
  <2>1. \A j \in D : key[j] \in Int
    BY <1>7
  <2>2. ASSUME NEW i \in D, NEW j \in D, key[i] = key[j] PROVE i = j
    <3>1. g[i] \in F /\ g[j] \in F /\ num[g[i]].v = num[g[j]].v
      BY <1>4, <1>7, <2>2
    <3>2. g[i] = g[j]
      BY <1>9, <3>1
    <3>. QED  BY <1>4, <3>2
  <2>. QED  BY <1>8, <2>1, <2>2
<1>12. ASSUME NEW n \in F
       PROVE  Joined(block)[1 + Cardinality({ m \in F : num[m].v < num[n].v })]
                = Text(log.records[n], "ScriptBlockText")
  <2>1. PICK j \in D : g[j] = n
    BY <1>4
  <2> DEFINE below == { i \in D : key[i] < key[j] }
             C == { m \in F : num[m].v < num[n].v }
             h == [i \in below |-> g[i]]
  <2>2. /\ IsFiniteSet(below) /\ 1 + Cardinality(below) \in D
        /\ SortedBy(s, key)[1 + Cardinality(below)] = s[j]
    <3> DEFINE T == { s[k] : k \in DOMAIN s }
    <3>1. s \in Seq(T)
      BY <1>2
    <3>2. below = Lower(Len(s), key, j) /\ j \in 1 .. Len(s)
      BY DEF Lower
    <3>3. key \in [1 .. Len(s) -> Int] /\ \A i, k \in 1 .. Len(s) : key[i] = key[k] => i = k
      BY <1>10
    <3>. HIDE DEF T, s, below, l, D
    <3>4. /\ IsFiniteSet(Lower(Len(s), key, j)) /\ 1 + Cardinality(Lower(Len(s), key, j)) \in 1 .. Len(s)
          /\ SortedBy(s, key)[1 + Cardinality(Lower(Len(s), key, j))] = s[j]
      BY <3>1, <3>2, <3>3, SortedPlace
    <3>. QED  BY <3>2, <3>4 DEF l, D
  <2>3. /\ \A i \in below : h[i] = g[i] /\ g[i] \in C
        /\ \A i, k \in below : h[i] = h[k] => i = k
    BY <1>4, <1>7, <2>1
  <2>4. ASSUME NEW m \in C PROVE \E i \in below : h[i] = m
    <3>1. PICK i \in D : g[i] = m
      BY <1>4
    <3>2. i \in below
      BY <1>7, <2>1, <3>1
    <3>. QED  BY <3>1, <3>2
  <2>5. h \in [below -> C]
    BY <2>3
  <2>. HIDE DEF below, C, h
  <2>6. h \in Bijection(below, C)
    BY <2>3, <2>4, <2>5 DEF Bijection, Injection, Surjection, IsInjective
  <2>7. Cardinality(C) = Cardinality(below)
    <3>1. ExistsBijection(below, C)
      BY <2>6 DEF ExistsBijection
    <3>. QED  BY <2>2, <3>1, FS_Bijection
  <2>8. Joined(block)[1 + Cardinality(C)] = s[j].text
    BY <1>11, <2>2, <2>7
  <2>9. s[j].text = Text(log.records[n], "ScriptBlockText")
    BY <1>5, <1>6, <2>1
  <2>. QED  BY <2>8, <2>9 DEF C
<1>13. \A n \in F : { m \in F : num[m].v < num[n].v }
                      = { m \in F : MessageNumber(log, m).v < MessageNumber(log, n).v }
  BY <1>0
<1>. QED  BY <1>2, <1>12, <1>13 DEF F, PutTogether

(* What is picked from a sequence is what is at the positions picked.       *)
LEMMA OnlyRange ==
  ASSUME NEW s, IsSequence(s), NEW P \in SUBSET (1 .. Len(s))
  PROVE  Range(Only(s, P)) = { s[p] : p \in P }
<1> DEFINE n == Cardinality(P)
           o == Only(s, P)
<1>1. IsSequence(o) /\ Len(o) = n /\ { o[r] : r \in 1 .. n } = { s[p] : p \in P }
  BY OnlyPicks
<1>2. DOMAIN o = 1 .. n
  BY <1>1, SequenceIs
<1>. HIDE DEF o, n
<1>. QED  BY <1>1, <1>2 DEF Range, o

(* Where an id stands for one entry, the difference is that of the entries. *)
LEMMA DiffTells ==
  ASSUME NEW a, IsSequence(a), NEW b, IsSequence(b),
         \A x, y \in Range(a) \cup Range(b) : x.id = y.id => x = y
  PROVE  /\ Range(Diff(a, b).added) = Range(b) \ Range(a)
         /\ Range(Diff(a, b).removed) = Range(a) \ Range(b)
<1> DEFINE ids(s) == { s[n].id : n \in 1 .. Len(s) }
           P == { n \in 1 .. Len(b) : b[n].id \notin ids(a) }
           Q == { n \in 1 .. Len(a) : a[n].id \notin ids(b) }
<1>1. DOMAIN a = 1 .. Len(a) /\ DOMAIN b = 1 .. Len(b)
  BY SequenceIs
<1>2. Diff(a, b).added = Only(b, P) /\ Diff(a, b).removed = Only(a, Q)
  BY DEF Diff
<1>3. Range(Only(b, P)) = { b[p] : p \in P } /\ Range(Only(a, Q)) = { a[p] : p \in Q }
  BY OnlyRange
<1>4. \A n \in 1 .. Len(b) : b[n].id \in ids(a) <=> b[n] \in Range(a)
  BY <1>1 DEF Range
<1>5. \A n \in 1 .. Len(a) : a[n].id \in ids(b) <=> a[n] \in Range(b)
  BY <1>1 DEF Range
<1>6. { b[p] : p \in P } = Range(b) \ Range(a)
  BY <1>1, <1>4 DEF Range
<1>7. { a[p] : p \in Q } = Range(a) \ Range(b)
  BY <1>1, <1>5 DEF Range
<1>. QED  BY <1>2, <1>3, <1>6, <1>7

-----------------------------------------------------------------------------
(* Every step keeps the invariant.                                          *)

QueryInv == QueryTypeInv /\ GatheredInv /\ ResultsInv /\ GraphInv /\ TotalInv

LEMMA FailedIsClosed ==
  ASSUME NEW log, NEW result, Returned(log, result)
  PROVE  ~result.failed <=> log.opens
<1>1. CASE log.opens
  <2>1. PICK a : result = Result(a)
    BY <1>1 DEF Returned
  <2>2. result.failed = FALSE
    BY <2>1 DEF Result
  <2>. QED  BY <1>1, <2>2
<1>2. CASE ~log.opens
  <2>1. result = Failed
    BY <1>2 DEF Returned
  <2>2. result.failed = TRUE
    BY <2>1 DEF Failed
  <2>. QED  BY <1>2, <2>2
<1>. QED  BY <1>1, <1>2

LEMMA OpenedAre ==
  ASSUME QueryTypeInv, ResultsInv
  PROVE  /\ Opened = { k \in 1 .. Len(results) : logs[k].opens }
         /\ \A k \in Opened : /\ k \in 1 .. Len(logs) /\ IsLog(logs[k])
                              /\ \E a : Holds(a, logs[k], Len(logs[k].records)) /\ results[k] = Result(a)
<1>1. Len(logs) \in Nat /\ Len(results) = at - 1 /\ at \in 1 .. Len(logs) + 1
  BY SequenceIs DEF QueryTypeInv
<1>2. ASSUME NEW k \in 1 .. Len(results) PROVE ~results[k].failed <=> logs[k].opens
  BY FailedIsClosed DEF ResultsInv
<1>3. Opened = { k \in 1 .. Len(results) : logs[k].opens }
  BY <1>2 DEF Opened
<1>4. ASSUME NEW k \in Opened
      PROVE  /\ k \in 1 .. Len(logs) /\ IsLog(logs[k])
             /\ \E a : Holds(a, logs[k], Len(logs[k].records)) /\ results[k] = Result(a)
  <2>1. k \in 1 .. Len(results) /\ logs[k].opens
    BY <1>3
  <2>2. k \in 1 .. Len(logs)
    BY <1>1, <2>1
  <2>. QED  BY <2>1, <2>2 DEF ResultsInv, Returned, QueryTypeInv
<1>. QED  BY <1>3, <1>4

LEMMA LogonAt ==
  \A x : x \in AllLogons <=>
           \E k \in Opened : \E n \in Decoded(k) : x = <<k, n>> /\ IsLogon4624(logs[k].records[n])
<1>1. ASSUME NEW x
      PROVE  x \in UNION { {k} \X Decoded(k) : k \in Opened }
               <=> \E k \in Opened : \E n \in Decoded(k) : x = <<k, n>>
  OBVIOUS
<1>. QED  BY <1>1 DEF AllLogons

LEMMA InitHolds ==
  ASSUME QueryInit
  PROVE  QueryInv
<1>1. /\ \E family \in DOMAIN Logs : logs \in Logs[family]
      /\ at = 1 /\ nth = 1 /\ acc = Nothing /\ results = <<>> /\ graph = NoCounts /\ total = <<>>
  BY DEF QueryInit
<1>2. QueryTypeInv
  <2>1. IsSequence(logs) /\ \A k \in 1 .. Len(logs) : IsLog(logs[k])
    BY <1>1, LogsAssumption
  <2>2. Len(logs) \in Nat
    BY <2>1, SequenceIs
  <2>. QED  BY <1>1, <2>1, <2>2, NoneIsSequence DEF QueryTypeInv
<1>3. GatheredInv
  <2>1. ASSUME Reading PROVE nth \in 1 .. Len(logs[at].records) + 1 /\ Holds(acc, logs[at], nth - 1)
    <3>1. Len(logs) \in Nat /\ at <= Len(logs)
      BY <1>2, <2>1, SequenceIs DEF QueryTypeInv, Reading
    <3>2. IsLog(logs[at])
      BY <1>1, <1>2, <3>1 DEF QueryTypeInv
    <3>3. Len(logs[at].records) \in Nat
      BY <3>2, SequenceIs DEF IsLog
    <3>4. nth - 1 = 0
      BY <1>1
    <3>. QED  BY <1>1, <3>3, <3>4, NothingHolds
  <2>. QED  BY <1>1, <2>1 DEF GatheredInv
<1>4. Len(results) = 0
  BY <1>1, NoneIsSequence
<1>5. ResultsInv
  BY <1>4 DEF ResultsInv
<1>6. GraphInv
  <2>1. Opened = {}
    BY <1>4 DEF Opened
  <2>2. AllLogons = {}
    BY <2>1, LogonAt
  <2>3. DOMAIN graph = {}
    BY <1>1 DEF NoCounts
  <2>. QED  BY <2>2, <2>3, FS_EmptySet DEF GraphInv
<1>7. TotalInv
  BY <1>1 DEF TotalInv
<1>. QED  BY <1>2, <1>3, <1>5, <1>6, <1>7 DEF QueryInv

LEMMA ReadHolds ==
  ASSUME QueryInv, Read
  PROVE  QueryInv'
<1>1. /\ Reading /\ nth <= Len(logs[at].records) /\ nth' = nth + 1
      /\ acc' = IF logs[at].records[nth].ok THEN Gathered(acc, logs[at].records[nth]) ELSE acc
      /\ UNCHANGED <<logs, at, results, graph, total>>
  BY DEF Read
<1>2. QueryTypeInv /\ GatheredInv /\ ResultsInv /\ GraphInv /\ TotalInv
  BY DEF QueryInv
<1>3. Reading' = Reading
  BY <1>1 DEF Reading
<1>4. IsLog(logs[at]) /\ Len(logs[at].records) \in Nat
  <2>1. Len(logs) \in Nat /\ at \in 1 .. Len(logs)
    BY <1>1, <1>2, SequenceIs DEF QueryTypeInv, Reading
  <2>2. IsLog(logs[at])
    BY <1>2, <2>1 DEF QueryTypeInv
  <2>. QED  BY <2>2, SequenceIs DEF IsLog
<1>5. nth \in 1 .. Len(logs[at].records) + 1 /\ Holds(acc, logs[at], nth - 1)
  BY <1>1, <1>2 DEF GatheredInv
<1>6. nth - 1 \in 0 .. Len(logs[at].records) - 1 /\ (nth - 1) + 1 = nth /\ nth' - 1 = nth
  BY <1>1, <1>4, <1>5
<1>7. Holds(acc', logs[at], nth)
  <2> DEFINE log == logs[at]
             m == nth - 1
  <2>1. IsLog(log) /\ m \in 0 .. Len(log.records) - 1 /\ Holds(acc, log, m) /\ m + 1 = nth
    BY <1>4, <1>5, <1>6
  <2>2. acc' = IF log.records[m + 1].ok THEN Gathered(acc, log.records[m + 1]) ELSE acc
    BY <1>1, <1>6
  <2>. HIDE DEF log, m
  <2>3. Holds(acc', log, m + 1)
    BY <2>1, <2>2, GatheredStep
  <2>. QED  BY <2>1, <2>3 DEF log
<1>8. GatheredInv'
  <2>1. nth' \in 1 .. Len(logs[at].records) + 1
    BY <1>1, <1>4, <1>5
  <2>2. Holds(acc', logs[at], nth' - 1)
    BY <1>6, <1>7
  <2>. QED  BY <1>1, <1>3, <2>1, <2>2 DEF GatheredInv
<1>9. QueryTypeInv' /\ ResultsInv' /\ GraphInv' /\ TotalInv'
  BY <1>1, <1>2 DEF QueryTypeInv, ResultsInv, GraphInv, AllLogons, EdgeAt, Opened, Decoded,
                    TotalInv
<1>. QED  BY <1>8, <1>9 DEF QueryInv

LEMMA NextFile ==
  ASSUME QueryInv, at <= Len(logs), at' = at + 1, logs' = logs, nth' = 1, acc' = Nothing,
         NEW r, results' = Append(results, r)
  PROVE  /\ QueryTypeInv' /\ GatheredInv'
         /\ at \in 1 .. Len(logs) /\ Len(results) = at - 1 /\ Len(results') = at
         /\ \A k \in 1 .. at - 1 : results'[k] = results[k]
         /\ results'[at] = r
         /\ total = <<>>
<1>1. QueryTypeInv /\ TotalInv
  BY DEF QueryInv
<1>2. Len(logs) \in Nat /\ at \in 1 .. Len(logs) /\ Len(results) = at - 1
  BY <1>1, SequenceIs DEF QueryTypeInv
<1>3. /\ IsSequence(results') /\ Len(results') = at
      /\ \A k \in 1 .. at - 1 : results'[k] = results[k]
      /\ results'[at] = r
  <2>1. /\ IsSequence(Append(results, r)) /\ Len(Append(results, r)) = Len(results) + 1
        /\ \A k \in 1 .. Len(results) : Append(results, r)[k] = results[k]
        /\ Append(results, r)[Len(results) + 1] = r
    BY <1>1, AppendIsSequence DEF QueryTypeInv
  <2>2. Len(results) + 1 = at
    BY <1>2
  <2>. QED  BY <1>2, <2>1, <2>2
<1>4. QueryTypeInv'
  BY <1>1, <1>2, <1>3 DEF QueryTypeInv
<1>5. GatheredInv'
  <2>1. ASSUME Reading' PROVE nth' \in 1 .. Len(logs'[at'].records) + 1 /\ Holds(acc', logs'[at'], nth' - 1)
    <3>1. at' \in 1 .. Len(logs')
      BY <1>2, <2>1 DEF Reading
    <3>2. IsLog(logs'[at'])
      BY <1>1, <3>1 DEF QueryTypeInv
    <3>3. Len(logs'[at'].records) \in Nat
      BY <3>2, SequenceIs DEF IsLog
    <3>4. nth' - 1 = 0
      OBVIOUS
    <3>. QED  BY <3>3, <3>4, NothingHolds
  <2>. QED  BY <2>1 DEF GatheredInv
<1>6. total = <<>>
  BY <1>1, <1>2 DEF TotalInv
<1>. QED  BY <1>2, <1>3, <1>4, <1>5, <1>6

LEMMA EndOfFileHolds ==
  ASSUME QueryInv, EndOfFile
  PROVE  QueryInv'
<1> DEFINE log == logs[at]
           L == { n \in Decoded(at) : IsLogon4624(log.records[n]) }
           new == { <<at, n>> : n \in L }
<1>1. /\ Reading /\ nth > Len(log.records)
      /\ results' = Append(results, Result(acc)) /\ graph' = Merged(graph, acc.graph)
      /\ at' = at + 1 /\ nth' = 1 /\ acc' = Nothing
      /\ logs' = logs /\ total' = total
  BY DEF EndOfFile
<1>2. QueryTypeInv /\ GatheredInv /\ ResultsInv /\ GraphInv /\ TotalInv
  BY DEF QueryInv
<1>3. /\ QueryTypeInv' /\ GatheredInv'
      /\ at \in 1 .. Len(logs) /\ Len(results) = at - 1 /\ Len(results') = at
      /\ \A k \in 1 .. at - 1 : results'[k] = results[k]
      /\ results'[at] = Result(acc)
      /\ total = <<>>
  BY <1>1, NextFile DEF Reading
<1>4. IsLog(log) /\ Len(log.records) \in Nat /\ logs[at].opens /\ at \in Nat
  BY <1>1, <1>2, <1>3, SequenceIs DEF QueryTypeInv, IsLog, Reading
<1>5. Holds(acc, log, Len(log.records))
  <2>1. nth \in 1 .. Len(log.records) + 1 /\ Holds(acc, log, nth - 1)
    BY <1>1, <1>2 DEF GatheredInv
  <2>2. nth - 1 = Len(log.records)
    BY <1>1, <1>4, <2>1
  <2>. QED  BY <2>1, <2>2
<1>6. ResultsInv'
  <2>1. ASSUME NEW k \in 1 .. at PROVE Returned(logs'[k], results'[k])
    <3>1. CASE k \in 1 .. at - 1
      <4>1. Returned(logs[k], results[k]) /\ results'[k] = results[k]
        BY <1>2, <1>3, <3>1 DEF ResultsInv
      <4>. QED  BY <1>1, <4>1
    <3>2. CASE k = at
      BY <1>1, <1>3, <1>4, <1>5, <3>2 DEF Returned
    <3>. QED  BY <1>4, <3>1, <3>2
  <2>. QED  BY <1>3, <2>1 DEF ResultsInv
<1>7. Opened' = Opened \cup {at} /\ at \notin Opened
  <2>1. Opened = { k \in 1 .. at - 1 : logs[k].opens }
    BY <1>2, <1>3, OpenedAre
  <2>2. Opened' = { k \in 1 .. at : logs[k].opens }
    <3>1. ASSUME NEW k \in 1 .. at PROVE ~results'[k].failed <=> logs[k].opens
      <4>1. Returned(logs[k], results'[k])
        BY <1>1, <1>3, <1>6 DEF ResultsInv
      <4>. QED  BY <4>1, FailedIsClosed
    <3>. QED  BY <1>3, <3>1 DEF Opened
  <2>3. \A k \in 1 .. at : k \in 1 .. at - 1 \/ k = at
    BY <1>4
  <2>4. \A k \in 1 .. at - 1 : k \in 1 .. at /\ k # at
    BY <1>4
  <2>5. at \in 1 .. at
    BY <1>3
  <2>. QED  BY <1>4, <2>1, <2>2, <2>3, <2>4, <2>5
<1>8. \A k : Decoded(k)' = Decoded(k)
  BY <1>1 DEF Decoded
<1>9. AllLogons' = AllLogons \cup new
  <2>1. ASSUME NEW x PROVE x \in AllLogons' <=> x \in AllLogons \cup new
    <3>1. x \in AllLogons' <=>
            \E k \in Opened \cup {at} : \E n \in Decoded(k) : x = <<k, n>> /\ IsLogon4624(logs[k].records[n])
      <4>1. AllLogons' = { kn \in UNION { {k} \X Decoded(k) : k \in Opened \cup {at} } :
                             IsLogon4624(logs[kn[1]].records[kn[2]]) }
        BY <1>1, <1>7, <1>8 DEF AllLogons
      <4>2. x \in UNION { {k} \X Decoded(k) : k \in Opened \cup {at} }
              <=> \E k \in Opened \cup {at} : \E n \in Decoded(k) : x = <<k, n>>
        OBVIOUS
      <4>. QED  BY <4>1, <4>2
    <3>2. x \in new <=> \E n \in Decoded(at) : x = <<at, n>> /\ IsLogon4624(log.records[n])
      OBVIOUS
    <3>. QED  BY <3>1, <3>2, LogonAt
  <2>. QED  BY <2>1
<1>10. AllLogons \cap new = {}
  <2>1. ASSUME NEW x \in AllLogons, x \in new PROVE FALSE
    <3>1. PICK k \in Opened : \E n \in Decoded(k) : x = <<k, n>>
      BY LogonAt
    <3>2. x[1] = k /\ x[1] = at
      BY <2>1, <3>1
    <3>. QED  BY <1>7, <3>2
  <2>. QED  BY <2>1
<1>11. \A x \in new : \E n \in Decoded(at) :
         x = <<at, n>> /\ IsLogon4624(log.records[n]) /\ EdgeAt(x) = EdgeOf(log.records[n])
  BY DEF EdgeAt
<1>12. \A kn : EdgeAt(kn)' = EdgeAt(kn)
  BY <1>1 DEF EdgeAt
<1>13. GraphHolds(acc, log, Len(log.records)) /\ Decoded(at) = DecodedTo(log, Len(log.records))
  BY <1>5 DEF Holds, Decoded
<1>14. IsFiniteSet(new)
  <2>1. IsFiniteSet(L)
    <3>1. L \subseteq Decoded(at) /\ IsFiniteSet(Decoded(at))
      BY <1>4, <1>13, DecodedStep
    <3>. QED  BY <3>1, FS_Subset
  <2> DEFINE h == [n \in L |-> <<at, n>>]
  <2>2. h \in Surjection(L, new)
    BY DEF Surjection
  <2>. HIDE DEF L, new, h
  <2>. QED  BY <2>1, <2>2, FS_Surjection
<1>. HIDE DEF L, new
<1>15. ASSUME NEW e
       PROVE  LET here == { kn \in new : EdgeAt(kn) = e }
              IN  IsFiniteSet(here) /\ Cardinality(here) = Cardinality(LogonsOn(log, Len(log.records), e))
  <2> DEFINE here == { kn \in new : EdgeAt(kn) = e }
             there == LogonsOn(log, Len(log.records), e)
             h == [n \in there |-> <<at, n>>]
  <2>1. \A n : n \in there <=> n \in Decoded(at) /\ IsLogon4624(log.records[n]) /\ EdgeOf(log.records[n]) = e
    BY <1>13 DEF LogonsOn, IsLogonOn, IsLogon4624, EdgeOf
  <2>2. ASSUME NEW n \in there PROVE <<at, n>> \in here
    BY <2>1, <2>2 DEF new, L, EdgeAt
  <2>3. ASSUME NEW x \in here PROVE \E n \in there : x = <<at, n>>
    <3>1. x \in new /\ EdgeAt(x) = e
      BY <2>3
    <3>. QED  BY <1>11, <2>1, <3>1
  <2>. HIDE DEF here, there
  <2>4. /\ h \in [there -> here]
        /\ \A m, n \in there : h[m] = h[n] => m = n
        /\ \A x \in here : \E n \in there : h[n] = x
    BY <2>2, <2>3
  <2>5. ExistsBijection(there, here)
    <3>. HIDE DEF h
    <3>1. h \in Bijection(there, here)
      BY <2>4 DEF Bijection, Injection, Surjection, IsInjective
    <3>. QED  BY <3>1 DEF ExistsBijection
  <2>6. IsFiniteSet(there)
    BY <1>4, LogonsFinite DEF there
  <2>7. IsFiniteSet(here) /\ Cardinality(here) = Cardinality(there)
    BY <2>5, <2>6, FS_Bijection
  <2>. QED  BY <2>7 DEF here, there
<1>16. GraphInv'
  <2>1. IsFiniteSet(AllLogons')
    BY <1>2, <1>9, <1>14, FS_Union DEF GraphInv
  <2>2. ASSUME NEW e
        PROVE  Cardinality({ kn \in AllLogons' : EdgeAt(kn) = e })
                 = Cardinality({ kn \in AllLogons : EdgeAt(kn) = e })
                     + Cardinality(LogonsOn(log, Len(log.records), e))
    <3> DEFINE A == { kn \in AllLogons : EdgeAt(kn) = e }
               B == { kn \in new : EdgeAt(kn) = e }
    <3>1. { kn \in AllLogons' : EdgeAt(kn) = e } = A \cup B
      BY <1>9
    <3>2. A \cap B = {}
      BY <1>10
    <3>3. IsFiniteSet(A)
      <4>1. A \subseteq AllLogons /\ IsFiniteSet(AllLogons)
        BY <1>2 DEF GraphInv
      <4>. QED  BY <4>1, FS_Subset
    <3>4. IsFiniteSet(B) /\ Cardinality(B) = Cardinality(LogonsOn(log, Len(log.records), e))
      BY <1>15
    <3>. HIDE DEF A, B
    <3>5. Cardinality(A \cup B) = Cardinality(A) + Cardinality(B)
      <4>1. Cardinality(A \cup B) = Cardinality(A) + Cardinality(B) - Cardinality(A \cap B)
        BY <3>3, <3>4, FS_Union
      <4>2. Cardinality(A \cap B) = 0 /\ Cardinality(A) \in Nat /\ Cardinality(B) \in Nat
        BY <3>2, <3>3, <3>4, FS_EmptySet, FS_CardinalityType
      <4>. QED  BY <4>1, <4>2
    <3>. QED  BY <3>1, <3>4, <3>5 DEF A
  <2>3. ASSUME NEW e PROVE CountOf(graph, e) = Cardinality({ kn \in AllLogons : EdgeAt(kn) = e })
    <3>1. CASE e \in DOMAIN graph
      BY <1>2, <3>1 DEF GraphInv, CountOf
    <3>2. CASE e \notin DOMAIN graph
      <4>1. { kn \in AllLogons : EdgeAt(kn) = e } = {}
        BY <1>2, <3>2 DEF GraphInv
      <4>. QED  BY <3>2, <4>1, FS_EmptySet DEF CountOf
    <3>. QED  BY <3>1, <3>2
  <2>4. ASSUME NEW e PROVE CountOf(acc.graph, e) = Cardinality(LogonsOn(log, Len(log.records), e))
    <3>1. CASE e \in DOMAIN acc.graph
      BY <1>13, <3>1 DEF GraphHolds, CountOf
    <3>2. CASE e \notin DOMAIN acc.graph
      <4>1. LogonsOn(log, Len(log.records), e) = {}
        BY <1>13, <3>2 DEF GraphHolds, LogonsOn, IsLogonOn, IsLogon4624, EdgeOf
      <4>. QED  BY <3>2, <4>1, FS_EmptySet DEF CountOf
    <3>. QED  BY <3>1, <3>2
  <2>5. /\ DOMAIN graph' = DOMAIN graph \cup DOMAIN acc.graph
        /\ \A e \in DOMAIN graph' : graph'[e] = CountOf(graph, e) + CountOf(acc.graph, e)
    BY <1>1 DEF Merged
  <2>6. \A e \in DOMAIN graph' : graph'[e] = Cardinality({ kn \in AllLogons' : EdgeAt(kn) = e })
    BY <2>2, <2>3, <2>4, <2>5
  <2>7. ASSUME NEW kn \in AllLogons' PROVE EdgeAt(kn) \in DOMAIN graph'
    <3>1. CASE kn \in AllLogons
      BY <1>2, <2>5, <3>1 DEF GraphInv
    <3>2. CASE kn \in new
      <4>1. PICK n \in Decoded(at) : IsLogon4624(log.records[n]) /\ EdgeAt(kn) = EdgeOf(log.records[n])
        BY <1>11, <3>2
      <4>2. EdgeOf(log.records[n]) \in DOMAIN acc.graph
        BY <1>13, <4>1 DEF GraphHolds
      <4>. QED  BY <2>5, <4>1, <4>2
    <3>. QED  BY <1>9, <3>1, <3>2
  <2>. QED  BY <1>12, <2>1, <2>6, <2>7 DEF GraphInv
<1>17. TotalInv'
  BY <1>1, <1>3 DEF TotalInv
<1>. QED  BY <1>3, <1>6, <1>16, <1>17 DEF QueryInv

LEMMA FileFailsHolds ==
  ASSUME QueryInv, FileFails
  PROVE  QueryInv'
<1>1. /\ at <= Len(logs) /\ ~logs[at].opens
      /\ results' = Append(results, Failed)
      /\ at' = at + 1
      /\ UNCHANGED <<logs, nth, acc, graph, total>>
  BY DEF FileFails
<1>2. QueryTypeInv /\ GatheredInv /\ ResultsInv /\ GraphInv /\ TotalInv
  BY DEF QueryInv
<1>3. nth' = 1 /\ acc' = Nothing
  BY <1>1, <1>2 DEF GatheredInv, Reading
<1>4. /\ QueryTypeInv' /\ GatheredInv'
      /\ at \in 1 .. Len(logs) /\ Len(results) = at - 1 /\ Len(results') = at
      /\ \A k \in 1 .. at - 1 : results'[k] = results[k]
      /\ results'[at] = Failed
      /\ total = <<>>
  BY <1>1, <1>3, NextFile
<1>5. at \in Nat
  BY <1>4
<1>6. ResultsInv'
  <2>1. ASSUME NEW k \in 1 .. at PROVE Returned(logs'[k], results'[k])
    <3>1. CASE k \in 1 .. at - 1
      <4>1. Returned(logs[k], results[k]) /\ results'[k] = results[k]
        BY <1>2, <1>4, <3>1 DEF ResultsInv
      <4>. QED  BY <1>1, <4>1
    <3>2. CASE k = at
      BY <1>1, <1>4, <3>2 DEF Returned
    <3>. QED  BY <1>5, <3>1, <3>2
  <2>. QED  BY <1>4, <2>1 DEF ResultsInv
<1>7. Opened' = Opened
  <2>1. Opened = { k \in 1 .. at - 1 : logs[k].opens }
    BY <1>2, <1>4, OpenedAre
  <2>2. Opened' = { k \in 1 .. at : logs[k].opens }
    <3>1. ASSUME NEW k \in 1 .. at PROVE ~results'[k].failed <=> logs[k].opens
      <4>1. Returned(logs[k], results'[k])
        BY <1>1, <1>4, <1>6 DEF ResultsInv
      <4>. QED  BY <4>1, FailedIsClosed
    <3>. QED  BY <1>4, <3>1 DEF Opened
  <2>. QED  BY <1>1, <1>5, <2>1, <2>2
<1>8. GraphInv'
  BY <1>1, <1>2, <1>7 DEF GraphInv, AllLogons, EdgeAt, Decoded
<1>9. TotalInv'
  BY <1>1, <1>4 DEF TotalInv
<1>. QED  BY <1>4, <1>6, <1>8, <1>9 DEF QueryInv

LEMMA ConcludeHolds ==
  ASSUME QueryInv, Conclude
  PROVE  QueryInv'
<1>1. /\ at > Len(logs)
      /\ total' = <<[edges |-> graph, nodes |-> Nodes(graph),
                     diff  |-> IF {1, 2} \subseteq Opened
                                 THEN Diff(results[1].timeline, results[2].timeline) ELSE Failed]>>
      /\ UNCHANGED <<logs, at, nth, acc, results, graph>>
  BY DEF Conclude
<1>2. QueryTypeInv /\ GatheredInv /\ ResultsInv /\ GraphInv /\ TotalInv
  BY DEF QueryInv
<1>3. at = Len(logs) + 1
  BY <1>1, <1>2, SequenceIs DEF QueryTypeInv
<1>4. Opened' = Opened
  BY <1>1 DEF Opened
<1>5. TotalInv'
  BY <1>1, <1>3, <1>4 DEF TotalInv
<1>6. QueryTypeInv' /\ GatheredInv' /\ ResultsInv' /\ GraphInv'
  BY <1>1, <1>2 DEF QueryTypeInv, GatheredInv, Reading, ResultsInv, GraphInv, AllLogons, EdgeAt,
                    Opened, Decoded
<1>. QED  BY <1>5, <1>6 DEF QueryInv

(* What the passes gather is right at every record, and what is merged is   *)
(* right after every file.                                                  *)
THEOREM QueriesCorrect == QuerySpec => []QueryInv
<1>1. QueryInit => QueryInv
  BY InitHolds
<1>2. QueryInv /\ [QueryNext]_qvars => QueryInv'
  <2> SUFFICES ASSUME QueryInv, [QueryNext]_qvars PROVE QueryInv'
    OBVIOUS
  <2>1. CASE Read
    BY <2>1, ReadHolds
  <2>2. CASE EndOfFile
    BY <2>2, EndOfFileHolds
  <2>3. CASE FileFails
    BY <2>3, FileFailsHolds
  <2>4. CASE Conclude
    BY <2>4, ConcludeHolds
  <2>5. CASE UNCHANGED qvars
    <3>1. UNCHANGED <<logs, at, nth, acc, results, graph, total>>
      BY <2>5 DEF qvars
    <3>2. QueryTypeInv' /\ GatheredInv' /\ ResultsInv'
      BY <3>1 DEF QueryInv, QueryTypeInv, GatheredInv, Reading, ResultsInv
    <3>3. GraphInv' /\ TotalInv'
      BY <3>1 DEF QueryInv, GraphInv, AllLogons, EdgeAt, Opened, Decoded, TotalInv
    <3>. QED  BY <3>2, <3>3 DEF QueryInv
  <2>. QED  BY <2>1, <2>2, <2>3, <2>4, <2>5 DEF QueryNext
<1>. QED  BY <1>1, <1>2, PTL DEF QuerySpec

-----------------------------------------------------------------------------
(* What follows of the properties.                                          *)

(* A timeline and the events of extract_all never go back by a second, and  *)
(* a timeline has an entry for each record that can be decoded.             *)
THEOREM TimelinesInOrder == QuerySpec => []InTimeOrder
<1>1. ASSUME QueryInv PROVE InTimeOrder
  <2> SUFFICES ASSUME NEW k \in Opened
               PROVE  /\ InOrder(results[k].timeline) /\ InOrder(results[k].events)
                      /\ Len(results[k].timeline) = Cardinality(Decoded(k))
    BY DEF InTimeOrder
  <2>1. PICK a : Holds(a, logs[k], Len(logs[k].records)) /\ results[k] = Result(a)
    BY <1>1, OpenedAre DEF QueryInv
  <2>2. results[k].timeline = ByText(a.timeline) /\ results[k].events = ExtractAll(a.events)
    BY <2>1 DEF Result
  <2>3. /\ TimelineHolds(a, logs[k], Len(logs[k].records)) /\ EventsHold(a)
    BY <2>1 DEF Holds
  <2>4. /\ InOrder(ByText(a.timeline))
        /\ Len(ByText(a.timeline)) = Cardinality(Decoded(k))
    BY <2>3, ByTextSorts DEF TimelineHolds, Decoded
  <2>5. InOrder(ExtractAll(a.events))
    BY <2>3, ExtractedInOrder DEF EventsHold
  <2>. QED  BY <2>2, <2>4, <2>5
<1>. QED  BY <1>1, QueriesCorrect, PTL

(* A script is put together again, whatever the order its fragments were    *)
(* logged in and however they are mixed with those of others.               *)
THEOREM BlocksAreJoined == QuerySpec => []BlocksJoin
<1>1. ASSUME QueryInv, NEW k \in Opened, NEW b \in 1 .. Len(results[k].blocks)
      PROVE  LET block  == results[k].blocks[b]
                 frags  == { n \in Decoded(k) : IsFragment(logs[k].records[n], block.id) }
                 fld(n) == logs[k].records[n].fields
                 num(n) == fld(n)["MessageNumber"]
             IN  (/\ \A n \in frags : "MessageNumber" \in DOMAIN fld(n) /\ num(n).str
                  /\ \A m, n \in frags : m # n => num(m).v # num(n).v)
                 => /\ block.parts = Cardinality(frags)
                    /\ \A n \in frags :
                         block.text[1 + Cardinality({ m \in frags : num(m).v < num(n).v })]
                           = Text(logs[k].records[n], "ScriptBlockText")
  <2>1. PICK a : Holds(a, logs[k], Len(logs[k].records)) /\ results[k] = Result(a)
    BY <1>1, OpenedAre DEF QueryInv
  <2>2. IsLog(logs[k])
    BY <1>1, OpenedAre DEF QueryInv
  <2> DEFINE log == logs[k]
             own == a.blocks[b]
             block == results[k].blocks[b]
             F == FragmentsOf(log, Len(log.records), own.id)
  <2>3. BlocksHold(a, log, Len(log.records))
    BY <2>1 DEF Holds
  <2>4. Len(a.blocks) \in Nat
    BY <2>3, SequenceIs DEF BlocksHold
  <2> DEFINE told == [c \in 1 .. Len(a.blocks) |->
                        [id |-> a.blocks[c].id, path |-> a.blocks[c].path,
                         parts |-> Len(a.blocks[c].parts), text |-> Joined(a.blocks[c])]]
  <2>5. results[k].blocks = told
    BY <2>1 DEF Result
  <2>6. IsSequence(told) /\ Len(told) = Len(a.blocks)
    <3>1. DOMAIN told = 1 .. Len(a.blocks) /\ told = [c \in 1 .. Len(a.blocks) |-> told[c]]
      OBVIOUS
    <3>. HIDE DEF told
    <3>. QED  BY <2>4, <3>1, MadeSequence
  <2>7. b \in 1 .. Len(a.blocks)
    BY <2>5, <2>6
  <2>8. block.id = own.id /\ block.parts = Len(own.parts) /\ block.text = Joined(own)
    BY <2>5, <2>7
  <2>9. BlockHolds(own, log, Len(log.records))
    BY <2>3, <2>7 DEF BlocksHold
  <2>10. { n \in Decoded(k) : IsFragment(logs[k].records[n], block.id) } = F
    BY <2>8 DEF FragmentsOf, Decoded
  <2>. HIDE DEF own, block, told, log
  <2>11. Numbered(log, F) => PutTogether(log, F, block.parts, block.text)
    BY <2>2, <2>8, <2>9, BlockJoins DEF log
  <2>. HIDE DEF F
  <2>. QED  BY <2>10, <2>11 DEF Numbered, PutTogether, MessageNumber, log, block
<1>2. QueryInv => BlocksJoin
  BY <1>1 DEF BlocksJoin
<1>. QED  BY <1>2, QueriesCorrect, PTL

(* Each edge of the merged graph counts every one of its logons once,       *)
(* however they are spread over files and whichever files fail.             *)
THEOREM GraphsAddUp == QuerySpec => []GraphAddsUp
<1>1. ASSUME QueryInv, total # <<>> PROVE GraphAddsUp
  <2> DEFINE logons == UNION { {k} \X Decoded(k) : k \in Opened }
             rec(kn) == logs[kn[1]].records[kn[2]]
  <2>1. total[1].edges = graph
    BY <1>1 DEF QueryInv, TotalInv
  <2>2. /\ \A e \in DOMAIN graph : graph[e] = Cardinality({ kn \in AllLogons : EdgeAt(kn) = e })
        /\ \A kn \in AllLogons : EdgeAt(kn) \in DOMAIN graph
    BY <1>1 DEF QueryInv, GraphInv
  <2>3. \A kn, e : IsLogonOn(rec(kn), e) <=> IsLogon4624(rec(kn)) /\ EdgeAt(kn) = e
    BY DEF IsLogonOn, IsLogon4624, EdgeAt, EdgeOf
  <2>4. AllLogons = { kn \in logons : IsLogon4624(rec(kn)) }
    BY DEF AllLogons
  <2>. HIDE DEF logons, rec
  <2>5. \A e : { kn \in AllLogons : EdgeAt(kn) = e } = { kn \in logons : IsLogonOn(rec(kn), e) }
    BY <2>3, <2>4
  <2>6. \A e \in DOMAIN graph : graph[e] = Cardinality({ kn \in logons : IsLogonOn(rec(kn), e) })
    BY <2>2, <2>5
  <2>7. \A kn \in logons : IsLogon4624(rec(kn)) => \E e \in DOMAIN graph : IsLogonOn(rec(kn), e)
    BY <2>2, <2>3, <2>4
  <2>. QED  BY <2>1, <2>6, <2>7 DEF GraphAddsUp, logons, rec, IsLogon4624
<1>2. QueryInv => GraphAddsUp
  BY <1>1 DEF GraphAddsUp
<1>. QED  BY <1>2, QueriesCorrect, PTL

-----------------------------------------------------------------------------
(* Anomalies.                                                               *)

IsTally(b) == IsFiniteSet(DOMAIN b) /\ \A e \in DOMAIN b : b[e] \in Nat

\* As many rows as b counts of the members of S: what a sum is the cardinality of.
Rows(b, S) == UNION { {e} \X (1 .. b[e]) : e \in S }

LEMMA RowsAre ==
  ASSUME NEW b, NEW S, NEW x
  PROVE  x \in Rows(b, S) <=> \E e \in S : x \in {e} \X (1 .. b[e])
BY DEF Rows

LEMMA RowsFinite ==
  ASSUME NEW b, IsTally(b), NEW S \in SUBSET DOMAIN b
  PROVE  IsFiniteSet(Rows(b, S)) /\ Cardinality(Rows(b, S)) \in Nat
<1>1. IsFiniteSet(S)
  BY FS_Subset DEF IsTally
<1>2. \A e \in S : IsFiniteSet({e} \X (1 .. b[e]))
  <2> SUFFICES ASSUME NEW e \in S PROVE IsFiniteSet({e} \X (1 .. b[e]))
    OBVIOUS
  <2>1. b[e] \in Nat
    BY DEF IsTally
  <2>2. IsFiniteSet(1 .. b[e]) /\ IsFiniteSet({e})
    <3>1. IsFiniteSet(1 .. b[e])
      BY <2>1, FS_Interval
    <3>. QED  BY <3>1, FS_Singleton
  <2>. QED  BY <2>2, FS_Product
<1>3. IsFiniteSet({ {e} \X (1 .. b[e]) : e \in S })
  <2> DEFINE h == [e \in S |-> {e} \X (1 .. b[e])]
             T == { {e} \X (1 .. b[e]) : e \in S }
  <2>1. h \in Surjection(S, T)
    BY DEF Surjection
  <2>. HIDE DEF h, T
  <2>2. IsFiniteSet(T)
    BY <1>1, <2>1, FS_Surjection
  <2>. QED  BY <2>2 DEF T
<1>4. IsFiniteSet(Rows(b, S))
  BY <1>2, <1>3, FS_UNION DEF Rows
<1>. QED  BY <1>4, FS_CardinalityType

LEMMA RowsStep ==
  ASSUME NEW b, IsTally(b), NEW S \in SUBSET DOMAIN b, NEW e \in S
  PROVE  Cardinality(Rows(b, S)) = b[e] + Cardinality(Rows(b, S \ {e}))
<1> DEFINE own == {e} \X (1 .. b[e])
<1>1. b[e] \in Nat
  BY DEF IsTally
<1>2. IsFiniteSet(own) /\ Cardinality(own) = b[e]
  <2>1. IsFiniteSet(1 .. b[e]) /\ Cardinality(1 .. b[e]) = b[e]
    BY <1>1, FS_Interval
  <2>2. IsFiniteSet({e}) /\ Cardinality({e}) = 1
    BY FS_Singleton
  <2>3. IsFiniteSet(own) /\ Cardinality(own) = 1 * b[e]
    BY <2>1, <2>2, FS_Product
  <2>. QED  BY <1>1, <2>3
<1>3. Rows(b, S) = own \cup Rows(b, S \ {e})
  BY DEF Rows
<1>4. own \cap Rows(b, S \ {e}) = {}
  <2>1. \A x \in own : x[1] = e
    OBVIOUS
  <2>2. \A x \in Rows(b, S \ {e}) : x[1] # e
    BY RowsAre
  <2>. QED  BY <2>1, <2>2
<1>5. IsFiniteSet(Rows(b, S \ {e})) /\ Cardinality(Rows(b, S \ {e})) \in Nat
  BY RowsFinite
<1>. HIDE DEF own
<1>6. Cardinality(own \cup Rows(b, S \ {e}))
        = Cardinality(own) + Cardinality(Rows(b, S \ {e})) - Cardinality(own \cap Rows(b, S \ {e}))
  BY <1>2, <1>5, FS_Union
<1>7. Cardinality(own \cap Rows(b, S \ {e})) = 0
  BY <1>4, FS_EmptySet
<1>. QED  BY <1>1, <1>2, <1>3, <1>5, <1>6, <1>7

(* Sum adds up the counts, in whatever order its fold takes them.           *)
LEMMA SumIs ==
  ASSUME NEW b, IsTally(b)
  PROVE  Sum(b) = Cardinality(Rows(b, DOMAIN b))
<1> DEFINE pick(s) == CHOOSE x \in s : TRUE
           iter[s \in SUBSET DOMAIN b] == IF s = {} THEN 0 ELSE b[pick(s)] + iter[s \ {pick(s)}]
           g == [s \in SUBSET DOMAIN b |-> Cardinality(Rows(b, s))]
<1>1. Sum(b) = iter[DOMAIN b]
  BY DEF Sum, FoldFunction, FoldFunctionOnSet, MapThenFoldSet
<1>2. iter = CHOOSE h : h = [s \in SUBSET DOMAIN b |-> IF s = {} THEN 0 ELSE b[pick(s)] + h[s \ {pick(s)}]]
  OBVIOUS
<1>. HIDE DEF iter
<1>3. ASSUME NEW s \in SUBSET DOMAIN b
      PROVE  Cardinality(Rows(b, s)) = IF s = {} THEN 0 ELSE b[pick(s)] + g[s \ {pick(s)}]
  <2>1. CASE s = {}
    <3>1. Rows(b, s) = {}
      BY <2>1 DEF Rows
    <3>. QED  BY <2>1, <3>1, FS_EmptySet
  <2>2. CASE s # {}
    <3>1. pick(s) \in s
      BY <2>2
    <3>. HIDE DEF pick
    <3>2. s \ {pick(s)} \in SUBSET DOMAIN b
      OBVIOUS
    <3>. QED  BY <2>2, <3>1, <3>2, RowsStep
  <2>. QED  BY <2>1, <2>2
<1>4. g = [s \in SUBSET DOMAIN b |-> IF s = {} THEN 0 ELSE b[pick(s)] + g[s \ {pick(s)}]]
  BY <1>3
<1>5. iter = [s \in SUBSET DOMAIN b |-> IF s = {} THEN 0 ELSE b[pick(s)] + iter[s \ {pick(s)}]]
  <2>. HIDE DEF g, pick
  <2>. QED  BY <1>2, <1>4
<1>6. \A s \in SUBSET DOMAIN b : IsFiniteSet(s) /\ Cardinality(s) \in Nat
  BY FS_Subset, FS_CardinalityType DEF IsTally
<1>7. ASSUME NEW s \in SUBSET DOMAIN b, iter[s] # Cardinality(Rows(b, s)) PROVE FALSE
  <2> DEFINE Bad == { q \in SUBSET DOMAIN b : iter[q] # Cardinality(Rows(b, q)) }
             sizes == { Cardinality(q) : q \in Bad }
  <2>1. Cardinality(s) \in sizes /\ sizes \subseteq Nat
    BY <1>6, <1>7
  <2>2. PICK c \in sizes : \A k \in sizes : c <= k
    <3>. HIDE DEF sizes
    <3>. QED  BY <2>1, LeastNat
  <2>3. PICK q \in Bad : Cardinality(q) = c
    BY <2>2
  <2>4. iter[q] = IF q = {} THEN 0 ELSE b[pick(q)] + iter[q \ {pick(q)}]
    BY <1>5, <2>3
  <2>5. Cardinality(Rows(b, q)) = IF q = {} THEN 0 ELSE b[pick(q)] + Cardinality(Rows(b, q \ {pick(q)}))
    BY <1>3, <2>3
  <2>6. q # {}
    BY <2>3, <2>4, <2>5
  <2>7. pick(q) \in q
    BY <2>6
  <2>. HIDE DEF pick
  <2>8. q \ {pick(q)} \in SUBSET DOMAIN b /\ Cardinality(q \ {pick(q)}) = Cardinality(q) - 1
    BY <1>6, <2>3, <2>7, FS_RemoveElement
  <2>9. q \ {pick(q)} \notin Bad
    <3>1. Cardinality(q \ {pick(q)}) < c
      BY <1>6, <2>3, <2>8
    <3>2. Cardinality(q \ {pick(q)}) \notin sizes
      BY <1>6, <2>1, <2>2, <2>8, <3>1
    <3>. QED  BY <3>2
  <2>10. iter[q \ {pick(q)}] = Cardinality(Rows(b, q \ {pick(q)}))
    BY <2>8, <2>9
  <2>. QED  BY <2>3, <2>4, <2>5, <2>6, <2>10
<1>. QED  BY <1>1, <1>7

Squares(b) == [e \in DOMAIN b |-> b[e] * b[e]]

LEMMA SquaresTally ==
  ASSUME NEW b, IsTally(b)
  PROVE  IsTally(Squares(b)) /\ DOMAIN Squares(b) = DOMAIN b
BY DEF IsTally, Squares

\* The number of members of S, their sum and the sum of their squares.
Many(S)    == Cardinality(S)
Total(b, S) == Cardinality(Rows(b, S))
Power(b, S) == Cardinality(Rows(Squares(b), S))

LEMMA SumsStep ==
  ASSUME NEW b, IsTally(b), NEW S \in SUBSET DOMAIN b, NEW e \in S
  PROVE  /\ b[e] \in Nat
         /\ Many(S \ {e}) \in Nat /\ Total(b, S \ {e}) \in Nat /\ Power(b, S \ {e}) \in Nat
         /\ Many(S)     = Many(S \ {e}) + 1
         /\ Total(b, S) = b[e] + Total(b, S \ {e})
         /\ Power(b, S) = b[e] * b[e] + Power(b, S \ {e})
<1>1. b[e] \in Nat /\ Squares(b)[e] = b[e] * b[e]
  BY DEF IsTally, Squares
<1>2. IsFiniteSet(S) /\ Cardinality(S) \in Nat
  BY FS_Subset, FS_CardinalityType DEF IsTally
<1>3. Cardinality(S \ {e}) \in Nat /\ Cardinality(S) = Cardinality(S \ {e}) + 1
  <2>1. IsFiniteSet(S \ {e}) /\ Cardinality(S \ {e}) = Cardinality(S) - 1
    BY <1>2, FS_RemoveElement
  <2>. QED  BY <1>2, <2>1, FS_CardinalityType
<1>4. Total(b, S \ {e}) \in Nat /\ Total(b, S) = b[e] + Total(b, S \ {e})
  BY RowsFinite, RowsStep DEF Total
<1>5. Power(b, S \ {e}) \in Nat /\ Power(b, S) = b[e] * b[e] + Power(b, S \ {e})
  BY <1>1, SquaresTally, RowsFinite, RowsStep DEF Power
<1>. QED  BY <1>1, <1>3, <1>4, <1>5 DEF Many

\* What the squares of the distances from x add up to is not negative.
LEMMA FarFrom ==
  ASSUME NEW b, IsTally(b), NEW x \in Nat, NEW S \in SUBSET DOMAIN b
  PROVE  2 * x * Total(b, S) <= Power(b, S) + Many(S) * x * x
<1> DEFINE Fine(s) == 2 * x * Total(b, s) <= Power(b, s) + Many(s) * x * x
           Bad == { s \in SUBSET DOMAIN b : ~Fine(s) }
           sizes == { Many(s) : s \in Bad }
<1>1. SUFFICES ASSUME S \in Bad PROVE FALSE
  OBVIOUS
<1>2. \A s \in SUBSET DOMAIN b : IsFiniteSet(s) /\ Many(s) \in Nat
  BY FS_Subset, FS_CardinalityType DEF IsTally, Many
<1>3. sizes \subseteq Nat /\ Many(S) \in sizes
  BY <1>1, <1>2
<1>4. PICK c \in sizes : \A k \in sizes : c <= k
  <2>. HIDE DEF sizes
  <2>. QED  BY <1>3, LeastNat
<1>5. PICK s \in Bad : Many(s) = c
  BY <1>4
<1>6. s # {}
  <2>1. Total(b, {}) = 0 /\ Power(b, {}) = 0 /\ Many({}) = 0
    BY FS_EmptySet DEF Total, Power, Many, Rows
  <2>2. Fine({})
    BY <2>1
  <2>. QED  BY <1>5, <2>2
<1>7. PICK e \in s : TRUE
  BY <1>6
<1> DEFINE r == s \ {e}
<1>8. /\ b[e] \in Nat /\ Many(r) \in Nat /\ Total(b, r) \in Nat /\ Power(b, r) \in Nat
      /\ Many(s) = Many(r) + 1 /\ Total(b, s) = b[e] + Total(b, r)
      /\ Power(b, s) = b[e] * b[e] + Power(b, r)
  <2>1. s \in SUBSET DOMAIN b /\ e \in s
    BY <1>5, <1>7
  <2>. HIDE DEF Bad, sizes, Fine, r
  <2>2. r = s \ {e}
    BY DEF r
  <2>. QED  BY <2>1, <2>2, SumsStep
<1>9. Fine(r)
  <2>1. Many(r) < c /\ r \in SUBSET DOMAIN b
    BY <1>5, <1>8
  <2>. HIDE DEF Fine, r
  <2>. QED  BY <1>2, <1>4, <2>1
<1>10. \A y, q, t, m \in Nat : 2 * x * t <= q + m * x * x
         => 2 * x * (y + t) <= (y * y + q) + (m + 1) * x * x
  <2> SUFFICES ASSUME NEW y \in Nat, NEW q \in Nat, NEW t \in Nat, NEW m \in Nat,
                      2 * x * t <= q + m * x * x
               PROVE  2 * x * (y + t) <= (y * y + q) + (m + 1) * x * x
    OBVIOUS
  <2>1. (y - x) * (y - x) >= 0
    OBVIOUS
  <2>2. 2 * x * y <= y * y + x * x
    BY <2>1
  <2>3. 2 * x * (y + t) = 2 * x * y + 2 * x * t /\ (m + 1) * x * x = m * x * x + x * x
    OBVIOUS
  <2>4. 2 * x * y \in Nat /\ 2 * x * t \in Nat /\ m * x * x \in Nat /\ x * x \in Nat /\ y * y \in Nat
    OBVIOUS
  <2>. QED  BY <2>2, <2>3, <2>4
<1>11. Fine(s)
  <2>. HIDE DEF r
  <2>. QED  BY <1>8, <1>9, <1>10
<1>. QED  BY <1>5, <1>11

(* The square of a sum is at most as often the sum of the squares as it has *)
(* members.                                                                 *)
LEMMA SumSquared ==
  ASSUME NEW b, IsTally(b), NEW S \in SUBSET DOMAIN b
  PROVE  Total(b, S) * Total(b, S) <= Many(S) * Power(b, S)
<1> DEFINE Fine(s) == Total(b, s) * Total(b, s) <= Many(s) * Power(b, s)
           Bad == { s \in SUBSET DOMAIN b : ~Fine(s) }
           sizes == { Many(s) : s \in Bad }
<1>1. SUFFICES ASSUME S \in Bad PROVE FALSE
  OBVIOUS
<1>2. \A s \in SUBSET DOMAIN b : IsFiniteSet(s) /\ Many(s) \in Nat
  BY FS_Subset, FS_CardinalityType DEF IsTally, Many
<1>3. sizes \subseteq Nat /\ Many(S) \in sizes
  BY <1>1, <1>2
<1>4. PICK c \in sizes : \A k \in sizes : c <= k
  <2>. HIDE DEF sizes
  <2>. QED  BY <1>3, LeastNat
<1>5. PICK s \in Bad : Many(s) = c
  BY <1>4
<1>6. s # {}
  <2>1. Total(b, {}) = 0 /\ Power(b, {}) = 0 /\ Many({}) = 0
    BY FS_EmptySet DEF Total, Power, Many, Rows
  <2>2. Fine({})
    BY <2>1
  <2>. QED  BY <1>5, <2>2
<1>7. PICK e \in s : TRUE
  BY <1>6
<1> DEFINE r == s \ {e}
<1>8. /\ b[e] \in Nat /\ Many(r) \in Nat /\ Total(b, r) \in Nat /\ Power(b, r) \in Nat
      /\ Many(s) = Many(r) + 1 /\ Total(b, s) = b[e] + Total(b, r)
      /\ Power(b, s) = b[e] * b[e] + Power(b, r)
  <2>1. s \in SUBSET DOMAIN b /\ e \in s
    BY <1>5, <1>7
  <2>. HIDE DEF Bad, sizes, Fine, r
  <2>2. r = s \ {e}
    BY DEF r
  <2>. QED  BY <2>1, <2>2, SumsStep
<1>9. r \in SUBSET DOMAIN b
  BY <1>5
<1>10. Fine(r)
  <2>1. Many(r) < c
    BY <1>5, <1>8
  <2>. HIDE DEF Fine, r
  <2>. QED  BY <1>2, <1>4, <1>9, <2>1
<1>11. 2 * b[e] * Total(b, r) <= Power(b, r) + Many(r) * b[e] * b[e]
  <2>. HIDE DEF r
  <2>. QED  BY <1>8, <1>9, FarFrom
<1>12. \A y, q, t, m \in Nat : t * t <= m * q /\ 2 * y * t <= q + m * y * y
         => (y + t) * (y + t) <= (m + 1) * (y * y + q)
  <2> SUFFICES ASSUME NEW y \in Nat, NEW q \in Nat, NEW t \in Nat, NEW m \in Nat,
                      t * t <= m * q, 2 * y * t <= q + m * y * y
               PROVE  (y + t) * (y + t) <= (m + 1) * (y * y + q)
    OBVIOUS
  <2>1. (y + t) * (y + t) = y * y + 2 * y * t + t * t
    OBVIOUS
  <2>2. (m + 1) * (y * y + q) = m * y * y + m * q + y * y + q
    OBVIOUS
  <2>3. /\ y * y \in Nat /\ 2 * y * t \in Nat /\ t * t \in Nat
        /\ m * y * y \in Nat /\ m * q \in Nat
    OBVIOUS
  <2>. QED  BY <2>1, <2>2, <2>3
<1>13. Fine(s)
  <2>. HIDE DEF r
  <2>. QED  BY <1>8, <1>10, <1>11, <1>12
<1>. QED  BY <1>5, <1>13

(* None of n numbers is further from their mean than sqrt(n - 1) deviations. *)
LEMMA DeviationBounds ==
  ASSUME NEW b, IsTally(b), NEW e \in DOMAIN b
  PROVE  LET n   == Cardinality(DOMAIN b)
             dev == n * b[e] - Sum(b)
         IN  /\ n \in Nat \ {0} /\ b[e] \in Nat /\ Sum(b) \in Nat /\ Deviation(b) \in Int
             /\ dev * dev <= (n - 1) * Deviation(b)
<1> DEFINE n == Cardinality(DOMAIN b)
           r == DOMAIN b \ {e}
           c == b[e]
           t == Total(b, r)
           q == Power(b, r)
           m == Many(r)
<1>1. Sum(b) = Total(b, DOMAIN b)
  BY SumIs DEF Total
<1>2. Sum([x \in DOMAIN b |-> b[x] * b[x]]) = Power(b, DOMAIN b)
  BY SumIs, SquaresTally DEF Power, Squares
<1>3. /\ c \in Nat /\ m \in Nat /\ t \in Nat /\ q \in Nat
      /\ n = m + 1 /\ Total(b, DOMAIN b) = c + t /\ Power(b, DOMAIN b) = c * c + q
  <2>1. DOMAIN b \in SUBSET DOMAIN b
    OBVIOUS
  <2>. QED  BY <2>1, SumsStep DEF Many
<1>4. t * t <= m * q
  BY SumSquared
<1>5. Deviation(b) = n * (c * c + q) - (c + t) * (c + t)
  BY <1>1, <1>2, <1>3 DEF Deviation
<1>6. \A x, y, u, v \in Nat : y * y <= v * u =>
        ((v + 1) * x - (x + y)) * ((v + 1) * x - (x + y))
          <= v * ((v + 1) * (x * x + u) - (x + y) * (x + y))
  <2> SUFFICES ASSUME NEW x \in Nat, NEW y \in Nat, NEW u \in Nat, NEW v \in Nat, y * y <= v * u
               PROVE  ((v + 1) * x - (x + y)) * ((v + 1) * x - (x + y))
                        <= v * ((v + 1) * (x * x + u) - (x + y) * (x + y))
    OBVIOUS
  <2>1. v * ((v + 1) * (x * x + u) - (x + y) * (x + y))
          - ((v + 1) * x - (x + y)) * ((v + 1) * x - (x + y)) = (v + 1) * (v * u - y * y)
    OBVIOUS
  <2>2. v * u - y * y \in Nat
    OBVIOUS
  <2>3. (v + 1) * (v * u - y * y) >= 0
    BY <2>2
  <2>4. v * ((v + 1) * (x * x + u) - (x + y) * (x + y)) \in Int
    OBVIOUS
  <2>5. ((v + 1) * x - (x + y)) * ((v + 1) * x - (x + y)) \in Int
    OBVIOUS
  <2>. QED  BY <2>1, <2>3, <2>4, <2>5
<1>. HIDE DEF n, r, c, t, q, m
<1>7. (n * c - (c + t)) * (n * c - (c + t)) <= (n - 1) * Deviation(b)
  BY <1>3, <1>4, <1>5, <1>6
<1>8. n \in Nat \ {0} /\ Sum(b) \in Nat /\ Deviation(b) \in Int
  BY <1>1, <1>3, <1>5
<1>. QED  BY <1>1, <1>3, <1>7, <1>8 DEF n, c

(* Where there is an anomaly there are more ids than MinZ2.                 *)
LEMMA AnomalousIds ==
  ASSUME NEW b, IsTally(b), Anomalies(b) # {}
  PROVE  MinZ2 <= Cardinality(DOMAIN b) - 1
<1> DEFINE n == Cardinality(DOMAIN b)
           D == Deviation(b)
<1>1. PICK e \in Anomalies(b) : TRUE
  OBVIOUS
<1> DEFINE dev == n * b[e] - Sum(b)
<1>2. e \in DOMAIN b /\ IF D > 0 THEN dev * dev >= MinZ2 * D ELSE MinZ2 = 0
  BY <1>1 DEF Anomalies
<1>3. /\ n \in Nat \ {0} /\ D \in Int /\ dev * dev \in Int
      /\ dev * dev <= (n - 1) * D
  BY <1>2, DeviationBounds
<1>4. MinZ2 \in Nat
  BY QueryAssumption
<1>. HIDE DEF n, D, dev
<1>5. CASE D > 0
  <2>1. MinZ2 * D \in Int /\ (n - 1) * D \in Int
    BY <1>3, <1>4
  <2>2. MinZ2 * D <= (n - 1) * D
    BY <1>2, <1>3, <1>5, <2>1
  <2>3. \A x, y \in Int : x * D <= y * D => x <= y
    BY <1>3, <1>5
  <2>4. MinZ2 <= n - 1
    <3>1. MinZ2 \in Int /\ n - 1 \in Int
      BY <1>3, <1>4
    <3>. QED  BY <2>2, <2>3, <3>1
  <2>. QED  BY <2>4 DEF n
<1>6. CASE ~(D > 0)
  <2>1. MinZ2 = 0 /\ 0 <= n - 1
    BY <1>2, <1>3, <1>6
  <2>. QED  BY <2>1 DEF n
<1>. QED  BY <1>5, <1>6
(* The counts of a log are of its event ids, of which there are finitely many. *)
LEMMA FrequencyTally ==
  ASSUME NEW a, NEW log, NEW m \in Nat, FrequencyHolds(a, log, m)
  PROVE  IsTally(a.freq)
<1> DEFINE P == DecodedTo(log, m)
           h == [n \in P |-> log.records[n].eid]
           T == { log.records[n].eid : n \in P }
<1>1. IsFiniteSet(P)
  BY DecodedStep
<1>2. h \in Surjection(P, T)
  BY DEF Surjection
<1>3. IsFiniteSet(T)
  <2>. HIDE DEF P, h, T
  <2>. QED  BY <1>1, <1>2, FS_Surjection
<1>4. DOMAIN a.freq = T /\ \A e \in DOMAIN a.freq : a.freq[e] \in Nat
  BY IdsFinite DEF FrequencyHolds
<1>. QED  BY <1>3, <1>4 DEF IsTally

(* However the event ids of a log are distributed, one is an anomaly only  *)
(* if there are more of them than MinZ2 (anomaly_detect).                   *)
THEOREM AnomaliesNeedManyIds == QuerySpec => []AnomaliesNeedIds
<1>1. ASSUME QueryInv, NEW k \in Opened, results[k].anomalies # {}
      PROVE  MinZ2 <= Cardinality(DOMAIN results[k].freq) - 1
  <2>1. k \in 1 .. Len(logs) /\ IsLog(logs[k])
    BY <1>1, OpenedAre DEF QueryInv
  <2>2. PICK a : Holds(a, logs[k], Len(logs[k].records)) /\ results[k] = Result(a)
    BY <1>1, OpenedAre DEF QueryInv
  <2>3. results[k].anomalies = Anomalies(a.freq) /\ results[k].freq = a.freq
    BY <2>2 DEF Result
  <2>4. Len(logs[k].records) \in Nat
    BY <2>1, SequenceIs DEF IsLog
  <2>5. IsTally(a.freq)
    BY <2>2, <2>4, FrequencyTally DEF Holds
  <2>. QED  BY <1>1, <2>3, <2>5, AnomalousIds
<1>2. QueryInv => AnomaliesNeedIds
  BY <1>1 DEF AnomaliesNeedIds
<1>. QED  BY <1>2, QueriesCorrect, PTL

-----------------------------------------------------------------------------
(* The process tree, the rare processes and the command lines, three passes *)
(* of their own, tell of the same processes.                                *)
THEOREM ProcessesDoAgree == QuerySpec => []ProcessesAgree
<1>1. ASSUME QueryInv, NEW k \in Opened
      PROVE  LET tree == results[k].tree
                 of(image) == { n \in 1 .. Len(tree) : tree[n].image = image }
                 rare == results[k].rareness
                 ran  == { n \in 1 .. Len(results[k].events) :
                             results[k].events[n].kind = "ProcessExecution" }
             IN  /\ Len(tree) = Cardinality(ran)
                 /\ \A image \in DOMAIN rare \ {"-"} :
                      /\ rare[image].count = Cardinality(of(image))
                      /\ \A n \in of(image) : /\ TextKey(rare[image].first) <= TextKey(tree[n].time)
                                              /\ TextKey(tree[n].time) <= TextKey(rare[image].last)
  <2>1. PICK a : Holds(a, logs[k], Len(logs[k].records)) /\ results[k] = Result(a)
    BY <1>1, OpenedAre DEF QueryInv
  <2>2. /\ results[k].tree = a.tree /\ results[k].rareness = a.rare
        /\ results[k].events = ExtractAll(a.events)
    BY <2>1 DEF Result
  <2>3. ProcessesHold(a) /\ EventsHold(a)
    BY <2>1 DEF Holds
  <2>4. Cardinality({ n \in 1 .. Len(ExtractAll(a.events)) :
                        ExtractAll(a.events)[n].kind = "ProcessExecution" }) = Len(a.tree)
    BY <2>3, ExtractedInOrder DEF EventsHold, ProcessesHold
  <2>5. ASSUME NEW image \in DOMAIN a.rare \ {"-"}
        PROVE  /\ a.rare[image].count = Cardinality(WithImage(a.tree, image))
               /\ \A n \in WithImage(a.tree, image) :
                    /\ TextKey(a.rare[image].first) <= TextKey(a.tree[n].time)
                    /\ TextKey(a.tree[n].time) <= TextKey(a.rare[image].last)
    BY <2>3 DEF ProcessesHold, ImagesTold, Recorded
  <2>. QED  BY <2>2, <2>4, <2>5 DEF WithImage
<1>2. QueryInv => ProcessesAgree
  BY <1>1 DEF ProcessesAgree
<1>. QED  BY <1>2, QueriesCorrect, PTL

(* The difference of two logs tells an edit: what is added and removed are  *)
(* exactly the records of one that the other does not have.                 *)
THEOREM EditsAreTold == QuerySpec => []DiffTellsEdits
<1>1. ASSUME QueryInv, total # <<>>, {1, 2} \subseteq Opened,
             \A x, y \in Range(results[1].timeline) \cup Range(results[2].timeline) : x.id = y.id => x = y
      PROVE  /\ Range(total[1].diff.added)   = Range(results[2].timeline) \ Range(results[1].timeline)
             /\ Range(total[1].diff.removed) = Range(results[1].timeline) \ Range(results[2].timeline)
  <2>1. total[1].diff = Diff(results[1].timeline, results[2].timeline)
    BY <1>1 DEF QueryInv, TotalInv
  <2>2. ASSUME NEW k \in Opened PROVE IsSequence(results[k].timeline)
    <3>1. PICK a : Holds(a, logs[k], Len(logs[k].records)) /\ results[k] = Result(a)
      BY <1>1, OpenedAre DEF QueryInv
    <3>2. results[k].timeline = ByText(a.timeline)
      BY <3>1 DEF Result
    <3>3. Timed(a.timeline)
      BY <3>1 DEF Holds, TimelineHolds
    <3>. QED  BY <3>2, <3>3, ByTextSorts
  <2>3. IsSequence(results[1].timeline) /\ IsSequence(results[2].timeline)
    BY <1>1, <2>2
  <2>. QED  BY <1>1, <2>1, <2>3, DiffTells
<1>2. QueryInv => DiffTellsEdits
  BY <1>1 DEF DiffTellsEdits
<1>. QED  BY <1>2, QueriesCorrect, PTL

-----------------------------------------------------------------------------
(* The names of event fields: how a manifest is read.                       *)

AllData(file, m, e) == \A q \in m + 1 .. e - 1 : file[q][1] = "data"

\* e is where the template at m ends.
Closes(file, m, e) == m < e /\ file[e][1] = "/template" /\ AllData(file, m, e)

NamesIn(file, m, e) == [q \in 1 .. e - m - 1 |-> file[m + q][2]]

IsTemplate(file, m) == file[m][1] = "template"

ManifestTypeInv ==
  /\ \A file \in DOMAIN dir : IsSequence(dir[file])
  /\ unread \subseteq DOMAIN dir
  /\ IsFiniteSet(DOMAIN given)
  /\ manifest \in {"open", "read", "loaded", "failed", "renaming", "renamed"}
  /\ \A t \in DOMAIN templates : IsSequence(templates[t])
  /\ inTemplate \in BOOLEAN /\ (inTemplate => tid \in DOMAIN templates)
  /\ \A e \in DOMAIN db : IsSequence(db[e])
  /\ IsSequence(eventMap)
  /\ manifest = "read" => /\ IsSequence(elements)
                          /\ place \in 1 .. Len(elements) + 1
  /\ manifest \in {"loaded", "renaming", "renamed"} => unread = {}

\* An event as it was met at m.
EventOf(file, m) == <<ProviderAt(file, m), file[m][2], file[m][3]>>

\* em is what was met before n of events,
EventsAre(file, n, em) ==
  /\ \A k \in 1 .. Len(em) : \E m \in 1 .. n - 1 : file[m][1] = "event" /\ em[k] = EventOf(file, m)
  /\ \A m \in 1 .. n - 1 : file[m][1] = "event" => \E k \in 1 .. Len(em) : em[k] = EventOf(file, m)

\* ts of templates,
TidsAre(file, n, ts) ==
  /\ \A t \in DOMAIN ts : \E m \in 1 .. n - 1 : IsTemplate(file, m) /\ file[m][2] = t
  /\ \A m \in 1 .. n - 1 : IsTemplate(file, m) => file[m][2] \in DOMAIN ts

\* each of which has ended with the names that were met in it,
HasEnded(file, m, n, ts) ==
  \E e \in 1 .. n - 1 : Closes(file, m, e) /\ ts[file[m][2]] = NamesIn(file, m, e)

\* or is among those that are open.
OpenTids == IF inTemplate THEN {tid} ELSE {}

StillOpen(file, m, n, ts, os) ==
  file[m][2] \in os /\ AllData(file, m, n) /\ ts[file[m][2]] = NamesIn(file, m, n)

TemplatesAre(file, n, ts, os) ==
  /\ \A m \in 1 .. n - 1 : IsTemplate(file, m) => StillOpen(file, m, n, ts, os) \/ HasEnded(file, m, n, ts)
  /\ \A x \in os : \E m \in 1 .. n - 1 : IsTemplate(file, m) /\ x = file[m][2] /\ AllData(file, m, n)

ReadingInv ==
  manifest = "read" =>
    /\ guid = ProviderAt(elements, place)
    /\ EventsAre(elements, place, eventMap)
    /\ TidsAre(elements, place, templates)
    /\ Wellformed(elements) => TemplatesAre(elements, place, templates, OpenTids)

AllWellformed == \A file \in DOMAIN dir : Wellformed(dir[file])

\* The events known are those that the files declare, with the names of one of them.
Covers(met) ==
  AllWellformed =>
    /\ \A e \in DOMAIN db : \E file \in met : <<e, db[e]>> \in Declarations(dir[file])
    /\ \A file \in met : \A x \in Declarations(dir[file]) : x[1] \in DOMAIN db

DbInv ==
  /\ manifest = "read" => \E file \in DOMAIN dir \ unread :
                            elements = dir[file] /\ Covers((DOMAIN dir \ unread) \ {file})
  /\ manifest \in {"open", "loaded", "renaming", "renamed"} => Covers(DOMAIN dir \ unread)

LoadInv == ManifestTypeInv /\ ReadingInv /\ DbInv

\* Where the value of a key is now.
NowAt(key) == IF <<key, NameOf(key)>> \in renames THEN key ELSE NameOf(key)

RenameInv ==
  /\ manifest \in {"open", "read", "loaded"} => data = given
  /\ manifest = "renamed" => renames = {}
  /\ manifest \in {"renaming", "renamed"} /\ NamesApart =>
       /\ \A r \in renames : \E key \in DOMAIN given : IsNamed(key) /\ r = <<key, NameOf(key)>>
       /\ DOMAIN data = { NowAt(key) : key \in DOMAIN given }
       /\ \A key \in DOMAIN given : data[NowAt(key)] = given[key]

-----------------------------------------------------------------------------
(* The last provider before an element is that element's, until the next.   *)
LEMMA ProviderStep ==
  ASSUME NEW file, IsSequence(file), NEW n \in 1 .. Len(file)
  PROVE  ProviderAt(file, n + 1) = IF file[n][1] = "provider" THEN file[n][2] ELSE ProviderAt(file, n)
<1>1. DOMAIN file = 1 .. Len(file) /\ Len(file) \in Nat
  BY SequenceIs
<1>2. \A m, p \in DOMAIN file : IsProviderOf(file, m, n + 1) /\ IsProviderOf(file, p, n + 1) => m = p
  BY <1>1 DEF IsProviderOf
<1>3. CASE file[n][1] = "provider"
  <2>1. IsProviderOf(file, n, n + 1) /\ n \in DOMAIN file
    BY <1>1, <1>3 DEF IsProviderOf
  <2>2. (CHOOSE m \in DOMAIN file : IsProviderOf(file, m, n + 1)) = n
    BY <1>2, <2>1
  <2>. QED  BY <1>3, <2>1, <2>2 DEF ProviderAt
<1>4. CASE file[n][1] # "provider"
  <2>1. \A m \in DOMAIN file : IsProviderOf(file, m, n + 1) <=> IsProviderOf(file, m, n)
    BY <1>1, <1>4 DEF IsProviderOf
  <2>2. (CHOOSE m \in DOMAIN file : IsProviderOf(file, m, n + 1))
          = (CHOOSE m \in DOMAIN file : IsProviderOf(file, m, n))
    BY <2>1
  <2>. QED  BY <1>4, <2>1, <2>2 DEF ProviderAt
<1>. QED  BY <1>3, <1>4

(* In front of all elements there is none.                                  *)
LEMMA NoProvider ==
  ASSUME NEW file, IsSequence(file)
  PROVE  ProviderAt(file, 1) = ""
<1>1. DOMAIN file = 1 .. Len(file) /\ Len(file) \in Nat
  BY SequenceIs
<1>2. \A m \in DOMAIN file : ~IsProviderOf(file, m, 1)
  BY <1>1 DEF IsProviderOf
<1>. QED  BY <1>2 DEF ProviderAt

(* What a template declares stands between it and its end.                  *)
LEMMA DeclaredIs ==
  ASSUME NEW file, IsSequence(file), Wellformed(file),
         NEW m \in 1 .. Len(file), NEW e \in 1 .. Len(file), IsTemplate(file, m), Closes(file, m, e)
  PROVE  Declared(file, file[m][2]) = NamesIn(file, m, e)
<1> DEFINE from == CHOOSE n \in DOMAIN file : file[n][1] = "template" /\ file[n][2] = file[m][2]
           IsTo(n) == /\ from < n /\ file[n][1] = "/template"
                      /\ \A q \in from .. n - 1 : file[q][1] # "/template"
           to == CHOOSE n \in DOMAIN file : IsTo(n)
<1>1. DOMAIN file = 1 .. Len(file) /\ Len(file) \in Nat
  BY SequenceIs
<1>2. from = m
  <2>1. \A n \in DOMAIN file : file[n][1] = "template" /\ file[n][2] = file[m][2] => n = m
    BY <1>1 DEF IsTemplate, Wellformed
  <2>. QED  BY <1>1, <2>1 DEF IsTemplate
<1>3. Declared(file, file[m][2]) = [n \in 1 .. to - from - 1 |-> file[from + n][2]]
  BY DEF Declared
<1>. HIDE DEF from
<1>4. IsTo(e)
  <2>1. m < e /\ file[e][1] = "/template" /\ file[m][1] = "template"
    BY DEF Closes, IsTemplate
  <2>2. ASSUME NEW q \in m .. e - 1 PROVE file[q][1] # "/template"
    <3>1. CASE q = m
      BY <2>1, <3>1
    <3>2. CASE q \in m + 1 .. e - 1
      BY <3>2 DEF Closes, AllData
    <3>. QED  BY <3>1, <3>2
  <2>. QED  BY <1>2, <2>1, <2>2
<1>5. \A p, q \in DOMAIN file : IsTo(p) /\ IsTo(q) => p = q
  <2> SUFFICES ASSUME NEW p \in DOMAIN file, NEW q \in DOMAIN file, IsTo(p), IsTo(q), p # q
               PROVE  FALSE
    OBVIOUS
  <2>1. p \in Int /\ q \in Int
    BY <1>1
  <2>2. CASE p < q
    <3>1. p \in from .. q - 1
      BY <1>2, <2>1, <2>2
    <3>. QED  BY <3>1
  <2>3. CASE q < p
    <3>1. q \in from .. p - 1
      BY <1>2, <2>1, <2>3
    <3>. QED  BY <3>1
  <2>. QED  BY <2>1, <2>2, <2>3
<1>. HIDE DEF IsTo
<1>6. to = e
  <2>1. e \in DOMAIN file
    BY <1>1
  <2>2. to \in DOMAIN file /\ IsTo(to)
    BY <2>1, <1>4
  <2>. QED  BY <2>1, <2>2, <1>4, <1>5
<1>. HIDE DEF to
<1>. QED  BY <1>2, <1>3, <1>6 DEF NamesIn

(* An element more: the events,                                             *)
LEMMA EventsMet ==
  ASSUME NEW file, NEW n \in Nat \ {0}, NEW em, NEW fm, IsSequence(em), EventsAre(file, n, em),
         file[n][1] = "event" => fm = Append(em, EventOf(file, n)),
         file[n][1] # "event" => fm = em
  PROVE  EventsAre(file, n + 1, fm)
<1>1. CASE file[n][1] = "event"
  <2>1. /\ Len(em) \in Nat /\ Len(fm) = Len(em) + 1
        /\ \A k \in 1 .. Len(em) : fm[k] = em[k]
        /\ fm[Len(em) + 1] = EventOf(file, n)
    BY <1>1, AppendIsSequence
  <2>2. ASSUME NEW k \in 1 .. Len(fm)
        PROVE  \E m \in 1 .. n : file[m][1] = "event" /\ fm[k] = EventOf(file, m)
    <3>1. CASE k \in 1 .. Len(em)
      <4>1. PICK m \in 1 .. n - 1 : file[m][1] = "event" /\ em[k] = EventOf(file, m)
        BY <3>1 DEF EventsAre
      <4>2. m \in 1 .. n
        OBVIOUS
      <4>. QED  BY <2>1, <3>1, <4>1, <4>2
    <3>2. CASE k = Len(em) + 1
      BY <1>1, <2>1, <3>2
    <3>. QED  BY <2>1, <3>1, <3>2
  <2>3. ASSUME NEW m \in 1 .. n, file[m][1] = "event"
        PROVE  \E k \in 1 .. Len(fm) : fm[k] = EventOf(file, m)
    <3>1. CASE m = n
      BY <2>1, <3>1
    <3>2. CASE m \in 1 .. n - 1
      <4>1. PICK k \in 1 .. Len(em) : em[k] = EventOf(file, m)
        BY <2>3, <3>2 DEF EventsAre
      <4>. QED  BY <2>1, <4>1
    <3>. QED  BY <3>1, <3>2
  <2>4. 1 .. (n + 1) - 1 = 1 .. n
    OBVIOUS
  <2>5. /\ \A k \in 1 .. Len(fm) : \E m \in 1 .. (n + 1) - 1 : file[m][1] = "event" /\ fm[k] = EventOf(file, m)
        /\ \A m \in 1 .. (n + 1) - 1 : file[m][1] = "event" => \E k \in 1 .. Len(fm) : fm[k] = EventOf(file, m)
    <3>. QED  BY <2>2, <2>3, <2>4
  <2>. QED  BY <2>5 DEF EventsAre
<1>2. CASE file[n][1] # "event"
  <2>1. \A m \in 1 .. (n + 1) - 1 : file[m][1] = "event" => m \in 1 .. n - 1
    BY <1>2
  <2>2. \A m \in 1 .. n - 1 : m \in 1 .. (n + 1) - 1
    OBVIOUS
  <2>3. fm = em
    BY <1>2
  <2>4. \A k \in 1 .. Len(em) : \E m \in 1 .. (n + 1) - 1 : file[m][1] = "event" /\ em[k] = EventOf(file, m)
    BY <2>2 DEF EventsAre
  <2>5. \A m \in 1 .. (n + 1) - 1 : file[m][1] = "event" => \E k \in 1 .. Len(em) : em[k] = EventOf(file, m)
    BY <2>1 DEF EventsAre
  <2>6. EventsAre(file, n + 1, em)
    BY <2>4, <2>5 DEF EventsAre
  <2>. QED  BY <2>3, <2>6
<1>. QED  BY <1>1, <1>2

(* the tids,                                                                *)
LEMMA TidsStep ==
  ASSUME NEW file, NEW n \in Nat \ {0}, NEW ts, NEW us, TidsAre(file, n, ts),
         DOMAIN us = IF IsTemplate(file, n) THEN DOMAIN ts \cup {file[n][2]} ELSE DOMAIN ts
  PROVE  TidsAre(file, n + 1, us)
<1>1. \A m \in 1 .. (n + 1) - 1 : m \in 1 .. n - 1 \/ m = n
  OBVIOUS
<1>2. n \in 1 .. (n + 1) - 1 /\ \A m \in 1 .. n - 1 : m \in 1 .. (n + 1) - 1
  OBVIOUS
<1>. QED  BY <1>1, <1>2 DEF TidsAre

(* and in a template there are names, until it ends.                        *)
LEMMA OpenMeets ==
  ASSUME NEW file, IsSequence(file), Wellformed(file), NEW n \in 1 .. Len(file),
         NEW m \in 1 .. n - 1, IsTemplate(file, m), AllData(file, m, n)
  PROVE  file[n][1] \in {"data", "/template"}
<1>1. DOMAIN file = 1 .. Len(file) /\ Len(file) \in Nat
  BY SequenceIs
<1>2. m \in DOMAIN file
  BY <1>1
<1>3. PICK e \in DOMAIN file : /\ m < e /\ file[e][1] = "/template"
                               /\ \A q \in m + 1 .. e - 1 : file[q][1] = "data"
  BY <1>2 DEF IsTemplate, Wellformed
<1>4. CASE e < n
  <2>1. e \in m + 1 .. n - 1
    BY <1>1, <1>3, <1>4
  <2>2. file[e][1] = "data"
    BY <2>1 DEF AllData
  <2>. QED  BY <1>3, <2>2
<1>5. CASE n < e
  <2>1. n \in m + 1 .. e - 1
    BY <1>1, <1>5
  <2>. QED  BY <1>3, <2>1
<1>6. e \in Int /\ n \in Int
  BY <1>1
<1>. QED  BY <1>3, <1>4, <1>5, <1>6

(* A tid is of one template.                                                *)
LEMMA OneTemplate ==
  ASSUME NEW file, IsSequence(file), Wellformed(file), NEW m \in 1 .. Len(file), NEW p \in 1 .. Len(file),
         IsTemplate(file, m), IsTemplate(file, p), file[m][2] = file[p][2]
  PROVE  m = p
BY SequenceIs DEF Wellformed, IsTemplate

(* What has ended stays so, as long as its names do.                        *)
LEMMA EndedStays ==
  ASSUME NEW file, NEW n \in Nat \ {0}, NEW m \in 1 .. n - 1, NEW ts, NEW us, HasEnded(file, m, n, ts),
         us[file[m][2]] = ts[file[m][2]]
  PROVE  HasEnded(file, m, n + 1, us)
<1>1. PICK e \in 1 .. n - 1 : Closes(file, m, e) /\ ts[file[m][2]] = NamesIn(file, m, e)
  BY DEF HasEnded
<1>2. e \in 1 .. (n + 1) - 1
  OBVIOUS
<1>. QED  BY <1>1, <1>2 DEF HasEnded

LEMMA OtherRead ==
  ASSUME NEW file, IsSequence(file), Wellformed(file), NEW n \in 1 .. Len(file), NEW ts, NEW os,
         TemplatesAre(file, n, ts, os), file[n][1] \notin {"template", "data", "/template"}
  PROVE  TemplatesAre(file, n + 1, ts, os)
<1>0. Len(file) \in Nat /\ n \in Nat \ {0}
  BY SequenceIs
<1>1. \A x : x \notin os
  BY OpenMeets DEF TemplatesAre
<1>2. ASSUME NEW m \in 1 .. (n + 1) - 1, IsTemplate(file, m)
      PROVE  HasEnded(file, m, n + 1, ts)
  <2>1. m \in 1 .. n - 1
    BY <1>2 DEF IsTemplate
  <2>2. HasEnded(file, m, n, ts)
    BY <1>1, <1>2, <2>1 DEF TemplatesAre, StillOpen
  <2>. QED  BY <1>0, <2>1, <2>2, EndedStays
<1>. QED  BY <1>1, <1>2 DEF TemplatesAre

\* What a template with the id makes of ts: us.
Begins(ts, us, id) ==
  id \notin DOMAIN ts => us[id] = <<>> /\ \A x \in DOMAIN ts : us[x] = ts[x]

LEMMA TemplateBegins ==
  ASSUME NEW file, IsSequence(file), Wellformed(file), NEW n \in 1 .. Len(file), NEW ts, NEW os, NEW us, NEW id,
         TemplatesAre(file, n, ts, os), TidsAre(file, n, ts), IsTemplate(file, n), id = file[n][2],
         Begins(ts, us, id)
  PROVE  TemplatesAre(file, n + 1, us, {id})
<1>0. Len(file) \in Nat /\ n \in Nat \ {0}
  BY SequenceIs
<1>1. \A x : x \notin os
  BY OpenMeets DEF TemplatesAre, IsTemplate
<1>2. id \notin DOMAIN ts
  <2> SUFFICES ASSUME NEW m \in 1 .. n - 1, IsTemplate(file, m), file[m][2] = id
               PROVE  FALSE
    BY DEF TidsAre
  <2>1. m \in 1 .. Len(file) /\ m # n
    BY <1>0
  <2>. QED  BY <2>1, OneTemplate
<1>3. us[id] = <<>> /\ \A x \in DOMAIN ts : us[x] = ts[x]
  BY <1>2 DEF Begins
<1>4. NamesIn(file, n, n + 1) = <<>>
  <2>1. 1 .. n + 1 - n - 1 = {}
    OBVIOUS
  <2>. QED  BY <2>1 DEF NamesIn
<1>5. AllData(file, n, n + 1)
  BY DEF AllData
<1>6. ASSUME NEW m \in 1 .. (n + 1) - 1, IsTemplate(file, m)
      PROVE  StillOpen(file, m, n + 1, us, {id}) \/ HasEnded(file, m, n + 1, us)
  <2>1. CASE m = n
    BY <1>3, <1>4, <1>5, <2>1 DEF StillOpen
  <2>2. CASE m \in 1 .. n - 1
    <3>1. HasEnded(file, m, n, ts) /\ file[m][2] \in DOMAIN ts
      BY <1>1, <1>6, <2>2 DEF TemplatesAre, StillOpen, TidsAre
    <3>. QED  BY <1>0, <1>3, <2>2, <3>1, EndedStays
  <2>. QED  BY <1>0, <2>1, <2>2
<1>7. n \in 1 .. (n + 1) - 1
  OBVIOUS
<1>8. \E m \in 1 .. (n + 1) - 1 : IsTemplate(file, m) /\ id = file[m][2] /\ AllData(file, m, n + 1)
  BY <1>5, <1>7
<1>9. \A x \in {id} : \E m \in 1 .. (n + 1) - 1 : IsTemplate(file, m) /\ x = file[m][2] /\ AllData(file, m, n + 1)
  BY <1>8
<1>. QED  BY <1>6, <1>9 DEF TemplatesAre

LEMMA TemplateEnds ==
  ASSUME NEW file, IsSequence(file), NEW n \in 1 .. Len(file), NEW ts, NEW os,
         TemplatesAre(file, n, ts, os), file[n][1] = "/template"
  PROVE  TemplatesAre(file, n + 1, ts, {})
<1>0. n \in Nat \ {0}
  BY SequenceIs
<1>1. ASSUME NEW m \in 1 .. (n + 1) - 1, IsTemplate(file, m)
      PROVE  HasEnded(file, m, n + 1, ts)
  <2>1. m \in 1 .. n - 1
    BY <1>1 DEF IsTemplate
  <2>2. CASE HasEnded(file, m, n, ts)
    BY <1>0, <2>1, <2>2, EndedStays
  <2>3. CASE StillOpen(file, m, n, ts, os)
    <3>1. Closes(file, m, n)
      BY <2>1, <2>3 DEF StillOpen, Closes
    <3>2. n \in 1 .. (n + 1) - 1
      OBVIOUS
    <3>. QED  BY <2>3, <3>1, <3>2 DEF HasEnded, StillOpen
  <2>. QED  BY <1>1, <2>1, <2>2, <2>3 DEF TemplatesAre
<1>. QED  BY <1>1 DEF TemplatesAre

(* A name more of a template that is open.                                  *)
LEMMA NameAdded ==
  ASSUME NEW file, NEW n \in Nat \ {0}, NEW m \in 1 .. n - 1
  PROVE  NamesIn(file, m, n + 1) = Append(NamesIn(file, m, n), file[n][2])
<1> DEFINE k == n - m - 1
           T == { file[m + q][2] : q \in 1 .. k + 1 }
           s == NamesIn(file, m, n)
           a == Append(s, file[n][2])
<1>1. k \in Nat /\ m + (k + 1) = n /\ n + 1 - m - 1 = k + 1
  OBVIOUS
<1>2. /\ s = [q \in 1 .. k |-> file[m + q][2]]
      /\ NamesIn(file, m, n + 1) = [q \in 1 .. k + 1 |-> file[m + q][2]]
  BY <1>1 DEF NamesIn
<1>. HIDE DEF k
<1>3. \A q \in 1 .. k + 1 : file[m + q][2] \in T
  OBVIOUS
<1>4. \A q \in 1 .. k : q \in 1 .. k + 1
  BY <1>1
<1>. HIDE DEF s, T
<1>5. s \in [1 .. k -> T]
  BY <1>2, <1>3, <1>4
<1>6. s \in Seq(T) /\ Len(s) = k
  BY <1>1, <1>5, SeqDef, LenProperties
<1>7. file[n][2] \in T
  <2>1. k + 1 \in 1 .. k + 1
    BY <1>1
  <2>. QED  BY <1>1, <1>3, <2>1
<1>8. /\ a \in Seq(T) /\ Len(a) = k + 1 /\ a[k + 1] = file[n][2]
      /\ \A q \in 1 .. k : a[q] = s[q]
  BY <1>6, <1>7, AppendProperties
<1>. HIDE DEF a
<1>9. a \in [1 .. k + 1 -> T]
  BY <1>8, LenProperties
<1>10. \A q \in 1 .. k + 1 : a[q] = file[m + q][2]
  <2>1. \A q \in 1 .. k : a[q] = file[m + q][2]
    BY <1>2, <1>8
  <2>2. a[k + 1] = file[m + (k + 1)][2]
    BY <1>1, <1>8
  <2>3. \A q \in 1 .. k + 1 : q \in 1 .. k \/ q = k + 1
    BY <1>1
  <2>. QED  BY <2>1, <2>2, <2>3
<1>. QED  BY <1>2, <1>9, <1>10 DEF a, s

LEMMA NameRead ==
  ASSUME NEW file, IsSequence(file), Wellformed(file), NEW n \in 1 .. Len(file), NEW ts, NEW os, NEW us,
         TemplatesAre(file, n, ts, os), TidsAre(file, n, ts), file[n][1] = "data",
         \A x \in os : us[x] = Append(ts[x], file[n][2]),
         \A x \in DOMAIN ts \ os : us[x] = ts[x]
  PROVE  TemplatesAre(file, n + 1, us, os)
<1>0. Len(file) \in Nat /\ n \in Nat \ {0}
  BY SequenceIs
<1>1. ASSUME NEW m \in 1 .. n - 1, AllData(file, m, n) PROVE AllData(file, m, n + 1)
  BY <1>1 DEF AllData
<1>2. ASSUME NEW m \in 1 .. n - 1, IsTemplate(file, m), file[m][2] \in os PROVE ~HasEnded(file, m, n, ts)
  <2>1. PICK p \in 1 .. n - 1 : IsTemplate(file, p) /\ file[m][2] = file[p][2] /\ AllData(file, p, n)
    BY <1>2 DEF TemplatesAre
  <2>2. m \in 1 .. Len(file) /\ p \in 1 .. Len(file)
    BY <1>0
  <2>3. m = p
    BY <1>2, <2>1, <2>2, OneTemplate
  <2> SUFFICES ASSUME NEW e \in 1 .. n - 1, m < e, file[e][1] = "/template"
               PROVE  FALSE
    BY DEF HasEnded, Closes
  <2>4. e \in m + 1 .. n - 1
    OBVIOUS
  <2>. QED  BY <2>1, <2>3, <2>4 DEF AllData
<1>3. ASSUME NEW m \in 1 .. n - 1, IsTemplate(file, m)
      PROVE  StillOpen(file, m, n + 1, us, os) \/ HasEnded(file, m, n + 1, us)
  <2>1. CASE file[m][2] \in os
    <3>1. StillOpen(file, m, n, ts, os)
      BY <1>2, <1>3, <2>1 DEF TemplatesAre
    <3>2. us[file[m][2]] = NamesIn(file, m, n + 1)
      <4>1. us[file[m][2]] = Append(ts[file[m][2]], file[n][2])
        BY <2>1
      <4>2. ts[file[m][2]] = NamesIn(file, m, n)
        BY <3>1 DEF StillOpen
      <4>. QED  BY <1>0, <4>1, <4>2, NameAdded
    <3>. QED  BY <1>1, <3>1, <3>2 DEF StillOpen
  <2>2. CASE file[m][2] \notin os
    <3>1. HasEnded(file, m, n, ts)
      BY <1>3, <2>2 DEF TemplatesAre, StillOpen
    <3>2. us[file[m][2]] = ts[file[m][2]]
      BY <1>3, <2>2 DEF TidsAre
    <3>. QED  BY <1>0, <3>1, <3>2, EndedStays
  <2>. QED  BY <2>1, <2>2
<1>4. \A m \in 1 .. (n + 1) - 1 : IsTemplate(file, m) => m \in 1 .. n - 1
  BY <1>0 DEF IsTemplate
<1>5. ASSUME NEW x \in os
      PROVE  \E m \in 1 .. (n + 1) - 1 : IsTemplate(file, m) /\ x = file[m][2] /\ AllData(file, m, n + 1)
  <2>1. PICK m \in 1 .. n - 1 : IsTemplate(file, m) /\ x = file[m][2] /\ AllData(file, m, n)
    BY DEF TemplatesAre
  <2>2. m \in 1 .. (n + 1) - 1
    BY <1>0
  <2>. QED  BY <1>1, <2>1, <2>2
<1>. QED  BY <1>3, <1>4, <1>5 DEF TemplatesAre

(* When all of a file was read its templates have the names it declares.   *)
LEMMA FileEnds ==
  ASSUME NEW file, IsSequence(file), Wellformed(file), NEW ts, NEW os,
         TemplatesAre(file, Len(file) + 1, ts, os),
         NEW m \in 1 .. Len(file), IsTemplate(file, m)
  PROVE  ts[file[m][2]] = Declared(file, file[m][2])
<1>1. DOMAIN file = 1 .. Len(file) /\ Len(file) \in Nat
  BY SequenceIs
<1>2. m \in DOMAIN file
  BY <1>1
<1>3. PICK e \in DOMAIN file : m < e /\ file[e][1] = "/template"
  BY <1>2 DEF IsTemplate, Wellformed
<1>4. ~AllData(file, m, Len(file) + 1)
  <2>1. e \in m + 1 .. (Len(file) + 1) - 1
    BY <1>1, <1>3
  <2>. QED  BY <1>3, <2>1 DEF AllData
<1>5. m \in 1 .. (Len(file) + 1) - 1
  BY <1>1
<1>6. HasEnded(file, m, Len(file) + 1, ts)
  BY <1>4, <1>5 DEF TemplatesAre, StillOpen
<1>7. PICK n \in 1 .. (Len(file) + 1) - 1 : Closes(file, m, n) /\ ts[file[m][2]] = NamesIn(file, m, n)
  BY <1>6 DEF HasEnded
<1>8. n \in 1 .. Len(file)
  BY <1>1
<1>. QED  BY <1>7, <1>8, DeclaredIs

-----------------------------------------------------------------------------
(* The first declaration of a key.                                          *)
LEMMA FirstKnown ==
  ASSUME IsSequence(eventMap), NEW key, \E k \in Known : KeyAt(k) = key
  PROVE  FirstAt(key) \in Known /\ KeyAt(FirstAt(key)) = key
<1> DEFINE T == { k \in Known : KeyAt(k) = key }
<1>1. T \subseteq Nat /\ T # {}
  BY SequenceIs DEF Known
<1>2. PICK k \in T : \A j \in T : k <= j
  BY <1>1, LeastNat
<1>3. k \in Known /\ KeyAt(k) = key /\ \A j \in Known : KeyAt(j) = key => k <= j
  BY <1>2
<1>. QED  BY <1>3 DEF FirstAt

LEMMA ManifestTypeCorrect == ManifestSpec => []ManifestTypeInv
<1>1. ManifestInit => ManifestTypeInv
  <2> SUFFICES ASSUME ManifestInit PROVE ManifestTypeInv
    OBVIOUS
  <2>1. PICK family \in DOMAIN Manifests : \E x \in Manifests[family] :
          dir = x.dir /\ event = x.event /\ given = x.given
    BY DEF ManifestInit
  <2>2. (\A file \in DOMAIN dir : IsSequence(dir[file])) /\ IsFiniteSet(DOMAIN given)
        /\ given = [key \in DOMAIN given |-> given[key]]
    BY <2>1, ManifestsAssumption
  <2>. QED  BY <2>2, NoneIsSequence DEF ManifestInit, ManifestTypeInv, NoEntries
<1>2. ManifestTypeInv /\ [ManifestNext]_mvars => ManifestTypeInv'
  <2> SUFFICES ASSUME ManifestTypeInv, [ManifestNext]_mvars PROVE ManifestTypeInv'
    OBVIOUS
  <2>1. CASE Open
    <3>1. PICK file \in unread : elements' = dir[file] /\ unread' = unread \ {file}
      BY <2>1 DEF Open, Begin
    <3>2. IsSequence(elements') /\ Len(elements') \in Nat
      BY <3>1, SequenceIs DEF ManifestTypeInv
    <3>3. 1 \in 1 .. Len(elements') + 1
      BY <3>2
    <3>4. /\ place' = 1 /\ manifest' = "read" /\ templates' = NoEntries /\ eventMap' = <<>>
          /\ inTemplate' = FALSE /\ dir' = dir /\ db' = db /\ given' = given
      BY <2>1 DEF Open, Begin, naming
    <3>. QED  BY <3>1, <3>2, <3>3, <3>4, NoneIsSequence DEF ManifestTypeInv, NoEntries
  <2> DEFINE ReadOn == /\ manifest = "read" /\ manifest' = "read"
                       /\ UNCHANGED <<dir, unread, elements, db, given, data>>
                       /\ place' \in 1 .. Len(elements) + 1
  <2>2. (Provider \/ Template \/ Data \/ EndTemplate \/ EventElement) => ReadOn
    BY SequenceIs DEF Provider, Template, Data, EndTemplate, EventElement, At, Advance, naming, ManifestTypeInv
  <2>. HIDE DEF ReadOn
  <2>3. CASE Provider
    BY <2>2, <2>3 DEF Provider, ManifestTypeInv, ReadOn
  <2>4. CASE Template
    BY <2>2, <2>4, NoneIsSequence DEF Template, ManifestTypeInv, ReadOn, Inserted
  <2>5. CASE Data
    BY <2>2, <2>5, AppendIsSequence DEF Data, ManifestTypeInv, ReadOn, Inserted
  <2>6. CASE EndTemplate
    BY <2>2, <2>6 DEF EndTemplate, ManifestTypeInv, ReadOn
  <2>7. CASE EventElement
    BY <2>2, <2>7, AppendIsSequence DEF EventElement, ManifestTypeInv, ReadOn
  <2>8. CASE EndOfManifest
    <3>1. \A key : (\E k \in Known : KeyAt(k) = key) => FirstAt(key) \in Known
      BY FirstKnown DEF ManifestTypeInv
    <3>. QED  BY <2>8, <3>1 DEF EndOfManifest, ManifestTypeInv, naming, parsing, Known
  <2>9. CASE Malformed \/ Loaded \/ Resolve \/ Renamed
    BY <2>9 DEF Malformed, Loaded, Resolve, Renamed, ManifestTypeInv, naming, parsing
  <2>10. CASE Rename
    BY <2>10 DEF Rename, ManifestTypeInv, naming, parsing
  <2>11. CASE UNCHANGED mvars
    BY <2>11 DEF mvars, ManifestTypeInv, naming, parsing
  <2>. QED  BY <2>1, <2>3, <2>4, <2>5, <2>6, <2>7, <2>8, <2>9, <2>10, <2>11 DEF ManifestNext
<1>. QED  BY <1>1, <1>2, PTL DEF ManifestSpec

(* At every element what was read is what stood before it.                  *)
LEMMA ReadingStep ==
  ASSUME ManifestTypeInv, ReadingInv, [ManifestNext]_mvars
  PROVE  ReadingInv'
<1>1. CASE Open
  <2>1. PICK file \in unread : elements' = dir[file]
    BY <1>1 DEF Open, Begin
  <2>2. IsSequence(elements')
    BY <2>1 DEF ManifestTypeInv
  <2>3. ProviderAt(elements', 1) = ""
    BY <2>2, NoProvider
  <2>4. place' = 1 /\ eventMap' = <<>> /\ templates' = NoEntries /\ guid' = "" /\ ~inTemplate'
    BY <1>1 DEF Open, Begin
  <2>5. 1 .. 1 - 1 = {} /\ 1 .. Len(eventMap') = {}
    <3>1. Len(eventMap') = 0
      BY <2>4, NoneIsSequence
    <3>. QED  BY <3>1
  <2>6. EventsAre(elements', place', eventMap') /\ TidsAre(elements', place', templates')
    BY <2>4, <2>5 DEF EventsAre, TidsAre, NoEntries
  <2>7. TemplatesAre(elements', place', templates', OpenTids')
    BY <2>4, <2>5 DEF TemplatesAre, OpenTids
  <2>. QED  BY <2>3, <2>4, <2>6, <2>7 DEF ReadingInv
<1>2. CASE Provider \/ Template \/ Data \/ EndTemplate \/ EventElement
  <2> DEFINE n == place
             kind == elements[n][1]
  <2>1. manifest = "read" /\ n <= Len(elements) /\ elements' = elements /\ place' = n + 1
    BY <1>2 DEF Provider, Template, Data, EndTemplate, EventElement, At, Advance
  <2>2. IsSequence(elements) /\ Len(elements) \in Nat /\ n \in 1 .. Len(elements) /\ n \in Nat \ {0}
    BY <2>1, SequenceIs DEF ManifestTypeInv
  <2>3. /\ guid = ProviderAt(elements, n)
        /\ EventsAre(elements, n, eventMap)
        /\ TidsAre(elements, n, templates)
        /\ Wellformed(elements) => TemplatesAre(elements, n, templates, OpenTids)
    BY <2>1 DEF ReadingInv
  <2>4. kind \in {"provider", "template", "data", "/template", "event"}
    BY <1>2 DEF Provider, Template, Data, EndTemplate, EventElement, At
  <2>5. guid' = ProviderAt(elements, n + 1)
    <3>1. guid' = IF kind = "provider" THEN elements[n][2] ELSE guid
      BY <1>2 DEF Provider, Template, Data, EndTemplate, EventElement, At, Operand
    <3>. QED  BY <2>2, <2>3, <3>1, ProviderStep
  <2>6. EventsAre(elements, n + 1, eventMap')
    <3>1. kind = "event" => eventMap' = Append(eventMap, EventOf(elements, n))
      BY <1>2, <2>3 DEF Provider, Template, Data, EndTemplate, EventElement, At, Operand, EventOf
    <3>2. kind # "event" => eventMap' = eventMap
      BY <1>2 DEF Provider, Template, Data, EndTemplate, EventElement, At
    <3>3. IsSequence(eventMap)
      BY DEF ManifestTypeInv
    <3>. QED  BY <2>2, <2>3, <3>1, <3>2, <3>3, EventsMet
  <2>7. TidsAre(elements, n + 1, templates')
    <3>1. DOMAIN templates' = IF IsTemplate(elements, n) THEN DOMAIN templates \cup {elements[n][2]}
                                                         ELSE DOMAIN templates
      <4>1. CASE Template
        BY <4>1 DEF Template, At, Operand, Inserted, IsTemplate
      <4>2. CASE Data
        <5>1. tid \in DOMAIN templates \/ ~inTemplate
          BY DEF ManifestTypeInv
        <5>2. DOMAIN templates' = DOMAIN templates
          BY <4>2, <5>1 DEF Data, Inserted
        <5>. QED  BY <4>2, <5>2 DEF Data, At, IsTemplate
      <4>3. CASE Provider \/ EndTemplate \/ EventElement
        BY <4>3 DEF Provider, EndTemplate, EventElement, At, IsTemplate
      <4>. QED  BY <1>2, <4>1, <4>2, <4>3
    <3>. QED  BY <2>2, <2>3, <3>1, TidsStep
  <2>8. ASSUME Wellformed(elements) PROVE TemplatesAre(elements, n + 1, templates', OpenTids')
    <3>1. CASE Provider \/ EventElement
      <4>1. UNCHANGED <<templates, OpenTids>> /\ elements[n][1] \notin {"template", "data", "/template"}
        <5>1. UNCHANGED <<templates, inTemplate, tid>> /\ elements[n][1] \in {"provider", "event"}
          BY <3>1 DEF Provider, EventElement, At
        <5>. QED  BY <5>1 DEF OpenTids
      <4>. QED  BY <2>2, <2>3, <2>8, <4>1, OtherRead
    <3>2. CASE Template
      <4>1. /\ inTemplate' /\ tid' = elements[n][2] /\ IsTemplate(elements, n)
            /\ tid' \notin DOMAIN templates => templates' = Inserted(templates, tid', <<>>)
        BY <3>2 DEF Template, At, Operand, IsTemplate
      <4>2. Begins(templates, templates', tid')
        BY <4>1 DEF Inserted, Begins
      <4>3. OpenTids' = {tid'}
        BY <4>1 DEF OpenTids
      <4>. QED  BY <2>2, <2>3, <2>8, <4>1, <4>2, <4>3, TemplateBegins
    <3>3. CASE Data
      <4>1. /\ UNCHANGED <<inTemplate, tid>> /\ elements[n][1] = "data"
            /\ inTemplate => templates' = Inserted(templates, tid, Append(templates[tid], elements[n][2]))
            /\ ~inTemplate => templates' = templates
        BY <3>3 DEF Data, At, Operand
      <4>2. /\ OpenTids' = OpenTids
            /\ \A x \in OpenTids : templates'[x] = Append(templates[x], elements[n][2])
            /\ \A x \in DOMAIN templates \ OpenTids : templates'[x] = templates[x]
        BY <4>1 DEF OpenTids, Inserted
      <4>. QED  BY <2>2, <2>3, <2>8, <4>1, <4>2, NameRead
    <3>4. CASE EndTemplate
      <4>1. UNCHANGED templates /\ OpenTids' = {} /\ elements[n][1] = "/template"
        BY <3>4 DEF EndTemplate, At, OpenTids
      <4>. QED  BY <2>2, <2>3, <2>8, <4>1, TemplateEnds
    <3>. QED  BY <1>2, <3>1, <3>2, <3>3, <3>4
  <2>. QED  BY <2>1, <2>5, <2>6, <2>7, <2>8 DEF ReadingInv
<1>3. CASE Malformed \/ EndOfManifest \/ Loaded \/ Resolve \/ Renamed
  BY <1>3 DEF Malformed, EndOfManifest, Loaded, Resolve, Renamed, ReadingInv
<1>4. CASE Rename \/ UNCHANGED mvars
  <2>1. UNCHANGED <<manifest, place, parsing>>
    BY <1>4 DEF Rename, mvars
  <2>. QED  BY <2>1 DEF ReadingInv, OpenTids, parsing
<1>. QED  BY <1>1, <1>2, <1>3, <1>4 DEF ManifestNext

(* What a file declares is what was met in it, with the names that its      *)
(* templates have.                                                          *)
LEMMA FileDeclares ==
  ASSUME ManifestTypeInv, ReadingInv, manifest = "read", place > Len(elements), Wellformed(elements)
  PROVE  /\ \A k \in Known : <<KeyAt(k), templates[eventMap[k][3]]>> \in Declarations(elements)
         /\ \A x \in Declarations(elements) : \E k \in Known : KeyAt(k) = x[1]
<1> DEFINE l == Len(elements)
<1>1. IsSequence(elements) /\ l \in Nat /\ DOMAIN elements = 1 .. l /\ place = l + 1
  BY SequenceIs DEF ManifestTypeInv
<1>2. 1 .. (l + 1) - 1 = 1 .. l
  BY <1>1
<1>3. /\ EventsAre(elements, l + 1, eventMap)
      /\ TidsAre(elements, l + 1, templates)
      /\ TemplatesAre(elements, l + 1, templates, OpenTids)
  BY <1>1 DEF ReadingInv
<1>4. ASSUME NEW k \in Known PROVE <<KeyAt(k), templates[eventMap[k][3]]>> \in Declarations(elements)
  <2>1. PICK n \in 1 .. l : elements[n][1] = "event" /\ eventMap[k] = EventOf(elements, n)
    BY <1>2, <1>3 DEF Known, EventsAre
  <2>2. /\ eventMap[k][1] = ProviderAt(elements, n) /\ eventMap[k][2] = elements[n][2]
        /\ eventMap[k][3] = elements[n][3]
    BY <2>1 DEF EventOf
  <2>3. eventMap[k][3] \in DOMAIN templates
    BY DEF Known
  <2>4. PICK m \in 1 .. l : IsTemplate(elements, m) /\ elements[m][2] = elements[n][3]
    <3>1. \A x \in DOMAIN templates : \E m \in 1 .. l : IsTemplate(elements, m) /\ elements[m][2] = x
      BY <1>2, <1>3 DEF TidsAre
    <3>. QED  BY <2>2, <2>3, <3>1
  <2>5. templates[elements[n][3]] = Declared(elements, elements[n][3])
    BY <1>1, <1>3, <2>4, FileEnds
  <2>6. HasTemplate(elements, elements[n][3])
    BY <1>1, <2>4 DEF HasTemplate, IsTemplate
  <2>7. <<<<Normal[ProviderAt(elements, n)], elements[n][2]>>, Declared(elements, elements[n][3])>>
          \in Declarations(elements)
    BY <1>1, <2>1, <2>6 DEF Declarations
  <2>8. KeyAt(k) = <<Normal[ProviderAt(elements, n)], elements[n][2]>>
    BY <2>2 DEF KeyAt
  <2>. QED  BY <2>2, <2>5, <2>7, <2>8
<1>5. ASSUME NEW x \in Declarations(elements) PROVE \E k \in Known : KeyAt(k) = x[1]
  <2>1. PICK n \in 1 .. l : /\ elements[n][1] = "event" /\ HasTemplate(elements, elements[n][3])
                            /\ x[1] = <<Normal[ProviderAt(elements, n)], elements[n][2]>>
    BY <1>1 DEF Declarations
  <2>2. PICK k \in 1 .. Len(eventMap) : eventMap[k] = EventOf(elements, n)
    BY <1>2, <1>3, <2>1 DEF EventsAre
  <2>3. PICK m \in 1 .. l : IsTemplate(elements, m) /\ elements[m][2] = elements[n][3]
    BY <1>1, <2>1 DEF HasTemplate, IsTemplate
  <2>4. elements[n][3] \in DOMAIN templates
    BY <1>2, <1>3, <2>3 DEF TidsAre
  <2>5. k \in Known
    BY <2>2, <2>4 DEF Known, EventOf
  <2>6. KeyAt(k) = x[1]
    BY <2>1, <2>2 DEF KeyAt, EventOf
  <2>. QED  BY <2>5, <2>6
<1>. QED  BY <1>4, <1>5

(* What is known is what the files read declare.                           *)
LEMMA DbStep ==
  ASSUME ManifestTypeInv, ReadingInv, DbInv, [ManifestNext]_mvars
  PROVE  DbInv'
<1>1. CASE Open
  <2>1. PICK file \in unread : elements' = dir[file] /\ unread' = unread \ {file}
    BY <1>1 DEF Open, Begin
  <2>2. /\ manifest = "open" /\ manifest' = "read" /\ dir' = dir /\ db' = db
    BY <1>1 DEF Open, Begin
  <2>3. /\ file \in DOMAIN dir \ unread'
        /\ (DOMAIN dir \ unread') \ {file} = DOMAIN dir \ unread
    BY <2>1 DEF ManifestTypeInv
  <2>4. Covers(DOMAIN dir \ unread)
    BY <2>2 DEF DbInv
  <2>5. Covers((DOMAIN dir \ unread) \ {file})'
    BY <2>2, <2>3, <2>4 DEF Covers, AllWellformed
  <2>. QED  BY <2>1, <2>2, <2>3, <2>5 DEF DbInv
<1>2. CASE EndOfManifest
  <2>1. /\ manifest = "read" /\ manifest' = "open" /\ place > Len(elements) /\ UNCHANGED <<dir, unread>>
        /\ db' = [key \in DOMAIN db \cup { KeyAt(k) : k \in Known } |->
                    IF key \in DOMAIN db THEN db[key] ELSE templates[eventMap[FirstAt(key)][3]]]
    BY <1>2 DEF EndOfManifest
  <2>2. PICK file \in DOMAIN dir \ unread : elements = dir[file] /\ Covers((DOMAIN dir \ unread) \ {file})
    BY <2>1 DEF DbInv
  <2>3. SUFFICES ASSUME AllWellformed
                 PROVE  /\ \A e \in DOMAIN db' :
                             \E other \in DOMAIN dir \ unread : <<e, db'[e]>> \in Declarations(dir[other])
                        /\ \A other \in DOMAIN dir \ unread : \A x \in Declarations(dir[other]) : x[1] \in DOMAIN db'
    BY <2>1 DEF DbInv, Covers, AllWellformed
  <2>4. /\ \A k \in Known : <<KeyAt(k), templates[eventMap[k][3]]>> \in Declarations(dir[file])
        /\ \A x \in Declarations(dir[file]) : \E k \in Known : KeyAt(k) = x[1]
    BY <2>1, <2>2, <2>3, FileDeclares DEF AllWellformed
  <2>5. ASSUME NEW e \in DOMAIN db'
        PROVE  \E other \in DOMAIN dir \ unread : <<e, db'[e]>> \in Declarations(dir[other])
    <3>1. CASE e \in DOMAIN db
      BY <2>1, <2>2, <2>3, <3>1 DEF Covers
    <3>2. CASE e \notin DOMAIN db
      <4>1. db'[e] = templates[eventMap[FirstAt(e)][3]] /\ \E k \in Known : KeyAt(k) = e
        BY <2>1, <3>2
      <4>2. FirstAt(e) \in Known /\ KeyAt(FirstAt(e)) = e
        BY <4>1, FirstKnown DEF ManifestTypeInv
      <4>. QED  BY <2>4, <4>1, <4>2
    <3>. QED  BY <3>1, <3>2
  <2>6. ASSUME NEW other \in DOMAIN dir \ unread, NEW x \in Declarations(dir[other])
        PROVE  x[1] \in DOMAIN db'
    <3>1. CASE other = file
      BY <2>1, <2>4, <3>1
    <3>2. CASE other # file
      BY <2>1, <2>2, <2>3, <3>2 DEF Covers
    <3>. QED  BY <3>1, <3>2
  <2>. QED  BY <2>5, <2>6
<1>3. CASE Provider \/ Template \/ Data \/ EndTemplate \/ EventElement
  <2>1. manifest = "read" /\ manifest' = "read" /\ UNCHANGED <<dir, unread, elements, db>>
    BY <1>3 DEF Provider, Template, Data, EndTemplate, EventElement, At, Advance
  <2>. QED  BY <2>1 DEF DbInv, Covers, AllWellformed
<1>4. CASE Malformed
  BY <1>4 DEF Malformed, DbInv
<1>5. CASE Loaded \/ Resolve \/ Renamed \/ Rename
  <2>1. /\ manifest \in {"open", "loaded", "renaming", "renamed"}
        /\ manifest' \in {"loaded", "renaming", "renamed"}
        /\ UNCHANGED <<dir, unread, db>>
    BY <1>5 DEF Loaded, Resolve, Renamed, Rename
  <2>. QED  BY <2>1 DEF DbInv, Covers, AllWellformed
<1>6. CASE UNCHANGED mvars
  BY <1>6 DEF mvars, parsing, DbInv, Covers, AllWellformed
<1>. QED  BY <1>1, <1>2, <1>3, <1>4, <1>5, <1>6 DEF ManifestNext

(* Whatever manifests there are and in whatever order they are read: at     *)
(* each element what was read of the file is what stands before it, and     *)
(* between files the database is that of the files read (load_into).        *)
THEOREM LoadCorrect == ManifestSpec => []LoadInv
<1>1. ManifestInit => ReadingInv /\ DbInv
  BY DEF ManifestInit, ReadingInv, DbInv, Covers, NoEntries
<1>2. ManifestTypeInv /\ ReadingInv /\ DbInv /\ [ManifestNext]_mvars => ReadingInv' /\ DbInv'
  BY ReadingStep, DbStep
<1>. QED  BY <1>1, <1>2, ManifestTypeCorrect, PTL DEF ManifestSpec, LoadInv

(* Loaded, the database names exactly the events for which a file declares  *)
(* names, with the names of such a file (load_from_directory).              *)
THEOREM FieldsDeclared == ManifestSpec => []FieldsAsDeclared
<1>1. LoadInv => FieldsAsDeclared
  <2> SUFFICES ASSUME LoadInv, manifest \in {"loaded", "renaming", "renamed"}, AllWellformed
               PROVE  /\ \A e \in DOMAIN db :
                           <<e, db[e]>> \in UNION { Declarations(dir[file]) : file \in DOMAIN dir }
                      /\ \A x \in UNION { Declarations(dir[file]) : file \in DOMAIN dir } : x[1] \in DOMAIN db
    BY DEF FieldsAsDeclared, AllWellformed
  <2>1. Covers(DOMAIN dir)
    BY DEF LoadInv, DbInv, ManifestTypeInv
  <2>. QED  BY <2>1 DEF Covers
<1>. QED  BY <1>1, LoadCorrect, PTL

-----------------------------------------------------------------------------
(* The names of event fields: how fields are renamed.                       *)

(* Values under different keys get different names.                         *)
LEMMA NamesDiffer ==
  ASSUME NamesApart, NEW p \in DOMAIN given
  PROVE  /\ IsNamed(p) => NameOf(p) \notin DOMAIN given
         /\ ~IsNamed(p) => NameOf(p) = p
         /\ \A q \in DOMAIN given : NameOf(p) = NameOf(q) => p = q
<1>1. \A q : ~IsNamed(q) => NameOf(q) = q
  BY DEF NameOf
<1>. QED  BY <1>1 DEF NamesApart

LEMMA RenameStep ==
  ASSUME ManifestTypeInv, RenameInv, [ManifestNext]_mvars
  PROVE  RenameInv'
<1>1. CASE Resolve
  <2>1. /\ manifest = "loaded" /\ manifest' = "renaming" /\ data = given /\ UNCHANGED <<data, given, event, db>>
        /\ renames' = { <<key, Names[Params[key]]>> :
                          key \in { q \in DOMAIN data \cap DOMAIN Params : Params[q] <= Len(Names) } }
    BY <1>1 DEF Resolve, RenameInv
  <2>2. Names' = Names
    BY <2>1 DEF Names
  <2>3. \A key : IsNamed(key)' <=> IsNamed(key)
    BY <2>2 DEF IsNamed
  <2>4. \A key : NameOf(key)' = NameOf(key)
    BY <2>2, <2>3 DEF NameOf
  <2>5. \A r \in renames' : \E key \in DOMAIN given : IsNamed(key) /\ r = <<key, NameOf(key)>>
    BY <2>1 DEF IsNamed, NameOf
  <2>6. \A key \in DOMAIN given : NowAt(key)' = key
    <3> SUFFICES ASSUME NEW key \in DOMAIN given PROVE NowAt(key)' = key
      OBVIOUS
    <3>1. CASE IsNamed(key)
      <4>1. <<key, NameOf(key)>> \in renames'
        BY <2>1, <3>1 DEF IsNamed, NameOf
      <4>. QED  BY <2>4, <4>1 DEF NowAt
    <3>2. CASE ~IsNamed(key)
      BY <2>4, <3>2 DEF NowAt, NameOf
    <3>. QED  BY <3>1, <3>2
  <2>7. \A r \in renames' : \E key \in DOMAIN given : IsNamed(key)' /\ r = <<key, NameOf(key)'>>
    BY <2>3, <2>4, <2>5
  <2>8. DOMAIN data' = { NowAt(key)' : key \in DOMAIN given }
    BY <2>1, <2>6
  <2>9. \A key \in DOMAIN given : data'[NowAt(key)'] = given[key]
    BY <2>1, <2>6
  <2>. QED  BY <2>1, <2>7, <2>8, <2>9 DEF RenameInv
<1>2. CASE Rename
  <2>1. PICK r \in renames :
          /\ renames' = renames \ {r}
          /\ data' = IF r[1] \in DOMAIN data THEN Inserted(Removed(data, r[1]), r[2], data[r[1]]) ELSE data
    BY <1>2 DEF Rename
  <2>2. manifest = "renaming" /\ manifest' = "renaming" /\ UNCHANGED <<given, event, db>>
    BY <1>2 DEF Rename
  <2>3. Names' = Names
    BY <2>2 DEF Names
  <2>4. (NamesApart' <=> NamesApart) /\ \A key : (IsNamed(key)' <=> IsNamed(key)) /\ NameOf(key)' = NameOf(key)
    BY <2>2, <2>3 DEF NamesApart, IsNamed, NameOf
  <2>5. SUFFICES ASSUME NamesApart
                 PROVE  /\ \A x \in renames' : \E key \in DOMAIN given : IsNamed(key) /\ x = <<key, NameOf(key)>>
                        /\ DOMAIN data' = { NowAt(key)' : key \in DOMAIN given }
                        /\ \A key \in DOMAIN given : data'[NowAt(key)'] = given[key]
    BY <2>2, <2>4 DEF RenameInv
  <2>6. /\ \A x \in renames : \E key \in DOMAIN given : IsNamed(key) /\ x = <<key, NameOf(key)>>
        /\ DOMAIN data = { NowAt(key) : key \in DOMAIN given }
        /\ \A key \in DOMAIN given : data[NowAt(key)] = given[key]
    BY <2>2, <2>5 DEF RenameInv
  <2>7. PICK k \in DOMAIN given : IsNamed(k) /\ r = <<k, NameOf(k)>>
    BY <2>6
  <2>8. NowAt(k) = k /\ NowAt(k)' = NameOf(k)
    BY <2>1, <2>4, <2>7 DEF NowAt
  <2>9. \A key \in DOMAIN given : key # k => /\ NowAt(key)' = NowAt(key)
                                            /\ NowAt(key) # k /\ NowAt(key) # NameOf(k)
    <3> SUFFICES ASSUME NEW key \in DOMAIN given, key # k
                 PROVE  NowAt(key)' = NowAt(key) /\ NowAt(key) # k /\ NowAt(key) # NameOf(k)
      OBVIOUS
    <3>1. NowAt(key)' = NowAt(key)
      BY <2>1, <2>4, <2>7 DEF NowAt
    <3>2. NameOf(k) \notin DOMAIN given /\ NameOf(key) # NameOf(k)
      BY <2>5, <2>7, NamesDiffer
    <3>3. NameOf(key) # k
      BY <2>5, NamesDiffer
    <3>. QED  BY <3>1, <3>2, <3>3 DEF NowAt
  <2>10. k \in DOMAIN data /\ data[k] = given[k]
    BY <2>6, <2>8
  <2>11. /\ DOMAIN data' = (DOMAIN data \ {k}) \cup {NameOf(k)}
         /\ data'[NameOf(k)] = given[k]
         /\ \A x \in DOMAIN data \ {k} : x # NameOf(k) => data'[x] = data[x]
    BY <2>1, <2>7, <2>10 DEF Inserted, Removed
  <2>12. DOMAIN data' = { NowAt(key)' : key \in DOMAIN given }
    <3>1. ASSUME NEW x \in DOMAIN data' PROVE \E key \in DOMAIN given : x = NowAt(key)'
      <4>1. CASE x = NameOf(k)
        BY <2>8, <4>1
      <4>2. CASE x \in DOMAIN data \ {k}
        <5>1. PICK key \in DOMAIN given : x = NowAt(key)
          BY <2>6, <4>2
        <5>2. key # k
          BY <2>8, <4>2, <5>1
        <5>. QED  BY <2>9, <5>1, <5>2
      <4>. QED  BY <2>11, <4>1, <4>2
    <3>2. ASSUME NEW key \in DOMAIN given PROVE NowAt(key)' \in DOMAIN data'
      <4>1. CASE key = k
        BY <2>8, <2>11, <4>1
      <4>2. CASE key # k
        BY <2>6, <2>9, <2>11, <4>2
      <4>. QED  BY <4>1, <4>2
    <3>. QED  BY <3>1, <3>2
  <2>13. ASSUME NEW key \in DOMAIN given PROVE data'[NowAt(key)'] = given[key]
    <3>1. CASE key = k
      BY <2>8, <2>11, <3>1
    <3>2. CASE key # k
      <4>1. NowAt(key) \in DOMAIN data \ {k}
        BY <2>6, <2>9, <3>2
      <4>. QED  BY <2>6, <2>9, <2>11, <3>2, <4>1
    <3>. QED  BY <3>1, <3>2
  <2>. QED  BY <2>1, <2>6, <2>12, <2>13
<1>3. CASE Renamed
  BY <1>3 DEF Renamed, naming, RenameInv, NamesApart, IsNamed, NameOf, NowAt, Names
<1>4. CASE \/ Open \/ Provider \/ Template \/ Data \/ EndTemplate \/ EventElement \/ Malformed
           \/ EndOfManifest \/ Loaded
  <2>1. /\ manifest \in {"open", "read"} /\ manifest' \in {"open", "read", "loaded", "failed"}
        /\ UNCHANGED <<data, given>>
    BY <1>4 DEF Open, Begin, Provider, Template, Data, EndTemplate, EventElement, Malformed, EndOfManifest,
                Loaded, At, Advance, naming
  <2>. QED  BY <2>1 DEF RenameInv
<1>5. CASE UNCHANGED mvars
  BY <1>5 DEF mvars, naming, RenameInv, NamesApart, IsNamed, NameOf, NowAt, Names
<1>. QED  BY <1>1, <1>2, <1>3, <1>4, <1>5 DEF ManifestNext

(* After resolve_fields, whatever the order of its renames, every value is  *)
(* under the name declared for its parameter, and none is lost.             *)
THEOREM NamesAreResolved == ManifestSpec => []NamesResolve
<1>1. ManifestInit => RenameInv
  BY DEF ManifestInit, RenameInv
<1>2. ManifestTypeInv /\ RenameInv /\ [ManifestNext]_mvars => RenameInv'
  BY RenameStep
<1>3. ManifestTypeInv /\ RenameInv => NamesResolve
  <2> SUFFICES ASSUME ManifestTypeInv, RenameInv, manifest = "renamed", NamesApart
               PROVE  /\ Cardinality(DOMAIN data) = Cardinality(DOMAIN given)
                      /\ \A key \in DOMAIN given : NameOf(key) \in DOMAIN data /\ data[NameOf(key)] = given[key]
    BY DEF NamesResolve
  <2> DEFINE moved == [key \in DOMAIN given |-> NameOf(key)]
  <2>1. \A key \in DOMAIN given : NowAt(key) = NameOf(key)
    BY DEF RenameInv, NowAt
  <2>2. /\ DOMAIN data = { NameOf(key) : key \in DOMAIN given }
        /\ \A key \in DOMAIN given : data[NameOf(key)] = given[key]
    BY <2>1 DEF RenameInv
  <2>3. moved \in Bijection(DOMAIN given, DOMAIN data)
    <3>1. moved \in [DOMAIN given -> DOMAIN data]
      BY <2>2
    <3>2. \A p, q \in DOMAIN given : moved[p] = moved[q] => p = q
      BY NamesDiffer
    <3>3. \A x \in DOMAIN data : \E p \in DOMAIN given : moved[p] = x
      BY <2>2
    <3>. HIDE DEF moved
    <3>. QED  BY <3>1, <3>2, <3>3 DEF Bijection, Injection, Surjection, IsInjective
  <2>4. Cardinality(DOMAIN data) = Cardinality(DOMAIN given)
    <3>1. ExistsBijection(DOMAIN given, DOMAIN data)
      BY <2>3 DEF ExistsBijection
    <3>2. IsFiniteSet(DOMAIN given)
      BY DEF ManifestTypeInv
    <3>. QED  BY <3>1, <3>2, FS_Bijection
  <2>. QED  BY <2>2, <2>4
<1>. QED  BY <1>1, <1>2, <1>3, ManifestTypeCorrect, PTL DEF ManifestSpec

=============================================================================
