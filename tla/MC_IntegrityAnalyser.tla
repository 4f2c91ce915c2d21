------------------------- MODULE MC_IntegrityAnalyser -------------------------
(* Model checking of IntegrityAnalyser: two chunks of up to three records,  *)
(* the first with any of them taken into the one before it, the second      *)
(* continuing it, repeating its ids or leaving ids out; and, by itself, any *)
(* event of four providers.                                                 *)
EXTENDS IntegrityAnalyser, ProviderHeuristics, TLC

\* Two providers with an event id in common, and two with their channel.
MCProviders ==
  { [name |-> "Security-Auditing", guid |-> "g1", channel |-> "Security", events |-> {1102, 4624}],
    [name |-> "Eventlog", guid |-> "g2", channel |-> "Security", events |-> {1102}],
    [name |-> "Sysmon", guid |-> "g3", channel |-> "Sysmon", events |-> {1, 104}],
    [name |-> "TaskScheduler", guid |-> "g4", channel |-> "Tasks", events |-> {104, 106}] }

\* Sizes at 0, 8 and 16: a record, one that takes in its successors, or junk.
Sizes == {<<a, b, c>> : a \in {8, 16, 24, 15, 3}, b \in {8, 16}, c \in {8, 9}}
Times == {<<1, 1, 2>>, <<2, 1, 1>>, <<0, 1, 1>>, <<1, 20000, 3000000>>}

ClaimsOf(n, sizes, base, times) ==
  [p \in { 8 * (k - 1) : k \in 1 .. n } |->
     [size |-> sizes[p \div 8 + 1], id |-> base + p \div 8, time |-> times[p \div 8 + 1]]]

Plain(cl, guid) ==
  [magic |-> TRUE, whole |-> TRUE, parses |-> TRUE, headerOk |-> TRUE, areaOk |-> TRUE,
   free |-> Area, guid |-> guid, claims |-> cl,
   first |-> cl[Min(DOMAIN cl)].id, last |-> cl[Max(DOMAIN cl)].id, lastId |-> cl[Max(DOMAIN cl)].id]

FirstChunks ==
  { Plain(ClaimsOf(n, z, 1, t), "a") : n \in 1 .. 3, z \in Sizes, t \in Times }
    \cup { [Plain(ClaimsOf(2, <<8, 8, 8>>, 1, <<1, 1, 2>>), "a") EXCEPT !.headerOk = h, !.areaOk = s, !.free = f] :
             h \in BOOLEAN, s \in BOOLEAN, f \in {-1, 0, 15, 16} }

SecondChunks ==
  { Plain(ClaimsOf(2, <<8, 8, 8>>, base, t), g) :
      base \in {1, 3, 4, 5}, t \in {<<2, 2, 2>>, <<3000000, 3000000, 3000000>>, <<20002, 20003, 20003>>}, g \in {"a", "b"} }
    \cup { [Plain(ClaimsOf(1, <<8, 8, 8>>, 4, <<2, 2, 2>>), "a") EXCEPT !.magic = m, !.whole = w, !.parses = p] :
             m \in BOOLEAN, w \in BOOLEAN, p \in BOOLEAN }

Header == [long |-> TRUE, header |-> TRUE, sumOk |-> TRUE, dirty |-> FALSE, full |-> FALSE,
           count |-> 2, next |-> 10]

Headers == {Header, [Header EXCEPT !.long = FALSE], [Header EXCEPT !.header = FALSE],
            [Header EXCEPT !.count = 0, !.next = 1, !.sumOk = FALSE, !.dirty = TRUE, !.full = TRUE]}

Genuine == [name |-> "Sysmon", guid |-> "g3", id |-> 1, channel |-> "Sysmon"]

AnyFile == [places |-> <<>>] @@ [Header EXCEPT !.long = FALSE]

MCInit ==
  \/ /\ \E h \in Headers, a \in FirstChunks, b \in SecondChunks :
          /\ (h # Header => a.claims[0].size = 8)
          /\ file = h @@ [places |-> <<a, b>>]
     /\ Init
     /\ subject = Genuine /\ told = <<{}>>
  \/ /\ file = AnyFile
     /\ Init
     /\ HeuristicsInit

MCNext == (Next /\ UNCHANGED heuristics) \/ (CheckProvider /\ UNCHANGED vars)

MCSpec == MCInit /\ [][MCNext]_<<vars, heuristics>>
=============================================================================
