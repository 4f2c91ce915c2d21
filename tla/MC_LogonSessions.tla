-------------------------- MODULE MC_LogonSessions ---------------------------
(* Model checking of LogonSessions: at most Total events, in one file or    *)
(* split over two, with or without a file that does not open.               *)
EXTENDS LogonSessions

CONSTANTS Total

AnyTime == CHOOSE t \in Times : TRUE

\* What no step reads is fixed: the fields of events that are passed over.
Tested ==
  { e \in Events :
      \/ e.kind # "other" /\ e.data
      \/ e.time = AnyTime /\ e.luid = Missing /\ (e.kind = "logon" <=> ~e.data) }

Lists == UNION { [1 .. j -> Tested] : j \in 0 .. Total }

Opens(e) == [opens |-> TRUE, events |-> e]
Bad      == [opens |-> FALSE, events |-> <<>>]

SessionsInit ==
  /\ \E e \in Lists :
       \/ mode = "single" /\ files = <<Opens(e)>>
       \/ mode = "multi"  /\ \E c \in 0 .. Len(e) :
                              files = <<Opens(SubSeq(e, 1, c)), Opens(SubSeq(e, c + 1, Len(e)))>>
       \/ mode = "multi"  /\ files = <<Bad, Opens(e)>>
       \/ mode = "single" /\ e = <<>> /\ files = <<Bad>>
       \/ mode = "multi"  /\ e = <<>> /\ files \in {<<>>, <<Bad, Bad>>}
  /\ phase = "collect"
  /\ f = 1
  /\ raw = <<>>
  /\ next = 1
  /\ open = EmptyMap
  /\ order = <<>>
  /\ closed = <<>>
=============================================================================
