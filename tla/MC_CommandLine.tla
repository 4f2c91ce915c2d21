---------------------------- MODULE MC_CommandLine -----------------------------
(* Model checking of CommandLine: `report` with at most MaxItems files and  *)
(* chunks only where the pipeline may look at them; the other commands with *)
(* at most MaxPaths arguments.  A field that no step reads is fixed.        *)
EXTENDS CommandLine

AnyBase == CHOOSE b \in Bases : TRUE
AnyFile == CHOOSE f \in Files : TRUE
AnyItem == [name |-> CHOOSE n \in Names : TRUE, inside |-> FALSE, chunks |-> <<>>]
NoFinds == [reads |-> "no", finds |-> {}, records |-> FALSE]

OfReport ==
  /\ cmd = "report"
  /\ \E q \in {"missing", "dir", "evtx", "ewf", "blob"} :
       paths = <<[kind |-> q, files |-> {AnyFile}, base |-> AnyBase]>>
  /\ holds = [f \in Files |-> NoFinds]
  /\ option = 1
  /\ tmp = [b \in Bases |-> Nobody]
  /\ kind = KindOf[paths[1].kind]
  /\ ReportInit
  /\ \A a \in DOMAIN items :
       kind = "Directory" \/ (kind = "E01" /\ ~carve) => items[a].chunks \in {<<>>, <<TRUE>>}

MCPaths ==
  { q \in Paths :
      /\ q.kind # "dir" => Cardinality(q.files) = 1
      /\ q.kind # "blob" => q.base = AnyBase
      /\ q.kind = "missing" => q.files = {AnyFile} }

\* Commands whose policies differ get two arguments.
TwoPaths == {"verify", "search", "ioc", "timeline", "diff"}

\* Two finds are enough for commands that do not order them.
Told == IF cmd = "timeline" THEN Finds ELSE {1, MaxFinds}

OfOthers ==
  /\ cmd \in Commands \ {"report"}
  /\ paths \in UNION { [1 .. m -> MCPaths] : m \in 1 .. MaxPaths }
  /\ cmd \notin TwoPaths => Len(paths) = 1
  /\ cmd = "diff" => Len(paths) = 2
  /\ holds \in [Files -> { h \in Holdings : /\ h.reads = "no" => h = NoFinds
                                            /\ h.reads = "log" => h.records
                                            /\ h.finds \subseteq Told
                                            /\ h.reads = "log" \/ h.finds \subseteq {1, MaxFinds} }]
  /\ option \in Told
  /\ cmd \notin {"verify", "timeline"} => option = 1
  /\ tmp \in [Bases -> Files \cup {Nobody}]
  /\ kind = KindOf[paths[1].kind]
  /\ carve = FALSE
  /\ items = IF kind \in {"Evtx", "RawBlob"} THEN <<AnyItem>> ELSE <<>>
  /\ oldRun = {}
  /\ phase = "extract" /\ k = 1 /\ i = 0
  /\ disk = [x \in FileNames |-> Absent]
  /\ entries = <<>> /\ timeline = "none" /\ hayabusa = "none"

\* Some of the states of CmdInit.
MCInit == (OfReport \/ OfOthers) /\ Start

MCSpec == MCInit /\ [][CmdNext]_<<cmdvars, reportVars>>
=============================================================================
