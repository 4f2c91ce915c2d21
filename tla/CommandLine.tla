------------------------------ MODULE CommandLine ------------------------------
(***************************************************************************)
(* `ev4n6 <command> <path...>` (main.rs): every path is resolved to        *)
(* sources, the sources are deduplicated and gone through one by one, and  *)
(* what was found decides the exit code: 0 nothing, 1 something, 2 an      *)
(* error, 3 no such path.  `diff`, `repair` and `report` take their paths  *)
(* as they are; `report` is module EvidenceReport.                         *)
(*                                                                         *)
(* A blob is not a source: the records carved from it are written to a     *)
(* file of the temporary directory, named for the blob's base name, and    *)
(* that file is the source (module Rebuild).                               *)
(***************************************************************************)
EXTENDS EvidenceReport, Timestamps

CONSTANTS
  Files,     \* event logs, images and blobs
  Bases,     \* base names of blobs
  MaxPaths,
  MaxFinds,  \* bound on what a command finds in a file
  Nobody     \* no file

ASSUME CommandAssumption ==
  /\ MaxPaths \in Nat /\ MaxFinds \in Nat
  /\ IsFiniteSet(Files) /\ IsFiniteSet(Bases)
  /\ Nobody \notin Files

Searching == {"search", "anomaly", "ioc"}
Listing   == {"timeline", "graph", "frequency", "processes", "tree", "extract", "extract-all"}

OnSources == {"verify", "sessions", "info"} \cup Searching \cup Listing
Commands  == OnSources \cup {"diff", "repair", "report"}

\* What a command finds in a file, filtered as its options say: for verify the
\* severities of the indicators, for others events by their time in ticks.
Finds == 1 .. MaxFinds

\* A file cannot be read, is not an event log, or is one; a blob has records
\* to carve or none.
Holdings == [reads : {"no", "bytes", "log"}, finds : SUBSET Finds, records : BOOLEAN]

\* A directory stands for the event logs under it; the others for one file.
Paths == [kind : {"missing", "dir", "evtx", "ewf", "blob"}, files : SUBSET Files, base : Bases]

VARIABLES
  cmd,
  paths,    \* the arguments
  holds,    \* what each file holds
  option,   \* --min-severity of verify, --limit of timeline
  stage,    \* "check", "resolve", "query", "report" or "exited"
  p,        \* loop index
  tmp,      \* wt_carved_<base>.evtx: the blob its records are from, or Nobody
  sources,  \* what the paths were resolved to
  todo,     \* those of them not gone through yet
  failed,   \* those that could not be read
  shown,    \* what is printed: <<source, find>>
  exit      \* exit code; 0 before the end

arguments == <<cmd, paths, holds, option>>
cmdvars   == <<cmd, paths, holds, option, stage, p, tmp, sources, todo, failed, shown, exit>>

\* A source is a file or the temporary file for a base name.
Sources == ({"file"} \X Files) \cup ({"tmp"} \X Bases)

-----------------------------------------------------------------------------

MissingPaths == { q \in DOMAIN paths : paths[q].kind = "missing" }

\* report::run finds for itself that its path is missing: an error.
Check ==
  /\ stage = "check"
  /\ IF MissingPaths # {}
       THEN stage' = "exited" /\ exit' = IF cmd = "report" THEN 2 ELSE 3
       ELSE /\ stage' = IF cmd \in OnSources THEN "resolve"
                        ELSE IF cmd = "report" THEN "report" ELSE "query"
            /\ exit' = 0
  /\ UNCHANGED <<arguments, p, tmp, sources, todo, failed, shown, reportVars>>

-----------------------------------------------------------------------------
(* resolve_sources_multi over resolve_evtx_sources.                         *)

Resolving(kinds) == stage = "resolve" /\ p <= Len(paths) /\ paths[p].kind \in kinds

\* An image is passed through as the file it is.
ResolveFiles ==
  /\ Resolving({"evtx", "dir", "ewf"})
  /\ sources' = sources \cup ({"file"} \X paths[p].files)
  /\ p' = p + 1
  /\ UNCHANGED <<arguments, stage, tmp, todo, failed, shown, exit, reportVars>>

\* Mutant: a temporary file that exists is used as it is.
RebuildBlobOnce ==
  /\ Resolving({"blob"})
  /\ \E b \in paths[p].files :
       /\ holds[b].reads # "no" /\ holds[b].records
       /\ tmp' = [tmp EXCEPT ![paths[p].base] = IF @ = Nobody THEN b ELSE @]
  /\ sources' = sources \cup {<<"tmp", paths[p].base>>}
  /\ p' = p + 1
  /\ UNCHANGED <<arguments, stage, todo, failed, shown, exit, reportVars>>

RebuildBlob ==
  /\ Resolving({"blob"})
  /\ \E b \in paths[p].files :
       /\ holds[b].reads # "no" /\ holds[b].records
       /\ tmp' = [tmp EXCEPT ![paths[p].base] = b]
  /\ sources' = sources \cup {<<"tmp", paths[p].base>>}
  /\ p' = p + 1
  /\ UNCHANGED <<arguments, stage, todo, failed, shown, exit, reportVars>>

\* It cannot be read or holds no records: it vanishes without a word.  So
\* does a blob whose temporary file cannot be written, which may leave that
\* file cut off.
DropBlob ==
  /\ Resolving({"blob"})
  /\ \/ /\ \E b \in paths[p].files : holds[b].reads = "no" \/ ~holds[b].records
        /\ UNCHANGED tmp
     \/ tmp' \in {tmp, [tmp EXCEPT ![paths[p].base] = Nobody]}
  /\ p' = p + 1
  /\ UNCHANGED <<arguments, stage, sources, todo, failed, shown, exit, reportVars>>

Resolved ==
  /\ stage = "resolve"
  /\ p > Len(paths)
  /\ stage' = IF sources = {} THEN "exited" ELSE "query"
  /\ todo' = sources
  /\ UNCHANGED <<arguments, p, tmp, sources, failed, shown, exit, reportVars>>

-----------------------------------------------------------------------------
(* The loop over the sources; nothing depends on their order.               *)

\* verify reads any file, the others open event logs.  info has a line of
\* zeros for what it cannot read.
MayFail(s) ==
  CASE cmd = "info"   -> FALSE
    [] cmd = "verify" -> s[1] = "file" /\ holds[s[2]].reads = "no"
    [] OTHER          -> \/ s[1] = "file" /\ holds[s[2]].reads # "log"
                         \/ s[1] = "tmp" /\ tmp[s[2]] = Nobody

Kept(finds) == IF cmd = "verify" THEN { x \in finds : x >= option } ELSE finds

\* A rebuilt file has sound checksums, and its chunks may be numbered with
\* gaps whatever the blob was.
FindsOfRebuilt(b) ==
  CASE cmd = "verify"                       -> SUBSET {MaxFinds}
    [] cmd # "verify" /\ tmp[b] = Nobody    -> SUBSET Finds
    [] OTHER                                -> {holds[tmp[b]].finds}

MayFind(s) ==
  CASE cmd = "info"                    -> {{MaxFinds}}
    [] cmd # "info" /\ s[1] = "tmp"    -> FindsOfRebuilt(s[2])
    [] OTHER                           -> { finds \in {holds[s[2]].finds} : ~MayFail(s) }

Querying == stage = "query" /\ cmd \in OnSources

\* Mutant: a list that has reached the limit takes nothing more.
QueryWhileShort(s) ==
  /\ Querying
  /\ s \in todo
  /\ \E finds \in MayFind(s) :
       shown' = IF cmd = "timeline" /\ Cardinality(shown) >= option THEN shown
                ELSE shown \cup ({s} \X Kept(finds))
  /\ todo' = todo \ {s}
  /\ UNCHANGED <<arguments, stage, p, tmp, sources, failed, exit, reportVars>>

Query(s) ==
  /\ Querying
  /\ s \in todo
  /\ \E finds \in MayFind(s) : shown' = shown \cup ({s} \X Kept(finds))
  /\ todo' = todo \ {s}
  /\ UNCHANGED <<arguments, stage, p, tmp, sources, failed, exit, reportVars>>

\* Mutant: a source that cannot be read ends the loop.
PassOverAll(s) ==
  /\ Querying
  /\ s \in todo
  /\ MayFail(s)
  /\ cmd # "ioc"
  /\ todo' = {}
  /\ failed' = failed \cup {s}
  /\ UNCHANGED <<arguments, stage, p, tmp, sources, shown, exit, reportVars>>

\* On to the next: with a warning in verify, in the others without a word.
PassOver(s) ==
  /\ Querying
  /\ s \in todo
  /\ MayFail(s)
  /\ cmd # "ioc"
  /\ todo' = todo \ {s}
  /\ failed' = failed \cup {s}
  /\ UNCHANGED <<arguments, stage, p, tmp, sources, shown, exit, reportVars>>

\* extract --ioc gives up and prints nothing.
GiveUp(s) ==
  /\ Querying
  /\ s \in todo
  /\ MayFail(s)
  /\ cmd = "ioc"
  /\ stage' = "exited"
  /\ exit' = 2
  /\ shown' = {}
  /\ failed' = failed \cup {s}
  /\ UNCHANGED <<arguments, p, tmp, sources, todo, reportVars>>

\* timeline sorts what it has of all the sources, by the text of the time,
\* before it cuts it short.
Cut(lines) ==
  IF cmd = "timeline"
    THEN { out \in SUBSET lines :
             /\ Cardinality(out) = IF Cardinality(lines) < option THEN Cardinality(lines) ELSE option
             /\ \A e \in out : \A other \in lines \ out : TextKey(e[2]) <= TextKey(other[2]) }
    ELSE {lines}

ExitCode ==
  CASE cmd \in {"verify"} \cup Searching     -> IF shown = {} THEN 0 ELSE 1
    [] cmd = "sessions" /\ failed = sources  -> 2
    [] OTHER                                 -> 0

Exit ==
  /\ Querying
  /\ todo = {}
  /\ stage' = "exited"
  /\ shown' \in Cut(shown)
  /\ exit' = ExitCode
  /\ UNCHANGED <<arguments, p, tmp, sources, todo, failed, reportVars>>

-----------------------------------------------------------------------------
(* The commands on the paths themselves.                                    *)

IsLog(q) == paths[q].kind # "dir" /\ \A l \in paths[q].files : holds[l].reads = "log"

\* The events of a log are told apart by their ids (module LogQueries).
Diff ==
  /\ stage = "query" /\ cmd = "diff"
  /\ stage' = "exited"
  /\ LET finds(q) == UNION { holds[l].finds : l \in paths[q].files }
     IN  exit' = IF ~IsLog(1) \/ ~IsLog(2) THEN 2
                 ELSE IF finds(1) = finds(2) THEN 0 ELSE 1
  /\ UNCHANGED <<arguments, p, tmp, sources, todo, failed, shown, reportVars>>

\* Module Repair; the output may not be writable.
RepairFile ==
  /\ stage = "query" /\ cmd = "repair"
  /\ stage' = "exited"
  /\ exit' \in IF paths[1].kind = "dir" \/ \E l \in paths[1].files : holds[l].reads = "no"
                 THEN {2} ELSE {0, 2}
  /\ UNCHANGED <<arguments, p, tmp, sources, todo, failed, shown, reportVars>>

Report ==
  /\ stage = "report"
  /\ ReportNext
  /\ UNCHANGED cmdvars

ReportDone ==
  /\ stage = "report"
  /\ phase \in {"ok", "err"}
  /\ stage' = "exited"
  /\ exit' = IF phase = "ok" THEN 0 ELSE 2
  /\ UNCHANGED <<arguments, p, tmp, sources, todo, failed, shown, reportVars>>

-----------------------------------------------------------------------------
KindOf == [dir |-> "Directory", evtx |-> "Evtx", ewf |-> "E01", blob |-> "RawBlob",
           missing |-> "RawBlob"]

\* What the world and the user may give.
Arguments ==
  /\ cmd \in Commands
  /\ paths \in UNION { [1 .. m -> { q \in Paths : q.kind # "dir" => Cardinality(q.files) = 1 }] :
                         m \in 1 .. MaxPaths }
  /\ cmd = "diff" => Len(paths) = 2
  /\ cmd \in {"repair", "report"} => Len(paths) = 1
  /\ holds \in [Files -> Holdings]
  /\ option \in Finds
  /\ tmp \in [Bases -> Files \cup {Nobody}]

Start ==
  /\ stage = "check"
  /\ p = 1
  /\ sources = {}
  /\ todo = {}
  /\ failed = {}
  /\ shown = {}
  /\ exit = 0

CmdInit == Arguments /\ kind = KindOf[paths[1].kind] /\ ReportInit /\ Start

CmdNext ==
  \/ Check \/ ResolveFiles \/ RebuildBlob \/ DropBlob \/ Resolved
  \/ \E s \in Sources : Query(s) \/ PassOver(s) \/ GiveUp(s)
  \/ Exit \/ Diff \/ RepairFile \/ Report \/ ReportDone

\* One thread; that the program ends is not claimed.
CmdSpec == CmdInit /\ [][CmdNext]_<<cmdvars, reportVars>>

-----------------------------------------------------------------------------
CmdTypeOK ==
  /\ cmd \in Commands
  /\ paths \in Seq(Paths)
  /\ \A q \in DOMAIN paths : paths[q].kind # "dir" => Cardinality(paths[q].files) = 1
  /\ cmd = "diff" => Len(paths) = 2
  /\ holds \in [Files -> Holdings]
  /\ option \in Finds
  /\ stage \in {"check", "resolve", "query", "report", "exited"}
  /\ p \in 1 .. Len(paths) + 1
  /\ tmp \in [Bases -> Files \cup {Nobody}]
  /\ sources \subseteq Sources
  /\ todo \subseteq sources
  /\ failed \subseteq Sources
  /\ shown \subseteq Sources \X Finds
  /\ exit \in 0 .. 3

-----------------------------------------------------------------------------
Logs == UNION { paths[q].files : q \in { n \in DOMAIN paths : paths[n].kind \in {"evtx", "dir"} } }

Opened(l) == holds[l].reads = "log" \/ (cmd = "verify" /\ holds[l].reads = "bytes")

(* Exit code 0 of a command that searches means that no event log named,   *)
(* directly or by a directory above it, has anything to show if it can be  *)
(* read: whatever else is named, and however often.  And of diff that the  *)
(* two logs have the same events.                                          *)
CleanLogsAreClean ==
  stage = "exited" /\ exit = 0 =>
    /\ cmd \in {"verify"} \cup Searching =>
         \A l \in Logs : Opened(l) => Kept(holds[l].finds) = {}
    /\ cmd = "diff" => \A l, m \in Logs : holds[l].finds = holds[m].finds

(* A timeline that is cut short leaves out no event of a second before one *)
(* it lists, whichever of the logs the two are in.  (Within a second the   *)
(* texts decide: an event on the second is listed behind those after it.)  *)
EarliestListed ==
  stage = "exited" /\ cmd = "timeline" /\ exit = 0 =>
    \A l \in Logs : \A x \in holds[l].finds :
      Opened(l) => \/ <<<<"file", l>>, x>> \in shown
                   \/ /\ Cardinality(shown) = option
                      /\ \A e \in shown : e[2] \div Second <= x \div Second

(* What is gone through for a blob was carved from a blob of this command  *)
(* with that base name, not left behind by an earlier one.                 *)
RebuiltNow ==
  \A b \in Bases :
    <<"tmp", b>> \in sources /\ tmp[b] # Nobody =>
      \E q \in DOMAIN paths :
        paths[q].kind = "blob" /\ paths[q].base = b /\ tmp[b] \in paths[q].files

=============================================================================
