------------------------------- MODULE Detectors -------------------------------
(***************************************************************************)
(* winevt-analysis: detect_all runs 31 detectors over a slice of events,   *)
(* one after the other, and sorts what they report.  29 of them judge each *)
(* event alone; two look for clusters of kills (module KillCluster).  Also *)
(* the check winevt-memory makes over the trace sessions of a memory image.*)
(*                                                                         *)
(* Strings are abstracted to what the detectors ask of them: the last      *)
(* component of a path, the kind of directory it is in, the phrases it     *)
(* contains and whether it is spelt in the same case as the tables are.    *)
(* The tables themselves are another crate's: a few members stand for each.*)
(***************************************************************************)
EXTENDS KillCluster, Ordering

CONSTANTS
  KillThreshold,  \* RANSOMWARE_KILL_CLUSTER_THRESHOLD
  StopThreshold,  \* RANSOMWARE_SERVICE_STOP_CLUSTER_THRESHOLD
  LostThreshold,  \* HIGH_EVENTS_LOST_THRESHOLD
  Slices,         \* what detect_all is called with
  Images          \* what detect_etw_tampering is

Required == {"EventLog-Security", "EventLog-System", "EventLog-Application"}

ASSUME DetectorsAssumption ==
  /\ KillThreshold \in Nat \ {0} /\ StopThreshold \in Nat \ {0} /\ LostThreshold \in Nat
  /\ \A s \in Slices : s \in Seq({ s[n] : n \in DOMAIN s }) /\ \A n \in DOMAIN s : s[n].ts \in Int
  /\ \A S \in Images : \A s \in S : /\ s.name \in Required => s.eventlog
                                   /\ s.buffers \in Nat /\ s.lost \in Nat

VARIABLES
  events,    \* the slice: EvtxEvents in any order
  sessions,  \* the trace sessions of a memory image
  phase,     \* "detect", "sweep", "panicked", "done"; "sessions", "checked"
  d,         \* the detector that is next
  matches,   \* the kills a cluster detector matched, as indices of events
  results,   \* the detections
  told       \* the indicators of detect_etw_tampering

input == <<events, sessions>>
vars  == <<events, sessions, phase, d, matches, sweep, results, told>>

-----------------------------------------------------------------------------
(* What detectors ask of an event: [eid, channel, ts, data], data a        *)
(* function from some field names to texts.                                *)

NoText == [base |-> "", dir |-> "", words |-> {}, plain |-> TRUE, split |-> FALSE]

Has(e, f)      == f \in DOMAIN e.data
Text(e, f)     == IF Has(e, f) THEN e.data[f] ELSE NoText
Either(e, f, g) == IF Has(e, f) THEN e.data[f] ELSE Text(e, g)

\* eq_ignore_ascii_case, or to_lowercase on both sides.
BaseIn(t, S) == t.base \in S

\* == on the text as it is spelt.
BaseAsSpelt(t, S) == t.plain /\ BaseIn(t, S)

\* contains on a lower-cased text, and contains on the text as it is spelt.
Says(t, S)        == t.words \cap S # {}
SaysAsSpelt(t, S) == t.plain /\ Says(t, S)

From(e, S) == <<e.eid, e.channel>> \in S

IsProcessEvent(e) == From(e, {<<4688, "Security">>, <<1, "Sysmon">>})

\* Two detectors take every channel whose name contains Sysmon.
IsProcessLike(e) == IsProcessEvent(e) \/ From(e, {<<1, "Sysmon copy">>})

\* Mutant: only the name Sysmon gives the field.
ImageOfSysmon(e) == Text(e, "Image")

Image(e) == Either(e, "Image", "NewProcessName")
Parent(e) == Either(e, "ParentImage", "ParentProcessName")
Command(e) == Text(e, "CommandLine")
Script(e)  == Text(e, "ScriptBlockText")

ScriptLogged(e) == From(e, {<<4104, "PowerShell">>})
Sysmon(e, ids)  == e.channel = "Sysmon" /\ e.eid \in ids

-----------------------------------------------------------------------------
(* The tables of forensicnomicon.                                           *)

LolBins     == {"rundll32.exe", "msiexec.exe"}
Shells      == {"explorer.exe"}
Stagers     == {"powershell.exe", "rundll32.exe"}
Browsers    == {"chrome.exe"}
Standard    == {"program files", "windows"}

-----------------------------------------------------------------------------
(* The detectors of single events.                                          *)

ByovdDriverInstall(e) ==
  From(e, {<<7045, "System">>, <<4697, "Security">>})
    /\ BaseIn(Text(e, "ServiceName"), {"zamguard64"})

HvciRegistryTamper(e) ==
  /\ From(e, {<<4657, "Security">>})
  /\ SaysAsSpelt(Text(e, "ObjectName"), {"DeviceGuard"})
  /\ SaysAsSpelt(Text(e, "ObjectValueName"), {"HypervisorEnforcedCodeIntegrity"})

VssDeletion(e) == From(e, {<<8193, "Application">>, <<524, "Application">>})

HypervVmShutdown(e) == e.channel = "Hyper-V" /\ e.eid \in {13002, 13003}

\* So does this one every channel whose name contains TaskScheduler.
ScheduledTaskCreation(e) ==
  From(e, {<<4698, "Security">>, <<106, "TaskScheduler">>, <<106, "TaskScheduler copy">>})

QwcryptProcessExecution(e) ==
  IsProcessLike(e) /\ BaseIn(Either(e, "NewProcessName", "Image"), {"rbcw.exe"})

PsScriptBlockQwcrypt(e) == ScriptLogged(e) /\ Says(Script(e), {"Stop-VM"})

WebdavLolbinUsage(e) ==
  /\ IsProcessLike(e)
  /\ BaseIn(Either(e, "NewProcessName", "Image"), LolBins)
  /\ SaysAsSpelt(Command(e), {"DavWWWRoot"})

RansomNoteCreated(e) == Sysmon(e, {11}) /\ BaseIn(Text(e, "TargetFilename"), {"_readme.txt"})

WebClientServiceStart(e) ==
  /\ From(e, {<<7036, "System">>})
  /\ BaseIn(Text(e, "param1"), {"WebClient"})
  /\ BaseIn(Text(e, "param2"), {"Running"})

AdExplorerRecon(e) ==
  Sysmon(e, {12, 13}) /\ SaysAsSpelt(Text(e, "TargetObject"), {"Active Directory Explorer"})

\* The hash and the signature are compared in any case, the path contains
\* the directory of a real installation anywhere.
ZemanaDriverLoad(e) ==
  /\ Sysmon(e, {6})
  /\ BaseIn(Text(e, "SignatureStatus"), {"Valid"})
  /\ Says(Text(e, "Hashes"), {"thumbprint"})
  /\ Has(e, "ImageLoaded")
  /\ Text(e, "ImageLoaded").dir # "zemana"

DllSideloadHijack(e) ==
  /\ Sysmon(e, {7})
  /\ BaseIn(Text(e, "ImageLoaded"), {"srvcli.dll"})
  /\ Text(e, "ImageLoaded").dir \notin Standard

PsHistoryWipe(e) ==
  Sysmon(e, {23, 26}) /\ SaysAsSpelt(Text(e, "TargetFilename"), {"ConsoleHost_history"})

RpivotChisel(e) ==
  IsProcessEvent(e) /\ (Says(Command(e), {"R:socks"}) \/ Says(Command(e), {"cl.py"}))

WmiLateralMovement(e) ==
  \/ From(e, {<<5861, "WMI-Activity">>})
  \/ IsProcessEvent(e) /\ SaysAsSpelt(Command(e), {"ADMIN$\\__"})

\* Only the names of Sysmon's fields are read: an event of the Security log
\* never matches.
SevenZipStagingEncrypted(e) ==
  /\ IsProcessEvent(e)
  /\ BaseIn(Text(e, "Image"), {"7z.exe"})
  /\ SaysAsSpelt(Command(e), {"-mhe"})
  /\ BaseIn(Text(e, "ParentImage"), Stagers)

FakeBrowserTask(e) ==
  /\ e.channel = "TaskScheduler" /\ e.eid \in {106, 140}
  /\ SaysAsSpelt(Text(e, "TaskName"), {"GoogleUpdateTask"})

WorkersDevDnsQuery(e) ==
  /\ Sysmon(e, {22})
  /\ SaysAsSpelt(Text(e, "QueryName"), {".workers.dev"})
  /\ ~BaseIn(Text(e, "Image"), Browsers)

VssAdminWmicDelete(e) ==
  /\ IsProcessEvent(e)
  /\ \/ BaseIn(Image(e), {"vssadmin.exe"}) /\ Says(Command(e), {"delete shadows"})
     \/ BaseIn(Image(e), {"wmic.exe"}) /\ Says(Command(e), {"shadowcopy delete"})

BcdeditRecoveryTamper(e) ==
  /\ IsProcessEvent(e)
  /\ BaseIn(Image(e), {"bcdedit.exe"})
  /\ Says(Command(e), {"recoveryenabled no"})

\* The command of wevtutil that clears a log.
ClearsLog == {" cl "}

ClearsByScript(e) == ScriptLogged(e) /\ SaysAsSpelt(Script(e), {"Clear-EventLog"})

WevtutilLogClear(e) ==
  \/ /\ IsProcessEvent(e)
     /\ BaseIn(Image(e), {"wevtutil.exe"})
     /\ Says(Command(e), ClearsLog)
  \/ ClearsByScript(e)

TampersByScript(e) == ScriptLogged(e) /\ SaysAsSpelt(Script(e), {"Set-MpPreference"})

DefenderDisabled(e) == TampersByScript(e) \/ From(e, {<<5001, "Defender">>})

ComsvcslsassDump(e) ==
  \/ IsProcessEvent(e) /\ {"comsvcs", "minidump"} \subseteq Command(e).words
  \/ Sysmon(e, {10}) /\ BaseIn(Text(e, "TargetImage"), {"lsass.exe"})

RmmToolInstall(e) ==
  /\ Sysmon(e, {11})
  /\ BaseIn(Text(e, "TargetFilename"), {"anydesk.exe"})
  /\ Text(e, "TargetFilename").dir # "program files"

RdpEnabled(e) ==
  /\ Sysmon(e, {13})
  /\ SaysAsSpelt(Text(e, "TargetObject"), {"fDenyTSConnections"})
  /\ Says(Text(e, "Details"), {"0x00000000"})

LocalAdminCreation(e) ==
  \/ From(e, {<<4720, "Security">>})
  \/ From(e, {<<4732, "Security">>}) /\ BaseAsSpelt(Text(e, "GroupSid"), {"S-1-5-32-544"})

SmbAdminShareAccess(e) ==
  /\ From(e, {<<5140, "Security">>})
  /\ BaseIn(Text(e, "ShareName"), {"ADMIN$"})
  /\ Text(e, "IpAddress").base \notin {"127.0.0.1", "-", ""}

ExplorerLolbinExecution(e) ==
  IsProcessEvent(e) /\ BaseIn(Parent(e), Shells) /\ BaseIn(Image(e), LolBins)

-----------------------------------------------------------------------------
(* The two detectors of clusters: which events are kills.                   *)

KillsCanonicalProcess(e) ==
  /\ IsProcessEvent(e)
  /\ BaseIn(Image(e), {"taskkill.exe"})
  /\ {"/im", "sqlservr"} \subseteq Command(e).words

StopsCanonicalService(e) ==
  /\ IsProcessEvent(e)
  /\ BaseIn(Image(e), {"net.exe", "net1.exe", "sc.exe"})
  /\ {"stop", "veeam"} \subseteq Command(e).words

-----------------------------------------------------------------------------
(* detect_all.                                                              *)

Order == <<
  "ByovdDriverInstall", "HvciRegistryTamper", "VssDeletion", "HypervVmShutdown",
  "ScheduledTaskCreation", "QwcryptProcessExecution", "PsScriptBlockQwcrypt",
  "WebdavLolbinUsage", "RansomNoteCreated", "WebClientServiceStart", "AdExplorerRecon",
  "ZemanaDriverLoad", "DllSideloadHijack", "PsHistoryWipe", "RpivotChisel",
  "WmiLateralMovement", "SevenZipStagingEncrypted", "FakeBrowserTask",
  "WorkersDevDnsQuery", "VssAdminWmicDelete", "TaskkillAvCluster", "ServiceStopAvSet",
  "BcdeditRecoveryTamper", "WevtutilLogClear", "DefenderDisabled", "ComsvcslsassDump",
  "RmmToolInstall", "RdpEnabled", "LocalAdminCreation", "SmbAdminShareAccess",
  "ExplorerLolbinExecution" >>

\* The technique of each, as a number that orders like its identifier.
Technique ==
  << 1068000, 1562001, 1490000, 1486000, 1053005, 1486000, 1059001, 1102000, 1486000,
     1102000, 1087000, 1068000, 1574002, 1070003, 1090000, 1047000, 1560001, 1053005,
     1102000, 1490000, 1562001, 1489000, 1490000, 1070001, 1562001, 1003001, 1219000,
     1021001, 1136001, 1021002, 1204002 >>

Clusters == {"TaskkillAvCluster", "ServiceStopAvSet"}

Fires(kind, e) ==
  CASE kind = "ByovdDriverInstall"       -> ByovdDriverInstall(e)
    [] kind = "HvciRegistryTamper"       -> HvciRegistryTamper(e)
    [] kind = "VssDeletion"              -> VssDeletion(e)
    [] kind = "HypervVmShutdown"         -> HypervVmShutdown(e)
    [] kind = "ScheduledTaskCreation"    -> ScheduledTaskCreation(e)
    [] kind = "QwcryptProcessExecution"  -> QwcryptProcessExecution(e)
    [] kind = "PsScriptBlockQwcrypt"     -> PsScriptBlockQwcrypt(e)
    [] kind = "WebdavLolbinUsage"        -> WebdavLolbinUsage(e)
    [] kind = "RansomNoteCreated"        -> RansomNoteCreated(e)
    [] kind = "WebClientServiceStart"    -> WebClientServiceStart(e)
    [] kind = "AdExplorerRecon"          -> AdExplorerRecon(e)
    [] kind = "ZemanaDriverLoad"         -> ZemanaDriverLoad(e)
    [] kind = "DllSideloadHijack"        -> DllSideloadHijack(e)
    [] kind = "PsHistoryWipe"            -> PsHistoryWipe(e)
    [] kind = "RpivotChisel"             -> RpivotChisel(e)
    [] kind = "WmiLateralMovement"       -> WmiLateralMovement(e)
    [] kind = "SevenZipStagingEncrypted" -> SevenZipStagingEncrypted(e)
    [] kind = "FakeBrowserTask"          -> FakeBrowserTask(e)
    [] kind = "WorkersDevDnsQuery"       -> WorkersDevDnsQuery(e)
    [] kind = "VssAdminWmicDelete"       -> VssAdminWmicDelete(e)
    [] kind = "BcdeditRecoveryTamper"    -> BcdeditRecoveryTamper(e)
    [] kind = "WevtutilLogClear"         -> WevtutilLogClear(e)
    [] kind = "DefenderDisabled"         -> DefenderDisabled(e)
    [] kind = "ComsvcslsassDump"         -> ComsvcslsassDump(e)
    [] kind = "RmmToolInstall"           -> RmmToolInstall(e)
    [] kind = "RdpEnabled"               -> RdpEnabled(e)
    [] kind = "LocalAdminCreation"       -> LocalAdminCreation(e)
    [] kind = "SmbAdminShareAccess"      -> SmbAdminShareAccess(e)
    [] kind = "ExplorerLolbinExecution"  -> ExplorerLolbinExecution(e)
    [] kind = "TaskkillAvCluster"        -> KillsCanonicalProcess(e)
    [] OTHER                             -> StopsCanonicalService(e)

Fired(kind) == { n \in DOMAIN events : Fires(kind, events[n]) }

Detection(k, ts, e) == [d |-> k, ts |-> ts, eid |-> e.eid, channel |-> e.channel]

\* The excerpt of the script is cut at byte 120, which panics inside a
\* character; the detector of QWCrypt patterns counts characters instead.
Panics(kind, e) ==
  /\ Script(e).split
  /\ \/ kind = "WevtutilLogClear" /\ ClearsByScript(e)
     \/ kind = "DefenderDisabled" /\ TampersByScript(e)

Detecting == phase = "detect" /\ d <= Len(Order)

Detect ==
  /\ Detecting
  /\ Order[d] \notin Clusters
  /\ \A n \in DOMAIN events : ~Panics(Order[d], events[n])
  /\ results' = results \o
       [ n \in 1 .. Cardinality(Fired(Order[d])) |->
           LET e == events[Ascending(Fired(Order[d]))[n]]
           IN  Detection(d, e.ts, e) ]
  /\ d' = d + 1
  /\ UNCHANGED <<input, phase, matches, sweep, told>>

\* Every detection made so far is lost with the call.
Panic ==
  /\ Detecting
  /\ \E n \in DOMAIN events : Panics(Order[d], events[n])
  /\ phase' = "panicked"
  /\ results' = <<>>
  /\ UNCHANGED <<input, d, matches, sweep, told>>

\* A stable sort by time.
Earlier(m, n) ==
  \/ events[m].ts < events[n].ts
  \/ events[m].ts = events[n].ts /\ m < n

ByTime(S) == Arranged(S, { mn \in S \X S : Earlier(mn[1], mn[2]) })

Match ==
  /\ Detecting
  /\ Order[d] \in Clusters
  /\ matches' = ByTime(Fired(Order[d]))
  /\ least' = IF Order[d] = "TaskkillAvCluster" THEN KillThreshold ELSE StopThreshold
  /\ times' = [n \in DOMAIN matches' |-> events[matches'[n]].ts]
  /\ i' = 1
  /\ windows' = <<>>
  /\ phase' = "sweep"
  /\ UNCHANGED <<input, d, results, told>>

SweepKills ==
  /\ phase = "sweep"
  /\ Sweep
  /\ UNCHANGED <<input, phase, d, matches, results, told>>

\* A detection bears the time of its first match and is otherwise the last's.
Swept ==
  /\ phase = "sweep"
  /\ i > Len(times)
  /\ results' = results \o
       [ w \in DOMAIN windows |->
           Detection(d, times[windows[w].first], events[matches[windows[w].last]]) ]
  /\ d' = d + 1
  /\ phase' = "detect"
  /\ UNCHANGED <<input, matches, sweep, told>>

\* Before or after in time, then by technique; otherwise in the order found.
Precedes(m, n) ==
  LET a == results[m]  b == results[n]
  IN  \/ a.ts < b.ts
      \/ a.ts = b.ts /\ Technique[a.d] < Technique[b.d]
      \/ a.ts = b.ts /\ Technique[a.d] = Technique[b.d] /\ m < n

Sort ==
  /\ phase = "detect" /\ d > Len(Order)
  /\ LET D == DOMAIN results
         a == Arranged(D, { mn \in D \X D : Precedes(mn[1], mn[2]) })
     IN  results' = [ n \in D |-> results[a[n]] ]
  /\ phase' = "done"
  /\ UNCHANGED <<input, d, matches, sweep, told>>

-----------------------------------------------------------------------------
(* detect_etw_tampering: sessions is a set of [name, eventlog, running,     *)
(* buffers, mode, lost], eventlog when the name begins with "EventLog-".    *)

\* identify_eventlog_sessions
EventLogSessions == { s \in sessions : s.eventlog }

\* Mutant: the required sessions are missing when no event log session is there.
MissingAltogether == IF EventLogSessions = {} THEN Required ELSE {}

Missing == Required \ { s.name : s \in sessions }

Indicators(s) ==
  { x \in {"HighEventsLost", "SuspiciousLogMode", "SessionStopped", "ZeroBuffers"} :
      CASE x = "HighEventsLost"    -> s.lost > LostThreshold
        [] x = "SuspiciousLogMode" -> s.mode = 0
        [] x = "SessionStopped"    -> s \in EventLogSessions /\ ~s.running
        [] OTHER                   -> s.running /\ s.buffers = 0 }

CheckSessions ==
  /\ phase = "sessions"
  /\ told' = ({"MissingEventLogSession"} \X Missing)
              \cup UNION { Indicators(s) \X {s.name} : s \in sessions }
  /\ phase' = "checked"
  /\ UNCHANGED <<input, d, matches, sweep, results>>

\* The two are calls of their own.
Init ==
  /\ \/ phase = "detect" /\ events \in Slices /\ sessions = {}
     \/ phase = "sessions" /\ sessions \in Images /\ events = <<>>
  /\ d = 1
  /\ matches = <<>> /\ least = KillThreshold /\ times = <<>> /\ i = 1 /\ windows = <<>>
  /\ results = <<>>
  /\ told = {}

Next == \/ Detect \/ Panic \/ Match \/ SweepKills \/ Swept \/ Sort
        \/ CheckSessions

Spec == Init /\ [][Next]_vars

-----------------------------------------------------------------------------
\* The positions of a kind of detections.
DetectionsOf(kind) == { k \in DOMAIN results : Order[results[k].d] = kind }

ClusterKinds ==
  { [kind |-> "TaskkillAvCluster", least |-> KillThreshold],
    [kind |-> "ServiceStopAvSet",  least |-> StopThreshold] }

\* The kills from t on and up to a window later.
Around(kind, t) == { n \in Fired(kind) : t <= events[n].ts /\ events[n].ts <= t + Window }

(* A burst of kills is never missed: whatever the order of the events in   *)
(* the slice and however the windows fall, a kill that starts a cluster is *)
(* inside the window of some detection.                                    *)
ClustersTold ==
  phase = "done" =>
    \A c \in ClusterKinds : \A n \in Fired(c.kind) :
      Cardinality(Around(c.kind, events[n].ts)) >= c.least =>
        \E k \in DetectionsOf(c.kind) : n \in Around(c.kind, results[k].ts)

(* No burst is told of twice and none is made up: every detection has its  *)
(* threshold of kills in its window, and the windows of two detections     *)
(* have no moment in common.                                               *)
ClustersGenuine ==
  phase = "done" =>
    \A c \in ClusterKinds :
      /\ \A k \in DetectionsOf(c.kind) : Cardinality(Around(c.kind, results[k].ts)) >= c.least
      /\ \A k, l \in DetectionsOf(c.kind) : k < l => results[l].ts > results[k].ts + Window

\* The same process creation, told by the Security log and by Sysmon, each in
\* its own names of the fields; they may spell the programs differently.
SameActivity(e, f) ==
  /\ From(e, {<<4688, "Security">>}) /\ From(f, {<<1, "Sysmon">>})
  /\ ~Has(e, "Image") /\ ~Has(e, "ParentImage")
  /\ ~Has(f, "NewProcessName") /\ ~Has(f, "ParentProcessName")
  /\ Text(e, "NewProcessName").base = Text(f, "Image").base
  /\ Text(e, "ParentProcessName").base = Text(f, "ParentImage").base
  /\ Command(e) = Command(f)

\* What a detection says of the event it is of, and an event has.
SameStamp(x, e) == x.ts = e.ts /\ x.eid = e.eid /\ x.channel = e.channel

KindsOf(e) == { Order[results[k].d] : k \in { m \in DOMAIN results : SameStamp(results[m], e) } }

Recognised(n) == \A m \in DOMAIN events : SameStamp(events[m], events[n]) => m = n

\* A cluster is no single event's.
Excepted == Clusters \cup {"SevenZipStagingEncrypted"}

(* What a process did decides what is told of it, not which of the two     *)
(* logs recorded it nor how the path of its image is spelt: the same       *)
(* detectors fire.  The one of 7-Zip is left out, for it reads the names   *)
(* of Sysmon's fields only; so are events whose detections cannot be told  *)
(* from those of another event.                                            *)
ActivityDecides ==
  phase = "done" =>
    \A m, n \in DOMAIN events :
      SameActivity(events[m], events[n]) /\ Recognised(m) /\ Recognised(n) =>
        KindsOf(events[m]) \ Excepted = KindsOf(events[n]) \ Excepted

Records(s) == s.running /\ s.buffers > 0 /\ s.mode # 0 /\ s.lost <= LostThreshold

(* An event log that no session was recording is told of, under the name   *)
(* of its session: whether the session is gone, stopped, without buffers,  *)
(* without an output or losing events.                                     *)
BlindSpotsTold ==
  phase = "checked" =>
    \A name \in Required :
      (\A s \in sessions : s.name = name => ~Records(s))
        => \E x \in told : x[2] = name

=============================================================================
