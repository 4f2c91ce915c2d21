------------------------------ MODULE MC_Detectors ------------------------------
(* Model checking of Detectors on three families of slices: one process     *)
(* creation told by both logs, bursts of up to MaxKills kills or stops at   *)
(* the times 0 .. MaxTime in any order, and pairs of the other events; and  *)
(* on the trace sessions of a memory image.                                 *)
EXTENDS Detectors

CONSTANTS MaxKills, MaxTime

T(base, dir, words, plain) ==
  [base |-> base, dir |-> dir, words |-> words, plain |-> plain, split |-> FALSE]

Name(base) == T(base, "staged", {}, TRUE)

Process(log, image, parent, command, ts) ==
  IF log = "Security"
    THEN [eid |-> 4688, channel |-> log, ts |-> ts,
          data |-> [NewProcessName |-> image, ParentProcessName |-> parent,
                    CommandLine |-> command]]
    ELSE [eid |-> 1, channel |-> log, ts |-> ts,
          data |-> [Image |-> image, ParentImage |-> parent, CommandLine |-> command]]

Programs == LolBins \cup
  {"taskkill.exe", "net.exe", "rbcw.exe", "vssadmin.exe", "wmic.exe", "bcdedit.exe",
   "wevtutil.exe", "7z.exe", "chrome.exe"}

Parents == {"explorer.exe", "powershell.exe", "chrome.exe"}

Commands ==
  {{}, {"DavWWWRoot"}, {"R:socks"}, {"cl.py"}, {"ADMIN$\\__"}, {"-mhe"},
   {"delete shadows"}, {"shadowcopy delete"}, {"recoveryenabled no"}, {" cl "},
   {"comsvcs"}, {"comsvcs", "minidump"}}

BothLogs ==
  { << Process("Security", T(p, "staged", {}, a), Name(q), T("", "", w, c), 1),
       Process("Sysmon", T(p, "staged", {}, TRUE), Name(q), T("", "", w, c), 0) >> :
      p \in Programs, q \in Parents, w \in Commands, a \in BOOLEAN, c \in BOOLEAN }

KillAt(t) == Process(IF t % 2 = 0 THEN "Sysmon" ELSE "Security", Name("taskkill.exe"),
                     Name("chrome.exe"), T("", "", {"/im", "sqlservr"}, TRUE), t)

StopAt(t) == Process("Sysmon", Name("net.exe"), Name("chrome.exe"),
                     T("", "", {"stop", "veeam"}, TRUE), t)

Bursts ==
  { [n \in DOMAIN s |-> KillAt(s[n])] : s \in [1 .. MaxKills -> 0 .. MaxTime] }
    \cup { [n \in DOMAIN s |-> StopAt(s[n])] : s \in [1 .. MaxKills - 1 -> 0 .. MaxTime] }

Event(eid, channel, data) == [eid |-> eid, channel |-> channel, ts |-> 0, data |-> data]

Phrase(w) == T("", "", {w}, TRUE)

ScriptBlock(w, split) ==
  Event(4104, "PowerShell", [ScriptBlockText |-> [Phrase(w) EXCEPT !.split = split]])

Others ==
  { Event(7045, "System", [ServiceName |-> Name("zamguard64")]),
    Event(4657, "Security", [ObjectName |-> Phrase("DeviceGuard"),
                             ObjectValueName |-> Phrase("HypervisorEnforcedCodeIntegrity")]),
    Event(8193, "Application", [Source |-> NoText]),
    Event(13003, "Hyper-V", [VmName |-> NoText]),
    Event(106, "TaskScheduler", [TaskName |-> Phrase("GoogleUpdateTask")]),
    ScriptBlock("Stop-VM", TRUE), ScriptBlock("Clear-EventLog", FALSE),
    ScriptBlock("Clear-EventLog", TRUE), ScriptBlock("Set-MpPreference", TRUE),
    Event(11, "Sysmon", [TargetFilename |-> Name("_readme.txt")]),
    Event(11, "Sysmon", [TargetFilename |-> Name("anydesk.exe")]),
    Event(11, "Sysmon", [TargetFilename |-> T("anydesk.exe", "program files", {}, TRUE)]),
    Event(7036, "System", [param1 |-> Name("WebClient"), param2 |-> Name("Running")]),
    Event(12, "Sysmon", [TargetObject |-> Phrase("Active Directory Explorer")]),
    Event(6, "Sysmon", [SignatureStatus |-> Name("Valid"), Hashes |-> Phrase("thumbprint"),
                        ImageLoaded |-> Name("zam64.sys")]),
    Event(7, "Sysmon", [ImageLoaded |-> Name("srvcli.dll")]),
    Event(7, "Sysmon", [ImageLoaded |-> T("srvcli.dll", "windows", {}, TRUE)]),
    Event(23, "Sysmon", [TargetFilename |-> Phrase("ConsoleHost_history")]),
    Event(5861, "WMI-Activity", [User |-> NoText]),
    Event(22, "Sysmon", [QueryName |-> Phrase(".workers.dev"), Image |-> Name("chrome.exe")]),
    Event(22, "Sysmon", [QueryName |-> Phrase(".workers.dev")]),
    Event(5001, "Defender", [Source |-> NoText]),
    Event(10, "Sysmon", [TargetImage |-> Name("lsass.exe")]),
    Event(13, "Sysmon", [TargetObject |-> Phrase("fDenyTSConnections"),
                         Details |-> Phrase("0x00000000")]),
    Event(4732, "Security", [GroupSid |-> Name("S-1-5-32-544")]),
    Event(5140, "Security", [ShareName |-> Name("ADMIN$"), IpAddress |-> Name("10.0.0.5")]),
    Event(5140, "Security", [ShareName |-> Name("ADMIN$")]) }

Session(name) ==
  [name : {name}, eventlog : {name # "NT Kernel Logger"}, running : BOOLEAN, buffers : {0, 1},
   mode : {0, 1}, lost : {LostThreshold, LostThreshold + 1}]

Healthy(name) == [name |-> name, eventlog |-> TRUE, running |-> TRUE, buffers |-> 1,
                  mode |-> 1, lost |-> 0]

\* At most one session of a name; the Application log's is always healthy.
SessionSets ==
  { {Healthy("EventLog-Application")} \cup UNION {a, b, c} :
      a \in {{}} \cup { {s} : s \in Session("EventLog-Security") },
      b \in {{}} \cup { {s} : s \in Session("EventLog-System") },
      c \in {{}} \cup { {s} : s \in Session("NT Kernel Logger") } }

MCSlices == BothLogs \cup Bursts \cup (Others \X Others)
=============================================================================
