------------------------------- MODULE MC_Extract -------------------------------
(* Model checking of what is made of the events of a log: sessions          *)
(* (LogonSessions), the queries over logs (LogQueries), the names of their  *)
(* fields (ManifestDb), the map of their names and values (EventFields).    *)
(* None calls another: in each behaviour one of them has something to do.   *)
EXTENDS MC_LogonSessions, MC_LogQueries, MC_ManifestDb, MC_EventFields

SessionsIdle ==
  /\ mode = "single" /\ files = <<>> /\ phase = "done" /\ f = 1 /\ raw = <<>> /\ next = 1
  /\ open = EmptyMap /\ order = <<>> /\ closed = <<>>

QueriesIdle ==
  /\ logs = <<>> /\ at = 1 /\ nth = 1 /\ acc = Nothing /\ results = <<>> /\ graph = NoCounts
  /\ total = <<[edges |-> NoCounts, nodes |-> {}, diff |-> Failed]>>

ManifestIdle ==
  /\ dir = NoEntries /\ unread = {} /\ elements = <<>> /\ place = 1
  /\ templates = NoEntries /\ eventMap = <<>> /\ guid = "" /\ tid = "" /\ inTemplate = FALSE
  /\ db = NoEntries /\ manifest = "renamed" /\ event = <<"", 1>> /\ given = NoEntries
  /\ data = NoEntries /\ renames = {}

FieldsIdle == tree = <<>> /\ flat = <<NoEntries>>

MCInit ==
  \/ SessionsInit /\ QueriesIdle /\ ManifestIdle /\ FieldsIdle
  \/ QueryInit /\ SessionsIdle /\ ManifestIdle /\ FieldsIdle
  \/ ManifestInit /\ SessionsIdle /\ QueriesIdle /\ FieldsIdle
  \/ FieldsInit /\ SessionsIdle /\ QueriesIdle /\ ManifestIdle

MCNext ==
  \/ Next /\ UNCHANGED <<qvars, mvars, flattened>>
  \/ QueryNext /\ UNCHANGED <<vars, mvars, flattened>>
  \/ ManifestNext /\ UNCHANGED <<vars, qvars, flattened>>
  \/ FieldsNext /\ UNCHANGED <<vars, qvars, mvars>>

MCSpec == MCInit /\ [][MCNext]_<<vars, qvars, mvars, flattened>>
=============================================================================
