--------------------------- MODULE ProviderHeuristics ---------------------------
(***************************************************************************)
(* check_provider_consistency (winevt-integrity): whether the provider an  *)
(* event names, the provider's guid, the event id and the channel agree    *)
(* with the table of known providers.  Names and channels are compared in  *)
(* any case: here they are what is the same in any case.                   *)
(***************************************************************************)
EXTENDS Integers, FiniteSets

CONSTANTS
  KnownProviders,  \* the table: [name, guid, channel, events]
  NoGuid           \* the event has no guid

\* The table has neither a name nor a guid twice.
ASSUME ProviderAssumption ==
  /\ \A p, q \in KnownProviders : p.name = q.name \/ p.guid = q.guid => p = q
  /\ \A p \in KnownProviders : p.guid # NoGuid

VARIABLES
  subject,  \* the event looked at
  told      \* its anomalies, <<>> before

heuristics == <<subject, told>>

-----------------------------------------------------------------------------

ByName(e) == { p \in KnownProviders : p.name = e.name }
ByGuid(e) == { p \in KnownProviders : p.guid = e.guid }

GuidSpoofing(e) == \E p \in ByName(e) : e.guid \notin {NoGuid, p.guid}

\* Mutant: the event is checked against the provider it names.
UnexpectedEventIdByName(e) == \E p \in ByName(e) : e.id \notin p.events

UnexpectedEventId(e) == \E p \in ByGuid(e) : e.id \notin p.events

ChannelMismatch(e) == \E p \in ByGuid(e) : e.channel # p.channel

CheckProviderConsistency(e) ==
  { a \in {"GuidSpoofing", "UnexpectedEventId", "ChannelMismatch"} :
      CASE a = "GuidSpoofing"      -> GuidSpoofing(e)
        [] a = "UnexpectedEventId" -> UnexpectedEventId(e)
        [] OTHER                   -> ChannelMismatch(e) }

CheckProvider ==
  /\ told = <<>>
  /\ told' = <<CheckProviderConsistency(subject)>>
  /\ UNCHANGED subject

-----------------------------------------------------------------------------
Names    == { p.name : p \in KnownProviders }
Guids    == { p.guid : p \in KnownProviders }
Channels == { p.channel : p \in KnownProviders }
Ids      == UNION { p.events : p \in KnownProviders }

HeuristicsInit ==
  /\ subject \in [name : Names \cup {"unknown"}, guid : Guids \cup {NoGuid, "unknown"},
                  id : Ids, channel : Channels]
  /\ told = <<>>

Logs(p, e) == e.id \in p.events /\ e.channel = p.channel

(* No event passes for one of a known provider: one that bears a provider's*)
(* guid is told unless that provider logs such events and the name is its  *)
(* own or no known one, one with its name is told if the guid is another's.*)
(* And what a provider logs is never told, whether or not it bears a guid. *)
ForgeriesTold ==
  told # <<>> =>
    \A p \in KnownProviders :
      /\ told[1] = {} /\ subject.guid = p.guid
           => Logs(p, subject) /\ subject.name \in {p.name, "unknown"}
      /\ told[1] = {} /\ subject.name = p.name => subject.guid \in {p.guid, NoGuid}
      /\ Logs(p, subject) /\ subject.name = p.name /\ subject.guid \in {p.guid, NoGuid}
           => told[1] = {}
=============================================================================
