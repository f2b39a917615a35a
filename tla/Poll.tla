-------------------------------- MODULE Poll --------------------------------
(***************************************************************************)
(* One poll of a FortiGate (coordinator.py, _async_update_data): fifteen   *)
(* requests one after the other, what the failure of each one means, and   *)
(* the moments at which entities come to read what was received.           *)
(*                                                                         *)
(* Home Assistant's DataUpdateCoordinator is external.  It starts a poll   *)
(* some time after the last one has ended, replaces the published data     *)
(* when a poll succeeds, and tells the listeners only if the data differs  *)
(* from the data before (always_update is off) or if the outcome of the    *)
(* poll differs from that of the last one.                                 *)
(***************************************************************************)
EXTENDS FiniteSets

CONSTANTS
  Tracked,     \* the requests whose answers are followed; all of them are made
  Value,       \* what an answer may contain
  NoValue      \* an empty answer

-----------------------------------------------------------------------------
(* The requests and the way each one is handled.                           *)

Request == {"meta", "names", "aps", "channels", "clients", "arp", "dhcp", "devices",
            "vdoms", "interfaces", "available", "resources", "dns", "vaps", "profiles"}

Last == "profiles"

After ==
  [meta      |-> "names",      names      |-> "aps",       aps       |-> "channels",
   channels  |-> "clients",    clients    |-> "arp",       arp       |-> "dhcp",
   dhcp      |-> "devices",    devices    |-> "vdoms",     vdoms     |-> "interfaces",
   interfaces |-> "available", available  |-> "resources", resources |-> "dns",
   dns       |-> "vaps",       vaps       |-> "profiles"]

Wifi == {"meta", "names", "aps", "channels", "clients", "vaps", "profiles"}

(* No handler of their own: the poll fails with them.                      *)
Fatal == {"aps", "vaps", "profiles"}

(* After a failure entities go on with what was received last ...          *)
Retained == {"arp", "dhcp", "devices", "vdoms", "interfaces", "available"}

(* ... with the same, marked as not available ...                          *)
Marked == {"resources", "dns"}

(* ... or with nothing.                                                    *)
Emptied == {"clients"}

Table == Fatal \cup Retained \cup Marked \cup Emptied

(* Requested anew only after some time, or for a new model of access point *)
(* (the others in every poll).  "dns" is the configuration; the latency is *)
(* requested in every poll, and whether that failed is part of the value.  *)
Cached == {"channels", "devices", "vdoms", "available", "dns"}

(* Handlers that also catch a TypeError, an answer of an unexpected kind.  *)
CatchesTypeError == {"vdoms", "resources", "dns"}

(* Read by entities as soon as the answer is there, from the coordinator's *)
(* own fields ...                                                          *)
ReadAtOnce == {"vdoms", "interfaces", "resources", "dns"}

(* ... when indexed, between the last two requests ...                     *)
IndexedLate == {"clients", "arp", "dhcp", "devices"}

(* ... or from the published data.                                         *)
ReadFromData == Fatal \cup {"available"}

ASSUME PollAssumption ==
  /\ Tracked \subseteq Table
  /\ NoValue \notin Value

-----------------------------------------------------------------------------
Content == [value : Value \cup {NoValue}, available : BOOLEAN]

Nothing == [value |-> NoValue, available |-> FALSE]

VARIABLES
  set_up,     \* a poll has succeeded, so that the entry could be set up
  pc,         \* the request that waits for its answer, or "idle"
  failed,     \* tracked requests that failed in this poll, or in the last one
  byWifi,     \* it was a Wi-Fi request that ended the last poll
  got,        \* what each request has received: _arp_table and so on
  reads,      \* what entities read
  data,       \* the published data
  success,    \* last_update_success
  seen,       \* what entities showed when they were told the last time
  calm        \* no request fails any more

vars == <<set_up, pc, failed, byWifi, got, reads, data, success, seen, calm>>

Empty == [t \in Tracked |-> Nothing]

(* What entities show: they are unavailable after a poll that failed.      *)
Shown(tables, ok) == [ok |-> ok, tables |-> IF ok THEN tables ELSE Empty]

Init ==
  /\ set_up = FALSE
  /\ pc = "idle"
  /\ failed = {} /\ byWifi = FALSE
  /\ got = Empty /\ reads = Empty /\ data = Empty /\ seen = Shown(Empty, TRUE)
  /\ success = TRUE
  /\ calm = FALSE

(* The outside world: from here on every request is answered.              *)
CalmDown ==
  /\ ~calm
  /\ calm' = TRUE
  /\ UNCHANGED <<set_up, pc, failed, byWifi, got, reads, data, success, seen>>

-----------------------------------------------------------------------------
(* The coordinator of an entry that is set up has tried to load the two    *)
(* lookup tables, and does so only once.                                   *)
First == IF set_up THEN "aps" ELSE "meta"

(* Wrong: polling stops after a failure.                                   *)
StartPollIfWell ==
  /\ pc = "idle"
  /\ success
  /\ pc' = First
  /\ failed' = {}
  /\ UNCHANGED <<set_up, byWifi, got, reads, data, success, seen, calm>>

StartPoll ==
  /\ pc = "idle"
  /\ pc' = First
  /\ failed' = {}
  /\ UNCHANGED <<set_up, byWifi, got, reads, data, success, seen, calm>>

(* f with the values of g on S.                                            *)
Overlay(f, g, S) == [t \in Tracked |-> IF t \in S THEN g[t] ELSE f[t]]

(* Wrong: the other tables are not indexed anew.                           *)
ReadsWithoutIndex(r, received) == Overlay(reads, received, ReadAtOnce \cap {r})

(* What entities read once the answer to r has been dealt with.            *)
ReadsAfter(r, received) ==
  Overlay(reads, received, IF r = "vaps" THEN IndexedLate ELSE ReadAtOnce \cap {r})

(* The answer to r is dealt with and the next request is made.             *)
Proceed(r, received) ==
  /\ pc' = After[r]
  /\ got' = received
  /\ reads' = ReadsAfter(r, received)
  /\ UNCHANGED <<set_up, byWifi, data, success, seen, calm>>

Answer(r) ==
  /\ pc = r
  /\ r # Last
  /\ \E v \in Value \cup {NoValue} :
       Proceed(r, [t \in Tracked |-> IF t = r THEN [value |-> v, available |-> TRUE]
                                              ELSE got[t]])
  /\ UNCHANGED failed

(* The last answer is recent enough.                                       *)
Skip(r) ==
  /\ pc = r
  /\ r \in Cached
  /\ Proceed(r, got)
  /\ UNCHANGED failed

(* Wrong: a failure leaves the table as it is, whatever its kind.          *)
KeptAfterFailure(r) == got

AfterFailure(r) ==
  [t \in Tracked |->
     IF t # r \/ r \notin Marked \cup Emptied THEN got[t]
     ELSE [value |-> IF r \in Emptied THEN NoValue ELSE got[t].value,
           available |-> FALSE]]

(* A failure the handler of r catches: the poll goes on.                   *)
Caught(r) ==
  /\ pc = r
  /\ ~calm
  /\ r \notin Fatal
  /\ failed' = failed \cup ({r} \cap Tracked)
  /\ Proceed(r, AfterFailure(r))

-----------------------------------------------------------------------------
(* Wrong: the listeners are told of new data only.                         *)
TellIfNewData(newData, turned, view) == seen' = IF newData THEN view ELSE seen

(* async_update_listeners: when the data is new, or the outcome is another *)
(* than that of the last poll.                                             *)
Tell(newData, turned, view) ==
  seen' = IF newData \/ turned THEN view ELSE seen

(* The last answer: the data is complete and published.                    *)
Publish(received) ==
  /\ pc' = "idle"
  /\ got' = received
  /\ data' = received
  /\ reads' = Overlay(reads, received, ReadFromData)
  /\ success' = TRUE /\ byWifi' = FALSE
  /\ set_up' = TRUE
  /\ Tell(data' # data \/ ~set_up, ~success, Shown(reads', TRUE))
  /\ UNCHANGED <<failed, calm>>

Succeed ==
  /\ pc = Last
  /\ \E v \in Value \cup {NoValue} :
       Publish([t \in Tracked |-> IF t = Last THEN [value |-> v, available |-> TRUE]
                                              ELSE got[t]])

(* A failure nobody catches ends the poll; what entities read may already  *)
(* be of this poll.  Before the entry is set up, the coordinator is thrown *)
(* away and the setup is retried with another one.                         *)
Fail(r) ==
  /\ pc = r
  /\ ~calm
  /\ r \notin CatchesTypeError
  /\ pc' = "idle"
  /\ failed' = failed \cup ({r} \cap Tracked)
  /\ success' = ~set_up /\ byWifi' = (set_up /\ r \in Wifi)
  /\ got' = IF set_up THEN got ELSE Empty
  /\ reads' = IF set_up THEN reads ELSE Empty
  /\ Tell(FALSE, success /\ set_up, Shown(reads, FALSE))
  /\ UNCHANGED <<set_up, data, calm>>

Next ==
  \/ CalmDown
  \/ StartPoll
  \/ \E r \in Request : Answer(r) \/ Skip(r) \/ Caught(r) \/ Fail(r)
  \/ Succeed

Spec == Init /\ [][Next]_vars

(* The event loop starts the next poll, and every request ends: with an    *)
(* answer, an error or a time-out.                                         *)
FairSpec ==
  /\ Spec
  /\ WF_vars(StartPoll)
  /\ WF_vars(\E r \in Request : Answer(r) \/ Skip(r) \/ Caught(r) \/ Fail(r))
  /\ WF_vars(Succeed)

-----------------------------------------------------------------------------
TypeOK ==
  /\ set_up \in BOOLEAN
  /\ pc \in Request \cup {"idle"}
  /\ failed \subseteq Tracked
  /\ byWifi \in BOOLEAN
  /\ got \in [Tracked -> Content]
  /\ reads \in [Tracked -> Content]
  /\ data \in [Tracked -> Content]
  /\ seen \in [ok : BOOLEAN, tables : [Tracked -> Content]]
  /\ success \in BOOLEAN
  /\ calm \in BOOLEAN

(* Between polls, unless the last one failed, what entities read through   *)
(* the indexes, the coordinator's fields and the published data is of one  *)
(* and the same poll, also after polls that failed half-way.               *)
OnePicture ==
  pc = "idle" /\ success => reads = data /\ got = data

(* Between polls the entities have been told of all that they would show   *)
(* now, although they are only told when the published data or the outcome *)
(* differs, and some tables change without being published, in polls that  *)
(* fail.                                                                   *)
ListenersTold ==
  pc = "idle" => seen = Shown(reads, success)

(* A table that is not meant to be retained is only shown as available     *)
(* when the last poll has received it or found it recent enough.           *)
AvailableIsCurrent ==
  pc = "idle" /\ success =>
    \A t \in Tracked \cap (Marked \cup Emptied) : t \in failed => ~reads[t].available

(* Whatever failed and wherever polls were cut off, once the FortiGate     *)
(* answers again all is published, and it stays so.                        *)
Recovers == calm ~> [](set_up /\ success /\ (pc = "idle" => seen.tables = data))

(* CHANGELOG.md: "Wi-Fi response failures no longer make VDOMs and         *)
(* unrelated data unavailable."  Every entity is unavailable after a poll  *)
(* that failed.                                                            *)
WifiFailuresAreIsolated ==
  ~success => ~byWifi

-----------------------------------------------------------------------------
(* Whoever looks at the entities cannot tell that a poll is a sequence of  *)
(* requests whose answers are read at three different moments, nor that    *)
(* the listeners are not told of every poll (_async_update_data and Home   *)
(* Assistant's coordinator): a poll implements Snapshot.                   *)
Promise ==
  INSTANCE Snapshot WITH
    Tables   <- Tracked,
    received <- got,
    ready    <- set_up,
    ok       <- success,
    shown    <- seen

ImplementsSnapshot == Promise!Spec
=============================================================================
