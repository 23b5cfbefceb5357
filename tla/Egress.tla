------------------------------- MODULE Egress -------------------------------
(***************************************************************************)
(* Recording outbound HTTP calls (egress/interceptor.py): the patched send *)
(* of a client, record_egress with its re-entry flag, the upsert of the    *)
(* ExternalService row, and the calls that signal receivers make from      *)
(* inside a recording.                                                     *)
(*                                                                         *)
(* A thread has a call of the application (level 1) and, while that call   *)
(* is being recorded, perhaps one of a receiver (level 2).  A deeper one   *)
(* would take a recording on level 2, which SendsRecordedOnce excludes.  All   *)
(* calls are of one tenant, and in its context; a call is exempt that      *)
(* record_egress turns down at once: marked internal, without a tenant or  *)
(* without a host.                                                         *)
(***************************************************************************)
EXTENDS Transports, SinkResolver

CONSTANTS
  Threads,
  Hosts,             \* where calls go, as sequences of labels
  Payloads,          \* kinds of body a call has
  TenantOverrides,   \* the SinkCatalogOverride rows an operator may create
  SettingsOverrides, \* SINK_OVERRIDES
  Classes,           \* [category, trust, accepts] a service may have
  Absent,            \* no row
  MaxCalls, MaxTime, MaxRepatches, MaxEdits   \* bounds

ASSUME EgressAssumption ==
  /\ Clients # {} /\ Hosts # {} /\ Payloads # {} /\ Classes # {}
  /\ Absent \notin Classes \cup [class : Classes, first : Nat, last : Nat]
                            \cup [host : Hosts, row : [class : Classes, first : Nat, last : Nat]]
  /\ MaxCalls \in Nat /\ MaxTime \in Nat /\ MaxRepatches \in Nat /\ MaxEdits \in Nat

ASSUME LabelsAssumption ==
  Hosts \cup DOMAIN TenantOverrides \cup DOMAIN SettingsOverrides \subseteq Seq(STRING)

\* The catalog of the tenant's rows with these keys.
TenantCatalog(keys) == [key \in keys |-> OverrideEntry(TenantOverrides[key])]

\* Whatever the catalogs make of a host is a class.
ASSUME CatalogAssumption ==
  \A h \in Hosts, keys \in SUBSET DOMAIN TenantOverrides :
    ResolveSink(h, TenantCatalog(keys), SettingsOverrides) \in Classes

VARIABLES
  services,   \* the ExternalService row of each host
  overrides,  \* keys of the SinkCatalogOverride rows that exist
  frame,      \* frame[t][level]: a call of thread t
  reentry,    \* the re-entry flag of each thread's context
  form,       \* the admin page of one service, as it was loaded
  clock,
  calls, repatches, edits,
  \* History.
  finished,   \* what became of each call
  touched,    \* [host, now, at]: a recording that took the time now wrote at at
  edited,     \* the class an operator last saved for a host
  basis,      \* the overrides that existed when a host's class was resolved
  blinded     \* hosts classified while the query for the overrides failed

recording == <<services, frame, reentry>>
bounds == <<calls, repatches, edits>>
history == <<finished, touched, edited, basis, blinded>>
vars == <<transports, recording, overrides, form, clock, bounds, history>>

-----------------------------------------------------------------------------
\* The steps of a recording, in which the re-entry flag is set.
Inside == {"lookup", "insert", "touch", "scan", "notify"}

Frames == [at : {"idle", "send", "record"} \cup Inside, client : Clients, host : Hosts,
           payload : Payloads, exempt : BOOLEAN, layers : Nat, now : Nat, class : Classes,
           \* History: the overrides that existed, whether their query failed, the
           \* adapter's flag and crossing at the call, and what happened.
           basis : SUBSET DOMAIN TenantOverrides, blind : BOOLEAN, installed : BOOLEAN, crossed : BOOLEAN,
           sent : BOOLEAN, touches : Nat, scans : Nat, failed : BOOLEAN]

Idle == [at |-> "idle", client |-> CHOOSE c \in Clients : TRUE,
         host |-> CHOOSE h \in Hosts : TRUE, payload |-> CHOOSE p \in Payloads : TRUE,
         exempt |-> FALSE, layers |-> 0, now |-> 0, class |-> CHOOSE x \in Classes : TRUE,
         basis |-> {}, blind |-> FALSE, installed |-> FALSE, crossed |-> FALSE, sent |-> FALSE,
         touches |-> 0, scans |-> 0, failed |-> FALSE]

Services == [class : Classes, first : Nat, last : Nat]
Results == [level : 1..2, payload : Payloads, exempt : BOOLEAN, installed : BOOLEAN,
            crossed : BOOLEAN, sent : BOOLEAN, touches : Nat, scans : Nat, failed : BOOLEAN]

TypeOK ==
  /\ TransportsTypeOK
  /\ services \in [Hosts -> Services \cup {Absent}]
  /\ overrides \subseteq DOMAIN TenantOverrides
  /\ frame \in [Threads -> [1..2 -> Frames]]
  /\ reentry \in [Threads -> BOOLEAN]
  /\ form \in [host : Hosts, row : Services] \cup {Absent}
  /\ clock \in Nat /\ calls \in Nat /\ repatches \in Nat /\ edits \in Nat
  /\ finished \subseteq Results
  /\ touched \subseteq [host : Hosts, now : Nat, at : Nat]
  /\ edited \in [Hosts -> Classes \cup {Absent}]
  /\ basis \in [Hosts -> SUBSET DOMAIN TenantOverrides]
  /\ blinded \subseteq Hosts

Init ==
  /\ TransportsInit
  /\ services = [h \in Hosts |-> Absent]
  /\ overrides \in SUBSET DOMAIN TenantOverrides
  /\ frame = [t \in Threads |-> [level \in 1..2 |-> Idle]]
  /\ reentry = [t \in Threads |-> FALSE]
  /\ form = Absent
  /\ clock = 0 /\ calls = 0 /\ repatches = 0 /\ edits = 0
  /\ finished = {}
  /\ touched = {}
  /\ edited = [h \in Hosts |-> Absent]
  /\ basis = [h \in Hosts |-> {}]
  /\ blinded = {}

-----------------------------------------------------------------------------
\* What each adapter hands to the scanner.  requests and httpx encode a body when
\* the request is prepared; aiohttp's arguments are encoded by the adapter.  A
\* stream, a file and multipart data are not materialised, a bytearray only by
\* aiohttp's adapter; a JSON body that cannot be encoded, form fields in a list of
\* pairs and a payload object that raises are "none" as well.
BodyOf(client, payload) ==
  IF payload \in {"bytes", "str", "json", "form", "large"} THEN payload
  ELSE IF payload = "bytearray" /\ client = "aiohttp" THEN "bytes"
  ELSE "none"

\* _normalize_body: None above MAX_BODY_SIZE.
Scanned(client, payload) == BodyOf(client, payload) \notin {"none", "large"}

At(t, level, step) == frame[t][level].at = step
Busy(t, level) == frame[t][level].at # "idle"
Top(t, level) == Busy(t, level) /\ (level = 1 => ~Busy(t, 2))

\* What is remembered of a call.
Result(f, level) ==
  [level |-> level, payload |-> f.payload, exempt |-> f.exempt, installed |-> f.installed,
   crossed |-> f.crossed, sent |-> f.sent, touches |-> f.touches, scans |-> f.scans,
   failed |-> f.failed]

\* Mutant: one recording too many.
ReturnOnceMore(t, level, f) ==
  IF f.layers >= 0
  THEN /\ frame' = [frame EXCEPT ![t][level] = [f EXCEPT !.at = "record", !.layers = @ - 1]]
       /\ UNCHANGED finished
  ELSE /\ frame' = [frame EXCEPT ![t][level] = Idle]
       /\ finished' = finished \cup {Result(f, level)}

\* A wrapper has done its part: the next one records, or the call returns.
Return(t, level, f) ==
  IF f.layers > 0
  THEN /\ frame' = [frame EXCEPT ![t][level] = [f EXCEPT !.at = "record", !.layers = @ - 1]]
       /\ UNCHANGED finished
  ELSE /\ frame' = [frame EXCEPT ![t][level] = Idle]
       /\ finished' = finished \cup {Result(f, level)}

\* The application, or a receiver of the signals of a recording, makes a call.
Call(t, level) ==
  /\ ~Busy(t, level)
  /\ level = 2 => At(t, 1, "notify")
  /\ level = 1 => ~Busy(t, 2)
  /\ calls < MaxCalls
  /\ calls' = calls + 1
  /\ \E c \in Importable, h \in Hosts, p \in Payloads, e \in BOOLEAN :
       frame' = [frame EXCEPT ![t][level] =
                   [Idle EXCEPT !.at = "send", !.client = c, !.host = h, !.payload = p,
                                !.exempt = e, !.layers = Count("ours", method[c]),
                                !.installed = installed[c], !.crossed = c \in crossed]]
  /\ UNCHANGED <<transports, services, reentry, overrides, form, clock, repatches, edits, history>>

\* The wrapped methods run first.
Sent(t, level) ==
  /\ At(t, level, "send")
  /\ Return(t, level, [frame[t][level] EXCEPT !.sent = TRUE])
  /\ UNCHANGED <<transports, services, reentry, overrides, form, clock, bounds, touched, edited, basis, blinded>>

\* The send raises, perhaps after the data left: nothing is recorded.
SendRaises(t, level) ==
  /\ At(t, level, "send")
  /\ Return(t, level, [frame[t][level] EXCEPT !.layers = 0])
  /\ UNCHANGED <<transports, services, reentry, overrides, form, clock, bounds, touched, edited, basis, blinded>>

TurnedDown(t, level) == reentry[t] \/ frame[t][level].exempt

\* record_egress returns early.
TurnDown(t, level) ==
  /\ At(t, level, "record") /\ TurnedDown(t, level)
  /\ Return(t, level, frame[t][level])
  /\ UNCHANGED <<transports, services, reentry, overrides, form, clock, bounds, touched, edited, basis, blinded>>

\* The override rows the resolver sees: none when its query fails, an error that
\* _tenant_overrides swallows.
RowsRead(keys, blind) == IF blind THEN {} ELSE keys

\* The call, its time taken and its sink resolved.
Classified(f, blind) ==
  [f EXCEPT !.at = "lookup", !.now = clock, !.basis = overrides, !.blind = blind,
            !.class = ResolveSink(f.host, TenantCatalog(RowsRead(overrides, blind)),
                                  SettingsOverrides)]

\* Mutant: the recording is not marked.
EnterUnmarked(t, level) ==
  /\ At(t, level, "record") /\ ~TurnedDown(t, level)
  /\ \E blind \in {b \in BOOLEAN : b => overrides # {}} :
       frame' = [frame EXCEPT ![t][level] = Classified(frame[t][level], blind)]
  /\ UNCHANGED <<transports, services, reentry, overrides, form, clock, bounds, history>>

\* The time is taken, the re-entry flag set, and the sink resolved.  (That the query
\* fails makes no difference when there are no rows.)
Enter(t, level) ==
  /\ At(t, level, "record") /\ ~TurnedDown(t, level)
  /\ reentry' = [reentry EXCEPT ![t] = TRUE]
  /\ \E blind \in {b \in BOOLEAN : b => overrides # {}} :
       frame' = [frame EXCEPT ![t][level] = Classified(frame[t][level], blind)]
  /\ UNCHANGED <<transports, services, overrides, form, clock, bounds, history>>

\* The SELECT of get_or_create.
Lookup(t, level) ==
  /\ At(t, level, "lookup")
  /\ frame' = [frame EXCEPT ![t][level].at =
                 IF services[frame[t][level].host] = Absent THEN "insert" ELSE "touch"]
  /\ UNCHANGED <<transports, services, reentry, overrides, form, clock, bounds, history>>

\* The row is written: the recording goes on to the body.
Touched(t, level) ==
  LET f == frame[t][level]
  IN  /\ touched' = touched \cup {[host |-> f.host, now |-> f.now, at |-> clock]}
      /\ frame' = [frame EXCEPT ![t][level] = [f EXCEPT !.at = "scan", !.touches = @ + 1]]

\* Its INSERT, or, when another thread has inserted the host in the meantime, its
\* second SELECT.
Insert(t, level) ==
  LET f == frame[t][level]
  IN  /\ At(t, level, "insert")
      /\ IF services[f.host] = Absent
         THEN /\ services' = [services EXCEPT ![f.host] =
                                [class |-> f.class, first |-> f.now, last |-> f.now]]
              /\ basis' = [basis EXCEPT ![f.host] = f.basis]
              /\ blinded' = IF f.blind THEN blinded \cup {f.host} ELSE blinded \ {f.host}
              /\ Touched(t, level)
         ELSE /\ frame' = [frame EXCEPT ![t][level].at = "touch"]
              /\ UNCHANGED <<services, touched, basis, blinded>>
      /\ UNCHANGED <<transports, reentry, overrides, form, clock, bounds, finished, edited>>

\* Mutant: update_or_create with the same defaults.
TouchDefaults(t, level) ==
  LET f == frame[t][level]
  IN  /\ At(t, level, "touch")
      /\ services' = [services EXCEPT ![f.host].last = f.now, ![f.host].class = f.class]
      /\ Touched(t, level)
      /\ UNCHANGED <<transports, reentry, overrides, form, clock, bounds, finished, edited, basis, blinded>>

\* Mutant: only a service that was created is given its time.
TouchForgotten(t, level) ==
  /\ At(t, level, "touch")
  /\ Touched(t, level)
  /\ UNCHANGED <<transports, services, reentry, overrides, form, clock, bounds, finished, edited, basis, blinded>>

\* UPDATE ... SET last_seen_at.
Touch(t, level) ==
  LET f == frame[t][level]
  IN  /\ At(t, level, "touch")
      /\ services' = [services EXCEPT ![f.host].last = f.now]
      /\ Touched(t, level)
      /\ UNCHANGED <<transports, reentry, overrides, form, clock, bounds, finished, edited, basis, blinded>>

\* The flag is reset to what it was: it was not set when the recording began.
Leave(t, level, f) ==
  /\ reentry' = [reentry EXCEPT ![t] = FALSE]
  /\ Return(t, level, f)

\* The body is handed to the pipeline, which persists and sends its signals, or
\* the recording ends.
Scan(t, level) ==
  LET f == frame[t][level]
  IN  /\ At(t, level, "scan")
      /\ IF Scanned(f.client, f.payload)
         THEN /\ frame' = [frame EXCEPT ![t][level] = [f EXCEPT !.at = "notify", !.scans = @ + 1]]
              /\ UNCHANGED <<reentry, finished>>
         ELSE Leave(t, level, f)
      /\ UNCHANGED <<transports, services, overrides, form, clock, bounds, touched, edited, basis, blinded>>

Done(t, level) ==
  /\ At(t, level, "notify") /\ Top(t, level)
  /\ Leave(t, level, frame[t][level])
  /\ UNCHANGED <<transports, services, overrides, form, clock, bounds, touched, edited, basis, blinded>>

\* A statement, the pipeline or a receiver raises: the wrapper logs it.
Fails(t, level) ==
  /\ frame[t][level].at \in Inside /\ Top(t, level)
  /\ Leave(t, level, [frame[t][level] EXCEPT !.failed = TRUE])
  /\ UNCHANGED <<transports, services, overrides, form, clock, bounds, touched, edited, basis, blinded>>

-----------------------------------------------------------------------------
\* The admin page of a service carries every field of the row and saves them all,
\* the classification as edited and the times as they were loaded.
OpenForm(h) ==
  /\ form = Absent /\ services[h] # Absent /\ edits < MaxEdits
  /\ form' = [host |-> h, row |-> services[h]]
  /\ edits' = edits + 1
  /\ UNCHANGED <<transports, recording, overrides, clock, calls, repatches, history>>

SaveForm(class) ==
  /\ form # Absent
  /\ services' = [services EXCEPT ![form.host] = [form.row EXCEPT !.class = class]]
  /\ edited' = [edited EXCEPT ![form.host] = class]
  /\ form' = Absent
  /\ UNCHANGED <<transports, frame, reentry, overrides, clock, bounds, finished, touched, basis, blinded>>

EditOverrides(key) ==
  /\ edits < MaxEdits
  /\ edits' = edits + 1
  /\ overrides' = IF key \in overrides THEN overrides \ {key} ELSE overrides \cup {key}
  /\ UNCHANGED <<transports, recording, form, clock, calls, repatches, history>>

Tick ==
  /\ clock < MaxTime
  /\ clock' = clock + 1
  /\ UNCHANGED <<transports, recording, overrides, form, bounds, history>>

RepatchBounded ==
  /\ repatches < MaxRepatches
  /\ repatches' = repatches + 1
  /\ Repatch
  /\ UNCHANGED <<recording, overrides, form, clock, calls, edits, history>>

CallStep(t, level) ==
  \/ Sent(t, level) \/ SendRaises(t, level) \/ TurnDown(t, level) \/ Enter(t, level)
  \/ Lookup(t, level) \/ Insert(t, level) \/ Touch(t, level) \/ Scan(t, level)
  \/ Done(t, level) \/ Fails(t, level)

Next ==
  \/ \E t \in Threads, level \in 1..2 : Call(t, level) \/ CallStep(t, level)
  \/ \E h \in Hosts : OpenForm(h)
  \/ \E class \in Classes : SaveForm(class)
  \/ \E key \in DOMAIN TenantOverrides : EditOverrides(key)
  \/ RepatchBounded
  \/ Tick

Spec == Init /\ [][Next]_vars

-----------------------------------------------------------------------------
\* interceptor.py:88-143, 244-254: as long as no wrapper was taken off by the other
\* side, an outbound call of the application that was sent through an installed
\* adapter touches its service once, not never and not twice, and its body is
\* scanned whichever client sent it; a call that a receiver makes from inside a
\* recording is not recorded, nor is one that raised.
SendsRecordedOnce ==
  \A x \in finished :
    ~x.crossed =>
      LET due == x.level = 1 /\ x.installed /\ x.sent /\ ~x.exempt
      IN  /\ x.failed => due /\ x.touches <= 1
          /\ ~x.failed => x.touches = IF due THEN 1 ELSE 0
          /\ ~x.failed /\ x.payload \in {"bytes", "str", "json", "form"}
               => x.scans = x.touches

\* The catalog entries that cover a host: their layer, length of key and content.
Candidates(host, keys) ==
  LET layers == <<TenantCatalog(keys), SettingsOverrides, BUILTIN_CATALOG>>
  IN  UNION {{<<i, Len(key), layers[i][key]>> : key \in Covering(host, layers[i])} : i \in 1..3}

Outranks(x, y) == x[1] < y[1] \/ (x[1] = y[1] /\ x[2] > y[2])

\* interceptor.py:107-123, sinks.py:181-233, adapters/sinks.py:33-61: a service has
\* the class an operator last saved, which no recording overwrites, or else the
\* class of its first sight: that of a catalog entry no other entry outranks, an
\* operator's own before a setting, a setting before the built-in catalog, and a
\* longer key before a shorter one.  The operator's own are passed over, for good,
\* only when the query for them failed at the first sight itself.
ClassHasOneSource ==
  \A h \in Hosts :
    services[h] # Absent =>
      IF edited[h] # Absent THEN services[h].class = edited[h]
      ELSE LET entries == Candidates(h, RowsRead(basis[h], h \in blinded))
           IN  \/ entries = {} /\ services[h].class = Unknown
               \/ \E x \in entries : /\ \A y \in entries : ~Outranks(y, x)
                                     /\ services[h].class = EntryToInfo(x[3])

\* interceptor.py:107, 123: last_seen_at falls behind a recorded call only by an
\* older call that was still being recorded at that call's time, or by a page of the
\* admin that wrote back what it had loaded.
LastSeenLagsByOverlap ==
  \A x \in touched :
    \/ services[x.host].last >= x.now
    \/ edited[x.host] # Absent
    \/ \E y \in touched : /\ y.host = x.host
                          /\ y.now = services[x.host].last
                          /\ y.now < x.now /\ x.now <= y.at
=============================================================================
