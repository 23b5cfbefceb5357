---------------------------- MODULE EgressProofs ----------------------------
(***************************************************************************)
(* Theorems about the patched clients and the recording of calls, for any  *)
(* clients, threads, hosts and catalogs.                                   *)
(***************************************************************************)
EXTENDS Egress, BasicTheorems, SequenceTheorems

(***************************************************************************)
(* The five ways a client can be wrapped while nobody has taken off more   *)
(* than its own wrapper.                                                   *)
(***************************************************************************)
Plain(c) == ~installed[c] /\ ~instrumented[c] /\ method[c] = <<>>
Ours(c) ==
  installed[c] /\ ~instrumented[c] /\ method[c] = <<"ours">> /\ original[c] = <<>>
Theirs(c) ==
  ~installed[c] /\ instrumented[c] /\ method[c] = <<"other">> /\ saved[c] = <<>>
OursOutside(c) ==
  /\ installed[c] /\ instrumented[c] /\ method[c] = <<"ours", "other">>
  /\ original[c] = <<"other">> /\ saved[c] = <<>>
TheirsOutside(c) ==
  /\ installed[c] /\ instrumented[c] /\ method[c] = <<"other", "ours">>
  /\ original[c] = <<>> /\ saved[c] = <<"ours">>

Wrapped(c) == Plain(c) \/ Ours(c) \/ Theirs(c) \/ OursOutside(c) \/ TheirsOutside(c)

PatchInv == TransportsTypeOK /\ \A c \in Clients \ crossed : Wrapped(c)

LEMMA Wraps ==
  /\ Wrap("ours", <<>>) = <<"ours">>
  /\ Wrap("other", <<>>) = <<"other">>
  /\ Wrap("ours", <<"other">>) = <<"ours", "other">>
  /\ Wrap("other", <<"ours">>) = <<"other", "ours">>
<1>1. \A w \in Wrappers : <<w>> \o <<>> = <<w>>
  BY ConcatEmptySeq, <<>> \in Seq(Wrappers)
<1>2. ASSUME NEW v \in Wrappers, NEW w \in Wrappers PROVE <<v>> \o <<w>> = <<v, w>>
  <2> DEFINE s == <<v>> \o <<w>>
  <2>1. s \in Seq(Wrappers) /\ Len(s) = 2 /\ s[1] = v /\ s[2] = w
    OBVIOUS
  <2> HIDE DEF s
  <2>2. s = <<s[1], s[2]>>
    BY <2>1
  <2> QED  BY <2>1, <2>2 DEF s
<1> QED  BY <1>1, <1>2 DEF Wrap, Wrappers

LEMMA WrapType == ASSUME NEW w \in Wrappers, NEW s \in Seq(Wrappers) PROVE Wrap(w, s) \in Seq(Wrappers)
BY DEF Wrap, Wrappers

LEMMA Counts ==
  /\ Count("ours", <<>>) = 0 /\ Count("other", <<>>) = 0
  /\ Count("ours", <<"ours">>) = 1 /\ Count("other", <<"ours">>) = 0
  /\ Count("ours", <<"other">>) = 0 /\ Count("other", <<"other">>) = 1
  /\ Count("ours", <<"ours", "other">>) = 1 /\ Count("other", <<"ours", "other">>) = 1
  /\ Count("ours", <<"other", "ours">>) = 1 /\ Count("other", <<"other", "ours">>) = 1
<1>0. Cardinality({}) = 0 /\ Cardinality({1}) = 1 /\ Cardinality({2}) = 1
  BY FS_EmptySet, FS_Singleton
<1>1. \A w \in Wrappers : {i \in DOMAIN <<>> : <<>>[i] = w} = {}
  OBVIOUS
<1>2. /\ {i \in DOMAIN <<"ours">> : <<"ours">>[i] = "ours"} = {1}
      /\ {i \in DOMAIN <<"ours">> : <<"ours">>[i] = "other"} = {}
      /\ {i \in DOMAIN <<"other">> : <<"other">>[i] = "ours"} = {}
      /\ {i \in DOMAIN <<"other">> : <<"other">>[i] = "other"} = {1}
  OBVIOUS
<1>3. /\ {i \in DOMAIN <<"ours", "other">> : <<"ours", "other">>[i] = "ours"} = {1}
      /\ {i \in DOMAIN <<"ours", "other">> : <<"ours", "other">>[i] = "other"} = {2}
      /\ {i \in DOMAIN <<"other", "ours">> : <<"other", "ours">>[i] = "ours"} = {2}
      /\ {i \in DOMAIN <<"other", "ours">> : <<"other", "ours">>[i] = "other"} = {1}
  OBVIOUS
<1> QED  BY <1>0, <1>1, <1>2, <1>3 DEF Count, Wrappers

LEMMA PatchesMatch == PatchInv => PatchesMatchFlags
<1> SUFFICES ASSUME PatchInv, NEW c \in Clients \ crossed
             PROVE  /\ Count("ours", method[c]) = IF installed[c] THEN 1 ELSE 0
                    /\ Count("other", method[c]) = IF instrumented[c] THEN 1 ELSE 0
  BY DEF PatchesMatchFlags
<1>1. Wrapped(c)
  BY DEF PatchInv
<1> QED
  BY <1>1, Counts DEF Wrapped, Plain, Ours, Theirs, OursOutside, TheirsOutside

LEMMA PatchInit == TransportsInit => PatchInv
BY ClientsAssumption DEF TransportsInit, PatchInv, TransportsTypeOK, Wrapped, Plain, Wrappers

LEMMA InstallKeeps == ASSUME PatchInv, InstallPatches PROVE PatchInv'
<1> USE DEF PatchInv
<1>1. TransportsTypeOK'
  BY WrapType, ClientsAssumption DEF InstallPatches, TransportsTypeOK, Wrappers
<1>2. ASSUME NEW c \in Clients \ crossed' PROVE Wrapped(c)'
  <2> c \in Clients \ crossed /\ Wrapped(c)
    BY DEF InstallPatches
  <2>1. CASE ~(c \in Importable /\ ~installed[c])
    BY <2>1 DEF InstallPatches, TransportsTypeOK, Wrapped, Plain, Ours, Theirs, OursOutside, TheirsOutside
  <2>2. CASE c \in Importable /\ ~installed[c]
    <3>1. /\ method'[c] = Wrap("ours", method[c]) /\ original'[c] = method[c] /\ installed'[c]
          /\ instrumented' = instrumented /\ saved' = saved
      BY <2>2 DEF InstallPatches, TransportsTypeOK
    <3>2. CASE Plain(c)
      BY <3>1, <3>2, Wraps DEF Plain, Ours, Wrapped
    <3>3. CASE Theirs(c)
      BY <3>1, <3>3, Wraps DEF Theirs, OursOutside, Wrapped
    <3> QED  BY <2>2, <3>2, <3>3 DEF Wrapped, Ours, OursOutside, TheirsOutside
  <2> QED  BY <2>1, <2>2
<1> QED  BY <1>1, <1>2

LEMMA UninstallKeeps == ASSUME PatchInv, UninstallPatches PROVE PatchInv'
<1> USE DEF PatchInv
<1>1. TransportsTypeOK'
  BY DEF UninstallPatches, TransportsTypeOK, Wrappers
<1>2. ASSUME NEW c \in Clients \ crossed' PROVE Wrapped(c)'
  <2> c \in Clients \ crossed /\ Wrapped(c)
    BY DEF UninstallPatches
  <2>1. CASE ~installed[c]
    BY <2>1 DEF UninstallPatches, TransportsTypeOK, Wrapped, Plain, Ours, Theirs, OursOutside, TheirsOutside
  <2>2. CASE installed[c]
    <3>1. /\ method'[c] = original[c] /\ ~installed'[c] /\ method[c] = Wrap("ours", original[c])
          /\ instrumented' = instrumented /\ saved' = saved
      BY <2>2 DEF UninstallPatches, TransportsTypeOK
    <3>2. CASE Ours(c)
      BY <3>1, <3>2 DEF Plain, Ours, Wrapped
    <3>3. CASE OursOutside(c)
      BY <3>1, <3>3 DEF Theirs, OursOutside, Wrapped
    <3>4. ~TheirsOutside(c)
      BY <3>1, Wraps DEF TheirsOutside
    <3> QED  BY <2>2, <3>2, <3>3, <3>4 DEF Wrapped, Plain, Theirs
  <2> QED  BY <2>1, <2>2
<1> QED  BY <1>1, <1>2

LEMMA OtherPatchKeeps == ASSUME PatchInv, NEW o \in Clients, OtherPatch(o) PROVE PatchInv'
<1> USE DEF PatchInv
<1>1. TransportsTypeOK'
  BY WrapType DEF OtherPatch, TransportsTypeOK, Wrappers
<1>2. ASSUME NEW c \in Clients \ crossed' PROVE Wrapped(c)'
  <2> c \in Clients \ crossed /\ Wrapped(c)
    BY DEF OtherPatch
  <2>1. CASE c # o
    BY <2>1 DEF OtherPatch, TransportsTypeOK, Wrapped, Plain, Ours, Theirs, OursOutside, TheirsOutside
  <2>2. CASE c = o
    <3>1. /\ method'[c] = Wrap("other", method[c]) /\ saved'[c] = method[c] /\ instrumented'[c]
          /\ installed' = installed /\ original' = original
      BY <2>2 DEF OtherPatch, TransportsTypeOK
    <3>2. CASE Plain(c)
      BY <3>1, <3>2, Wraps DEF Plain, Theirs, Wrapped
    <3>3. CASE Ours(c)
      BY <3>1, <3>3, Wraps DEF Ours, TheirsOutside, Wrapped
    <3> QED  BY <2>2, <3>2, <3>3 DEF Wrapped, Theirs, OursOutside, TheirsOutside, OtherPatch
  <2> QED  BY <2>1, <2>2
<1> QED  BY <1>1, <1>2

LEMMA OtherRestoreKeeps == ASSUME PatchInv, NEW o \in Clients, OtherRestore(o) PROVE PatchInv'
<1> USE DEF PatchInv
<1>1. TransportsTypeOK'
  BY DEF OtherRestore, TransportsTypeOK, Wrappers
<1>2. ASSUME NEW c \in Clients \ crossed' PROVE Wrapped(c)'
  <2> c \in Clients \ crossed /\ Wrapped(c)
    BY DEF OtherRestore
  <2>1. CASE c # o
    BY <2>1 DEF OtherRestore, TransportsTypeOK, Wrapped, Plain, Ours, Theirs, OursOutside, TheirsOutside
  <2>2. CASE c = o
    <3>1. /\ method'[c] = saved[c] /\ ~instrumented'[c] /\ method[c] = Wrap("other", saved[c])
          /\ installed' = installed /\ original' = original
      BY <2>2 DEF OtherRestore, TransportsTypeOK
    <3>2. CASE Theirs(c)
      BY <3>1, <3>2 DEF Plain, Theirs, Wrapped
    <3>3. CASE TheirsOutside(c)
      BY <3>1, <3>3 DEF Ours, TheirsOutside, Wrapped
    <3>4. ~OursOutside(c)
      BY <3>1, Wraps DEF OursOutside
    <3> QED  BY <2>2, <3>2, <3>3, <3>4 DEF Wrapped, Plain, Ours, OtherRestore
  <2> QED  BY <2>1, <2>2
<1> QED  BY <1>1, <1>2

LEMMA CallStepKeeps ==
  ASSUME NEW t, NEW level, CallStep(t, level) PROVE UNCHANGED transports
<1>1. Sent(t, level) => UNCHANGED transports  BY DEF Sent
<1>2. SendRaises(t, level) => UNCHANGED transports  BY DEF SendRaises
<1>3. TurnDown(t, level) => UNCHANGED transports  BY DEF TurnDown
<1>4. Enter(t, level) => UNCHANGED transports  BY DEF Enter
<1>5. Lookup(t, level) => UNCHANGED transports  BY DEF Lookup
<1>6. Insert(t, level) => UNCHANGED transports  BY DEF Insert
<1>7. Touch(t, level) => UNCHANGED transports  BY DEF Touch
<1>8. Scan(t, level) => UNCHANGED transports  BY DEF Scan
<1>9. Done(t, level) => UNCHANGED transports  BY DEF Done
<1>10. Fails(t, level) => UNCHANGED transports  BY DEF Fails
<1> QED
  BY <1>1, <1>2, <1>3, <1>4, <1>5, <1>6, <1>7, <1>8, <1>9, <1>10 DEF CallStep

LEMMA PatchStep == ASSUME PatchInv, [Next]_vars PROVE PatchInv'
<1>1. CASE UNCHANGED transports
  BY <1>1 DEF transports, PatchInv, TransportsTypeOK, Wrapped, Plain, Ours, Theirs,
              OursOutside, TheirsOutside
<1>2. CASE Repatch
  BY <1>2, InstallKeeps, UninstallKeeps, OtherPatchKeeps, OtherRestoreKeeps DEF Repatch
<1>3. ASSUME NEW t \in Threads, NEW level \in 1..2 PROVE Call(t, level) => UNCHANGED transports
  BY DEF Call
<1>4. ASSUME NEW t \in Threads, NEW level \in 1..2 PROVE CallStep(t, level) => UNCHANGED transports
  BY CallStepKeeps
<1>5. Next => UNCHANGED transports \/ Repatch
  BY <1>3, <1>4 DEF Next, OpenForm, SaveForm, EditOverrides, RepatchBounded, Tick
<1>6. UNCHANGED vars => UNCHANGED transports
  BY DEF vars
<1> QED  BY <1>1, <1>2, <1>5, <1>6

\* interceptor.py:189-203: for any clients and any other library, as long as nobody
\* restores across another's wrapper, a client carries one wrapper of ours exactly
\* when its adapter says so.
THEOREM PatchesHold == Spec => []PatchesMatchFlags
<1>1. Init => PatchInv
  BY PatchInit DEF Init
<1>2. PatchInv /\ [Next]_vars => PatchInv'
  BY PatchStep
<1>3. PatchInv => PatchesMatchFlags
  BY PatchesMatch
<1> QED  BY <1>1, <1>2, <1>3, PTL DEF Spec

-----------------------------------------------------------------------------
LEMMA IdleType == Idle \in Frames
BY EgressAssumption DEF Idle, Frames

LEMMA ResultType ==
  ASSUME NEW f \in Frames, NEW level \in 1..2 PROVE Result(f, level) \in Results
BY DEF Result, Results, Frames

LEMMA FrameType ==
  ASSUME TypeOK, NEW t \in Threads, NEW level \in 1..2
  PROVE  frame[t][level] \in Frames
BY DEF TypeOK

LEMMA ReturnType ==
  ASSUME TypeOK, NEW t \in Threads, NEW level \in 1..2, NEW f \in Frames, Return(t, level, f)
  PROVE  frame' \in [Threads -> [1..2 -> Frames]] /\ finished' \subseteq Results
<1>1. CASE f.layers > 0
  <2>1. [f EXCEPT !.at = "record", !.layers = @ - 1] \in Frames
    <3>1. f.layers - 1 \in Nat
      BY <1>1 DEF Frames
    <3> QED  BY <3>1 DEF Frames
  <2> DEFINE g == [f EXCEPT !.at = "record", !.layers = @ - 1]
  <2>2. frame' = [frame EXCEPT ![t][level] = g] /\ finished' = finished
    BY <1>1 DEF Return
  <2> HIDE DEF g
  <2>3. g \in Frames
    BY <2>1 DEF g
  <2> QED  BY <2>2, <2>3 DEF TypeOK
<1>2. CASE ~(f.layers > 0)
  <2>1. Result(f, level) \in Results /\ Idle \in Frames
    BY IdleType, ResultType
  <2>2. /\ frame' = [frame EXCEPT ![t][level] = Idle]
        /\ finished' = finished \cup {Result(f, level)}
    BY <1>2 DEF Return
  <2> QED  BY <2>1, <2>2 DEF TypeOK
<1> QED  BY <1>1, <1>2

LEMMA ChangeType ==
  ASSUME TypeOK, NEW t \in Threads, NEW level \in 1..2, NEW f \in Frames,
         frame' = [frame EXCEPT ![t][level] = f]
  PROVE  frame' \in [Threads -> [1..2 -> Frames]]
BY DEF TypeOK

\* A frame as Call and as Enter leave it.
LEMMA CalledType ==
  ASSUME TypeOK, NEW c \in Importable, NEW h \in Hosts, NEW p \in Payloads, NEW e \in BOOLEAN
  PROVE  [Idle EXCEPT !.at = "send", !.client = c, !.host = h, !.payload = p,
                      !.exempt = e, !.layers = Count("ours", method[c]),
                      !.installed = installed[c], !.crossed = c \in crossed] \in Frames
<1>1. Count("ours", method[c]) \in Nat
  <2>1. method[c] \in Seq(Wrappers)
    BY ClientsAssumption DEF TypeOK, TransportsTypeOK
  <2>2. IsFiniteSet(DOMAIN method[c])
    <3>1. DOMAIN method[c] = 1..Len(method[c]) /\ Len(method[c]) \in Nat
      BY <2>1
    <3> QED  BY <3>1, FS_Interval
  <2> QED  BY <2>2, FS_Subset, FS_CardinalityType DEF Count
<1>2. c \in Clients /\ installed[c] \in BOOLEAN /\ (c \in crossed) \in BOOLEAN
  BY ClientsAssumption DEF TypeOK, TransportsTypeOK
<1> QED  BY <1>1, <1>2, IdleType DEF Frames

LEMMA EnteredType ==
  ASSUME TypeOK, NEW f \in Frames, NEW blind \in BOOLEAN
  PROVE  Classified(f, blind) \in Frames
<1>1. f.host \in Hosts /\ overrides \in SUBSET DOMAIN TenantOverrides /\ clock \in Nat
  BY DEF Frames, TypeOK
<1>2. RowsRead(overrides, blind) \in SUBSET DOMAIN TenantOverrides
  BY <1>1 DEF RowsRead
<1>3. ResolveSink(f.host, TenantCatalog(RowsRead(overrides, blind)), SettingsOverrides) \in Classes
  BY <1>1, <1>2, CatalogAssumption
<1> QED  BY <1>1, <1>3 DEF Frames, Inside, Classified

\* What Enter leaves as it was, and what it sets.
LEMMA ClassifiedFields ==
  ASSUME TypeOK, NEW f \in Frames, NEW blind \in BOOLEAN, NEW g, g = Classified(f, blind)
  PROVE  /\ g.at = "lookup" /\ g.sent = f.sent /\ g.failed = f.failed /\ g.layers = f.layers
         /\ g.installed = f.installed /\ g.crossed = f.crossed /\ g.exempt = f.exempt
         /\ g.touches = f.touches /\ g.scans = f.scans
         /\ g.now = clock /\ g.host = f.host /\ g.basis = overrides /\ g.blind = blind
         /\ g.class = ResolveSink(f.host, TenantCatalog(RowsRead(overrides, blind)),
                                  SettingsOverrides)
<1> DEFINE class == ResolveSink(f.host, TenantCatalog(RowsRead(overrides, blind)), SettingsOverrides)
<1>1. g = [f EXCEPT !.at = "lookup", !.now = clock, !.basis = overrides, !.blind = blind,
                    !.class = class]
  BY DEF Classified
<1> HIDE DEF class
<1>2. /\ g.at = "lookup" /\ g.sent = f.sent /\ g.failed = f.failed /\ g.layers = f.layers
      /\ g.installed = f.installed /\ g.crossed = f.crossed /\ g.exempt = f.exempt
      /\ g.touches = f.touches /\ g.scans = f.scans
      /\ g.now = clock /\ g.host = f.host /\ g.basis = overrides /\ g.blind = blind
      /\ g.class = class
  BY <1>1 DEF Frames
<1> QED  BY <1>2 DEF class

LEMMA EgressTypeInit == Init => TypeOK
<1> SUFFICES ASSUME Init PROVE TypeOK
  OBVIOUS
<1>1. TransportsTypeOK
  BY PatchInit DEF Init, PatchInv
<1> QED  BY <1>1, IdleType DEF Init, TypeOK, Services

\* A recording goes on to update a service only if there is one.
Known ==
  \A t \in Threads, level \in 1..2 :
    At(t, level, "touch") => services[frame[t][level].host] # Absent

LEMMA CallType == ASSUME TypeOK, Known, NEW t \in Threads, NEW level \in 1..2, CallStep(t, level) \/ Call(t, level)
                  PROVE  TypeOK'
<1>0. TransportsTypeOK'
  <2>1. UNCHANGED transports
    BY DEF Call, CallStep, Sent, SendRaises, TurnDown, Enter, Lookup, Insert, Touch, Scan, Done, Fails
  <2> QED  BY <2>1 DEF TypeOK, TransportsTypeOK, transports
<1> DEFINE f == frame[t][level]
<1> f \in Frames
  BY FrameType
<1>1. CASE Call(t, level)
  <2>1. PICK c \in Importable, h \in Hosts, p \in Payloads, e \in BOOLEAN :
          frame' = [frame EXCEPT ![t][level] =
                   [Idle EXCEPT !.at = "send", !.client = c, !.host = h, !.payload = p,
                                !.exempt = e, !.layers = Count("ours", method[c]),
                                !.installed = installed[c], !.crossed = c \in crossed]]
    BY <1>1 DEF Call
  <2>3. [Idle EXCEPT !.at = "send", !.client = c, !.host = h, !.payload = p,
                     !.exempt = e, !.layers = Count("ours", method[c]),
                     !.installed = installed[c], !.crossed = c \in crossed] \in Frames
    BY CalledType
  <2>4. frame' \in [Threads -> [1..2 -> Frames]]
    BY <2>1, <2>3, ChangeType
  <2>5. /\ UNCHANGED <<services, reentry, overrides, form, clock, repatches, edits,
                       finished, touched, edited, basis, blinded>>
        /\ calls' = calls + 1
    BY <1>1 DEF Call, history
  <2> HIDE DEF f
  <2> QED  BY <1>0, <2>4, <2>5 DEF TypeOK
<1>2. CASE Sent(t, level)
  <2>1. [f EXCEPT !.sent = TRUE] \in Frames
    BY DEF Frames
  <2> QED  BY <1>0, <1>2, <2>1, ReturnType DEF Sent, TypeOK, bounds
<1>3. CASE SendRaises(t, level)
  <2>1. [f EXCEPT !.layers = 0] \in Frames
    BY DEF Frames
  <2> QED  BY <1>0, <1>3, <2>1, ReturnType DEF SendRaises, TypeOK, bounds
<1>4. CASE TurnDown(t, level)
  BY <1>0, <1>4, ReturnType DEF TurnDown, TypeOK, bounds
<1>5. CASE Enter(t, level)
  <2>0. PICK blind \in BOOLEAN : frame' = [frame EXCEPT ![t][level] = Classified(frame[t][level], blind)]
    BY <1>5 DEF Enter
  <2> DEFINE g == Classified(f, blind)
  <2>1. g \in Frames
    BY EnteredType
  <2>2. frame' = [frame EXCEPT ![t][level] = g]
    BY <2>0
  <2>3. frame' \in [Threads -> [1..2 -> Frames]]
    BY <2>1, <2>2, ChangeType
  <2> QED  BY <1>0, <1>5, <2>3 DEF Enter, TypeOK, bounds, history
<1>6. CASE Lookup(t, level)
  <2>1. PICK x \in {"insert", "touch"} : frame' = [frame EXCEPT ![t][level] = [f EXCEPT !.at = x]]
    BY <1>6 DEF Lookup, TypeOK
  <2>2. [f EXCEPT !.at = x] \in Frames
    BY DEF Frames, Inside
  <2>3. frame' \in [Threads -> [1..2 -> Frames]]
    BY <2>1, <2>2, ChangeType
  <2> QED  BY <1>0, <1>6, <2>3 DEF Lookup, TypeOK, bounds, history
<1>7. CASE Insert(t, level) \/ Touch(t, level)
  <2>0. f.touches + 1 \in Nat
    BY DEF Frames
  <2>1. /\ [f EXCEPT !.at = "touch"] \in Frames
        /\ [f EXCEPT !.at = "scan", !.touches = @ + 1] \in Frames
        /\ f.class \in Classes /\ f.now \in Nat /\ f.host \in Hosts
        /\ f.basis \in SUBSET DOMAIN TenantOverrides
    BY <2>0 DEF Frames, Inside
  <2>2. Touched(t, level) => /\ frame' \in [Threads -> [1..2 -> Frames]]
                             /\ touched' \subseteq [host : Hosts, now : Nat, at : Nat]
    BY <2>1, ChangeType DEF Touched, TypeOK
  <2>3. CASE Insert(t, level)
    <3>1. CASE services[f.host] = Absent
      <4>1. /\ services' \in [Hosts -> Services \cup {Absent}]
            /\ basis' \in [Hosts -> SUBSET DOMAIN TenantOverrides] /\ blinded' \subseteq Hosts
        BY <2>1, <2>3, <3>1 DEF Insert, TypeOK, Services
      <4> QED  BY <1>0, <2>2, <2>3, <3>1, <4>1 DEF Insert, TypeOK, bounds
    <3>2. CASE services[f.host] # Absent
      <4>1. frame' \in [Threads -> [1..2 -> Frames]]
        BY <2>1, <2>3, <3>2, ChangeType DEF Insert, TypeOK
      <4> QED  BY <1>0, <2>3, <3>2, <4>1 DEF Insert, TypeOK, bounds
    <3> QED  BY <3>1, <3>2
  <2>4. CASE Touch(t, level)
    <3>1. services' \in [Hosts -> Services \cup {Absent}]
      <4>1. services[f.host] \in Services
        BY <2>1, <2>4 DEF Touch, At, Known, TypeOK
      <4>2. [services[f.host] EXCEPT !.last = f.now] \in Services
        BY <2>1, <4>1 DEF Services
      <4> QED  BY <2>4, <4>2 DEF Touch, TypeOK
    <3> QED  BY <1>0, <2>2, <2>4, <3>1 DEF Touch, TypeOK, bounds
  <2> QED  BY <1>7, <2>3, <2>4
<1>8. CASE Scan(t, level)
  <2>1. CASE Scanned(f.client, f.payload)
    <3>0. f.scans + 1 \in Nat
      BY DEF Frames
    <3>1. [f EXCEPT !.at = "notify", !.scans = @ + 1] \in Frames
      BY <3>0 DEF Frames, Inside
    <3>2. frame' \in [Threads -> [1..2 -> Frames]]
      BY <1>8, <2>1, <3>1, ChangeType DEF Scan
    <3> QED  BY <1>0, <1>8, <2>1, <3>2 DEF Scan, TypeOK, bounds
  <2>2. CASE ~Scanned(f.client, f.payload)
    BY <1>0, <1>8, <2>2, ReturnType DEF Scan, Leave, TypeOK, bounds
  <2> QED  BY <2>1, <2>2
<1>9. CASE Done(t, level)
  BY <1>0, <1>9, ReturnType DEF Done, Leave, TypeOK, bounds
<1>10. CASE Fails(t, level)
  <2>1. [f EXCEPT !.failed = TRUE] \in Frames
    BY DEF Frames
  <2> QED  BY <1>0, <1>10, <2>1, ReturnType DEF Fails, Leave, TypeOK, bounds
<1> QED
  BY <1>1, <1>2, <1>3, <1>4, <1>5, <1>6, <1>7, <1>8, <1>9, <1>10 DEF CallStep

EgressInv == PatchInv /\ TypeOK /\ Known

LEMMA TypeStep == ASSUME EgressInv, [Next]_vars PROVE PatchInv' /\ TypeOK'
<1> USE DEF EgressInv
<1>0. PatchInv'
  BY PatchStep
<1>1. ASSUME NEW t \in Threads, NEW level \in 1..2, CallStep(t, level) \/ Call(t, level) PROVE TypeOK'
  BY <1>1, CallType
<1>2. ASSUME NEW h \in Hosts, OpenForm(h) PROVE TypeOK'
  BY <1>0, <1>2 DEF OpenForm, TypeOK, PatchInv, recording, history
<1>3. ASSUME NEW class \in Classes, SaveForm(class) PROVE TypeOK'
  <2>1. form \in [host : Hosts, row : Services]
    BY <1>3 DEF SaveForm, TypeOK
  <2>2. [form.row EXCEPT !.class = class] \in Services
    BY <2>1 DEF Services
  <2> QED  BY <1>0, <1>3, <2>1, <2>2 DEF SaveForm, TypeOK, PatchInv, bounds
<1>4. ASSUME NEW key \in DOMAIN TenantOverrides, EditOverrides(key) PROVE TypeOK'
  BY <1>0, <1>4 DEF EditOverrides, TypeOK, PatchInv, recording, history
<1>5. ASSUME RepatchBounded PROVE TypeOK'
  BY <1>0, <1>5 DEF RepatchBounded, TypeOK, PatchInv, recording, history
<1>6. ASSUME Tick PROVE TypeOK'
  BY <1>0, <1>6 DEF Tick, TypeOK, PatchInv, recording, history, bounds
<1>7. ASSUME UNCHANGED vars PROVE TypeOK'
  BY <1>0, <1>7 DEF vars, TypeOK, PatchInv, recording, history, bounds
<1> QED  BY <1>0, <1>1, <1>2, <1>3, <1>4, <1>5, <1>6, <1>7 DEF Next

\* No row is ever deleted.
LEMMA ServicesStay ==
  ASSUME EgressInv, [Next]_vars, NEW h \in Hosts, services[h] # Absent PROVE services'[h] # Absent
<1> USE DEF EgressInv
<1>0. TypeOK' /\ services[h] \in Services /\ Absent \notin Services
  BY TypeStep, EgressAssumption DEF TypeOK, Services
<1>1. ASSUME NEW t \in Threads, NEW level \in 1..2, CallStep(t, level) \/ Call(t, level)
      PROVE  services'[h] # Absent
  <2>1. CASE UNCHANGED services
    BY <2>1
  <2> DEFINE f == frame[t][level]
  <2>2. f.host \in Hosts /\ f.now \in Nat /\ f.class \in Classes
    BY FrameType DEF Frames
  <2>3. CASE Insert(t, level)
    BY <1>0, <2>1, <2>3 DEF Insert, TypeOK
  <2>4. CASE Touch(t, level)
    <3>1. CASE h = f.host
      <4>1. services'[h] = [services[h] EXCEPT !.last = f.now]
        BY <2>4, <3>1 DEF Touch, TypeOK
      <4>2. services'[h] \in Services
        BY <1>0, <2>2, <4>1 DEF Services
      <4> QED  BY <1>0, <4>2
    <3>2. CASE h # f.host
      BY <2>2, <2>4, <3>2 DEF Touch, TypeOK
    <3> QED  BY <3>1, <3>2
  <2> QED
    BY <1>1, <2>1, <2>3, <2>4
       DEF Call, CallStep, Sent, SendRaises, TurnDown, Enter, Lookup, Scan, Done, Fails
<1>2. ASSUME NEW class \in Classes, SaveForm(class) PROVE services'[h] # Absent
  <2>1. form \in [host : Hosts, row : Services]
    BY <1>2 DEF SaveForm, TypeOK
  <2>2. [form.row EXCEPT !.class = class] \in Services
    BY <2>1 DEF Services
  <2> QED  BY <1>0, <1>2, <2>1, <2>2 DEF SaveForm, TypeOK
<1> QED
  BY <1>1, <1>2 DEF Next, vars, OpenForm, EditOverrides, RepatchBounded, Tick, recording

\* A step of a call changes its own frame.
OneFrame(t, level) ==
  /\ frame' \in [Threads -> [1..2 -> Frames]]
  /\ \A u \in Threads, l \in 1..2 : ~(u = t /\ l = level) => frame'[u][l] = frame[u][l]

LEMMA ExceptOne ==
  ASSUME TypeOK, NEW t \in Threads, NEW level \in 1..2, NEW f \in Frames,
         frame' = [frame EXCEPT ![t][level] = f]
  PROVE  OneFrame(t, level) /\ frame'[t][level] = f
BY ChangeType DEF OneFrame, TypeOK

\* After Return, the frame records once more or is idle.
LEMMA ReturnOne ==
  ASSUME TypeOK, NEW t \in Threads, NEW level \in 1..2, NEW f \in Frames, Return(t, level, f)
  PROVE  /\ OneFrame(t, level)
         /\ \/ /\ f.layers > 0
               /\ frame'[t][level] = [f EXCEPT !.at = "record", !.layers = @ - 1]
               /\ finished' = finished
            \/ /\ ~(f.layers > 0)
               /\ frame'[t][level] = Idle
               /\ finished' = finished \cup {Result(f, level)}
<1>1. CASE f.layers > 0
  <2>1. [f EXCEPT !.at = "record", !.layers = @ - 1] \in Frames
    <3>1. f.layers - 1 \in Nat
      BY <1>1 DEF Frames
    <3> QED  BY <3>1 DEF Frames
  <2> QED  BY <1>1, <2>1, ExceptOne DEF Return
<1>2. CASE ~(f.layers > 0)
  BY <1>2, IdleType, ExceptOne DEF Return
<1> QED  BY <1>1, <1>2

LEMMA ReturnAt ==
  ASSUME TypeOK, NEW t \in Threads, NEW level \in 1..2, NEW f \in Frames, Return(t, level, f)
  PROVE  OneFrame(t, level) /\ frame'[t][level].at \in {"record", "idle"}
<1>1. Idle.at = "idle"
  BY DEF Idle
<1>2. [f EXCEPT !.at = "record", !.layers = @ - 1].at = "record"
  BY DEF Frames
<1> QED  BY <1>1, <1>2, ReturnOne

\* A call begins.
LEMMA CallOne ==
  ASSUME TypeOK, NEW t \in Threads, NEW level \in 1..2, Call(t, level)
  PROVE  /\ OneFrame(t, level)
         /\ frame'[t][level].at = "send"
         /\ frame'[t][level].sent = FALSE /\ frame'[t][level].failed = FALSE
         /\ frame'[t][level].touches = 0 /\ frame'[t][level].scans = 0
         /\ \E c \in Importable : /\ frame'[t][level].layers = Count("ours", method[c])
                                  /\ frame'[t][level].installed = installed[c]
                                  /\ frame'[t][level].crossed = (c \in crossed)
<1>1. PICK c \in Importable, h \in Hosts, p \in Payloads, e \in BOOLEAN :
        frame' = [frame EXCEPT ![t][level] =
                 [Idle EXCEPT !.at = "send", !.client = c, !.host = h, !.payload = p,
                              !.exempt = e, !.layers = Count("ours", method[c]),
                              !.installed = installed[c], !.crossed = c \in crossed]]
  BY DEF Call
<1> DEFINE n == Count("ours", method[c])
           i == installed[c]
           x == c \in crossed
           g == [Idle EXCEPT !.at = "send", !.client = c, !.host = h, !.payload = p,
                             !.exempt = e, !.layers = n, !.installed = i, !.crossed = x]
<1>2. g \in Frames
  BY CalledType
<1>3. frame' = [frame EXCEPT ![t][level] = g]
  BY <1>1
<1> HIDE DEF n, i, x
<1>4. /\ g.at = "send" /\ g.layers = n /\ g.installed = i /\ g.crossed = x
      /\ g.sent = FALSE /\ g.touches = 0 /\ g.scans = 0 /\ g.failed = FALSE
  BY DEF Idle
<1> HIDE DEF g
<1>5. OneFrame(t, level) /\ frame'[t][level] = g
  BY <1>2, <1>3, ExceptOne
<1> QED  BY <1>4, <1>5 DEF n, i, x

\* What a step of a call leaves in its frame.
LEMMA StepOne ==
  ASSUME TypeOK, NEW t \in Threads, NEW level \in 1..2
  PROVE  LET f == frame[t][level]
             g == frame'[t][level]
         IN  /\ f \in Frames
             /\ Call(t, level) => OneFrame(t, level) /\ g.at = "send"
             /\ Sent(t, level) => OneFrame(t, level) /\ g.at \in {"record", "idle"}
             /\ SendRaises(t, level) => OneFrame(t, level) /\ g.at \in {"record", "idle"}
             /\ TurnDown(t, level) => OneFrame(t, level) /\ g.at \in {"record", "idle"}
             /\ Enter(t, level) => OneFrame(t, level) /\ g.at = "lookup"
             /\ Lookup(t, level) =>
                  /\ OneFrame(t, level)
                  /\ g = [f EXCEPT !.at = IF services[f.host] = Absent THEN "insert" ELSE "touch"]
             /\ Insert(t, level) =>
                  /\ OneFrame(t, level)
                  /\ g = IF services[f.host] = Absent THEN [f EXCEPT !.at = "scan", !.touches = @ + 1]
                         ELSE [f EXCEPT !.at = "touch"]
             /\ Touch(t, level) =>
                  OneFrame(t, level) /\ g = [f EXCEPT !.at = "scan", !.touches = @ + 1]
             /\ Scan(t, level) => OneFrame(t, level) /\ g.at \in {"notify", "record", "idle"}
             /\ Done(t, level) => OneFrame(t, level) /\ g.at \in {"record", "idle"}
             /\ Fails(t, level) => OneFrame(t, level) /\ g.at \in {"record", "idle"}
<1> DEFINE f == frame[t][level]
<1>0. f \in Frames /\ f.touches + 1 \in Nat /\ f.scans + 1 \in Nat
  BY FrameType DEF Frames
<1>a. /\ [f EXCEPT !.sent = TRUE] \in Frames
      /\ [f EXCEPT !.layers = 0] \in Frames
      /\ [f EXCEPT !.at = "insert"] \in Frames
      /\ [f EXCEPT !.at = "touch"] \in Frames
      /\ [f EXCEPT !.at = "scan", !.touches = @ + 1] \in Frames
      /\ [f EXCEPT !.at = "notify", !.scans = @ + 1] \in Frames
      /\ [f EXCEPT !.failed = TRUE] \in Frames
  BY <1>0 DEF Frames, Inside
<1>1. Call(t, level) => OneFrame(t, level) /\ frame'[t][level].at = "send"
  BY CallOne
<1>2. Sent(t, level) => OneFrame(t, level) /\ frame'[t][level].at \in {"record", "idle"}
  BY <1>a, ReturnAt DEF Sent
<1>3. SendRaises(t, level) => OneFrame(t, level) /\ frame'[t][level].at \in {"record", "idle"}
  BY <1>a, ReturnAt DEF SendRaises
<1>4. TurnDown(t, level) => OneFrame(t, level) /\ frame'[t][level].at \in {"record", "idle"}
  BY <1>0, ReturnAt DEF TurnDown
<1>5. Enter(t, level) => OneFrame(t, level) /\ frame'[t][level].at = "lookup"
  <2> SUFFICES ASSUME Enter(t, level)
               PROVE  OneFrame(t, level) /\ frame'[t][level].at = "lookup"
    OBVIOUS
  <2>0. PICK blind \in BOOLEAN : frame' = [frame EXCEPT ![t][level] = Classified(frame[t][level], blind)]
    BY DEF Enter
  <2> DEFINE g == Classified(f, blind)
  <2>1. g \in Frames /\ g.at = "lookup"
    BY <1>0, EnteredType, ClassifiedFields
  <2>2. frame' = [frame EXCEPT ![t][level] = g]
    BY <2>0
  <2> HIDE DEF g
  <2> QED  BY <2>1, <2>2, ExceptOne
<1>6. Lookup(t, level) =>
        /\ OneFrame(t, level)
        /\ frame'[t][level] = [f EXCEPT !.at = IF services[f.host] = Absent THEN "insert" ELSE "touch"]
  <2> SUFFICES ASSUME Lookup(t, level)
               PROVE  /\ OneFrame(t, level)
                      /\ frame'[t][level] = [f EXCEPT !.at = IF services[f.host] = Absent THEN "insert" ELSE "touch"]
    OBVIOUS
  <2> DEFINE x == IF services[f.host] = Absent THEN "insert" ELSE "touch"
  <2>1. frame' = [frame EXCEPT ![t][level] = [f EXCEPT !.at = x]]
    BY DEF Lookup, TypeOK
  <2>2. [f EXCEPT !.at = x] \in Frames
    BY <1>a
  <2> DEFINE g == [f EXCEPT !.at = x]
  <2> HIDE DEF g
  <2>3. OneFrame(t, level) /\ frame'[t][level] = g
    <3>1. g \in Frames /\ frame' = [frame EXCEPT ![t][level] = g]
      BY <2>1, <2>2 DEF g
    <3> QED  BY <3>1, ExceptOne
  <2> QED  BY <2>3 DEF g
<1>7. Insert(t, level) =>
        /\ OneFrame(t, level)
        /\ frame'[t][level] = IF services[f.host] = Absent
                              THEN [f EXCEPT !.at = "scan", !.touches = @ + 1]
                              ELSE [f EXCEPT !.at = "touch"]
  <2>1. CASE services[f.host] = Absent
    <3>1. Insert(t, level) =>
            frame' = [frame EXCEPT ![t][level] = [f EXCEPT !.at = "scan", !.touches = @ + 1]]
      BY <2>1 DEF Insert, Touched
    <3> QED  BY <1>a, <2>1, <3>1, ExceptOne
  <2>2. CASE services[f.host] # Absent
    <3>1. Insert(t, level) => frame' = [frame EXCEPT ![t][level] = [f EXCEPT !.at = "touch"]]
      BY <2>2 DEF Insert, TypeOK
    <3> QED  BY <1>a, <2>2, <3>1, ExceptOne
  <2> QED  BY <2>1, <2>2
<1>8. Touch(t, level) =>
        OneFrame(t, level) /\ frame'[t][level] = [f EXCEPT !.at = "scan", !.touches = @ + 1]
  <2>1. Touch(t, level) =>
          frame' = [frame EXCEPT ![t][level] = [f EXCEPT !.at = "scan", !.touches = @ + 1]]
    BY DEF Touch, Touched
  <2> QED  BY <1>a, <2>1, ExceptOne
<1>9. Scan(t, level) => OneFrame(t, level) /\ frame'[t][level].at \in {"notify", "record", "idle"}
  <2>1. ASSUME Scan(t, level), Scanned(f.client, f.payload)
        PROVE  OneFrame(t, level) /\ frame'[t][level] = [f EXCEPT !.at = "notify", !.scans = @ + 1]
    BY <1>a, <2>1, ExceptOne DEF Scan
  <2>2. ASSUME Scan(t, level), ~Scanned(f.client, f.payload)
        PROVE  OneFrame(t, level) /\ frame'[t][level].at \in {"record", "idle"}
    BY <1>0, <2>2, ReturnAt DEF Scan, Leave
  <2>3. [f EXCEPT !.at = "notify", !.scans = @ + 1].at = "notify"
    BY <1>0 DEF Frames
  <2> QED  BY <2>1, <2>2, <2>3
<1>10. Done(t, level) => OneFrame(t, level) /\ frame'[t][level].at \in {"record", "idle"}
  BY <1>0, ReturnAt DEF Done, Leave
<1>11. Fails(t, level) => OneFrame(t, level) /\ frame'[t][level].at \in {"record", "idle"}
  BY <1>a, ReturnAt DEF Fails, Leave
<1> HIDE DEF f
<1> QED
  BY <1>0, <1>1, <1>2, <1>3, <1>4, <1>5, <1>6, <1>7, <1>8, <1>9, <1>10, <1>11 DEF f

LEMMA EnterNow ==
  ASSUME TypeOK, NEW t \in Threads, NEW level \in 1..2, Enter(t, level)
  PROVE  frame'[t][level].now = clock /\ frame'[t][level].at = "lookup"
<1>0. PICK blind \in BOOLEAN : frame' = [frame EXCEPT ![t][level] = Classified(frame[t][level], blind)]
  BY DEF Enter
<1> DEFINE f == frame[t][level]
           g == Classified(f, blind)
<1>1. f \in Frames /\ g \in Frames
  BY FrameType, EnteredType
<1>2. frame' = [frame EXCEPT ![t][level] = g]
  BY <1>0
<1>3. g.now = clock /\ g.at = "lookup"
  BY <1>1, ClassifiedFields
<1> HIDE DEF f, g
<1>4. frame'[t][level] = g
  BY <1>1, <1>2, ExceptOne
<1> QED  BY <1>3, <1>4

LEMMA KnownStep == ASSUME EgressInv, [Next]_vars PROVE Known'
<1> USE DEF EgressInv
<1>0. ASSUME UNCHANGED frame PROVE Known'
  BY <1>0, ServicesStay, FrameType DEF Known, At, Frames
<1>1. ASSUME NEW t \in Threads, NEW level \in 1..2, OneFrame(t, level),
             frame'[t][level].at = "touch" => services'[frame'[t][level].host] # Absent
      PROVE  Known'
  <2> SUFFICES ASSUME NEW u \in Threads, NEW l \in 1..2, At(u, l, "touch")'
               PROVE  services'[frame'[u][l].host] # Absent
    BY DEF Known
  <2>1. CASE u = t /\ l = level
    BY <1>1, <2>1 DEF At
  <2>2. CASE ~(u = t /\ l = level)
    <3>1. frame'[u][l] = frame[u][l]
      BY <1>1, <2>2 DEF OneFrame
    <3> QED  BY <3>1, ServicesStay, FrameType DEF Known, At, Frames
  <2> QED  BY <2>1, <2>2
<1>2. ASSUME NEW t \in Threads, NEW level \in 1..2, CallStep(t, level) \/ Call(t, level) PROVE Known'
  <2> DEFINE f == frame[t][level]
             g == frame'[t][level]
  <2>1. f \in Frames /\ f.host \in Hosts
    BY FrameType DEF Frames
  <2>2. CASE Lookup(t, level) \/ Insert(t, level)
    <3>1. OneFrame(t, level) /\ (g.at = "touch" => services[f.host] # Absent) /\ g.host = f.host
      BY <2>1, <2>2, StepOne DEF Frames
    <3>2. g.at = "touch" => services'[g.host] # Absent
      BY <2>1, <3>1, ServicesStay
    <3> QED  BY <1>1, <3>1, <3>2
  <2>3. CASE Touch(t, level)
    <3>1. OneFrame(t, level) /\ g.at = "scan"
      BY <2>1, <2>3, StepOne DEF Frames
    <3> QED  BY <1>1, <3>1
  <2>4. CASE ~(Lookup(t, level) \/ Insert(t, level)) /\ ~Touch(t, level)
    <3>1. OneFrame(t, level) /\ g.at # "touch"
      BY <1>2, <2>4, StepOne DEF CallStep
    <3> QED  BY <1>1, <3>1
  <2> QED  BY <2>2, <2>3, <2>4
<1> QED
  BY <1>0, <1>2 DEF Next, vars, OpenForm, SaveForm, EditOverrides, RepatchBounded, Tick, recording

LEMMA EgressInvInit == Init => EgressInv
<1>1. Init => Known
  BY DEF Init, Known, At, Idle
<1> QED  BY <1>1, PatchInit, EgressTypeInit DEF Init, EgressInv

LEMMA EgressInvStep == EgressInv /\ [Next]_vars => EgressInv'
BY TypeStep, KnownStep DEF EgressInv

\* The clients, the services, the calls in progress and what is remembered of them
\* stay well typed.
THEOREM EgressTypes == Spec => []TypeOK
<1>1. EgressInv => TypeOK
  BY DEF EgressInv
<1> QED  BY <1>1, EgressInvInit, EgressInvStep, PTL DEF Spec

-----------------------------------------------------------------------------
(***************************************************************************)
(* last_seen_at.                                                           *)
(***************************************************************************)
SeenInv ==
  /\ \A t \in Threads, level \in 1..2 :
       At(t, level, "lookup") \/ At(t, level, "insert") \/ At(t, level, "touch")
         => frame[t][level].now <= clock
  /\ \A x \in touched : x.now <= x.at /\ x.at <= clock /\ services[x.host] # Absent
  /\ LastSeenLagsByOverlap

\* What a recording writes keeps the invariant: it is its own witness.
LEMMA WriteKeeps ==
  ASSUME EgressInv, SeenInv, NEW f \in Frames, f.now <= clock, clock' = clock,
         TypeOK', edited' = edited,
         \A h \in Hosts : services'[h] # Absent /\ h # f.host => services'[h] = services[h],
         services'[f.host].last = f.now,
         \A h \in Hosts : services[h] # Absent => services'[h] # Absent,
         services'[f.host] # Absent,
         touched' = touched \cup {[host |-> f.host, now |-> f.now, at |-> clock]}
  PROVE  /\ \A x \in touched' : x.now <= x.at /\ x.at <= clock /\ services'[x.host] # Absent
         /\ LastSeenLagsByOverlap'
<1> USE DEF EgressInv
<1> DEFINE y == [host |-> f.host, now |-> f.now, at |-> clock]
<1>0. /\ f.host \in Hosts /\ f.now \in Nat /\ clock \in Nat
      /\ touched \subseteq [host : Hosts, now : Nat, at : Nat]
  BY DEF Frames, TypeOK
<1>1. y \in touched' /\ y.host = f.host /\ y.now = f.now /\ y.at = clock
  OBVIOUS
<1> HIDE DEF y
<1>2. ASSUME NEW x \in touched' PROVE x.now <= x.at /\ x.at <= clock /\ services'[x.host] # Absent
  <2>1. CASE x = y
    BY <1>0, <1>1, <2>1
  <2>2. CASE x \in touched
    BY <1>0, <2>2 DEF SeenInv
  <2> QED  BY <2>1, <2>2 DEF y
<1>3. ASSUME NEW x \in touched'
      PROVE  \/ services'[x.host].last >= x.now
             \/ edited'[x.host] # Absent
             \/ \E z \in touched' : /\ z.host = x.host
                                    /\ z.now = services'[x.host].last
                                    /\ z.now < x.now /\ x.now <= z.at
  <2>0. x.host \in Hosts /\ x.now \in Nat /\ x.at \in Nat
    BY DEF TypeOK
  <2>1. CASE x.host = f.host
    <3>1. CASE f.now >= x.now
      BY <2>1, <3>1
    <3>2. CASE f.now < x.now
      BY <1>0, <1>1, <1>2, <2>0, <2>1, <3>2
    <3> QED  BY <1>0, <2>0, <3>1, <3>2
  <2>2. CASE x.host # f.host
    <3>1. x \in touched
      BY <1>1, <2>2 DEF y
    <3>2. services'[x.host] = services[x.host]
      BY <1>2, <2>0, <2>2
    <3> QED  BY <3>1, <3>2 DEF SeenInv, LastSeenLagsByOverlap
  <2> QED  BY <2>1, <2>2
<1> QED  BY <1>2, <1>3 DEF LastSeenLagsByOverlap

LEMMA SeenStep == ASSUME EgressInv, SeenInv, [Next]_vars PROVE SeenInv'
<1> USE DEF EgressInv
<1>0. TypeOK' /\ \A h \in Hosts : services[h] # Absent => services'[h] # Absent
  BY TypeStep, ServicesStay
<1>1. ASSUME NEW t \in Threads, NEW level \in 1..2, CallStep(t, level) \/ Call(t, level) PROVE SeenInv'
  <2> DEFINE f == frame[t][level]
             g == frame'[t][level]
  <2>0. /\ f \in Frames /\ f.host \in Hosts /\ f.now \in Nat /\ f.class \in Classes /\ clock \in Nat
        /\ clock' = clock /\ edited' = edited
    BY <1>1, FrameType
       DEF TypeOK, Frames, Call, CallStep, Sent, SendRaises, TurnDown, Enter, Lookup, Insert,
           Touch, Scan, Done, Fails, history
  <2>1. \A u \in Threads, l \in 1..2 :
          (At(u, l, "lookup") \/ At(u, l, "insert") \/ At(u, l, "touch"))'
            => frame'[u][l].now <= clock'
    <3>1. OneFrame(t, level)
      BY <1>1, StepOne DEF CallStep
    <3>2. g.at \in {"lookup", "insert", "touch"} => g.now <= clock
      <4>1. CASE Enter(t, level)
        <5>1. g.now = clock
          BY <2>0, <4>1, EnterNow
        <5> QED  BY <2>0, <5>1
      <4>2. CASE Lookup(t, level) \/ Insert(t, level)
        <5>1. g.at \in {"lookup", "insert", "touch"} => g.now = f.now /\ f.at \in {"lookup", "insert"}
          BY <2>0, <4>2, StepOne DEF Lookup, Insert, At, Frames
        <5> QED  BY <5>1 DEF SeenInv, At
      <4>3. CASE Touch(t, level)
        BY <2>0, <4>3, StepOne DEF Frames
      <4>4. CASE ~Enter(t, level) /\ ~(Lookup(t, level) \/ Insert(t, level)) /\ ~Touch(t, level)
        BY <1>1, <4>4, StepOne DEF CallStep
      <4> QED  BY <4>1, <4>2, <4>3, <4>4
    <3> QED  BY <2>0, <3>1, <3>2 DEF OneFrame, At, SeenInv
  <2>2. CASE UNCHANGED <<services, touched>>
    BY <2>0, <2>1, <2>2 DEF SeenInv, LastSeenLagsByOverlap
  <2>3. CASE Insert(t, level) /\ services[f.host] = Absent
    <3>1. /\ services' = [services EXCEPT ![f.host] =
                            [class |-> f.class, first |-> f.now, last |-> f.now]]
          /\ touched' = touched \cup {[host |-> f.host, now |-> f.now, at |-> clock]}
          /\ f.now <= clock
      BY <2>3 DEF Insert, Touched, SeenInv
    <3>2. services'[f.host] = [class |-> f.class, first |-> f.now, last |-> f.now]
      BY <2>0, <3>1 DEF TypeOK
    <3>3. services'[f.host] # Absent /\ services'[f.host].last = f.now
      <4>1. services'[f.host] \in Services
        BY <2>0, <3>2 DEF Services
      <4> QED  BY <3>2, <4>1, EgressAssumption DEF Services
    <3>4. \A h \in Hosts : h # f.host => services'[h] = services[h]
      BY <3>1 DEF TypeOK
    <3> QED  BY <1>0, <2>0, <2>1, <3>1, <3>3, <3>4, WriteKeeps DEF SeenInv
  <2>4. CASE Touch(t, level)
    <3>1. /\ services' = [services EXCEPT ![f.host].last = f.now]
          /\ touched' = touched \cup {[host |-> f.host, now |-> f.now, at |-> clock]}
          /\ f.now <= clock /\ services[f.host] # Absent
      BY <2>4 DEF Touch, Touched, SeenInv, Known, At
    <3>2. services[f.host] \in Services
      BY <2>0, <3>1 DEF TypeOK
    <3>3. services'[f.host] # Absent /\ services'[f.host].last = f.now
      BY <1>0, <2>0, <3>1, <3>2 DEF TypeOK, Services
    <3>4. \A h \in Hosts : h # f.host => services'[h] = services[h]
      BY <3>1 DEF TypeOK
    <3> QED  BY <1>0, <2>0, <2>1, <3>1, <3>3, <3>4, WriteKeeps DEF SeenInv
  <2> QED
    BY <1>1, <2>2, <2>3, <2>4
       DEF Call, CallStep, Sent, SendRaises, TurnDown, Enter, Lookup, Insert, Scan, Done, Fails, history
<1>2. ASSUME NEW class \in Classes, SaveForm(class) PROVE SeenInv'
  <2>1. form.host \in Hosts /\ class # Absent /\ edited \in [Hosts -> Classes \cup {Absent}]
        /\ services \in [Hosts -> Services \cup {Absent}]
        /\ touched \subseteq [host : Hosts, now : Nat, at : Nat]
    BY <1>2, EgressAssumption DEF SaveForm, TypeOK
  <2>2. /\ edited'[form.host] # Absent
        /\ \A h \in Hosts : h # form.host => edited'[h] = edited[h] /\ services'[h] = services[h]
        /\ UNCHANGED <<frame, touched, clock>>
    BY <1>2, <2>1 DEF SaveForm
  <2>3. \A x \in touched : x.host \in Hosts
    BY <2>1
  <2>4. LastSeenLagsByOverlap'
    BY <2>2, <2>3 DEF SeenInv, LastSeenLagsByOverlap
  <2> QED  BY <1>0, <2>2, <2>3, <2>4 DEF SeenInv, At
<1>3. ASSUME UNCHANGED <<services, frame, touched, edited, clock>> PROVE SeenInv'
  BY <1>3 DEF SeenInv, At, LastSeenLagsByOverlap
<1>4. CASE Tick
  <2>1. clock' = clock + 1 /\ UNCHANGED <<services, frame, touched, edited>> /\ clock \in Nat
    BY <1>4 DEF Tick, recording, history, TypeOK
  <2>2. \A t \in Threads, level \in 1..2 : frame[t][level].now \in Nat
    BY FrameType DEF Frames
  <2>3. \A x \in touched : x.at \in Nat
    BY DEF TypeOK
  <2> QED  BY <2>1, <2>2, <2>3 DEF SeenInv, At, LastSeenLagsByOverlap
<1> QED
  BY <1>1, <1>2, <1>3, <1>4
     DEF Next, vars, OpenForm, EditOverrides, RepatchBounded, recording, history

\* interceptor.py:107, 123: however many threads record, last_seen_at falls behind a
\* recorded call only by a call that was being recorded at that call's time, or by a
\* page of the admin that was saved.
THEOREM LastSeenHolds == Spec => []LastSeenLagsByOverlap
<1>1. Init => SeenInv
  BY DEF Init, SeenInv, LastSeenLagsByOverlap, At, Idle
<1>2. EgressInv /\ SeenInv /\ [Next]_vars => SeenInv'
  BY SeenStep
<1>3. SeenInv => LastSeenLagsByOverlap
  BY DEF SeenInv
<1> QED  BY <1>1, <1>2, <1>3, EgressInvInit, EgressInvStep, PTL DEF Spec

-----------------------------------------------------------------------------
(***************************************************************************)
(* Once per call.  The re-entry flag is set exactly while the call of      *)
(* level 1 is being recorded, which keeps a call of level 2 out; and what  *)
(* is counted of a call follows from the step it is at.                    *)
(***************************************************************************)
\* While a client has not been crossed, its calls pass one wrapper of ours or none.
Tally(f) ==
  ~f.crossed =>
    /\ ~f.failed
    /\ f.at = "send" => ~f.sent /\ f.layers = IF f.installed THEN 1 ELSE 0
    /\ f.at \notin {"idle", "send"} => f.sent /\ f.installed /\ f.layers = 0
    /\ f.touches = IF f.at \in {"scan", "notify"} THEN 1 ELSE 0
    /\ f.scans = IF f.at = "notify" THEN 1 ELSE 0

SendsInv ==
  /\ \A t \in Threads :
       /\ reentry[t] <=> frame[t][1].at \in Inside
       /\ Busy(t, 2) => At(t, 1, "notify")
       /\ frame[t][2].at \in {"idle", "send", "record"}
       /\ frame[t][1].at \in Inside => ~frame[t][1].exempt
  /\ \A t \in Threads, level \in 1..2 : Tally(frame[t][level])
  /\ SendsRecordedOnce

LEMMA IdleTally == Idle.at = "idle" /\ Tally(Idle)
BY DEF Idle, Tally

\* A result as SendsRecordedOnce wants it.
Right(x) ==
  ~x.crossed =>
    LET due == x.level = 1 /\ x.installed /\ x.sent /\ ~x.exempt
    IN  /\ x.failed => due /\ x.touches <= 1
        /\ ~x.failed => x.touches = IF due THEN 1 ELSE 0
        /\ ~x.failed /\ x.payload \in {"bytes", "str", "json", "form"}
             => x.scans = x.touches

\* Where a step of level 1 or 2 leaves the flag and the other frame.
LEMMA Placed ==
  ASSUME TypeOK, TypeOK', SendsInv, NEW t \in Threads, NEW level \in 1..2, OneFrame(t, level),
         \A u \in Threads \ {t} : reentry'[u] = reentry[u],
         reentry'[t] <=> frame'[t][1].at \in Inside,
         (Busy(t, 2) => At(t, 1, "notify"))',
         frame'[t][2].at \in {"idle", "send", "record"},
         frame'[t][1].at \in Inside => ~frame'[t][1].exempt,
         Tally(frame'[t][level]),
         \A x \in finished' \ finished : Right(x)
  PROVE  SendsInv'
<1>1. ASSUME NEW u \in Threads \ {t}
      PROVE  frame'[u][1] = frame[u][1] /\ frame'[u][2] = frame[u][2]
  BY DEF OneFrame
<1>2. ASSUME NEW u \in Threads
      PROVE  /\ reentry'[u] <=> frame'[u][1].at \in Inside
             /\ (Busy(u, 2) => At(u, 1, "notify"))'
             /\ frame'[u][2].at \in {"idle", "send", "record"}
             /\ frame'[u][1].at \in Inside => ~frame'[u][1].exempt
  <2>1. CASE u = t
    BY <2>1
  <2>2. CASE u # t
    BY <1>1, <2>2 DEF SendsInv, Busy, At
  <2> QED  BY <2>1, <2>2
<1>3. ASSUME NEW u \in Threads, NEW l \in 1..2 PROVE Tally(frame'[u][l])
  BY DEF OneFrame, SendsInv
<1>4. SendsRecordedOnce'
  <2>1. \A x \in finished : Right(x)
    BY DEF SendsInv, SendsRecordedOnce, Right
  <2>2. \A x \in finished' : Right(x)
    BY <2>1
  <2> QED  BY <2>2 DEF SendsRecordedOnce, Right
<1> QED  BY <1>2, <1>3, <1>4 DEF SendsInv

\* A crossed client may have more wrappers to record its calls.
LEMMA RecordTally ==
  ASSUME NEW f \in Frames, f.layers > 0,
         ~f.crossed => /\ ~f.failed /\ f.sent /\ f.installed /\ f.layers = 1
                       /\ f.touches = 0 /\ f.scans = 0
  PROVE  Tally([f EXCEPT !.at = "record", !.layers = @ - 1])
BY DEF Tally, Frames

LEMMA EnterTally ==
  ASSUME TypeOK, NEW t \in Threads, NEW level \in 1..2, Enter(t, level), Tally(frame[t][level])
  PROVE  Tally(frame'[t][level]) /\ frame'[t][level].exempt = frame[t][level].exempt
<1>0. PICK blind \in BOOLEAN : frame' = [frame EXCEPT ![t][level] = Classified(frame[t][level], blind)]
  BY DEF Enter
<1> DEFINE f == frame[t][level]
           g == Classified(f, blind)
<1>1. f \in Frames /\ g \in Frames /\ f.at = "record"
  BY FrameType, EnteredType DEF Enter, At
<1>2. frame' = [frame EXCEPT ![t][level] = g]
  BY <1>0
<1>3. /\ g.at = "lookup" /\ g.sent = f.sent /\ g.failed = f.failed /\ g.layers = f.layers
      /\ g.installed = f.installed /\ g.crossed = f.crossed /\ g.exempt = f.exempt
      /\ g.touches = f.touches /\ g.scans = f.scans
  BY <1>1, ClassifiedFields
<1> HIDE DEF g
<1>4. frame'[t][level] = g
  BY <1>1, <1>2, ExceptOne
<1>5. Tally(g)
  BY <1>1, <1>3 DEF Tally
<1> QED  BY <1>3, <1>4, <1>5

LEMMA SendsStep == ASSUME EgressInv, SendsInv, [Next]_vars PROVE SendsInv'
<1> USE DEF EgressInv
<1>0. TypeOK'
  BY TypeStep
<1>1. ASSUME NEW t \in Threads, NEW level \in 1..2, CallStep(t, level) \/ Call(t, level) PROVE SendsInv'
  <2> DEFINE f == frame[t][level]
             g == frame'[t][level]
  <2>0. /\ f \in Frames /\ frame[t][1] \in Frames /\ frame[t][2] \in Frames
        /\ Tally(f) /\ frame[t][2].at \in {"idle", "send", "record"}
        /\ reentry \in [Threads -> BOOLEAN]
    BY FrameType DEF TypeOK, SendsInv
  <2>1. CASE Call(t, level)
    <3>1. OneFrame(t, level) /\ g.at = "send" /\ Tally(g)
      <4>1. PICK c \in Importable : /\ g.layers = Count("ours", method[c])
                                    /\ g.installed = installed[c]
                                    /\ g.crossed = (c \in crossed)
        BY <2>1, CallOne
      <4>2. ~g.crossed => g.layers = IF g.installed THEN 1 ELSE 0
        BY <4>1, PatchesMatch, ClientsAssumption DEF PatchesMatchFlags
      <4> QED  BY <2>1, <4>2, CallOne DEF Tally
    <3>2. UNCHANGED <<reentry, finished>> /\ (level = 2 => At(t, 1, "notify")) /\ (level = 1 => ~Busy(t, 2))
          /\ frame[t][level].at = "idle"
      BY <2>1 DEF Call, history, Busy
    <3>3. CASE level = 1
      <4>1. frame'[t][2] = frame[t][2] /\ frame'[t][1].at = "send"
        BY <3>1, <3>3 DEF OneFrame
      <4> QED  BY <1>0, <3>1, <3>2, <3>3, <4>1, Placed DEF SendsInv, Busy, At, Inside
    <3>4. CASE level = 2
      <4>1. frame'[t][1] = frame[t][1] /\ frame'[t][2].at = "send"
        BY <3>1, <3>4 DEF OneFrame
      <4> QED  BY <1>0, <3>1, <3>2, <3>4, <4>1, Placed DEF SendsInv, Busy, At
    <3> QED  BY <3>3, <3>4
  <2>2. ASSUME At(t, level, "send") \/ At(t, level, "record"), reentry' = reentry,
               NEW h \in Frames, Return(t, level, h),
               Tally([h EXCEPT !.at = "record", !.layers = @ - 1]) \/ ~(h.layers > 0),
               ~(h.layers > 0) => Right(Result(h, level))
        PROVE  SendsInv'
    <3>1. /\ OneFrame(t, level) /\ g.at \in {"record", "idle"} /\ Tally(g)
          /\ \A x \in finished' \ finished : Right(x)
      BY <2>2, ReturnOne, ReturnAt, IdleTally
    <3>2. CASE level = 1
      <4>1. frame'[t][2] = frame[t][2] /\ ~Busy(t, 2)
        BY <2>2, <3>1, <3>2 DEF OneFrame, SendsInv, At, Busy
      <4> QED  BY <1>0, <2>2, <3>1, <3>2, <4>1, Placed DEF SendsInv, Busy, At, Inside
    <3>3. CASE level = 2
      <4>1. frame'[t][1] = frame[t][1] /\ Busy(t, 2)
        BY <2>2, <3>1, <3>3 DEF OneFrame, At, Busy
      <4> QED  BY <1>0, <2>2, <3>1, <3>3, <4>1, Placed DEF SendsInv, Busy, At
    <3> QED  BY <3>2, <3>3
  <2>3. CASE Sent(t, level)
    <3> DEFINE h == [f EXCEPT !.sent = TRUE]
    <3>1. /\ h \in Frames /\ h.sent = TRUE /\ f.at = "send" /\ h.at = "send" /\ h.layers = f.layers /\ h.failed = f.failed
          /\ h.installed = f.installed /\ h.crossed = f.crossed
          /\ h.touches = f.touches /\ h.scans = f.scans /\ h.exempt = f.exempt /\ h.payload = f.payload
      BY <2>0, <2>3 DEF Sent, At, Frames
    <3>2. Return(t, level, h) /\ reentry' = reentry /\ At(t, level, "send")
      BY <2>3 DEF Sent
    <3> HIDE DEF h, f
    <3>3. Tally([h EXCEPT !.at = "record", !.layers = @ - 1]) \/ ~(h.layers > 0)
      BY <2>0, <3>1, RecordTally DEF Tally, Frames
    <3>4. ~(h.layers > 0) => Right(Result(h, level))
      BY <2>0, <3>1 DEF Right, Result, Tally, Frames
    <3> QED  BY <2>2, <3>1, <3>2, <3>3, <3>4
  <2>4. CASE SendRaises(t, level)
    <3> DEFINE h == [f EXCEPT !.layers = 0]
    <3>1. /\ h \in Frames /\ h.layers = 0 /\ f.at = "send" /\ h.at = "send" /\ h.sent = f.sent /\ h.failed = f.failed
          /\ h.installed = f.installed /\ h.crossed = f.crossed
          /\ h.touches = f.touches /\ h.scans = f.scans /\ h.exempt = f.exempt /\ h.payload = f.payload
      BY <2>0, <2>4 DEF SendRaises, At, Frames
    <3>2. Return(t, level, h) /\ reentry' = reentry /\ At(t, level, "send")
      BY <2>4 DEF SendRaises
    <3> HIDE DEF h, f
    <3>4. Right(Result(h, level)) /\ ~(h.layers > 0)
      BY <2>0, <3>1 DEF Right, Result, Tally, Frames
    <3> QED  BY <2>2, <3>1, <3>2, <3>4
  <2>5. CASE TurnDown(t, level)
    <3>1. /\ At(t, level, "record") /\ Return(t, level, f) /\ reentry' = reentry /\ f.at = "record"
          /\ reentry[t] \/ f.exempt
      BY <2>5 DEF TurnDown, TurnedDown, At
    <3>2. level = 1 => f.exempt
      BY <3>1 DEF SendsInv, Inside
    <3> HIDE DEF f
    <3>3. Tally([f EXCEPT !.at = "record", !.layers = @ - 1]) \/ ~(f.layers > 0)
      BY <2>0, <3>1, RecordTally DEF Tally, Frames
    <3>4. Right(Result(f, level))
      BY <2>0, <3>1, <3>2 DEF Right, Result, Tally, Frames
    <3> QED  BY <2>0, <2>2, <3>1, <3>3, <3>4
  <2>6. level = 2 => \/ Call(t, level) \/ Sent(t, level) \/ SendRaises(t, level)
                     \/ TurnDown(t, level)
    BY <1>1, <2>0 DEF CallStep, Enter, Lookup, Insert, Touch, Scan, Done, Fails, At, SendsInv, Busy,
                      TurnedDown, Inside
  <2>7. CASE Enter(t, level) /\ level = 1
    <3>0. /\ ~f.exempt /\ f.at = "record"
          /\ reentry' = [reentry EXCEPT ![t] = TRUE] /\ UNCHANGED finished
      BY <2>7 DEF Enter, TurnedDown, history, At
    <3>a. Tally(g) /\ g.exempt = f.exempt
      BY <2>0, <2>7, EnterTally
    <3>b. OneFrame(t, level) /\ g.at = "lookup"
      BY <2>7, StepOne
    <3>1. /\ OneFrame(t, 1) /\ g.at = "lookup" /\ g.exempt = f.exempt /\ ~f.exempt
          /\ reentry' = [reentry EXCEPT ![t] = TRUE] /\ Tally(g) /\ UNCHANGED finished
          /\ f.at = "record"
      BY <2>7, <3>0, <3>a, <3>b
    <3>2. ~Busy(t, 2) /\ frame'[t][2] = frame[t][2] /\ reentry'[t] = TRUE
      BY <2>0, <2>7, <3>1 DEF SendsInv, At, Busy, OneFrame
    <3>3. \A u \in Threads \ {t} : reentry'[u] = reentry[u]
      BY <2>0, <3>1
    <3> QED  BY <1>0, <2>0, <2>7, <3>1, <3>2, <3>3, Placed DEF Busy, At, Inside
  <2>8. CASE (Lookup(t, level) \/ Insert(t, level) \/ Touch(t, level)) /\ level = 1
    <3>0. f.at \in {"lookup", "insert", "touch"}
      BY <2>8 DEF Lookup, Insert, Touch, At
    <3>1. /\ f.at \in {"lookup", "insert", "touch"} /\ OneFrame(t, 1) /\ UNCHANGED <<reentry, finished>>
      BY <2>8, StepOne DEF Lookup, Insert, Touch, At, history
    <3>2. /\ g.at \in {"insert", "touch", "scan"} /\ g.exempt = f.exempt /\ Tally(g)
      <4>1. f.touches + 1 \in Nat
        BY <2>0 DEF Frames
      <4>2. g = [f EXCEPT !.at = "insert"] \/ g = [f EXCEPT !.at = "touch"]
            \/ g = [f EXCEPT !.at = "scan", !.touches = @ + 1]
        BY <2>8, StepOne
      <4> HIDE DEF f, g
      <4>3. CASE g = [f EXCEPT !.at = "insert"] \/ g = [f EXCEPT !.at = "touch"]
        <5>1. /\ g.at \in {"insert", "touch"} /\ g.exempt = f.exempt /\ g.sent = f.sent /\ g.failed = f.failed
              /\ g.layers = f.layers /\ g.installed = f.installed /\ g.crossed = f.crossed
              /\ g.touches = f.touches /\ g.scans = f.scans
          BY <2>0, <4>3 DEF Frames
        <5> QED  BY <2>0, <3>0, <5>1 DEF Tally
      <4>4. CASE g = [f EXCEPT !.at = "scan", !.touches = @ + 1]
        <5>1. /\ g.at = "scan" /\ g.exempt = f.exempt /\ g.sent = f.sent /\ g.failed = f.failed
              /\ g.layers = f.layers /\ g.installed = f.installed /\ g.crossed = f.crossed
              /\ g.touches = f.touches + 1 /\ g.scans = f.scans
          BY <2>0, <4>4 DEF Frames
        <5> QED  BY <2>0, <3>0, <5>1 DEF Tally
      <4> QED  BY <4>2, <4>3, <4>4
    <3>3. ~Busy(t, 2) /\ frame'[t][2] = frame[t][2] /\ reentry[t] /\ ~f.exempt
      BY <2>8, <3>1 DEF SendsInv, At, Busy, OneFrame, Inside
    <3> QED  BY <1>0, <2>0, <2>8, <3>1, <3>2, <3>3, Placed DEF Busy, At, Inside
  <2>9. ASSUME level = 1, f.at \in Inside, ~Busy(t, 2), NEW h \in Frames, Leave(t, 1, h),
               Tally([h EXCEPT !.at = "record", !.layers = @ - 1]) \/ ~(h.layers > 0),
               ~(h.layers > 0) => Right(Result(h, 1))
        PROVE  SendsInv'
    <3>1. /\ OneFrame(t, 1) /\ g.at \in {"record", "idle"} /\ Tally(g)
          /\ \A x \in finished' \ finished : Right(x)
      <4>1. Return(t, 1, h) /\ 1 \in 1..2
        BY <2>9 DEF Leave
      <4>2. OneFrame(t, 1) /\ frame'[t][1].at \in {"record", "idle"}
        BY <4>1, ReturnAt
      <4>3. CASE h.layers > 0
        <5>1. frame'[t][1] = [h EXCEPT !.at = "record", !.layers = @ - 1] /\ finished' = finished
          BY <4>1, <4>3, ReturnOne
        <5> QED  BY <2>9, <4>2, <4>3, <5>1
      <4>4. CASE ~(h.layers > 0)
        <5>1. frame'[t][1] = Idle /\ finished' = finished \cup {Result(h, 1)}
          BY <4>1, <4>4, ReturnOne
        <5> QED  BY <2>9, <4>2, <4>4, <5>1, IdleTally
      <4> QED  BY <4>3, <4>4
    <3>2. frame'[t][2] = frame[t][2] /\ reentry' = [reentry EXCEPT ![t] = FALSE]
      BY <2>9, <3>1 DEF OneFrame, Leave
    <3>3. reentry'[t] = FALSE /\ \A u \in Threads \ {t} : reentry'[u] = reentry[u]
      BY <2>0, <3>2
    <3> QED  BY <1>0, <2>0, <2>9, <3>1, <3>2, <3>3, Placed DEF Busy, At, Inside
  <2>10. CASE Scan(t, level) /\ level = 1
    <3>1. f.at = "scan" /\ ~Busy(t, 2) /\ reentry[t] /\ ~f.exempt
      BY <2>10 DEF Scan, At, SendsInv, Busy, Inside
    <3>2. CASE Scanned(f.client, f.payload)
      <4>1. /\ frame' = [frame EXCEPT ![t][level] = [f EXCEPT !.at = "notify", !.scans = @ + 1]]
            /\ UNCHANGED <<reentry, finished>>
        BY <2>10, <3>2 DEF Scan
      <4>2. f.scans + 1 \in Nat
        BY <2>0 DEF Frames
      <4>3. [f EXCEPT !.at = "notify", !.scans = @ + 1] \in Frames
        BY <2>0, <4>2 DEF Frames, Inside
      <4>4. OneFrame(t, 1) /\ g = [f EXCEPT !.at = "notify", !.scans = @ + 1]
        <5> DEFINE h == [f EXCEPT !.at = "notify", !.scans = @ + 1]
        <5>1. h \in Frames /\ frame' = [frame EXCEPT ![t][level] = h]
          BY <4>1, <4>3
        <5> HIDE DEF h
        <5>2. OneFrame(t, level) /\ g = h
          BY <5>1, ExceptOne
        <5> QED  BY <2>10, <5>2 DEF h
      <4>5. g.at = "notify" /\ g.exempt = f.exempt /\ Tally(g)
        <5> HIDE DEF f, g
        <5> QED  BY <2>0, <3>1, <4>2, <4>4 DEF Tally, Frames
      <4>6. frame'[t][2] = frame[t][2]
        BY <4>4 DEF OneFrame
      <4> QED  BY <1>0, <2>0, <2>10, <3>1, <4>1, <4>4, <4>5, <4>6, Placed DEF Busy, At, Inside
    <3>3. CASE ~Scanned(f.client, f.payload)
      <4>1. Leave(t, 1, f)
        BY <2>10, <3>3 DEF Scan
      <4>2. f.payload \notin {"bytes", "str", "json", "form"}
        BY <3>3 DEF Scanned, BodyOf
      <4> HIDE DEF f
      <4>3. Tally([f EXCEPT !.at = "record", !.layers = @ - 1]) \/ ~(f.layers > 0)
        BY <2>0, <3>1, RecordTally DEF Tally, Frames
      <4>4. Right(Result(f, 1))
        BY <2>0, <3>1, <4>2 DEF Right, Result, Tally, Frames
      <4> QED  BY <2>0, <2>9, <2>10, <3>1, <4>1, <4>3, <4>4 DEF Inside
    <3> QED  BY <3>2, <3>3
  <2>11. CASE Done(t, level) /\ level = 1
    <3>1. f.at = "notify" /\ ~Busy(t, 2) /\ ~f.exempt /\ Leave(t, 1, f)
      BY <2>11 DEF Done, At, SendsInv, Top, Inside
    <3> HIDE DEF f
    <3>2. Tally([f EXCEPT !.at = "record", !.layers = @ - 1]) \/ ~(f.layers > 0)
      BY <2>0, <3>1, RecordTally DEF Tally, Frames
    <3>3. Right(Result(f, 1))
      BY <2>0, <3>1 DEF Right, Result, Tally, Frames
    <3> QED  BY <2>0, <2>9, <2>11, <3>1, <3>2, <3>3 DEF Inside
  <2>12. CASE Fails(t, level) /\ level = 1
    <3> DEFINE h == [f EXCEPT !.failed = TRUE]
    <3>1. f.at \in Inside /\ ~Busy(t, 2) /\ ~f.exempt /\ Leave(t, 1, h)
      BY <2>12 DEF Fails, SendsInv, Top
    <3>2. /\ h \in Frames /\ h.layers = f.layers /\ h.at = f.at /\ h.sent = f.sent /\ h.failed = TRUE
          /\ h.installed = f.installed /\ h.crossed = f.crossed
          /\ h.touches = f.touches /\ h.scans = f.scans /\ h.exempt = f.exempt /\ h.payload = f.payload
      BY <2>0 DEF Frames
    <3> HIDE DEF h, f
    <3>3. Tally([h EXCEPT !.at = "record", !.layers = @ - 1]) \/ ~(h.layers > 0)
      BY <2>0, <3>1, <3>2, RecordTally DEF Tally, Frames, Inside
    <3>4. Right(Result(h, 1))
      BY <2>0, <3>1, <3>2 DEF Right, Result, Tally, Frames, Inside
    <3> QED  BY <2>0, <2>9, <2>12, <3>1, <3>2, <3>3, <3>4
  <2>13. level = 1 \/ level = 2
    OBVIOUS
  <2> QED
    BY <1>1, <2>1, <2>3, <2>4, <2>5, <2>6, <2>7, <2>8, <2>10, <2>11, <2>12, <2>13 DEF CallStep
<1>2. ASSUME UNCHANGED <<frame, reentry, finished>> PROVE SendsInv'
  BY <1>2 DEF SendsInv, Busy, At, SendsRecordedOnce
<1> QED
  BY <1>1, <1>2
     DEF Next, vars, OpenForm, SaveForm, EditOverrides, RepatchBounded, Tick, recording, history

\* interceptor.py:88-143, 244-254: for any clients, threads, payloads and receivers,
\* a sent call of the application is recorded once, on each client that nobody has
\* taken off another's wrapper from, and one from inside a recording never.
THEOREM SendsHold == Spec => []SendsRecordedOnce
<1>1. Init => SendsInv
  <2> SUFFICES ASSUME Init PROVE SendsInv
    OBVIOUS
  <2>1. \A t \in Threads, level \in 1..2 : frame[t][level] = Idle
    BY DEF Init
  <2>2. reentry = [t \in Threads |-> FALSE] /\ finished = {}
    BY DEF Init
  <2> QED  BY <2>1, <2>2, IdleTally DEF SendsInv, SendsRecordedOnce, Busy, At, Inside
<1>2. EgressInv /\ SendsInv /\ [Next]_vars => SendsInv'
  BY SendsStep
<1>3. SendsInv => SendsRecordedOnce
  BY DEF SendsInv
<1> QED  BY <1>1, <1>2, <1>3, EgressInvInit, EgressInvStep, PTL DEF Spec

-----------------------------------------------------------------------------
(***************************************************************************)
(* The class of a service.                                                 *)
(***************************************************************************)
Layers(keys) == <<TenantCatalog(keys), SettingsOverrides, BUILTIN_CATALOG>>
Resolved(h, keys) == ResolveSink(h, TenantCatalog(keys), SettingsOverrides)

HasLengths(catalog) == \A key \in DOMAIN catalog : Len(key) \in Nat

LEMMA BuiltinLengths == HasLengths(BUILTIN_CATALOG)
<1>1. ASSUME NEW c \in DOMAIN BuiltinKeys, NEW key \in BuiltinKeys[c] PROVE Len(key) \in Nat
  BY DEF BuiltinKeys
<1>2. DOMAIN BUILTIN_CATALOG = UNION {BuiltinKeys[c] : c \in DOMAIN BuiltinKeys}
  BY Zenon DEF BUILTIN_CATALOG
<1> QED  BY <1>1, <1>2 DEF HasLengths

\* Of the keys of a catalog that cover a host, one is the longest, and MatchCatalog
\* returns its entry.
LEMMA LongestWins ==
  ASSUME NEW h \in Seq(STRING), NEW catalog, HasLengths(catalog),
         Covering(h, catalog) # {}
  PROVE  \E key \in Covering(h, catalog) :
           /\ \A other \in Covering(h, catalog) : Len(other) <= Len(key)
           /\ MatchCatalog(h, catalog) = catalog[key]
<1> DEFINE C == Covering(h, catalog)
           Lengths == {Len(key) : key \in C}
           Longest(key) == \A other \in C : Len(other) <= Len(key)
<1>1. \A key \in C : Len(key) \in 0..Len(h)
  BY DEF Covering, IsUnder, HasLengths
<1>2. Len(h) \in Nat /\ Lengths \in SUBSET (0..Len(h)) /\ Lengths # {}
  <2>1. Len(h) \in Nat
    OBVIOUS
  <2>2. C # {}
    OBVIOUS
  <2> HIDE DEF C
  <2> QED  BY <1>1, <2>1, <2>2
<1>3. Max(Lengths) \in Lengths /\ \A n \in Lengths : Max(Lengths) >= n
  BY <1>2, GreatestOf
<1>4. \E key \in C : Longest(key)
  <2>1. PICK key \in C : Max(Lengths) = Len(key)
    BY <1>3
  <2>2. \A other \in C : Len(other) \in Lengths
    OBVIOUS
  <2>3. \A other \in C : Len(other) <= Len(key)
    BY <1>1, <1>3, <2>1, <2>2
  <2> QED  BY <2>3
<1> DEFINE best == CHOOSE key \in C : Longest(key)
<1>5. best \in C /\ Longest(best)
  BY <1>4, Zenon
<1>6. MatchCatalog(h, catalog) = catalog[best]
  BY Zenon DEF MatchCatalog
<1> QED  BY <1>5, <1>6

\* What the catalogs make of a host, layer by layer: an entry that no other
\* outranks, or nothing is known of it.
LEMMA ResolvedIsBest ==
  ASSUME NEW h \in Hosts, NEW keys \in SUBSET DOMAIN TenantOverrides
  PROVE  LET entries == Candidates(h, keys)
         IN  \/ entries = {} /\ Resolved(h, keys) = Unknown
             \/ \E x \in entries : /\ \A y \in entries : ~Outranks(y, x)
                                   /\ Resolved(h, keys) = EntryToInfo(x[3])
<1> DEFINE L == Layers(keys)
           hits == {i \in 1..3 : Covering(h, L[i]) # {}}
           Entries(i) == {<<i, Len(key), L[i][key]>> : key \in Covering(h, L[i])}
           entries == Candidates(h, keys)
<1>1. /\ h \in Seq(STRING) /\ DOMAIN L = 1..3
      /\ \A i \in 1..3 : HasLengths(L[i])
  <2>1. h \in Seq(STRING) /\ DOMAIN L = 1..3
    BY LabelsAssumption DEF Layers
  <2>2. L[1] = TenantCatalog(keys) /\ L[2] = SettingsOverrides /\ L[3] = BUILTIN_CATALOG
    BY DEF Layers
  <2>3. HasLengths(L[1]) /\ HasLengths(L[2]) /\ HasLengths(L[3])
    <3>1. DOMAIN L[1] = keys
      BY <2>2 DEF TenantCatalog
    <3>2. \A key \in Seq(STRING) : Len(key) \in Nat
      OBVIOUS
    <3> QED  BY <2>2, <3>1, <3>2, LabelsAssumption, BuiltinLengths DEF HasLengths
  <2> HIDE DEF L
  <2>4. \A i \in 1..3 : i = 1 \/ i = 2 \/ i = 3
    OBVIOUS
  <2> QED  BY <2>1, <2>3, <2>4
<1>2. entries = UNION {Entries(i) : i \in 1..3}
  BY Zenon DEF Candidates, Layers
<1>3. Resolved(h, keys) =
        IF hits = {} THEN Unknown
        ELSE EntryToInfo(MatchCatalog(h, L[CHOOSE i \in hits : \A j \in hits : i <= j]))
  <2>1. Resolved(h, keys) = ResolveFromCatalogs(h, L)
    BY Zenon DEF Resolved, ResolveSink, Layers
  <2>2. DOMAIN L = 1..3
    BY <1>1
  <2> HIDE DEF L
  <2> QED  BY <2>1, <2>2, Zenon DEF ResolveFromCatalogs
<1> HIDE DEF L, entries
<1>4. CASE hits = {}
  <2>1. \A i \in 1..3 : Covering(h, L[i]) = {}
    BY <1>4
  <2>2. \A i \in 1..3 : Entries(i) = {}
    BY <2>1
  <2>3. entries = {}
    BY <1>2, <2>2
  <2> HIDE DEF hits
  <2> QED  BY <1>3, <1>4, <2>3 DEF entries
<1>5. CASE hits # {}
  <2> DEFINE i == Min(hits)
  <2>1. i \in hits /\ \A j \in hits : i <= j
    <3>1. hits \in SUBSET Nat
      OBVIOUS
    <3> HIDE DEF hits
    <3> QED  BY <1>5, <3>1, LeastOf
  <2>2. i = CHOOSE x \in hits : \A j \in hits : x <= j
    BY Zenon DEF Min
  <2>3. Resolved(h, keys) = EntryToInfo(MatchCatalog(h, L[i]))
    BY <1>3, <1>5, <2>2
  <2> HIDE DEF i
  <2>4. i \in 1..3 /\ Covering(h, L[i]) # {}
    BY <2>1
  <2>5. PICK key \in Covering(h, L[i]) :
          /\ \A other \in Covering(h, L[i]) : Len(other) <= Len(key)
          /\ MatchCatalog(h, L[i]) = L[i][key]
    BY <1>1, <2>4, LongestWins
  <2> DEFINE x == <<i, Len(key), L[i][key]>>
  <2>6. x \in entries
    BY <1>2, <2>4
  <2>7. ASSUME NEW y \in entries PROVE ~Outranks(y, x)
    <3>1. PICK j \in 1..3 : y \in Entries(j)
      BY <1>2
    <3>2. PICK other \in Covering(h, L[j]) : y = <<j, Len(other), L[j][other]>>
      BY <3>1
    <3>3. y[1] = j /\ y[2] = Len(other)
      BY <3>2
    <3>4. x[1] = i /\ x[2] = Len(key)
      OBVIOUS
    <3>5. j \in hits
      BY <3>2
    <3>6. i <= j
      BY <2>1, <3>5
    <3>7. Len(key) \in Nat /\ Len(other) \in Nat
      BY <1>1, <2>4, <2>5, <3>2 DEF Covering, HasLengths
    <3>8. i = j => Len(other) <= Len(key)
      BY <2>5, <3>2
    <3> HIDE DEF x, hits
    <3> QED  BY <2>4, <3>3, <3>4, <3>6, <3>7, <3>8 DEF Outranks
  <2>8. Resolved(h, keys) = EntryToInfo(x[3])
    BY <2>3, <2>5
  <2> HIDE DEF x
  <2> QED  BY <2>6, <2>7, <2>8 DEF entries
<1> QED  BY <1>4, <1>5

\* A recording carries the class of the overrides it read, a service has the class
\* an operator saved or else the one of the overrides of its first sight.
CarriesClass(f) ==
  f.at \in {"lookup", "insert"} => f.class = Resolved(f.host, RowsRead(f.basis, f.blind))

OneSource(h) ==
  services[h] # Absent =>
    services[h].class = IF edited[h] # Absent THEN edited[h] 
                        ELSE Resolved(h, RowsRead(basis[h], h \in blinded))

ClassInv ==
  /\ \A t \in Threads, level \in 1..2 : CarriesClass(frame[t][level])
  /\ \A h \in Hosts : OneSource(h) /\ (edited[h] # Absent => services[h] # Absent)

LEMMA EnterClass ==
  ASSUME TypeOK, NEW t \in Threads, NEW level \in 1..2, Enter(t, level)
  PROVE  CarriesClass(frame'[t][level])
<1>0. PICK blind \in BOOLEAN : frame' = [frame EXCEPT ![t][level] = Classified(frame[t][level], blind)]
  BY DEF Enter
<1> DEFINE f == frame[t][level]
           g == Classified(f, blind)
<1>1. f \in Frames /\ g \in Frames
  BY FrameType, EnteredType
<1>2. frame' = [frame EXCEPT ![t][level] = g]
  BY <1>0
<1> DEFINE rows == RowsRead(overrides, blind)
<1>3. ResolveSink(f.host, TenantCatalog(rows), SettingsOverrides) = Resolved(f.host, rows)
  BY DEF Resolved
<1>4. g.class = Resolved(f.host, rows) /\ g.host = f.host /\ g.basis = overrides /\ g.blind = blind
  BY <1>1, <1>3, ClassifiedFields
<1> HIDE DEF g
<1>5. frame'[t][level] = g
  BY <1>1, <1>2, ExceptOne
<1> QED  BY <1>4, <1>5 DEF CarriesClass

\* A step of a call leaves every class but that of a service it inserts.
LEMMA CallClass ==
  ASSUME EgressInv, ClassInv, NEW t \in Threads, NEW level \in 1..2,
         CallStep(t, level) \/ Call(t, level)
  PROVE  ClassInv'
<1> USE DEF EgressInv
<1> DEFINE f == frame[t][level]
           g == frame'[t][level]
<1>0. /\ f \in Frames /\ f.host \in Hosts /\ f.now \in Nat /\ OneFrame(t, level)
      /\ edited' = edited /\ edited \in [Hosts -> Classes \cup {Absent}]
      /\ f.class \in Classes /\ f.basis \in SUBSET DOMAIN TenantOverrides /\ f.blind \in BOOLEAN
  <2>1. f \in Frames /\ edited \in [Hosts -> Classes \cup {Absent}]
    BY FrameType DEF TypeOK
  <2>2. OneFrame(t, level)
    BY StepOne DEF CallStep
  <2>3. edited' = edited
    BY DEF Call, CallStep, Sent, SendRaises, TurnDown, Enter, Lookup, Insert, Touch, Scan,
           Done, Fails, history
  <2> HIDE DEF f
  <2> QED  BY <2>1, <2>2, <2>3 DEF Frames
<1>1. ASSUME NEW u \in Threads, NEW l \in 1..2 PROVE CarriesClass(frame'[u][l])
  <2>1. CASE ~(u = t /\ l = level)
    BY <1>0, <2>1 DEF OneFrame, ClassInv
  <2>2. CarriesClass(g)
    <3>1. CASE Enter(t, level)
      BY <3>1, EnterClass
    <3>2. CASE Lookup(t, level) \/ Insert(t, level)
      <4>1. g.at \in {"lookup", "insert"}
              => /\ g.class = f.class /\ g.host = f.host /\ g.basis = f.basis /\ g.blind = f.blind
                 /\ f.at \in {"lookup", "insert"}
        <5>1. f.at \in {"lookup", "insert"}
          BY <3>2 DEF Lookup, Insert, At
        <5>2. \/ g = [f EXCEPT !.at = "insert"] \/ g = [f EXCEPT !.at = "touch"]
              \/ g = [f EXCEPT !.at = "scan", !.touches = @ + 1]
          BY <3>2, StepOne
        <5> HIDE DEF f, g
        <5> QED  BY <1>0, <5>1, <5>2 DEF Frames
      <4>2. CarriesClass(f)
        BY DEF ClassInv
      <4> HIDE DEF f, g
      <4> QED  BY <4>1, <4>2 DEF CarriesClass
    <3>3. CASE ~Enter(t, level) /\ ~(Lookup(t, level) \/ Insert(t, level))
      <4>1. g.at \notin {"lookup", "insert"}
        <5>1. Touch(t, level) => g = [f EXCEPT !.at = "scan", !.touches = @ + 1]
          BY StepOne
        <5>2. Touch(t, level) => g.at = "scan"
          BY <1>0, <5>1 DEF Frames
        <5>3. ~Touch(t, level) => g.at \in {"send", "record", "idle", "notify"}
          BY <3>3, StepOne DEF CallStep
        <5> QED  BY <5>2, <5>3
      <4> QED  BY <4>1 DEF CarriesClass
    <3> QED  BY <3>1, <3>2, <3>3
  <2> QED  BY <2>1, <2>2
<1>2. \A h \in Hosts : services[h] # Absent => services'[h] # Absent
  BY ServicesStay DEF Next
<1>3. ASSUME NEW h \in Hosts PROVE OneSource(h)'
  <2>0. OneSource(h) /\ (edited[h] # Absent => services[h] # Absent)
    BY DEF ClassInv
  <2>1. CASE Insert(t, level) /\ services[f.host] = Absent
    <3>1. /\ services' = [services EXCEPT ![f.host] = [class |-> f.class, first |-> f.now, last |-> f.now]]
          /\ basis' = [basis EXCEPT ![f.host] = f.basis]
          /\ blinded' = IF f.blind THEN blinded \cup {f.host} ELSE blinded \ {f.host}
      BY <2>1 DEF Insert
    <3>2. CASE h = f.host
      <4>1. services'[h].class = f.class /\ basis'[h] = f.basis
            /\ (h \in blinded') = f.blind
        BY <1>0, <3>1, <3>2 DEF TypeOK
      <4>2. edited'[h] = Absent
        BY <1>0, <2>0, <2>1, <3>2
      <4>3. f.class = Resolved(f.host, RowsRead(f.basis, f.blind))
        BY <2>1 DEF ClassInv, CarriesClass, Insert, At
      <4> HIDE DEF f
      <4> QED  BY <3>2, <4>1, <4>2, <4>3 DEF OneSource
    <3>3. CASE h # f.host
      <4>1. /\ services'[h] = services[h] /\ basis'[h] = basis[h]
            /\ (h \in blinded') = (h \in blinded)
        BY <1>0, <3>1, <3>3 DEF TypeOK
      <4> QED  BY <1>0, <2>0, <4>1 DEF OneSource
    <3> QED  BY <3>2, <3>3
  <2>2. CASE Touch(t, level)
    <3>1. services' = [services EXCEPT ![f.host].last = f.now] /\ basis' = basis /\ blinded' = blinded
      BY <2>2 DEF Touch
    <3>2. services[f.host] \in Services
      BY <1>0, <2>2 DEF Touch, At, Known, TypeOK
    <3>3. services'[h] = services[h] \/ (services[h] # Absent /\ services'[h].class = services[h].class)
      BY <1>0, <3>1, <3>2, EgressAssumption DEF TypeOK, Services
    <3> HIDE DEF f
    <3> QED  BY <1>0, <2>0, <3>1, <3>3 DEF OneSource
  <2>3. CASE ~(Insert(t, level) /\ services[f.host] = Absent) /\ ~Touch(t, level)
    <3>1. services' = services /\ basis' = basis /\ blinded' = blinded
      <4>1. Insert(t, level) => UNCHANGED <<services, basis, blinded>>
        BY <2>3 DEF Insert
      <4>2. Call(t, level) \/ Enter(t, level) \/ Lookup(t, level) => UNCHANGED <<services, basis, blinded>>
        BY DEF Call, Enter, Lookup, history
      <4>3. Sent(t, level) \/ SendRaises(t, level) \/ TurnDown(t, level) => UNCHANGED <<services, basis, blinded>>
        BY DEF Sent, SendRaises, TurnDown
      <4>4. Scan(t, level) \/ Done(t, level) \/ Fails(t, level) => UNCHANGED <<services, basis, blinded>>
        BY DEF Scan, Done, Fails
      <4> QED  BY <2>3, <4>1, <4>2, <4>3, <4>4 DEF CallStep
    <3> QED  BY <1>0, <2>0, <3>1 DEF OneSource
  <2> QED  BY <2>1, <2>2, <2>3
<1> HIDE DEF f, g
<1> QED  BY <1>0, <1>1, <1>2, <1>3 DEF ClassInv

LEMMA ClassStep == ASSUME EgressInv, ClassInv, [Next]_vars PROVE ClassInv'
<1> USE DEF EgressInv
<1>1. ASSUME NEW t \in Threads, NEW level \in 1..2, CallStep(t, level) \/ Call(t, level) PROVE ClassInv'
  BY <1>1, CallClass
<1>2. ASSUME NEW class \in Classes, SaveForm(class) PROVE ClassInv'
  <2>1. /\ form \in [host : Hosts, row : Services] /\ frame' = frame /\ basis' = basis /\ blinded' = blinded
        /\ services' = [services EXCEPT ![form.host] = [form.row EXCEPT !.class = class]]
        /\ edited' = [edited EXCEPT ![form.host] = class]
    BY <1>2 DEF SaveForm, TypeOK
  <2> DEFINE row == [form.row EXCEPT !.class = class]
             host == form.host
  <2>2. row \in Services /\ row.class = class /\ class # Absent /\ row # Absent /\ host \in Hosts
    BY <2>1, EgressAssumption DEF Services
  <2>3. services' = [services EXCEPT ![host] = row] /\ edited' = [edited EXCEPT ![host] = class]
    BY <2>1
  <2> HIDE DEF row, host
  <2>4. ASSUME NEW h \in Hosts PROVE OneSource(h)' /\ (edited'[h] # Absent => services'[h] # Absent)
    <3>1. CASE h = host
      BY <2>2, <2>3, <3>1 DEF OneSource, TypeOK
    <3>2. CASE h # host
      <4>1. services'[h] = services[h] /\ edited'[h] = edited[h] /\ basis'[h] = basis[h]
        BY <2>1, <2>2, <2>3, <3>2 DEF TypeOK
      <4> QED  BY <2>1, <4>1 DEF ClassInv, OneSource
    <3> QED  BY <3>1, <3>2
  <2> QED  BY <2>1, <2>4 DEF ClassInv
<1>3. ASSUME UNCHANGED <<services, frame, edited, basis, blinded>> PROVE ClassInv'
  BY <1>3 DEF ClassInv, OneSource
<1> QED
  BY <1>1, <1>2, <1>3
     DEF Next, vars, OpenForm, EditOverrides, RepatchBounded, Tick, recording, history

\* sinks.py:181-233: whatever hosts, keys and classes there are, no recording
\* overwrites what an operator saved, and any other service has the class of the
\* entry no other outranks, among the overrides that existed when it was first seen,
\* or without them when their query failed then.
THEOREM ClassHolds == Spec => []ClassHasOneSource
<1>1. Init => ClassInv
  <2> SUFFICES ASSUME Init PROVE ClassInv
    OBVIOUS
  <2>1. /\ \A t \in Threads, level \in 1..2 : frame[t][level] = Idle
        /\ \A h \in Hosts : services[h] = Absent /\ edited[h] = Absent
    BY DEF Init
  <2>2. Idle.at = "idle"
    BY DEF Idle
  <2> QED  BY <2>1, <2>2 DEF ClassInv, CarriesClass, OneSource
<1>2. EgressInv /\ ClassInv /\ [Next]_vars => ClassInv'
  BY ClassStep
<1>3. EgressInv /\ ClassInv => ClassHasOneSource
  <2> SUFFICES ASSUME EgressInv, ClassInv, NEW h \in Hosts, services[h] # Absent, edited[h] = Absent
               PROVE  LET entries == Candidates(h, RowsRead(basis[h], h \in blinded))
                      IN  \/ entries = {} /\ services[h].class = Unknown
                          \/ \E x \in entries : /\ \A y \in entries : ~Outranks(y, x)
                                                /\ services[h].class = EntryToInfo(x[3])
    BY DEF ClassHasOneSource, ClassInv, OneSource
  <2>1. services[h].class = Resolved(h, RowsRead(basis[h], h \in blinded))
    BY DEF ClassInv, OneSource
  <2>2. RowsRead(basis[h], h \in blinded) \in SUBSET DOMAIN TenantOverrides
    BY DEF EgressInv, TypeOK, RowsRead
  <2> QED  BY <2>1, <2>2, ResolvedIsBest
<1> QED  BY <1>1, <1>2, <1>3, EgressInvInit, EgressInvStep, PTL DEF Spec
=============================================================================
