---------------------------- MODULE SinkResolver ----------------------------
(***************************************************************************)
(* What kind of sink a host is when it is first seen, and how sensitive a  *)
(* new asset is: the catalogs of wiregraph_core/sinks.py, their layering   *)
(* in detection/adapters/sinks.py.                                         *)
(*                                                                         *)
(* A host and a catalog key are sequences of lower-case labels, so that    *)
(* "host == s or host.endswith('.' + s)" is "s is a suffix of host".  The  *)
(* host is a netloc: a port is part of its last label.  An entry's accepts *)
(* is {} for None and {l} for the list l.  Display names are left out.     *)
(***************************************************************************)
EXTENDS Classifier, Sequences

Entry(category, trust, accepts) ==
  [category |-> category, trust |-> trust, accepts |-> accepts]

BuiltinKeys ==
  [ payments       |-> {<<"stripe", "com">>},
    sms            |-> {<<"twilio", "com">>},
    email_provider |-> {<<"sendgrid", "com">>, <<"mailgun", "org">>},
    auth           |-> {<<"auth0", "com">>, <<"clerk", "dev">>},
    llm            |-> {<<"api", "openai", "com">>, <<"api", "anthropic", "com">>,
                        <<"generativelanguage", "googleapis", "com">>,
                        <<"bedrock-runtime", "amazonaws", "com">>},
    analytics      |-> {<<"segment", "io">>, <<"mixpanel", "com">>, <<"amplitude", "com">>},
    storage        |-> {<<"s3", "amazonaws", "com">>} ]

\* The transactional services are trusted with their category's assets, the
\* others are known and given an empty list.
BUILTIN_CATALOG ==
  [key \in UNION {BuiltinKeys[c] : c \in DOMAIN BuiltinKeys} |->
     LET category == CHOOSE c \in DOMAIN BuiltinKeys : key \in BuiltinKeys[c]
     IN  IF category \in {"payments", "sms", "email_provider", "auth"}
         THEN Entry(category, "trusted", {})
         ELSE Entry(category, "known", {{}})]

\* sensitivity_for, with ASSET_SENSITIVITY by level.
SensitivityFor(asset) ==
  CASE asset \in {"credit_card", "ssn"}                                  -> "critical"
    [] asset \in {"passport", "driver_license", "medical_license", "iban"} -> "high"
    [] asset \in {"ipv4", "ipv6", "date_time"}                           -> "low"
    [] OTHER                                                             -> "medium"

-----------------------------------------------------------------------------
IsUnder(host, key) ==
  /\ Len(key) <= Len(host)
  /\ SubSeq(host, Len(host) - Len(key) + 1, Len(host)) = key

Covering(host, catalog) == {key \in DOMAIN catalog : IsUnder(host, key)}

\* _match_catalog, when an entry covers the host: the longest key wins.  (Two
\* keys of equal length that cover a host are the same key.)
MatchCatalog(host, catalog) ==
  catalog[CHOOSE key \in Covering(host, catalog) :
            \A other \in Covering(host, catalog) : Len(other) <= Len(key)]

\* _entry_to_info: the category's assets stand in for a missing list.
EntryToInfo(entry) ==
  [entry EXCEPT !.accepts = IF @ = {} THEN CategoryDefault(entry.category) ELSE UNION @]

Unknown == Entry("unknown", "unknown", {})

\* resolve_from_catalogs: the first catalog with a matching entry wins, however
\* short its key.
ResolveFromCatalogs(host, catalogs) ==
  LET hits == {i \in DOMAIN catalogs : Covering(host, catalogs[i]) # {}}
  IN  IF hits = {} THEN Unknown
      ELSE EntryToInfo(MatchCatalog(host, catalogs[CHOOSE i \in hits : \A j \in hits : i <= j]))

\* What _tenant_overrides makes of a row: "accepts_assets or None", so that an empty
\* list is a missing one.  (In a setting it is an empty list.)
OverrideEntry(row) ==
  [row EXCEPT !.accepts = IF UNION @ = {} THEN {} ELSE @]

\* resolve_sink: tenant rows, then settings, then the built-in catalog.
ResolveSink(host, tenantOverrides, settingsOverrides) ==
  ResolveFromCatalogs(host, <<tenantOverrides, settingsOverrides, BUILTIN_CATALOG>>)
=============================================================================
