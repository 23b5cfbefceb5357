----------------------------- MODULE Transports -----------------------------
(***************************************************************************)
(* Installing and removing the monkey patches of the HTTP clients          *)
(* (egress/interceptor.py), beside another library that patches the same   *)
(* methods.                                                                *)
(*                                                                         *)
(* What a client's send method is at a moment is the sequence of wrappers  *)
(* around the library's own function, the outermost first: <<>> is the     *)
(* library's function itself.                                              *)
(***************************************************************************)
EXTENDS Integers, Sequences, FiniteSets

CONSTANTS
  Clients,      \* the registered transports
  Importable    \* those whose library is installed

ASSUME ClientsAssumption == Importable \subseteq Clients

VARIABLES
  tracking,     \* ENABLE_EGRESS_TRACKING and not DISABLE_EGRESS_PATCHING
  method,       \* the wrappers around each client's send method
  installed,    \* the adapter's flag
  original,     \* the method the adapter saved when it was installed
  instrumented, \* another library has patched the client,
  saved,        \* and this is the method it saved
  \* History.
  crossed       \* clients where one side took off more than its own wrapper

transports == <<tracking, method, installed, original, instrumented, saved, crossed>>

Wrappers == {"ours", "other"}
Wrap(wrapper, inner) == <<wrapper>> \o inner

TransportsTypeOK ==
  /\ tracking \in BOOLEAN
  /\ method \in [Clients -> Seq(Wrappers)]
  /\ installed \in [Clients -> BOOLEAN]
  /\ original \in [Clients -> Seq(Wrappers)]
  /\ instrumented \in [Clients -> BOOLEAN]
  /\ saved \in [Clients -> Seq(Wrappers)]
  /\ crossed \subseteq Clients

TransportsInit ==
  /\ tracking \in BOOLEAN
  /\ method = [c \in Clients |-> <<>>]
  /\ installed = [c \in Clients |-> FALSE]
  /\ original = [c \in Clients |-> <<>>]
  /\ instrumented = [c \in Clients |-> FALSE]
  /\ saved = [c \in Clients |-> <<>>]
  /\ crossed = {}

-----------------------------------------------------------------------------
\* Mutant: the flag is not looked at.
InstallAgain ==
  /\ tracking
  /\ method' = [c \in Clients |-> IF c \in Importable THEN Wrap("ours", method[c]) ELSE method[c]]
  /\ original' = [c \in Clients |-> IF c \in Importable THEN method[c] ELSE original[c]]
  /\ installed' = [c \in Clients |-> c \in Importable]
  /\ UNCHANGED <<tracking, instrumented, saved, crossed>>

\* install_egress_patches: every adapter that is not installed saves the method
\* it finds and wraps it.  An adapter without its library stays uninstalled.
InstallPatches ==
  LET new == {c \in Importable : ~installed[c]}
  IN  /\ tracking
      /\ method' = [c \in Clients |-> IF c \in new THEN Wrap("ours", method[c]) ELSE method[c]]
      /\ original' = [c \in Clients |-> IF c \in new THEN method[c] ELSE original[c]]
      /\ installed' = [c \in Clients |-> installed[c] \/ c \in new]
      /\ UNCHANGED <<tracking, instrumented, saved, crossed>>

\* uninstall_egress_patches puts back the method each adapter saved, whatever has
\* been wrapped around its own wrapper since.
UninstallPatches ==
  LET old == {c \in Clients : installed[c]}
  IN  /\ method' = [c \in Clients |-> IF c \in old THEN original[c] ELSE method[c]]
      /\ original' = [c \in Clients |-> IF c \in old THEN <<>> ELSE original[c]]
      /\ installed' = [c \in Clients |-> FALSE]
      /\ crossed' = crossed \cup {c \in old : method[c] # Wrap("ours", original[c])}
      /\ UNCHANGED <<tracking, instrumented, saved>>

\* Another library (tracing, a test double) does the same with one client.
OtherPatch(c) ==
  /\ c \in Importable /\ ~instrumented[c]
  /\ saved' = [saved EXCEPT ![c] = method[c]]
  /\ method' = [method EXCEPT ![c] = Wrap("other", @)]
  /\ instrumented' = [instrumented EXCEPT ![c] = TRUE]
  /\ UNCHANGED <<tracking, installed, original, crossed>>

OtherRestore(c) ==
  /\ instrumented[c]
  /\ method' = [method EXCEPT ![c] = saved[c]]
  /\ saved' = [saved EXCEPT ![c] = <<>>]
  /\ instrumented' = [instrumented EXCEPT ![c] = FALSE]
  /\ crossed' = IF method[c] = Wrap("other", saved[c]) THEN crossed ELSE crossed \cup {c}
  /\ UNCHANGED <<tracking, installed, original>>

Repatch ==
  \/ InstallPatches \/ UninstallPatches
  \/ \E c \in Clients : OtherPatch(c) \/ OtherRestore(c)

-----------------------------------------------------------------------------
Count(wrapper, chain) == Cardinality({i \in DOMAIN chain : chain[i] = wrapper})

\* interceptor.py:189-203, 258-271 and their like: as long as nobody restores
\* across another's wrapper, a client carries one wrapper of ours exactly when its
\* adapter says it is installed, and the other library's exactly when that is.
PatchesMatchFlags ==
  \A c \in Clients \ crossed :
    /\ Count("ours", method[c]) = IF installed[c] THEN 1 ELSE 0
    /\ Count("other", method[c]) = IF instrumented[c] THEN 1 ELSE 0
=============================================================================
