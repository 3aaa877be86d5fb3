------------------------------- MODULE Providers -------------------------------
(***************************************************************************)
(* The provider registry and the control-plane routes that change it.      *)
(*                                                                         *)
(* Every gateway keeps, in its own process, a configuration, a secret and  *)
(* an adapter per provider.  A route changes them in one synchronous run   *)
(* of registry code (health() of an adapter suspends nowhere), then awaits *)
(* the write of an audit record; the gateway may die in between, and       *)
(* starts again from its settings.  Inference asks the map of adapters.    *)
(*                                                                         *)
(* A masked key is modelled by the secret it was made from.  Regions,      *)
(* addresses and default models are left out: an update that names a model *)
(* without price is refused before anything changes.                       *)
(***************************************************************************)
EXTENDS Naturals, FiniteSets

CONSTANTS
  Gateway, Provider, Secret, NoSecret,
  Keyed,        \* the providers with auth type API_KEY
  Iam,          \* the provider with auth type IAM_ROLE
  BootSecret,   \* BootSecret[p]: the key of p in the settings
  BootEnabled,  \* the other providers the settings enable
  Request,      \* control-plane calls
  Ambient       \* what an adapter without a key is built with

ASSUME ProvidersAssumption ==
  /\ Keyed \subseteq Provider /\ Iam \subseteq Provider \ Keyed
  /\ BootSecret \in [Keyed -> Secret \cup {NoSecret}]
  /\ BootEnabled \subseteq Provider \ Keyed
  /\ NoSecret \notin Secret \cup {Ambient} /\ Ambient \notin Secret

VARIABLES
  config,     \* config[g][p]: ProviderConfig
  secret,     \* secret[g][p]: the key in memory
  adapter,    \* adapter[g][p]: what p's adapter was built with, or NoSecret for none
  request,    \* request[r]: where a control-plane call stands
  audit       \* audit[r]: the record written for call r

registry == <<config, secret, adapter, request, audit>>

Status == {"untested", "healthy", "unhealthy"}
Config == [enabled : BOOLEAN, configured : BOOLEAN, masked : Secret \cup {NoSecret},
           status : Status]

None == "none"
AuditRow ==
  [action : {"provider.configured", "provider.updated", "provider.enabled",
             "provider.disabled", "provider.connection_tested"},
   before : {"configured", "unconfigured", "enabled", "disabled", "untested"},
   after : {"configured", "unconfigured", "enabled", "disabled"} \cup Status]

\* What the registry was before the call, kept to judge its record.
Frame == [pc : {"auditing", "done", "refused", "lost"}, at : Gateway, for : Provider,
          row : SUBSET AuditRow, was : Config]

-----------------------------------------------------------------------------
(* Adapters *)

\* _build_adapter_instance: a keyed provider needs its secret.
Built(p, key) == IF p \in Keyed THEN key ELSE Ambient

\* Fault: a disabled provider keeps its adapter.
KeepAdapter(g, p, cfg, key) == adapter' = [adapter EXCEPT ![g][p] = Built(p, key)]

\* Fault: an update only ever takes an adapter away.
OnlyRemove(g, p, cfg, key) ==
  adapter' = [adapter EXCEPT ![g][p] = IF cfg.enabled THEN @ ELSE NoSecret]

\* _rebuild_adapter
Rebuild(g, p, cfg, key) ==
  adapter' = [adapter EXCEPT ![g][p] = IF cfg.enabled THEN Built(p, key) ELSE NoSecret]

\* _initialize_defaults: a keyed provider is configured by its key; the test
\* provider always is.
BootConfig == [p \in Provider |->
  IF p \in Keyed
  THEN [enabled |-> BootSecret[p] # NoSecret, configured |-> BootSecret[p] # NoSecret,
        masked |-> BootSecret[p], status |-> "untested"]
  ELSE [enabled |-> p \in BootEnabled, configured |-> p \in BootEnabled \/ p \notin Iam,
        masked |-> NoSecret,
        status |-> IF p \in BootEnabled \ Iam THEN "healthy" ELSE "untested"]]
BootSecrets == [p \in Provider |-> IF p \in Keyed THEN BootSecret[p] ELSE NoSecret]
BootAdapters == [p \in Provider |-> IF BootConfig[p].enabled THEN Built(p, BootSecrets[p])
                                    ELSE NoSecret]

-----------------------------------------------------------------------------
(* update_provider.  key is a new secret, "" to clear it, or None; an echo   *)
(* of the masked key counts as None.  want is {} for None.                   *)

KeyInput == Secret \cup {"", None}
WantInput == {{}, {TRUE}, {FALSE}}

SecretAfter(g, p, key) ==
  IF p \in Keyed /\ key # None THEN IF key = "" THEN NoSecret ELSE key ELSE secret[g][p]

ConfiguredAfter(g, p, key) ==
  IF p \in Keyed /\ key # None THEN key # "" ELSE config[g][p].configured \/ p \in Iam

MaskedAfter(g, p, key) ==
  IF p \in Keyed /\ key # None THEN IF key = "" THEN NoSecret ELSE key
  ELSE config[g][p].masked

EnabledAfter(g, p, want) ==
  IF want = {} THEN config[g][p].enabled ELSE CHOOSE on \in want : TRUE

\* cannot enable a keyed provider without its key
Refused(g, p, key, want) ==
  EnabledAfter(g, p, want) /\ ~ConfiguredAfter(g, p, key) /\ p \in Keyed

\* The secret is replaced before the refusal is decided; the status is kept.
UpdateProvider(g, p, key, want) ==
  /\ secret' = [secret EXCEPT ![g][p] = SecretAfter(g, p, key)]
  /\ IF Refused(g, p, key, want) THEN UNCHANGED <<config, adapter>>
     ELSE LET cfg == [config[g][p] EXCEPT !.enabled = EnabledAfter(g, p, want),
                                          !.configured = ConfiguredAfter(g, p, key),
                                          !.masked = MaskedAfter(g, p, key)]
          IN /\ config' = [config EXCEPT ![g][p] = cfg]
             /\ Rebuild(g, p, cfg, SecretAfter(g, p, key))

-----------------------------------------------------------------------------
(* Routes: a change, then its audit record *)

Unused(r) == r \notin DOMAIN request
Enter(r, g, p, pc, row) ==
  request' = [q \in DOMAIN request \cup {r} |->
                IF q = r THEN [pc |-> pc, at |-> g, for |-> p, row |-> row, was |-> config[g][p]]
                ELSE request[q]]
ToAudit(r, g, p, action, before, after) ==
  Enter(r, g, p, "auditing", {[action |-> action, before |-> before, after |-> after]})

ConfiguredName(configured) == IF configured THEN "configured" ELSE "unconfigured"

PutProvider(r, g, p, key, want) ==
  /\ Unused(r)
  /\ UpdateProvider(g, p, key, want)
  /\ IF Refused(g, p, key, want) THEN Enter(r, g, p, "refused", {})
     ELSE LET had == config[g][p].configured has == ConfiguredAfter(g, p, key) IN
          ToAudit(r, g, p, IF ~had /\ has THEN "provider.configured" ELSE "provider.updated",
                  ConfiguredName(had), ConfiguredName(has))
  /\ UNCHANGED audit

\* Enabling an unconfigured provider is refused; the record has a fixed transition.
EnableProvider(r, g, p) ==
  /\ Unused(r)
  /\ IF config[g][p].configured
     THEN /\ UpdateProvider(g, p, None, {TRUE})
          /\ ToAudit(r, g, p, "provider.enabled", "disabled", "enabled")
     ELSE /\ UNCHANGED <<config, secret, adapter>>
          /\ Enter(r, g, p, "refused", {})
  /\ UNCHANGED audit

DisableProvider(r, g, p) ==
  /\ Unused(r)
  /\ UpdateProvider(g, p, None, {FALSE})
  /\ ToAudit(r, g, p, "provider.disabled", "enabled", "disabled")
  /\ UNCHANGED audit

\* What a connection test finds: a key, or credentials in the environment.
TestResult(g, p) ==
  IF p \in Keyed THEN {IF secret[g][p] # NoSecret THEN "healthy" ELSE "unhealthy"}
  ELSE IF p \in Iam THEN {"healthy", "unhealthy"} ELSE {"healthy"}

TestConnection(r, g, p) ==
  /\ Unused(r)
  /\ \E found \in TestResult(g, p) \cup {"unhealthy"} :   \* unhealthy: a model without price
       /\ config' = [config EXCEPT ![g][p].status = found]
       /\ ToAudit(r, g, p, "provider.connection_tested", "untested", found)
  /\ UNCHANGED <<secret, adapter, audit>>

RecordAudit(r) ==
  /\ r \in DOMAIN request /\ request[r].pc = "auditing"
  /\ audit' = [q \in DOMAIN audit \cup {r} |-> IF q = r THEN CHOOSE row \in request[r].row : TRUE ELSE audit[q]]
  /\ request' = [request EXCEPT ![r].pc = "done"]
  /\ UNCHANGED <<config, secret, adapter>>

\* A gateway dies, or is replaced by a deployment, and starts from its settings.
Restart(g) ==
  /\ config' = [config EXCEPT ![g] = BootConfig]
  /\ secret' = [secret EXCEPT ![g] = BootSecrets]
  /\ adapter' = [adapter EXCEPT ![g] = BootAdapters]
  /\ request' = [r \in DOMAIN request |->
       IF request[r].at = g /\ request[r].pc = "auditing"
       THEN [request[r] EXCEPT !.pc = "lost"] ELSE request[r]]
  /\ UNCHANGED audit

RegistryInit ==
  /\ config = [g \in Gateway |-> BootConfig]
  /\ secret = [g \in Gateway |-> BootSecrets]
  /\ adapter = [g \in Gateway |-> BootAdapters]
  /\ request = [r \in {} |-> None]
  /\ audit = [r \in {} |-> None]

RegistryNext ==
  \/ \E r \in Request, g \in Gateway, p \in Provider :
       \/ \E key \in KeyInput, want \in WantInput : PutProvider(r, g, p, key, want)
       \/ EnableProvider(r, g, p) \/ DisableProvider(r, g, p) \/ TestConnection(r, g, p)
  \/ \E r \in Request : RecordAudit(r)
  \/ \E g \in Gateway : Restart(g)

RegistrySpec == RegistryInit /\ [][RegistryNext]_registry

-----------------------------------------------------------------------------
(* Properties *)

RegistryTypeOK ==
  /\ config \in [Gateway -> [Provider -> Config]]
  /\ secret \in [Gateway -> [Provider -> Secret \cup {NoSecret}]]
  /\ adapter \in [Gateway -> [Provider -> Secret \cup {NoSecret, Ambient}]]
  /\ DOMAIN request \subseteq Request /\ DOMAIN audit \subseteq DOMAIN request
  /\ request \in [DOMAIN request -> Frame] /\ audit \in [DOMAIN audit -> AuditRow]

Serves(g, p) == adapter[g][p] # NoSecret

\* Whatever updates, refusals and restarts a gateway has seen, it serves only
\* providers that are enabled there, never with a key that was replaced.
ServesWhatIsEnabled ==
  \A g \in Gateway, p \in Provider : Serves(g, p) =>
    /\ config[g][p].enabled
    /\ p \in Keyed /\ secret[g][p] # NoSecret => adapter[g][p] = secret[g][p]

\* An enabled provider whose key is at hand is served: no sequence of calls
\* leaves the configuration enabled and the adapter out of the map.
EnabledWithKeyIsServed ==
  \A g \in Gateway, p \in Provider :
    config[g][p].enabled /\ (p \in Keyed => secret[g][p] # NoSecret) => Serves(g, p)

\* A keyed provider is shown enabled only while it is shown configured.
EnabledIsConfigured ==
  \A g \in Gateway, p \in Keyed : config[g][p].enabled =>
    config[g][p].configured /\ config[g][p].masked # NoSecret

\* A gateway that shows a provider as configured has its key.
ConfiguredHasKey ==
  \A g \in Gateway, p \in Keyed : config[g][p].configured => secret[g][p] # NoSecret

\* A call to disable that was answered, the only one so far, holds: no gateway
\* serves the provider.
DisabledEverywhere ==
  \A r \in DOMAIN audit : audit[r].action = "provider.disabled" /\ DOMAIN request = {r} =>
    \A g \in Gateway : ~Serves(g, request[r].for)

\* The transition an audit record states is the one that happened.
AuditStatesTheTransition ==
  \A r \in DOMAIN audit :
    audit[r].action = "provider.enabled" => ~request[r].was.enabled

-----------------------------------------------------------------------------
(* What the properties rest on, kept by every step *)

\* A gateway's adapters are what its configuration and its keys would build
\* now.  Only a key that was cleared by a refused update leaves its adapter.
AdaptersAreCurrent ==
  \A g \in Gateway, p \in Provider :
    \/ adapter[g][p] = (IF config[g][p].enabled THEN Built(p, secret[g][p]) ELSE NoSecret)
    \/ config[g][p].enabled /\ p \in Keyed /\ secret[g][p] = NoSecret

\* A call that is about to write its record has one to write.
RecordsAreReady ==
  \A r \in DOMAIN request : request[r].pc = "auditing" => request[r].row # {}

\* The inductive invariant.
InOrder == RegistryTypeOK /\ AdaptersAreCurrent /\ RecordsAreReady
================================================================================
