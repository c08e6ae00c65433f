------------------------------ MODULE Settings ------------------------------
(* What a process works with (config/__init__.py, providers/runtime.py,     *)
(* cli.build_agent): the settings of the command line, the environment, the *)
(* user's and the project's TOML file and the project's .env file, and the  *)
(* clients, the sandbox and the retrieval settings made of them.  The main  *)
(* client is made before .env is loaded into the environment; a worker's    *)
(* client, the vision client and the retrieval settings come after.         *)
(* A value stands for the source that wrote it: only where it comes from    *)
(* matters here.  The process was started in the root of the repository.    *)
EXTENDS FiniteSetsExt, SequencesExt

CONSTANTS
  Worlds,         \* the situations the process may start in
  World,          \* what the sources say in each of them
  Names,          \* names of environment variables
  Fields,         \* "model", "base_url", "api_key"
  WithDefault,    \* the fields every built-in provider has a value for
  Builtin,        \* the providers of PROVIDER_DEFAULTS
  FirstProvider,  \* DEFAULT_PROVIDER
  Canonical,      \* the provider a name a user may write stands for
  Seeing,         \* built-in providers whose model takes images
  VisionBy,       \* the vision provider of a built-in provider that has one
  General,        \* GENCODE_MODEL and the like, by field
  Own,            \* PROVIDER_ENV_NAMES, by provider and field, best first
  Older,          \* LEGACY_ENV_NAMES, by provider and field, best first
  ForVision       \* GENCODE_VISION_MODEL and the like, by field

Unset == ""
FileNames == {"user", "project", "explicit"}
Kinds == {"main", "worker", "vision"}
(* Environment variables that say something else than a client's field.     *)
Special == {"GENCODE_PROVIDER", "GENCODE_PROTOCOL", "GENCODE_VISION_PROVIDER",
            "GENCODE_EMBEDDING_MODEL"}

ASSUME SettingsAssumption ==
  /\ Special \subseteq Names /\ WithDefault \subseteq Fields
  /\ \A w \in Worlds :
       /\ World[w].env \cup World[w].dotenv \subseteq Names
       /\ World[w].unreadable \subseteq FileNames \cup {"dotenv"}
       /\ \A source \in DOMAIN World[w].named : Canonical[World[w].named[source]] \in DOMAIN Own
       /\ \A source \in DOMAIN World[w].sees : Canonical[World[w].sees[source]] \in DOMAIN Own
       /\ DOMAIN World[w].named = FileNames \cup {"arg", "env", "dotenv"}
       /\ DOMAIN World[w].sees = FileNames \cup {"arg", "env"}
  /\ FirstProvider \in DOMAIN Own /\ \A p \in DOMAIN VisionBy : VisionBy[p] \in DOMAIN Own
  /\ Unset \notin DOMAIN Own /\ DOMAIN Older = DOMAIN Own
  /\ \A p \in DOMAIN Own, f \in Fields : Own[p][f] \in Seq(Names) /\ Older[p][f] \in Seq(Names)
  /\ \A f \in Fields : ForVision[f] \in Seq(Names) /\ General[f] \in Names

VARIABLES
  world,    \* what the sources say
  brought,  \* the variables .env has brought into os.environ
  started,  \* how far the start has come, or "failed"
  clients,  \* the clients made so far, by their use
  settings, \* the retrieval settings and the sandbox's mode
  ran       \* how the last shell command was run

settingsVars == <<world, brought, started, clients, settings, ran>>

-----------------------------------------------------------------------------
(* The first value that is there (_first_value).                            *)
FirstValue(values) ==
  LET i == SelectInSeq(values, LAMBDA v : v # Unset)
  IN IF i = 0 THEN Unset ELSE values[i]

EnvironAt(n) == IF n \in brought THEN "dotenv"
                ELSE IF n \in World[world].env THEN "env" ELSE Unset
Environ(names) == FirstValue([i \in DOMAIN names |-> EnvironAt(names[i])])
Dotenv(names) ==
  FirstValue([i \in DOMAIN names |-> IF names[i] \in World[world].dotenv THEN "dotenv" ELSE Unset])
Argument(key) == IF key \in World[world].arg THEN "arg" ELSE Unset

(* --config replaces the user's and the project's file; of these two, the  *)
(* project's wins, key by key (_merge_config_values).                       *)
FilesRead(config) == IF config /\ World[world].config THEN <<"explicit">> ELSE <<"project", "user">>
FromFiles(key, config) ==
  LET read == FilesRead(config)
  IN FirstValue([i \in DOMAIN read |-> IF key \in World[world].files[read[i]] THEN read[i] ELSE Unset])
Readable(config) == World[world].unreadable \cap ToSet(FilesRead(config)) = {}

(* A provider's section over its built-in values: the section always has    *)
(* what the built-in values have, so a .env file below it is not asked.     *)
ProfileOf(p, key, builtin) ==
  FirstValue(<<FromFiles(<<p, key>>, TRUE), IF builtin THEN "builtin" ELSE Unset>>)

ProviderAsked == Argument(<<"top", "provider">>)
NamedBy(source) == Canonical[World[world].named[source]]
ProviderFor(asked) ==
  LET source == FirstValue(<<asked, Environ(<<"GENCODE_PROVIDER">>),
                             FromFiles(<<"top", "provider">>, TRUE),
                             Dotenv(<<"GENCODE_PROVIDER">>)>>)
  IN IF source = Unset THEN FirstProvider ELSE NamedBy(source)

ProtocolFor(p) ==
  FirstValue(<<Environ(<<"GENCODE_PROTOCOL">>), ProfileOf(p, "protocol", p \in Builtin),
               Dotenv(<<"GENCODE_PROTOCOL">>)>>)

ValueFor(p, field, override) ==
  FirstValue(<<override,
               Environ(<<General[field]>>),
               Environ(Own[p][field]),
               ProfileOf(p, field, p \in Builtin /\ field \in WithDefault),
               Dotenv(<<General[field]>>),
               Dotenv(Older[p][field])>>)

ClientFor(p, override) ==
  [provider |-> p, value |-> [f \in Fields |-> ValueFor(p, f, override[f])]]

Overrides == [f \in Fields |-> Argument(<<"text", f>>)]
MainClient == ClientFor(ProviderFor(ProviderAsked), Overrides)

(* Faulty: a worker's client without the command line's settings.           *)
WithoutOverrides == ClientFor(ProviderFor(ProviderAsked), [f \in Fields |-> Unset])
(* build_model_client for a worker: everything is resolved once more.       *)
WorkerClient == MainClient

(* resolve_vision_provider_config: settings of their own first; what they   *)
(* leave open is resolved as for any client of that provider.               *)
VisionOverrides ==
  [f \in Fields |-> FirstValue(<<Argument(<<"vision", f>>), Environ(ForVision[f]),
                                 Dotenv(ForVision[f])>>)]
Sees(p) == p \in Seeing \/ FromFiles(<<p, "supports_vision">>, TRUE) # Unset

(* The vision provider the main client's settings name, if they name one.   *)
(* It is looked up when the main client is resolved, before .env is loaded. *)
VisionProvider(p) ==
  LET source == FirstValue(<<Argument(<<"vision", "provider">>),
                             Environ(<<"GENCODE_VISION_PROVIDER">>),
                             FromFiles(<<p, "vision_provider">>, TRUE)>>)
  IN IF source # Unset THEN Canonical[World[world].sees[source]]
     ELSE IF p \in DOMAIN VisionBy THEN VisionBy[p] ELSE Unset

-----------------------------------------------------------------------------
SettingsInit ==
  /\ world \in Worlds
  /\ brought = {}
  /\ started = "start"
  /\ clients = [k \in {} |-> Unset]
  /\ settings = [retrieval |-> Unset, sandbox |-> "off", vision |-> Unset]
  /\ ran = Unset

(* build_provider_runtime: a file that cannot be read or a provider without *)
(* a protocol ends the start.                                               *)
ResolveMain ==
  /\ started = "start"
  /\ LET p == ProviderFor(ProviderAsked)
         sound == Readable(TRUE) /\ "dotenv" \notin World[world].unreadable /\ ProtocolFor(p) # Unset
     IN /\ started' = IF sound THEN "resolved" ELSE "failed"
        /\ clients' = IF sound THEN [k \in {"main"} |-> MainClient] ELSE clients
        /\ settings' = IF sound THEN [settings EXCEPT !.vision = VisionProvider(p)] ELSE settings
  /\ UNCHANGED <<world, brought, ran>>

(* The sandbox's mode: the command line's before the files'.               *)
SandboxAsked ==
  LET source == FirstValue(<<Argument(<<"top", "sandbox">>),
                             FromFiles(<<"top", "sandbox">>, TRUE)>>)
  IN IF source = Unset THEN "off" ELSE World[world].boxed[source]
(* resolve_sandbox_config: an unknown mode ends the start.                  *)
ResolveSandbox ==
  /\ started = "resolved"
  /\ IF SandboxAsked \in {"off", "best_effort", "required"}
     THEN started' = "boxed" /\ settings' = [settings EXCEPT !.sandbox = SandboxAsked]
     ELSE started' = "failed" /\ settings' = settings
  /\ UNCHANGED <<world, brought, clients, ran>>

(* load_project_env(override=False).                                        *)
Loaded == World[world].dotenv \ World[world].env
LoadEnv ==
  /\ started = "boxed"
  /\ brought' = Loaded /\ started' = "loaded"
  /\ UNCHANGED <<world, clients, settings, ran>>

(* The retrieval settings: the environment first, then the project's and   *)
(* the user's file, whatever --config says.                                 *)
RetrievalModel == FirstValue(<<Environ(<<"GENCODE_EMBEDDING_MODEL">>),
                               FromFiles(<<"top", "embedding_model">>, FALSE), "builtin">>)
(* initialize_knowledge, for the knowledge store of the session.            *)
ResolveRetrieval ==
  /\ started = "loaded"
  /\ IF Readable(FALSE)
     THEN /\ started' = "ready"
          /\ settings' = [settings EXCEPT !.retrieval = RetrievalModel]
     ELSE started' = "failed" /\ settings' = settings
  /\ UNCHANGED <<world, brought, clients, ran>>

Made(kind, client) == [k \in DOMAIN clients \cup {kind} |-> IF k = kind THEN client ELSE clients[k]]

(* new_model_client of a worker's runtime.  Without a protocol there is an  *)
(* error and no client, and the next worker tries again.                    *)
MakeWorker ==
  /\ started = "ready" /\ "worker" \notin DOMAIN clients
  /\ ProtocolFor(ProviderFor(ProviderAsked)) # Unset
  /\ clients' = Made("worker", WorkerClient)
  /\ UNCHANGED <<world, brought, started, settings, ran>>

(* ModelClientRouter.vision_client, at the first prompt with an image.      *)
LookAtImage ==
  /\ started = "ready" /\ "vision" \notin DOMAIN clients
  /\ LET p == settings.vision
     IN IF Sees(clients["main"].provider) \/ p = Unset
        THEN clients' = Made("vision", clients["main"])
        ELSE /\ ProtocolFor(p) # Unset
             /\ clients' = Made("vision", ClientFor(p, VisionOverrides))
  /\ UNCHANGED <<world, brought, started, settings, ran>>

(* SandboxRunner.run: a command may be excluded from the sandbox, and the   *)
(* sandbox may not be there.                                                *)
HowToRun(excluded, there) ==
  CASE settings.sandbox = "off" \/ (settings.sandbox # "required" /\ excluded) -> "plain"
    [] there -> "boxed"
    [] settings.sandbox = "required" -> "refused"
    [] OTHER -> "plain"
RunShell ==
  /\ started = "ready"
  /\ \E excluded, there \in BOOLEAN : ran' = HowToRun(excluded, there)
  /\ UNCHANGED <<world, brought, started, clients, settings>>

SettingsNext == ResolveMain \/ ResolveSandbox \/ LoadEnv \/ ResolveRetrieval
                \/ MakeWorker \/ LookAtImage \/ RunShell

SettingsSpec == SettingsInit /\ [][SettingsNext]_settingsVars

-----------------------------------------------------------------------------
Tags == {Unset, "arg", "env", "user", "project", "explicit", "dotenv", "builtin"}
SettingsTypeOK ==
  /\ world \in Worlds
  /\ brought \subseteq Names
  /\ started \in {"start", "resolved", "boxed", "loaded", "ready", "failed"}
  /\ DOMAIN clients \subseteq Kinds
  /\ \A k \in DOMAIN clients :
       clients[k].provider \in DOMAIN Own /\ clients[k].value \in [Fields -> Tags]
  /\ settings.retrieval \in Tags /\ settings.sandbox \in {"off", "best_effort", "required"}
  /\ ran \in {Unset, "plain", "boxed", "refused"}

(* The names a client of provider p reads from the environment.             *)
NamesFor(p) ==
  {"GENCODE_PROVIDER", "GENCODE_PROTOCOL"} \cup
  UNION {{General[f]} \cup ToSet(Own[p][f]) : f \in Fields}

(* .env is a fallback (.env.example:1): the main client takes a setting     *)
(* from it only if neither the command line nor a variable of the           *)
(* environment nor a file has one, and it never changes the value of a      *)
(* variable the process was started with.                                   *)
FallbackStaysBelow ==
  /\ \A n \in World[world].env : EnvironAt(n) = "env"
  /\ "main" \in DOMAIN clients =>
       LET p == clients["main"].provider
       IN \A f \in Fields : clients["main"].value[f] = "dotenv" =>
            /\ <<"text", f>> \notin World[world].arg
            /\ ({General[f]} \cup ToSet(Own[p][f])) \cap World[world].env = {}
            /\ \A file \in ToSet(FilesRead(TRUE)) : <<p, f>> \notin World[world].files[file]

(* A worker talks to the model of the main client, unless .env brought a    *)
(* variable into the environment that a client is resolved from.            *)
WorkersAgree ==
  {"main", "worker"} \subseteq DOMAIN clients =>
    \/ clients["worker"] = clients["main"]
    \/ \E n \in NamesFor(clients["worker"].provider) : n \in brought

(* The command line's settings of the text model do not go to another       *)
(* provider's vision model, and those of the vision model only there.       *)
VisionHasItsOwn ==
  "vision" \in DOMAIN clients /\ clients["vision"] # clients["main"] =>
    \A f \in Fields : (clients["vision"].value[f] = "arg") <=> (<<"vision", f>> \in World[world].arg)

(* Settings reach the clients in the order the files document, and no       *)
(* command runs outside a sandbox that is required.                         *)
SettingsAreSound ==
  /\ FallbackStaysBelow /\ WorkersAgree /\ VisionHasItsOwn
  /\ ran = "plain" => settings.sandbox # "required"
=============================================================================
