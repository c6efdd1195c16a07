---------------------------- MODULE Configuration ----------------------------
(***************************************************************************)
(* config/: how a process comes to its settings.  Four layers are read one *)
(* after the other (the environment variables, the secrets directory,      *)
(* base.toml and the file of the environment), laid over one another, and  *)
(* validated.  Files and directories may be edited, copied, lost or        *)
(* damaged at any time, between two reads of one load as well.             *)
(*                                                                         *)
(* A layer is a function on the dotted paths it sets.  The model has the   *)
(* paths that validators relate; "rest" stands for all others, valid or    *)
(* not, unknown keys and a crossed pool size included.                     *)
(***************************************************************************)
EXTENDS Naturals

CONSTANTS Deployments,  \* the deployments there are at first
          Edits,        \* what may happen to a layer: [to, path, value]
          MaxEdits      \* bound: how often a layer is changed

SecretPaths == {"database.password", "forex.api_token"}

Required == {"app.environment", "database.password", "log_format", "rest"}

Environments == {"development", "production"}

NoLayer == [path \in {} |-> ""]
IsLayer(layer) == DOMAIN layer \subseteq STRING

TomlFiles == {"base", "development", "production"}

Places == {"environ", "secrets"} \cup TomlFiles

\* A file or directory may be absent, unreadable or no TOML, or not be UTF-8; a
\* directory may be one that this process must not list.
Damages == {"missing", "malformed", "garbled", "unlistable"}

VARIABLES deployment,   \* the layer at each place
          condition,    \* "sound", or what is wrong with the place
          edits,
          pc,           \* the read the load comes to next
          environ,      \* the environment variables the process was started with
          environment,  \* SettingsContext.environment
          secrets,      \* what read_secrets_directory returned
          toml,         \* TomlLayeredSource._data
          settings,     \* the Settings object
          outcome       \* how the load ended

vars == <<deployment, condition, edits, pc, environ, environment, secrets, toml, settings, outcome>>
load == <<pc, environ, environment, secrets, toml, settings, outcome>>

TypeOK ==
    /\ DOMAIN deployment = Places
    /\ condition \in [Places -> Damages \cup {"sound"}]
    /\ edits \in 0..MaxEdits
    /\ pc \in {"start", "secrets", "base", "overlay", "validate", "ended"}
    /\ environment \in Environments
    /\ IsLayer(environ) /\ IsLayer(secrets) /\ IsLayer(toml) /\ IsLayer(settings)
    /\ outcome \in {"none", "loaded", "ConfigurationError", "ValueError", "OSError"}
    /\ outcome = "none" <=> pc # "ended"
    /\ Required \subseteq DOMAIN settings <=> outcome = "loaded"

Fresh ==
    /\ pc = "start" /\ environ = NoLayer /\ environment = "development"
    /\ secrets = NoLayer /\ toml = NoLayer /\ settings = NoLayer /\ outcome = "none"

Init ==
    /\ deployment \in Deployments /\ condition = [p \in Places |-> "sound"] /\ edits = 0
    /\ Fresh

-----------------------------------------------------------------------------
\* What others do to the deployment.

Without(layer, path) == [p \in DOMAIN layer \ {path} |-> layer[p]]

deep_merge(base, overlay) ==
    [p \in DOMAIN base \cup DOMAIN overlay |->
        IF p \in DOMAIN overlay THEN overlay[p] ELSE base[p]]

Edit ==
    /\ edits < MaxEdits /\ edits' = edits + 1
    /\ \E e \in Edits :
          /\ condition[e.to] = "sound"
          /\ deployment' = [deployment EXCEPT ![e.to] =
                IF e.value = "unset" THEN Without(@, e.path)
                                     ELSE deep_merge(@, [p \in {e.path} |-> e.value])]
    /\ UNCHANGED <<condition, load>>

\* A file is copied over another, as a production file to a developer's machine.
Copy ==
    /\ edits < MaxEdits /\ edits' = edits + 1
    /\ \E from, to \in TomlFiles :
          /\ deployment' = [deployment EXCEPT ![to] = deployment[from]]
          /\ condition' = [condition EXCEPT ![to] = condition[from]]
    /\ UNCHANGED load

Damage ==
    /\ edits < MaxEdits /\ edits' = edits + 1
    /\ \E place \in Places \ {"environ"}, how \in Damages :
          /\ how = "unlistable" => place = "secrets"
          /\ condition' = [condition EXCEPT ![place] = how]
    /\ UNCHANGED <<deployment, load>>

-----------------------------------------------------------------------------
\* load_settings, read by read.

End(how) == pc' = "ended" /\ outcome' = how

\* SettingsContext.from_environ: the environment variable alone says which file
\* is layered on the base; a name that is no Environment raises a ValueError.
Resolve ==
    /\ pc = "start"
    /\ environ' = deployment["environ"]
    /\ LET named == IF "app.environment" \in DOMAIN environ'
                    THEN environ'["app.environment"] ELSE "development"
       IN  IF named \in Environments
           THEN environment' = named /\ pc' = "secrets" /\ UNCHANGED outcome
           ELSE End("ValueError") /\ UNCHANGED environment
    /\ UNCHANGED <<deployment, condition, edits, secrets, toml, settings>>

IsSound(place) == condition[place] = "sound"

\* A read of a place that is not sound: only errors the readers expect become a
\* ConfigurationError.
FailToRead(place) ==
    /\ ~IsSound(place)
    /\ End(CASE condition[place] = "garbled" -> "ValueError"
             [] condition[place] = "unlistable" -> "OSError"
             [] OTHER -> "ConfigurationError")

\* read_secrets_directory, with load_settings' own look at the directory.
ReadSecrets ==
    /\ pc = "secrets"
    /\ \/ FailToRead("secrets") /\ UNCHANGED secrets
       \/ /\ IsSound("secrets")
          /\ secrets' = deployment["secrets"] /\ pc' = "base"
          /\ UNCHANGED outcome
    /\ UNCHANGED <<deployment, condition, edits, environ, environment, toml, settings>>

SetsSecrets(data) == DOMAIN data \cap SecretPaths # {}

reject_secrets_from_files(place) ==
    /\ IsSound(place) /\ SetsSecrets(deployment[place])
    /\ End("ConfigurationError")

ReadBase ==
    /\ pc = "base"
    /\ \/ (FailToRead("base") \/ reject_secrets_from_files("base")) /\ UNCHANGED toml
       \/ /\ IsSound("base") /\ ~SetsSecrets(deployment["base"])
          /\ toml' = deployment["base"] /\ pc' = "overlay"
          /\ UNCHANGED outcome
    /\ UNCHANGED <<deployment, condition, edits, environ, environment, secrets, settings>>

\* The environment's own file is optional.
SkipOverlay ==
    /\ pc = "overlay" /\ condition[environment] = "missing"
    /\ pc' = "validate"
    /\ UNCHANGED <<deployment, condition, edits, environ, environment, secrets, toml,
                   settings, outcome>>

\* Mutant: only the base file is searched for secrets.
ReadOverlayTrusting ==
    /\ pc = "overlay" /\ condition[environment] # "missing"
    /\ \/ FailToRead(environment) /\ UNCHANGED toml
       \/ /\ IsSound(environment)
          /\ toml' = deep_merge(toml, deployment[environment]) /\ pc' = "validate"
          /\ UNCHANGED outcome
    /\ UNCHANGED <<deployment, condition, edits, environ, environment, secrets, settings>>

ReadOverlay ==
    /\ pc = "overlay" /\ condition[environment] # "missing"
    /\ \/ /\ \/ FailToRead(environment)
             \/ reject_secrets_from_files(environment)
          /\ UNCHANGED toml
       \/ /\ IsSound(environment) /\ ~SetsSecrets(deployment[environment])
          /\ toml' = deep_merge(toml, deployment[environment]) /\ pc' = "validate"
          /\ UNCHANGED outcome
    /\ UNCHANGED <<deployment, condition, edits, environ, environment, secrets, settings>>

-----------------------------------------------------------------------------
\* Settings: the sources in their order, and the validators.

\* The sources in settings_customise_sources' order, the first the strongest.
Sources == deep_merge(deep_merge(toml, secrets), environ)

ForexPaths == {"forex.enabled", "forex.environment"}
CryptoPaths == {"crypto.enabled", "crypto.sandbox"}

\* A venue's section may be left out; one that is there is complete.
SectionsAreComplete(s) ==
    /\ DOMAIN s \cap (ForexPaths \cup {"forex.account_id", "forex.api_token"}) # {} =>
          ForexPaths \subseteq DOMAIN s
    /\ DOMAIN s \cap CryptoPaths # {} => CryptoPaths \subseteq DOMAIN s

Says(s, path, value) == path \in DOMAIN s /\ s[path] = value

live_venue_names(s) ==
    {v \in {"forex", "crypto"} :
        \/ v = "forex" /\ Says(s, "forex.enabled", "true") /\ Says(s, "forex.environment", "live")
        \/ v = "crypto" /\ Says(s, "crypto.enabled", "true") /\ Says(s, "crypto.sandbox", "false")}

check_credentials_when_enabled(s) ==
    Says(s, "forex.enabled", "true") => {"forex.account_id", "forex.api_token"} \subseteq DOMAIN s

\* Mutant: the file layered on the base may say it is another environment's.
AnyFileMatches(s) == TRUE

check_environment_matches_file(s) == s["app.environment"] = environment

check_live_trading_is_armed(s) ==
    live_venue_names(s) # {} =>
        Says(s, "app.allow_live_trading", "true") /\ s["app.environment"] = "production"

check_production_logging(s) ==
    s["app.environment"] = "production" => s["log_format"] = "json"

IsValid(s) ==
    /\ Required \subseteq DOMAIN s
    /\ s["rest"] = "valid"
    /\ SectionsAreComplete(s)
    /\ check_credentials_when_enabled(s)
    /\ check_environment_matches_file(s)
    /\ check_live_trading_is_armed(s)
    /\ check_production_logging(s)

Validate ==
    /\ pc = "validate"
    /\ IF IsValid(Sources) THEN settings' = Sources /\ End("loaded")
                           ELSE UNCHANGED settings /\ End("ConfigurationError")
    /\ UNCHANGED <<deployment, condition, edits, environ, environment, secrets, toml>>

\* The next process.
Restart ==
    /\ pc = "ended"
    /\ pc' = "start" /\ environ' = NoLayer /\ environment' = "development"
    /\ secrets' = NoLayer /\ toml' = NoLayer /\ settings' = NoLayer /\ outcome' = "none"
    /\ UNCHANGED <<deployment, condition, edits>>

Next ==
    \/ Edit \/ Copy \/ Damage
    \/ Resolve \/ ReadSecrets \/ ReadBase \/ SkipOverlay \/ ReadOverlay \/ Validate \/ Restart

Spec == Init /\ [][Next]_vars

-----------------------------------------------------------------------------
\* Properties.

\* A process that trades real money was told twice that it should: an environment
\* variable names production, and a layer arms live trading.  No copying, editing
\* or loss of files, before or between the reads, brings it about otherwise
\* (settings.py:114-118).
LiveIsDeliberate ==
    outcome = "loaded" /\ live_venue_names(settings) # {} =>
        /\ Says(environ, "app.environment", "production")
        /\ Says(settings, "app.allow_live_trading", "true")

\* Every secret a process runs with came from the environment or the secrets
\* directory, whichever file set it too (sources.py:7-10).
SecretsComeFromOutside ==
    outcome = "loaded" =>
        /\ SecretPaths \cap DOMAIN settings \subseteq DOMAIN environ \cup DOMAIN secrets
        /\ SecretPaths \cap DOMAIN toml = {}
=============================================================================
