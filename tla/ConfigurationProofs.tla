------------------------- MODULE ConfigurationProofs -------------------------
(***************************************************************************)
(* Proofs about Configuration, for every deployment, whatever its layers   *)
(* hold and however often and in whatever way they are edited, copied and  *)
(* damaged, before and between the reads of a load.                        *)
(*                                                                         *)
(* The properties speak of the settings that a load ended with.  IInv      *)
(* holds at every read: which file is layered on the base was settled by   *)
(* the environment variable, no file read so far sets a secret, and what   *)
(* was loaded is what was read and is valid.                               *)
(***************************************************************************)
EXTENDS Configuration, TLAPS

\* The environment that SettingsContext.from_environ resolved.
Resolved ==
    environment = IF "app.environment" \in DOMAIN environ
                  THEN environ["app.environment"] ELSE "development"

IInv ==
    /\ outcome # "none" => pc = "ended"
    /\ pc \in {"secrets", "base", "overlay", "validate"} \/ outcome = "loaded" => Resolved
    /\ ~SetsSecrets(toml)
    /\ outcome = "loaded" => settings = Sources /\ IsValid(settings)

-----------------------------------------------------------------------------
\* A merge has the keys of both layers, and no others.
LEMMA MergedDomain ==
    ASSUME NEW base, NEW overlay
    PROVE  DOMAIN deep_merge(base, overlay) = DOMAIN base \cup DOMAIN overlay
    BY DEF deep_merge

\* A step that only changes the deployment.
LEMMA DeploymentStep ==
    ASSUME IInv, UNCHANGED load
    PROVE  IInv'
    BY DEF IInv, load, Resolved, SetsSecrets, Sources, deep_merge, IsValid, SectionsAreComplete,
           check_credentials_when_enabled, check_environment_matches_file,
           check_live_trading_is_armed, check_production_logging, live_venue_names, Says

\* A read that fails, or comes too late to matter.
LEMMA NotLoaded ==
    ASSUME IInv, outcome' # "loaded", outcome' # "none" => pc' = "ended",
           pc' \in {"secrets", "base", "overlay", "validate"} => Resolved',
           ~SetsSecrets(toml)'
    PROVE  IInv'
    BY DEF IInv

\* Every step of a load, and every edit of a file, keeps the invariant.
LEMMA NextInv == IInv /\ [Next]_vars => IInv'
    <1> SUFFICES ASSUME IInv, [Next]_vars PROVE IInv'
      OBVIOUS
    <1>1. CASE Edit \/ Copy \/ Damage
      BY <1>1, DeploymentStep DEF Edit, Copy, Damage
    <1>2. CASE Resolve
      <2>1. ~SetsSecrets(toml)'
        BY <1>2 DEF IInv, Resolve, SetsSecrets
      <2>2. outcome' # "loaded" /\ (outcome' # "none" => pc' = "ended")
        BY <1>2 DEF IInv, Resolve, End
      <2>3. pc' # "ended" => Resolved'
        BY <1>2 DEF Resolve, Resolved, End
      <2> QED
        BY <2>1, <2>2, <2>3, NotLoaded
    <1>3. CASE ReadSecrets
      <2>1. ~SetsSecrets(toml)' /\ UNCHANGED <<environ, environment>> /\ pc = "secrets"
        BY <1>3 DEF IInv, ReadSecrets, SetsSecrets
      <2>2. outcome' # "loaded" /\ (outcome' # "none" => pc' = "ended")
        BY <1>3 DEF IInv, ReadSecrets, FailToRead, End
      <2> QED
        BY <2>1, <2>2, NotLoaded DEF IInv, Resolved
    <1>4. CASE ReadBase
      <2>1. UNCHANGED <<environ, environment>> /\ pc = "base"
        BY <1>4 DEF ReadBase
      <2>2. ~SetsSecrets(toml)'
        BY <1>4 DEF IInv, ReadBase, SetsSecrets
      <2>3. outcome' # "loaded" /\ (outcome' # "none" => pc' = "ended")
        BY <1>4 DEF IInv, ReadBase, FailToRead, reject_secrets_from_files, End
      <2> QED
        BY <2>1, <2>2, <2>3, NotLoaded DEF IInv, Resolved
    <1>5. CASE SkipOverlay
      <2>1. UNCHANGED <<environ, environment, outcome, toml>> /\ pc = "overlay"
        BY <1>5 DEF SkipOverlay
      <2> QED
        BY <2>1, NotLoaded DEF IInv, Resolved, SetsSecrets
    <1>6. CASE ReadOverlay
      <2>1. UNCHANGED <<environ, environment>> /\ pc = "overlay"
        BY <1>6 DEF ReadOverlay
      <2>2. ~SetsSecrets(toml)'
        <3>1. CASE UNCHANGED toml
          BY <3>1 DEF IInv, SetsSecrets
        <3>2. CASE /\ ~SetsSecrets(deployment[environment])
                   /\ toml' = deep_merge(toml, deployment[environment])
          <4>1. DOMAIN toml' = DOMAIN toml \cup DOMAIN deployment[environment]
            BY <3>2, MergedDomain
          <4> QED
            BY <3>2, <4>1 DEF IInv, SetsSecrets
        <3> QED
          BY <1>6, <3>1, <3>2 DEF ReadOverlay
      <2>3. outcome' # "loaded" /\ (outcome' # "none" => pc' = "ended")
        BY <1>6 DEF IInv, ReadOverlay, FailToRead, reject_secrets_from_files, End
      <2> QED
        BY <2>1, <2>2, <2>3, NotLoaded DEF IInv, Resolved
    <1>7. CASE Validate
      <2>1. /\ UNCHANGED <<environ, environment, secrets, toml>>
            /\ pc = "validate" /\ pc' = "ended"
        BY <1>7 DEF Validate, End
      <2>2. Resolved' /\ ~SetsSecrets(toml)'
        BY <2>1 DEF IInv, Resolved, SetsSecrets
      <2>3. outcome' = "loaded" => settings' = Sources /\ IsValid(Sources)
        BY <1>7 DEF Validate, End
      <2>4. outcome' = "loaded" => settings' = Sources' /\ IsValid(settings)'
        BY <2>1, <2>3 DEF Sources, deep_merge, IsValid, check_environment_matches_file
      <2> QED
        BY <2>1, <2>2, <2>4 DEF IInv
    <1>8. CASE Restart
      BY <1>8 DEF IInv, Restart, SetsSecrets, NoLayer
    <1>9. CASE UNCHANGED vars
      BY <1>9, DeploymentStep DEF vars, load
    <1> QED
      BY <1>1, <1>2, <1>3, <1>4, <1>5, <1>6, <1>7, <1>8, <1>9 DEF Next

\* IInv is an invariant of every sequence of loads (loader.py load_settings).
THEOREM Invariance == Spec => []IInv
    <1>1. Init => IInv
      BY DEF Init, Fresh, IInv, SetsSecrets, NoLayer
    <1> QED
      BY <1>1, NextInv, PTL DEF Spec

\* A process that trades real money was told so twice: by an environment variable
\* that names production, and by a layer that arms live trading
\* (settings.py:114-118).
THEOREM LiveWasDeliberate == Spec => []LiveIsDeliberate
    <1>1. IInv => LiveIsDeliberate
      BY DEF IInv, LiveIsDeliberate, Resolved, IsValid, check_live_trading_is_armed,
             check_environment_matches_file, Says
    <1> QED
      BY <1>1, Invariance, PTL

\* Every secret a process runs with came from the environment or the secrets
\* directory (sources.py:7-10).
THEOREM SecretsFromOutside == Spec => []SecretsComeFromOutside
    <1>1. IInv => SecretsComeFromOutside
      <2> SUFFICES ASSUME IInv, outcome = "loaded"
                   PROVE  /\ SecretPaths \cap DOMAIN settings
                                \subseteq DOMAIN environ \cup DOMAIN secrets
                          /\ SecretPaths \cap DOMAIN toml = {}
        BY DEF SecretsComeFromOutside
      <2>1. DOMAIN settings = DOMAIN toml \cup DOMAIN secrets \cup DOMAIN environ
        <3>1. settings = deep_merge(deep_merge(toml, secrets), environ)
          BY DEF IInv, Sources
        <3>2. DOMAIN settings = DOMAIN deep_merge(toml, secrets) \cup DOMAIN environ
          BY <3>1, MergedDomain
        <3> QED
          BY <3>2, MergedDomain
      <2>2. SecretPaths \cap DOMAIN toml = {}
        BY DEF IInv, SetsSecrets
      <2> QED
        BY <2>1, <2>2
    <1> QED
      BY <1>1, Invariance, PTL
=============================================================================
