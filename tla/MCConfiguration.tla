--------------------------- MODULE MCConfiguration ---------------------------
EXTENDS Configuration, TLC

\* The files as they are committed, and two deployments of them: a developer's
\* machine, and a production host on which both venues trade.
Base == [path \in {"app.environment", "app.allow_live_trading", "log_format", "rest",
                   "forex.enabled", "forex.environment", "crypto.enabled", "crypto.sandbox"} |->
            CASE path = "app.environment" -> "development"
              [] path = "log_format" -> "json"
              [] path = "rest" -> "valid"
              [] path = "forex.environment" -> "practice"
              [] path = "crypto.sandbox" -> "true"
              [] OTHER -> "false"]

Development == ("app.environment" :> "development") @@ ("log_format" :> "console")

Production ==
    ("app.environment" :> "production") @@ ("app.allow_live_trading" :> "false") @@
    ("log_format" :> "json") @@ ("forex.enabled" :> "false") @@
    ("forex.environment" :> "live") @@ ("crypto.enabled" :> "false") @@
    ("crypto.sandbox" :> "false")

Armed ==
    ("app.allow_live_trading" :> "true") @@ ("forex.enabled" :> "true") @@
    ("crypto.enabled" :> "true") @@ Production

Password == "database.password" :> "set"

MCDeployments ==
    {[environ |-> Password, secrets |-> NoLayer,
      base |-> Base, development |-> Development, production |-> Production],
     [environ |-> ("app.environment" :> "production") @@ ("forex.account_id" :> "set"),
      secrets |-> ("forex.api_token" :> "set") @@ Password,
      base |-> Base, development |-> Development, production |-> Armed]}

MCEdits ==
    [to : {"environ"}, path : {"app.environment"},
     value : {"development", "production", "qa", "unset"}]
    \cup [to : {"environ", "production"}, path : {"app.allow_live_trading"},
          value : {"true", "unset"}]
    \cup [to : {"environ", "base", "development"}, path : {"crypto.enabled"},
          value : {"true", "unset"}]
    \cup [to : {"secrets", "development"}, path : {"app.environment"}, value : {"production"}]
    \cup [to : {"secrets", "base", "production"}, path : {"forex.api_token"},
          value : {"set", "unset"}]
    \cup [to : {"development", "production"}, path : {"log_format"}, value : {"console"}]
    \cup [to : {"base", "environ"}, path : {"rest"}, value : {"valid", "invalid"}]
=============================================================================
