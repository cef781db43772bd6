---------------------------- MODULE Configuration ----------------------------
(***************************************************************************)
(* Load (internal/config): the environment becomes a configuration, or an  *)
(* error.  Of a variable it matters only whether it is "absent" (or blank) *)
(* or in which way its value is good or bad.  A value of nothing but       *)
(* "slashes" is good until they are trimmed.                               *)
(***************************************************************************)
EXTENDS Integers, FiniteSetsExt

CONSTANT RequiredKeys   \* what required() is called for

Endpoint == {"LLM_BASE_URL", "LLM_MODEL"}

Seconds == {"OPENSEARCH_POLL_INTERVAL_SECONDS", "OPENSEARCH_LOOKBACK_SECONDS"}

Urls == {"GITLAB_URL", "OPENSEARCH_URL", "LLM_BASE_URL"}

Keys == RequiredKeys \cup Endpoint \cup Seconds \cup
    {"LLM_PROVIDER", "LLM_REASONING_EFFORT", "GITLAB_MR_ASSIGNEE_ID", "HUMAN_APPROVAL_REQUIRED"}

optional(env, key, default) == IF env[key] = "absent" THEN default ELSE env[key]

(* The preset of a provider, "absent" where it has none. *)
ProviderDefaults ==
    [openrouter |-> "preset", avalai |-> "preset", custom |-> "absent", unknown |-> "absent"]

Provider(env) == optional(env, "LLM_PROVIDER", "openrouter")

(* The defaults of the variables that decide something; HUMAN_APPROVAL_    *)
(* REQUIRED is on, and anything that does not read as yes switches it off. *)
Default(env, key) ==
    CASE key \in Endpoint -> ProviderDefaults[Provider(env)]
      [] key = "LLM_PROVIDER" -> "openrouter"
      [] key = "LLM_REASONING_EFFORT" -> "medium"
      [] key \in Seconds -> "positive"
      [] key = "HUMAN_APPROVAL_REQUIRED" -> "yes"
      [] OTHER -> "absent"

(* A URL loses the slashes at its end, which may leave nothing.            *)
TrimRight(key, value) == IF key \in Urls /\ value = "slashes" THEN "absent" ELSE value

Configured(env) == [key \in Keys |-> TrimRight(key, optional(env, key, Default(env, key)))]

(* Mutant: a provider without presets passes. *)
Missing_NoEndpoint(env) == {key \in RequiredKeys : env[key] = "absent"}

(* What is required, of which the variable is tested before it is trimmed, *)
(* and the endpoint, of which what was configured is tested.               *)
Missing(env) ==
    {key \in RequiredKeys : env[key] = "absent"}
        \cup {key \in Endpoint : Configured(env)[key] = "absent"}

(* parseIntDefault takes what is an integer, and above zero. *)
BadInt(env, key) == {k \in {key} : env[k] \in {"not a number", "not positive"}}

(* The checks, in their order.  Each returns at once, so that what is      *)
(* missing is reported only when nothing is invalid.                       *)
Reports(env) ==
    <<{k \in {"LLM_PROVIDER"} : Provider(env) = "unknown"},
      {k \in {"LLM_REASONING_EFFORT"} : env[k] = "unknown"},
      BadInt(env, "OPENSEARCH_POLL_INTERVAL_SECONDS"),
      BadInt(env, "OPENSEARCH_LOOKBACK_SECONDS"),
      {k \in {"GITLAB_MR_ASSIGNEE_ID"} : env[k] = "not a number"},
      Missing(env)>>

Load(env) ==
    LET failing == {i \in DOMAIN Reports(env) : Reports(env)[i] # {}}
    IN  IF failing = {} THEN [ok |-> TRUE, value |-> Configured(env)]
        ELSE [ok |-> FALSE, reported |-> Reports(env)[Min(failing)]]

=============================================================================
