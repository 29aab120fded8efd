--------------------------- MODULE TenantContext ---------------------------
(* Where the credentials of an execute come from: tenant/context.ts.         *)
(* A header or environment value is abstracted to its origin: "absent", the  *)
(* "empty" string, or a text known by where it was set.                      *)

Truthy(v) == v \notin {"absent", "empty"}

\* Texts of X-Unraid-Insecure and UNRAID_INSECURE, after trim and lower case:
\* true, its synonyms 1 and yes, one of false/0/no, or anything else.
ParseBool(v) ==
    CASE v \in {"true", "yes"}   -> "on"
      [] v \in {"false", "empty"} -> "off"
      [] OTHER                  -> "undefined"

NoCreds == [kind |-> "none"]
Throws == [kind |-> "error"]
Creds(key, url, ca, insecure) ==
    [kind |-> "creds", apiKey |-> key, baseUrl |-> url, caCert |-> ca,
     insecure |-> insecure]

\* UNRAID_CA_CERT_PATH is read each time, and only if UNRAID_CA_CERT is not set.
CaFromEnv(env) ==
    IF ~Truthy(env.caCert) /\ env.caPath = "readable" THEN "env_file" ELSE env.caCert

ReadLocalFromEnv(env) ==
    IF ~Truthy(env.apiKey) \/ ~Truthy(env.baseUrl) THEN NoCreds
    ELSE IF ~Truthy(env.caCert) /\ env.caPath = "unreadable" THEN Throws
    ELSE Creds(env.apiKey, env.baseUrl, CaFromEnv(env), ParseBool(env.insecure))

\* What stdio has, and a handler outside of any scope would have.
BuildContextFromEnv(env) == ReadLocalFromEnv(env)

\* Mutated form: each field falls back to the environment on its own.
FieldwiseContext(h, env) ==
    LET Or(v, w) == IF Truthy(v) THEN v ELSE w
    IN  ReadLocalFromEnv([apiKey   |-> Or(h.apiKey, env.apiKey),
                          baseUrl  |-> Or(h.baseUrl, env.baseUrl),
                          caCert   |-> Or(h.caCert, env.caCert),
                          caPath   |-> env.caPath,
                          insecure |-> Or(h.insecure, env.insecure)])

BuildContextFromHeaders(h, env) ==
    IF ~Truthy(h.apiKey) /\ ~Truthy(h.baseUrl) THEN ReadLocalFromEnv(env)
    ELSE IF ~Truthy(h.apiKey) \/ ~Truthy(h.baseUrl) THEN Throws
    ELSE Creds(h.apiKey, h.baseUrl, h.caCert, ParseBool(h.insecure))
=============================================================================
