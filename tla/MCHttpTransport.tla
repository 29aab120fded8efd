-------------------------- MODULE MCHttpTransport --------------------------
(* Three requests of two clients. Headers: none, a full set, a full set that *)
(* leaves the TLS fields out, half a pair. Environments: none, and a full    *)
(* one with TLS checks off and a CA bundle of its own.                        *)
EXTENDS HttpTransport, TLC

\* No two requests and no two addresses differ but in name.
Symmetric == Permutations(Requests) \cup Permutations(Clients)

MCHeaderSets ==
    { [apiKey |-> "absent", baseUrl |-> "absent", caCert |-> "absent", insecure |-> "absent"],
      [apiKey |-> "h1", baseUrl |-> "h1", caCert |-> "h1", insecure |-> "false"],
      [apiKey |-> "h2", baseUrl |-> "h2", caCert |-> "absent", insecure |-> "absent"],
      [apiKey |-> "empty", baseUrl |-> "h1", caCert |-> "absent", insecure |-> "absent"] }

MCEnvironments ==
    { [apiKey |-> "absent", baseUrl |-> "absent", caCert |-> "absent",
       caPath |-> "absent", insecure |-> "absent"],
      [apiKey |-> "env", baseUrl |-> "env", caCert |-> "absent",
       caPath |-> "readable", insecure |-> "true"] }
=============================================================================
