----------------------------- MODULE MCCfWorker -----------------------------
(* Three requests to two boxes, one of them written with and without a       *)
(* trailing slash. Headers: none, full sets, with the insecure flag in both  *)
(* spellings, half a pair, an empty key. Environments: none, defaults for    *)
(* one box, a namespace that is reserved.                                    *)
EXTENDS CfWorker, TLC

Symmetric == Permutations(Requests)

MCUrls == {"u", "u/", "v"}
MCStripped == [u \in MCUrls |-> IF u = "u/" THEN "u" ELSE u]

Headers(key, url, insecure) ==
    [apiKey |-> key, baseUrl |-> url, caCert |-> "absent", insecure |-> insecure]

MCHeaderSets ==
    { Headers("absent", "absent", "absent"),
      Headers("h", "u/", "absent"),
      Headers("h", "u", "yes"),
      Headers("h", "v", "true"),
      Headers("h", "v", "absent"),
      Headers("absent", "v", "absent"),
      Headers("empty", "u", "absent") }

MCEnvironments ==
    { [apiKey |-> "absent", baseUrl |-> "absent", namespace |-> "local"],
      [apiKey |-> "env", baseUrl |-> "u", namespace |-> "local"],
      [apiKey |-> "env", baseUrl |-> "u", namespace |-> "other"] }
=============================================================================
