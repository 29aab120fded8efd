----------------------------- MODULE SpecLoader -----------------------------
(* How server processes get their spec at startup: tryLoadLocalSpec in       *)
(* index.ts and loadUnraidSpec in spec/loader.ts. A stdio server is one      *)
(* process per client, so several processes, some of them of an older or a   *)
(* newer release, share one cache file per Unraid box, start, crash and      *)
(* restart at any time while the box itself is upgraded.                     *)
EXTENDS Integers

CONSTANTS
    Procs,       \* server processes of one user on one machine
    Releases,    \* CACHE_SCHEMA_VERSIONs of the installed releases
    MaxVersion   \* bound of the model: schema versions of the Unraid box

ASSUME ReleasesAssumption == Releases \subseteq Nat
ASSUME MaxVersionAssumption == MaxVersion \in Nat \ {0}

VARIABLES
    box,      \* schema version the Unraid box has now
    pc,       \* where each process is, see Phases
    release,  \* CACHE_SCHEMA_VERSION of the program each process runs, or 0
    trust,    \* how the operator made the box's certificate acceptable
    got,      \* schema version live introspection gave this process, 0 if none
    serving,  \* the spec given to createMcpServer
    cause,    \* why a process serves the fallback
    file      \* the cache file: the document written last over what was there

vars == <<box, pc, release, trust, got, serving, cause, file>>

\* "reading": readCacheFile; "fetching": fetchIntrospection; "opening": mkdir
\* and the truncating open of writeFile; "writing": its write.
Phases == {"down", "reading", "fetching", "opening", "writing", "serving"}

Versions == 1..MaxVersion

\* The box has a public certificate; or a private one and the operator set
\* UNRAID_CA_CERT_PATH, set UNRAID_INSECURE, or did nothing.
Trusts == {"public", "ca_cert_path", "insecure", "nothing"}

\* A ProcessedSpec, and what else a process can serve.
Built(v, r) == [version |-> v, release |-> r]
Specs == [version : Versions, release : Releases]
Fallback == [version |-> 0, release |-> 0]
NoSpec == [version |-> -1, release |-> 0]

\* Bytes of the JSON document. The content of the file is one document and,
\* if longer bytes were there, their tail. Version 0 stands for no JSON.
Size(s) == s.version + s.release
NoFile == [doc |-> Fallback, size |-> 0]

\* Mutated form: a part of a document is taken for one.
AnyBytes(f) == TRUE

\* JSON.parse succeeds on a document with nothing after it.
Parses(f) == f.doc.version > 0 /\ f.size = Size(f.doc)

\* Mutated form: CACHE_SCHEMA_VERSION is not compared.
CacheHitAnyRelease(p) == Parses(file)

CacheHit(p) == Parses(file) /\ file.doc.release = release[p]

Init ==
    /\ box = 1
    /\ pc = [p \in Procs |-> "down"]
    /\ release = [p \in Procs |-> 0]
    /\ trust = [p \in Procs |-> "nothing"]
    /\ got = [p \in Procs |-> 0]
    /\ serving = [p \in Procs |-> NoSpec]
    /\ cause = [p \in Procs |-> "none"]
    /\ file = NoFile

-----------------------------------------------------------------------------
\* main starts; with credentials it goes on to loadUnraidSpec.
Start(p) ==
    /\ pc[p] = "down"
    /\ \E r \in Releases, t \in Trusts :
        /\ release' = [release EXCEPT ![p] = r]
        /\ trust' = [trust EXCEPT ![p] = t]
    /\ pc' = [pc EXCEPT ![p] = "reading"]
    /\ UNCHANGED <<box, got, serving, cause, file>>

\* createMcpServer gets a spec, or none when even the fallback throws.
Serve(p, s) ==
    /\ serving' = [serving EXCEPT ![p] = s]
    /\ pc' = [pc EXCEPT ![p] = "serving"]

\* Mutated form: try until the box answers.
TryAgain(p, why) ==
    /\ cause' = [cause EXCEPT ![p] = why]
    /\ pc' = [pc EXCEPT ![p] = "fetching"]
    /\ UNCHANGED serving

FallBack(p, why) ==
    /\ \E s \in {Fallback, NoSpec} : Serve(p, s)
    /\ cause' = [cause EXCEPT ![p] = why]

\* No UNRAID_BASE_URL or UNRAID_API_KEY.
StartWithoutCredentials(p) ==
    /\ pc[p] = "down"
    /\ FallBack(p, "no_credentials")
    /\ UNCHANGED <<box, release, trust, got, file>>

-----------------------------------------------------------------------------
\* loadUnraidSpec, from await to await. The memory cache of a process that is
\* starting is empty.

ServeCached(p) ==
    /\ pc[p] = "reading"
    /\ CacheHit(p)
    /\ Serve(p, file.doc)
    /\ UNCHANGED <<box, release, trust, got, cause, file>>

\* No file, no JSON, or another release's.
MissCache(p) ==
    /\ pc[p] = "reading"
    /\ ~CacheHit(p)
    /\ pc' = [pc EXCEPT ![p] = "fetching"]
    /\ UNCHANGED <<box, release, trust, got, serving, cause, file>>

\* tryLoadLocalSpec passes insecure on, and no CA bundle.
CertificateAccepted(p) == trust[p] \in {"public", "insecure"}

Introspect(p) ==
    /\ pc[p] = "fetching"
    /\ CertificateAccepted(p)
    /\ got' = [got EXCEPT ![p] = box]
    /\ pc' = [pc EXCEPT ![p] = "opening"]
    /\ UNCHANGED <<box, release, trust, serving, cause, file>>

RejectCertificate(p) ==
    /\ pc[p] = "fetching"
    /\ ~CertificateAccepted(p)
    /\ FallBack(p, "certificate")
    /\ UNCHANGED <<box, release, trust, got, file>>

\* Network error, 30 s timeout, HTTP or GraphQL error, no __schema; or a
\* __schema that buildOperationIndex throws on.
IntrospectionFails(p) ==
    /\ pc[p] = "fetching"
    /\ FallBack(p, "introspection")
    /\ UNCHANGED <<box, release, trust, got, file>>

\* mkdir succeeds, writeFile opens and truncates.
OpenFile(p) ==
    /\ pc[p] = "opening"
    /\ file' = NoFile
    /\ pc' = [pc EXCEPT ![p] = "writing"]
    /\ UNCHANGED <<box, release, trust, got, serving, cause>>

OpenFails(p) ==
    /\ pc[p] = "opening"
    /\ FallBack(p, "write")
    /\ UNCHANGED <<box, release, trust, got, file>>

\* Writing from the start of the file, without truncating again.
WriteOver(f, s) ==
    [doc |-> s, size |-> IF Size(s) > f.size THEN Size(s) ELSE f.size]

WriteFile(p) ==
    /\ pc[p] = "writing"
    /\ file' = WriteOver(file, Built(got[p], release[p]))
    /\ Serve(p, Built(got[p], release[p]))
    /\ UNCHANGED <<box, release, trust, got, cause>>

\* The disk is full: nothing is written, or only the beginning.
WriteFails(p) ==
    /\ pc[p] = "writing"
    /\ \/ UNCHANGED file
       \/ /\ file.doc # Built(got[p], release[p])
          /\ \E n \in 1..(Size(Built(got[p], release[p])) - 1) :
                file' = WriteOver(file, [version |-> 0, release |-> n])
    /\ FallBack(p, "write")
    /\ UNCHANGED <<box, release, trust, got>>

-----------------------------------------------------------------------------
\* The process is killed or its client ends it, in the middle of a write too.
Crash(p) ==
    /\ pc[p] # "down"
    /\ pc' = [pc EXCEPT ![p] = "down"]
    /\ got' = [got EXCEPT ![p] = 0]
    /\ serving' = [serving EXCEPT ![p] = NoSpec]
    /\ cause' = [cause EXCEPT ![p] = "none"]
    /\ release' = [release EXCEPT ![p] = 0]
    /\ trust' = [trust EXCEPT ![p] = "nothing"]
    /\ UNCHANGED <<box, file>>

UpgradeBox ==
    /\ box < MaxVersion
    /\ box' = box + 1
    /\ UNCHANGED <<pc, release, trust, got, serving, cause, file>>

Load(p) ==
    \/ ServeCached(p)
    \/ MissCache(p)
    \/ Introspect(p)
    \/ RejectCertificate(p)
    \/ IntrospectionFails(p)
    \/ OpenFile(p)
    \/ OpenFails(p)
    \/ WriteFile(p)
    \/ WriteFails(p)

Next ==
    \/ \E p \in Procs :
        \/ Start(p)
        \/ StartWithoutCredentials(p)
        \/ Load(p)
        \/ Crash(p)
    \/ UpgradeBox

Spec == Init /\ [][Next]_vars

\* File operations end, and fetchIntrospection has AbortSignal.timeout(30_000).
FairSpec == Spec /\ \A p \in Procs : WF_vars(Load(p))

-----------------------------------------------------------------------------
TypeOK ==
    /\ box \in Versions
    /\ pc \in [Procs -> Phases]
    /\ release \in [Procs -> Releases \cup {0}]
    /\ trust \in [Procs -> Trusts]
    /\ got \in [Procs -> Versions \cup {0}]
    /\ serving \in [Procs -> Specs \cup {Fallback, NoSpec}]
    /\ cause \in [Procs -> {"none", "no_credentials", "certificate",
                             "introspection", "write"}]
    /\ file \in [doc : [version : Versions \cup {0}, release : Nat], size : Nat]

\* Whatever other processes, older releases, crashes and failed or overlapping
\* writes leave in the cache file, a process serves as the box's spec only one
\* that the box has had and that its own release built.
ServedSpecIsGenuine ==
    \A p \in Procs :
        \/ serving[p] \in {Fallback, NoSpec}
        \/ serving[p].version \in 1..box /\ serving[p].release = release[p]

\* A process that starts comes to serve its tools, spec or not: neither a
\* silent box nor a damaged cache file holds it back.
StartupCompletes ==
    \A p \in Procs : pc[p] = "reading" ~> pc[p] \in {"serving", "down"}

\* loader.ts:4: "Loading order (first one that succeeds wins)", with live
\* introspection first and the bundled SDL "when the live server can't be
\* reached or hasn't been configured yet". A cache file that cannot be written
\* makes the fallback win over an introspection that succeeded.
LiveSpecWins == \A p \in Procs : pc[p] = "serving" /\ got[p] # 0 =>
                    serving[p].version = got[p]

\* docs/usage.md:206 recommends a private certificate be made acceptable by
\* UNRAID_CA_CERT_PATH; loader.ts:224 names it in its hint. The bundle is not
\* handed to the loader, so introspection still rejects the certificate.
CaBundleIsUsed == \A p \in Procs : trust[p] = "ca_cert_path" =>
                    cause[p] # "certificate"

\* What the cache file can hold: a document of a version the box has had.
FileInv == file.doc.version <= box

GotInv ==
    \A p \in Procs :
        /\ got[p] <= box
        /\ pc[p] \in {"opening", "writing"} => got[p] > 0
        /\ pc[p] # "serving" => serving[p] = NoSpec
        /\ pc[p] \in {"reading", "fetching", "opening", "writing"} =>
              release[p] \in Releases

Inv ==
    /\ TypeOK
    /\ FileInv
    /\ GotInv
    /\ ServedSpecIsGenuine
=============================================================================
