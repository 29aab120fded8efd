-------------------------- MODULE SpecLoaderProofs --------------------------
(* What startup guarantees for any number of processes, releases and         *)
(* upgrades of the box, whatever the cache file holds.                       *)
EXTENDS SpecLoader, TLAPS

\* Falling back, for whatever reason, serves the bundled SDL or nothing.
LEMMA FallBackKeepsInv ==
    ASSUME Inv, NEW p \in Procs,
           NEW why \in {"no_credentials", "certificate", "introspection", "write"},
           FallBack(p, why), UNCHANGED <<box, release, trust, got>>,
           file' \in [doc : [version : Versions \cup {0}, release : Nat], size : Nat],
           file'.doc.version <= box
    PROVE  Inv'
<1> USE DEF Inv
<1>1. PICK s \in {Fallback, NoSpec} : Serve(p, s)
  BY DEF FallBack
<1>2. TypeOK'
  BY <1>1 DEF FallBack, Serve, TypeOK, Phases
<1>3. FileInv' /\ GotInv'
  BY <1>1 DEF Serve, TypeOK, FileInv, GotInv
<1>4. ServedSpecIsGenuine'
  <2> SUFFICES ASSUME NEW q \in Procs
               PROVE  \/ serving'[q] \in {Fallback, NoSpec}
                      \/ /\ serving'[q].version \in 1..box
                         /\ serving'[q].release = release[q]
    BY DEF ServedSpecIsGenuine
  <2>1. serving'[q] = IF q = p THEN s ELSE serving[q]
    BY <1>1 DEF Serve, TypeOK
  <2>2. QED
    BY <2>1 DEF ServedSpecIsGenuine
<1>5. QED
  BY <1>2, <1>3, <1>4

\* Serving a spec the box has had, built by the process's own release.
LEMMA ServeKeepsInv ==
    ASSUME Inv, NEW p \in Procs, NEW s \in Specs, Serve(p, s),
           s.version <= box, s.release = release[p],
           UNCHANGED <<box, release, trust, got, cause>>,
           file' \in [doc : [version : Versions \cup {0}, release : Nat], size : Nat],
           file'.doc.version <= box
    PROVE  Inv'
<1> USE DEF Inv
<1>1. TypeOK'
  BY DEF Serve, TypeOK, Phases
<1>2. FileInv' /\ GotInv'
  BY DEF Serve, TypeOK, FileInv, GotInv
<1>3. ServedSpecIsGenuine'
  <2> SUFFICES ASSUME NEW q \in Procs
               PROVE  \/ serving'[q] \in {Fallback, NoSpec}
                      \/ /\ serving'[q].version \in 1..box
                         /\ serving'[q].release = release[q]
    BY DEF ServedSpecIsGenuine
  <2>1. serving'[q] = IF q = p THEN s ELSE serving[q]
    BY DEF Serve, TypeOK
  <2>2. s.version \in 1..box
    BY DEF Specs, Versions, TypeOK
  <2>3. QED
    BY <2>1, <2>2 DEF ServedSpecIsGenuine
<1>4. QED
  BY <1>1, <1>2, <1>3

\* What a process builds from live introspection, and what writing it makes
\* of the file.
LEMMA BuiltSpec ==
    ASSUME Inv, NEW p \in Procs, pc[p] = "writing"
    PROVE  /\ Built(got[p], release[p]) \in Specs
           /\ Built(got[p], release[p]).version <= box
           /\ Built(got[p], release[p]).release = release[p]
           /\ Size(Built(got[p], release[p])) \in Nat
<1>1. got[p] \in Versions /\ got[p] <= box /\ release[p] \in Releases
  BY DEF Inv, TypeOK, GotInv, Versions
<1>2. got[p] \in Nat /\ release[p] \in Nat
  <2>1. got[p] \in Nat
    BY <1>1, MaxVersionAssumption DEF Versions, MaxVersionAssumption
  <2>2. release[p] \in Nat
    BY <1>1, ReleasesAssumption DEF ReleasesAssumption
  <2>3. QED
    BY <2>1, <2>2
<1>3. Built(got[p], release[p]) \in Specs
  BY <1>1 DEF Built, Specs
<1>4. QED
  BY <1>1, <1>2, <1>3 DEF Built, Size

LEMMA WriteOverSpec ==
    ASSUME NEW f \in [doc : [version : Versions \cup {0}, release : Nat], size : Nat],
           NEW s \in [version : Versions \cup {0}, release : Nat]
    PROVE  /\ WriteOver(f, s) \in
                 [doc : [version : Versions \cup {0}, release : Nat], size : Nat]
           /\ WriteOver(f, s).doc = s
<1>1. Size(s) \in Nat
  BY DEF Size, Versions
<1>2. QED
  BY <1>1 DEF WriteOver

\* The invariant of the loader holds in every reachable state.
THEOREM Invariance == Spec => []Inv
<1>1. Init => Inv
  BY MaxVersionAssumption
     DEF Init, Inv, TypeOK, FileInv, GotInv, ServedSpecIsGenuine, NoFile,
         Fallback, NoSpec, Versions, Phases, Trusts, MaxVersionAssumption
<1>2. Inv /\ [Next]_vars => Inv'
  <2> SUFFICES ASSUME Inv, [Next]_vars PROVE Inv'
    OBVIOUS
  <2>1. ASSUME NEW p \in Procs, Start(p) PROVE Inv'
    <3>1. PICK r \in Releases, t \in Trusts :
            /\ release' = [release EXCEPT ![p] = r]
            /\ trust' = [trust EXCEPT ![p] = t]
      BY <2>1 DEF Start
    <3>2. TypeOK'
      BY <2>1, <3>1 DEF Start, Inv, TypeOK, Phases
    <3>3. FileInv' /\ GotInv' /\ ServedSpecIsGenuine'
      BY <2>1, <3>1 DEF Start, Inv, TypeOK, FileInv, GotInv, ServedSpecIsGenuine
    <3>4. QED
      BY <3>2, <3>3 DEF Inv
  <2>2. ASSUME NEW p \in Procs, StartWithoutCredentials(p) PROVE Inv'
    BY <2>2, FallBackKeepsInv DEF StartWithoutCredentials, Inv, TypeOK, FileInv
  <2>3. ASSUME NEW p \in Procs, ServeCached(p) PROVE Inv'
    <3>1. /\ file.doc \in Specs
          /\ file.doc.version <= box
          /\ file.doc.release = release[p]
      BY <2>3 DEF ServeCached, CacheHit, Parses, Inv, TypeOK, FileInv, GotInv,
         Specs, Versions
    <3>2. QED
      BY <2>3, <3>1, ServeKeepsInv DEF ServeCached, Inv, TypeOK, FileInv
  <2>4. ASSUME NEW p \in Procs, MissCache(p) PROVE Inv'
    BY <2>4 DEF MissCache, Inv, TypeOK, FileInv, GotInv, ServedSpecIsGenuine, Phases
  <2>5. ASSUME NEW p \in Procs, Introspect(p) PROVE Inv'
    BY <2>5 DEF Introspect, Inv, TypeOK, FileInv, GotInv, ServedSpecIsGenuine,
       Phases, Versions
  <2>6. ASSUME NEW p \in Procs,
               RejectCertificate(p) \/ IntrospectionFails(p) \/ OpenFails(p)
        PROVE  Inv'
    BY <2>6, FallBackKeepsInv
       DEF RejectCertificate, IntrospectionFails, OpenFails, Inv, TypeOK, FileInv
  <2>7. ASSUME NEW p \in Procs, OpenFile(p) PROVE Inv'
    BY <2>7 DEF OpenFile, NoFile, Fallback, Inv, TypeOK, FileInv, GotInv,
       ServedSpecIsGenuine, Phases, Versions
  <2>8. ASSUME NEW p \in Procs, WriteFile(p) PROVE Inv'
    <3> DEFINE s == Built(got[p], release[p])
    <3>1. /\ s \in Specs /\ s.version <= box /\ s.release = release[p]
          /\ s \in [version : Versions \cup {0}, release : Nat]
      BY <2>8, BuiltSpec, ReleasesAssumption DEF WriteFile, Specs, ReleasesAssumption
    <3>2. /\ file' \in [doc : [version : Versions \cup {0}, release : Nat], size : Nat]
          /\ file'.doc = s
      BY <2>8, <3>1, WriteOverSpec DEF WriteFile, Inv, TypeOK
    <3> HIDE DEF s
    <3>3. QED
      BY <2>8, <3>1, <3>2, ServeKeepsInv DEF WriteFile, s
  <2>9. ASSUME NEW p \in Procs, WriteFails(p) PROVE Inv'
    <3>1. /\ file' \in [doc : [version : Versions \cup {0}, release : Nat], size : Nat]
          /\ file'.doc.version <= box
      <4>1. CASE UNCHANGED file
        BY <4>1 DEF Inv, TypeOK, FileInv
      <4>2. CASE ~UNCHANGED file
        <5>1. PICK n \in 1..(Size(Built(got[p], release[p])) - 1) :
                file' = WriteOver(file, [version |-> 0, release |-> n])
          BY <2>9, <4>2 DEF WriteFails
        <5>2. n \in Nat
          BY <2>9, BuiltSpec DEF WriteFails
        <5>3. [version |-> 0, release |-> n] \in
                [version : Versions \cup {0}, release : Nat]
          BY <5>2
        <5>4. QED
          BY <5>1, <5>3, WriteOverSpec DEF Inv, TypeOK, Versions
      <4>3. QED
        BY <4>1, <4>2
    <3>2. QED
      BY <2>9, <3>1, FallBackKeepsInv DEF WriteFails
  <2>10. ASSUME NEW p \in Procs, Crash(p) PROVE Inv'
    <3>1. TypeOK'
      BY <2>10 DEF Crash, Inv, TypeOK, Phases, Trusts
    <3>2. FileInv' /\ GotInv'
      BY <2>10, MaxVersionAssumption
         DEF Crash, Inv, TypeOK, FileInv, GotInv, Versions, MaxVersionAssumption
    <3>3. ServedSpecIsGenuine'
      BY <2>10 DEF Crash, Inv, TypeOK, ServedSpecIsGenuine
    <3>4. QED
      BY <3>1, <3>2, <3>3 DEF Inv
  <2>11. CASE UpgradeBox
    <3>1. box \in Nat /\ box' = box + 1 /\ box' \in Versions
      BY <2>11, MaxVersionAssumption
         DEF UpgradeBox, Inv, TypeOK, Versions, MaxVersionAssumption
    <3>2. TypeOK'
      BY <2>11, <3>1 DEF UpgradeBox, Inv, TypeOK
    <3>3. FileInv'
      BY <2>11, <3>1, MaxVersionAssumption
         DEF UpgradeBox, Inv, TypeOK, FileInv, Versions, MaxVersionAssumption
    <3>4. GotInv'
      BY <2>11, <3>1, MaxVersionAssumption
         DEF UpgradeBox, Inv, TypeOK, GotInv, Versions, MaxVersionAssumption
    <3>5. ServedSpecIsGenuine'
      <4>1. \A n \in 1..box : n \in 1..box'
        BY <3>1
      <4>2. QED
        BY <2>11, <4>1 DEF UpgradeBox, Inv, ServedSpecIsGenuine
    <3>6. QED
      BY <3>2, <3>3, <3>4, <3>5 DEF Inv
  <2>12. CASE UNCHANGED vars
    BY <2>12 DEF vars, Inv, TypeOK, FileInv, GotInv, ServedSpecIsGenuine
  <2>13. QED
    BY <2>1, <2>2, <2>3, <2>4, <2>5, <2>6, <2>7, <2>8, <2>9, <2>10, <2>11, <2>12
       DEF Next, Load
<1>3. QED
  BY <1>1, <1>2, PTL DEF Spec

\* A spec that is served as the box's is genuine, whatever the file went through.
THEOREM OnlyGenuineSpecs == Spec => []ServedSpecIsGenuine
<1>1. Inv => ServedSpecIsGenuine
  BY DEF Inv
<1>2. QED
  BY <1>1, Invariance, PTL
-----------------------------------------------------------------------------
\* The two ways in which startup departs from what the documents say: the
\* fallback wins over an introspection that succeeded only where the cache file
\* could not be written, and a certificate is rejected only of an operator who
\* neither has a public one nor set UNRAID_INSECURE.
ExceptionsAreKnown ==
    \A p \in Procs :
        /\ pc[p] = "serving" /\ got[p] # 0 =>
              serving[p].version = got[p] \/ cause[p] = "write"
        /\ cause[p] = "certificate" => trust[p] \in {"ca_cert_path", "nothing"}

\* What a process has before introspection, and before it serves.
StartInv ==
    \A p \in Procs :
        /\ pc[p] \in {"down", "reading", "fetching"} => got[p] = 0
        /\ pc[p] # "serving" => cause[p] = "none"

\* The order of loading holds but for a cache file that cannot be written, and
\* introspection trusts whom the operator says, but for the CA bundle.
THEOREM OnlyKnownExceptions == Spec => []ExceptionsAreKnown
<1> DEFINE J == StartInv /\ ExceptionsAreKnown
<1>1. Init => J
  BY DEF Init, StartInv, ExceptionsAreKnown
<1>2. Inv /\ J /\ [Next]_vars => J'
  <2> SUFFICES ASSUME Inv, J, [Next]_vars PROVE J'
    OBVIOUS
  <2> USE DEF StartInv, ExceptionsAreKnown
  <2>1. ASSUME NEW p \in Procs, NEW why \in {"no_credentials", "certificate", "introspection", "write"},
               FallBack(p, why), UNCHANGED <<release, trust, got>>,
               pc[p] \in {"down", "reading", "fetching"} \/ why = "write",
               why = "certificate" => trust[p] \in {"ca_cert_path", "nothing"}
        PROVE  J'
    BY <2>1 DEF FallBack, Serve, Inv, TypeOK
  <2>2. ASSUME NEW p \in Procs, StartWithoutCredentials(p) PROVE J'
    BY <2>1, <2>2 DEF StartWithoutCredentials
  <2>3. ASSUME NEW p \in Procs, RejectCertificate(p) PROVE J'
    <3>1. trust[p] \in {"ca_cert_path", "nothing"}
      BY <2>3 DEF RejectCertificate, CertificateAccepted, Inv, TypeOK, Trusts
    <3>2. QED
      BY <2>1, <2>3, <3>1 DEF RejectCertificate
  <2>4. ASSUME NEW p \in Procs, IntrospectionFails(p) PROVE J'
    BY <2>1, <2>4 DEF IntrospectionFails
  <2>5. ASSUME NEW p \in Procs, OpenFails(p) \/ WriteFails(p) PROVE J'
    BY <2>1, <2>5 DEF OpenFails, WriteFails
  <2>6. ASSUME NEW p \in Procs, ServeCached(p) PROVE J'
    BY <2>6 DEF ServeCached, Serve, Inv, TypeOK
  <2>7. ASSUME NEW p \in Procs, WriteFile(p) PROVE J'
    BY <2>7 DEF WriteFile, Serve, Built, Inv, TypeOK
  <2>8. ASSUME NEW p \in Procs, MissCache(p) \/ Introspect(p) \/ OpenFile(p) PROVE J'
    BY <2>8 DEF MissCache, Introspect, OpenFile, Inv, TypeOK
  <2>9. ASSUME NEW p \in Procs, Start(p) PROVE J'
    BY <2>9 DEF Start, Inv, TypeOK
  <2>10. ASSUME NEW p \in Procs, Crash(p) PROVE J'
    BY <2>10 DEF Crash, Inv, TypeOK
  <2>11. CASE UpgradeBox \/ UNCHANGED vars
    BY <2>11 DEF UpgradeBox, vars
  <2>12. QED
    BY <2>2, <2>3, <2>4, <2>5, <2>6, <2>7, <2>8, <2>9, <2>10, <2>11 DEF Next, Load
<1>3. QED
  BY <1>1, <1>2, Invariance, PTL DEF Spec
=============================================================================
