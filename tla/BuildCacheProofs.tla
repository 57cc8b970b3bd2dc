-------------------------- MODULE BuildCacheProofs --------------------------
(* Proofs about the artifact cache, for every crate, every set of          *)
(* configurations and any number of edits, failures and deaths.            *)
EXTENDS BuildCache, TLAPS

USE BuildAssumption DEF BuildAssumption

(* A source is its files and its params, and has a hash.                   *)
LEMMA HashType ==
  ASSUME NEW s \in Source \cup Copies
  PROVE  SourceHash(s) \in Hashes
BY DEF Source, Copies, Copied, Hashed, Hashes, SourceHash

(* What is compiled has the hash of the scratch copy: the path             *)
(* dependencies are not hashed.                                            *)
LEMMA CompiledIs ==
  ASSUME repo \in [Files -> Versions], scratch \in Copies
  PROVE  Compiled \in Source /\ SourceHash(Compiled) = SourceHash(scratch)
<1>1. Compiled \in Source
  BY DEF Compiled, Source, Copies, Copied
<1>2. \A f \in Hashed : Compiled.files[f] = scratch.files[f]
  BY DEF Compiled, Hashed
<1>3. Compiled.params = scratch.params
  BY DEF Compiled
<1>4. QED
  BY <1>1, <1>2, <1>3 DEF SourceHash

(* What a process holds once it has computed it.                           *)
Holds(p) ==
  /\ pc[p] \in {"lookup", "oxide", "read", "create", "fill", "meta", "served"}
       => hash[p] \in Hashes
  /\ pc[p] = "read" => artifact \in Source
  /\ pc[p] \in {"create", "fill"} => ptx[p] \in Source

TypeInv == TypeOK /\ \A p \in Procs : Holds(p)

(* Every step keeps the types, with any number of processes.               *)
LEMMA TypeStep == TypeInv /\ [Next]_vars => TypeInv'
<1> SUFFICES ASSUME TypeInv, [Next]_vars PROVE TypeInv'
  OBVIOUS
<1> USE DEF TypeInv, Holds
<1>1. ASSUME NEW f \in Files, NEW v \in Versions, Edit(f, v) PROVE TypeInv'
  BY <1>1 DEF Edit, TypeOK
<1>2. ASSUME NEW p \in Procs, NEW k \in Keys, Begin(p, k) PROVE TypeInv'
  BY <1>2 DEF Begin, Step, TypeOK
<1>3. ASSUME NEW p \in Procs, NEW f \in Files, CopyFile(p, f) PROVE TypeInv'
  <2>1. scratch' \in Copies
    BY <1>3 DEF CopyFile, TypeOK, Copies, Copied
  <2>2. QED
    BY <1>3, <2>1 DEF CopyFile, TypeOK
<1>4. ASSUME NEW p \in Procs, CopyParams(p) \/ WriteParams(p) PROVE TypeInv'
  <2>1. scratch' \in Copies
    BY <1>4 DEF CopyParams, WriteParams, TypeOK, Copies
  <2>2. QED
    BY <1>4, <2>1 DEF CopyParams, WriteParams, Step, TypeOK
<1>5. ASSUME NEW p \in Procs, HashSource(p) PROVE TypeInv'
  <2> DEFINE h == SourceHash(scratch)
  <2>1. h \in Hashes
    BY HashType DEF TypeOK
  <2>2. hash' = [hash EXCEPT ![p] = h]
    BY <1>5 DEF HashSource
  <2> HIDE DEF h
  <2>3. QED
    BY <1>5, <2>1, <2>2 DEF HashSource, Step, TypeOK
<1>6. ASSUME NEW p \in Procs, Hit(p) \/ Miss(p) \/ WriteMeta(p) PROVE TypeInv'
  BY <1>6 DEF Hit, Miss, WriteMeta, Step, TypeOK
<1>7. ASSUME NEW p \in Procs, Oxide(p) PROVE TypeInv'
  <2>1. artifact' \in Source
    BY <1>7, CompiledIs DEF Oxide, TypeOK
  <2>2. QED
    BY <1>7, <2>1 DEF Oxide, Step, TypeOK
<1>8. ASSUME NEW p \in Procs, ReadArtifact(p) PROVE TypeInv'
  BY <1>8 DEF ReadArtifact, Step, TypeOK
<1>9. ASSUME NEW p \in Procs, Create(p) PROVE TypeInv'
  BY <1>9 DEF Create, Step, TypeOK
<1>10. ASSUME NEW p \in Procs, Fill(p) PROVE TypeInv'
  BY <1>10 DEF Fill, Step, TypeOK
<1>11. ASSUME NEW p \in Procs, Return(p) \/ Fails(p) \/ Dies(p) PROVE TypeInv'
  <2>1. /\ Ends(p)
        /\ UNCHANGED <<repo, scratch, artifact, cache>>
        /\ faults' \in 0..MaxFaults
    BY <1>11 DEF Return, Fails, Dies, TypeOK
  <2>2. TypeOK'
    BY <2>1 DEF Ends, TypeOK
  <2>3. \A q \in Procs : Holds(q)'
    BY <2>1 DEF Ends, TypeOK
  <2>4. QED
    BY <2>2, <2>3
<1>12. CASE UNCHANGED vars
  BY <1>12 DEF vars, TypeOK
<1>13. ASSUME NEW p \in Procs, NEW f \in Files, SkipLock(p, f) PROVE TypeInv'
  BY <1>13 DEF SkipLock, TypeOK
<1>14. QED
  BY <1>1, <1>2, <1>3, <1>4, <1>5, <1>6, <1>7, <1>8, <1>9, <1>10, <1>11,
     <1>12, <1>13 DEF Next, Prepare, Compile

(* Every variable keeps its type, and what a process has computed is there *)
(* when it needs it, with any number of processes.                         *)
THEOREM BuildTypes == Spec => []TypeInv
<1>1. Init => TypeInv
  BY DEF Init, TypeInv, TypeOK, Holds, Copies, Copied
<1>2. QED
  BY <1>1, TypeStep, PTL DEF Spec

(* Every variable keeps its type, with any number of processes.            *)
THEOREM Types == Spec => []TypeOK
<1>1. TypeInv => TypeOK
  BY DEF TypeInv
<1>2. QED
  BY <1>1, BuildTypes, PTL

-----------------------------------------------------------------------------
(* One process at a time.                                                  *)

(* Every step of the only process keeps what it carries its own.           *)
LEMMA CacheStep ==
  ASSUME \A p, q \in Procs : p = q,
         TypeInv, TypeInv', CacheInv, [Next]_vars
  PROVE  CacheInv'
<1> USE DEF CacheInv, CarriesOwn, OwnPtx, TypeInv, Holds
<1>1. ASSUME NEW f \in Files, NEW v \in Versions, Edit(f, v) PROVE CacheInv'
  BY <1>1 DEF Edit
<1>2. ASSUME NEW p \in Procs, NEW k \in Keys, Begin(p, k) PROVE CacheInv'
  BY <1>2 DEF Begin, Step, TypeOK
<1>3. ASSUME NEW p \in Procs, NEW f \in Files, CopyFile(p, f) PROVE CacheInv'
  BY <1>3 DEF CopyFile, TypeOK
<1>4. ASSUME NEW p \in Procs, CopyParams(p) \/ WriteParams(p) PROVE CacheInv'
  BY <1>4 DEF CopyParams, WriteParams, Step, TypeOK
<1>5. ASSUME NEW p \in Procs, HashSource(p) PROVE CacheInv'
  BY <1>5 DEF HashSource, Step, TypeOK
<1>6. ASSUME NEW p \in Procs, Hit(p) \/ Miss(p) \/ WriteMeta(p) PROVE CacheInv'
  BY <1>6 DEF Hit, Miss, WriteMeta, Step, TypeOK
<1>7. ASSUME NEW p \in Procs, Oxide(p) PROVE CacheInv'
  <2>1. SourceHash(artifact') = SourceHash(scratch)
    BY <1>7, CompiledIs DEF Oxide, TypeOK
  <2>2. QED
    BY <1>7, <2>1 DEF Oxide, Step, TypeOK
<1>8. ASSUME NEW p \in Procs, ReadArtifact(p) PROVE CacheInv'
  BY <1>8 DEF ReadArtifact, Step, TypeOK
<1>9. ASSUME NEW p \in Procs, Create(p) PROVE CacheInv'
  <2>1. hash[p] \in Hashes /\ cache' = [cache EXCEPT ![hash[p]] = Torn]
    BY <1>9 DEF Create, Step
  <2>2. /\ cache'[hash[p]] = Torn
        /\ \A h \in Hashes : h # hash[p] => cache'[h] = cache[h]
    BY <2>1 DEF TypeOK
  <2>3. OwnPtx'
    BY <2>2
  <2>4. CarriesOwn(p)'
    BY <1>9, <2>2 DEF Create, Step, TypeOK
  <2>5. QED
    BY <2>3, <2>4
<1>10. ASSUME NEW p \in Procs, Fill(p) PROVE CacheInv'
  <2>1. /\ hash[p] \in Hashes /\ cache' = [cache EXCEPT ![hash[p]] = ptx[p]]
        /\ SourceHash(ptx[p]) = hash[p]
    BY <1>10 DEF Fill, Step
  <2>2. /\ cache'[hash[p]] = ptx[p]
        /\ \A h \in Hashes : h # hash[p] => cache'[h] = cache[h]
    BY <2>1 DEF TypeOK
  <2>3. OwnPtx'
    BY <2>1, <2>2
  <2>4. CarriesOwn(p)'
    BY <1>10, <2>1 DEF Fill, Step, TypeOK
  <2>5. QED
    BY <2>3, <2>4
<1>11. ASSUME NEW p \in Procs, Return(p) \/ Fails(p) \/ Dies(p) PROVE CacheInv'
  BY <1>11 DEF Return, Fails, Dies, Ends, TypeOK
<1>12. CASE UNCHANGED vars
  BY <1>12 DEF vars
<1>13. ASSUME NEW p \in Procs, NEW f \in Files, SkipLock(p, f) PROVE CacheInv'
  BY <1>13 DEF SkipLock, TypeOK
<1>14. QED
  BY <1>1, <1>2, <1>3, <1>4, <1>5, <1>6, <1>7, <1>8, <1>9, <1>10, <1>11,
     <1>12, <1>13 DEF Next, Prepare, Compile

(* With one process at a time, whatever is edited and however often it     *)
(* dies, the entry of a hash is a PTX of a source with that hash.          *)
THEOREM CacheInvariance ==
  ASSUME \A p, q \in Procs : p = q
  PROVE  Spec => []CacheInv
<1>1. Init => CacheInv
  BY DEF Init, CacheInv, OwnPtx, CarriesOwn
<1>2. TypeInv /\ TypeInv' /\ CacheInv /\ [Next]_vars => CacheInv'
  BY CacheStep
<1>3. QED
  BY <1>1, <1>2, BuildTypes, PTL DEF Spec

(* No entry holds a PTX of another hash, whatever is edited and however    *)
(* often the process dies.                                                 *)
THEOREM Own ==
  ASSUME \A p, q \in Procs : p = q
  PROVE  Spec => []OwnPtx
<1>1. CacheInv => OwnPtx
  BY DEF CacheInv
<1>2. QED
  BY <1>1, CacheInvariance, PTL

(* Only the fill changes what the store shows: it adds one entry.          *)
LEMMA StoreStep ==
  ASSUME \A p, q \in Procs : p = q,
         TypeInv, CacheInv, [Next]_vars
  PROVE  [Store!Next]_Filled
<1> USE DEF TypeInv, TypeOK, Holds, CacheInv
<1>1. CASE cache' = cache
  BY <1>1 DEF Filled
<1>2. ASSUME NEW p \in Procs, Create(p) PROVE Filled' = Filled
  <2>1. /\ hash[p] \in Hashes /\ cache' = [cache EXCEPT ![hash[p]] = Torn]
        /\ cache[hash[p]] = Absent
    BY <1>2 DEF Create, Step, CarriesOwn
  <2>2. \A h \in Hashes : h # hash[p] => cache'[h] = cache[h]
    BY <2>1
  <2>3. cache'[hash[p]] = Torn
    BY <2>1
  <2>4. \A h \in Hashes :
          (IF cache'[h] \in Source THEN cache'[h] ELSE Absent) =
          (IF cache[h] \in Source THEN cache[h] ELSE Absent)
    BY <2>1, <2>2, <2>3
  <2>5. QED
    BY <2>4 DEF Filled
<1>3. ASSUME NEW p \in Procs, Fill(p) PROVE \E s \in Source : Store!Add(s)
  <2> DEFINE h0 == SourceHash(ptx[p])
  <2>1. /\ h0 \in Hashes /\ cache' = [cache EXCEPT ![h0] = ptx[p]]
        /\ cache[h0] = Torn /\ ptx[p] \in Source
    BY <1>3 DEF Fill, Step, CarriesOwn
  <2> HIDE DEF h0
  <2>2. Filled[h0] = Absent
    BY <2>1 DEF Filled
  <2>3. \A h \in Hashes : Filled'[h] = IF h = h0 THEN ptx[p] ELSE Filled[h]
    BY <2>1 DEF Filled
  <2>4. Filled' = [Filled EXCEPT ![h0] = ptx[p]]
    BY <2>3 DEF Filled
  <2>5. QED
    BY <2>1, <2>2, <2>4 DEF h0, Store!Add
<1>4. cache' = cache \/ \E p \in Procs : Create(p) \/ Fill(p)
  BY DEF Next, vars, Prepare, Compile, Edit, Begin, CopyFile, SkipLock,
     CopyParams, WriteParams, HashSource, Hit, Miss, Oxide, ReadArtifact, WriteMeta,
     Return, Fails, Dies
<1>5. ASSUME \E s \in Source : Store!Add(s) PROVE Store!Next
  BY <1>5 DEF Store!Next
<1>6. QED
  BY <1>1, <1>2, <1>3, <1>4, <1>5

(* With one process at a time the cache is a content-addressed store: an   *)
(* entry is added once, for its own hash, and never changed.               *)
THEOREM StoreRefinement ==
  ASSUME \A p, q \in Procs : p = q
  PROVE  Spec => ImplementsStore
<1>1. Init => Store!Init
  BY DEF Init, Store!Init, Filled
<1>2. TypeInv /\ CacheInv /\ [Next]_vars => [Store!Next]_Filled
  BY StoreStep
<1>3. QED
  BY <1>1, <1>2, BuildTypes, CacheInvariance, PTL
     DEF Spec, ImplementsStore, Store!Spec

-----------------------------------------------------------------------------
(* Until the process dies.                                                 *)

(* Every step keeps the scratch copy the crate, and no entry torn.         *)
LEMMA FreshStep ==
  ASSUME \A p, q \in Procs : p = q,
         TypeInv, TypeInv', CacheInv, CacheInv',
         faults = 0 => \A p \in Procs : NothingTorn(p),
         [Next]_vars, faults' = 0
  PROVE  \A p \in Procs : NothingTorn(p)'
<1> SUFFICES ASSUME NEW p \in Procs PROVE NothingTorn(p)'
  OBVIOUS
<1> USE DEF NothingTorn, TypeInv, TypeOK, Source, Copies, Copied
<1>1. faults = 0 /\ ~Dies(p)
  <2>1. ~Dies(p)
    BY DEF Dies
  <2>2. faults' = faults
    BY <2>1 DEF Next, vars, Prepare, Compile, Edit, Begin, CopyFile,
       SkipLock, CopyParams, WriteParams, HashSource, Hit, Miss, Oxide, ReadArtifact,
       Create, Fill, WriteMeta, Return, Fails
  <2>3. QED
    BY <2>1, <2>2
<1>2. NothingTorn(p) /\ CarriesOwn(p) /\ Holds(p) /\ CarriesOwn(p)'
  BY <1>1 DEF CacheInv
<1>3. ASSUME NEW f \in Files, NEW v \in Versions, Edit(f, v)
      PROVE NothingTorn(p)'
  BY <1>2, <1>3 DEF Edit
<1>4. ASSUME NEW k \in Keys, Begin(p, k) PROVE NothingTorn(p)'
  BY <1>2, <1>4 DEF Begin, Step
<1>5. ASSUME NEW f \in Files, CopyFile(p, f) PROVE NothingTorn(p)'
  BY <1>2, <1>5 DEF CopyFile
<1>6. CASE CopyParams(p) \/ WriteParams(p)
  BY <1>2, <1>6 DEF CopyParams, WriteParams, Step
<1>7. CASE HashSource(p)
  BY <1>2, <1>7 DEF HashSource, Step
<1>8. CASE Hit(p)
  BY <1>2, <1>8 DEF Hit, Step, Holds
<1>9. CASE Miss(p)
  BY <1>2, <1>9 DEF Miss, Step
<1>10. CASE Oxide(p) \/ ReadArtifact(p)
  BY <1>2, <1>10 DEF Oxide, ReadArtifact, Step
<1>11. CASE Create(p)
  BY <1>2, <1>11 DEF Create, Step, Holds
<1>12. CASE Fill(p)
  BY <1>2, <1>12 DEF Fill, Step, Holds
<1>13. CASE WriteMeta(p)
  BY <1>2, <1>13 DEF WriteMeta, Step
<1>14. CASE Return(p) \/ Fails(p)
  BY <1>2, <1>14 DEF Return, Fails, Ends
<1>15. CASE UNCHANGED vars
  BY <1>2, <1>15 DEF vars
<1>16. ASSUME NEW f \in Files, SkipLock(p, f) PROVE NothingTorn(p)'
  BY <1>2, <1>16 DEF SkipLock
<1>17. QED
  BY <1>1, <1>3, <1>4, <1>5, <1>6, <1>7, <1>8, <1>9, <1>10, <1>11, <1>12,
     <1>13, <1>14, <1>15, <1>16 DEF Next, Prepare, Compile

(* With one process at a time, until one dies, the scratch copy follows    *)
(* the crate, Cargo.lock aside, and no entry is torn.                      *)
THEOREM Freshness ==
  ASSUME \A p, q \in Procs : p = q
  PROVE  Spec => []FreshInv
<1>1. Init => (faults = 0 => \A p \in Procs : NothingTorn(p))
  BY DEF Init, NothingTorn
<1>2. /\ TypeInv /\ TypeInv' /\ CacheInv /\ CacheInv'
      /\ (faults = 0 => \A p \in Procs : NothingTorn(p)) /\ [Next]_vars
      => (faults = 0 => \A p \in Procs : NothingTorn(p))'
  BY FreshStep
<1>3. QED
  BY <1>1, <1>2, BuildTypes, CacheInvariance, PTL DEF Spec, FreshInv

(* What FreshInv says of a process that has been served.                   *)
LEMMA Served ==
  ASSUME TypeInv, FreshInv, NEW p \in Procs,
         pc[p] = "served", ~edited[p], faults = 0
  PROVE  /\ cache[hash[p]] \in Source
         /\ cache[hash[p]].params = key[p]
         /\ \A f \in Hashed : cache[hash[p]].files[f] = repo[f]
<1> USE DEF FreshInv, TypeInv, TypeOK, Holds
<1> DEFINE s == cache[hash[p]]
<1>1. s \in Source /\ hash[p] \in Hashes
  BY DEF NothingTorn
<1>2. SourceHash(s) = SourceHash(scratch)
  BY <1>1 DEF CacheInv, OwnPtx, CarriesOwn
<1>3. /\ s.params = scratch.params
      /\ \A f \in Hashed : s.files[f] = scratch.files[f]
  BY <1>2 DEF SourceHash
<1>4. /\ scratch.params = key[p]
      /\ \A f \in Hashed : scratch.files[f] = repo[f]
  BY DEF NothingTorn, Hashed, Copied
<1>5. QED
  BY <1>1, <1>3, <1>4

(* With one process at a time, and until one dies, what is served agrees   *)
(* with the crate as it is in everything that is hashed.                   *)
THEOREM Fresh ==
  ASSUME \A p, q \in Procs : p = q
  PROVE  Spec => []ServedIsCurrent
<1>1. TypeInv /\ FreshInv => ServedIsCurrent
  BY Served DEF ServedIsCurrent
<1>2. QED
  BY <1>1, BuildTypes, Freshness, PTL

(* If everything that is compiled is hashed, it is the PTX of the crate as *)
(* it is.  That takes a crate of Cargo.toml and files directly in src/,    *)
(* with no Cargo.lock, build script, nested module or path dependency.     *)
THEOREM Exact ==
  ASSUME \A p, q \in Procs : p = q, Unhashed = {}
  PROVE  Spec => []ServedIsExact
<1>1. TypeInv /\ FreshInv => ServedIsExact
  <2> SUFFICES ASSUME TypeInv, FreshInv, NEW p \in Procs,
                      pc[p] = "served", ~edited[p], faults = 0
               PROVE  cache[hash[p]] = Asked(p)
    BY DEF ServedIsExact
  <2> DEFINE s == cache[hash[p]]
  <2>1. /\ s \in Source /\ s.params = key[p]
        /\ \A f \in Files : s.files[f] = repo[f]
    BY Served DEF Hashed
  <2>2. s.files = repo
    BY <2>1 DEF Source, TypeInv, TypeOK
  <2>3. QED
    BY <2>1, <2>2 DEF Source, Asked
<1>2. QED
  BY <1>1, BuildTypes, Freshness, PTL
=============================================================================
