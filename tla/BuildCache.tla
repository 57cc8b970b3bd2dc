----------------------------- MODULE BuildCache -----------------------------
(***************************************************************************)
(* Compiler::compile (launchbound-build): specialize a scratch copy of the *)
(* kernel crate, hash it, and fetch the PTX of that hash from the artifact *)
(* cache or build it with `cargo oxide' and store it.                      *)
(*                                                                         *)
(* Every process works in the same scratch directory and the same cache,   *)
(* both below the crate's target/, while the crate's author edits it.  The *)
(* files of the crate are copied one at a time; its path dependencies are  *)
(* not, the copied manifest names them where they are.  `cargo oxide' is   *)
(* external and reproducible: it maps a source, which is all that it       *)
(* compiles, to one PTX, which is represented by that source.  A hash is   *)
(* the part of the source that is hashed (SHA-256 has no collisions).      *)
(* Files are edited, never removed.                                        *)
(***************************************************************************)
EXTENDS FiniteSets, Naturals

CONSTANTS
  Procs,      \* processes that may compile at the same time
  Files,      \* what is compiled, params.rs aside: Cargo.toml and Cargo.lock,
              \* the build script, the files below src/, the path dependencies
  Unhashed,   \* those of them that source_hash does not read
  Lock,       \* of these, Cargo.lock
  Linked,     \* and the path dependencies
  Versions,   \* the contents a file may have
  Keys,       \* the spec-role values a configuration asks for
  Default,    \* params.rs as the crate has it
  MaxFaults,  \* bound: how often a process dies, or cannot fill a file
  NoSource,   \* no source, hash or artifact
  Absent,     \* no cache entry
  Torn        \* an entry that was created and not filled

Source == [files : [Files -> Versions], params : Keys \cup {Default}]

Copied == Files \ Linked
Copies == [files : [Copied -> Versions], params : Keys \cup {Default}]

Hashed == Files \ Unhashed
Hashes == [files : [Hashed -> Versions], params : Keys \cup {Default}]

ASSUME BuildAssumption ==
  /\ Unhashed \subseteq Files /\ Linked \cup Lock \subseteq Unhashed
  /\ Linked \cap Lock = {}
  /\ Default \notin Keys
  /\ MaxFaults \in Nat
  /\ NoSource \notin Source \cup Hashes
  /\ Absent \notin Source /\ Torn \notin Source /\ Absent # Torn

(* Mutant: the hash leaves params.rs out.                                  *)
HashWithoutParams(s) ==
  [files |-> [f \in Hashed |-> s.files[f]], params |-> Default]

(* source_hash, of the scratch copy: Cargo.toml and the entries of src/    *)
(* that are files.                                                         *)
SourceHash(s) ==
  [files |-> [f \in Hashed |-> s.files[f]], params |-> s.params]

VARIABLES
  repo,       \* the kernel crate: the content of each file
  scratch,    \* the scratch copy
  artifact,   \* <scratch>/<stem>.ptx
  cache,      \* the artifact cache
  pc,         \* where each process is in compile
  key,        \* the spec-role values of its configuration
  todo,       \* the files it has not copied yet
  hash,       \* the hash it computed
  ptx,        \* the PTX it read
  edited,     \* history: the crate was edited since it began
  faults      \* history: how many faults there were

vars == <<repo, scratch, artifact, cache, pc, key, todo, hash, ptx, edited,
          faults>>

Init ==
  /\ repo \in [Files -> Versions]
  /\ scratch = [files |-> [f \in Copied |-> repo[f]], params |-> Default]
  /\ artifact = NoSource
  /\ cache = [h \in Hashes |-> Absent]
  /\ pc = [p \in Procs |-> "idle"]
  /\ key = [p \in Procs |-> Default]
  /\ todo = [p \in Procs |-> {}]
  /\ hash = [p \in Procs |-> NoSource]
  /\ ptx = [p \in Procs |-> NoSource]
  /\ edited = [p \in Procs |-> FALSE]
  /\ faults = 0

-----------------------------------------------------------------------------
(* The author of the crate saves a file.                                   *)
Edit(f, v) ==
  /\ v # repo[f]
  /\ repo' = [repo EXCEPT ![f] = v]
  /\ edited' = [p \in Procs |-> pc[p] # "idle"]
  /\ UNCHANGED <<scratch, artifact, cache, pc, key, todo, hash, ptx, faults>>

Step(p, from, to) == pc[p] = from /\ pc' = [pc EXCEPT ![p] = to]

(* compile is called for a configuration.                                  *)
Begin(p, k) ==
  /\ Step(p, "idle", "prepare")
  /\ key' = [key EXCEPT ![p] = k]
  /\ todo' = [todo EXCEPT ![p] = Copied]
  /\ UNCHANGED <<repo, scratch, artifact, cache, hash, ptx, edited, faults>>

(* It returned, or its process is gone: its locals are.                    *)
Ends(p) ==
  /\ pc' = [pc EXCEPT ![p] = "idle"]
  /\ key' = [key EXCEPT ![p] = Default]
  /\ todo' = [todo EXCEPT ![p] = {}]
  /\ hash' = [hash EXCEPT ![p] = NoSource]
  /\ ptx' = [ptx EXCEPT ![p] = NoSource]
  /\ edited' = [edited EXCEPT ![p] = FALSE]

(* Mutant: a file the scratch copy already has is not copied again.        *)
CopyIfMissing(p, f) ==
  /\ pc[p] = "prepare" /\ f \in todo[p]
  /\ todo' = [todo EXCEPT ![p] = @ \ {f}]
  /\ UNCHANGED <<repo, scratch, artifact, cache, pc, key, hash, ptx, edited,
                 faults>>

(* prepare_scratch copies one file.                                        *)
CopyFile(p, f) ==
  /\ pc[p] = "prepare" /\ f \in todo[p]
  /\ scratch' = [scratch EXCEPT !.files[f] = repo[f]]
  /\ todo' = [todo EXCEPT ![p] = @ \ {f}]
  /\ UNCHANGED <<repo, artifact, cache, pc, key, hash, ptx, edited, faults>>

(* Cargo.lock is left as it is in the scratch copy, and no error returned, *)
(* if it cannot be read or written.                                        *)
SkipLock(p, f) ==
  /\ pc[p] = "prepare" /\ f \in todo[p] \cap Lock
  /\ todo' = [todo EXCEPT ![p] = @ \ {f}]
  /\ UNCHANGED <<repo, scratch, artifact, cache, pc, key, hash, ptx, edited,
                 faults>>

(* The crate's own params.rs is copied with the other files.               *)
CopyParams(p) ==
  /\ Step(p, "prepare", "params") /\ todo[p] = {}
  /\ scratch' = [scratch EXCEPT !.params = Default]
  /\ UNCHANGED <<repo, artifact, cache, key, todo, hash, ptx, edited, faults>>

WriteParams(p) ==
  /\ Step(p, "params", "hash")
  /\ scratch' = [scratch EXCEPT !.params = key[p]]
  /\ UNCHANGED <<repo, artifact, cache, key, todo, hash, ptx, edited, faults>>

HashSource(p) ==
  /\ Step(p, "hash", "lookup")
  /\ hash' = [hash EXCEPT ![p] = SourceHash(scratch)]
  /\ UNCHANGED <<repo, scratch, artifact, cache, key, todo, ptx, edited,
                 faults>>

(* lookup asks only whether the file is there.                             *)
Hit(p) ==
  /\ Step(p, "lookup", "served")
  /\ cache[hash[p]] # Absent
  /\ UNCHANGED <<repo, scratch, artifact, cache, key, todo, hash, ptx,
                 edited, faults>>

(* Mutants: the lookup is not asked, or nothing is built for a miss.       *)
AlwaysMiss(p) ==
  /\ Step(p, "lookup", "oxide")
  /\ UNCHANGED <<repo, scratch, artifact, cache, key, todo, hash, ptx,
                 edited, faults>>

MissStoresNothing(p) ==
  /\ Step(p, "lookup", "create")
  /\ cache[hash[p]] = Absent
  /\ UNCHANGED <<repo, scratch, artifact, cache, key, todo, hash, ptx,
                 edited, faults>>

Miss(p) ==
  /\ Step(p, "lookup", "oxide")
  /\ cache[hash[p]] = Absent
  /\ UNCHANGED <<repo, scratch, artifact, cache, key, todo, hash, ptx,
                 edited, faults>>

(* What cargo oxide compiles: the scratch copy, and the path dependencies. *)
Compiled ==
  [files |-> [f \in Files |-> IF f \in Linked THEN repo[f]
                             ELSE scratch.files[f]],
   params |-> scratch.params]

(* invoke_oxide: cargo oxide builds what is there now, then the artifact   *)
(* is read back.                                                           *)
Oxide(p) ==
  /\ Step(p, "oxide", "read")
  /\ artifact' = Compiled
  /\ UNCHANGED <<repo, scratch, cache, key, todo, hash, ptx, edited, faults>>

ReadArtifact(p) ==
  /\ Step(p, "read", "create")
  /\ ptx' = [ptx EXCEPT ![p] = artifact]
  /\ UNCHANGED <<repo, scratch, artifact, cache, key, todo, hash, edited,
                 faults>>

(* ArtifactCache::store: fs::write creates or truncates the entry, and     *)
(* then fills it; the metadata file beside it is not modelled.             *)
Create(p) ==
  /\ Step(p, "create", "fill")
  /\ cache' = [cache EXCEPT ![hash[p]] = Torn]
  /\ UNCHANGED <<repo, scratch, artifact, key, todo, hash, ptx, edited,
                 faults>>

Fill(p) ==
  /\ Step(p, "fill", "meta")
  /\ cache' = [cache EXCEPT ![hash[p]] = ptx[p]]
  /\ UNCHANGED <<repo, scratch, artifact, key, todo, hash, ptx, edited,
                 faults>>

WriteMeta(p) ==
  /\ Step(p, "meta", "served")
  /\ UNCHANGED <<repo, scratch, artifact, cache, key, todo, hash, ptx,
                 edited, faults>>

(* The caller has used the artifact.                                       *)
Return(p) ==
  /\ pc[p] = "served"
  /\ Ends(p)
  /\ UNCHANGED <<repo, scratch, artifact, cache, faults>>

(* A step returns an error before it changed anything: a file that cannot  *)
(* be read or created, a params.rs without the constant, a crate that does *)
(* not compile, metadata that cannot be written.                           *)
Fails(p) ==
  /\ pc[p] \in {"prepare", "params", "hash", "oxide", "read", "create", "meta"}
  /\ Ends(p)
  /\ UNCHANGED <<repo, scratch, artifact, cache, faults>>

(* The process is killed, or the disk fills while it writes an entry: what *)
(* it wrote stays.                                                         *)
Dies(p) ==
  /\ pc[p] # "idle" /\ faults < MaxFaults
  /\ faults' = faults + 1
  /\ Ends(p)
  /\ UNCHANGED <<repo, scratch, artifact, cache>>

Prepare(p) ==
  \/ \E k \in Keys : Begin(p, k)
  \/ \E f \in Files : CopyFile(p, f) \/ SkipLock(p, f)
  \/ CopyParams(p) \/ WriteParams(p) \/ HashSource(p)

Compile(p) ==
  \/ Hit(p) \/ Miss(p)
  \/ Oxide(p) \/ ReadArtifact(p)
  \/ Create(p) \/ Fill(p) \/ WriteMeta(p)
  \/ Return(p)

Next ==
  \/ \E f \in Files, v \in Versions : Edit(f, v)
  \/ \E p \in Procs : Prepare(p) \/ Compile(p) \/ Fails(p) \/ Dies(p)

Spec == Init /\ [][Next]_vars

-----------------------------------------------------------------------------
(* Properties.                                                             *)

TypeOK ==
  /\ repo \in [Files -> Versions]
  /\ scratch \in Copies
  /\ artifact \in Source \cup {NoSource}
  /\ cache \in [Hashes -> Source \cup {Absent, Torn}]
  /\ pc \in [Procs -> {"idle", "prepare", "params", "hash", "lookup", "oxide",
                       "read", "create", "fill", "meta", "served"}]
  /\ key \in [Procs -> Keys \cup {Default}]
  /\ todo \in [Procs -> SUBSET Copied]
  /\ hash \in [Procs -> Hashes \cup {NoSource}]
  /\ ptx \in [Procs -> Source \cup {NoSource}]
  /\ edited \in [Procs -> BOOLEAN]
  /\ faults \in 0..MaxFaults

(* An entry that holds a PTX holds one built from a source of its hash.    *)
OwnPtx == \A h \in Hashes : cache[h] \in Source => SourceHash(cache[h]) = h

(* What compile returns is the path of a whole PTX.                        *)
ServedWhole == \A p \in Procs : pc[p] = "served" => cache[hash[p]] \in Source

(* The source a process was asked to compile: the crate as it is, and the  *)
(* specialization of its configuration.                                    *)
Asked(p) == [files |-> repo, params |-> key[p]]

(* As long as no process died, and when nobody edits the crate while it is *)
(* compiled, the artifact is whole and was built from a source that has    *)
(* the params asked for and agrees with the crate, as it is, in every file *)
(* that is hashed, whatever the cache was left with by its earlier         *)
(* versions.                                                               *)
ServedIsCurrent ==
  \A p \in Procs : pc[p] = "served" /\ ~edited[p] /\ faults = 0 =>
    \E s \in Source :
      /\ cache[hash[p]] = s
      /\ s.params = key[p]
      /\ \A f \in Hashed : s.files[f] = repo[f]

(* The same of everything that is compiled: a changed source never meets a *)
(* stale entry.                                                            *)
ServedIsExact ==
  \A p \in Procs : pc[p] = "served" /\ ~edited[p] /\ faults = 0 =>
    cache[hash[p]] = Asked(p)

(* The cache implements the content-addressed store it is documented to    *)
(* be, an entry being there once it is filled.                             *)
Filled ==
  [h \in Hashes |-> IF cache[h] \in Source THEN cache[h] ELSE Absent]

Store == INSTANCE PtxStore WITH
  Sources <- Source, HashOf <- SourceHash, entry <- Filled

ImplementsStore == Store!Spec

(* The inductive part, for one process: what it carries from the hash to   *)
(* the store is a PTX of that hash, which is the scratch copy's, and it    *)
(* writes only an entry that was not there.                                *)
CarriesOwn(p) ==
  /\ pc[p] \in {"lookup", "oxide", "read", "create", "fill", "meta", "served"}
       => hash[p] = SourceHash(scratch)
  /\ pc[p] \in {"oxide", "read", "create"} => cache[hash[p]] = Absent
  /\ pc[p] = "read" => SourceHash(artifact) = hash[p]
  /\ pc[p] \in {"create", "fill", "meta"} => SourceHash(ptx[p]) = hash[p]
  /\ pc[p] = "fill" => cache[hash[p]] = Torn

CacheInv == OwnPtx /\ \A p \in Procs : CarriesOwn(p)

(* What holds besides until a process dies: the only torn entry is the one *)
(* being filled, and the scratch copy is the crate, Cargo.lock aside,      *)
(* unless it was edited.                                                   *)
NothingTorn(p) ==
  /\ \A h \in Hashes : cache[h] = Torn => pc[p] = "fill" /\ h = hash[p]
  /\ ~edited[p] /\ pc[p] # "idle" =>
       \A f \in Copied \ (Lock \cup todo[p]) : scratch.files[f] = repo[f]
  /\ pc[p] \notin {"idle", "prepare"} => todo[p] = {}
  /\ pc[p] \notin {"idle", "prepare", "params"} => scratch.params = key[p]
  /\ pc[p] \in {"meta", "served"} => cache[hash[p]] \in Source

FreshInv == CacheInv /\ (faults = 0 => \A p \in Procs : NothingTorn(p))
=============================================================================
