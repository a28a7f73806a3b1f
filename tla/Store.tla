------------------------------- MODULE Store --------------------------------
(***************************************************************************)
(* The content-addressed store of crates/core/src/store.rs. Paths map to   *)
(* digests and digests to bytes, so that bytes found at several paths are  *)
(* held once. Hash stands for BLAKE3 and is assumed to be injective.       *)
(***************************************************************************)
CONSTANTS Path, Bytes, Digest, Missing, Hash

ASSUME HashAssumption ==
  /\ Missing \notin Bytes \cup Digest
  /\ Hash \in [Bytes -> Digest]
  /\ \A a, b \in Bytes : Hash[a] = Hash[b] => a = b

VARIABLES
  paths,  \* path -> digest of its bytes, Missing where nothing was inserted
  blobs   \* digest -> bytes, Missing where the digest was never inserted

storeVars == <<paths, blobs>>

StoreTypeOK ==
  /\ paths \in [Path -> Digest \cup {Missing}]
  /\ blobs \in [Digest -> Bytes \cup {Missing}]

StoreInit ==
  /\ paths = [p \in Path |-> Missing]
  /\ blobs = [d \in Digest |-> Missing]

\* Mutant: the blob that was at the path is dropped, shared or not.
Bug_InsertFrees(p, b) ==
  /\ paths' = [paths EXCEPT ![p] = Hash[b]]
  /\ blobs' = [d \in Digest |-> IF d = Hash[b] THEN b
                                ELSE IF d = paths[p] THEN Missing ELSE blobs[d]]

\* Store::insert; entry().or_insert keeps the bytes that are there.
Insert(p, b) ==
  /\ paths' = [paths EXCEPT ![p] = Hash[b]]
  /\ blobs' = IF blobs[Hash[b]] = Missing THEN [blobs EXCEPT ![Hash[b]] = b] ELSE blobs

StoreNext == \E p \in Path, b \in Bytes : Insert(p, b)

StoreSpec == StoreInit /\ [][StoreNext]_storeVars

\* Store::get, a lookup in each map.
Get(p) == IF paths[p] = Missing THEN Missing ELSE blobs[paths[p]]

\* Store::is_empty.
IsEmpty == \A p \in Path : paths[p] = Missing

-----------------------------------------------------------------------------
\* Every path resolves, and every blob is under the digest of its bytes: no two
\* blobs are equal, "identical payloads are stored once" (store.rs:5).
Resolves ==
  /\ \A p \in Path : paths[p] # Missing => blobs[paths[p]] # Missing
  /\ \A d \in Digest : blobs[d] # Missing => Hash[blobs[d]] = d

\* Seen through get, the store is a map from paths to the bytes last inserted.
Files == INSTANCE FileMap WITH files <- [p \in Path |-> Get(p)]
ImplementsFileMap == Files!Spec
=============================================================================
