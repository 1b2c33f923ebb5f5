---------------------------- MODULE ActionCache -----------------------------
(***************************************************************************)
(* The result cache workers on one host share: internal/action/cache.go     *)
(* over the object store of internal/cas/cas.go.  An index file names, for  *)
(* an action key, the digest of the result's bytes; an object file under    *)
(* that digest holds them.  A digest stands for the bytes it is the sum of, *)
(* so a result is its own digest.  Every rename is a step of its own; the   *)
(* temporary files are private to their writer.                             *)
(***************************************************************************)
EXTENDS Integers

CONSTANTS Keys,      \* action keys
          Digests,   \* results that may be put
          Torn       \* what is read from a file whose bytes were lost

ASSUME CacheAssumption == "none" \notin Digests \cup {Torn} /\ Torn \notin Digests

VARIABLES index,     \* index[k]: what the index file of k holds, "none" if absent
          objects    \* objects[d]: the bytes of the object file of d, likewise

cacheVars == <<index, objects>>

CacheInit == index = [k \in Keys |-> "none"] /\ objects = [d \in Digests |-> "none"]

\* Cacheable: behavior and tests.
Cacheable(kind) == kind \in {"behavior", "tests"}

\* The verdicts Put keeps.
Keeps(verdict) == verdict \notin {"", "incomplete", "pass", "validated"}

-----------------------------------------------------------------------------
(* cas.go *)

\* Dir.Get of a valid digest succeeds when the bytes there have that sum.
casGet(id, raw) == id \in Digests /\ raw = id

\* Dir.Put: an object that exists is verified and kept, another is renamed into place.
casPutOK(id) == objects[id] \in {"none", id}
casPut(id) == objects' = [objects EXCEPT ![id] = id]

-----------------------------------------------------------------------------
(* cache.go: the last step of Put, and what Get finds *)

PutIndex(key, id) == index' = [index EXCEPT ![key] = id]

\* The machine stops.  Nothing is synced, so any file may have lost its bytes.  A rename
\* that was made is taken to be kept, as by a file system that journals its directories.
PowerLoss ==
  \E K \in SUBSET {k \in Keys : index[k] # "none"}, D \in SUBSET {d \in Digests : objects[d] # "none"} :
    /\ index' = [k \in Keys |-> IF k \in K THEN Torn ELSE index[k]]
    /\ objects' = [d \in Digests |-> IF d \in D THEN Torn ELSE objects[d]]

=============================================================================
