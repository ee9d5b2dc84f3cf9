-------------------------- MODULE LineageProperties --------------------------
(***************************************************************************)
(* What versioned inputs promise a completed experiment.                   *)
(***************************************************************************)
EXTENDS DatasetLineage

TypeOK ==
  /\ market \subseteq Days
  /\ dataset \in Ids \cup {None}
  /\ versions \subseteq Version
  /\ cache \subseteq Key
  /\ experiments \subseteq Experiment
  /\ \A k \in Key : /\ files[k] \in (SUBSET Days) \cup {None}
                    /\ cacheFiles[k] \in (SUBSET Days) \cup {None}
  /\ \A c \in Clients : tx[c].row \subseteq Version /\ tx[c].cached \subseteq Key

\* The file of a committed version holds the data its checksum was taken of, and a cached
\* feature was computed from it, whatever transactions were rolled back after writing
\* theirs.  docs/data.md: a version is "a validated, checksummed Parquet snapshot".  It
\* holds as long as one session at a time makes versions of a dataset.
StoredDataIsImmutable ==
  \A v \in versions :
    /\ files[v.key] = v.checksum
    /\ v.key \in cache => cacheFiles[v.key] = v.checksum

\* The versions of the dataset are numbered without a gap, and data that did not change
\* never makes a second one.
VersionsAreDistinct ==
  /\ \A v \in versions : v.key[1] = dataset
  /\ Numbers(dataset) = 1 .. Cardinality(versions)
  /\ \A v, u \in versions : v.checksum = u.checksum => v = u

\* The rows keep their types, and the versions their numbers.
LineageInv == TypeOK /\ VersionsAreDistinct

\* An experiment reproduced on its own version matches, whatever was ingested or recorded
\* since; replayed on another version, even one that measures the same, it never does.
ReproductionIsFaithful ==
  \A e \in experiments :
    /\ Differences(e, e.key) = {}
    /\ \A v \in versions : v.key # e.key => Differences(e, v.key) # {}
=============================================================================
