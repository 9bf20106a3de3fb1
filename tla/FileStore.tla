------------------------------- MODULE FileStore ------------------------------
(***************************************************************************)
(* What a file system of a given capacity promises: a file reads back as   *)
(* the data last written to it, cut off only where the medium was full,    *)
(* and writing one file changes no other.  Capacity is counted in          *)
(* clusters, so a file that grows, shrinks or is overwritten gives back    *)
(* every cluster it no longer needs.                                       *)
(***************************************************************************)
EXTENDS Integers, Sequences, FiniteSets

CONSTANTS
  Names,          \* file names
  Contents,       \* what is written to files
  MaxFiles,       \* how many files there can be
  Capacity,       \* how many clusters there are
  ClusterUnits    \* how much data a cluster holds

VARIABLE store    \* file name -> data

Clusters(len) == (len + ClusterUnits - 1) \div ClusterUnits

Init == store = [n \in {} |-> <<>>]

\* The clusters of some files, numbered file by file.
Extents(files, names) == UNION {{n} \X (1 .. Clusters(Len(files[n]))) : n \in names}
UsedBy(files, names) == Cardinality(Extents(files, names))

\* What fits beside the other files is stored.
Write(files, name, content) ==
  LET others == DOMAIN files \ {name}
      room == (Capacity - UsedBy(files, others)) * ClusterUnits
      part == IF Len(content) <= room THEN content ELSE SubSeq(content, 1, room)
  IN  [n \in DOMAIN files \cup {name} |-> IF n = name THEN part ELSE files[n]]

\* A new file is refused when the directory is full.
Accepts(files, name) == name \in DOMAIN files \/ Cardinality(DOMAIN files) < MaxFiles

Outcomes(files) ==
  {IF Accepts(files, name) THEN Write(files, name, content) ELSE files :
     name \in Names, content \in Contents}

Next == store' \in Outcomes(store)

Spec == Init /\ [][Next]_store
=============================================================================
