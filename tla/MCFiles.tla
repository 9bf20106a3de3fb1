-------------------------------- MODULE MCFiles ------------------------------
(***************************************************************************)
(* The module that TLC runs for Fat12 and Syscalls together.  A run is a   *)
(* session: either files are written until disk and directory are full and *)
(* beyond, or every call is made, on as many files as there is room for in *)
(* any case: two, of at most a cluster.                                    *)
(***************************************************************************)
EXTENDS MCSyscalls

VARIABLE session            \* the names in use, and whether the calls are made

mcVars == <<sysVars, session>>

\* Names only differ in their identity.
NameSymmetry == Permutations(Names)

\* Files of two and three clusters as well.
LargeData == FileData \cup {<<1, 2, 3>>, <<3, 2, 1, 2, 3>>}

Sessions ==
  {[names |-> Names, calls |-> FALSE]}
    \cup {[names |-> pair, calls |-> TRUE] : pair \in {N \in SUBSET Names : Cardinality(N) = 2}}

Write == Next /\ UNCHANGED <<fd_table, call, ret, written>>

\* A call, and the caller takes its answer before the next one is made: which call was
\* the latest has no influence on what follows.
Within ==
  /\ call'.argument \notin Names \ session.names
  /\ \A p \in UsedPositions' : Entry(disk', p).size <= SectorUnits
Take ==
  /\ call' = [name |-> "none", argument |-> NULL] /\ ret' = [code |-> SYSCALL_OK, data |-> <<>>]
  /\ UNCHANGED <<disk, fd_table, written>>

MCInit == SysInit /\ session \in Sessions

MCNext ==
  /\ \/ ~ session.calls /\ Write
     \/ session.calls /\ call.name = "none" /\ syscall_handler /\ Within
     \/ session.calls /\ call.name # "none" /\ Take
  /\ UNCHANGED session

MCSpec == MCInit /\ [][MCNext]_mcVars
=============================================================================
