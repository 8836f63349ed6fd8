--------------------------- MODULE MCStorageEngine ---------------------------
(* Small instances of StorageEngine for TLC.                               *)
EXTENDS StorageEngine, TLC

\* Row keys are only compared for equality.
Symmetry == Permutations(Key)

\* The history of outcomes guards no step, and of the properties of the passing
\* run only TypeOK looks at it: states that differ only there are not told apart.
WithoutFate ==
    <<clock, registry, active, minted, tables, pages, root, index, wal, walSynced,
      op, faults, crashes>>
==============================================================================
