\* Every first database of Init; two runs or reverts die half way.
CONSTANT MaxCrashes = 2
SPECIFICATION MigrationsSpec
INVARIANTS SchemaTypeOK RecordedIsApplied
PROPERTIES RunsUnlessBlocked
