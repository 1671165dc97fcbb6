\* Three threads, two processes; the types share a shard of the reverse map.
\* A thread that has panicked stops, and others may wait for its locks for ever: that
\* this does not happen is StoreRunsThrough.
SPECIFICATION IdStoreFairSpec
CONSTANTS
  main = main
  p1 = p1
  p2 = p2
  p3 = p3
  Main = main
  Threads = {main, p1, p2, p3}
  TypeIds = {1, 2}
  Names = {"a", "b", "c"}
  MapShards = {1}
  IdShards = {1, 2}
  MapShard <- SharedShard
  IdShard <- OwnShard
  Program <- Programs
  InitialFile <- OneFile
  Processes = 2
  Nobody = Nobody
INVARIANTS
  IdsAgree
  FileIdsKept
PROPERTIES
  StoreRunsThrough
CHECK_DEADLOCK FALSE
