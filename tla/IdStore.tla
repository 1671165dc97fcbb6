------------------------------ MODULE IdStore ------------------------------
(***************************************************************************)
(* The global store of ids, shared by all threads of a process.            *)
(*                                                                         *)
(* For every stable type id there is a vector of external ids, the index   *)
(* of which is the internal id, and a reverse map.  Vectors and maps are   *)
(* in two sharded concurrent maps, whose shards have reader-writer locks.  *)
(* The main thread loads a file of ids (if there is one) before it starts  *)
(* the others, and writes one when they have been joined; the next process *)
(* loads that file.  Indices are one higher than in the code.              *)
(***************************************************************************)
EXTENDS Integers, Sequences, SequencesExt

CONSTANTS Threads, Main,
          TypeIds,              \* stable_type_id()
          Names,                \* external ids
          MapShards, IdShards,  \* the shards of both maps
          MapShard, IdShard,    \* the shard of a type id
          Program,              \* what the threads ask of the store
          InitialFile,          \* the ids in the file of the first process
          Processes,            \* how many processes run one after the other
          Nobody

Kinds == {"create", "get_from_ext", "try_get_from_ext", "get", "clear_mapping", "clear_ids",
          "load"}
Ops == [kind : Kinds, type : TypeIds, name : Names]

ASSUME IdStoreAssumption ==
  /\ Main \in Threads /\ Nobody \notin Threads /\ Names # {}
  /\ MapShard \in [TypeIds -> MapShards] /\ IdShard \in [TypeIds -> IdShards]
  /\ Program \in [Threads -> Seq([kind : Kinds \ {"clear_mapping", "clear_ids", "load"},
                                  type : TypeIds, name : Names])]
  /\ InitialFile \in [TypeIds -> Seq(Names)]
  /\ \A t \in TypeIds : \A i, j \in 1..Len(InitialFile[t]) :
       InitialFile[t][i] = InitialFile[t][j] => i = j
  /\ Processes \in Nat \ {0}

VARIABLES
  ids,        \* ids[t]: the external ids of type t in order of their internal id
  mapping,    \* mapping[t][n]: the index of n, 0 if it is not there
  mapWriter, mapReaders,   \* who holds the locks of the shards of `mapping`
  idsWriter,               \* who holds the write locks of the shards of `ids`
  pc,         \* where a thread is in its operation
  todo,       \* the operations a thread has still to do, the current one first
  held,       \* the ids a thread has got from the store
  loading,    \* the types of the file that are still to be loaded
  file,       \* the file the process began with
  before,     \* the ids of the process before, at its end
  process     \* the number of the process

storeVars == <<ids, mapping, mapWriter, mapReaders, idsWriter, pc, todo, held, loading, file,
               before, process>>
lockVars == <<mapWriter, mapReaders, idsWriter>>
runVars == <<loading, file, before, process>>

IdStoreInit ==
  /\ ids = [t \in TypeIds |-> <<>>]
  /\ mapping = [t \in TypeIds |-> [n \in Names |-> 0]]
  /\ mapWriter = [s \in MapShards |-> Nobody]
  /\ mapReaders = [s \in MapShards |-> {}]
  /\ idsWriter = [s \in IdShards |-> Nobody]
  /\ pc = [p \in Threads |-> "idle"]
  /\ todo = [p \in Threads |-> IF p = Main THEN <<>> ELSE Program[p]]
  /\ held = [p \in Threads |-> {}]
  /\ loading = TypeIds
  /\ file = InitialFile
  /\ before = InitialFile
  /\ process = 1

Loaded == loading = {} /\ todo[Main] = <<>>

\* deserialize: the next message of the file goes to replace_ids.
LoadType(t) ==
  /\ t \in loading /\ todo[Main] = <<>>
  /\ todo' = [todo EXCEPT ![Main] =
       << [kind |-> "clear_mapping", type |-> t, name |-> CHOOSE n \in Names : TRUE],
          [kind |-> "clear_ids", type |-> t, name |-> CHOOSE n \in Names : TRUE] >>
       \o [i \in 1..Len(file[t]) |-> [kind |-> "load", type |-> t, name |-> file[t][i]]]]
  /\ loading' = loading \ {t}
  /\ UNCHANGED <<ids, mapping, lockVars, pc, held, file, before, process>>

\* p is about to do an operation of one of the kinds: the main thread at any time,
\* the others once they have been started.
AtOp(p, kinds) ==
  /\ todo[p] # <<>> /\ pc[p] = "idle" /\ Head(todo[p]).kind \in kinds
  /\ p = Main \/ Loaded

TypeOf(p) == Head(todo[p]).type
NameOf(p) == Head(todo[p]).name

\* The operation returns the id with index i; one made while loading is dropped.
Return(p, i) ==
  /\ held' = IF Head(todo[p]).kind = "load" THEN held
             ELSE [held EXCEPT ![p] = @ \cup
                     {[type |-> TypeOf(p), internal |-> i, name |-> ids'[TypeOf(p)][i]]}]
  /\ todo' = [todo EXCEPT ![p] = Tail(@)]
  /\ pc' = [pc EXCEPT ![p] = "idle"]

Panic(p) == pc' = [pc EXCEPT ![p] = "panicked"] /\ UNCHANGED <<todo, held>>

MapFree(t) == mapWriter[MapShard[t]] = Nobody /\ mapReaders[MapShard[t]] = {}

\* What mapping.entry() finds.
Entry(t, n) == IF mapping[t][n] = 0 THEN "vacant" ELSE "occupied"

\* Slip: the entry is only looked at, its lock not held until the end.
CreateBegin_Shared(p) ==
  /\ AtOp(p, {"create", "load"})
  /\ mapWriter[MapShard[TypeOf(p)]] = Nobody
  /\ pc' = [pc EXCEPT ![p] = Entry(TypeOf(p), NameOf(p))]
  /\ UNCHANGED <<ids, mapping, lockVars, todo, held, runVars>>

\* create_id_with_type_id: mapping.entry() locks the shard for writing until the
\* operation returns.
CreateBegin(p) ==
  /\ AtOp(p, {"create", "load"})
  /\ MapFree(TypeOf(p))
  /\ mapWriter' = [mapWriter EXCEPT ![MapShard[TypeOf(p)]] = p]
  /\ pc' = [pc EXCEPT ![p] = Entry(TypeOf(p), NameOf(p))]
  /\ UNCHANGED <<ids, mapping, mapReaders, idsWriter, todo, held, runVars>>

\* Slip: the guard of the entry is kept.
CreateFound_KeepsGuard(p) ==
  LET t == TypeOf(p)
      i == mapping[t][NameOf(p)]
  IN
    /\ pc[p] = "occupied"
    /\ idsWriter[IdShard[t]] = Nobody
    /\ UNCHANGED ids
    /\ IF i <= Len(ids[t]) THEN Return(p, i) ELSE Panic(p)
    /\ UNCHANGED <<mapping, lockVars, runVars>>

\* The id exists: it is read from the vector.
CreateFound(p) ==
  LET t == TypeOf(p)
      i == mapping[t][NameOf(p)]
  IN
    /\ pc[p] = "occupied"
    /\ idsWriter[IdShard[t]] = Nobody
    /\ UNCHANGED ids
    /\ IF i <= Len(ids[t]) THEN Return(p, i) ELSE Panic(p)
    /\ mapWriter' = [mapWriter EXCEPT ![MapShard[t]] = Nobody]
    /\ UNCHANGED <<mapping, mapReaders, idsWriter, runVars>>

\* It does not: ids.entry() locks the other shard too, the id is pushed ...
CreatePush(p) ==
  LET t == TypeOf(p) IN
    /\ pc[p] = "vacant"
    /\ idsWriter[IdShard[t]] = Nobody
    /\ idsWriter' = [idsWriter EXCEPT ![IdShard[t]] = p]
    /\ ids' = [ids EXCEPT ![t] = Append(@, NameOf(p))]
    /\ pc' = [pc EXCEPT ![p] = "insert"]
    /\ UNCHANGED <<mapping, mapWriter, mapReaders, todo, held, runVars>>

\* ... and inserted into the map; both guards go.
CreateInsert(p) ==
  LET t == TypeOf(p) IN
    /\ pc[p] = "insert"
    /\ mapping' = [mapping EXCEPT ![t][NameOf(p)] = Len(ids[t])]
    /\ UNCHANGED ids
    /\ Return(p, Len(ids[t]))
    /\ mapWriter' = [mapWriter EXCEPT ![MapShard[t]] = Nobody]
    /\ idsWriter' = [idsWriter EXCEPT ![IdShard[t]] = Nobody]
    /\ UNCHANGED <<mapReaders, runVars>>

\* get_from_ext and try_get_from_ext: the guard of the map is held while the vector
\* is read.
LookupBegin(p) ==
  LET t == TypeOf(p) IN
    /\ AtOp(p, {"get_from_ext", "try_get_from_ext"})
    /\ mapWriter[MapShard[t]] = Nobody
    /\ \/ /\ mapping[t][NameOf(p)] # 0
          /\ mapReaders' = [mapReaders EXCEPT ![MapShard[t]] = @ \cup {p}]
          /\ pc' = [pc EXCEPT ![p] = "fetch"]
          /\ UNCHANGED <<todo, held>>
       \/ /\ mapping[t][NameOf(p)] = 0 /\ Head(todo[p]).kind = "try_get_from_ext"
          /\ todo' = [todo EXCEPT ![p] = Tail(@)]
          /\ UNCHANGED <<pc, held, mapReaders>>
       \/ /\ mapping[t][NameOf(p)] = 0 /\ Head(todo[p]).kind = "get_from_ext"
          /\ Panic(p)
          /\ UNCHANGED mapReaders
    /\ UNCHANGED <<ids, mapping, mapWriter, idsWriter, runVars>>

LookupFetch(p) ==
  LET t == TypeOf(p)
      i == mapping[t][NameOf(p)]
  IN
    /\ pc[p] = "fetch"
    /\ idsWriter[IdShard[t]] = Nobody
    /\ UNCHANGED ids
    /\ IF i <= Len(ids[t]) THEN Return(p, i) ELSE Panic(p)
    /\ mapReaders' = [mapReaders EXCEPT ![MapShard[t]] = @ \ {p}]
    /\ UNCHANGED <<mapping, mapWriter, idsWriter, runVars>>

\* get, with the internal id of an id that the thread has.
GetInternal(p) ==
  /\ AtOp(p, {"get"})
  /\ idsWriter[IdShard[TypeOf(p)]] = Nobody
  /\ UNCHANGED ids
  /\ \E h \in held[p] :
       /\ h.type = TypeOf(p)
       /\ IF h.internal <= Len(ids[h.type]) THEN Return(p, h.internal) ELSE Panic(p)
  /\ UNCHANGED <<mapping, lockVars, runVars>>

\* replace_ids empties the map, and then the vector, in two critical sections; the
\* ids of the file follow as operations of their own.
ClearMapping(p) ==
  /\ AtOp(p, {"clear_mapping"}) /\ MapFree(TypeOf(p))
  /\ mapping' = [mapping EXCEPT ![TypeOf(p)] = [n \in Names |-> 0]]
  /\ todo' = [todo EXCEPT ![p] = Tail(@)]
  /\ UNCHANGED <<ids, lockVars, pc, held, runVars>>

ClearIds(p) ==
  /\ AtOp(p, {"clear_ids"}) /\ idsWriter[IdShard[TypeOf(p)]] = Nobody
  /\ ids' = [ids EXCEPT ![TypeOf(p)] = <<>>]
  /\ todo' = [todo EXCEPT ![p] = Tail(@)]
  /\ UNCHANGED <<mapping, lockVars, pc, held, runVars>>

\* Slip: the file has the ids in the order of the map, not of the vector.
EncodeIds_MapOrder(t) == Reverse(ids[t])

\* serialize_ids: length-delimited strings in the order of the vector.
EncodeIds(t) == ids[t]

AllDone == Loaded /\ \A p \in Threads : todo[p] = <<>> /\ pc[p] = "idle"

\* The main thread writes the file; the next process starts with it.
StoreToFile ==
  /\ AllDone /\ process < Processes
  /\ file' = [t \in TypeIds |-> EncodeIds(t)]
  /\ before' = ids
  /\ process' = process + 1
  /\ loading' = TypeIds
  /\ ids' = [t \in TypeIds |-> <<>>]
  /\ mapping' = [t \in TypeIds |-> [n \in Names |-> 0]]
  /\ todo' = [p \in Threads |-> IF p = Main THEN <<>> ELSE Program[p]]
  /\ held' = [p \in Threads |-> {}]
  /\ UNCHANGED <<lockVars, pc>>

ThreadStep(p) ==
  \/ CreateBegin(p) \/ CreateFound(p) \/ CreatePush(p) \/ CreateInsert(p)
  \/ LookupBegin(p) \/ LookupFetch(p) \/ GetInternal(p)
  \/ ClearMapping(p) \/ ClearIds(p)

MainStep == ThreadStep(Main) \/ (\E t \in TypeIds : LoadType(t)) \/ StoreToFile

StoreFinished == AllDone /\ process = Processes /\ UNCHANGED storeVars

IdStoreNext == MainStep \/ (\E p \in Threads \ {Main} : ThreadStep(p)) \/ StoreFinished

IdStoreSpec == IdStoreInit /\ [][IdStoreNext]_storeVars

\* Threads that can go on do so.
IdStoreFairSpec ==
  IdStoreSpec /\ WF_storeVars(MainStep)
    /\ \A p \in Threads \ {Main} : WF_storeVars(ThreadStep(p))
-----------------------------------------------------------------------------
(* Properties.                                                              *)

\* Ids are compared by their internal value: two ids of a type that any threads hold
\* are equal exactly if their external ids are, and each is still what the store has
\* under its index, however creations and look-ups interleave.
IdsAgree ==
  \A p, q \in Threads : \A h \in held[p], k \in held[q] :
    /\ h.internal <= Len(ids[h.type]) /\ ids[h.type][h.internal] = h.name
    /\ h.type = k.type => (h.internal = k.internal <=> h.name = k.name)

\* An id keeps its internal value from one process to the next: the binary vehicles file
\* that the first has written refers to it.
FileIdsKept ==
  Loaded => \A t \in TypeIds : IsPrefix(before[t], ids[t])

\* No look-up panics for an id the thread itself has created before, and every
\* operation of every thread comes to its end: the locks of map and vector are always
\* taken in the same order.
StoreRunsThrough == <>(process = Processes /\ AllDone)

-----------------------------------------------------------------------------
(* The inductive invariant behind IdsAgree.                                 *)

\* The values the variables take.
StoreTypes ==
  /\ ids \in [TypeIds -> Seq(Names)] /\ file \in [TypeIds -> Seq(Names)]
  /\ mapping \in [TypeIds -> [Names -> Nat]]
  /\ mapWriter \in [MapShards -> Threads \cup {Nobody}]
  /\ idsWriter \in [IdShards -> Threads \cup {Nobody}]
  /\ pc \in [Threads -> {"idle", "vacant", "occupied", "insert", "fetch", "panicked"}]
  /\ todo \in [Threads -> Seq(Ops)]
  /\ held \in [Threads -> SUBSET [type : TypeIds, internal : Nat, name : Names]]
  /\ loading \in SUBSET TypeIds

LoadKinds == {"clear_mapping", "clear_ids", "load"}

\* Only the main thread loads, and it does nothing else.
WhoLoads ==
  \A p \in Threads : \A i \in 1..Len(todo[p]) : todo[p][i].kind \in LoadKinds <=> p = Main

\* While it loads nobody has an id or is in an operation.
QuietWhileLoading ==
  /\ held[Main] = {}
  /\ ~Loaded => \A p \in Threads \ {Main} : held[p] = {} /\ pc[p] = "idle"

\* The vector of a type is emptied only when its map has been.
MapClearedFirst ==
  \A i \in 1..Len(todo[Main]) : todo[Main][i].kind = "clear_ids" =>
    \/ i = 1 /\ \A n \in Names : mapping[todo[Main][i].type][n] = 0
    \/ i = 2 /\ todo[Main][1].kind = "clear_mapping" /\ todo[Main][1].type = todo[Main][i].type

\* What the map says of an external id, the vector has.
MapPointsBack ==
  \A t \in TypeIds : \A n \in Names :
    mapping[t][n] # 0 => mapping[t][n] \in 1..Len(ids[t]) /\ ids[t][mapping[t][n]] = n

\* What a thread in the middle of an operation has found out is still so.
FindingHolds(p) ==
  LET t == TypeOf(p)
      n == NameOf(p)
  IN /\ pc[p] \in {"vacant", "occupied", "insert", "fetch"} => todo[p] # <<>>
     /\ pc[p] \in {"vacant", "occupied", "insert"} => mapWriter[MapShard[t]] = p
     /\ pc[p] \in {"vacant", "insert"} => mapping[t][n] = 0
     /\ pc[p] \in {"occupied", "fetch"} => mapping[t][n] # 0
     /\ pc[p] = "insert" => ids[t] # <<>> /\ ids[t][Len(ids[t])] = n
     /\ pc[p] \in {"vacant", "occupied", "insert"} => Head(todo[p]).kind \in {"create", "load"}
     /\ pc[p] = "fetch" => Head(todo[p]).kind \in {"get_from_ext", "try_get_from_ext"}

\* An id in use is the one the map has under its external id.
HeldAreMapped ==
  \A p \in Threads : \A h \in held[p] : h.internal # 0 /\ mapping[h.type][h.name] = h.internal

StoreInv ==
  /\ StoreTypes /\ WhoLoads /\ QuietWhileLoading /\ MapClearedFirst /\ MapPointsBack
  /\ \A p \in Threads : FindingHolds(p)
  /\ HeldAreMapped

-----------------------------------------------------------------------------
(* What FileIdsKept needs beyond it.                                        *)

\* The map knows every element of a vector, but the one that is just being added: no
\* external id is in a vector twice.
VectorMapped ==
  \A t \in TypeIds : \A i \in 1..Len(ids[t]) :
    \/ mapping[t][ids[t][i]] = i
    \/ i = Len(ids[t]) /\ \E p \in Threads : pc[p] = "insert" /\ TypeOf(p) = t

\* The file has every external id of a type once, in the order of the process before.
FileHasIdsOnce ==
  /\ file = before
  /\ \A t \in TypeIds : \A i, j \in 1..Len(file[t]) : file[t][i] = file[t][j] => i = j

StartsWith(s, r) == Len(r) <= Len(s) /\ \A i \in 1..Len(r) : s[i] = r[i]

\* The main thread still has to do the last operations of replace_ids, and the vector has
\* the ids of those it has done.
BeingLoaded(t) ==
  LET n == Len(file[t])
      m == Len(todo[Main])
  IN /\ m <= n + 2
     /\ \A i \in 1..m :
          /\ todo[Main][i].type = t
          /\ todo[Main][i].kind = "load" <=> m - i < n
          /\ m - i < n => todo[Main][i].name = file[t][n - m + i]
     /\ Len(ids[t]) = (IF m > n THEN 0 ELSE n - m) + (IF pc[Main] = "insert" THEN 1 ELSE 0)
     /\ \A i \in 1..Len(ids[t]) : ids[t][i] = file[t][i]

\* Types are loaded one after the other; no id of the file is found in the store.
LoadProgress ==
  /\ pc[Main] \in {"idle", "vacant", "insert"}
  /\ todo[Main] # <<>> => TypeOf(Main) \notin loading /\ BeingLoaded(TypeOf(Main))
  /\ \A t \in loading : ids[t] = <<>>
  /\ \A t \in TypeIds \ loading :
       (todo[Main] # <<>> /\ t = TypeOf(Main)) \/ StartsWith(ids[t], file[t])

FileInv == VectorMapped /\ FileHasIdsOnce /\ LoadProgress
=============================================================================
