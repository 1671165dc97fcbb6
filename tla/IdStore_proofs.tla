--------------------------- MODULE IdStore_proofs ---------------------------
(* Proof that the id store never tells two ids apart that are the same, nor  *)
(* confuses two that are not, and that ids survive the way through a file,   *)
(* for any number of threads, types and names.                               *)
EXTENDS IdStore, TLAPS

-----------------------------------------------------------------------------
(* Operations at the head of a thread's list.                               *)

LEMMA TailFacts ==
  ASSUME NEW S, NEW s \in Seq(S), s # <<>>
  PROVE  /\ Tail(s) \in Seq(S) /\ Head(s) \in S /\ Head(s) = s[1]
         /\ Len(s) \in Nat \ {0} /\ Len(Tail(s)) = Len(s) - 1
         /\ \A i \in 1..Len(Tail(s)) : i + 1 \in 1..Len(s) /\ Tail(s)[i] = s[i + 1]
  OBVIOUS

LEMMA ElementOf ==
  ASSUME NEW S, NEW s \in Seq(S), NEW i \in 1..Len(s)
  PROVE  s[i] \in S
  OBVIOUS

LEMMA FunctionIsSeq ==
  ASSUME NEW S, NEW n \in Nat, NEW f \in [1..n -> S]
  PROVE  f \in Seq(S) /\ Len(f) = n
  OBVIOUS

\* The operation of a thread that has one.
LEMMA HeadOp ==
  ASSUME StoreTypes, NEW p \in Threads, todo[p] # <<>>
  PROVE  /\ TypeOf(p) \in TypeIds /\ NameOf(p) \in Names
         /\ Head(todo[p]) \in Ops /\ Head(todo[p]) = todo[p][1]
         /\ 1 \in 1..Len(todo[p])
         /\ Tail(todo[p]) \in Seq(Ops)
         /\ \A i \in 1..Len(Tail(todo[p])) : i + 1 \in 1..Len(todo[p]) /\ Tail(todo[p])[i] = todo[p][i + 1]
  <1>1. todo[p] \in Seq(Ops)
    BY DEF StoreTypes
  <1>2. /\ Tail(todo[p]) \in Seq(Ops) /\ Head(todo[p]) \in Ops /\ Head(todo[p]) = todo[p][1]
        /\ Len(todo[p]) \in Nat \ {0}
        /\ \A i \in 1..Len(Tail(todo[p])) : i + 1 \in 1..Len(todo[p]) /\ Tail(todo[p])[i] = todo[p][i + 1]
    BY <1>1, TailFacts
  <1>3. QED
    BY <1>2 DEF TypeOf, NameOf, Ops

\* The entry of the locks is there.
LEMMA ShardOf ==
  ASSUME NEW t \in TypeIds
  PROVE  MapShard[t] \in MapShards /\ IdShard[t] \in IdShards
  BY IdStoreAssumption DEF IdStoreAssumption

-----------------------------------------------------------------------------
(* The invariant at the beginning.                                          *)

LEMMA ProgramKinds ==
  ASSUME NEW p \in Threads
  PROVE  /\ Program[p] \in Seq(Ops)
         /\ \A i \in 1..Len(Program[p]) : Program[p][i].kind \notin LoadKinds
  <1>1. Program[p] \in Seq([kind : Kinds \ LoadKinds, type : TypeIds, name : Names])
    BY IdStoreAssumption DEF IdStoreAssumption, LoadKinds
  <1>2. \A i \in 1..Len(Program[p]) :
          Program[p][i] \in [kind : Kinds \ LoadKinds, type : TypeIds, name : Names]
    BY <1>1, ElementOf
  <1>3. \A i \in 1..Len(Program[p]) : Program[p][i] \in Ops /\ Program[p][i].kind \notin LoadKinds
    BY <1>2 DEF Ops
  <1>4. Len(Program[p]) \in Nat /\ Program[p] = [i \in 1..Len(Program[p]) |-> Program[p][i]]
    BY <1>1
  <1>5. QED
    BY <1>3, <1>4

\* What a process begins with.
Fresh ==
  /\ ids = [t \in TypeIds |-> <<>>]
  /\ mapping = [t \in TypeIds |-> [n \in Names |-> 0]]
  /\ todo = [p \in Threads |-> IF p = Main THEN <<>> ELSE Program[p]]
  /\ held = [p \in Threads |-> {}]
  /\ pc = [p \in Threads |-> "idle"]
  /\ file \in [TypeIds -> Seq(Names)] /\ loading \in SUBSET TypeIds
  /\ mapWriter \in [MapShards -> Threads \cup {Nobody}]
  /\ idsWriter \in [IdShards -> Threads \cup {Nobody}]

LEMMA FreshStore == Fresh => StoreInv
  <1>s. SUFFICES ASSUME Fresh PROVE StoreInv
    OBVIOUS
  <1>0. Main \in Threads
    BY IdStoreAssumption DEF IdStoreAssumption
  <1>1. todo \in [Threads -> Seq(Ops)]
    BY <1>s, ProgramKinds DEF Fresh
  <1>2. StoreTypes
    BY <1>s, <1>1 DEF Fresh, StoreTypes
  <1>3. todo[Main] = <<>> /\ Len(todo[Main]) = 0
    BY <1>s, <1>0 DEF Fresh
  <1>4. WhoLoads
    BY <1>s, <1>3, ProgramKinds DEF Fresh, WhoLoads
  <1>5. QuietWhileLoading
    BY <1>s, <1>0 DEF Fresh, QuietWhileLoading
  <1>6. MapClearedFirst
    BY <1>3 DEF MapClearedFirst
  <1>7. MapPointsBack
    BY <1>s DEF Fresh, MapPointsBack
  <1>8. \A p \in Threads : FindingHolds(p)
    BY <1>s DEF Fresh, FindingHolds
  <1>9. HeldAreMapped
    BY <1>s DEF Fresh, HeldAreMapped
  <1>10. QED
    BY <1>2, <1>4, <1>5, <1>6, <1>7, <1>8, <1>9 DEF StoreInv

LEMMA StoreInit == IdStoreInit => StoreInv
  <1>1. SUFFICES ASSUME IdStoreInit PROVE StoreInv
    OBVIOUS
  <1>2. file \in [TypeIds -> Seq(Names)]
    BY <1>1, IdStoreAssumption DEF IdStoreInit, IdStoreAssumption
  <1>3. Fresh
    BY <1>1, <1>2 DEF IdStoreInit, Fresh
  <1>4. QED
    BY <1>3, FreshStore

-----------------------------------------------------------------------------
(* Steps.  First what the end of an operation does to the lists of          *)
(* operations, then an operation at a time.                                 *)

LEMMA OpEnds ==
  ASSUME StoreInv, NEW p \in Threads, todo[p] # <<>>, todo' = [todo EXCEPT ![p] = Tail(@)]
  PROVE  /\ todo' \in [Threads -> Seq(Ops)]
         /\ \A q \in Threads \ {p} : todo'[q] = todo[q]
         /\ WhoLoads'
         /\ p # Main => todo'[Main] = todo[Main]
  <1>1. StoreTypes /\ WhoLoads
    BY DEF StoreInv
  <1>2. /\ Tail(todo[p]) \in Seq(Ops)
        /\ \A i \in 1..Len(Tail(todo[p])) : i + 1 \in 1..Len(todo[p]) /\ Tail(todo[p])[i] = todo[p][i + 1]
    BY <1>1, HeadOp
  <1>3. todo \in [Threads -> Seq(Ops)] /\ Main \in Threads
    BY <1>1, IdStoreAssumption DEF StoreTypes, IdStoreAssumption
  <1>4. /\ todo' \in [Threads -> Seq(Ops)] /\ todo'[p] = Tail(todo[p])
        /\ \A q \in Threads \ {p} : todo'[q] = todo[q]
    BY <1>2, <1>3
  <1>5. ASSUME NEW q \in Threads, NEW i \in 1..Len(todo'[q])
        PROVE  todo'[q][i].kind \in LoadKinds <=> q = Main
    <2>1. CASE q = p
      BY <2>1, <1>1, <1>2, <1>4 DEF WhoLoads
    <2>2. CASE q # p
      BY <2>2, <1>1, <1>4 DEF WhoLoads
    <2>3. QED
      BY <2>1, <2>2
  <1>6. WhoLoads'
    BY <1>5 DEF WhoLoads
  <1>7. QED
    BY <1>3, <1>4, <1>6

\* A thread other than the main one that is in an operation, or begins one, does so
\* when everything has been loaded.
LEMMA LoadedWhenBusy ==
  ASSUME StoreInv, NEW p \in Threads, p # Main, pc[p] # "idle" \/ (\E kinds : AtOp(p, kinds))
  PROVE  Loaded /\ todo[Main] = <<>>
  BY DEF StoreInv, QuietWhileLoading, AtOp, Loaded

\* The main thread in an operation is loading.
LEMMA MainOps ==
  ASSUME StoreInv, todo[Main] # <<>>
  PROVE  /\ Head(todo[Main]).kind \in LoadKinds
         /\ ~Loaded
         /\ \A q \in Threads \ {Main} : held[q] = {} /\ pc[q] = "idle"
  <1>1. StoreTypes /\ WhoLoads /\ QuietWhileLoading /\ Main \in Threads
    BY IdStoreAssumption DEF StoreInv, IdStoreAssumption
  <1>2. Head(todo[Main]) = todo[Main][1] /\ 1 \in 1..Len(todo[Main])
    BY <1>1, HeadOp
  <1>3. QED
    BY <1>1, <1>2 DEF WhoLoads, QuietWhileLoading, Loaded

\* After an operation of the main thread that loads an id, or of any other thread, the
\* list of the main thread still has no clear_ids before its turn.
LEMMA OrderKept ==
  ASSUME StoreInv, NEW p \in Threads, todo[p] # <<>>, todo' = [todo EXCEPT ![p] = Tail(@)],
         Head(todo[p]).kind # "clear_mapping", p # Main => todo[Main] = <<>>
  PROVE  MapClearedFirst'
  <1>1. StoreTypes /\ MapClearedFirst /\ Main \in Threads /\ todo \in [Threads -> Seq(Ops)]
    BY IdStoreAssumption DEF StoreInv, StoreTypes, IdStoreAssumption
  <1>2. CASE p # Main
    <2>1. todo'[Main] = <<>> /\ Len(todo'[Main]) = 0
      BY <1>1, <1>2
    <2>2. QED
      BY <2>1 DEF MapClearedFirst
  <1>3. CASE p = Main
    <2>1. todo'[Main] = Tail(todo[Main])
      BY <1>1, <1>3
    <2>2. /\ Head(todo[Main]) = todo[Main][1]
          /\ \A i \in 1..Len(Tail(todo[Main])) :
               i + 1 \in 1..Len(todo[Main]) /\ Tail(todo[Main])[i] = todo[Main][i + 1]
      BY <1>1, <1>3, HeadOp
    <2>3. \A i \in 1..Len(todo'[Main]) : todo'[Main][i].kind # "clear_ids"
      BY <2>1, <2>2, <1>1, <1>3 DEF MapClearedFirst
    <2>4. QED
      BY <2>3 DEF MapClearedFirst
  <1>4. QED
    BY <1>2, <1>3

LEMMA CreateBeginKeeps ==
  ASSUME StoreInv, NEW p \in Threads, CreateBegin(p)
  PROVE  StoreInv'
  <1>1. /\ StoreTypes /\ WhoLoads /\ QuietWhileLoading /\ MapClearedFirst /\ MapPointsBack
        /\ HeldAreMapped /\ \A q \in Threads : FindingHolds(q)
    BY DEF StoreInv
  <1>2. /\ todo[p] # <<>> /\ Head(todo[p]).kind \in {"create", "load"} /\ pc[p] = "idle"
        /\ mapWriter[MapShard[TypeOf(p)]] = Nobody
        /\ mapWriter' = [mapWriter EXCEPT ![MapShard[TypeOf(p)]] = p]
        /\ pc' = [pc EXCEPT ![p] = IF mapping[TypeOf(p)][NameOf(p)] = 0 THEN "vacant" ELSE "occupied"]
        /\ ids' = ids /\ mapping' = mapping /\ idsWriter' = idsWriter /\ todo' = todo
        /\ held' = held /\ loading' = loading /\ file' = file
        /\ p # Main => Loaded
    BY DEF CreateBegin, AtOp, MapFree, Entry, runVars
  <1>3. TypeOf(p) \in TypeIds /\ NameOf(p) \in Names /\ MapShard[TypeOf(p)] \in MapShards
    BY <1>1, <1>2, HeadOp, ShardOf
  <1>4. StoreTypes'
    BY <1>1, <1>2, <1>3 DEF StoreTypes
  <1>5. WhoLoads' /\ MapClearedFirst' /\ MapPointsBack' /\ HeldAreMapped'
    BY <1>1, <1>2 DEF WhoLoads, MapClearedFirst, MapPointsBack, HeldAreMapped
  <1>6. QuietWhileLoading'
    <2>1. Loaded' <=> Loaded
      BY <1>2 DEF Loaded
    <2>2. pc \in [Threads -> {"idle", "vacant", "occupied", "insert", "fetch", "panicked"}]
      BY <1>1 DEF StoreTypes
    <2>3. ASSUME ~Loaded, NEW q \in Threads \ {Main} PROVE held'[q] = {} /\ pc'[q] = "idle"
      BY <2>2, <2>3, <1>1, <1>2 DEF QuietWhileLoading
    <2>4. QED
      BY <2>1, <2>3, <1>1, <1>2 DEF QuietWhileLoading
  <1>7. ASSUME NEW q \in Threads PROVE FindingHolds(q)'
    <2>1. TypeOf(q)' = TypeOf(q) /\ NameOf(q)' = NameOf(q)
      BY <1>2 DEF TypeOf, NameOf
    <2>2. /\ mapWriter \in [MapShards -> Threads \cup {Nobody}]
          /\ pc \in [Threads -> {"idle", "vacant", "occupied", "insert", "fetch", "panicked"}]
      BY <1>1 DEF StoreTypes
    <2>3. CASE q = p
      BY <2>1, <2>2, <2>3, <1>2, <1>3 DEF FindingHolds
    <2>4. CASE q # p
      <3>1. pc'[q] = pc[q]
        BY <2>2, <2>4, <1>2
      <3>2. CASE todo[q] = <<>>
        BY <3>1, <3>2, <1>1, <1>2 DEF FindingHolds
      <3>3. CASE todo[q] # <<>>
        <4>1. MapShard[TypeOf(q)] \in MapShards
          BY <3>3, <1>1, HeadOp, ShardOf
        <4>2. mapWriter[MapShard[TypeOf(q)]] = q => mapWriter'[MapShard[TypeOf(q)]] = q
          BY <4>1, <2>2, <1>2, <1>3, IdStoreAssumption DEF IdStoreAssumption
        <4>3. FindingHolds(q)
          BY <1>1
        <4>4. QED
          BY <3>1, <4>2, <4>3, <2>1, <1>2 DEF FindingHolds
      <3>4. QED
        BY <3>2, <3>3
    <2>5. QED
      BY <2>3, <2>4
  <1>8. QED
    BY <1>4, <1>5, <1>6, <1>7 DEF StoreInv

LEMMA CreatePushKeeps ==
  ASSUME StoreInv, NEW p \in Threads, CreatePush(p)
  PROVE  StoreInv'
  <1>1. /\ StoreTypes /\ WhoLoads /\ QuietWhileLoading /\ MapClearedFirst /\ MapPointsBack
        /\ HeldAreMapped /\ \A q \in Threads : FindingHolds(q)
    BY DEF StoreInv
  <1>2. /\ pc[p] = "vacant" /\ idsWriter' = [idsWriter EXCEPT ![IdShard[TypeOf(p)]] = p]
        /\ ids' = [ids EXCEPT ![TypeOf(p)] = Append(@, NameOf(p))]
        /\ pc' = [pc EXCEPT ![p] = "insert"]
        /\ mapping' = mapping /\ mapWriter' = mapWriter /\ todo' = todo
        /\ held' = held /\ loading' = loading /\ file' = file
    BY DEF CreatePush, runVars
  <1>3. /\ todo[p] # <<>> /\ mapWriter[MapShard[TypeOf(p)]] = p /\ mapping[TypeOf(p)][NameOf(p)] = 0
    BY <1>1, <1>2 DEF FindingHolds
  <1>4. TypeOf(p) \in TypeIds /\ NameOf(p) \in Names /\ IdShard[TypeOf(p)] \in IdShards
    BY <1>1, <1>3, HeadOp, ShardOf
  <1>5. /\ ids \in [TypeIds -> Seq(Names)] /\ mapping \in [TypeIds -> [Names -> Nat]]
        /\ pc \in [Threads -> {"idle", "vacant", "occupied", "insert", "fetch", "panicked"}]
    BY <1>1 DEF StoreTypes
  <1>6. StoreTypes'
    BY <1>1, <1>2, <1>4 DEF StoreTypes
  <1>7. WhoLoads' /\ MapClearedFirst' /\ HeldAreMapped'
    BY <1>1, <1>2 DEF WhoLoads, MapClearedFirst, HeldAreMapped
  <1>8. /\ \A t \in TypeIds \ {TypeOf(p)} : ids'[t] = ids[t]
        /\ ids'[TypeOf(p)] = Append(ids[TypeOf(p)], NameOf(p))
    BY <1>2, <1>4, <1>5
  <1>9. ASSUME NEW t \in TypeIds, NEW n \in Names, mapping'[t][n] # 0
        PROVE  mapping'[t][n] \in 1..Len(ids'[t]) /\ ids'[t][mapping'[t][n]] = n
    <2>1. mapping[t][n] \in 1..Len(ids[t]) /\ ids[t][mapping[t][n]] = n
      BY <1>1, <1>2, <1>9 DEF MapPointsBack
    <2>2. CASE t # TypeOf(p)
      BY <2>1, <2>2, <1>2, <1>8
    <2>3. CASE t = TypeOf(p)
      <3>1. ids[t] \in Seq(Names) /\ ids'[t] = Append(ids[t], NameOf(p))
        BY <2>3, <1>5, <1>8
      <3>2. QED
        BY <2>1, <3>1, <1>2
    <2>4. QED
      BY <2>2, <2>3
  <1>10. MapPointsBack'
    BY <1>9 DEF MapPointsBack
  <1>11. QuietWhileLoading'
    <2>1. Loaded' <=> Loaded
      BY <1>2 DEF Loaded
    <2>2. ASSUME ~Loaded, NEW q \in Threads \ {Main} PROVE held'[q] = {} /\ pc'[q] = "idle"
      BY <1>5, <2>2, <1>1, <1>2 DEF QuietWhileLoading
    <2>3. QED
      BY <2>1, <2>2, <1>1, <1>2 DEF QuietWhileLoading
  <1>12. ASSUME NEW q \in Threads PROVE FindingHolds(q)'
    <2>1. TypeOf(q)' = TypeOf(q) /\ NameOf(q)' = NameOf(q) /\ FindingHolds(q)
      BY <1>1, <1>2 DEF TypeOf, NameOf
    <2>2. CASE q = p
      <3>1. pc'[q] = "insert"
        BY <2>2, <1>2, <1>5
      <3>2. ids[TypeOf(p)] \in Seq(Names)
        BY <1>4, <1>5
      <3>3. ids'[TypeOf(p)] # <<>> /\ ids'[TypeOf(p)][Len(ids'[TypeOf(p)])] = NameOf(p)
        BY <3>2, <1>8, <1>4
      <3>4. QED
        BY <2>1, <2>2, <3>1, <3>3, <1>2, <1>3 DEF FindingHolds
    <2>3. CASE q # p
      <3>1. pc'[q] = pc[q]
        BY <2>3, <1>2, <1>5
      <3>2. pc[q] = "insert" => TypeOf(q) # TypeOf(p)
        BY <2>1, <2>3, <1>3 DEF FindingHolds
      <3>3. pc[q] = "insert" => TypeOf(q) \in TypeIds
        BY <2>1, <1>1, HeadOp DEF FindingHolds
      <3>4. pc[q] = "insert" => ids'[TypeOf(q)] = ids[TypeOf(q)]
        BY <3>2, <3>3, <1>8
      <3>5. QED
        BY <2>1, <3>1, <3>4, <1>2 DEF FindingHolds
    <2>4. QED
      BY <2>2, <2>3
  <1>13. QED
    BY <1>6, <1>7, <1>10, <1>11, <1>12 DEF StoreInv

\* An operation that returns an id which is in the map by then keeps the invariant, if
\* what others have found out is not touched.
LEMMA ReturnKeeps ==
  ASSUME StoreInv, NEW p \in Threads, todo[p] # <<>>, NEW i \in Nat \ {0}, NEW n \in Names,
         Return(p, i), ids' = ids, loading' = loading, file' = file,
         Head(todo[p]).kind \notin {"clear_mapping", "clear_ids"},
         p # Main => Loaded,
         mapping' \in [TypeIds -> [Names -> Nat]],
         mapWriter' \in [MapShards -> Threads \cup {Nobody}],
         idsWriter' \in [IdShards -> Threads \cup {Nobody}],
         MapPointsBack',
         ids[TypeOf(p)][i] = n, mapping'[TypeOf(p)][n] = i,
         \A t \in TypeIds : \A m \in Names : mapping[t][m] # 0 => mapping'[t][m] = mapping[t][m],
         \A q \in Threads \ {p} :
           /\ pc[q] \in {"vacant", "occupied", "insert"} => mapWriter'[MapShard[TypeOf(q)]] = q
           /\ pc[q] \in {"vacant", "insert"} => mapping'[TypeOf(q)][NameOf(q)] = 0
  PROVE  StoreInv'
  <1>1. /\ StoreTypes /\ WhoLoads /\ QuietWhileLoading /\ HeldAreMapped /\ Main \in Threads
        /\ \A q \in Threads : FindingHolds(q)
    BY IdStoreAssumption DEF StoreInv, IdStoreAssumption
  <1>2. /\ todo' = [todo EXCEPT ![p] = Tail(@)] /\ pc' = [pc EXCEPT ![p] = "idle"]
        /\ held' = IF Head(todo[p]).kind = "load" THEN held
                   ELSE [held EXCEPT ![p] = @ \cup {[type |-> TypeOf(p), internal |-> i, name |-> n]}]
    BY DEF Return
  <1>3. TypeOf(p) \in TypeIds
    BY <1>1, HeadOp
  <1>4. /\ todo' \in [Threads -> Seq(Ops)] /\ \A q \in Threads \ {p} : todo'[q] = todo[q]
        /\ WhoLoads'
    BY <1>2, OpEnds
  <1>5. /\ pc \in [Threads -> {"idle", "vacant", "occupied", "insert", "fetch", "panicked"}]
        /\ held \in [Threads -> SUBSET [type : TypeIds, internal : Nat, name : Names]]
    BY <1>1 DEF StoreTypes
  <1>6. /\ pc' \in [Threads -> {"idle", "vacant", "occupied", "insert", "fetch", "panicked"}]
        /\ pc'[p] = "idle" /\ \A q \in Threads \ {p} : pc'[q] = pc[q]
    BY <1>2, <1>5
  <1>7. /\ held' \in [Threads -> SUBSET [type : TypeIds, internal : Nat, name : Names]]
        /\ \A q \in Threads \ {p} : held'[q] = held[q]
        /\ \A h \in held'[p] : h \in held[p] \/ h = [type |-> TypeOf(p), internal |-> i, name |-> n]
    <2>1. [type |-> TypeOf(p), internal |-> i, name |-> n] \in [type : TypeIds, internal : Nat, name : Names]
      BY <1>3
    <2>2. CASE Head(todo[p]).kind = "load"
      BY <2>2, <1>2, <1>5
    <2>3. CASE Head(todo[p]).kind # "load"
      BY <2>1, <2>3, <1>2, <1>5
    <2>4. QED
      BY <2>2, <2>3
  <1>8. StoreTypes'
    BY <1>1, <1>4, <1>6, <1>7 DEF StoreTypes
  <1>9. QuietWhileLoading'
    <2>1. CASE p = Main
      <3>1. Head(todo[p]).kind = "load" /\ held' = held
        BY <2>1, <1>2, MainOps DEF LoadKinds
      <3>2. \A q \in Threads \ {Main} : held'[q] = {} /\ pc'[q] = "idle"
        BY <2>1, <3>1, <1>6, MainOps
      <3>3. QED
        BY <3>1, <3>2, <1>1 DEF QuietWhileLoading
    <2>2. CASE p # Main
      <3>1. todo'[Main] = <<>> /\ todo[Main] = <<>>
        BY <2>2, <1>1, <1>4 DEF Loaded
      <3>2. Loaded' <=> Loaded
        BY <3>1 DEF Loaded
      <3>3. Loaded
        BY <2>2
      <3>4. QED
        BY <2>2, <3>2, <3>3, <1>1, <1>7 DEF QuietWhileLoading
    <2>3. QED
      BY <2>1, <2>2
  <1>10. MapClearedFirst'
    BY <1>2, OrderKept DEF Loaded
  <1>11. ASSUME NEW q \in Threads PROVE FindingHolds(q)'
    <2>1. CASE q = p
      BY <2>1, <1>6 DEF FindingHolds
    <2>2. CASE q # p
      <3>1. /\ TypeOf(q)' = TypeOf(q) /\ NameOf(q)' = NameOf(q) /\ todo'[q] = todo[q] /\ pc'[q] = pc[q]
            /\ FindingHolds(q)
        BY <2>2, <1>1, <1>4, <1>6 DEF TypeOf, NameOf
      <3>2. pc[q] \in {"occupied", "fetch"} => mapping'[TypeOf(q)][NameOf(q)] # 0
        <4>1. SUFFICES ASSUME pc[q] \in {"occupied", "fetch"} PROVE mapping'[TypeOf(q)][NameOf(q)] # 0
          OBVIOUS
        <4>2. todo[q] # <<>> /\ mapping[TypeOf(q)][NameOf(q)] # 0
          BY <3>1, <4>1 DEF FindingHolds
        <4>3. TypeOf(q) \in TypeIds /\ NameOf(q) \in Names
          BY <4>2, <1>1, HeadOp
        <4>4. QED
          BY <4>2, <4>3
      <3>3. QED
        BY <2>2, <3>1, <3>2 DEF FindingHolds
    <2>3. QED
      BY <2>1, <2>2
  <1>12. ASSUME NEW q \in Threads, NEW h \in held'[q]
         PROVE  h.internal # 0 /\ mapping'[h.type][h.name] = h.internal
    <2>1. CASE h \in held[q]
      <3>1. h.type \in TypeIds /\ h.name \in Names
        BY <2>1, <1>5
      <3>2. h.internal # 0 /\ mapping[h.type][h.name] = h.internal
        BY <2>1, <1>1 DEF HeldAreMapped
      <3>3. QED
        BY <3>1, <3>2
    <2>2. CASE h \notin held[q]
      <3>1. h = [type |-> TypeOf(p), internal |-> i, name |-> n]
        BY <2>2, <1>7
      <3>2. QED
        BY <3>1
    <2>3. QED
      BY <2>1, <2>2
  <1>13. HeldAreMapped'
    BY <1>12 DEF HeldAreMapped
  <1>14. QED
    BY <1>4, <1>8, <1>9, <1>10, <1>11, <1>13 DEF StoreInv

LEMMA CreateFoundKeeps ==
  ASSUME StoreInv, NEW p \in Threads, CreateFound(p) \/ LookupFetch(p)
  PROVE  StoreInv'
  <1>1. /\ StoreTypes /\ WhoLoads /\ QuietWhileLoading /\ MapPointsBack
        /\ \A q \in Threads : FindingHolds(q)
    BY DEF StoreInv
  <1>2. /\ pc[p] \in {"occupied", "fetch"} /\ ids' = ids /\ mapping' = mapping /\ idsWriter' = idsWriter
        /\ loading' = loading /\ file' = file
        /\ IF mapping[TypeOf(p)][NameOf(p)] <= Len(ids[TypeOf(p)])
             THEN Return(p, mapping[TypeOf(p)][NameOf(p)]) ELSE Panic(p)
        /\ \/ mapWriter' = mapWriter
           \/ pc[p] = "occupied" /\ mapWriter' = [mapWriter EXCEPT ![MapShard[TypeOf(p)]] = Nobody]
    BY DEF CreateFound, LookupFetch, runVars
  <1>3. /\ todo[p] # <<>> /\ mapping[TypeOf(p)][NameOf(p)] # 0
        /\ pc[p] = "occupied" => mapWriter[MapShard[TypeOf(p)]] = p
    BY <1>1, <1>2 DEF FindingHolds
  <1>4. /\ TypeOf(p) \in TypeIds /\ NameOf(p) \in Names /\ MapShard[TypeOf(p)] \in MapShards
    BY <1>1, <1>3, HeadOp, ShardOf
  <1>5. /\ mapping \in [TypeIds -> [Names -> Nat]]
        /\ mapWriter \in [MapShards -> Threads \cup {Nobody}]
        /\ idsWriter \in [IdShards -> Threads \cup {Nobody}]
    BY <1>1 DEF StoreTypes
  <1>6. /\ mapping[TypeOf(p)][NameOf(p)] \in 1..Len(ids[TypeOf(p)])
        /\ ids[TypeOf(p)][mapping[TypeOf(p)][NameOf(p)]] = NameOf(p)
    BY <1>1, <1>3, <1>4 DEF MapPointsBack
  <1>7. Return(p, mapping[TypeOf(p)][NameOf(p)])
    BY <1>2, <1>6
  <1>8. mapping[TypeOf(p)][NameOf(p)] \in Nat \ {0}
    BY <1>3, <1>4, <1>5
  <1>9. MapPointsBack'
    BY <1>1, <1>2 DEF MapPointsBack
  <1>10. p # Main => Loaded
    BY <1>2, LoadedWhenBusy
  <1>11. Head(todo[p]).kind \notin {"clear_mapping", "clear_ids"}
    BY <1>1, <1>2 DEF FindingHolds
  <1>12. mapWriter' \in [MapShards -> Threads \cup {Nobody}]
    BY <1>2, <1>4, <1>5
  <1>13. ASSUME NEW q \in Threads \ {p}
         PROVE  /\ pc[q] \in {"vacant", "occupied", "insert"} => mapWriter'[MapShard[TypeOf(q)]] = q
                /\ pc[q] \in {"vacant", "insert"} => mapping'[TypeOf(q)][NameOf(q)] = 0
    <2>1. FindingHolds(q)
      BY <1>1
    <2>2. pc[q] \in {"vacant", "occupied", "insert"} => MapShard[TypeOf(q)] \in MapShards
      BY <2>1, <1>1, HeadOp, ShardOf DEF FindingHolds
    <2>3. pc[q] \in {"vacant", "occupied", "insert"} => mapWriter'[MapShard[TypeOf(q)]] = q
      BY <2>1, <2>2, <1>2, <1>3, <1>4, <1>5 DEF FindingHolds
    <2>4. QED
      BY <2>1, <2>3, <1>2 DEF FindingHolds
  <1>14. QED
    BY <1>2, <1>3, <1>4, <1>5, <1>6, <1>7, <1>8, <1>9, <1>10, <1>11, <1>12, <1>13, ReturnKeeps

LEMMA CreateInsertKeeps ==
  ASSUME StoreInv, NEW p \in Threads, CreateInsert(p)
  PROVE  StoreInv'
  <1>1. /\ StoreTypes /\ WhoLoads /\ QuietWhileLoading /\ MapPointsBack
        /\ \A q \in Threads : FindingHolds(q)
    BY DEF StoreInv
  <1>2. /\ pc[p] = "insert" /\ ids' = ids /\ loading' = loading /\ file' = file
        /\ mapping' = [mapping EXCEPT ![TypeOf(p)][NameOf(p)] = Len(ids[TypeOf(p)])]
        /\ Return(p, Len(ids[TypeOf(p)]))
        /\ mapWriter' = [mapWriter EXCEPT ![MapShard[TypeOf(p)]] = Nobody]
        /\ idsWriter' = [idsWriter EXCEPT ![IdShard[TypeOf(p)]] = Nobody]
    BY DEF CreateInsert, runVars
  <1>3. /\ todo[p] # <<>> /\ mapping[TypeOf(p)][NameOf(p)] = 0 /\ mapWriter[MapShard[TypeOf(p)]] = p
        /\ ids[TypeOf(p)] # <<>> /\ ids[TypeOf(p)][Len(ids[TypeOf(p)])] = NameOf(p)
        /\ Head(todo[p]).kind \notin {"clear_mapping", "clear_ids"}
    BY <1>1, <1>2 DEF FindingHolds
  <1>4. /\ TypeOf(p) \in TypeIds /\ NameOf(p) \in Names
        /\ MapShard[TypeOf(p)] \in MapShards /\ IdShard[TypeOf(p)] \in IdShards
    BY <1>1, <1>3, HeadOp, ShardOf
  <1>5. /\ mapping \in [TypeIds -> [Names -> Nat]] /\ ids \in [TypeIds -> Seq(Names)]
        /\ mapWriter \in [MapShards -> Threads \cup {Nobody}]
        /\ idsWriter \in [IdShards -> Threads \cup {Nobody}]
    BY <1>1 DEF StoreTypes
  <1>6. Len(ids[TypeOf(p)]) \in Nat \ {0}
    <2>1. ids[TypeOf(p)] \in Seq(Names)
      BY <1>4, <1>5
    <2>2. QED
      BY <2>1, <1>3
  <1>7. /\ mapping' \in [TypeIds -> [Names -> Nat]]
        /\ mapWriter' \in [MapShards -> Threads \cup {Nobody}]
        /\ idsWriter' \in [IdShards -> Threads \cup {Nobody}]
    BY <1>2, <1>4, <1>5, <1>6
  <1>8. \A t \in TypeIds : \A m \in Names :
          mapping'[t][m] = IF t = TypeOf(p) /\ m = NameOf(p) THEN Len(ids[t]) ELSE mapping[t][m]
    BY <1>2, <1>4, <1>5
  <1>9. MapPointsBack'
    BY <1>1, <1>2, <1>3, <1>4, <1>6, <1>8 DEF MapPointsBack
  <1>10. p # Main => Loaded
    BY <1>2, LoadedWhenBusy
  <1>11. \A t \in TypeIds : \A m \in Names : mapping[t][m] # 0 => mapping'[t][m] = mapping[t][m]
    BY <1>3, <1>8
  <1>12. ASSUME NEW q \in Threads \ {p}
         PROVE  /\ pc[q] \in {"vacant", "occupied", "insert"} => mapWriter'[MapShard[TypeOf(q)]] = q
                /\ pc[q] \in {"vacant", "insert"} => mapping'[TypeOf(q)][NameOf(q)] = 0
    <2>1. FindingHolds(q)
      BY <1>1
    <2>2. pc[q] \in {"vacant", "occupied", "insert"} =>
            TypeOf(q) \in TypeIds /\ NameOf(q) \in Names /\ MapShard[TypeOf(q)] \in MapShards
      BY <2>1, <1>1, HeadOp, ShardOf DEF FindingHolds
    <2>3. pc[q] \in {"vacant", "occupied", "insert"} => MapShard[TypeOf(q)] # MapShard[TypeOf(p)]
      BY <2>1, <1>3 DEF FindingHolds
    <2>4. pc[q] \in {"vacant", "occupied", "insert"} => mapWriter'[MapShard[TypeOf(q)]] = q
      BY <2>1, <2>2, <2>3, <1>2, <1>4, <1>5 DEF FindingHolds
    <2>5. pc[q] \in {"vacant", "insert"} => mapping'[TypeOf(q)][NameOf(q)] = 0
      BY <2>1, <2>2, <2>3, <1>8 DEF FindingHolds
    <2>6. QED
      BY <2>4, <2>5
  <1>13. mapping'[TypeOf(p)][NameOf(p)] = Len(ids[TypeOf(p)])
    BY <1>4, <1>8
  <1>14. QED
    BY <1>2, <1>3, <1>4, <1>6, <1>7, <1>9, <1>10, <1>11, <1>12, <1>13, ReturnKeeps

LEMMA GetInternalKeeps ==
  ASSUME StoreInv, NEW p \in Threads, GetInternal(p)
  PROVE  StoreInv'
  <1>1. /\ StoreTypes /\ WhoLoads /\ QuietWhileLoading /\ MapPointsBack /\ HeldAreMapped
        /\ \A q \in Threads : FindingHolds(q)
    BY DEF StoreInv
  <1>2. /\ AtOp(p, {"get"}) /\ todo[p] # <<>> /\ Head(todo[p]).kind = "get"
        /\ ids' = ids /\ mapping' = mapping /\ mapWriter' = mapWriter /\ idsWriter' = idsWriter
        /\ loading' = loading /\ file' = file
    BY DEF GetInternal, AtOp, lockVars, runVars
  <1>3. PICK h \in held[p] :
          /\ h.type = TypeOf(p)
          /\ IF h.internal <= Len(ids[h.type]) THEN Return(p, h.internal) ELSE Panic(p)
    BY DEF GetInternal
  <1>4. h \in [type : TypeIds, internal : Nat, name : Names]
    BY <1>1 DEF StoreTypes
  <1>5. h.internal \in Nat \ {0} /\ h.name \in Names /\ mapping[TypeOf(p)][h.name] = h.internal
    BY <1>1, <1>3, <1>4 DEF HeldAreMapped
  <1>6. h.internal <= Len(ids[h.type]) /\ ids[TypeOf(p)][h.internal] = h.name
    BY <1>1, <1>3, <1>4, <1>5 DEF MapPointsBack
  <1>7. Return(p, h.internal)
    BY <1>3, <1>6
  <1>8. /\ mapping' \in [TypeIds -> [Names -> Nat]]
        /\ mapWriter' \in [MapShards -> Threads \cup {Nobody}]
        /\ idsWriter' \in [IdShards -> Threads \cup {Nobody}]
    BY <1>1, <1>2 DEF StoreTypes
  <1>9. MapPointsBack'
    BY <1>1, <1>2 DEF MapPointsBack
  <1>10. p # Main => Loaded
    BY <1>2, LoadedWhenBusy
  <1>11. ASSUME NEW q \in Threads \ {p}
         PROVE  /\ pc[q] \in {"vacant", "occupied", "insert"} => mapWriter'[MapShard[TypeOf(q)]] = q
                /\ pc[q] \in {"vacant", "insert"} => mapping'[TypeOf(q)][NameOf(q)] = 0
    BY <1>1, <1>2 DEF FindingHolds
  <1>12. mapping'[TypeOf(p)][h.name] = h.internal
    BY <1>2, <1>5
  <1>13. \A t \in TypeIds : \A m \in Names : mapping[t][m] # 0 => mapping'[t][m] = mapping[t][m]
    BY <1>2
  <1>14. QED
    BY <1>2, <1>5, <1>6, <1>7, <1>8, <1>9, <1>10, <1>11, <1>12, <1>13, ReturnKeeps

LEMMA LookupBeginKeeps ==
  ASSUME StoreInv, NEW p \in Threads, LookupBegin(p)
  PROVE  StoreInv'
  <1>1. /\ StoreTypes /\ WhoLoads /\ QuietWhileLoading /\ MapClearedFirst /\ MapPointsBack
        /\ HeldAreMapped /\ \A q \in Threads : FindingHolds(q)
    BY DEF StoreInv
  <1>2. /\ AtOp(p, {"get_from_ext", "try_get_from_ext"}) /\ todo[p] # <<>> /\ pc[p] = "idle"
        /\ Head(todo[p]).kind \in {"get_from_ext", "try_get_from_ext"}
        /\ ids' = ids /\ mapping' = mapping /\ mapWriter' = mapWriter /\ idsWriter' = idsWriter
        /\ loading' = loading /\ file' = file /\ held' = held
    BY DEF LookupBegin, AtOp, Panic, runVars
  <1>3. p # Main
    BY <1>2, MainOps DEF LoadKinds
  <1>4. Loaded /\ todo[Main] = <<>>
    BY <1>2, <1>3, LoadedWhenBusy
  <1>5. /\ pc \in [Threads -> {"idle", "vacant", "occupied", "insert", "fetch", "panicked"}]
        /\ Main \in Threads
    BY <1>1, IdStoreAssumption DEF StoreTypes, IdStoreAssumption
  <1>6. MapPointsBack' /\ HeldAreMapped'
    BY <1>1, <1>2 DEF MapPointsBack, HeldAreMapped
  <1>7. ASSUME NEW k \in {"fetch", "panicked"}, todo' = todo, pc' = [pc EXCEPT ![p] = k],
               k = "fetch" => mapping[TypeOf(p)][NameOf(p)] # 0
        PROVE  StoreInv'
    <2>1. StoreTypes'
      BY <1>1, <1>2, <1>7 DEF StoreTypes
    <2>2. WhoLoads' /\ MapClearedFirst'
      BY <1>1, <1>2, <1>7 DEF WhoLoads, MapClearedFirst
    <2>3. Loaded'
      BY <1>2, <1>4, <1>7 DEF Loaded
    <2>4. QuietWhileLoading'
      BY <2>3, <1>1, <1>2 DEF QuietWhileLoading
    <2>5. ASSUME NEW q \in Threads PROVE FindingHolds(q)'
      <3>1. FindingHolds(q) /\ TypeOf(q)' = TypeOf(q) /\ NameOf(q)' = NameOf(q)
        BY <1>1, <1>7 DEF TypeOf, NameOf
      <3>2. CASE q = p
        BY <3>1, <3>2, <1>2, <1>5, <1>7 DEF FindingHolds
      <3>3. CASE q # p
        BY <3>1, <3>3, <1>2, <1>5, <1>7 DEF FindingHolds
      <3>4. QED
        BY <3>2, <3>3
    <2>6. QED
      BY <2>1, <2>2, <2>4, <2>5, <1>6 DEF StoreInv
  <1>8. CASE todo' = [todo EXCEPT ![p] = Tail(@)] /\ pc' = pc
    <2>1. /\ todo' \in [Threads -> Seq(Ops)] /\ WhoLoads'
          /\ todo'[Main] = todo[Main] /\ \A q \in Threads \ {p} : todo'[q] = todo[q]
      BY <1>2, <1>3, <1>8, OpEnds
    <2>2. StoreTypes'
      BY <2>1, <1>1, <1>2, <1>8 DEF StoreTypes
    <2>3. MapClearedFirst'
      BY <1>2, <1>4, <1>8, OrderKept
    <2>4. Loaded'
      BY <2>1, <1>2, <1>4 DEF Loaded
    <2>5. QuietWhileLoading'
      BY <2>4, <1>1, <1>2 DEF QuietWhileLoading
    <2>6. ASSUME NEW q \in Threads PROVE FindingHolds(q)'
      <3>1. CASE q = p
        BY <3>1, <1>2, <1>8 DEF FindingHolds
      <3>2. CASE q # p
        <4>1. FindingHolds(q) /\ TypeOf(q)' = TypeOf(q) /\ NameOf(q)' = NameOf(q) /\ todo'[q] = todo[q]
          BY <3>2, <2>1, <1>1 DEF TypeOf, NameOf
        <4>2. QED
          BY <4>1, <1>2, <1>8 DEF FindingHolds
      <3>3. QED
        BY <3>1, <3>2
    <2>7. QED
      BY <2>1, <2>2, <2>3, <2>5, <2>6, <1>6 DEF StoreInv
  <1>9. \/ todo' = todo /\ pc' = [pc EXCEPT ![p] = "fetch"] /\ mapping[TypeOf(p)][NameOf(p)] # 0
        \/ todo' = todo /\ pc' = [pc EXCEPT ![p] = "panicked"]
        \/ todo' = [todo EXCEPT ![p] = Tail(@)] /\ pc' = pc
    BY DEF LookupBegin, Panic
  <1>10. QED
    BY <1>7, <1>8, <1>9

\* The main thread clears a map and a vector: nobody has or looks for an id.
LEMMA ClearKeeps ==
  ASSUME StoreInv, NEW p \in Threads, ClearMapping(p) \/ ClearIds(p)
  PROVE  StoreInv'
  <1>1. /\ StoreTypes /\ WhoLoads /\ QuietWhileLoading /\ MapClearedFirst /\ MapPointsBack
        /\ HeldAreMapped
    BY DEF StoreInv
  <1>2. /\ todo[p] # <<>> /\ pc[p] = "idle" /\ Head(todo[p]).kind \in {"clear_mapping", "clear_ids"}
        /\ todo' = [todo EXCEPT ![p] = Tail(@)]
        /\ mapWriter' = mapWriter /\ idsWriter' = idsWriter /\ pc' = pc
        /\ held' = held /\ loading' = loading /\ file' = file
    BY DEF ClearMapping, ClearIds, AtOp, lockVars, runVars
  <1>3. /\ TypeOf(p) \in TypeIds /\ Head(todo[p]) = todo[p][1] /\ 1 \in 1..Len(todo[p])
        /\ TypeOf(p) = todo[p][1].type
        /\ \A i \in 1..Len(Tail(todo[p])) : i + 1 \in 1..Len(todo[p]) /\ Tail(todo[p])[i] = todo[p][i + 1]
    BY <1>1, <1>2, HeadOp DEF TypeOf
  <1>4. p = Main
    BY <1>1, <1>2, <1>3 DEF WhoLoads, LoadKinds
  <1>5. /\ \A q \in Threads : held[q] = {} /\ pc[q] = "idle"
    BY <1>1, <1>2, <1>4, MainOps DEF QuietWhileLoading
  <1>6. todo' \in [Threads -> Seq(Ops)] /\ WhoLoads' /\ todo'[p] = Tail(todo[p])
    BY <1>1, <1>2, OpEnds DEF StoreTypes
  <1>7. QuietWhileLoading' /\ HeldAreMapped' /\ \A q \in Threads : FindingHolds(q)'
    BY <1>2, <1>4, <1>5 DEF QuietWhileLoading, HeldAreMapped, FindingHolds
  <1>8. ids \in [TypeIds -> Seq(Names)] /\ mapping \in [TypeIds -> [Names -> Nat]]
    BY <1>1 DEF StoreTypes
  <1>9. CASE ClearMapping(p)
    <2>1. /\ Head(todo[p]).kind = "clear_mapping" /\ ids' = ids
          /\ mapping' = [mapping EXCEPT ![TypeOf(p)] = [n \in Names |-> 0]]
      BY <1>9 DEF ClearMapping, AtOp
    <2>2. StoreTypes'
      BY <2>1, <1>1, <1>2, <1>3, <1>6 DEF StoreTypes
    <2>3. \A t \in TypeIds : \A n \in Names :
            mapping'[t][n] = IF t = TypeOf(p) THEN 0 ELSE mapping[t][n]
      BY <2>1, <1>3, <1>8
    <2>4. MapPointsBack'
      BY <2>1, <2>3, <1>1 DEF MapPointsBack
    <2>5. ASSUME NEW i \in 1..Len(todo'[Main]), todo'[Main][i].kind = "clear_ids"
          PROVE  i = 1 /\ \A n \in Names : mapping'[todo'[Main][i].type][n] = 0
      <3>1. i + 1 \in 1..Len(todo[Main]) /\ todo'[Main][i] = todo[Main][i + 1]
        BY <2>5, <1>3, <1>4, <1>6
      <3>2. i + 1 = 2 /\ todo[Main][1].type = todo[Main][i + 1].type
        BY <3>1, <2>5, <2>1, <1>1, <1>3, <1>4 DEF MapClearedFirst
      <3>3. QED
        BY <3>1, <3>2, <2>3, <1>3, <1>4
    <2>6. MapClearedFirst'
      BY <2>5 DEF MapClearedFirst
    <2>7. QED
      BY <2>2, <2>4, <2>6, <1>6, <1>7 DEF StoreInv
  <1>10. CASE ClearIds(p)
    <2>1. /\ Head(todo[p]).kind = "clear_ids" /\ mapping' = mapping
          /\ ids' = [ids EXCEPT ![TypeOf(p)] = <<>>]
      BY <1>10 DEF ClearIds, AtOp
    <2>2. StoreTypes'
      BY <2>1, <1>1, <1>2, <1>3, <1>6 DEF StoreTypes
    <2>3. \A n \in Names : mapping[TypeOf(p)][n] = 0
      BY <2>1, <1>1, <1>3, <1>4 DEF MapClearedFirst
    <2>4. \A t \in TypeIds \ {TypeOf(p)} : ids'[t] = ids[t]
      BY <2>1, <1>8
    <2>5. MapPointsBack'
      BY <2>1, <2>3, <2>4, <1>1 DEF MapPointsBack
    <2>6. MapClearedFirst'
      BY <2>1, <1>2, <1>4, OrderKept
    <2>7. QED
      BY <2>2, <2>5, <2>6, <1>6, <1>7 DEF StoreInv
  <1>11. QED
    BY <1>9, <1>10

LEMMA LoadTypeKeeps ==
  ASSUME StoreInv, NEW t \in TypeIds, LoadType(t)
  PROVE  StoreInv'
  <1> DEFINE name == CHOOSE n \in Names : TRUE
             clears == << [kind |-> "clear_mapping", type |-> t, name |-> name],
                          [kind |-> "clear_ids", type |-> t, name |-> name] >>
             loads == [i \in 1..Len(file[t]) |-> [kind |-> "load", type |-> t, name |-> file[t][i]]]
  <1>1. /\ StoreTypes /\ WhoLoads /\ QuietWhileLoading /\ MapClearedFirst /\ MapPointsBack
        /\ HeldAreMapped /\ Main \in Threads /\ Names # {} /\ \A q \in Threads : FindingHolds(q)
    BY IdStoreAssumption DEF StoreInv, IdStoreAssumption
  <1>2. /\ t \in loading /\ todo[Main] = <<>> /\ todo' = [todo EXCEPT ![Main] = clears \o loads]
        /\ loading' = loading \ {t} /\ ids' = ids /\ mapping' = mapping
        /\ mapWriter' = mapWriter /\ idsWriter' = idsWriter /\ pc' = pc /\ held' = held /\ file' = file
    BY DEF LoadType, lockVars
  <1>3. file[t] \in Seq(Names) /\ todo \in [Threads -> Seq(Ops)] /\ loading \in SUBSET TypeIds
    BY <1>1 DEF StoreTypes
  <1>4. name \in Names
    BY <1>1
  <1>5. clears \in Seq(Ops) /\ Len(clears) = 2 /\ \A i \in 1..2 : clears[i].kind \in LoadKinds
    BY <1>4 DEF Ops, Kinds, LoadKinds
  <1>6. /\ loads \in Seq(Ops) /\ Len(loads) \in Nat
        /\ \A i \in 1..Len(loads) : loads[i].kind = "load"
    <2>1. Len(file[t]) \in Nat /\ \A i \in 1..Len(file[t]) : file[t][i] \in Names
      BY <1>3, ElementOf
    <2>2. \A i \in 1..Len(file[t]) : loads[i] \in Ops /\ loads[i].kind = "load"
      BY <2>1 DEF Ops, Kinds
    <2>3. loads \in [1..Len(file[t]) -> Ops]
      BY <2>2
    <2> HIDE DEF loads
    <2>4. loads \in Seq(Ops) /\ Len(loads) = Len(file[t])
      BY <2>1, <2>3, FunctionIsSeq
    <2>5. QED
      BY <2>1, <2>2, <2>4
  <1> HIDE DEF loads
  <1>7. /\ clears \o loads \in Seq(Ops) /\ Len(clears \o loads) = 2 + Len(loads)
        /\ \A i \in 1..Len(clears \o loads) :
             (clears \o loads)[i] = IF i <= 2 THEN clears[i] ELSE loads[i - 2]
    BY <1>5, <1>6
  <1>8. todo' \in [Threads -> Seq(Ops)] /\ todo'[Main] = clears \o loads
        /\ \A q \in Threads \ {Main} : todo'[q] = todo[q]
    BY <1>1, <1>2, <1>3, <1>7
  <1>9. \A i \in 1..Len(todo'[Main]) :
          /\ todo'[Main][i].kind \in LoadKinds
          /\ todo'[Main][i].kind = "clear_ids" => i = 2
    <2>1. ASSUME NEW i \in 1..Len(todo'[Main]), i <= 2
          PROVE  todo'[Main][i] = clears[i]
      BY <2>1, <1>7, <1>8
    <2>2. ASSUME NEW i \in 1..Len(todo'[Main]), i > 2
          PROVE  todo'[Main][i].kind = "load"
      <3>1. i - 2 \in 1..Len(loads) /\ todo'[Main][i] = loads[i - 2]
        BY <2>2, <1>6, <1>7, <1>8
      <3>2. QED
        BY <3>1, <1>6
    <2>3. clears[1].kind = "clear_mapping" /\ clears[2].kind = "clear_ids"
      OBVIOUS
    <2> HIDE DEF clears
    <2>4. ASSUME NEW i \in 1..Len(todo'[Main])
          PROVE  /\ todo'[Main][i].kind \in LoadKinds
                 /\ todo'[Main][i].kind = "clear_ids" => i = 2
      <3>1. i = 1 \/ i = 2 \/ i > 2
        BY <1>6, <1>7, <1>8
      <3>2. CASE i = 1
        <4>0. todo'[Main][1] = clears[1]
          BY <2>1, <3>2
        <4>1. todo'[Main][i].kind = "clear_mapping"
          BY <4>0, <2>3, <3>2
        <4>2. QED
          BY <4>1 DEF LoadKinds
      <3>3. CASE i = 2
        <4>0. todo'[Main][2] = clears[2]
          BY <2>1, <3>3
        <4>1. todo'[Main][i].kind = "clear_ids"
          BY <4>0, <2>3, <3>3
        <4>2. QED
          BY <4>1, <3>3 DEF LoadKinds
      <3>4. CASE i > 2
        <4>1. todo'[Main][i].kind = "load"
          BY <2>2, <3>4
        <4>2. QED
          BY <4>1 DEF LoadKinds
      <3>5. QED
        BY <3>1, <3>2, <3>3, <3>4
    <2>5. QED
      BY <2>4
  <1>10. todo'[Main][1] = clears[1] /\ (2 \in 1..Len(todo'[Main]) => todo'[Main][2] = clears[2])
    BY <1>6, <1>7, <1>8
  <1>11. StoreTypes'
    BY <1>1, <1>2, <1>3, <1>8 DEF StoreTypes
  <1>12. WhoLoads'
    BY <1>1, <1>8, <1>9 DEF WhoLoads
  <1>13. ~Loaded
    BY <1>2 DEF Loaded
  <1>14. QuietWhileLoading'
    BY <1>1, <1>2, <1>13 DEF QuietWhileLoading
  <1>15. MapClearedFirst'
    BY <1>9, <1>10 DEF MapClearedFirst
  <1>16. MapPointsBack' /\ HeldAreMapped'
    BY <1>1, <1>2 DEF MapPointsBack, HeldAreMapped
  <1>17. ASSUME NEW q \in Threads PROVE FindingHolds(q)'
    <2>1. CASE q = Main
      BY <2>1, <1>1, <1>2 DEF FindingHolds
    <2>2. CASE q # Main
      <3>1. FindingHolds(q) /\ TypeOf(q)' = TypeOf(q) /\ NameOf(q)' = NameOf(q) /\ todo'[q] = todo[q]
        BY <2>2, <1>1, <1>8 DEF TypeOf, NameOf
      <3>2. QED
        BY <3>1, <1>2 DEF FindingHolds
    <2>3. QED
      BY <2>1, <2>2
  <1>18. QED
    BY <1>11, <1>12, <1>14, <1>15, <1>16, <1>17 DEF StoreInv

LEMMA StoreToFileKeeps ==
  ASSUME StoreInv, StoreToFile
  PROVE  StoreInv'
  <1>1. StoreTypes
    BY DEF StoreInv
  <1>2. \A p \in Threads : pc[p] = "idle"
    BY DEF StoreToFile, AllDone
  <1>3. pc' = [p \in Threads |-> "idle"]
    BY <1>1, <1>2 DEF StoreToFile, StoreTypes
  <1>4. file' \in [TypeIds -> Seq(Names)] /\ loading' \in SUBSET TypeIds
    BY <1>1 DEF StoreToFile, StoreTypes, EncodeIds
  <1>5. /\ mapWriter' \in [MapShards -> Threads \cup {Nobody}]
        /\ idsWriter' \in [IdShards -> Threads \cup {Nobody}]
    BY <1>1 DEF StoreToFile, StoreTypes, lockVars
  <1>6. Fresh'
    BY <1>3, <1>4, <1>5 DEF StoreToFile, Fresh
  <1>7. QED
    BY <1>6, FreshStore, PTL

LEMMA StutterKeeps ==
  ASSUME StoreInv, UNCHANGED storeVars
  PROVE  StoreInv'
  <1>1. StoreTypes' /\ WhoLoads'
    BY DEF StoreInv, storeVars, StoreTypes, WhoLoads
  <1>2. QuietWhileLoading' /\ MapClearedFirst'
    BY DEF StoreInv, storeVars, QuietWhileLoading, Loaded, MapClearedFirst
  <1>3. MapPointsBack' /\ HeldAreMapped'
    BY DEF StoreInv, storeVars, MapPointsBack, HeldAreMapped
  <1>4. ASSUME NEW p \in Threads PROVE FindingHolds(p)'
    BY DEF StoreInv, storeVars, FindingHolds, TypeOf, NameOf
  <1>5. QED
    BY <1>1, <1>2, <1>3, <1>4 DEF StoreInv

LEMMA ThreadStepKeeps ==
  ASSUME StoreInv, NEW p \in Threads, ThreadStep(p)
  PROVE  StoreInv'
  BY CreateBeginKeeps, CreateFoundKeeps, CreatePushKeeps, CreateInsertKeeps, LookupBeginKeeps,
     GetInternalKeeps, ClearKeeps DEF ThreadStep

LEMMA StoreNext == StoreInv /\ [IdStoreNext]_storeVars => StoreInv'
  <1>1. SUFFICES ASSUME StoreInv, [IdStoreNext]_storeVars PROVE StoreInv'
    OBVIOUS
  <1>2. Main \in Threads
    BY IdStoreAssumption DEF IdStoreAssumption
  <1>3. CASE MainStep
    BY <1>1, <1>2, <1>3, ThreadStepKeeps, LoadTypeKeeps, StoreToFileKeeps DEF MainStep
  <1>4. CASE \E p \in Threads \ {Main} : ThreadStep(p)
    BY <1>1, <1>4, ThreadStepKeeps
  <1>5. CASE UNCHANGED storeVars
    BY <1>1, <1>5, StutterKeeps
  <1>6. QED
    BY <1>1, <1>3, <1>4, <1>5 DEF IdStoreNext, StoreFinished

\* What the invariant says of the ids in use.
LEMMA HeldIdsAgree == StoreInv => IdsAgree
  <1>1. SUFFICES ASSUME StoreInv, NEW p \in Threads, NEW q \in Threads, NEW h \in held[p],
                        NEW k \in held[q]
                 PROVE  /\ h.internal <= Len(ids[h.type]) /\ ids[h.type][h.internal] = h.name
                        /\ h.type = k.type => (h.internal = k.internal <=> h.name = k.name)
    BY DEF IdsAgree
  <1>2. /\ h \in [type : TypeIds, internal : Nat, name : Names]
        /\ k \in [type : TypeIds, internal : Nat, name : Names]
    BY <1>1 DEF StoreInv, StoreTypes
  <1>3. /\ h.internal # 0 /\ mapping[h.type][h.name] = h.internal
        /\ k.internal # 0 /\ mapping[k.type][k.name] = k.internal
    BY <1>1 DEF StoreInv, HeldAreMapped
  <1>4. /\ h.internal \in 1..Len(ids[h.type]) /\ ids[h.type][h.internal] = h.name
        /\ k.internal \in 1..Len(ids[k.type]) /\ ids[k.type][k.internal] = k.name
    BY <1>1, <1>2, <1>3 DEF StoreInv, MapPointsBack
  <1>5. h.internal <= Len(ids[h.type])
    BY <1>4
  <1>6. h.type = k.type => (h.internal = k.internal <=> h.name = k.name)
    BY <1>3, <1>4
  <1>7. QED
    BY <1>4, <1>5, <1>6

-----------------------------------------------------------------------------
(* The theorems.                                                            *)

\* However the critical sections of creations, look-ups and the loading of a file
\* (id_store.rs) interleave: a thread in the middle of an operation acts on what is
\* still so, the map never points to anything but the id itself, and the ids in use are
\* the ones the map has.
THEOREM StoreInvariant == IdStoreSpec => []StoreInv
  <1>1. QED
    BY StoreInit, StoreNext, PTL DEF IdStoreSpec

\* Two ids that threads hold have the same internal value exactly if they have the same
\* type and external id, and the store still has them under it: comparing and hashing
\* ids by their internal value (impl PartialEq and Hash for Id) is right, for any number
\* of threads, types, names, shards and processes.
THEOREM IdsAlwaysAgree == IdStoreSpec => []IdsAgree
  <1>1. QED
    BY StoreInvariant, HeldIdsAgree, PTL

-----------------------------------------------------------------------------
(* An id keeps its internal value when a process loads the ids that another  *)
(* has written, whatever threads do in either.                               *)

-----------------------------------------------------------------------------
(* Vectors.                                                                 *)

\* The map and the threads that add an element are as before.
LEMMA VectorKept ==
  ASSUME VectorMapped, ids' = ids, mapping' = mapping,
         \A q \in Threads : pc[q] = "insert" => pc'[q] = "insert" /\ TypeOf(q)' = TypeOf(q)
  PROVE  VectorMapped'
  <1> SUFFICES ASSUME NEW t \in TypeIds, NEW i \in 1..Len(ids[t])
               PROVE  \/ mapping[t][ids[t][i]] = i
                      \/ i = Len(ids[t]) /\ \E p \in Threads : pc'[p] = "insert" /\ TypeOf(p)' = t
    BY DEF VectorMapped
  <1> QED
    BY DEF VectorMapped

\* Only one thread at a time adds to a vector.
LEMMA OneAdds ==
  ASSUME StoreInv, NEW p \in Threads, pc[p] \in {"vacant", "insert"},
         NEW q \in Threads, q # p, pc[q] = "insert"
  PROVE  TypeOf(q) # TypeOf(p)
  BY DEF StoreInv, FindingHolds

\* When all threads are idle the vectors have no element twice.
LEMMA VectorOnce ==
  ASSUME VectorMapped, \A p \in Threads : pc[p] # "insert"
  PROVE  \A t \in TypeIds : \A i, j \in 1..Len(ids[t]) : ids[t][i] = ids[t][j] => i = j
  <1>1. \A t \in TypeIds : \A i \in 1..Len(ids[t]) : mapping[t][ids[t][i]] = i
    BY DEF VectorMapped
  <1> QED
    BY <1>1

LEMMA StartsIsPrefix ==
  ASSUME NEW S, NEW s \in Seq(S), NEW r \in Seq(S), StartsWith(s, r)
  PROVE  IsPrefix(r, s)
  <1>1. Len(r) \in Nat /\ Len(s) \in Nat /\ Len(r) <= Len(s) /\ \A i \in 1..Len(r) : s[i] = r[i]
    BY DEF StartsWith
  <1>2. SubSeq(r, 1, Len(r)) = [i \in 1..Len(r) |-> r[i]]
    BY <1>1
  <1>3. SubSeq(s, 1, Len(r)) = [i \in 1..Len(r) |-> s[i]]
    BY <1>1
  <1> QED
    BY <1>1, <1>2, <1>3 DEF IsPrefix

-----------------------------------------------------------------------------
(* The operations of replace_ids.                                           *)

\* What the main thread is about to do, or is doing, while it loads.
LEMMA LoadingHead ==
  ASSUME StoreInv, FileInv, todo[Main] # <<>>
  PROVE  /\ TypeOf(Main) \in TypeIds \ loading /\ BeingLoaded(TypeOf(Main))
         /\ pc[Main] \in {"idle", "vacant", "insert"}
         /\ Len(todo[Main]) \in Nat \ {0} /\ Len(file[TypeOf(Main)]) \in Nat
         /\ Head(todo[Main]).kind = "load" <=> Len(todo[Main]) <= Len(file[TypeOf(Main)])
         /\ Head(todo[Main]).kind = "load" =>
              NameOf(Main) = file[TypeOf(Main)][Len(file[TypeOf(Main)]) - Len(todo[Main]) + 1]
  <1>1. StoreTypes /\ Main \in Threads
    BY IdStoreAssumption DEF StoreInv, IdStoreAssumption
  <1>2. TypeOf(Main) \in TypeIds /\ Head(todo[Main]) = todo[Main][1] /\ 1 \in 1..Len(todo[Main])
    BY <1>1, HeadOp
  <1>3. Len(todo[Main]) \in Nat \ {0} /\ Len(file[TypeOf(Main)]) \in Nat
    <2>1. todo[Main] \in Seq(Ops) /\ file[TypeOf(Main)] \in Seq(Names)
      BY <1>1, <1>2 DEF StoreTypes
    <2> QED
      BY <1>2, <2>1
  <1>4. TypeOf(Main) \notin loading /\ BeingLoaded(TypeOf(Main)) /\ pc[Main] \in {"idle", "vacant", "insert"}
    BY DEF FileInv, LoadProgress
  <1> DEFINE n == Len(file[TypeOf(Main)])
             m == Len(todo[Main])
  <1>5. /\ todo[Main][1].kind = "load" <=> m - 1 < n
        /\ m - 1 < n => todo[Main][1].name = file[TypeOf(Main)][n - m + 1]
    BY <1>2, <1>4 DEF BeingLoaded
  <1>6. m - 1 < n <=> m <= n
    BY <1>3
  <1>7. NameOf(Main) = todo[Main][1].name
    BY <1>2 DEF NameOf
  <1> QED
    BY <1>2, <1>3, <1>4, <1>5, <1>6, <1>7

LEMMA LoadedSame ==
  ASSUME BeingLoaded(TypeOf(Main)), ids' = ids, todo' = todo, file' = file,
         pc[Main] # "insert", pc'[Main] # "insert"
  PROVE  (BeingLoaded(TypeOf(Main)))'
  BY DEF BeingLoaded, TypeOf

LEMMA FileSame ==
  ASSUME FileHasIdsOnce, file' = file, before' = before
  PROVE  FileHasIdsOnce'
  BY DEF FileHasIdsOnce

\* When an operation of it ends, the vector having what the operation was for, the next one
\* is the next of the file, or the type has been loaded.
LEMMA NextOfLoad ==
  ASSUME StoreInv, FileInv, todo[Main] # <<>>,
         todo' = [todo EXCEPT ![Main] = Tail(@)], pc'[Main] = "idle",
         file' = file, loading' = loading,
         Len(ids'[TypeOf(Main)]) = IF Len(todo[Main]) - 1 > Len(file[TypeOf(Main)]) THEN 0
                                   ELSE Len(file[TypeOf(Main)]) - (Len(todo[Main]) - 1),
         \A i \in 1..Len(ids'[TypeOf(Main)]) : ids'[TypeOf(Main)][i] = file[TypeOf(Main)][i],
         \A t \in TypeIds \ {TypeOf(Main)} : ids'[t] = ids[t]
  PROVE  LoadProgress'
  <1>0. PICK T, n, m : T = TypeOf(Main) /\ n = Len(file[T]) /\ m = Len(todo[Main])
    OBVIOUS
  <1>10. /\ Len(ids'[T]) = IF m - 1 > n THEN 0 ELSE n - (m - 1)
         /\ \A i \in 1..Len(ids'[T]) : ids'[T][i] = file[T][i]
         /\ \A t \in TypeIds \ {T} : ids'[t] = ids[t]
    BY <1>0
  <1>1. StoreTypes /\ Main \in Threads /\ todo \in [Threads -> Seq(Ops)] /\ loading \subseteq TypeIds
    BY IdStoreAssumption DEF StoreInv, StoreTypes, IdStoreAssumption
  <1>2. T \in TypeIds \ loading /\ BeingLoaded(T) /\ m \in Nat \ {0} /\ n \in Nat
    BY <1>0, LoadingHead
  <1>3. todo'[Main] = Tail(todo[Main])
    BY <1>1
  <1>4. /\ Len(todo'[Main]) = m - 1 /\ todo'[Main] \in Seq(Ops)
        /\ \A i \in 1..Len(todo'[Main]) : i + 1 \in 1..m /\ todo'[Main][i] = todo[Main][i + 1]
    <2>1. todo[Main] \in Seq(Ops)
      BY <1>1
    <2>2. /\ Tail(todo[Main]) \in Seq(Ops) /\ Len(Tail(todo[Main])) = Len(todo[Main]) - 1
          /\ \A i \in 1..Len(Tail(todo[Main])) :
               i + 1 \in 1..Len(todo[Main]) /\ Tail(todo[Main])[i] = todo[Main][i + 1]
      BY <2>1, TailFacts
    <2> QED
      BY <1>0, <1>3, <2>2, Zenon
  <1>5. /\ m <= n + 2
        /\ \A i \in 1..m : /\ todo[Main][i].type = T
                           /\ todo[Main][i].kind = "load" <=> m - i < n
                           /\ m - i < n => todo[Main][i].name = file[T][n - m + i]
    BY <1>0, <1>2 DEF BeingLoaded
  <1>6. \A t \in loading : ids'[t] = <<>>
    BY <1>1, <1>2, <1>10 DEF FileInv, LoadProgress
  <1>7. \A t \in TypeIds \ loading : t # T => StartsWith(ids'[t], file[t])
    BY <1>0, <1>10 DEF FileInv, LoadProgress
  <1>8. CASE m = 1
    <2>1. todo'[Main] = <<>>
      BY <1>4, <1>8
    <2>2. StartsWith(ids'[T], file[T])
      BY <1>0, <1>2, <1>8, <1>10 DEF StartsWith
    <2> QED
      BY <1>6, <1>7, <2>1, <2>2 DEF LoadProgress
  <1>9. CASE m # 1
    <2>0. m \in Int /\ n \in Int /\ m - 1 >= 1
      BY ONLY <1>2, <1>9
    <2>1. todo'[Main] # <<>> /\ 1 \in 1..Len(todo'[Main])
      <3>1. Len(todo'[Main]) \in Nat /\ Len(todo'[Main]) >= 1
        BY <1>4, <2>0
      <3>2. todo'[Main] # <<>>
        BY ONLY <3>1
      <3> QED
        BY <3>1, <3>2
    <2>2. TypeOf(Main)' = T
      <3>1. Head(todo'[Main]) = todo'[Main][1]
        BY <1>4, <2>1
      <3>2. 1 + 1 \in 1..m /\ todo'[Main][1] = todo[Main][1 + 1]
        BY <1>4, <2>1
      <3>3. todo[Main][1 + 1].type = T
        BY <1>5, <3>2
      <3> QED
        BY <3>1, <3>2, <3>3 DEF TypeOf
    <2>3. ASSUME NEW i \in 1..Len(todo'[Main])
          PROVE  /\ todo'[Main][i].type = T
                 /\ todo'[Main][i].kind = "load" <=> (m - 1) - i < n
                 /\ (m - 1) - i < n => todo'[Main][i].name = file[T][n - (m - 1) + i]
      <3>1. i + 1 \in 1..m /\ todo'[Main][i] = todo[Main][i + 1]
        BY <1>4
      <3>2. (m - 1) - i = m - (i + 1) /\ n - (m - 1) + i = n - m + (i + 1)
        <4>1. i \in Int
          OBVIOUS
        <4> QED
          BY ONLY <2>0, <4>1
      <3> QED
        BY <1>5, <3>1, <3>2
    <2>4. BeingLoaded(T)'
      <3>1. m - 1 <= n + 2 /\ Len(todo'[Main]) = m - 1 /\ Len(file'[T]) = n
        BY <1>0, <1>4, <1>5, <2>0
      <3>2. Len(ids'[T]) = (IF m - 1 > n THEN 0 ELSE n - (m - 1)) + 0
        BY ONLY <2>0, <1>10
      <3> QED
        BY <1>10, <2>3, <3>1, <3>2 DEF BeingLoaded
    <2>5. (BeingLoaded(TypeOf(Main)))'
      BY ZenonT(40), <2>2, <2>4 DEF BeingLoaded
    <2> QED
      BY <1>2, <1>6, <1>7, <2>1, <2>2, <2>5 DEF LoadProgress
  <1> QED
    BY <1>8, <1>9

\* An operation of another thread that only reads.
LEMMA ReadsKeep ==
  ASSUME StoreInv, FileInv, NEW p \in Threads, p # Main, todo[Main] = <<>>, todo'[Main] = <<>>,
         ids' = ids, mapping' = mapping, loading' = loading, file' = file, before' = before,
         pc[p] # "insert",
         \A q \in Threads \ {p} : pc'[q] = pc[q] /\ todo'[q] = todo[q]
  PROVE  FileInv'
  <1>1. \A q \in Threads : pc[q] = "insert" => pc'[q] = "insert" /\ TypeOf(q)' = TypeOf(q)
    BY DEF TypeOf
  <1>2. VectorMapped'
    BY <1>1, VectorKept DEF FileInv
  <1>3. Main \in Threads \ {p}
    BY IdStoreAssumption DEF IdStoreAssumption
  <1>4. LoadProgress'
    BY <1>3 DEF FileInv, LoadProgress
  <1>5. FileHasIdsOnce'
    BY FileSame DEF FileInv
  <1> QED
    BY <1>2, <1>4, <1>5 DEF FileInv

\* Loading never finds the id in the map.
LEMMA FileCreateBegin ==
  ASSUME StoreInv, FileInv, NEW p \in Threads, CreateBegin(p)
  PROVE  FileInv'
  <1>1. /\ StoreTypes /\ Main \in Threads
        /\ pc \in [Threads -> {"idle", "vacant", "occupied", "insert", "fetch", "panicked"}]
        /\ \A t \in TypeIds : ids[t] \in Seq(Names) /\ file[t] \in Seq(Names)
    BY IdStoreAssumption DEF StoreInv, StoreTypes, IdStoreAssumption
  <1>2. /\ todo[p] # <<>> /\ Head(todo[p]).kind \in {"create", "load"} /\ pc[p] = "idle"
        /\ pc' = [pc EXCEPT ![p] = IF mapping[TypeOf(p)][NameOf(p)] = 0 THEN "vacant" ELSE "occupied"]
        /\ ids' = ids /\ mapping' = mapping /\ todo' = todo /\ loading' = loading /\ file' = file
        /\ before' = before /\ (p # Main => Loaded)
    BY DEF CreateBegin, AtOp, Entry, runVars
  <1>3. CASE p # Main
    <2>1. \A q \in Threads \ {p} : pc'[q] = pc[q] /\ todo'[q] = todo[q]
      BY <1>1, <1>2
    <2>2. todo[Main] = <<>> /\ todo'[Main] = <<>>
      BY <1>2, <1>3 DEF Loaded
    <2> QED
      BY <1>2, <1>3, <2>1, <2>2, ReadsKeep
  <1>4. CASE p = Main
    <2> DEFINE T == TypeOf(Main)
               N == NameOf(Main)
               n == Len(file[T])
               m == Len(todo[Main])
    <2>1. /\ T \in TypeIds \ loading /\ BeingLoaded(T) /\ m \in Nat \ {0} /\ n \in Nat
          /\ Head(todo[Main]).kind = "load" <=> m <= n
          /\ Head(todo[Main]).kind = "load" => N = file[T][n - m + 1]
      BY <1>2, <1>4, LoadingHead
    <2>2. Head(todo[Main]).kind = "load"
      BY <1>2, <1>4, MainOps DEF LoadKinds
    <2>3. Len(ids[T]) = n - m /\ \A i \in 1..Len(ids[T]) : ids[T][i] = file[T][i]
      <3>1. /\ Len(ids[T]) = (IF m > n THEN 0 ELSE n - m) + (IF pc[Main] = "insert" THEN 1 ELSE 0)
            /\ \A i \in 1..Len(ids[T]) : ids[T][i] = file[T][i]
        BY <2>1 DEF BeingLoaded
      <3> HIDE DEF T, n, m
      <3> QED
        BY <1>2, <1>4, <2>1, <2>2, <3>1
    <2>4. N \in Names
      BY <1>1, <1>2, <1>4, HeadOp
    <2>5. mapping[T][N] = 0
      <3> SUFFICES ASSUME mapping[T][N] # 0 PROVE FALSE
        OBVIOUS
      <3>1. mapping[T][N] \in 1..Len(ids[T]) /\ ids[T][mapping[T][N]] = N
        BY <2>1, <2>4 DEF StoreInv, MapPointsBack
      <3>2. PICK i \in 1..Len(ids[T]) : ids[T][i] = N
        BY <3>1
      <3>3. i \in 1..n /\ n - m + 1 \in 1..n /\ i # n - m + 1
        <4> HIDE DEF T, n, m, N
        <4> QED
          BY <2>1, <2>2, <2>3
      <3>4. file[T][i] = file[T][n - m + 1]
        BY <2>1, <2>2, <2>3, <3>2
      <3> QED
        BY <2>1, <3>3, <3>4 DEF FileInv, FileHasIdsOnce
    <2>6. pc'[Main] = "vacant" /\ \A q \in Threads : q # Main => pc'[q] = pc[q]
      BY <1>1, <1>2, <1>4, <2>5
    <2>7. VectorMapped'
      <3>1. \A q \in Threads : pc[q] = "insert" => pc'[q] = "insert" /\ TypeOf(q)' = TypeOf(q)
        BY <1>2, <1>4, <2>6 DEF TypeOf
      <3> QED
        BY <1>2, <3>1, VectorKept DEF FileInv
    <2>8. TypeOf(Main)' = T
      BY <1>2 DEF TypeOf
    <2>9. pc[Main] # "insert" /\ pc'[Main] # "insert"
      BY <1>2, <1>4, <2>6
    <2>10. (BeingLoaded(TypeOf(Main)))'
      BY <1>2, <2>1, <2>9, LoadedSame
    <2>11. LoadProgress'
      BY <1>2, <2>6, <2>8, <2>10 DEF FileInv, LoadProgress
    <2>12. FileHasIdsOnce'
      BY <1>2, FileSame DEF FileInv
    <2> QED
      BY <2>7, <2>11, <2>12 DEF FileInv
  <1> QED
    BY <1>3, <1>4

LEMMA FileReads ==
  ASSUME StoreInv, FileInv, NEW p \in Threads,
         CreateFound(p) \/ LookupBegin(p) \/ LookupFetch(p) \/ GetInternal(p)
  PROVE  FileInv'
  <1>1. /\ StoreTypes /\ Main \in Threads /\ FindingHolds(p)
        /\ pc \in [Threads -> {"idle", "vacant", "occupied", "insert", "fetch", "panicked"}]
        /\ todo \in [Threads -> Seq(Ops)]
    BY IdStoreAssumption DEF StoreInv, StoreTypes, IdStoreAssumption
  <1>2. /\ ids' = ids /\ mapping' = mapping /\ loading' = loading /\ file' = file /\ before' = before
    BY DEF CreateFound, LookupBegin, LookupFetch, GetInternal, runVars
  <1>3. pc[p] # "insert" /\ todo[p] # <<>>
    BY <1>1 DEF CreateFound, LookupBegin, LookupFetch, GetInternal, AtOp, FindingHolds
  <1>4. /\ \A q \in Threads \ {p} : pc'[q] = pc[q] /\ todo'[q] = todo[q]
    BY <1>1 DEF CreateFound, LookupBegin, LookupFetch, GetInternal, Return, Panic
  <1>5. p # Main
    <2>1. CASE CreateFound(p)
      <3>1. pc[p] = "occupied"
        BY <2>1 DEF CreateFound
      <3> QED
        BY <1>3, <3>1, LoadingHead
    <2>2. CASE LookupBegin(p) \/ LookupFetch(p) \/ GetInternal(p)
      <3>1. Head(todo[p]).kind \notin LoadKinds
        BY <1>1, <2>2 DEF LookupBegin, LookupFetch, GetInternal, AtOp, FindingHolds, LoadKinds
      <3> QED
        BY <1>3, <3>1, MainOps
    <2> QED
      BY <2>1, <2>2
  <1>6. todo[Main] = <<>>
    BY <1>5, LoadedWhenBusy DEF CreateFound, LookupBegin, LookupFetch, GetInternal
  <1>7. todo'[Main] = <<>>
    BY <1>1, <1>4, <1>5, <1>6
  <1> QED
    BY <1>2, <1>3, <1>4, <1>5, <1>6, <1>7, ReadsKeep

LEMMA FilePush ==
  ASSUME StoreInv, FileInv, NEW p \in Threads, CreatePush(p)
  PROVE  FileInv'
  <1>1. /\ StoreTypes /\ Main \in Threads /\ FindingHolds(p) /\ loading \subseteq TypeIds
        /\ pc \in [Threads -> {"idle", "vacant", "occupied", "insert", "fetch", "panicked"}]
        /\ ids \in [TypeIds -> Seq(Names)] /\ file \in [TypeIds -> Seq(Names)]
    BY IdStoreAssumption DEF StoreInv, StoreTypes, IdStoreAssumption
  <1>2. /\ pc[p] = "vacant"
        /\ ids' = [ids EXCEPT ![TypeOf(p)] = Append(@, NameOf(p))]
        /\ pc' = [pc EXCEPT ![p] = "insert"]
        /\ mapping' = mapping /\ todo' = todo /\ loading' = loading /\ file' = file
        /\ before' = before
    BY DEF CreatePush, runVars
  <1>3. /\ todo[p] # <<>> /\ Head(todo[p]).kind \in {"create", "load"}
    BY <1>1, <1>2 DEF FindingHolds
  <1>4. PICK T \in TypeIds, N \in Names : T = TypeOf(p) /\ N = NameOf(p)
    BY <1>1, <1>3, HeadOp
  <1>5. /\ \A t \in TypeIds \ {T} : ids'[t] = ids[t]
        /\ ids'[T] = Append(ids[T], N)
    BY <1>1, <1>2, <1>4
  <1>6. /\ ids'[T] \in Seq(Names) /\ Len(ids[T]) \in Nat /\ Len(ids'[T]) = Len(ids[T]) + 1
        /\ \A i \in 1..Len(ids[T]) : ids'[T][i] = ids[T][i]
        /\ ids'[T][Len(ids[T]) + 1] = N
    BY <1>1, <1>5
  <1>7. pc'[p] = "insert" /\ \A q \in Threads \ {p} : pc'[q] = pc[q]
    BY <1>1, <1>2
  <1>8. \A q \in Threads : TypeOf(q)' = TypeOf(q)
    BY <1>2 DEF TypeOf
  <1>9. ASSUME NEW t \in TypeIds, NEW i \in 1..Len(ids'[t])
        PROVE  \/ mapping'[t][ids'[t][i]] = i
               \/ i = Len(ids'[t]) /\ \E q \in Threads : pc'[q] = "insert" /\ TypeOf(q)' = t
    <2>1. CASE t # T
      BY <1>2, <1>5, <1>7, <1>8, <2>1 DEF FileInv, VectorMapped
    <2>2. CASE t = T /\ i = Len(ids[T]) + 1
      BY <1>4, <1>6, <1>7, <1>8, <2>2
    <2>3. CASE t = T /\ i # Len(ids[T]) + 1
      <3>1. i \in 1..Len(ids[T])
        BY <1>6, <2>3
      <3>2. \A q \in Threads : pc[q] = "insert" => TypeOf(q) # T
        BY <1>2, <1>4, OneAdds
      <3>3. mapping[T][ids[T][i]] = i
        BY <3>1, <3>2 DEF FileInv, VectorMapped
      <3> QED
        BY <1>2, <1>6, <2>3, <3>1, <3>3
    <2> QED
      BY <2>1, <2>2, <2>3
  <1>10. VectorMapped'
    BY <1>9 DEF VectorMapped
  <1>11. FileHasIdsOnce'
    BY <1>2, FileSame DEF FileInv
  <1>12. CASE p # Main
    <2>1. loading = {} /\ todo[Main] = <<>>
      BY <1>2, <1>12, LoadedWhenBusy DEF Loaded
    <2>2. StartsWith(ids[T], file[T])
      BY <2>1 DEF FileInv, LoadProgress
    <2>3. StartsWith(ids'[T], file[T])
      <3>1. Len(file[T]) \in Nat
        BY <1>1
      <3> QED
        BY <1>6, <2>2, <3>1 DEF StartsWith
    <2>4. \A t \in TypeIds : StartsWith(ids'[t], file[t])
      BY <1>5, <2>1, <2>3 DEF FileInv, LoadProgress
    <2>5. pc'[Main] = pc[Main]
      BY <1>1, <1>7, <1>12
    <2>6. LoadProgress'
      BY <1>2, <2>1, <2>4, <2>5 DEF FileInv, LoadProgress
    <2> QED
      BY <1>10, <1>11, <2>6 DEF FileInv
  <1>13. CASE p = Main
    <2> DEFINE n == Len(file[T])
               m == Len(todo[Main])
    <2>1. /\ T \in TypeIds \ loading /\ BeingLoaded(T) /\ m \in Nat \ {0} /\ n \in Nat
          /\ Head(todo[Main]).kind = "load" <=> m <= n
          /\ Head(todo[Main]).kind = "load" => N = file[T][n - m + 1]
      BY <1>3, <1>4, <1>13, LoadingHead
    <2>2. Head(todo[Main]).kind = "load"
      BY <1>3, <1>13, MainOps DEF LoadKinds
    <2>3. Len(ids[T]) = n - m /\ \A i \in 1..Len(ids[T]) : ids[T][i] = file[T][i]
      <3>1. /\ Len(ids[T]) = (IF m > n THEN 0 ELSE n - m) + (IF pc[Main] = "insert" THEN 1 ELSE 0)
            /\ \A i \in 1..Len(ids[T]) : ids[T][i] = file[T][i]
        BY <2>1 DEF BeingLoaded
      <3> HIDE DEF n, m
      <3> QED
        BY <1>2, <1>13, <2>1, <2>2, <3>1
    <2>4. Len(ids'[T]) = (IF m > n THEN 0 ELSE n - m) + 1
      <3> HIDE DEF n, m
      <3> QED
        BY <1>6, <2>1, <2>2, <2>3
    <2>5. \A i \in 1..Len(ids'[T]) : ids'[T][i] = file[T][i]
      <3> HIDE DEF n, m
      <3> QED
        BY <1>6, <2>1, <2>2, <2>3
    <2>6. BeingLoaded(T)'
      BY <1>2, <1>7, <1>13, <2>1, <2>4, <2>5 DEF BeingLoaded
    <2>7. (BeingLoaded(TypeOf(Main)))' /\ TypeOf(Main)' = T
      BY <1>4, <1>8, <1>13, <2>6 DEF BeingLoaded
    <2>8. \A t \in loading' : ids'[t] = <<>>
      BY <1>1, <1>2, <1>5, <2>1 DEF FileInv, LoadProgress
    <2>9. \A t \in TypeIds \ loading' : t # T => StartsWith(ids'[t], file'[t])
      BY <1>2, <1>4, <1>5, <1>13 DEF FileInv, LoadProgress
    <2>10. LoadProgress'
      BY <1>2, <1>3, <1>7, <1>13, <2>1, <2>7, <2>8, <2>9 DEF LoadProgress
    <2> QED
      BY <1>10, <1>11, <2>10 DEF FileInv
  <1> QED
    BY <1>12, <1>13

LEMMA FileInsert ==
  ASSUME StoreInv, FileInv, NEW p \in Threads, CreateInsert(p)
  PROVE  FileInv'
  <1>1. /\ StoreTypes /\ Main \in Threads /\ FindingHolds(p)
        /\ pc \in [Threads -> {"idle", "vacant", "occupied", "insert", "fetch", "panicked"}]
        /\ ids \in [TypeIds -> Seq(Names)] /\ file \in [TypeIds -> Seq(Names)]
        /\ mapping \in [TypeIds -> [Names -> Nat]] /\ todo \in [Threads -> Seq(Ops)]
    BY IdStoreAssumption DEF StoreInv, StoreTypes, IdStoreAssumption
  <1>2. /\ pc[p] = "insert" /\ ids' = ids
        /\ mapping' = [mapping EXCEPT ![TypeOf(p)][NameOf(p)] = Len(ids[TypeOf(p)])]
        /\ pc' = [pc EXCEPT ![p] = "idle"]
        /\ todo' = [todo EXCEPT ![p] = Tail(@)] /\ loading' = loading /\ file' = file
        /\ before' = before
    BY DEF CreateInsert, Return, runVars
  <1>3. /\ todo[p] # <<>> /\ Head(todo[p]).kind \in {"create", "load"}
        /\ mapping[TypeOf(p)][NameOf(p)] = 0
        /\ ids[TypeOf(p)] # <<>> /\ ids[TypeOf(p)][Len(ids[TypeOf(p)])] = NameOf(p)
    BY <1>1, <1>2 DEF FindingHolds
  <1>4. PICK T \in TypeIds, N \in Names : T = TypeOf(p) /\ N = NameOf(p)
    BY <1>1, <1>3, HeadOp
  <1>5. /\ mapping'[T][N] = Len(ids[T])
        /\ \A t \in TypeIds, k \in Names : t # T \/ k # N => mapping'[t][k] = mapping[t][k]
    BY <1>1, <1>2, <1>4
  <1>6. \A t \in TypeIds : Len(ids[t]) \in Nat /\ \A i \in 1..Len(ids[t]) : ids[t][i] \in Names
    BY <1>1
  <1>7. pc'[p] = "idle" /\ \A q \in Threads \ {p} : pc'[q] = pc[q] /\ todo'[q] = todo[q]
    BY <1>1, <1>2
  <1>8. \A q \in Threads \ {p} : TypeOf(q)' = TypeOf(q)
    BY <1>7 DEF TypeOf
  <1>9. ASSUME NEW t \in TypeIds, NEW i \in 1..Len(ids[t])
        PROVE  \/ mapping'[t][ids[t][i]] = i
               \/ i = Len(ids[t]) /\ \E q \in Threads : pc'[q] = "insert" /\ TypeOf(q)' = t
    <2>1. CASE t # T
      <3>1. mapping'[t][ids[t][i]] = mapping[t][ids[t][i]]
        BY <1>5, <1>6, <2>1
      <3>2. \A q \in Threads : pc[q] = "insert" /\ TypeOf(q) = t =>
               pc'[q] = "insert" /\ TypeOf(q)' = t
        BY <1>4, <1>7, <1>8, <2>1
      <3> QED
        BY <3>1, <3>2 DEF FileInv, VectorMapped
    <2>2. CASE t = T /\ i = Len(ids[T])
      BY <1>3, <1>4, <1>5, <2>2
    <2>3. CASE t = T /\ i # Len(ids[T])
      <3>1. mapping[T][ids[T][i]] = i
        BY <2>3 DEF FileInv, VectorMapped
      <3>2. ids[T][i] # N
        BY <1>3, <1>4, <1>6, <2>3, <3>1
      <3>3. ids[T][i] \in Names
        BY <1>6, <2>3
      <3>4. mapping'[T][ids[T][i]] = i
        BY <1>5, <3>1, <3>2, <3>3
      <3> QED
        BY <2>3, <3>4
    <2> QED
      BY <2>1, <2>2, <2>3
  <1>10. VectorMapped'
    BY <1>2, <1>9 DEF VectorMapped
  <1>11. FileHasIdsOnce'
    BY <1>2, FileSame DEF FileInv
  <1>12. CASE p # Main
    <2>1. todo[Main] = <<>> /\ todo'[Main] = <<>>
      BY <1>1, <1>2, <1>7, <1>12, LoadedWhenBusy
    <2>2. LoadProgress'
      BY <1>2, <2>1 DEF FileInv, LoadProgress
    <2> QED
      BY <1>10, <1>11, <2>2 DEF FileInv
  <1>13. CASE p = Main
    <2>0. PICK n, m : n = Len(file[T]) /\ m = Len(todo[Main])
      OBVIOUS
    <2>1. /\ T \in TypeIds \ loading /\ BeingLoaded(T) /\ m \in Nat \ {0} /\ n \in Nat
          /\ Head(todo[Main]).kind = "load" <=> m <= n
      BY <1>3, <1>4, <1>13, <2>0, LoadingHead
    <2>2. Head(todo[Main]).kind = "load"
      BY <1>3, <1>13, MainOps DEF LoadKinds
    <2>3. /\ Len(ids[T]) = (IF m > n THEN 0 ELSE n - m) + 1
          /\ \A i \in 1..Len(ids[T]) : ids[T][i] = file[T][i]
      BY <1>2, <1>13, <2>0, <2>1 DEF BeingLoaded
    <2>4. Len(ids[T]) = IF m - 1 > n THEN 0 ELSE n - (m - 1)
      BY ONLY <2>1, <2>2, <2>3
    <2>5. /\ todo[Main] # <<>> /\ todo' = [todo EXCEPT ![Main] = Tail(@)] /\ pc'[Main] = "idle"
          /\ T = TypeOf(Main)
      BY <1>2, <1>3, <1>4, <1>7, <1>13
    <2>6. LoadProgress'
      <3>1. /\ Len(ids'[T]) = IF m - 1 > n THEN 0 ELSE n - (m - 1)
            /\ \A i \in 1..Len(ids'[T]) : ids'[T][i] = file[T][i]
            /\ \A t \in TypeIds \ {T} : ids'[t] = ids[t]
            /\ file' = file /\ loading' = loading
        BY <1>1, <1>2, <2>3, <2>4
      <3> QED
        BY <2>0, <2>5, <3>1, NextOfLoad
    <2> QED
      BY <1>10, <1>11, <2>6 DEF FileInv
  <1> QED
    BY <1>12, <1>13

LEMMA FileClear ==
  ASSUME StoreInv, FileInv, NEW p \in Threads, ClearMapping(p) \/ ClearIds(p)
  PROVE  FileInv'
  <1>1. /\ StoreTypes /\ Main \in Threads /\ WhoLoads /\ p \in Threads
        /\ ids \in [TypeIds -> Seq(Names)] /\ file \in [TypeIds -> Seq(Names)]
        /\ mapping \in [TypeIds -> [Names -> Nat]] /\ todo \in [Threads -> Seq(Ops)]
    BY IdStoreAssumption DEF StoreInv, StoreTypes, IdStoreAssumption
  <1>2. /\ todo[p] # <<>> /\ Head(todo[p]).kind \in {"clear_mapping", "clear_ids"}
        /\ pc[p] = "idle" /\ pc' = pc /\ todo' = [todo EXCEPT ![p] = Tail(@)]
        /\ loading' = loading /\ file' = file /\ before' = before
        /\ \/ ids' = ids /\ mapping' = [mapping EXCEPT ![TypeOf(p)] = [n \in Names |-> 0]]
           \/ ids' = [ids EXCEPT ![TypeOf(p)] = <<>>] /\ mapping' = mapping
    BY DEF ClearMapping, ClearIds, AtOp, runVars
  <1>3. p = Main
    <2>1. Head(todo[p]) = todo[p][1] /\ 1 \in 1..Len(todo[p])
      BY <1>1, <1>2, HeadOp
    <2> QED
      BY <1>1, <1>2, <2>1 DEF WhoLoads, LoadKinds
  <1>4. PICK T : T = TypeOf(Main)
    OBVIOUS
  <1>5. PICK n, m : n = Len(file[T]) /\ m = Len(todo[Main])
    OBVIOUS
  <1>6. /\ T \in TypeIds \ loading /\ BeingLoaded(T) /\ m \in Nat \ {0} /\ n \in Nat
        /\ Head(todo[Main]).kind = "load" <=> m <= n
    BY <1>2, <1>3, <1>4, <1>5, LoadingHead
  <1>7. m > n
    BY <1>2, <1>3, <1>6
  <1>8. Len(ids[T]) = 0
    BY <1>2, <1>3, <1>5, <1>6, <1>7 DEF BeingLoaded
  <1>9. ids[T] = <<>>
    BY <1>1, <1>6, <1>8
  <1>10. ids' = ids
    BY <1>1, <1>2, <1>3, <1>4, <1>6, <1>9
  <1>11. \A t \in TypeIds \ {T} : mapping'[t] = mapping[t]
    BY <1>1, <1>2, <1>3, <1>4
  <1>12. \A q \in Threads \ {Main} : TypeOf(q)' = TypeOf(q)
    BY <1>1, <1>2, <1>3 DEF TypeOf
  <1>13. ASSUME NEW t \in TypeIds, NEW i \in 1..Len(ids[t])
         PROVE  \/ mapping'[t][ids[t][i]] = i
                \/ i = Len(ids[t]) /\ \E q \in Threads : pc'[q] = "insert" /\ TypeOf(q)' = t
    <2>1. t # T
      BY <1>8
    <2>2. \A q \in Threads : pc[q] = "insert" => pc'[q] = "insert" /\ TypeOf(q)' = TypeOf(q)
      BY <1>2, <1>3, <1>12
    <2> QED
      BY <1>11, <2>1, <2>2 DEF FileInv, VectorMapped
  <1>14. VectorMapped'
    BY <1>10, <1>13 DEF VectorMapped
  <1>15. LoadProgress'
    <2>1. Len(ids'[T]) = IF m - 1 > n THEN 0 ELSE n - (m - 1)
      <3>1. Len(ids'[T]) = 0
        BY <1>8, <1>10
      <3> QED
        BY ONLY <1>6, <1>7, <3>1
    <2>2. /\ \A i \in 1..Len(ids'[T]) : ids'[T][i] = file[T][i]
          /\ \A t \in TypeIds \ {T} : ids'[t] = ids[t]
          /\ file' = file /\ loading' = loading
      BY <1>1, <1>2, <1>6, <1>8, <1>10
    <2>3. todo[Main] # <<>> /\ todo' = [todo EXCEPT ![Main] = Tail(@)] /\ pc'[Main] = "idle"
      BY <1>2, <1>3
    <2> QED
      BY <1>4, <1>5, <2>1, <2>2, <2>3, NextOfLoad
  <1>16. FileHasIdsOnce'
    BY <1>2, FileSame DEF FileInv
  <1> QED
    BY <1>14, <1>15, <1>16 DEF FileInv

\* The operations that load type t are what BeingLoaded says, none of them done.
LEMMA FileLoadType ==
  ASSUME StoreInv, FileInv, NEW t \in TypeIds, LoadType(t)
  PROVE  FileInv'
  <1> DEFINE name == CHOOSE n \in Names : TRUE
             clears == << [kind |-> "clear_mapping", type |-> t, name |-> name],
                          [kind |-> "clear_ids", type |-> t, name |-> name] >>
             loads == [i \in 1..Len(file[t]) |-> [kind |-> "load", type |-> t, name |-> file[t][i]]]
  <1>1. /\ Main \in Threads /\ Names # {} /\ FindingHolds(Main)
        /\ file[t] \in Seq(Names) /\ todo \in [Threads -> Seq(Ops)] /\ loading \in SUBSET TypeIds
        /\ ids \in [TypeIds -> Seq(Names)]
    BY IdStoreAssumption DEF StoreInv, StoreTypes, IdStoreAssumption
  <1>2. /\ t \in loading /\ todo[Main] = <<>> /\ todo' = [todo EXCEPT ![Main] = clears \o loads]
        /\ loading' = loading \ {t} /\ ids' = ids /\ mapping' = mapping
        /\ pc' = pc /\ file' = file /\ before' = before
    BY DEF LoadType
  <1>3. name \in Names
    BY <1>1
  <1>4. /\ clears \in Seq(Ops) /\ Len(clears) = 2
        /\ \A i \in 1..2 : clears[i].kind # "load" /\ clears[i].type = t
    BY <1>3 DEF Ops, Kinds
  <1>5. Len(file[t]) \in Nat /\ \A i \in 1..Len(file[t]) : file[t][i] \in Names
    BY <1>1, ElementOf
  <1>6. /\ loads \in Seq(Ops) /\ Len(loads) = Len(file[t])
        /\ \A i \in 1..Len(file[t]) :
             loads[i].kind = "load" /\ loads[i].type = t /\ loads[i].name = file[t][i]
    <2>1. \A i \in 1..Len(file[t]) :
            /\ loads[i] \in Ops
            /\ loads[i].kind = "load" /\ loads[i].type = t /\ loads[i].name = file[t][i]
      BY <1>5 DEF Ops, Kinds
    <2>2. loads \in [1..Len(file[t]) -> Ops]
      BY <2>1
    <2> HIDE DEF loads
    <2>3. loads \in Seq(Ops) /\ Len(loads) = Len(file[t])
      BY <1>5, <2>2, FunctionIsSeq
    <2> QED
      BY <2>1, <2>3
  <1> HIDE DEF loads
  <1>7. /\ clears \o loads \in Seq(Ops) /\ Len(clears \o loads) = Len(file[t]) + 2
        /\ \A i \in 1..Len(clears \o loads) :
             (clears \o loads)[i] = IF i <= 2 THEN clears[i] ELSE loads[i - 2]
    BY <1>4, <1>5, <1>6
  <1>8. todo'[Main] = clears \o loads /\ \A q \in Threads \ {Main} : todo'[q] = todo[q]
    BY <1>1, <1>2, <1>7
  <1>9. /\ todo'[Main] \in Seq(Ops) /\ Len(todo'[Main]) = Len(file[t]) + 2
        /\ \A i \in 1..Len(todo'[Main]) :
             todo'[Main][i] = IF i <= 2 THEN clears[i] ELSE loads[i - 2]
    BY <1>7, <1>8
  <1> HIDE DEF clears
  <1>10. ASSUME NEW i \in 1..Len(todo'[Main])
         PROVE  /\ todo'[Main][i].type = t
                /\ todo'[Main][i].kind = "load" <=> Len(todo'[Main]) - i < Len(file[t])
                /\ Len(todo'[Main]) - i < Len(file[t]) =>
                     todo'[Main][i].name = file[t][Len(file[t]) - Len(todo'[Main]) + i]
    <2>1. i \in Int /\ i >= 1 /\ i <= Len(file[t]) + 2
      BY <1>5, <1>9
    <2>2. CASE i <= 2
      <3>1. i \in 1..2 /\ todo'[Main][i] = clears[i] /\ ~(Len(todo'[Main]) - i < Len(file[t]))
        BY <1>5, <1>9, <2>1, <2>2
      <3> QED
        BY <1>4, <3>1
    <2>3. CASE ~(i <= 2)
      <3>1. /\ i - 2 \in 1..Len(file[t]) /\ todo'[Main][i] = loads[i - 2]
            /\ Len(todo'[Main]) - i < Len(file[t])
            /\ Len(file[t]) - Len(todo'[Main]) + i = i - 2
        <4> DEFINE lf == Len(file[t])
                   lt == Len(todo'[Main])
        <4>1. lf \in Nat /\ lt = lf + 2
          BY <1>5, <1>9
        <4>2. todo'[Main][i] = loads[i - 2]
          BY <1>9, <2>3, Zenon
        <4> HIDE DEF lf, lt
        <4>3. i \in Int /\ i <= lf + 2
          BY <2>1 DEF lf
        <4>4. /\ i - 2 \in 1..lf
              /\ lt - i < lf
              /\ lf - lt + i = i - 2
          BY <2>3, <4>1, <4>3
        <4> QED BY <4>2, <4>4 DEF lf, lt
      <3> QED
        BY <1>6, <3>1
    <2> QED
      BY <2>2, <2>3
  <1>11. pc[Main] \notin {"vacant", "occupied", "insert", "fetch"}
    BY <1>1, <1>2 DEF FindingHolds
  <1>12. ids[t] = <<>> /\ Len(ids[t]) = 0
    BY <1>2 DEF FileInv, LoadProgress
  <1>13. BeingLoaded(t)'
    <2>1. Len(ids'[t]) = (IF Len(todo'[Main]) > Len(file[t]) THEN 0 ELSE Len(file[t]) - Len(todo'[Main]))
                         + (IF pc'[Main] = "insert" THEN 1 ELSE 0)
      <3>1. Len(todo'[Main]) > Len(file[t])
        BY ONLY <1>5, <1>9
      <3> QED
        BY <1>2, <1>11, <1>12, <3>1
    <2>2. Len(todo'[Main]) <= Len(file[t]) + 2
      BY ONLY <1>5, <1>9
    <2>3. file' = file /\ \A i \in 1..Len(ids'[t]) : ids'[t][i] = file[t][i]
      BY <1>2, <1>12
    <2> QED
      BY ONLY <1>10, <2>1, <2>2, <2>3 DEF BeingLoaded
  <1>14. TypeOf(Main)' = t /\ todo'[Main] # <<>>
    <2>1. Len(todo'[Main]) \in Nat /\ Len(todo'[Main]) >= 1
      BY <1>5, <1>9
    <2>2. todo'[Main] # <<>> /\ 1 \in 1..Len(todo'[Main])
      BY ONLY <2>1
    <2>3. Head(todo'[Main]) = todo'[Main][1]
      BY <1>9, <2>2
    <2> QED
      BY <1>10, <2>2, <2>3 DEF TypeOf
  <1>15. (BeingLoaded(TypeOf(Main)))'
    BY <1>13, <1>14 DEF BeingLoaded
  <1>16. VectorMapped'
    <2>1. \A q \in Threads : pc[q] = "insert" => pc'[q] = "insert" /\ TypeOf(q)' = TypeOf(q)
      BY <1>2, <1>8, <1>11 DEF TypeOf
    <2> QED
      BY <1>2, <2>1, VectorKept DEF FileInv
  <1>17. FileHasIdsOnce'
    BY <1>2, FileSame DEF FileInv
  <1>18. pc[Main] = "idle"
    BY <1>11 DEF FileInv, LoadProgress
  <1>19. LoadProgress'
    BY <1>2, <1>14, <1>15, <1>18 DEF FileInv, LoadProgress
  <1> QED
    BY <1>16, <1>17, <1>19 DEF FileInv

\* The file has the vectors, in which no element is twice.
LEMMA FileStore ==
  ASSUME StoreInv, FileInv, StoreToFile
  PROVE  FileInv'
  <1>1. /\ Main \in Threads /\ ids \in [TypeIds -> Seq(Names)]
    BY IdStoreAssumption DEF StoreInv, StoreTypes, IdStoreAssumption
  <1>2. /\ \A p \in Threads : pc[p] = "idle"
        /\ file' = [t \in TypeIds |-> ids[t]] /\ before' = ids
        /\ ids' = [t \in TypeIds |-> <<>>] /\ loading' = TypeIds
        /\ todo' = [p \in Threads |-> IF p = Main THEN <<>> ELSE Program[p]] /\ pc' = pc
    BY DEF StoreToFile, AllDone, EncodeIds
  <1>3. file' = ids
    BY <1>1, <1>2
  <1>4. \A t \in TypeIds : \A i, j \in 1..Len(ids[t]) : ids[t][i] = ids[t][j] => i = j
    BY <1>2, VectorOnce DEF FileInv
  <1>5. FileHasIdsOnce'
    BY <1>2, <1>3, <1>4 DEF FileHasIdsOnce
  <1>6. todo'[Main] = <<>> /\ \A t \in TypeIds : ids'[t] = <<>> /\ Len(ids'[t]) = 0
    BY <1>1, <1>2
  <1>7. VectorMapped'
    BY <1>6 DEF VectorMapped
  <1>8. LoadProgress'
    BY <1>1, <1>2, <1>6 DEF LoadProgress
  <1> QED
    BY <1>5, <1>7, <1>8 DEF FileInv

LEMMA FileStutter ==
  ASSUME FileInv, UNCHANGED storeVars
  PROVE  FileInv'
  <1>1. VectorMapped' /\ FileHasIdsOnce'
    BY DEF FileInv, storeVars, VectorMapped, FileHasIdsOnce, TypeOf
  <1>2. LoadProgress'
    BY DEF FileInv, storeVars, LoadProgress, BeingLoaded, TypeOf
  <1> QED
    BY <1>1, <1>2 DEF FileInv

LEMMA FileInit == IdStoreInit => FileInv
  <1> SUFFICES ASSUME IdStoreInit PROVE FileInv
    OBVIOUS
  <1>1. Main \in Threads /\ todo[Main] = <<>> /\ pc[Main] = "idle" /\ loading = TypeIds
    BY IdStoreAssumption DEF IdStoreInit, IdStoreAssumption
  <1>2. \A t \in TypeIds : ids[t] = <<>> /\ Len(ids[t]) = 0
    BY DEF IdStoreInit
  <1>3. FileHasIdsOnce
    BY IdStoreAssumption DEF IdStoreInit, FileHasIdsOnce, IdStoreAssumption
  <1> QED
    BY <1>1, <1>2, <1>3 DEF FileInv, VectorMapped, LoadProgress

LEMMA FileNext == StoreInv /\ FileInv /\ [IdStoreNext]_storeVars => FileInv'
  <1> SUFFICES ASSUME StoreInv, FileInv, [IdStoreNext]_storeVars PROVE FileInv'
    OBVIOUS
  <1>1. ASSUME NEW p \in Threads, ThreadStep(p) PROVE FileInv'
    BY <1>1, FileCreateBegin, FileReads, FilePush, FileInsert, FileClear DEF ThreadStep
  <1>2. CASE MainStep
    BY <1>1, <1>2, FileLoadType, FileStore, IdStoreAssumption DEF MainStep, IdStoreAssumption
  <1>3. CASE \E p \in Threads \ {Main} : ThreadStep(p)
    BY <1>1, <1>3
  <1>4. CASE UNCHANGED storeVars
    BY <1>4, FileStutter
  <1> QED
    BY <1>2, <1>3, <1>4 DEF IdStoreNext, StoreFinished

-----------------------------------------------------------------------------
(* The theorem.                                                             *)

\* A process that loads the file of another has every id of it under the same internal
\* value, as soon as its other threads start and ever after (replace_ids,
\* create_id_with_type_id and serialize_ids in id_store.rs): binary network and population
\* files stay valid, for any number of threads, types, ids and processes.
THEOREM FileIdsAreKept == IdStoreSpec => []FileIdsKept
  <1>1. StoreInv /\ FileInv => FileIdsKept
    <2> SUFFICES ASSUME StoreInv, FileInv, Loaded, NEW t \in TypeIds
                 PROVE  IsPrefix(before[t], ids[t])
      BY DEF FileIdsKept
    <2>1. StartsWith(ids[t], file[t]) /\ file = before
      BY DEF FileInv, LoadProgress, FileHasIdsOnce, Loaded
    <2>2. ids[t] \in Seq(Names) /\ file[t] \in Seq(Names)
      BY DEF StoreInv, StoreTypes
    <2> QED
      BY <2>1, <2>2, StartsIsPrefix
  <1> QED
    BY <1>1, StoreInvariant, FileInit, FileNext, PTL DEF IdStoreSpec
=============================================================================
