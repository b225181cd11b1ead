-------------------------- MODULE AsyncCacheProofs --------------------------
(***************************************************************************)
(* What the cache's memory and the results of its calls keep to, for any   *)
(* keys, clients and versions: CacheInv, KeepsGoodValue, ExpiresOnlyIdle.  *)
(***************************************************************************)
EXTENDS AsyncCache, FiniteSetTheorems, TLAPS

(* Where a call has a key, where it holds an entry, and where it runs the   *)
(* fetch of its key.                                                        *)
CallPcs == {"idle", "load", "touch", "val", "err", "replace", "do", "fetch",
            "wait", "store", "finish", "del", "done"}
Holding == {"touch", "val", "err", "replace"}
Leading == {"fetch", "store", "finish"}

CallRec == [pc : CallPcs, op : {"none", "get", "getOrSet", "setDefault", "deleteIf"},
            key : Key \cup {Nil}, e : Entry \cup {NoEntry}, val : Value, err : Error,
            joined : BOOLEAN, todo : SUBSET Key]
PassRec == [pc : {"idle", "range", "fetch", "val", "err", "cas", "delete"},
            key : Key \cup {Nil}, e : Entry \cup {NoEntry}, val : Value, err : Error,
            todo : SUBSET Key]

Types ==
    /\ opt \in Setups
    /\ data \in [Key -> Entry \cup {NoEntry}]
    /\ heap \in [Entry -> EntryRec]
    /\ latest \in [Key -> Version]
    /\ flight \in [Key -> Client \cup {Nobody}]
    /\ cl \in [Client -> CallRec]
    /\ rf \in PassRec /\ ex \in PassRec

(* Pointers are held exactly where the code has a variable for them.        *)
Holds(c) ==
    /\ cl[c].e # NoEntry <=> cl[c].pc \in Holding
    /\ cl[c].pc \notin {"idle", "done", "del"} => cl[c].key \in Key
    /\ cl[c].pc = "del" => cl[c].op = "deleteIf"

Locals ==
    /\ \A c \in Client : Holds(c)
    /\ rf.pc \in {"idle", "range", "fetch", "val", "err"}
    /\ rf.e # NoEntry <=> rf.pc \in {"fetch", "val", "err"}
    /\ rf.e # NoEntry => rf.key \in Key
    /\ ex.pc \in {"idle", "range", "cas", "delete"}
    /\ ex.e # NoEntry <=> ex.pc = "cas"
    /\ ex.pc \in {"cas", "delete"} => ex.key \in Key

Flights ==
    \A k \in Key : flight[k] # Nobody => cl[flight[k]].key = k /\ cl[flight[k]].pc \in Leading

(* An entry that anyone can still reach is a failure or has a value; the    *)
(* one that refresh is about to clear the error of has it already, and so   *)
(* has one that GetOrSet found without an error, whatever came after.       *)
Good(e) == heap[e].err = NoErr => heap[e].val # Nil

Memory ==
    /\ \A e \in Entry \cap Reachable : Good(e)
    /\ rf.pc = "err" => heap[rf.e].val # Nil
    /\ \A c \in Client : cl[c].op = "getOrSet" /\ cl[c].pc \in {"touch", "val"} =>
         heap[cl[c].e].val # Nil

(* What a call is about to store or to return. *)
HasResult(c) ==
    /\ cl[c].pc = "store" =>
         /\ cl[c].err = NoErr => cl[c].val # Nil
         /\ cl[c].val \in Version => cl[c].val <= latest[cl[c].key]
    /\ cl[c].op = "getOrSet" /\ cl[c].pc \in {"store", "finish"} => cl[c].val # Nil
    /\ cl[c].op = "getOrSet" /\ cl[c].pc = "done" /\ ~cl[c].joined => cl[c].val # Nil

Results == \A c \in Client : HasResult(c)

(* An entry belongs to one key, also for the passes, and is never ahead of  *)
(* its source; refresh has a version at least as new as the entry's.        *)
OlderThan(e, n) == heap[e].val \in Version => heap[e].val <= n

Versions ==
    /\ \A k \in Key : data[k] # NoEntry => OlderThan(data[k], latest[k])
    /\ \A k, j \in Key : data[k] = data[j] /\ data[k] # NoEntry => k = j
    /\ \A k \in Key : data[k] = rf.e /\ rf.e # NoEntry => k = rf.key
    /\ \A k \in Key : data[k] = ex.e /\ ex.e # NoEntry => k = ex.key
    /\ rf.pc = "fetch" => OlderThan(rf.e, latest[rf.key])
    /\ rf.pc = "val" => OlderThan(rf.e, rf.val)
    /\ rf.pc \in {"val", "err"} => rf.val \in Version /\ rf.val <= latest[rf.key]

(* The flag of an entry that was used since the last expire pass is clear   *)
(* until this pass comes to it.                                             *)
Expiry ==
    /\ used \subseteq Entry \cap Reachable /\ safe \subseteq Entry \cap Reachable
    /\ ex.pc = "idle" => safe = {} /\ \A e \in used : ~heap[e].expire
    /\ ex.pc # "idle" => used = {}
    /\ \A k \in ex.todo : data[k] \in safe => ~heap[data[k]].expire
    /\ ex.pc \in {"cas", "delete"} => ex.key \notin ex.todo
    /\ ex.pc = "cas" => /\ ex.e \in safe => ~heap[ex.e].expire
                        /\ data[ex.key] = ex.e \/ data[ex.key] \notin safe
    /\ ex.pc = "delete" => data[ex.key] \notin safe

Inv == Types /\ Locals /\ Flights /\ Memory /\ Results /\ Versions /\ Expiry

-----------------------------------------------------------------------------
(* Memory never runs out: fewer entries are in use than there are. *)
LEMMA FreshIsFree ==
    ASSUME Types
    PROVE  Fresh \in Entry /\ Fresh \notin Reachable
  <1> DEFINE A == {data[k] : k \in Key}
             B == {cl[c].e : c \in Client}
             C == {rf.e} \cup {ex.e}
             held == [c \in Client |-> cl[c].e]
  <1>1. IsFiniteSet(A) /\ Cardinality(A) <= Cardinality(Key)
    <2>1. data \in Surjection(Key, A)
      BY DEF Types, Surjection
    <2> QED
      BY <2>1, FS_Surjection, EntryAssumption
  <1>2. IsFiniteSet(B) /\ Cardinality(B) <= Cardinality(Client)
    <2>1. held \in Surjection(Client, B)
      BY DEF Surjection
    <2> QED
      BY <2>1, FS_Surjection, EntryAssumption
  <1>3. IsFiniteSet(C) /\ Cardinality(C) <= 2
    <2>1. IsFiniteSet({rf.e}) /\ Cardinality({rf.e}) = 1
      BY FS_Singleton
    <2>2. IsFiniteSet(C) /\ (Cardinality(C) = Cardinality({rf.e}) \/ Cardinality(C) = Cardinality({rf.e}) + 1)
      BY <2>1, FS_AddElement
    <2> QED
      BY <2>1, <2>2
  <1> HIDE DEF A, B, C, held
  <1>4. IsFiniteSet(A \cup B) /\ Cardinality(A \cup B) <= Cardinality(A) + Cardinality(B)
    <2>1. Cardinality(A \cap B) \in Nat /\ Cardinality(A) \in Nat /\ Cardinality(B) \in Nat
      BY <1>1, <1>2, FS_Intersection, FS_CardinalityType
    <2>2. /\ IsFiniteSet(A \cup B)
          /\ Cardinality(A \cup B) = Cardinality(A) + Cardinality(B) - Cardinality(A \cap B)
      BY <1>1, <1>2, FS_Union, Zenon
    <2> QED
      BY <2>1, <2>2
  <1>5. /\ IsFiniteSet(A \cup B \cup C)
        /\ Cardinality(A \cup B \cup C) <= Cardinality(A \cup B) + Cardinality(C)
    <2>1. /\ Cardinality((A \cup B) \cap C) \in Nat
          /\ Cardinality(A \cup B) \in Nat /\ Cardinality(C) \in Nat
      BY <1>3, <1>4, FS_Intersection, FS_CardinalityType
    <2>2. /\ IsFiniteSet(A \cup B \cup C)
          /\ Cardinality(A \cup B \cup C)
               = Cardinality(A \cup B) + Cardinality(C) - Cardinality((A \cup B) \cap C)
      BY <1>3, <1>4, FS_Union, Zenon
    <2> QED
      BY <2>1, <2>2
  <1>6. Cardinality(A \cup B \cup C) < Cardinality(Entry)
    <2>1. /\ Cardinality(A) \in Nat /\ Cardinality(B) \in Nat /\ Cardinality(C) \in Nat
          /\ Cardinality(A \cup B) \in Nat /\ Cardinality(A \cup B \cup C) \in Nat
          /\ Cardinality(Key) \in Nat /\ Cardinality(Client) \in Nat /\ Cardinality(Entry) \in Nat
      BY <1>1, <1>2, <1>3, <1>4, <1>5, FS_CardinalityType, EntryAssumption
    <2> QED
      BY <1>1, <1>2, <1>3, <1>4, <1>5, <2>1, EntryAssumption
  <1>7. ~(Entry \subseteq A \cup B \cup C)
    <2>1. Cardinality(Entry) \in Nat /\ Cardinality(A \cup B \cup C) \in Nat
      BY <1>5, FS_CardinalityType, EntryAssumption
    <2> QED
      BY <1>5, <1>6, <2>1, FS_Subset
  <1>8. A \cup B \cup C = Reachable
    BY DEF A, B, C, Reachable
  <1> QED
    BY <1>7, <1>8 DEF Fresh

(* What the end of a step leaves of the entries. *)
LEMMA Collected ==
    ASSUME NEW h, NEW u, NEW s, Collect(h, u, s)
    PROVE  /\ DOMAIN heap' = Entry
           /\ \A e \in Entry : heap'[e] = IF e \in Reachable' THEN h[e] ELSE Blank
           /\ h \in [Entry -> EntryRec] => heap' \in [Entry -> EntryRec]
  <1>1. Blank \in EntryRec
    BY DEF Blank, EntryRec, Value, Error
  <1> QED
    BY <1>1 DEF Collect

(* The initial states satisfy the invariant. *)
LEMMA InitInv == Init => Inv
  <1> SUFFICES ASSUME Init PROVE Inv
    OBVIOUS
  <1>1. Types
    BY OptionAssumption
       DEF Init, Types, Idle, IdlePass, Blank, CallRec, PassRec, EntryRec, CallPcs, Value, Error, Version
  <1>2. Locals /\ Flights
    BY DEF Init, Locals, Holds, Flights, Idle, IdlePass, Holding
  <1>3. Memory /\ Results
    BY EntryAssumption DEF Init, Memory, Results, HasResult, Idle, IdlePass, Reachable
  <1>4. Versions /\ Expiry
    BY EntryAssumption DEF Init, Versions, Expiry, Idle, IdlePass, Reachable
  <1> QED
    BY <1>1, <1>2, <1>3, <1>4 DEF Inv

(* Every value that is stored has its type. *)
LEMMA WithEntryType ==
    ASSUME Types, NEW v \in Value, NEW err \in Error
    PROVE  WithEntry(v, err) \in [Entry -> EntryRec]
  <1>1. Nil \in Value
    BY DEF Value
  <1> QED
    BY <1>1, FreshIsFree DEF WithEntry, Types, EntryRec

(* What is found of an entry, and what is left of its value, are values.    *)
LEMMA FoundType ==
    ASSUME Types, NEW e \in Entry
    PROVE  /\ Found(e) \subseteq Value /\ \A v \in Value : Was(e, v) \in Value
           /\ heap[e].val # Nil => Nil \notin Found(e)
  <1>1. heap[e].val \in Value /\ heap[e].was \in Value /\ Nil \in Value /\ Torn \in Value
    BY DEF Types, EntryRec, Value
  <1> QED
    BY <1>1, ValueAssumption DEF Found, Was

(* What Goto and Return do to the locals of a call. *)
LEMMA Goes ==
    ASSUME Types, NEW c \in Client, NEW pc \in CallPcs, Goto(c, pc)
    PROVE  /\ cl' \in [Client -> CallRec]
           /\ \A d \in Client \ {c} : cl'[d] = cl[d]
           /\ cl'[c].pc = pc /\ cl'[c].e = cl[c].e /\ cl'[c].key = cl[c].key /\ cl'[c].op = cl[c].op
           /\ cl'[c].val = cl[c].val /\ cl'[c].err = cl[c].err /\ cl'[c].joined = cl[c].joined
  BY DEF Types, Goto, CallRec

LEMMA Returns ==
    ASSUME Types, NEW c \in Client, NEW v \in Value, NEW err \in Error, Return(c, v, err)
    PROVE  /\ cl' \in [Client -> CallRec]
           /\ \A d \in Client \ {c} : cl'[d] = cl[d]
           /\ cl'[c].pc = "done" /\ cl'[c].e = NoEntry /\ cl'[c].op = cl[c].op
           /\ cl'[c].val = v /\ cl'[c].err = err /\ cl'[c].joined = cl[c].joined
  <1> DEFINE r == [cl[c] EXCEPT !.pc = "done", !.e = NoEntry, !.val = v, !.err = err]
  <1>1. /\ r \in CallRec
        /\ r.pc = "done" /\ r.e = NoEntry /\ r.op = cl[c].op
        /\ r.val = v /\ r.err = err /\ r.joined = cl[c].joined
    <2>1. cl[c] \in CallRec /\ "done" \in CallPcs
      BY DEF Types, CallPcs
    <2> QED
      BY <2>1 DEF CallRec
  <1>2. cl' = [cl EXCEPT ![c] = r]
    BY DEF Types, Return
  <1> HIDE DEF r
  <1> QED
    BY <1>1, <1>2 DEF Types

LEMMA CallTypes ==
    ASSUME Inv, NEW c \in Client, ClientStep(c)
    PROVE  Types'
  <1> USE DEF Inv, Types
  <1>1. CASE Load(c)
    BY <1>1 DEF Load, Locals, Holds, CallRec, CallPcs
  <1>2. CASE CallTouch(c)
    <2>1. Touch(cl[c].e) \in [Entry -> EntryRec]
      BY DEF Touch, EntryRec
    <2>2. heap' \in [Entry -> EntryRec]
      BY <1>2, <2>1, Collected DEF CallTouch
    <2>3. Nil \in Value /\ NoErr \in Error /\ "val" \in CallPcs
      BY DEF Value, Error, CallPcs
    <2>4. cl' \in [Client -> CallRec]
      <3>1. CASE Return(c, Nil, NoErr)
        BY <2>3, <3>1, Returns
      <3>2. CASE Goto(c, "val")
        BY <2>3, <3>2, Goes
      <3> QED
        BY <1>2, <3>1, <3>2 DEF CallTouch
    <2> QED
      BY <1>2, <2>2, <2>4 DEF CallTouch
  <1>3. CASE ReadVal(c)
    <2>1. heap' \in [Entry -> EntryRec]
      BY <1>3, Collected DEF ReadVal
    <2>2. Found(cl[c].e) \subseteq Value
      BY <1>3, FoundType, EntryAssumption DEF ReadVal, Locals, Holds, Holding, CallRec
    <2>3. cl' \in [Client -> CallRec]
      BY <1>3, <2>2 DEF ReadVal, Return, CallRec, CallPcs, Error
    <2> QED
      BY <1>3, <2>1, <2>3 DEF ReadVal
  <1>4. CASE GetReadErr(c)
    <2>1. heap' \in [Entry -> EntryRec]
      BY <1>4, Collected DEF GetReadErr
    <2>2. heap[cl[c].e].err \in Error
      BY <1>4, EntryAssumption DEF GetReadErr, Locals, Holds, Holding, EntryRec, CallRec
    <2>3. cl' \in [Client -> CallRec]
      <3>1. cl[c].val \in Value
        BY DEF CallRec
      <3> QED
        BY <1>4, <2>2, <3>1, Returns DEF GetReadErr
    <2> QED
      BY <1>4, <2>1, <2>2, <2>3 DEF GetReadErr
  <1>5. CASE GetOrSetReadErr(c)
    BY <1>5 DEF GetOrSetReadErr, Goto, CallRec, CallPcs
  <1>6. CASE GetOrSetReplace(c)
    <2>1. Default \in Value /\ NoErr \in Error
      BY DEF Value, Error
    <2>2. heap' \in [Entry -> EntryRec]
      BY <1>6, <2>1, WithEntryType, Collected DEF GetOrSetReplace
    <2>3. cl' \in [Client -> CallRec]
      BY <1>6, <2>1, Returns DEF GetOrSetReplace
    <2> QED
      BY <1>6, <2>2, <2>3, FreshIsFree DEF GetOrSetReplace, StoreEntry
  <1>7. CASE Do(c)
    BY <1>7 DEF Do, Goto, CallRec, CallPcs
  <1>8. CASE Fetch(c)
    BY <1>8 DEF Fetch, Locals, Holds, CallRec, CallPcs, Value, Error
  <1>9. CASE FlightStore(c)
    <2>1. cl[c].val \in Value /\ cl[c].err \in Error
      BY DEF CallRec
    <2>2. heap' \in [Entry -> EntryRec]
      BY <1>9, <2>1, WithEntryType, Collected DEF FlightStore
    <2>3. cl' \in [Client -> CallRec]
      BY <1>9, Goes DEF FlightStore, CallPcs
    <2> QED
      BY <1>9, <2>2, <2>3, FreshIsFree DEF FlightStore, StoreEntry
  <1>10. CASE FlightEnd(c)
    <2>1. [cl[c] EXCEPT !.pc = "done"] \in CallRec
      BY DEF CallRec, CallPcs
    <2>2. ASSUME NEW d \in Client, NEW err \in Error
          PROVE  [cl[d] EXCEPT !.pc = "done", !.joined = TRUE, !.val = cl[c].val, !.err = err] \in CallRec
      <3>1. cl[c] \in CallRec /\ cl[d] \in CallRec /\ "done" \in CallPcs
        BY DEF CallPcs
      <3> QED
        BY <3>1 DEF CallRec
    <2>3. cl[c].err \in Error /\ NoErr \in Error
      BY DEF CallRec, Error
    <2>4. cl' \in [Client -> CallRec]
      BY <1>10, <2>1, <2>2, <2>3 DEF FlightEnd
    <2> QED
      BY <1>10, <2>4 DEF FlightEnd
  <1>11. CASE SetDefault(c)
    <2>1. Default \in Value /\ Nil \in Value /\ NoErr \in Error
      BY DEF Value, Error
    <2>2. heap' \in [Entry -> EntryRec]
      BY <1>11, <2>1, WithEntryType, Collected DEF SetDefault
    <2>3. cl' \in [Client -> CallRec]
      BY <1>11, <2>1, Returns DEF SetDefault
    <2> QED
      BY <1>11, <2>2, <2>3, FreshIsFree DEF SetDefault, StoreEntry
  <1>12. CASE SetDefaultExists(c)
    BY <1>12 DEF SetDefaultExists, Locals, Holds, CallRec, CallPcs
  <1>13. CASE DeleteOne(c)
    <2>1. heap' \in [Entry -> EntryRec]
      BY <1>13, Collected DEF DeleteOne
    <2>2. cl[c].todo = {} => cl' \in [Client -> CallRec]
      BY <1>13, Goes DEF DeleteOne, Goto, CallPcs
    <2>3. ASSUME NEW k \in cl[c].todo, data' = [data EXCEPT ![k] = NoEntry],
                 cl' = [cl EXCEPT ![c].todo = @ \ {k}]
          PROVE  data' \in [Key -> Entry \cup {NoEntry}] /\ cl' \in [Client -> CallRec]
      <3>1. cl[c].todo \in SUBSET Key /\ cl[c] \in CallRec
        BY DEF CallRec
      <3>2. [cl[c] EXCEPT !.todo = cl[c].todo \ {k}] \in CallRec
        BY <3>1 DEF CallRec
      <3> QED
        BY <2>3, <3>2
    <2> QED
      BY <1>13, <2>1, <2>2, <2>3 DEF DeleteOne
  <1> QED
    BY <1>1, <1>2, <1>3, <1>4, <1>5, <1>6, <1>7, <1>8, <1>9, <1>10, <1>11, <1>12, <1>13 DEF ClientStep

LEMMA PassTypes ==
    ASSUME Inv, RefreshStep \/ ExpireStep
    PROVE  Types'
  <1> USE DEF Inv, Types
  <1>1. CASE RefreshBegin \/ RefreshEnd \/ \E k \in Key : RefreshVisit(k)
    <2>1. CASE RefreshBegin
      BY <1>1, <2>1 DEF RefreshBegin, PassRec
    <2>2. CASE RefreshEnd
      BY <2>2 DEF RefreshEnd, IdlePass, PassRec, Value, Error
    <2>3. ASSUME NEW k \in Key, RefreshVisit(k) PROVE Types'
      BY <2>3 DEF RefreshVisit, PassRec
    <2> QED
      BY <1>1, <2>1, <2>2, <2>3
  <1>2. CASE RefreshFetchOk
    BY <1>2 DEF RefreshFetchOk, Locals, PassRec, Value
  <1>3. CASE RefreshFetchFails
    <2>1. [heap EXCEPT ![rf.e].err = IF @ # NoErr THEN Err ELSE @] \in [Entry -> EntryRec]
      BY DEF EntryRec, Error
    <2>2. heap' \in [Entry -> EntryRec]
      BY <1>3, <2>1, Collected DEF RefreshFetchFails
    <2> QED
      BY <1>3, <2>2 DEF RefreshFetchFails, IdlePass, PassRec, Value, Error
  <1>4. CASE RefreshStoreVal
    <2>1. rf.e \in Entry /\ rf.val \in Value
      BY <1>4 DEF RefreshStoreVal, Locals, PassRec
    <2>2. Was(rf.e, rf.val) \in Value
      BY <2>1, FoundType
    <2>3. heap' \in [Entry -> EntryRec]
      BY <1>4, <2>1, <2>2 DEF RefreshStoreVal, EntryRec
    <2> QED
      BY <1>4, <2>3 DEF RefreshStoreVal, PassRec
  <1>5. CASE RefreshStoreErr
    <2>1. [heap EXCEPT ![rf.e].err = NoErr] \in [Entry -> EntryRec]
      BY DEF EntryRec, Error
    <2>2. heap' \in [Entry -> EntryRec]
      BY <1>5, <2>1, Collected DEF RefreshStoreErr
    <2> QED
      BY <1>5, <2>2 DEF RefreshStoreErr, IdlePass, PassRec, Value, Error
  <1>6. CASE ExpireBegin \/ ExpireEnd \/ \E k \in Key : ExpireVisit(k)
    <2>1. CASE ExpireBegin
      BY <1>6, <2>1 DEF ExpireBegin, PassRec
    <2>2. CASE ExpireEnd
      BY <2>2 DEF ExpireEnd, IdlePass, PassRec, Value, Error
    <2>3. ASSUME NEW k \in Key, ExpireVisit(k) PROVE Types'
      BY <2>3 DEF ExpireVisit, PassRec
    <2> QED
      BY <1>6, <2>1, <2>2, <2>3
  <1>7. CASE ExpireCas
    <2>1. [heap EXCEPT ![ex.e].expire = TRUE] \in [Entry -> EntryRec]
      BY DEF EntryRec
    <2>2. heap' \in [Entry -> EntryRec]
      BY <1>7, <2>1, Collected DEF ExpireCas
    <2> QED
      BY <1>7, <2>2 DEF ExpireCas, PassRec
  <1>8. CASE ExpireDelete
    <2>1. heap' \in [Entry -> EntryRec]
      BY <1>8, Collected DEF ExpireDelete
    <2> QED
      BY <1>8, <2>1 DEF ExpireDelete, PassRec
  <1> QED
    BY <1>1, <1>2, <1>3, <1>4, <1>5, <1>6, <1>7, <1>8 DEF RefreshStep, ExpireStep

(* The step of a call that wakes nobody: only its own locals can go wrong.  *)
LEMMA OneCallMoves ==
    ASSUME Inv, NEW c \in Client, UNCHANGED <<latest, rf, ex>>,
           \A d \in Client \ {c} : cl'[d] = cl[d],
           \/ flight' = flight /\ cl[c].pc \notin Leading
           \/ flight' = flight /\ cl'[c].pc \in Leading /\ cl'[c].key = cl[c].key
           \/ flight' = [flight EXCEPT ![cl[c].key] = c] /\ cl[c].key \in Key
                /\ cl[c].pc \notin Leading /\ cl'[c].pc \in Leading /\ cl'[c].key = cl[c].key,
           Holds(c)', HasResult(c)'
    PROVE  Locals' /\ Flights' /\ Results'
  <1>1. \A d \in Client : Holds(d)' /\ HasResult(d)'
    BY DEF Inv, Locals, Results, Holds, HasResult
  <1>2. Flights'
    <2> SUFFICES ASSUME NEW k \in Key, flight'[k] # Nobody
                 PROVE  cl'[flight'[k]].key = k /\ cl'[flight'[k]].pc \in Leading
      BY DEF Flights
    <2>1. CASE flight'[k] = flight[k]
      <3>1. flight[k] \in Client /\ cl[flight[k]].key = k /\ cl[flight[k]].pc \in Leading
        BY <2>1 DEF Inv, Types, Flights
      <3> QED
        BY <2>1, <3>1
    <2>2. CASE flight'[k] # flight[k]
      BY <2>2 DEF Inv, Types
    <2> QED
      BY <2>1, <2>2
  <1> QED
    BY <1>1, <1>2 DEF Inv, Locals, Results

LEMMA CallLocals ==
    ASSUME Inv, NEW c \in Client, ClientStep(c)
    PROVE  Locals' /\ Flights' /\ Results'
  <1> DEFINE Goal == Locals' /\ Flights' /\ Results'
  <1> USE DEF Holding, Leading, CallPcs
  <1>0. /\ Types /\ cl[c] \in CallRec /\ Holds(c) /\ HasResult(c)
        /\ cl[c].val \in Value /\ cl[c].err \in Error /\ cl[c].e \in Entry \cup {NoEntry}
        /\ Nil \in Value /\ Default \in Value /\ NoErr \in Error
    BY DEF Inv, Types, Locals, Results, CallRec, Value, Error
  <1>1. CASE Load(c)
    <2>1. /\ UNCHANGED <<latest, rf, ex, flight>> /\ cl[c].pc = "load"
          /\ \A d \in Client \ {c} : cl'[d] = cl[d]
          /\ cl'[c].key = cl[c].key /\ cl'[c].e = data[cl[c].key]
          /\ cl'[c].pc = IF data[cl[c].key] = NoEntry THEN "do"
                         ELSE IF cl[c].op = "get" THEN "touch" ELSE "err"
      BY <1>0, <1>1 DEF Load, Types, CallRec
    <2> QED
      BY <1>0, <2>1, OneCallMoves DEF Holds, HasResult
  <1>2. CASE CallTouch(c)
    <2>1. UNCHANGED <<latest, rf, ex, flight>> /\ cl[c].pc = "touch"
      BY <1>2 DEF CallTouch
    <2>2. CASE cl[c].op = "setDefault"
      <3>1. /\ \A d \in Client \ {c} : cl'[d] = cl[d]
            /\ cl'[c].pc = "done" /\ cl'[c].e = NoEntry /\ cl'[c].op = "setDefault"
        BY <1>0, <1>2, <2>2, Returns DEF CallTouch
      <3> QED
        BY <2>1, <3>1, OneCallMoves DEF Holds, HasResult
    <2>3. CASE cl[c].op # "setDefault"
      <3>1. /\ \A d \in Client \ {c} : cl'[d] = cl[d]
            /\ cl'[c].pc = "val" /\ cl'[c].e = cl[c].e /\ cl'[c].key = cl[c].key
        BY <1>0, <1>2, <2>3, Goes DEF CallTouch
      <3> QED
        BY <1>0, <2>1, <3>1, OneCallMoves DEF Holds, HasResult
    <2> QED
      BY <2>2, <2>3
  <1>3. CASE ReadVal(c)
    <2>1. UNCHANGED <<latest, rf, ex, flight>> /\ cl[c].pc = "val"
      BY <1>3 DEF ReadVal
    <2>2. cl[c].e \in Entry /\ Found(cl[c].e) \subseteq Value /\ NoErr \in Error
      BY <1>0, <2>1, FoundType, EntryAssumption DEF Holds, Holding, CallRec, Types, Error
    <2>3. CASE cl[c].op = "get"
      <3>1. /\ \A d \in Client \ {c} : cl'[d] = cl[d]
            /\ cl'[c].pc = "err" /\ cl'[c].e = cl[c].e /\ cl'[c].key = cl[c].key
        BY <1>0, <1>3, <2>3 DEF ReadVal, CallRec, Types
      <3> QED
        BY <1>0, <2>1, <3>1, OneCallMoves DEF Holds, HasResult
    <2>4. CASE cl[c].op # "get"
      <3>1. /\ \A d \in Client \ {c} : cl'[d] = cl[d]
            /\ cl'[c].pc = "done" /\ cl'[c].e = NoEntry /\ cl'[c].op = cl[c].op
            /\ cl'[c].val \in Found(cl[c].e)
        <4>1. PICK v \in Found(cl[c].e) : Return(c, v, NoErr)
          BY <1>3, <2>4 DEF ReadVal
        <4> QED
          BY <1>0, <2>2, <4>1, Returns
      <3>2. cl[c].op = "getOrSet" => Nil \notin Found(cl[c].e)
        BY <1>0, <2>1, <2>2, FoundType DEF Inv, Memory
      <3> QED
        BY <2>1, <3>1, <3>2, OneCallMoves DEF Holds, HasResult
    <2> QED
      BY <2>3, <2>4
  <1>4. CASE GetReadErr(c)
    <2>1. UNCHANGED <<latest, rf, ex, flight>> /\ cl[c].pc = "err" /\ cl[c].op = "get"
      BY <1>4 DEF GetReadErr
    <2>2. heap[cl[c].e].err \in Error
      BY <1>0, <2>1, EntryAssumption DEF Holds, EntryRec, Types
    <2>3. /\ \A d \in Client \ {c} : cl'[d] = cl[d]
          /\ cl'[c].pc = "done" /\ cl'[c].e = NoEntry /\ cl'[c].op = "get"
      BY <1>0, <1>4, <2>1, <2>2, Returns DEF GetReadErr
    <2> QED
      BY <2>1, <2>3, OneCallMoves DEF Holds, HasResult
  <1>5. CASE GetOrSetReadErr(c)
    <2>1. UNCHANGED <<latest, rf, ex, flight>> /\ cl[c].pc = "err"
      BY <1>5 DEF GetOrSetReadErr
    <2>2. /\ \A d \in Client \ {c} : cl'[d] = cl[d]
          /\ cl'[c].pc \in {"touch", "replace"} /\ cl'[c].e = cl[c].e /\ cl'[c].key = cl[c].key
      BY <1>0, <1>5, Goes DEF GetOrSetReadErr
    <2> QED
      BY <1>0, <2>1, <2>2, OneCallMoves DEF Holds, HasResult
  <1>6. CASE GetOrSetReplace(c)
    <2>1. UNCHANGED <<latest, rf, ex, flight>> /\ cl[c].pc = "replace"
      BY <1>6 DEF GetOrSetReplace
    <2>2. /\ \A d \in Client \ {c} : cl'[d] = cl[d]
          /\ cl'[c].pc = "done" /\ cl'[c].e = NoEntry /\ cl'[c].val = Default
      BY <1>0, <1>6, Returns DEF GetOrSetReplace
    <2> QED
      BY <2>1, <2>2, OneCallMoves, ValueAssumption DEF Holds, HasResult
  <1>7. CASE Do(c)
    <2>1. UNCHANGED <<latest, rf, ex>> /\ cl[c].pc = "do" /\ cl[c].key \in Key
      BY <1>0, <1>7 DEF Do, Holds
    <2>2. CASE flight[cl[c].key] = Nobody
      <3>1. /\ \A d \in Client \ {c} : cl'[d] = cl[d]
            /\ cl'[c].pc = "fetch" /\ cl'[c].e = cl[c].e /\ cl'[c].key = cl[c].key
            /\ flight' = [flight EXCEPT ![cl[c].key] = c]
        BY <1>0, <1>7, <2>2, Goes DEF Do
      <3> QED
        BY <1>0, <2>1, <3>1, OneCallMoves DEF Holds, HasResult
    <2>3. CASE flight[cl[c].key] # Nobody
      <3>1. /\ \A d \in Client \ {c} : cl'[d] = cl[d]
            /\ cl'[c].pc = "wait" /\ cl'[c].e = cl[c].e /\ cl'[c].key = cl[c].key
            /\ flight' = flight
        BY <1>0, <1>7, <2>3, Goes DEF Do
      <3> QED
        BY <1>0, <2>1, <3>1, OneCallMoves DEF Holds, HasResult
    <2> QED
      BY <2>2, <2>3
  <1>8. CASE Fetch(c)
    <2>1. UNCHANGED <<latest, rf, ex, flight>> /\ cl[c].pc = "fetch" /\ cl[c].key \in Key
      BY <1>0, <1>8 DEF Fetch, Holds
    <2>2. /\ \A d \in Client \ {c} : cl'[d] = cl[d]
          /\ cl'[c].pc = "store" /\ cl'[c].e = cl[c].e /\ cl'[c].key = cl[c].key /\ cl'[c].op = cl[c].op
          /\ \/ cl'[c].val = latest[cl[c].key]
             \/ cl'[c].val = Nil /\ cl'[c].err = Err /\ cl[c].op = "get"
             \/ cl'[c].val = Default
      BY <1>0, <1>8 DEF Fetch, CallRec, Types
    <2>3. latest[cl[c].key] \in Version /\ latest[cl[c].key] <= latest[cl[c].key]
      BY <1>0, <2>1, OptionAssumption DEF Types, Version
    <2> QED
      BY <1>0, <2>1, <2>2, <2>3, OneCallMoves, ValueAssumption DEF Holds, HasResult
  <1>9. CASE FlightStore(c)
    <2>1. UNCHANGED <<latest, rf, ex, flight>> /\ cl[c].pc = "store"
      BY <1>9 DEF FlightStore
    <2>2. /\ \A d \in Client \ {c} : cl'[d] = cl[d]
          /\ cl'[c].pc = "finish" /\ cl'[c].e = cl[c].e /\ cl'[c].key = cl[c].key
          /\ cl'[c].op = cl[c].op /\ cl'[c].val = cl[c].val
      BY <1>0, <1>9, Goes DEF FlightStore
    <2> QED
      BY <1>0, <2>1, <2>2, OneCallMoves DEF Holds, HasResult
  <1>11. CASE SetDefault(c)
    <2>1. UNCHANGED <<latest, rf, ex, flight>> /\ cl[c].pc = "load" /\ cl[c].op = "setDefault"
      BY <1>11 DEF SetDefault
    <2>2. /\ \A d \in Client \ {c} : cl'[d] = cl[d]
          /\ cl'[c].pc = "done" /\ cl'[c].e = NoEntry /\ cl'[c].op = "setDefault"
      BY <1>0, <1>11, <2>1, Returns DEF SetDefault
    <2> QED
      BY <2>1, <2>2, OneCallMoves DEF Holds, HasResult
  <1>12. CASE SetDefaultExists(c)
    <2>1. /\ UNCHANGED <<latest, rf, ex, flight>> /\ cl[c].pc = "load"
          /\ \A d \in Client \ {c} : cl'[d] = cl[d]
          /\ cl'[c].pc = "touch" /\ cl'[c].e # NoEntry /\ cl'[c].key = cl[c].key
      BY <1>0, <1>12 DEF SetDefaultExists, Types, CallRec
    <2> QED
      BY <1>0, <2>1, OneCallMoves DEF Holds, HasResult
  <1>13. CASE DeleteOne(c)
    <2>1. UNCHANGED <<latest, rf, ex, flight>> /\ cl[c].pc = "del"
      BY <1>13 DEF DeleteOne
    <2>2. CASE cl[c].todo = {}
      <3>1. Goto(c, "done")
        BY <1>13, <2>2 DEF DeleteOne, Goto
      <3>2. /\ \A d \in Client \ {c} : cl'[d] = cl[d]
            /\ cl'[c].pc = "done" /\ cl'[c].e = cl[c].e /\ cl'[c].op = cl[c].op
        BY <1>0, <3>1, Goes
      <3>3. cl[c].op = "deleteIf"
        BY <1>0, <2>1 DEF Holds
      <3> QED
        BY <1>0, <2>1, <3>2, <3>3, OneCallMoves DEF Holds, HasResult
    <2>3. CASE cl[c].todo # {}
      <3>1. /\ \A d \in Client \ {c} : cl'[d] = cl[d]
            /\ cl'[c].pc = "del" /\ cl'[c].e = cl[c].e /\ cl'[c].op = cl[c].op
        BY <1>0, <1>13, <2>1, <2>3 DEF DeleteOne, CallRec, Types
      <3> QED
        BY <1>0, <2>1, <3>1, OneCallMoves DEF Holds, HasResult
    <2> QED
      BY <2>2, <2>3
  <1>10. CASE FlightEnd(c)
    <2> DEFINE k == cl[c].key
    <2>1. /\ UNCHANGED <<latest, rf, ex>> /\ cl[c].pc = "finish" /\ k \in Key
          /\ flight' = [flight EXCEPT ![k] = Nobody]
      BY <1>0, <1>10 DEF FlightEnd, Holds
    <2>2. ASSUME NEW d \in Client
          PROVE  \/ cl'[d] = cl[d] /\ d # c
                 \/ /\ d = c \/ cl[d].pc = "wait"
                    /\ cl'[d].pc = "done" /\ cl'[d].e = cl[d].e /\ cl'[d].op = cl[d].op
                    /\ \/ d = c /\ cl'[d].val = cl[d].val
                       \/ d # c /\ cl'[d].joined = TRUE
      <3>1. cl[d] \in CallRec /\ cl[c] \in CallRec
        BY <1>0 DEF Types
      <3>2. CASE d = c
        <4>1. cl'[d] = [cl[c] EXCEPT !.pc = "done"]
          BY <1>10, <3>2 DEF FlightEnd
        <4> QED
          BY <3>1, <3>2, <4>1 DEF CallRec
      <3>3. CASE d # c /\ cl[d].pc = "wait" /\ cl[d].key = k
        <4>1. cl'[d] = [cl[d] EXCEPT !.pc = "done", !.joined = TRUE, !.val = cl[c].val,
                               !.err = IF cl[d].op = "get" THEN cl[c].err ELSE NoErr]
          BY <1>10, <3>3 DEF FlightEnd
        <4> QED
          BY <3>1, <3>3, <4>1 DEF CallRec
      <3>4. CASE d # c /\ ~(cl[d].pc = "wait" /\ cl[d].key = k)
        BY <1>10, <3>4 DEF FlightEnd
      <3> QED
        BY <3>2, <3>3, <3>4
    <2>3. \A d \in Client : Holds(d)' /\ HasResult(d)'
      <3> SUFFICES ASSUME NEW d \in Client PROVE Holds(d)' /\ HasResult(d)'
        OBVIOUS
      <3>1. Holds(d) /\ HasResult(d)
        BY DEF Inv, Locals, Results
      <3> QED
        BY <2>1, <2>2, <3>1 DEF Holds, HasResult
    <2>4. Flights'
      <3> SUFFICES ASSUME NEW j \in Key, flight'[j] # Nobody
                   PROVE  cl'[flight'[j]].key = j /\ cl'[flight'[j]].pc \in Leading
        BY DEF Flights
      <3>1. j # k /\ flight'[j] = flight[j]
        BY <1>0, <2>1 DEF Types
      <3>2. flight[j] \in Client /\ cl[flight[j]].key = j /\ cl[flight[j]].pc \in Leading
        BY <3>1 DEF Inv, Types, Flights
      <3>3. cl'[flight[j]] = cl[flight[j]]
        BY <2>2, <3>1, <3>2
      <3> QED
        BY <3>1, <3>2, <3>3
    <2> QED
      BY <2>1, <2>3, <2>4 DEF Inv, Locals, Results
  <1> QED
    BY <1>1, <1>2, <1>3, <1>4, <1>5, <1>6, <1>7, <1>8, <1>9, <1>10, <1>11, <1>12, <1>13 DEF ClientStep

(* Calls begin, the source changes. *)
LEMMA CallsBegin ==
    ASSUME Inv, NEW c \in Client, NEW k \in Key, NEW op, Call(c, op, k),
           op \in {"get", "getOrSet", "setDefault"}
    PROVE  Types' /\ Locals' /\ Flights' /\ Results'
  <1> DEFINE r == [Idle EXCEPT !.pc = "load", !.op = op, !.key = k]
  <1>1. r \in CallRec /\ r.pc = "load" /\ r.key = k /\ r.e = NoEntry
    BY DEF Idle, CallRec, CallPcs, Value, Error
  <1>2. cl' = [cl EXCEPT ![c] = r]
    BY DEF Call
  <1>3. /\ UNCHANGED <<opt, data, heap, latest, flight, rf, ex>>
        /\ cl[c].pc \in {"idle", "done"}
    BY DEF Call
  <1> HIDE DEF r
  <1>4. Types'
    BY <1>1, <1>2, <1>3 DEF Inv, Types
  <1>5. cl'[c] = r /\ \A d \in Client \ {c} : cl'[d] = cl[d]
    BY <1>2 DEF Inv, Types
  <1>6. Holds(c)' /\ HasResult(c)'
    BY <1>1, <1>5 DEF Holds, HasResult, Holding
  <1> QED
    BY <1>3, <1>4, <1>5, <1>6, OneCallMoves DEF Leading

LEMMA DeleteBegins ==
    ASSUME Inv, NEW c \in Client, NEW K \in SUBSET Key, DeleteIf(c, K)
    PROVE  Types' /\ Locals' /\ Flights' /\ Results'
  <1> DEFINE r == [Idle EXCEPT !.pc = "del", !.op = "deleteIf",
                               !.todo = {k \in K : data[k] # NoEntry}]
  <1>1. r \in CallRec /\ r.pc = "del" /\ r.e = NoEntry /\ r.op = "deleteIf"
    BY DEF Idle, CallRec, CallPcs, Value, Error
  <1>2. cl' = [cl EXCEPT ![c] = r]
    BY DEF DeleteIf
  <1>3. /\ UNCHANGED <<opt, data, heap, latest, flight, rf, ex>>
        /\ cl[c].pc \in {"idle", "done"}
    BY DEF DeleteIf
  <1> HIDE DEF r
  <1>4. Types'
    BY <1>1, <1>2, <1>3 DEF Inv, Types
  <1>5. cl'[c] = r /\ \A d \in Client \ {c} : cl'[d] = cl[d]
    BY <1>2 DEF Inv, Types
  <1>6. Holds(c)' /\ HasResult(c)'
    BY <1>1, <1>5 DEF Holds, HasResult, Holding
  <1> QED
    BY <1>3, <1>4, <1>5, <1>6, OneCallMoves DEF Leading

LEMMA PassLocals ==
    ASSUME Inv, RefreshStep \/ ExpireStep
    PROVE  Locals' /\ Flights' /\ Results'
  <1>1. UNCHANGED <<cl, flight, latest>>
    BY DEF RefreshStep, RefreshBegin, RefreshStoreVal, RefreshStoreErr, RefreshEnd, RefreshFetchOk,
           RefreshFetchFails, RefreshVisit, ExpireStep, ExpireBegin, ExpireCas, ExpireDelete,
           ExpireEnd, ExpireVisit
  <1>2. Flights' /\ Results' /\ \A c \in Client : Holds(c)'
    BY <1>1 DEF Inv, Flights, Results, HasResult, Locals, Holds
  <1>3. rf \in PassRec /\ ex \in PassRec /\ data \in [Key -> Entry \cup {NoEntry}]
    BY DEF Inv, Types
  <1> DEFINE Rf == /\ rf.pc \in {"idle", "range", "fetch", "val", "err"}
                   /\ rf.e # NoEntry <=> rf.pc \in {"fetch", "val", "err"}
                   /\ rf.e # NoEntry => rf.key \in Key
             Ex == /\ ex.pc \in {"idle", "range", "cas", "delete"}
                   /\ ex.e # NoEntry <=> ex.pc = "cas"
                   /\ ex.pc \in {"cas", "delete"} => ex.key \in Key
  <1>4. Rf /\ Ex
    BY DEF Inv, Locals
  <1>5. CASE RefreshStep
    <2>1. ex' = ex
      BY <1>5 DEF RefreshStep, RefreshBegin, RefreshStoreVal, RefreshStoreErr, RefreshEnd, RefreshFetchOk,
                  RefreshFetchFails, RefreshVisit
    <2>2. ASSUME RefreshBegin \/ RefreshStoreVal \/ RefreshFetchOk PROVE Rf'
      BY <1>3, <1>4, <2>2 DEF RefreshBegin, RefreshStoreVal, RefreshFetchOk, PassRec
    <2>3. ASSUME RefreshStoreErr \/ RefreshEnd \/ RefreshFetchFails PROVE Rf'
      <3>1. rf'.pc \in {"idle", "range"} /\ rf'.e = NoEntry
        <4>1. CASE rf' = IdlePass
          BY <4>1 DEF IdlePass
        <4>2. CASE rf' = [IdlePass EXCEPT !.pc = "range", !.todo = rf.todo]
          BY <4>2 DEF IdlePass
        <4> QED
          BY <2>3, <4>1, <4>2 DEF RefreshStoreErr, RefreshEnd, RefreshFetchFails
      <3> QED
        BY <3>1
    <2>4. ASSUME NEW k \in Key, RefreshVisit(k) PROVE Rf'
      BY <1>3, <1>4, <2>4 DEF RefreshVisit, PassRec
    <2>5. Rf' /\ Ex'
      BY <1>4, <1>5, <2>1, <2>2, <2>3, <2>4 DEF RefreshStep
    <2> QED
      BY <1>2, <2>5 DEF Locals
  <1>6. CASE ExpireStep
    <2>1. rf' = rf
      BY <1>6 DEF ExpireStep, ExpireBegin, ExpireCas, ExpireDelete, ExpireEnd, ExpireVisit
    <2>2. ASSUME ExpireBegin \/ ExpireCas \/ ExpireDelete PROVE Ex'
      BY <1>3, <1>4, <2>2 DEF ExpireBegin, ExpireCas, ExpireDelete, PassRec
    <2>3. ASSUME ExpireEnd PROVE Ex'
      BY <1>3, <1>4, <2>3 DEF ExpireEnd, IdlePass
    <2>4. ASSUME NEW k \in Key, ExpireVisit(k) PROVE Ex'
      BY <1>3, <1>4, <2>4 DEF ExpireVisit, PassRec
    <2>5. Rf' /\ Ex'
      BY <1>4, <1>6, <2>1, <2>2, <2>3, <2>4 DEF ExpireStep
    <2> QED
      BY <1>2, <2>5 DEF Locals
  <1> QED
    BY <1>5, <1>6

LEMMA SourceStep ==
    ASSUME Inv, NEW k \in Key, SourceChanges(k)
    PROVE  Types' /\ Locals' /\ Flights' /\ Results'
  <1>1. latest' \in [Key -> Version] /\ \A j \in Key : latest[j] <= latest'[j]
    BY OptionAssumption DEF Inv, Types, SourceChanges, Version
  <1>2. UNCHANGED <<opt, data, heap, flight, cl, rf, ex>>
    BY DEF SourceChanges
  <1>3. Types' /\ Locals' /\ Flights'
    BY <1>1, <1>2 DEF Inv, Types, Locals, Holds, Flights
  <1>4. ASSUME NEW c \in Client PROVE HasResult(c)'
    <2>1. HasResult(c) /\ Holds(c)
      BY DEF Inv, Results, Locals
    <2>2. cl[c].pc = "store" /\ cl[c].val \in Version => cl[c].val <= latest'[cl[c].key]
      BY <1>1, <2>1, OptionAssumption DEF HasResult, Holds, Version, Inv, Types
    <2> QED
      BY <1>2, <2>1, <2>2 DEF HasResult
  <1> QED
    BY <1>3, <1>4 DEF Results

-----------------------------------------------------------------------------
(* What a step does to memory.  An entry that stays changes only as a       *)
(* refresh pass changes the one it holds. *)
Evolves(e) ==
    /\ \/ heap'[e].val = heap[e].val
       \/ rf.pc = "val" /\ e = rf.e /\ heap'[e].val = rf.val
    /\ \/ heap'[e].err = heap[e].err
       \/ heap[e].err # NoErr /\ heap'[e].err # NoErr
       \/ rf.pc = "err" /\ e = rf.e /\ heap'[e].err = NoErr

EntriesEvolve == \A e \in Entry : e \in Reachable /\ e \in Reachable' => Evolves(e)

(* No entry comes into use, or the one that is stored under a key.          *)
NothingNew ==
    /\ Entry \cap Reachable' \subseteq Reachable
    /\ \A k \in Key : data'[k] \in {data[k], NoEntry}

Stored(k) ==
    /\ Entry \cap Reachable' \subseteq Reachable \cup {Fresh}
    /\ data' = [data EXCEPT ![k] = Fresh]
    /\ heap'[Fresh].err = NoErr => heap'[Fresh].val # Nil
    /\ heap'[Fresh].val \in Version => heap'[Fresh].val <= latest[k]
    /\ ~heap'[Fresh].expire

(* No flag is set, and what is added to used has its flag clear. *)
FlagsFall ==
    /\ \A e \in Entry : e \in Reachable /\ e \in Reachable' => (heap'[e].expire => heap[e].expire)
    /\ safe' \subseteq safe \cap Reachable' /\ used' \subseteq Entry \cap Reachable'
    /\ \A e \in used' : e \in used \/ (ex.pc = "idle" /\ ~heap'[e].expire)

LEMMA InUse ==
    /\ \A k \in Key : data[k] \in Reachable
    /\ \A c \in Client : cl[c].e \in Reachable
    /\ rf.e \in Reachable /\ ex.e \in Reachable
  BY DEF Reachable

LEMMA PointersAreCopied ==
    ASSUME NEW S, Reachable \cup {NoEntry} \subseteq S, \A k \in Key : data'[k] \in S,
           \A c \in Client : cl'[c].e \in S, rf'.e \in S, ex'.e \in S
    PROVE  Reachable' \subseteq S
  BY DEF Reachable

LEMMA CallPointers ==
    ASSUME Inv, NEW c \in Client, ClientStep(c), NEW d \in Client
    PROVE  cl'[d].e \in Reachable \cup {NoEntry}
  <1>0. /\ Types /\ cl[c] \in CallRec /\ cl[d] \in CallRec /\ Holds(c)
        /\ cl[c].val \in Value /\ cl[c].err \in Error /\ cl[c].e \in Entry \cup {NoEntry}
        /\ Nil \in Value /\ Default \in Value /\ NoErr \in Error
        /\ cl[c].e \in Reachable /\ cl[d].e \in Reachable
    BY InUse DEF Inv, Types, Locals, CallRec, Value, Error
  <1> USE DEF CallPcs
  <1>1. CASE Load(c) \/ SetDefaultExists(c)
    <2>1. cl[c].key \in Key
      BY <1>0, <1>1 DEF Load, SetDefaultExists, Holds
    <2> QED
      BY <1>0, <1>1, <2>1, InUse DEF Load, SetDefaultExists, Types, CallRec
  <1>2. CASE CallTouch(c)
    BY <1>0, <1>2, Goes, Returns DEF CallTouch
  <1>3. CASE ReadVal(c)
    <2>1. CASE cl[c].op = "get"
      BY <1>0, <1>3, <2>1 DEF ReadVal, Types, CallRec
    <2>2. CASE cl[c].op # "get"
      <3>1. Found(cl[c].e) \subseteq Value /\ NoErr \in Error
        BY <1>0, <1>3, FoundType, EntryAssumption DEF ReadVal, Holds, Holding, CallRec, Types, Error
      <3>2. PICK v \in Found(cl[c].e) : Return(c, v, NoErr)
        BY <1>3, <2>2 DEF ReadVal
      <3> QED
        BY <1>0, <3>1, <3>2, Returns
    <2> QED
      BY <2>1, <2>2
  <1>4. CASE GetReadErr(c)
    <2>1. heap[cl[c].e].err \in Error
      BY <1>0, <1>4, EntryAssumption DEF GetReadErr, Holds, Holding, EntryRec, Types
    <2> QED
      BY <1>0, <1>4, <2>1, Returns DEF GetReadErr
  <1>5. CASE GetOrSetReadErr(c) \/ Do(c) \/ FlightStore(c)
    BY <1>0, <1>5, Goes DEF GetOrSetReadErr, Do, FlightStore
  <1>6. CASE GetOrSetReplace(c) \/ SetDefault(c)
    BY <1>0, <1>6, Returns DEF GetOrSetReplace, SetDefault
  <1>7. CASE Fetch(c)
    BY <1>0, <1>7 DEF Fetch, Types, CallRec
  <1>8. CASE FlightEnd(c)
    <2>1. cl'[d].e = cl[d].e
      <3>1. CASE d = c
        BY <1>0, <1>8, <3>1 DEF FlightEnd, CallRec
      <3>2. CASE d # c /\ cl[d].pc = "wait" /\ cl[d].key = cl[c].key
        BY <1>0, <1>8, <3>2 DEF FlightEnd, CallRec
      <3>3. CASE d # c /\ ~(cl[d].pc = "wait" /\ cl[d].key = cl[c].key)
        BY <1>0, <1>8, <3>3 DEF FlightEnd
      <3> QED
        BY <3>1, <3>2, <3>3
    <2> QED
      BY <1>0, <2>1
  <1>9. CASE DeleteOne(c)
    BY <1>0, <1>9 DEF DeleteOne, Types, CallRec
  <1> QED
    BY <1>1, <1>2, <1>3, <1>4, <1>5, <1>6, <1>7, <1>8, <1>9 DEF ClientStep

(* An entry stored by a call is what the call makes of its results.         *)
LEMMA CallStores ==
    ASSUME Inv, NEW c \in Client, ClientStep(c), NEW v \in Value, NEW err \in Error,
           Collect(WithEntry(v, err), WithUse(Fresh), safe), StoreEntry(cl[c].key),
           UNCHANGED <<rf, ex>>, cl[c].key \in Key,
           err = NoErr => v # Nil, v \in Version => v <= latest[cl[c].key]
    PROVE  Stored(cl[c].key) /\ EntriesEvolve /\ FlagsFall
  <1>1. /\ Fresh \in Entry /\ Fresh \notin Reachable
        /\ data' = [data EXCEPT ![cl[c].key] = Fresh] /\ data'[cl[c].key] = Fresh
    BY FreshIsFree DEF Inv, Types, StoreEntry
  <1>2. Reachable' \subseteq Reachable \cup {NoEntry, Fresh}
    <2>1. /\ \A k \in Key : data'[k] \in Reachable \cup {NoEntry, Fresh}
          /\ \A d \in Client : cl'[d].e \in Reachable \cup {NoEntry, Fresh}
          /\ rf'.e \in Reachable \cup {NoEntry, Fresh} /\ ex'.e \in Reachable \cup {NoEntry, Fresh}
      BY <1>1, InUse, CallPointers DEF Inv, Types
    <2> QED
      BY <2>1, PointersAreCopied
  <1>3. Fresh \in Reachable'
    BY <1>1 DEF Reachable
  <1>4. /\ heap'[Fresh] = [val |-> v, was |-> Nil, err |-> err, expire |-> FALSE]
        /\ \A e \in Entry : e \in Reachable /\ e \in Reachable' => heap'[e] = heap[e]
    <2> DEFINE h == WithEntry(v, err)
    <2>1. /\ h[Fresh] = [val |-> v, was |-> Nil, err |-> err, expire |-> FALSE]
          /\ \A e \in Entry \ {Fresh} : h[e] = heap[e]
      BY <1>1 DEF WithEntry, Inv, Types
    <2> HIDE DEF h
    <2>2. \A e \in Entry : heap'[e] = IF e \in Reachable' THEN h[e] ELSE Blank
      BY Collected DEF h
    <2> QED
      BY <1>1, <1>3, <2>1, <2>2
  <1>5. EntriesEvolve
    BY <1>4 DEF EntriesEvolve, Evolves
  <1>6. FlagsFall
    BY <1>1, <1>4 DEF FlagsFall, Collect, WithUse, Inv, Expiry
  <1> QED
    BY <1>1, <1>2, <1>4, <1>5, <1>6, EntryAssumption DEF Stored

(* Steps that neither change an entry nor drop a pointer to one. *)
LEMMA QuietStep ==
    ASSUME Inv, UNCHANGED <<data, heap, used, safe>>,
           \A c \in Client : /\ cl'[c].e \in Reachable \cup {NoEntry}
                             /\ cl[c].e # NoEntry => cl'[c].e = cl[c].e,
           rf'.e \in Reachable \cup {NoEntry}, rf.e # NoEntry => rf'.e = rf.e,
           ex'.e \in Reachable \cup {NoEntry}, ex.e # NoEntry => ex'.e = ex.e
    PROVE  EntriesEvolve /\ NothingNew /\ FlagsFall
  <1>1. Reachable' \subseteq Reachable \cup {NoEntry}
    BY InUse, PointersAreCopied
  <1>2. Entry \cap Reachable \subseteq Reachable'
    BY EntryAssumption DEF Reachable
  <1> QED
    BY <1>1, <1>2, EntryAssumption
       DEF EntriesEvolve, Evolves, NothingNew, FlagsFall, Inv, Expiry

(* Steps that end with Collect and store nothing. *)
LEMMA CollectingStep ==
    ASSUME Inv, NEW h, NEW u, Collect(h, u, safe),
           \A k \in Key : data'[k] \in {data[k], NoEntry},
           \A c \in Client : cl'[c].e \in Reachable \cup {NoEntry},
           rf'.e \in Reachable \cup {NoEntry}, ex'.e \in Reachable \cup {NoEntry},
           u \subseteq Entry
    PROVE  /\ NothingNew
           /\ \A e \in Entry : e \in Reachable /\ e \in Reachable' => heap'[e] = h[e]
           /\ safe' \subseteq safe \cap Reachable' /\ used' \subseteq Entry \cap Reachable'
           /\ used' \subseteq u
  <1>1. Reachable' \subseteq Reachable \cup {NoEntry}
    BY InUse, PointersAreCopied
  <1>2. \A e \in Entry : e \in Reachable' => heap'[e] = h[e]
    BY Collected
  <1> QED
    BY <1>1, <1>2, EntryAssumption DEF NothingNew, Collect

LEMMA CallEffects ==
    ASSUME Inv, NEW c \in Client, ClientStep(c)
    PROVE  /\ EntriesEvolve /\ FlagsFall
           /\ NothingNew \/ \E k \in Key : Stored(k)
           /\ UNCHANGED <<latest, rf, ex>>
  <1>0. /\ Types /\ cl[c] \in CallRec /\ Holds(c) /\ HasResult(c)
        /\ cl[c].val \in Value /\ cl[c].err \in Error /\ cl[c].e \in Entry \cup {NoEntry}
        /\ Nil \in Value /\ Default \in Value /\ NoErr \in Error
        /\ used \subseteq Entry
        /\ \A d \in Client : cl'[d].e \in Reachable \cup {NoEntry}
        /\ rf.e \in Reachable /\ ex.e \in Reachable
    BY InUse, CallPointers DEF Inv, Types, Locals, Results, Expiry, CallRec, Value, Error
  <1>1. UNCHANGED <<latest, rf, ex>>
    BY DEF ClientStep, Load, CallTouch, ReadVal, GetReadErr, GetOrSetReadErr, GetOrSetReplace, Do,
           Fetch, FlightStore, FlightEnd, SetDefault, SetDefaultExists, DeleteOne
  <1> USE DEF CallPcs
  <1>2. CASE Load(c) \/ GetOrSetReadErr(c) \/ Do(c) \/ Fetch(c) \/ FlightEnd(c) \/ SetDefaultExists(c)
    <2>1. UNCHANGED <<data, heap, used, safe>>
      BY <1>2 DEF Load, GetOrSetReadErr, Do, Fetch, FlightEnd, SetDefaultExists
    <2>2. ASSUME NEW d \in Client, cl[d].e # NoEntry PROVE cl'[d].e = cl[d].e
      <3>1. CASE Load(c) \/ SetDefaultExists(c) \/ Fetch(c)
        <4>1. cl[c].pc \notin Holding
          BY <3>1 DEF Load, SetDefaultExists, Fetch, Holding
        <4>2. d # c
          BY <1>0, <2>2, <4>1 DEF Holds
        <4> QED
          BY <1>0, <3>1, <4>2 DEF Load, SetDefaultExists, Fetch, Types
      <3>2. CASE GetOrSetReadErr(c) \/ Do(c)
        BY <1>0, <3>2, Goes DEF GetOrSetReadErr, Do
      <3>3. CASE FlightEnd(c)
        <4>1. d # c /\ cl[d].pc # "wait"
          BY <2>2, <3>3 DEF FlightEnd, Inv, Locals, Holds, Holding
        <4> QED
          BY <3>3, <4>1 DEF FlightEnd
      <3> QED
        BY <1>2, <3>1, <3>2, <3>3
    <2> QED
      BY <1>0, <1>1, <2>1, <2>2, QuietStep
  <1>3. CASE CallTouch(c)
    <2> DEFINE e == cl[c].e
               u == WithUse(e)
               h == Touch(e)
    <2>1. e \in Entry /\ e \in Reachable
      BY <1>0, <1>3, InUse DEF CallTouch, Holds, Holding
    <2>2. u \subseteq Entry /\ \A x \in u : x \in used \/ (ex.pc = "idle" /\ x = e)
      BY <1>0, <2>1 DEF WithUse
    <2>3. \A x \in Entry : /\ h[x].val = heap[x].val /\ h[x].err = heap[x].err
                           /\ h[x].expire => heap[x].expire
                           /\ ~h[e].expire
      BY <1>0, <2>1 DEF Touch, Types, EntryRec
    <2>4. Collect(h, u, safe) /\ data' = data
      BY <1>3 DEF CallTouch
    <2> HIDE DEF e, u, h
    <2>5. /\ NothingNew
          /\ \A x \in Entry : x \in Reachable /\ x \in Reachable' => heap'[x] = h[x]
          /\ safe' \subseteq safe \cap Reachable' /\ used' \subseteq Entry \cap Reachable'
          /\ used' \subseteq u
      BY <1>0, <1>1, <2>2, <2>4, CollectingStep
    <2> QED
      BY <1>1, <2>1, <2>2, <2>3, <2>5 DEF EntriesEvolve, Evolves, FlagsFall
  <1>4. CASE ReadVal(c) \/ GetReadErr(c) \/ DeleteOne(c)
    <2>1. Collect(heap, used, safe)
      BY <1>4 DEF ReadVal, GetReadErr, DeleteOne
    <2>2. \A k \in Key : data'[k] \in {data[k], NoEntry}
      BY <1>0, <1>4 DEF ReadVal, GetReadErr, DeleteOne, Types
    <2>3. /\ NothingNew
          /\ \A x \in Entry : x \in Reachable /\ x \in Reachable' => heap'[x] = heap[x]
          /\ safe' \subseteq safe \cap Reachable' /\ used' \subseteq Entry \cap Reachable'
          /\ used' \subseteq used
      BY <1>0, <1>1, <2>1, <2>2, CollectingStep
    <2> QED
      BY <1>1, <2>3 DEF EntriesEvolve, Evolves, FlagsFall
  <1>5. CASE GetOrSetReplace(c) \/ SetDefault(c)
    <2>1. cl[c].key \in Key
      BY <1>0, <1>5 DEF GetOrSetReplace, SetDefault, Holds
    <2>2. Stored(cl[c].key) /\ EntriesEvolve /\ FlagsFall
      BY <1>0, <1>1, <1>5, <2>1, CallStores, ValueAssumption DEF GetOrSetReplace, SetDefault
    <2> QED
      BY <1>1, <2>1, <2>2
  <1>6. CASE FlightStore(c)
    <2>1. cl[c].key \in Key
      BY <1>0, <1>6 DEF FlightStore, Holds
    <2>2. Stored(cl[c].key) /\ EntriesEvolve /\ FlagsFall
      BY <1>0, <1>1, <1>6, <2>1, CallStores DEF FlightStore, HasResult
    <2> QED
      BY <1>1, <2>1, <2>2
  <1> QED
    BY <1>2, <1>3, <1>4, <1>5, <1>6 DEF ClientStep

LEMMA BeginEffects ==
    ASSUME Inv,
           \/ \E c \in Client, k \in Key, op \in {"get", "getOrSet", "setDefault"} : Call(c, op, k)
           \/ \E c \in Client, K \in SUBSET Key : DeleteIf(c, K)
           \/ \E k \in Key : SourceChanges(k)
           \/ UNCHANGED vars
    PROVE  /\ EntriesEvolve /\ FlagsFall /\ NothingNew
           /\ UNCHANGED <<rf, ex>>
  <1>1. UNCHANGED <<data, heap, used, safe, rf, ex>>
    BY DEF Call, DeleteIf, SourceChanges, vars
  <1>2. ASSUME NEW c \in Client, NEW r, r.e = NoEntry, cl[c].pc \in {"idle", "done"},
               cl' = [cl EXCEPT ![c] = r], NEW d \in Client
        PROVE  /\ cl'[d].e \in Reachable \cup {NoEntry}
               /\ cl[d].e # NoEntry => cl'[d].e = cl[d].e
    <2>1. cl[c].e = NoEntry
      BY <1>2 DEF Inv, Locals, Holds, Holding
    <2> QED
      BY <1>2, <2>1, InUse DEF Inv, Types
  <1>3. \A d \in Client : /\ cl'[d].e \in Reachable \cup {NoEntry}
                          /\ cl[d].e # NoEntry => cl'[d].e = cl[d].e
    <2>1. ASSUME NEW c \in Client, NEW k \in Key, NEW op, Call(c, op, k), NEW d \in Client
          PROVE  /\ cl'[d].e \in Reachable \cup {NoEntry}
                 /\ cl[d].e # NoEntry => cl'[d].e = cl[d].e
      <3> DEFINE r == [Idle EXCEPT !.pc = "load", !.op = op, !.key = k]
      <3>1. r.e = NoEntry
        BY DEF Idle
      <3>2. cl[c].pc \in {"idle", "done"} /\ cl' = [cl EXCEPT ![c] = r]
        BY <2>1 DEF Call
      <3> HIDE DEF r
      <3> QED
        BY <1>2, <3>1, <3>2
    <2>2. ASSUME NEW c \in Client, NEW K \in SUBSET Key, DeleteIf(c, K), NEW d \in Client
          PROVE  /\ cl'[d].e \in Reachable \cup {NoEntry}
                 /\ cl[d].e # NoEntry => cl'[d].e = cl[d].e
      <3> DEFINE r == [Idle EXCEPT !.pc = "del", !.op = "deleteIf",
                                   !.todo = {k \in K : data[k] # NoEntry}]
      <3>1. r.e = NoEntry
        BY DEF Idle
      <3>2. cl[c].pc \in {"idle", "done"} /\ cl' = [cl EXCEPT ![c] = r]
        BY <2>2 DEF DeleteIf
      <3> HIDE DEF r
      <3> QED
        BY <1>2, <3>1, <3>2
    <2>3. CASE cl' = cl
      BY <2>3, InUse
    <2> QED
      BY <2>1, <2>2, <2>3 DEF SourceChanges, vars
  <1> QED
    BY <1>1, <1>3, InUse, QuietStep

LEMMA RefreshEffects ==
    ASSUME Inv, RefreshStep
    PROVE  /\ EntriesEvolve /\ FlagsFall /\ NothingNew
           /\ UNCHANGED <<latest, cl, ex>>
  <1>0. /\ Types /\ rf \in PassRec /\ rf.e \in Reachable /\ ex.e \in Reachable
        /\ used \subseteq Entry
        /\ \A c \in Client : cl[c].e \in Reachable
        /\ \A k \in Key : data[k] \in Reachable
    BY InUse DEF Inv, Types, Expiry
  <1>1. UNCHANGED <<latest, cl, ex>>
    BY DEF RefreshStep, RefreshBegin, RefreshStoreVal, RefreshStoreErr, RefreshEnd, RefreshFetchOk,
           RefreshFetchFails, RefreshVisit
  <1>2. CASE RefreshBegin \/ RefreshFetchOk
    BY <1>0, <1>1, <1>2, InUse, QuietStep DEF RefreshBegin, RefreshFetchOk, PassRec
  <1>3. CASE RefreshEnd
    <2>1. rf.e = NoEntry /\ rf'.e = NoEntry
      BY <1>3 DEF RefreshEnd, IdlePass, Inv, Locals
    <2> QED
      BY <1>0, <1>1, <1>3, <2>1, InUse, QuietStep DEF RefreshEnd
  <1>4. ASSUME NEW k \in Key, RefreshVisit(k)
        PROVE  EntriesEvolve /\ FlagsFall /\ NothingNew
    <2>1. rf.e = NoEntry /\ rf'.e = data[k]
      BY <1>0, <1>4 DEF RefreshVisit, PassRec, Inv, Locals
    <2> QED
      BY <1>0, <1>1, <1>4, <2>1, InUse, QuietStep DEF RefreshVisit
  <1>5. CASE RefreshStoreVal
    <2>1. /\ rf.e \in Entry /\ rf'.e = rf.e /\ rf.pc = "val"
          /\ UNCHANGED <<data, used, safe>>
          /\ heap' = [heap EXCEPT ![rf.e].val = rf.val, ![rf.e].was = Was(rf.e, rf.val)]
      BY <1>0, <1>5 DEF RefreshStoreVal, PassRec, Inv, Locals
    <2>2. Reachable' = Reachable
      BY <1>1, <2>1 DEF Reachable
    <2>3. \A e \in Entry : /\ heap'[e].val = IF e = rf.e THEN rf.val ELSE heap[e].val
                           /\ heap'[e].err = heap[e].err /\ heap'[e].expire = heap[e].expire
      BY <1>0, <2>1 DEF Types, EntryRec
    <2> QED
      BY <1>1, <2>1, <2>2, <2>3 DEF EntriesEvolve, Evolves, NothingNew, FlagsFall, Inv, Expiry
  <1>6. CASE RefreshFetchFails
    <2> DEFINE h == [heap EXCEPT ![rf.e].err = IF @ # NoErr THEN Err ELSE @]
    <2>1. rf.e \in Entry
      BY <1>0, <1>6 DEF RefreshFetchFails, PassRec, Inv, Locals
    <2>2. \A e \in Entry : /\ h[e].val = heap[e].val /\ h[e].expire = heap[e].expire
                           /\ h[e].err = heap[e].err \/ (heap[e].err # NoErr /\ h[e].err = Err)
      BY <1>0, <2>1 DEF Types, EntryRec
    <2>3. Collect(h, used, safe) /\ data' = data /\ rf'.e = NoEntry
      BY <1>6 DEF RefreshFetchFails, IdlePass
    <2> HIDE DEF h
    <2>4. /\ NothingNew
          /\ \A e \in Entry : e \in Reachable /\ e \in Reachable' => heap'[e] = h[e]
          /\ safe' \subseteq safe \cap Reachable' /\ used' \subseteq Entry \cap Reachable'
          /\ used' \subseteq used
      BY <1>0, <1>1, <2>3, CollectingStep
    <2> QED
      BY <1>1, <2>2, <2>4, ValueAssumption DEF EntriesEvolve, Evolves, FlagsFall
  <1>7. CASE RefreshStoreErr
    <2> DEFINE h == [heap EXCEPT ![rf.e].err = NoErr]
    <2>1. rf.e \in Entry /\ rf.pc = "err"
      BY <1>0, <1>7 DEF RefreshStoreErr, PassRec, Inv, Locals
    <2>2. \A e \in Entry : /\ h[e].val = heap[e].val /\ h[e].expire = heap[e].expire
                           /\ h[e].err = IF e = rf.e THEN NoErr ELSE heap[e].err
      BY <1>0, <2>1 DEF Types, EntryRec
    <2>3. Collect(h, used, safe) /\ data' = data /\ rf'.e = NoEntry
      BY <1>7 DEF RefreshStoreErr, IdlePass
    <2> HIDE DEF h
    <2>4. /\ NothingNew
          /\ \A e \in Entry : e \in Reachable /\ e \in Reachable' => heap'[e] = h[e]
          /\ safe' \subseteq safe \cap Reachable' /\ used' \subseteq Entry \cap Reachable'
          /\ used' \subseteq used
      BY <1>0, <1>1, <2>3, CollectingStep
    <2> QED
      BY <1>1, <2>1, <2>2, <2>4 DEF EntriesEvolve, Evolves, FlagsFall
  <1> QED
    BY <1>1, <1>2, <1>3, <1>4, <1>5, <1>6, <1>7 DEF RefreshStep

(* An expire pass leaves values and errors alone; its effect on the flags   *)
(* is the matter of ExpireKeepsExpiry below. *)
LEMMA ExpireEffects ==
    ASSUME Inv, ExpireStep
    PROVE  /\ EntriesEvolve /\ NothingNew
           /\ UNCHANGED <<latest, cl, rf>>
           /\ \A e \in Entry : e \in Reachable /\ e \in Reachable' =>
                (heap'[e].expire => heap[e].expire \/ (ex.pc = "cas" /\ e = ex.e))
           /\ ex.pc \notin {"idle"} /\ ex'.pc # "idle" =>
                /\ safe' \subseteq safe \cap Reachable' /\ used' \subseteq used
  <1>0. /\ Types /\ ex \in PassRec /\ rf.e \in Reachable /\ ex.e \in Reachable
        /\ used \subseteq Entry
        /\ \A c \in Client : cl[c].e \in Reachable
        /\ \A k \in Key : data[k] \in Reachable
    BY InUse DEF Inv, Types, Expiry
  <1>1. UNCHANGED <<latest, cl, rf>>
    BY DEF ExpireStep, ExpireBegin, ExpireCas, ExpireDelete, ExpireEnd, ExpireVisit
  <1>2. ASSUME UNCHANGED <<data, heap>>, ex'.e \in Reachable \cup {NoEntry},
               ex.e # NoEntry => ex'.e = ex.e
        PROVE  /\ EntriesEvolve /\ NothingNew
               /\ \A e \in Entry : e \in Reachable /\ e \in Reachable' =>
                    (heap'[e].expire => heap[e].expire)
               /\ Entry \cap Reachable \subseteq Reachable'
    <2>1. Reachable' \subseteq Reachable \cup {NoEntry}
      BY <1>0, <1>1, <1>2, PointersAreCopied
    <2>2. Entry \cap Reachable \subseteq Reachable'
      BY <1>1, <1>2, EntryAssumption DEF Reachable
    <2> QED
      BY <1>2, <2>1, <2>2, EntryAssumption DEF EntriesEvolve, Evolves, NothingNew
  <1>3. CASE ExpireBegin
    <2>1. ex'.e = ex.e /\ UNCHANGED <<data, heap>> /\ ex.pc = "idle"
      BY <1>0, <1>3 DEF ExpireBegin, PassRec
    <2> QED
      BY <1>0, <1>1, <1>2, <2>1
  <1>4. CASE ExpireEnd
    <2>1. ex.e = NoEntry /\ ex'.e = NoEntry /\ UNCHANGED <<data, heap>> /\ ex'.pc = "idle"
      BY <1>4 DEF ExpireEnd, IdlePass, Inv, Locals
    <2> QED
      BY <1>0, <1>1, <1>2, <2>1
  <1>5. ASSUME NEW k \in Key, ExpireVisit(k)
        PROVE  /\ EntriesEvolve /\ NothingNew
               /\ \A e \in Entry : e \in Reachable /\ e \in Reachable' =>
                    (heap'[e].expire => heap[e].expire)
               /\ safe' \subseteq safe \cap Reachable' /\ used' \subseteq used
    <2>1. ex.e = NoEntry /\ ex'.e = data[k] /\ UNCHANGED <<data, heap, used, safe>>
      BY <1>0, <1>5 DEF ExpireVisit, PassRec, Inv, Locals
    <2> QED
      BY <1>0, <1>1, <1>2, <2>1 DEF Inv, Expiry
  <1>6. CASE ExpireCas
    <2> DEFINE h == [heap EXCEPT ![ex.e].expire = TRUE]
    <2>1. ex.e \in Entry /\ ex.pc = "cas"
      BY <1>0, <1>6 DEF ExpireCas, PassRec, Inv, Locals
    <2>2. \A e \in Entry : /\ h[e].val = heap[e].val /\ h[e].err = heap[e].err
                           /\ h[e].expire => heap[e].expire \/ e = ex.e
      BY <1>0, <2>1 DEF Types, EntryRec
    <2>3. Collect(h, used, safe) /\ data' = data /\ ex'.e = NoEntry
      BY <1>0, <1>6 DEF ExpireCas, PassRec
    <2> HIDE DEF h
    <2>4. /\ NothingNew
          /\ \A e \in Entry : e \in Reachable /\ e \in Reachable' => heap'[e] = h[e]
          /\ safe' \subseteq safe \cap Reachable' /\ used' \subseteq Entry \cap Reachable'
          /\ used' \subseteq used
      BY <1>0, <1>1, <2>3, CollectingStep
    <2> QED
      BY <1>1, <2>1, <2>2, <2>4 DEF EntriesEvolve, Evolves
  <1>7. CASE ExpireDelete
    <2>1. Collect(heap, used, safe) /\ ex'.e = ex.e
      BY <1>0, <1>7 DEF ExpireDelete, PassRec
    <2>2. \A k \in Key : data'[k] \in {data[k], NoEntry}
      BY <1>0, <1>7 DEF ExpireDelete, Types
    <2>3. /\ NothingNew
          /\ \A e \in Entry : e \in Reachable /\ e \in Reachable' => heap'[e] = heap[e]
          /\ safe' \subseteq safe \cap Reachable' /\ used' \subseteq Entry \cap Reachable'
          /\ used' \subseteq used
      BY <1>0, <1>1, <2>1, <2>2, CollectingStep
    <2> QED
      BY <1>1, <2>3 DEF EntriesEvolve, Evolves
  <1> QED
    BY <1>1, <1>3, <1>4, <1>5, <1>6, <1>7 DEF ExpireStep

(* The effects of every step. *)
Begins ==
    \/ \E c \in Client, k \in Key, op \in {"get", "getOrSet", "setDefault"} : Call(c, op, k)
    \/ \E c \in Client, K \in SUBSET Key : DeleteIf(c, K)
    \/ \E k \in Key : SourceChanges(k)
    \/ UNCHANGED vars

LEMMA Steps ==
    ASSUME Inv, [Next]_vars
    PROVE  (\E c \in Client : ClientStep(c)) \/ RefreshStep \/ ExpireStep \/ Begins
  <1>1. opt.clients \subseteq Client /\ opt.calls \ {"deleteIf"} \subseteq {"get", "getOrSet", "setDefault"}
    BY OptionAssumption DEF Inv, Types
  <1> QED
    BY <1>1 DEF Next, Begins

LEMMA Effects ==
    ASSUME Inv, [Next]_vars
    PROVE  /\ EntriesEvolve
           /\ NothingNew \/ (UNCHANGED <<latest, rf, ex>> /\ \E k \in Key : Stored(k))
  BY Steps, CallEffects, RefreshEffects, ExpireEffects, BeginEffects DEF Begins

(* The types and the locals after every step. *)
LEMMA LocalsStep ==
    ASSUME Inv, [Next]_vars
    PROVE  Types' /\ Locals' /\ Flights' /\ Results'
  <1>1. CASE UNCHANGED vars
    BY <1>1 DEF vars, Inv, Types, Locals, Holds, Flights, Results, HasResult
  <1> QED
    BY <1>1, Steps, CallTypes, PassTypes, CallLocals, PassLocals, CallsBegin, DeleteBegins, SourceStep
       DEF Begins

(* A GetOrSet that is about to return an entry's value keeps that entry;    *)
(* it begins to do so when it finds no error in it. *)
LEMMA GetOrSetKeepsEntry ==
    ASSUME Inv, [Next]_vars, NEW c \in Client,
           cl'[c].op = "getOrSet", cl'[c].pc \in {"touch", "val"}
    PROVE  cl'[c].e = cl[c].e /\ cl[c].e \in Entry /\ heap[cl[c].e].val # Nil
  <1>0. Types /\ Holds(c) /\ cl[c] \in CallRec /\ cl[c].e \in Entry \cup {NoEntry}
    BY DEF Inv, Types, Locals, CallRec
  <1>1. cl[c].e \in Entry => cl[c].e \in Entry \cap Reachable
    BY InUse
  <1>2. CASE cl'[c] = cl[c]
    BY <1>0, <1>2 DEF Inv, Memory, Holds, Holding
  <1> USE DEF CallPcs
  <1>3. ASSUME NEW d \in Client, ClientStep(d), cl'[c] # cl[c]
        PROVE  cl'[c].e = cl[c].e /\ cl[c].e \in Entry /\ heap[cl[c].e].val # Nil
    <2>0. /\ cl[d] \in CallRec /\ cl[d].val \in Value /\ cl[d].err \in Error
          /\ Nil \in Value /\ Default \in Value /\ NoErr \in Error
      BY DEF Inv, Types, CallRec, Value, Error
    <2>1. CASE GetOrSetReadErr(d)
      <3>1. c = d /\ cl'[c].e = cl[c].e /\ cl[c].pc = "err"
            /\ cl'[c].pc = IF heap[cl[c].e].err = NoErr THEN "touch" ELSE "replace"
        BY <1>0, <1>3, <2>1, Goes DEF GetOrSetReadErr
      <3>2. cl[c].e \in Entry /\ heap[cl[c].e].err = NoErr
        BY <1>0, <3>1 DEF Holds, Holding
      <3> QED
        BY <1>1, <3>1, <3>2 DEF Inv, Memory, Good
    <2>2. CASE CallTouch(d)
      <3>1. CASE cl[d].op = "setDefault"
        BY <1>0, <1>3, <2>0, <2>2, <3>1, Returns DEF CallTouch
      <3>2. CASE cl[d].op # "setDefault"
        <4>1. c = d /\ cl'[c].e = cl[c].e /\ cl[c].pc = "touch" /\ cl[c].op = "getOrSet"
          BY <1>0, <1>3, <2>2, <3>2, Goes DEF CallTouch
        <4> QED
          BY <1>0, <4>1 DEF Inv, Memory, Holds, Holding
      <3> QED
        BY <3>1, <3>2
    <2>3. CASE Load(d) \/ SetDefaultExists(d) \/ Fetch(d)
      BY <1>0, <1>3, <2>0, <2>3 DEF Load, SetDefaultExists, Fetch, Types, CallRec
    <2>4. CASE Do(d) \/ FlightStore(d)
      BY <1>0, <1>3, <2>4, Goes DEF Do, FlightStore
    <2>5. CASE GetOrSetReplace(d) \/ SetDefault(d)
      BY <1>0, <1>3, <2>0, <2>5, Returns DEF GetOrSetReplace, SetDefault
    <2>6. CASE FlightEnd(d)
      <3>1. CASE c = d
        BY <1>0, <2>6, <3>1 DEF FlightEnd, CallRec
      <3>2. CASE c # d /\ cl[c].pc = "wait" /\ cl[c].key = cl[d].key
        BY <1>0, <2>6, <3>2 DEF FlightEnd, CallRec
      <3>3. CASE c # d /\ ~(cl[c].pc = "wait" /\ cl[c].key = cl[d].key)
        BY <1>3, <2>6, <3>3 DEF FlightEnd
      <3> QED
        BY <3>1, <3>2, <3>3
    <2>7. CASE ReadVal(d)
      <3>1. Found(cl[d].e) \subseteq Value /\ NoErr \in Error
        BY <1>0, <2>7, FoundType, EntryAssumption
           DEF ReadVal, Inv, Locals, Holds, Holding, Types, CallRec, Error
      <3>2. CASE cl[d].op = "get"
        BY <1>0, <1>3, <2>0, <2>7, <3>2 DEF ReadVal, Types, CallRec
      <3>3. CASE cl[d].op # "get"
        <4>1. PICK v \in Found(cl[d].e) : Return(d, v, NoErr)
          BY <2>7, <3>3 DEF ReadVal
        <4> QED
          BY <1>0, <1>3, <2>0, <3>1, <4>1, Returns
      <3> QED
        BY <3>2, <3>3
    <2>8. CASE GetReadErr(d)
      <3>1. heap[cl[d].e].err \in Error
        BY <1>0, <2>8, EntryAssumption DEF GetReadErr, Inv, Locals, Holds, Holding, EntryRec, Types, CallRec
      <3> QED
        BY <1>0, <1>3, <2>0, <2>8, <3>1, Returns DEF GetReadErr
    <2>9. CASE DeleteOne(d)
      BY <1>0, <1>3, <2>0, <2>9 DEF DeleteOne, Types, CallRec
    <2> QED
      BY <1>3, <2>1, <2>2, <2>3, <2>4, <2>5, <2>6, <2>7, <2>8, <2>9 DEF ClientStep
  <1>4. ASSUME NEW d \in Client, NEW k \in Key, NEW op, Call(d, op, k)
        PROVE  cl'[c] = cl[c]
    BY <1>0, <1>4 DEF Call, Types, Idle
  <1>5. ASSUME NEW d \in Client, NEW K \in SUBSET Key, DeleteIf(d, K) PROVE cl'[c] = cl[c]
    BY <1>0, <1>5 DEF DeleteIf, Types, Idle
  <1>6. (RefreshStep \/ ExpireStep \/ (\E k \in Key : SourceChanges(k)) \/ UNCHANGED vars) => cl' = cl
    BY RefreshEffects, ExpireEffects DEF SourceChanges, vars
  <1> QED
    BY <1>2, <1>3, <1>4, <1>5, <1>6, Steps DEF Begins

(* The step in which refresh writes a value. *)
LEMMA RefreshMoves ==
    ASSUME Inv, [Next]_vars
    PROVE  \/ rf' = rf
           \/ rf'.pc \in {"idle", "range"}
           \/ /\ rf'.pc = "fetch" /\ UNCHANGED <<latest, heap, data, ex>>
              /\ rf'.key \in Key /\ rf'.e = data[rf'.key]
           \/ /\ rf.pc = "fetch" /\ rf'.pc = "val" /\ UNCHANGED <<latest, heap, data, ex>>
              /\ rf'.e = rf.e /\ rf'.key = rf.key /\ rf'.val = latest[rf.key]
           \/ /\ rf.pc = "val" /\ rf'.pc = "err" /\ UNCHANGED <<latest, data, ex>>
              /\ rf'.e = rf.e /\ rf'.key = rf.key /\ rf'.val = rf.val
              /\ heap'[rf.e].val = rf.val
  <1>0. rf \in PassRec /\ Types
    BY DEF Inv, Types
  <1>1. CASE RefreshStep
    <2>1. CASE RefreshBegin \/ RefreshEnd \/ RefreshStoreErr \/ RefreshFetchFails
      <3>1. CASE rf' = [rf EXCEPT !.pc = "range", !.todo = {k \in Key : data[k] # NoEntry}]
        BY <1>0, <3>1 DEF PassRec
      <3>2. CASE rf' = IdlePass
        BY <3>2 DEF IdlePass
      <3>3. CASE rf' = [IdlePass EXCEPT !.pc = "range", !.todo = rf.todo]
        BY <3>3 DEF IdlePass
      <3> QED
        BY <2>1, <3>1, <3>2, <3>3 DEF RefreshBegin, RefreshEnd, RefreshStoreErr, RefreshFetchFails
    <2>2. ASSUME NEW k \in Key, RefreshVisit(k)
          PROVE  \/ rf'.pc = "range"
                 \/ /\ rf'.pc = "fetch" /\ UNCHANGED <<latest, heap, data, ex>>
                    /\ rf'.key \in Key /\ rf'.e = data[rf'.key]
      BY <1>0, <2>2 DEF RefreshVisit, PassRec
    <2>3. CASE RefreshFetchOk
      BY <1>0, <2>3 DEF RefreshFetchOk, PassRec
    <2>4. CASE RefreshStoreVal
      <3>1. rf.e \in Entry
        BY <1>0, <2>4 DEF RefreshStoreVal, PassRec, Inv, Locals
      <3> QED
        BY <1>0, <2>4, <3>1 DEF RefreshStoreVal, PassRec, Types, EntryRec
    <2> QED
      BY <1>1, <2>1, <2>2, <2>3, <2>4 DEF RefreshStep
  <1>2. CASE (\E c \in Client : ClientStep(c)) \/ ExpireStep \/ Begins
    BY <1>2, CallEffects, ExpireEffects, BeginEffects DEF Begins
  <1> QED
    BY <1>1, <1>2, Steps

-----------------------------------------------------------------------------
(* Every step keeps Memory. *)
LEMMA MemoryStep ==
    ASSUME Inv, [Next]_vars PROVE Memory'
  <1>0. /\ EntriesEvolve /\ Fresh \in Entry /\ Fresh \notin Reachable
        /\ Types /\ Types' /\ Locals' /\ Memory
        /\ rf.pc = "val" => rf.val # Nil
    BY Effects, FreshIsFree, LocalsStep, ValueAssumption DEF Inv, Versions
  <1>1. ASSUME NEW e \in Entry, e \in Reachable, e \in Reachable', Good(e) PROVE Good(e)'
    BY <1>0, <1>1 DEF EntriesEvolve, Evolves, Good, Memory
  <1>2. \A e \in Entry \cap Reachable' : Good(e)'
    BY <1>0, <1>1, Effects DEF NothingNew, Stored, Good, Memory
  <1>3. ASSUME rf'.pc = "err" PROVE heap'[rf'.e].val # Nil
    <2>1. rf'.e \in Entry /\ rf'.e \in Reachable'
      BY <1>0, <1>3, InUse DEF Locals, Types, PassRec, Reachable
    <2>2. CASE rf' = rf
      BY <1>0, <1>3, <2>1, <2>2, InUse DEF EntriesEvolve, Evolves, Memory
    <2> QED
      BY <1>0, <1>3, <2>2, RefreshMoves
  <1>4. ASSUME NEW c \in Client, cl'[c].op = "getOrSet", cl'[c].pc \in {"touch", "val"}
        PROVE  heap'[cl'[c].e].val # Nil
    <2>1. cl'[c].e = cl[c].e /\ cl[c].e \in Entry /\ heap[cl[c].e].val # Nil
      BY <1>4, GetOrSetKeepsEntry
    <2>2. cl[c].e \in Reachable /\ cl[c].e \in Reachable'
      BY <2>1 DEF Reachable
    <2> QED
      BY <1>0, <2>1, <2>2 DEF EntriesEvolve, Evolves
  <1> QED
    BY <1>2, <1>3, <1>4 DEF Memory

(* A key that keeps its entry keeps a value no older, and no error comes.   *)
LEMMA KeptEntry ==
    ASSUME Inv, [Next]_vars, NEW k \in Key, data'[k] = data[k], data[k] # NoEntry
    PROVE  /\ data[k] \in Entry /\ data[k] \in Reachable /\ data[k] \in Reachable'
           /\ Evolves(data[k])
  <1>1. data[k] \in Entry /\ data[k] \in Reachable /\ data[k] \in Reachable'
    BY DEF Inv, Types, Reachable
  <1> QED
    BY <1>1, Effects DEF EntriesEvolve

(* No step takes a source back. *)
LEMMA SourceGrows ==
    ASSUME Inv, [Next]_vars, NEW k \in Key
    PROVE  latest[k] \in Int /\ latest'[k] \in Int /\ latest[k] <= latest'[k]
  <1>1. latest[k] \in Int /\ latest'[k] \in Int
    BY LocalsStep, OptionAssumption DEF Inv, Types, Version
  <1>2. ASSUME NEW j \in Key, SourceChanges(j) PROVE latest[k] <= latest'[k]
    BY <1>1, <1>2 DEF SourceChanges, Inv, Types
  <1>3. ((\E c \in Client : ClientStep(c)) \/ RefreshStep \/ ExpireStep
          \/ (\E c \in Client, j \in Key, op \in {"get", "getOrSet", "setDefault"} : Call(c, op, j))
          \/ (\E c \in Client, K \in SUBSET Key : DeleteIf(c, K)) \/ UNCHANGED vars)
        => latest' = latest
    BY CallEffects, RefreshEffects, ExpireEffects DEF Call, DeleteIf, vars
  <1> QED
    BY <1>1, <1>2, <1>3, Steps DEF Begins

(* Every step keeps Versions. *)
LEMMA VersionsStep ==
    ASSUME Inv, [Next]_vars PROVE Versions'
  <1>0. /\ EntriesEvolve /\ Fresh \in Entry /\ Fresh \notin Reachable
        /\ Types /\ Types' /\ Locals /\ Locals' /\ Versions
        /\ rf.e \in Reachable /\ ex.e \in Reachable /\ NoEntry \notin Entry
        /\ \A k \in Key : data[k] \in Reachable
    BY Effects, FreshIsFree, LocalsStep, InUse, EntryAssumption DEF Inv
  <1>1. ASSUME NEW k \in Key
        PROVE  data'[k] = data[k] \/ data'[k] = NoEntry
                 \/ (Stored(k) /\ data'[k] = Fresh /\ UNCHANGED <<latest, rf, ex>>)
    BY <1>0, Effects DEF NothingNew, Stored, Types
  <1>2. ASSUME NEW k \in Key, data'[k] # NoEntry PROVE OlderThan(data[k], latest[k])' \/ data'[k] = Fresh
    <2> SUFFICES ASSUME data'[k] = data[k] PROVE OlderThan(data[k], latest[k])'
      BY <1>1, <1>2
    <2>1. Evolves(data[k]) /\ OlderThan(data[k], latest[k])
      BY <1>0, <1>2, KeptEntry DEF Versions
    <2>2. rf.pc = "val" /\ data[k] = rf.e => k = rf.key /\ rf.val <= latest[k] /\ rf.val \in Int
      BY <1>0, <1>2, OptionAssumption DEF Versions, Version
    <2>3. latest[k] \in Int /\ latest'[k] \in Int /\ latest[k] <= latest'[k] /\ Version \subseteq Int
      BY SourceGrows, OptionAssumption DEF Version
    <2> HIDE DEF Version
    <2> DEFINE v == heap[data[k]].val
               w == heap'[data[k]].val
    <2>4. w \in Version => w <= latest'[k]
      <3>1. w = v \/ (rf.pc = "val" /\ data[k] = rf.e /\ w = rf.val)
        BY <2>1 DEF Evolves
      <3>2. v \in Version => v <= latest[k]
        BY <2>1 DEF OlderThan
      <3> HIDE DEF v, w
      <3>3. CASE w = v
        <4>1. w \in Version => w \in Int /\ w <= latest[k]
          BY <2>3, <3>2, <3>3
        <4> QED
          BY <2>3, <4>1
      <3>4. CASE rf.pc = "val" /\ data[k] = rf.e /\ w = rf.val
        BY <2>2, <2>3, <3>4
      <3> QED
        BY <3>1, <3>3, <3>4
    <2> QED
      BY <2>4 DEF OlderThan
  <1>3. \A k \in Key : data'[k] # NoEntry => OlderThan(data[k], latest[k])'
    BY <1>0, <1>1, <1>2 DEF Stored, OlderThan
  <1>4. \A k, j \in Key : data'[k] = data'[j] /\ data'[k] # NoEntry => k = j
    <2> SUFFICES ASSUME NEW k \in Key, NEW j \in Key, data'[k] = data'[j], data'[k] # NoEntry
                 PROVE  k = j
      OBVIOUS
    <2>1. CASE Stored(k) /\ data'[k] = Fresh
      BY <1>0, <1>1, <2>1 DEF Stored, Types
    <2>2. CASE Stored(j) /\ data'[j] = Fresh
      BY <1>0, <1>1, <2>2 DEF Stored, Types
    <2> QED
      BY <1>0, <1>1, <2>1, <2>2 DEF Versions
  <1>5. \A k \in Key : data'[k] = rf'.e /\ rf'.e # NoEntry => k = rf'.key
    <2> SUFFICES ASSUME NEW k \in Key, data'[k] = rf'.e, rf'.e # NoEntry PROVE k = rf'.key
      OBVIOUS
    <2>1. rf'.pc \in {"fetch", "val", "err"}
      BY <1>0 DEF Locals
    <2>2. CASE rf'.e = rf.e /\ rf'.key = rf.key
      BY <1>0, <1>1, <2>2 DEF Versions
    <2>3. CASE rf'.key \in Key /\ rf'.e = data[rf'.key] /\ data' = data
      BY <1>0, <2>3 DEF Versions
    <2> QED
      BY <2>1, <2>2, <2>3, RefreshMoves
  <1>6. \A k \in Key : data'[k] = ex'.e /\ ex'.e # NoEntry => k = ex'.key
    <2> SUFFICES ASSUME NEW k \in Key, data'[k] = ex'.e, ex'.e # NoEntry PROVE k = ex'.key
      OBVIOUS
    <2>1. CASE ex' = ex
      BY <1>0, <1>1, <2>1 DEF Versions
    <2>2. CASE ExpireStep
      <3>1. ex'.pc = "cas"
        BY <1>0 DEF Locals
      <3>2. ASSUME NEW j \in Key, ExpireVisit(j)
            PROVE  ex'.e = data[j] /\ ex'.key = j /\ data' = data
        BY <1>0, <3>2 DEF ExpireVisit, Types, PassRec
      <3>3. CASE ExpireBegin \/ ExpireEnd \/ ExpireCas \/ ExpireDelete
        <4>1. CASE ExpireEnd
          BY <3>1, <4>1 DEF ExpireEnd, IdlePass
        <4>2. CASE ExpireBegin \/ ExpireDelete
          BY <1>0, <3>1, <4>2 DEF ExpireBegin, ExpireDelete, Types, PassRec
        <4>3. CASE ExpireCas
          BY <1>0, <3>1, <4>3 DEF ExpireCas, Types, PassRec
        <4> QED
          BY <3>3, <4>1, <4>2, <4>3
      <3> QED
        BY <1>0, <2>2, <3>2, <3>3 DEF ExpireStep, Versions
    <2> QED
      BY <2>1, <2>2, Steps, CallEffects, RefreshEffects, BeginEffects DEF Begins
  <1>7. /\ rf'.pc = "fetch" => OlderThan(rf.e, latest[rf.key])'
        /\ rf'.pc = "val" => OlderThan(rf.e, rf.val)'
        /\ rf'.pc \in {"val", "err"} => rf'.val \in Version /\ rf'.val <= latest'[rf'.key]
    <2> SUFFICES ASSUME rf'.pc \in {"fetch", "val", "err"}
                 PROVE  /\ rf'.pc = "fetch" => OlderThan(rf.e, latest[rf.key])'
                        /\ rf'.pc = "val" => OlderThan(rf.e, rf.val)'
                        /\ rf'.pc \in {"val", "err"} => rf'.val \in Version /\ rf'.val <= latest'[rf'.key]
      OBVIOUS
    <2>1. rf'.e \in Entry /\ rf'.e \in Reachable' /\ rf'.key \in Key
      BY <1>0 DEF Locals, Types, PassRec, Reachable
    <2>2. /\ latest[rf'.key] \in Version /\ latest[rf'.key] \in Int /\ latest'[rf'.key] \in Int
          /\ latest[rf'.key] <= latest'[rf'.key] /\ Version \subseteq Int
      BY <1>0, <2>1, SourceGrows, OptionAssumption DEF Version, Types
    <2> HIDE DEF Version
    <2>3. CASE rf' = rf
      <3> DEFINE v == heap[rf.e].val
                 w == heap'[rf.e].val
      <3>1. w = v \/ (rf.pc = "val" /\ w = rf.val)
        BY <1>0, <2>1, <2>3 DEF EntriesEvolve, Evolves
      <3>2. /\ rf.pc = "fetch" => (v \in Version => v <= latest[rf.key])
            /\ rf.pc = "val" => (v \in Version => v <= rf.val)
            /\ rf.pc \in {"val", "err"} => rf.val \in Version /\ rf.val <= latest[rf.key]
        BY <1>0 DEF Versions, OlderThan
      <3> HIDE DEF v, w
      <3>3. CASE rf.pc = "fetch"
        <4>1. w \in Version => w <= latest'[rf.key]
          BY <2>2, <2>3, <3>1, <3>2, <3>3
        <4> QED
          BY <2>3, <3>3, <4>1 DEF OlderThan, w
      <3>4. CASE rf.pc \in {"val", "err"}
        <4>1. rf.val \in Version /\ rf.val <= latest'[rf.key]
          <5>1. rf.val \in Version /\ rf.val <= latest[rf.key]
            BY <3>2, <3>4
          <5>2. /\ latest[rf.key] \in Int /\ latest'[rf.key] \in Int /\ rf.val \in Int
                /\ latest[rf.key] <= latest'[rf.key]
            BY <2>2, <2>3, <5>1
          <5> QED
            BY <5>1, <5>2
        <4>2. rf.pc = "val" => (w \in Version => w <= rf.val)
          BY <2>2, <3>1, <3>2, <4>1
        <4> QED
          BY <2>3, <3>4, <4>1, <4>2 DEF OlderThan, w
      <3> QED
        BY <2>3, <3>3, <3>4
    <2>4. CASE rf'.pc = "fetch" /\ UNCHANGED <<latest, heap, data, ex>>
               /\ rf'.key \in Key /\ rf'.e = data[rf'.key]
      BY <1>0, <2>1, <2>4 DEF Versions, OlderThan
    <2>5. CASE rf.pc = "fetch" /\ rf'.pc = "val" /\ UNCHANGED <<latest, heap, data, ex>>
               /\ rf'.e = rf.e /\ rf'.key = rf.key /\ rf'.val = latest[rf.key]
      BY <1>0, <2>2, <2>5 DEF Versions, OlderThan
    <2>6. CASE rf.pc = "val" /\ rf'.pc = "err" /\ UNCHANGED <<latest, data, ex>>
               /\ rf'.key = rf.key /\ rf'.val = rf.val
      BY <1>0, <2>6 DEF Versions
    <2> QED
      BY <2>3, <2>4, <2>5, <2>6, RefreshMoves
  <1> QED
    BY <1>3, <1>4, <1>5, <1>6, <1>7 DEF Versions

(* Steps of calls and of refresh keep Expiry: no flag is set. *)
LEMMA OthersKeepExpiry ==
    ASSUME Inv, [Next]_vars, FlagsFall, ex' = ex PROVE Expiry'
  <1>0. /\ Fresh \notin Reachable /\ Types /\ Types' /\ Locals /\ Expiry /\ NoEntry \notin Entry
        /\ ex.e \in Entry \cup {NoEntry} /\ ex.todo \in SUBSET Key
    BY FreshIsFree, EntryAssumption, LocalsStep DEF Inv, Types, PassRec
  <1>1. safe' \subseteq safe /\ safe' \subseteq Entry \cap Reachable' /\ safe' \subseteq Reachable
    BY <1>0 DEF FlagsFall, Expiry
  <1>2. \A e \in Entry : e \in Reachable /\ e \in Reachable' => (heap'[e].expire => heap[e].expire)
    BY DEF FlagsFall
  <1>3. ASSUME NEW k \in Key, data'[k] \in safe' PROVE data'[k] = data[k]
    BY <1>0, <1>1, <1>3, Effects DEF NothingNew, Stored, Types
  <1>4. /\ used' \subseteq Entry \cap Reachable'
        /\ ex.pc = "idle" => safe' = {} /\ \A e \in used' : ~heap'[e].expire
        /\ ex.pc # "idle" => used' = {}
    BY <1>0, <1>1, <1>2 DEF FlagsFall, Expiry
  <1>5. \A k \in ex.todo : data'[k] \in safe' => ~heap'[data'[k]].expire
    BY <1>0, <1>1, <1>2, <1>3 DEF Expiry
  <1>6. ex.pc = "cas" => /\ ex.e \in safe' => ~heap'[ex.e].expire
                         /\ data'[ex.key] = ex.e \/ data'[ex.key] \notin safe'
    BY <1>0, <1>1, <1>2, <1>3 DEF Expiry, Locals
  <1>7. ex.pc = "delete" => data'[ex.key] \notin safe'
    BY <1>0, <1>1, <1>3 DEF Expiry, Locals
  <1> QED
    BY <1>0, <1>1, <1>4, <1>5, <1>6, <1>7 DEF Expiry

LEMMA ExpireKeepsExpiry ==
    ASSUME Inv, [Next]_vars, ExpireStep PROVE Expiry'
  <1>0. /\ Types /\ Types' /\ Locals /\ Locals' /\ Expiry /\ Versions /\ NoEntry \notin Entry
        /\ ex \in PassRec /\ ex.todo \in SUBSET Key
    BY EntryAssumption, LocalsStep DEF Inv, Types, PassRec
  <1>1. CASE ExpireBegin
    <2>1. /\ ex.pc = "idle" /\ ex'.pc = "range" /\ safe' = used /\ used' = {} /\ heap' = heap /\ data' = data
          /\ ex'.todo \subseteq Key /\ ex'.e = ex.e
      BY <1>0, <1>1 DEF ExpireBegin, PassRec
    <2>2. Reachable' = Reachable
      BY <1>1, <2>1, ExpireEffects DEF Reachable
    <2> QED
      BY <1>0, <2>1, <2>2 DEF Expiry
  <1>2. CASE ExpireEnd
    <2>1. ex' = IdlePass /\ used' = {} /\ safe' = {}
      BY <1>2 DEF ExpireEnd
    <2> QED
      BY <2>1 DEF Expiry, IdlePass
  <1>3. ASSUME NEW k \in Key, ExpireVisit(k) PROVE Expiry'
    <2>1. /\ ex.pc = "range" /\ k \in ex.todo /\ UNCHANGED <<data, heap, cl, rf, used, safe>>
          /\ ex'.todo = ex.todo \ {k} /\ ex'.key = k /\ ex'.e = data[k]
          /\ ex'.pc \in {"range", "cas"}
      BY <1>0, <1>3 DEF ExpireVisit, PassRec
    <2>2. Entry \cap Reachable \subseteq Reachable'
      BY <1>0, <2>1 DEF Reachable, Locals
    <2> QED
      BY <1>0, <2>1, <2>2 DEF Expiry
  <1>4. CASE ExpireCas
    <2>1. /\ ex.pc = "cas" /\ ex.e \in Entry /\ ex'.e = NoEntry /\ ex'.key = ex.key /\ ex'.todo = ex.todo
          /\ ex'.pc = (IF heap[ex.e].expire THEN "delete" ELSE "range") /\ data' = data
          /\ ex.key \in Key /\ ex.key \notin ex.todo
          /\ safe' \subseteq safe \cap Reachable' /\ used' \subseteq used
      BY <1>0, <1>4, ExpireEffects DEF ExpireCas, PassRec, Locals, Expiry
    <2>2. safe' \subseteq Entry \cap Reachable' /\ used' = {}
      BY <1>0, <2>1 DEF Expiry
    <2>3. ASSUME NEW k \in ex.todo, data[k] \in safe' PROVE ~heap'[data[k]].expire
      <3>1. data[k] # ex.e /\ ~heap[data[k]].expire
        BY <1>0, <2>1, <2>3 DEF Versions, Expiry
      <3>2. data[k] \in Entry /\ data[k] \in Reachable /\ data[k] \in Reachable'
        BY <1>0, <2>1, <2>3 DEF Expiry
      <3> QED
        BY <3>1, <3>2, ExpireEffects
    <2>4. ex'.pc = "delete" => data'[ex.key] \notin safe'
      BY <1>0, <2>1 DEF Expiry
    <2> QED
      BY <2>1, <2>2, <2>3, <2>4 DEF Expiry
  <1>5. CASE ExpireDelete
    <2>1. /\ ex.pc = "delete" /\ ex'.e = ex.e /\ ex'.key = ex.key /\ ex'.todo = ex.todo
          /\ ex'.pc = "range" /\ data' = [data EXCEPT ![ex.key] = NoEntry] /\ ex.key \in Key
          /\ safe' \subseteq safe \cap Reachable' /\ used' \subseteq used
      BY <1>0, <1>5, ExpireEffects DEF ExpireDelete, PassRec, Locals
    <2>2. safe' \subseteq Entry \cap Reachable' /\ used' = {}
      BY <1>0, <2>1 DEF Expiry
    <2>3. ASSUME NEW k \in ex.todo, data'[k] \in safe' PROVE ~heap'[data'[k]].expire
      <3>1. data'[k] = data[k] /\ ~heap[data[k]].expire
        BY <1>0, <2>1, <2>2, <2>3 DEF Types, Expiry
      <3>2. data[k] \in Entry /\ data[k] \in Reachable /\ data[k] \in Reachable'
        BY <1>0, <2>1, <2>3, <3>1 DEF Expiry
      <3> QED
        BY <2>1, <3>1, <3>2, ExpireEffects
    <2> QED
      BY <2>1, <2>2, <2>3 DEF Expiry
  <1> QED
    BY <1>1, <1>2, <1>3, <1>4, <1>5 DEF ExpireStep

LEMMA ExpiryStep ==
    ASSUME Inv, [Next]_vars PROVE Expiry'
  BY Steps, CallEffects, RefreshEffects, BeginEffects, OthersKeepExpiry, ExpireKeepsExpiry DEF Begins

(* The inductive invariant holds of every behaviour. *)
LEMMA CacheInvariant == Spec => []Inv
  <1>1. Inv /\ [Next]_vars => Inv'
    BY LocalsStep, MemoryStep, VersionsStep, ExpiryStep DEF Inv
  <1> QED
    BY <1>1, InitInv, PTL DEF Spec

(* Memory and results, at every point of every interleaving of any number   *)
(* of clients with the two passes: types, no cached entry without an error  *)
(* and a value, and no GetOrSet of an entry or a fetch that returns nil.    *)
THEOREM CacheIsSound == Spec => []CacheInv
  <1>1. Inv => CacheInv
    <2> SUFFICES ASSUME Inv PROVE CacheInv
      OBVIOUS
    <2>1. TypeOK
      BY EntryAssumption
         DEF Inv, Types, Locals, Holds, Holding, Flights, Leading, Expiry, CallRec, TypeOK
    <2>2. NoErrHasValue
      BY InUse DEF Inv, Types, Memory, Good, NoErrHasValue
    <2>3. OwnGetOrSetHasValue
      BY DEF Inv, Results, HasResult, OwnGetOrSetHasValue
    <2> QED
      BY <2>1, <2>2, <2>3 DEF CacheInv
  <1> QED
    BY <1>1, CacheInvariant, PTL

(* A failing fetch never costs a key its value, and refresh never takes it  *)
(* back to an older version. *)
THEOREM ValuesAreKept == Spec => KeepsGoodValue
  <1>1. ASSUME Inv, [Next]_vars, NEW k \in Key,
               data[k] # NoEntry, data'[k] = data[k], heap[data[k]].err = NoErr
        PROVE  /\ heap'[data[k]].err = NoErr
               /\ heap[data[k]].val \in Version =>
                    heap'[data[k]].val \in Version /\ heap'[data[k]].val >= heap[data[k]].val
    <2>1. Evolves(data[k])
      BY <1>1, KeptEntry
    <2>2. heap'[data[k]].err = NoErr
      BY <1>1, <2>1 DEF Evolves
    <2>3. rf.pc = "val" => OlderThan(rf.e, rf.val) /\ rf.val \in Version
      BY <1>1 DEF Inv, Versions
    <2>4. Version \subseteq Int
      BY OptionAssumption DEF Version
    <2> DEFINE v == heap[data[k]].val
               w == heap'[data[k]].val
    <2>5. w = v \/ (rf.pc = "val" /\ data[k] = rf.e /\ w = rf.val)
      BY <2>1 DEF Evolves
    <2>6. rf.pc = "val" /\ data[k] = rf.e /\ v \in Version => v <= rf.val
      BY <2>3 DEF OlderThan
    <2> HIDE DEF v, w, Version
    <2>7. v \in Version => w \in Version /\ w >= v
      BY <2>3, <2>4, <2>5, <2>6
    <2> QED
      BY <2>2, <2>7 DEF v, w
  <1>2. Inv /\ [Next]_vars =>
          [\A k \in Key :
             LET e == data[k] IN
             e # NoEntry /\ data'[k] = e /\ heap[e].err = NoErr =>
                /\ heap'[e].err = NoErr
                /\ heap[e].val \in Version =>
                     heap'[e].val \in Version /\ heap'[e].val >= heap[e].val]_vars
    BY <1>1
  <1> QED
    BY <1>2, CacheInvariant, PTL DEF Spec, KeepsGoodValue

(* expire removes no entry that was used since the last pass ended.         *)
THEOREM UsedAreNotExpired == Spec => ExpiresOnlyIdle
  <1>1. Inv /\ [Next]_vars => [ExpireDelete => data[ex.key] \notin safe]_vars
    BY DEF Inv, Expiry, ExpireDelete
  <1> QED
    BY <1>1, CacheInvariant, PTL DEF Spec, ExpiresOnlyIdle
=============================================================================
