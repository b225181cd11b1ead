----------------------------- MODULE AsyncCache -----------------------------
(***************************************************************************)
(* One asyncCache of asynccache/asynccache.go: the map of entries, the     *)
(* calls of its clients, the refresh pass and the expire pass, each taken  *)
(* apart into the atomic operations of the code (sync.Map, atomic.Value,   *)
(* atomic int32, singleflight), so that they interleave as they do in the  *)
(* program.                                                                *)
(*                                                                         *)
(* The passes are started by two goroutines of two shared tickers, which   *)
(* SharedTicker.tla models: at most one refresh pass and at most one       *)
(* expire pass work on a cache at a time.                                  *)
(*                                                                         *)
(* The Fetcher is the caller's code.  It reads a source whose value has a  *)
(* version that only grows, and it may fail, in which case its value is    *)
(* nil.  A version may be nil as well.  ChangeHandler, ErrorHandler and    *)
(* DeleteHandler run in goroutines of their own and touch nothing of the   *)
(* cache; they are left out.                                               *)
(***************************************************************************)
EXTENDS Integers, FiniteSets

CONSTANTS
    Key, Client,
    Entry,        \* addresses of entries, enough of them that memory does not run out
    Setups,       \* caches examined: opt.EnableExpire, the clients and their calls
    MaxVersion,   \* bound on the changes of the source
    NilVersions,  \* its versions that are nil: the Fetcher returns (nil, nil)
    NoEntry, Nobody,
    Nil, Default, \* values that are not versions: none at all, a caller's default,
    Torn,         \* and half of a value, its type without its data
    NoErr, Err

(* One more address than there are variables that can hold one. *)
ASSUME EntryAssumption ==
    /\ IsFiniteSet(Key) /\ IsFiniteSet(Client) /\ IsFiniteSet(Entry)
    /\ NoEntry \notin Entry
    /\ Cardinality(Entry) > Cardinality(Key) + Cardinality(Client) + 2
ASSUME OptionAssumption ==
    /\ MaxVersion \in Nat \ {0}
    /\ Setups \subseteq [expire : BOOLEAN, clients : SUBSET Client,
                         calls : SUBSET {"get", "getOrSet", "setDefault", "deleteIf"}]

VARIABLES
    opt,      \* the cache and its users, one of Setups
    data,     \* c.data: the entry of each key, or NoEntry
    heap,     \* the fields of each entry
    latest,   \* version of each key at the source
    flight,   \* c.sfg: the client that runs the fetch of a key, or Nobody
    cl,       \* locals of the call each client is in
    rf,       \* locals of the refresh pass
    ex,       \* locals of the expire pass
    used,     \* history: entries touched or stored since the last expire pass ended
    safe      \* history: what used was when the current expire pass began

vars == <<opt, data, heap, latest, flight, cl, rf, ex, used, safe>>

Version == 1..MaxVersion
Value   == Version \cup {Nil, Default, Torn}
Error   == {NoErr, Err}

ASSUME ValueAssumption ==
    /\ Nil \notin Version /\ Default \notin Version /\ Torn \notin Version
    /\ Nil # Default /\ Torn # Nil /\ Torn # Default /\ NoErr # Err
    /\ NilVersions \subseteq Version

(* type entry struct: expire is TRUE when the field is 1, "will expire".    *)
(* Where nil was stored over a value in use, was is that value.             *)
EntryRec == [val : Value, was : Value, err : Error, expire : BOOLEAN]

Blank == [val |-> Nil, was |-> Nil, err |-> NoErr, expire |-> FALSE]

Idle == [pc |-> "idle", op |-> "none", key |-> Nil, e |-> NoEntry,
         val |-> Nil, err |-> NoErr, joined |-> FALSE, todo |-> {}]

IdlePass == [pc |-> "idle", key |-> Nil, e |-> NoEntry,
             val |-> Nil, err |-> NoErr, todo |-> {}]

Init ==
    /\ opt \in Setups
    /\ data = [k \in Key |-> NoEntry]
    /\ heap = [e \in Entry |-> Blank]
    /\ latest = [k \in Key |-> 1]
    /\ flight = [k \in Key |-> Nobody]
    /\ cl = [c \in Client |-> Idle]
    /\ rf = IdlePass
    /\ ex = IdlePass
    /\ used = {}
    /\ safe = {}

-----------------------------------------------------------------------------
(* Entries *)

(* An address is in use while the map or a goroutine holds it; the rest is  *)
(* garbage and may be allocated again.                                      *)
Reachable ==
    {data[k] : k \in Key} \cup {cl[c].e : c \in Client} \cup {rf.e, ex.e}

Fresh == CHOOSE e \in Entry : e \notin Reachable

(* The end of a step that may drop a pointer: the entries become h and the  *)
(* histories u and s, except that garbage is forgotten.                     *)
Collect(h, u, s) ==
    /\ heap' = [e \in Entry |-> IF e \in Reachable' THEN h[e] ELSE Blank]
    /\ used' = u \cap Reachable'
    /\ safe' = s \cap Reachable'

(* Touches made while no expire pass runs protect the entry from the next.  *)
WithUse(e) == IF opt.expire /\ ex.pc = "idle" THEN used \cup {e} ELSE used

(* ety := &entry{}; ety.Store(v, err).  Nobody else has a pointer to the    *)
(* new entry, so its two stores need no steps. *)
WithEntry(v, err) ==
    [heap EXCEPT ![Fresh] = [val |-> v, was |-> Nil, err |-> err, expire |-> FALSE]]

(* c.data.Store(key, ety) *)
StoreEntry(k) == data' = [data EXCEPT ![k] = Fresh]

(* Mutant of Touch. *)
TouchNothing(e) == heap

(* (e *entry) Touch *)
Touch(e) == [heap EXCEPT ![e].expire = FALSE]

-----------------------------------------------------------------------------
(* The calls of the clients.  A call ends with its results in val and err   *)
(* and pc = "done". *)

Goto(c, pc) == cl' = [cl EXCEPT ![c].pc = pc]

(* The entry pointer is dropped when the call returns. *)
Return(c, v, err) ==
    cl' = [cl EXCEPT ![c].pc = "done", ![c].e = NoEntry, ![c].val = v, ![c].err = err]

Call(c, op, k) ==
    /\ cl[c].pc \in {"idle", "done"}
    /\ cl' = [cl EXCEPT ![c] = [Idle EXCEPT !.pc = "load", !.op = op, !.key = k]]
    /\ UNCHANGED <<opt, data, heap, latest, flight, rf, ex, used, safe>>

(* c.data.Load(key): a hit goes on with the entry, a miss calls sfg.Do.     *)
Load(c) ==
    /\ cl[c].pc = "load" /\ cl[c].op \in {"get", "getOrSet"}
    /\ LET e == data[cl[c].key] IN
       cl' = [cl EXCEPT ![c].e = e,
                        ![c].pc = IF e = NoEntry THEN "do"
                                  ELSE IF cl[c].op = "get" THEN "touch" ELSE "err"]
    /\ UNCHANGED <<opt, data, heap, latest, flight, rf, ex, used, safe>>

(* Get and GetOrSet on a hit, SetDefault on an existing key: e.Touch().     *)
CallTouch(c) ==
    /\ cl[c].pc = "touch"
    /\ IF cl[c].op = "setDefault"
       THEN Return(c, Nil, NoErr)
       ELSE Goto(c, "val")
    /\ UNCHANGED <<opt, data, latest, flight, rf, ex>>
    /\ Collect(Touch(cl[c].e), WithUse(cl[c].e), safe)

(* Storing nil over a value, e.val = atomic.Value{}, is no atomic store:    *)
(* readers may find what was there or half of it, and nothing ends that but *)
(* the next value that is not nil.                                          *)
Found(e) == {heap[e].val} \cup (IF heap[e].was = Nil THEN {} ELSE {heap[e].was, Torn})

(* e.val.Load(): Get reads the error afterwards, GetOrSet has read it.      *)
ReadVal(c) ==
    /\ cl[c].pc = "val"
    /\ \E v \in Found(cl[c].e) :
       IF cl[c].op = "get"
       THEN cl' = [cl EXCEPT ![c].val = v, ![c].pc = "err"]
       ELSE Return(c, v, NoErr)
    /\ UNCHANGED <<opt, data, latest, flight, rf, ex>>
    /\ Collect(heap, used, safe)

(* The second operand of Get's return statement. *)
GetReadErr(c) ==
    /\ cl[c].pc = "err" /\ cl[c].op = "get"
    /\ Return(c, cl[c].val, heap[cl[c].e].err)
    /\ UNCHANGED <<opt, data, latest, flight, rf, ex>>
    /\ Collect(heap, used, safe)

(* GetOrSet: if e.err.Load() != nil, the default replaces the entry.        *)
GetOrSetReadErr(c) ==
    /\ cl[c].pc = "err" /\ cl[c].op = "getOrSet"
    /\ Goto(c, IF heap[cl[c].e].err = NoErr THEN "touch" ELSE "replace")
    /\ UNCHANGED <<opt, data, heap, latest, flight, rf, ex, used, safe>>

GetOrSetReplace(c) ==
    /\ cl[c].pc = "replace"
    /\ StoreEntry(cl[c].key)
    /\ Return(c, Default, NoErr)
    /\ UNCHANGED <<opt, latest, flight, rf, ex>>
    /\ Collect(WithEntry(Default, NoErr), WithUse(Fresh), safe)

(* sfg.Do: run the function, or wait for the client that runs it.  Get and  *)
(* GetOrSet use one group. *)
Do(c) ==
    /\ cl[c].pc = "do"
    /\ LET k == cl[c].key IN
       IF flight[k] = Nobody
       THEN /\ flight' = [flight EXCEPT ![k] = c]
            /\ Goto(c, "fetch")
       ELSE /\ Goto(c, "wait")
            /\ UNCHANGED flight
    /\ UNCHANGED <<opt, data, heap, latest, rf, ex, used, safe>>

(* c.opt.Fetcher(key) in the flight; GetOrSet puts its default in place of  *)
(* a failure. *)
Fetch(c) ==
    /\ cl[c].pc = "fetch"
    /\ \/ cl' = [cl EXCEPT ![c].pc = "store", ![c].val = latest[cl[c].key], ![c].err = NoErr]
       \/ cl' = [cl EXCEPT ![c].pc = "store",
                           ![c].val = IF cl[c].op = "get" THEN Nil ELSE Default,
                           ![c].err = IF cl[c].op = "get" THEN Err ELSE NoErr]
    /\ UNCHANGED <<opt, data, heap, latest, flight, rf, ex, used, safe>>

FlightStore(c) ==
    /\ cl[c].pc = "store"
    /\ StoreEntry(cl[c].key)
    /\ Goto(c, "finish")
    /\ UNCHANGED <<opt, latest, flight, rf, ex>>
    /\ Collect(WithEntry(cl[c].val, cl[c].err), WithUse(Fresh), safe)

(* Mutant of FlightEnd. *)
FlightEndWakesNobody(c) ==
    /\ cl[c].pc = "finish"
    /\ flight' = [flight EXCEPT ![cl[c].key] = Nobody]
    /\ cl' = [cl EXCEPT ![c].pc = "done"]
    /\ UNCHANGED <<opt, data, heap, latest, rf, ex, used, safe>>

(* Do returns: the leader and everyone who waited get the leader's results. *)
(* GetOrSet drops the error. *)
FlightEnd(c) ==
    /\ cl[c].pc = "finish"
    /\ LET k == cl[c].key
           waiting(d) == cl[d].pc = "wait" /\ cl[d].key = k
       IN  /\ flight' = [flight EXCEPT ![k] = Nobody]
           /\ cl' = [d \in Client |->
                       IF d = c THEN [cl[c] EXCEPT !.pc = "done"]
                       ELSE IF waiting(d)
                       THEN [cl[d] EXCEPT !.pc = "done", !.joined = TRUE, !.val = cl[c].val,
                               !.err = IF cl[d].op = "get" THEN cl[c].err ELSE NoErr]
                       ELSE cl[d]]
    /\ UNCHANGED <<opt, data, heap, latest, rf, ex, used, safe>>

(* SetDefault: LoadOrStore, and Touch if the key exists. *)
SetDefault(c) ==
    /\ cl[c].pc = "load" /\ cl[c].op = "setDefault"
    /\ data[cl[c].key] = NoEntry
    /\ StoreEntry(cl[c].key)
    /\ Return(c, Nil, NoErr)
    /\ UNCHANGED <<opt, latest, flight, rf, ex>>
    /\ Collect(WithEntry(Default, NoErr), WithUse(Fresh), safe)

SetDefaultExists(c) ==
    /\ cl[c].pc = "load" /\ cl[c].op = "setDefault"
    /\ data[cl[c].key] # NoEntry
    /\ cl' = [cl EXCEPT ![c].e = data[cl[c].key], ![c].pc = "touch"]
    /\ UNCHANGED <<opt, data, heap, latest, flight, rf, ex, used, safe>>

(* DeleteIf: Range meets the keys one by one and deletes those that match.  *)
DeleteIf(c, K) ==
    /\ "deleteIf" \in opt.calls
    /\ cl[c].pc \in {"idle", "done"}
    /\ cl' = [cl EXCEPT ![c] = [Idle EXCEPT !.pc = "del", !.op = "deleteIf",
                                            !.todo = {k \in K : data[k] # NoEntry}]]
    /\ UNCHANGED <<opt, data, heap, latest, flight, rf, ex, used, safe>>

DeleteOne(c) ==
    /\ cl[c].pc = "del"
    /\ IF cl[c].todo = {}
       THEN cl' = [cl EXCEPT ![c].pc = "done"] /\ data' = data
       ELSE \E k \in cl[c].todo :
              /\ data' = [data EXCEPT ![k] = NoEntry]
              /\ cl' = [cl EXCEPT ![c].todo = @ \ {k}]
    /\ UNCHANGED <<opt, latest, flight, rf, ex>>
    /\ Collect(heap, used, safe)

-----------------------------------------------------------------------------
(* refresh *)

RefreshBegin ==
    /\ rf.pc = "idle"
    /\ rf' = [rf EXCEPT !.pc = "range", !.todo = {k \in Key : data[k] # NoEntry}]
    /\ UNCHANGED <<opt, data, heap, latest, flight, cl, ex, used, safe>>

(* Range hands the entry it finds; a key deleted meanwhile is skipped.      *)
RefreshVisit(k) ==
    /\ rf.pc = "range" /\ k \in rf.todo
    /\ rf' = [rf EXCEPT !.todo = @ \ {k}, !.key = k, !.e = data[k],
                        !.pc = IF data[k] = NoEntry THEN "range" ELSE "fetch"]
    /\ UNCHANGED <<opt, data, heap, latest, flight, cl, ex, used, safe>>

RefreshFetchOk ==
    /\ rf.pc = "fetch"
    /\ rf' = [rf EXCEPT !.val = latest[rf.key], !.pc = "val"]
    /\ UNCHANGED <<opt, data, heap, latest, flight, cl, ex, used, safe>>

(* Mutant of RefreshFetchFails. *)
RefreshStoresErr ==
    /\ rf.pc = "fetch"
    /\ rf' = [IdlePass EXCEPT !.pc = "range", !.todo = rf.todo]
    /\ UNCHANGED <<opt, data, latest, flight, cl, ex>>
    /\ Collect([heap EXCEPT ![rf.e].err = Err], used, safe)

(* err != nil: only an entry that already has an error gets the new one.    *)
RefreshFetchFails ==
    /\ rf.pc = "fetch"
    /\ rf' = [IdlePass EXCEPT !.pc = "range", !.todo = rf.todo]
    /\ UNCHANGED <<opt, data, latest, flight, cl, ex>>
    /\ Collect([heap EXCEPT ![rf.e].err = IF @ # NoErr THEN Err ELSE @], used, safe)

(* Mutant of RefreshStoreVal. *)
RefreshStoreErrFirst ==
    /\ rf.pc = "val"
    /\ heap' = [heap EXCEPT ![rf.e].err = NoErr]
    /\ rf' = [rf EXCEPT !.pc = "err"]
    /\ UNCHANGED <<opt, data, latest, flight, cl, ex, used, safe>>

(* Mutant of RefreshStoreVal. *)
RefreshStoreNothing ==
    /\ rf.pc = "val"
    /\ rf' = [rf EXCEPT !.pc = "err"]
    /\ UNCHANGED <<opt, heap, data, latest, flight, cl, ex, used, safe>>

(* What readers may still find of the entry e once v is stored in it.       *)
Was(e, v) ==
    IF v \notin NilVersions THEN Nil
    ELSE IF heap[e].val \in NilVersions \cup {Nil} THEN heap[e].was
    ELSE heap[e].val

(* e.Store(newVal, nil) on a published entry: the value, then the error.    *)
RefreshStoreVal ==
    /\ rf.pc = "val"
    /\ heap' = [heap EXCEPT ![rf.e].val = rf.val, ![rf.e].was = Was(rf.e, rf.val)]
    /\ rf' = [rf EXCEPT !.pc = "err"]
    /\ UNCHANGED <<opt, data, latest, flight, cl, ex, used, safe>>

RefreshStoreErr ==
    /\ rf.pc = "err"
    /\ rf' = [IdlePass EXCEPT !.pc = "range", !.todo = rf.todo]
    /\ UNCHANGED <<opt, data, latest, flight, cl, ex>>
    /\ Collect([heap EXCEPT ![rf.e].err = NoErr], used, safe)

RefreshEnd ==
    /\ rf.pc = "range" /\ rf.todo = {}
    /\ rf' = IdlePass
    /\ UNCHANGED <<opt, data, heap, latest, flight, cl, ex, used, safe>>

-----------------------------------------------------------------------------
(* expire *)

ExpireBegin ==
    /\ opt.expire
    /\ ex.pc = "idle"
    /\ ex' = [ex EXCEPT !.pc = "range", !.todo = {k \in Key : data[k] # NoEntry}]
    /\ safe' = used
    /\ used' = {}
    /\ UNCHANGED <<opt, data, heap, latest, flight, cl, rf>>

ExpireVisit(k) ==
    /\ ex.pc = "range" /\ k \in ex.todo
    /\ ex' = [ex EXCEPT !.todo = @ \ {k}, !.key = k, !.e = data[k],
                        !.pc = IF data[k] = NoEntry THEN "range" ELSE "cas"]
    /\ UNCHANGED <<opt, data, heap, latest, flight, cl, rf, used, safe>>

(* CompareAndSwapInt32(&e.expire, 0, 1): it fails when the flag was still   *)
(* set, and then the key is deleted. *)
ExpireCas ==
    /\ ex.pc = "cas"
    /\ ex' = [ex EXCEPT !.pc = IF heap[ex.e].expire THEN "delete" ELSE "range",
                        !.e = NoEntry]
    /\ UNCHANGED <<opt, data, latest, flight, cl, rf>>
    /\ Collect([heap EXCEPT ![ex.e].expire = TRUE], used, safe)

(* c.data.Delete(key), whatever entry the key has by now. *)
ExpireDelete ==
    /\ ex.pc = "delete"
    /\ data' = [data EXCEPT ![ex.key] = NoEntry]
    /\ ex' = [ex EXCEPT !.pc = "range"]
    /\ UNCHANGED <<opt, latest, flight, cl, rf>>
    /\ Collect(heap, used, safe)

ExpireEnd ==
    /\ ex.pc = "range" /\ ex.todo = {}
    /\ ex' = IdlePass
    /\ used' = {}
    /\ safe' = {}
    /\ UNCHANGED <<opt, data, heap, latest, flight, cl, rf>>

-----------------------------------------------------------------------------
(* The source the Fetcher reads changes. *)
SourceChanges(k) ==
    /\ latest[k] < MaxVersion
    /\ latest' = [latest EXCEPT ![k] = @ + 1]
    /\ UNCHANGED <<opt, data, heap, flight, cl, rf, ex, used, safe>>

ClientStep(c) ==
    \/ Load(c) \/ CallTouch(c) \/ ReadVal(c) \/ GetReadErr(c)
    \/ GetOrSetReadErr(c) \/ GetOrSetReplace(c)
    \/ Do(c) \/ Fetch(c) \/ FlightStore(c) \/ FlightEnd(c)
    \/ SetDefault(c) \/ SetDefaultExists(c) \/ DeleteOne(c)

RefreshStep ==
    \/ RefreshBegin \/ RefreshStoreVal \/ RefreshStoreErr \/ RefreshEnd
    \/ RefreshFetchOk \/ RefreshFetchFails
    \/ \E k \in Key : RefreshVisit(k)

ExpireStep ==
    \/ ExpireBegin \/ ExpireCas \/ ExpireDelete \/ ExpireEnd
    \/ \E k \in Key : ExpireVisit(k)

Next ==
    \/ \E c \in Client : ClientStep(c)
    \/ \E c \in opt.clients, k \in Key, op \in opt.calls \ {"deleteIf"} : Call(c, op, k)
    \/ \E c \in opt.clients, K \in SUBSET Key : DeleteIf(c, K)
    \/ RefreshStep
    \/ ExpireStep
    \/ \E k \in Key : SourceChanges(k)

Spec == Init /\ [][Next]_vars

(* Clients may stop calling, but a call that has begun goes on; the passes  *)
(* keep coming (PassesKeepComing of SharedTicker) and the Fetcher, asked    *)
(* again and again, succeeds now and then.                                  *)
FairSpec ==
    /\ Spec
    /\ \A c \in Client : WF_vars(ClientStep(c))
    /\ WF_vars(RefreshStep)
    /\ SF_vars(RefreshFetchOk)

-----------------------------------------------------------------------------
(* Properties *)

(* Types, and the ties between the locals of a call and the shared state.   *)
TypeOK ==
    /\ opt \in Setups
    /\ data \in [Key -> Entry \cup {NoEntry}]
    /\ heap \in [Entry -> EntryRec]
    /\ latest \in [Key -> Version]
    /\ \A k \in Key : flight[k] # Nobody =>
         /\ cl[flight[k]].key = k
         /\ cl[flight[k]].pc \in {"fetch", "store", "finish"}
    /\ \A c \in Client : cl[c].pc \in {"touch", "val", "err", "replace"} => cl[c].e \in Entry
    /\ used \cup safe \subseteq Entry

(* A cached entry without an error has what a fetch returned or a default.  *)
(* refresh() repairs a cached failure while clients read the entry, and     *)
(* stores the value before it clears the error.                             *)
NoErrHasValue ==
    \A k \in Key : data[k] # NoEntry /\ heap[data[k]].err = NoErr => heap[data[k]].val # Nil

(* A GetOrSet that found an entry or ran the fetch itself returns what some *)
(* fetch returned, nil perhaps, or its default, and not the nothing of a    *)
(* failed fetch, however the refresh pass repairs the entry meanwhile.      *)
OwnGetOrSetHasValue ==
    \A c \in Client :
        cl[c].pc = "done" /\ cl[c].op = "getOrSet" /\ ~cl[c].joined => cl[c].val # Nil

(* The three together: what holds of the cache's memory and of the results  *)
(* of its calls at every point of every interleaving.                       *)
CacheInv == TypeOK /\ NoErrHasValue /\ OwnGetOrSetHasValue

(* "If the key is not yet cached or fetching failed, the default value will *)
(* be set" (asynccache.go:180): GetOrSet never returns nil.                 *)
GetOrSetHasValue ==
    \A c \in Client : cl[c].pc = "done" /\ cl[c].op = "getOrSet" => cl[c].val # Nil

(* "If error occurs during in the first time fetching, it will be cached    *)
(* until the sequential fetchings ... succeed" (asynccache.go:158): Get     *)
(* returns the error or a value, never neither.                             *)
GetHasValueOrError ==
    \A c \in Client :
        cl[c].pc = "done" /\ cl[c].op = "get" => cl[c].val # Nil \/ cl[c].err # NoErr

(* While a key keeps its entry, a failing fetch never costs it its value,   *)
(* and a refresh never takes it back to an older version.                   *)
KeepsGoodValue ==
    [][\A k \in Key :
         LET e == data[k] IN
         e # NoEntry /\ data'[k] = e /\ heap[e].err = NoErr =>
            /\ heap'[e].err = NoErr
            /\ heap[e].val \in Version =>
                 heap'[e].val \in Version /\ heap'[e].val >= heap[e].val]_vars

(* expire() removes no entry that a call touched, or stored, between the    *)
(* end of the last expire pass and the begin of this one (README.md:5:      *)
(* "supports expire a key if unused for a period").                         *)
ExpiresOnlyIdle ==
    [][ExpireDelete => data[ex.key] \notin safe]_vars

(* "0 means useful, 1 will expire" (asynccache.go:87): expire() deletes no  *)
(* entry that is useful.                                                    *)
ExpiresOnlyUnused ==
    [][ExpireDelete /\ data[ex.key] # NoEntry => heap[data[ex.key]].expire]_vars

(* Whatever its clients and the expire pass do meanwhile, a key in the      *)
(* cache is again and again gone or holds the source's version without an   *)
(* error, once the source stays the same: stale flights, defaults and       *)
(* cached failures are all repaired.                                        *)
UpToDate(k) ==
    heap[data[k]].val = latest[k] /\ heap[data[k]].err = NoErr

EventuallyUpToDate ==
    \A k \in Key : data[k] # NoEntry ~> (data[k] = NoEntry \/ UpToDate(k))

(* A call returns: nobody waits for ever for a flight. *)
CallsReturn ==
    \A c \in Client : cl[c].pc \notin {"idle", "done"} ~> cl[c].pc = "done"
=============================================================================
