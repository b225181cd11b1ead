------------------------- MODULE SharedTickerProofs -------------------------
(***************************************************************************)
(* The goroutines of the shared tickers are neither leaked nor lost, for   *)
(* any number of caches and tickers.  TickerInv (SharedTicker.tla) is the  *)
(* inductive invariant: the balance of goroutines and stop messages needs  *)
(* to know when started is set, which needs to know who is registered and  *)
(* who holds a mutex.                                                      *)
(***************************************************************************)
EXTENDS SharedTicker, TLAPS

(* The initial state satisfies the invariant: no cache, no goroutine. *)
LEMMA InitInv == Init => TickerInv
  BY TickersAssumption, HolderAssumption
  DEF Init, TickerInv, TypeOK, GoroutineBalance, Running, MembersMatch, Registered,
      SenderHolds, StartedMatches, ExpireSteps, PassUnderLock, StopCap, NewSteps, CloseSteps

(* Every step of NewAsyncCache, Close and tick preserves the types. *)
LEMMA TypeStep == TickerInv /\ [Next]_vars => TypeOK'
  <1> SUFFICES ASSUME TickerInv, [Next]_vars PROVE TypeOK'
    OBVIOUS
  <1> USE TickersAssumption, HolderAssumption
      DEF TickerInv, TypeOK, StopCap, NewSteps, CloseSteps
  <1>1. ASSUME NEW c \in Cache, New(c) PROVE TypeOK'
    BY <1>1 DEF New
  <1>2. ASSUME NEW c \in Cache, NewExpire(c) PROVE TypeOK'
    BY <1>2 DEF NewExpire, Register, ExpireSteps
  <1>3. ASSUME NEW c \in Cache, NewRefresh(c) PROVE TypeOK'
    BY <1>3 DEF NewRefresh, Register
  <1>4. ASSUME NEW c \in Cache, Close(c) PROVE TypeOK'
    BY <1>4 DEF Close
  <1>5. ASSUME NEW c \in Cache, CloseRefresh(c) PROVE TypeOK'
    BY <1>5 DEF CloseRefresh, Deregister, AfterRefresh
  <1>6. ASSUME NEW c \in Cache, SendRefresh(c) PROVE TypeOK'
    BY <1>6 DEF SendRefresh, SendStop, AfterRefresh
  <1>7. ASSUME NEW c \in Cache, CloseExpire(c) PROVE TypeOK'
    BY <1>7 DEF CloseExpire, Deregister, ExpireSteps
  <1>8. ASSUME NEW c \in Cache, SendExpire(c) PROVE TypeOK'
    BY <1>8 DEF SendExpire, SendStop, ExpireSteps
  <1>9. ASSUME NEW t \in Ticker, TickFires(t) PROVE TypeOK'
    BY <1>9 DEF TickFires
  <1>10. ASSUME NEW t \in Ticker, TickLocks(t) PROVE TypeOK'
    BY <1>10 DEF TickLocks
  <1>11. ASSUME NEW t \in Ticker, TickUnlocks(t) PROVE TypeOK'
    BY <1>11 DEF TickUnlocks
  <1>12. ASSUME NEW t \in Ticker, TickStops(t) PROVE TypeOK'
    BY <1>12 DEF TickStops
  <1>13. ASSUME NEW t \in Ticker, NEW c \in Cache, Served(t, c) PROVE TypeOK'
    BY <1>13 DEF Served
  <1>14. CASE UNCHANGED vars
    BY <1>14 DEF vars
  <1> QED
    BY <1>1, <1>2, <1>3, <1>4, <1>5, <1>6, <1>7, <1>8, <1>9, <1>10, <1>11, <1>12,
       <1>13, <1>14 DEF Next

(* The goroutines of one ticker, less its stop messages: what the balance    *)
(* says of it. *)
Balanced(u) == Running(u) = stopChan[u] + (IF started[u] THEN 1 ELSE 0)

(* A ticker of which no count changes stays balanced. *)
LEMMA SameBalance ==
  ASSUME NEW u \in Ticker, Balanced(u),
         selecting'[u] = selecting[u], locking'[u] = locking[u],
         holder'[u] = holder[u] \/ (holder[u] # Tick /\ holder'[u] # Tick),
         stopChan'[u] = stopChan[u], started'[u] = started[u]
  PROVE  Balanced(u)'
  BY DEF Balanced, Running

(* Every step keeps the balance of every ticker: the steps of an owner       *)
(* change the counts of its own tickers, those of a goroutine the counts of  *)
(* its ticker. *)
LEMMA BalanceStep == TickerInv /\ [Next]_vars => GoroutineBalance'
  <1> SUFFICES ASSUME TickerInv, [Next]_vars, NEW u \in Ticker PROVE Balanced(u)'
    BY DEF GoroutineBalance, Balanced
  <1>a. Balanced(u)
    BY DEF TickerInv, GoroutineBalance, Balanced
  <1>b. selecting[u] \in Nat /\ locking[u] \in Nat /\ stopChan[u] \in 0..1
    BY DEF TickerInv, TypeOK, StopCap
  <1>c. \A c \in Cache : c # Tick /\ c # Free /\ Free # Tick
    BY HolderAssumption
  <1>d. \A c \in Cache : RefreshTicker[c] \in Ticker
    BY TickersAssumption
  <1>e. \A c \in Cache :
          pc[c] \in {"newExpire", "closeExpire", "sendExpire"} => ExpireTicker[c] \in Ticker
    BY DEF TickerInv, ExpireSteps
  <1>r. ASSUME NEW c \in Cache, NEW t \in Ticker, Register(c, t) PROVE Balanced(u)'
    <2>1. selecting'[u] = IF u = t /\ ~started[u] THEN selecting[u] + 1 ELSE selecting[u]
      BY <1>r DEF Register, TickerInv, TypeOK
    <2>2. started'[u] = IF u = t THEN TRUE ELSE started[u]
      BY <1>r DEF Register, TickerInv, TypeOK
    <2>3. UNCHANGED <<stopChan, holder, locking>>
      BY <1>r DEF Register
    <2> QED
      BY <1>a, <1>b, <2>1, <2>2, <2>3 DEF Balanced, Running
  <1>d1. ASSUME NEW c \in Cache, NEW t \in Ticker, NEW s, NEW d, Deregister(c, t, s, d)
         PROVE  Balanced(u)'
    <2>1. holder'[u] = holder[u] \/ (holder[u] = Free /\ holder'[u] \in {c, Free})
      BY <1>d1 DEF Deregister, TickerInv, TypeOK
    <2>2. holder'[u] = holder[u] \/ (holder[u] # Tick /\ holder'[u] # Tick)
      BY <1>c, <2>1
    <2>3. UNCHANGED <<started, stopChan, selecting, locking>>
      BY <1>d1 DEF Deregister
    <2> QED
      BY <1>a, <2>2, <2>3, SameBalance
  <1>s. ASSUME NEW c \in Cache, NEW t \in Ticker, NEW d, SendStop(c, t, d) PROVE Balanced(u)'
    <2>1. CASE u = t
      <3>1. stopChan'[u] = stopChan[u] + 1 /\ started'[u] = FALSE
        BY <1>s, <2>1 DEF SendStop, TickerInv, TypeOK
      <3>2. holder[u] = c /\ holder'[u] = Free
        BY <1>s, <2>1 DEF SendStop, TickerInv, TypeOK
      <3>3. started[u]
        BY <3>2 DEF TickerInv, StartedMatches
      <3>4. UNCHANGED <<selecting, locking>>
        BY <1>s DEF SendStop
      <3> QED
        BY <1>a, <1>b, <1>c, <3>1, <3>2, <3>3, <3>4 DEF Balanced, Running
    <2>2. CASE u # t
      <3>1. stopChan'[u] = stopChan[u] /\ started'[u] = started[u] /\ holder'[u] = holder[u]
        BY <1>s, <2>2 DEF SendStop, TickerInv, TypeOK
      <3>2. UNCHANGED <<selecting, locking>>
        BY <1>s DEF SendStop
      <3> QED
        BY <1>a, <3>1, <3>2, SameBalance
    <2> QED
      BY <2>1, <2>2
  <1>1. ASSUME NEW c \in Cache, New(c) \/ Close(c) PROVE Balanced(u)'
    BY <1>1, <1>a, SameBalance DEF New, Close
  <1>2. ASSUME NEW c \in Cache, NewExpire(c) \/ NewRefresh(c) PROVE Balanced(u)'
    BY <1>2, <1>d, <1>e, <1>r DEF NewExpire, NewRefresh
  <1>3. ASSUME NEW c \in Cache, CloseRefresh(c) \/ CloseExpire(c) PROVE Balanced(u)'
    BY <1>3, <1>d, <1>e, <1>d1 DEF CloseRefresh, CloseExpire
  <1>4. ASSUME NEW c \in Cache, SendRefresh(c) \/ SendExpire(c) PROVE Balanced(u)'
    BY <1>4, <1>d, <1>e, <1>s DEF SendRefresh, SendExpire
  <1>5. ASSUME NEW t \in Ticker, TickFires(t) PROVE Balanced(u)'
    <2>1. selecting'[u] = IF u = t THEN selecting[u] - 1 ELSE selecting[u]
      BY <1>5 DEF TickFires, TickerInv, TypeOK
    <2>2. locking'[u] = IF u = t THEN locking[u] + 1 ELSE locking[u]
      BY <1>5 DEF TickFires, TickerInv, TypeOK
    <2>3. UNCHANGED <<started, stopChan, holder>>
      BY <1>5 DEF TickFires
    <2> QED
      BY <1>a, <1>b, <2>1, <2>2, <2>3 DEF Balanced, Running
  <1>6. ASSUME NEW t \in Ticker, TickLocks(t) PROVE Balanced(u)'
    <2>1. locking'[u] = IF u = t THEN locking[u] - 1 ELSE locking[u]
      BY <1>6 DEF TickLocks, TickerInv, TypeOK
    <2>2. holder'[u] = IF u = t THEN Tick ELSE holder[u]
      BY <1>6 DEF TickLocks, TickerInv, TypeOK
    <2>3. u = t => holder[u] # Tick
      BY <1>6, HolderAssumption DEF TickLocks
    <2>4. UNCHANGED <<started, stopChan, selecting>>
      BY <1>6 DEF TickLocks
    <2> QED
      BY <1>a, <1>b, <2>1, <2>2, <2>3, <2>4 DEF Balanced, Running
  <1>7. ASSUME NEW t \in Ticker, TickUnlocks(t) PROVE Balanced(u)'
    <2>1. selecting'[u] = IF u = t THEN selecting[u] + 1 ELSE selecting[u]
      BY <1>7 DEF TickUnlocks, TickerInv, TypeOK
    <2>2. u = t => holder[u] = Tick /\ holder'[u] # Tick
      BY <1>7, HolderAssumption DEF TickUnlocks, TickerInv, TypeOK
    <2>3. u # t => holder'[u] = holder[u]
      BY <1>7 DEF TickUnlocks, TickerInv, TypeOK
    <2>4. UNCHANGED <<started, stopChan, locking>>
      BY <1>7 DEF TickUnlocks
    <2> QED
      BY <1>a, <1>b, <2>1, <2>2, <2>3, <2>4 DEF Balanced, Running
  <1>8. ASSUME NEW t \in Ticker, TickStops(t) PROVE Balanced(u)'
    <2>1. selecting'[u] = IF u = t THEN selecting[u] - 1 ELSE selecting[u]
      BY <1>8 DEF TickStops, TickerInv, TypeOK
    <2>2. stopChan'[u] = IF u = t THEN stopChan[u] - 1 ELSE stopChan[u]
      BY <1>8 DEF TickStops, TickerInv, TypeOK
    <2>3. UNCHANGED <<started, holder, locking>>
      BY <1>8 DEF TickStops
    <2> QED
      BY <1>a, <1>b, <2>1, <2>2, <2>3 DEF Balanced, Running
  <1>9. ASSUME NEW t \in Ticker, NEW c \in Cache, Served(t, c) PROVE Balanced(u)'
    BY <1>9, <1>a, SameBalance DEF Served
  <1>10. CASE UNCHANGED vars
    BY <1>10, <1>a, SameBalance DEF vars
  <1> QED
    BY <1>1, <1>2, <1>3, <1>4, <1>5, <1>6, <1>7, <1>8, <1>9, <1>10 DEF Next

(* Every step preserves the other conjuncts of the invariant. *)
LEMMA InvStep == TickerInv /\ [Next]_vars => TickerInv'
  <1> SUFFICES ASSUME TickerInv, [Next]_vars PROVE TickerInv'
    OBVIOUS
  <1>0. TypeOK'
    BY TypeStep
  <1>b. GoroutineBalance'
    BY BalanceStep
  <1> USE TickersAssumption, HolderAssumption DEF TickerInv, TypeOK
  <1>1. ASSUME NEW c \in Cache, New(c) PROVE TickerInv'
    <2>2. MembersMatch'
      BY <1>1 DEF New, MembersMatch, Registered
    <2>3. SenderHolds'
      BY <1>1 DEF New, SenderHolds
    <2>4. StartedMatches'
      BY <1>1 DEF New, StartedMatches
    <2>5. ExpireSteps'
      BY <1>1 DEF New, ExpireSteps
    <2>6. PassUnderLock'
      BY <1>1 DEF New, PassUnderLock
    <2> QED
      BY <1>0, <1>b, <2>2, <2>3, <2>4, <2>5, <2>6
  <1>2. ASSUME NEW c \in Cache, NewExpire(c) PROVE TickerInv'
    <2>2. MembersMatch'
      BY <1>2 DEF NewExpire, Register, MembersMatch, Registered, ExpireSteps
    <2>3. SenderHolds'
      BY <1>2 DEF NewExpire, Register, SenderHolds, ExpireSteps
    <2>4. StartedMatches'
      BY <1>2 DEF NewExpire, Register, StartedMatches, ExpireSteps
    <2>5. ExpireSteps'
      BY <1>2 DEF NewExpire, Register, ExpireSteps
    <2>6. PassUnderLock'
      BY <1>2 DEF NewExpire, Register, PassUnderLock, ExpireSteps
    <2> QED
      BY <1>0, <1>b, <2>2, <2>3, <2>4, <2>5, <2>6
  <1>3. ASSUME NEW c \in Cache, NewRefresh(c) PROVE TickerInv'
    <2>2. MembersMatch'
      BY <1>3 DEF NewRefresh, Register, MembersMatch, Registered
    <2>3. SenderHolds'
      BY <1>3 DEF NewRefresh, Register, SenderHolds
    <2>4. StartedMatches'
      BY <1>3 DEF NewRefresh, Register, StartedMatches
    <2>5. ExpireSteps'
      BY <1>3 DEF NewRefresh, Register, ExpireSteps
    <2>6. PassUnderLock'
      BY <1>3 DEF NewRefresh, Register, PassUnderLock
    <2> QED
      BY <1>0, <1>b, <2>2, <2>3, <2>4, <2>5, <2>6
  <1>4. ASSUME NEW c \in Cache, Close(c) PROVE TickerInv'
    <2>2. MembersMatch'
      BY <1>4 DEF Close, MembersMatch, Registered
    <2>3. SenderHolds'
      BY <1>4 DEF Close, SenderHolds
    <2>4. StartedMatches'
      BY <1>4 DEF Close, StartedMatches, MembersMatch, Registered
    <2>5. ExpireSteps'
      BY <1>4 DEF Close, ExpireSteps
    <2>6. PassUnderLock'
      BY <1>4 DEF Close, PassUnderLock, StartedMatches
    <2> QED
      BY <1>0, <1>b, <2>2, <2>3, <2>4, <2>5, <2>6
  <1>5. ASSUME NEW c \in Cache, CloseRefresh(c) PROVE TickerInv'
    <2>2. MembersMatch'
      BY <1>5 DEF CloseRefresh, Deregister, AfterRefresh, MembersMatch, Registered
    <2>3. SenderHolds'
      BY <1>5 DEF CloseRefresh, Deregister, AfterRefresh, SenderHolds
    <2>4. StartedMatches'
      BY <1>5 DEF CloseRefresh, Deregister, AfterRefresh, StartedMatches,
         MembersMatch, Registered
    <2>5. ExpireSteps'
      BY <1>5 DEF CloseRefresh, Deregister, AfterRefresh, ExpireSteps
    <2>6. PassUnderLock'
      BY <1>5 DEF CloseRefresh, Deregister, AfterRefresh, PassUnderLock,
         StartedMatches
    <2> QED
      BY <1>0, <1>b, <2>2, <2>3, <2>4, <2>5, <2>6
  <1>6. ASSUME NEW c \in Cache, SendRefresh(c) PROVE TickerInv'
    <2>2. MembersMatch'
      BY <1>6 DEF SendRefresh, SendStop, AfterRefresh, MembersMatch, Registered
    <2>3. SenderHolds'
      BY <1>6 DEF SendRefresh, SendStop, AfterRefresh, SenderHolds
    <2>4. StartedMatches'
      BY <1>6 DEF SendRefresh, SendStop, AfterRefresh, StartedMatches, SenderHolds
    <2>5. ExpireSteps'
      BY <1>6 DEF SendRefresh, SendStop, AfterRefresh, ExpireSteps
    <2>6. PassUnderLock'
      BY <1>6 DEF SendRefresh, SendStop, AfterRefresh, PassUnderLock
    <2> QED
      BY <1>0, <1>b, <2>2, <2>3, <2>4, <2>5, <2>6
  <1>7. ASSUME NEW c \in Cache, CloseExpire(c) PROVE TickerInv'
    <2>2. MembersMatch'
      BY <1>7 DEF CloseExpire, Deregister, MembersMatch,
         Registered, ExpireSteps
    <2>3. SenderHolds'
      BY <1>7 DEF CloseExpire, Deregister, SenderHolds, ExpireSteps
    <2>4. StartedMatches'
      BY <1>7 DEF CloseExpire, Deregister, StartedMatches,
         ExpireSteps, MembersMatch, Registered
    <2>5. ExpireSteps'
      BY <1>7 DEF CloseExpire, Deregister, ExpireSteps
    <2>6. PassUnderLock'
      BY <1>7 DEF CloseExpire, Deregister, PassUnderLock,
         ExpireSteps, StartedMatches
    <2> QED
      BY <1>0, <1>b, <2>2, <2>3, <2>4, <2>5, <2>6
  <1>8. ASSUME NEW c \in Cache, SendExpire(c) PROVE TickerInv'
    <2>2. MembersMatch'
      BY <1>8 DEF SendExpire, SendStop, MembersMatch, Registered,
         ExpireSteps
    <2>3. SenderHolds'
      BY <1>8 DEF SendExpire, SendStop, SenderHolds, ExpireSteps
    <2>4. StartedMatches'
      BY <1>8 DEF SendExpire, SendStop, StartedMatches,
         SenderHolds, ExpireSteps
    <2>5. ExpireSteps'
      BY <1>8 DEF SendExpire, SendStop, ExpireSteps
    <2>6. PassUnderLock'
      BY <1>8 DEF SendExpire, SendStop, PassUnderLock, ExpireSteps
    <2> QED
      BY <1>0, <1>b, <2>2, <2>3, <2>4, <2>5, <2>6
  <1>9. ASSUME NEW t \in Ticker, TickFires(t) PROVE TickerInv'
    <2>2. MembersMatch'
      BY <1>9 DEF TickFires, MembersMatch, Registered
    <2>3. SenderHolds'
      BY <1>9 DEF TickFires, SenderHolds
    <2>4. StartedMatches'
      BY <1>9 DEF TickFires, StartedMatches
    <2>5. ExpireSteps'
      BY <1>9 DEF TickFires, ExpireSteps
    <2>6. PassUnderLock'
      BY <1>9 DEF TickFires, PassUnderLock
    <2> QED
      BY <1>0, <1>b, <2>2, <2>3, <2>4, <2>5, <2>6
  <1>10. ASSUME NEW t \in Ticker, TickLocks(t) PROVE TickerInv'
    <2>2. MembersMatch'
      BY <1>10 DEF TickLocks, MembersMatch, Registered
    <2>3. SenderHolds'
      BY <1>10 DEF TickLocks, SenderHolds
    <2>4. StartedMatches'
      BY <1>10 DEF TickLocks, StartedMatches
    <2>5. ExpireSteps'
      BY <1>10 DEF TickLocks, ExpireSteps
    <2>6. PassUnderLock'
      BY <1>10 DEF TickLocks, PassUnderLock
    <2> QED
      BY <1>0, <1>b, <2>2, <2>3, <2>4, <2>5, <2>6
  <1>11. ASSUME NEW t \in Ticker, TickUnlocks(t) PROVE TickerInv'
    <2>2. MembersMatch'
      BY <1>11 DEF TickUnlocks, MembersMatch, Registered
    <2>3. SenderHolds'
      BY <1>11 DEF TickUnlocks, SenderHolds
    <2>4. StartedMatches'
      BY <1>11 DEF TickUnlocks, StartedMatches
    <2>5. ExpireSteps'
      BY <1>11 DEF TickUnlocks, ExpireSteps
    <2>6. PassUnderLock'
      BY <1>11 DEF TickUnlocks, PassUnderLock
    <2> QED
      BY <1>0, <1>b, <2>2, <2>3, <2>4, <2>5, <2>6
  <1>12. ASSUME NEW t \in Ticker, TickStops(t) PROVE TickerInv'
    <2>2. MembersMatch'
      BY <1>12 DEF TickStops, MembersMatch, Registered
    <2>3. SenderHolds'
      BY <1>12 DEF TickStops, SenderHolds
    <2>4. StartedMatches'
      BY <1>12 DEF TickStops, StartedMatches
    <2>5. ExpireSteps'
      BY <1>12 DEF TickStops, ExpireSteps
    <2>6. PassUnderLock'
      BY <1>12 DEF TickStops, PassUnderLock
    <2> QED
      BY <1>0, <1>b, <2>2, <2>3, <2>4, <2>5, <2>6
  <1>13. ASSUME NEW t \in Ticker, NEW c \in Cache, Served(t, c) PROVE TickerInv'
    <2>2. MembersMatch'
      BY <1>13 DEF Served, MembersMatch, Registered
    <2>3. SenderHolds'
      BY <1>13 DEF Served, SenderHolds
    <2>4. StartedMatches'
      BY <1>13 DEF Served, StartedMatches
    <2>5. ExpireSteps'
      BY <1>13 DEF Served, ExpireSteps
    <2>6. PassUnderLock'
      BY <1>13 DEF Served, PassUnderLock
    <2> QED
      BY <1>0, <1>b, <2>2, <2>3, <2>4, <2>5, <2>6
  <1>14. CASE UNCHANGED vars
    BY <1>0, <1>b, <1>14 DEF vars, MembersMatch,
       Registered, SenderHolds,
       StartedMatches, ExpireSteps, PassUnderLock
  <1> QED
    BY <1>1, <1>2, <1>3, <1>4, <1>5, <1>6, <1>7, <1>8, <1>9, <1>10, <1>11, <1>12,
       <1>13, <1>14 DEF Next

(* The invariant is an invariant of every behaviour. *)
THEOREM TickerInvariant == Spec => []TickerInv
  <1>1. QED
    BY InitInv, InvStep, PTL DEF Spec

(* TypeOK holds of every reachable state of the shared tickers. *)
THEOREM TypeCorrect == Spec => []TypeOK
  <1>1. TickerInv => TypeOK
    BY DEF TickerInv
  <1> QED
    BY <1>1, TickerInvariant, PTL

(* No sequence of NewAsyncCache, Close and ticks, of any number of caches   *)
(* on any tickers, leaks or loses a tick goroutine. *)
THEOREM NoGoroutineLeakedOrLost == Spec => []GoroutineBalance
  <1>1. TickerInv => GoroutineBalance
    BY DEF TickerInv
  <1> QED
    BY <1>1, TickerInvariant, PTL

(* A registered cache always has a goroutine no pending stop is meant for.  *)
THEOREM OpenCachesAreServed == Spec => []RegisteredIsServed
  <1>1. TickerInv => RegisteredIsServed
    <2> SUFFICES ASSUME TickerInv, NEW t \in Ticker, NEW c \in Cache, Registered(c, t)
                 PROVE  c \in caches[t] /\ Running(t) > stopChan[t]
      BY DEF RegisteredIsServed
    <2>1. c \in caches[t]
      BY DEF TickerInv, MembersMatch
    <2>2. started[t]
      BY <2>1 DEF TickerInv, StartedMatches
    <2> QED
      BY <2>1, <2>2 DEF TickerInv, GoroutineBalance, TypeOK, StopCap
  <1> QED
    BY <1>1, TickerInvariant, PTL

(* The number of goroutines of a ticker is bounded, whatever its callers do. *)
THEOREM GoroutinesBounded == Spec => []AtMostTwoGoroutines
  <1>1. TickerInv => AtMostTwoGoroutines
    BY DEF TickerInv, AtMostTwoGoroutines, GoroutineBalance, TypeOK, StopCap
  <1> QED
    BY <1>1, TickerInvariant, PTL

(* No refresh() or expire() touches a cache whose Close has returned. *)
THEOREM ClosedIsQuiescent == Spec => []NoPassAfterClose
  <1>1. TickerInv => NoPassAfterClose
    BY DEF TickerInv, NoPassAfterClose, PassUnderLock, MembersMatch, TypeOK
  <1> QED
    BY <1>1, TickerInvariant, PTL

(* Nothing resolves a jam: the Close that holds the mutex, and with it every *)
(* later user of the ticker, is blocked for ever. *)
THEOREM JamIsPermanent == Spec => JamIsForever
  <1>1. TickerInv /\ [Next]_vars => (\A t \in Ticker : Jammed(t) => Jammed(t)')
    <2> SUFFICES ASSUME TickerInv, [Next]_vars, NEW t \in Ticker, Jammed(t) PROVE Jammed(t)'
      OBVIOUS
    <2> USE TickersAssumption, HolderAssumption DEF TickerInv, TypeOK, Jammed, StopCap
    <2>1. ASSUME NEW c \in Cache, NewExpire(c) \/ NewRefresh(c) PROVE Jammed(t)'
      BY <2>1 DEF NewExpire, NewRefresh, Register
    <2>2. ASSUME NEW c \in Cache, CloseRefresh(c) \/ CloseExpire(c) PROVE Jammed(t)'
      BY <2>2 DEF CloseRefresh, CloseExpire, Deregister
    <2>3. ASSUME NEW c \in Cache, SendRefresh(c) \/ SendExpire(c) PROVE Jammed(t)'
      BY <2>3 DEF SendRefresh, SendExpire, SendStop
    <2>4. ASSUME NEW c \in Cache, New(c) \/ Close(c) PROVE Jammed(t)'
      BY <2>4 DEF New, Close
    <2>5. ASSUME NEW u \in Ticker, TickFires(u) \/ TickLocks(u) PROVE Jammed(t)'
      BY <2>5 DEF TickFires, TickLocks
    <2>6. ASSUME NEW u \in Ticker, TickUnlocks(u) \/ TickStops(u) PROVE Jammed(t)'
      BY <2>6 DEF TickUnlocks, TickStops
    <2>7. ASSUME NEW u \in Ticker, NEW c \in Cache, Served(u, c) PROVE Jammed(t)'
      BY <2>7 DEF Served
    <2>8. CASE UNCHANGED vars
      BY <2>8 DEF vars
    <2> QED
      BY <2>1, <2>2, <2>3, <2>4, <2>5, <2>6, <2>7, <2>8 DEF Next
  <1> QED
    BY <1>1, TickerInvariant, PTL DEF Spec, JamIsForever

(* A jam takes two goroutines: the current one and one that an earlier Close *)
(* told to return have both taken a tick, and wait for the mutex that the    *)
(* sender of the second stop holds.                                          *)
THEOREM JamTakesTwo == Spec => [](\A t \in Ticker : Jammed(t) => locking[t] = 2)
  <1>1. TickerInv => (\A t \in Ticker : Jammed(t) => locking[t] = 2)
    <2> SUFFICES ASSUME TickerInv, NEW t \in Ticker, Jammed(t) PROVE locking[t] = 2
      OBVIOUS
    <2>1. holder[t] \in Cache /\ stopChan[t] = 1 /\ selecting[t] = 0
      BY DEF Jammed, StopCap
    <2>2. started[t] /\ holder[t] # Tick
      BY <2>1, HolderAssumption DEF TickerInv, StartedMatches
    <2>3. Running(t) = 2
      BY <2>1, <2>2 DEF TickerInv, GoroutineBalance
    <2> QED
      BY <2>1, <2>2, <2>3 DEF Running, TickerInv, TypeOK
  <1> QED
    BY <1>1, TickerInvariant, PTL

=============================================================================
