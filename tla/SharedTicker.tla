---------------------------- MODULE SharedTicker ----------------------------
(***************************************************************************)
(* The shared tickers of asynccache/asynccache.go.  Caches created with    *)
(* the same duration share one sharedTicker, that is one mutex, one        *)
(* started flag, one stop channel of capacity 1 and one tick goroutine     *)
(* that serves every registered cache.  NewAsyncCache registers a cache    *)
(* (first with its expire ticker, then with its refresh ticker), Close     *)
(* removes it (first from the refresh ticker, then from the expire         *)
(* ticker), and the last one to leave asks the goroutine to stop.          *)
(*                                                                         *)
(* The goroutines of one ticker are interchangeable, so the model counts   *)
(* them: selecting[t] are blocked in the select of tick, locking[t] have   *)
(* taken a tick from ticker.C and wait for the mutex, and the one that     *)
(* holds the mutex is the holder Tick.                                     *)
(***************************************************************************)
EXTENDS Integers, FiniteSets

CONSTANTS
    Cache,          \* owners; each builds, uses and closes one cache at a time
    Ticker,         \* the sharedTickers of both maps
    RefreshTicker,  \* [Cache -> Ticker]: opt.RefreshDuration picks it
    ExpireTicker,   \* [Cache -> Ticker \cup {NoTicker}]
    NoTicker,       \* EnableExpire is false
    Free, Tick      \* values of holder besides a cache

ASSUME TickersAssumption ==
    /\ RefreshTicker \in [Cache -> Ticker]
    /\ ExpireTicker \in [Cache -> Ticker \cup {NoTicker}]
    /\ NoTicker \notin Ticker
    \* refreshTickerMap and expireTickerMap are two maps
    /\ \A c, d \in Cache : RefreshTicker[c] # ExpireTicker[d]

ASSUME HolderAssumption ==
    Free # Tick /\ Free \notin Cache /\ Tick \notin Cache

VARIABLES
    pc,         \* where each owner is in NewAsyncCache or Close
    caches,     \* t.caches
    started,    \* t.started
    stopChan,   \* messages buffered in t.stopChan (capacity 1)
    holder,     \* who holds t.Mutex
    selecting, locking,  \* tick goroutines by position
    unserved    \* caches whose refresh() or expire() this tick still waits for

vars == <<pc, caches, started, stopChan, holder, selecting, locking, unserved>>

(* Capacity of stopChan: make(chan bool, 1). *)
StopCap == 1

(* Every tick goroutine of t that has not returned. *)
Running(t) ==
    selecting[t] + locking[t] + (IF holder[t] = Tick THEN 1 ELSE 0)

NewSteps   == {"newExpire", "newRefresh"}
CloseSteps == {"closeRefresh", "sendRefresh", "closeExpire", "sendExpire"}

TypeOK ==
    /\ pc \in [Cache -> {"absent", "open"} \cup NewSteps \cup CloseSteps]
    /\ caches \in [Ticker -> SUBSET Cache]
    /\ started \in [Ticker -> BOOLEAN]
    /\ stopChan \in [Ticker -> 0..StopCap]
    /\ holder \in [Ticker -> {Free, Tick} \cup Cache]
    /\ selecting \in [Ticker -> Nat]
    /\ locking \in [Ticker -> Nat]
    /\ unserved \in [Ticker -> SUBSET Cache]

Init ==
    /\ pc = [c \in Cache |-> "absent"]
    /\ caches = [t \in Ticker |-> {}]
    /\ started = [t \in Ticker |-> FALSE]
    /\ stopChan = [t \in Ticker |-> 0]
    /\ holder = [t \in Ticker |-> Free]
    /\ selecting = [t \in Ticker |-> 0]
    /\ locking = [t \in Ticker |-> 0]
    /\ unserved = [t \in Ticker |-> {}]

-----------------------------------------------------------------------------
(* NewAsyncCache *)

(* The call: the options are fixed, nothing is registered yet. *)
New(c) ==
    /\ pc[c] = "absent"
    /\ pc' = [pc EXCEPT ![c] =
                 IF ExpireTicker[c] # NoTicker THEN "newExpire" ELSE "newRefresh"]
    /\ UNCHANGED <<caches, started, stopChan, holder, selecting, locking, unserved>>

(* Lock; caches[c] = {}; start a goroutine unless one is started; Unlock.   *)
(* The critical section touches only what the mutex protects.               *)
Register(c, t) ==
    /\ holder[t] = Free
    /\ caches' = [caches EXCEPT ![t] = @ \cup {c}]
    /\ started' = [started EXCEPT ![t] = TRUE]
    /\ selecting' = [selecting EXCEPT ![t] = IF started[t] THEN @ ELSE @ + 1]
    /\ UNCHANGED <<stopChan, holder, locking, unserved>>

NewExpire(c) ==
    /\ pc[c] = "newExpire"
    /\ Register(c, ExpireTicker[c])
    /\ pc' = [pc EXCEPT ![c] = "newRefresh"]

NewRefresh(c) ==
    /\ pc[c] = "newRefresh"
    /\ Register(c, RefreshTicker[c])
    /\ pc' = [pc EXCEPT ![c] = "open"]

-----------------------------------------------------------------------------
(* Close *)

Close(c) ==
    /\ pc[c] = "open"
    /\ pc' = [pc EXCEPT ![c] = "closeRefresh"]
    /\ UNCHANGED <<caches, started, stopChan, holder, selecting, locking, unserved>>

(* Where Close goes when it is done with the refresh ticker.  An owner may   *)
(* build another cache once Close has returned. *)
AfterRefresh(c) == IF ExpireTicker[c] # NoTicker THEN "closeExpire" ELSE "absent"

(* Mutant of Deregister. *)
DeregisterKeepsCache(c, t, sending, done) ==
    /\ holder[t] = Free
    /\ pc' = [pc EXCEPT ![c] = done]
    /\ UNCHANGED <<caches, holder, started, stopChan, selecting, locking, unserved>>

(* Lock; delete(t.caches, c).  With caches left, Unlock; otherwise the      *)
(* mutex stays held while the stop message is sent.                         *)
Deregister(c, t, sending, done) ==
    LET left == caches[t] \ {c} IN
    /\ holder[t] = Free
    /\ caches' = [caches EXCEPT ![t] = left]
    /\ holder' = [holder EXCEPT ![t] = IF left = {} THEN c ELSE Free]
    /\ pc' = [pc EXCEPT ![c] = IF left = {} THEN sending ELSE done]
    /\ UNCHANGED <<started, stopChan, selecting, locking, unserved>>

(* Mutant of SendStop. *)
SendStopKeepsStarted(c, t, done) ==
    /\ holder[t] = c
    /\ stopChan[t] < StopCap
    /\ stopChan' = [stopChan EXCEPT ![t] = @ + 1]
    /\ holder' = [holder EXCEPT ![t] = Free]
    /\ pc' = [pc EXCEPT ![c] = done]
    /\ UNCHANGED <<started, caches, selecting, locking, unserved>>

(* Mutant of SendStop. *)
SendStopNonBlocking(c, t, done) ==
    /\ holder[t] = c
    /\ stopChan' = [stopChan EXCEPT ![t] = StopCap]
    /\ started' = [started EXCEPT ![t] = FALSE]
    /\ holder' = [holder EXCEPT ![t] = Free]
    /\ pc' = [pc EXCEPT ![c] = done]
    /\ UNCHANGED <<caches, selecting, locking, unserved>>

(* t.stopChan <- true blocks while the buffer is full; then started = false *)
(* and Unlock. *)
SendStop(c, t, done) ==
    /\ holder[t] = c
    /\ stopChan[t] < StopCap
    /\ stopChan' = [stopChan EXCEPT ![t] = @ + 1]
    /\ started' = [started EXCEPT ![t] = FALSE]
    /\ holder' = [holder EXCEPT ![t] = Free]
    /\ pc' = [pc EXCEPT ![c] = done]
    /\ UNCHANGED <<caches, selecting, locking, unserved>>

CloseRefresh(c) ==
    /\ pc[c] = "closeRefresh"
    /\ Deregister(c, RefreshTicker[c], "sendRefresh", AfterRefresh(c))

SendRefresh(c) ==
    /\ pc[c] = "sendRefresh"
    /\ SendStop(c, RefreshTicker[c], AfterRefresh(c))

CloseExpire(c) ==
    /\ pc[c] = "closeExpire"
    /\ Deregister(c, ExpireTicker[c], "sendExpire", "absent")

SendExpire(c) ==
    /\ pc[c] = "sendExpire"
    /\ SendStop(c, ExpireTicker[c], "absent")

-----------------------------------------------------------------------------
(* tick: the goroutine of one ticker *)

(* case <-ticker.C: time may pass at any moment, so it is always possible.  *)
TickFires(t) ==
    /\ selecting[t] > 0
    /\ selecting' = [selecting EXCEPT ![t] = @ - 1]
    /\ locking' = [locking EXCEPT ![t] = @ + 1]
    /\ UNCHANGED <<pc, caches, started, stopChan, holder, unserved>>

(* t.Lock(); one goroutine per registered cache is spawned. *)
TickLocks(t) ==
    /\ locking[t] > 0
    /\ holder[t] = Free
    /\ locking' = [locking EXCEPT ![t] = @ - 1]
    /\ holder' = [holder EXCEPT ![t] = Tick]
    /\ unserved' = [unserved EXCEPT ![t] = caches[t]]
    /\ UNCHANGED <<pc, caches, started, stopChan, selecting>>

(* The spawned refresh() or expire() of cache c returns: wg.Done(). *)
Served(t, c) ==
    /\ holder[t] = Tick
    /\ c \in unserved[t]
    /\ unserved' = [unserved EXCEPT ![t] = @ \ {c}]
    /\ UNCHANGED <<pc, caches, started, stopChan, holder, selecting, locking>>

(* Mutant of TickUnlocks. *)
TickNeverUnlocks(t) == FALSE /\ UNCHANGED vars

(* Mutant of TickUnlocks. *)
TickUnlocksEarly(t) ==
    /\ holder[t] = Tick
    /\ holder' = [holder EXCEPT ![t] = Free]
    /\ selecting' = [selecting EXCEPT ![t] = @ + 1]
    /\ UNCHANGED <<pc, caches, started, stopChan, locking, unserved>>

(* wg.Wait() returns, t.Unlock(), back to the select. *)
TickUnlocks(t) ==
    /\ holder[t] = Tick
    /\ unserved[t] = {}
    /\ holder' = [holder EXCEPT ![t] = Free]
    /\ selecting' = [selecting EXCEPT ![t] = @ + 1]
    /\ UNCHANGED <<pc, caches, started, stopChan, locking, unserved>>

(* Mutant of TickStops. *)
TickIgnoresStop(t) ==
    /\ selecting[t] > 0
    /\ stopChan[t] > 0
    /\ stopChan' = [stopChan EXCEPT ![t] = @ - 1]
    /\ UNCHANGED <<selecting, pc, caches, started, holder, locking, unserved>>

(* case stop := <-t.stopChan: only true is ever sent, so the goroutine      *)
(* returns. *)
TickStops(t) ==
    /\ selecting[t] > 0
    /\ stopChan[t] > 0
    /\ stopChan' = [stopChan EXCEPT ![t] = @ - 1]
    /\ selecting' = [selecting EXCEPT ![t] = @ - 1]
    /\ UNCHANGED <<pc, caches, started, holder, locking, unserved>>

-----------------------------------------------------------------------------
OwnerStep(c) ==
    \/ NewExpire(c) \/ NewRefresh(c)
    \/ CloseRefresh(c) \/ SendRefresh(c)
    \/ CloseExpire(c) \/ SendExpire(c)

Next ==
    \/ \E c \in Cache :
        \/ New(c) \/ NewExpire(c) \/ NewRefresh(c)
        \/ Close(c) \/ CloseRefresh(c) \/ SendRefresh(c)
        \/ CloseExpire(c) \/ SendExpire(c)
    \/ \E t \in Ticker :
        \/ TickFires(t) \/ TickLocks(t) \/ TickUnlocks(t) \/ TickStops(t)
        \/ \E c \in Cache : Served(t, c)

Spec == Init /\ [][Next]_vars

(* An owner may never call New or Close.  A Lock it has called is granted   *)
(* (sync.Mutex hands the lock to a starving waiter after 1ms), ticks keep   *)
(* coming, a select with two ready cases picks each of them again and       *)
(* again, and fetchers return.                                              *)
Fairness ==
    /\ \A c \in Cache : SF_vars(OwnerStep(c))
    /\ \A t \in Ticker :
        /\ SF_vars(TickFires(t))
        /\ SF_vars(TickLocks(t))
        /\ SF_vars(TickStops(t))
        /\ WF_vars(TickUnlocks(t))
        /\ \A c \in Cache : WF_vars(Served(t, c))

FairSpec == Spec /\ Fairness

-----------------------------------------------------------------------------
(* Properties *)

(* Whether owner c is registered with ticker t, by its position. *)
Registered(c, t) ==
    \/ t = RefreshTicker[c] /\ pc[c] \in {"open", "closeRefresh"}
    \/ t = ExpireTicker[c]
         /\ pc[c] \in {"newRefresh", "open", "closeRefresh", "sendRefresh", "closeExpire"}

(* The goroutines of a ticker, less the stop messages still in its channel, *)
(* are exactly one while the ticker is started and none when it is not: no  *)
(* sequence of NewAsyncCache and Close leaks a tick goroutine or loses one. *)
GoroutineBalance ==
    \A t \in Ticker :
        Running(t) = stopChan[t] + (IF started[t] THEN 1 ELSE 0)

(* A registered cache is served: a goroutine of its ticker will outlive     *)
(* every stop message in the channel, so New never relies on a goroutine    *)
(* that an earlier Close has already told to return.                        *)
RegisteredIsServed ==
    \A t \in Ticker : \A c \in Cache :
        Registered(c, t) => c \in caches[t] /\ Running(t) > stopChan[t]

(* However often caches are opened and closed, a ticker never has more than *)
(* two goroutines: the current one and one that has not yet seen its stop.  *)
AtMostTwoGoroutines == \A t \in Ticker : Running(t) <= 2

(* Close returns only when no pass is working on the cache: refresh() and   *)
(* expire() run under the ticker's mutex, and wg.Wait() keeps it until they *)
(* are done, so a cache being served is still registered.                   *)
NoPassAfterClose ==
    \A t \in Ticker : unserved[t] \subseteq {c \in caches[t] : Registered(c, t)}

(* The parts of the inductive invariant, besides TypeOK and                  *)
(* GoroutineBalance. *)

(* The map of a ticker holds exactly the caches whose owner is between the  *)
(* two registrations. *)
MembersMatch ==
    \A t \in Ticker : \A c \in Cache : c \in caches[t] <=> Registered(c, t)

(* Only an owner that sends a stop message keeps the mutex between steps.   *)
SenderHolds ==
    \A t \in Ticker : \A c \in Cache :
        holder[t] = c <=> \/ pc[c] = "sendRefresh" /\ t = RefreshTicker[c]
                          \/ pc[c] = "sendExpire" /\ t = ExpireTicker[c]

(* started is set while there are caches, and until the last Close of a     *)
(* ticker has sent its message. *)
StartedMatches ==
    \A t \in Ticker :
        /\ started[t] <=> (caches[t] # {} \/ holder[t] \in Cache)
        /\ holder[t] \in Cache => caches[t] = {}

(* The expire steps are taken only with an expire ticker. *)
ExpireSteps ==
    \A c \in Cache :
        pc[c] \in {"newExpire", "closeExpire", "sendExpire"} => ExpireTicker[c] \in Ticker

(* A pass works on registered caches, and only under the mutex. *)
PassUnderLock ==
    \A t \in Ticker : unserved[t] \subseteq caches[t]
                      /\ (holder[t] # Tick => unserved[t] = {})

(* The inductive invariant behind every safety property of this module.     *)
TickerInv ==
    /\ TypeOK
    /\ GoroutineBalance
    /\ MembersMatch
    /\ SenderHolds
    /\ StartedMatches
    /\ ExpireSteps
    /\ PassUnderLock

(* The one way Close can hang: it holds the mutex, the channel is full with *)
(* the stop of an earlier Close, and every goroutine that could drain it    *)
(* waits for the mutex.                                                     *)
Jammed(t) ==
    holder[t] \in Cache /\ stopChan[t] = StopCap /\ selecting[t] = 0

(* A jam is for ever: no caller and no goroutine can resolve it, and with    *)
(* the mutex held every later NewAsyncCache or Close on this ticker blocks. *)
JamIsForever == [][\A t \in Ticker : Jammed(t) => Jammed(t)']_vars

(* "Close stops the background goroutine" (asynccache.go:237): a call of    *)
(* Close returns.                                                           *)
CloseReturns ==
    \A c \in Cache : pc[c] \in CloseSteps ~> pc[c] = "absent"

(* Close returns unless a ticker jams: there is no other way to block it.   *)
CloseReturnsOrJams ==
    \A c \in Cache : pc[c] \in CloseSteps ~>
        (pc[c] = "absent" \/ \E t \in Ticker : Jammed(t))

(* A registered cache is served again and again (README.md:5, "updates the  *)
(* latest data periodically") until it is closed or a ticker jams.          *)
PassesKeepComing ==
    \A c \in Cache : \A t \in Ticker :
        (c \in caches[t]) ~>
            (c \in unserved[t] \/ c \notin caches[t] \/ \E u \in Ticker : Jammed(u))

(* When every cache is closed and none is opened any more, every tick        *)
(* goroutine returns: Close leaves none behind (interface comment of Close:  *)
(* "or may lead to resource leak").                                          *)
AllGoroutinesStop ==
    (\A c \in Cache : pc[c] = "absent") ~>
        ((\A t \in Ticker : Running(t) = 0) \/ \E c \in Cache : pc[c] # "absent")
=============================================================================
