------------------------------ MODULE TxStore ------------------------------
(***************************************************************************)
(* SrcTxManager and DstTxManager (loader/src_tx.go, loader/dst_tx.go): the *)
(* tables through which services hand over transactions.  The managers     *)
(* keep no state; the database does.                                       *)
(*                                                                         *)
(* Workers are the services that call the managers, external to this       *)
(* repository.  A worker has one transaction, a job.  For a deposit it     *)
(* asks IsSrcTxExist, calls Save if the answer is no, and reports a result *)
(* with SetResult or SetResultWithDstHash; for a payment it asks           *)
(* IsDstTxExist, calls Save if the answer is no, and asks                  *)
(* GetDoneTxGenBySrc until there is an answer.  It repeats a call that     *)
(* returns an error, and starts again after a crash.  Several workers may  *)
(* have the same transaction, with its hash or action written differently. *)
(*                                                                         *)
(* A statement may fail before it is executed or after: then only its      *)
(* answer is lost.  The sender that makes and confirms the generations of  *)
(* a payment is external too.                                              *)
(***************************************************************************)
EXTENDS Texts, Integers, Sequences, Functions

CONSTANTS
  TxWorkers,
  TxLoads,       \* the jobs that the workers may have, functions from TxWorkers to
                 \* records: kind, of (chain id or source id), name (hash or action), value
  MaxDbFaults,   \* bound on failed statements
  MaxRestarts,   \* bound on crashes
  MaxGens        \* bound on generations, over all payments

NoResult == "none"   \* a result is told apart by the worker who reports it

ASSUME TxAssumption ==
  /\ \A js \in TxLoads : DOMAIN js = TxWorkers
  /\ \A js \in TxLoads : \A j \in Range(js) : j.kind \in {"src", "dst"} /\ j.name \in Text
  /\ NoResult \notin TxWorkers
  /\ MaxDbFaults \in Nat /\ MaxRestarts \in Nat /\ MaxGens \in Nat

VARIABLES
  jobs,       \* worker -> its job
  at,         \* worker -> its next call; "off" without a job, "done" after it
  txName,     \* worker -> TxHash or SrcAction in the struct it holds
  answer,     \* worker -> what GetDoneTxGenBySrc found so far
  srcTable,   \* t_src_transaction: key -> row, for the keys that are there
  dstTable,   \* t_dst_transaction
  gens,       \* t_dst_transaction_gen: row of each generation, by id
  dbFaults, restarts

txVars == <<jobs, at, txName, answer, srcTable, dstTable, gens, dbFaults, restarts>>

Null == "null"
NoGen == [gen |-> 0, success |-> Null]

TxInitWith(js, start) ==
  /\ jobs = js
  /\ at = [w \in TxWorkers |-> start]
  /\ txName = [w \in TxWorkers |-> js[w].name]
  /\ answer = [w \in TxWorkers |-> NoGen]
  /\ srcTable = <<>> /\ dstTable = <<>> /\ gens = <<>>
  /\ dbFaults = 0 /\ restarts = 0

TxInit == \E js \in TxLoads : TxInitWith(js, "exist")

(***************************************************************************)
(* Statements.  o is what becomes of one: "ok", "failed", or executed with *)
(* its answer "lost".                                                      *)
(***************************************************************************)
Statement(o) ==
  /\ o # "ok" => dbFaults < MaxDbFaults
  /\ dbFaults' = IF o = "ok" THEN dbFaults ELSE dbFaults + 1

\* INSERT IGNORE: a row that is there stays.
InsertIgnore(table, key, row) ==
  [k \in DOMAIN table \cup {key} |-> IF k \in DOMAIN table THEN table[k] ELSE row]

(***************************************************************************)
(* SrcTxManager                                                            *)
(***************************************************************************)
\* Any error of the query reads as absent.
IsSrcTxExist(chainId, txHash, o) == o = "ok" /\ <<chainId, Trim(txHash)>> \in DOMAIN srcTable

SrcExist(w, o) ==
  /\ at[w] = "exist" /\ jobs[w].kind = "src"
  /\ Statement(o)
  /\ at' = [at EXCEPT ![w] = IF IsSrcTxExist(jobs[w].of, txName[w], o) THEN "result" ELSE "save"]
  /\ UNCHANGED <<jobs, txName, answer, srcTable, dstTable, gens, restarts>>

\* Save trims the caller's struct, also when it then returns an error.
SrcSave(w, o) ==
  /\ at[w] = "save" /\ jobs[w].kind = "src"
  /\ txName' = [txName EXCEPT ![w] = Trim(@)]
  /\ Statement(o)
  /\ srcTable' = IF o = "failed" THEN srcTable
                 ELSE InsertIgnore(srcTable, <<jobs[w].of, txName'[w]>>,
                                   [value |-> jobs[w].value, result |-> NoResult, dst |-> FALSE])
  /\ at' = [at EXCEPT ![w] = IF o = "ok" THEN "result" ELSE "save"]
  /\ UNCHANGED <<jobs, answer, dstTable, gens, restarts>>

\* The rows of this hash, on whatever chain; the hash is not trimmed.
Updated(txHash, row(_)) ==
  [k \in DOMAIN srcTable |-> IF k[2] = txHash THEN row(srcTable[k]) ELSE srcTable[k]]

\* The error is not returned.
SetResultIgnoringErr(w, o) ==
  /\ at[w] = "result"
  /\ Statement(o)
  /\ LET Set(r) == [r EXCEPT !.result = w]
     IN  srcTable' = IF o = "failed" THEN srcTable ELSE Updated(txName[w], Set)
  /\ at' = [at EXCEPT ![w] = "done"]
  /\ UNCHANGED <<jobs, txName, answer, dstTable, gens, restarts>>

\* An update that touches no row is no error.
SetResult(w, o) ==
  /\ at[w] = "result"
  /\ Statement(o)
  /\ LET Set(r) == [r EXCEPT !.result = w]
     IN  srcTable' = IF o = "failed" THEN srcTable ELSE Updated(txName[w], Set)
  /\ at' = [at EXCEPT ![w] = IF o = "ok" THEN "done" ELSE "result"]
  /\ UNCHANGED <<jobs, txName, answer, dstTable, gens, restarts>>

SetResultWithDstHash(w, o) ==
  /\ at[w] = "result"
  /\ Statement(o)
  /\ LET Set(r) == [r EXCEPT !.result = w, !.dst = TRUE]
     IN  srcTable' = IF o = "failed" THEN srcTable ELSE Updated(txName[w], Set)
  /\ at' = [at EXCEPT ![w] = IF o = "ok" THEN "done" ELSE "result"]
  /\ UNCHANGED <<jobs, txName, answer, dstTable, gens, restarts>>

(***************************************************************************)
(* DstTxManager                                                            *)
(***************************************************************************)
IsDstTxExist(srcId, action, o) == o = "ok" /\ <<srcId, Trim(action)>> \in DOMAIN dstTable

DstExist(w, o) ==
  /\ at[w] = "exist" /\ jobs[w].kind = "dst"
  /\ Statement(o)
  /\ at' = [at EXCEPT ![w] = IF IsDstTxExist(jobs[w].of, txName[w], o) THEN "poll" ELSE "save"]
  /\ UNCHANGED <<jobs, txName, answer, srcTable, dstTable, gens, restarts>>

\* Save without the trimming of the action.
DstSaveUntrimmed(w, o) ==
  /\ at[w] = "save" /\ jobs[w].kind = "dst"
  /\ Statement(o)
  /\ dstTable' = IF o = "failed" THEN dstTable
                 ELSE InsertIgnore(dstTable, <<jobs[w].of, txName[w]>>,
                                   [value |-> jobs[w].value, confirmedGen |-> 0])
  /\ at' = [at EXCEPT ![w] = IF o = "ok" THEN "poll" ELSE "save"]
  /\ UNCHANGED <<jobs, txName, answer, srcTable, gens, restarts>>

\* confirmed_gen is null, 0 here.
DstSave(w, o) ==
  /\ at[w] = "save" /\ jobs[w].kind = "dst"
  /\ txName' = [txName EXCEPT ![w] = Trim(@)]
  /\ Statement(o)
  /\ dstTable' = IF o = "failed" THEN dstTable
                 ELSE InsertIgnore(dstTable, <<jobs[w].of, txName'[w]>>,
                                   [value |-> jobs[w].value, confirmedGen |-> 0])
  /\ at' = [at EXCEPT ![w] = IF o = "ok" THEN "poll" ELSE "save"]
  /\ UNCHANGED <<jobs, answer, srcTable, gens, restarts>>

\* The first query of GetDoneTxGenBySrc: 0 if it fails, finds no row or a null.
ConfirmGenUntrimmed(w, o) ==
  LET key == <<jobs[w].of, txName[w]>>
  IN  IF o = "ok" /\ key \in DOMAIN dstTable THEN dstTable[key].confirmedGen ELSE 0

GetDstTxConfirmGen(w, o) ==
  LET key == <<jobs[w].of, Trim(txName[w])>>
  IN  IF o = "ok" /\ key \in DOMAIN dstTable THEN dstTable[key].confirmedGen ELSE 0

GetDoneTxGenBySrc(w, o) ==
  /\ at[w] = "poll"
  /\ Statement(o)
  /\ LET genId == GetDstTxConfirmGen(w, o)
     IN  IF genId = 0 THEN UNCHANGED <<at, answer>>
         ELSE /\ answer' = [answer EXCEPT ![w] = [gen |-> genId, success |-> Null]]
              /\ at' = [at EXCEPT ![w] = "gen"]
  /\ UNCHANGED <<jobs, txName, srcTable, dstTable, gens, restarts>>

\* The second query, without "confirmed_success is not null".
GetTxGen(w, o) ==
  /\ at[w] = "gen"
  /\ Statement(o)
  /\ IF o = "ok"
     THEN /\ answer' = [answer EXCEPT ![w].success = gens[answer[w].gen].success]
          /\ at' = [at EXCEPT ![w] = "done"]
     ELSE /\ answer' = [answer EXCEPT ![w] = NoGen]
          /\ at' = [at EXCEPT ![w] = "poll"]
  /\ UNCHANGED <<jobs, txName, srcTable, dstTable, gens, restarts>>

\* The second query: nil if it fails or the generation has no result yet.
GetDoneTxGen(w, o) ==
  /\ at[w] = "gen"
  /\ Statement(o)
  /\ LET success == gens[answer[w].gen].success
     IN  IF o = "ok" /\ success # Null
         THEN /\ answer' = [answer EXCEPT ![w].success = success]
              /\ at' = [at EXCEPT ![w] = "done"]
         ELSE /\ answer' = [answer EXCEPT ![w] = NoGen]
              /\ at' = [at EXCEPT ![w] = "poll"]
  /\ UNCHANGED <<jobs, txName, srcTable, dstTable, gens, restarts>>

(***************************************************************************)
(* External: the sender of payments, and crashes of workers.  The sender   *)
(* makes a further generation only while the last one has no result, and   *)
(* may confirm a later one in place of an earlier one.                     *)
(***************************************************************************)
GensOf(key) == { g \in DOMAIN gens : gens[g].key = key }

NewGen(key) ==
  /\ Len(gens) < MaxGens
  /\ \A g \in GensOf(key) : gens[g].success = Null
  /\ gens' = Append(gens, [key |-> key, success |-> Null])
  /\ UNCHANGED <<jobs, at, txName, answer, srcTable, dstTable, dbFaults, restarts>>

SetConfirmedGen(key, g) ==
  /\ g \in GensOf(key) /\ g > dstTable[key].confirmedGen
  /\ dstTable' = [dstTable EXCEPT ![key].confirmedGen = g]
  /\ UNCHANGED <<jobs, at, txName, answer, srcTable, gens, dbFaults, restarts>>

SetConfirmedSuccess(g, success) ==
  /\ gens[g].success = Null
  /\ gens' = [gens EXCEPT ![g].success = success]
  /\ UNCHANGED <<jobs, at, txName, answer, srcTable, dstTable, dbFaults, restarts>>

Sender ==
  \/ \E key \in DOMAIN dstTable : NewGen(key) \/ \E g \in DOMAIN gens : SetConfirmedGen(key, g)
  \/ \E g \in DOMAIN gens, success \in {"0", "1"} : SetConfirmedSuccess(g, success)

\* The struct is lost; the job comes with the name as it was.
Crash(w) ==
  /\ at[w] \notin {"off", "done"} /\ restarts < MaxRestarts
  /\ restarts' = restarts + 1
  /\ at' = [at EXCEPT ![w] = "exist"]
  /\ txName' = [txName EXCEPT ![w] = jobs[w].name]
  /\ answer' = [answer EXCEPT ![w] = NoGen]
  /\ UNCHANGED <<jobs, srcTable, dstTable, gens, dbFaults>>

Queries(w, o) == SrcExist(w, o) \/ DstExist(w, o) \/ GetDoneTxGenBySrc(w, o) \/ GetDoneTxGen(w, o)
Updates(w, o) == SrcSave(w, o) \/ SetResult(w, o) \/ SetResultWithDstHash(w, o) \/ DstSave(w, o)

TxStep(w) ==
  \/ \E o \in {"ok", "failed"} : Queries(w, o)
  \/ \E o \in {"ok", "failed", "lost"} : Updates(w, o)

TxNext == (\E w \in TxWorkers : TxStep(w) \/ Crash(w)) \/ Sender

\* Workers go on and the sender does its work.
TxFairness == (\A w \in TxWorkers : WF_txVars(TxStep(w))) /\ WF_txVars(Sender)

TxSpec == TxInit /\ [][TxNext]_txVars /\ TxFairness

(***************************************************************************)
(* Properties                                                              *)
(***************************************************************************)
TxJobs == UNION { Range(js) : js \in TxLoads }
TxStoreKeys == { <<j.of, Trim(j.name)>> : j \in TxJobs }
TxStoreValues == { j.value : j \in TxJobs }

\* All that the table says of a transaction, with or without blanks around its name.
ValuesOf(table) ==
  [k \in TxStoreKeys |->
     { table[r].value : r \in { r \in DOMAIN table : <<r[1], Trim(r[2])>> = k } }]

Src == INSTANCE TxRegister WITH TxKeys <- TxStoreKeys, TxValues <- TxStoreValues,
                                register <- ValuesOf(srcTable)
Dst == INSTANCE TxRegister WITH TxKeys <- TxStoreKeys, TxValues <- TxStoreValues,
                                register <- ValuesOf(dstTable)

\* Each of the two tables as a TxRegister.
SrcIsWriteOnce == Src!RegisterSpec
DstIsWriteOnce == Dst!RegisterSpec

\* t_src_transaction and t_dst_transaction implement TxRegister: whatever
\* workers race, crash, repeat a Save whose answer was lost or are told by
\* IsSrcTxExist that a transaction which is there is not, a transaction is
\* recorded once and what the first Save wrote is never overwritten.
TablesAreWriteOnce == SrcIsWriteOnce /\ DstIsWriteOnce

\* A worker that finished a deposit has left a result in its row; except that
\* a worker with a padded hash that did not Save itself reports to no row.
FinishedHasResult ==
  \A w \in TxWorkers :
    at[w] = "done" /\ jobs[w].kind = "src" /\ txName[w] = Trim(txName[w]) =>
      LET key == <<jobs[w].of, txName[w]>>
      IN  key \in DOMAIN srcTable /\ srcTable[key].result # NoResult

\* The generation that GetDoneTxGenBySrc returns, by two queries between which
\* the sender goes on, is of the worker's own payment, is or was its confirmed
\* one, and has the result it is returned with.
DoneGenIsOwn ==
  \A w \in TxWorkers :
    at[w] = "done" /\ jobs[w].kind = "dst" =>
      LET key == <<jobs[w].of, Trim(jobs[w].name)>>
      IN  /\ answer[w].gen \in GensOf(key) /\ answer[w].gen <= dstTable[key].confirmedGen
          /\ gens[answer[w].gen].success = answer[w].success /\ answer[w].success # Null

\* Every worker ends and stays so, after finitely many faults and crashes.
EveryJobFinishes == \A w \in TxWorkers : (at[w] = "exist") ~> [](at[w] = "done")
=============================================================================
