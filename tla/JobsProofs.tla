----------------------------- MODULE JobsProofs -----------------------------
(***************************************************************************)
(* The transaction tables implement TxRegister, a finished deposit has its *)
(* result and a finished payment its own generation; for any workers, jobs *)
(* and bounds on faults, crashes and generations.  The daily task runs at  *)
(* increasing times of day and the periodic one ends only when it must;    *)
(* for any day and any times.                                              *)
(***************************************************************************)
EXTENDS TxStore, Tasks, SequenceTheorems, TLAPS

Places == {"off", "exist", "save", "result", "poll", "gen", "done"}
Successes == {Null, "0", "1"}

SrcRow == [value : TxStoreValues, result : TxWorkers \cup {NoResult}, dst : BOOLEAN]
DstRow == [value : TxStoreValues, confirmedGen : Nat]
GenRow == [key : TxStoreKeys, success : Successes]

\* The key of a worker's row.
KeyOf(w) == <<jobs[w].of, Trim(jobs[w].name)>>

(* Workers keep their jobs; the name in the struct is the job's, trimmed or *)
(* not; each call belongs to a deposit or to a payment.                     *)
WorkersOK ==
  /\ jobs \in TxLoads
  /\ at \in [TxWorkers -> Places]
  /\ DOMAIN txName = TxWorkers /\ txName = [w \in TxWorkers |-> txName[w]]
  /\ \A w \in TxWorkers : txName[w] \in {jobs[w].name, Trim(jobs[w].name)}
  /\ \A w \in TxWorkers : at[w] = "result" => jobs[w].kind = "src"
  /\ \A w \in TxWorkers : at[w] \in {"poll", "gen"} => jobs[w].kind = "dst"
  /\ answer \in [TxWorkers -> [gen : Nat, success : Successes]]

(* The keys of a table are trimmed: two spellings are one row. *)
TablesOK ==
  /\ DOMAIN srcTable \subseteq TxStoreKeys /\ srcTable \in [DOMAIN srcTable -> SrcRow]
  /\ DOMAIN dstTable \subseteq TxStoreKeys /\ dstTable \in [DOMAIN dstTable -> DstRow]
  /\ gens \in Seq(GenRow)

(* A deposit that was found or saved is there; once a worker is done with   *)
(* its trimmed name, it has a result.                                       *)
DepositsOK ==
  \A w \in TxWorkers :
    /\ at[w] = "result" => KeyOf(w) \in DOMAIN srcTable
    /\ at[w] = "done" /\ jobs[w].kind = "src" /\ txName[w] = Trim(txName[w]) =>
         KeyOf(w) \in DOMAIN srcTable /\ srcTable[KeyOf(w)].result # NoResult

(* A generation that is confirmed is of the payment that confirms it, and   *)
(* so is the one that a worker read, which may be older.                    *)
PaymentsOK ==
  /\ \A k \in DOMAIN dstTable :
       dstTable[k].confirmedGen # 0 => dstTable[k].confirmedGen \in GensOf(k)
  /\ \A w \in TxWorkers :
       at[w] = "gen" \/ (at[w] = "done" /\ jobs[w].kind = "dst") =>
         /\ KeyOf(w) \in DOMAIN dstTable
         /\ answer[w].gen \in GensOf(KeyOf(w))
         /\ answer[w].gen <= dstTable[KeyOf(w)].confirmedGen
         /\ at[w] = "done" => /\ gens[answer[w].gen].success = answer[w].success
                              /\ answer[w].success # Null

TxInv == WorkersOK /\ TablesOK /\ DepositsOK /\ PaymentsOK

-----------------------------------------------------------------------------
(* Trimming twice is trimming once. *)
LEMMA TrimTwice ==
    ASSUME NEW s \in Text
    PROVE  Trim(s) \in Text /\ Trim(Trim(s)) = Trim(s)
  BY DEF Text, Trim

(* What the assumption says of a job. *)
LEMMA JobFacts ==
    ASSUME WorkersOK, NEW w \in TxWorkers
    PROVE  /\ jobs[w].kind \in {"src", "dst"}
           /\ jobs[w].name \in Text /\ txName[w] \in Text
           /\ Trim(txName[w]) = Trim(jobs[w].name)
           /\ jobs[w].value \in TxStoreValues
           /\ KeyOf(w) \in TxStoreKeys
  <1>1. jobs[w] \in Range(jobs) /\ jobs \in TxLoads
    BY TxAssumption DEF WorkersOK, Range
  <1>2. jobs[w] \in TxJobs
    BY <1>1 DEF TxJobs
  <1>3. jobs[w].kind \in {"src", "dst"} /\ jobs[w].name \in Text
    BY <1>1, TxAssumption
  <1> QED
    BY <1>2, <1>3, TrimTwice DEF WorkersOK, TxStoreValues, TxStoreKeys, KeyOf

(* The initial states satisfy the invariant. *)
LEMMA TxInitInv == TxInit => TxInv
  <1> SUFFICES ASSUME NEW js \in TxLoads, TxInitWith(js, "exist") PROVE TxInv
    BY DEF TxInit
  <1>1. WorkersOK
    BY TxAssumption DEF TxInitWith, WorkersOK, Places, Successes, NoGen, Null
  <1>2. TablesOK
    BY DEF TxInitWith, TablesOK
  <1>3. DepositsOK /\ PaymentsOK
    BY DEF TxInitWith, DepositsOK, PaymentsOK
  <1> QED
    BY <1>1, <1>2, <1>3 DEF TxInv

(* The first query of GetDoneTxGenBySrc finds the confirmed generation of   *)
(* the worker's own payment, or 0. *)
LEMMA ConfirmGenFacts ==
    ASSUME TxInv, NEW w \in TxWorkers, NEW o
    PROVE  /\ GetDstTxConfirmGen(w, o) \in Nat
           /\ GetDstTxConfirmGen(w, o) # 0 =>
                /\ KeyOf(w) \in DOMAIN dstTable
                /\ GetDstTxConfirmGen(w, o) = dstTable[KeyOf(w)].confirmedGen
  <1>1. <<jobs[w].of, Trim(txName[w])>> = KeyOf(w)
    BY JobFacts DEF TxInv, KeyOf
  <1>2. KeyOf(w) \in DOMAIN dstTable => dstTable[KeyOf(w)].confirmedGen \in Nat
    BY DEF TxInv, TablesOK, DstRow
  <1> QED
    BY <1>1, <1>2 DEF GetDstTxConfirmGen

(* The sender touches no worker and no deposit. *)
LEMMA SenderLeavesWorkers ==
    ASSUME Sender PROVE UNCHANGED <<jobs, at, txName, answer, srcTable>>
  <1>1. ASSUME NEW key, NewGen(key) PROVE UNCHANGED <<jobs, at, txName, answer, srcTable>>
    BY <1>1 DEF NewGen
  <1>2. ASSUME NEW key, NEW g, SetConfirmedGen(key, g)
        PROVE  UNCHANGED <<jobs, at, txName, answer, srcTable>>
    BY <1>2 DEF SetConfirmedGen
  <1>3. ASSUME NEW g, NEW success, SetConfirmedSuccess(g, success)
        PROVE  UNCHANGED <<jobs, at, txName, answer, srcTable>>
    BY <1>3 DEF SetConfirmedSuccess
  <1> QED
    BY <1>1, <1>2, <1>3 DEF Sender

(* Every step keeps the workers as they should be. *)
LEMMA WorkersStep == TxInv /\ [TxNext]_txVars => WorkersOK'
  <1> SUFFICES ASSUME TxInv, [TxNext]_txVars PROVE WorkersOK'
    OBVIOUS
  <1>1. ASSUME NEW w \in TxWorkers, NEW o, SrcExist(w, o) \/ DstExist(w, o) PROVE WorkersOK'
    BY <1>1 DEF TxInv, WorkersOK, SrcExist, DstExist, Places
  <1>2. ASSUME NEW w \in TxWorkers, NEW o, SrcSave(w, o) \/ DstSave(w, o) PROVE WorkersOK'
    BY <1>2, JobFacts DEF TxInv, WorkersOK, SrcSave, DstSave, Places
  <1>3. ASSUME NEW w \in TxWorkers, NEW o, SetResult(w, o) \/ SetResultWithDstHash(w, o)
        PROVE  WorkersOK'
    BY <1>3 DEF TxInv, WorkersOK, SetResult, SetResultWithDstHash, Places
  <1>4. ASSUME NEW w \in TxWorkers, NEW o, GetDoneTxGenBySrc(w, o) PROVE WorkersOK'
    <2> DEFINE g == GetDstTxConfirmGen(w, o)
    <2>1. g \in Nat
      BY <1>4, ConfirmGenFacts DEF GetDoneTxGenBySrc
    <2> HIDE DEF g
    <2>2. CASE g = 0
      BY <1>4, <2>2 DEF TxInv, WorkersOK, GetDoneTxGenBySrc, g
    <2>3. CASE g # 0
      <3>1. /\ answer' = [answer EXCEPT ![w] = [gen |-> g, success |-> Null]]
            /\ at' = [at EXCEPT ![w] = "gen"] /\ at[w] = "poll" /\ UNCHANGED <<jobs, txName>>
        BY <1>4, <2>3 DEF GetDoneTxGenBySrc, g
      <3>2. answer' \in [TxWorkers -> [gen : Nat, success : Successes]]
        BY <2>1, <3>1 DEF TxInv, WorkersOK, Successes
      <3> QED
        BY <3>1, <3>2 DEF TxInv, WorkersOK, Places
    <2> QED
      BY <2>2, <2>3
  <1>5. ASSUME NEW w \in TxWorkers, NEW o, GetDoneTxGen(w, o) PROVE WorkersOK'
    <2> DEFINE success == gens[answer[w].gen].success
    <2>1. success \in Successes
      <3>1. answer[w].gen \in DOMAIN gens
        BY <1>5 DEF GetDoneTxGen, TxInv, PaymentsOK, GensOf
      <3>2. gens[answer[w].gen] \in GenRow
        BY <3>1 DEF TxInv, TablesOK
      <3> QED
        BY <3>2 DEF GenRow
    <2>2. UNCHANGED <<jobs, txName>> /\ at[w] = "gen"
      BY <1>5 DEF GetDoneTxGen
    <2> HIDE DEF success
    <2>3. CASE /\ answer' = [answer EXCEPT ![w].success = success]
               /\ at' = [at EXCEPT ![w] = "done"]
      <3>1. answer' \in [TxWorkers -> [gen : Nat, success : Successes]]
        BY <2>1, <2>3 DEF TxInv, WorkersOK
      <3>2. at' \in [TxWorkers -> Places] /\ \A v \in TxWorkers : at'[v] = at[v] \/ at'[v] = "done"
        BY <2>3 DEF TxInv, WorkersOK, Places
      <3> QED
        BY <2>2, <3>1, <3>2 DEF TxInv, WorkersOK
    <2>4. CASE /\ answer' = [answer EXCEPT ![w] = NoGen]
               /\ at' = [at EXCEPT ![w] = "poll"]
      BY <2>2, <2>4 DEF TxInv, WorkersOK, Places, Successes, NoGen
    <2> QED
      BY <1>5, <2>3, <2>4 DEF GetDoneTxGen, success
  <1>6. ASSUME NEW w \in TxWorkers, Crash(w) PROVE WorkersOK'
    BY <1>6 DEF TxInv, WorkersOK, Crash, Places, Successes, NoGen
  <1>7. CASE Sender
    BY <1>7, SenderLeavesWorkers DEF TxInv, WorkersOK
  <1>8. CASE UNCHANGED txVars
    BY <1>8 DEF TxInv, WorkersOK, txVars
  <1> QED
    BY <1>1, <1>2, <1>3, <1>4, <1>5, <1>6, <1>7, <1>8 DEF TxNext, TxStep, Queries, Updates

(* A result leaves the other columns and the other rows as they are.        *)
LEMMA ResultStep ==
    ASSUME TxInv, NEW w \in TxWorkers, NEW o, SetResult(w, o) \/ SetResultWithDstHash(w, o)
    PROVE  /\ DOMAIN srcTable' = DOMAIN srcTable
           /\ srcTable' \in [DOMAIN srcTable -> SrcRow]
           /\ \A k \in DOMAIN srcTable :
                /\ srcTable'[k].value = srcTable[k].value
                /\ srcTable'[k].result # srcTable[k].result => srcTable'[k].result = w
                /\ o # "failed" /\ k[2] = txName[w] => srcTable'[k].result = w
  <1>1. CASE SetResult(w, o)
    <2>1. CASE o = "failed"
      BY <1>1, <2>1 DEF SetResult, TxInv, TablesOK
    <2>2. CASE o # "failed"
      <3>1. srcTable' = [k \in DOMAIN srcTable |->
                           IF k[2] = txName[w] THEN [srcTable[k] EXCEPT !.result = w] ELSE srcTable[k]]
        BY <1>1, <2>2 DEF SetResult, Updated
      <3> QED
        BY <2>2, <3>1 DEF TxInv, TablesOK, SrcRow
    <2> QED
      BY <2>1, <2>2
  <1>2. CASE SetResultWithDstHash(w, o)
    <2>1. CASE o = "failed"
      BY <1>2, <2>1 DEF SetResultWithDstHash, TxInv, TablesOK
    <2>2. CASE o # "failed"
      <3>1. srcTable' = [k \in DOMAIN srcTable |->
                           IF k[2] = txName[w] THEN [srcTable[k] EXCEPT !.result = w, !.dst = TRUE]
                           ELSE srcTable[k]]
        BY <1>2, <2>2 DEF SetResultWithDstHash, Updated
      <3> QED
        BY <2>2, <3>1 DEF TxInv, TablesOK, SrcRow
    <2> QED
      BY <2>1, <2>2
  <1> QED
    BY <1>1, <1>2

(* Every step keeps the tables well formed. *)
LEMMA TablesStep == TxInv /\ [TxNext]_txVars => TablesOK'
  <1> SUFFICES ASSUME TxInv, [TxNext]_txVars PROVE TablesOK'
    OBVIOUS
  <1>1. ASSUME NEW w \in TxWorkers, NEW o, Queries(w, o) PROVE TablesOK'
    BY <1>1 DEF Queries, SrcExist, DstExist, GetDoneTxGenBySrc, GetDoneTxGen, TxInv, TablesOK
  <1>2. ASSUME NEW w \in TxWorkers, NEW o, SrcSave(w, o) PROVE TablesOK'
    <2> DEFINE row == [value |-> jobs[w].value, result |-> NoResult, dst |-> FALSE]
    <2>1. row \in SrcRow
      BY JobFacts DEF TxInv, SrcRow
    <2> HIDE DEF row
    <2>2. o # "failed" => srcTable' = InsertIgnore(srcTable, KeyOf(w), row)
      BY <1>2, JobFacts DEF SrcSave, TxInv, WorkersOK, KeyOf, row
    <2>3. KeyOf(w) \in TxStoreKeys
      BY JobFacts DEF TxInv
    <2>4. DOMAIN srcTable' \subseteq TxStoreKeys /\ srcTable' \in [DOMAIN srcTable' -> SrcRow]
      <3>1. CASE o = "failed"
        BY <1>2, <3>1 DEF SrcSave, TxInv, TablesOK
      <3>2. CASE o # "failed"
        BY <2>1, <2>2, <2>3, <3>2 DEF InsertIgnore, TxInv, TablesOK
      <3> QED
        BY <3>1, <3>2
    <2> QED
      BY <1>2, <2>4 DEF SrcSave, TxInv, TablesOK
  <1>3. ASSUME NEW w \in TxWorkers, NEW o, DstSave(w, o) PROVE TablesOK'
    <2> DEFINE row == [value |-> jobs[w].value, confirmedGen |-> 0]
    <2>1. row \in DstRow
      BY JobFacts DEF TxInv, DstRow
    <2> HIDE DEF row
    <2>2. o # "failed" => dstTable' = InsertIgnore(dstTable, KeyOf(w), row)
      BY <1>3, JobFacts DEF DstSave, TxInv, WorkersOK, KeyOf, row
    <2>3. KeyOf(w) \in TxStoreKeys
      BY JobFacts DEF TxInv
    <2>4. DOMAIN dstTable' \subseteq TxStoreKeys /\ dstTable' \in [DOMAIN dstTable' -> DstRow]
      <3>1. CASE o = "failed"
        BY <1>3, <3>1 DEF DstSave, TxInv, TablesOK
      <3>2. CASE o # "failed"
        BY <2>1, <2>2, <2>3, <3>2 DEF InsertIgnore, TxInv, TablesOK
      <3> QED
        BY <3>1, <3>2
    <2> QED
      BY <1>3, <2>4 DEF DstSave, TxInv, TablesOK
  <1>4. ASSUME NEW w \in TxWorkers, NEW o, SetResult(w, o) \/ SetResultWithDstHash(w, o)
        PROVE  TablesOK'
    <2>1. UNCHANGED <<dstTable, gens>>
      BY <1>4 DEF SetResult, SetResultWithDstHash
    <2> QED
      BY <1>4, <2>1, ResultStep DEF TxInv, TablesOK
  <1>5. ASSUME NEW w \in TxWorkers, Crash(w) PROVE TablesOK'
    BY <1>5 DEF Crash, TxInv, TablesOK
  <1>6. ASSUME NEW key \in DOMAIN dstTable, NewGen(key) PROVE TablesOK'
    <2>1. [key |-> key, success |-> Null] \in GenRow
      BY DEF TxInv, TablesOK, GenRow, Successes
    <2> QED
      BY <1>6, <2>1, AppendProperties DEF NewGen, TxInv, TablesOK
  <1>7. ASSUME NEW key \in DOMAIN dstTable, NEW g \in DOMAIN gens, SetConfirmedGen(key, g)
        PROVE  TablesOK'
    BY <1>7 DEF SetConfirmedGen, GensOf, TxInv, TablesOK, DstRow
  <1>8. ASSUME NEW g \in DOMAIN gens, NEW success \in {"0", "1"}, SetConfirmedSuccess(g, success)
        PROVE  TablesOK'
    <2> DEFINE r == [gens[g] EXCEPT !.success = success]
    <2>1. gens \in Seq(GenRow) /\ gens[g] \in GenRow /\ g \in 1..Len(gens)
      BY DEF TxInv, TablesOK
    <2>2. r \in GenRow
      BY <2>1 DEF GenRow, Successes
    <2>3. gens' = [gens EXCEPT ![g] = r]
      BY <1>8 DEF SetConfirmedSuccess
    <2> HIDE DEF r
    <2>4. gens' \in Seq(GenRow)
      BY <2>1, <2>2, <2>3, ExceptSeq
    <2> QED
      BY <1>8, <2>4 DEF SetConfirmedSuccess, TxInv, TablesOK
  <1>9. CASE UNCHANGED txVars
    BY <1>9 DEF txVars, TxInv, TablesOK
  <1> QED
    BY <1>1, <1>2, <1>3, <1>4, <1>5, <1>6, <1>7, <1>8, <1>9
       DEF TxNext, TxStep, Updates, Sender

(* No step takes a row out of t_src_transaction, changes its value or takes *)
(* its result back; jobs stay as they are. *)
LEMMA SrcMonotone ==
    ASSUME TxInv, [TxNext]_txVars
    PROVE  /\ jobs' = jobs
           /\ \A k \in DOMAIN srcTable :
                /\ k \in DOMAIN srcTable'
                /\ srcTable'[k].value = srcTable[k].value
                /\ srcTable[k].result # NoResult => srcTable'[k].result # NoResult
  <1> DEFINE Kept == /\ jobs' = jobs
                     /\ \A k \in DOMAIN srcTable :
                          /\ k \in DOMAIN srcTable'
                          /\ srcTable'[k].value = srcTable[k].value
                          /\ srcTable[k].result # NoResult => srcTable'[k].result # NoResult
  <1>1. ASSUME NEW w \in TxWorkers, NEW o, Queries(w, o) PROVE Kept
    BY <1>1 DEF Queries, SrcExist, DstExist, GetDoneTxGenBySrc, GetDoneTxGen
  <1>2. ASSUME NEW w \in TxWorkers, NEW o, SrcSave(w, o) PROVE Kept
    BY <1>2 DEF SrcSave, InsertIgnore
  <1>3. ASSUME NEW w \in TxWorkers, NEW o, SetResult(w, o) \/ SetResultWithDstHash(w, o) PROVE Kept
    <2>1. jobs' = jobs
      BY <1>3 DEF SetResult, SetResultWithDstHash
    <2> QED
      BY <1>3, <2>1, ResultStep, TxAssumption
  <1>4. ASSUME NEW w \in TxWorkers, NEW o, DstSave(w, o) PROVE Kept
    BY <1>4 DEF DstSave
  <1>5. ASSUME NEW w \in TxWorkers, Crash(w) PROVE Kept
    BY <1>5 DEF Crash
  <1>6. CASE Sender
    BY <1>6, SenderLeavesWorkers
  <1>7. CASE UNCHANGED txVars
    BY <1>7 DEF txVars
  <1> QED
    BY <1>1, <1>2, <1>3, <1>4, <1>5, <1>6, <1>7 DEF TxNext, TxStep, Updates

(* Every step keeps DepositsOK. *)
LEMMA DepositsStep == TxInv /\ [TxNext]_txVars => DepositsOK'
  <1> SUFFICES ASSUME TxInv, [TxNext]_txVars, NEW v \in TxWorkers
               PROVE  /\ at'[v] = "result" => KeyOf(v) \in DOMAIN srcTable'
                      /\ at'[v] = "done" /\ jobs[v].kind = "src" /\ txName'[v] = Trim(txName'[v]) =>
                           KeyOf(v) \in DOMAIN srcTable' /\ srcTable'[KeyOf(v)].result # NoResult
    BY SrcMonotone DEF DepositsOK, KeyOf
  <1> DEFINE Goal == /\ at'[v] = "result" => KeyOf(v) \in DOMAIN srcTable'
                     /\ at'[v] = "done" /\ jobs[v].kind = "src" /\ txName'[v] = Trim(txName'[v]) =>
                          KeyOf(v) \in DOMAIN srcTable' /\ srcTable'[KeyOf(v)].result # NoResult
  <1>1. CASE at'[v] = at[v] /\ txName'[v] = txName[v]
    BY <1>1, SrcMonotone DEF TxInv, DepositsOK
  <1>2. CASE at'[v] \notin {"result", "done"}
    BY <1>2
  <1>3. ASSUME NEW w \in TxWorkers, NEW o, SrcExist(w, o) PROVE Goal
    <2>1. CASE w = v
      <3>1. KeyOf(v) = <<jobs[v].of, Trim(txName[v])>>
        BY JobFacts DEF TxInv, KeyOf
      <3> QED
        BY <1>3, <2>1, <3>1 DEF SrcExist, IsSrcTxExist, TxInv, WorkersOK
    <2> QED
      BY <1>1, <1>3, <2>1 DEF SrcExist, TxInv, WorkersOK
  <1>4. ASSUME NEW w \in TxWorkers, NEW o, SrcSave(w, o) PROVE Goal
    <2>1. CASE w = v
      <3>1. KeyOf(v) = <<jobs[v].of, Trim(txName[v])>>
        BY JobFacts DEF TxInv, KeyOf
      <3> QED
        BY <1>4, <2>1, <3>1 DEF SrcSave, InsertIgnore, TxInv, WorkersOK
    <2> QED
      BY <1>1, <1>4, <2>1 DEF SrcSave, TxInv, WorkersOK
  <1>5. ASSUME NEW w \in TxWorkers, NEW o, SetResult(w, o) \/ SetResultWithDstHash(w, o) PROVE Goal
    <2>1. UNCHANGED txName /\ at[w] = "result" /\ (o # "ok" => at'[w] = "result")
          /\ \A u \in TxWorkers \ {w} : at'[u] = at[u]
      BY <1>5 DEF SetResult, SetResultWithDstHash, TxInv, WorkersOK
    <2>2. CASE w = v /\ o = "ok"
      <3>1. KeyOf(v) \in DOMAIN srcTable
        BY <2>1, <2>2 DEF TxInv, DepositsOK
      <3>2. txName'[v] = Trim(txName'[v]) => KeyOf(v)[2] = txName[v]
        BY <2>1, JobFacts DEF TxInv, KeyOf
      <3> QED
        BY <1>5, <2>2, <3>1, <3>2, ResultStep, TxAssumption
    <2> QED
      BY <1>1, <2>1, <2>2
  <1>6. ASSUME NEW w \in TxWorkers, NEW o, DstExist(w, o) \/ DstSave(w, o) PROVE Goal
    BY <1>1, <1>2, <1>6 DEF DstExist, DstSave, TxInv, WorkersOK
  <1>7. ASSUME NEW w \in TxWorkers, NEW o, GetDoneTxGenBySrc(w, o) PROVE Goal
    BY <1>1, <1>2, <1>7 DEF GetDoneTxGenBySrc, TxInv, WorkersOK
  <1>8. ASSUME NEW w \in TxWorkers, NEW o, GetDoneTxGen(w, o) PROVE Goal
    <2>1. CASE w = v
      BY <1>8, <2>1 DEF GetDoneTxGen, TxInv, WorkersOK
    <2> QED
      BY <1>1, <1>8, <2>1 DEF GetDoneTxGen, TxInv, WorkersOK
  <1>9. ASSUME NEW w \in TxWorkers, Crash(w) PROVE Goal
    BY <1>1, <1>2, <1>9 DEF Crash, TxInv, WorkersOK
  <1>10. CASE Sender \/ UNCHANGED txVars
    BY <1>1, <1>10, SenderLeavesWorkers DEF txVars
  <1> QED
    BY <1>3, <1>4, <1>5, <1>6, <1>7, <1>8, <1>9, <1>10 DEF TxNext, TxStep, Queries, Updates

(* A payment stays, its confirmed generation only grows, and a generation   *)
(* keeps its payment and its result. *)
LEMMA DstMonotone ==
    ASSUME TxInv, [TxNext]_txVars
    PROVE  /\ \A k \in DOMAIN dstTable :
                /\ k \in DOMAIN dstTable'
                /\ dstTable'[k].value = dstTable[k].value
                /\ dstTable[k].confirmedGen <= dstTable'[k].confirmedGen
                /\ \/ dstTable'[k].confirmedGen = dstTable[k].confirmedGen
                   \/ dstTable'[k].confirmedGen \in GensOf(k)
           /\ \A k \in DOMAIN dstTable' \ DOMAIN dstTable : dstTable'[k].confirmedGen = 0
           /\ \A g \in DOMAIN gens :
                /\ g \in DOMAIN gens' /\ gens'[g].key = gens[g].key
                /\ gens[g].success # Null => gens'[g].success = gens[g].success
  <1> DEFINE Rows == /\ \A k \in DOMAIN dstTable :
                          /\ k \in DOMAIN dstTable'
                          /\ dstTable'[k].value = dstTable[k].value
                          /\ dstTable[k].confirmedGen <= dstTable'[k].confirmedGen
                          /\ \/ dstTable'[k].confirmedGen = dstTable[k].confirmedGen
                             \/ dstTable'[k].confirmedGen \in GensOf(k)
                     /\ \A k \in DOMAIN dstTable' \ DOMAIN dstTable : dstTable'[k].confirmedGen = 0
             Gens == \A g \in DOMAIN gens :
                       /\ g \in DOMAIN gens' /\ gens'[g].key = gens[g].key
                       /\ gens[g].success # Null => gens'[g].success = gens[g].success
  <1>1. \A k \in DOMAIN dstTable : dstTable[k].confirmedGen \in Nat
    BY DEF TxInv, TablesOK, DstRow
  <1>2. UNCHANGED dstTable => Rows
    BY <1>1
  <1>3. UNCHANGED gens => Gens
    OBVIOUS
  <1>4. ASSUME NEW w \in TxWorkers, NEW o, Queries(w, o) PROVE Rows /\ Gens
    BY <1>2, <1>3, <1>4 DEF Queries, SrcExist, DstExist, GetDoneTxGenBySrc, GetDoneTxGen
  <1>5. ASSUME NEW w \in TxWorkers, NEW o,
               SrcSave(w, o) \/ SetResult(w, o) \/ SetResultWithDstHash(w, o)
        PROVE  Rows /\ Gens
    BY <1>2, <1>3, <1>5 DEF SrcSave, SetResult, SetResultWithDstHash
  <1>6. ASSUME NEW w \in TxWorkers, NEW o, DstSave(w, o) PROVE Rows /\ Gens
    BY <1>1, <1>3, <1>6 DEF DstSave, InsertIgnore
  <1>7. ASSUME NEW w \in TxWorkers, Crash(w) PROVE Rows /\ Gens
    BY <1>2, <1>3, <1>7 DEF Crash
  <1>8. ASSUME NEW key \in DOMAIN dstTable, NewGen(key) PROVE Rows /\ Gens
    BY <1>2, <1>8, AppendProperties DEF NewGen, TxInv, TablesOK
  <1>9. ASSUME NEW key \in DOMAIN dstTable, NEW g \in DOMAIN gens, SetConfirmedGen(key, g)
        PROVE  Rows /\ Gens
    <2>1. g \in Nat
      BY DEF TxInv, TablesOK
    <2>2. dstTable[key] \in DstRow
      BY DEF TxInv, TablesOK
    <2> QED
      BY <1>1, <1>3, <1>9, <2>1, <2>2 DEF SetConfirmedGen, GensOf, DstRow, TxInv, TablesOK
  <1>10. ASSUME NEW g \in DOMAIN gens, NEW success \in {"0", "1"}, SetConfirmedSuccess(g, success)
         PROVE  Rows /\ Gens
    <2>1. gens[g] \in GenRow
      BY DEF TxInv, TablesOK
    <2> QED
      BY <1>2, <1>10, <2>1 DEF SetConfirmedSuccess, GenRow, TxInv, TablesOK
  <1>11. CASE UNCHANGED txVars
    BY <1>2, <1>3, <1>11 DEF txVars
  <1> QED
    BY <1>4, <1>5, <1>6, <1>7, <1>8, <1>9, <1>10, <1>11 DEF TxNext, TxStep, Updates, Sender

(* Every step keeps PaymentsOK. *)
LEMMA PaymentsStep == TxInv /\ [TxNext]_txVars => PaymentsOK'
  <1> SUFFICES ASSUME TxInv, [TxNext]_txVars PROVE PaymentsOK'
    OBVIOUS
  <1> DEFINE Own(v) == /\ KeyOf(v) \in DOMAIN dstTable'
                       /\ answer'[v].gen \in DOMAIN gens' /\ gens'[answer'[v].gen].key = KeyOf(v)
                       /\ answer'[v].gen <= dstTable'[KeyOf(v)].confirmedGen
                       /\ at'[v] = "done" => /\ gens'[answer'[v].gen].success = answer'[v].success
                                             /\ answer'[v].success # Null
             Asked(v) == at'[v] = "gen" \/ (at'[v] = "done" /\ jobs[v].kind = "dst")
  <1>1. \A k \in DOMAIN dstTable' :
          dstTable'[k].confirmedGen # 0 => dstTable'[k].confirmedGen \in GensOf(k)'
    BY DstMonotone DEF TxInv, PaymentsOK, GensOf
  <1>2. ASSUME NEW v \in TxWorkers, Asked(v), at'[v] = at[v], answer'[v] = answer[v] PROVE Own(v)
    <2>1. /\ KeyOf(v) \in DOMAIN dstTable /\ answer[v].gen \in GensOf(KeyOf(v))
          /\ answer[v].gen <= dstTable[KeyOf(v)].confirmedGen
          /\ at[v] = "done" => gens[answer[v].gen].success = answer[v].success /\ answer[v].success # Null
      BY <1>2 DEF TxInv, PaymentsOK
    <2>2. answer[v].gen \in Nat /\ dstTable[KeyOf(v)].confirmedGen \in Nat
          /\ dstTable'[KeyOf(v)].confirmedGen \in Nat
      BY <2>1, DstMonotone, TablesStep DEF TxInv, WorkersOK, TablesOK, DstRow
    <2> QED
      BY <1>2, <2>1, <2>2, DstMonotone DEF GensOf
  <1>3. ASSUME NEW w \in TxWorkers, NEW o, GetDoneTxGenBySrc(w, o), NEW v \in TxWorkers, Asked(v)
        PROVE  Own(v)
    <2> DEFINE g == GetDstTxConfirmGen(w, o)
    <2>1. CASE g = 0 \/ w # v
      BY <1>2, <1>3, <2>1 DEF GetDoneTxGenBySrc, TxInv, WorkersOK
    <2>2. CASE g # 0 /\ w = v
      <3>1. g \in Nat /\ KeyOf(v) \in DOMAIN dstTable /\ g = dstTable[KeyOf(v)].confirmedGen
        BY <2>2, ConfirmGenFacts
      <3>2. answer'[v].gen = g /\ at'[v] = "gen" /\ UNCHANGED <<dstTable, gens>>
        BY <1>3, <2>2 DEF GetDoneTxGenBySrc, TxInv, WorkersOK
      <3> HIDE DEF g
      <3> QED
        BY <2>2, <3>1, <3>2 DEF TxInv, PaymentsOK, GensOf
    <2> QED
      BY <2>1, <2>2
  <1>4. ASSUME NEW w \in TxWorkers, NEW o, GetDoneTxGen(w, o), NEW v \in TxWorkers, Asked(v)
        PROVE  Own(v)
    <2>1. CASE w # v
      BY <1>2, <1>4, <2>1 DEF GetDoneTxGen, TxInv, WorkersOK
    <2>2. CASE w = v
      <3>1. at'[v] = "done"
        BY <1>4, <2>2 DEF GetDoneTxGen, TxInv, WorkersOK
      <3>2. /\ answer'[v].gen = answer[v].gen /\ answer'[v].success = gens[answer[v].gen].success
            /\ answer'[v].success # Null /\ UNCHANGED <<dstTable, gens>> /\ at[v] = "gen"
        BY <1>4, <2>2, <3>1 DEF GetDoneTxGen, TxInv, WorkersOK
      <3> QED
        BY <3>1, <3>2 DEF TxInv, PaymentsOK, GensOf
    <2> QED
      BY <2>1, <2>2
  <1>5. ASSUME NEW w \in TxWorkers, NEW o, SrcExist(w, o) \/ DstExist(w, o) \/ SrcSave(w, o) \/ DstSave(w, o),
               NEW v \in TxWorkers, Asked(v)
        PROVE  Own(v)
    BY <1>2, <1>5 DEF SrcExist, DstExist, SrcSave, DstSave, TxInv, WorkersOK
  <1>6. ASSUME NEW w \in TxWorkers, NEW o, SetResult(w, o) \/ SetResultWithDstHash(w, o),
               NEW v \in TxWorkers, Asked(v)
        PROVE  Own(v)
    <2>1. at[w] = "result" /\ UNCHANGED answer /\ \A u \in TxWorkers \ {w} : at'[u] = at[u]
      BY <1>6 DEF SetResult, SetResultWithDstHash, TxInv, WorkersOK
    <2>2. w # v
      BY <1>6, <2>1 DEF SetResult, SetResultWithDstHash, TxInv, WorkersOK
    <2> QED
      BY <1>2, <1>6, <2>1, <2>2
  <1>7. ASSUME NEW w \in TxWorkers, Crash(w), NEW v \in TxWorkers, Asked(v) PROVE Own(v)
    BY <1>2, <1>7 DEF Crash, TxInv, WorkersOK
  <1>8. ASSUME Sender \/ UNCHANGED txVars, NEW v \in TxWorkers, Asked(v) PROVE Own(v)
    BY <1>2, <1>8, SenderLeavesWorkers DEF txVars
  <1>9. \A v \in TxWorkers : Asked(v) => Own(v)
    BY <1>3, <1>4, <1>5, <1>6, <1>7, <1>8 DEF TxNext, TxStep, Queries, Updates
  <1> QED
    <2>1. \A v \in TxWorkers : jobs'[v] = jobs[v] /\ KeyOf(v)' = KeyOf(v)
      BY SrcMonotone DEF KeyOf
    <2>2. \A v \in TxWorkers : Own(v) => answer'[v].gen \in GensOf(KeyOf(v))'
      BY <2>1 DEF GensOf
    <2> QED
      BY <1>1, <1>9, <2>1, <2>2 DEF PaymentsOK

(* The invariant holds of every behaviour, whatever the fairness. *)
THEOREM TxInvariant == TxSpec => []TxInv
  <1>1. TxInv /\ [TxNext]_txVars => TxInv'
    BY WorkersStep, TablesStep, DepositsStep, PaymentsStep DEF TxInv
  <1> QED
    BY <1>1, TxInitInv, PTL DEF TxSpec

(* A worker that finished a deposit under its trimmed hash left a result.   *)
THEOREM FinishedDepositHasResult == TxSpec => []FinishedHasResult
  <1>1. TxInv => FinishedHasResult
    <2> SUFFICES ASSUME TxInv, NEW w \in TxWorkers, at[w] = "done", jobs[w].kind = "src",
                        txName[w] = Trim(txName[w])
                 PROVE  LET key == <<jobs[w].of, txName[w]>>
                        IN  key \in DOMAIN srcTable /\ srcTable[key].result # NoResult
      BY DEF FinishedHasResult
    <2>1. KeyOf(w) = <<jobs[w].of, txName[w]>>
      BY JobFacts DEF TxInv, KeyOf
    <2> QED
      BY <2>1 DEF TxInv, DepositsOK
  <1> QED
    BY <1>1, TxInvariant, PTL

(* The generation a finished payment got is its own and has a result.       *)
THEOREM FinishedPaymentHasOwnGen == TxSpec => []DoneGenIsOwn
  <1>1. TxInv => DoneGenIsOwn
    BY DEF TxInv, PaymentsOK, DoneGenIsOwn, KeyOf
  <1> QED
    BY <1>1, TxInvariant, PTL

-----------------------------------------------------------------------------
(* The tables as registers: as the keys are trimmed, a key has one row.     *)
LEMMA ValuesOfTable ==
    ASSUME NEW table, DOMAIN table \subseteq TxStoreKeys, NEW k \in TxStoreKeys
    PROVE  ValuesOf(table)[k] = IF k \in DOMAIN table THEN {table[k].value} ELSE {}
  <1>1. \A r \in TxStoreKeys : <<r[1], Trim(r[2])>> = r
    <2> SUFFICES ASSUME NEW r \in TxStoreKeys PROVE <<r[1], Trim(r[2])>> = r
      OBVIOUS
    <2>1. PICK js \in TxLoads : \E j \in Range(js) : r = <<j.of, Trim(j.name)>>
      BY DEF TxStoreKeys, TxJobs
    <2>2. PICK j \in Range(js) : r = <<j.of, Trim(j.name)>>
      BY <2>1
    <2>3. j.name \in Text
      BY TxAssumption
    <2> QED
      BY <2>2, <2>3, TrimTwice
  <1>2. { r \in DOMAIN table : <<r[1], Trim(r[2])>> = k } = DOMAIN table \cap {k}
    BY <1>1
  <1>3. ValuesOf(table)[k] = { table[r].value : r \in DOMAIN table \cap {k} }
    BY <1>2 DEF ValuesOf
  <1> QED
    BY <1>3

(* A table that keeps its rows and gets at most one more writes a register  *)
(* that was empty, or leaves all as they are. *)
LEMMA OneRowWritesOnce ==
    ASSUME NEW t, NEW u, NEW key \in TxStoreKeys,
           DOMAIN t \subseteq DOMAIN u, DOMAIN u \subseteq DOMAIN t \cup {key},
           DOMAIN u \subseteq TxStoreKeys,
           \A k \in DOMAIN t : u[k].value = t[k].value,
           \A k \in DOMAIN u : u[k].value \in TxStoreValues
    PROVE  \/ ValuesOf(u) = ValuesOf(t)
           \/ \E k \in TxStoreKeys, v \in TxStoreValues :
                /\ ValuesOf(t)[k] = {}
                /\ ValuesOf(u) = [ValuesOf(t) EXCEPT ![k] = {v}]
  <1> DEFINE V(x) == ValuesOf(x)
  <1>1. /\ V(t) = [k \in TxStoreKeys |-> V(t)[k]]
        /\ V(u) = [k \in TxStoreKeys |-> V(u)[k]]
    BY DEF ValuesOf
  <1>2. \A k \in TxStoreKeys : /\ V(t)[k] = IF k \in DOMAIN t THEN {t[k].value} ELSE {}
                               /\ V(u)[k] = IF k \in DOMAIN u THEN {u[k].value} ELSE {}
    BY ValuesOfTable
  <1> HIDE DEF V
  <1>3. CASE key \in DOMAIN u \ DOMAIN t
    <2>1. V(t)[key] = {} /\ V(u)[key] = {u[key].value} /\ u[key].value \in TxStoreValues
      BY <1>2, <1>3
    <2>2. \A k \in TxStoreKeys \ {key} : V(u)[k] = V(t)[k]
      BY <1>2, <1>3
    <2>3. V(u) = [V(t) EXCEPT ![key] = {u[key].value}]
      BY <1>1, <2>1, <2>2
    <2> QED
      BY <2>1, <2>3 DEF V
  <1>4. CASE key \notin DOMAIN u \ DOMAIN t
    <2>1. \A k \in TxStoreKeys : V(u)[k] = V(t)[k]
      BY <1>2, <1>4
    <2> QED
      BY <1>1, <2>1 DEF V
  <1> QED
    BY <1>3, <1>4

(* A step inserts at most one row in each table, under a trimmed key.       *)
LEMMA OneRowAtATime ==
    ASSUME TxInv, [TxNext]_txVars
    PROVE  /\ \/ DOMAIN srcTable' \subseteq DOMAIN srcTable
              \/ \E w \in TxWorkers : DOMAIN srcTable' \subseteq DOMAIN srcTable \cup {KeyOf(w)}
           /\ \/ DOMAIN dstTable' \subseteq DOMAIN dstTable
              \/ \E w \in TxWorkers : DOMAIN dstTable' \subseteq DOMAIN dstTable \cup {KeyOf(w)}
  <1> DEFINE SrcRows == \/ DOMAIN srcTable' \subseteq DOMAIN srcTable
                        \/ \E w \in TxWorkers : DOMAIN srcTable' \subseteq DOMAIN srcTable \cup {KeyOf(w)}
             DstRows == \/ DOMAIN dstTable' \subseteq DOMAIN dstTable
                        \/ \E w \in TxWorkers : DOMAIN dstTable' \subseteq DOMAIN dstTable \cup {KeyOf(w)}
  <1>1. ASSUME NEW w \in TxWorkers, NEW o, Queries(w, o) PROVE SrcRows /\ DstRows
    BY <1>1 DEF Queries, SrcExist, DstExist, GetDoneTxGenBySrc, GetDoneTxGen
  <1>2. ASSUME NEW w \in TxWorkers, NEW o, SrcSave(w, o) PROVE SrcRows /\ DstRows
    <2>1. <<jobs[w].of, txName'[w]>> = KeyOf(w) /\ dstTable' = dstTable
      BY <1>2, JobFacts DEF SrcSave, TxInv, WorkersOK, KeyOf
    <2> QED
      BY <1>2, <2>1 DEF SrcSave, InsertIgnore
  <1>3. ASSUME NEW w \in TxWorkers, NEW o, DstSave(w, o) PROVE SrcRows /\ DstRows
    <2>1. <<jobs[w].of, txName'[w]>> = KeyOf(w) /\ srcTable' = srcTable
      BY <1>3, JobFacts DEF DstSave, TxInv, WorkersOK, KeyOf
    <2> QED
      BY <1>3, <2>1 DEF DstSave, InsertIgnore
  <1>4. ASSUME NEW w \in TxWorkers, NEW o, SetResult(w, o) \/ SetResultWithDstHash(w, o)
        PROVE  SrcRows /\ DstRows
    <2>1. dstTable' = dstTable
      BY <1>4 DEF SetResult, SetResultWithDstHash
    <2> QED
      BY <1>4, <2>1, ResultStep
  <1>5. ASSUME NEW w \in TxWorkers, Crash(w) PROVE SrcRows /\ DstRows
    BY <1>5 DEF Crash
  <1>6. ASSUME NEW key, NewGen(key) PROVE SrcRows /\ DstRows
    BY <1>6 DEF NewGen
  <1>7. ASSUME NEW key, NEW g, SetConfirmedGen(key, g) PROVE SrcRows /\ DstRows
    BY <1>7 DEF SetConfirmedGen
  <1>8. ASSUME NEW g, NEW success, SetConfirmedSuccess(g, success) PROVE SrcRows /\ DstRows
    BY <1>8 DEF SetConfirmedSuccess
  <1>9. CASE UNCHANGED txVars
    BY <1>9 DEF txVars
  <1> QED
    BY <1>1, <1>2, <1>3, <1>4, <1>5, <1>6, <1>7, <1>8, <1>9 DEF TxNext, TxStep, Updates, Sender

(* Each table implements the register: it starts empty, and a step writes a *)
(* key that has no row yet or leaves every value as it is.                  *)
THEOREM TablesAreRegisters == TxSpec => TablesAreWriteOnce
  <1>1. ASSUME TxInit PROVE Src!RegisterInit /\ Dst!RegisterInit
    <2>1. DOMAIN srcTable = {} /\ DOMAIN dstTable = {}
      BY <1>1 DEF TxInit, TxInitWith
    <2> QED
      BY <2>1 DEF Src!RegisterInit, Dst!RegisterInit, ValuesOf
  <1>2. ASSUME TxInv, [TxNext]_txVars
        PROVE  [\E k \in TxStoreKeys, v \in TxStoreValues : Src!Write(k, v)]_(ValuesOf(srcTable))
    <2>1. /\ DOMAIN srcTable \subseteq DOMAIN srcTable' /\ DOMAIN srcTable' \subseteq TxStoreKeys
          /\ \A k \in DOMAIN srcTable : srcTable'[k].value = srcTable[k].value
          /\ \A k \in DOMAIN srcTable' : srcTable'[k].value \in TxStoreValues
      BY <1>2, SrcMonotone, TablesStep DEF TablesOK, SrcRow
    <2>2. CASE DOMAIN srcTable' \subseteq DOMAIN srcTable
      <3>1. \A k \in TxStoreKeys : ValuesOf(srcTable')[k] = ValuesOf(srcTable)[k]
        BY <2>1, <2>2, ValuesOfTable
      <3> QED
        BY <3>1 DEF ValuesOf
    <2>3. CASE \E w \in TxWorkers : DOMAIN srcTable' \subseteq DOMAIN srcTable \cup {KeyOf(w)}
      <3>1. PICK w \in TxWorkers : DOMAIN srcTable' \subseteq DOMAIN srcTable \cup {KeyOf(w)}
        BY <2>3
      <3>2. KeyOf(w) \in TxStoreKeys
        BY <1>2, JobFacts DEF TxInv
      <3>3. \/ ValuesOf(srcTable') = ValuesOf(srcTable)
            \/ \E k \in TxStoreKeys, v \in TxStoreValues :
                 /\ ValuesOf(srcTable)[k] = {}
                 /\ ValuesOf(srcTable') = [ValuesOf(srcTable) EXCEPT ![k] = {v}]
        BY <2>1, <3>1, <3>2, OneRowWritesOnce
      <3> QED
        BY <3>3 DEF Src!Write
    <2> QED
      BY <1>2, <2>2, <2>3, OneRowAtATime
  <1>3. ASSUME TxInv, [TxNext]_txVars
        PROVE  [\E k \in TxStoreKeys, v \in TxStoreValues : Dst!Write(k, v)]_(ValuesOf(dstTable))
    <2>1. /\ DOMAIN dstTable \subseteq DOMAIN dstTable' /\ DOMAIN dstTable' \subseteq TxStoreKeys
          /\ \A k \in DOMAIN dstTable : dstTable'[k].value = dstTable[k].value
          /\ \A k \in DOMAIN dstTable' : dstTable'[k].value \in TxStoreValues
      BY <1>3, DstMonotone, TablesStep DEF TablesOK, DstRow
    <2>2. CASE DOMAIN dstTable' \subseteq DOMAIN dstTable
      <3>1. \A k \in TxStoreKeys : ValuesOf(dstTable')[k] = ValuesOf(dstTable)[k]
        BY <2>1, <2>2, ValuesOfTable
      <3> QED
        BY <3>1 DEF ValuesOf
    <2>3. CASE \E w \in TxWorkers : DOMAIN dstTable' \subseteq DOMAIN dstTable \cup {KeyOf(w)}
      <3>1. PICK w \in TxWorkers : DOMAIN dstTable' \subseteq DOMAIN dstTable \cup {KeyOf(w)}
        BY <2>3
      <3>2. KeyOf(w) \in TxStoreKeys
        BY <1>3, JobFacts DEF TxInv
      <3>3. \/ ValuesOf(dstTable') = ValuesOf(dstTable)
            \/ \E k \in TxStoreKeys, v \in TxStoreValues :
                 /\ ValuesOf(dstTable)[k] = {}
                 /\ ValuesOf(dstTable') = [ValuesOf(dstTable) EXCEPT ![k] = {v}]
        BY <2>1, <3>1, <3>2, OneRowWritesOnce
      <3> QED
        BY <3>3 DEF Dst!Write
    <2> QED
      BY <1>3, <2>2, <2>3, OneRowAtATime
  <1> QED
    BY <1>1, <1>2, <1>3, TxInvariant, PTL
       DEF TxSpec, TablesAreWriteOnce, SrcIsWriteOnce, DstIsWriteOnce, Src!RegisterSpec, Dst!RegisterSpec

(***************************************************************************)
(* Tasks                                                                   *)
(***************************************************************************)
\* The daily function was started when it was due, and no later time than a day
\* from today's due time was chosen.
TaskInv ==
  /\ days \in Calendars
  /\ wall \in 0..MaxWall /\ slot \in Int /\ startedAt \in Int
  /\ slot <= days[Today(wall)].due + DayTicks
  /\ daily = "off" => slot = -DayTicks
  /\ daily = "run" => slot <= startedAt
  /\ periodic = "ended" => panicked \/ cancelled

\* The calendar has a day for every time of the clock.
LEMMA TodayIsADay ==
  ASSUME days \in Calendars, NEW t \in 0..MaxWall
  PROVE  /\ Today(t) \in 0..(LastDay - 1)
         /\ days[Today(t)].start <= t /\ t < days[Today(t) + 1].start
<1>1. \E d \in 0..(LastDay - 1) : days[d].start <= t /\ t < days[d + 1].start
  BY TaskAssumption DEF IsCalendar
<1> QED
  BY <1>1 DEF Today

\* Days do not go back.
LEMMA TodayGrows ==
  ASSUME days \in Calendars, NEW t \in 0..MaxWall, NEW u \in 0..MaxWall, t <= u
  PROVE  days[Today(t)].due <= days[Today(u)].due
<1> DEFINE d == Today(t)
           e == Today(u)
<1>1. d \in 0..(LastDay - 1) /\ days[d].start <= t
  BY TodayIsADay
<1>2. e \in 0..(LastDay - 1) /\ u < days[e + 1].start
  BY TodayIsADay
<1>3. IsCalendar(days) /\ LastDay \in Nat
  BY TaskAssumption
<1> HIDE DEF d, e
<1>4. d \in 0..LastDay /\ e \in 0..LastDay /\ e + 1 \in 0..LastDay
  BY <1>1, <1>2, <1>3
<1>5. \A n \in 0..LastDay : days[n].start \in Int /\ days[n].due \in Int
  BY <1>3 DEF IsCalendar
<1>6. \A m, n \in 0..LastDay : m < n => days[m].start < days[n].start /\ days[m].due < days[n].due
  BY <1>3 DEF IsCalendar
<1>7. ~(e < d)
  <2> SUFFICES ASSUME e < d PROVE FALSE
    OBVIOUS
  <2>1. e + 1 = d \/ e + 1 < d
    BY <1>4
  <2>2. days[e + 1].start <= days[d].start
    BY <2>1, <1>4, <1>5, <1>6
  <2> QED
    BY <2>2, <1>1, <1>2, <1>4, <1>5
<1>8. d = e \/ d < e
  BY <1>4, <1>7
<1>9. days[d].due <= days[e].due
  BY <1>4, <1>5, <1>6, <1>8
<1> QED
  BY <1>9 DEF d, e

\* What the calendar says of today's due time and of tomorrow's.
LEMMA DueToday ==
  ASSUME days \in Calendars, NEW t \in 0..MaxWall
  PROVE  LET d == Today(t)
         IN  /\ days[d].due \in Int /\ -Change <= days[d].due
             /\ days[d + 1].start \in Int /\ days[d + 1].due \in Int
             /\ days[d].due + DayTicks - days[d + 1].due \in (-Change)..Change
<1> DEFINE d == Today(t)
<1>1. d \in 0..(LastDay - 1)
  BY TodayIsADay
<1>2. IsCalendar(days) /\ LastDay \in Nat /\ DayTicks \in Nat /\ Change \in Nat
  BY TaskAssumption
<1> HIDE DEF d
<1>3. d \in 0..LastDay /\ d + 1 \in 0..LastDay /\ 0 \in 0..LastDay
  BY <1>1, <1>2
<1>4. \A n \in 0..LastDay : days[n].start \in Int /\ days[n].due \in Int
  BY <1>2 DEF IsCalendar
<1>5. days[0].start = 0 /\ (d = 0 \/ days[0].start < days[d].start)
  BY <1>1, <1>2, <1>3 DEF IsCalendar
<1>6. days[d].start - Change <= days[d].due
  BY <1>2, <1>3 DEF IsCalendar
<1>7. days[d + 1].due - days[d].due \in (DayTicks - Change)..(DayTicks + Change)
  BY <1>1, <1>2 DEF IsCalendar
<1>8. -Change <= days[d].due
  BY <1>2, <1>3, <1>4, <1>5, <1>6
<1>9. days[d].due + DayTicks - days[d + 1].due \in (-Change)..Change
  BY <1>2, <1>3, <1>4, <1>7
<1> QED
  BY <1>3, <1>4, <1>8, <1>9 DEF d

LEMMA TaskInvariant == TaskSpec => []TaskInv
<1>1. TaskInit => TaskInv
  <2> SUFFICES ASSUME TaskInit PROVE TaskInv
    OBVIOUS
  <2>1. days \in Calendars /\ wall = 0 /\ slot = -DayTicks /\ startedAt = -1 /\ periodic = "off" /\ daily = "off"
    BY DEF TaskInit, TaskInitWith
  <2>2. 0 \in 0..MaxWall /\ DayTicks \in Nat \ {0} /\ Change \in 0..(DayTicks - 1)
    BY TaskAssumption
  <2>3. days[Today(0)].due \in Int /\ -Change <= days[Today(0)].due
    BY <2>1, <2>2, DueToday
  <2>4. slot <= days[Today(wall)].due + DayTicks
    BY <2>1, <2>2, <2>3
  <2> QED
    BY <2>1, <2>2, <2>4 DEF TaskInv
<1>2. TaskInv /\ [TaskNext]_taskVars => TaskInv'
  <2> SUFFICES ASSUME TaskInv, [TaskNext]_taskVars PROVE TaskInv'
    OBVIOUS
  <2>1. CASE DailySleep
    <3>1. days' = days /\ wall' = wall /\ slot' = Next24h(wall)
      BY <2>1 DEF DailySleep
    <3>2. days[Today(wall)].due \in Int /\ DayTicks \in Nat
      BY DueToday, TaskAssumption DEF TaskInv
    <3>3. Next24h(wall) \in Int /\ Next24h(wall) <= days[Today(wall)].due + DayTicks
      BY <3>2 DEF Next24h
    <3>4. Today(wall)' = Today(wall)
      BY <3>1 DEF Today
    <3> QED
      BY <2>1, <3>1, <3>3, <3>4 DEF DailySleep, TaskInv
  <2>2. CASE DailyRun \/ DailyPanic
    <3>1. Today(wall)' = Today(wall)
      BY <2>2 DEF DailyRun, DailyPanic, Today
    <3> QED
      BY <2>2, <3>1 DEF DailyRun, DailyPanic, TaskInv
  <2>3. CASE Tick
    <3>1. days' = days /\ wall' = wall + 1 /\ wall \in 0..MaxWall /\ wall' \in 0..MaxWall /\ slot' = slot
      BY <2>3, TaskAssumption DEF Tick, TaskInv
    <3>2. days[Today(wall)].due <= days[Today(wall')].due
      BY <3>1, TodayGrows DEF TaskInv
    <3>3. Today(wall)' = Today(wall')
      BY <3>1 DEF Today
    <3>4. days[Today(wall)].due \in Int /\ days[Today(wall')].due \in Int /\ DayTicks \in Nat
      BY <3>1, DueToday, TaskAssumption DEF TaskInv
    <3>5. slot <= days[Today(wall')].due + DayTicks
      BY <3>2, <3>4 DEF TaskInv
    <3> QED
      BY <2>3, <3>1, <3>3, <3>5 DEF Tick, TaskInv
  <2>4. CASE RunTask \/ PeriodicStart \/ PeriodicStep \/ PeriodicDone \/ Cancel \/ UNCHANGED taskVars
    <3>1. UNCHANGED <<daily, days, wall, slot, startedAt>>
      BY <2>4 DEF RunTask, PeriodicStart, PeriodicStep, PeriodicReturn, PeriodicPanic, PeriodicTimer,
                  PeriodicDone, Cancel, taskVars
    <3>2. Today(wall)' = Today(wall)
      BY <3>1 DEF Today
    <3>3. (periodic = "ended" => panicked \/ cancelled)'
      BY <2>4 DEF RunTask, PeriodicStart, PeriodicStep, PeriodicReturn, PeriodicPanic, PeriodicTimer,
                  PeriodicDone, Cancel, taskVars, TaskInv
    <3> QED
      BY <3>1, <3>2, <3>3 DEF TaskInv
  <2> QED
    BY <2>1, <2>2, <2>3, <2>4 DEF TaskNext
<1> QED
  BY <1>1, <1>2, PTL DEF TaskSpec

\* On a regular day, the time chosen is due and is the first one from now on:
\* days before this one were due before it began, and later ones no sooner than
\* tomorrow.
LEMMA RegularDayIsNext ==
  ASSUME days \in Calendars, NEW t \in 0..MaxWall, Regular(Today(t))
  PROVE  /\ t <= Next24h(t)
         /\ \E e \in 0..LastDay : Next24h(t) = days[e].due
         /\ \A e \in 0..LastDay : days[e].due >= t => Next24h(t) <= days[e].due
<1> DEFINE d == Today(t)
           next == Next24h(t)
<1>1. d \in 0..(LastDay - 1) /\ days[d].start <= t /\ t < days[d + 1].start
  BY TodayIsADay
<1>2. IsCalendar(days) /\ LastDay \in Nat /\ DayTicks \in Nat \ {0}
  BY TaskAssumption
<1>3. days[d + 1].start <= days[d + 1].due /\ days[d + 1].due = days[d].due + DayTicks
  BY DEF Regular
<1>4. next = IF days[d].due < t THEN days[d].due + DayTicks ELSE days[d].due
  BY DEF Next24h
<1> HIDE DEF d, next
<1>5. d \in 0..LastDay /\ d + 1 \in 0..LastDay
  BY <1>1, <1>2
<1>6. \A n \in 0..LastDay : days[n].start \in Int /\ days[n].due \in Int
  BY <1>2 DEF IsCalendar
<1>7. \A m, n \in 0..LastDay : m < n => days[m].due < days[n].start /\ days[m].due < days[n].due
  BY <1>2 DEF IsCalendar
<1>9. \A e \in 0..LastDay : days[e].due >= t => e >= d
  BY <1>1, <1>5, <1>6, <1>7
<1>10. CASE days[d].due < t
  <2>1. next = days[d + 1].due
    BY <1>3, <1>4, <1>10
  <2>2. \A e \in 0..LastDay : days[e].due >= t => e >= d + 1
    BY <1>5, <1>6, <1>9, <1>10
  <2>3. \A e \in 0..LastDay : e >= d + 1 => days[d + 1].due <= days[e].due
    BY <1>5, <1>6, <1>7
  <2>4. t <= next
    BY <2>1, <1>1, <1>2, <1>3, <1>4, <1>5, <1>6, <1>10
  <2>5. \A e \in 0..LastDay : days[e].due >= t => next <= days[e].due
    BY <2>1, <2>2, <2>3
  <2> QED
    BY <2>1, <2>4, <2>5, <1>5 DEF d, next
<1>11. CASE ~(days[d].due < t)
  <2>1. next = days[d].due /\ t <= next
    BY <1>4, <1>5, <1>6, <1>11
  <2>2. \A e \in 0..LastDay : e >= d => days[d].due <= days[e].due
    BY <1>5, <1>6, <1>7
  <2> QED
    BY <2>1, <2>2, <1>5, <1>9 DEF d, next
<1> QED
  BY <1>10, <1>11 DEF d, next

\* ScheduleDailyTask runs its function at the times of its calendar, off by no
\* more than the clocks are changed, none left out on a regular day and none
\* repeated but on a day of more than 24 hours.
THEOREM DailyTasksAreInOrder == TaskSpec => DailySlotsInOrder
<1> DEFINE d == Today(wall)
           Step == slot' # slot \/ (daily = "run" /\ daily' = "sleep") =>
                     /\ \E e \in d..(d + 1) : slot' - days[e].due \in (-Change)..Change
                     /\ slot' >= slot
                     /\ slot' > slot \/ days[d + 1].start - days[d].due > DayTicks
                     /\ Regular(d) =>
                          /\ wall <= slot' /\ \E e \in 0..LastDay : slot' = days[e].due
                          /\ \A e \in 0..LastDay : days[e].due >= wall => slot' <= days[e].due
<1>1. TaskInv /\ [TaskNext]_taskVars => [Step]_taskVars
  <2> SUFFICES ASSUME TaskInv, TaskNext, slot' # slot \/ (daily = "run" /\ daily' = "sleep")
               PROVE  Step
    OBVIOUS
  <2>1. DailySleep
    BY DEF TaskNext, RunTask, PeriodicStart, PeriodicStep, PeriodicReturn, PeriodicPanic,
           PeriodicTimer, PeriodicDone, Cancel, DailyRun, DailyPanic, Tick
  <2>2. /\ days \in Calendars /\ wall \in 0..MaxWall /\ slot \in Int /\ slot' = Next24h(wall)
        /\ slot <= days[d].due + DayTicks /\ (slot < wall \/ slot = -DayTicks)
    BY <2>1 DEF DailySleep, TaskInv
  <2>3. /\ DayTicks \in Nat \ {0} /\ Change \in 0..(DayTicks - 1)
        /\ days[d].due \in Int /\ -Change <= days[d].due
        /\ days[d + 1].start \in Int /\ days[d + 1].due \in Int
        /\ days[d].due + DayTicks - days[d + 1].due \in (-Change)..Change
    BY <2>2, DueToday, TaskAssumption
  <2>4. slot' = IF days[d].due < wall THEN days[d].due + DayTicks ELSE days[d].due
    BY <2>2 DEF Next24h
  <2>5. d \in Int /\ wall < days[d + 1].start
    BY <2>2, TodayIsADay
  <2>6. Regular(d) =>
          /\ wall <= slot' /\ \E e \in 0..LastDay : slot' = days[e].due
          /\ \A e \in 0..LastDay : days[e].due >= wall => slot' <= days[e].due
    BY <2>2, RegularDayIsNext
  <2> HIDE DEF d
  <2>7. \E e \in d..(d + 1) : slot' - days[e].due \in (-Change)..Change
    <3>1. CASE days[d].due < wall
      <4>1. slot' = days[d].due + DayTicks
        BY <3>1, <2>4
      <4>2. d + 1 \in d..(d + 1)
        BY <2>5
      <4>3. slot' - days[d + 1].due \in (-Change)..Change
        BY <4>1, <2>3
      <4> QED
        BY <4>2, <4>3
    <3>2. CASE ~(days[d].due < wall)
      <4>1. slot' - days[d].due = 0
        BY <3>2, <2>3, <2>4
      <4> QED
        BY <4>1, <2>3, <2>5
    <3> QED
      BY <3>1, <3>2
  <2>8. slot' >= slot
    BY <2>2, <2>3, <2>4
  <2>9. slot' > slot \/ days[d + 1].start - days[d].due > DayTicks
    BY <2>2, <2>3, <2>4, <2>5, <2>8
  <2> QED
    BY <2>6, <2>7, <2>8, <2>9
<1> QED
  BY <1>1, TaskInvariant, PTL DEF TaskSpec, DailySlotsInOrder

\* PeriodicTask ends only after a panic or the cancellation, the safety part of
\* PeriodicRunsUntil.
THEOREM PeriodicEndsForAReason == TaskSpec => [](periodic = "ended" => panicked \/ cancelled)
<1>1. TaskInv => (periodic = "ended" => panicked \/ cancelled)
  BY DEF TaskInv
<1> QED
  BY <1>1, TaskInvariant, PTL

=============================================================================
