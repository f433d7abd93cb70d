-------------------------- MODULE LifecycleProofs --------------------------
(* For every number of workers, every queue size and every bound on the     *)
(* counters: the statistics thread never divides by zero.                   *)
EXTENDS Lifecycle, TLAPS

(* Min of two natural numbers.                                              *)
LEMMA MinOfTwo ==
  ASSUME NEW a \in Nat, NEW b \in Nat
  PROVE  /\ Min({a, b}) \in Nat /\ Min({a, b}) <= a /\ Min({a, b}) <= b
         /\ a > 0 /\ b > 0 => Min({a, b}) > 0
  <1>1. \E x \in {a, b} : \A y \in {a, b} : x <= y
    BY SMT
  <1>2. Min({a, b}) \in {a, b} /\ \A y \in {a, b} : Min({a, b}) <= y
    BY <1>1 DEF Min
  <1> QED
    BY <1>2

(* Workers are constructed one by one, and a counter is zero only where the *)
(* statistics thread cleared it.                                            *)
IInv ==
  /\ TypeOK
  /\ mpc \in {"init", "spawn"} => spawned < NumWorkers
  /\ DivisorNonZero

(* It holds when the Manager is constructed.                                *)
LEMMA InitInductive == Init => IInv
  <1> USE LifecycleAssumption DEF LifecycleAssumption
  <1> SUFFICES ASSUME Init PROVE IInv
    OBVIOUS
  <1>1. 0 \in Workers /\ 0 \in Count /\ 0 < NumWorkers
    BY DEF Workers, Count
  <1>2. /\ wpc = [w \in Workers |-> "none"] /\ wstate = [w \in Workers |-> "RUN"]
        /\ numFrames = [w \in Workers |-> 0] /\ reg = [w \in Workers |-> 0]
        /\ cur_lpm = [w \in Workers |-> 0] /\ cur_arp_table = cur_lpm
        /\ new_lpm = cur_lpm /\ new_arp_table = cur_lpm
        /\ statsNumFrames = [w \in Workers |-> 0]
        /\ statsNumBatches = statsNumFrames
    BY DEF Init
  <1>3. TypeOK
    BY <1>1, <1>2 DEF Init, TypeOK, State
  <1> QED
    BY <1>1, <1>2, <1>3 DEF Init, IInv, DivisorNonZero

(* The steps of Manager::run keep it.                                       *)
LEMMA ManagerInductive ==
  ASSUME IInv, Manager
  PROVE  IInv'
  <1> USE LifecycleAssumption DEF LifecycleAssumption, IInv
  <1>1. CASE initNetmap \/ StoreRun \/ startStatsThread \/ Loop
    BY <1>1 DEF initNetmap, StoreRun, startStatsThread, Loop, TypeOK, State,
                DivisorNonZero, manager, worker, tables, stats, printer, caller
  <1>2. CASE startWorkerThreads
    BY <1>2 DEF startWorkerThreads, TypeOK, State, Workers,
                DivisorNonZero, worker, tables, stats, printer, caller
  <1>3. CASE Process
    BY <1>3 DEF Process, TypeOK, DivisorNonZero, worker, tables, stats, printer,
                caller
  <1> QED
    BY <1>1, <1>2, <1>3 DEF Manager

(* So do those of Worker::run and process, which only add to counters.      *)
LEMMA WorkerInductive ==
  ASSUME IInv, NEW w \in Workers, Worker(w)
  PROVE  IInv'
  <1> USE LifecycleAssumption DEF LifecycleAssumption, IInv
  <1>1. CASE Start(w) \/ Load(w) \/ Return(w)
    BY <1>1 DEF Start, Load, Return, TypeOK, State, DivisorNonZero, manager,
                tables, stats, printer, caller
  <1>2. CASE Dequeue(w)
    <2> DEFINE m == Min({WORKER_BULK_SIZE, inRing})
    <2>1. m \in Nat /\ m <= WORKER_BULK_SIZE /\ m <= inRing
      BY MinOfTwo DEF TypeOK
    <2>2. PICK n \in 1 .. m : inRing' = inRing - n
                              /\ numFrames' = [numFrames EXCEPT ![w] = n]
      BY Zenon, <1>2 DEF Dequeue
    <2> HIDE DEF m
    <2>3. inRing' \in 0 .. RING_SIZE
      BY <2>1, <2>2 DEF TypeOK
    <2>4. numFrames' \in [Workers -> 0 .. WORKER_BULK_SIZE]
      BY <2>1, <2>2 DEF TypeOK
    <2> QED
      BY <1>2, <2>3, <2>4 DEF Dequeue, TypeOK, DivisorNonZero, manager, tables,
                              stats, printer, caller
  <1>3. CASE ReadBatches(w) \/ ReadFrames(w)
    BY <1>3 DEF ReadBatches, ReadFrames, TypeOK, DivisorNonZero, manager, tables,
                stats, printer, caller
  <1>4. CASE WriteBatches(w)
    <2> DEFINE m == Min({reg[w] + 1, Many})
    <2>1. m \in Count /\ m > 0
      <3>1. reg[w] \in Nat
        BY DEF TypeOK, Count
      <3>2. reg[w] + 1 \in Nat /\ reg[w] + 1 > 0 /\ Many \in Nat /\ Many > 0
        BY <3>1, SMT
      <3>3. m \in Nat /\ m <= Many /\ m > 0
        BY <3>2, MinOfTwo, Zenon
      <3> QED
        BY <3>2, <3>3, SMT DEF Count
    <2>2. statsNumBatches' = [statsNumBatches EXCEPT ![w] = m]
      BY <1>4 DEF WriteBatches
    <2> HIDE DEF m
    <2>3. TypeOK'
      BY <1>4, <2>1, <2>2 DEF WriteBatches, TypeOK, manager, tables, printer,
                              caller
    <2>4. statsNumBatches'[sw] = IF sw = w THEN m ELSE statsNumBatches[sw]
      BY <2>2 DEF TypeOK
    <2> QED
      BY <1>4, <2>1, <2>3, <2>4 DEF WriteBatches, DivisorNonZero, manager,
                                    tables, printer
  <1>5. CASE WriteFrames(w)
    <2> DEFINE m == Min({reg[w] + numFrames[w], Many})
    <2>1. m \in Count
      <3>1. reg[w] \in Nat /\ numFrames[w] \in Nat
        BY DEF TypeOK, Count
      <3>2. reg[w] + numFrames[w] \in Nat /\ Many \in Nat
        BY <3>1, SMT
      <3>3. m \in Nat /\ m <= Many
        BY <3>2, MinOfTwo, Zenon
      <3> QED
        BY <3>2, <3>3, SMT DEF Count
    <2>2. statsNumFrames' = [statsNumFrames EXCEPT ![w] = m]
      BY <1>5 DEF WriteFrames
    <2> HIDE DEF m
    <2> QED
      BY <1>5, <2>1, <2>2 DEF WriteFrames, TypeOK, DivisorNonZero, manager,
                              tables, printer, caller
  <1> QED
    BY <1>1, <1>2, <1>3, <1>4, <1>5 DEF Worker

(* The statistics thread looks at the divisor before it divides.            *)
LEMMA PrinterInductive ==
  ASSUME IInv, Printer
  PROVE  IInv'
  <1> USE LifecycleAssumption DEF LifecycleAssumption, IInv
  <1>1. CASE Check \/ Divide
    BY <1>1 DEF Check, Divide, TypeOK, DivisorNonZero, manager, worker, tables,
                stats, caller
  <1>2. CASE ClearFrames \/ ClearBatches
    <2>1. 0 \in Count /\ (sw + 1 # NumWorkers => sw + 1 \in Workers) /\ 0 \in Workers
      BY DEF TypeOK, Count, Workers
    <2> QED
      BY <1>2, <2>1 DEF ClearFrames, ClearBatches, TypeOK, DivisorNonZero,
                        manager, worker, tables, stats, caller
  <1> QED
    BY <1>1, <1>2 DEF Printer

(* stop() and update() change no counters.                                  *)
LEMMA CallerInductive ==
  ASSUME IInv, Caller
  PROVE  IInv'
  <1> USE DEF IInv
  <1>1. CASE ManagerStop
    BY <1>1 DEF ManagerStop, TypeOK, State, DivisorNonZero, worker, tables, stats,
                printer, caller
  <1>2. ASSUME NEW w \in Workers, UpdateLpm(w) \/ UpdateArp(w)
        PROVE  IInv'
    BY <1>2 DEF UpdateLpm, UpdateArp, TypeOK, DivisorNonZero, manager, worker,
                stats, printer
  <1>3. ASSUME NEW w \in Workers, WorkerStop(w) \/ Join(w)
        PROVE  IInv'
    BY <1>3 DEF WorkerStop, Join, TypeOK, State, DivisorNonZero, manager, tables,
                stats, printer, caller
  <1> QED
    BY <1>1, <1>2, <1>3 DEF Caller

(* It holds at all times.                                                   *)
LEMMA IInvHolds == Spec => []IInv
  <1>1. IInv /\ [Next]_vars => IInv'
    <2>1. ASSUME IInv, UNCHANGED vars
          PROVE  IInv'
      BY <2>1 DEF IInv, TypeOK, DivisorNonZero, vars, manager, worker, tables,
                  stats, printer, caller
    <2> QED
      BY <2>1, ManagerInductive, WorkerInductive, PrinterInductive,
         CallerInductive DEF Next
  <1> QED
    BY <1>1, InitInductive, PTL DEF Spec

(* Every variable has its type; above all, `spawned' and sw stay inside the *)
(* vector of workers that startWorkerThreads fills and the statistics       *)
(* thread walks through.                                                    *)
THEOREM TypeCorrect == Spec => []TypeOK
  <1>1. IInv => TypeOK
    BY DEF IInv
  <1> QED
    BY <1>1, IInvHolds, PTL

(* However the threads interleave, statsNumBatches is not zero when         *)
(* printAndClearStats divides by it (worker.cpp:179).                       *)
THEOREM NeverDividesByZero == Spec => []DivisorNonZero
  <1>1. IInv => DivisorNonZero
    BY DEF IInv
  <1> QED
    BY <1>1, IInvHolds, PTL
=============================================================================
