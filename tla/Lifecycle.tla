----------------------------- MODULE Lifecycle -----------------------------
(***************************************************************************)
(* The threads of the router from Manager::run to their end: the manager   *)
(* loop, the run() of every Worker, the statistics thread, and somebody    *)
(* who calls Manager::stop, Worker::stop and Worker::update at any time.   *)
(*                                                                         *)
(* What process() does with a frame is DataPath; here frames are counted.  *)
(* A statement on a plain (not atomic) counter is a read and a write with  *)
(* other threads in between.                                               *)
(***************************************************************************)
EXTENDS Integers, FiniteSetsExt

CONSTANTS
  NumWorkers,
  RING_SIZE,        \* frames inRing accepts
  WORKER_BULK_SIZE,
  MANAGER_BULK_SIZE,
  Versions,         \* 0 .. n: successive pairs of LPM and ARP table
  Many              \* counters stay at this value instead of growing (bound)

Workers == 0 .. NumWorkers - 1
State   == {"RUN", "STOP"}
Count   == 0 .. Many

ASSUME LifecycleAssumption ==
  /\ NumWorkers \in Nat \ {0} /\ RING_SIZE \in Nat
  /\ WORKER_BULK_SIZE \in Nat \ {0} /\ MANAGER_BULK_SIZE \in Nat \ {0}
  /\ Many \in Nat \ {0} /\ Versions \subseteq Nat /\ 0 \in Versions

VARIABLES
  mpc, mstate,              \* Manager::run, Manager::state
  spawned,                  \* workers constructed so far
  inRing,                   \* frames in inRings[0]
  wpc, wstate,              \* Worker::run and process, Worker::state
  numFrames, reg,           \* Worker::process: its local, a register
  cur_lpm, cur_arp_table, new_lpm, new_arp_table,
  statsNumFrames, statsNumBatches,
  spc, sw,                  \* statistics thread: place, worker looked at
  updating, stopping        \* workers inside update(), workers stop() was called on

manager == <<mpc, mstate, spawned>>
worker  == <<wpc, wstate, numFrames, reg>>
tables  == <<cur_lpm, cur_arp_table, new_lpm, new_arp_table>>
stats   == <<statsNumFrames, statsNumBatches>>
printer == <<spc, sw>>
caller  == <<updating, stopping>>
vars    == <<manager, inRing, worker, tables, stats, printer, caller>>

TypeOK ==
  /\ mpc \in {"init", "spawn", "store", "stats", "loop", "process", "returned"}
  /\ mstate \in State /\ spawned \in 0 .. NumWorkers /\ inRing \in 0 .. RING_SIZE
  /\ wpc \in [Workers -> {"none", "start", "load", "process", "batches",
                          "batches++", "frames", "frames+=", "exited", "joined"}]
  /\ wstate \in [Workers -> State]
  /\ numFrames \in [Workers -> 0 .. WORKER_BULK_SIZE]
  /\ reg \in [Workers -> Count]
  /\ cur_lpm \in [Workers -> Versions] /\ cur_arp_table \in [Workers -> Versions]
  /\ new_lpm \in [Workers -> Versions] /\ new_arp_table \in [Workers -> Versions]
  /\ statsNumFrames \in [Workers -> Count]
  /\ statsNumBatches \in [Workers -> Count]
  /\ spc \in {"off", "check", "divide", "frames", "batches"} /\ sw \in Workers
  /\ updating \subseteq Workers /\ stopping \subseteq Workers

(* The constructor of Manager leaves its state uninitialised.               *)
Init ==
  /\ mpc = "init" /\ mstate \in State /\ spawned = 0 /\ inRing = 0
  /\ wpc = [w \in Workers |-> "none"] /\ wstate = [w \in Workers |-> "RUN"]
  /\ numFrames = [w \in Workers |-> 0] /\ reg = [w \in Workers |-> 0]
  /\ cur_lpm = [w \in Workers |-> 0] /\ cur_arp_table = cur_lpm
  /\ new_lpm = cur_lpm /\ new_arp_table = cur_lpm
  /\ statsNumFrames = [w \in Workers |-> 0] /\ statsNumBatches = statsNumFrames
  /\ spc = "off" /\ sw = 0 /\ updating = {} /\ stopping = {}

-----------------------------------------------------------------------------
(* Manager::run.                                                            *)
initNetmap ==
  /\ mpc = "init" /\ mpc' = "spawn"
  /\ UNCHANGED <<mstate, spawned, inRing, worker, tables, stats, printer, caller>>

(* Faulty: one worker too many.                                             *)
startWorkerThreadsOneMore ==
  /\ mpc = "spawn"
  /\ wpc' = [wpc EXCEPT ![spawned] = "start"]
  /\ wstate' = [wstate EXCEPT ![spawned] = "RUN"]
  /\ spawned' = spawned + 1
  /\ mpc' = IF spawned = NumWorkers THEN "store" ELSE "spawn"
  /\ UNCHANGED <<mstate, inRing, numFrames, reg, tables, stats, printer, caller>>

(* new Worker: the thread starts, and whatever it has done meanwhile, the   *)
(* constructor sets its state to RUN, as its run() does first of all.       *)
startWorkerThreads ==
  /\ mpc = "spawn"
  /\ wpc' = [wpc EXCEPT ![spawned] = "start"]
  /\ wstate' = [wstate EXCEPT ![spawned] = "RUN"]
  /\ spawned' = spawned + 1
  /\ mpc' = IF spawned + 1 = NumWorkers THEN "store" ELSE "spawn"
  /\ UNCHANGED <<mstate, inRing, numFrames, reg, tables, stats, printer, caller>>

StoreRun ==
  /\ mpc = "store" /\ mpc' = "stats" /\ mstate' = "RUN"
  /\ UNCHANGED <<spawned, inRing, worker, tables, stats, printer, caller>>

startStatsThread ==
  /\ mpc = "stats" /\ mpc' = "loop"
  /\ spc' = "check" /\ UNCHANGED sw
  /\ UNCHANGED <<mstate, spawned, inRing, worker, tables, stats, caller>>

(* Faulty: the state is looked at before the loop only.                     *)
LoopUnchecked ==
  /\ mpc = "loop" /\ mpc' = "process"
  /\ UNCHANGED <<mstate, spawned, inRing, worker, tables, stats, printer, caller>>

Loop ==
  /\ mpc = "loop"
  /\ mpc' = IF mstate = "RUN" THEN "process" ELSE "returned"
  /\ UNCHANGED <<mstate, spawned, inRing, worker, tables, stats, printer, caller>>

(* process() as far as the other threads are concerned: one batch for       *)
(* inRing, which takes all of it or nothing, and back to the loop.          *)
Process ==
  /\ mpc = "process" /\ mpc' = "loop"
  /\ \E n \in 0 .. MANAGER_BULK_SIZE :
       inRing' = IF inRing + n <= RING_SIZE THEN inRing + n ELSE inRing
  /\ UNCHANGED <<mstate, spawned, worker, tables, stats, printer, caller>>

Manager ==
  \/ initNetmap \/ startWorkerThreads \/ StoreRun \/ startStatsThread
  \/ Loop \/ Process

-----------------------------------------------------------------------------
(* Worker::run.                                                             *)
Start(w) ==
  /\ wpc[w] = "start"
  /\ wpc' = [wpc EXCEPT ![w] = "load"]
  /\ wstate' = [wstate EXCEPT ![w] = "RUN"]
  /\ UNCHANGED <<manager, inRing, numFrames, reg, tables, stats, printer, caller>>

(* The two lines that would take over what update() stored are commented    *)
(* out: the tables of a worker stay what they are.                          *)
Load(w) ==
  /\ wpc[w] = "load"
  /\ wpc' = [wpc EXCEPT ![w] = IF wstate[w] = "RUN" THEN "process" ELSE "exited"]
  /\ UNCHANGED <<manager, inRing, wstate, numFrames, reg, tables, stats, printer,
                 caller>>

(* Worker::process returns only when it finds inRing empty.                 *)
Dequeue(w) ==
  /\ wpc[w] = "process" /\ inRing > 0
  /\ \E n \in 1 .. Min({WORKER_BULK_SIZE, inRing}) :
       /\ inRing' = inRing - n
       /\ numFrames' = [numFrames EXCEPT ![w] = n]
  /\ wpc' = [wpc EXCEPT ![w] = "batches"]
  /\ UNCHANGED <<manager, wstate, reg, tables, stats, printer, caller>>

(* Faulty: process() waits for more frames.                                 *)
ReturnNever(w) == wpc[w] = "process" /\ inRing = 0 /\ UNCHANGED vars

Return(w) ==
  /\ wpc[w] = "process" /\ inRing = 0
  /\ wpc' = [wpc EXCEPT ![w] = "load"]
  /\ UNCHANGED <<manager, inRing, wstate, numFrames, reg, tables, stats, printer,
                 caller>>

(* statsNumBatches++ and statsNumFrames += numFrames, then the frames.  The *)
(* counters have 32 bits; they are cleared every second, which is too short *)
(* for 2^32 batches, so that they saturate here instead of wrapping.        *)
ReadBatches(w) ==
  /\ wpc[w] = "batches"
  /\ reg' = [reg EXCEPT ![w] = statsNumBatches[w]]
  /\ wpc' = [wpc EXCEPT ![w] = "batches++"]
  /\ UNCHANGED <<manager, inRing, wstate, numFrames, tables, stats, printer, caller>>

WriteBatches(w) ==
  /\ wpc[w] = "batches++"
  /\ statsNumBatches' = [statsNumBatches EXCEPT ![w] = Min({reg[w] + 1, Many})]
  /\ wpc' = [wpc EXCEPT ![w] = "frames"]
  /\ UNCHANGED <<manager, inRing, wstate, numFrames, reg, tables, statsNumFrames,
                 printer, caller>>

ReadFrames(w) ==
  /\ wpc[w] = "frames"
  /\ reg' = [reg EXCEPT ![w] = statsNumFrames[w]]
  /\ wpc' = [wpc EXCEPT ![w] = "frames+="]
  /\ UNCHANGED <<manager, inRing, wstate, numFrames, tables, stats, printer, caller>>

WriteFrames(w) ==
  /\ wpc[w] = "frames+="
  /\ statsNumFrames' = [statsNumFrames EXCEPT ![w] =
                          Min({reg[w] + numFrames[w], Many})]
  /\ wpc' = [wpc EXCEPT ![w] = "process"]
  /\ UNCHANGED <<manager, inRing, wstate, numFrames, reg, tables, statsNumBatches,
                 printer, caller>>

Worker(w) ==
  \/ Start(w) \/ Load(w) \/ Dequeue(w) \/ Return(w)
  \/ ReadBatches(w) \/ WriteBatches(w) \/ ReadFrames(w) \/ WriteFrames(w)

-----------------------------------------------------------------------------
(* The statistics thread: printAndClearStats for one worker after another.  *)
(* Faulty: only the frames are looked at.                                   *)
CheckFrames ==
  /\ spc = "check"
  /\ spc' = IF statsNumFrames[sw] > 0 THEN "divide" ELSE "frames"
  /\ UNCHANGED <<manager, inRing, worker, tables, stats, sw, caller>>

Check ==
  /\ spc = "check"
  /\ spc' = IF statsNumFrames[sw] > 0 /\ statsNumBatches[sw] > 0
            THEN "divide" ELSE "frames"
  /\ UNCHANGED <<manager, inRing, worker, tables, stats, sw, caller>>

Divide ==
  /\ spc = "divide" /\ spc' = "frames"
  /\ UNCHANGED <<manager, inRing, worker, tables, stats, sw, caller>>

ClearFrames ==
  /\ spc = "frames" /\ spc' = "batches"
  /\ statsNumFrames' = [statsNumFrames EXCEPT ![sw] = 0]
  /\ UNCHANGED <<manager, inRing, worker, tables, statsNumBatches, sw, caller>>

(* Faulty: statsNumBatches is not cleared.                                  *)
ClearNoBatches ==
  /\ spc = "batches" /\ spc' = "check"
  /\ sw' = IF sw + 1 = NumWorkers THEN 0 ELSE sw + 1
  /\ UNCHANGED <<manager, inRing, worker, tables, stats, caller>>

(* The next worker, or (after the counters of the manager and a second of   *)
(* sleep) the first one again.                                              *)
ClearBatches ==
  /\ spc = "batches" /\ spc' = "check"
  /\ statsNumBatches' = [statsNumBatches EXCEPT ![sw] = 0]
  /\ sw' = IF sw + 1 = NumWorkers THEN 0 ELSE sw + 1
  /\ UNCHANGED <<manager, inRing, worker, tables, statsNumFrames, caller>>

Printer == Check \/ Divide \/ ClearFrames \/ ClearBatches

-----------------------------------------------------------------------------
(* The public functions, called from another thread.                        *)
ManagerStop ==
  /\ mstate' = "STOP"
  /\ UNCHANGED <<mpc, spawned, inRing, worker, tables, stats, printer, caller>>

(* Worker::update: two plain stores, which nobody ever reads (see Load).    *)
UpdateLpm(w) ==
  /\ w < spawned /\ w \notin updating /\ new_lpm[w] + 1 \in Versions
  /\ new_lpm' = [new_lpm EXCEPT ![w] = new_lpm[w] + 1]
  /\ updating' = updating \cup {w}
  /\ UNCHANGED <<manager, inRing, worker, cur_lpm, cur_arp_table, new_arp_table,
                 stats, printer, stopping>>

UpdateArp(w) ==
  /\ w \in updating
  /\ new_arp_table' = [new_arp_table EXCEPT ![w] = new_lpm[w]]
  /\ updating' = updating \ {w}
  /\ UNCHANGED <<manager, inRing, worker, cur_lpm, cur_arp_table, new_lpm, stats,
                 printer, stopping>>

(* Worker::stop, called once: store, then join().                           *)
WorkerStop(w) ==
  /\ w < spawned /\ w \notin stopping
  /\ wstate' = [wstate EXCEPT ![w] = "STOP"]
  /\ stopping' = stopping \cup {w}
  /\ UNCHANGED <<manager, inRing, wpc, numFrames, reg, tables, stats, printer,
                 updating>>

Join(w) ==
  /\ w \in stopping /\ wpc[w] = "exited"
  /\ wpc' = [wpc EXCEPT ![w] = "joined"]
  /\ UNCHANGED <<manager, inRing, wstate, numFrames, reg, tables, stats, printer,
                 caller>>

Caller ==
  \/ ManagerStop
  \/ \E w \in Workers : UpdateLpm(w) \/ UpdateArp(w) \/ WorkerStop(w) \/ Join(w)

Next == Manager \/ (\E w \in Workers : Worker(w)) \/ Printer \/ Caller

Spec == Init /\ [][Next]_vars

(* The OS runs every thread; process() of the manager always returns        *)
(* (DataPath!ManagerReturns), a join() does once its thread has ended.      *)
FairSpec ==
  /\ Spec /\ WF_vars(Manager) /\ WF_vars(Printer)
  /\ \A w \in Workers : WF_vars(Worker(w)) /\ WF_vars(Join(w))

-----------------------------------------------------------------------------
(* printAndClearStats tests statsNumBatches and reads it again to divide    *)
(* (worker.cpp:178-179) while the worker counts: it never divides by zero.  *)
(* Both counters must be tested: frames counted after a reset can be there  *)
(* without their batch.                                                     *)
DivisorNonZero == spc = "divide" => statsNumBatches[sw] > 0

(* A Manager::stop() that comes after run() has stored RUN (manager.hpp:120)*)
(* ends run(); one that comes earlier is overwritten.                       *)
StopEndsRun ==
  mstate = "STOP" /\ mpc \in {"stats", "loop", "process"} ~> mpc = "returned"

Traffic == []<><<inRing' > inRing>>_vars

(* A Worker::stop() that comes after the thread's own store (worker.hpp:68) *)
(* ends with the thread joined, provided the traffic ends: process() does   *)
(* not return before it finds inRing empty.                                 *)
StopJoins ==
  Traffic \/ \A w \in Workers :
    wstate[w] = "STOP" /\ wpc[w] # "start" ~> wpc[w] = "joined"

(* A reset that falls between the read and the write of a counter is lost,  *)
(* but not for good: when the traffic ends all counters get and stay zero,  *)
(* so that the log shows the silence.                                       *)
CountersSettle ==
  Traffic \/ <>[](\A w \in Workers :
                    statsNumFrames[w] = 0 /\ statsNumBatches[w] = 0)
=============================================================================
