---------------------------- MODULE CpuAffinity ----------------------------
(***************************************************************************)
(* The CPU affinity cache (src/util/cpu_id.cc).  SetCPUAffinity binds the  *)
(* calling thread to one CPU with sched_setaffinity and, only if that      *)
(* succeeded, stores cpu_id + 1 in the process-wide atomic                 *)
(* cpu_affinity_plus_one (zero-initialised, so it reads back -1 before any *)
(* store).  GetCPUAffinityNoSyscall loads it and subtracts one.  The       *)
(* syscall and the store are separate steps, so other threads may act in  *)
(* between.  The kernel's per-thread affinity is part of the state.        *)
(* GetCPUIdUsingSyscall asks the kernel (getcpu) where the thread runs.    *)
(***************************************************************************)
EXTENDS Integers, FiniteSets

CONSTANTS
  Threads,    \* threads of the process
  kMaxCpus,   \* cpu_id.h: size of the CpuSet
  CpuIds,     \* cpu_id arguments callers pass (some may be >= kMaxCpus)
  Online,     \* CPUs sched_setaffinity accepts
  MaxCalls    \* SetCPUAffinity calls per thread

ASSUME Online \subseteq 0..kMaxCpus - 1 /\ CpuIds \subseteq Nat

\* A thread's affinity before any SetCPUAffinity: every online CPU.
AnyCpu == -1

\* GetCPUIdUsingSyscall's answer when getcpu fails (declared in cpu_id.h,
\* outside src/; a value no CPU id takes).
kUnknownCPUId == -1

VARIABLES
  cpu_affinity_plus_one, \* the global atomic
  affinity,              \* the kernel's affinity of each thread
  pc,                    \* "idle" | "store" (between syscall and store)
  arg,                   \* cpu_id of the SetCPUAffinity in progress
  calls,                 \* SetCPUAffinity calls made by each thread
  seen,                  \* each thread's last GetCPUAffinityNoSyscall result
  cpu_now,               \* each thread's last GetCPUIdUsingSyscall result
  aborted                \* a CHECK failed and the process aborted

vars == <<cpu_affinity_plus_one, affinity, pc, arg, calls, seen, cpu_now,
          aborted>>

Init ==
  /\ cpu_affinity_plus_one = 0
  /\ affinity = [t \in Threads |-> AnyCpu]
  /\ pc = [t \in Threads |-> "idle"]
  /\ arg = [t \in Threads |-> 0]
  /\ calls = [t \in Threads |-> 0]
  /\ seen = [t \in Threads |-> -1]
  /\ cpu_now = [t \in Threads |-> kUnknownCPUId]
  /\ aborted = FALSE

\* Mutant: the cache is written before the syscall's result is checked.
SetCPUAffinityStoreFirst(t, cpu) ==
  /\ ~aborted /\ pc[t] = "idle" /\ calls[t] < MaxCalls
  /\ calls' = [calls EXCEPT ![t] = @ + 1]
  /\ \/ /\ cpu >= kMaxCpus
        /\ aborted' = TRUE
        /\ UNCHANGED <<affinity, pc, arg, cpu_affinity_plus_one>>
     \/ /\ cpu < kMaxCpus /\ cpu \notin Online
        /\ cpu_affinity_plus_one' = cpu + 1
        /\ UNCHANGED <<affinity, pc, arg, aborted>>
     \/ /\ cpu < kMaxCpus /\ cpu \in Online
        /\ affinity' = [affinity EXCEPT ![t] = cpu]
        /\ pc' = [pc EXCEPT ![t] = "store"]
        /\ arg' = [arg EXCEPT ![t] = cpu]
        /\ UNCHANGED <<aborted, cpu_affinity_plus_one>>
  /\ UNCHANGED <<seen, cpu_now>>

\* SetCPUAffinity(cpu_id) up to the syscall: CHECK_LT(cpu_id, kMaxCpus),
\* then sched_setaffinity(0, ...) on a set holding only cpu_id.  On
\* failure it returns errno at once; on success the store is still to come.
SetCPUAffinity(t, cpu) ==
  /\ ~aborted /\ pc[t] = "idle" /\ calls[t] < MaxCalls
  /\ calls' = [calls EXCEPT ![t] = @ + 1]
  /\ \/ /\ cpu >= kMaxCpus
        /\ aborted' = TRUE
        /\ UNCHANGED <<affinity, pc, arg>>
     \/ /\ cpu < kMaxCpus /\ cpu \notin Online
        /\ UNCHANGED <<affinity, pc, arg, aborted>>
     \/ /\ cpu < kMaxCpus /\ cpu \in Online
        /\ affinity' = [affinity EXCEPT ![t] = cpu]
        /\ pc' = [pc EXCEPT ![t] = "store"]
        /\ arg' = [arg EXCEPT ![t] = cpu]
        /\ UNCHANGED aborted
  /\ UNCHANGED <<cpu_affinity_plus_one, seen, cpu_now>>

\* Mutant: the store keeps cpu_id instead of cpu_id + 1.
StoreNoPlusOne(t) ==
  /\ ~aborted /\ pc[t] = "store"
  /\ cpu_affinity_plus_one' = arg[t]
  /\ pc' = [pc EXCEPT ![t] = "idle"]
  /\ UNCHANGED <<affinity, arg, calls, seen, cpu_now, aborted>>

\* cpu_affinity_plus_one.store(cpu_id + 1, relaxed); return 0.
Store(t) ==
  /\ ~aborted /\ pc[t] = "store"
  /\ cpu_affinity_plus_one' = arg[t] + 1
  /\ pc' = [pc EXCEPT ![t] = "idle"]
  /\ UNCHANGED <<affinity, arg, calls, seen, cpu_now, aborted>>

\* Mutant: the load is returned without subtracting one.
LoadNoMinusOne == cpu_affinity_plus_one

\* GetCPUAffinityNoSyscall's value.
LoadAffinity == cpu_affinity_plus_one - 1

GetCPUAffinityNoSyscall(t) ==
  /\ ~aborted /\ pc[t] = "idle"
  /\ seen' = [seen EXCEPT ![t] = LoadAffinity]
  /\ UNCHANGED <<cpu_affinity_plus_one, affinity, pc, arg, calls, cpu_now,
                 aborted>>

\* GetCPUIdUsingSyscall: sys_getcpu reports a CPU the thread may run on
\* now, or fails (result != 0) and kUnknownCPUId is returned.
GetCPUIdUsingSyscall(t) ==
  /\ ~aborted /\ pc[t] = "idle"
  /\ \E cpu \in (IF affinity[t] = AnyCpu THEN Online ELSE {affinity[t]})
                 \cup {kUnknownCPUId} :
       cpu_now' = [cpu_now EXCEPT ![t] = cpu]
  /\ UNCHANGED <<cpu_affinity_plus_one, affinity, pc, arg, calls, seen, aborted>>

Next ==
  \E t \in Threads :
    \/ \E cpu \in CpuIds : SetCPUAffinity(t, cpu)
    \/ Store(t)
    \/ GetCPUAffinityNoSyscall(t)
    \/ GetCPUIdUsingSyscall(t)

Spec == Init /\ [][Next]_vars

-----------------------------------------------------------------------------
(* Properties                                                              *)

TypeOK ==
  /\ cpu_affinity_plus_one \in 0..kMaxCpus
  /\ affinity \in [Threads -> Online \cup {AnyCpu}]
  /\ pc \in [Threads -> {"idle", "store"}]
  /\ calls \in [Threads -> 0..MaxCalls]
  /\ seen \in [Threads -> -1..kMaxCpus - 1]
  /\ cpu_now \in [Threads -> Online \cup {kUnknownCPUId}]
  /\ aborted \in BOOLEAN

\* Last writer wins (spec 9): whatever the interleaving of threads, when no
\* SetCPUAffinity is between its syscall and its store, the cache is empty
\* or names the CPU some thread is bound to now; a failed syscall never
\* reaches the cache.
CacheNamesBoundThread ==
  ((\A t \in Threads : pc[t] = "idle") /\ cpu_affinity_plus_one # 0)
    => \E t \in Threads : affinity[t] = cpu_affinity_plus_one - 1

\* The cache is the "approximate answer" to the CPU id that cpu_id.cc:59-60
\* keeps it for: for a single-threaded caller, whenever getcpu reports the
\* CPU the thread runs on, GetCPUAffinityNoSyscall returns -1 or that same
\* CPU, also after SetCPUAffinity calls that failed in the kernel.
NoSyscallAgreesWithGetcpu ==
  [][\A t \in Threads :
       (GetCPUIdUsingSyscall(t) /\ cpu_now'[t] # kUnknownCPUId)
         => LoadAffinity \in {-1, cpu_now'[t]}]_vars

=============================================================================
