---------------------------- MODULE MemoryGuard -----------------------------
(***************************************************************************)
(* memory.rs: the cap a program puts on itself, and the watchdog that      *)
(* aborts it.  Sizes are in units of 256 MiB; a probe that fails is <<>>.  *)
(* The kernel refuses an allocation beyond the rlimit, where the rlimit    *)
(* sticks, and kills the process beyond the cgroup limit.                  *)
(*                                                                         *)
(* RequestWins is a wrong version of what follows it.                      *)
(***************************************************************************)
EXTENDS Integers

CONSTANTS
  Physical, Available, Cgroup, Requested,  \* what the probes may answer
  MaxGrowth                                \* largest allocation between two steps

MinCap == 8
FallbackCap == 16
None == <<>>
Some(o, d) == IF o = None THEN d ELSE o[1]
Lesser(a, b) == IF a < b THEN a ELSE b
Share(n, percent) == (n * percent) \div 100

Probe(o) == o = None \/ (o = <<o[1]>> /\ o[1] \in Nat)
ASSUME MemAssumption ==
  /\ MaxGrowth \in Nat
  /\ \A o \in Physical \cup Available \cup Cgroup \cup Requested : Probe(o)

VARIABLES host, cap, limit, rss, fate
memVars == <<host, cap, limit, rss, fate>>

(* A cgroup limit of zero, "max" or beyond 2^62 is no limit.               *)
CgroupLimit(h) == IF h.cgroup # None /\ h.cgroup[1] > 0 THEN h.cgroup ELSE None
PhysicalCap(h) == IF h.physical = None THEN FallbackCap ELSE Share(h.physical[1], 60)
AvailableCap(h) == IF h.available = None THEN None ELSE <<Share(h.available[1], 60)>>
CgroupCap(h) == IF CgroupLimit(h) = None THEN None ELSE <<Share(h.cgroup[1], 90)>>
Tightest(h) ==
  LET a == Lesser(PhysicalCap(h), Some(AvailableCap(h), PhysicalCap(h)))
  IN  Lesser(a, Some(CgroupCap(h), a))
Asked(h) == IF h.requested # None /\ h.requested[1] > 0 THEN h.requested ELSE None
RequestWins(h) == Some(Asked(h), Tightest(h))
DefaultCap(h) ==
  LET c == Lesser(Tightest(h), Some(Asked(h), Tightest(h)))
  IN  IF c < MinCap THEN MinCap ELSE c

(* The soft limit is lowered, never beyond the hard one; a kernel that     *)
(* refuses it leaves the process uncapped.                                 *)
ApplyRlimit(bytes, h) ==
  IF h.sticks THEN <<Lesser(bytes, Some(h.hard, bytes))>> ELSE None
ApplySafeCap == /\ cap = None
                /\ cap' = <<DefaultCap(host)>>
                /\ limit' = ApplyRlimit(DefaultCap(host), host)
                /\ UNCHANGED <<host, rss, fate>>

Fits(n) == limit # None => rss + n <= limit[1]
Grow(n) == /\ cap # None /\ fate = "runs" /\ Fits(n)
           /\ rss' = rss + n
           /\ fate' = IF CgroupLimit(host) # None /\ rss + n > host.cgroup[1]
                      THEN "oom_killed" ELSE fate
           /\ UNCHANGED <<host, cap, limit>>
AllocationFails == /\ cap # None /\ fate = "runs" /\ ~Fits(MaxGrowth)
                   /\ fate' = "failed"
                   /\ UNCHANGED <<host, cap, limit, rss>>
Free == /\ fate = "runs" /\ rss > 0 /\ rss' = 0
        /\ UNCHANGED <<host, cap, limit, fate>>

Threshold == Share(cap[1], 80)
Watchdog == /\ cap # None /\ fate = "runs" /\ rss > Threshold
            /\ fate' = "aborted"
            /\ UNCHANGED <<host, cap, limit, rss>>

Hosts == [physical : Physical, available : Available, cgroup : Cgroup,
          requested : Requested, sticks : BOOLEAN, hard : {None, <<12>>}]
MemInit == /\ host \in Hosts
           /\ cap = None /\ limit = None /\ rss = 0 /\ fate = "runs"
MemNext == \/ ApplySafeCap \/ AllocationFails \/ Free \/ Watchdog
           \/ \E n \in {1, MaxGrowth} : rss < 32 /\ Grow(n)
MemSpec == MemInit /\ [][MemNext]_memVars

-----------------------------------------------------------------------------
MemTypeOK == /\ cap = None \/ cap[1] >= MinCap
             /\ fate \in {"runs", "failed", "aborted", "oom_killed"}

(* memory.rs:243: the request of an operator is an upper bound, and where  *)
(* the limit sticks the guard ends the program before the kernel does,     *)
(* provided the container has room for the floor of the cap.               *)
GuardFirst ==
  /\ cap # None /\ Asked(host) # None => cap[1] <= Lesser(Asked(host)[1], Tightest(host))
                                         \/ cap[1] = MinCap
  /\ fate = "oom_killed" => ~host.sticks \/ host.cgroup[1] < MinCap

(* Its inductive invariant: the cap and the limit are those of the host.   *)
MemInv == /\ MemTypeOK /\ host \in Hosts /\ rss \in Nat
          /\ IF cap = None THEN limit = None
             ELSE cap = <<DefaultCap(host)>> /\ limit = ApplyRlimit(DefaultCap(host), host)
          /\ GuardFirst
=============================================================================
