------------------------------ MODULE Metrics -------------------------------
(***************************************************************************)
(* The use of resources by a job, sampled and reported by Porter           *)
(* (src/c_src/porter/wm_porter_metrics.cpp): each turn of Porter's loop    *)
(* may take a sample, samples are gathered in a window, a window becomes   *)
(* one report to SWM, and the end of the script flushes the last one.      *)
(*                                                                         *)
(* Time is counted in ticks of the wall clock (system_clock), CPU time in  *)
(* what one processor gives in a tick; cpu_percent is scaled so that Full  *)
(* is all processors of the host.  The names of files and of NVML symbols  *)
(* are left out; a file or a device is readable or it is not.              *)
(***************************************************************************)
EXTENDS Integers, Sequences, FiniteSets, FiniteSetsExt

CONSTANTS
    Intervals,  \* values of SWM_METRICS_INTERVAL_MS and SWM_METRICS_REPORT_MS
    Ncpus,      \* processors of the host
    Memory,     \* values of memory.current
    Device,     \* GPUs
    MaxTurn,    \* bound: the longest turn of the loop, in ticks
    MaxTime,    \* bound: the wall clock
    MaxFaults   \* bound: files not read, clock set, sends failed

ASSUME MetricsAssumption ==
    /\ Intervals \subseteq Int
    /\ Ncpus \in Nat \ {0}
    /\ Memory \subseteq Nat
    /\ IsFiniteSet(Device)
    /\ MaxTurn \in Nat \ {0}
    /\ MaxTime \in Nat
    /\ MaxFaults \in Nat

Full == 60          \* 100 percent; divisible by every interval of a few ticks
None == -1          \* an optional without a value

VARIABLES
    pc,         \* "run", then "done" after the flush
    cfg,        \* PorterMetricsConfig
    v2,         \* cgroup_v2_ok, found out with the first sample
    usage,      \* usage_usec of the cgroup
    now,        \* the wall clock
    lastUsage, lastSample, baseline,    \* PorterMetricsState
    window,     \* PorterMetricsWindow
    reports,    \* history: what was written to SWM
    taken,      \* history: samples with a value
    faults      \* history: the faults

state == <<lastUsage, lastSample, baseline, window>>
vars == <<pc, cfg, v2, usage, now, state, reports, taken, faults>>

Empty(at) == [start |-> at, samples |-> 0,
              cpuN |-> 0, cpuSum |-> 0, cpuMax |-> 0,
              memN |-> 0, memSum |-> 0, memMax |-> 0,
              gpuN |-> 0, utilSum |-> 0, utilMax |-> 0, gmemSum |-> 0, gmemMax |-> 0]

(* The report period also bounds the sample period; 0 or less is off.      *)
ConfigUnclamped(s, r, g) == [sample |-> s, report |-> r, gpu |-> g]     \* mutant
Config(s, r, g) == [sample |-> IF r > 0 /\ s > r THEN r ELSE s, report |-> r, gpu |-> g]

On == cfg.sample > 0 /\ cfg.report > 0

Init ==
    /\ pc = "run"
    /\ \E s, r \in Intervals, g \in BOOLEAN : cfg = Config(s, r, g)
    /\ v2 \in BOOLEAN
    /\ usage = 0
    /\ now = 1
    /\ lastUsage = 0
    /\ lastSample = 0
    /\ baseline = FALSE
    /\ window = Empty(0)
    /\ reports = <<>>
    /\ taken = 0
    /\ faults = {}

Happens(k) == Cardinality(faults) < MaxFaults /\ k \notin faults /\ faults' = faults \cup {k}
-----------------------------------------------------------------------------
(***************************************************************************)
(* A sample.                                                               *)
(***************************************************************************)
(* query_gpu_nvml, where f has what the devices that answered have said:   *)
(* the mean utilization and the sum of the memory, or nothing.             *)
QueryGpu(f) ==
    IF DOMAIN f = {} THEN [util |-> None, mem |-> None]
    ELSE [util |-> MapThenSumSet(LAMBDA d : f[d].util, DOMAIN f) \div Cardinality(DOMAIN f),
          mem |-> MapThenSumSet(LAMBDA d : f[d].mem, DOMAIN f)]

(* The part of take_sample for the processor: what was used since the last *)
(* time the file was read, over the time since the last sample.            *)
CpuPercentOfOne(t, u) ==    \* mutant: the number of processors is forgotten
    IF baseline /\ t > lastSample THEN (Full * (u - lastUsage)) \div (t - lastSample) ELSE None
CpuPercent(t, u) ==
    IF baseline /\ lastSample > 0 /\ t > lastSample /\ u >= lastUsage
    THEN (Full * (u - lastUsage)) \div ((t - lastSample) * Ncpus)
    ELSE None

(* What take_sample returns: readable is cpu.stat, m what memory.current   *)
(* has or None, f what the GPUs have said.                                 *)
Sample(t, u, readable, m, f) ==
    LET g == QueryGpu(IF cfg.gpu THEN f ELSE <<>>)
    IN [cpu |-> IF v2 /\ readable THEN CpuPercent(t, u) ELSE None,
        mem |-> IF v2 THEN m ELSE None, util |-> g.util, gmem |-> g.mem]

(* What it leaves in the state: the time, and what it has read.            *)
SampleTaken(t, u, readable) ==
    /\ lastSample' = t
    /\ lastUsage' = IF v2 /\ readable THEN u ELSE lastUsage
    /\ baseline' = (baseline \/ (v2 /\ readable))

AnyValue(s) == s.cpu # None \/ s.mem # None \/ s.util # None
-----------------------------------------------------------------------------
(***************************************************************************)
(* The window.                                                             *)
(***************************************************************************)
Larger(a, b) == IF a > b THEN a ELSE b
Sum(a, v) == IF v = None THEN a ELSE a + v
One(n, v) == IF v = None THEN n ELSE n + 1

AddAlways(w, s) == [w EXCEPT !.samples = @ + 1]     \* mutant: also a sample without a value
Add(w, s) ==
    IF ~AnyValue(s) THEN w
    ELSE [start |-> w.start, samples |-> w.samples + 1,
          cpuN |-> One(w.cpuN, s.cpu), cpuSum |-> Sum(w.cpuSum, s.cpu),
          cpuMax |-> Larger(w.cpuMax, s.cpu),
          memN |-> One(w.memN, s.mem), memSum |-> Sum(w.memSum, s.mem),
          memMax |-> Larger(w.memMax, s.mem),
          gpuN |-> One(w.gpuN, s.util), utilSum |-> Sum(w.utilSum, s.util),
          utilMax |-> Larger(w.utilMax, s.util),
          gmemSum |-> Sum(w.gmemSum, s.gmem), gmemMax |-> Larger(w.gmemMax, s.gmem)]

Ready(w, t) == w.start > 0 /\ t - w.start >= cfg.report

(* llround of a mean; a kind of value nobody saw is not in the report.     *)
Mean(sum, n) == IF n = 0 THEN None ELSE (2 * sum + n) \div (2 * n)
Seen(n, v) == IF n = 0 THEN None ELSE v

(* send_aggregated_metrics.                                                *)
Report(w, t) ==
    [ts |-> t, samples |-> w.samples, ms |-> Larger(0, t - w.start),
     cpu |-> Mean(w.cpuSum, w.cpuN), cpuMax |-> Seen(w.cpuN, w.cpuMax),
     mem |-> Mean(w.memSum, w.memN), memMax |-> Seen(w.memN, w.memMax),
     util |-> Mean(w.utilSum, w.gpuN), utilMax |-> Seen(w.gpuN, w.utilMax),
     gmem |-> Mean(w.gmemSum, w.gpuN), gmemMax |-> Seen(w.gpuN, w.gmemMax)]

(* flush_window: an empty one only starts again; one that could not be     *)
(* sent is kept.                                                           *)
FlushWindow(w, t, sent) ==
    IF w.samples = 0 THEN window' = Empty(t) /\ UNCHANGED reports
    ELSE IF sent THEN window' = Empty(t) /\ reports' = Append(reports, Report(w, t))
    ELSE window' = w /\ UNCHANGED reports
-----------------------------------------------------------------------------
(***************************************************************************)
(* The turns of Porter's loop.                                             *)
(***************************************************************************)
Started(t) == IF window.start = 0 THEN Empty(t) ELSE window

GpuReadings == UNION {[D -> [util : {Full}, mem : {1}]] : D \in SUBSET Device}

(* The script runs on: porter_metrics_maybe_send at t.  If a report cannot *)
(* be sent, Porter ends.                                                   *)
MaybeSend(t, u) ==
    IF ~On \/ (lastSample # 0 /\ t - lastSample < cfg.sample)
    THEN UNCHANGED <<state, reports, taken, pc, faults>>
    ELSE \E fault \in {"none", "unread", "unsent"}, m \in Memory, f \in GpuReadings :
        LET s == Sample(t, u, fault # "unread", m, f)
            w == Add(Started(t), s)
        IN  /\ IF fault = "none" THEN UNCHANGED faults ELSE Happens(fault)
            /\ fault = "unsent" => Ready(w, t) /\ w.samples > 0
            /\ SampleTaken(t, u, fault # "unread")
            /\ taken' = IF AnyValue(s) THEN taken + 1 ELSE taken
            /\ IF Ready(w, t) THEN FlushWindow(w, t, fault # "unsent")
               ELSE window' = w /\ UNCHANGED reports
            /\ pc' = IF fault = "unsent" THEN "done" ELSE pc

(* The script has ended: porter_metrics_flush takes one more sample.       *)
Flush(t, u) ==
    /\ pc' = "done"
    /\ IF ~On THEN UNCHANGED <<state, reports, taken, faults>>
       ELSE \E fault \in {"none", "unread"}, m \in Memory, f \in GpuReadings :
        LET s == Sample(t, u, fault = "none", m, f)
        IN  /\ IF fault = "none" THEN UNCHANGED faults ELSE Happens(fault)
            /\ SampleTaken(t, u, fault = "none")
            /\ taken' = IF AnyValue(s) THEN taken + 1 ELSE taken
            /\ FlushWindow(Add(Started(t), s), t, TRUE)

(* A turn of d ticks, in which the job uses some of the processors.        *)
Turn(d) ==
    /\ pc = "run"
    /\ now + d <= MaxTime
    /\ now' = now + d
    /\ \E u \in 0..d * Ncpus :
        /\ usage' = usage + u
        /\ MaybeSend(now', usage') \/ Flush(now', usage')
    /\ UNCHANGED <<cfg, v2>>

(* The wall clock is set back.                                             *)
SetClock ==
    /\ pc = "run"
    /\ now > 1
    /\ Happens("clock")
    /\ now' \in 1..now - 1
    /\ UNCHANGED <<pc, cfg, v2, usage, state, reports, taken>>

Next == SetClock \/ \E d \in 1..MaxTurn : Turn(d)

Spec == Init /\ [][Next]_vars
-----------------------------------------------------------------------------
(* Every sample is in one report, the last partial window included: "A     *)
(* partial window is flushed when the job process exits"                   *)
(* (HOWTO/ACCOUNTING.md:34).                                               *)
SamplesIn(r) == LET upTo[i \in 0..Len(r)] == IF i = 0 THEN 0 ELSE upTo[i - 1] + r[i].samples
                IN upTo[Len(r)]
Reported == SamplesIn(reports)
EverySampleOnce ==
    /\ Reported + window.samples = taken
    /\ pc = "done" => (window.samples = 0 \/ "unsent" \in faults)

(* No job uses more than the host has, as long as cpu.stat can be read and *)
(* the clock runs on: otherwise the usage of several periods is divided by *)
(* the length of one.                                                      *)
CpuWithinCapacity ==
    {"unread", "clock"} \cap faults = {} =>
        /\ window.cpuMax <= Full
        /\ \A i \in DOMAIN reports :
               reports[i].cpu <= reports[i].cpuMax /\ reports[i].cpuMax <= Full

(* No window is longer than two report periods and a turn, whatever the    *)
(* sample period of the job's environment is.                              *)
ReportsOnTime ==
    "clock" \notin faults =>
        /\ \A i \in DOMAIN reports : reports[i].ms < 2 * cfg.report + MaxTurn
        /\ On /\ pc = "run" /\ window.start > 0 => now - window.start < 2 * cfg.report + MaxTurn
=============================================================================
