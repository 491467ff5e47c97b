------------------------------- MODULE Inputs -------------------------------
(***************************************************************************)
(* The inputs of the simulator: gen_data with pkg/generator writes nodes,  *)
(* sites and a synthetic workload; pkg/loader reads them back.             *)
(*                                                                         *)
(* A random draw is any value of the range it is drawn from; the ranges of *)
(* cores and memory stand as their ends. Times are milliseconds in the     *)
(* generator, whole seconds in the file (RFC3339). Shares and the uniform  *)
(* draw that picks a class are in hundredths; PUE and k too.               *)
(***************************************************************************)
EXTENDS Integers, Sequences, FiniteSets

CONSTANTS
    JobsFlag, BatchFlag,     \* -jobs, -batch-size
    GpuShares,               \* values of -gpu-share
    UniformDraws,            \* draws that pick a class
    DurationDraws,           \* sampled durations in seconds, rounded
    IntervalDraws            \* sampled intervals between waves

ASSUME InputAssumption == DurationDraws \subseteq Int /\ IntervalDraws \subseteq Int

VARIABLES
    stage,       \* "generate" | "load" | "loaded"
    gpuShare,
    current,     \* the submit time of the current wave
    wave,        \* jobs still to write in it
    remaining,   \* jobs still to write after it
    turn,        \* cpuIdx, gpuIdx, memoryIdx
    file,        \* workloads.csv
    workloads, nodes   \* what the loader returns

vars == <<stage, gpuShare, current, wave, remaining, turn, file, workloads, nodes>>

Classes == {"cpu", "gpu", "memory"}

Least(a, b) == IF a < b THEN a ELSE b
AtLeast(a, b) == IF a < b THEN b ELSE a
Clamp(x, lo, hi) == IF x < lo THEN lo ELSE IF x > hi THEN hi ELSE x

-----------------------------------------------------------------------------
(* Generator                                                               *)

(* The rows of GenerateNodes; the file has no device_class column.         *)
Row(name, cpu, mem, site, gpu, class) ==
    [name |-> name, cpu |-> cpu, mem |-> mem, site |-> site, gpu |-> gpu,
     resourceClass |-> class, deviceClass |-> ""]

GeneratedNodes ==
    { Row("nl-edge-0", 4, 16, "NL", FALSE, "cpu"),
      Row("nl-edge-1", 4, 16, "NL", FALSE, "cpu"),
      Row("fr-standard-0", 8, 32, "FR", FALSE, "cpu"),
      Row("fr-standard-1", 8, 32, "FR", FALSE, "cpu"),
      Row("fr-gpu-0", 16, 64, "FR", TRUE, "gpu"),
      Row("de-memory-0", 12, 96, "DE", FALSE, "memory"),
      Row("de-gpu-0", 32, 128, "DE", TRUE, "gpu"),
      Row("de-standard-1", 12, 64, "DE", FALSE, "memory") }

(* writeSitesCSV.                                                          *)
SitesFile == { [id |-> "NL", pue |-> 116, k |-> 100],
               [id |-> "FR", pue |-> 114, k |-> 98],
               [id |-> "DE", pue |-> 120, k |-> 103] }

MemShare(g) == IF 75 - g < 0 THEN 50 - g ELSE 25
CpuShare(g) == IF 75 - g < 0 THEN 50 ELSE 75 - g

(* sampleResourceClass: the class a uniform draw picks.                    *)
ClassOf(share, u) ==
    LET g == Clamp(share, 0, 95)
    IN  IF u < CpuShare(g) THEN "cpu"
        ELSE IF u < CpuShare(g) + MemShare(g) THEN "memory"
        ELSE "gpu"

MemoryOverlap(class) ==
    CASE class = "cpu" -> {8, 19} [] class = "memory" -> {24, 151} [] OTHER -> {48, 95}

Cores(class) ==
    CASE class = "cpu" -> {2, 7} [] class = "memory" -> {2, 5} [] OTHER -> {8, 19}

Memory(class) ==
    CASE class = "cpu" -> {8, 19} [] class = "memory" -> {24, 63} [] OTHER -> {48, 95}

(* cpuSites, gpuSites and memorySites: three lists that are equal.         *)
SiteOfTurn(t) == <<"FR", "FR", "NL", "FR">>[1 + (t % 4)]

DurationWritten(d) == IF d <= 0 THEN 60 ELSE d

(* sampleInterArrival: at least a tenth of a second.                       *)
Interval(ms) == AtLeast(ms, 100)

Batch == IF BatchFlag <= 0 THEN 64 ELSE BatchFlag

-----------------------------------------------------------------------------
(* Loader                                                                  *)

NormaliseClass(c) ==
    CASE c \in {"cpu", "gpu"} -> c [] c = "memory" -> "mem" [] OTHER -> ""

RequiresGpuAlways(rec) == rec.gpuCount >= 0

RequiresGpu(rec) == rec.gpuCount > 0

(* LoadWorkloadsFromCSV; the generator writes no "class" column, so the    *)
(* class is that of resource_class, else of the GPU count.                 *)
LoadWorkload(rec) ==
    [cpu |-> rec.cpu, mem |-> rec.mem, submit |-> rec.submit, duration |-> rec.duration,
     preferredSite |-> rec.preferredSite, requiresGpu |-> RequiresGpu(rec),
     class |-> IF NormaliseClass(rec.resourceClass) # "" THEN NormaliseClass(rec.resourceClass)
               ELSE IF RequiresGpu(rec) THEN "gpu" ELSE ""]

(* LoadSitesFromCSV.                                                       *)
LoadedSites ==
    {[s EXCEPT !.pue = Clamp(@, 85, 150), !.k = Clamp(@, 60, 130)] : s \in SitesFile}

NoSite == [id |-> "", pue |-> 0, k |-> 0]

(* AttachSites: the site whose id is the node's, if there is one.          *)
SiteNamed(id) ==
    IF \E s \in LoadedSites : s.id = id THEN CHOOSE s \in LoadedSites : s.id = id ELSE NoSite

(* LoadNodesFromCSV and AttachSites.                                       *)
LoadNode(row) ==
    [name |-> row.name, cpu |-> row.cpu, mem |-> row.mem, gpu |-> row.gpu,
     site |-> SiteNamed(row.site),
     deviceClass |-> IF NormaliseClass(row.deviceClass) # "" THEN NormaliseClass(row.deviceClass)
                     ELSE IF row.gpu THEN "gpu" ELSE ""]

(* CanAccept of an idle node.                                              *)
CanAccept(n, w) ==
    /\ n.cpu >= w.cpu
    /\ n.mem >= w.mem
    /\ w.requiresGpu => n.gpu

-----------------------------------------------------------------------------

Init ==
    /\ stage = "generate"
    /\ gpuShare \in GpuShares
    /\ current = 0
    /\ wave = Least(Batch, JobsFlag)
    /\ remaining = JobsFlag - Least(Batch, JobsFlag)
    /\ turn = [c \in Classes |-> 0]
    /\ file = <<>>
    /\ workloads = <<>>
    /\ nodes = {}

(* One row of GenerateWorkloads.                                           *)
WriteJob ==
    /\ stage = "generate"
    /\ wave > 0
    /\ \E u \in UniformDraws, d \in DurationDraws :
       LET class == ClassOf(gpuShare, u)
       IN  \E cpu \in Cores(class), mem \in Memory(class) :
              /\ file' = Append(file,
                     [submit |-> current \div 1000, cpu |-> cpu, mem |-> mem,
                      duration |-> DurationWritten(d), resourceClass |-> class,
                      preferredSite |-> SiteOfTurn(turn[class]),
                      gpuCount |-> IF class = "gpu" THEN 1 ELSE 0])
              /\ turn' = [turn EXCEPT ![class] = @ + 1]
    /\ wave' = wave - 1
    /\ UNCHANGED <<stage, gpuShare, current, remaining, workloads, nodes>>

NextWave ==
    /\ stage = "generate"
    /\ wave = 0
    /\ remaining > 0
    /\ \E ms \in IntervalDraws : current' = current + Interval(ms)
    /\ wave' = Least(Batch, remaining)
    /\ remaining' = remaining - Least(Batch, remaining)
    /\ UNCHANGED <<stage, gpuShare, turn, file, workloads, nodes>>

Written ==
    /\ stage = "generate"
    /\ wave = 0
    /\ remaining = 0
    /\ stage' = "load"
    /\ UNCHANGED <<gpuShare, current, wave, remaining, turn, file, workloads, nodes>>

Load ==
    /\ stage = "load"
    /\ workloads' = [i \in DOMAIN file |-> LoadWorkload(file[i])]
    /\ nodes' = {LoadNode(row) : row \in GeneratedNodes}
    /\ stage' = "loaded"
    /\ UNCHANGED <<gpuShare, current, wave, remaining, turn, file>>

Loaded == stage = "loaded" /\ UNCHANGED vars

Next == WriteJob \/ NextWave \/ Written \/ Load \/ Loaded

Spec == Init /\ [][Next]_vars

-----------------------------------------------------------------------------

(* Every generated job can run: whatever was drawn for it, some generated  *)
(* node takes it when idle, with a GPU when the job asks for one, so that  *)
(* no job waits for ever in the simulator's queue.                         *)
SomeNodeFits ==
    stage = "loaded" =>
        \A i \in DOMAIN workloads : \E n \in nodes : CanAccept(n, workloads[i])

(* The two ways a job says it needs a GPU agree after loading: the policy  *)
(* reads the class, CanAccept reads requires_gpu.                          *)
GpuHintsAgree ==
    stage = "loaded" =>
        \A i \in DOMAIN workloads : workloads[i].requiresGpu <=> (workloads[i].class = "gpu")
=============================================================================
