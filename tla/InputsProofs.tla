---------------------------- MODULE InputsProofs ----------------------------
(***************************************************************************)
(* What holds of the generated inputs, whatever the flags and the draws:   *)
(* the rows of workloads.csv are of one of three kinds (FileInv), and each *)
(* kind has a node that takes it.                                          *)
(***************************************************************************)
EXTENDS Inputs, TLAPS

FileRow == [submit : Int, cpu : Nat, mem : Nat, duration : Int, resourceClass : Classes,
            preferredSite : {"FR", "NL"}, gpuCount : {0, 1}]

(* A row asks for no more than the most that any class is sampled up to    *)
(* (so what is between the ends of the ranges does not matter), and for a  *)
(* GPU if its class says so.                                               *)
RowOK(rec) ==
    /\ rec.cpu <= 19
    /\ rec.mem <= 95
    /\ rec.gpuCount = (IF rec.resourceClass = "gpu" THEN 1 ELSE 0)

FileInv ==
    /\ current \in Int
    /\ turn \in [Classes -> Nat]
    /\ file \in Seq(FileRow)
    /\ \A i \in DOMAIN file : RowOK(file[i])
    /\ stage = "loaded" =>
          /\ workloads = [i \in DOMAIN file |-> LoadWorkload(file[i])]
          /\ nodes = {LoadNode(row) : row \in GeneratedNodes}

LEMMA ClassOfType == \A share, u : ClassOf(share, u) \in Classes
BY DEF ClassOf, Classes

LEMMA SiteOfTurnType == \A t \in Nat : SiteOfTurn(t) \in {"FR", "NL"}
<1> SUFFICES ASSUME NEW t \in Nat PROVE SiteOfTurn(t) \in {"FR", "NL"}
  OBVIOUS
<1>1. 1 + (t % 4) \in {1, 2, 3, 4}
  OBVIOUS
<1> QED
  BY <1>1 DEF SiteOfTurn

LEMMA FileInit == Init => FileInv
BY DEF Init, FileInv

LEMMA FileStep == FileInv /\ [Next]_vars => FileInv'
<1> SUFFICES ASSUME FileInv, [Next]_vars PROVE FileInv'
  OBVIOUS
<1>1. ASSUME WriteJob PROVE FileInv'
  <2>1. PICK u \in UniformDraws, d \in DurationDraws :
           \E cpu \in Cores(ClassOf(gpuShare, u)), mem \in Memory(ClassOf(gpuShare, u)) :
              /\ file' = Append(file,
                     [submit |-> current \div 1000, cpu |-> cpu, mem |-> mem,
                      duration |-> DurationWritten(d), resourceClass |-> ClassOf(gpuShare, u),
                      preferredSite |-> SiteOfTurn(turn[ClassOf(gpuShare, u)]),
                      gpuCount |-> IF ClassOf(gpuShare, u) = "gpu" THEN 1 ELSE 0])
              /\ turn' = [turn EXCEPT ![ClassOf(gpuShare, u)] = @ + 1]
    BY <1>1 DEF WriteJob
  <2> DEFINE class == ClassOf(gpuShare, u)
  <2>2. PICK cpu \in Cores(class), mem \in Memory(class) :
              /\ file' = Append(file,
                     [submit |-> current \div 1000, cpu |-> cpu, mem |-> mem,
                      duration |-> DurationWritten(d), resourceClass |-> class,
                      preferredSite |-> SiteOfTurn(turn[class]),
                      gpuCount |-> IF class = "gpu" THEN 1 ELSE 0])
              /\ turn' = [turn EXCEPT ![class] = @ + 1]
    BY <2>1
  <2> DEFINE rec == [submit |-> current \div 1000, cpu |-> cpu, mem |-> mem,
                     duration |-> DurationWritten(d), resourceClass |-> class,
                     preferredSite |-> SiteOfTurn(turn[class]),
                     gpuCount |-> IF class = "gpu" THEN 1 ELSE 0]
  <2>3. stage = "generate" /\ UNCHANGED <<stage, current>>
    BY <1>1 DEF WriteJob
  <2>4. class \in Classes
    BY ClassOfType
  <2>5. turn' \in [Classes -> Nat] /\ turn[class] \in Nat
    BY <2>2, <2>4 DEF FileInv
  <2>6. rec \in FileRow
    <3>1. cpu \in Nat /\ mem \in Nat
      BY <2>4 DEF Cores, Memory, Classes
    <3>2. DurationWritten(d) \in Int
      BY InputAssumption DEF DurationWritten
    <3>3. current \div 1000 \in Int
      BY DEF FileInv
    <3>4. SiteOfTurn(turn[class]) \in {"FR", "NL"}
      BY <2>5, SiteOfTurnType
    <3> HIDE DEF class
    <3> QED
      BY <2>4, <3>1, <3>2, <3>3, <3>4 DEF FileRow
  <2>7. RowOK(rec)
    <3>1. cpu <= 19 /\ mem <= 95
      BY <2>4 DEF Cores, Memory, Classes
    <3> QED
      BY <3>1 DEF RowOK
  <2>8. file' = Append(file, rec)
    BY <2>2
  <2> HIDE DEF rec, class
  <2>9. /\ file' \in Seq(FileRow)
        /\ \A i \in DOMAIN file' : file'[i] = rec \/ (i \in DOMAIN file /\ file'[i] = file[i])
    BY <2>6, <2>8 DEF FileInv
  <2>10. \A i \in DOMAIN file' : RowOK(file'[i])
    BY <2>7, <2>9 DEF FileInv
  <2> QED
    BY <2>3, <2>5, <2>9, <2>10 DEF FileInv, RowOK
<1>2. ASSUME NextWave PROVE FileInv'
  <2>1. \A ms \in IntervalDraws : Interval(ms) \in Int
    BY InputAssumption DEF Interval, AtLeast
  <2>2. current' \in Int
    BY <1>2, <2>1 DEF NextWave, FileInv
  <2> QED
    BY <1>2, <2>2 DEF NextWave, FileInv, RowOK
<1>3. ASSUME Written \/ Load \/ Loaded \/ UNCHANGED vars PROVE FileInv'
  BY <1>3 DEF Written, Load, Loaded, vars, FileInv, RowOK
<1> QED
  BY <1>1, <1>2, <1>3 DEF Next

(* What the loader makes of a row.                                         *)
LEMMA LoadedRow ==
    ASSUME FileInv, stage = "loaded", NEW i \in DOMAIN workloads
    PROVE  \E rec \in FileRow : RowOK(rec) /\ workloads[i] = LoadWorkload(rec)
<1>1. i \in DOMAIN file /\ workloads[i] = LoadWorkload(file[i])
  BY DEF FileInv
<1>2. file[i] \in FileRow /\ RowOK(file[i])
  BY <1>1 DEF FileInv
<1> QED
  BY <1>1, <1>2

LEMMA LoadedFields ==
    ASSUME NEW rec
    PROVE  /\ LoadWorkload(rec).cpu = rec.cpu
           /\ LoadWorkload(rec).mem = rec.mem
           /\ LoadWorkload(rec).requiresGpu = RequiresGpu(rec)
           /\ LoadWorkload(rec).class =
                  IF NormaliseClass(rec.resourceClass) # "" THEN NormaliseClass(rec.resourceClass)
                  ELSE IF RequiresGpu(rec) THEN "gpu" ELSE ""
BY DEF LoadWorkload

(* GpuHintsAgree: requires_gpu and the class of a loaded job say the same. *)
THEOREM HintsAgree == Spec => []GpuHintsAgree
<1>1. FileInv => GpuHintsAgree
  <2> SUFFICES ASSUME FileInv, stage = "loaded", NEW i \in DOMAIN workloads
               PROVE  workloads[i].requiresGpu <=> (workloads[i].class = "gpu")
    BY DEF GpuHintsAgree
  <2>1. PICK rec \in FileRow : RowOK(rec) /\ workloads[i] = LoadWorkload(rec)
    BY LoadedRow
  <2>2. rec.resourceClass \in {"cpu", "gpu", "memory"}
    BY DEF FileRow, Classes
  <2>3. rec.gpuCount > 0 <=> rec.resourceClass = "gpu"
    BY <2>1 DEF RowOK
  <2>4. /\ workloads[i].requiresGpu = RequiresGpu(rec)
        /\ workloads[i].class = IF NormaliseClass(rec.resourceClass) # ""
                                THEN NormaliseClass(rec.resourceClass)
                                ELSE IF RequiresGpu(rec) THEN "gpu" ELSE ""
    BY <2>1, LoadedFields
  <2>5. NormaliseClass(rec.resourceClass) =
            IF rec.resourceClass = "memory" THEN "mem" ELSE rec.resourceClass
    BY <2>2 DEF NormaliseClass
  <2> QED
    BY <2>2, <2>3, <2>4, <2>5 DEF RequiresGpu
<1> QED
  BY FileInit, FileStep, <1>1, PTL DEF Spec

(* The node with the most of everything takes any job that is sampled.     *)
LEMMA LargestNode ==
    ASSUME NEW rec \in FileRow, RowOK(rec)
    PROVE  \E row \in GeneratedNodes : CanAccept(LoadNode(row), LoadWorkload(rec))
<1> DEFINE row == Row("de-gpu-0", 32, 128, "DE", TRUE, "gpu")
<1>1. row \in GeneratedNodes
  BY DEF GeneratedNodes
<1>2. LoadNode(row).cpu = 32 /\ LoadNode(row).mem = 128 /\ LoadNode(row).gpu = TRUE
  BY DEF LoadNode, Row
<1>3. LoadWorkload(rec).cpu = rec.cpu /\ LoadWorkload(rec).mem = rec.mem
  BY LoadedFields
<1>4. rec.cpu \in 0..19 /\ rec.mem \in 0..95
  BY DEF RowOK, FileRow
<1> HIDE DEF row
<1>5. /\ LoadNode(row).cpu >= LoadWorkload(rec).cpu
      /\ LoadNode(row).mem >= LoadWorkload(rec).mem
  BY <1>2, <1>3, <1>4
<1> QED
  BY <1>1, <1>2, <1>5, Zenon DEF CanAccept

(* SomeNodeFits: whatever is drawn, some generated node takes the job.     *)
THEOREM EveryJobFits == Spec => []SomeNodeFits
<1>1. FileInv => SomeNodeFits
  <2> SUFFICES ASSUME FileInv, stage = "loaded", NEW i \in DOMAIN workloads
               PROVE  \E n \in nodes : CanAccept(n, workloads[i])
    BY DEF SomeNodeFits
  <2>1. PICK rec \in FileRow : RowOK(rec) /\ workloads[i] = LoadWorkload(rec)
    BY LoadedRow
  <2>2. PICK row \in GeneratedNodes : CanAccept(LoadNode(row), LoadWorkload(rec))
    BY <2>1, LargestNode
  <2>3. LoadNode(row) \in nodes
    BY DEF FileInv
  <2> QED
    BY <2>1, <2>2, <2>3
<1> QED
  BY FileInit, FileStep, <1>1, PTL DEF Spec
=============================================================================
