----------------------------- MODULE SweepProofs -----------------------------
(* Theorems about Sweep for every value of its constants.                  *)
EXTENDS Sweep, SequenceTheorems, TLAPS

USE SweepAssumption

\* A launch is under way, from its first copy to the last byte of its report.
Launching == pc \in {"copy", "wait", "write"}

\* A sweep is at a variant of its plan, and has what it needs to go on.
Underway ==
    /\ pc \in {"variant", "copy", "wait", "write", "entry"} => Len(done) < Len(plan)
    /\ Launching => launch >= 1
    /\ pc \in {"write", "entry"} => found # None
    /\ pc = "summary" => Len(done) <= Len(plan)

\* What is on the nodes: a worker was started where a configuration had arrived, and
\* the workers and copies of later launches do not exist.
OnNodes ==
    /\ \A n \in Nodes : \A l \in Launches :
        /\ l > launch \/ (pc = "copy" /\ l = launch) => workers[n][l].pc = "none"
        /\ workers[n][l].pc # "none" => nodeConfig[n] \in File
        /\ workers[n][l].pc \in {"bound", "ok"} => workers[n][l].config \in File
    /\ \A n \in copied : pc = "copy" => nodeConfig[n] \in File
    /\ \A c \in copies : c.launch <= launch

\* The copies and workers of the present launch have its configuration, or will read
\* it, unless an abandoned copy replaces it under their hands.
OwnWorkers ==
    /\ pc = "copy" =>
        /\ configs[Name] = Config
        /\ \A c \in copies : c.launch = launch => c.name = Name /\ c.config \in {None, Config}
    /\ pc = "wait" => ~Copying
    /\ ~overtaken =>
        /\ pc = "copy" => \A n \in copied : nodeConfig[n] = Config
        /\ pc = "wait" => \A n \in Nodes :
            /\ Mine(n).pc = "starting" => nodeConfig[n] = Config
            /\ Mine(n).pc \in {"bound", "ok"} => Mine(n).config = Config
        /\ pc = "write" => found.name = Name /\ (~reordered => found.with = {Name})

\* The port of a configuration says which variant of the plan it is of.
Fits(file) == file.port \in 1 .. Len(plan) /\ NameOf[plan[file.port]] = file.name

\* While every sweep has the same plan, so does every configuration there is, and
\* workers on one port are of one variant.
Planned == ~reordered =>
    /\ \A name \in Names : configs[name] # None => Fits(configs[name])
    /\ \A c \in copies : c.config # None => Fits(c.config)
    /\ \A n \in Nodes : nodeConfig[n] \in File => Fits(nodeConfig[n])
    /\ \A n \in Nodes, l \in Launches :
        /\ workers[n][l].pc \in {"bound", "ok"} => Fits(workers[n][l].config)
        /\ workers[n][l].pc = "ok" => workers[n][l].with = {workers[n][l].config.name}

\* Before the first sweep there is nothing.
Untouched == runs = 0 =>
    /\ ~Running /\ copies = {}
    /\ \A name \in Names : configs[name] = None
    /\ \A n \in Nodes : nodeConfig[n] = OldConfig /\ \A l \in Launches : workers[n][l].pc = "none"

NodesInv == OnNodes /\ OwnWorkers /\ Planned /\ Untouched

IInv == TypeOK /\ Underway /\ NodesInv /\ ReportOfVariant

LEMMA NameType ==
  ASSUME TypeOK, Len(done) < Len(plan)
  PROVE  /\ Name \in Names /\ Index \in Nat /\ Config \in File /\ Fits(Config)
         /\ Config.name = Name
  <1>1. Index \in 1 .. Len(plan)
    BY DEF TypeOK, Index
  <1>2. Variant \in Variants
    BY <1>1 DEF TypeOK, Variant
  <1>. QED  BY <1>1, <1>2 DEF Name, Names, Config, File, Fits, Variant

LEMMA OldIsNoFile == OldConfig \notin File
  BY DEF OldConfig, File

Worker == [pc : {"none", "starting", "bound", "ok", "bad"}, config : File \cup {OldConfig, None}, with : SUBSET Names]

LEMMA Initially == Init => IInv
  <1>. SUFFICES ASSUME Init PROVE IInv
    OBVIOUS
  <1>1. \A n \in Names : report[n] = None
    BY DEF Init
  <1>2. TypeOK
    <2>1. plan \in Seq(Variants) /\ done \in Seq([name : Names, report : Report])
      BY DEF Init
    <2>2. Absent \in Worker
      BY DEF Absent, Worker
    <2>3. workers \in [Nodes -> [Launches -> Worker]]
      BY <2>2, Zenon DEF Init
    <2>4. launch \in 0 .. MaxLaunches /\ runs \in 0 .. MaxRuns
      BY DEF Init
    <2>. QED  BY <2>1, <2>3, <2>4 DEF Init, TypeOK, Worker
  <1>3. Underway
    BY DEF Init, Underway, Launching
  <1>4. NodesInv
    BY OldIsNoFile DEF Init, NodesInv, OnNodes, OwnWorkers, Planned, Untouched, Absent, Running
  <1>5. ReportOfVariant
    BY <1>1 DEF ReportOfVariant, Whole
  <1>. QED  BY <1>2, <1>3, <1>4, <1>5 DEF IInv

---------------------------------------------------------------------------
(* What a step may do to a worker                                          *)

\* Worker l of node n is started, binds, measures, fails or stays as it is.
WorkerStep(n, l) ==
    LET w == workers[n][l] IN
    \/ workers'[n][l] = w
    \/ /\ pc = "copy" /\ pc' = "wait" /\ l = launch
       /\ workers'[n][l] = [pc |-> "starting", config |-> w.config, with |-> w.with]
    \/ w.pc = "starting" /\ workers'[n][l] = [pc |-> "bound", config |-> nodeConfig[n], with |-> {}]
    \/ w.pc \in {"starting", "bound"} /\ workers'[n][l] = Bad
    \/ w.pc = "bound" /\ \E port \in Nat : \E team \in [Nodes -> Launches] :
           /\ \A m \in Nodes : team[m] \in Bound(m, port)
           /\ l = team[n]
           /\ workers'[n][l] = [pc |-> "ok", config |-> w.config, with |-> NamesOf(team)]

\* In short, what becomes of its configuration.
LEMMA StepKinds ==
  ASSUME NEW n \in Nodes, NEW l \in Launches, WorkerStep(n, l)
  PROVE  \/ workers'[n][l] = workers[n][l] \/ workers'[n][l] = Bad
         \/ workers'[n][l].pc = "starting" /\ pc = "copy"
         \/ /\ workers[n][l].pc = "starting" /\ workers'[n][l].config = nodeConfig[n]
            /\ workers'[n][l].pc = "bound"
         \/ /\ workers[n][l].pc = "bound" /\ workers'[n][l].config = workers[n][l].config
            /\ workers'[n][l].pc = "ok"
            /\ \E port \in Nat : \E team \in [Nodes -> Launches] :
                   /\ \A m \in Nodes : team[m] \in Bound(m, port)
                   /\ l = team[n]
                   /\ workers'[n][l].with = NamesOf(team)
  <1>1. CASE /\ workers[n][l].pc = "bound"
             /\ \E port \in Nat : \E team \in [Nodes -> Launches] :
                   /\ \A m \in Nodes : team[m] \in Bound(m, port)
                   /\ l = team[n]
                   /\ workers'[n][l] = [pc |-> "ok", config |-> workers[n][l].config, with |-> NamesOf(team)]
    <2>1. PICK port \in Nat : \E team \in [Nodes -> Launches] :
                   /\ \A m \in Nodes : team[m] \in Bound(m, port)
                   /\ l = team[n]
                   /\ workers'[n][l] = [pc |-> "ok", config |-> workers[n][l].config, with |-> NamesOf(team)]
      BY <1>1
    <2>2. PICK team \in [Nodes -> Launches] :
                   /\ \A m \in Nodes : team[m] \in Bound(m, port)
                   /\ l = team[n]
                   /\ workers'[n][l] = [pc |-> "ok", config |-> workers[n][l].config, with |-> NamesOf(team)]
      BY <2>1
    <2>3. /\ workers'[n][l].pc = "ok" /\ workers'[n][l].config = workers[n][l].config
          /\ workers'[n][l].with = NamesOf(team)
      BY <2>2
    <2>. QED  BY <1>1, <2>2, <2>3, Zenon
  <1>2. CASE workers[n][l].pc = "starting" /\ workers'[n][l] = [pc |-> "bound", config |-> nodeConfig[n], with |-> {}]
    BY <1>2
  <1>3. CASE /\ pc = "copy" /\ pc' = "wait" /\ l = launch
             /\ workers'[n][l] = [pc |-> "starting", config |-> workers[n][l].config, with |-> workers[n][l].with]
    BY <1>3
  <1>4. CASE workers'[n][l] = workers[n][l] \/ workers'[n][l] = Bad
    BY <1>4
  <1>. QED  BY <1>1, <1>2, <1>3, <1>4, Zenon DEF WorkerStep

\* Everything but the workers.
Others == <<pc, runVars, done, found, configs, diskVars, copyVars, launch>>

LEMMA WorkerSteps ==
  ASSUME TypeOK, Underway, OnNodes, [Next]_vars
  PROVE  /\ workers' \in [Nodes -> [Launches -> Worker]]
         /\ \A n \in Nodes, l \in Launches : WorkerStep(n, l)
         /\ workers' = workers \/ UNCHANGED Others \/ StartWorkers
  <1>0. workers \in [Nodes -> [Launches -> Worker]] /\ nodeConfig \in [Nodes -> File \cup {OldConfig}]
    BY DEF TypeOK, Worker
  <1>1. CASE workers' = workers
    BY <1>0, <1>1 DEF WorkerStep
  <1>2. ASSUME StartWorkers
        PROVE  workers' \in [Nodes -> [Launches -> Worker]] /\ \A n \in Nodes, l \in Launches : WorkerStep(n, l)
    <2>1. launch \in Launches /\ pc = "copy" /\ pc' = "wait"
      BY <1>2 DEF StartWorkers, StartAll, TypeOK, Underway, Launching, Launches, Goes
    <2>2. \A w \in Worker : /\ [w EXCEPT !.pc = "starting"] = [pc |-> "starting", config |-> w.config, with |-> w.with]
                            /\ [pc |-> "starting", config |-> w.config, with |-> w.with] \in Worker
      BY DEF Worker
    <2>3. workers' = [n \in Nodes |-> [workers[n] EXCEPT ![launch] = [workers[n][launch] EXCEPT !.pc = "starting"]]]
      BY <1>2 DEF StartWorkers, StartAll
    <2>4. \A n \in Nodes : workers[n][launch] \in Worker
      BY <1>0, <2>1
    <2>. HIDE DEF Worker
    <2>5. \A n \in Nodes : workers'[n][launch] = [pc |-> "starting", config |-> workers[n][launch].config,
                                                  with |-> workers[n][launch].with]
      BY <1>0, <2>1, <2>2, <2>3, <2>4
    <2>6. \A n \in Nodes, l \in Launches : l # launch => workers'[n][l] = workers[n][l]
      BY <1>0, <2>1, <2>3
    <2>7. workers' \in [Nodes -> [Launches -> Worker]]
      <3>1. \A n \in Nodes : workers'[n] = [workers[n] EXCEPT ![launch] = workers'[n][launch]]
        BY <1>0, <2>1, <2>3
      <3>2. \A n \in Nodes : workers'[n][launch] \in Worker
        <4>. SUFFICES ASSUME NEW n \in Nodes PROVE workers'[n][launch] \in Worker
          OBVIOUS
        <4>1. workers[n][launch] \in Worker
          BY <2>4
        <4>. QED  BY <2>2, <2>5, <4>1, Zenon
      <3>3. \A n \in Nodes : workers'[n] \in [Launches -> Worker]
        <4>. SUFFICES ASSUME NEW n \in Nodes PROVE workers'[n] \in [Launches -> Worker]
          OBVIOUS
        <4>1. workers[n] \in [Launches -> Worker] /\ workers'[n][launch] \in Worker
          BY <1>0, <3>2
        <4>. QED  BY <3>1, <4>1
      <3>. QED  BY <2>3, <3>3
    <2>. QED  BY <2>1, <2>5, <2>6, <2>7 DEF WorkerStep
  <1>3. ASSUME NEW n \in Nodes, NEW l \in Launches, WorkerBinds(n, l) \/ WorkerFails(n, l)
        PROVE  /\ workers' \in [Nodes -> [Launches -> Worker]] /\ \A m \in Nodes, k \in Launches : WorkerStep(m, k)
               /\ UNCHANGED Others
    <2>1. PICK w \in {Bad, [pc |-> "bound", config |-> nodeConfig[n], with |-> {}]} :
            /\ workers' = [workers EXCEPT ![n][l] = w]
            /\ w = Bad => workers[n][l].pc \in {"starting", "bound"}
            /\ w # Bad => workers[n][l].pc = "starting"
      BY <1>3 DEF WorkerBinds, WorkerFails
    <2>2. w \in Worker
      BY <1>0 DEF Worker, Bad
    <2>3. workers'[n][l] = w /\ \A m \in Nodes, k \in Launches : <<m, k>> # <<n, l>> => workers'[m][k] = workers[m][k]
      BY <1>0, <2>1
    <2>4. workers' \in [Nodes -> [Launches -> Worker]]
      BY <1>0, <2>1, <2>2
    <2>. QED  BY <1>3, <2>1, <2>3, <2>4 DEF WorkerStep, WorkerBinds, WorkerFails, Others
  <1>4. ASSUME NEW port \in 1 .. Cardinality(Variants), Measure(port)
        PROVE  /\ workers' \in [Nodes -> [Launches -> Worker]] /\ \A m \in Nodes, k \in Launches : WorkerStep(m, k)
               /\ UNCHANGED Others
    <2>1. PICK team \in [Nodes -> Launches] :
            /\ \A n \in Nodes : team[n] \in Bound(n, port)
            /\ workers' = [n \in Nodes |-> [workers[n] EXCEPT ![team[n]] =
                    [pc |-> "ok", config |-> workers[n][team[n]].config, with |-> NamesOf(team)]]]
      BY <1>4 DEF Measure
    <2>2. NamesOf(team) \subseteq Names
      <3>1. \A n \in Nodes : workers[n][team[n]].config \in File
        BY <2>1 DEF Bound, OnNodes
      <3>. QED  BY <3>1 DEF NamesOf, File
    <2>3. \A n \in Nodes : [pc |-> "ok", config |-> workers[n][team[n]].config, with |-> NamesOf(team)] \in Worker
      BY <1>0, <2>1, <2>2 DEF Worker
    <2>4. \A n \in Nodes : workers[n][team[n]].pc = "bound"
      BY <2>1 DEF Bound
    <2>. HIDE DEF Worker
    <2>5. workers' \in [Nodes -> [Launches -> Worker]]
      BY <1>0, <2>1, <2>3
    <2>6. \A n \in Nodes, l \in Launches :
            \/ workers'[n][l] = workers[n][l]
            \/ /\ l = team[n]
               /\ workers'[n][l] = [pc |-> "ok", config |-> workers[n][l].config, with |-> NamesOf(team)]
      BY <1>0, <2>1
    <2>7. \A n \in Nodes, l \in Launches : WorkerStep(n, l)
      <3>1. port \in Nat
        OBVIOUS
      <3>2. \A n \in Nodes, l \in Launches : l = team[n] => workers[n][l].pc = "bound"
        BY <2>4
      <3>. QED  BY <2>1, <2>6, <3>1, <3>2, Zenon DEF WorkerStep
    <2>8. UNCHANGED Others
      BY <1>4 DEF Measure, Others
    <2>. QED  BY <2>5, <2>7, <2>8
  <1>. QED
    BY <1>1, <1>2, <1>3, <1>4 DEF Next, Sweeping, Remote, Start, Resume, Launch, LaunchStarts, Summarize, SummaryWritten,
       Interrupted, CopyFails, SummarizeFails, WorkersEnd, TimesOut, ReportWritten, CopyReads, CopyLands, CopyEnds, vars

---------------------------------------------------------------------------
(* Types                                                                   *)

\* The report of a launch that succeeded.
LEMMA ReportType ==
  ASSUME TypeOK, Underway, OnNodes, WorkersEnd, Succeeded
  PROVE  /\ ReportOf(Mine(Controller)) \in Report /\ launch \in Launches
         /\ Mine(Controller).pc = "ok" /\ Mine(Controller).config \in File
  <1>1. launch \in Launches
    BY DEF WorkersEnd, TypeOK, Underway, Launching, Launches
  <1>2. Mine(Controller).pc = "ok" /\ Mine(Controller) \in Worker
    BY <1>1 DEF Succeeded, Mine, TypeOK, Worker
  <1>3. Mine(Controller).config \in File
    BY <1>1, <1>2 DEF OnNodes, Mine
  <1>. QED  BY <1>1, <1>2, <1>3 DEF ReportOf, Report, File, Worker

LEMMA Typed == TypeOK /\ Underway /\ NodesInv /\ [Next]_vars => TypeOK'
  <1>. SUFFICES ASSUME TypeOK, Underway, NodesInv, [Next]_vars PROVE TypeOK'
    OBVIOUS
  <1>. USE DEF diskVars, runVars, copyVars, Goes, Fails
  <1>. DEFINE Copies == [node : Nodes, launch : Nat, name : Names, config : File \cup {None}]
  <1>0. workers' \in [Nodes -> [Launches -> Worker]]
    BY WorkerSteps DEF NodesInv
  \* Everything but the workers.
  <1>. DEFINE Rest ==
         /\ pc' \in {"down", "variant", "copy", "wait", "write", "entry", "summary", "failed", "done"}
         /\ plan' \in Seq(Variants) /\ resume' \in BOOLEAN
         /\ done' \in Seq([name : Names, report : Report]) /\ found' \in Report \cup {None}
         /\ configs' \in [Names -> File \cup {None}]
         /\ copies' \subseteq Copies
         /\ copied' \subseteq Nodes
         /\ report' \in [Names -> Report \cup {None, Half}]
         /\ summary' \in Seq([name : Names, report : Report]) \cup {None, Half}
         /\ nodeConfig' \in [Nodes -> File \cup {OldConfig}]
         /\ launch' \in 0 .. MaxLaunches /\ runs' \in 0 .. MaxRuns
         /\ reordered' \in BOOLEAN /\ overtaken' \in BOOLEAN
         /\ replaces' \in BOOLEAN /\ written' \in [Names -> Nat]
  <1>1. ASSUME Start PROVE Rest
    BY <1>1 DEF TypeOK, Start
  <1>2. ASSUME Resume PROVE Rest
    <2>1. Name \in Names /\ Config \in File
      BY <1>2, NameType DEF Underway, Resume
    <2>2. configs' \in [Names -> File \cup {None}]
      BY <1>2, <2>1 DEF TypeOK, Resume, WriteConfig
    <2>. QED  BY <1>2, <2>1, <2>2 DEF TypeOK, Resume
  <1>3. ASSUME Launch PROVE Rest
    <2>1. Name \in Names /\ Config \in File
      BY <1>3, NameType DEF Underway, Launch
    <2>2. configs' \in [Names -> File \cup {None}]
      BY <1>3, <2>1 DEF TypeOK, Launch, LaunchStarts, WriteConfig
    <2>3. launch' \in 0 .. MaxLaunches
      BY <1>3 DEF TypeOK, Launch, LaunchStarts
    <2>4. copies' \subseteq Copies
      BY <1>3, <2>1 DEF TypeOK, Launch, LaunchStarts
    <2>. QED  BY <1>3, <2>2, <2>3, <2>4 DEF TypeOK, Launch, LaunchStarts
  <1>4. ASSUME Summarize PROVE Rest
    <2>1. [name |-> Name, report |-> found] \in [name : Names, report : Report]
      BY <1>4, NameType DEF TypeOK, Underway, Summarize
    <2>2. done' \in Seq([name : Names, report : Report])
      BY <1>4, <2>1, AppendProperties DEF TypeOK, Summarize
    <2>. QED  BY <1>4, <2>2 DEF TypeOK, Summarize
  <1>5. ASSUME SummaryWritten PROVE Rest
    BY <1>5 DEF TypeOK, SummaryWritten
  <1>6. ASSUME Interrupted \/ CopyFails \/ SummarizeFails \/ TimesOut \/ StartWorkers PROVE Rest
    BY <1>6 DEF TypeOK, Interrupted, CopyFails, SummarizeFails, TimesOut, StartWorkers, StartAll
  <1>7. ASSUME WorkersEnd PROVE Rest
    <2>1. CASE Succeeded
      <3>1. Name \in Names /\ ReportOf(Mine(Controller)) \in Report
        BY <1>7, <2>1, NameType, ReportType DEF WorkersEnd, Underway, NodesInv
      <3>2. report' \in [Names -> Report \cup {None, Half}]
        BY <1>7, <2>1, <3>1 DEF TypeOK, WorkersEnd
      <3>. QED  BY <1>7, <2>1, <3>1, <3>2 DEF TypeOK, WorkersEnd
    <2>2. CASE ~Succeeded
      BY <1>7, <2>2 DEF TypeOK, WorkersEnd
    <2>. QED  BY <2>1, <2>2
  <1>8. ASSUME ReportWritten PROVE Rest
    <2>1. Name \in Names
      BY <1>8, NameType DEF ReportWritten, Underway
    <2>. QED  BY <1>8, <2>1 DEF TypeOK, ReportWritten
  <1>9. ASSUME NEW c \in copies, CopyReads(c) \/ CopyLands(c) \/ CopyEnds(c) PROVE Rest
    <2>1. c \in Copies /\ copies \subseteq Copies
      BY DEF TypeOK
    <2>2. CASE CopyReads(c)
      <3>1. [c EXCEPT !.config = configs[c.name]] \in Copies
        BY <2>1 DEF TypeOK
      <3>2. copies' \subseteq Copies
        BY <2>1, <2>2, <3>1 DEF CopyReads
      <3>. QED  BY <2>2, <3>2 DEF TypeOK, CopyReads
    <2>3. CASE CopyLands(c)
      <3>1. c.node \in Nodes /\ c.config \in File
        BY <2>1, <2>3 DEF CopyLands
      <3>. QED  BY <2>1, <2>3, <3>1 DEF TypeOK, CopyLands
    <2>4. CASE CopyEnds(c)
      BY <2>1, <2>4 DEF TypeOK, CopyEnds
    <2>. QED  BY <1>9, <2>2, <2>3, <2>4
  <1>10. ASSUME UNCHANGED Others PROVE Rest
    <2>1. /\ UNCHANGED <<pc, plan, resume, runs, replaces, reordered, done, found, configs>>
          /\ UNCHANGED <<report, summary, written, copies, copied, nodeConfig, overtaken, launch>>
      BY <1>10 DEF Others
    <2>. QED  BY <2>1 DEF TypeOK
  <1>11. Rest
    <2>1. CASE Remote
      <3>1. UNCHANGED Others \/ \E c \in copies : CopyReads(c) \/ CopyLands(c) \/ CopyEnds(c)
        BY <2>1 DEF Remote, WorkerBinds, WorkerFails, Measure, Others
      <3>. HIDE DEF Rest
      <3>. QED  BY <1>9, <1>10, <3>1, Zenon
    <2>2. CASE UNCHANGED vars
      <3>1. UNCHANGED Others
        BY <2>2 DEF vars, Others
      <3>. HIDE DEF Rest
      <3>. QED  BY <1>10, <3>1, Zenon
    <2>. HIDE DEF Rest
    <2>. QED  BY <1>1, <1>2, <1>3, <1>4, <1>5, <1>6, <1>7, <1>8, <2>1, <2>2 DEF Next, Sweeping
  <1>. QED  BY <1>0, <1>11 DEF TypeOK, Worker

---------------------------------------------------------------------------
(* The variants under way                                                  *)

LEMMA UnderwayKept == TypeOK /\ Underway /\ NodesInv /\ [Next]_vars => Underway'
  <1>. SUFFICES ASSUME TypeOK, Underway, NodesInv, [Next]_vars PROVE Underway'
    OBVIOUS
  <1>. USE DEF diskVars, runVars, copyVars, Goes, Fails, Launching
  <1>0. launch \in Nat /\ Len(plan) \in Nat /\ Len(done) \in Nat
    BY LenProperties DEF TypeOK
  <1>1. ASSUME UNCHANGED <<pc, plan, done, found, launch>> PROVE Underway'
    BY <1>1 DEF Underway
  <1>2. CASE Start
    BY <1>2 DEF Underway, Start, TypeOK
  <1>3. CASE Resume
    <2>1. pc' = "failed" \/ (pc' = "entry" /\ found' = report[Name] /\ report[Name] # None)
      BY <1>3 DEF Resume
    <2>. QED  BY <1>3, <2>1 DEF Underway, Resume
  <1>4. CASE Launch \/ Summarize \/ Interrupted \/ CopyFails \/ SummarizeFails \/ TimesOut \/ StartWorkers \/ ReportWritten
    BY <1>0, <1>4 DEF Underway, Launch, LaunchStarts, Summarize, Interrupted, CopyFails, SummarizeFails, TimesOut, StartWorkers, StartAll,
       ReportWritten
  <1>5. CASE SummaryWritten
    <2>1. Len(done) <= Len(plan)
      BY <1>5 DEF SummaryWritten, Underway
    <2>. QED  BY <1>0, <1>5, <2>1 DEF Underway, SummaryWritten
  <1>6. CASE WorkersEnd
    <2>1. Succeeded => ReportOf(Mine(Controller)) \in Report
      BY <1>6, ReportType DEF NodesInv
    <2>2. None \notin Report
      OBVIOUS
    <2>. QED  BY <1>6, <2>1, <2>2 DEF Underway, WorkersEnd
  <1>7. CASE UNCHANGED vars \/ Remote
    BY <1>1, <1>7 DEF vars, Remote, CopyReads, CopyLands, CopyEnds, WorkerBinds, WorkerFails, Measure
  <1>. QED  BY <1>2, <1>3, <1>4, <1>5, <1>6, <1>7 DEF Next, Sweeping

---------------------------------------------------------------------------
(* The copies and the workers                                              *)

\* A step of the launcher that starts nothing and writes no configuration.
Plain ==
    /\ UNCHANGED <<configs, copyVars, workers, launch, plan, done, runs, reordered>>
    /\ \/ pc' = pc /\ UNCHANGED found
       \/ pc' \notin {"copy", "wait", "write"}

\* What a step may be, for the configurations and the workers.
LEMMA NodeSteps ==
  ASSUME TypeOK, Underway, NodesInv, [Next]_vars
  PROVE  \/ Start \/ Resume \/ Launch \/ StartWorkers \/ Summarize
         \/ (WorkersEnd /\ Succeeded)
         \/ \E c \in copies : CopyReads(c) \/ CopyLands(c) \/ CopyEnds(c)
         \/ UNCHANGED Others
         \/ Plain
  <1>. USE DEF runVars, diskVars, copyVars, Goes, Fails, Plain
  <1>1. CASE SummaryWritten \/ Interrupted \/ CopyFails \/ SummarizeFails \/ TimesOut \/ ReportWritten
    BY <1>1 DEF SummaryWritten, Interrupted, CopyFails, SummarizeFails, TimesOut, ReportWritten
  <1>2. CASE WorkersEnd /\ ~Succeeded
    BY <1>2 DEF WorkersEnd
  <1>3. CASE \/ \E n \in Nodes, l \in Launches : WorkerBinds(n, l) \/ WorkerFails(n, l)
             \/ \E port \in 1 .. Cardinality(Variants) : Measure(port)
    BY <1>3 DEF WorkerBinds, WorkerFails, Measure, Others
  <1>4. CASE UNCHANGED vars
    BY <1>4 DEF vars, Others
  <1>. QED  BY <1>1, <1>2, <1>3, <1>4 DEF Next, Sweeping, Remote

\* Once a file has been copied to a node, there is one.
LEMMA FilesStay ==
  ASSUME TypeOK, Underway, NodesInv, [Next]_vars, NEW n \in Nodes, nodeConfig[n] \in File
  PROVE  nodeConfig'[n] \in File
  <1>. USE DEF runVars, diskVars, copyVars
  <1>1. ASSUME NEW c \in copies, CopyLands(c)  PROVE nodeConfig'[n] \in File
    BY <1>1 DEF CopyLands, TypeOK
  <1>. QED
    BY <1>1, NodeSteps DEF Start, Resume, Launch, LaunchStarts, StartWorkers, StartAll, Summarize, WorkersEnd, CopyReads,
       CopyEnds, Others, Plain

LEMMA OnNodesKept == TypeOK /\ Underway /\ NodesInv /\ [Next]_vars => OnNodes'
  <1>. SUFFICES ASSUME TypeOK, Underway, NodesInv, [Next]_vars PROVE OnNodes'
    OBVIOUS
  <1>. USE DEF runVars, diskVars, copyVars, Goes, Fails
  <1>0. /\ launch \in Nat /\ Launches \subseteq Nat /\ nodeConfig \in [Nodes -> File \cup {OldConfig}]
        /\ \A c \in copies : c.launch \in Nat /\ c.node \in Nodes
        /\ copied \subseteq Nodes /\ workers \in [Nodes -> [Launches -> Worker]]
    BY DEF TypeOK, Launches, Worker
  <1>1. \A n \in Nodes : nodeConfig[n] \in File => nodeConfig'[n] \in File
    BY FilesStay
  <1>2. \A n \in Nodes, l \in Launches : WorkerStep(n, l)
    BY WorkerSteps DEF NodesInv
  \* A worker that is started has a file to read.
  <1>3. pc = "copy" /\ pc' = "wait" => \A n \in Nodes : nodeConfig[n] \in File
    <2>1. pc = "copy" /\ pc' = "wait" => StartWorkers
      BY NodeSteps DEF Start, Resume, Launch, LaunchStarts, Summarize, WorkersEnd, CopyReads,
         CopyLands, CopyEnds, Others, Plain
    <2>. QED  BY <2>1 DEF StartWorkers, NodesInv, OnNodes
  <1>4. \A n \in Nodes, l \in Launches : workers'[n][l].pc # "none" => nodeConfig'[n] \in File
    <2>1. SUFFICES ASSUME NEW n \in Nodes, NEW l \in Launches, workers'[n][l].pc # "none"
                   PROVE  nodeConfig[n] \in File
      BY <1>1
    <2>2. WorkerStep(n, l)
      BY <1>2
    <2>3. workers[n][l].pc # "none" => nodeConfig[n] \in File
      BY DEF NodesInv, OnNodes
    <2>. QED  BY <1>3, <2>1, <2>2, <2>3 DEF WorkerStep
  <1>5. \A n \in Nodes, l \in Launches : workers'[n][l].pc \in {"bound", "ok"} => workers'[n][l].config \in File
    <2>1. SUFFICES ASSUME NEW n \in Nodes, NEW l \in Launches, workers'[n][l].pc \in {"bound", "ok"}
                   PROVE  workers'[n][l].config \in File
      OBVIOUS
    <2>2. WorkerStep(n, l)
      BY <1>2
    <2>3. /\ workers[n][l].pc # "none" => nodeConfig[n] \in File
          /\ workers[n][l].pc \in {"bound", "ok"} => workers[n][l].config \in File
      BY DEF NodesInv, OnNodes
    <2>4. CASE workers'[n][l] = workers[n][l]
      BY <2>1, <2>3, <2>4
    <2>5. CASE workers'[n][l] = Bad
      BY <2>1, <2>5 DEF Bad
    <2>6. CASE workers'[n][l].pc = "starting"
      BY <2>1, <2>6
    <2>7. CASE workers[n][l].pc = "starting" /\ workers'[n][l].config = nodeConfig[n]
      BY <2>3, <2>7
    <2>8. CASE workers[n][l].pc = "bound" /\ workers'[n][l].config = workers[n][l].config
      BY <2>3, <2>8
    <2>. QED  BY <2>2, <2>4, <2>5, <2>6, <2>7, <2>8, StepKinds, Zenon
  \* The launches.
  <1>6. launch' >= launch /\ launch' \in Nat
    BY <1>0, NodeSteps DEF Start, Resume, Launch, LaunchStarts, StartWorkers, StartAll, Summarize, WorkersEnd,
       CopyReads, CopyLands, CopyEnds, Others, Plain
  <1>7. \A c \in copies' : c.launch <= launch'
    <2>1. \A c \in copies : c.launch <= launch
      BY DEF NodesInv, OnNodes
    <2>2. CASE Launch
      BY <1>0, <2>1, <2>2 DEF Launch, LaunchStarts
    <2>3. ASSUME NEW c \in copies, CopyReads(c)  PROVE \A d \in copies' : d.launch <= launch'
      <3>1. launch' = launch /\ [c EXCEPT !.config = configs[c.name]].launch = c.launch
        BY <2>3 DEF CopyReads, TypeOK
      <3>. QED  BY <2>1, <2>3, <3>1 DEF CopyReads
    <2>4. CASE copies' \subseteq copies
      BY <1>0, <1>6, <2>1, <2>4
    <2>. QED
      BY <2>2, <2>3, <2>4, NodeSteps DEF Start, Resume, StartWorkers, StartAll, Summarize, WorkersEnd, CopyLands,
         CopyEnds, Others, Plain
  <1>8. \A n \in Nodes, l \in Launches : l > launch' \/ (pc' = "copy" /\ l = launch') => workers'[n][l].pc = "none"
    <2>1. SUFFICES ASSUME NEW n \in Nodes, NEW l \in Launches, l > launch' \/ (pc' = "copy" /\ l = launch')
                   PROVE  workers'[n][l].pc = "none"
      OBVIOUS
    <2>2. workers[n][l].pc = "none"
      <3>1. pc' = "copy" => (pc = "copy" /\ launch' = launch) \/ launch' = launch + 1
        BY NodeSteps DEF Start, Resume, Launch, LaunchStarts, StartWorkers, StartAll, Summarize, WorkersEnd,
           CopyReads, CopyLands, CopyEnds, Others, Plain
      <3>2. l > launch \/ (pc = "copy" /\ l = launch)
        BY <1>0, <1>6, <2>1, <3>1
      <3>. QED  BY <3>2 DEF NodesInv, OnNodes
    <2>3. ~(pc = "copy" /\ pc' = "wait" /\ l = launch)
      BY <1>0, <1>6, <2>1
    <2>. QED  BY <1>2, <2>2, <2>3 DEF WorkerStep
  <1>9. \A n \in copied' : pc' = "copy" => nodeConfig'[n] \in File
    <2>1. SUFFICES ASSUME NEW n \in copied', pc' = "copy"  PROVE nodeConfig'[n] \in File
      OBVIOUS
    <2>2. CASE pc = "copy" /\ n \in copied
      BY <1>0, <1>1, <2>2 DEF NodesInv, OnNodes
    <2>3. CASE Launch
      BY <2>1, <2>3 DEF Launch, LaunchStarts
    <2>4. ASSUME NEW c \in copies, CopyLands(c)  PROVE nodeConfig'[n] \in File
      BY <1>0, <2>1, <2>2, <2>4 DEF CopyLands, TypeOK
    <2>. QED
      BY <2>1, <2>2, <2>3, <2>4, NodeSteps DEF Start, Resume, StartWorkers, StartAll, Summarize, WorkersEnd, CopyReads,
         CopyEnds, Others, Plain
  <1>. QED  BY <1>4, <1>5, <1>7, <1>8, <1>9 DEF OnNodes

LEMMA OwnKept == TypeOK /\ Underway /\ NodesInv /\ [Next]_vars => OwnWorkers'
  <1>. SUFFICES ASSUME TypeOK, Underway, NodesInv, [Next]_vars PROVE OwnWorkers'
    OBVIOUS
  <1>. USE DEF runVars, diskVars, copyVars, Goes, Fails
  <1>0. /\ launch \in Nat /\ Launches \subseteq Nat
        /\ copies \subseteq [node : Nodes, launch : Nat, name : Names, config : File \cup {None}]
        /\ nodeConfig \in [Nodes -> File \cup {OldConfig}] /\ copied \subseteq Nodes
        /\ workers \in [Nodes -> [Launches -> Worker]] /\ overtaken \in BOOLEAN
        /\ pc = "wait" => launch \in Launches
        /\ OwnWorkers
    BY DEF TypeOK, Launches, Worker, Underway, Launching, NodesInv
  <1>a. UNCHANGED <<plan, done>> => Name' = Name /\ Config' = Config
    BY DEF Name, Variant, Index, Config
  <1>1. CASE pc' \notin {"copy", "wait", "write"}
    BY <1>1 DEF OwnWorkers
  <1>2. CASE Start \/ Resume \/ Summarize
    BY <1>1, <1>2 DEF Start, Resume, Summarize
  <1>3. CASE Launch
    <2>1. /\ pc' = "copy" /\ launch' = launch + 1 /\ copied' = {} /\ UNCHANGED <<plan, done, overtaken>>
          /\ configs' = [configs EXCEPT ![Name] = Config]
          /\ copies' = copies \cup {[node |-> n, launch |-> launch + 1, name |-> Name, config |-> None] : n \in Nodes}
      BY <1>3 DEF Launch, LaunchStarts, WriteConfig
    <2>2. Name \in Names
      BY <1>3, NameType DEF Launch, Underway
    <2>3. configs'[Name] = Config
      BY <2>1, <2>2 DEF TypeOK
    <2>4. \A c \in copies : c.launch # launch + 1
      BY <1>0 DEF NodesInv, OnNodes
    <2>5. \A c \in copies' : c.launch = launch' => c.name = Name /\ c.config = None
      BY <2>1, <2>4
    <2>. QED  BY <1>a, <2>1, <2>3, <2>5 DEF OwnWorkers
  <1>4. CASE StartWorkers
    <2>1. /\ pc = "copy" /\ pc' = "wait" /\ ~Copying /\ copied = Nodes
          /\ UNCHANGED <<plan, done, overtaken, copies, launch, nodeConfig>>
      BY <1>4 DEF StartWorkers, StartAll
    <2>2. launch \in Launches
      BY <2>1 DEF TypeOK, Underway, Launching, Launches
    <2>3. \A n \in Nodes : workers'[n][launch].pc = "starting"
      <3>1. \A n \in Nodes : WorkerStep(n, launch) /\ workers[n][launch].pc = "none"
        BY <2>1, <2>2, WorkerSteps DEF NodesInv, OnNodes
      <3>2. workers' = [n \in Nodes |-> [workers[n] EXCEPT ![launch] = [workers[n][launch] EXCEPT !.pc = "starting"]]]
        BY <1>4 DEF StartWorkers, StartAll
      <3>3. \A n \in Nodes : workers'[n][launch] = [workers[n][launch] EXCEPT !.pc = "starting"]
        BY <1>0, <2>2, <3>2
      <3>4. \A w \in Worker : [w EXCEPT !.pc = "starting"].pc = "starting"
        BY DEF Worker
      <3>. HIDE DEF Worker
      <3>5. \A n \in Nodes : workers[n][launch] \in Worker
        BY <1>0, <2>2
      <3>. QED  BY <3>3, <3>4, <3>5
    <2>4. ~overtaken => \A n \in Nodes : nodeConfig[n] = Config
      BY <1>0, <2>1 DEF OwnWorkers
    <2>. QED  BY <1>a, <2>1, <2>3, <2>4 DEF OwnWorkers, Copying, Mine
  <1>5. CASE WorkersEnd /\ Succeeded
    <2>1. /\ pc = "wait" /\ pc' = "write" /\ found' = ReportOf(Mine(Controller))
          /\ UNCHANGED <<plan, done, overtaken, reordered>>
      BY <1>5 DEF WorkersEnd
    <2>2. Mine(Controller).pc = "ok" /\ launch \in Launches
      BY <1>5, ReportType DEF NodesInv
    <2>3. ~overtaken => Mine(Controller).config = Config
      BY <1>0, <2>1, <2>2 DEF OwnWorkers
    <2>4. ~reordered => Mine(Controller).with = {Mine(Controller).config.name}
      BY <2>2 DEF NodesInv, Planned, Mine
    <2>5. Config.name = Name
      BY DEF Config
    <2>. QED  BY <1>a, <2>1, <2>3, <2>4, <2>5 DEF OwnWorkers, ReportOf
  <1>6. ASSUME NEW c \in copies, CopyReads(c) \/ CopyEnds(c)  PROVE OwnWorkers'
    <2>1. /\ UNCHANGED <<pc, plan, done, found, configs, copied, nodeConfig, overtaken, reordered, workers, launch>>
      BY <1>6 DEF CopyReads, CopyEnds
    <2>2. \A d \in copies' : \/ d \in copies
                             \/ d.launch = c.launch /\ d.name = c.name /\ d.config = configs[c.name]
      BY <1>0, <1>6 DEF CopyReads, CopyEnds
    <2>3. pc = "copy" => \A d \in copies' : d.launch = launch => d.name = Name /\ d.config \in {None, Config}
      BY <1>0, <2>2 DEF OwnWorkers
    <2>4. pc = "wait" => \A d \in copies' : d.launch # launch
      BY <1>0, <2>2 DEF OwnWorkers, Copying
    <2>. QED  BY <1>0, <1>a, <2>1, <2>3, <2>4 DEF OwnWorkers, Copying, Mine
  <1>7. ASSUME NEW c \in copies, CopyLands(c)  PROVE OwnWorkers'
    <2>1. /\ UNCHANGED <<pc, plan, done, found, configs, reordered, workers, launch>> /\ copies' = copies \ {c}
          /\ nodeConfig' = [nodeConfig EXCEPT ![c.node] = c.config] /\ c.config # None
          /\ copied' = IF pc = "copy" /\ c.launch = launch THEN copied \cup {c.node} ELSE copied
          /\ overtaken' = (overtaken \/ Overtakes(c))
      BY <1>7 DEF CopyLands
    <2>2. \A n \in Nodes : n # c.node => nodeConfig'[n] = nodeConfig[n]
      BY <1>0, <2>1
    <2>3. nodeConfig'[c.node] = c.config /\ c.node \in Nodes
      BY <1>0, <2>1
    <2>4. ~overtaken' /\ pc = "copy" => \A n \in copied' : nodeConfig'[n] = Config
      <3>1. SUFFICES ASSUME ~overtaken', pc = "copy", NEW n \in copied'  PROVE nodeConfig'[n] = Config
        OBVIOUS
      <3>2. CASE c.launch = launch
        <4>1. c.config = Config
          BY <1>0, <2>1, <3>1, <3>2 DEF OwnWorkers
        <4>. QED  BY <1>0, <2>1, <2>2, <2>3, <3>1, <3>2, <4>1 DEF OwnWorkers
      <3>3. CASE c.launch # launch
        BY <1>0, <2>1, <2>2, <3>1, <3>3 DEF OwnWorkers, Overtakes
      <3>. QED  BY <3>2, <3>3
    <2>5. ~overtaken' /\ pc = "wait" => \A n \in Nodes : Mine(n).pc = "starting" => nodeConfig'[n] = Config
      <3>1. SUFFICES ASSUME ~overtaken', pc = "wait", NEW n \in Nodes, Mine(n).pc = "starting"
                     PROVE  nodeConfig'[n] = Config
        OBVIOUS
      <3>2. c.launch # launch
        BY <1>0, <3>1 DEF OwnWorkers, Copying
      <3>3. n # c.node
        BY <2>1, <3>1, <3>2 DEF Overtakes
      <3>. QED  BY <1>0, <2>1, <2>2, <3>1, <3>3 DEF OwnWorkers
    <2>6. ~overtaken' => ~overtaken
      BY <1>0, <2>1
    <2>. QED  BY <1>0, <1>a, <2>1, <2>4, <2>5, <2>6 DEF OwnWorkers, Copying, Mine
  <1>8. CASE UNCHANGED Others
    <2>1. UNCHANGED <<pc, plan, done, found, configs, copies, copied, nodeConfig, overtaken, reordered, launch>>
      BY <1>8 DEF Others
    <2>2. pc = "wait" => \A n \in Nodes : WorkerStep(n, launch)
      BY <1>0, WorkerSteps DEF NodesInv
    <2>3. ASSUME pc = "wait", ~overtaken, NEW n \in Nodes
          PROVE  /\ workers'[n][launch].pc = "starting" => nodeConfig[n] = Config
                 /\ workers'[n][launch].pc \in {"bound", "ok"} => workers'[n][launch].config = Config
      <3>1. /\ workers[n][launch].pc = "starting" => nodeConfig[n] = Config
            /\ workers[n][launch].pc \in {"bound", "ok"} => workers[n][launch].config = Config
        BY <1>0, <2>3 DEF OwnWorkers, Mine
      <3>2. WorkerStep(n, launch) /\ pc # "copy"
        BY <2>2, <2>3
      <3>3. CASE workers'[n][launch] = workers[n][launch]
        BY <3>1, <3>3
      <3>4. CASE workers'[n][launch] = Bad
        BY <3>4 DEF Bad
      <3>5. CASE workers[n][launch].pc = "starting" /\ workers'[n][launch].config = nodeConfig[n]
                 /\ workers'[n][launch].pc = "bound"
        BY <3>1, <3>5
      <3>6. CASE workers[n][launch].pc = "bound" /\ workers'[n][launch].config = workers[n][launch].config
                 /\ workers'[n][launch].pc = "ok"
        BY <3>1, <3>6
      <3>7. launch \in Launches
        BY <1>0, <2>3
      <3>. QED  BY <3>2, <3>3, <3>4, <3>5, <3>6, <3>7, StepKinds, Zenon
    <2>. QED  BY <1>0, <1>a, <2>1, <2>3 DEF OwnWorkers, Copying, Mine
  <1>9. CASE Plain /\ pc' = pc /\ found' = found
    BY <1>0, <1>a, <1>9 DEF Plain, OwnWorkers, Copying, Mine
  <1>. QED  BY <1>1, <1>2, <1>3, <1>4, <1>5, <1>6, <1>7, <1>8, <1>9, NodeSteps DEF Plain

LEMMA UntouchedKept == TypeOK /\ Underway /\ NodesInv /\ [Next]_vars => Untouched'
  <1>. SUFFICES ASSUME TypeOK, Underway, NodesInv, [Next]_vars, runs' = 0 PROVE Untouched'
    BY DEF Untouched
  <1>. USE DEF runVars, diskVars, copyVars, Goes, Fails, Running
  <1>1. runs = 0 /\ ~Start
    <2>1. runs \in Nat
      BY DEF TypeOK
    <2>2. ~Start
      BY <2>1 DEF Start
    <2>. QED
      BY <2>2, NodeSteps DEF Resume, Launch, LaunchStarts, StartWorkers, StartAll, Summarize, WorkersEnd,
         CopyReads, CopyLands, CopyEnds, Others, Plain
  <1>2. ~Running /\ copies = {} /\ Untouched
    BY <1>1 DEF NodesInv, Untouched
  <1>3. \A n \in Nodes, l \in Launches : workers'[n][l] = workers[n][l]
    <2>1. \A n \in Nodes, l \in Launches : WorkerStep(n, l) /\ workers[n][l].pc = "none"
      BY <1>1, WorkerSteps DEF NodesInv, Untouched
    <2>. QED  BY <1>2, <2>1 DEF WorkerStep
  <1>4. UNCHANGED <<configs, copies, nodeConfig>> /\ (pc' = pc \/ pc' \in {"down", "failed", "done"})
    BY <1>1, <1>2 DEF Next, Sweeping, Remote, vars, Resume, Launch, Summarize, SummaryWritten, CopyFails, SummarizeFails, StartWorkers,
       WorkersEnd, TimesOut, ReportWritten, Interrupted, WorkerBinds, WorkerFails, Measure
  <1>. QED  BY <1>1, <1>2, <1>3, <1>4 DEF Untouched

LEMMA PlannedKept == TypeOK /\ Underway /\ NodesInv /\ [Next]_vars => Planned'
  <1>. SUFFICES ASSUME TypeOK, Underway, NodesInv, [Next]_vars, ~reordered' PROVE Planned'
    BY DEF Planned
  <1>. USE DEF runVars, diskVars, copyVars
  <1>0. /\ configs \in [Names -> File \cup {None}]
        /\ copies \subseteq [node : Nodes, launch : Nat, name : Names, config : File \cup {None}]
        /\ nodeConfig \in [Nodes -> File \cup {OldConfig}] /\ reordered \in BOOLEAN /\ runs \in Nat
        /\ None \notin File
    BY DEF TypeOK
  <1>1. ~reordered
    <2>1. CASE Start
      BY <1>0, <2>1, Zenon DEF Start
    <2>2. CASE ~Start
      BY <1>0, <2>2, NodeSteps DEF Resume, Launch, LaunchStarts, StartWorkers, StartAll, Summarize, WorkersEnd,
         CopyReads, CopyLands, CopyEnds, Others, Plain
    <2>. QED  BY <2>1, <2>2
  <1>2. Planned /\ OnNodes
    BY DEF NodesInv
  \* The first sweep finds nothing, and the next has the same plan.
  <1>3. CASE Start
    <2>1. UNCHANGED <<configs, copies, nodeConfig, workers>>
      BY <1>3 DEF Start
    <2>2. CASE runs = 0
      BY <2>1, <2>2, OldIsNoFile DEF NodesInv, Untouched, Planned
    <2>3. CASE runs # 0
      <3>1. PICK p \in Plans, again \in BOOLEAN :
              plan' = p /\ reordered' = (reordered \/ (runs > 0 /\ p # plan))
        BY <1>3, Zenon DEF Start
      <3>2. runs > 0
        BY <1>0, <2>3
      <3>3. plan' = plan
        BY <3>1, <3>2
      <3>. QED  BY <1>1, <1>2, <2>1, <3>3 DEF Planned, Fits
    <2>. QED  BY <2>2, <2>3
  <1>4. plan' = plan \/ Start
    BY NodeSteps DEF Resume, Launch, LaunchStarts, StartWorkers, StartAll, Summarize, WorkersEnd,
       CopyReads, CopyLands, CopyEnds, Others, Plain
  <1>a. plan' = plan => \A file : Fits(file) => Fits(file)'
    BY DEF Fits
  <1>5. ASSUME ~Start  PROVE Planned'
    <2>1. \A name \in Names : configs'[name] # None => Fits(configs'[name])
      <3>1. CASE Resume \/ Launch
        <4>1. configs' = [configs EXCEPT ![Name] = Config] /\ Fits(Config) /\ Name \in Names
          BY <3>1, NameType DEF Resume, Launch, LaunchStarts, WriteConfig, Underway
        <4>. QED  BY <1>0, <1>1, <1>2, <4>1 DEF Planned
      <3>2. CASE configs' = configs
        BY <1>1, <1>2, <3>2 DEF Planned
      <3>. QED
        BY <1>5, <3>1, <3>2, NodeSteps DEF StartWorkers, StartAll, Summarize, WorkersEnd,
           CopyReads, CopyLands, CopyEnds, Others, Plain
    <2>2. \A c \in copies' : c.config # None => Fits(c.config)
      <3>1. CASE Launch
        BY <1>1, <1>2, <3>1 DEF Planned, Launch, LaunchStarts
      <3>2. ASSUME NEW c \in copies, CopyReads(c)  PROVE \A d \in copies' : d.config # None => Fits(d.config)
        <4>1. \A d \in copies' : d \in copies \/ d.config = configs[c.name]
          BY <1>0, <3>2 DEF CopyReads
        <4>2. c.name \in Names
          BY <1>0
        <4>. QED  BY <1>1, <1>2, <4>1, <4>2 DEF Planned
      <3>3. CASE copies' \subseteq copies
        BY <1>1, <1>2, <3>3 DEF Planned
      <3>. QED
        BY <1>5, <3>1, <3>2, <3>3, NodeSteps DEF Resume, StartWorkers, StartAll, Summarize, WorkersEnd,
           CopyLands, CopyEnds, Others, Plain
    <2>3. \A n \in Nodes : nodeConfig'[n] \in File => Fits(nodeConfig'[n])
      <3>1. ASSUME NEW c \in copies, CopyLands(c)  PROVE \A n \in Nodes : nodeConfig'[n] \in File => Fits(nodeConfig'[n])
        BY <1>0, <1>1, <1>2, <3>1 DEF CopyLands, Planned
      <3>2. CASE nodeConfig' = nodeConfig
        BY <1>1, <1>2, <3>2 DEF Planned
      <3>. QED
        BY <1>5, <3>1, <3>2, NodeSteps DEF Resume, Launch, LaunchStarts, StartWorkers, StartAll, Summarize, WorkersEnd,
           CopyReads, CopyEnds, Others, Plain
    <2>4. ASSUME NEW n \in Nodes, NEW l \in Launches
          PROVE  /\ workers'[n][l].pc \in {"bound", "ok"} => Fits(workers'[n][l].config)
                 /\ workers'[n][l].pc = "ok" => workers'[n][l].with = {workers'[n][l].config.name}
      <3>1. WorkerStep(n, l)
        BY WorkerSteps DEF NodesInv
      <3>2. \A m \in Nodes, k \in Launches :
              /\ workers[m][k].pc # "none" => nodeConfig[m] \in File
              /\ workers[m][k].pc \in {"bound", "ok"} => Fits(workers[m][k].config)
              /\ workers[m][k].pc = "ok" => workers[m][k].with = {workers[m][k].config.name}
        BY <1>1, <1>2 DEF Planned, OnNodes
      <3>3. CASE workers'[n][l] = workers[n][l]
        BY <3>2, <3>3
      <3>4. CASE workers'[n][l] = Bad
        BY <3>4 DEF Bad
      <3>5. CASE workers'[n][l].pc = "starting"
        BY <3>5
      <3>6. CASE /\ workers[n][l].pc = "starting" /\ workers'[n][l].config = nodeConfig[n]
                 /\ workers'[n][l].pc = "bound"
        <4>1. Fits(nodeConfig[n])
          BY <1>1, <1>2, <3>2, <3>6 DEF Planned
        <4>. QED  BY <3>6, <4>1
      <3>7. ASSUME workers[n][l].pc = "bound", workers'[n][l].config = workers[n][l].config,
                   \E port \in Nat : \E team \in [Nodes -> Launches] :
                       /\ \A m \in Nodes : team[m] \in Bound(m, port)
                       /\ l = team[n]
                       /\ workers'[n][l].with = NamesOf(team)
            PROVE  Fits(workers'[n][l].config) /\ workers'[n][l].with = {workers'[n][l].config.name}
        <4>1. PICK port \in Nat : \E team \in [Nodes -> Launches] :
                       /\ \A m \in Nodes : team[m] \in Bound(m, port)
                       /\ l = team[n]
                       /\ workers'[n][l].with = NamesOf(team)
          BY <3>7
        <4>2. PICK team \in [Nodes -> Launches] :
                       /\ \A m \in Nodes : team[m] \in Bound(m, port)
                       /\ l = team[n]
                       /\ workers'[n][l].with = NamesOf(team)
          BY <4>1
        <4>3. \A m \in Nodes : /\ workers[m][team[m]].config.port = port
                               /\ Fits(workers[m][team[m]].config)
          BY <3>2, <4>2 DEF Bound
        <4>4. \A m \in Nodes : workers[m][team[m]].config.name = NameOf[plan[port]]
          BY <4>3 DEF Fits
        <4>5. NamesOf(team) = {workers[n][l].config.name}
          BY <4>2, <4>4 DEF NamesOf
        <4>. QED  BY <3>2, <3>7, <4>2, <4>5
      <3>. QED  BY <3>1, <3>3, <3>4, <3>5, <3>6, <3>7, StepKinds, Zenon
    <2>. QED  BY <1>4, <1>5, <1>a, <2>1, <2>2, <2>3, <2>4 DEF Planned
  <1>. QED  BY <1>3, <1>5

LEMMA ReportsKept == IInv /\ [Next]_vars => ReportOfVariant'
  <1>. SUFFICES ASSUME IInv, [Next]_vars, ~overtaken' PROVE ReportOfVariant'
    BY DEF ReportOfVariant
  <1>. USE DEF IInv, runVars, diskVars, copyVars
  <1>0. overtaken \in BOOLEAN /\ reordered \in BOOLEAN
    BY DEF TypeOK
  <1>1. ~overtaken
    BY <1>0, NodeSteps DEF Start, Resume, Launch, LaunchStarts, StartWorkers, StartAll, Summarize, WorkersEnd,
       CopyReads, CopyLands, CopyEnds, Others, Plain
  <1>2. ~reordered' => ~reordered
    <2>1. CASE Start
      BY <1>0, <2>1, Zenon DEF Start
    <2>2. CASE ~Start
      BY <1>0, <2>2, NodeSteps DEF Resume, Launch, LaunchStarts, StartWorkers, StartAll, Summarize, WorkersEnd,
         CopyReads, CopyLands, CopyEnds, Others, Plain
    <2>. QED  BY <2>1, <2>2
  <1>3. CASE report' = report
    BY <1>1, <1>2, <1>3 DEF ReportOfVariant, Whole
  <1>4. CASE WorkersEnd
    BY <1>1, <1>2, <1>4 DEF WorkersEnd, TypeOK, ReportOfVariant, Whole
  <1>5. CASE ReportWritten
    BY <1>1, <1>2, <1>5 DEF ReportWritten, NodesInv, OwnWorkers, TypeOK, ReportOfVariant, Whole
  <1>. QED
    BY <1>3, <1>4, <1>5 DEF Next, Sweeping, Remote, Start, Resume, Launch, LaunchStarts, Summarize,
       SummaryWritten, Interrupted, CopyReads, CopyLands, CopyEnds, CopyFails, SummarizeFails, StartWorkers, StartAll, TimesOut,
       WorkerBinds, Measure, WorkerFails, vars

---------------------------------------------------------------------------
(* The summary                                                             *)

\* What a list of summaries says is what the files hold.
Backed(entries) == \A i \in 1 .. Len(entries) : report[entries[i].name] = entries[i].report /\ entries[i].report \in Report

\* After the step it will say what they hold then.
StaysBacked(entries) == \A i \in 1 .. Len(entries) : report'[entries[i].name] = entries[i].report

\* As long as no sweep replaces a report: a variant is launched only while it has
\* none, and a first sweep that does not resume finds none ahead of it.
Unreplaced ==
    /\ Backed(done)
    /\ pc \in {"copy", "wait"} => report[Name] = None
    /\ pc = "write" => report[Name] = Half
    /\ pc = "entry" => report[Name] = found
    /\ runs = 0 => ~Running /\ \A name \in Names : report[name] = None
    /\ Running /\ ~resume =>
        /\ ~Repeats(plan)
        /\ \A j \in 1 .. Len(plan) :
            j > Index \/ (j = Index /\ pc \in {"variant", "copy", "wait", "summary"}) =>
                report[NameOf[plan[j]]] = None

SummaryInv == SummaryBacked /\ (~replaces => Unreplaced)

LEMMA SummaryInitially == Init => SummaryInv
  BY DEF Init, SummaryInv, SummaryBacked, Unreplaced, Backed, Whole, Running

\* The names of the variants of a plan are names.
LEMMA PlanNames ==
  ASSUME TypeOK
  PROVE  \A j \in 1 .. Len(plan) : NameOf[plan[j]] \in Names
  BY DEF TypeOK, Names

LEMMA NoReport == None \notin Report /\ Half \notin Report
  OBVIOUS

LEMMA EntriesReports ==
  ASSUME NEW entries \in Seq([name : Names, report : Report]), NEW i \in 1 .. Len(entries)
  PROVE  entries[i].name \in Names /\ entries[i].report \in Report
  <1>. HIDE SweepAssumption
  <1>. DEFINE S == [name : Names, report : Report]
  <1>1. entries \in Seq(S) /\ i \in 1 .. Len(entries)
    OBVIOUS
  <1>. HIDE DEF S
  <1>2. entries[i] \in S
    BY <1>1, ElementOfSeq
  <1>. QED  BY <1>2 DEF S

LEMMA BackedNext ==
  ASSUME TypeOK, SummaryInv, ~replaces, [Next]_vars
  PROVE  \A entries \in Seq([name : Names, report : Report]) : Backed(entries) => StaysBacked(entries)
  <1>. SUFFICES ASSUME NEW entries \in Seq([name : Names, report : Report]), Backed(entries),
                       NEW i \in 1 .. Len(entries)
                PROVE  report'[entries[i].name] = entries[i].report
    BY DEF StaysBacked
  <1>1. entries[i].name \in Names /\ entries[i].report \in Report
    BY EntriesReports
  <1>2. report[entries[i].name] = entries[i].report
    BY DEF Backed
  <1>3. CASE report' = report
    BY <1>2, <1>3
  <1>4. CASE pc = "wait" /\ report' = [report EXCEPT ![Name] = Half]
    BY <1>1, <1>2, <1>4 DEF SummaryInv, Unreplaced, TypeOK
  <1>5. CASE ReportWritten
    BY <1>1, <1>2, <1>5 DEF SummaryInv, Unreplaced, TypeOK, ReportWritten
  <1>. QED
    BY <1>3, <1>4, <1>5 DEF Next, Sweeping, Remote, Start, Resume, Launch, LaunchStarts, Summarize, WorkersEnd,
       SummaryWritten, Interrupted, CopyReads, CopyLands, CopyEnds, CopyFails, SummarizeFails, StartWorkers, StartAll, TimesOut, WorkerBinds, Measure,
       WorkerFails, diskVars, copyVars, vars

LEMMA SummaryKept == IInv /\ SummaryInv /\ [Next]_vars => SummaryInv'
  <1>. SUFFICES ASSUME IInv, SummaryInv, [Next]_vars PROVE SummaryInv'
    OBVIOUS
  <1>. USE DEF diskVars, runVars, copyVars, Goes, Fails, Running
  <1>. SUFFICES ASSUME ~replaces' PROVE SummaryBacked' /\ Unreplaced'
    BY DEF SummaryInv, SummaryBacked
  <1>0. TypeOK /\ Underway /\ ~replaces
    <2>1. CASE Start
      BY <2>1, Zenon DEF Start, IInv
    <2>2. CASE ~Start
      BY <2>2 DEF IInv, Next, Sweeping, Remote, Resume, Launch, LaunchStarts, Summarize, WorkersEnd, ReportWritten,
         SummaryWritten, Interrupted, CopyReads, CopyLands, CopyEnds, CopyFails, SummarizeFails, StartWorkers, StartAll, TimesOut, WorkerBinds, Measure,
         WorkerFails, vars
    <2>. QED  BY <2>1, <2>2
  <1>a. Len(done) \in Nat /\ Len(plan) \in Nat
    BY <1>0, LenProperties DEF TypeOK
  <1>b. Backed(done) => StaysBacked(done)
    BY <1>0, BackedNext DEF TypeOK
  <1>c. pc \in {"variant", "copy", "wait", "write", "entry"} => Index \in 1 .. Len(plan)
    BY <1>0, <1>a DEF Underway, Index
  \* Steps that change neither a list nor a file.
  <1>1. ASSUME UNCHANGED <<plan, resume, done, report, summary, runs, replaces>>,
               \/ pc' \in {"down", "failed", "done"}
               \/ pc' = pc /\ UNCHANGED found
               \/ pc = "copy" /\ pc' = "wait"
        PROVE  SummaryBacked' /\ Unreplaced'
    BY <1>0, <1>1 DEF SummaryInv, SummaryBacked, Unreplaced, Backed, Index, Name, Variant, Repeats
  <1>2. ASSUME Start PROVE SummaryBacked' /\ Unreplaced'
    <2>1. resume' \/ (runs = 0 /\ ~Repeats(plan'))
      <3>1. PICK p \in Plans, again \in BOOLEAN :
              /\ plan' = p /\ resume' = again
              /\ replaces' = (replaces \/ (~again /\ (runs > 0 \/ Repeats(p))))
        BY <1>2, Zenon DEF Start
      <3>2. again \/ ~(runs > 0 \/ Repeats(p))
        BY <1>0, <3>1, Zenon
      <3>3. ~(runs > 0) => runs = 0
        BY <1>0 DEF TypeOK
      <3>. QED  BY <3>1, <3>2, <3>3, Zenon
    <2>2. UNCHANGED <<report, summary>> /\ done' = <<>> /\ pc' = "variant" /\ runs' = runs + 1
      BY <1>2 DEF Start
    <2>3. plan' \in Seq(Variants) /\ runs' # 0
      BY <1>0, <1>2 DEF Start, TypeOK
    <2>4. \A j \in 1 .. Len(plan') : NameOf[plan'[j]] \in Names
      BY <2>3 DEF Names
    <2>5. ~resume' => \A j \in 1 .. Len(plan') : report'[NameOf[plan'[j]]] = None
      BY <1>0, <2>1, <2>2, <2>4 DEF SummaryInv, Unreplaced
    <2>6. ~resume' => ~Repeats(plan)'
      BY <2>1 DEF Repeats
    <2>. QED  BY <1>0, <2>2, <2>3, <2>5, <2>6 DEF SummaryInv, SummaryBacked, Unreplaced, Backed
  <1>3. ASSUME Resume PROVE SummaryBacked' /\ Unreplaced'
    BY <1>0, <1>3 DEF Resume, SummaryInv, SummaryBacked, Unreplaced, Backed, Index, Name, Variant
  <1>4. ASSUME Launch PROVE SummaryBacked' /\ Unreplaced'
    <2>1. report[Name] = None
      BY <1>0, <1>4, <1>c DEF Launch, SummaryInv, Unreplaced, Name, Variant
    <2>. QED  BY <1>0, <1>4, <2>1 DEF Launch, LaunchStarts, SummaryInv, SummaryBacked, Unreplaced, Backed,
                  Index, Name, Variant, Repeats
  <1>5. ASSUME Summarize PROVE SummaryBacked' /\ Unreplaced'
    <2>1. /\ done' = Append(done, [name |-> Name, report |-> found]) /\ summary' = Half
          /\ pc' = "summary" /\ UNCHANGED <<plan, resume, report, runs>>
      BY <1>5 DEF Summarize
    <2>2. Len(done') = Len(done) + 1 /\ \A i \in 1 .. Len(done) : done'[i] = done[i]
      BY <2>1, <1>0 DEF TypeOK
    <2>3. done'[Len(done) + 1] = [name |-> Name, report |-> found] /\ report[Name] = found
      BY <2>1, <1>0, <1>5 DEF TypeOK, Summarize, SummaryInv, Unreplaced
    <2>4. Backed(done)'
      <3>1. found \in Report
        BY <1>0, <1>5 DEF TypeOK, Underway, Summarize
      <3>2. Backed(done)
        BY <1>0 DEF SummaryInv, Unreplaced
      <3>3. \A i \in 1 .. Len(done) : report'[done'[i].name] = done'[i].report /\ done'[i].report \in Report
        BY <2>1, <2>2, <3>2 DEF Backed
      <3>4. LET i == Len(done) + 1 IN report'[done'[i].name] = done'[i].report /\ done'[i].report \in Report
        BY <2>1, <2>3, <3>1
      <3>. QED  BY <1>a, <2>2, <3>3, <3>4 DEF Backed
    <2>5. Index' = Index + 1 /\ Index \in Nat
      BY <1>a, <2>2 DEF Index
    <2>6. ~resume => \A j \in 1 .. Len(plan) : j > Index => report[NameOf[plan[j]]] = None
      BY <1>0, <1>5 DEF SummaryInv, Unreplaced, Summarize
    <2>7. ~resume => ~Repeats(plan)
      BY <1>0, <1>5 DEF SummaryInv, Unreplaced, Summarize
    <2>8. runs # 0
      BY <1>0, <1>5 DEF SummaryInv, Unreplaced, Summarize
    <2>. QED  BY <2>1, <2>4, <2>5, <2>6, <2>7, <2>8 DEF SummaryBacked, Whole, Unreplaced, Repeats
  <1>6. ASSUME SummaryWritten PROVE SummaryBacked' /\ Unreplaced'
    <2>1. /\ summary' = done /\ UNCHANGED <<plan, resume, report, runs, done>>
          /\ pc' \in {"variant", "done"} /\ pc = "summary"
      BY <1>6 DEF SummaryWritten
    <2>2. Backed(done)
      BY <1>0 DEF SummaryInv, Unreplaced
    <2>3. SummaryBacked'
      BY <2>1, <2>2, NoReport DEF SummaryBacked, Backed, Whole
    <2>4. Unreplaced'
      BY <1>0, <2>1, <2>2 DEF SummaryInv, Unreplaced, Backed, Index, Repeats
    <2>. QED  BY <2>3, <2>4
  \* Steps that write the file of the present variant.
  <1>7. ASSUME UNCHANGED <<plan, resume, done, summary, runs>>, NEW file,
               report' = [report EXCEPT ![Name] = file],
               \/ pc = "wait" /\ pc' = "write" /\ file = Half
               \/ pc = "write" /\ pc' = "entry" /\ file = found'
        PROVE  SummaryBacked' /\ Unreplaced'
    <2>1. Name \in Names /\ Name = NameOf[plan[Index]]
      BY <1>0, <1>7, NameType DEF Underway, Name, Variant
    <2>2. report'[Name] = file /\ \A name \in Names : name # Name => report'[name] = report[name]
      BY <1>0, <1>7, <2>1 DEF TypeOK
    <2>3. SummaryBacked'
      <3>1. Whole(summary) => summary \in Seq([name : Names, report : Report]) /\ Backed(summary)
        <4>. SUFFICES ASSUME Whole(summary)
                      PROVE  summary \in Seq([name : Names, report : Report]) /\ Backed(summary)
          OBVIOUS
        <4>1. summary \in Seq([name : Names, report : Report])
          BY <1>0 DEF TypeOK, Whole
        <4>2. \A i \in 1 .. Len(summary) : summary[i].report \in Report
          BY <4>1, EntriesReports
        <4>3. SummaryBacked
          BY <1>0 DEF SummaryInv
        <4>. QED  BY <1>0, <4>1, <4>2, <4>3 DEF SummaryBacked, Backed
      <3>2. Whole(summary) => StaysBacked(summary)
        BY <1>0, <3>1, BackedNext
      <3>3. Whole(summary) => \A i \in 1 .. Len(summary) : Whole(summary[i].report)
        BY <3>1, NoReport DEF Backed, Whole
      <3>. QED  BY <1>7, <3>2, <3>3 DEF SummaryBacked, StaysBacked, Whole
    <2>4. Backed(done)'
      BY <1>0, <1>7, <1>b DEF SummaryInv, Unreplaced, Backed, StaysBacked
    <2>5. ~resume => \A j \in 1 .. Len(plan) : j > Index => report'[NameOf[plan[j]]] = None
      <3>. SUFFICES ASSUME ~resume, NEW j \in 1 .. Len(plan), j > Index
                    PROVE  report'[NameOf[plan[j]]] = None
        OBVIOUS
      <3>1. NameOf[plan[j]] # Name /\ report[NameOf[plan[j]]] = None
        BY <1>0, <1>7, <1>c, <2>1 DEF SummaryInv, Unreplaced, Repeats
      <3>. QED  BY <1>0, <2>2, <3>1, PlanNames
    <2>6. Index' = Index /\ Name' = Name /\ runs # 0 /\ (~resume => ~Repeats(plan))
      BY <1>0, <1>7 DEF Index, Name, Variant, SummaryInv, Unreplaced
    <2>. QED  BY <1>7, <2>2, <2>3, <2>4, <2>5, <2>6 DEF Unreplaced, Repeats
  <1>8. CASE WorkersEnd
    <2>1. CASE Succeeded
      BY <1>7, <1>8, <2>1, Zenon DEF WorkersEnd
    <2>2. CASE ~Succeeded
      BY <1>1, <1>8, <2>2 DEF WorkersEnd
    <2>. QED  BY <2>1, <2>2
  <1>9. CASE ReportWritten
    BY <1>7, <1>9, Zenon DEF ReportWritten
  <1>10. CASE UNCHANGED vars
    BY <1>1, <1>10 DEF vars
  <1>. QED
    <2>1. CASE Interrupted \/ CopyFails \/ SummarizeFails \/ TimesOut \/ StartWorkers
      BY <1>1, <2>1 DEF Interrupted, CopyFails, SummarizeFails, TimesOut, StartWorkers, StartAll
    <2>2. CASE Remote
      BY <1>1, <2>2 DEF CopyReads, CopyLands, CopyEnds, Remote, WorkerBinds, WorkerFails, Measure
    <2>. QED  BY <1>2, <1>3, <1>4, <1>5, <1>6, <1>8, <1>9, <1>10, <2>1, <2>2 DEF Next, Sweeping

---------------------------------------------------------------------------
(* Measured once                                                           *)

\* A report that was written leaves a file, and a sweep that replaces none is at
\* the report of a name that was not written before.
Counted ==
    /\ \A name \in Names : report[name] = None => written[name] = 0
    /\ ~replaces /\ pc = "write" => written[Name] = 0

LEMMA CountedInitially == Init => Counted
  BY DEF Init, Counted

LEMMA CountedKept == IInv /\ SummaryInv /\ Counted /\ [Next]_vars => Counted'
  <1>. SUFFICES ASSUME IInv, SummaryInv, Counted, [Next]_vars PROVE Counted'
    OBVIOUS
  <1>0. TypeOK /\ Underway
    BY DEF IInv
  <1>. USE DEF diskVars, runVars, copyVars, Goes, Fails
  <1>1. ASSUME UNCHANGED <<report, written>>, pc' # "write" \/ UNCHANGED <<pc, plan, done, replaces>>
        PROVE  Counted'
    BY <1>1 DEF Counted, Name, Variant, Index
  <1>2. CASE WorkersEnd
    <2>1. CASE Succeeded
      <3>1. Name \in Names /\ (~replaces => report[Name] = None)
        BY <1>0, <1>2, NameType DEF WorkersEnd, Underway, SummaryInv, Unreplaced
      <3>2. report' = [report EXCEPT ![Name] = Half] /\ UNCHANGED <<plan, done, replaces, written>>
        BY <1>2, <2>1 DEF WorkersEnd
      <3>. QED  BY <1>0, <3>1, <3>2 DEF Counted, TypeOK, Name, Variant, Index
    <2>2. CASE ~Succeeded
      BY <1>1, <1>2, <2>2 DEF WorkersEnd
    <2>. QED  BY <2>1, <2>2
  <1>3. CASE ReportWritten
    <2>1. Name \in Names /\ found \in Report
      BY <1>0, <1>3, NameType DEF ReportWritten, Underway, TypeOK
    <2>. QED  BY <1>0, <1>3, <2>1 DEF ReportWritten, Counted, TypeOK
  <1>. QED
    BY <1>1, <1>2, <1>3 DEF Next, Sweeping, Remote, Start, Resume, Launch, LaunchStarts, Summarize,
       SummaryWritten, Interrupted, CopyReads, CopyLands, CopyEnds, CopyFails, SummarizeFails, StartWorkers, StartAll, TimesOut, WorkerBinds, Measure,
       WorkerFails, vars

\* Only ReportWritten writes a report.
LEMMA WritesOnce ==
  ASSUME IInv, Counted, [Next]_vars, ~replaces, NEW name \in Names, written'[name] > written[name]
  PROVE  written[name] = 0
  <1>0. TypeOK /\ Underway
    BY DEF IInv
  <1>1. CASE ReportWritten
    <2>1. Name \in Names /\ written' = [written EXCEPT ![Name] = @ + 1] /\ written[Name] = 0
      BY <1>0, <1>1, NameType DEF ReportWritten, Underway, Counted
    <2>2. \A x \in Nat : ~(x > x)
      OBVIOUS
    <2>3. CASE name # Name
      BY <1>0, <2>1, <2>2, <2>3 DEF TypeOK
    <2>. QED  BY <2>1, <2>3
  <1>2. CASE written' = written
    <2>1. written[name] \in Nat
      BY <1>0 DEF TypeOK
    <2>. QED  BY <1>2, <2>1
  <1>. QED
    BY <1>1, <1>2 DEF Next, Sweeping, Remote, Start, Resume, Launch, LaunchStarts, Summarize, WorkersEnd,
       SummaryWritten, Interrupted, CopyReads, CopyLands, CopyEnds, CopyFails, SummarizeFails, StartWorkers, StartAll, TimesOut, WorkerBinds, Measure,
       WorkerFails, diskVars, copyVars, vars

---------------------------------------------------------------------------
(* The theorems                                                            *)

THEOREM Inductive == Spec => []IInv
  <1>1. IInv /\ [Next]_vars => IInv'
    BY Typed, UnderwayKept, OnNodesKept, OwnKept, PlannedKept, UntouchedKept, ReportsKept DEF IInv, NodesInv
  <1>. QED  BY Initially, <1>1, PTL DEF Spec

\* Every variable keeps its type, for any nodes, variants and plans.
THEOREM SweepTypes == Spec => []TypeOK
  <1>1. IInv => TypeOK
    BY DEF IInv
  <1>. QED  BY Inductive, <1>1, PTL

\* Unless an abandoned copy overtakes that of a later launch, the file of a variant
\* never holds a measurement of another, and while all sweeps have one plan nobody
\* configured for another took part in it, however often sweeps are interrupted and
\* resumed and however many workers they leave behind.
THEOREM ReportsMatch == Spec => []ReportOfVariant
  <1>1. IInv => ReportOfVariant
    BY DEF IInv
  <1>. QED  BY Inductive, <1>1, PTL

\* Unless a sweep was started that replaces reports, the summary lists what the
\* files hold, wherever sweeps are interrupted.
THEOREM SummariesBacked == Spec => []SummaryBacked
  <1>1. SummaryInv => SummaryBacked
    BY DEF SummaryInv
  <1>. QED  BY Inductive, SummaryInitially, SummaryKept, <1>1, PTL DEF Spec

\* A sweep that resumes never measures a name again, whatever the sweeps before
\* it left behind.
THEOREM NothingMeasuredTwice == Spec => MeasuredOnce
  <1>1. IInv /\ Counted /\ [Next]_vars =>
          [resume /\ ~replaces => \A name \in Names : written'[name] > written[name] => written[name] = 0]_vars
    BY WritesOnce
  <1>. QED  BY Inductive, SummaryInitially, SummaryKept, CountedInitially, CountedKept, <1>1, PTL DEF Spec, MeasuredOnce
=============================================================================
