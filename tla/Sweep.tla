------------------------------- MODULE Sweep -------------------------------
(***************************************************************************)
(* The experiment sweep (experiment_sweep.py) with the launcher it calls   *)
(* for each variant (cluster_benchmark.py): the reports and the summary on *)
(* disk, the configuration file and the workers on the remote nodes, the   *)
(* interruption of a sweep at any point, and the next one, which may       *)
(* resume.  What a launch that was abandoned has started goes on: the      *)
(* copies of the configuration are processes of their own (scp), and       *)
(* ending ssh does not end the workers.                                    *)
(***************************************************************************)
EXTENDS Naturals, Sequences, FiniteSets, SequencesExt

CONSTANTS
    Nodes, Controller,
    Variants,
    NameOf,       \* the name of a variant: two suites have variants of one name
    Plans,        \* what build_variants and the shuffle can give, by suites and seed
    None, Half,   \* no file, and one that was not written to its end
    MaxRuns,      \* bound: sweeps started in the same directory
    MaxLaunches   \* bound: launches in all of them

Names == {NameOf[v] : v \in Variants}

\* A configuration file, by the variant it is of and its base_port.
File == [name : Names, port : Nat]

\* A report: the configuration its controller had, and the variants of the
\* configurations that the workers it measured with had.
Report == [name : Names, port : Nat, with : SUBSET Names]

ASSUME SweepAssumption ==
    /\ Controller \in Nodes
    /\ Plans \subseteq Seq(Variants) \ {<<>>}
    /\ \A plan \in Plans : IsInjective(plan)
    /\ None # Half /\ {None, Half} \cap (File \cup Report) = {} /\ None \notin Names
    /\ MaxRuns \in Nat /\ MaxLaunches \in Nat

VARIABLES
    pc,         \* where the sweep is
    plan,       \* its variants, in order
    resume,     \* --resume
    done,       \* summaries
    found,      \* the report of the variant it is at
    configs,    \* the configuration files of the launcher, by name
    copies,     \* the copies under way, of this launch and of abandoned ones
    copied,     \* nodes the copy of this launch has reached
    report,     \* the report files
    summary,    \* summary.json
    nodeConfig, \* .wireless_comm_cluster.yaml on each node
    workers,    \* the worker of each launch on each node
    launch,     \* launches so far
    runs,       \* sweeps so far
    reordered,  \* history: a sweep was started with another plan than the one before
    overtaken,  \* history: an abandoned copy replaced that of a later launch
    replaces,   \* history: a sweep was started that may replace a report
    written     \* history: how often the report of a name was written

runVars == <<plan, resume, runs, replaces, reordered>>
diskVars == <<report, summary, written>>
copyVars == <<copies, copied, nodeConfig, overtaken>>
vars == <<pc, runVars, done, found, configs, diskVars, copyVars, workers, launch>>

Launches == 1 .. MaxLaunches
\* What an earlier use left on the nodes.
OldConfig == [name |-> None, port |-> 0]
Absent == [pc |-> "none", config |-> None, with |-> {}]
Bad == [pc |-> "bad", config |-> None, with |-> {}]

Init ==
    /\ pc = "down"
    /\ plan = <<>>
    /\ resume = FALSE
    /\ done = <<>>
    /\ found = None
    /\ configs = [name \in Names |-> None]
    /\ copies = {}
    /\ copied = {}
    /\ report = [name \in Names |-> None]
    /\ summary = None
    /\ nodeConfig = [n \in Nodes |-> OldConfig]
    /\ workers = [n \in Nodes |-> [l \in Launches |-> Absent]]
    /\ launch = 0
    /\ runs = 0
    /\ reordered = FALSE
    /\ overtaken = FALSE
    /\ replaces = FALSE
    /\ written = [name \in Names |-> 0]

---------------------------------------------------------------------------
(* Helpers                                                                 *)

Index == Len(done) + 1
Variant == plan[Index]
Name == NameOf[Variant]

\* variant_document: each variant of a sweep has ports of its own.
Config == [name |-> Name, port |-> Index]

\* The suites of a plan have variants of one name, and so of one report file.
Repeats(p) == \E i, j \in 1 .. Len(p) : i # j /\ NameOf[p[i]] = NameOf[p[j]]

Running == pc \notin {"down", "failed", "done"}

Whole(file) == file \notin {None, Half}

Goes(to) == pc' = to

Fails == Goes("failed")

Mine(n) == workers[n][launch]

Ended(n, l) == workers[n][l].pc \in {"ok", "bad"}

---------------------------------------------------------------------------
(* run_sweep                                                               *)

\* A sweep is started in the directory, for the first time or again.
Start ==
    /\ ~Running /\ runs < MaxRuns
    /\ \E p \in Plans, again \in BOOLEAN :
        /\ plan' = p
        /\ resume' = again
        /\ replaces' = (replaces \/ (~again /\ (runs > 0 \/ Repeats(p))))
        /\ reordered' = (reordered \/ (runs > 0 /\ p # plan))
    /\ runs' = runs + 1
    /\ done' = <<>> /\ found' = None
    /\ Goes("variant")
    /\ UNCHANGED <<configs, diskVars, copyVars, workers, launch>>

\* The configuration of a variant is written whether or not it is launched.
WriteConfig == configs' = [configs EXCEPT ![Name] = Config]

ResumeHalf ==
    /\ pc = "variant" /\ resume /\ report[Name] # None
    /\ WriteConfig
    /\ done' = Append(done, [name |-> Name, report |-> report[Name]])
    /\ summary' = Half /\ Goes("summary")
    /\ UNCHANGED <<runVars, found, report, written, copyVars, workers, launch>>

\* A report that was half written is no JSON.
Resume ==
    /\ pc = "variant" /\ resume /\ report[Name] # None
    /\ WriteConfig
    /\ IF report[Name] = Half THEN Fails /\ UNCHANGED found
       ELSE found' = report[Name] /\ Goes("entry")
    /\ UNCHANGED <<runVars, done, diskVars, copyVars, workers, launch>>

\* One scp process for every node.
LaunchStarts ==
    /\ launch < MaxLaunches
    /\ WriteConfig
    /\ launch' = launch + 1 /\ Goes("copy")
    /\ copies' = copies \cup {[node |-> n, launch |-> launch + 1, name |-> Name, config |-> None] : n \in Nodes}
    /\ copied' = {}
    /\ UNCHANGED <<runVars, done, found, diskVars, nodeConfig, overtaken, workers>>

LaunchAlways == pc = "variant" /\ LaunchStarts

LaunchUnlisted ==
    /\ pc = "variant"
    /\ \/ ~resume \/ ~Whole(summary)
       \/ Whole(summary) /\ \A i \in 1 .. Len(summary) : summary[i].name # Name
    /\ LaunchStarts

Launch ==
    /\ pc = "variant"
    /\ ~resume \/ report[Name] = None
    /\ LaunchStarts

\* summarize_variant
Summarize ==
    /\ pc = "entry"
    /\ done' = Append(done, [name |-> Name, report |-> found])
    /\ found' = None
    /\ summary' = Half
    /\ Goes("summary")
    /\ UNCHANGED <<runVars, configs, report, written, copyVars, workers, launch>>

\* The report of another variant may have other collectives and sizes.
SummarizeFails ==
    /\ pc = "entry" /\ found.name # Name
    /\ Fails
    /\ UNCHANGED <<runVars, done, found, configs, diskVars, copyVars, workers, launch>>

\* The remaining variants are those of the plan that are not in the summary.
SummaryWritten ==
    /\ pc = "summary"
    /\ summary' = done
    /\ Goes(IF Len(done) = Len(plan) THEN "done" ELSE "variant")
    /\ UNCHANGED <<runVars, done, found, configs, report, written, copyVars, workers, launch>>

\* The process is killed, or the terminal interrupts it; what it has started goes
\* on, or not (CopyEnds, WorkerFails).
Interrupted ==
    /\ Running /\ runs < MaxRuns
    /\ Goes("down")
    /\ UNCHANGED <<runVars, done, found, configs, diskVars, copyVars, workers, launch>>

---------------------------------------------------------------------------
(* launch_cluster                                                          *)

\* The launcher waits for the copies it has started.
Copying == \E c \in copies : c.launch = launch

CopyFails ==
    /\ pc = "copy" /\ ~Copying /\ copied # Nodes
    /\ Fails
    /\ UNCHANGED <<runVars, done, found, configs, diskVars, copyVars, workers, launch>>

StartAll ==
    /\ workers' = [n \in Nodes |-> [workers[n] EXCEPT ![launch].pc = "starting"]]
    /\ Goes("wait")
    /\ UNCHANGED <<runVars, done, found, configs, diskVars, copyVars, launch>>

StartUncopied == pc = "copy" /\ StartAll

\* Every worker is started, that of the controller last.
StartWorkers ==
    /\ pc = "copy" /\ ~Copying /\ copied = Nodes
    /\ StartAll

AllEnded == \A n \in Nodes : Ended(n, launch)

\* Every return code is zero.
Succeeded == \A n \in Nodes : Mine(n).pc = "ok"

ReportOf(worker) ==
    [name |-> worker.config.name, port |-> worker.config.port, with |-> worker.with]

\* Opening the file truncates it.
WorkersEnd ==
    /\ pc = "wait" /\ AllEnded
    /\ IF Succeeded
       THEN /\ found' = ReportOf(Mine(Controller))
            /\ report' = [report EXCEPT ![Name] = Half]
            /\ Goes("write")
       ELSE Fails /\ UNCHANGED <<found, report>>
    /\ UNCHANGED <<runVars, done, configs, summary, written, copyVars, workers, launch>>

TimesOut ==
    /\ pc = "wait" /\ ~AllEnded
    /\ Fails
    /\ UNCHANGED <<runVars, done, found, configs, diskVars, copyVars, workers, launch>>

ReportWritten ==
    /\ pc = "write"
    /\ report' = [report EXCEPT ![Name] = found]
    /\ written' = [written EXCEPT ![Name] = @ + 1]
    /\ Goes("entry")
    /\ UNCHANGED <<runVars, done, found, configs, summary, copyVars, workers, launch>>

---------------------------------------------------------------------------
(* The scp processes, whether or not anybody waits for them                *)

\* scp opens the file when it has connected to the node: what is there by then.
CopyReads(c) ==
    /\ c.config = None
    /\ copies' = (copies \ {c}) \cup {[c EXCEPT !.config = configs[c.name]]}
    /\ UNCHANGED <<pc, runVars, done, found, configs, diskVars, copied, nodeConfig, overtaken, workers, launch>>

\* A worker of a later launch has yet to read the file that this copy replaces.
Overtakes(c) ==
    /\ c.launch # launch
    /\ \/ pc = "copy" /\ c.node \in copied
       \/ pc = "wait" /\ Mine(c.node).pc = "starting"

CopyLands(c) ==
    /\ c.config # None
    /\ nodeConfig' = [nodeConfig EXCEPT ![c.node] = c.config]
    /\ copies' = copies \ {c}
    /\ copied' = IF pc = "copy" /\ c.launch = launch THEN copied \cup {c.node} ELSE copied
    /\ overtaken' = (overtaken \/ Overtakes(c))
    /\ UNCHANGED <<pc, runVars, done, found, configs, diskVars, workers, launch>>

\* A copy that fails, or was never started.  A worker that reads the half of a file
\* that it may leave ends (WorkerFails): a half is taken to be no configuration.
CopyEnds(c) ==
    /\ copies' = copies \ {c}
    /\ UNCHANGED <<pc, runVars, done, found, configs, diskVars, copied, nodeConfig, overtaken, workers, launch>>

---------------------------------------------------------------------------
(* The workers on the nodes, whether or not anybody waits for them         *)

Bound(n, port) == {l \in Launches : workers[n][l].pc = "bound" /\ workers[n][l].config.port = port}

\* The worker reads the configuration that is there now and binds its ports.
WorkerBinds(n, l) ==
    /\ workers[n][l].pc = "starting"
    /\ workers' = [workers EXCEPT ![n][l] =
            IF Bound(n, nodeConfig[n].port) = {}
              THEN [pc |-> "bound", config |-> nodeConfig[n], with |-> {}]
              ELSE Bad]
    /\ UNCHANGED <<pc, runVars, done, found, configs, diskVars, copyVars, launch>>

\* The variants whose configurations a team has.
NamesOf(team) == {workers[n][team[n]].config.name : n \in Nodes}

\* The workers on the same ports find each other, whoever started them, and run
\* the benchmark to its end: "ready" and "go" do not say what each was configured
\* to do.  (Those that disagree on the collective or its rounds fail instead.)
Measure(port) ==
    \E team \in [Nodes -> Launches] :
        /\ \A n \in Nodes : team[n] \in Bound(n, port)
        /\ workers' = [n \in Nodes |-> [workers[n] EXCEPT ![team[n]] =
                [pc |-> "ok", config |-> workers[n][team[n]].config, with |-> NamesOf(team)]]]
        /\ UNCHANGED <<pc, runVars, done, found, configs, diskVars, copyVars, launch>>

\* An error, or the time a worker waits for the others.
WorkerFails(n, l) ==
    /\ workers[n][l].pc \in {"starting", "bound"}
    /\ workers' = [workers EXCEPT ![n][l] = Bad]
    /\ UNCHANGED <<pc, runVars, done, found, configs, diskVars, copyVars, launch>>

---------------------------------------------------------------------------
Sweeping ==
    \/ Resume \/ Launch \/ Summarize \/ SummarizeFails \/ SummaryWritten
    \/ CopyFails \/ StartWorkers
    \/ WorkersEnd \/ TimesOut \/ ReportWritten

Remote ==
    \/ \E c \in copies : CopyReads(c) \/ CopyLands(c) \/ CopyEnds(c)
    \/ \E n \in Nodes, l \in Launches : WorkerBinds(n, l) \/ WorkerFails(n, l)
    \/ \E port \in 1 .. Cardinality(Variants) : Measure(port)

Next == Start \/ Interrupted \/ Sweeping \/ Remote

Spec == Init /\ [][Next]_vars

---------------------------------------------------------------------------
(* Properties                                                              *)

TypeOK ==
    /\ pc \in {"down", "variant", "copy", "wait", "write", "entry", "summary", "failed", "done"}
    /\ plan \in Seq(Variants) /\ resume \in BOOLEAN
    /\ done \in Seq([name : Names, report : Report]) /\ found \in Report \cup {None}
    /\ configs \in [Names -> File \cup {None}]
    /\ copies \subseteq [node : Nodes, launch : Nat, name : Names, config : File \cup {None}]
    /\ copied \subseteq Nodes
    /\ report \in [Names -> Report \cup {None, Half}]
    /\ summary \in Seq([name : Names, report : Report]) \cup {None, Half}
    /\ nodeConfig \in [Nodes -> File \cup {OldConfig}]
    /\ workers \in [Nodes -> [Launches -> [pc : {"none", "starting", "bound", "ok", "bad"},
                                            config : File \cup {OldConfig, None},
                                            with : SUBSET Names]]]
    /\ launch \in 0 .. MaxLaunches /\ runs \in 0 .. MaxRuns
    /\ reordered \in BOOLEAN /\ overtaken \in BOOLEAN
    /\ replaces \in BOOLEAN /\ written \in [Names -> Nat]

\* The file of a variant holds a measurement of that variant, although every
\* variant uses one configuration file on the nodes and workers of an abandoned
\* launch may read it, or still run, when the next variant is launched; and while
\* every sweep in the directory has the same plan, all workers it was measured
\* with were configured for that variant, whichever launch started them.  Only a
\* copy that outlives its launch can undo this, when it reaches a node after the
\* copy of the next launch and before the worker has read that.
ReportOfVariant ==
    ~overtaken => \A name \in Names : Whole(report[name]) =>
        /\ report[name].name = name
        /\ ~reordered => report[name].with = {name}

\* When every sweep in the directory but the first resumes, what summary.json
\* lists is what the report files hold, through every interruption: no entry comes
\* from a report that was half written or is replaced later.  A first sweep of two
\* suites with variants of one name has to resume, too.
SummaryBacked ==
    Whole(summary) /\ ~replaces =>
        \A i \in 1 .. Len(summary) :
            Whole(summary[i].report) /\ report[summary[i].name] = summary[i].report

\* A sweep that resumes measures nothing again.  With the variants of two suites
\* that have one name this means that the second is never measured.
MeasuredOnce == [][resume /\ ~replaces => \A name \in Names :
                        written'[name] > written[name] => written[name] = 0]_vars
=============================================================================
