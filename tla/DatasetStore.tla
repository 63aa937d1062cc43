---------------------------- MODULE DatasetStore ----------------------------
(***************************************************************************)
(* One dataset directory of virtual networks, as save_dataset writes it    *)
(* and load_dataset reads it (virtual_network_request_simulator_io.cpp):   *)
(* one file per request, then the events, then the setting.  A file is     *)
(* truncated before it is written.  A wide save first serializes into a    *)
(* staging directory inside v_nets and copies the files from there.        *)
(*                                                                         *)
(* A save calls the files of the events and of the setting as its          *)
(* simulator's configuration says; a load only looks for events.yaml and   *)
(* v_sim_setting.yaml.  A file of any other name is never read.            *)
(*                                                                         *)
(* Several processes use the directory.  Each has its own dataset cache    *)
(* and may stop at any point; one process at a time saves, while others    *)
(* may be loading.  The data of a save are its version, 1, 2, ...          *)
(***************************************************************************)
EXTENDS Integers, Sequences, FiniteSets

CONSTANTS Processes,
          MaxSize,      \* requests of the largest dataset
          MaxSaves,     \* saves of the longest run of the model
          Directories,  \* kinds of directory: "seed_" in its name, or not
          Bounds        \* how much may happen, of which one is chosen

ASSUME StoreAssumption ==
    /\ MaxSize \in Nat /\ MaxSaves \in Nat
    /\ Directories \subseteq {"seed_", "plain"}
    /\ Bounds \subseteq [saves : 0 .. MaxSaves, renamed : Nat, loads : Nat,
                         failures : Nat, stuck : Nat, crashes : Nat]

VARIABLES directory,  \* its kind
          bound,      \* of the model
          files,      \* content of every file, in the order of a save
          stages,     \* staging directories in v_nets, by version
          stuck,      \* those that could not be removed
          sizes,      \* sizes[v] is the number of requests of version v
          known,      \* known[v]: which of events and setting save v calls as loads do
          completed,  \* the last save that returned
          proc,       \* what each process is doing
          cache,      \* VirtualNetworkDatasetCache of each process
          answer,     \* what the last load of each process returned
          failures, crashes, loads   \* how many there were

fixed == <<directory, bound>>
saves == <<sizes, known>>
vars == <<fixed, files, stages, stuck, saves, completed, proc, cache, answer,
          failures, crashes, loads>>
budget == <<failures, crashes, loads>>

\* The files of the requests are 1 .. MaxSize; these two are events.yaml and
\* v_sim_setting.yaml.
EventsFile == MaxSize + 1
SettingFile == MaxSize + 2
Requests == 1 .. MaxSize
Named == {EventsFile, SettingFile}

Torn == -1
Absent == 0

Idle == [op |-> "idle"]
None == [kind |-> "none"]

Latest == Len(sizes)

\* Whether loads read the file that save v calls its f.
IsRead(v, f) == f \in Requests \cup known[v]

\* What a load found in v_nets, and what it read of it: Absent until then.
Found == UNION {[found -> 0 .. MaxSaves] : found \in SUBSET Requests}
NothingFound == [i \in {} |-> Absent]

SaveProc == [op : {"save"}, step : {"stage", "serialize", "open", "write", "unstage"},
             version : Nat, file : 1 .. SettingFile, count : 0 .. MaxSize]
LoadProc == [op : {"load"}, step : {"layout", "setting", "events", "list", "networks"},
             complete : Nat, setting : Nat, events : Nat, networks : Found]

Datasets == [setting : Nat, events : Nat, networks : Found]
Returned == [kind : {"dataset"}, data : Datasets, complete : Nat, latest : Nat]
            \cup [kind : {"throws"}, complete : Nat, latest : Nat]

TypeOK ==
    /\ directory \in Directories /\ bound \in Bounds
    /\ sizes \in Seq(Requests) /\ Latest <= MaxSaves
    /\ known \in Seq(SUBSET Named) /\ Len(known) = Latest
    /\ files \in [1 .. SettingFile -> Torn .. Latest]
    /\ stages \subseteq 1 .. Latest /\ stuck \subseteq stages
    /\ completed \in 0 .. Latest
    /\ proc \in [Processes -> {Idle} \cup SaveProc \cup LoadProc]
    /\ cache \in [Processes -> {None} \cup Datasets]
    /\ answer \in [Processes -> {None} \cup Returned]
    /\ failures \in Nat /\ crashes \in Nat /\ loads \in Nat

Init ==
    /\ directory \in Directories /\ bound \in Bounds
    /\ files = [f \in 1 .. SettingFile |-> Absent]
    /\ stages = {} /\ stuck = {}
    /\ sizes = <<>> /\ known = <<>>
    /\ completed = 0
    /\ proc = [p \in Processes |-> Idle]
    /\ cache = [p \in Processes |-> None]
    /\ answer = [p \in Processes |-> None]
    /\ failures = 0 /\ crashes = 0 /\ loads = 0

-----------------------------------------------------------------------------
\* save_dataset

Saving(p) == proc[p].op = "save"

\* Saves that call a file otherwise than loads do.
Renamed == {v \in 1 .. Latest : known[v] # Named}

\* The directories are made if need be.  With one worker, or one request,
\* there is no staging.
BeginSave(p, n, names, wide) ==
    /\ proc[p] = Idle
    /\ \A q \in Processes : ~Saving(q)
    /\ Latest < bound.saves
    /\ names = Named \/ Cardinality(Renamed) < bound.renamed
    /\ sizes' = Append(sizes, n) /\ known' = Append(known, names)
    /\ proc' = [proc EXCEPT ![p] =
                  [op |-> "save", step |-> IF wide /\ n > 1 THEN "stage" ELSE "open",
                   version |-> Latest + 1, file |-> 1, count |-> n]]
    /\ UNCHANGED <<fixed, files, stages, stuck, completed, cache, answer, budget>>

\* make_stage_directory finds a name that no other process, dead or alive,
\* has used.
MakeStage(p) ==
    /\ Saving(p) /\ proc[p].step = "stage"
    /\ stages' = stages \cup {proc[p].version}
    /\ proc' = [proc EXCEPT ![p].step = "serialize"]
    /\ UNCHANGED <<fixed, files, stuck, saves, completed, cache, answer, budget>>

\* run_indexed: each worker serializes its own requests into files nobody
\* else uses.  The requests before the first that failed are committed.
Serialize(p) ==
    /\ Saving(p) /\ proc[p].step = "serialize"
    /\ \/ proc' = [proc EXCEPT ![p].step = "open"] /\ UNCHANGED failures
       \/ /\ failures < bound.failures
          /\ failures' = failures + 1
          /\ \E first \in 1 .. proc[p].count :
                proc' = [proc EXCEPT ![p].step = IF first = 1 THEN "unstage" ELSE "open",
                                     ![p].count = first - 1]
    /\ UNCHANGED <<fixed, files, stages, stuck, saves, completed, cache, answer, crashes, loads>>

\* What follows the file f of a save: the next request, the events, the
\* setting; a staging directory goes when the last request is committed.
NextFile(f, count) == IF f < count THEN f + 1 ELSE IF f <= MaxSize THEN EventsFile ELSE f + 1

Open(p) ==
    /\ Saving(p) /\ proc[p].step = "open"
    /\ files' = IF IsRead(proc[p].version, proc[p].file)
                THEN [files EXCEPT ![proc[p].file] = Torn] ELSE files
    /\ proc' = [proc EXCEPT ![p].step = "write"]
    /\ UNCHANGED <<fixed, stages, stuck, saves, completed, cache, answer, budget>>

Write(p) ==
    /\ Saving(p) /\ proc[p].step = "write"
    /\ LET s == proc[p]
           next == NextFile(s.file, s.count)
       IN  /\ files' = IF IsRead(s.version, s.file)
                       THEN [files EXCEPT ![s.file] = s.version] ELSE files
           /\ proc' = [proc EXCEPT ![p] =
                         IF s.file = SettingFile THEN Idle
                         ELSE IF next = EventsFile /\ s.version \in stages
                         THEN [s EXCEPT !.step = "unstage"]
                         ELSE [s EXCEPT !.step = "open", !.file = next]]
           /\ completed' = IF s.file = SettingFile THEN s.version ELSE completed
    /\ UNCHANGED <<fixed, stages, stuck, saves, cache, answer, budget>>

\* ~StageDirectory, when save_dataset leaves the block of a wide save.  It does
\* not tell when the directory cannot be removed.
FaultyRemoved(v) == stages
Removed(v) == stages \ ({v} \ stuck)
RemoveStage(v) ==
    \/ stages' = Removed(v) /\ UNCHANGED stuck
    \/ /\ v \in stages /\ Cardinality(stuck) < bound.stuck
       /\ stuck' = stuck \cup {v} /\ UNCHANGED stages

\* The staging directory goes, and the error of a request that could not be
\* serialized is thrown.
Unstage(p) ==
    /\ Saving(p) /\ proc[p].step = "unstage"
    /\ RemoveStage(proc[p].version)
    /\ proc' = [proc EXCEPT ![p] =
                  IF @.count < sizes[@.version] THEN Idle
                  ELSE [@ EXCEPT !.step = "open", !.file = EventsFile]]
    /\ UNCHANGED <<fixed, files, saves, completed, cache, answer, budget>>

\* A directory cannot be made, or a file opened or written: save_dataset throws.
SaveFails(p) ==
    /\ Saving(p) /\ proc[p].step \in {"stage", "open", "write"}
    /\ failures < bound.failures
    /\ failures' = failures + 1
    /\ RemoveStage(proc[p].version)
    /\ proc' = [proc EXCEPT ![p] = Idle]
    /\ UNCHANGED <<fixed, files, saves, completed, cache, answer, crashes, loads>>

-----------------------------------------------------------------------------
\* load_dataset

Loading(p) == proc[p].op = "load"

\* What a load gives; `complete` is the last save that had returned when the
\* load began, `latest` the last one that had begun when it ended.
Dataset(setting, events, networks) ==
    [setting |-> setting, events |-> events, networks |-> networks]
Throws(p) ==
    /\ proc' = [proc EXCEPT ![p] = Idle]
    /\ answer' = [answer EXCEPT ![p] = [kind |-> "throws", complete |-> proc[p].complete,
                                        latest |-> Latest]]

\* Faulty: every directory is answered from the cache; none is.
FaultyMayCache == TRUE
FaultyMayCache_Never == FALSE
MayCache == directory = "seed_"

CachedLoad(p) ==
    /\ proc[p] = Idle /\ loads < bound.loads
    /\ MayCache /\ cache[p] # None
    /\ loads' = loads + 1
    /\ answer' = [answer EXCEPT ![p] = [kind |-> "dataset", data |-> cache[p],
                                        complete |-> completed, latest |-> Latest]]
    /\ UNCHANGED <<fixed, files, stages, stuck, saves, completed, proc, cache, failures, crashes>>

BeginLoad(p) ==
    /\ proc[p] = Idle /\ loads < bound.loads
    /\ ~(MayCache /\ cache[p] # None)
    /\ loads' = loads + 1
    /\ proc' = [proc EXCEPT ![p] = 
                  [op |-> "load", step |-> "layout", complete |-> completed,
                   setting |-> Absent, events |-> Absent,
                   networks |-> NothingFound]]
    /\ UNCHANGED <<fixed, files, stages, stuck, saves, completed, cache, answer, failures, crashes>>

\* The directories, events.yaml and v_sim_setting.yaml have to exist.
CheckLayout(p) ==
    /\ Loading(p) /\ proc[p].step = "layout"
    /\ IF files[EventsFile] = Absent \/ files[SettingFile] = Absent
       THEN Throws(p)
       ELSE proc' = [proc EXCEPT ![p].step = "setting"] /\ UNCHANGED answer
    /\ UNCHANGED <<fixed, files, stages, stuck, saves, completed, cache, budget>>

ReadSetting(p) ==
    /\ Loading(p) /\ proc[p].step = "setting"
    /\ IF files[SettingFile] = Torn THEN Throws(p)
       ELSE /\ proc' = [proc EXCEPT ![p] =
                          [@ EXCEPT !.step = "events", !.setting = files[SettingFile]]]
            /\ UNCHANGED answer
    /\ UNCHANGED <<fixed, files, stages, stuck, saves, completed, cache, budget>>

ReadEvents(p) ==
    /\ Loading(p) /\ proc[p].step = "events"
    /\ IF files[EventsFile] = Torn THEN Throws(p)
       ELSE /\ proc' = [proc EXCEPT ![p] =
                          [@ EXCEPT !.step = "list", !.events = files[EventsFile]]]
            /\ UNCHANGED answer
    /\ UNCHANGED <<fixed, files, stages, stuck, saves, completed, cache, budget>>

\* Every entry of v_nets is taken for a request; a staging directory is none
\* and fails the load.
ListNetworks(p) ==
    /\ Loading(p) /\ proc[p].step = "list"
    /\ IF stages # {} THEN Throws(p)
       ELSE LET found == {i \in Requests : files[i] # Absent}
            IN  /\ proc' = [proc EXCEPT ![p] =
                              [@ EXCEPT !.step = "networks",
                                        !.networks = [i \in found |-> Absent]]]
                /\ UNCHANGED answer
    /\ UNCHANGED <<fixed, files, stages, stuck, saves, completed, cache, budget>>

\* The workers read the files in any order.
ReadNetwork(p) ==
    /\ Loading(p) /\ proc[p].step = "networks"
    /\ \E i \in DOMAIN proc[p].networks :
          /\ proc[p].networks[i] = Absent
          /\ IF files[i] = Torn THEN Throws(p)
             ELSE /\ proc' = [proc EXCEPT ![p].networks[i] = files[i]]
                  /\ UNCHANGED answer
    /\ UNCHANGED <<fixed, files, stages, stuck, saves, completed, cache, budget>>

\* Faulty: the number of requests in the setting is asked for instead.
FaultyCountMatches(l) == Cardinality(DOMAIN l.networks) = sizes[l.setting]
CountMatches(l) == Cardinality(DOMAIN l.networks) = sizes[l.events]

\* There have to be two events for every request.  What was loaded is cached
\* whatever the directory is called.
FinishLoad(p) ==
    /\ Loading(p) /\ proc[p].step = "networks"
    /\ \A i \in DOMAIN proc[p].networks : proc[p].networks[i] # Absent
    /\ LET l == proc[p]
           data == Dataset(l.setting, l.events, l.networks)
       IN  IF ~CountMatches(l)
           THEN Throws(p) /\ UNCHANGED cache
           ELSE /\ cache' = [cache EXCEPT ![p] = data]
                /\ answer' = [answer EXCEPT ![p] =
                                [kind |-> "dataset", data |-> data,
                                 complete |-> l.complete, latest |-> Latest]]
                /\ proc' = [proc EXCEPT ![p] = Idle]
    /\ UNCHANGED <<fixed, files, stages, stuck, saves, completed, budget>>

-----------------------------------------------------------------------------
\* The process stops, wherever it is, and is started again: its cache is
\* gone, the files stay as they are.
Crash(p) ==
    /\ crashes < bound.crashes
    /\ proc[p] # Idle \/ cache[p] # None
    /\ crashes' = crashes + 1
    /\ proc' = [proc EXCEPT ![p] = Idle]
    /\ cache' = [cache EXCEPT ![p] = None]
    /\ answer' = [answer EXCEPT ![p] = None]
    /\ UNCHANGED <<fixed, files, stages, stuck, saves, completed, failures, loads>>

Next ==
    \E p \in Processes :
        \/ \E n \in Requests, names \in SUBSET Named, wide \in BOOLEAN : BeginSave(p, n, names, wide)
        \/ MakeStage(p) \/ Serialize(p) \/ Open(p) \/ Write(p) \/ Unstage(p) \/ SaveFails(p)
        \/ CachedLoad(p) \/ BeginLoad(p) \/ CheckLayout(p) \/ ReadSetting(p)
        \/ ReadEvents(p) \/ ListNetworks(p) \/ ReadNetwork(p) \/ FinishLoad(p)
        \/ Crash(p)

Spec == Init /\ [][Next]_vars

-----------------------------------------------------------------------------
Answers(kind) == {answer[p] : p \in {q \in Processes : answer[q].kind = kind}}

\* What a load returns is never older towards the requests: they are of the save
\* that wrote the events, or the setting, or of a later one, and there are as many
\* as the events ask for.  So are the events, towards the setting, unless the save
\* that wrote the setting called its events otherwise.  A load is of one save whenever
\* no later save has begun; after a save that was cut short, or gave its files
\* other names, or beside one, newer requests may come with older events and an
\* older setting, never the other way round.
LoadIsLayered ==
    \A a \in Answers("dataset") :
        LET d == a.data
        IN  /\ IsRead(d.setting, EventsFile) => d.setting <= d.events
            /\ \A i \in DOMAIN d.networks : d.events <= d.networks[i]
            /\ \A i \in 1 .. sizes[d.setting] : d.setting <= d.networks[i]
            /\ DOMAIN d.networks = 1 .. sizes[d.events]

\* Outside seed_ directories the cache never answers: a load is at least as
\* new as the last save that had returned when it began, in everything that save
\* wrote where loads look for it.
PlainLoadsAreFresh ==
    directory # "seed_" =>
        \A a \in Answers("dataset") : a.complete > 0 =>
            /\ IsRead(a.complete, SettingFile) => a.data.setting >= a.complete
            /\ IsRead(a.complete, EventsFile) => a.data.events >= a.complete
            /\ \A i \in 1 .. sizes[a.complete] : a.data.networks[i] >= a.complete

\* A load that begins after the last save has returned, and can read every
\* file there is, fails for three reasons only: that save called its events or its
\* setting otherwise than loads do, an earlier, larger dataset left its last
\* requests there, or there is a staging directory, that could not be removed or
\* is of an earlier save that was cut short by a crash.
CompletedSaveLoads ==
    \A a \in Answers("throws") :
        (a.complete > 0 /\ a.complete = a.latest) =>
            \/ known[a.complete] # Named
            \/ \E v \in 1 .. a.complete : sizes[v] > sizes[a.complete]
            \/ \E v \in stages : v \in stuck \/ (crashes > 0 /\ v < a.complete)

\* A process that has loaded a seed_ directory gets the same dataset from it
\* for the rest of its life, whatever is saved there, by itself or by others.
SeededLoadsAgree ==
    [][\A p \in Processes :
          (directory = "seed_" /\ cache[p] # None /\ answer'[p] # answer[p] /\ answer'[p] # None)
              => answer'[p].kind = "dataset" /\ answer'[p].data = cache[p]]_vars
=============================================================================
