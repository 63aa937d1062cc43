-------------------------- MODULE DatasetStoreProofs --------------------------
(***************************************************************************)
(* What a load may return, proved for any number of processes, requests,   *)
(* saves, failures and crashes, and any file names of the saves.           *)
(*                                                                         *)
(* The argument: files are written in order, requests first, so that a file *)
(* of events, or a setting, comes after all that its save wrote before it, *)
(* as far as loads look for it (Reached, Layers).  A load reads the files  *)
(* in the opposite order, and what it has still to read only becomes newer: *)
(* it goes by the last completed save, then by the setting and the events  *)
(* it has read (Basis, LoaderAt).  The rest says how far the one save has  *)
(* come (SaverAt), and that a staging directory without its saver was left *)
(* by a crash or could not be removed (StagesInv).                         *)
(*                                                                         *)
(* LoaderAt, Layered, Fresh and Explained are operators of the store's     *)
(* values, so that what a step does to them follows from what it does to   *)
(* the store.                                                              *)
(***************************************************************************)
EXTENDS DatasetStore, FiniteSetTheorems, TLAPS

FileNames == 1 .. SettingFile

\* A file holds version v or a later one, or is being written.
Newer(fs, f, v) == fs[f] = Torn \/ fs[f] >= v

\* The files that save v wrote up to the file g, where loads read them, are of v
\* or newer.
Reached(fs, z, n, v, g) ==
  /\ v \in 1 .. Len(z)
  /\ \A f \in FileNames : f <= g /\ f \in (1 .. z[v]) \cup n[v] => Newer(fs, f, v)

\* What a load has to go by: the last completed save, then the setting and the
\* events that it read.
Basis(l) == {l.complete, l.setting, l.events} \ {Absent}

\* What a load l has read fits together, and what it has still to read.
LoaderAt(l, fs, z, n, c) ==
  /\ l.complete <= c
  /\ l.complete # Absent => Reached(fs, z, n, l.complete, SettingFile)
  /\ l.step # "layout" => fs[EventsFile] # Absent /\ fs[SettingFile] # Absent
  /\ l.step \in {"events", "list", "networks"} =>
        /\ Reached(fs, z, n, l.setting, SettingFile)
        /\ l.complete # Absent /\ SettingFile \in n[l.complete] => l.complete <= l.setting
  /\ l.step \in {"list", "networks"} =>
        /\ Reached(fs, z, n, l.events, EventsFile)
        /\ \A v \in {l.complete, l.setting} \ {Absent} : EventsFile \in n[v] => v <= l.events
  /\ l.step = "networks" =>
        /\ \A v \in Basis(l), f \in Requests : f <= z[v] =>
              f \in DOMAIN l.networks /\ (l.networks[f] = Absent \/ l.networks[f] >= v)
        /\ \A f \in DOMAIN l.networks : \E v \in 1 .. Len(z) : f <= z[v]

\* LoadIsLayered, of one dataset.
Layered(d, z, n) ==
  /\ d.setting \in 1 .. Len(z) /\ d.events \in 1 .. Len(z)
  /\ EventsFile \in n[d.setting] => d.setting <= d.events
  /\ \A i \in DOMAIN d.networks : d.events <= d.networks[i]
  /\ \A i \in 1 .. z[d.setting] : d.setting <= d.networks[i]
  /\ DOMAIN d.networks = 1 .. z[d.events]

\* PlainLoadsAreFresh, of one dataset that was loaded after save c.
Fresh(d, z, n, c) ==
  c > 0 => /\ c \in 1 .. Len(z)
           /\ SettingFile \in n[c] => d.setting >= c
           /\ EventsFile \in n[c] => d.events >= c
           /\ \A i \in 1 .. z[c] : d.networks[i] >= c

\* CompletedSaveLoads, of one load that threw.
Explained(a, z, n, dead, k, st) ==
  /\ a.latest <= Len(z)
  /\ (a.complete > 0 /\ a.complete = a.latest) =>
        \/ n[a.complete] # Named
        \/ \E v \in 1 .. a.complete : z[v] > z[a.complete]
        \/ \E v \in dead : v \in st \/ (k > 0 /\ v < a.complete)

\* What there is to say of what a load returned.
Fits(a, z, n, dead, k, st, dir) ==
  /\ a.kind = "dataset" => /\ Layered(a.data, z, n)
                           /\ dir # "seed_" => Fresh(a.data, z, n, a.complete)
  /\ a.kind = "throws" => Explained(a, z, n, dead, k, st)

-----------------------------------------------------------------------------
(* The inductive invariant.                                                 *)

OneSaver == \A p, q \in Processes : Saving(p) /\ Saving(q) => p = q

\* The files before the one a save has come to are of its version.
Written(s) ==
  \A f \in FileNames : f < s.file /\ f \in (1 .. s.count) \cup known[s.version] => files[f] = s.version

SaverAt(s) ==
  /\ s.version = Latest /\ completed < Latest
  /\ s.count <= sizes[s.version]
  /\ s.step \in {"stage", "serialize"} => s.count = sizes[s.version] /\ s.file = 1 /\ s.count > 0
  /\ s.step \in {"serialize", "unstage"} => s.version \in stages
  /\ s.step = "unstage" => \A f \in 1 .. s.count : files[f] = s.version
  /\ s.step \in {"open", "write"} =>
        /\ Written(s)
        /\ s.file \in Requests => s.file <= s.count
        /\ s.count < sizes[s.version] => s.version \in stages /\ s.file \in Requests
        /\ s.file \notin Requests => s.version \notin stages \/ s.version \in stuck

SaverInv == \A p \in Processes : Saving(p) => SaverAt(proc[p])

Layers == \A g \in Named : files[g] > 0 => Reached(files, sizes, known, files[g], g)

CompletedKept == completed > 0 => Reached(files, sizes, known, completed, SettingFile)

\* Nothing is overwritten while no save is going on.
CompletedFiles ==
  completed = Latest /\ Latest > 0 =>
     \A f \in FileNames : f \in (1 .. sizes[Latest]) \cup known[Latest] => files[f] = Latest

\* The file of a request was written by a save that had that many.
FilesBelong == \A f \in Requests : files[f] # Absent => \E v \in 1 .. Latest : f <= sizes[v]

StagesInv ==
  \A v \in stages : \/ \E p \in Processes : Saving(p) /\ proc[p].version = v
                    \/ v \in stuck
                    \/ crashes > 0 /\ v # completed

LoaderInv == \A p \in Processes : Loading(p) => LoaderAt(proc[p], files, sizes, known, completed)

CacheInv == \A p \in Processes : cache[p] # None => Layered(cache[p], sizes, known)

\* A process that has a seed_ directory in its cache does not read it.
CacheQuiet == directory = "seed_" => \A p \in Processes : Loading(p) => cache[p] = None

\* The staging directories that no save will remove.
Dead == {v \in stages : v <= completed}

AnswersInv == \A p \in Processes : Fits(answer[p], sizes, known, Dead, crashes, stuck, directory)

IInv ==
  /\ TypeOK
  /\ OneSaver /\ SaverInv
  /\ Layers /\ CompletedKept /\ CompletedFiles /\ FilesBelong /\ StagesInv
  /\ LoaderInv /\ CacheInv /\ CacheQuiet /\ AnswersInv

-----------------------------------------------------------------------------
(* Types.                                                                   *)

LEMMA Constants ==
  /\ MaxSize \in Nat /\ MaxSaves \in Nat
  /\ EventsFile = MaxSize + 1 /\ SettingFile = MaxSize + 2
  /\ EventsFile \in FileNames /\ SettingFile \in FileNames
  /\ Requests \subseteq FileNames
  /\ \A f \in FileNames : f \in Requests \/ f = EventsFile \/ f = SettingFile
  /\ EventsFile \notin Requests /\ SettingFile \notin Requests
  /\ Named \subseteq FileNames /\ EventsFile \in Named /\ SettingFile \in Named
  /\ \A b \in Bounds : b.saves \in 0 .. MaxSaves
BY StoreAssumption DEF EventsFile, SettingFile, Requests, Named, FileNames

LEMMA FoundFacts ==
  /\ NothingFound \in Found
  /\ \A n \in Found : /\ DOMAIN n \subseteq Requests
                      /\ \A i \in DOMAIN n : n[i] \in 0 .. MaxSaves
                      /\ \A i \in DOMAIN n, v \in 0 .. MaxSaves : [n EXCEPT ![i] = v] \in Found
  /\ \A D \in SUBSET Requests : [i \in D |-> Absent] \in Found
<1>1. \A D \in SUBSET Requests : [i \in D |-> Absent] \in Found
  <2>1. SUFFICES ASSUME NEW D \in SUBSET Requests
                 PROVE  [i \in D |-> Absent] \in [D -> 0 .. MaxSaves]
    BY DEF Found
  <2>2. QED
    BY Constants DEF Absent
<1>2. ASSUME NEW n \in Found
      PROVE  /\ DOMAIN n \subseteq Requests
             /\ \A i \in DOMAIN n : n[i] \in 0 .. MaxSaves
             /\ \A i \in DOMAIN n, v \in 0 .. MaxSaves : [n EXCEPT ![i] = v] \in Found
  <2>1. PICK D \in SUBSET Requests : n \in [D -> 0 .. MaxSaves]
    BY DEF Found
  <2>2. ASSUME NEW i \in DOMAIN n, NEW v \in 0 .. MaxSaves
        PROVE  [n EXCEPT ![i] = v] \in [D -> 0 .. MaxSaves]
    BY <2>1
  <2>3. QED
    BY <2>1, <2>2 DEF Found
<1>3. NothingFound \in Found
  <2>1. {} \in SUBSET Requests
    OBVIOUS
  <2>2. QED
    BY <1>1, <2>1 DEF NothingFound
<1>4. QED
  BY <1>1, <1>2, <1>3

LEMMA Doing ==
  ASSUME TypeOK, NEW p \in Processes
  PROVE  /\ Saving(p) => proc[p] \in SaveProc
         /\ Loading(p) => proc[p] \in LoadProc
         /\ proc[p] = Idle => ~Saving(p) /\ ~Loading(p)
         /\ ~(Saving(p) /\ Loading(p))
BY DEF TypeOK, Saving, Loading, Idle, SaveProc, LoadProc

LEMMA InitIInv == Init => IInv
<1> SUFFICES ASSUME Init PROVE IInv
  OBVIOUS
<1>1. TypeOK
  <2>1. Latest = 0 /\ Len(known) = 0 /\ sizes \in Seq(Requests) /\ known \in Seq(SUBSET Named)
    BY DEF Init, Latest
  <2>2. QED
    BY <2>1, Constants DEF Init, TypeOK, Torn, Absent, Idle, None, FileNames
<1>2. \A p \in Processes : ~Saving(p) /\ ~Loading(p) /\ cache[p] = None /\ answer[p].kind = "none"
  BY DEF Init, Saving, Loading, Idle, None
<1>3. OneSaver /\ SaverInv /\ LoaderInv /\ CacheInv /\ CacheQuiet /\ AnswersInv
  BY <1>2 DEF OneSaver, SaverInv, LoaderInv, CacheInv, CacheQuiet, AnswersInv, Fits
<1>4. Layers /\ CompletedKept /\ CompletedFiles /\ FilesBelong /\ StagesInv
  BY Constants DEF Init, Layers, CompletedKept, CompletedFiles, FilesBelong, StagesInv, Named,
     Absent, FileNames
<1>5. QED
  BY <1>1, <1>3, <1>4 DEF IInv

-----------------------------------------------------------------------------
(* The types are kept.                                                      *)

LEMMA TypeSave ==
  ASSUME TypeOK, SaverInv, NEW p \in Processes,
         \/ \E n \in Requests, names \in SUBSET Named, wide \in BOOLEAN : BeginSave(p, n, names, wide)
         \/ MakeStage(p) \/ Serialize(p) \/ Open(p) \/ Write(p) \/ Unstage(p) \/ SaveFails(p)
  PROVE  TypeOK'
<1>0. /\ Saving(p) => proc[p] \in SaveProc /\ SaverAt(proc[p])
      /\ Latest \in Nat
  BY Doing DEF SaverInv, TypeOK, Latest
<1>1. ASSUME NEW n \in Requests, NEW names \in SUBSET Named, NEW wide \in BOOLEAN, BeginSave(p, n, names, wide) PROVE TypeOK'
  <2>0. bound.saves \in 0 .. MaxSaves
    BY Constants DEF TypeOK
  <2>1. /\ Latest' = Latest + 1 /\ sizes' \in Seq(Requests) /\ Latest' <= MaxSaves
        /\ known' \in Seq(SUBSET Named) /\ Len(known') = Latest'
    BY <1>1, <2>0, Constants DEF BeginSave, TypeOK, Latest
  <2>2. /\ files' \in [1 .. SettingFile -> Torn .. Latest']
        /\ stages' \subseteq 1 .. Latest' /\ completed' \in 0 .. Latest'
    BY <2>1, <1>0, <1>1 DEF BeginSave, TypeOK, Torn
  <2>3. proc' \in [Processes -> {Idle} \cup SaveProc \cup LoadProc]
    <3>1. [op |-> "save", step |-> IF wide /\ n > 1 THEN "stage" ELSE "open",
           version |-> Latest + 1, file |-> 1, count |-> n] \in SaveProc
      BY <1>0, Constants DEF SaveProc, Requests
    <3>2. QED
      BY <3>1, <1>1 DEF BeginSave, TypeOK
  <2>4. QED
    BY <2>1, <2>2, <2>3, <1>1 DEF BeginSave, TypeOK, fixed, budget
<1>2. CASE MakeStage(p)
  <2>1. [proc[p] EXCEPT !.step = "serialize"] \in SaveProc
    BY <1>0, <1>2 DEF MakeStage, SaveProc
  <2>2. proc[p].version \in 1 .. Latest
    BY <1>0, <1>2 DEF MakeStage, SaverAt, SaveProc, TypeOK
  <2>3. QED
    BY <2>1, <2>2, <1>2 DEF MakeStage, TypeOK, Latest, fixed, saves, budget
<1>3. CASE Serialize(p)
  <2> DEFINE s == proc[p]
  <2>1. s \in SaveProc
    BY <1>0, <1>3 DEF Serialize
  <2>2. CASE proc' = [proc EXCEPT ![p].step = "open"] /\ UNCHANGED failures
    <3>1. [s EXCEPT !.step = "open"] \in SaveProc
      BY <2>1 DEF SaveProc
    <3>2. proc' \in [Processes -> {Idle} \cup SaveProc \cup LoadProc]
      BY <3>1, <2>2 DEF TypeOK
    <3>3. QED
      BY <3>2, <2>2, <1>3 DEF Serialize, TypeOK, Latest, fixed, saves
  <2>3. ASSUME NEW first \in 1 .. s.count, failures' = failures + 1,
               proc' = [proc EXCEPT ![p].step = IF first = 1 THEN "unstage" ELSE "open",
                                    ![p].count = first - 1]
        PROVE  TypeOK'
    <3>1. first - 1 \in 0 .. MaxSize
      BY <2>1, Constants DEF SaveProc
    <3>2. [s EXCEPT !.step = IF first = 1 THEN "unstage" ELSE "open", !.count = first - 1]
            \in SaveProc
      BY <2>1, <3>1 DEF SaveProc
    <3>3. proc' \in [Processes -> {Idle} \cup SaveProc \cup LoadProc]
      BY <3>2, <2>3 DEF TypeOK
    <3>4. UNCHANGED <<directory, bound, files, stages, stuck, sizes, known, completed, cache, answer, crashes, loads>>
      BY <1>3 DEF Serialize, fixed, saves
    <3>5. failures' \in Nat
      BY <2>3 DEF TypeOK
    <3>6. QED
      BY <3>3, <3>4, <3>5 DEF TypeOK, Latest
  <2>4. QED
    BY <2>2, <2>3, <1>3 DEF Serialize
<1>4. CASE Open(p)
  <2>1. [proc[p] EXCEPT !.step = "write"] \in SaveProc
    BY <1>0, <1>4 DEF Open, SaveProc
  <2>2. Torn \in Torn .. Latest
    BY <1>0 DEF Torn
  <2>3. QED
    BY <2>1, <2>2, <1>4 DEF Open, TypeOK, Latest, fixed, saves, budget
<1>5. CASE Write(p)
  <2> DEFINE s == proc[p]
             next == NextFile(s.file, s.count)
  <2>1. s \in SaveProc /\ s.version \in 1 .. Latest /\ s.version = Latest /\ s.step = "write"
    BY <1>0, <1>5 DEF Write, SaverAt, SaveProc, TypeOK
  <2>2. s.file # SettingFile => next \in 1 .. SettingFile
    BY <2>1, Constants DEF NextFile, SaveProc
  <2>3. /\ [s EXCEPT !.step = "unstage"] \in SaveProc
        /\ s.file # SettingFile => [s EXCEPT !.step = "open", !.file = next] \in SaveProc
    BY <2>1, <2>2 DEF SaveProc
  <2>4. proc' \in [Processes -> {Idle} \cup SaveProc \cup LoadProc]
    BY <2>3, <1>5 DEF Write, TypeOK
  <2>5. s.version \in Torn .. Latest
    BY <2>1, <1>0 DEF Torn
  <2>6. files' \in [1 .. SettingFile -> Torn .. Latest'] /\ completed' \in 0 .. Latest'
    <3>1. files' \in {files, [files EXCEPT ![s.file] = s.version]} /\ Latest' = Latest
      BY <1>5 DEF Write, saves, Latest
    <3>2. completed' \in {s.version, completed}
      BY <1>5 DEF Write
    <3>3. files' \in [1 .. SettingFile -> Torn .. Latest']
      BY <3>1, <2>5 DEF TypeOK
    <3>4. completed' \in 0 .. Latest'
      BY <3>1, <3>2, <2>1, <1>0 DEF TypeOK
    <3>5. QED
      BY <3>3, <3>4
  <2>7. QED
    BY <2>4, <2>6, <1>5 DEF Write, TypeOK, Latest, fixed, saves, budget
<1>6. CASE Unstage(p)
  <2>1. [proc[p] EXCEPT !.step = "open", !.file = EventsFile] \in SaveProc
    BY <1>0, <1>6, Constants DEF Unstage, SaveProc, FileNames
  <2>2. proc' \in [Processes -> {Idle} \cup SaveProc \cup LoadProc]
    BY <2>1, <1>6 DEF Unstage, TypeOK
  <2>3. stages' \subseteq 1 .. Latest /\ stuck' \subseteq stages'
    BY <1>6 DEF Unstage, RemoveStage, Removed, TypeOK
  <2>4. QED
    BY <2>2, <2>3, <1>6 DEF Unstage, TypeOK, Latest, fixed, saves, budget
<1>7. CASE SaveFails(p)
  <2>1. proc' \in [Processes -> {Idle} \cup SaveProc \cup LoadProc] /\ failures' \in Nat
    BY <1>7 DEF SaveFails, TypeOK
  <2>2. stages' \subseteq 1 .. Latest /\ stuck' \subseteq stages'
    BY <1>7 DEF SaveFails, RemoveStage, Removed, TypeOK
  <2>3. QED
    BY <2>1, <2>2, <1>7 DEF SaveFails, TypeOK, Latest, fixed, saves
<1>8. QED
  BY <1>1, <1>2, <1>3, <1>4, <1>5, <1>6, <1>7

\* What a load returns has its type.
LEMMA ReturnTypes ==
  ASSUME TypeOK, NEW l \in LoadProc
  PROVE  /\ Dataset(l.setting, l.events, l.networks) \in Datasets
         /\ [kind |-> "throws", complete |-> l.complete, latest |-> Latest] \in Returned
         /\ \A d \in Datasets, c \in Nat :
               [kind |-> "dataset", data |-> d, complete |-> c, latest |-> Latest] \in Returned
BY DEF TypeOK, LoadProc, Dataset, Datasets, Returned, Latest

LEMMA ThrowsType ==
  ASSUME TypeOK, NEW p \in Processes, Loading(p), Throws(p)
  PROVE  /\ proc' \in [Processes -> {Idle} \cup SaveProc \cup LoadProc]
         /\ answer' \in [Processes -> {None} \cup Returned]
<1>1. [kind |-> "throws", complete |-> proc[p].complete, latest |-> Latest] \in Returned
  BY Doing, ReturnTypes
<1>2. QED
  BY <1>1 DEF Throws, TypeOK

LEMMA TypeLoad ==
  ASSUME TypeOK, NEW p \in Processes,
         \/ CachedLoad(p) \/ BeginLoad(p) \/ CheckLayout(p) \/ ReadSetting(p) \/ ReadEvents(p)
         \/ ListNetworks(p) \/ ReadNetwork(p) \/ FinishLoad(p)
  PROVE  TypeOK'
<1> DEFINE Doings == [Processes -> {Idle} \cup SaveProc \cup LoadProc]
           Caches == [Processes -> {None} \cup Datasets]
           Returns == [Processes -> {None} \cup Returned]
           l == proc[p]
<1>0. Loading(p) => l \in LoadProc
  BY Doing
<1>1. ASSUME proc' \in Doings, cache' \in Caches, answer' \in Returns, loads' \in Nat,
             UNCHANGED <<fixed, files, stages, stuck, saves, completed, failures, crashes>>
      PROVE  TypeOK'
  BY <1>1 DEF TypeOK, Latest, fixed, saves
<1>2. CASE CachedLoad(p)
  <2>1. cache[p] \in Datasets /\ completed \in Nat
    BY <1>2 DEF CachedLoad, TypeOK
  <2>2. [kind |-> "dataset", data |-> cache[p], complete |-> completed, latest |-> Latest] \in Returned
    BY <2>1 DEF TypeOK, Returned, Latest
  <2>3. QED
    BY <2>2, <1>1, <1>2 DEF CachedLoad, TypeOK
<1>3. CASE BeginLoad(p)
  <2>1. [op |-> "load", step |-> "layout", complete |-> completed, setting |-> Absent,
         events |-> Absent, networks |-> NothingFound] \in LoadProc
    BY FoundFacts DEF LoadProc, TypeOK, Absent
  <2>2. proc' \in Doings
    BY <2>1, <1>3 DEF BeginLoad, TypeOK
  <2>3. QED
    BY <2>2, <1>1, <1>3 DEF BeginLoad, TypeOK
<1>4. ASSUME Loading(p), UNCHANGED <<fixed, files, stages, stuck, saves, completed, cache, budget>>,
             \/ Throws(p)
             \/ (\E m \in LoadProc : proc' = [proc EXCEPT ![p] = m]) /\ UNCHANGED answer
      PROVE  TypeOK'
  <2>1. proc' \in Doings /\ answer' \in Returns
    BY <1>4, ThrowsType DEF TypeOK
  <2>2. QED
    BY <2>1, <1>1, <1>4 DEF TypeOK, budget
<1>5. /\ \A f \in FileNames : files[f] # Torn => files[f] \in 0 .. MaxSaves
      /\ \A v \in 0 .. MaxSaves : v \in Nat
  <2>1. Latest \in Nat /\ Latest <= MaxSaves /\ MaxSaves \in Nat
    BY Constants DEF TypeOK, Latest
  <2>2. \A f \in FileNames : files[f] \in Torn .. Latest
    BY DEF TypeOK, FileNames
  <2>3. QED
    BY <2>1, <2>2 DEF Torn
<1>6. CASE CheckLayout(p)
  <2>1. [l EXCEPT !.step = "setting"] \in LoadProc
    BY <1>0, <1>6 DEF CheckLayout, LoadProc
  <2>2. QED
    BY <2>1, <1>4, <1>6 DEF CheckLayout
<1>7. CASE ReadSetting(p)
  <2>0. l \in LoadProc /\ files[SettingFile] # Torn => files[SettingFile] \in Nat
    BY <1>0, <1>5, <1>7, Constants DEF ReadSetting
  <2>1. files[SettingFile] # Torn => [l EXCEPT !.step = "events", !.setting = files[SettingFile]] \in LoadProc
    BY <2>0, <1>0, <1>7 DEF ReadSetting, LoadProc
  <2>2. QED
    BY <2>1, <1>4, <1>7 DEF ReadSetting
<1>8. CASE ReadEvents(p)
  <2>0. l \in LoadProc /\ files[EventsFile] # Torn => files[EventsFile] \in Nat
    BY <1>0, <1>5, <1>8, Constants DEF ReadEvents
  <2>1. files[EventsFile] # Torn => [l EXCEPT !.step = "list", !.events = files[EventsFile]] \in LoadProc
    BY <2>0, <1>0, <1>8 DEF ReadEvents, LoadProc
  <2>2. QED
    BY <2>1, <1>4, <1>8 DEF ReadEvents
<1>9. CASE ListNetworks(p)
  <2>1. [l EXCEPT !.step = "networks",
                  !.networks = [i \in {j \in Requests : files[j] # Absent} |-> Absent]] \in LoadProc
    BY <1>0, <1>9, FoundFacts DEF ListNetworks, LoadProc
  <2>2. QED
    BY <2>1, <1>4, <1>9 DEF ListNetworks
<1>10. CASE ReadNetwork(p)
  <2>1. PICK i \in DOMAIN l.networks :
               IF files[i] = Torn THEN Throws(p)
               ELSE proc' = [proc EXCEPT ![p].networks[i] = files[i]] /\ UNCHANGED answer
    BY <1>10 DEF ReadNetwork
  <2>2. l \in LoadProc /\ l.networks \in Found
    BY <1>0, <1>10 DEF ReadNetwork, LoadProc
  <2>3. i \in FileNames
    BY <2>2, FoundFacts, Constants
  <2>4. files[i] # Torn => [l.networks EXCEPT ![i] = files[i]] \in Found
    BY <2>2, <2>3, <1>5, FoundFacts
  <2>5. files[i] # Torn => [l EXCEPT !.networks[i] = files[i]] \in LoadProc
    BY <2>2, <2>4 DEF LoadProc
  <2>6. QED
    BY <2>1, <2>5, <1>4, <1>10 DEF ReadNetwork, TypeOK
<1>11. CASE FinishLoad(p)
  <2>1. CASE CountMatches(l)
    <3>1. l \in LoadProc
      BY <1>0, <1>11 DEF FinishLoad
    <3>2. /\ cache' = [cache EXCEPT ![p] = Dataset(l.setting, l.events, l.networks)]
          /\ answer' = [answer EXCEPT ![p] =
                          [kind |-> "dataset", data |-> Dataset(l.setting, l.events, l.networks),
                           complete |-> l.complete, latest |-> Latest]]
          /\ proc' = [proc EXCEPT ![p] = Idle]
          /\ UNCHANGED <<fixed, files, stages, stuck, saves, completed, budget>>
      BY <2>1, <1>11 DEF FinishLoad
    <3>3. l.complete \in Nat
      BY <3>1 DEF LoadProc
    <3>4. proc' \in Doings /\ cache' \in Caches /\ answer' \in Returns
      BY <3>1, <3>2, <3>3, ReturnTypes DEF TypeOK
    <3>5. QED
      BY <3>2, <3>4, <1>1 DEF budget, TypeOK
  <2>2. CASE ~CountMatches(l)
    BY <2>2, <1>4, <1>11 DEF FinishLoad
  <2>3. QED
    BY <2>1, <2>2
<1>12. QED
  BY <1>2, <1>3, <1>6, <1>7, <1>8, <1>9, <1>10, <1>11

LEMMA TypeStep == TypeOK /\ SaverInv /\ [Next]_vars => TypeOK'
<1>1. SUFFICES ASSUME TypeOK, SaverInv, [Next]_vars PROVE TypeOK'
  OBVIOUS
<1>2. CASE UNCHANGED vars
  BY <1>1, <1>2 DEF vars, fixed, saves, budget, TypeOK, Latest
<1>3. ASSUME NEW p \in Processes, Crash(p) PROVE TypeOK'
  BY <1>1, <1>3 DEF Crash, TypeOK, Latest, fixed, saves
<1>4. QED
  BY <1>1, <1>2, <1>3, TypeSave, TypeLoad DEF Next

-----------------------------------------------------------------------------
(* How the store grows: what was read of it, or returned, stays explained.  *)

LEMMA Values ==
  ASSUME TypeOK
  PROVE  /\ Latest \in Nat /\ completed \in Nat /\ completed <= Latest
         /\ \A f \in FileNames : files[f] \in Int /\ files[f] >= Torn /\ files[f] <= Latest
         /\ \A v \in 1 .. Latest : sizes[v] \in Requests /\ known[v] \subseteq Named
<1>1. Latest \in Nat /\ completed \in Nat /\ completed <= Latest
  BY DEF TypeOK, Latest
<1>2. \A f \in FileNames : files[f] \in Torn .. Latest
  BY DEF TypeOK, FileNames
<1>3. \A v \in 1 .. Latest : sizes[v] \in Requests /\ known[v] \subseteq Named
  BY DEF TypeOK, Latest
<1>4. QED
  BY <1>1, <1>2, <1>3 DEF Torn

Grows ==
  /\ Latest <= Latest' /\ completed <= completed' /\ crashes <= crashes'
  /\ \A v \in 1 .. Latest : sizes'[v] = sizes[v] /\ known'[v] = known[v]
  /\ Dead \subseteq Dead' /\ stuck \subseteq stuck'
  /\ \A f \in FileNames : \/ files'[f] = files[f]
                          \/ files'[f] = Torn
                          \/ files'[f] = Latest /\ Latest > 0
  /\ directory' = directory

LEMMA StoreGrows == IInv /\ [Next]_vars => Grows
<1> SUFFICES ASSUME IInv, [Next]_vars PROVE Grows
  OBVIOUS
<1> USE DEF Grows
<1>0. TypeOK /\ SaverInv /\ Latest \in Nat /\ completed \in Nat /\ completed <= Latest
  BY Values DEF IInv
<1>1. ASSUME UNCHANGED <<directory, files, stages, stuck, sizes, known, completed>>, crashes' = crashes \/ crashes' = crashes + 1
      PROVE  Grows
  BY <1>0, <1>1 DEF Dead, Latest, TypeOK
<1> USE DEF fixed, saves
<1>2. ASSUME NEW p \in Processes, Saving(p)
      PROVE  proc[p] \in SaveProc /\ SaverAt(proc[p])
  BY <1>0, <1>2, Doing DEF SaverInv
<1>3. ASSUME NEW p \in Processes, NEW n \in Requests, NEW names \in SUBSET Named, NEW wide \in BOOLEAN, BeginSave(p, n, names, wide)
      PROVE  Grows
  <2>1. Latest' = Latest + 1 /\ \A v \in 1 .. Latest : sizes'[v] = sizes[v] /\ known'[v] = known[v]
    BY <1>0, <1>3 DEF BeginSave, TypeOK, Latest
  <2>2. UNCHANGED <<directory, files, stages, stuck, completed, crashes>>
    BY <1>3 DEF BeginSave, budget
  <2>3. Dead' = Dead
    BY <2>2 DEF Dead
  <2>4. QED
    BY <2>1, <2>2, <2>3, <1>0 DEF TypeOK
<1>4. ASSUME NEW p \in Processes, MakeStage(p) PROVE Grows
  BY <1>0, <1>4 DEF MakeStage, Dead, budget, TypeOK, Latest
<1>5. ASSUME NEW p \in Processes, Serialize(p) PROVE Grows
  BY <1>1, <1>5 DEF Serialize
<1>6. ASSUME NEW p \in Processes, Open(p) PROVE Grows
  <2>1. \A f \in FileNames : files'[f] = files[f] \/ files'[f] = Torn
    BY <1>0, <1>6 DEF Open, TypeOK, FileNames
  <2>2. QED
    BY <2>1, <1>0, <1>6 DEF Open, Dead, budget, TypeOK, Latest
<1>7. ASSUME NEW p \in Processes, Write(p) PROVE Grows
  <2>1. Saving(p) /\ proc[p].version = Latest /\ Latest > 0 /\ completed < Latest
    BY <1>0, <1>2, <1>7 DEF Write, SaverAt
  <2>2. \A f \in FileNames : files'[f] = files[f] \/ files'[f] = Latest
    BY <2>1, <1>0, <1>7 DEF Write, TypeOK, FileNames
  <2>3. /\ completed' \in {completed, Latest}
        /\ UNCHANGED <<stages, stuck, sizes, known, crashes, directory>>
    BY <2>1, <1>7 DEF Write, budget
  <2>4. completed <= completed'
    BY <2>1, <2>3, <1>0
  <2>5. Dead \subseteq Dead'
    <3>1. SUFFICES ASSUME NEW v \in Dead PROVE v \in Dead'
      OBVIOUS
    <3>2. v \in stages /\ v \in Nat /\ v <= completed /\ v \in stages'
      BY <3>1, <2>3, <1>0 DEF Dead, TypeOK
    <3>3. completed' \in Nat
      BY <2>3, <1>0
    <3>4. QED
      BY <3>2, <3>3, <2>4, <1>0 DEF Dead
  <2>6. QED
    BY <2>1, <2>2, <2>3, <2>4, <2>5, <1>0 DEF Latest, TypeOK
<1>8. ASSUME NEW p \in Processes, Unstage(p) \/ SaveFails(p) PROVE Grows
  <2>1. Saving(p) /\ proc[p].version = Latest /\ completed < Latest
    BY <1>2, <1>8 DEF Unstage, SaveFails, SaverAt
  <2>2. /\ stages \ {Latest} \subseteq stages' /\ stuck \subseteq stuck'
        /\ UNCHANGED <<directory, files, sizes, known, completed, crashes>>
    BY <2>1, <1>8 DEF Unstage, SaveFails, RemoveStage, Removed, budget
  <2>3. Dead \subseteq Dead'
    BY <2>1, <2>2, <1>0 DEF Dead
  <2>4. QED
    BY <2>2, <2>3, <1>0 DEF TypeOK, Latest
<1>9. ASSUME NEW p \in Processes,
             \/ CachedLoad(p) \/ BeginLoad(p) \/ CheckLayout(p) \/ ReadSetting(p) \/ ReadEvents(p)
             \/ ListNetworks(p) \/ ReadNetwork(p) \/ FinishLoad(p) \/ Crash(p)
      PROVE  Grows
  BY <1>1, <1>9 DEF CachedLoad, BeginLoad, CheckLayout, ReadSetting, ReadEvents, ListNetworks,
     ReadNetwork, FinishLoad, Crash, budget
<1>10. CASE UNCHANGED vars
  BY <1>1, <1>10 DEF vars, budget
<1>11. QED
  BY <1>3, <1>4, <1>5, <1>6, <1>7, <1>8, <1>9, <1>10 DEF Next

LEMMA NewerKept ==
  ASSUME TypeOK, TypeOK', Grows, NEW f \in FileNames, NEW v \in 1 .. Latest, Newer(files, f, v)
  PROVE  Newer(files', f, v)
<1>1. files'[f] = files[f] \/ files'[f] = Torn \/ files'[f] = Latest
  BY DEF Grows
<1>2. QED
  BY <1>1, Values DEF Newer

LEMMA ReachedKept ==
  ASSUME TypeOK, TypeOK', Grows, NEW v, NEW g, Reached(files, sizes, known, v, g)
  PROVE  Reached(files', sizes', known', v, g)
<1>1. v \in 1 .. Latest
  BY DEF Reached, Latest
<1>2. v \in 1 .. Len(sizes') /\ sizes'[v] = sizes[v] /\ known'[v] = known[v]
  BY <1>1, Values DEF Grows, TypeOK, Latest
<1>3. QED
  BY <1>1, <1>2, NewerKept DEF Reached

LEMMA LoaderKept ==
  ASSUME TypeOK, TypeOK', Grows, NEW l \in LoadProc, LoaderAt(l, files, sizes, known, completed)
  PROVE  LoaderAt(l, files', sizes', known', completed')
<1>0. /\ Latest \in Nat /\ Latest' \in Nat /\ Latest <= Latest'
      /\ completed \in Nat /\ completed' \in Nat /\ completed <= completed'
      /\ l.complete \in Nat
  BY Values DEF TypeOK, Latest, Grows, LoadProc
<1>1. /\ l.complete <= completed'
      /\ l.complete # Absent => /\ l.complete \in 1 .. Latest
                                /\ Reached(files', sizes', known', l.complete, SettingFile)
  BY <1>0, ReachedKept DEF LoaderAt, Reached, Latest
<1>2. \A f \in FileNames : files[f] # Absent => files'[f] # Absent
  BY <1>0 DEF Grows, Torn, Absent
<1>3. l.step # "layout" => files'[EventsFile] # Absent /\ files'[SettingFile] # Absent
  BY <1>2, Constants DEF LoaderAt
<1>4. \A v \in 1 .. Latest : /\ v \in 1 .. Len(sizes')
                             /\ sizes'[v] = sizes[v] /\ known'[v] = known[v]
  BY <1>0 DEF Grows, Latest
<1>5. ASSUME l.step \in {"events", "list", "networks"}
      PROVE  /\ l.setting \in 1 .. Latest
             /\ Reached(files', sizes', known', l.setting, SettingFile)
             /\ l.complete # Absent /\ SettingFile \in known'[l.complete] => l.complete <= l.setting
  <2>1. Reached(files, sizes, known, l.setting, SettingFile)
    BY <1>5 DEF LoaderAt
  <2>2. QED
    BY <2>1, <1>1, <1>4, <1>5, ReachedKept DEF LoaderAt, Reached, Latest
<1>6. ASSUME l.step \in {"list", "networks"}
      PROVE  /\ l.events \in 1 .. Latest
             /\ Reached(files', sizes', known', l.events, EventsFile)
             /\ \A v \in {l.complete, l.setting} \ {Absent} :
                   EventsFile \in known'[v] => v <= l.events
  <2>1. Reached(files, sizes, known, l.events, EventsFile)
    BY <1>6 DEF LoaderAt
  <2>2. QED
    BY <2>1, <1>1, <1>4, <1>5, <1>6, ReachedKept DEF LoaderAt, Reached, Latest
<1>7. ASSUME l.step = "networks"
      PROVE  /\ \A v \in Basis(l), f \in Requests : f <= sizes'[v] =>
                   f \in DOMAIN l.networks /\ (l.networks[f] = Absent \/ l.networks[f] >= v)
             /\ \A f \in DOMAIN l.networks : \E v \in 1 .. Len(sizes') : f <= sizes'[v]
  <2>1. \A v \in Basis(l) : sizes'[v] = sizes[v]
    BY <1>1, <1>4, <1>5, <1>6, <1>7 DEF Basis
  <2>2. \A f \in DOMAIN l.networks : \E v \in 1 .. Len(sizes') : f <= sizes'[v]
    BY <1>4, <1>7 DEF LoaderAt, Latest
  <2>3. QED
    BY <2>1, <2>2, <1>7 DEF LoaderAt
<1>8. QED
  BY <1>1, <1>3, <1>5, <1>6, <1>7 DEF LoaderAt

LEMMA LayeredKept ==
  ASSUME TypeOK, TypeOK', Grows, NEW d, Layered(d, sizes, known)
  PROVE  Layered(d, sizes', known')
BY Values DEF Layered, Grows, TypeOK, Latest

LEMMA FreshKept ==
  ASSUME TypeOK, TypeOK', Grows, NEW d, NEW c, Fresh(d, sizes, known, c)
  PROVE  Fresh(d, sizes', known', c)
BY Values DEF Fresh, Grows, TypeOK, Latest

LEMMA ExplainedKept ==
  ASSUME TypeOK, TypeOK', Grows, NEW a, a.latest \in Nat, a.complete \in Nat,
         Explained(a, sizes, known, Dead, crashes, stuck)
  PROVE  Explained(a, sizes', known', Dead', crashes', stuck')
<1>0. Latest \in Nat /\ Latest' \in Nat /\ Latest <= Latest' /\ a.latest <= Latest
  BY Values DEF TypeOK, Latest, Grows, Explained
<1>1. a.latest <= Len(sizes')
  BY <1>0 DEF Latest
<1>2. ASSUME a.complete > 0, a.complete = a.latest
      PROVE  \/ known'[a.complete] # Named
             \/ \E v \in 1 .. a.complete : sizes'[v] > sizes'[a.complete]
             \/ \E v \in Dead' : v \in stuck' \/ (crashes' > 0 /\ v < a.complete)
  <2>1. a.complete \in 1 .. Latest /\ 1 .. a.complete \subseteq 1 .. Latest
    BY <1>0, <1>2
  <2>2. CASE known[a.complete] # Named
    BY <2>1, <2>2 DEF Grows
  <2>3. CASE \E v \in 1 .. a.complete : sizes[v] > sizes[a.complete]
    <3>1. PICK v \in 1 .. a.complete : sizes[v] > sizes[a.complete]
      BY <2>3
    <3>2. sizes'[v] > sizes'[a.complete]
      BY <3>1, <2>1 DEF Grows
    <3>3. QED
      BY <3>2
  <2>4. CASE \E v \in Dead : v \in stuck \/ (crashes > 0 /\ v < a.complete)
    BY <2>4 DEF Grows, TypeOK
  <2>5. QED
    BY <2>2, <2>3, <2>4, <1>2 DEF Explained
<1>3. QED
  BY <1>1, <1>2 DEF Explained

-----------------------------------------------------------------------------
(* The steps of a save.                                                     *)

SaveInv ==
  /\ OneSaver /\ SaverInv
  /\ Layers /\ CompletedKept /\ CompletedFiles /\ FilesBelong /\ StagesInv

\* What the steps of a save have in common.
SaveContext(p) ==
  /\ TypeOK /\ TypeOK' /\ SaveInv /\ Grows
  /\ Latest \in Nat /\ completed \in Nat /\ completed < Latest /\ Latest > 0
  /\ Saving(p) /\ proc[p] \in SaveProc /\ SaverAt(proc[p])
  /\ \A q \in Processes : q # p => ~Saving(q)

LEMMA InSave ==
  ASSUME IInv, TypeOK', Grows, NEW p \in Processes, Saving(p)
  PROVE  SaveContext(p)
<1>1. /\ TypeOK /\ Latest \in Nat /\ completed \in Nat
      /\ proc[p] \in SaveProc /\ SaverAt(proc[p]) /\ completed < Latest
  BY Values, Doing DEF IInv, SaverInv, SaverAt
<1>2. \A q \in Processes : q # p => ~Saving(q)
  BY DEF IInv, OneSaver
<1>3. QED
  BY <1>1, <1>2 DEF IInv, SaveInv, SaveContext

\* The process that saves is the only one to look at.
LEMMA SaversNow ==
  ASSUME NEW p \in Processes, SaveContext(p),
         \A q \in Processes : q # p => proc'[q] = proc[q],
         Saving(p)' => SaverAt(proc[p])'
  PROVE  OneSaver' /\ SaverInv' /\ \A q \in Processes : Saving(q)' => q = p
<1>1. \A q \in Processes : Saving(q)' => q = p
  BY DEF SaveContext, Saving
<1>2. QED
  BY <1>1 DEF OneSaver, SaverInv

LEMMA FilesBelongKept ==
  ASSUME TypeOK, TypeOK', Grows, FilesBelong,
         \A f \in Requests : files'[f] # files[f] => \E v \in 1 .. Latest : f <= sizes[v]
  PROVE  FilesBelong'
<1>1. SUFFICES ASSUME NEW f \in Requests, files'[f] # Absent
               PROVE  \E v \in 1 .. Latest' : f <= sizes'[v]
  BY DEF FilesBelong
<1>2. PICK v \in 1 .. Latest : f <= sizes[v]
  BY <1>1 DEF FilesBelong
<1>3. v \in 1 .. Latest' /\ sizes'[v] = sizes[v]
  BY <1>2, Values DEF Grows, TypeOK, Latest
<1>4. QED
  BY <1>2, <1>3

\* What is in the files of the events and of the setting stays explained, and
\* so does the last completed save.
LEMMA LayersKept ==
  ASSUME TypeOK, TypeOK', Grows, Layers,
         \A g \in Named : files'[g] # files[g] /\ files'[g] > 0
                             => Reached(files', sizes', known', files'[g], g)
  PROVE  Layers'
<1>1. SUFFICES ASSUME NEW g \in Named, files'[g] > 0
               PROVE  Reached(files', sizes', known', files'[g], g)
  BY DEF Layers
<1>2. CASE files'[g] = files[g]
  <2>1. Reached(files, sizes, known, files[g], g)
    BY <1>1, <1>2 DEF Layers
  <2>2. QED
    BY <2>1, <1>2, ReachedKept
<1>3. QED
  BY <1>1, <1>2

LEMMA CompletedStays ==
  ASSUME TypeOK, TypeOK', Grows, CompletedKept,
         completed' # completed => Reached(files', sizes', known', completed', SettingFile)
  PROVE  CompletedKept'
BY ReachedKept DEF CompletedKept

LEMMA BeginSaveKeeps ==
  ASSUME IInv, TypeOK', Grows, NEW p \in Processes, NEW n \in Requests,
         NEW names \in SUBSET Named, NEW wide \in BOOLEAN, BeginSave(p, n, names, wide)
  PROVE  SaveInv'
<1> DEFINE s == [op |-> "save", step |-> IF wide /\ n > 1 THEN "stage" ELSE "open",
                 version |-> Latest + 1, file |-> 1, count |-> n]
<1>0. TypeOK /\ SaveInv /\ Latest \in Nat /\ completed \in Nat /\ completed <= Latest
  BY Values DEF IInv, SaveInv
<1>1. /\ Latest' = Latest + 1 /\ sizes'[Latest + 1] = n
      /\ \A v \in 1 .. Latest : sizes'[v] = sizes[v]
      /\ proc'[p] = s /\ \A q \in Processes : q # p => proc'[q] = proc[q]
      /\ UNCHANGED <<files, stages, stuck, completed, crashes>>
      /\ \A q \in Processes : ~Saving(q)
  BY <1>0 DEF BeginSave, TypeOK, Latest, budget
<1>2. n \in Nat /\ n > 0 /\ 1 \in Requests
  BY Constants DEF Requests
<1>3. SaverAt(proc[p])'
  <2>1. /\ proc'[p].version = Latest' /\ completed' < Latest'
        /\ proc'[p].count = sizes'[proc'[p].version] /\ proc'[p].count > 0
        /\ proc'[p].count \in Nat
        /\ proc'[p].file = 1 /\ proc'[p].step \in {"stage", "open"}
    BY <1>0, <1>1, <1>2
  <2>2. Written(proc[p])'
    BY <2>1 DEF Written, FileNames
  <2>3. QED
    BY <2>1, <2>2, <1>2 DEF SaverAt
<1>4. OneSaver' /\ SaverInv'
  <2>1. \A q \in Processes : Saving(q)' => q = p
    BY <1>1 DEF Saving
  <2>2. QED
    BY <2>1, <1>3 DEF OneSaver, SaverInv
<1>5. Layers' /\ CompletedKept'
  BY <1>0, <1>1, LayersKept, CompletedStays DEF SaveInv
<1>6. CompletedFiles'
  BY <1>0, <1>1 DEF CompletedFiles
<1>7. FilesBelong'
  BY <1>0, <1>1, FilesBelongKept DEF SaveInv
<1>8. StagesInv'
  BY <1>0, <1>1 DEF SaveInv, StagesInv
<1>9. QED
  BY <1>4, <1>5, <1>6, <1>7, <1>8 DEF SaveInv

LEMMA StagingKeeps ==
  ASSUME IInv, TypeOK', Grows, NEW p \in Processes, MakeStage(p) \/ Serialize(p)
  PROVE  SaveInv'
<1> DEFINE s == proc[p]
<1>0. SaveContext(p)
  BY InSave DEF MakeStage, Serialize
<1>1. /\ TypeOK /\ SaveInv /\ s \in SaveProc /\ SaverAt(s) /\ Saving(p)
      /\ s.file = 1 /\ s.count = sizes[s.version] /\ s.count > 0 /\ s.version = Latest
      /\ s.count \in Nat /\ Latest \in Nat
  BY <1>0 DEF SaveContext, MakeStage, Serialize, SaverAt, SaveProc
<1>2. /\ UNCHANGED <<files, stuck, sizes, known, completed, crashes>>
      /\ \A q \in Processes : q # p => proc'[q] = proc[q]
      /\ proc'[p].op = "save" /\ proc'[p].version = s.version /\ proc'[p].file = 1
      /\ stages' = stages \/ stages' = stages \cup {s.version}
      /\ Latest' = Latest
  <2>1. /\ UNCHANGED <<files, stuck, sizes, known, completed, crashes>> /\ Latest' = Latest
        /\ stages' = stages \/ stages' = stages \cup {s.version}
    BY DEF MakeStage, Serialize, saves, budget, Latest
  <2>2. /\ \A q \in Processes : q # p => proc'[q] = proc[q]
        /\ proc'[p].op = s.op /\ proc'[p].version = s.version /\ proc'[p].file = s.file
    <3>1. proc \in [Processes -> {Idle} \cup SaveProc \cup LoadProc]
      BY <1>1 DEF TypeOK
    <3>2. CASE MakeStage(p)
      BY <3>1, <3>2, <1>1 DEF MakeStage, SaveProc
    <3>3. CASE proc' = [proc EXCEPT ![p].step = "open"]
      BY <3>1, <3>3, <1>1 DEF SaveProc
    <3>4. ASSUME NEW first \in 1 .. s.count,
                 proc' = [proc EXCEPT ![p].step = IF first = 1 THEN "unstage" ELSE "open",
                                      ![p].count = first - 1]
          PROVE  /\ \A q \in Processes : q # p => proc'[q] = proc[q]
                 /\ proc'[p].op = s.op /\ proc'[p].version = s.version /\ proc'[p].file = s.file
      BY <3>1, <3>4, <1>1 DEF SaveProc
    <3>5. QED
      BY <3>2, <3>3, <3>4 DEF Serialize
  <2>3. QED
    BY <2>1, <2>2, <1>1 DEF Saving
<1>3. s.version \in stages'
  BY <1>1, <1>2 DEF MakeStage, Serialize, SaverAt
<1>4. \/ proc'[p].step = "serialize" /\ proc'[p].count = s.count
      \/ proc'[p].step = "open" /\ proc'[p].count \in 1 .. s.count
      \/ proc'[p].step = "unstage" /\ proc'[p].count = 0
  <2>1. CASE MakeStage(p)
    BY <2>1, <1>1 DEF MakeStage, TypeOK, SaveProc
  <2>2. CASE Serialize(p) /\ proc' = [proc EXCEPT ![p].step = "open"]
    BY <2>2, <1>1 DEF TypeOK, SaveProc
  <2>3. CASE Serialize(p) /\ proc' # [proc EXCEPT ![p].step = "open"]
    <3>1. PICK first \in 1 .. s.count :
            proc' = [proc EXCEPT ![p].step = IF first = 1 THEN "unstage" ELSE "open",
                                 ![p].count = first - 1]
      BY <2>3 DEF Serialize
    <3>2. /\ proc'[p].step = IF first = 1 THEN "unstage" ELSE "open"
          /\ proc'[p].count = first - 1
      BY <3>1, <1>1 DEF TypeOK, SaveProc
    <3>3. first = 1 \/ first - 1 \in 1 .. s.count
      BY <1>1
    <3>4. QED
      BY <3>2, <3>3
  <2>4. QED
    BY <2>1, <2>2, <2>3
<1>5. SaverAt(proc[p])'
  <2>1. /\ proc'[p].version = Latest' /\ completed' < Latest'
        /\ proc'[p].count <= sizes'[proc'[p].version]
    BY <1>0, <1>1, <1>2, <1>4 DEF SaveContext
  <2>2. Written(proc[p])'
    BY <1>2 DEF Written, FileNames
  <2>3. \A f \in 1 .. 0 : FALSE
    OBVIOUS
  <2>4. 1 \in Requests
    <3>1. sizes[Latest] \in Requests
      BY <1>1, Values, <1>0 DEF SaveContext
    <3>2. QED
      BY <3>1, Constants DEF Requests
  <2>5. proc'[p].version \in stages' /\ proc'[p].file = 1
    BY <1>2, <1>3
  <2>6. CASE proc'[p].step = "serialize" /\ proc'[p].count = s.count
    BY <2>1, <2>5, <2>6, <1>1, <1>2 DEF SaverAt
  <2>7. CASE proc'[p].step = "open" /\ proc'[p].count \in 1 .. s.count
    BY <2>1, <2>2, <2>4, <2>5, <2>7, <1>1 DEF SaverAt
  <2>8. CASE proc'[p].step = "unstage" /\ proc'[p].count = 0
    BY <2>1, <2>3, <2>5, <2>8 DEF SaverAt
  <2>9. QED
    BY <2>6, <2>7, <2>8, <1>4
<1>6. OneSaver' /\ SaverInv'
  BY <1>0, <1>2, <1>5, SaversNow
<1>7. Layers' /\ CompletedKept' /\ CompletedFiles' /\ FilesBelong'
  BY <1>1, <1>2 DEF SaveInv, Layers, CompletedKept, CompletedFiles, FilesBelong
<1>8. StagesInv'
  <2>1. SUFFICES ASSUME NEW v \in stages', v # s.version
                 PROVE  v \in stuck' \/ (crashes' > 0 /\ v # completed')
    BY <1>2 DEF StagesInv, Saving
  <2>2. v \in stages /\ ~(\E q \in Processes : Saving(q) /\ proc[q].version = v)
    BY <2>1, <1>2, <1>0 DEF SaveContext
  <2>3. QED
    BY <2>2, <1>1, <1>2 DEF SaveInv, StagesInv
<1>9. QED
  BY <1>6, <1>7, <1>8 DEF SaveInv

\* The file a save is at, and what it has still to commit.
LEMMA AtFile ==
  ASSUME NEW p \in Processes, SaveContext(p), proc[p].step \in {"open", "write"}
  PROVE  /\ proc[p].file \in FileNames /\ proc[p].version = Latest
         /\ Written(proc[p]) /\ sizes[Latest] \in Requests
         /\ proc[p].count \in 0 .. sizes[Latest]
         /\ proc[p].file \in Requests => proc[p].file <= proc[p].count
         /\ proc[p].count < sizes[Latest] => Latest \in stages /\ proc[p].file \in Requests
         /\ proc[p].file \notin Requests => Latest \notin stages \/ Latest \in stuck
<1>1. sizes[Latest] \in Requests
  BY Values DEF SaveContext
<1>2. QED
  BY <1>1 DEF SaveContext, SaverAt, SaveProc, FileNames

LEMMA OpenKeeps ==
  ASSUME IInv, TypeOK', Grows, NEW p \in Processes, Open(p)
  PROVE  SaveInv'
<1> DEFINE s == proc[p]
<1>0. SaveContext(p) /\ s.step = "open"
  BY InSave DEF Open
<1>1. /\ TypeOK /\ SaveInv /\ Saving(p) /\ s \in SaveProc
      /\ Latest \in Nat /\ completed < Latest /\ completed \in Nat
  BY <1>0 DEF SaveContext
<1>2. /\ s.file \in FileNames
      /\ \A f \in FileNames : files'[f] = files[f] \/ (f = s.file /\ files'[f] = Torn)
      /\ UNCHANGED <<stages, stuck, sizes, known, completed, crashes>> /\ Latest' = Latest
      /\ \A q \in Processes : q # p => proc'[q] = proc[q]
      /\ proc'[p] = [s EXCEPT !.step = "write"]
  BY <1>0, <1>1, AtFile DEF Open, TypeOK, FileNames, Latest, saves, budget
<1>3. /\ proc'[p].op = s.op /\ proc'[p].step = "write" /\ proc'[p].version = s.version
      /\ proc'[p].file = s.file /\ proc'[p].count = s.count
  BY <1>1, <1>2 DEF SaveProc
<1>4. Written(proc[p])'
  <2>1. ASSUME NEW f \in FileNames, f < s.file PROVE files'[f] = files[f]
    BY <2>1, <1>2 DEF FileNames
  <2>2. QED
    BY <2>1, <1>0, <1>2, <1>3, AtFile DEF Written
<1>5. SaverAt(proc[p])'
  BY <1>0, <1>1, <1>2, <1>3, <1>4, AtFile DEF SaverAt
<1>6. OneSaver' /\ SaverInv'
  BY <1>0, <1>2, <1>5, SaversNow
<1>7. \A g \in Named : ~(files'[g] # files[g] /\ files'[g] > 0)
  BY <1>2, Constants DEF Torn
<1>8. Layers' /\ CompletedKept'
  BY <1>0, <1>2, <1>7, LayersKept, CompletedStays DEF SaveContext, SaveInv
<1>9. CompletedFiles'
  BY <1>1, <1>2 DEF CompletedFiles
<1>10. FilesBelong'
  <2>1. \A f \in Requests : files'[f] # files[f] => f <= sizes[Latest]
    BY <1>0, <1>2, AtFile, Constants DEF Requests
  <2>2. Latest \in 1 .. Latest
    BY <1>0 DEF SaveContext
  <2>3. QED
    BY <2>1, <2>2, <1>0, FilesBelongKept DEF SaveContext, SaveInv
<1>11. StagesInv'
  <2>1. SUFFICES ASSUME NEW v \in stages
                 PROVE  \/ \E q \in Processes : Saving(q)' /\ proc'[q].version = v
                        \/ v \in stuck
                        \/ crashes > 0 /\ v # completed
    BY <1>2 DEF StagesInv, Saving
  <2>2. v = s.version \/ v \in stuck \/ (crashes > 0 /\ v # completed)
    BY <1>0, <1>1 DEF SaveContext, SaveInv, StagesInv
  <2>3. QED
    BY <2>2, <1>1, <1>3 DEF Saving
<1>12. QED
  BY <1>6, <1>8, <1>9, <1>10, <1>11 DEF SaveInv

LEMMA WriteKeeps ==
  ASSUME IInv, TypeOK', Grows, NEW p \in Processes, Write(p)
  PROVE  SaveInv'
<1> DEFINE s == proc[p]
           next == NextFile(s.file, s.count)
<1>0. SaveContext(p) /\ s.step = "write"
  BY InSave DEF Write
<1>1. /\ TypeOK /\ SaveInv /\ Saving(p) /\ s \in SaveProc /\ SaverAt(s)
      /\ Latest \in Nat /\ completed < Latest /\ completed \in Nat
      /\ Latest \in 1 .. Latest /\ known[Latest] \subseteq Named
  BY <1>0, Values DEF SaveContext
<1>2. /\ s.file \in FileNames /\ s.version = Latest /\ Written(s) /\ sizes[Latest] \in Requests
      /\ s.count \in 0 .. sizes[Latest]
      /\ s.file \in Requests => s.file <= s.count
      /\ s.count < sizes[Latest] => Latest \in stages /\ s.file \in Requests
      /\ s.file \notin Requests => Latest \notin stages \/ Latest \in stuck
  BY <1>0, AtFile
<1>3. /\ \A f \in FileNames : files'[f] = files[f] \/ (f = s.file /\ files'[f] = Latest)
      /\ s.file \in Requests \cup known[Latest] => files'[s.file] = Latest
      /\ UNCHANGED <<stages, stuck, sizes, known, crashes>> /\ Latest' = Latest
      /\ \A q \in Processes : q # p => proc'[q] = proc[q]
      /\ completed' = IF s.file = SettingFile THEN Latest ELSE completed
  BY <1>1, <1>2 DEF Write, IsRead, TypeOK, FileNames, Latest, saves, budget
<1>4. proc'[p] = IF s.file = SettingFile THEN Idle
                 ELSE IF next = EventsFile /\ Latest \in stages
                 THEN [s EXCEPT !.step = "unstage"]
                 ELSE [s EXCEPT !.step = "open", !.file = next]
  BY <1>1, <1>2 DEF Write, TypeOK
<1>5. /\ sizes[Latest] \in Nat /\ sizes[Latest] <= MaxSize /\ s.file \in Nat /\ s.count \in Nat
      /\ MaxSize \in Nat /\ s.file \in Requests <=> s.file <= MaxSize
      /\ 1 .. s.count \subseteq Requests
  BY <1>2, Constants DEF Requests, FileNames
<1>6. ASSUME NEW f \in FileNames, f \in (1 .. s.count) \cup known[Latest], f <= s.file
      PROVE  files'[f] = Latest
  <2>1. CASE f = s.file
    BY <2>1, <1>3, <1>5, <1>6
  <2>2. CASE f # s.file
    <3>1. f < s.file
      BY <2>2, <1>5, <1>6 DEF FileNames
    <3>2. files[f] = Latest
      BY <3>1, <1>2, <1>6 DEF Written
    <3>3. QED
      BY <3>2, <2>2, <1>3
  <2>3. QED
    BY <2>1, <2>2
<1>7. Saving(p)' => SaverAt(proc[p])'
  <2>1. SUFFICES ASSUME Saving(p)' PROVE SaverAt(proc[p])'
    OBVIOUS
  <2>2. s.file # SettingFile /\ completed' = completed
    BY <2>1, <1>3, <1>4 DEF Saving, Idle
  <2>3. CASE next = EventsFile /\ Latest \in stages
    <3>1. /\ proc'[p].step = "unstage" /\ proc'[p].version = Latest /\ proc'[p].count = s.count
          /\ proc'[p].file = s.file
      BY <2>2, <2>3, <1>1, <1>2, <1>4 DEF SaveProc
    <3>2. s.file = s.count
      BY <2>3, <1>2, <1>5, Constants DEF NextFile
    <3>3. \A f \in 1 .. s.count : files'[f] = Latest
      <4>1. \A f \in 1 .. s.count : f \in FileNames /\ f <= s.file
        BY <3>2, <1>2, <1>5, Constants DEF FileNames
      <4>2. QED
        BY <4>1, <1>6
    <3>4. QED
      BY <3>1, <3>3, <2>2, <2>3, <1>1, <1>2, <1>3, <1>5 DEF SaverAt
  <2>4. CASE ~(next = EventsFile /\ Latest \in stages)
    <3>1. /\ proc'[p].step = "open" /\ proc'[p].version = Latest /\ proc'[p].count = s.count
          /\ proc'[p].file = next
      BY <2>2, <2>4, <1>1, <1>2, <1>4 DEF SaveProc
    <3>2. \/ s.file < s.count /\ next = s.file + 1 /\ next \in Requests
          \/ s.file = s.count /\ s.file \in Requests /\ next = EventsFile
          \/ s.file = EventsFile /\ next = SettingFile
      BY <2>2, <1>2, <1>5, Constants DEF NextFile, Requests
    <3>3. Written(proc[p])'
      <4>1. ASSUME NEW f \in FileNames, f \in (1 .. s.count) \cup known[Latest], f < next
            PROVE  f <= s.file
        <5>1. f \in Nat /\ (f <= s.count \/ f = EventsFile \/ f = SettingFile)
          BY <4>1, <1>1 DEF FileNames, Named
        <5>2. QED
          BY <5>1, <4>1, <3>2, <1>5, Constants
      <4>2. QED
        BY <4>1, <3>1, <1>3, <1>6 DEF Written
    <3>4. next \in Requests => next <= s.count
      BY <3>2, <1>5, Constants
    <3>5. s.count < sizes[Latest] => Latest \in stages /\ next \in Requests
      BY <3>2, <2>4, <1>2, Constants
    <3>6. next \notin Requests => Latest \notin stages \/ Latest \in stuck
      BY <3>2, <2>4, <1>2, Constants
    <3>7. QED
      BY <3>1, <3>3, <3>4, <3>5, <3>6, <2>2, <1>1, <1>2, <1>3, <1>5 DEF SaverAt
  <2>5. QED
    BY <2>3, <2>4
<1>8. OneSaver' /\ SaverInv' /\ \A q \in Processes : Saving(q)' => q = p
  BY <1>0, <1>3, <1>7, SaversNow
<1>9. s.file \notin Requests => Reached(files', sizes', known', Latest, s.file)
  <2>1. SUFFICES ASSUME s.file \notin Requests, NEW f \in FileNames, f <= s.file,
                        f \in (1 .. sizes[Latest]) \cup known[Latest]
                 PROVE  Newer(files', f, Latest)
    BY <1>1, <1>3 DEF Reached, Latest
  <2>2. s.count = sizes[Latest]
    BY <2>1, <1>2, <1>5
  <2>3. files'[f] = Latest
    BY <2>1, <2>2, <1>6
  <2>4. QED
    BY <2>3, <1>1 DEF Newer
<1>10. Layers'
  <2>1. \A g \in Named : files'[g] # files[g] => g = s.file /\ files'[g] = Latest /\ g \notin Requests
    BY <1>3, Constants DEF Named
  <2>2. QED
    BY <2>1, <1>0, <1>9, LayersKept DEF SaveContext, SaveInv
<1>11. CompletedKept'
  <2>1. completed' # completed => s.file = SettingFile /\ completed' = Latest /\ s.file \notin Requests
    BY <1>3, Constants
  <2>2. QED
    BY <2>1, <1>0, <1>9, CompletedStays DEF SaveContext, SaveInv
<1>12. CompletedFiles'
  <2>1. SUFFICES ASSUME completed' = Latest, NEW f \in FileNames,
                        f \in (1 .. sizes[Latest]) \cup known[Latest]
                 PROVE  files'[f] = Latest
    BY <1>3 DEF CompletedFiles
  <2>2. s.file = SettingFile
    BY <2>1, <1>1, <1>3
  <2>3. s.count = sizes[Latest] /\ f <= s.file
    BY <2>1, <2>2, <1>2, <1>5, Constants DEF FileNames
  <2>4. QED
    BY <2>1, <2>3, <1>6
<1>13. FilesBelong'
  <2>1. \A f \in Requests : files'[f] # files[f] => f <= sizes[Latest]
    BY <1>2, <1>3, <1>5, Constants DEF Requests
  <2>2. QED
    BY <2>1, <1>0, <1>1, FilesBelongKept DEF SaveContext, SaveInv
<1>14. StagesInv'
  <2>1. SUFFICES ASSUME NEW v \in stages
                 PROVE  \/ \E q \in Processes : Saving(q)' /\ proc'[q].version = v
                        \/ v \in stuck
                        \/ crashes > 0 /\ v # completed'
    BY <1>3 DEF StagesInv, Saving
  <2>2. v = Latest \/ v \in stuck \/ (crashes > 0 /\ v # completed)
    BY <1>0, <1>1, <1>2 DEF SaveContext, SaveInv, StagesInv
  <2>3. CASE s.file = SettingFile
    BY <2>1, <2>2, <2>3, <1>2, <1>3, Constants
  <2>4. CASE s.file # SettingFile
    <3>1. v = Latest => Saving(p)' /\ proc'[p].version = v
      BY <2>4, <1>1, <1>2, <1>4 DEF SaveProc, Saving
    <3>2. QED
      BY <2>2, <2>4, <3>1, <1>3
  <2>5. QED
    BY <2>3, <2>4
<1>15. QED
  BY <1>8, <1>10, <1>11, <1>12, <1>13, <1>14 DEF SaveInv

\* A save that leaves its staging directory behind it, or stops.
LEMMA LeavingKeeps ==
  ASSUME IInv, TypeOK', Grows, NEW p \in Processes, Unstage(p) \/ SaveFails(p)
  PROVE  SaveInv'
<1> DEFINE s == proc[p]
<1>0. SaveContext(p)
  BY InSave DEF Unstage, SaveFails
<1>1. /\ TypeOK /\ SaveInv /\ Saving(p) /\ s \in SaveProc /\ SaverAt(s) /\ s.version = Latest
      /\ Latest \in Nat /\ completed < Latest /\ completed \in Nat
  BY <1>0 DEF SaveContext, SaverAt
<1>2. /\ UNCHANGED <<files, sizes, known, completed, crashes>> /\ Latest' = Latest
      /\ stages' \subseteq stages /\ stuck \subseteq stuck'
      /\ Latest \notin stages' \/ Latest \in stuck'
      /\ \A q \in Processes : q # p => proc'[q] = proc[q]
      /\ \/ proc'[p] = Idle
         \/ /\ Unstage(p) /\ ~(s.count < sizes[s.version])
            /\ proc'[p] = [s EXCEPT !.step = "open", !.file = EventsFile]
  <2>1. CASE Unstage(p)
    BY <2>1, <1>1 DEF Unstage, RemoveStage, Removed, saves, budget, TypeOK, Latest
  <2>2. CASE SaveFails(p)
    BY <2>2, <1>1 DEF SaveFails, RemoveStage, Removed, saves, TypeOK, Latest
  <2>3. QED
    BY <2>1, <2>2
<1>3. Saving(p)' => SaverAt(proc[p])'
  <2>1. SUFFICES ASSUME Unstage(p), ~(s.count < sizes[s.version]),
                        proc'[p] = [s EXCEPT !.step = "open", !.file = EventsFile]
                 PROVE  SaverAt(proc[p])'
    BY <1>2 DEF Saving, Idle
  <2>2. /\ proc'[p].step = "open" /\ proc'[p].version = Latest /\ proc'[p].count = s.count
        /\ proc'[p].file = EventsFile
    BY <2>1, <1>1 DEF SaveProc
  <2>3. Written(proc[p])'
    <3>1. \A f \in 1 .. s.count : files[f] = Latest
      BY <2>1, <1>1 DEF Unstage, SaverAt
    <3>2. known[Latest] \subseteq Named
      BY <1>1, Values
    <3>3. QED
      BY <3>1, <3>2, <2>2, <1>1, <1>2, Constants DEF Written, FileNames, Named, SaveProc
  <2>4. (Latest \notin stages' \/ Latest \in stuck') /\ EventsFile \notin Requests
    BY <1>2, Constants
  <2>5. s.count <= sizes[Latest] /\ ~(s.count < sizes[Latest])
    BY <2>1, <1>1 DEF SaverAt
  <2>6. QED
    BY <2>2, <2>3, <2>4, <2>5, <1>1, <1>2 DEF SaverAt
<1>4. OneSaver' /\ SaverInv'
  BY <1>0, <1>2, <1>3, SaversNow
<1>5. Layers' /\ CompletedKept' /\ CompletedFiles' /\ FilesBelong'
  BY <1>1, <1>2 DEF SaveInv, Layers, CompletedKept, CompletedFiles, FilesBelong
<1>6. StagesInv'
  <2>1. SUFFICES ASSUME NEW v \in stages, v # Latest
                 PROVE  v \in stuck' \/ (crashes' > 0 /\ v # completed')
    BY <1>2 DEF StagesInv
  <2>2. ~(\E q \in Processes : Saving(q) /\ proc[q].version = v)
    BY <2>1, <1>0, <1>1 DEF SaveContext
  <2>3. QED
    BY <2>1, <2>2, <1>1, <1>2 DEF SaveInv, StagesInv
<1>7. QED
  BY <1>4, <1>5, <1>6 DEF SaveInv

\* A crash may leave a staging directory, never that of a completed save.
LEMMA CrashKeeps ==
  ASSUME IInv, TypeOK', Grows, NEW p \in Processes, Crash(p)
  PROVE  SaveInv'
<1>0. TypeOK /\ SaveInv /\ Latest \in Nat /\ crashes \in Nat
  BY Values DEF IInv, SaveInv, TypeOK
<1>1. /\ UNCHANGED <<files, stages, stuck, sizes, known, completed>> /\ Latest' = Latest
      /\ \A q \in Processes : q # p => proc'[q] = proc[q]
      /\ proc'[p] = Idle /\ crashes' = crashes + 1
  BY <1>0 DEF Crash, TypeOK, Latest, saves
<1>2. \A q \in Processes : Saving(q)' => Saving(q) /\ q # p /\ proc'[q] = proc[q]
  BY <1>1 DEF Saving, Idle
<1>3. OneSaver'
  BY <1>2, <1>0 DEF SaveInv, OneSaver
<1>4. SaverInv'
  <2>1. SUFFICES ASSUME NEW q \in Processes, Saving(q)' PROVE SaverAt(proc[q])'
    BY DEF SaverInv
  <2>2. proc'[q] = proc[q] /\ SaverAt(proc[q])
    BY <2>1, <1>0, <1>2 DEF SaveInv, SaverInv
  <2>3. QED
    BY <2>2, <1>1 DEF SaverAt, Written
<1>5. Layers' /\ CompletedKept' /\ CompletedFiles' /\ FilesBelong'
  BY <1>0, <1>1 DEF SaveInv, Layers, CompletedKept, CompletedFiles, FilesBelong
<1>6. StagesInv'
  <2>1. SUFFICES ASSUME NEW v \in stages PROVE v \in stuck \/ v # completed
    BY <1>0, <1>1 DEF StagesInv
  <2>2. ASSUME NEW q \in Processes, Saving(q) PROVE proc[q].version = Latest /\ completed < Latest
    BY <2>2, <1>0 DEF SaveInv, SaverInv, SaverAt
  <2>3. QED
    BY <2>1, <2>2, <1>0, Values DEF SaveInv, StagesInv
<1>7. QED
  BY <1>3, <1>4, <1>5, <1>6 DEF SaveInv

\* A load leaves the store alone.
LEMMA LoadsKeep ==
  ASSUME IInv, NEW p \in Processes, ~Saving(p), ~Saving(p)',
         \A q \in Processes : q # p => proc'[q] = proc[q],
         UNCHANGED <<files, stages, stuck, sizes, known, completed, crashes>>
  PROVE  SaveInv'
<1>0. SaveInv /\ Latest' = Latest
  BY DEF IInv, SaveInv, Latest
<1>1. \A q \in Processes : Saving(q)' => Saving(q) /\ proc'[q] = proc[q]
  BY DEF Saving
<1>2. \A q \in Processes : Saving(q) => Saving(q)' /\ proc'[q] = proc[q]
  BY DEF Saving
<1>3. OneSaver'
  BY <1>1, <1>0 DEF SaveInv, OneSaver
<1>4. SaverInv'
  <2>1. SUFFICES ASSUME NEW q \in Processes, Saving(q)' PROVE SaverAt(proc[q])'
    BY DEF SaverInv
  <2>2. proc'[q] = proc[q] /\ SaverAt(proc[q])
    BY <2>1, <1>0, <1>1 DEF SaveInv, SaverInv
  <2>3. QED
    BY <2>2, <1>0 DEF SaverAt, Written
<1>5. Layers' /\ CompletedKept' /\ CompletedFiles' /\ FilesBelong'
  BY <1>0 DEF SaveInv, Layers, CompletedKept, CompletedFiles, FilesBelong
<1>6. StagesInv'
  BY <1>0, <1>2 DEF SaveInv, StagesInv
<1>7. QED
  BY <1>3, <1>4, <1>5, <1>6 DEF SaveInv

-----------------------------------------------------------------------------
(* The steps of a load.                                                     *)

LoadInv == LoaderInv /\ CacheInv /\ CacheQuiet /\ AnswersInv

\* Whatever one process does, what the others have read or got stays right.
LEMMA OthersKeep ==
  ASSUME IInv, TypeOK', Grows, NEW p \in Processes,
         \A q \in Processes : q # p => /\ proc'[q] = proc[q] /\ cache'[q] = cache[q]
                                       /\ answer'[q] = answer[q],
         Loading(p)' => /\ LoaderAt(proc'[p], files', sizes', known', completed')
                        /\ directory = "seed_" => cache'[p] = None,
         cache'[p] \notin {None, cache[p]} => Layered(cache'[p], sizes', known'),
         answer'[p] # answer[p] => Fits(answer'[p], sizes', known', Dead', crashes', stuck', directory')
  PROVE  LoadInv'
<1>0. TypeOK /\ LoadInv /\ directory' = directory
  BY DEF IInv, LoadInv, Grows
<1>1. LoaderInv'
  <2>1. SUFFICES ASSUME NEW q \in Processes, q # p, Loading(q)
                 PROVE  LoaderAt(proc[q], files', sizes', known', completed')
    BY DEF LoaderInv, Loading
  <2>2. proc[q] \in LoadProc /\ LoaderAt(proc[q], files, sizes, known, completed)
    BY <2>1, <1>0, Doing DEF LoadInv, LoaderInv
  <2>3. QED
    BY <2>2, <1>0, LoaderKept
<1>2. CacheInv'
  BY <1>0, LayeredKept DEF LoadInv, CacheInv
<1>3. CacheQuiet'
  BY <1>0 DEF LoadInv, CacheQuiet, Loading
<1>4. AnswersInv'
  <2>1. SUFFICES ASSUME NEW q \in Processes, answer'[q] = answer[q]
                 PROVE  Fits(answer[q], sizes', known', Dead', crashes', stuck', directory')
    BY DEF AnswersInv
  <2>2. Fits(answer[q], sizes, known, Dead, crashes, stuck, directory)
    BY <1>0 DEF LoadInv, AnswersInv
  <2>3. answer[q] \in {None} \cup Returned
    BY <1>0 DEF TypeOK
  <2>4. CASE answer[q].kind = "dataset"
    BY <2>2, <2>4, <1>0, LayeredKept, FreshKept DEF Fits
  <2>5. CASE answer[q].kind = "throws"
    <3>1. answer[q].latest \in Nat /\ answer[q].complete \in Nat
      BY <2>3, <2>5 DEF Returned, None
    <3>2. Explained(answer[q], sizes', known', Dead', crashes', stuck')
      BY <2>2, <2>5, <3>1, <1>0, ExplainedKept DEF Fits
    <3>3. QED
      BY <2>5, <3>2 DEF Fits
  <2>6. QED
    BY <2>4, <2>5 DEF Fits
<1>5. QED
  BY <1>1, <1>2, <1>3, <1>4 DEF LoadInv

\* A process that saves, or stops, is none that loads.
LEMMA SavesKeepLoads ==
  ASSUME IInv, TypeOK', Grows, NEW p \in Processes,
         \A q \in Processes : q # p => proc'[q] = proc[q],
         proc'[p].op # "load", UNCHANGED <<cache, answer>>
  PROVE  LoadInv'
<1>1. ~Loading(p)'
  BY DEF Loading
<1>2. QED
  BY <1>1, OthersKeep

\* A load that throws: why it could not be explained by the save it came after.
LEMMA ThrowKeeps ==
  ASSUME IInv, TypeOK', Grows, NEW p \in Processes, Loading(p), Throws(p),
         UNCHANGED <<directory, files, stages, stuck, sizes, known, completed, cache, crashes>>,
         proc[p].complete > 0 /\ completed = Latest /\ proc[p].complete = Latest =>
            \/ known[Latest] # Named
            \/ \E v \in 1 .. Latest : sizes[v] > sizes[Latest]
            \/ \E v \in Dead : v \in stuck \/ (crashes > 0 /\ v < Latest)
  PROVE  LoadInv'
<1> DEFINE a == [kind |-> "throws", complete |-> proc[p].complete, latest |-> Latest]
<1>0. /\ TypeOK /\ LoaderInv /\ proc[p] \in LoadProc
      /\ completed \in Nat /\ Latest \in Nat /\ completed <= Latest
  BY Doing, Values DEF IInv
<1>1. proc[p].complete <= completed /\ proc[p].complete \in Nat
  BY <1>0 DEF LoaderInv, LoaderAt, LoadProc
<1>2. Explained(a, sizes, known, Dead, crashes, stuck)
  BY <1>0, <1>1 DEF Explained, Latest
<1>3. Fits(a, sizes, known, Dead, crashes, stuck, directory)
  BY <1>2 DEF Fits
<1>4. /\ answer'[p] = a /\ proc'[p] = Idle
      /\ \A q \in Processes : q # p => proc'[q] = proc[q] /\ answer'[q] = answer[q]
  BY <1>0 DEF Throws, TypeOK
<1>5. ~Loading(p)' /\ Dead' = Dead
  BY <1>4 DEF Loading, Idle, Dead
<1>6. Fits(answer'[p], sizes', known', Dead', crashes', stuck', directory')
  BY <1>3, <1>4, <1>5
<1>7. QED
  BY <1>4, <1>5, <1>6, OthersKeep

LEMMA LoadContext ==
  ASSUME IInv, NEW p \in Processes, Loading(p)
  PROVE  /\ TypeOK /\ proc[p] \in LoadProc /\ proc[p].complete \in Nat
         /\ LoaderAt(proc[p], files, sizes, known, completed)
         /\ Latest \in Nat /\ completed \in Nat /\ completed <= Latest
         /\ directory = "seed_" => cache[p] = None
         /\ \A f \in FileNames : files[f] \in Int /\ files[f] >= Torn /\ files[f] <= Latest
         /\ \A v \in 1 .. Latest : sizes[v] \in Requests /\ 1 .. sizes[v] \subseteq FileNames
<1>1. /\ TypeOK /\ proc[p] \in LoadProc /\ LoaderAt(proc[p], files, sizes, known, completed)
      /\ directory = "seed_" => cache[p] = None
  BY Doing DEF IInv, LoaderInv, CacheQuiet
<1>2. \A v \in 1 .. Latest : sizes[v] \in Requests /\ 1 .. sizes[v] \subseteq FileNames
  BY <1>1, Values, Constants DEF Requests, FileNames
<1>3. QED
  BY <1>1, <1>2, Values DEF LoadProc

\* Nothing fails a load of the last save but what an earlier one left there, and
\* the names of its own files.
LEMMA LastSaveIsWhole ==
  ASSUME IInv, completed = Latest, completed > 0
  PROVE  /\ \A f \in FileNames : f \in (1 .. sizes[Latest]) \cup known[Latest] => files[f] = Latest
         /\ \A v \in stages : v \in Dead /\ (v \in stuck \/ (crashes > 0 /\ v < Latest))
<1>1. TypeOK /\ SaverInv /\ CompletedFiles /\ StagesInv
  BY DEF IInv
<1>2. \A q \in Processes : ~Saving(q)
  BY <1>1, Values DEF SaverInv, SaverAt
<1>3. ASSUME NEW v \in stages PROVE v \in Dead /\ (v \in stuck \/ (crashes > 0 /\ v < Latest))
  BY <1>1, <1>2, Values DEF StagesInv, Dead, TypeOK
<1>4. QED
  BY <1>1, <1>3 DEF CompletedFiles

\* Where a load has read its setting and its events, and where it goes by a
\* completed save, the requests they ask for are there.
LEMMA BasisReached ==
  ASSUME TypeOK, NEW l \in LoadProc, LoaderAt(l, files, sizes, known, completed),
         l.step \in {"list", "networks"}, NEW v \in Basis(l)
  PROVE  /\ v \in 1 .. Latest
         /\ \A f \in Requests : f <= sizes[v] => Newer(files, f, v)
<1>1. (v = l.complete /\ v # Absent) \/ v = l.setting \/ v = l.events
  BY DEF Basis
<1>2. Reached(files, sizes, known, v, SettingFile) \/ Reached(files, sizes, known, v, EventsFile)
  BY <1>1 DEF LoaderAt
<1>3. \A f \in Requests : f \in Nat /\ f >= 1 /\ f \in FileNames /\ f <= EventsFile /\ f <= SettingFile
  BY Constants DEF Requests
<1>4. v \in 1 .. Latest /\ sizes[v] \in Nat
  BY <1>2, Values DEF Reached, Latest, Requests
<1>5. QED
  BY <1>2, <1>3, <1>4 DEF Reached

\* A load that goes on to the step st, having read m.
LEMMA ReadKeeps ==
  ASSUME IInv, TypeOK', Grows, NEW p \in Processes, Loading(p), NEW m,
         proc' = [proc EXCEPT ![p] = m], UNCHANGED <<answer, cache, directory>>,
         LoaderAt(m, files', sizes', known', completed')
  PROVE  LoadInv'
<1>1. /\ proc'[p] = m /\ \A q \in Processes : q # p => proc'[q] = proc[q]
  BY DEF IInv, TypeOK
<1>2. directory = "seed_" => cache'[p] = None
  BY LoadContext
<1>3. QED
  BY <1>1, <1>2, OthersKeep

LEMMA LayoutKeeps ==
  ASSUME IInv, TypeOK', Grows, NEW p \in Processes, CheckLayout(p)
  PROVE  LoadInv'
<1> DEFINE l == proc[p]
           m == [l EXCEPT !.step = "setting"]
<1>0. Loading(p) /\ UNCHANGED <<directory, files, stages, stuck, sizes, known, completed, cache, crashes>>
  BY DEF CheckLayout, fixed, saves, budget
<1>1. CASE files[EventsFile] = Absent \/ files[SettingFile] = Absent
  <2>1. Throws(p)
    BY <1>1 DEF CheckLayout
  <2>2. completed = Latest /\ completed > 0 => known[Latest] # Named
    BY <1>1, LastSaveIsWhole, Constants DEF Absent
  <2>3. QED
    BY <2>1, <2>2, <1>0, ThrowKeeps, LoadContext
<1>2. CASE ~(files[EventsFile] = Absent \/ files[SettingFile] = Absent)
  <2>1. proc' = [proc EXCEPT ![p] = m] /\ UNCHANGED answer
    BY <1>2 DEF CheckLayout
  <2>2. LoaderAt(m, files', sizes', known', completed')
    BY <1>0, <1>2, LoadContext DEF LoaderAt, LoadProc
  <2>3. QED
    BY <2>1, <2>2, <1>0, ReadKeeps
<1>3. QED
  BY <1>1, <1>2

LEMMA SettingKeeps ==
  ASSUME IInv, TypeOK', Grows, NEW p \in Processes, ReadSetting(p)
  PROVE  LoadInv'
<1> DEFINE l == proc[p]
           m == [l EXCEPT !.step = "events", !.setting = files[SettingFile]]
<1>0. Loading(p) /\ UNCHANGED <<directory, files, stages, stuck, sizes, known, completed, cache, crashes>>
  BY DEF ReadSetting, fixed, saves, budget
<1>1. CASE files[SettingFile] = Torn
  <2>1. Throws(p)
    BY <1>1 DEF ReadSetting
  <2>2. completed = Latest /\ completed > 0 => known[Latest] # Named
    BY <1>1, LastSaveIsWhole, LoadContext, <1>0, Constants DEF Torn
  <2>3. QED
    BY <2>1, <2>2, <1>0, ThrowKeeps, LoadContext
<1>2. CASE files[SettingFile] # Torn
  <2>1. proc' = [proc EXCEPT ![p] = m] /\ UNCHANGED answer /\ l.step = "setting"
    BY <1>2 DEF ReadSetting
  <2>2. /\ l \in LoadProc /\ LoaderAt(l, files, sizes, known, completed)
        /\ files[SettingFile] # Absent /\ files[EventsFile] # Absent
    BY <2>1, <1>0, LoadContext DEF LoaderAt
  <2>3. files[SettingFile] > 0
    BY <2>2, <1>0, <1>2, LoadContext, Constants DEF Torn, Absent
  <2>4. /\ Reached(files, sizes, known, files[SettingFile], SettingFile)
        /\ l.complete # Absent /\ SettingFile \in known[l.complete]
              => l.complete <= files[SettingFile]
    BY <2>2, <2>3, <1>2, Constants DEF IInv, Layers, LoaderAt, Reached, Newer
  <2>5. LoaderAt(m, files', sizes', known', completed')
    <3>1. m.step = "events" /\ m.complete = l.complete /\ m.setting = files[SettingFile]
      BY <2>2 DEF LoadProc
    <3> HIDE DEF m
    <3>2. QED
      BY <2>2, <2>4, <3>1, <1>0 DEF LoaderAt
  <2>6. QED
    BY <2>1, <2>5, <1>0, ReadKeeps
<1>3. QED
  BY <1>1, <1>2

LEMMA EventsKeep ==
  ASSUME IInv, TypeOK', Grows, NEW p \in Processes, ReadEvents(p)
  PROVE  LoadInv'
<1> DEFINE l == proc[p]
           m == [l EXCEPT !.step = "list", !.events = files[EventsFile]]
<1>0. Loading(p) /\ UNCHANGED <<directory, files, stages, stuck, sizes, known, completed, cache, crashes>>
  BY DEF ReadEvents, fixed, saves, budget
<1>1. CASE files[EventsFile] = Torn
  <2>1. Throws(p)
    BY <1>1 DEF ReadEvents
  <2>2. completed = Latest /\ completed > 0 => known[Latest] # Named
    BY <1>1, LastSaveIsWhole, LoadContext, <1>0, Constants DEF Torn
  <2>3. QED
    BY <2>1, <2>2, <1>0, ThrowKeeps, LoadContext
<1>2. CASE files[EventsFile] # Torn
  <2>1. proc' = [proc EXCEPT ![p] = m] /\ UNCHANGED answer /\ l.step = "events"
    BY <1>2 DEF ReadEvents
  <2>2. /\ l \in LoadProc /\ LoaderAt(l, files, sizes, known, completed)
        /\ files[EventsFile] # Absent /\ files[SettingFile] # Absent
    BY <2>1, <1>0, LoadContext DEF LoaderAt
  <2>3. files[EventsFile] > 0
    BY <2>2, <1>0, <1>2, LoadContext, Constants DEF Torn, Absent
  <2>4. /\ Reached(files, sizes, known, files[EventsFile], EventsFile)
        /\ \A v \in {l.complete, l.setting} \ {Absent} :
              EventsFile \in known[v] => v <= files[EventsFile]
    <3>1. \A v \in {l.complete, l.setting} \ {Absent} : Reached(files, sizes, known, v, SettingFile)
      BY <2>1, <2>2 DEF LoaderAt
    <3>2. EventsFile <= SettingFile
      BY Constants
    <3>3. QED
      BY <2>3, <3>1, <3>2, <1>2, Constants DEF IInv, Layers, Reached, Newer
  <2>5. LoaderAt(m, files', sizes', known', completed')
    <3>1. /\ m.step = "list" /\ m.complete = l.complete /\ m.setting = l.setting
          /\ m.events = files[EventsFile]
      BY <2>2 DEF LoadProc
    <3> HIDE DEF m
    <3>2. QED
      BY <2>1, <2>2, <2>4, <3>1, <1>0 DEF LoaderAt
  <2>6. QED
    BY <2>1, <2>5, <1>0, ReadKeeps
<1>3. QED
  BY <1>1, <1>2

LEMMA ListKeeps ==
  ASSUME IInv, TypeOK', Grows, NEW p \in Processes, ListNetworks(p)
  PROVE  LoadInv'
<1> DEFINE l == proc[p]
           found == {i \in Requests : files[i] # Absent}
           m == [l EXCEPT !.step = "networks", !.networks = [i \in found |-> Absent]]
<1>0. Loading(p) /\ UNCHANGED <<directory, files, stages, stuck, sizes, known, completed, cache, crashes>>
  BY DEF ListNetworks, fixed, saves, budget
<1>1. CASE stages # {}
  <2>1. Throws(p)
    BY <1>1 DEF ListNetworks
  <2>2. QED
    BY <2>1, <1>0, <1>1, LastSaveIsWhole, ThrowKeeps, LoadContext
<1>2. CASE stages = {}
  <2>1. proc' = [proc EXCEPT ![p] = m] /\ UNCHANGED answer /\ l.step = "list"
    BY <1>2 DEF ListNetworks
  <2>2. l \in LoadProc /\ LoaderAt(l, files, sizes, known, completed) /\ TypeOK
    BY <1>0, LoadContext
  <2>3. \A v \in Basis(l), f \in Requests : f <= sizes[v] => f \in found
    <3>1. SUFFICES ASSUME NEW v \in Basis(l), NEW f \in Requests, f <= sizes[v]
                   PROVE  files[f] # Absent
      OBVIOUS
    <3>2. v \in 1 .. Latest /\ Newer(files, f, v)
      BY <2>1, <2>2, <3>1, BasisReached
    <3>3. QED
      BY <3>2 DEF Newer, Torn, Absent
  <2>4. \A f \in found : \E v \in 1 .. Latest : f <= sizes[v]
    BY DEF IInv, FilesBelong
  <2>5. LoaderAt(m, files', sizes', known', completed')
    <3>1. /\ m.step = "networks" /\ m.complete = l.complete /\ m.setting = l.setting
          /\ m.events = l.events /\ m.networks = [i \in found |-> Absent]
      BY <2>2 DEF LoadProc
    <3>2. DOMAIN m.networks = found /\ \A f \in found : m.networks[f] = Absent
      BY <3>1
    <3>3. Basis(m) = Basis(l)
      BY <3>1 DEF Basis
    <3> HIDE DEF m, found
    <3>4. QED
      BY <2>1, <2>2, <2>3, <2>4, <3>1, <3>2, <3>3, <1>0 DEF LoaderAt, Latest
  <2>6. QED
    BY <2>1, <2>5, <1>0, ReadKeeps
<1>3. QED
  BY <1>1, <1>2

LEMMA NetworkKeeps ==
  ASSUME IInv, TypeOK', Grows, NEW p \in Processes, ReadNetwork(p)
  PROVE  LoadInv'
<1> DEFINE l == proc[p]
<1>0. Loading(p) /\ UNCHANGED <<directory, files, stages, stuck, sizes, known, completed, cache, crashes>>
  BY DEF ReadNetwork, fixed, saves, budget
<1>1. PICK i \in DOMAIN l.networks :
             IF files[i] = Torn THEN Throws(p)
             ELSE proc' = [proc EXCEPT ![p].networks[i] = files[i]] /\ UNCHANGED answer
  BY DEF ReadNetwork
<1>2. /\ l \in LoadProc /\ l.step = "networks" /\ LoaderAt(l, files, sizes, known, completed)
      /\ l.networks \in Found /\ i \in Requests /\ i \in FileNames /\ i \in Nat
  BY <1>0, <1>1, LoadContext, FoundFacts, Constants DEF ReadNetwork, LoadProc, Requests
<1>3. CASE files[i] = Torn
  <2>1. \E v \in 1 .. Latest : i <= sizes[v]
    BY <1>1, <1>2 DEF LoaderAt, Latest
  <2>2. ASSUME completed = Latest, completed > 0
        PROVE  \E v \in 1 .. Latest : sizes[v] > sizes[Latest]
    <3>1. i \notin 1 .. sizes[Latest]
      BY <1>0, <1>2, <1>3, <2>2, LastSaveIsWhole, LoadContext DEF Torn
    <3>2. sizes[Latest] \in Nat /\ \A v \in 1 .. Latest : sizes[v] \in Nat
      BY <1>0, <2>2, LoadContext DEF Requests
    <3>3. QED
      BY <2>1, <3>1, <3>2, <1>2, Constants DEF Requests
  <2>3. QED
    BY <2>2, <1>0, <1>1, <1>3, ThrowKeeps, LoadContext
<1>4. CASE files[i] # Torn
  <2> DEFINE n == [l.networks EXCEPT ![i] = files[i]]
             m == [l EXCEPT !.networks = n]
  <2>1. proc' = [proc EXCEPT ![p] = m] /\ UNCHANGED answer
    BY <1>1, <1>4, <1>0, LoadContext DEF TypeOK
  <2>2. /\ DOMAIN n = DOMAIN l.networks /\ n[i] = files[i]
        /\ \A f \in DOMAIN l.networks : f # i => n[f] = l.networks[f]
    BY <1>1
  <2>3. /\ m.step = "networks" /\ m.complete = l.complete /\ m.setting = l.setting
        /\ m.events = l.events /\ m.networks = n
    BY <1>2 DEF LoadProc
  <2>4. \A v \in Basis(l), f \in Requests : f <= sizes[v] =>
           f \in DOMAIN n /\ (n[f] = Absent \/ n[f] >= v)
    <3>1. SUFFICES ASSUME NEW v \in Basis(l), NEW f \in Requests, f <= sizes[v]
                   PROVE  f \in DOMAIN n /\ (n[f] = Absent \/ n[f] >= v)
      OBVIOUS
    <3>2. f \in DOMAIN l.networks /\ (l.networks[f] = Absent \/ l.networks[f] >= v)
      BY <3>1, <1>2 DEF LoaderAt
    <3>3. Newer(files, f, v)
      BY <3>1, <1>0, <1>2, BasisReached, LoadContext
    <3>4. QED
      BY <3>2, <3>3, <2>2, <1>4 DEF Newer
  <2>5. LoaderAt(m, files', sizes', known', completed')
    <3>1. Basis(m) = Basis(l)
      BY <2>3 DEF Basis
    <3> HIDE DEF m, n
    <3>2. QED
      BY <2>2, <2>3, <2>4, <3>1, <1>0, <1>2 DEF LoaderAt
  <2>6. QED
    BY <2>1, <2>5, <1>0, ReadKeeps
<1>5. QED
  BY <1>3, <1>4

\* As many networks as there are requests: the networks of those requests.
LEMMA AsMany ==
  ASSUME NEW n \in Nat, NEW m \in Nat, NEW D \in SUBSET (1 .. m), 1 .. n \subseteq D
  PROVE  Cardinality(D) = n <=> D = 1 .. n
<1>1. IsFiniteSet(1 .. m) /\ IsFiniteSet(1 .. n) /\ Cardinality(1 .. n) = n
  BY FS_Interval
<1>2. IsFiniteSet(D)
  BY <1>1, FS_Subset
<1>3. QED
  BY <1>1, <1>2, FS_Subset

LEMMA FinishKeeps ==
  ASSUME IInv, TypeOK', Grows, NEW p \in Processes, FinishLoad(p)
  PROVE  LoadInv'
<1> DEFINE l == proc[p]
           data == Dataset(l.setting, l.events, l.networks)
<1>0. /\ Loading(p) /\ UNCHANGED <<directory, files, stages, stuck, sizes, known, completed, crashes>>
      /\ l.step = "networks" /\ \A i \in DOMAIN l.networks : l.networks[i] # Absent
  BY DEF FinishLoad, fixed, saves, budget
<1>1. /\ TypeOK /\ l \in LoadProc /\ LoaderAt(l, files, sizes, known, completed) /\ l.networks \in Found
      /\ completed \in Nat /\ Latest \in Nat /\ completed <= Latest
      /\ l.complete \in Nat /\ l.complete <= completed
  BY <1>0, LoadContext DEF LoadProc, LoaderAt
<1>2. /\ l.setting \in 1 .. Latest /\ l.events \in 1 .. Latest
      /\ EventsFile \in known[l.setting] => l.setting <= l.events
      /\ \A v \in Basis(l) : /\ v \in 1 .. Latest /\ 1 .. sizes[v] \subseteq DOMAIN l.networks
                             /\ \A i \in 1 .. sizes[v] : l.networks[i] >= v
      /\ l.setting \in Basis(l) /\ l.events \in Basis(l)
      /\ l.complete > 0 => /\ l.complete \in Basis(l)
                           /\ SettingFile \in known[l.complete] => l.setting >= l.complete
                           /\ EventsFile \in known[l.complete] => l.events >= l.complete
      /\ \A f \in DOMAIN l.networks : \E v \in 1 .. Latest : f <= sizes[v]
  <2>1. l.setting \in 1 .. Latest /\ l.events \in 1 .. Latest
    BY <1>0, <1>1 DEF LoaderAt, Reached, Latest
  <2>2. /\ l.setting \in Basis(l) /\ l.events \in Basis(l)
        /\ l.complete > 0 => l.complete \in Basis(l)
    BY <2>1 DEF Basis, Absent
  <2>3. ASSUME NEW v \in Basis(l), NEW i \in 1 .. sizes[v]
        PROVE  i \in DOMAIN l.networks /\ l.networks[i] >= v
    <3>1. v \in 1 .. Latest
      BY <1>0, <1>1, BasisReached
    <3>2. i \in Requests /\ i <= sizes[v]
      BY <2>3, <3>1, <1>0, LoadContext, Constants DEF Requests
    <3>3. QED
      BY <3>2, <1>0, <1>1 DEF LoaderAt
  <2>4. \A v \in Basis(l) : v \in 1 .. Latest
    BY <1>0, <1>1, BasisReached
  <2>5. /\ EventsFile \in known[l.setting] => l.setting <= l.events
        /\ l.complete > 0 => /\ SettingFile \in known[l.complete] => l.setting >= l.complete
                             /\ EventsFile \in known[l.complete] => l.events >= l.complete
        /\ \A f \in DOMAIN l.networks : \E v \in 1 .. Latest : f <= sizes[v]
    BY <1>0, <1>1, <2>1 DEF LoaderAt, Absent, Latest
  <2>6. QED
    BY <2>1, <2>2, <2>3, <2>4, <2>5
<1>3. DOMAIN l.networks \in SUBSET (1 .. MaxSize) /\ sizes[l.events] \in Nat
  BY <1>0, <1>1, <1>2, FoundFacts, LoadContext DEF Requests
<1>4. CountMatches(l) <=> DOMAIN l.networks = 1 .. sizes[l.events]
  BY <1>2, <1>3, AsMany, Constants DEF CountMatches
<1>5. CASE ~CountMatches(l)
  <2>1. Throws(p) /\ UNCHANGED cache
    BY <1>5 DEF FinishLoad
  <2>2. ASSUME l.complete = Latest, l.complete > 0, known[Latest] = Named
        PROVE  \E v \in 1 .. Latest : sizes[v] > sizes[Latest]
    <3>1. l.events = Latest
      BY <2>2, <1>1, <1>2, Constants
    <3>2. PICK f \in DOMAIN l.networks : f \notin 1 .. sizes[Latest]
      BY <3>1, <1>2, <1>4, <1>5
    <3>3. f \in Nat /\ f > sizes[Latest]
      BY <3>1, <3>2, <1>3
    <3>4. PICK v \in 1 .. Latest : f <= sizes[v]
      BY <3>2, <1>2
    <3>5. sizes[v] \in Nat /\ sizes[Latest] \in Nat
      BY <3>4, <1>0, <1>3, <3>1, LoadContext DEF Requests
    <3>6. QED
      BY <3>3, <3>4, <3>5
  <2>3. QED
    BY <2>1, <2>2, <1>0, ThrowKeeps
<1>6. CASE CountMatches(l)
  <2>1. /\ cache' = [cache EXCEPT ![p] = data]
        /\ answer' = [answer EXCEPT ![p] = [kind |-> "dataset", data |-> data,
                                            complete |-> l.complete, latest |-> Latest]]
        /\ proc' = [proc EXCEPT ![p] = Idle]
    BY <1>6 DEF FinishLoad
  <2>2. /\ proc'[p] = Idle /\ cache'[p] = data
        /\ answer'[p] = [kind |-> "dataset", data |-> data,
                         complete |-> l.complete, latest |-> Latest]
        /\ \A q \in Processes : q # p => /\ proc'[q] = proc[q] /\ cache'[q] = cache[q]
                                         /\ answer'[q] = answer[q]
    BY <2>1, <1>1 DEF TypeOK
  <2>3. Layered(data, sizes, known)
    BY <1>2, <1>4, <1>6 DEF Layered, Dataset, Latest
  <2>4. Fresh(data, sizes, known, l.complete)
    BY <1>2 DEF Fresh, Dataset, Latest
  <2> HIDE DEF data
  <2>5. Fits(answer'[p], sizes', known', Dead', crashes', stuck', directory')
    BY <2>2, <2>3, <2>4, <1>0, <1>2 DEF Fits
  <2>6. ~Loading(p)'
    BY <2>2 DEF Loading, Idle
  <2>7. Layered(cache'[p], sizes', known')
    BY <2>2, <2>3, <1>0
  <2>8. QED
    BY <2>2, <2>5, <2>6, <2>7, OthersKeep
<1>7. QED
  BY <1>5, <1>6

LEMMA StartKeeps ==
  ASSUME IInv, TypeOK', Grows, NEW p \in Processes, BeginLoad(p) \/ CachedLoad(p)
  PROVE  LoadInv'
<1>0. /\ TypeOK /\ CacheInv /\ completed \in Nat
      /\ UNCHANGED <<directory, files, stages, stuck, sizes, known, completed, cache, crashes>>
  BY Values DEF IInv, BeginLoad, CachedLoad, fixed, saves
<1>1. CASE BeginLoad(p)
  <2> DEFINE m == [op |-> "load", step |-> "layout", complete |-> completed, setting |-> Absent,
                   events |-> Absent, networks |-> NothingFound]
  <2>1. /\ proc'[p] = m /\ \A q \in Processes : q # p => proc'[q] = proc[q]
        /\ directory = "seed_" => cache'[p] = None
    BY <1>0, <1>1 DEF BeginLoad, MayCache, TypeOK
  <2>2. LoaderAt(m, files', sizes', known', completed')
    BY <1>0 DEF IInv, CompletedKept, LoaderAt, Absent
  <2>3. UNCHANGED answer
    BY <1>1 DEF BeginLoad
  <2> HIDE DEF m
  <2>4. QED
    BY <2>1, <2>2, <2>3, <1>0, OthersKeep
<1>2. CASE CachedLoad(p)
  <2>1. /\ answer'[p] = [kind |-> "dataset", data |-> cache[p], complete |-> completed, latest |-> Latest]
        /\ \A q \in Processes : q # p => answer'[q] = answer[q]
        /\ UNCHANGED proc /\ directory = "seed_" /\ cache[p] # None /\ ~Loading(p)
    BY <1>0, <1>2 DEF CachedLoad, MayCache, TypeOK, Loading, Idle
  <2>2. Layered(cache[p], sizes, known)
    BY <2>1, <1>0 DEF CacheInv
  <2>3. Fits(answer'[p], sizes', known', Dead', crashes', stuck', directory')
    BY <2>1, <2>2, <1>0 DEF Fits
  <2>4. ~Loading(p)'
    BY <2>1 DEF Loading
  <2>5. QED
    BY <2>1, <2>3, <2>4, <1>0, OthersKeep
<1>3. QED
  BY <1>1, <1>2

LEMMA CrashKeepsLoads ==
  ASSUME IInv, TypeOK', Grows, NEW p \in Processes, Crash(p)
  PROVE  LoadInv'
<1>1. /\ proc'[p] = Idle /\ cache'[p] = None /\ answer'[p] = None
      /\ \A q \in Processes : q # p => /\ proc'[q] = proc[q] /\ cache'[q] = cache[q]
                                       /\ answer'[q] = answer[q]
  BY DEF IInv, TypeOK, Crash
<1>2. Fits(None, sizes', known', Dead', crashes', stuck', directory')
  BY DEF Fits, None
<1>3. ~Loading(p)'
  BY <1>1 DEF Loading, Idle
<1>4. QED
  BY <1>1, <1>2, <1>3, OthersKeep

-----------------------------------------------------------------------------
(* The inductive invariant and what follows from it.                        *)

LEMMA SaveStep ==
  ASSUME IInv, TypeOK', Grows, NEW p \in Processes,
         \/ \E n \in Requests, names \in SUBSET Named, wide \in BOOLEAN : BeginSave(p, n, names, wide)
         \/ MakeStage(p) \/ Serialize(p) \/ Open(p) \/ Write(p) \/ Unstage(p) \/ SaveFails(p)
  PROVE  SaveInv' /\ LoadInv'
<1>1. SaveInv'
  BY BeginSaveKeeps, StagingKeeps, OpenKeeps, WriteKeeps, LeavingKeeps
<1>2. TypeOK /\ proc \in [Processes -> {Idle} \cup SaveProc \cup LoadProc] /\ ~(Saving(p) /\ Loading(p))
  BY Doing DEF IInv, TypeOK
<1>3. /\ UNCHANGED <<cache, answer>>
      /\ \A q \in Processes : q # p => proc'[q] = proc[q]
  BY <1>2 DEF BeginSave, MakeStage, Serialize, Open, Write, Unstage, SaveFails
<1>4. proc'[p].op # "load"
  <2>1. Saving(p) => proc[p] \in SaveProc /\ proc[p].op = "save"
    BY Doing DEF IInv, SaveProc
  <2>2. ASSUME NEW n \in Requests, NEW names \in SUBSET Named, NEW wide \in BOOLEAN, BeginSave(p, n, names, wide) PROVE proc'[p].op # "load"
    BY <2>2, <1>2 DEF BeginSave
  <2>3. ASSUME MakeStage(p) \/ Open(p) PROVE proc'[p].op # "load"
    BY <2>1, <2>3, <1>2 DEF MakeStage, Open, SaveProc
  <2>4. ASSUME Unstage(p) PROVE proc'[p].op # "load"
    <3>1. /\ proc[p] \in SaveProc /\ proc[p].op = "save"
          /\ proc'[p] \in {Idle, [proc[p] EXCEPT !.step = "open", !.file = EventsFile]}
      BY <2>1, <2>4, <1>2 DEF Unstage
    <3>2. CASE proc'[p] = Idle
      BY <3>2 DEF Idle
    <3>3. CASE proc'[p] = [proc[p] EXCEPT !.step = "open", !.file = EventsFile]
      BY <3>1, <3>3 DEF SaveProc
    <3>4. QED
      BY <3>1, <3>2, <3>3
  <2>5. ASSUME SaveFails(p) PROVE proc'[p].op # "load"
    BY <2>5, <1>2 DEF SaveFails, Idle
  <2>6. ASSUME Serialize(p) PROVE proc'[p].op # "load"
    <3>1. Saving(p)
      BY <2>6 DEF Serialize
    <3>2. CASE proc' = [proc EXCEPT ![p].step = "open"]
      BY <3>1, <3>2, <2>1, <1>2 DEF SaveProc
    <3>3. ASSUME NEW first \in 1 .. proc[p].count,
                 proc' = [proc EXCEPT ![p].step = IF first = 1 THEN "unstage" ELSE "open",
                                      ![p].count = first - 1]
          PROVE  proc'[p].op # "load"
      BY <3>1, <3>3, <2>1, <1>2 DEF SaveProc
    <3>4. QED
      BY <2>6, <3>2, <3>3 DEF Serialize
  <2>7. ASSUME Write(p) PROVE proc'[p].op # "load"
    BY <2>7, <1>2 DEF Write, Saving, Idle
  <2>8. QED
    BY <2>2, <2>3, <2>4, <2>5, <2>6, <2>7
<1>5. QED
  BY <1>1, <1>3, <1>4, SavesKeepLoads

LEMMA LoadStep ==
  ASSUME IInv, TypeOK', Grows, NEW p \in Processes,
         \/ CachedLoad(p) \/ BeginLoad(p) \/ CheckLayout(p) \/ ReadSetting(p) \/ ReadEvents(p)
         \/ ListNetworks(p) \/ ReadNetwork(p) \/ FinishLoad(p)
  PROVE  SaveInv' /\ LoadInv'
<1>1. LoadInv'
  BY StartKeeps, LayoutKeeps, SettingKeeps, EventsKeep, ListKeeps, NetworkKeeps, FinishKeeps
<1>2. TypeOK /\ proc \in [Processes -> {Idle} \cup SaveProc \cup LoadProc] /\ ~(Saving(p) /\ Loading(p))
      /\ (proc[p] = Idle => ~Saving(p))
  BY Doing DEF IInv, TypeOK
<1>3. /\ UNCHANGED <<files, stages, stuck, sizes, known, completed, crashes>> /\ ~Saving(p)
  BY <1>2 DEF CachedLoad, BeginLoad, CheckLayout, ReadSetting, ReadEvents, ListNetworks,
     ReadNetwork, FinishLoad, saves, budget
<1>4. /\ \A q \in Processes : q # p => proc'[q] = proc[q]
      /\ proc'[p].op # "save"
  <2>1. ASSUME Throws(p) PROVE /\ \A q \in Processes : q # p => proc'[q] = proc[q]
                               /\ proc'[p].op # "save"
    BY <2>1, <1>2 DEF Throws, Idle
  <2>2. CASE CachedLoad(p) \/ BeginLoad(p)
    BY <2>2, <1>2, <1>3 DEF CachedLoad, BeginLoad, Saving
  <2>0. Loading(p) => proc[p] \in LoadProc /\ proc[p].op = "load"
    BY Doing DEF IInv, LoadProc
  <2>3. CASE CheckLayout(p)
    BY <2>0, <2>3, <2>1, <1>2 DEF CheckLayout, LoadProc
  <2>4. CASE ReadSetting(p) \/ ReadEvents(p) \/ ListNetworks(p)
    BY <2>0, <2>4, <2>1, <1>2 DEF ReadSetting, ReadEvents, ListNetworks, LoadProc
  <2>5. CASE ReadNetwork(p)
    BY <2>0, <2>5, <2>1, <1>2 DEF ReadNetwork, LoadProc
  <2>6. CASE FinishLoad(p)
    BY <2>6, <2>1, <1>2 DEF FinishLoad, Idle
  <2>7. QED
    BY <2>2, <2>3, <2>4, <2>5, <2>6
<1>5. SaveInv'
  BY <1>3, <1>4, LoadsKeep DEF Saving
<1>6. QED
  BY <1>1, <1>5

LEMMA StepIInv == IInv /\ [Next]_vars => IInv'
<1> SUFFICES ASSUME IInv, [Next]_vars PROVE IInv'
  OBVIOUS
<1>1. TypeOK' /\ Grows
  BY TypeStep, StoreGrows DEF IInv
<1>2. ASSUME SaveInv', LoadInv' PROVE IInv'
  BY <1>1, <1>2 DEF IInv, SaveInv, LoadInv
<1>3. CASE UNCHANGED vars
  BY <1>3, <1>1 DEF vars, fixed, saves, budget, IInv, OneSaver, SaverInv, SaverAt, Written, Saving,
     Latest, Layers, CompletedKept, CompletedFiles, FilesBelong, StagesInv, LoaderInv, Loading,
     CacheInv, CacheQuiet, AnswersInv, Dead
<1>4. ASSUME NEW p \in Processes, Crash(p) PROVE IInv'
  BY <1>1, <1>2, <1>4, CrashKeeps, CrashKeepsLoads
<1>5. QED
  BY <1>1, <1>2, <1>3, <1>4, SaveStep, LoadStep DEF Next

\* IInv is an invariant of the store.
THEOREM InductiveInvariant == Spec => []IInv
<1>1. Init => IInv
  BY InitIInv
<1>2. IInv /\ [Next]_vars => IInv'
  BY StepIInv
<1>3. QED
  BY <1>1, <1>2, PTL DEF Spec

\* Every variable of the store keeps its type.
THEOREM TypeCorrectness == Spec => []TypeOK
<1>1. IInv => TypeOK
  BY DEF IInv
<1>2. QED
  BY <1>1, InductiveInvariant, PTL

LEMMA AnswerFits ==
  ASSUME IInv, NEW kind, NEW a \in Answers(kind)
  PROVE  /\ Fits(a, sizes, known, Dead, crashes, stuck, directory) /\ a.kind = kind
         /\ kind = "throws" => a.complete \in Nat
<1>1. PICK p \in Processes : a = answer[p] /\ answer[p].kind = kind
  BY DEF Answers
<1>2. answer[p] \in {None} \cup Returned
  BY DEF IInv, TypeOK
<1>3. kind = "throws" => a.complete \in Nat
  BY <1>1, <1>2 DEF None, Returned
<1>4. QED
  BY <1>1, <1>3 DEF IInv, AnswersInv

LEMMA NamesRead ==
  ASSUME NEW v
  PROVE  \A f \in Named : IsRead(v, f) <=> f \in known[v]
BY Constants DEF IsRead, Named

\* Whatever was saved, under whichever file names, failed or crashed between its
\* reads, a load returns requests no older than its events and its setting, the
\* requests those events are about, and events no older than the setting unless
\* that setting's save gave its events a name that loads do not look for.
THEOREM LoadsAreLayered == Spec => []LoadIsLayered
<1>1. IInv => LoadIsLayered
  <2>1. SUFFICES ASSUME IInv PROVE LoadIsLayered
    OBVIOUS
  <2>2. \A a \in Answers("dataset") : Layered(a.data, sizes, known)
    BY <2>1, AnswerFits DEF Fits
  <2>3. QED
    BY <2>2, NamesRead, Constants DEF LoadIsLayered, Layered
<1>2. QED
  BY <1>1, InductiveInvariant, PTL

\* A directory that the cache does not answer for is read at least as new as
\* the last save that had returned when the load began: all of that save's
\* requests, and its events and its setting where loads look for them.
THEOREM PlainLoadsFresh == Spec => []PlainLoadsAreFresh
<1>1. IInv => PlainLoadsAreFresh
  <2>1. SUFFICES ASSUME IInv, directory # "seed_" PROVE PlainLoadsAreFresh
    BY DEF PlainLoadsAreFresh
  <2>2. \A a \in Answers("dataset") : Fresh(a.data, sizes, known, a.complete)
    BY <2>1, AnswerFits DEF Fits
  <2>3. QED
    BY <2>2, NamesRead, Constants DEF PlainLoadsAreFresh, Fresh
<1>2. QED
  BY <1>1, InductiveInvariant, PTL

\* A load after the last save fails only because that save called its events or
\* its setting otherwise than loads do, because of the files of a larger dataset,
\* or because of a staging directory that a crash has left or that could not be
\* removed.
THEOREM CompletedSavesLoad == Spec => []CompletedSaveLoads
<1>1. IInv => CompletedSaveLoads
  <2>1. SUFFICES ASSUME IInv, NEW a \in Answers("throws"), a.complete > 0, a.complete = a.latest
                 PROVE  \/ known[a.complete] # Named
                        \/ \E v \in 1 .. a.complete : sizes[v] > sizes[a.complete]
                        \/ \E v \in stages : v \in stuck \/ (crashes > 0 /\ v < a.complete)
    BY DEF CompletedSaveLoads
  <2>2. Explained(a, sizes, known, Dead, crashes, stuck)
    BY <2>1, AnswerFits DEF Fits
  <2>3. QED
    BY <2>1, <2>2 DEF Explained, Dead
<1>2. QED
  BY <1>1, InductiveInvariant, PTL

\* What a process has loaded from a seed_ directory is what it gets from it
\* until it stops.
THEOREM CacheAnswersAlike == Spec => SeededLoadsAgree
<1> DEFINE Agrees(p) == (directory = "seed_" /\ cache[p] # None /\ answer'[p] # answer[p] /\ answer'[p] # None)
                           => answer'[p].kind = "dataset" /\ answer'[p].data = cache[p]
<1>1. IInv /\ [Next]_vars => [\A p \in Processes : Agrees(p)]_vars
  <2>1. SUFFICES ASSUME IInv, Next, NEW p \in Processes, directory = "seed_", cache[p] # None,
                        answer'[p] # answer[p], answer'[p] # None
                 PROVE  answer'[p].kind = "dataset" /\ answer'[p].data = cache[p]
    OBVIOUS
  <2>2. answer \in [Processes -> {None} \cup Returned] /\ ~Loading(p)
    BY <2>1 DEF IInv, TypeOK, CacheQuiet
  <2>3. PICK q \in Processes :
          \/ \E n \in Requests, names \in SUBSET Named, wide \in BOOLEAN : BeginSave(q, n, names, wide)
          \/ MakeStage(q) \/ Serialize(q) \/ Open(q) \/ Write(q) \/ Unstage(q) \/ SaveFails(q)
          \/ CachedLoad(q) \/ BeginLoad(q) \/ CheckLayout(q) \/ ReadSetting(q)
          \/ ReadEvents(q) \/ ListNetworks(q) \/ ReadNetwork(q) \/ FinishLoad(q)
          \/ Crash(q)
    BY <2>1 DEF Next
  <2>4. CachedLoad(q) \/ Loading(q) \/ Crash(q)
    BY <2>1, <2>3 DEF BeginSave, MakeStage, Serialize, Open, Write, Unstage, SaveFails, BeginLoad,
       CheckLayout, ReadSetting, ReadEvents, ListNetworks, ReadNetwork, FinishLoad
  <2>5. CASE CachedLoad(q)
    BY <2>1, <2>2, <2>5 DEF CachedLoad
  <2>6. CASE Crash(q)
    BY <2>1, <2>2, <2>6 DEF Crash
  <2>7. CASE Loading(q) /\ ~Crash(q) /\ ~CachedLoad(q)
    <3>1. q # p
      BY <2>2, <2>7
    <3>2. answer'[p] = answer[p]
      BY <3>1, <2>1, <2>2, <2>3, <2>7 DEF BeginSave, MakeStage, Serialize, Open, Write, Unstage,
         SaveFails, BeginLoad, CheckLayout, ReadSetting, ReadEvents, ListNetworks, ReadNetwork,
         FinishLoad, Throws
    <3>3. QED
      BY <3>2, <2>1
  <2>8. QED
    BY <2>4, <2>5, <2>6, <2>7
<1>2. QED
  BY <1>1, InductiveInvariant, PTL DEF Spec, SeededLoadsAgree
=============================================================================
