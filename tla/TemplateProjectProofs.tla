------------------------ MODULE TemplateProjectProofs ------------------------
(***************************************************************************)
(* What holds of a project and its template records for any releases, any  *)
(* files, any number of edits and kills: a killed update can be run again, *)
(* generate imports whole implementations, drift is a human's, and detach  *)
(* leaves a trusted implementation trusted.                                *)
(***************************************************************************)
EXTENDS TemplateProject, TLAPS

Copying == {"copyConfig", "copyImplementation", "attach"}
Recording == {"manifest", "trust"}

\* Which command is at which step, and what it relies on.
StepOK ==
    /\ At("idle") => run.op = "none"
    /\ run.pc \in Copying => run.op = "copy" /\ manifest = Absent
    /\ At("files") => run.op = "apply"
    /\ run.pc \in Recording => run.op \in {"copy", "apply", "trust"}
    /\ run.op \in {"copy", "apply"} => run.v \in Release
    /\ At("record") => run.op \in {"acceptCandidate", "deleteCurrent"} /\ run.path \in Path
                       /\ manifest # Absent
    /\ run.pc \in {"untrust", "unlink"} => run.op = "detach" /\ manifest = Absent
    /\ At("import") => run.op = "generate"
    /\ run.pc \notin {"idle", "copyConfig"} => Exists

\* A copy carries the implementation of its release, from CopyImplementation on.
CopyOK ==
    run.op = "copy" =>
        /\ run.pc \in {"copyImplementation", "attach"} \cup Recording => (Settings.impl => Executable(run.v))
        /\ run.pc \in {"attach"} \cup Recording => \A f \in Impl : disk[f] = Ships[run.v][f]

\* At every step of an update what is left of it could be run again.
ApplyOK ==
    run.op = "apply" =>
        /\ Applicable(run.v)
        /\ At("files") => /\ Planned(run.v) \subseteq run.todo
                          /\ \A p \in run.todo : Candidate(run.v)[p] # Absent
        /\ ~At("files") => Planned(run.v) = {}

ResumeOK ==
    unsettled # Absent =>
        /\ Applicable(unsettled)
        /\ At("idle") \/ (run.op = "apply" /\ run.v = unsettled)

\* The record of an implementation nobody reviewed is that of a whole one.
Whole(files) ==
    \E v \in Release : Executable(v) /\ \A f \in Impl : Ships[v][f] # Absent => files[f] = Ships[v][f]
TrustOK ==
    /\ trust # Absent /\ ~reviewed => Whole(trust.files)
    /\ At("import") => trust # Absent /\ trust.files = Implementation

\* Between commands, what drifted was changed by a human; a command that was
\* not killed is about to record what it changed.
DriftOK ==
    \/ kills > 0
    \/ run.pc \in {"files", "manifest"}
    \/ \A p \in Path : Drifted(p) => p \in handmade \/ (At("record") /\ run.path = p)

IInv == TypeOK /\ StepOK /\ CopyOK /\ ApplyOK /\ ResumeOK /\ TrustOK /\ DriftOK
-----------------------------------------------------------------------------
\* A text is no configuration; the absence of a file is neither.
LEMMA Kinds ==
    /\ \A v \in Release : ConfigOf(v) \in Config /\ ConfigOf(v) # Absent
    /\ \A c \in Config : c.version \in Release \cup {Absent} /\ c.impl \in BOOLEAN
    /\ \A v \in Release, f \in Topo \cup Impl : Ships[v][f] \in Content
    /\ ProjectFile \notin Topo \cup Impl /\ Topo \cap Impl = {}
    /\ Absent \notin Release /\ Absent \notin Config /\ Absent \notin Local
    /\ Content \cap Config = {} /\ Local \subseteq Content /\ Absent \in Content
  <1>1. \A v \in Release : ConfigOf(v) \in Config
    BY DEF ConfigOf, Config, Executable
  <1>2. \A c \in Config : c.version \in Release \cup {Absent} /\ c.impl \in BOOLEAN
    BY DEF Config
  <1>3. \A v \in Release, f \in Topo \cup Impl : Ships[v][f] \in Content
    BY PathsAssumption DEF Content
  <1>4. Absent \notin Release /\ Absent \notin Config /\ Absent \notin Local
    BY PathsAssumption, ContentAssumption
  <1>5. Content \cap Config = {} /\ Local \subseteq Content /\ Absent \in Content
    BY PathsAssumption, ContentAssumption DEF Content
  <1> QED
    BY <1>1, <1>2, <1>3, <1>4, <1>5, PathsAssumption

\* What the candidate writes on a path.
LEMMA CandidateIs ==
    ASSUME NEW v \in Release, NEW p \in Path
    PROVE  /\ Candidate(v)[p] = IF p = ProjectFile THEN ConfigOf(v) ELSE Ships[v][p]
           /\ p # ProjectFile => Candidate(v)[p] \in Content
           /\ p = ProjectFile => Candidate(v)[p] \in Config
           /\ Candidate(v)[p] # Absent /\ p \in Impl => Executable(v)
  BY Kinds DEF Candidate, Path, Executable

\* What a snapshot holds.
LEMMA SnapshotIs ==
    ASSUME NEW s
    PROVE  s \in Snapshot <=>
               /\ s \in [Path -> Content \cup Config]
               /\ s[ProjectFile] \in Config \cup {Absent}
               /\ \A f \in Topo \cup Impl : s[f] \in Content
  <1>1. ASSUME s \in [Path -> Content \cup Config]
        PROVE  /\ s[ProjectFile] \notin Text <=> s[ProjectFile] \in Config \cup {Absent}
               /\ \A f \in Topo \cup Impl : s[f] \notin Config <=> s[f] \in Content
    BY <1>1, Kinds, ContentAssumption, PathsAssumption DEF Content, Path
  <1> QED
    BY <1>1 DEF Snapshot

LEMMA SnapshotWritten ==
    ASSUME NEW s \in Snapshot, NEW p \in Path, NEW c,
           p = ProjectFile => c \in Config \cup {Absent},
           p # ProjectFile => c \in Content
    PROVE  [s EXCEPT ![p] = c] \in Snapshot
  BY SnapshotIs, Kinds DEF Path, Content

LEMMA SnapshotExists ==
    ASSUME NEW s \in Snapshot
    PROVE  /\ s # Absent
           /\ \A p \in Path : /\ p = ProjectFile => s[p] \in Config \cup {Absent}
                             /\ p # ProjectFile => s[p] \in Content
  <1>1. s \in [Path -> Text \cup {Absent} \cup Config]
    BY SnapshotIs DEF Content
  <1> QED
    BY <1>1, SnapshotIs, ContentAssumption DEF Path

\* A file is planned when the candidate ships it and it is not there.
LEMMA PlannedIs ==
    ASSUME NEW v, NEW p \in Path
    PROVE  p \in Planned(v) <=> /\ Candidate(v)[p] # Absent
                               /\ Owned(Includes \/ Executable(v))[p] # Candidate(v)[p]
  BY DEF Planned, Kind

LEMMA OwnedIs ==
    ASSUME NEW b, NEW p \in Path
    PROVE  Owned(b)[p] = IF p \in Impl /\ ~b THEN Absent ELSE disk[p]
  BY DEF Owned

\* A snapshot without the implementation is one too.
LEMMA OwnedIsSnapshot ==
    ASSUME NEW b \in BOOLEAN, disk \in Snapshot
    PROVE  Owned(b) \in Snapshot
  BY SnapshotIs, Kinds DEF Owned, Path

\* Nothing that is computed from the files changes when they do not.
LEMMA SameFiles ==
    ASSUME disk' = disk
    PROVE  /\ \A v : Planned(v)' = Planned(v)
           /\ OwnedNow' = OwnedNow /\ Includes' = Includes
           /\ Implementation' = Implementation /\ HasImplementation' = HasImplementation
           /\ Settings' = Settings /\ Exists' = Exists /\ Attached' = Attached
  BY DEF Planned, Kind, Owned, OwnedNow, Includes, Implementation, HasImplementation, Settings,
         Exists, Attached, Candidate, ConfigOf, Executable

LEMMA SameBaseline ==
    ASSUME disk' = disk, manifest' = manifest
    PROVE  /\ \A v : Applicable(v)' = Applicable(v)
           /\ \A p : Drifted(p)' = Drifted(p)
  BY SameFiles DEF Applicable, Conflicts, MatchesBaseline, PlanOk, Drifted

\* What applicable means, conflict by conflict.
LEMMA ApplicableIs ==
    ASSUME NEW v
    PROVE  Applicable(v) <=> /\ Attached /\ v \notin Refused /\ manifest # Absent
                            /\ \A p \in Planned(v) : manifest[p] = OwnedNow[p]
  BY DEF Applicable, Conflicts, MatchesBaseline, PlanOk, Planned

\* Without a baseline nothing drifts and nothing is applicable.
LEMMA NoBaseline ==
    ASSUME manifest = Absent
    PROVE  \A p : ~Drifted(p) /\ ~Applicable(p)
  BY DEF Drifted, Applicable
-----------------------------------------------------------------------------

LEMMA CopyStep ==
    ASSUME IInv, NEW v \in Release, Copy(v)
    PROVE  IInv'
  <1>0. TypeOK /\ StepOK /\ CopyOK /\ ApplyOK /\ ResumeOK /\ TrustOK /\ DriftOK /\ Copy(v)
    BY DEF IInv
  <1>r. /\ run' \in Running
        /\ run'.pc = "copyConfig" /\ run'.op = "copy" /\ run'.v = v
        /\ run'.todo = {} /\ run'.path = Absent
    BY <1>0, PathsAssumption DEF Copy, TypeOK, Running, At, Goto, Stop, Start, Idle
  <1>a. disk' \in Snapshot
    BY <1>0, SnapshotIs, Kinds DEF Copy, Path
  <1>b. unsettled = Absent /\ manifest = Absent /\ manifest' = Absent /\ \A w : ~Applicable(w)
    BY <1>0, NoBaseline DEF Copy, ResumeOK, records
  <1>c. \A p : ~Drifted(p)'
    BY <1>b DEF Drifted
  <1>1. TypeOK'
    BY <1>0, <1>r, Kinds, PathsAssumption, <1>a DEF Copy, vars, records, bounds, history, At, Start, TypeOK, Unsettle
  <1>2. StepOK'
    BY <1>0, <1>r, SameFiles, <1>b DEF Copy, vars, records, bounds, history, At, Start, StepOK, Copying, Recording, At
  <1>3. CopyOK'
    BY <1>0, <1>r, SameFiles DEF Copy, vars, records, bounds, history, At, Start, CopyOK, StepOK, Copying, Recording, At
  <1>4. ApplyOK'
    BY <1>0, <1>r, SameFiles, SameBaseline DEF Copy, vars, records, bounds, history, At, Start, ApplyOK, StepOK, Copying, Recording, At
  <1>5. ResumeOK'
    BY <1>0, <1>r, SameFiles, SameBaseline, <1>b DEF Copy, vars, records, bounds, history, At, Start, ResumeOK, Unsettle, StepOK, Copying, Recording, At
  <1>6. TrustOK'
    BY <1>0, <1>r, SameFiles DEF Copy, vars, records, bounds, history, At, Start, TrustOK, Whole, StepOK, Copying, Recording, At
  <1>7. DriftOK'
    BY <1>0, <1>r, SameBaseline, PathsAssumption, <1>c DEF Copy, vars, records, bounds, history, At, Start, DriftOK, TypeOK, StepOK, Copying, Recording, At
  <1> QED
    BY <1>1, <1>2, <1>3, <1>4, <1>5, <1>6, <1>7 DEF IInv

LEMMA CopyConfigStep ==
    ASSUME IInv, CopyConfig
    PROVE  IInv'
  <1>0. TypeOK /\ StepOK /\ CopyOK /\ ApplyOK /\ ResumeOK /\ TrustOK /\ DriftOK /\ CopyConfig
    BY DEF IInv
  <1>r. /\ run' \in Running
        /\ run'.pc = "copyImplementation" /\ run'.op = run.op /\ run'.v = run.v
        /\ run'.todo = run.todo /\ run'.path = run.path
    BY <1>0, PathsAssumption DEF CopyConfig, TypeOK, Running, At, Goto, Stop, Start, Idle
  <1>a. run.v \in Release /\ manifest = Absent /\ manifest' = Absent
    BY <1>0 DEF StepOK, Copying, CopyConfig, At, records
  <1>b. [ConfigOf(run.v) EXCEPT !.version = Absent] \in Config
    BY <1>a, Kinds DEF Config
  <1>c. disk' \in Snapshot /\ Exists' /\ Settings'.impl = Executable(run.v)
    <2> DEFINE c == [ConfigOf(run.v) EXCEPT !.version = Absent]
    <2>1. c \in Config /\ c.impl = Executable(run.v)
      BY <1>a, Kinds DEF ConfigOf, Config
    <2>2. disk' = [disk EXCEPT ![ProjectFile] = c] /\ ProjectFile \in Path
      BY <1>0 DEF CopyConfig, Path
    <2> HIDE DEF c
    <2>3. disk' \in Snapshot /\ disk'[ProjectFile] = c
      BY <1>0, <2>1, <2>2, SnapshotWritten, SnapshotIs DEF TypeOK
    <2> QED
      BY <2>1, <2>3, Kinds DEF Exists, Settings
  <1>d. unsettled = Absent /\ \A p : ~Drifted(p)'
    BY <1>0, <1>a, NoBaseline DEF ResumeOK, Drifted
  <1>1. TypeOK'
    BY <1>0, <1>r, Kinds, PathsAssumption, <1>c DEF CopyConfig, vars, records, bounds, history, At, Start, TypeOK, Unsettle
  <1>2. StepOK'
    BY <1>0, <1>r, SameFiles, <1>a, <1>c DEF CopyConfig, vars, records, bounds, history, At, Start, StepOK, Copying, Recording, At
  <1>3. CopyOK'
    BY <1>0, <1>r, SameFiles, <1>c DEF CopyConfig, vars, records, bounds, history, At, Start, CopyOK, StepOK, Copying, Recording, At
  <1>4. ApplyOK'
    BY <1>0, <1>r, SameFiles, SameBaseline DEF CopyConfig, vars, records, bounds, history, At, Start, ApplyOK, StepOK, Copying, Recording, At
  <1>5. ResumeOK'
    BY <1>0, <1>r, SameFiles, SameBaseline, <1>d DEF CopyConfig, vars, records, bounds, history, At, Start, ResumeOK, Unsettle, StepOK, Copying, Recording, At
  <1>6. TrustOK'
    BY <1>0, <1>r, SameFiles DEF CopyConfig, vars, records, bounds, history, At, Start, TrustOK, Whole, StepOK, Copying, Recording, At
  <1>7. DriftOK'
    BY <1>0, <1>r, SameBaseline, PathsAssumption, <1>d DEF CopyConfig, vars, records, bounds, history, At, Start, DriftOK, TypeOK, StepOK, Copying, Recording, At
  <1> QED
    BY <1>1, <1>2, <1>3, <1>4, <1>5, <1>6, <1>7 DEF IInv

LEMMA CopyImplementationStep ==
    ASSUME IInv, CopyImplementation
    PROVE  IInv'
  <1>0. TypeOK /\ StepOK /\ CopyOK /\ ApplyOK /\ ResumeOK /\ TrustOK /\ DriftOK /\ CopyImplementation
    BY DEF IInv
  <1>r. /\ run' \in Running
        /\ run'.pc = "attach" /\ run'.op = run.op /\ run'.v = run.v
        /\ run'.todo = run.todo /\ run'.path = run.path
    BY <1>0, PathsAssumption DEF CopyImplementation, TypeOK, Running, At, Goto, Stop, Start, Idle
  <1>a. run.v \in Release /\ manifest = Absent /\ manifest' = Absent /\ run.op = "copy"
    BY <1>0 DEF StepOK, Copying, CopyImplementation, At, records
  <1>b. disk' \in Snapshot
    BY <1>0, <1>a, SnapshotIs, Kinds DEF CopyImplementation, TypeOK, Path
  <1>c. /\ Settings' = Settings /\ Exists'
        /\ \A f \in Impl : disk'[f] = Ships[run.v][f]
    BY <1>0, <1>a, Kinds DEF CopyImplementation, StepOK, At, Path, Exists, Settings
  <1>d. unsettled = Absent /\ \A p : ~Drifted(p)'
    BY <1>0, <1>a, NoBaseline DEF ResumeOK, Drifted
  <1>1. TypeOK'
    BY <1>0, <1>r, Kinds, PathsAssumption, <1>b DEF CopyImplementation, vars, records, bounds, history, At, Start, TypeOK, Unsettle
  <1>2. StepOK'
    BY <1>0, <1>r, SameFiles, <1>a, <1>c DEF CopyImplementation, vars, records, bounds, history, At, Start, StepOK, Copying, Recording, At
  <1>3. CopyOK'
    BY <1>0, <1>r, SameFiles, <1>a, <1>c DEF CopyImplementation, vars, records, bounds, history, At, Start, CopyOK, StepOK, Copying, Recording, At
  <1>4. ApplyOK'
    BY <1>0, <1>r, SameFiles, SameBaseline, <1>a DEF CopyImplementation, vars, records, bounds, history, At, Start, ApplyOK, StepOK, Copying, Recording, At
  <1>5. ResumeOK'
    BY <1>0, <1>r, SameFiles, SameBaseline, <1>d DEF CopyImplementation, vars, records, bounds, history, At, Start, ResumeOK, Unsettle, StepOK, Copying, Recording, At
  <1>6. TrustOK'
    BY <1>0, <1>r, SameFiles DEF CopyImplementation, vars, records, bounds, history, At, Start, TrustOK, Whole, StepOK, Copying, Recording, At
  <1>7. DriftOK'
    BY <1>0, <1>r, SameBaseline, PathsAssumption, <1>d DEF CopyImplementation, vars, records, bounds, history, At, Start, DriftOK, TypeOK, StepOK, Copying, Recording, At
  <1> QED
    BY <1>1, <1>2, <1>3, <1>4, <1>5, <1>6, <1>7 DEF IInv

LEMMA AttachStep ==
    ASSUME IInv, Attach
    PROVE  IInv'
  <1>0. TypeOK /\ StepOK /\ CopyOK /\ ApplyOK /\ ResumeOK /\ TrustOK /\ DriftOK /\ Attach
    BY DEF IInv
  <1>r. /\ run' \in Running
        /\ run'.pc = "manifest" /\ run'.op = run.op /\ run'.v = run.v
        /\ run'.todo = run.todo /\ run'.path = run.path
    BY <1>0, PathsAssumption DEF Attach, TypeOK, Running, At, Goto, Stop, Start, Idle
  <1>a. run.v \in Release /\ manifest = Absent /\ manifest' = Absent /\ run.op = "copy" /\ Exists
    BY <1>0 DEF StepOK, Copying, Attach, At, records
  <1>b. Settings \in Config
    BY <1>0, <1>a, SnapshotIs DEF TypeOK, Exists, Settings
  <1>c. /\ disk' = [disk EXCEPT ![ProjectFile] = [Settings EXCEPT !.version = run.v]]
        /\ [Settings EXCEPT !.version = run.v] \in Config
    BY <1>0, <1>a, <1>b DEF Attach, Settings, Config
  <1>d. disk' \in Snapshot
    BY <1>0, <1>c, SnapshotWritten DEF TypeOK, Path
  <1>e. /\ Settings'.impl = Settings.impl /\ Exists'
        /\ \A f \in Impl : disk'[f] = disk[f]
    BY <1>0, <1>b, <1>c, SnapshotIs, Kinds DEF TypeOK, Path, Exists, Settings, Config
  <1>f. unsettled = Absent /\ \A p : ~Drifted(p)'
    BY <1>0, <1>a, NoBaseline DEF ResumeOK, Drifted
  <1>1. TypeOK'
    BY <1>0, <1>r, Kinds, PathsAssumption, <1>d DEF Attach, vars, records, bounds, history, At, Start, TypeOK, Unsettle
  <1>2. StepOK'
    BY <1>0, <1>r, SameFiles, <1>a, <1>e DEF Attach, vars, records, bounds, history, At, Start, StepOK, Copying, Recording, At
  <1>3. CopyOK'
    BY <1>0, <1>r, SameFiles, <1>a, <1>e DEF Attach, vars, records, bounds, history, At, Start, CopyOK, StepOK, Copying, Recording, At
  <1>4. ApplyOK'
    BY <1>0, <1>r, SameFiles, SameBaseline, <1>a DEF Attach, vars, records, bounds, history, At, Start, ApplyOK, StepOK, Copying, Recording, At
  <1>5. ResumeOK'
    BY <1>0, <1>r, SameFiles, SameBaseline, <1>f DEF Attach, vars, records, bounds, history, At, Start, ResumeOK, Unsettle, StepOK, Copying, Recording, At
  <1>6. TrustOK'
    BY <1>0, <1>r, SameFiles DEF Attach, vars, records, bounds, history, At, Start, TrustOK, Whole, StepOK, Copying, Recording, At
  <1>7. DriftOK'
    BY <1>0, <1>r, SameBaseline, PathsAssumption, <1>f DEF Attach, vars, records, bounds, history, At, Start, DriftOK, TypeOK, StepOK, Copying, Recording, At
  <1> QED
    BY <1>1, <1>2, <1>3, <1>4, <1>5, <1>6, <1>7 DEF IInv

LEMMA ApplyStep ==
    ASSUME IInv, NEW v \in Release, Apply(v)
    PROVE  IInv'
  <1>0. /\ TypeOK /\ StepOK /\ CopyOK /\ ApplyOK /\ ResumeOK /\ TrustOK /\ DriftOK
        /\ At("idle") /\ Applicable(v) /\ Begin(v)
        /\ UNCHANGED <<disk, manifest, trust, edits, kills, accepted, reviewed, handmade>>
    BY DEF IInv, Apply, records, bounds, Start
  <1>1. Exists /\ Applicable(v)'
    BY <1>0, SameBaseline DEF Applicable, Attached
  <1>2. unsettled' \in {v, Absent}
    BY <1>0 DEF Begin
  <1>3. \A p \in Path : Drifted(p)' => Drifted(p)
    BY <1>0, SameBaseline
  <1>4. CASE Planned(v) = {}
    <2>1. run' \in Running /\ run'.pc = "idle" /\ run'.op = "none"
      BY <1>0, <1>4 DEF Begin, Stop, Idle, Running
    <2>2. TypeOK'
      BY <1>0, <1>2, <2>1 DEF TypeOK
    <2>3. ResumeOK'
      BY <1>1, <1>2, <2>1 DEF ResumeOK, At
    <2>4. StepOK' /\ CopyOK' /\ ApplyOK'
      BY <2>1 DEF StepOK, CopyOK, ApplyOK, At, Copying, Recording
    <2>5. TrustOK' /\ DriftOK'
      BY <1>0, <1>3, <2>1 DEF TrustOK, DriftOK, At, Whole
    <2> QED
      BY <2>2, <2>3, <2>4, <2>5 DEF IInv
  <1>5. CASE Planned(v) # {}
    <2>1. /\ run'.pc = "files" /\ run'.op = "apply" /\ run'.v = v
          /\ run'.todo = Planned(v) /\ run'.path = Absent
          /\ run' = [pc |-> "files", op |-> "apply", v |-> v, todo |-> Planned(v), path |-> Absent]
      BY <1>0, <1>5 DEF Begin, Idle
    <2>2. run' \in Running /\ Planned(v) \subseteq Path
      BY <2>1 DEF Running, Planned
    <2>3. TypeOK'
      BY <1>0, <1>2, <2>2 DEF TypeOK
    <2>4. StepOK'
      BY <1>0, <1>1, <2>1, SameFiles DEF StepOK, At, Copying, Recording
    <2>5. CopyOK' /\ ResumeOK' /\ TrustOK' /\ DriftOK'
      BY <1>0, <1>1, <1>2, <2>1 DEF CopyOK, ResumeOK, TrustOK, DriftOK, At, Whole
    <2>6. ApplyOK'
      <3>1. Planned(v)' = Planned(v)
        BY <1>0, SameFiles
      <3>2. \A p \in Planned(v) : Candidate(v)[p] # Absent
        BY <2>2, PlannedIs
      <3>3. Candidate(v)' = Candidate(v)
        BY DEF Candidate, ConfigOf, Executable
      <3> QED
        BY <1>1, <2>1, <3>1, <3>2, <3>3 DEF ApplyOK, At
    <2> QED
      BY <2>3, <2>4, <2>5, <2>6 DEF IInv
  <1> QED
    BY <1>4, <1>5

\* What is left of an update stays applicable when one of its files is written,
\* the configuration after all others.
LEMMA WrittenStaysApplicable ==
    ASSUME TypeOK, NEW v \in Release, Applicable(v), NEW todo \in SUBSET Path,
           Planned(v) \subseteq todo, NEW p \in todo,
           \A q \in todo : Rank[p] <= Rank[q],
           Candidate(v)[p] # Absent, manifest' = manifest,
           disk' = [disk EXCEPT ![p] = Candidate(v)[p]]
    PROVE  Applicable(v)' /\ Planned(v)' \subseteq todo \ {p}
  <1>1. /\ disk \in [Path -> Content \cup Config] /\ p \in Path
        /\ \A q \in Path : disk'[q] = IF q = p THEN Candidate(v)[p] ELSE disk[q]
    BY SnapshotIs DEF TypeOK
  <1>2. /\ Attached /\ v \notin Refused /\ manifest # Absent
        /\ \A q \in Planned(v) : manifest[q] = OwnedNow[q]
    BY ApplicableIs
  <1>3. /\ Candidate(v)' = Candidate(v) /\ Executable(v)' = Executable(v)
        /\ ConfigOf(v)' = ConfigOf(v)
    BY DEF Candidate, ConfigOf, Executable
  <1>4. \A q \in Path : q \in Planned(v)' <=>
            /\ Candidate(v)[q] # Absent
            /\ (IF q \in Impl /\ ~(Includes' \/ Executable(v)) THEN Absent ELSE disk'[q]) # Candidate(v)[q]
    BY <1>3 DEF Planned, Kind, Owned
  <1>5. \A q \in Path : Candidate(v)[q] # Absent /\ q \in Impl => Executable(v)
    BY CandidateIs
  <1>6. \A q \in Path : q \in Planned(v)' <=> Candidate(v)[q] # Absent /\ disk'[q] # Candidate(v)[q]
    BY <1>4, <1>5
  <1>7. \A q \in Path : q \in Planned(v) <=> Candidate(v)[q] # Absent /\ disk[q] # Candidate(v)[q]
    BY <1>5, PlannedIs, OwnedIs
  <1>8. Planned(v)' \subseteq Planned(v) \ {p}
    <2>1. Planned(v)' \subseteq Path
      BY DEF Planned, Path
    <2> QED
      BY <1>1, <1>6, <1>7, <2>1
  <1>9. CASE p # ProjectFile
    <2>1. Settings' = Settings /\ Includes' = Includes /\ Attached'
      BY <1>1, <1>2, <1>9 DEF Settings, Includes, Attached, Exists, Path, Executable
    <2>2. \A q \in Planned(v)' : OwnedNow'[q] = OwnedNow[q]
      BY <1>1, <1>8, <2>1 DEF OwnedNow, Owned, Planned
    <2>3. Applicable(v)'
      BY <1>2, <1>8, <2>1, <2>2 DEF Applicable, Conflicts, MatchesBaseline, PlanOk
    <2> QED
      BY <1>8, <2>3
  <1>10. CASE p = ProjectFile
    <2>1. todo = {p}
      BY <1>10, PathsAssumption DEF Path
    <2>2. Planned(v)' = {}
      BY <1>8, <2>1
    <2>3. Settings' = ConfigOf(v)
      BY <1>1, <1>10, CandidateIs DEF Settings
    <2>4. Attached'
      BY <2>3, Kinds DEF Attached, Exists, ConfigOf
    <2> QED
      BY <1>2, <2>2, <2>4 DEF Applicable, Conflicts, MatchesBaseline, PlanOk
  <1> QED
    BY <1>9, <1>10

LEMMA ApplyFileStep ==
    ASSUME IInv, ApplyFile
    PROVE  IInv'
  <1>0. /\ TypeOK /\ StepOK /\ CopyOK /\ ApplyOK /\ ResumeOK /\ TrustOK /\ DriftOK
        /\ At("files") /\ run.op = "apply" /\ run.v \in Release
        /\ UNCHANGED <<manifest, trust, edits, kills, accepted, reviewed, unsettled>>
    BY DEF IInv, ApplyFile, records, bounds, StepOK, At
  <1>1. PICK p \in run.todo :
            /\ \A q \in run.todo : Rank[p] <= Rank[q]
            /\ disk' = [disk EXCEPT ![p] = Candidate(run.v)[p]]
            /\ handmade' = handmade \ {p}
            /\ run' = [run EXCEPT !.todo = @ \ {p}, !.pc = IF run.todo = {p} THEN "manifest" ELSE @]
    BY DEF ApplyFile, Write
  <1>2. /\ run.todo \in SUBSET Path /\ p \in Path
        /\ Candidate(run.v)[p] # Absent /\ Applicable(run.v) /\ Planned(run.v) \subseteq run.todo
    BY <1>0 DEF TypeOK, Running, ApplyOK
  <1>3. /\ run' \in Running /\ run'.op = "apply" /\ run'.v = run.v /\ run'.todo = run.todo \ {p}
        /\ run'.pc = IF run.todo = {p} THEN "manifest" ELSE "files"
    BY <1>0, <1>1, <1>2 DEF TypeOK, Running, At
  <1>4. \A v : v = run.v => Applicable(v)' /\ Planned(v)' \subseteq run.todo \ {p}
    BY <1>0, <1>1, <1>2, WrittenStaysApplicable
  <1>5. TypeOK'
    <2>1. /\ p = ProjectFile => Candidate(run.v)[p] \in Config \cup {Absent}
          /\ p # ProjectFile => Candidate(run.v)[p] \in Content
      BY <1>0, <1>2, CandidateIs
    <2>2. disk' \in Snapshot
      BY <1>0, <1>1, <1>2, <2>1, SnapshotWritten DEF TypeOK
    <2> QED
      BY <1>0, <1>1, <1>3, <2>2 DEF TypeOK
  <1>6. StepOK'
    BY <1>0, <1>3, <1>4 DEF StepOK, At, Copying, Recording, Applicable, Attached
  <1>7. CopyOK' /\ TrustOK' /\ DriftOK'
    BY <1>0, <1>3 DEF CopyOK, TrustOK, DriftOK, At, Whole
  <1>8. ApplyOK'
    <2>1. Candidate(run.v)' = Candidate(run.v) /\ run'.v = run.v
      BY <1>3 DEF Candidate, ConfigOf, Executable
    <2>2. \A q \in run.todo : Candidate(run.v)[q] # Absent
      BY <1>0 DEF ApplyOK
    <2> QED
      BY <1>3, <1>4, <2>1, <2>2 DEF ApplyOK, At
  <1>9. ResumeOK'
    BY <1>0, <1>3, <1>4 DEF ResumeOK, At
  <1> QED
    BY <1>5, <1>6, <1>7, <1>8, <1>9 DEF IInv

LEMMA WriteManifestStep ==
    ASSUME IInv, WriteManifest
    PROVE  IInv'
  <1>0. TypeOK /\ StepOK /\ CopyOK /\ ApplyOK /\ ResumeOK /\ TrustOK /\ DriftOK /\ WriteManifest
    BY DEF IInv
  <1>r. /\ run' \in Running
        /\ run'.pc = "trust" /\ run'.op = run.op /\ run'.v = run.v
        /\ run'.todo = run.todo /\ run'.path = run.path
    BY <1>0, PathsAssumption DEF WriteManifest, TypeOK, Running, At, Goto, Stop, Start, Idle
  <1>a. manifest' = OwnedNow /\ disk' = disk /\ Exists /\ Includes \in BOOLEAN
    BY <1>0, SnapshotIs, Kinds DEF WriteManifest, StepOK, At, TypeOK, Exists, Settings, Includes
  <1>b. OwnedNow \in Snapshot /\ OwnedNow # Absent
    BY <1>0, <1>a, OwnedIsSnapshot, SnapshotExists DEF TypeOK, OwnedNow
  <1>c. \A v : Attached /\ v \notin Refused => Applicable(v)'
    BY <1>a, <1>b, SameFiles DEF Applicable, Conflicts, MatchesBaseline, PlanOk
  <1>d. \A v : Applicable(v) => Applicable(v)'
    BY <1>c, ApplicableIs
  <1>e. \A p \in Path : ~Drifted(p)'
    BY <1>a, OwnedIs DEF Drifted, OwnedNow
  <1>1. TypeOK'
    BY <1>0, <1>r, Kinds, PathsAssumption, <1>b DEF WriteManifest, vars, records, bounds, history, At, Start, TypeOK, Unsettle
  <1>2. StepOK'
    BY <1>0, <1>r, SameFiles DEF WriteManifest, vars, records, bounds, history, At, Start, StepOK, Copying, Recording, At
  <1>3. CopyOK'
    BY <1>0, <1>r, SameFiles DEF WriteManifest, vars, records, bounds, history, At, Start, CopyOK, StepOK, Copying, Recording, At
  <1>4. ApplyOK'
    BY <1>0, <1>r, SameFiles, SameBaseline, <1>a, <1>d DEF WriteManifest, vars, records, bounds, history, At, Start, ApplyOK, StepOK, Copying, Recording, At
  <1>5. ResumeOK'
    BY <1>0, <1>r, SameFiles, SameBaseline, <1>a, <1>d DEF WriteManifest, vars, records, bounds, history, At, Start, ResumeOK, Unsettle, StepOK, Copying, Recording, At
  <1>6. TrustOK'
    BY <1>0, <1>r, SameFiles DEF WriteManifest, vars, records, bounds, history, At, Start, TrustOK, Whole, StepOK, Copying, Recording, At
  <1>7. DriftOK'
    BY <1>0, <1>r, SameBaseline, PathsAssumption, <1>e DEF WriteManifest, vars, records, bounds, history, At, Start, DriftOK, TypeOK, StepOK, Copying, Recording, At
  <1> QED
    BY <1>1, <1>2, <1>3, <1>4, <1>5, <1>6, <1>7 DEF IInv

LEMMA WriteTrustStep ==
    ASSUME IInv, WriteTrust
    PROVE  IInv'
  <1>0. TypeOK /\ StepOK /\ CopyOK /\ ApplyOK /\ ResumeOK /\ TrustOK /\ DriftOK /\ WriteTrust
    BY DEF IInv
  <1>r. /\ run' \in Running
        /\ run'.pc = "idle" /\ run'.op = "none" /\ run'.v = Absent
        /\ run'.todo = {} /\ run'.path = Absent
    BY <1>0, PathsAssumption DEF WriteTrust, TypeOK, Running, At, Goto, Stop, Start, Idle
  <1>a. Exists /\ Settings \in Config
    BY <1>0, SnapshotIs DEF WriteTrust, StepOK, At, TypeOK, Exists, Settings
  <1>b. TrustRecord \in [version : Release \cup {Absent}, files : [Impl -> Content]]
    BY <1>0, <1>a, SnapshotIs, Kinds DEF TrustRecord, Implementation, TypeOK, Path
  <1>c. ASSUME run.op = "copy", Settings.impl
        PROVE  Whole(Implementation)
    BY <1>0, <1>c DEF CopyOK, StepOK, WriteTrust, At, Recording, Whole, Implementation
  <1>d. ASSUME run.op = "apply", Settings.impl
        PROVE  Whole(Implementation)
    <2>1. run.v \in Release /\ Planned(run.v) = {}
      BY <1>0, <1>d DEF ApplyOK, StepOK, WriteTrust, At
    <2>2. Settings = ConfigOf(run.v)
      BY <1>a, <2>1, PlannedIs, CandidateIs, OwnedIs, Kinds DEF Path, Settings
    <2>3. Executable(run.v)
      BY <1>d, <2>2 DEF ConfigOf
    <2>4. \A f \in Impl : Ships[run.v][f] # Absent => disk[f] = Ships[run.v][f]
      BY <2>1, <2>3, PlannedIs, CandidateIs, OwnedIs, Kinds DEF Path
    <2> QED
      BY <2>1, <2>3, <2>4 DEF Whole, Implementation
  <1>1. TypeOK'
    BY <1>0, <1>r, Kinds, PathsAssumption, <1>b DEF WriteTrust, vars, records, bounds, history, At, Start, TypeOK, Unsettle
  <1>2. StepOK'
    BY <1>0, <1>r, SameFiles DEF WriteTrust, vars, records, bounds, history, At, Start, StepOK, Copying, Recording, At
  <1>3. CopyOK'
    BY <1>0, <1>r, SameFiles DEF WriteTrust, vars, records, bounds, history, At, Start, CopyOK, StepOK, Copying, Recording, At
  <1>4. ApplyOK'
    BY <1>0, <1>r, SameFiles, SameBaseline DEF WriteTrust, vars, records, bounds, history, At, Start, ApplyOK, StepOK, Copying, Recording, At
  <1>5. ResumeOK'
    BY <1>0, <1>r, SameFiles, SameBaseline DEF WriteTrust, vars, records, bounds, history, At, Start, ResumeOK, Unsettle, StepOK, Copying, Recording, At
  <1>6. TrustOK'
    <2>1. run.op \in {"copy", "apply", "trust"} /\ ~At("import")' /\ disk' = disk
      BY <1>0, <1>r DEF WriteTrust, StepOK, At, Recording
    <2>2. CASE Settings.impl /\ HasImplementation
      <3>0. trust' = TrustRecord /\ reviewed' = (run.op = "trust")
        BY <1>0, <2>2 DEF WriteTrust
      <3>1. trust'.files = Implementation /\ (reviewed' <=> run.op = "trust")
        BY <3>0 DEF TrustRecord
      <3>2. run.op # "trust" => Whole(Implementation)
        BY <1>c, <1>d, <2>1, <2>2
      <3>3. run.op # "trust" => Whole(trust'.files)
        BY <3>1, <3>2
      <3> QED
        BY <2>1, <3>1, <3>3 DEF TrustOK, Whole
    <2>3. CASE ~(Settings.impl /\ HasImplementation)
      BY <1>0, <2>1, <2>3 DEF WriteTrust, TrustOK, Whole
    <2> QED
      BY <2>2, <2>3
  <1>7. DriftOK'
    BY <1>0, <1>r, SameBaseline, PathsAssumption DEF WriteTrust, vars, records, bounds, history, At, Start, DriftOK, TypeOK, StepOK, Copying, Recording, At
  <1> QED
    BY <1>1, <1>2, <1>3, <1>4, <1>5, <1>6, <1>7 DEF IInv

LEMMA AcceptCurrentStep ==
    ASSUME IInv, NEW p \in Path, AcceptCurrent(p)
    PROVE  IInv'
  <1>0. TypeOK /\ StepOK /\ CopyOK /\ ApplyOK /\ ResumeOK /\ TrustOK /\ DriftOK /\ AcceptCurrent(p)
    BY DEF IInv
  <1>r. run' = run /\ run' \in Running
    BY <1>0, PathsAssumption DEF AcceptCurrent, TypeOK, Running, At, Goto, Stop, Start, Idle
  <1>a. manifest \in Snapshot /\ disk \in Snapshot /\ manifest' = [manifest EXCEPT ![p] = disk[p]]
    BY <1>0 DEF AcceptCurrent, TypeOK
  <1>b. manifest' \in Snapshot
    <2>1. (p = ProjectFile => disk[p] \in Config \cup {Absent}) /\ (p # ProjectFile => disk[p] \in Content)
      BY <1>a, SnapshotIs DEF Path
    <2> QED
      BY <1>a, <2>1, SnapshotWritten
  <1>c. \A q \in Path : manifest'[q] = IF q = p THEN disk[q] ELSE manifest[q]
    BY <1>a, SnapshotIs
  <1>d. \A q \in Path : Drifted(q)' => Drifted(q)
    BY <1>0, <1>a, <1>c, SnapshotExists DEF Drifted, AcceptCurrent
  <1>1. TypeOK'
    BY <1>0, <1>r, Kinds, PathsAssumption, <1>b DEF AcceptCurrent, vars, records, bounds, history, At, Start, TypeOK, Unsettle
  <1>2. StepOK'
    BY <1>0, <1>r, SameFiles DEF AcceptCurrent, vars, records, bounds, history, At, Start, StepOK, Copying, Recording, At
  <1>3. CopyOK'
    BY <1>0, <1>r, SameFiles DEF AcceptCurrent, vars, records, bounds, history, At, Start, CopyOK, StepOK, Copying, Recording, At
  <1>4. ApplyOK'
    BY <1>0, <1>r, SameFiles, SameBaseline DEF AcceptCurrent, vars, records, bounds, history, At, Start, ApplyOK, StepOK, Copying, Recording, At
  <1>5. ResumeOK'
    BY <1>0, <1>r, SameFiles, SameBaseline DEF AcceptCurrent, vars, records, bounds, history, At, Start, ResumeOK, Unsettle, StepOK, Copying, Recording, At
  <1>6. TrustOK'
    BY <1>0, <1>r, SameFiles DEF AcceptCurrent, vars, records, bounds, history, At, Start, TrustOK, Whole, StepOK, Copying, Recording, At
  <1>7. DriftOK'
    BY <1>0, <1>r, SameBaseline, PathsAssumption, <1>d DEF AcceptCurrent, vars, records, bounds, history, At, Start, DriftOK, TypeOK, StepOK, Copying, Recording, At
  <1> QED
    BY <1>1, <1>2, <1>3, <1>4, <1>5, <1>6, <1>7 DEF IInv

LEMMA AcceptCandidateStep ==
    ASSUME IInv, NEW v \in Release, NEW p \in Path, AcceptCandidate(v, p)
    PROVE  IInv'
  <1>0. TypeOK /\ StepOK /\ CopyOK /\ ApplyOK /\ ResumeOK /\ TrustOK /\ DriftOK /\ AcceptCandidate(v, p)
    BY DEF IInv
  <1>r. /\ run' \in Running
        /\ run'.pc = "record" /\ run'.op = "acceptCandidate" /\ run'.v = Absent
        /\ run'.todo = {} /\ run'.path = p
    BY <1>0, PathsAssumption DEF AcceptCandidate, TypeOK, Running, At, Goto, Stop, Start, Idle
  <1>a. disk \in Snapshot /\ manifest # Absent /\ manifest' = manifest /\ Exists
        /\ disk' = [disk EXCEPT ![p] = Candidate(v)[p]]
    BY <1>0 DEF AcceptCandidate, TypeOK, Write, records, Attached
  <1>b. /\ p = ProjectFile => Candidate(v)[p] \in Config
        /\ p # ProjectFile => Candidate(v)[p] \in Content
    BY CandidateIs
  <1>c. disk' \in Snapshot
    BY <1>a, <1>b, SnapshotWritten
  <1>d. \A q \in Path : disk'[q] = IF q = p THEN Candidate(v)[p] ELSE disk[q]
    BY <1>a, SnapshotIs
  <1>e. Exists'
    BY <1>0, <1>a, <1>b, <1>d, Kinds, CandidateIs DEF Exists, Settings, Path, AcceptCandidate, Kind
  <1>f. \A q \in Path : Drifted(q)' => Drifted(q) \/ q = p
    BY <1>a, <1>d DEF Drifted
  <1>1. TypeOK'
    BY <1>0, <1>r, Kinds, PathsAssumption, <1>c DEF AcceptCandidate, vars, records, bounds, history, At, Start, TypeOK, Unsettle, Write
  <1>2. StepOK'
    BY <1>0, <1>r, SameFiles, <1>a, <1>e DEF AcceptCandidate, vars, records, bounds, history, At, Start, StepOK, Copying, Recording, At
  <1>3. CopyOK'
    BY <1>0, <1>r, SameFiles DEF AcceptCandidate, vars, records, bounds, history, At, Start, CopyOK, StepOK, Copying, Recording, At
  <1>4. ApplyOK'
    BY <1>0, <1>r, SameFiles, SameBaseline DEF AcceptCandidate, vars, records, bounds, history, At, Start, ApplyOK, StepOK, Copying, Recording, At
  <1>5. ResumeOK'
    BY <1>0, <1>r, SameFiles, SameBaseline DEF AcceptCandidate, vars, records, bounds, history, At, Start, ResumeOK, Unsettle, StepOK, Copying, Recording, At
  <1>6. TrustOK'
    BY <1>0, <1>r, SameFiles DEF AcceptCandidate, vars, records, bounds, history, At, Start, TrustOK, Whole, StepOK, Copying, Recording, At
  <1>7. DriftOK'
    BY <1>0, <1>r, SameBaseline, PathsAssumption, <1>f DEF AcceptCandidate, vars, records, bounds, history, At, Start, DriftOK, TypeOK, StepOK, Copying, Recording, At, Write
  <1> QED
    BY <1>1, <1>2, <1>3, <1>4, <1>5, <1>6, <1>7 DEF IInv

LEMMA DeleteCurrentStep ==
    ASSUME IInv, NEW v \in Release, NEW p \in Path, DeleteCurrent(v, p)
    PROVE  IInv'
  <1>0. TypeOK /\ StepOK /\ CopyOK /\ ApplyOK /\ ResumeOK /\ TrustOK /\ DriftOK /\ DeleteCurrent(v, p)
    BY DEF IInv
  <1>r. /\ run' \in Running
        /\ run'.pc = "record" /\ run'.op = "deleteCurrent" /\ run'.v = Absent
        /\ run'.todo = {} /\ run'.path = p
    BY <1>0, PathsAssumption DEF DeleteCurrent, TypeOK, Running, At, Goto, Stop, Start, Idle
  <1>a. disk \in Snapshot /\ manifest # Absent /\ manifest' = manifest /\ Exists
        /\ disk' = [disk EXCEPT ![p] = Absent]
    BY <1>0 DEF DeleteCurrent, TypeOK, Write, records, Attached
  <1>b. p # ProjectFile /\ Absent \in Content
    BY <1>0, CandidateIs, Kinds DEF DeleteCurrent, Kind
  <1>c. disk' \in Snapshot
    BY <1>a, <1>b, SnapshotWritten
  <1>d. \A q \in Path : disk'[q] = IF q = p THEN Absent ELSE disk[q]
    BY <1>a, SnapshotIs
  <1>e. Exists'
    BY <1>0, <1>a, <1>b, <1>d, Kinds, CandidateIs DEF Exists, Settings, Path, DeleteCurrent, Kind
  <1>f. \A q \in Path : Drifted(q)' => Drifted(q) \/ q = p
    BY <1>a, <1>d DEF Drifted
  <1>1. TypeOK'
    BY <1>0, <1>r, Kinds, PathsAssumption, <1>c DEF DeleteCurrent, vars, records, bounds, history, At, Start, TypeOK, Unsettle, Write
  <1>2. StepOK'
    BY <1>0, <1>r, SameFiles, <1>a, <1>e DEF DeleteCurrent, vars, records, bounds, history, At, Start, StepOK, Copying, Recording, At
  <1>3. CopyOK'
    BY <1>0, <1>r, SameFiles DEF DeleteCurrent, vars, records, bounds, history, At, Start, CopyOK, StepOK, Copying, Recording, At
  <1>4. ApplyOK'
    BY <1>0, <1>r, SameFiles, SameBaseline DEF DeleteCurrent, vars, records, bounds, history, At, Start, ApplyOK, StepOK, Copying, Recording, At
  <1>5. ResumeOK'
    BY <1>0, <1>r, SameFiles, SameBaseline DEF DeleteCurrent, vars, records, bounds, history, At, Start, ResumeOK, Unsettle, StepOK, Copying, Recording, At
  <1>6. TrustOK'
    BY <1>0, <1>r, SameFiles DEF DeleteCurrent, vars, records, bounds, history, At, Start, TrustOK, Whole, StepOK, Copying, Recording, At
  <1>7. DriftOK'
    BY <1>0, <1>r, SameBaseline, PathsAssumption, <1>f DEF DeleteCurrent, vars, records, bounds, history, At, Start, DriftOK, TypeOK, StepOK, Copying, Recording, At, Write
  <1> QED
    BY <1>1, <1>2, <1>3, <1>4, <1>5, <1>6, <1>7 DEF IInv

LEMMA RecordFileStep ==
    ASSUME IInv, RecordFile
    PROVE  IInv'
  <1>0. TypeOK /\ StepOK /\ CopyOK /\ ApplyOK /\ ResumeOK /\ TrustOK /\ DriftOK /\ RecordFile
    BY DEF IInv
  <1>r. /\ run' \in Running
        /\ run'.pc = "idle" /\ run'.op = "none" /\ run'.v = Absent
        /\ run'.todo = {} /\ run'.path = Absent
    BY <1>0, PathsAssumption DEF RecordFile, TypeOK, Running, At, Goto, Stop, Start, Idle
  <1>a. /\ manifest \in Snapshot /\ disk \in Snapshot /\ run.path \in Path /\ disk' = disk
        /\ manifest' = [manifest EXCEPT ![run.path] = IF run.op = "deleteCurrent" THEN Absent ELSE disk[run.path]]
    BY <1>0 DEF RecordFile, TypeOK, StepOK, At
  <1>b. manifest' \in Snapshot
    <2>1. PICK c : c = IF run.op = "deleteCurrent" THEN Absent ELSE disk[run.path]
      OBVIOUS
    <2>2. (run.path = ProjectFile => c \in Config \cup {Absent}) /\ (run.path # ProjectFile => c \in Content)
      BY <1>a, <2>1, SnapshotIs, Kinds DEF Path
    <2>3. manifest' = [manifest EXCEPT ![run.path] = c]
      BY <1>a, <2>1
    <2>4. manifest \in Snapshot /\ run.path \in Path
      BY <1>a
    <2>5. [manifest EXCEPT ![run.path] = c] \in Snapshot
      BY <2>2, <2>4, SnapshotWritten
    <2> QED
      BY <2>3, <2>5
  <1>c. \A q \in Path : q # run.path => manifest'[q] = manifest[q]
    BY <1>a, SnapshotIs
  <1>d. manifest'[run.path] \in {Absent, disk[run.path]}
    BY <1>a, SnapshotIs
  <1>e. \A q \in Path : Drifted(q)' => Drifted(q) /\ q # run.path
    BY <1>a, <1>c, <1>d, SnapshotExists DEF Drifted
  <1>1. TypeOK'
    BY <1>0, <1>r, Kinds, PathsAssumption, <1>b DEF RecordFile, vars, records, bounds, history, At, Start, TypeOK, Unsettle
  <1>2. StepOK'
    BY <1>0, <1>r, SameFiles DEF RecordFile, vars, records, bounds, history, At, Start, StepOK, Copying, Recording, At
  <1>3. CopyOK'
    BY <1>0, <1>r, SameFiles DEF RecordFile, vars, records, bounds, history, At, Start, CopyOK, StepOK, Copying, Recording, At
  <1>4. ApplyOK'
    BY <1>0, <1>r, SameFiles, SameBaseline DEF RecordFile, vars, records, bounds, history, At, Start, ApplyOK, StepOK, Copying, Recording, At
  <1>5. ResumeOK'
    BY <1>0, <1>r, SameFiles, SameBaseline DEF RecordFile, vars, records, bounds, history, At, Start, ResumeOK, Unsettle, StepOK, Copying, Recording, At
  <1>6. TrustOK'
    BY <1>0, <1>r, SameFiles DEF RecordFile, vars, records, bounds, history, At, Start, TrustOK, Whole, StepOK, Copying, Recording, At
  <1>7. DriftOK'
    BY <1>0, <1>r, SameBaseline, PathsAssumption, <1>e DEF RecordFile, vars, records, bounds, history, At, Start, DriftOK, TypeOK, StepOK, Copying, Recording, At
  <1> QED
    BY <1>1, <1>2, <1>3, <1>4, <1>5, <1>6, <1>7 DEF IInv

LEMMA TrustTemplateStep ==
    ASSUME IInv, TrustTemplate
    PROVE  IInv'
  <1>0. TypeOK /\ StepOK /\ CopyOK /\ ApplyOK /\ ResumeOK /\ TrustOK /\ DriftOK /\ TrustTemplate
    BY DEF IInv
  <1>r. /\ run' \in Running
        /\ run'.pc = "manifest" /\ run'.op = "trust" /\ run'.v = Absent
        /\ run'.todo = {} /\ run'.path = Absent
    BY <1>0, PathsAssumption DEF TrustTemplate, TypeOK, Running, At, Goto, Stop, Start, Idle
  <1>1. TypeOK'
    BY <1>0, <1>r, Kinds, PathsAssumption DEF TrustTemplate, vars, records, bounds, history, At, Start, TypeOK, Unsettle
  <1>2. StepOK'
    BY <1>0, <1>r, SameFiles DEF TrustTemplate, vars, records, bounds, history, At, Start, StepOK, Copying, Recording, At
  <1>3. CopyOK'
    BY <1>0, <1>r, SameFiles DEF TrustTemplate, vars, records, bounds, history, At, Start, CopyOK, StepOK, Copying, Recording, At
  <1>4. ApplyOK'
    BY <1>0, <1>r, SameFiles, SameBaseline DEF TrustTemplate, vars, records, bounds, history, At, Start, ApplyOK, StepOK, Copying, Recording, At
  <1>5. ResumeOK'
    BY <1>0, <1>r, SameFiles, SameBaseline DEF TrustTemplate, vars, records, bounds, history, At, Start, ResumeOK, Unsettle, StepOK, Copying, Recording, At
  <1>6. TrustOK'
    BY <1>0, <1>r, SameFiles DEF TrustTemplate, vars, records, bounds, history, At, Start, TrustOK, Whole, StepOK, Copying, Recording, At
  <1>7. DriftOK'
    BY <1>0, <1>r, SameBaseline, PathsAssumption DEF TrustTemplate, vars, records, bounds, history, At, Start, DriftOK, TypeOK, StepOK, Copying, Recording, At
  <1> QED
    BY <1>1, <1>2, <1>3, <1>4, <1>5, <1>6, <1>7 DEF IInv

LEMMA DetachStep ==
    ASSUME IInv, Detach
    PROVE  IInv'
  <1>0. TypeOK /\ StepOK /\ CopyOK /\ ApplyOK /\ ResumeOK /\ TrustOK /\ DriftOK /\ Detach
    BY DEF IInv
  <1>r. /\ run' \in Running
        /\ run'.pc = "untrust" /\ run'.op = "detach" /\ run'.v = Absent
        /\ run'.todo = {} /\ run'.path = Absent
    BY <1>0, PathsAssumption DEF Detach, TypeOK, Running, At, Goto, Stop, Start, Idle
  <1>a. \A p : ~Drifted(p)'
    BY <1>0 DEF Drifted, Detach
  <1>1. TypeOK'
    BY <1>0, <1>r, Kinds, PathsAssumption DEF Detach, vars, records, bounds, history, At, Start, TypeOK, Unsettle
  <1>2. StepOK'
    BY <1>0, <1>r, SameFiles DEF Detach, vars, records, bounds, history, At, Start, StepOK, Copying, Recording, At
  <1>3. CopyOK'
    BY <1>0, <1>r, SameFiles DEF Detach, vars, records, bounds, history, At, Start, CopyOK, StepOK, Copying, Recording, At
  <1>4. ApplyOK'
    BY <1>0, <1>r, SameFiles, SameBaseline DEF Detach, vars, records, bounds, history, At, Start, ApplyOK, StepOK, Copying, Recording, At
  <1>5. ResumeOK'
    BY <1>0, <1>r, SameFiles, SameBaseline DEF Detach, vars, records, bounds, history, At, Start, ResumeOK, Unsettle, StepOK, Copying, Recording, At
  <1>6. TrustOK'
    BY <1>0, <1>r, SameFiles DEF Detach, vars, records, bounds, history, At, Start, TrustOK, Whole, StepOK, Copying, Recording, At
  <1>7. DriftOK'
    BY <1>0, <1>r, SameBaseline, PathsAssumption, <1>a DEF Detach, vars, records, bounds, history, At, Start, DriftOK, TypeOK, StepOK, Copying, Recording, At
  <1> QED
    BY <1>1, <1>2, <1>3, <1>4, <1>5, <1>6, <1>7 DEF IInv

LEMMA UntrustStep ==
    ASSUME IInv, Untrust
    PROVE  IInv'
  <1>0. TypeOK /\ StepOK /\ CopyOK /\ ApplyOK /\ ResumeOK /\ TrustOK /\ DriftOK /\ Untrust
    BY DEF IInv
  <1>r. /\ run' \in Running
        /\ run'.pc = "unlink" /\ run'.op = run.op /\ run'.v = run.v
        /\ run'.todo = run.todo /\ run'.path = run.path
    BY <1>0, PathsAssumption DEF Untrust, TypeOK, Running, At, Goto, Stop, Start, Idle
  <1>1. TypeOK'
    BY <1>0, <1>r, Kinds, PathsAssumption DEF Untrust, vars, records, bounds, history, At, Start, TypeOK, Unsettle
  <1>2. StepOK'
    BY <1>0, <1>r, SameFiles DEF Untrust, vars, records, bounds, history, At, Start, StepOK, Copying, Recording, At
  <1>3. CopyOK'
    BY <1>0, <1>r, SameFiles DEF Untrust, vars, records, bounds, history, At, Start, CopyOK, StepOK, Copying, Recording, At
  <1>4. ApplyOK'
    BY <1>0, <1>r, SameFiles, SameBaseline DEF Untrust, vars, records, bounds, history, At, Start, ApplyOK, StepOK, Copying, Recording, At
  <1>5. ResumeOK'
    BY <1>0, <1>r, SameFiles, SameBaseline DEF Untrust, vars, records, bounds, history, At, Start, ResumeOK, Unsettle, StepOK, Copying, Recording, At
  <1>6. TrustOK'
    BY <1>0, <1>r, SameFiles DEF Untrust, vars, records, bounds, history, At, Start, TrustOK, Whole, StepOK, Copying, Recording, At
  <1>7. DriftOK'
    BY <1>0, <1>r, SameBaseline, PathsAssumption DEF Untrust, vars, records, bounds, history, At, Start, DriftOK, TypeOK, StepOK, Copying, Recording, At
  <1> QED
    BY <1>1, <1>2, <1>3, <1>4, <1>5, <1>6, <1>7 DEF IInv

LEMMA UnlinkStep ==
    ASSUME IInv, Unlink
    PROVE  IInv'
  <1>0. TypeOK /\ StepOK /\ CopyOK /\ ApplyOK /\ ResumeOK /\ TrustOK /\ DriftOK /\ Unlink
    BY DEF IInv
  <1>r. /\ run' \in Running
        /\ run'.pc = "idle" /\ run'.op = "none" /\ run'.v = Absent
        /\ run'.todo = {} /\ run'.path = Absent
    BY <1>0, PathsAssumption DEF Unlink, TypeOK, Running, At, Goto, Stop, Start, Idle
  <1>a. manifest = Absent /\ manifest' = Absent /\ Settings \in Config
    BY <1>0, SnapshotIs DEF StepOK, Unlink, At, records, TypeOK, Exists, Settings
  <1>b. /\ disk' = [disk EXCEPT ![ProjectFile] = [Settings EXCEPT !.version = Absent]]
        /\ [Settings EXCEPT !.version = Absent] \in Config
    BY <1>0, <1>a DEF Unlink, Settings, Config
  <1>c. disk' \in Snapshot
    BY <1>0, <1>b, SnapshotWritten DEF TypeOK, Path
  <1>d. unsettled = Absent /\ \A p : ~Drifted(p)'
    BY <1>0, <1>a, NoBaseline DEF ResumeOK, Drifted
  <1>1. TypeOK'
    BY <1>0, <1>r, Kinds, PathsAssumption, <1>c DEF Unlink, vars, records, bounds, history, At, Start, TypeOK, Unsettle
  <1>2. StepOK'
    BY <1>0, <1>r, SameFiles DEF Unlink, vars, records, bounds, history, At, Start, StepOK, Copying, Recording, At
  <1>3. CopyOK'
    BY <1>0, <1>r, SameFiles DEF Unlink, vars, records, bounds, history, At, Start, CopyOK, StepOK, Copying, Recording, At
  <1>4. ApplyOK'
    BY <1>0, <1>r, SameFiles, SameBaseline DEF Unlink, vars, records, bounds, history, At, Start, ApplyOK, StepOK, Copying, Recording, At
  <1>5. ResumeOK'
    BY <1>0, <1>r, SameFiles, SameBaseline, <1>d DEF Unlink, vars, records, bounds, history, At, Start, ResumeOK, Unsettle, StepOK, Copying, Recording, At
  <1>6. TrustOK'
    BY <1>0, <1>r, SameFiles DEF Unlink, vars, records, bounds, history, At, Start, TrustOK, Whole, StepOK, Copying, Recording, At
  <1>7. DriftOK'
    BY <1>0, <1>r, SameBaseline, PathsAssumption, <1>d DEF Unlink, vars, records, bounds, history, At, Start, DriftOK, TypeOK, StepOK, Copying, Recording, At
  <1> QED
    BY <1>1, <1>2, <1>3, <1>4, <1>5, <1>6, <1>7 DEF IInv

LEMMA GenerateStep ==
    ASSUME IInv, Generate
    PROVE  IInv'
  <1>0. TypeOK /\ StepOK /\ CopyOK /\ ApplyOK /\ ResumeOK /\ TrustOK /\ DriftOK /\ Generate
    BY DEF IInv
  <1>r. /\ run' \in Running
        /\ run'.pc = "import" /\ run'.op = "generate" /\ run'.v = Absent
        /\ run'.todo = {} /\ run'.path = Absent
    BY <1>0, PathsAssumption DEF Generate, TypeOK, Running, At, Goto, Stop, Start, Idle
  <1>1. TypeOK'
    BY <1>0, <1>r, Kinds, PathsAssumption DEF Generate, vars, records, bounds, history, At, Start, TypeOK, Unsettle
  <1>2. StepOK'
    BY <1>0, <1>r, SameFiles DEF Generate, vars, records, bounds, history, At, Start, StepOK, Copying, Recording, At
  <1>3. CopyOK'
    BY <1>0, <1>r, SameFiles DEF Generate, vars, records, bounds, history, At, Start, CopyOK, StepOK, Copying, Recording, At
  <1>4. ApplyOK'
    BY <1>0, <1>r, SameFiles, SameBaseline DEF Generate, vars, records, bounds, history, At, Start, ApplyOK, StepOK, Copying, Recording, At
  <1>5. ResumeOK'
    BY <1>0, <1>r, SameFiles, SameBaseline DEF Generate, vars, records, bounds, history, At, Start, ResumeOK, Unsettle, StepOK, Copying, Recording, At
  <1>6. TrustOK'
    BY <1>0, <1>r, SameFiles DEF Generate, vars, records, bounds, history, At, Start, TrustOK, Whole, StepOK, Copying, Recording, At, Trusted
  <1>7. DriftOK'
    BY <1>0, <1>r, SameBaseline, PathsAssumption DEF Generate, vars, records, bounds, history, At, Start, DriftOK, TypeOK, StepOK, Copying, Recording, At
  <1> QED
    BY <1>1, <1>2, <1>3, <1>4, <1>5, <1>6, <1>7 DEF IInv

LEMMA ImportStep ==
    ASSUME IInv, Import
    PROVE  IInv'
  <1>0. TypeOK /\ StepOK /\ CopyOK /\ ApplyOK /\ ResumeOK /\ TrustOK /\ DriftOK /\ Import
    BY DEF IInv
  <1>r. /\ run' \in Running
        /\ run'.pc = "idle" /\ run'.op = "none" /\ run'.v = Absent
        /\ run'.todo = {} /\ run'.path = Absent
    BY <1>0, PathsAssumption DEF Import, TypeOK, Running, At, Goto, Stop, Start, Idle
  <1>1. TypeOK'
    BY <1>0, <1>r, Kinds, PathsAssumption DEF Import, vars, records, bounds, history, At, Start, TypeOK, Unsettle
  <1>2. StepOK'
    BY <1>0, <1>r, SameFiles DEF Import, vars, records, bounds, history, At, Start, StepOK, Copying, Recording, At
  <1>3. CopyOK'
    BY <1>0, <1>r, SameFiles DEF Import, vars, records, bounds, history, At, Start, CopyOK, StepOK, Copying, Recording, At
  <1>4. ApplyOK'
    BY <1>0, <1>r, SameFiles, SameBaseline DEF Import, vars, records, bounds, history, At, Start, ApplyOK, StepOK, Copying, Recording, At
  <1>5. ResumeOK'
    BY <1>0, <1>r, SameFiles, SameBaseline DEF Import, vars, records, bounds, history, At, Start, ResumeOK, Unsettle, StepOK, Copying, Recording, At
  <1>6. TrustOK'
    BY <1>0, <1>r, SameFiles DEF Import, vars, records, bounds, history, At, Start, TrustOK, Whole, StepOK, Copying, Recording, At
  <1>7. DriftOK'
    BY <1>0, <1>r, SameBaseline, PathsAssumption DEF Import, vars, records, bounds, history, At, Start, DriftOK, TypeOK, StepOK, Copying, Recording, At
  <1> QED
    BY <1>1, <1>2, <1>3, <1>4, <1>5, <1>6, <1>7 DEF IInv

LEMMA EditStep ==
    ASSUME IInv, NEW p \in Path, NEW content \in Local \cup {Absent}, Edit(p, content)
    PROVE  IInv'
  <1>0. TypeOK /\ StepOK /\ CopyOK /\ ApplyOK /\ ResumeOK /\ TrustOK /\ DriftOK /\ Edit(p, content)
    BY DEF IInv
  <1>r. run' = run /\ run' \in Running
    BY <1>0, PathsAssumption DEF Edit, TypeOK, Running, At, Goto, Stop, Start, Idle
  <1>a. disk \in Snapshot /\ manifest' = manifest /\ Settings \in Config
    BY <1>0, SnapshotIs DEF Edit, TypeOK, records, Exists, Settings
  <1>b. PICK c : /\ disk' = [disk EXCEPT ![p] = c]
                 /\ p = ProjectFile => c \in Config
                 /\ p # ProjectFile => c \in Content
    <2>1. CASE p = ProjectFile
      BY <1>0, <1>a, <2>1 DEF Edit, Settings, Config
    <2>2. CASE p # ProjectFile
      BY <1>0, <2>2, Kinds DEF Edit
    <2> QED
      BY <2>1, <2>2
  <1>c. disk' \in Snapshot
    BY <1>a, <1>b, SnapshotWritten
  <1>d. \A q \in Path : disk'[q] = IF q = p THEN c ELSE disk[q]
    BY <1>a, <1>b, SnapshotIs
  <1>e. \A q \in Path : Drifted(q)' => Drifted(q) \/ q = p
    BY <1>a, <1>d DEF Drifted
  <1>1. TypeOK'
    BY <1>0, <1>r, Kinds, PathsAssumption, <1>c DEF Edit, vars, records, bounds, history, At, Start, TypeOK, Unsettle
  <1>2. StepOK'
    BY <1>0, <1>r, SameFiles DEF Edit, vars, records, bounds, history, At, Start, StepOK, Copying, Recording, At
  <1>3. CopyOK'
    BY <1>0, <1>r, SameFiles DEF Edit, vars, records, bounds, history, At, Start, CopyOK, StepOK, Copying, Recording, At
  <1>4. ApplyOK'
    BY <1>0, <1>r, SameFiles, SameBaseline DEF Edit, vars, records, bounds, history, At, Start, ApplyOK, StepOK, Copying, Recording, At
  <1>5. ResumeOK'
    BY <1>0, <1>r, SameFiles, SameBaseline DEF Edit, vars, records, bounds, history, At, Start, ResumeOK, Unsettle, StepOK, Copying, Recording, At
  <1>6. TrustOK'
    BY <1>0, <1>r, SameFiles DEF Edit, vars, records, bounds, history, At, Start, TrustOK, Whole, StepOK, Copying, Recording, At
  <1>7. DriftOK'
    BY <1>0, <1>r, SameBaseline, PathsAssumption, <1>e DEF Edit, vars, records, bounds, history, At, Start, DriftOK, TypeOK, StepOK, Copying, Recording, At
  <1> QED
    BY <1>1, <1>2, <1>3, <1>4, <1>5, <1>6, <1>7 DEF IInv

LEMMA KillStep ==
    ASSUME IInv, Kill
    PROVE  IInv'
  <1>0. TypeOK /\ StepOK /\ CopyOK /\ ApplyOK /\ ResumeOK /\ TrustOK /\ DriftOK /\ Kill
    BY DEF IInv
  <1>r. /\ run' \in Running
        /\ run'.pc = "idle" /\ run'.op = "none" /\ run'.v = Absent
        /\ run'.todo = {} /\ run'.path = Absent
    BY <1>0, PathsAssumption DEF Kill, TypeOK, Running, At, Goto, Stop, Start, Idle
  <1>a. kills' \in 0..MaxKills /\ kills' > 0
    BY <1>0, PathsAssumption DEF Kill, TypeOK
  <1>1. TypeOK'
    BY <1>0, <1>r, Kinds, PathsAssumption, <1>a DEF Kill, vars, records, bounds, history, At, Start, TypeOK, Unsettle, Running
  <1>2. StepOK'
    BY <1>0, <1>r, SameFiles DEF Kill, vars, records, bounds, history, At, Start, StepOK, Copying, Recording, At
  <1>3. CopyOK'
    BY <1>0, <1>r, SameFiles DEF Kill, vars, records, bounds, history, At, Start, CopyOK, StepOK, Copying, Recording, At
  <1>4. ApplyOK'
    BY <1>0, <1>r, SameFiles, SameBaseline DEF Kill, vars, records, bounds, history, At, Start, ApplyOK, StepOK, Copying, Recording, At
  <1>5. ResumeOK'
    BY <1>0, <1>r, SameFiles, SameBaseline DEF Kill, vars, records, bounds, history, At, Start, ResumeOK, Unsettle, StepOK, Copying, Recording, At, ApplyOK
  <1>6. TrustOK'
    BY <1>0, <1>r, SameFiles DEF Kill, vars, records, bounds, history, At, Start, TrustOK, Whole, StepOK, Copying, Recording, At
  <1>7. DriftOK'
    BY <1>0, <1>r, SameBaseline, PathsAssumption, <1>a DEF Kill, vars, records, bounds, history, At, Start, DriftOK, TypeOK, StepOK, Copying, Recording, At
  <1> QED
    BY <1>1, <1>2, <1>3, <1>4, <1>5, <1>6, <1>7 DEF IInv

LEMMA InitIInv == Init => IInv
  <1> SUFFICES ASSUME Init
               PROVE  IInv
    OBVIOUS
  <1>1. disk \in Snapshot
    BY SnapshotIs, Kinds DEF Init, Path
  <1>2. run \in Running
    BY DEF Init, Idle, Running
  <1>3. TypeOK
    <2>1. edits \in 0..MaxEdits /\ kills \in 0..MaxKills
      BY PathsAssumption DEF Init
    <2>2. reviewed \in BOOLEAN /\ manifest = Absent /\ trust = Absent
      BY DEF Init
    <2>3. accepted \subseteq Path \X Local /\ handmade \subseteq Path /\ unsettled = Absent
      BY DEF Init
    <2> QED
      BY <1>1, <1>2, <2>1, <2>2, <2>3 DEF TypeOK
  <1>4. ~Applicable(unsettled) /\ \A p \in Path : ~Drifted(p)
    BY NoBaseline DEF Init
  <1>5. StepOK /\ CopyOK /\ ApplyOK /\ ResumeOK /\ TrustOK /\ DriftOK
    BY <1>4 DEF Init, Idle, StepOK, CopyOK, ApplyOK, ResumeOK, TrustOK, DriftOK, At, Copying, Recording
  <1> QED
    BY <1>3, <1>5 DEF IInv

LEMMA StutterIInv ==
    ASSUME IInv, UNCHANGED vars
    PROVE  IInv'
  <1>0. TypeOK /\ StepOK /\ CopyOK /\ ApplyOK /\ ResumeOK /\ TrustOK /\ DriftOK
    BY DEF IInv
  <1>1. /\ disk' = disk /\ manifest' = manifest /\ trust' = trust /\ run' = run
        /\ UNCHANGED <<bounds, history>>
    BY DEF vars, bounds, history
  <1>2. TypeOK' /\ StepOK' /\ CopyOK'
    BY <1>0, <1>1, SameFiles DEF TypeOK, StepOK, CopyOK, At, bounds, history
  <1>3. Candidate(run.v)' = Candidate(run.v)
    BY <1>1 DEF Candidate, ConfigOf, Executable
  <1>4. ApplyOK' /\ ResumeOK'
    BY <1>0, <1>1, <1>3, SameFiles, SameBaseline DEF ApplyOK, ResumeOK, At, history
  <1>5. TrustOK' /\ DriftOK'
    BY <1>0, <1>1, SameFiles, SameBaseline DEF TrustOK, DriftOK, At, Whole, bounds, history
  <1> QED
    BY <1>2, <1>4, <1>5 DEF IInv

\* Every step keeps the invariant.
LEMMA NextIInv == IInv /\ [Next]_vars => IInv'
  <1> SUFFICES ASSUME IInv, [Next]_vars
               PROVE  IInv'
    OBVIOUS
  <1>1. CASE Step
    BY <1>1, CopyConfigStep, CopyImplementationStep, AttachStep, ApplyFileStep, WriteManifestStep,
       WriteTrustStep, RecordFileStep, UntrustStep, UnlinkStep, ImportStep DEF Step
  <1>2. CASE Kill \/ TrustTemplate \/ Detach \/ Generate
    BY <1>2, KillStep, TrustTemplateStep, DetachStep, GenerateStep
  <1>3. ASSUME NEW v \in Release, Copy(v) \/ Apply(v)
        PROVE  IInv'
    BY <1>3, CopyStep, ApplyStep
  <1>4. ASSUME NEW v \in Release, NEW p \in Path, AcceptCandidate(v, p) \/ DeleteCurrent(v, p)
        PROVE  IInv'
    BY <1>4, AcceptCandidateStep, DeleteCurrentStep
  <1>5. ASSUME NEW p \in Path, AcceptCurrent(p)
        PROVE  IInv'
    BY <1>5, AcceptCurrentStep
  <1>6. ASSUME NEW p \in Path, NEW content \in Local \cup {Absent}, Edit(p, content)
        PROVE  IInv'
    BY <1>6, EditStep
  <1>7. CASE UNCHANGED vars
    BY <1>7, StutterIInv
  <1> QED
    BY <1>1, <1>2, <1>3, <1>4, <1>5, <1>6, <1>7 DEF Next
-----------------------------------------------------------------------------
\* Every variable of a project has its type, for any releases, files and bounds.
THEOREM ProjectTypeCorrect == Spec => []TypeOK
  <1>1. IInv => TypeOK
    BY DEF IInv
  <1> QED
    BY <1>1, InitIInv, NextIInv, PTL DEF Spec

\* However often updates are killed, wherever, the one that was killed is
\* never refused when it is run again before anything else is done.
THEOREM KilledUpdateResumes == Spec => []ResumeNotRefused
  <1>1. IInv => ResumeNotRefused
    BY DEF IInv, ResumeOK, ResumeNotRefused
  <1> QED
    BY <1>1, InitIInv, NextIInv, PTL DEF Spec

\* generate imports what a human reviewed, or every file of one release: never
\* the files of an update that was killed halfway.
THEOREM ImportsAreWhole == Spec => []LoadedIsWhole
  <1>1. IInv => LoadedIsWhole
    BY DEF IInv, TrustOK, LoadedIsWhole, Whole, Implementation
  <1> QED
    BY <1>1, InitIInv, NextIInv, PTL DEF Spec

\* A file that drifted from the baseline is one a human was the last to write,
\* as long as no command was killed.
THEOREM DriftIsHandmade == Spec => []DriftExplained
  <1>1. IInv => DriftExplained
    BY DEF IInv, DriftOK, DriftExplained, At
  <1> QED
    BY <1>1, InitIInv, NextIInv, PTL DEF Spec

\* Detaching never makes generate refuse an implementation that was trusted.
THEOREM DetachKeepsTrusted == Spec => DetachKeepsTrust
  <1> DEFINE Kept == run.op = "detach" /\ Settings.impl /\ Trusted => Trusted'
  <1>1. ASSUME IInv, Next, run.op = "detach", Settings.impl, Trusted
        PROVE  Trusted'
    <2>0. StepOK /\ TypeOK
      BY <1>1 DEF IInv
    <2>1. ~At("idle") /\ run.pc \notin Copying \cup Recording \cup {"files", "record", "import"}
      BY <1>1, <2>0 DEF StepOK, At, Copying, Recording
    <2>2. Untrust \/ Unlink \/ Kill
      BY <1>1, <2>1 DEF Next, Step, Start, Copy, Apply, AcceptCandidate, DeleteCurrent, AcceptCurrent,
         TrustTemplate, Detach, Generate, Edit, CopyConfig, CopyImplementation, Attach, ApplyFile,
         WriteManifest, WriteTrust, RecordFile, Import, At, Copying, Recording
    <2>3. CASE Untrust \/ Kill
      <3>1. disk' = disk /\ trust' = trust
        BY <1>1, <2>3 DEF Untrust, Kill, records
      <3> QED
        BY <1>1, <3>1, SameFiles DEF Trusted
    <2>4. CASE Unlink
      <3>1. trust' = trust /\ Settings \in Config /\ disk \in [Path -> Content \cup Config]
        BY <2>0, <2>4, SnapshotIs DEF Unlink, records, StepOK, At, TypeOK, Exists, Settings
      <3>2. Settings'.version = Absent /\ \A f \in Impl : disk'[f] = disk[f]
        BY <2>4, <3>1, Kinds DEF Unlink, Settings, Path, Config
      <3>3. Implementation' = Implementation /\ HasImplementation' = HasImplementation
        BY <3>2 DEF Implementation, HasImplementation
      <3> QED
        BY <1>1, <3>1, <3>2, <3>3 DEF Trusted
    <2> QED
      BY <2>2, <2>3, <2>4
  <1>2. IInv /\ [Next]_vars => [Kept]_vars
    BY <1>1
  <1> QED
    BY <1>2, InitIInv, NextIInv, PTL DEF Spec, DetachKeepsTrust
=============================================================================
