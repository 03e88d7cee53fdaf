--------------------------- MODULE TemplateProject ---------------------------
(***************************************************************************)
(* A project copied from a starter template, and what becomes of it when   *)
(* the template is updated, local files are edited, the implementation is  *)
(* trusted and `topogram generate` loads it.                               *)
(*                                                                         *)
(* Three records describe the same files: the files themselves, the        *)
(* baseline (.topogram-template-files.json) and the trust record           *)
(* (.topogram-template-trust.json).  Every command writes them one by one, *)
(* nothing is locked, and a command can be killed between two writes.      *)
(* Hashes are modelled by the contents they stand for.                     *)
(***************************************************************************)
EXTENDS Naturals

CONSTANTS
    Topo,         \* template-owned paths under topo/
    Impl,         \* template-owned paths under implementation/
    ProjectFile,  \* topogram.project.json
    Rank,         \* where localeCompare sorts a path
    Text,         \* contents of a file
    Local,        \* the contents a human writes
    Absent,       \* no file, no record, no version
    Release,      \* the versions of the template
    Ships,        \* Ships[v][f]: the content of f in release v
    Refused,      \* releases the policy or a foreign template id refuses
    Commands,     \* bound: which commands are run
    MaxEdits,     \* bound: how many files a human saves or removes
    MaxKills      \* bound: how many commands are killed

Path == Topo \cup Impl \cup {ProjectFile}

ASSUME PathsAssumption ==
    /\ Topo \cap Impl = {} /\ ProjectFile \notin Topo \cup Impl
    /\ Rank \in [Path -> Nat]
    /\ \A p, q \in Path : Rank[p] = Rank[q] => p = q
    /\ \A p \in Path : Rank[p] <= Rank[ProjectFile]
    /\ Local \subseteq Text /\ Absent \notin Text \cup Release
    /\ Ships \in [Release -> [Topo \cup Impl -> (Text \ Local) \cup {Absent}]]
    /\ Refused \subseteq Release
    /\ MaxEdits \in Nat /\ MaxKills \in Nat

\* validateTemplateRoot: a release declares executable code exactly when it
\* ships implementation/.
Executable(v) == \E f \in Impl : Ships[v][f] # Absent

\* topogram.project.json: the template it is attached to, and whether it
\* configures an implementation.
Config == [version : Release \cup {Absent}, impl : BOOLEAN]
ConfigOf(v) == [version |-> v, impl |-> Executable(v)]

\* A text is no configuration, and the absence of a file or record is nothing else.
ASSUME ContentAssumption ==
    /\ Text \cap Config = {} /\ Absent \notin Config
    /\ Absent \notin [Path -> Text \cup {Absent} \cup Config]

VARIABLES
    disk,      \* disk[p]: the content of path p
    manifest,  \* the baseline: the content recorded for each path
    trust,     \* the trust record: a version and the implementation's contents
    run,       \* the command that is running, if one is
    edits, kills,
    accepted,  \* history: the local contents a human accepted as baseline
    reviewed,  \* history: whether the trust record is one of `topogram trust template`
    handmade,  \* history: the paths a human was the last to write
    unsettled  \* history: the release whose update was killed, until something
               \* else than that update is done

vars == <<disk, manifest, trust, run, edits, kills, accepted, reviewed, handmade, unsettled>>
records == <<manifest, trust>>
bounds == <<edits, kills>>
history == <<accepted, reviewed, handmade, unsettled>>

Idle == [pc |-> "idle", op |-> "none", v |-> Absent, todo |-> {}, path |-> Absent]
At(pc) == run.pc = pc
Settings == disk[ProjectFile]
Exists == Settings # Absent
Attached == Exists /\ Settings.version # Absent
-----------------------------------------------------------------------------
(* Files, plan and conflicts *)

Candidate(v) == [p \in Path |-> IF p = ProjectFile THEN ConfigOf(v) ELSE Ships[v][p]]

\* currentTemplateOwnedFiles: implementation/ counts only if asked for.
Owned(withImplementation) ==
    [p \in Path |-> IF p \in Impl /\ ~withImplementation THEN Absent ELSE disk[p]]

\* includesTemplateImplementation asks the configuration and the template's metadata.
Includes == Settings.impl \/ (Attached /\ Executable(Settings.version))
OwnedNow == Owned(Includes)

\* buildTemplateUpdatePlan also counts implementation/ when the candidate has one.
Kind(v, p) ==
    LET current == Owned(Includes \/ Executable(v))[p]
        candidate == Candidate(v)[p]
    IN CASE current = candidate -> "unchanged"
         [] current = Absent /\ candidate # Absent -> "added"
         [] current # Absent /\ candidate = Absent -> "current-only"
         [] OTHER -> "changed"

\* Mutant: a file the release adds is not planned.
PlannedKnown(v) == {p \in Path : Kind(v, p) = "changed"}

Planned(v) == {p \in Path : Kind(v, p) \in {"added", "changed"}}
PlanOk(v) == v \notin Refused

\* fileMatchesBaseline: two missing records match.
MatchesBaseline(p) == manifest[p] = OwnedNow[p]

\* Mutant: a file that is the candidate's already is a conflict too.
ConflictsAnywhere(v) == {p \in Path : ~MatchesBaseline(p)}

Conflicts(v) == {p \in Planned(v) : ~MatchesBaseline(p)}

\* analyzeTemplateUpdateApplication finds no error.
Applicable(v) ==
    /\ Attached /\ PlanOk(v)
    /\ manifest # Absent /\ Conflicts(v) = {}

\* hashImplementationContent throws without implementation/.
Implementation == [f \in Impl |-> disk[f]]
HasImplementation == \E f \in Impl : disk[f] # Absent

TrustRecord == [version |-> Settings.version, files |-> Implementation]

\* Mutant: the digest of the implementation is not compared.
TrustedByVersion ==
    /\ trust # Absent /\ HasImplementation
    /\ Settings.version # Absent => trust.version = Settings.version

\* getTemplateTrustStatus: no issue.
Trusted ==
    /\ trust # Absent /\ HasImplementation
    /\ Settings.version # Absent => trust.version = Settings.version
    /\ trust.files = Implementation
-----------------------------------------------------------------------------
(* One command.  It goes from step to step until it stops, refused, failed or
   finished alike. *)

Goto(pc) == run' = [run EXCEPT !.pc = pc]
Stop == run' = Idle
Start(op) == At("idle") /\ op \in Commands

\* A command other than the repeated update.
Unsettle == unsettled' = Absent

Write(p, content) ==
    /\ disk' = [disk EXCEPT ![p] = content]
    /\ handmade' = handmade \ {p}
-----------------------------------------------------------------------------
(* topogram copy: into an empty directory, tree by tree *)

Copy(v) ==
    /\ Start("copy")
    /\ \A p \in Path : disk[p] = Absent
    /\ manifest = Absent /\ trust = Absent
    /\ disk' = [p \in Path |-> IF p \in Topo THEN Ships[v][p] ELSE Absent]
    /\ run' = [Idle EXCEPT !.pc = "copyConfig", !.op = "copy", !.v = v]
    /\ UNCHANGED <<records, bounds, history>>

\* copyTopogramWorkspace: the configuration of the template, not attached yet.
CopyConfig ==
    /\ At("copyConfig")
    /\ disk' = [disk EXCEPT ![ProjectFile] = [ConfigOf(run.v) EXCEPT !.version = Absent]]
    /\ Goto("copyImplementation")
    /\ UNCHANGED <<records, bounds, history>>

CopyImplementation ==
    /\ At("copyImplementation")
    /\ disk' = [p \in Path |-> IF p \in Impl THEN Ships[run.v][p] ELSE disk[p]]
    /\ Goto("attach")
    /\ UNCHANGED <<records, bounds, history>>

\* writeProjectTemplateMetadata.
Attach ==
    /\ At("attach")
    /\ disk' = [disk EXCEPT ![ProjectFile].version = run.v]
    /\ Goto("manifest")
    /\ UNCHANGED <<records, bounds, history>>
-----------------------------------------------------------------------------
(* topogram template update *)

\* The update to v is repeated, or it is another one.
Begin(v) ==
    /\ unsettled' = IF unsettled = v THEN v ELSE Absent
    /\ IF Planned(v) = {} THEN Stop
       ELSE run' = [Idle EXCEPT !.pc = "files", !.op = "apply", !.v = v,
                               !.todo = Planned(v)]

\* applyTemplateUpdate up to its first write; an empty plan writes nothing.
Apply(v) ==
    /\ Start("apply") /\ Applicable(v)
    /\ Begin(v)
    /\ UNCHANGED <<disk, records, bounds, accepted, reviewed, handmade>>

\* The candidate's files, one write each in the order of their paths, in which
\* topogram.project.json comes last.
ApplyFile ==
    /\ At("files")
    /\ \E p \in run.todo :
          /\ \A q \in run.todo : Rank[p] <= Rank[q]
          /\ Write(p, Candidate(run.v)[p])
          /\ run' = [run EXCEPT !.todo = @ \ {p}, !.pc = IF run.todo = {p} THEN "manifest" ELSE @]
    /\ UNCHANGED <<records, bounds, accepted, reviewed, unsettled>>

\* Mutant: the implementation alone is recorded.
WriteManifestOfImplementation ==
    /\ At("manifest")
    /\ manifest' = Implementation
    /\ Goto("trust")
    /\ UNCHANGED <<disk, trust, bounds, history>>

\* writeTemplateFilesManifest: whatever lies on the owned paths.
WriteManifest ==
    /\ At("manifest")
    /\ manifest' = OwnedNow
    /\ Goto("trust")
    /\ UNCHANGED <<disk, trust, bounds, history>>

\* writeTemplateTrustRecord, if the project configures an implementation; it
\* throws when there is none.
WriteTrust ==
    /\ At("trust")
    /\ IF Settings.impl /\ HasImplementation
         THEN trust' = TrustRecord /\ reviewed' = (run.op = "trust")
         ELSE UNCHANGED <<trust, reviewed>>
    /\ Stop
    /\ UNCHANGED <<disk, manifest, bounds, accepted, handmade, unsettled>>

\* --accept-current <file>.
AcceptCurrent(p) ==
    /\ Start("acceptCurrent") /\ Attached /\ manifest # Absent
    /\ OwnedNow[p] # Absent
    /\ manifest' = [manifest EXCEPT ![p] = disk[p]]
    /\ accepted' = accepted \cup ({<<p, disk[p]>>} \cap (Path \X Local))
    /\ Unsettle
    /\ UNCHANGED <<disk, trust, run, bounds, reviewed, handmade>>

\* --accept-candidate <file>: the write, then the record of what was written.
AcceptCandidate(v, p) ==
    /\ Start("acceptCandidate") /\ Attached /\ manifest # Absent /\ PlanOk(v)
    /\ p \in Planned(v)
    /\ Kind(v, p) = "changed" => MatchesBaseline(p)
    /\ Write(p, Candidate(v)[p])
    /\ run' = [Idle EXCEPT !.pc = "record", !.op = "acceptCandidate", !.path = p]
    /\ Unsettle
    /\ UNCHANGED <<records, bounds, accepted, reviewed>>

\* --delete-current <file>: the unlink, then the removal of its record.
DeleteCurrent(v, p) ==
    /\ Start("deleteCurrent") /\ Attached /\ manifest # Absent /\ PlanOk(v)
    /\ Kind(v, p) = "current-only" /\ MatchesBaseline(p)
    /\ Write(p, Absent)
    /\ run' = [Idle EXCEPT !.pc = "record", !.op = "deleteCurrent", !.path = p]
    /\ Unsettle
    /\ UNCHANGED <<records, bounds, accepted, reviewed>>

\* Mutant: the record of a deleted file stays.
RecordWritten ==
    /\ At("record")
    /\ manifest' = IF run.op = "deleteCurrent" THEN manifest
                   ELSE [manifest EXCEPT ![run.path] = disk[run.path]]
    /\ Stop
    /\ UNCHANGED <<disk, trust, bounds, history>>

\* updateTemplateFilesManifestRecord.
RecordFile ==
    /\ At("record")
    /\ manifest' = [manifest EXCEPT ![run.path] =
                       IF run.op = "deleteCurrent" THEN Absent ELSE disk[run.path]]
    /\ Stop
    /\ UNCHANGED <<disk, trust, bounds, history>>
-----------------------------------------------------------------------------
(* topogram trust template, topogram template detach, topogram generate *)

TrustTemplate ==
    /\ Start("trust") /\ Exists
    /\ run' = [Idle EXCEPT !.pc = "manifest", !.op = "trust"]
    /\ accepted' = accepted \cup ({<<p, OwnedNow[p]>> : p \in Path} \cap (Path \X Local))
    /\ Unsettle
    /\ UNCHANGED <<disk, records, bounds, reviewed, handmade>>

\* buildTemplateDetachPayload removes the baseline, then a trust record nothing
\* needs, then writes the configuration without its template.
Detach ==
    /\ Start("detach") /\ Exists
    /\ manifest' = Absent
    /\ run' = [Idle EXCEPT !.pc = "untrust", !.op = "detach"]
    /\ Unsettle
    /\ UNCHANGED <<disk, trust, bounds, accepted, reviewed, handmade>>

\* Mutant: the trust record goes whether the implementation needs it or not.
UntrustAlways ==
    /\ At("untrust")
    /\ trust' = Absent
    /\ Goto("unlink")
    /\ UNCHANGED <<disk, manifest, bounds, history>>

Untrust ==
    /\ At("untrust")
    /\ trust' = IF Settings.impl THEN trust ELSE Absent
    /\ Goto("unlink")
    /\ UNCHANGED <<disk, manifest, bounds, history>>

Unlink ==
    /\ At("unlink")
    /\ disk' = [disk EXCEPT ![ProjectFile].version = Absent]
    /\ Stop
    /\ UNCHANGED <<records, bounds, history>>

\* loadImplementationProvider: the check of the trust record ...
Generate ==
    /\ Start("generate") /\ Exists /\ Settings.impl /\ Trusted
    /\ run' = [Idle EXCEPT !.pc = "import", !.op = "generate"]
    /\ Unsettle
    /\ UNCHANGED <<disk, records, bounds, accepted, reviewed, handmade>>

\* ... and then the import of the module.
Import ==
    /\ At("import")
    /\ Stop
    /\ UNCHANGED <<disk, records, bounds, history>>
-----------------------------------------------------------------------------
\* A human saves, creates or removes a file of the project; in the
\* configuration, what she may change is the implementation.
Edit(p, content) ==
    /\ At("idle") /\ Exists /\ edits < MaxEdits
    /\ disk[p] # content
    /\ disk' = [disk EXCEPT ![p] = IF p = ProjectFile THEN [@ EXCEPT !.impl = ~@] ELSE content]
    /\ edits' = edits + 1
    /\ handmade' = handmade \cup {p}
    /\ Unsettle
    /\ UNCHANGED <<records, run, kills, accepted, reviewed>>

\* The command is killed: what it had written stays, the rest is never written.
Kill ==
    /\ ~At("idle") /\ kills < MaxKills
    /\ kills' = kills + 1
    /\ unsettled' = IF run.op = "apply" THEN run.v ELSE unsettled
    /\ Stop
    /\ UNCHANGED <<disk, records, edits, accepted, reviewed, handmade>>

Init ==
    /\ disk = [p \in Path |-> Absent]
    /\ manifest = Absent /\ trust = Absent
    /\ run = Idle
    /\ edits = 0 /\ kills = 0
    /\ accepted = {} /\ reviewed = FALSE
    /\ handmade = {} /\ unsettled = Absent

\* The command goes on.
Step ==
    \/ CopyConfig \/ CopyImplementation \/ Attach
    \/ ApplyFile \/ WriteManifest \/ WriteTrust \/ RecordFile
    \/ Untrust \/ Unlink \/ Import

Next ==
    \/ Step \/ Kill \/ TrustTemplate \/ Detach \/ Generate
    \/ \E v \in Release : Copy(v) \/ Apply(v)
    \/ \E v \in Release, p \in Path : AcceptCandidate(v, p) \/ DeleteCurrent(v, p)
    \/ \E p \in Path : AcceptCurrent(p)
    \/ \E p \in Path, content \in Local \cup {Absent} : Edit(p, content)

Spec == Init /\ [][Next]_vars

\* A command that is not killed runs on, and a killed update is run again.
Fairness ==
    /\ WF_vars(Step)
    /\ \A v \in Release : WF_vars(unsettled = v /\ Apply(v))

FairSpec == Spec /\ Fairness
-----------------------------------------------------------------------------
(* Properties *)

\* Every variable has its type.
Content == Text \cup {Absent}
Snapshot == {s \in [Path -> Content \cup Config] :
                s[ProjectFile] \notin Text /\ \A f \in Topo \cup Impl : s[f] \notin Config}
Running == [pc : {"idle", "copyConfig", "copyImplementation", "attach", "files", "manifest",
                  "trust", "record", "untrust", "unlink", "import"},
            op : {"none", "copy", "apply", "acceptCandidate", "deleteCurrent", "trust",
                  "detach", "generate"},
            v : Release \cup {Absent}, todo : SUBSET Path, path : Path \cup {Absent}]
TypeOK ==
    /\ disk \in Snapshot
    /\ manifest \in Snapshot \cup {Absent}
    /\ trust \in [version : Release \cup {Absent}, files : [Impl -> Content]] \cup {Absent}
    /\ run \in Running
    /\ accepted \subseteq Path \X Local
    /\ reviewed \in BOOLEAN
    /\ handmade \subseteq Path
    /\ unsettled \in Release \cup {Absent}
    /\ edits \in 0..MaxEdits /\ kills \in 0..MaxKills

\* Every file the release ships is there as it ships it.
InPlace(v) == \A p \in Path : Candidate(v)[p] # Absent => disk[p] = Candidate(v)[p]

\* generate never imports an implementation an update has half written: what it
\* imports was reviewed as it is, or holds every file of one release.
LoadedIsWhole ==
    At("import") =>
        \/ reviewed
        \/ \E v \in Release : Executable(v) /\ \A f \in Impl : Ships[v][f] # Absent => disk[f] = Ships[v][f]

\* What `source status` reports as a local change of a template file is one,
\* unless a command was killed.
Drifted(p) == manifest # Absent /\ manifest[p] # Absent /\ disk[p] # manifest[p]
DriftExplained == At("idle") /\ kills = 0 => \A p \in Path : Drifted(p) => p \in handmade

\* An update that was killed can be run again: the files it has written are not
\* taken for local edits.
ResumeNotRefused == unsettled # Absent /\ At("idle") => Applicable(unsettled)

\* ... and running it again brings every file of the release, unless something
\* else is done first.
UpdateLands == \A v \in Release : unsettled = v ~> (InPlace(v) \/ unsettled # v)

\* Detaching the project never makes generate refuse a trusted implementation.
DetachKeepsTrust == [][run.op = "detach" /\ Settings.impl /\ Trusted => Trusted']_vars
-----------------------------------------------------------------------------
(* What the documentation says and the commands do not keep *)

\* Local edits are project-owned: no command overwrites or removes what a human
\* wrote unless she accepted it as the baseline.
LocalWorkKept ==
    [][\A p \in Path : disk[p] \in Local /\ disk'[p] # disk[p] /\ edits' = edits
           => <<p, disk[p]>> \in accepted]_vars
=============================================================================
