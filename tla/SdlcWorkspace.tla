---------------------------- MODULE SdlcWorkspace ----------------------------
(***************************************************************************)
(* The SDLC half of a Topogram workspace and every `topogram sdlc` command *)
(* that changes it, one command running at a time.                         *)
(*                                                                         *)
(* The workspace is three kinds of file: the `.tg` sources (one record per *)
(* file), the history sidecar .topogram-sdlc-history.json, and the JSONL   *)
(* archive.  A command parses and validates the whole workspace, refuses   *)
(* when any record is invalid, checks the legal transition table and the   *)
(* Definition of Done, then rewrites files.  Humans edit the same `.tg`    *)
(* text directly, which is what the validation and the drift warnings are  *)
(* for.  Module SdlcFiles opens the commands up into their separate reads  *)
(* and writes.                                                             *)
(***************************************************************************)
EXTENDS SdlcLifecycle, Naturals, Sequences

CONSTANTS
    Id,             \* statement ids
    KindOf,         \* the kind of each id (fixed by its prefix)
    Actor,          \* actors that claim tasks, each declared in the workspace
    Step,           \* step ids of a plan
    Seeds,          \* per id, the records the workspace may start with
    AuthorText,     \* per id, the [refs, fill] an author may write
    FileRank,       \* the order in which parsePath visits the files
    NoRecord,       \* "no such file"
    Busy,           \* bound: the ids commands and humans act on
    MaxSnapshots,   \* bound: archive entries per id
    MayRestart,     \* bound: the ids that may get a second life
    MayEdit         \* bound: the ids whose status token a human may edit

RefFields == {"satisfies", "acceptance_refs", "verification_refs", "blocked_by",
              "claimed_by", "fixed_in", "fixed_in_verification", "task", "pitch",
              "requirement", "requirement_refs"}

\* The placeholder the acceptance criterion template refers to.
TodoRequirement == "req_TODO"

\* Text sections whose presence some check tells apart; `gwt` is the
\* Given/When/Then wording, `rules` the introduces_rules and respects_rules
\* fields together.
Sections == {"appetite", "problem", "rabbit_holes", "no_go_areas", "decisions",
             "affects", "rules", "gwt"}

Target == Id \cup Actor \cup {TodoRequirement}

\* A record as its source text states it.  `steps` matters on plans only;
\* `quoted` marks text whose symbol fields are written as quoted strings.
RecordWith(statuses) == [status : statuses,
                         refs   : SUBSET (RefFields \X Target),
                         fill   : SUBSET Sections,
                         steps  : [Step -> StepStatuses],
                         quoted : BOOLEAN]
AnyStatus == UNION {StatusSet(kind) : kind \in Kinds}
AnyRecord == RecordWith(AnyStatus)
RecordOf(i) == RecordWith(StatusSet(KindOf[i]))

ASSUME ConstantsAssumption ==
    /\ KindOf \in [Id -> Kinds]
    /\ FileRank \in [Id -> Nat]
    /\ Busy \subseteq Id
    /\ MaxSnapshots \in Nat
    /\ MayRestart \subseteq Id
    /\ MayEdit \subseteq Id
    /\ NoRecord \notin AnyRecord
    /\ TodoRequirement \notin Id

\* Tasks enter the workspace unstarted; everything else may be found at any
\* status its author committed.
ASSUME SeedsAssumption ==
    \A i \in Id : \A r \in Seeds[i] :
        r = NoRecord \/ (r \in RecordOf(i) /\ (KindOf[i] = "task" => r.status = "unclaimed"))

ASSUME AuthorTextAssumption ==
    \A i \in Id : AuthorText[i] \subseteq [refs : SUBSET (RefFields \X Target),
                                           fill : SUBSET Sections]

\* `sdlc new` and `sdlc plan create` name a file after the slug, unarchive
\* names it after the id, so one id can come to own two files.
FileNames == {"slug", "id"}

VARIABLES
    src,        \* the .tg sources: src[id][file name] is a record or NoRecord
    last,       \* the sidecar: the `to` of the last transition recorded for an id
    stepLast,   \* the same for the entries keyed `plan#step`
    archive,    \* the JSONL entries of each id, oldest first
    pending,    \* candidates the running release or batch archive has left
    handEdited, \* history: ids whose status token a human has edited
    restarted   \* history: ids unarchived, or scaffolded over an older life

vars == <<src, last, stepLast, archive, pending, handEdited, restarted>>
-----------------------------------------------------------------------------
(* The resolved workspace *)

FilesOf(s, i) == {n \in FileNames : s[i][n] # NoRecord}
LiveIn(s) == {i \in Id : FilesOf(s, i) # {}}
Live == LiveIn(src)
Archived == {i \in Id : archive[i] # <<>>}
Known == Live \cup Archived

\* The file and record a lookup by id finds; unique in a valid workspace.
FileOf(i) == IF src[i]["id"] # NoRecord THEN "id" ELSE "slug"
Record(i) == src[i][FileOf(i)]

\* The byId map of the merged graph: a live record shadows the archive, and of
\* several archive entries the last one inserted wins.
ById(i) == IF i \in Live THEN Record(i) ELSE archive[i][Len(archive[i])]

Refs(r, field) == {t \in Target : <<field, t>> \in r.refs}
LiveOf(kind) == {i \in Live : KindOf[i] = kind}

\* Resolver back-links are computed from live statements only.
Backlinks(kind, field, i) == {j \in LiveOf(kind) : <<field, i>> \in Record(j).refs}
-----------------------------------------------------------------------------
(* Validation: validateWorkspace refuses a workspace that breaks one of these *)

AllowedKinds(field) ==
    CASE field = "satisfies" -> {"requirement", "acceptance_criterion"}
      [] field = "acceptance_refs" -> {"acceptance_criterion"}
      [] field \in {"verification_refs", "fixed_in_verification"} -> {"verification"}
      [] field \in {"blocked_by", "fixed_in", "task"} -> {"task"}
      [] field = "pitch" -> {"pitch"}
      [] field \in {"requirement", "requirement_refs"} -> {"requirement"}
      [] OTHER -> {}

\* The registry holds live statements only, so a reference to an archived
\* record is a missing reference.
Resolves(live, ref) ==
    \/ ref[1] = "claimed_by" /\ ref[2] \in Actor
    \/ ref[2] \in live /\ KindOf[ref[2]] \in AllowedKinds(ref[1])

RequiredRefs(kind) ==
    CASE kind = "acceptance_criterion" -> {"requirement"}
      [] kind = "plan" -> {"task"}
      [] OTHER -> {}

RecordValid(live, i, r) ==
    /\ ~r.quoted
    /\ \A ref \in r.refs : Resolves(live, ref)
    /\ <<"blocked_by", i>> \notin r.refs
    /\ \A field \in RequiredRefs(KindOf[i]) : Refs(r, field) # {}
    /\ KindOf[i] = "task" /\ r.status \in {"claimed", "in-progress", "done"}
           => Refs(r, "claimed_by") # {}
    /\ KindOf[i] = "bug" /\ r.status = "verified" => Refs(r, "fixed_in_verification") # {}
    /\ KindOf[i] = "plan" /\ r.status = "complete"
           => \A st \in Step : r.steps[st] \in FinishedSteps
    /\ KindOf[i] = "pitch" /\ r.status \in {"shaped", "submitted", "approved"}
           => {"appetite", "rabbit_holes", "no_go_areas"} \subseteq r.fill

ValidIn(s) ==
    LET live == LiveIn(s) IN
        \A i \in live :
            /\ FilesOf(s, i) # FileNames
            /\ \A n \in FilesOf(s, i) : RecordValid(live, i, s[i][n])

Valid == ValidIn(src)
-----------------------------------------------------------------------------
(* Definition of Done: what `transition` demands before entering a status *)

\* Mutants: the claim, the blockers or the verifications are not looked at.
TaskDoDUnclaimed(r, to) == to = "done" => Refs(r, "verification_refs") # {}
TaskDoDUnblocked(r, to) == to \in {"claimed", "in-progress"} => Refs(r, "claimed_by") # {}
TaskDoDUnproved(r, to) ==
    /\ to \in {"claimed", "in-progress", "done"} => Refs(r, "claimed_by") # {}
    /\ to = "done" => Refs(r, "satisfies") # {} /\ Refs(r, "acceptance_refs") # {}

TaskDoD(r, to) ==
    /\ to \in {"claimed", "in-progress", "done"} => Refs(r, "claimed_by") # {}
    /\ to = "in-progress" =>
           \A b \in Refs(r, "blocked_by") : b \in Known => ById(b).status = "done"
    /\ to = "done" =>
           /\ Refs(r, "satisfies") # {}
           /\ Refs(r, "acceptance_refs") # {}
           /\ Refs(r, "verification_refs") # {}
           /\ \A q \in Refs(r, "satisfies") : q \in Known /\ KindOf[q] = "requirement"
           /\ \A a \in Refs(r, "acceptance_refs") :
                  /\ a \in Known
                  /\ KindOf[a] = "acceptance_criterion"
                  /\ ById(a).status = "approved"
           /\ \A v \in Refs(r, "verification_refs") :
                  v \in Known /\ KindOf[v] = "verification"

PlanDoD(r, to) == to = "complete" => \A st \in Step : r.steps[st] \in FinishedSteps

BugDoD(r, to) ==
    /\ to \in {"fixed", "verified"} => Refs(r, "fixed_in") # {}
    /\ to = "verified" => Refs(r, "fixed_in_verification") # {}

PitchDoD(i, r, to) ==
    /\ to \in {"shaped", "submitted", "approved"} => {"appetite", "problem"} \subseteq r.fill
    /\ to = "covered" => Backlinks("requirement", "pitch", i) # {} \/ "decisions" \in r.fill

RequirementDoD(i, r, to) ==
    /\ to \in {"in-review", "approved"} => "affects" \in r.fill
    /\ to = "approved" => Backlinks("acceptance_criterion", "requirement", i) # {}
    /\ to = "satisfied" =>
           \E t \in Backlinks("task", "satisfies", i) : ById(t).status = "done"
    /\ to = "ongoing" =>
           "rules" \in r.fill \/ Backlinks("verification", "requirement_refs", i) # {}

CriterionDoD(r, to) ==
    /\ Refs(r, "requirement") # {}
    /\ to = "approved" => "gwt" \in r.fill

DoD(i, r, to) ==
    CASE KindOf[i] = "task" -> TaskDoD(r, to)
      [] KindOf[i] = "plan" -> PlanDoD(r, to)
      [] KindOf[i] = "bug" -> BugDoD(r, to)
      [] KindOf[i] = "pitch" -> PitchDoD(i, r, to)
      [] KindOf[i] = "requirement" -> RequirementDoD(i, r, to)
      [] KindOf[i] = "acceptance_criterion" -> CriterionDoD(r, to)
      [] OTHER -> TRUE

Transitionable(i, r, to) ==
    /\ <<r.status, to>> \in LegalTransitions(KindOf[i])
    /\ DoD(i, r, to)
-----------------------------------------------------------------------------
(* Commands.  Each begins by resolving the workspace and refusing an invalid
   one; a command that refuses changes nothing and is not a step. *)

Idle == pending = {}
Ready(i) == Idle /\ Valid /\ i \in Live

Write(i, r) == src' = [src EXCEPT ![i][FileOf(i)] = r]
\* Mutant: only an id's first transition reaches the sidecar.
RecordedOnce(i, to) == last' = [last EXCEPT ![i] = IF @ = "none" THEN to ELSE @]
Recorded(i, to) == last' = [last EXCEPT ![i] = to]

BlankRecord(i) == [status |-> InitialStatus(KindOf[i]), refs |-> {}, fill |-> {},
                   steps |-> [st \in Step |-> "pending"], quoted |-> FALSE]

Template(i) ==
    CASE KindOf[i] = "pitch" ->
            [BlankRecord(i) EXCEPT !.fill = {"appetite", "problem", "rabbit_holes", "no_go_areas"}]
      [] KindOf[i] = "acceptance_criterion" ->
            [BlankRecord(i) EXCEPT !.refs = {<<"requirement", TodoRequirement>>}, !.fill = {"gwt"}]
      [] OTHER -> BlankRecord(i)

\* `sdlc new`: looks at the target path only; it neither parses the workspace
\* nor asks whether the id is live elsewhere or archived.
Scaffold(i) ==
    /\ Idle
    /\ KindOf[i] \in {"pitch", "requirement", "acceptance_criterion", "task", "bug"}
    /\ src[i]["slug"] = NoRecord
    /\ src' = [src EXCEPT ![i]["slug"] = Template(i)]
    /\ IF i \in Known \/ last[i] # "none"
         THEN i \in MayRestart /\ restarted' = restarted \cup {i}
         ELSE UNCHANGED restarted
    /\ UNCHANGED <<last, stepLast, archive, pending, handEdited>>

\* `sdlc plan create --write`: the task is looked up in the merged graph, so an
\* archived task is accepted; the plan id must be new to that graph.
CreatePlan(i, t) ==
    /\ KindOf[i] = "plan" /\ i \notin Known
    /\ KindOf[t] = "task" /\ t \in Known
    /\ Idle /\ Valid
    /\ src[i]["slug"] = NoRecord
    /\ src' = [src EXCEPT ![i]["slug"] = [BlankRecord(i) EXCEPT !.refs = {<<"task", t>>}]]
    /\ UNCHANGED <<last, stepLast, archive, pending, handEdited, restarted>>

Transition(i, to) ==
    /\ i \in Live /\ <<Record(i).status, to>> \in LegalTransitions(KindOf[i])
    /\ Ready(i)
    /\ DoD(i, Record(i), to)
    /\ Write(i, [Record(i) EXCEPT !.status = to])
    /\ Recorded(i, to)
    /\ UNCHANGED <<stepLast, archive, pending, handEdited, restarted>>

LinkField(from, to) ==
    CASE from = "task" /\ to = "requirement" -> "satisfies"
      [] from = "task" /\ to = "acceptance_criterion" -> "acceptance_refs"
      [] from = "task" /\ to = "verification" -> "verification_refs"
      [] from = "bug" /\ to = "task" -> "fixed_in"
      [] from = "bug" /\ to = "verification" -> "fixed_in_verification"
      [] from = "acceptance_criterion" /\ to = "requirement" -> "requirement"
      [] OTHER -> "none"

\* The record `sdlc link` writes: the target may be archived; a single-valued
\* field is never redirected.
Linked(i, t) ==
    LET field == LinkField(KindOf[i], KindOf[t]) IN
        [Record(i) EXCEPT !.refs = @ \cup {<<field, t>>}]

Linkable(i, t) ==
    LET field == LinkField(KindOf[i], KindOf[t]) IN
        /\ field # "none"
        /\ t \in Known
        /\ field = "requirement" => Refs(Record(i), field) \subseteq {t}

Link(i, t) ==
    /\ i \in Live /\ Linkable(i, t)
    /\ Ready(i)
    /\ Write(i, Linked(i, t))
    /\ UNCHANGED <<last, stepLast, archive, pending, handEdited, restarted>>

\* `sdlc complete --write`: links the verification, then transitions to done.
\* A refused transition leaves the link behind.
Complete(i, v) ==
    /\ i \in Live /\ Linkable(i, v)
    /\ Ready(i)
    /\ LET linked == Linked(i, v)
           relinked == [src EXCEPT ![i][FileOf(i)] = linked]
       IN IF ValidIn(relinked) /\ Transitionable(i, linked, "done")
            THEN Write(i, [linked EXCEPT !.status = "done"]) /\ Recorded(i, "done")
            ELSE Write(i, linked) /\ UNCHANGED last
    /\ UNCHANGED <<stepLast, archive, pending, handEdited, restarted>>

\* The can_start verdict of the start packet, for a live task.
CanStart(i, a) ==
    /\ \A b \in Refs(Record(i), "blocked_by") : b \in Known => ById(b).status = "done"
    /\ Refs(Record(i), "claimed_by") = {} \/ a \in Refs(Record(i), "claimed_by")
    /\ Record(i).status \in {"unclaimed", "claimed", "in-progress"}

\* `sdlc start --write`: claims an unclaimed task for the actor, moves it to
\* claimed and on to in-progress; both transitions are recorded.
Start(i, a) ==
    /\ KindOf[i] = "task"
    /\ Ready(i) /\ CanStart(i, a)
    /\ Record(i).status \in {"unclaimed", "claimed"}
    /\ LET claimed == IF Record(i).status = "unclaimed"
                        THEN [Record(i) EXCEPT !.refs = @ \cup {<<"claimed_by", a>>}]
                        ELSE Record(i)
       IN Write(i, [claimed EXCEPT !.status = "in-progress"])
    /\ Recorded(i, "in-progress")
    /\ UNCHANGED <<stepLast, archive, pending, handEdited, restarted>>

\* `sdlc plan step <status> --write`.
PlanStep(i, st, to) ==
    /\ KindOf[i] = "plan"
    /\ Ready(i)
    /\ <<Record(i).steps[st], to>> \in StepTransitions
    /\ Write(i, [Record(i) EXCEPT !.steps[st] = to])
    /\ stepLast' = [stepLast EXCEPT ![i][st] = to]
    /\ UNCHANGED <<last, archive, pending, handEdited, restarted>>

Eligible(i) == i \in Live /\ Record(i).status \in ArchivableStatuses(KindOf[i])

\* Mutant: the statement block is not found in the source and stays there.
MoveToArchiveKeepingBlock(i) ==
    /\ archive' = [archive EXCEPT ![i] = Append(@, Record(i))]
    /\ UNCHANGED src

\* archiveStatement: append the snapshot, then remove the source block.
MoveToArchive(i) ==
    /\ archive' = [archive EXCEPT ![i] = Append(@, Record(i))]
    /\ src' = [src EXCEPT ![i][FileOf(i)] = NoRecord]

Archive(i) ==
    /\ Eligible(i) /\ Len(archive[i]) < MaxSnapshots
    /\ Ready(i)
    /\ MoveToArchive(i)
    /\ UNCHANGED <<last, stepLast, pending, handEdited, restarted>>

\* `release` and `sdlc archive` without an id: resolve once, list what is
\* eligible, then archive the candidates one by one.
BeginRelease ==
    /\ Idle /\ Valid
    /\ \A i \in Id : Len(archive[i]) < MaxSnapshots
    /\ pending' = {i \in Busy : Eligible(i)}
    /\ pending' # {}
    /\ UNCHANGED <<src, last, stepLast, archive, handEdited, restarted>>

\* archiveBatch takes the next candidate in file order; archiveStatement parses
\* and validates again, and a refused candidate is passed over.
ReleaseStep(i) ==
    /\ i \in pending
    /\ \A j \in pending : FileRank[i] <= FileRank[j]
    /\ pending' = pending \ {i}
    /\ IF Valid /\ Eligible(i)
         THEN MoveToArchive(i)
         ELSE UNCHANGED <<src, archive>>
    /\ UNCHANGED <<last, stepLast, handEdited, restarted>>

\* The process is killed between two candidates.
Interrupt ==
    /\ pending # {} /\ pending' = {}
    /\ UNCHANGED <<src, last, stepLast, archive, handEdited, restarted>>

\* The text renderStatement writes: non-plan kinds come back with quoted
\* priorities, severities and work types.
Restored(i) ==
    [Head(archive[i]) EXCEPT !.status = ReopenStatus(KindOf[i]),
                             !.quoted = KindOf[i] # "plan"]

\* `sdlc unarchive`: no validation, no history; the oldest entry is restored
\* and every entry of that id leaves the archive file.
Unarchive(i) ==
    /\ Idle
    /\ KindOf[i] \in ArchivableKinds
    /\ i \in Archived /\ i \in MayRestart
    /\ src[i]["id"] = NoRecord
    /\ src' = [src EXCEPT ![i]["id"] = Restored(i)]
    /\ archive' = [archive EXCEPT ![i] = <<>>]
    /\ restarted' = restarted \cup {i}
    /\ UNCHANGED <<last, stepLast, pending, handEdited>>
-----------------------------------------------------------------------------
(* What humans do to the `.tg` text between commands *)

\* An author rewrites the declarative fields of a record that has not started,
\* keeping the claim.
Drafted(i, text) ==
    [Record(i) EXCEPT !.refs = text.refs \cup (@ \cap ({"claimed_by"} \X Actor)),
                      !.fill = text.fill,
                      !.quoted = FALSE]

Draft(i, text) ==
    /\ Idle
    /\ i \in Live /\ Record(i).status = InitialStatus(KindOf[i])
    /\ Write(i, Drafted(i, text))
    /\ UNCHANGED <<last, stepLast, archive, pending, handEdited, restarted>>

\* Someone reads the validation errors of record i and repairs its text:
\* drops references that do not resolve, unquotes symbols, fills a pitch's
\* missing sections, deletes the second file of a duplicated id.
Repaired(i) ==
    [Record(i) EXCEPT !.refs = {ref \in @ : Resolves(Live, ref)},
                      !.fill = IF KindOf[i] = "pitch"
                                 THEN @ \cup {"appetite", "rabbit_holes", "no_go_areas"}
                                 ELSE @,
                      !.quoted = FALSE]

Repair(i) ==
    /\ Idle
    /\ \/ /\ FilesOf(src, i) = FileNames
          /\ \E n \in FileNames : src' = [src EXCEPT ![i][n] = NoRecord]
       \/ /\ i \in Live /\ FilesOf(src, i) # FileNames
          /\ ~RecordValid(Live, i, Record(i))
          /\ Write(i, Repaired(i))
    /\ UNCHANGED <<last, stepLast, archive, pending, handEdited, restarted>>

\* A status token edited outside the CLI.
EditStatus(i, to) ==
    /\ Idle /\ i \in MayEdit
    /\ i \in Live /\ to \in StatusSet(KindOf[i]) \ {Record(i).status}
    /\ Write(i, [Record(i) EXCEPT !.status = to])
    /\ handEdited' = handEdited \cup {i}
    /\ UNCHANGED <<last, stepLast, archive, pending, restarted>>
-----------------------------------------------------------------------------
Init ==
    /\ \E first \in [Id -> UNION {Seeds[i] : i \in Id}] :
           /\ \A i \in Id : first[i] \in Seeds[i]
           /\ src = [i \in Id |-> [n \in FileNames |-> IF n = "slug" THEN first[i] ELSE NoRecord]]
    /\ last = [i \in Id |-> "none"]
    /\ stepLast = [i \in Id |-> [st \in Step |-> "none"]]
    /\ archive = [i \in Id |-> <<>>]
    /\ pending = {}
    /\ handEdited = {}
    /\ restarted = {}

Command(i) ==
    \/ Scaffold(i)
    \/ \E t \in Id : CreatePlan(i, t) \/ Link(i, t) \/ Complete(i, t)
    \/ \E to \in StatusSet(KindOf[i]) : Transition(i, to)
    \/ \E a \in Actor : Start(i, a)
    \/ \E st \in Step, to \in StepStatuses : PlanStep(i, st, to)
    \/ Archive(i)
    \/ ReleaseStep(i)
    \/ Unarchive(i)

Human(i) ==
    \/ \E text \in AuthorText[i] : Draft(i, text)
    \/ Repair(i)
    \/ \E to \in StatusSet(KindOf[i]) : EditStatus(i, to)

Next == (\E i \in Busy : Command(i) \/ Human(i)) \/ BeginRelease \/ Interrupt

Spec == Init /\ [][Next]_vars
-----------------------------------------------------------------------------
(* Properties *)

\* Every variable has its type; archived snapshots are records of their id.
TypeOK ==
    /\ src \in [Id -> [FileNames -> AnyRecord \cup {NoRecord}]]
    /\ \A i \in Id : \A n \in FileNames : src[i][n] \in RecordOf(i) \cup {NoRecord}
    /\ last \in [Id -> AnyStatus \cup {"none"}]
    /\ stepLast \in [Id -> [Step -> StepStatuses \cup {"none"}]]
    /\ archive \in [Id -> Seq(AnyRecord)]
    /\ \A i \in Id : \A k \in 1..Len(archive[i]) : archive[i][k] \in RecordOf(i)
    /\ pending \subseteq Id
    /\ handEdited \subseteq Id
    /\ restarted \subseteq Id

\* What `sdlc check` calls drift: the sidecar has an entry for the record (or
\* one of its steps) and its last `to` is not the status in the source.
Drifted(i) ==
    \/ last[i] \notin {"none", Record(i).status}
    \/ KindOf[i] = "plan"
          /\ \E st \in Step : stepLast[i][st] \notin {"none", Record(i).steps[st]}

\* No false alarm: whatever sequence of commands runs, in a release or out of
\* it, a live record drifts only if a human edited its status or it began a
\* second life (unarchive, `sdlc new` over an old id).
DriftExplained == \A i \in Live : Drifted(i) => i \in handEdited \cup restarted

\* A task is worked on or finished only after everything it is blocked by has
\* finished, and stays that way: blockers never fall back from done, archived
\* or not, unless someone edits or revives one of the two.
BlockersFinished ==
    \A i \in LiveOf("task") \ (handEdited \cup restarted) :
        Record(i).status \in {"in-progress", "done"} =>
            \A b \in Refs(Record(i), "blocked_by") \ (handEdited \cup restarted) :
                b \in Known /\ ById(b).status = "done"

\* The proof of a finished task outlives it: its requirement, criterion and
\* verification references still lead to live records, because those kinds
\* are never archived.
ProofStaysLive ==
    \A i \in LiveOf("task") \ (handEdited \cup restarted) :
        Record(i).status = "done" =>
            \A field \in {"satisfies", "acceptance_refs", "verification_refs"} :
                Refs(Record(i), field) # {} /\ Refs(Record(i), field) \subseteq Live

\* The archive is a record of finished work: every snapshot an undisturbed id
\* left there was proved, claimed, stepped through or verified at the time.
\* (fixed_in is not on the list: a fixed bug's task may be archived first.)
ArchivedWorkFinished ==
    \A i \in Id \ (handEdited \cup restarted) : \A k \in 1..Len(archive[i]) :
        LET r == archive[i][k] IN
            /\ KindOf[i] = "task" =>
                   /\ r.status = "done"
                   /\ \A field \in {"claimed_by", "satisfies", "acceptance_refs",
                                    "verification_refs"} : Refs(r, field) # {}
            /\ KindOf[i] = "plan" /\ r.status = "complete" =>
                   \A st \in Step : r.steps[st] \in FinishedSteps
            /\ KindOf[i] = "bug" /\ r.status = "verified" =>
                   Refs(r, "fixed_in_verification") # {}

\* The Definition of Done is at least as strict as the validator: a transition
\* never turns a valid workspace into one every command refuses.  Pitches are
\* the exception: the Definition of Done of a shaped pitch asks for appetite
\* and problem, its validator for appetite, rabbit_holes and no_go_areas.
TransitionKeepsValid ==
    [][Valid /\ (\E i \in Id : KindOf[i] # "pitch" /\ last'[i] # last[i]) => Valid']_vars

\* A release that runs to its end in a workspace that stayed valid leaves
\* nothing archivable behind, whatever order the candidates came in.
ReleaseDrains ==
    [][pending # {} /\ pending' = {} /\ Valid' /\ (\E i \in Id : ReleaseStep(i))
           => \A i \in Busy : ~Eligible(i)']_vars
=============================================================================
