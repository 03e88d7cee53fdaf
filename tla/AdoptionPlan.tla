----------------------------- MODULE AdoptionPlan -----------------------------
(***************************************************************************)
(* A workspace extracted from an existing application, and the adoption of *)
(* the extracted candidates into canonical records.                        *)
(*                                                                         *)
(* `topogram extract refresh` replaces the candidates by those of the      *)
(* source of today; `reconcile` merges the saved adoption plan into items  *)
(* computed from candidates and canonical records; `topogram adopt` writes *)
(* the selected items as canonical files, then the plan, then a receipt.   *)
(* What blocks an item is computed from the resolved graph, and there is   *)
(* none while the canonical records do not validate.                       *)
(***************************************************************************)
EXTENDS Naturals, FiniteSets

CONSTANTS
    Item,          \* candidates: what some version of the source contains
    Rank,          \* the order of the plan
    Kind,          \* Kind[i]: "capability", "entity" or "shape"
    Bundle,        \* Bundle[i]: the bundle of an item
    Needs,         \* Needs[i]: the items the text of candidate i references
    Signature,     \* Signature[i]: the field names of shape i
    Projection,    \* canonical api and ui projections
    Covers,        \* Covers[p]: the bundles whose entity projection p covers
    Version,       \* versions of the source
    Found,         \* Found[v]: the items extracted from version v
    Draft,         \* documents under candidates/docs
    Human, Edited, \* a file a human wrote; an adopted file a human edited
    Absent,        \* no file, no record
    Selector,      \* bound: the selectors adopt is called with
    InitProjections,
    MaxEdits,      \* bound: what humans change in the workspace or in the application
    MaxKills       \* bound: how many commands are killed

Status == {"pending", "needs_review", "approved", "applied", "skipped"}

ASSUME ItemsAssumption ==
    /\ Rank \in [Item -> Nat]
    /\ \A i, j \in Item : Rank[i] = Rank[j] => i = j
    /\ Kind \in [Item -> {"capability", "entity", "shape"}]
    /\ Needs \in [Item -> SUBSET Item]
    /\ Covers \in [Projection -> SUBSET {Bundle[i] : i \in Item}]

ASSUME SourceAssumption ==
    /\ Found \in [Version -> SUBSET Item]
    /\ Human # Edited /\ Absent \notin {Human, Edited} \cup Version \cup Status
    /\ {Human, Edited} \cap Version = {}
    /\ InitProjections \subseteq Projection
    /\ \A sel \in Selector : sel.by = "review" => sel.arg \in Projection
    /\ MaxEdits \in Nat /\ MaxKills \in Nat

\* A capability is in the bundle named after the entity it is about, and its
\* shapes are extracted and bundled with it; no other candidate references one.
ASSUME ReferencesAssumption ==
    \A i \in Item : \A j \in Needs[i] :
        /\ Kind[i] = "capability" /\ Kind[j] # "capability" /\ Bundle[j] = Bundle[i]
        /\ Kind[j] = "shape" => \A v \in Version : j \in Found[v] => i \in Found[v]

VARIABLES
    source,       \* the version of the application now
    trusted,      \* .topogram-extract.json: the version whose hashes it holds
    cands,        \* candidates/app: the version the candidates come from
    canon,        \* canon[i]: the canonical file of item i
    docs,         \* the drafts that have a canonical file
    projections,  \* the canonical projections
    plan,         \* candidates/reconcile/adoption-plan.json
    model,        \* candidates/reconcile/model: the version its files come from
    agent,        \* whether adoption-plan.agent.json exists
    receipts,     \* .topogram-adoptions.jsonl: the items with their version
    run,          \* the command that is running
    edits, kills,
    reviewed,     \* history: the projections whose review a human approved in this plan
    late,         \* history: the projections added since the plan was drawn up
    removed,      \* history: the items whose canonical file a human deleted since
    crossed,      \* history: the last refresh was killed, or the source changed under it
    unreceipted,  \* history: the items written by an adoption that was killed
    unfinished    \* history: the killed adoption, until something else is done

vars == <<source, trusted, cands, canon, docs, projections, plan, model, agent, receipts, run,
          edits, kills, reviewed, late, removed, crossed, unreceipted, unfinished>>
bounds == <<edits, kills>>
topo == <<canon, docs, projections>>
proposals == <<plan, model, agent>>
reviews == <<reviewed, late, removed>>

NoPlan == [status |-> [i \in Item |-> Absent], groups |-> {}, dup |-> {}]
NoneLeft == [sel |-> Absent, items |-> {}]
Idle == [op |-> "none", pc |-> "idle", sel |-> Absent, forced |-> FALSE, loads |-> TRUE,
         v |-> Absent, text |-> [i \in Item |-> Absent], out |-> {}, todo |-> {}, plan |-> NoPlan]
At(pc) == run.pc = pc
Goto(pc) == run' = [run EXCEPT !.pc = pc]
-----------------------------------------------------------------------------
(* Candidates against canonical records *)

\* tryLoadResolvedGraph: an adopted file references records that exist.
Loads == \A i \in Item :
    canon[i] \in Version \cup {Edited} => \A j \in Needs[i] : canon[j] # Absent

Extracted == IF cands = Absent THEN {} ELSE Found[cands]

\* buildCandidateModelBundles: what the graph knows is not offered again; the
\* shapes come with their capability.
Offered == IF ~Loads THEN Extracted ELSE
    {i \in Extracted :
        IF Kind[i] = "shape"
          THEN \E c \in Extracted : Kind[c] = "capability" /\ i \in Needs[c] /\ canon[c] = Absent
          ELSE canon[i] = Absent}

\* skip_duplicate_shape: a canonical shape has the same fields.
Duplicate(i) ==
    /\ Kind[i] = "shape" /\ Loads
    /\ \E j \in Item : /\ Kind[j] = "shape" /\ Signature[j] = Signature[i]
                       /\ canon[j] \in Version \cup {Edited}

\* What a reconcile sees: whether there is a graph, what is offered, what duplicates.
Sight == LET offered == Offered
         IN [loads |-> Loads, offered |-> offered, dup |-> {i \in offered : Duplicate(i)}]

\* buildProjectionImpacts: a projection covers the entity of the bundle and
\* does not realize the capability.
Blockers(sight, i) == {p \in projections :
    Kind[i] = "capability" /\ i \in sight.offered /\ sight.loads /\ Bundle[i] \in Covers[p]}

\* buildAdoptionPlan, adoptionStatusForStep.
BaseStatus(sight, i) == CASE i \in sight.dup -> "skipped"
                          [] i \notin sight.dup /\ Blockers(sight, i) # {} -> "needs_review"
                          [] OTHER -> "pending"

\* Mutant: a status by the name another command uses for it.
DerivedAccepted(sight, i, status, groups) ==
    IF status \in {"applied", "skipped", "approved"} THEN status
    ELSE IF Blockers(sight, i) = {} THEN "pending"
    ELSE IF Blockers(sight, i) \subseteq groups THEN "accepted" ELSE "needs_review"

\* Mutant: one approved review is enough.
DerivedFromAny(sight, i, status, groups) ==
    IF status \in {"applied", "skipped", "approved"} THEN status
    ELSE IF Blockers(sight, i) = {} THEN "pending"
    ELSE IF Blockers(sight, i) \cap groups # {} THEN "approved" ELSE "needs_review"

\* refreshDerivedStatuses.
Derived(sight, i, status, groups) ==
    IF status \in {"applied", "skipped", "approved"} THEN status
    ELSE IF Blockers(sight, i) = {} THEN "pending"
    ELSE IF Blockers(sight, i) \subseteq groups THEN "approved" ELSE "needs_review"

\* mergeAdoptionPlanState: the saved status wins, a canonical file makes an
\* item applied, and what was applied stays when it is no longer offered.
MergedStatus(sight, i) ==
    LET saved == plan.status[i]
        status == IF saved # Absent THEN saved ELSE BaseStatus(sight, i)
    IN CASE i \notin sight.offered -> IF saved = "applied" THEN saved ELSE Absent
         [] i \in sight.offered /\ status \notin {"applied", "skipped"} /\ canon[i] # Absent -> "applied"
         [] OTHER -> Derived(sight, i, status, plan.groups)

Merged(sight) == [status |-> [i \in Item |-> MergedStatus(sight, i)],
                  groups |-> plan.groups,
                  dup |-> sight.dup \cup (plan.dup \ sight.offered)]
-----------------------------------------------------------------------------
(* Selection *)

\* selectorMatchesItem.
Matches(sel, i) ==
    CASE sel.by = "kind" -> Kind[i] = sel.arg
      [] sel.by \in {"bundle", "bundle-review"} -> Bundle[i] = sel.arg
      [] OTHER -> FALSE

\* Before the expansion: what the selector names.
InitiallySelected(sel, status) ==
    IF sel.by = "from-plan" THEN {i \in Item : status[i] \in {"pending", "approved"}}
    ELSE {i \in Item : Matches(sel, i) /\ status[i] \in {"pending", "approved", "applied"}}

DependentShapes(status, initial) == {s \in Item :
    /\ Kind[s] = "shape" /\ status[s] \notin {"skipped", Absent}
    /\ \E c \in initial : Kind[c] = "capability" /\ Bundle[c] = Bundle[s]}

\* Mutant: the shapes and their capabilities replace the selection.
SelectedReplaced(sel, status) ==
    IF sel.by \in {"review", "bundle-review"} THEN {}
    ELSE LET initial == InitiallySelected(sel, status)
             shapes == DependentShapes(status, initial)
         IN IF shapes = {} THEN initial ELSE shapes \cup {c \in initial : Kind[c] = "capability"}

\* expandSelectedItemsForDependentShapes: a selected capability brings the
\* shapes of its bundle.
Selected(sel, status) ==
    IF sel.by \in {"review", "bundle-review"} THEN {}
    ELSE LET initial == InitiallySelected(sel, status)
         IN initial \cup DependentShapes(status, initial)

\* The review groups a review selector approves.
Approves(sel, sight) ==
    CASE sel.by = "review" -> {sel.arg}
      [] sel.by = "bundle-review" ->
           UNION {Blockers(sight, i) : i \in {j \in sight.offered : Matches(sel, j)}}
      [] OTHER -> {}

\* applyAdoptionSelector in write mode.
Adopted(sel, sight, merged) ==
    LET groups == merged.groups \cup Approves(sel, sight)
        selected == Selected(sel, merged.status)
        After(i, status) ==
            IF status = Absent THEN Absent
            ELSE IF i \in selected THEN "applied"
            ELSE IF sel.by \in {"review", "bundle-review"} THEN Derived(sight, i, status, groups)
            ELSE status
    IN [merged EXCEPT !.groups = groups,
                      !.status = [i \in Item |-> After(i, merged.status[i])]]

\* An item that is no longer offered comes from the candidate model on disk.
Text(sight) == [i \in Item |-> IF i \in sight.offered THEN cands ELSE model]

\* Mutant: what the file says of its origin is not looked at.
OutputsOfAnyOrigin(sel, merged, text, refreshAdopted) ==
    {i \in Selected(sel, merged.status) \ merged.dup :
        text[i] # Absent /\ (canon[i] = Absent \/ refreshAdopted)}

\* buildCanonicalAdoptionOutputs: an existing file is left alone, unless
\* --refresh-adopted and the file is still marked as imported.
Outputs(sel, merged, text, refreshAdopted) ==
    {i \in Selected(sel, merged.status) \ merged.dup :
        /\ text[i] # Absent
        /\ \/ canon[i] = Absent
           \/ refreshAdopted /\ canon[i] # Human}
-----------------------------------------------------------------------------
(* topogram adopt <selector> --write *)

\* Another command than the one that was killed.
Abandon == unfinished' = NoneLeft

\* buildBrownfieldImportAdoptPayload up to its first write: provenance is
\* clean or the write is forced.
Adopt(sel, forced, refreshAdopted) ==
    /\ At("idle") /\ sel \in Selector /\ agent
    /\ forced = (source # trusted)  \* unforced it would be refused; --force changes nothing else
    /\ \E sight \in {Sight} : \E merged \in {Merged(sight)}, text \in {Text(sight)} :
          \E out \in {Outputs(sel, merged, text, refreshAdopted)} :
             /\ run' = [op |-> "adopt", pc |-> "promote", sel |-> sel, forced |-> forced,
                        loads |-> sight.loads, v |-> Absent, text |-> text, out |-> out,
                        todo |-> out, plan |-> Adopted(sel, sight, merged)]
             /\ reviewed' = reviewed \cup Approves(sel, sight)
    /\ unfinished' = IF unfinished.sel = sel /\ ~refreshAdopted THEN unfinished ELSE NoneLeft
    /\ UNCHANGED <<source, trusted, cands, topo, proposals, receipts, bounds,
                   late, removed, crossed, unreceipted>>

\* Mutant: the plan is saved before the files it says are applied.
PromoteAndSave ==
    /\ At("promote")
    /\ docs' = docs \cup Draft
    /\ plan' = run.plan
    /\ Goto(CASE run.op # "adopt" -> "model" [] run.op = "adopt" /\ run.todo # {} -> "files" [] OTHER -> "plan")
    /\ UNCHANGED <<source, trusted, cands, canon, projections, model, agent, receipts, bounds,
                   reviews, crossed, unreceipted, unfinished>>

\* Every reconcile first promotes the drafts that have no canonical file.
Promote ==
    /\ At("promote")
    /\ docs' = docs \cup Draft
    /\ Goto(CASE run.op # "adopt" -> "model" [] run.op = "adopt" /\ run.todo # {} -> "files" [] OTHER -> "plan")
    /\ UNCHANGED <<source, trusted, cands, canon, projections, proposals, receipts, bounds,
                   reviews, crossed, unreceipted, unfinished>>

\* writeRelativeFiles: the canonical files, in the order of the plan.
WriteItem ==
    /\ At("files")
    /\ \E i \in run.todo :
          /\ \A j \in run.todo : Rank[i] <= Rank[j]
          /\ canon' = [canon EXCEPT ![i] = run.text[i]]
          /\ run' = [run EXCEPT !.todo = @ \ {i}, !.pc = IF run.todo = {i} THEN "plan" ELSE @]
    /\ UNCHANGED <<source, trusted, cands, docs, projections, proposals, receipts, bounds,
                   reviews, crossed, unreceipted, unfinished>>

\* Without a selector, the candidate model instead.
WriteModel ==
    /\ At("model")
    /\ model' = IF cands = Absent THEN model ELSE cands
    /\ Goto("plan")
    /\ UNCHANGED <<source, trusted, cands, topo, plan, agent, receipts, bounds,
                   reviews, crossed, unreceipted, unfinished>>

WritePlan ==
    /\ At("plan")
    /\ plan' = run.plan
    /\ Goto("agent")
    /\ UNCHANGED <<source, trusted, cands, topo, model, agent, receipts, bounds,
                   reviews, crossed, unreceipted, unfinished>>

\* The last file of a reconcile; adopt goes on to its receipt, refresh to the
\* provenance record.
WriteAgentPlan ==
    /\ At("agent")
    /\ agent' = TRUE
    /\ IF run.op = "reconcile" THEN run' = Idle
       ELSE Goto(IF run.op = "adopt" THEN "receipt" ELSE "provenance")
    /\ UNCHANGED <<source, trusted, cands, topo, plan, model, receipts, bounds,
                   reviews, crossed, unreceipted, unfinished>>

\* Mutant: the receipt names what was selected last, over the older ones.
ReplaceReceipts ==
    /\ At("receipt")
    /\ receipts' = {<<i, run.text[i]>> : i \in run.out}
    /\ run' = Idle
    /\ unreceipted' = unreceipted \ run.out
    /\ UNCHANGED <<source, trusted, cands, topo, proposals, edits, kills,
                   reviews, crossed, unfinished>>

\* appendImportAdoptionReceipt.
AppendReceipt ==
    /\ At("receipt")
    /\ receipts' = receipts \cup {<<i, run.text[i]>> : i \in run.out}
    /\ run' = Idle
    /\ unreceipted' = unreceipted \ run.out
    /\ UNCHANGED <<source, trusted, cands, topo, proposals, edits, kills,
                   reviews, crossed, unfinished>>
-----------------------------------------------------------------------------
(* topogram extract refresh, and topogram reconcile --write *)

\* Mutant: the candidates of the recorded version are taken again.
ExtractRecorded ==
    /\ At("idle")
    /\ run' = [Idle EXCEPT !.op = "refresh", !.pc = "clearApp", !.v = trusted]
    /\ crossed' = FALSE
    /\ Abandon
    /\ UNCHANGED <<source, trusted, cands, topo, proposals, receipts, bounds,
                   reviews, unreceipted>>

\* buildBrownfieldImportRefreshAnalysis extracts from the source ...
Extract ==
    /\ At("idle")
    /\ run' = [Idle EXCEPT !.op = "refresh", !.pc = "clearApp", !.v = source]
    /\ crossed' = FALSE
    /\ Abandon
    /\ UNCHANGED <<source, trusted, cands, topo, proposals, receipts, bounds,
                   reviews, unreceipted>>

\* ... clearImportRefreshCandidateArtifacts removes candidates/app ...
ClearCandidates ==
    /\ At("clearApp")
    /\ cands' = Absent
    /\ Goto("clearPlan")
    /\ UNCHANGED <<source, trusted, topo, proposals, receipts, bounds,
                   reviews, crossed, unreceipted, unfinished>>

\* ... and candidates/reconcile, the approvals with it.
ClearPlan ==
    /\ At("clearPlan")
    /\ plan' = NoPlan /\ model' = Absent /\ agent' = FALSE
    /\ reviewed' = {} /\ late' = {} /\ removed' = {}
    /\ Goto("raw")
    /\ UNCHANGED <<source, trusted, cands, topo, receipts, bounds,
                   crossed, unreceipted, unfinished>>

WriteCandidates ==
    /\ At("raw")
    /\ cands' = run.v
    /\ Goto("reconcile")
    /\ UNCHANGED <<source, trusted, topo, proposals, receipts, bounds,
                   reviews, crossed, unreceipted, unfinished>>

ReconcileRefreshed ==
    /\ At("reconcile")
    /\ \E sight \in {Sight} : \E merged \in {Merged(sight)} :
          run' = [run EXCEPT !.pc = "promote", !.plan = merged]
    /\ UNCHANGED <<source, trusted, cands, topo, proposals, receipts, bounds,
                   reviews, crossed, unreceipted, unfinished>>

\* writeTopogramImportRecord: the hashes of the source as it is by then.
WriteProvenance ==
    /\ At("provenance")
    /\ trusted' = source
    /\ run' = Idle
    /\ UNCHANGED <<source, cands, topo, proposals, receipts, bounds,
                   reviews, crossed, unreceipted, unfinished>>

\* runLegacyWorkflowCommand without a selector.
Reconcile ==
    /\ At("idle")
    /\ \E sight \in {Sight} : \E merged \in {Merged(sight)} :
          run' = [Idle EXCEPT !.op = "reconcile", !.pc = "promote", !.plan = merged]
    /\ Abandon
    /\ UNCHANGED <<source, trusted, cands, topo, proposals, receipts, bounds,
                   reviews, crossed, unreceipted>>
-----------------------------------------------------------------------------
(* Humans, and the application *)

\* The application changes, whatever runs.
ChangeSource(v) ==
    /\ edits < MaxEdits /\ v # source
    /\ source' = v /\ edits' = edits + 1
    /\ crossed' = (crossed \/ run.op = "refresh")
    /\ UNCHANGED <<trusted, cands, topo, proposals, receipts, run, kills,
                   reviews, unreceipted, unfinished>>

ByHand ==
    /\ At("idle") /\ edits < MaxEdits /\ edits' = edits + 1
    /\ Abandon
    /\ UNCHANGED <<source, trusted, cands, proposals, receipts, run, kills,
                   reviewed, crossed, unreceipted>>

\* A canonical file is written by hand, edited below its first line, or deleted.
Author(i) ==
    /\ ByHand /\ canon[i] = Absent
    /\ canon' = [canon EXCEPT ![i] = Human]
    /\ UNCHANGED <<docs, projections, late, removed>>

Edit(i) ==
    /\ ByHand /\ canon[i] \in Version
    /\ canon' = [canon EXCEPT ![i] = Edited]
    /\ UNCHANGED <<docs, projections, late, removed>>

Delete(i) ==
    /\ ByHand /\ canon[i] # Absent
    /\ canon' = [canon EXCEPT ![i] = Absent]
    /\ removed' = removed \cup {i}
    /\ UNCHANGED <<docs, projections, late>>

DeleteDoc(d) ==
    /\ ByHand /\ d \in docs
    /\ docs' = docs \ {d}
    /\ UNCHANGED <<canon, projections, late, removed>>

\* A projection over entities of the workspace.
Project(p) ==
    /\ ByHand /\ p \notin projections
    /\ projections' = projections \cup {p} /\ late' = late \cup {p}
    /\ UNCHANGED <<canon, docs, removed>>

\* The command is killed; what it has written stays.
Kill ==
    /\ ~At("idle") /\ kills < MaxKills
    /\ kills' = kills + 1
    /\ run' = Idle
    /\ crossed' = (crossed \/ run.op = "refresh")
    /\ unreceipted' = unreceipted \cup (run.out \ run.todo)
    /\ unfinished' = IF run.op # "adopt" THEN unfinished
                     ELSE [sel |-> run.sel,
                           items |-> unfinished.items \cup (IF run.loads THEN run.out ELSE {})]
    /\ UNCHANGED <<source, trusted, cands, topo, proposals, receipts, edits, reviews>>
-----------------------------------------------------------------------------
\* What `topogram extract` leaves: candidates, a plan without canonical
\* records but those humans wrote.
Init ==
    /\ source \in Version /\ trusted = source /\ cands = source
    /\ canon = [i \in Item |-> Absent] /\ docs = Draft
    /\ projections = InitProjections
    /\ plan = [status |-> [i \in Item |-> IF i \in Offered THEN BaseStatus(Sight, i) ELSE Absent],
               groups |-> {}, dup |-> {}]
    /\ model = source /\ agent = TRUE /\ receipts = {} /\ run = Idle
    /\ edits = 0 /\ kills = 0
    /\ reviewed = {} /\ late = {} /\ removed = {}
    /\ crossed = FALSE /\ unreceipted = {} /\ unfinished = NoneLeft

\* The command goes on.
Step ==
    \/ Promote \/ WriteItem \/ WriteModel \/ WritePlan \/ WriteAgentPlan \/ AppendReceipt
    \/ ClearCandidates \/ ClearPlan \/ WriteCandidates \/ ReconcileRefreshed \/ WriteProvenance

Next ==
    \/ Step \/ Kill \/ Extract \/ Reconcile
    \/ \E sel \in Selector, forced, refreshAdopted \in BOOLEAN : Adopt(sel, forced, refreshAdopted)
    \/ \E v \in Version : ChangeSource(v)
    \/ \E i \in Item : Author(i) \/ Edit(i) \/ Delete(i)
    \/ \E d \in Draft : DeleteDoc(d)
    \/ \E p \in Projection : Project(p)

Spec == Init /\ [][Next]_vars

\* A command that is not killed runs on, and a killed adoption is run again.
Fairness ==
    /\ WF_vars(Step)
    /\ WF_vars(\E sel \in Selector : unfinished.sel = sel /\ Adopt(sel, source # trusted, FALSE))

FairSpec == Spec /\ Fairness
-----------------------------------------------------------------------------
(* Properties *)

\* Every variable has its type.
PlanType == [status : [Item -> Status \cup {Absent}], groups : SUBSET Projection, dup : SUBSET Item]
TypeOK ==
    /\ source \in Version /\ trusted \in Version /\ cands \in Version \cup {Absent}
    /\ canon \in [Item -> Version \cup {Human, Edited, Absent}]
    /\ docs \subseteq Draft /\ projections \subseteq Projection
    /\ plan \in PlanType /\ agent \in BOOLEAN
    /\ receipts \subseteq Item \X Version
    /\ run.plan \in PlanType /\ run.todo \subseteq run.out /\ run.out \subseteq Item
    /\ model \in Version \cup {Absent} /\ \A i \in run.out : run.text[i] \in Version

\* A canonical shape with the same fields stands for shape i, or stood until a
\* human deleted it.
HasTwin(i) == Kind[i] = "shape" /\ \E j \in Item \ {i} :
    /\ Kind[j] = "shape" /\ Signature[j] = Signature[i]
    /\ canon[j] # Absent \/ j \in removed

\* An item the plan calls applied has its canonical file, unless a human
\* deleted the file or a canonical shape with the same fields stands for it.  A kill
\* at any write keeps it so, because the plan is written after the files.
AppliedIsWritten == \A i \in Item :
    plan.status[i] = "applied" => canon[i] # Absent \/ i \in removed \/ HasTwin(i)

\* In a workspace that validates, adopt writes a capability only when the
\* reviews of all projections that cover it have been approved in this plan.
ReviewedFirst == \A i \in run.todo :
    run.op = "adopt" /\ run.loads /\ Kind[i] = "capability" /\ canon[i] = Absent /\ i \notin removed
        => {p \in projections \ late : Bundle[i] \in Covers[p]} \subseteq reviewed

\* adopt never writes a capability whose projections nobody reviewed.
ReviewedAlways == \A i \in run.todo :
    run.op = "adopt" /\ Kind[i] = "capability" /\ canon[i] = Absent /\ i \notin removed
        => {p \in projections \ late : Bundle[i] \in Covers[p]} \subseteq reviewed

\* adopt of a bundle or of the plan, where the workspace validates and when it
\* is not killed, leaves an adopted file without a record it references only
\* for a reason: the record is not among the candidates, a human deleted it, or
\* a shape with the same fields stands for it.
AdoptKeepsLoading ==
    At("receipt") /\ run.loads /\ run.sel.by \in {"bundle", "from-plan"} =>
        \A i \in Item : canon[i] \in Version \cup {Edited} =>
            \A j \in Needs[i] \cap Extracted : canon[j] # Absent \/ j \in removed \/ HasTwin(j)

\* What an unforced adopt writes was extracted from the source whose hashes
\* are trusted, unless the last refresh was killed or the source changed
\* under it.
TrustedCandidates ==
    run.op = "adopt" /\ ~run.forced /\ ~crossed => \A i \in run.out : run.text[i] = trusted

\* Every adopted file has the receipt of its version, unless the adoption
\* that wrote it was killed.
Receipted == \A i \in Item \ unreceipted :
    canon[i] \in Version /\ At("idle") => <<i, canon[i]>> \in receipts

\* No command changes or removes a canonical file that a human wrote, with
\* --refresh-adopted or without, although the commands write next to it.
HumanFilesKept == [][\A i \in Item :
    canon[i] = Human /\ edits' = edits => canon'[i] = Human]_vars

\* A killed adoption that is run again ends with every file it was to write,
\* unless something else is done first; what a human had deleted stays deleted,
\* and the duplicate of a shape is not written.  (An adoption that began where nothing
\* validates may lose what it selected unreviewed.)
KilledAdoptionLands ==
    unfinished.sel # Absent
        ~> \/ unfinished.sel = Absent
           \/ \A i \in unfinished.items \ removed : canon[i] # Absent \/ HasTwin(i)
=============================================================================
