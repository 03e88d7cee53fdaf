---------------------------- MODULE SdlcLifecycle ----------------------------
(***************************************************************************)
(* The per-kind state machines of Topogram's SDLC records: the statuses a  *)
(* kind may have, the transitions `topogram sdlc transition` accepts, the  *)
(* statuses a record may be archived from, and the status it comes back    *)
(* with.  Source: engine/src/sdlc/transitions/, the statuses of            *)
(* engine/src/validator/kinds.js, engine/src/archive/.                     *)
(*                                                                         *)
(* A transition table is a set of <<from, to>> pairs.                      *)
(***************************************************************************)

SdlcKinds == {"pitch", "requirement", "acceptance_criterion", "task", "plan", "bug"}

\* `verification` is an ordinary statement kind that SDLC records point at; it
\* has no SDLC state machine (getTransitionModule returns null for it).
Kinds == SdlcKinds \cup {"verification"}

TaskTransitions ==
    {<<"unclaimed", "claimed">>,
     <<"claimed", "in-progress">>, <<"claimed", "unclaimed">>, <<"claimed", "blocked">>,
     <<"in-progress", "done">>, <<"in-progress", "blocked">>, <<"in-progress", "claimed">>,
     <<"blocked", "claimed">>, <<"blocked", "in-progress">>}

PlanTransitions ==
    {<<"draft", "active">>, <<"draft", "superseded">>,
     <<"active", "complete">>, <<"active", "superseded">>, <<"active", "draft">>}

BugTransitions ==
    {<<"open", "in-progress">>, <<"open", "wont-fix">>,
     <<"in-progress", "fixed">>, <<"in-progress", "open">>, <<"in-progress", "wont-fix">>,
     <<"fixed", "verified">>, <<"fixed", "in-progress">>, <<"fixed", "wont-fix">>,
     <<"verified", "in-progress">>, <<"wont-fix", "open">>}

RequirementTransitions ==
    {<<"draft", "in-review">>, <<"in-review", "approved">>, <<"in-review", "draft">>,
     <<"approved", "satisfied">>, <<"approved", "ongoing">>, <<"approved", "superseded">>,
     <<"approved", "in-review">>,
     <<"satisfied", "approved">>, <<"satisfied", "superseded">>,
     <<"ongoing", "approved">>, <<"ongoing", "superseded">>}

CriterionTransitions ==
    {<<"draft", "approved">>, <<"approved", "superseded">>, <<"approved", "draft">>}

PitchTransitions ==
    ({"draft", "shaped", "submitted", "approved"} \X {"covered", "superseded", "rejected"})
        \cup ({"covered", "superseded", "rejected"} \X {"draft"})
        \cup {<<"draft", "shaped">>, <<"draft", "submitted">>,
              <<"shaped", "submitted">>, <<"shaped", "draft">>,
              <<"submitted", "approved">>, <<"submitted", "shaped">>}

LegalTransitions(kind) ==
    CASE kind = "pitch" -> PitchTransitions
      [] kind = "requirement" -> RequirementTransitions
      [] kind = "acceptance_criterion" -> CriterionTransitions
      [] kind = "task" -> TaskTransitions
      [] kind = "plan" -> PlanTransitions
      [] kind = "bug" -> BugTransitions
      [] OTHER -> {}

StatusSet(kind) ==
    CASE kind = "pitch" -> {"draft", "shaped", "submitted", "approved", "covered",
                            "superseded", "rejected"}
      [] kind = "requirement" -> {"draft", "in-review", "approved", "satisfied", "ongoing",
                                  "superseded"}
      [] kind = "acceptance_criterion" -> {"draft", "approved", "superseded"}
      [] kind = "task" -> {"unclaimed", "claimed", "in-progress", "done", "blocked"}
      [] kind = "plan" -> {"draft", "active", "complete", "superseded"}
      [] kind = "bug" -> {"open", "in-progress", "fixed", "verified", "wont-fix"}
      [] OTHER -> {"active"}

\* The status the `sdlc new` and `sdlc plan create` templates write.
InitialStatus(kind) ==
    CASE kind = "task" -> "unclaimed"
      [] kind = "bug" -> "open"
      [] kind = "verification" -> "active"
      [] OTHER -> "draft"

\* Mutant: blocked work may be archived as well.
ArchivableStatusesBlocked(kind) ==
    CASE kind = "pitch" -> {"rejected"}
      [] kind = "task" -> {"done", "blocked"}
      [] kind = "plan" -> {"complete", "superseded"}
      [] kind = "bug" -> {"verified", "wont-fix"}
      [] OTHER -> {}

\* isArchivableKind and isArchivableStatus taken together: requirements,
\* acceptance criteria and verifications are never archived.
ArchivableStatuses(kind) ==
    CASE kind = "pitch" -> {"rejected"}
      [] kind = "task" -> {"done"}
      [] kind = "plan" -> {"complete", "superseded"}
      [] kind = "bug" -> {"verified", "wont-fix"}
      [] OTHER -> {}

ArchivableKinds == {"pitch", "task", "plan", "bug"}

\* Mutant: every kind but a bug comes back as a draft.
ReopenStatusDefaulted(kind) == IF kind = "bug" THEN "open" ELSE "draft"

ReopenStatus(kind) ==
    CASE kind = "bug" -> "open"
      [] kind = "task" -> "claimed"
      [] OTHER -> "draft"

StepStatuses == {"pending", "in-progress", "blocked", "done", "skipped"}

StepTransitions ==
    {<<"pending", "in-progress">>, <<"pending", "blocked">>, <<"pending", "done">>,
     <<"pending", "skipped">>,
     <<"in-progress", "done">>, <<"in-progress", "blocked">>, <<"in-progress", "pending">>,
     <<"in-progress", "skipped">>,
     <<"blocked", "pending">>, <<"blocked", "in-progress">>, <<"blocked", "skipped">>}

FinishedSteps == {"done", "skipped"}
=============================================================================
