---------------------------- MODULE ReleaseRollout ----------------------------
(***************************************************************************)
(* `topogram release roll-consumers <version>`: one consumer repository    *)
(* after the other is inspected, updated with npm, checked, committed,     *)
(* pushed and, with --watch, waited for; an error ends the work on that    *)
(* consumer only.  Each repository is a git checkout with a remote and the *)
(* workflow runs of its main branch.                                       *)
(*                                                                         *)
(* A history is the sequence of its commits' contents, so that a head is   *)
(* known by the whole history behind it.                                   *)
(***************************************************************************)
EXTENDS Naturals, Sequences

CONSTANTS
    Consumers,     \* how many consumers are configured, rolled in this order
    OnMain,        \* the consumers whose checked-out branch is main
    Tracks,        \* those of them whose main has an upstream
    MaxVersion,    \* bound: the versions published
    MaxEdits,      \* bound: what humans change in the repositories
    MaxFaults      \* bound: the steps that fail and the commands that are killed

ASSUME RolloutAssumption ==
    /\ Consumers \in Nat \ {0} /\ MaxVersion \in Nat \ {0}
    /\ MaxEdits \in Nat /\ MaxFaults \in Nat
    /\ OnMain \subseteq 1..Consumers /\ Tracks \subseteq OnMain

Consumer == 1..Consumers
Version == 1..MaxVersion

VARIABLES
    latest,       \* the version npm calls latest
    local,        \* local[c]: the history of the checked-out branch
    tree,         \* tree[c]: the content of the working tree
    origin,       \* origin[c]: the history of main at the remote
    tracked,      \* tracked[c]: how much of it the remote-tracking ref knows
    ci,           \* ci[c]: the newest workflow run on main
    green,        \* history: green[c], the lengths of origin[c] at which a run succeeded
    run,          \* the command that is running
    report,       \* what the last command that ran to its end reported
    edits, faults

vars == <<latest, local, tree, origin, tracked, ci, green, run, report, edits, faults>>
git == <<local, tree, origin, tracked>>
remote == <<latest, ci, green>>
bounds == <<edits, faults>>

\* What a commit holds: package.json and package-lock.json (the version they
\* resolve to, and whether the lock has its tarball metadata),
\* topogram-cli.version, and everything else.
Content == [deps : [v : Version, whole : BOOLEAN], pin : Version, work : Nat]

Phase == {"idle", "inspect", "sanitize", "install", "pin", "check", "stage", "commit",
          "ahead", "push", "watch", "strict", "report"}

Tip(c) == local[c][Len(local[c])]
Clean(c) == tree[c] = Tip(c)
Extends(long, short) == Len(short) <= Len(long) /\ SubSeq(long, 1, Len(short)) = short

At(pc) == run.pc = pc
Goto(pc) == run' = [run EXCEPT !.pc = pc]
\* On to the next consumer, with or without an error for this one.
Leave(failed) ==
    run' = [run EXCEPT !.failed = @ \cup failed, !.c = @ + 1,
                       !.pc = IF run.c = Consumers THEN "report" ELSE "inspect"]
LeaveDone == Leave({})
LeaveFailed == Leave({run.c})
\* The consumer's commit is where it should be: look at its workflow.
Settle == IF run.watch THEN Goto("watch") ELSE LeaveDone
Idle == [pc |-> "idle", c |-> 1, v |-> run.v, push |-> FALSE, watch |-> FALSE, failed |-> {}]
NoReport == [v |-> 1, push |-> FALSE, watch |-> FALSE, failed |-> {}]
-----------------------------------------------------------------------------
(* roll-consumers *)

\* buildReleaseRollConsumersPayload: --watch needs a push.
Roll(v, push, watch) ==
    /\ At("idle") /\ v <= latest /\ (watch => push)
    /\ v >= run.v   \* bound: rollouts go forward
    /\ run' = [pc |-> "inspect", c |-> 1, v |-> v, push |-> push, watch |-> watch, failed |-> {}]
    /\ report' = NoReport
    /\ UNCHANGED <<git, remote, bounds>>

\* inspectGitWorktreeClean: nothing but a clean worktree is touched.
Inspect ==
    /\ At("inspect")
    /\ IF Clean(run.c) THEN Goto("sanitize") ELSE LeaveFailed
    /\ UNCHANGED <<git, remote, report, bounds>>

\* sanitizeTopogramLockForPackageUpdate: the lock of the same version loses its
\* tarball metadata.
Sanitize ==
    /\ At("sanitize")
    /\ tree' = IF tree[run.c].deps.v = run.v THEN [tree EXCEPT ![run.c].deps.whole = FALSE] ELSE tree
    /\ Goto("install")
    /\ UNCHANGED <<local, origin, tracked, remote, report, bounds>>

\* npm install @topogram/cli@^<version>: the newest version in the range.
Install ==
    /\ At("install")
    /\ tree' = [tree EXCEPT ![run.c].deps = [v |-> latest, whole |-> TRUE]]
    /\ Goto("pin")
    /\ UNCHANGED <<local, origin, tracked, remote, report, bounds>>

\* writeTopogramCliVersionConventionIfPresent.
Pin ==
    /\ At("pin")
    /\ tree' = [tree EXCEPT ![run.c].pin = run.v]
    /\ Goto("check")
    /\ UNCHANGED <<local, origin, tracked, remote, report, bounds>>

\* The consumer's own scripts.
Check ==
    /\ At("check")
    /\ Goto("stage")
    /\ UNCHANGED <<git, remote, report, bounds>>

\* Mutant: everything in the working tree is staged.
StagedAll(c) == tree[c]

\* git add of the three files, on top of what is committed.
Staged(c) == [tree[c] EXCEPT !.work = Tip(c).work]

\* hasStagedGitChanges tells whether there is anything to commit.
Stage ==
    /\ At("stage")
    /\ IF Staged(run.c) # Tip(run.c) THEN Goto("commit")
       ELSE IF run.push THEN Goto("ahead") ELSE Settle
    /\ UNCHANGED <<git, remote, report, bounds>>

Commit ==
    /\ At("commit")
    /\ local' = [local EXCEPT ![run.c] = Append(@, Staged(run.c))]
    /\ IF run.push THEN Goto("push") ELSE Settle
    /\ UNCHANGED <<tree, origin, tracked, remote, report, bounds>>

\* Mutant: what is current counts as pushed.
AheadAssumed ==
    /\ At("ahead")
    /\ Settle
    /\ UNCHANGED <<git, remote, report, bounds>>

\* inspectGitUpstreamAhead, against the remote-tracking ref: without an
\* upstream a warning and no push.
Ahead ==
    /\ At("ahead")
    /\ \/ run.c \notin Tracks /\ Settle
       \/ /\ run.c \in Tracks
          /\ IF Extends(SubSeq(origin[run.c], 1, tracked[run.c]), local[run.c])
               THEN Settle ELSE Goto("push")
    /\ UNCHANGED <<git, remote, report, bounds>>

\* The remote takes a main that extends its own; a checkout of another branch
\* has the main it fetched last.
Accepted(c) == IF c \in OnMain THEN Extends(local[c], origin[c]) ELSE tracked[c] = Len(origin[c])
Received(c) == IF c \in OnMain THEN [origin EXCEPT ![c] = local[c]] ELSE origin

\* git push origin main: from another branch it pushes nothing, and succeeds.
Push ==
    /\ At("push") /\ Accepted(run.c)
    /\ origin' = Received(run.c)
    /\ tracked' = [tracked EXCEPT ![run.c] = Len(Received(run.c)[run.c])]
    /\ Settle
    /\ UNCHANGED <<local, tree, remote, report, bounds>>

\* Mutant: the tracking ref moves although the push was rejected.
PushRejectedTracked ==
    /\ At("push") /\ ~Accepted(run.c)
    /\ tracked' = [tracked EXCEPT ![run.c] = Len(local[run.c]) + Len(origin[run.c])]
    /\ LeaveFailed
    /\ UNCHANGED <<local, tree, origin, remote, report, bounds>>

\* Someone else has pushed since.
PushRejected ==
    /\ At("push") /\ ~Accepted(run.c)
    /\ LeaveFailed
    /\ UNCHANGED <<git, remote, report, bounds>>

\* Mutant: the newest run will do, whatever it ran on.
OnHeadAny(c) == TRUE

\* inspectConsumerCi: the newest run is one of the checked-out commit, and its
\* conclusion and expected jobs are a success.
OnHead(c) == local[c] = SubSeq(origin[c], 1, ci[c].n)
Succeeded(c) == OnHead(c) /\ ci[c].done /\ ci[c].ok

\* waitForConsumerCi: a completed run of the checked-out commit is inspected
\* once more, strictly ...
Watch ==
    /\ At("watch") /\ OnHead(run.c) /\ ci[run.c].done
    /\ Goto("strict")
    /\ UNCHANGED <<git, remote, report, bounds>>

\* ... and any other is waited for until the timeout.
Timeout ==
    /\ At("watch") /\ ~(OnHead(run.c) /\ ci[run.c].done)
    /\ LeaveFailed
    /\ UNCHANGED <<git, remote, report, bounds>>

InspectStrictly ==
    /\ At("strict")
    /\ IF Succeeded(run.c) THEN LeaveDone ELSE LeaveFailed
    /\ UNCHANGED <<git, remote, report, bounds>>

Report ==
    /\ At("report")
    /\ report' = [v |-> run.v, push |-> run.push, watch |-> run.watch, failed |-> run.failed]
    /\ run' = Idle
    /\ UNCHANGED <<git, remote, bounds>>

\* What a step runs fails: git status, npm view, npm install, a script of the
\* consumer, git add, git commit, git push, the query for the workflow run.
Fail ==
    /\ run.pc \in {"inspect", "sanitize", "install", "check", "stage", "commit", "push", "strict"}
    /\ faults < MaxFaults /\ faults' = faults + 1
    /\ LeaveFailed
    /\ UNCHANGED <<git, remote, report, edits>>

\* The command is killed; a push that was on its way may still arrive.
Kill ==
    /\ ~At("idle") /\ faults < MaxFaults
    /\ faults' = faults + 1
    /\ run' = Idle
    /\ \/ UNCHANGED origin
       \/ At("push") /\ Accepted(run.c) /\ origin' = Received(run.c)
    /\ UNCHANGED <<local, tree, tracked, remote, report, edits>>
-----------------------------------------------------------------------------
(* Humans, npm and the remote *)

\* Work in the checkout, whatever runs.
Edit(c) ==
    /\ edits < MaxEdits /\ edits' = edits + 1
    /\ tree' = [tree EXCEPT ![c].work = @ + 1]
    /\ UNCHANGED <<local, origin, tracked, remote, run, report, faults>>

\* git commit -a: everything in the working tree.
CommitByHand(c) ==
    /\ At("idle") /\ ~Clean(c) /\ edits < MaxEdits
    /\ edits' = edits + 1
    /\ local' = [local EXCEPT ![c] = Append(@, tree[c])]
    /\ UNCHANGED <<tree, origin, tracked, remote, run, report, faults>>

\* git restore.
Discard(c) ==
    /\ At("idle") /\ ~Clean(c)
    /\ tree' = [tree EXCEPT ![c] = Tip(c)]
    /\ UNCHANGED <<local, origin, tracked, remote, run, report, bounds>>

\* git fetch, git reset --hard origin/main.
Reset(c) ==
    /\ At("idle")
    /\ local' = [local EXCEPT ![c] = origin[c]]
    /\ tree' = [tree EXCEPT ![c] = origin[c][Len(origin[c])]]
    /\ tracked' = [tracked EXCEPT ![c] = Len(origin[c])]
    /\ UNCHANGED <<origin, remote, run, report, bounds>>

\* Somebody else pushes to main.
Contribute(c) ==
    /\ edits < MaxEdits /\ edits' = edits + 1
    /\ LET tip == origin[c][Len(origin[c])]
       IN  origin' = [origin EXCEPT ![c] = Append(origin[c], [tip EXCEPT !.work = tip.work + 1])]
    /\ UNCHANGED <<local, tree, tracked, remote, run, report, faults>>

Publish ==
    /\ latest < MaxVersion
    /\ latest' = latest + 1
    /\ UNCHANGED <<git, ci, green, run, report, bounds>>

\* A push starts the workflow, some time later, and it completes.
CiStart(c) ==
    /\ ci[c].n < Len(origin[c])
    /\ ci' = [ci EXCEPT ![c] = [n |-> Len(origin[c]), done |-> FALSE, ok |-> FALSE]]
    /\ UNCHANGED <<latest, git, green, run, report, bounds>>

CiComplete(c, ok) ==
    /\ ~ci[c].done
    /\ ci' = [ci EXCEPT ![c].done = TRUE, ![c].ok = ok]
    /\ green' = IF ok THEN [green EXCEPT ![c] = @ \cup {ci[c].n}] ELSE green
    /\ UNCHANGED <<latest, git, run, report, bounds>>
-----------------------------------------------------------------------------
\* Every consumer is on the first version, verified, and something newer may be
\* out.
First == [deps |-> [v |-> 1, whole |-> TRUE], pin |-> 1, work |-> 0]
Init ==
    /\ latest \in Version
    /\ local = [c \in Consumer |-> <<First>>] /\ tree = [c \in Consumer |-> First]
    /\ origin = local /\ tracked = [c \in Consumer |-> 1]
    /\ ci = [c \in Consumer |-> [n |-> 1, done |-> TRUE, ok |-> TRUE]]
    /\ green = [c \in Consumer |-> {1}]
    /\ run = [pc |-> "idle", c |-> 1, v |-> 1, push |-> FALSE, watch |-> FALSE, failed |-> {}]
    /\ report = NoReport
    /\ edits = 0 /\ faults = 0

Step ==
    \/ Inspect \/ Sanitize \/ Install \/ Pin \/ Check \/ Stage \/ Commit \/ Ahead
    \/ Push \/ PushRejected \/ Watch \/ Timeout \/ InspectStrictly \/ Report

Next ==
    \/ Step \/ Fail \/ Kill \/ Publish
    \/ \E v \in Version, push, watch \in BOOLEAN : Roll(v, push, watch)
    \/ \E c \in Consumer :
          \/ Edit(c) \/ CommitByHand(c) \/ Discard(c) \/ Reset(c) \/ Contribute(c)
          \/ CiStart(c) \/ \E ok \in BOOLEAN : CiComplete(c, ok)

Spec == Init /\ [][Next]_vars

\* A command that is not killed runs on, and the maintainer runs it again,
\* with the push.
Fairness ==
    /\ WF_vars(Step)
    /\ SF_vars(\E v \in Version, watch \in BOOLEAN : Roll(v, TRUE, watch))

FairSpec == Spec /\ Fairness
-----------------------------------------------------------------------------
(* Properties *)

\* Every variable has its type, and the tracking ref knows what the remote has.
TypeOK ==
    /\ latest \in Version
    /\ local \in [Consumer -> Seq(Content)] /\ origin \in [Consumer -> Seq(Content)]
    /\ tree \in [Consumer -> Content]
    /\ \A c \in Consumer : Len(local[c]) > 0 /\ Len(origin[c]) > 0
    /\ tracked \in [Consumer -> Nat] /\ \A c \in Consumer : tracked[c] \in 1..Len(origin[c])
    /\ ci \in [Consumer -> [n : Nat, done : BOOLEAN, ok : BOOLEAN]]
    /\ \A c \in Consumer : ci[c].n \in 1..Len(origin[c])
    /\ green \in [Consumer -> SUBSET Nat]
    /\ \A c \in Consumer : green[c] \subseteq 1..Len(origin[c])
    /\ run \in [pc : Phase, c : Nat, v : Version, push : BOOLEAN, watch : BOOLEAN,
               failed : SUBSET Consumer]
    /\ run.pc \notin {"idle", "report"} => run.c \in Consumer
    /\ report \in [v : Version, push : BOOLEAN, watch : BOOLEAN, failed : SUBSET Consumer]

Ok == report.failed = {}

\* A rollout that reports no error and was to push has left, on the remote main
\* of every consumer whose checked-out main has an upstream, a commit that pins
\* the version and locks that version or a newer one: whoever pushed it, that
\* rollout, an earlier one, or one killed before it could tell.
OkMeansPushed ==
    report.push /\ Ok => \A c \in Tracks :
        \E n \in 1..Len(origin[c]) :
            origin[c][n].pin = report.v /\ origin[c][n].deps.v >= report.v

\* With --watch, no error means that the workflow has succeeded on a commit of
\* the remote main that pins the version, whatever branch is checked out.
WatchedMeansGreen ==
    report.watch /\ Ok => \A c \in Consumer : \E n \in green[c] : origin[c][n].pin = report.v

OnlyPins ==
    edits' = edits /\ run.pc # "idle" => \A c \in Consumer :
        /\ tree'[c].work = tree[c].work
        /\ Len(local'[c]) > Len(local[c]) => local'[c][Len(local'[c])].work = Tip(c).work

\* A rollout commits nothing but the pins and touches no other file, although
\* humans edit the checkout while the consumer's checks run.
PinsOnly == [][OnlyPins]_vars

Unpushed(c) == ~Extends(origin[c], local[c])
Diverged(c) == Unpushed(c) /\ ~Extends(local[c], origin[c])

\* A commit that an interrupted, failed or --no-push rollout left behind is
\* pushed when the command is run again, unless the checkout was left dirty or
\* someone else's commit came first.
UnpushedLands == \A c \in Tracks :
    Unpushed(c) ~> ~Unpushed(c) \/ Diverged(c) \/ (At("idle") /\ ~Clean(c))
=============================================================================
