------------------------------ MODULE SdlcFiles ------------------------------
(***************************************************************************)
(* The task commands of `topogram sdlc` opened up into their file reads    *)
(* and writes, run by several CLI processes at once and killed anywhere.   *)
(*                                                                         *)
(* Nothing is locked.  A command parses the whole workspace, reads the     *)
(* task's file a second time, splices the new status in at the offsets of  *)
(* the parse, then reads and rewrites the whole history sidecar.  Archive  *)
(* appends a JSONL line and then unlinks the file; unarchive writes the    *)
(* file and then rewrites the whole JSONL without the entry.               *)
(*                                                                         *)
(* A parse of the workspace is one step here, and so is the write of one   *)
(* file.  Each task is alone in the file unarchive would give it, and      *)
(* carries the proof that `done` needs.                                    *)
(***************************************************************************)
EXTENDS SdlcLifecycle, Naturals, FiniteSets, Sequences, Filtering

CONSTANTS
    Task,       \* task ids
    Proc,       \* CLI processes
    ActorOf,    \* the --actor each process is run with
    FirstText,  \* the text each task is committed with
    Absent,     \* no file
    Mangled,    \* a file spliced at stale offsets: it does not parse or validate
    Commands,   \* bound: which commands are run
    Targets,    \* bound: the statuses asked of `sdlc transition`
    MaxCrashes, \* bound: how many commands are killed
    MaxTrail,   \* bound: no move is asked of a task with that many entries
    MaxLines    \* bound: no archive begins on a task with that many lines

ASSUME FilesAssumption ==
    /\ Commands \subseteq {"transition", "start", "archive", "unarchive"}
    /\ Targets \subseteq StatusSet("task")
    /\ MaxCrashes \in Nat /\ MaxTrail \in Nat /\ MaxLines \in Nat

Actor == {ActorOf[p] : p \in Proc}

\* The text of a task's file: its status token, its claimed_by lines (the first
\* one counts), and whether symbols are quoted, as unarchive leaves them.
Text == [status : StatusSet("task"), claims : Seq(Actor), quoted : BOOLEAN]

\* The workspace the first command finds is valid.
ASSUME FirstTextAssumption ==
    /\ FirstText \in [Task -> Text]
    /\ \A t \in Task : /\ ~FirstText[t].quoted
                       /\ FirstText[t].status \in {"claimed", "in-progress", "done"}
                              => FirstText[t].claims # <<>>
    /\ Absent \notin Text /\ Mangled \notin Text /\ Absent # Mangled

Move == [from : StatusSet("task"), to : StatusSet("task")]

VARIABLES
    file,       \* file[t]: a Text, Absent or Mangled
    sidecar,    \* sidecar[t]: the [from, to] entries of the task
    lines,      \* the archive file: a sequence of [task, text]
    proc,       \* what each process is doing and holds in memory
    crashes     \* how many commands were killed

vars == <<file, sidecar, lines, proc, crashes>>

IsText(x) == x \notin {Absent, Mangled}
LinesOf(t) == {k \in 1..Len(lines) : lines[k].task = t}

\* A process between two commands.
Rest == [pc |-> "idle", op |-> "none", task |-> "none", todo |-> <<>>,
         parsed |-> Absent, read |-> Absent, history |-> <<>>, archive |-> <<>>]
-----------------------------------------------------------------------------
(* Validation and the Definition of Done, as far as tasks alone decide them *)

Claimed(text) == text.claims # <<>>
Owner(text) == Head(text.claims)

ValidText(text) ==
    /\ ~text.quoted
    /\ text.status \in {"claimed", "in-progress", "done"} => Claimed(text)

\* resolveWorkspace: every file parses and validates.  Neither two archive
\* lines of one task nor a task both live and archived is an error.
Valid == \A t \in Task : file[t] # Mangled /\ (IsText(file[t]) => ValidText(file[t]))

\* Mutant: entering `claimed` asks for no claim.
TaskDoDAtWork(text, to) == to \in {"in-progress", "done"} => Claimed(text)

TaskDoD(text, to) == to \in {"claimed", "in-progress", "done"} => Claimed(text)

Transitionable(text, to) ==
    /\ <<text.status, to>> \in TaskTransitions
    /\ TaskDoD(text, to)

MayClaim(text, actor) == ~Claimed(text) \/ Owner(text) = actor

CanStart(text, actor) ==
    /\ text.status \in {"unclaimed", "claimed", "in-progress"}
    /\ MayClaim(text, actor)
-----------------------------------------------------------------------------
(* Splicing at the offsets of an older parse *)

\* "unclaimed" is nine characters long, "claimed" and "blocked" seven, ...
TokenLength(status) ==
    CASE status = "unclaimed" -> 9
      [] status \in {"claimed", "blocked"} -> 7
      [] status = "in-progress" -> 11
      [] status = "done" -> 4

\* Two texts whose status tokens lie at the same offsets.  claimed_by lines are
\* written above the status line; actors have names of one length.
SameLayout(a, b) ==
    /\ Len(a.claims) = Len(b.claims)
    /\ TokenLength(a.status) = TokenLength(b.status)
    /\ a.quoted = b.quoted

\* rewriteStatusInSource.
Respliced(parsed, read, to) ==
    IF IsText(read) /\ SameLayout(parsed, read) THEN [read EXCEPT !.status = to] ELSE Mangled

\* rewriteClaimedBy inserts whole lines: a claim that got in first stays, below.
WithClaim(read, actor) ==
    IF IsText(read) THEN [read EXCEPT !.claims = <<actor>> \o @] ELSE Mangled

\* removeStatementBlock; a file left blank is unlinked.
Cut(parsed, read) ==
    IF IsText(read) /\ SameLayout(parsed, read) THEN Absent ELSE Mangled
-----------------------------------------------------------------------------
(* One process.  `my` is its memory; Stop ends the command, refused, failed,
   thrown out or finished alike. *)

Goto(p, my) == proc' = [proc EXCEPT ![p] = my]
Stop(p) == Goto(p, Rest)
At(p, pc) == proc[p].pc = pc

Begin(p, op, t) ==
    /\ At(p, "idle") /\ op \in Commands
    /\ op \in {"transition", "start"} => Len(sidecar[t]) < MaxTrail
    /\ LET my == [Rest EXCEPT !.op = op, !.task = t] IN
           \/ /\ op = "transition"
              /\ \E to \in Targets : Goto(p, [my EXCEPT !.pc = "resolve", !.todo = <<to>>])
           \/ op = "start" /\ Goto(p, [my EXCEPT !.pc = "packet"])
           \/ op = "archive" /\ Cardinality(LinesOf(t)) < MaxLines
                 /\ Goto(p, [my EXCEPT !.pc = "check"])
           \/ op = "unarchive" /\ Goto(p, [my EXCEPT !.pc = "find"])
    /\ UNCHANGED <<file, sidecar, lines, crashes>>

\* startTask: the packet of a first parse decides can_start.
Packet(p) ==
    LET my == proc[p]
        text == file[my.task]
    IN /\ At(p, "packet")
       /\ IF ~(Valid /\ IsText(text) /\ CanStart(text, ActorOf[p])) THEN Stop(p)
          ELSE IF text.status = "unclaimed"
            THEN Goto(p, [my EXCEPT !.pc = "claim", !.todo = <<"claimed", "in-progress">>])
            ELSE Goto(p, [my EXCEPT !.pc = "afterClaim", !.todo = <<"in-progress">>])
       /\ UNCHANGED <<file, sidecar, lines, crashes>>

\* ensureClaimedBy parses again; a claim of one's own is left alone.
Claim(p) ==
    LET my == proc[p]
        text == file[my.task]
    IN /\ At(p, "claim")
       /\ IF ~(Valid /\ IsText(text) /\ MayClaim(text, ActorOf[p])) THEN Stop(p)
          ELSE IF Claimed(text) THEN Goto(p, [my EXCEPT !.pc = "resolve"])
          ELSE Goto(p, [my EXCEPT !.pc = "claimRead"])
       /\ UNCHANGED <<file, sidecar, lines, crashes>>

\* The second read of the file, before each kind of rewrite; it throws when the
\* file is gone.
NextWrite == [claimRead |-> "claimWrite", read |-> "write", cutRead |-> "cutWrite"]

Reread(p) ==
    LET my == proc[p] IN
        /\ my.pc \in DOMAIN NextWrite
        /\ IF file[my.task] = Absent THEN Stop(p)
           ELSE Goto(p, [my EXCEPT !.read = file[my.task], !.pc = NextWrite[my.pc]])
        /\ UNCHANGED <<file, sidecar, lines, crashes>>

ClaimWrite(p) ==
    LET my == proc[p] IN
        /\ At(p, "claimWrite")
        /\ file' = [file EXCEPT ![my.task] = WithClaim(my.read, ActorOf[p])]
        /\ Goto(p, [my EXCEPT !.pc = "resolve"])
        /\ UNCHANGED <<sidecar, lines, crashes>>

\* startTask looks again, and goes on only if it finds the task claimed.
AfterClaim(p) ==
    LET my == proc[p]
        text == file[my.task]
    IN /\ At(p, "afterClaim")
       /\ IF Valid /\ IsText(text) /\ text.status = "claimed"
            THEN Goto(p, [my EXCEPT !.pc = "resolve"])
            ELSE Stop(p)
       /\ UNCHANGED <<file, sidecar, lines, crashes>>

\* transitionStatement parses, validates, checks the move and its DoD.
Resolve(p) ==
    LET my == proc[p]
        text == file[my.task]
    IN /\ At(p, "resolve")
       /\ IF Valid /\ IsText(text) /\ Transitionable(text, Head(my.todo))
            THEN Goto(p, [my EXCEPT !.pc = "read", !.parsed = text])
            ELSE Stop(p)
       /\ UNCHANGED <<file, sidecar, lines, crashes>>

Write(p) ==
    LET my == proc[p] IN
        /\ At(p, "write")
        /\ file' = [file EXCEPT ![my.task] = Respliced(my.parsed, my.read, Head(my.todo))]
        /\ Goto(p, [my EXCEPT !.pc = "log"])
        /\ UNCHANGED <<sidecar, lines, crashes>>

\* appendTransition reads the whole sidecar ...
Log(p) ==
    /\ At(p, "log")
    /\ Goto(p, [proc[p] EXCEPT !.pc = "logWrite", !.history = sidecar])
    /\ UNCHANGED <<file, sidecar, lines, crashes>>

Entry(my) == [from |-> my.parsed.status, to |-> Head(my.todo)]

\* Mutant: the entry replaces the older ones.
LogWriteReplacing(p) ==
    LET my == proc[p] IN
        /\ At(p, "logWrite")
        /\ sidecar' = [my.history EXCEPT ![my.task] = <<Entry(my)>>]
        /\ IF Len(my.todo) = 1 THEN Stop(p)
           ELSE Goto(p, [my EXCEPT !.pc = "afterClaim", !.todo = Tail(@)])
        /\ UNCHANGED <<file, lines, crashes>>

\* ... and writes it back with the entry pushed.
LogWrite(p) ==
    LET my == proc[p] IN
        /\ At(p, "logWrite")
        /\ sidecar' = [my.history EXCEPT ![my.task] = Append(@, Entry(my))]
        /\ IF Len(my.todo) = 1 THEN Stop(p)
           ELSE Goto(p, [my EXCEPT !.pc = "afterClaim", !.todo = Tail(@)])
        /\ UNCHANGED <<file, lines, crashes>>

\* Mutant: a task that has a line already is taken for archived.
CheckOnce(p) ==
    LET my == proc[p]
        text == file[my.task]
    IN /\ At(p, "check")
       /\ IF /\ Valid /\ IsText(text) /\ text.status \in ArchivableStatuses("task")
             /\ LinesOf(my.task) = {}
            THEN Goto(p, [my EXCEPT !.pc = "append", !.parsed = text])
            ELSE Stop(p)
       /\ UNCHANGED <<file, sidecar, lines, crashes>>

\* archiveStatement: parse and eligibility.
Check(p) ==
    LET my == proc[p]
        text == file[my.task]
    IN /\ At(p, "check")
       /\ IF Valid /\ IsText(text) /\ text.status \in ArchivableStatuses("task")
            THEN Goto(p, [my EXCEPT !.pc = "append", !.parsed = text])
            ELSE Stop(p)
       /\ UNCHANGED <<file, sidecar, lines, crashes>>

\* buildArchiveEntry takes the resolved fields: the first claimed_by line.
Snapshot(text) == [text EXCEPT !.claims = <<Owner(text)>>]

\* Mutants: the entry is not written, or the file is written, not appended to.
AppendEntryUnwritten(p) ==
    /\ At(p, "append")
    /\ Goto(p, [proc[p] EXCEPT !.pc = "cutRead"])
    /\ UNCHANGED <<file, sidecar, lines, crashes>>

AppendEntryAlone(p) ==
    LET my == proc[p] IN
        /\ At(p, "append")
        /\ lines' = <<[task |-> my.task, text |-> Snapshot(my.parsed)]>>
        /\ Goto(p, [my EXCEPT !.pc = "cutRead"])
        /\ UNCHANGED <<file, sidecar, crashes>>

AppendEntry(p) ==
    LET my == proc[p] IN
        /\ At(p, "append")
        /\ lines' = Append(lines, [task |-> my.task, text |-> Snapshot(my.parsed)])
        /\ Goto(p, [my EXCEPT !.pc = "cutRead"])
        /\ UNCHANGED <<file, sidecar, crashes>>

CutWrite(p) ==
    LET my == proc[p] IN
        /\ At(p, "cutWrite")
        /\ file' = [file EXCEPT ![my.task] = Cut(my.parsed, my.read)]
        /\ Stop(p)
        /\ UNCHANGED <<sidecar, lines, crashes>>

\* unarchive: reads the archive, refuses to overwrite a file.
Find(p) ==
    LET my == proc[p] IN
        /\ At(p, "find")
        /\ IF LinesOf(my.task) # {} /\ file[my.task] = Absent
             THEN Goto(p, [my EXCEPT !.pc = "restore", !.archive = lines])
             ELSE Stop(p)
        /\ UNCHANGED <<file, sidecar, lines, crashes>>

\* The first entry of the id is rendered, reopened and with quoted symbols.
Restored(my) ==
    LET entries == {k \in 1..Len(my.archive) : my.archive[k].task = my.task}
        first == CHOOSE k \in entries : \A j \in entries : k <= j
    IN [my.archive[first].text EXCEPT !.status = ReopenStatus("task"), !.quoted = TRUE]

Restore(p) ==
    LET my == proc[p] IN
        /\ At(p, "restore")
        /\ file' = [file EXCEPT ![my.task] = Restored(my)]
        /\ Goto(p, [my EXCEPT !.pc = "strip"])
        /\ UNCHANGED <<sidecar, lines, crashes>>

\* rewriteArchiveFile with the other entries that were read before the restore.
Strip(p) ==
    LET my == proc[p] IN
        /\ At(p, "strip")
        /\ lines' = Kept(my.archive, {k \in 1..Len(my.archive) : my.archive[k].task # my.task})
        /\ Stop(p)
        /\ UNCHANGED <<file, sidecar, crashes>>
-----------------------------------------------------------------------------
\* The process is killed: what it held in memory is gone.
Crash(p) ==
    /\ ~At(p, "idle") /\ crashes < MaxCrashes
    /\ crashes' = crashes + 1
    /\ Stop(p)
    /\ UNCHANGED <<file, sidecar, lines>>

\* Someone unquotes the symbols of a text unarchive has left, and lays it out
\* as it was.
Unquote(t) ==
    /\ IsText(file[t]) /\ file[t].quoted
    /\ file' = [file EXCEPT ![t].quoted = FALSE]
    /\ UNCHANGED <<sidecar, lines, proc, crashes>>

Init ==
    /\ file = FirstText
    /\ sidecar = [t \in Task |-> <<>>]
    /\ lines = <<>>
    /\ proc = [p \in Proc |-> Rest]
    /\ crashes = 0

\* The process goes on with the command it is running.
Run(p) ==
    \/ Packet(p) \/ Claim(p) \/ Reread(p) \/ ClaimWrite(p) \/ AfterClaim(p)
    \/ Resolve(p) \/ Write(p) \/ Log(p) \/ LogWrite(p)
    \/ Check(p) \/ AppendEntry(p) \/ CutWrite(p)
    \/ Find(p) \/ Restore(p) \/ Strip(p)

Next ==
    \/ \E p \in Proc : Run(p) \/ Crash(p)
    \/ \E p \in Proc, op \in Commands, t \in Task : Begin(p, op, t)
    \/ \E t \in Task : Unquote(t)

Spec == Init /\ [][Next]_vars

\* A command that is not killed runs on; an archive is asked for again and
\* again, as `topogram release` does for every eligible record; and someone
\* repairs the text unarchive leaves, which makes every command refuse.
Fairness ==
    /\ \A p \in Proc : WF_vars(Run(p))
    /\ \A t \in Task : SF_vars(\E p \in Proc : Begin(p, "archive", t))
    /\ \A t \in Task : WF_vars(Unquote(t))

FairSpec == Spec /\ Fairness
-----------------------------------------------------------------------------
(* Properties *)

\* Every variable, and what every process holds in memory, has its type.
Line == [task : Task, text : Text]
Memory == [pc : {"idle", "packet", "claim", "claimRead", "claimWrite", "afterClaim", "resolve",
                 "read", "write", "log", "logWrite", "check", "append", "cutRead", "cutWrite",
                 "find", "restore", "strip"},
           op : Commands \cup {"none"},
           task : Task \cup {"none"},
           todo : Seq(StatusSet("task")),
           parsed : Text \cup {Absent},
           read : Text \cup {Absent, Mangled},
           history : {<<>>} \cup [Task -> Seq(Move)],
           archive : Seq(Line)]
TypeOK ==
    /\ file \in [Task -> Text \cup {Absent, Mangled}]
    /\ sidecar \in [Task -> Seq(Move)]
    /\ lines \in Seq(Line)
    /\ proc \in [Proc -> Memory]
    /\ crashes \in 0..MaxCrashes

\* No record is ever lost: a task whose file is gone has its line in the
\* archive, wherever a command was killed.
RecordKept == \A t \in Task : file[t] = Absent => LinesOf(t) # {}

\* Claimed work is never disowned: whatever the interleaving, no rewrite leaves
\* a task claimed, in progress or done without a claimed_by line, which would
\* make every later command refuse the workspace; and only claimed, finished
\* work is frozen.
WorkClaimed ==
    /\ \A t \in Task : IsText(file[t]) /\ file[t].status \in {"claimed", "in-progress", "done"}
           => Claimed(file[t])
    /\ \A k \in 1..Len(lines) : lines[k].text.status = "done" /\ Claimed(lines[k].text)

\* The commands do to the records and the history what the atomic commands of
\* SdlcLedger do, if no two of them overlap.  The entry of a move that is
\* written and about to be entered counts as entered.
Entering(t) == {p \in Proc : proc[p].pc \in {"log", "logWrite"} /\ proc[p].task = t}

Ledger == INSTANCE SdlcLedger WITH
    First <- [t \in Task |-> FirstText[t].status],
    MayForget <- MaxCrashes > 0,
    status <- [t \in Task |-> IF IsText(file[t]) THEN file[t].status ELSE "archived"],
    trail <- [t \in Task |-> IF Entering(t) = {} THEN sidecar[t]
                              ELSE Append(sidecar[t], Entry(proc[CHOOSE p \in Entering(t) : TRUE]))]

ImplementsLedger == Ledger!Spec

\* A killed archive is finished by asking again: a done task ends up outside
\* the live records although its line was already there.
ArchiveFinishes ==
    \A t \in Task : IsText(file[t]) /\ file[t].status = "done" ~> file[t] = Absent
=============================================================================
