--------------------------- MODULE SdlcFilesProofs ---------------------------
(***************************************************************************)
(* What holds of the task commands when any number of CLI processes run    *)
(* them on the same workspace, interleaved at every read and write and     *)
(* killed anywhere: claimed work stays claimed, and, as long as nobody     *)
(* unarchives beside others, no record is lost.  Run by one process at a   *)
(* time the commands implement the atomic acts of SdlcLedger.              *)
(***************************************************************************)
EXTENDS SdlcFiles, FilteringProofs

Working == {"claimed", "in-progress", "done"}

\* A file's content that no rewrite has disowned.
ClaimKept(x) == IsText(x) /\ x.status \in Working => Claimed(x)

HasLine(ls, t) == \E k \in 1..Len(ls) : ls[k].task = t
Frozen(line) == line.text.status = "done" /\ Claimed(line.text)

\* Where a command holds a parse, a text read again, a history, moves to make.
Moving == {"claim", "claimRead", "claimWrite", "afterClaim", "resolve", "read", "write", "log",
           "logWrite"}
Splicing == {"read", "write", "log", "logWrite"}
Cutting == {"cutRead", "cutWrite"}
Rewriting == {"claimWrite", "write", "cutWrite"}
Reviving == {"find", "restore", "strip"}

\* What a process holds in memory is what the rest of its command relies on:
\* a move that was allowed for the text that was parsed, a done text to freeze,
\* an archive with the entry to restore.
MemoryOK(my) ==
    /\ my \in Memory
    /\ my.pc # "idle" => my.task \in Task
    /\ my.pc \in Moving => my.todo # <<>>
    /\ my.pc \in Splicing => my.parsed \in Text /\ TaskDoD(my.parsed, Head(my.todo))
    /\ my.pc \in Cutting \cup {"append"} => my.parsed \in Text
    /\ my.pc = "append" => my.parsed.status = "done" /\ Claimed(my.parsed)
    /\ my.pc \in Rewriting => my.read \in Text \cup {Mangled}
    /\ my.pc = "logWrite" => my.history \in [Task -> Seq(Move)]
    /\ my.pc \in Reviving => "unarchive" \in Commands
    /\ my.pc = "restore" => HasLine(my.archive, my.task)
    /\ \A k \in 1..Len(my.archive) : Frozen(my.archive[k])

Types ==
    /\ file \in [Task -> Text \cup {Absent, Mangled}]
    /\ sidecar \in [Task -> Seq(Move)]
    /\ lines \in Seq(Line)
    /\ crashes \in 0..MaxCrashes

FilesInv ==
    /\ Types
    /\ proc \in [Proc -> Memory]
    /\ \A p \in Proc : MemoryOK(proc[p])
    /\ WorkClaimed
-----------------------------------------------------------------------------
\* A process between two commands relies on nothing.
LEMMA RestIsOK == MemoryOK(Rest)
  BY DEF MemoryOK, Memory, Rest, Moving, Splicing, Cutting, Rewriting, Reviving

\* The shape of every step of a process: it replaces its own memory by one that
\* is OK, writes no file that disowns work, and leaves in the archive only
\* finished, claimed work.
LEMMA StepKeepsInv ==
    ASSUME FilesInv, NEW p \in Proc, NEW my,
           proc' = [proc EXCEPT ![p] = my], MemoryOK(my),
           Types',
           \A t \in Task : ClaimKept(file'[t]),
           \A k \in 1..Len(lines') : Frozen(lines'[k])
    PROVE  FilesInv'
  <1>1. proc' \in [Proc -> Memory]
    BY DEF FilesInv, MemoryOK
  <1>2. \A q \in Proc : proc'[q] = IF q = p THEN my ELSE proc[q]
    BY DEF FilesInv
  <1>3. \A q \in Proc : MemoryOK(proc'[q])
    BY <1>2 DEF FilesInv
  <1>4. WorkClaimed'
    BY DEF WorkClaimed, ClaimKept, Frozen, Working, IsText, Claimed
  <1>5. Types'
    OBVIOUS
  <1> QED
    BY <1>1, <1>3, <1>4, <1>5 DEF FilesInv, MemoryOK

\* A step that changes only what one process holds in memory.
LEMMA MemoryStep ==
    ASSUME FilesInv, NEW p \in Proc, NEW my,
           proc' = [proc EXCEPT ![p] = my], MemoryOK(my),
           UNCHANGED <<file, sidecar, lines>>, crashes' \in 0..MaxCrashes
    PROVE  FilesInv'
  <1>1. Types'
    BY DEF FilesInv, Types
  <1>2. \A t \in Task : ClaimKept(file'[t])
    BY DEF FilesInv, WorkClaimed, ClaimKept, Working, IsText, Claimed
  <1>3. \A k \in 1..Len(lines') : Frozen(lines'[k])
    BY DEF FilesInv, WorkClaimed, Frozen, Claimed
  <1> QED
    BY <1>1, <1>2, <1>3, StepKeepsInv

\* A step that rewrites one file as well.
LEMMA FileStep ==
    ASSUME FilesInv, NEW p \in Proc, NEW my,
           proc' = [proc EXCEPT ![p] = my], MemoryOK(my),
           NEW t \in Task, NEW x \in Text \cup {Absent, Mangled},
           file' = [file EXCEPT ![t] = x], ClaimKept(x),
           UNCHANGED <<sidecar, lines, crashes>>
    PROVE  FilesInv'
  <1>1. Types'
    BY DEF FilesInv, Types
  <1>2. \A u \in Task : file'[u] = IF u = t THEN x ELSE file[u]
    BY DEF FilesInv, Types
  <1>3. \A u \in Task : ClaimKept(file'[u])
    BY <1>2 DEF FilesInv, WorkClaimed, ClaimKept, Working, IsText, Claimed
  <1>4. \A k \in 1..Len(lines') : Frozen(lines'[k])
    BY DEF FilesInv, WorkClaimed, Frozen, Claimed
  <1> QED
    BY <1>1, <1>3, <1>4, StepKeepsInv

\* What a process may rely on when it acts.
LEMMA Current ==
    ASSUME FilesInv, NEW p \in Proc, proc[p].pc # "idle"
    PROVE  /\ MemoryOK(proc[p])
           /\ proc[p].task \in Task
           /\ file[proc[p].task] \in Text \cup {Absent, Mangled}
           /\ crashes \in 0..MaxCrashes
  BY DEF FilesInv, MemoryOK, Types

\* A text is neither of the two markers.
LEMMA TextIsText == \A x \in Text : IsText(x)
  BY FirstTextAssumption DEF IsText

\* A live text of a valid workspace is claimed if it has to be.
LEMMA ValidIsClaimed ==
    ASSUME FilesInv, Valid, NEW t \in Task, IsText(file[t])
    PROVE  file[t] \in Text /\ (file[t].status \in Working => Claimed(file[t]))
  BY DEF FilesInv, Types, IsText, Valid, ValidText, Working
-----------------------------------------------------------------------------
(* Initially, and one lemma per step of a process *)

\* The first command finds the files as they were committed and no archive.
LEMMA InitFilesInv == Init => FilesInv
  <1> SUFFICES ASSUME Init
               PROVE  FilesInv
    OBVIOUS
  <1>1. Types
    BY FirstTextAssumption, FilesAssumption DEF Init, Types
  <1>2. \A p \in Proc : MemoryOK(proc[p]) /\ proc[p].pc = "idle"
    BY RestIsOK DEF Init, Rest
  <1>3. proc \in [Proc -> Memory]
    BY RestIsOK DEF Init, MemoryOK
  <1>5. \A t \in Task : file[t].status \in Working => Claimed(file[t])
    BY FirstTextAssumption DEF Init, Working, Claimed
  <1>6. 1..Len(lines) = {}
    BY DEF Init
  <1>7. WorkClaimed
    BY <1>5, <1>6 DEF WorkClaimed, Working
  <1> QED
    BY <1>1, <1>2, <1>3, <1>7 DEF FilesInv

\* A command that stops, whatever the reason, leaves files it has not touched.
LEMMA StopStep ==
    ASSUME FilesInv, NEW p \in Proc, Stop(p), UNCHANGED <<file, sidecar, lines>>,
           crashes' \in 0..MaxCrashes
    PROVE  FilesInv'
  BY RestIsOK, MemoryStep DEF Stop, Goto

\* A command begins with nothing in memory but what it was asked to do.
LEMMA BeginStep ==
    ASSUME FilesInv, NEW p \in Proc, NEW op \in Commands, NEW t \in Task, Begin(p, op, t)
    PROVE  FilesInv'
  <1>1. PICK my : /\ proc' = [proc EXCEPT ![p] = my]
                  /\ \/ /\ op = "transition"
                        /\ \E to \in Targets :
                              my = [[Rest EXCEPT !.op = op, !.task = t]
                                        EXCEPT !.pc = "resolve", !.todo = <<to>>]
                     \/ op = "start" /\ my = [[Rest EXCEPT !.op = op, !.task = t]
                                                  EXCEPT !.pc = "packet"]
                     \/ op = "archive" /\ my = [[Rest EXCEPT !.op = op, !.task = t]
                                                    EXCEPT !.pc = "check"]
                     \/ op = "unarchive" /\ my = [[Rest EXCEPT !.op = op, !.task = t]
                                                      EXCEPT !.pc = "find"]
    BY DEF Begin, Goto
  <1>2. MemoryOK(my)
    <2>1. CASE op = "transition"
      <3>1. PICK to \in Targets :
                my = [pc |-> "resolve", op |-> op, task |-> t, todo |-> <<to>>,
                      parsed |-> Absent, read |-> Absent, history |-> <<>>, archive |-> <<>>]
        BY <1>1, <2>1 DEF Rest
      <3>2. <<to>> \in Seq(StatusSet("task")) /\ <<to>> # <<>>
        BY FilesAssumption
      <3> QED
        BY <3>1, <3>2 DEF MemoryOK, Memory, Moving, Splicing, Cutting, Rewriting, Reviving
    <2>2. CASE op = "start"
      <3>1. my = [pc |-> "packet", op |-> op, task |-> t, todo |-> <<>>,
                  parsed |-> Absent, read |-> Absent, history |-> <<>>, archive |-> <<>>]
        BY <1>1, <2>2 DEF Rest
      <3> QED
        BY <3>1 DEF MemoryOK, Memory, Moving, Splicing, Cutting, Rewriting, Reviving
    <2>3. CASE op = "archive"
      <3>1. my = [pc |-> "check", op |-> op, task |-> t, todo |-> <<>>,
                  parsed |-> Absent, read |-> Absent, history |-> <<>>, archive |-> <<>>]
        BY <1>1, <2>3 DEF Rest
      <3> QED
        BY <3>1 DEF MemoryOK, Memory, Moving, Splicing, Cutting, Rewriting, Reviving
    <2>4. CASE op = "unarchive"
      <3>1. my = [pc |-> "find", op |-> op, task |-> t, todo |-> <<>>,
                  parsed |-> Absent, read |-> Absent, history |-> <<>>, archive |-> <<>>]
        BY <1>1, <2>4 DEF Rest
      <3> QED
        BY <2>4, <3>1 DEF MemoryOK, Memory, Moving, Splicing, Cutting, Rewriting, Reviving
    <2> QED
      BY <1>1, <2>1, <2>2, <2>3, <2>4
  <1>3. UNCHANGED <<file, sidecar, lines>> /\ crashes' \in 0..MaxCrashes
    BY DEF Begin, FilesInv, Types
  <1> QED
    BY <1>1, <1>2, <1>3, MemoryStep

\* startTask: a packet that refuses ends the command.
LEMMA PacketStep ==
    ASSUME FilesInv, NEW p \in Proc, Packet(p)
    PROVE  FilesInv'
  <1> DEFINE my == proc[p]
             text == file[my.task]
  <1>1. MemoryOK(my) /\ my.pc = "packet" /\ my.task \in Task /\ crashes' \in 0..MaxCrashes
    BY Current DEF Packet, At
  <1>2. UNCHANGED <<file, sidecar, lines>>
    BY DEF Packet
  <1>3. CASE Stop(p)
    BY <1>1, <1>2, <1>3, StopStep
  <1>4. CASE Goto(p, [my EXCEPT !.pc = "claim", !.todo = <<"claimed", "in-progress">>])
    <2>1. <<"claimed", "in-progress">> \in Seq(StatusSet("task"))
      BY DEF StatusSet
    <2>2. MemoryOK([my EXCEPT !.pc = "claim", !.todo = <<"claimed", "in-progress">>])
      BY <1>1, <2>1 DEF MemoryOK, Memory, Moving, Splicing, Cutting, Rewriting, Reviving
    <2> QED
      BY <1>1, <1>2, <1>4, <2>2, MemoryStep DEF Goto
  <1>5. CASE Goto(p, [my EXCEPT !.pc = "afterClaim", !.todo = <<"in-progress">>])
    <2>1. <<"in-progress">> \in Seq(StatusSet("task"))
      BY DEF StatusSet
    <2>2. MemoryOK([my EXCEPT !.pc = "afterClaim", !.todo = <<"in-progress">>])
      BY <1>1, <2>1 DEF MemoryOK, Memory, Moving, Splicing, Cutting, Rewriting, Reviving
    <2> QED
      BY <1>1, <1>2, <1>5, <2>2, MemoryStep DEF Goto
  <1> QED
    BY <1>3, <1>4, <1>5 DEF Packet

\* ensureClaimedBy: refused, or on with the move, or on to insert the claim.
LEMMA ClaimStep ==
    ASSUME FilesInv, NEW p \in Proc, Claim(p)
    PROVE  FilesInv'
  <1> DEFINE my == proc[p]
  <1>1. MemoryOK(my) /\ my.pc = "claim" /\ my.task \in Task /\ crashes' \in 0..MaxCrashes
    BY Current DEF Claim, At
  <1>2. UNCHANGED <<file, sidecar, lines>>
    BY DEF Claim
  <1>3. CASE Stop(p)
    BY <1>1, <1>2, <1>3, StopStep
  <1>4. ASSUME NEW pc \in {"resolve", "claimRead"}, Goto(p, [my EXCEPT !.pc = pc])
        PROVE  FilesInv'
    <2>1. MemoryOK([my EXCEPT !.pc = pc])
      BY <1>1, <1>4 DEF MemoryOK, Memory, Moving, Splicing, Cutting, Rewriting, Reviving
    <2> QED
      BY <1>1, <1>2, <1>4, <2>1, MemoryStep DEF Goto
  <1> QED
    BY <1>3, <1>4 DEF Claim

\* The second read of a file: the command stops if it is gone, and otherwise
\* holds a text or a mangled file.
LEMMA RereadStep ==
    ASSUME FilesInv, NEW p \in Proc, Reread(p)
    PROVE  FilesInv'
  <1> DEFINE my == proc[p]
  <1>1. /\ MemoryOK(my) /\ my.pc \in {"claimRead", "read", "cutRead"} /\ my.task \in Task
        /\ file[my.task] \in Text \cup {Absent, Mangled} /\ crashes' \in 0..MaxCrashes
    <2>1. my.pc \in {"claimRead", "read", "cutRead"} /\ crashes' = crashes
      BY DEF Reread, NextWrite
    <2> QED
      BY <2>1, Current
  <1>2. UNCHANGED <<file, sidecar, lines>>
    BY DEF Reread
  <1>3. CASE Stop(p)
    BY <1>1, <1>2, <1>3, StopStep
  <1>4. CASE /\ file[my.task] # Absent
             /\ Goto(p, [my EXCEPT !.read = file[my.task], !.pc = NextWrite[my.pc]])
    <2> DEFINE next == [my EXCEPT !.read = file[my.task], !.pc = NextWrite[my.pc]]
    <2>1. /\ NextWrite[my.pc] \in Rewriting
          /\ my.pc = "claimRead" => NextWrite[my.pc] = "claimWrite"
          /\ my.pc = "read" => NextWrite[my.pc] = "write"
          /\ my.pc = "cutRead" => NextWrite[my.pc] = "cutWrite"
      BY <1>1 DEF NextWrite, Rewriting
    <2>2. file[my.task] \in Text \cup {Mangled}
      BY <1>1, <1>4
    <2>3. /\ next \in Memory /\ next.pc = NextWrite[my.pc] /\ next.read = file[my.task]
          /\ next.task = my.task /\ next.archive = my.archive /\ next.todo = my.todo /\ next.parsed = my.parsed
      BY <1>1, <2>1, <2>2 DEF MemoryOK, Memory, Rewriting
    <2>4. MemoryOK(next)
      BY <1>1, <2>1, <2>2, <2>3
         DEF MemoryOK, Moving, Splicing, Cutting, Rewriting, Reviving
    <2> QED
      BY <1>1, <1>2, <1>4, <2>4, MemoryStep DEF Goto
  <1> QED
    BY <1>3, <1>4 DEF Reread

\* Inserting a claim never takes one away.
LEMMA ClaimWriteStep ==
    ASSUME FilesInv, NEW p \in Proc, ClaimWrite(p)
    PROVE  FilesInv'
  <1> DEFINE my == proc[p]
             written == WithClaim(my.read, ActorOf[p])
  <1>1. MemoryOK(my) /\ my.pc = "claimWrite" /\ my.task \in Task
    BY Current DEF ClaimWrite, At
  <1>2. my.read \in Text \cup {Mangled} /\ ActorOf[p] \in Actor
    BY <1>1 DEF MemoryOK, Rewriting, Actor
  <1>3. written \in Text \cup {Mangled} /\ ClaimKept(written)
    <2>1. CASE IsText(my.read)
      <3>1. my.read \in Text
        BY <1>2, <2>1 DEF IsText
      <3>2. <<ActorOf[p]>> \o my.read.claims \in Seq(Actor)
            /\ <<ActorOf[p]>> \o my.read.claims # <<>>
        BY <1>2, <3>1 DEF Text
      <3>3. written = [my.read EXCEPT !.claims = <<ActorOf[p]>> \o my.read.claims]
        BY <2>1 DEF WithClaim
      <3> QED
        BY <3>1, <3>2, <3>3 DEF Text, ClaimKept, Claimed
    <2>2. CASE ~IsText(my.read)
      BY <2>2 DEF WithClaim, ClaimKept, IsText
    <2> QED
      BY <2>1, <2>2
  <1>4. MemoryOK([my EXCEPT !.pc = "resolve"])
    BY <1>1 DEF MemoryOK, Memory, Moving, Splicing, Cutting, Rewriting, Reviving
  <1> QED
    BY <1>1, <1>3, <1>4, FileStep DEF ClaimWrite, Goto

\* startTask looks again between its two moves.
LEMMA AfterClaimStep ==
    ASSUME FilesInv, NEW p \in Proc, AfterClaim(p)
    PROVE  FilesInv'
  <1> DEFINE my == proc[p]
  <1>1. MemoryOK(my) /\ my.pc = "afterClaim" /\ my.task \in Task /\ crashes' \in 0..MaxCrashes
    BY Current DEF AfterClaim, At
  <1>2. UNCHANGED <<file, sidecar, lines>>
    BY DEF AfterClaim
  <1>3. CASE Stop(p)
    BY <1>1, <1>2, <1>3, StopStep
  <1>4. CASE Goto(p, [my EXCEPT !.pc = "resolve"])
    <2>1. MemoryOK([my EXCEPT !.pc = "resolve"])
      BY <1>1 DEF MemoryOK, Memory, Moving, Splicing, Cutting, Rewriting, Reviving
    <2> QED
      BY <1>1, <1>2, <1>4, <2>1, MemoryStep DEF Goto
  <1> QED
    BY <1>3, <1>4 DEF AfterClaim

\* A move that gets past the Definition of Done was allowed for the text the
\* process keeps.
LEMMA ResolveStep ==
    ASSUME FilesInv, NEW p \in Proc, Resolve(p)
    PROVE  FilesInv'
  <1> DEFINE my == proc[p]
             text == file[my.task]
  <1>1. /\ MemoryOK(my) /\ my.pc = "resolve" /\ my.task \in Task
        /\ text \in Text \cup {Absent, Mangled} /\ crashes' \in 0..MaxCrashes
    BY Current DEF Resolve, At
  <1>2. UNCHANGED <<file, sidecar, lines>>
    BY DEF Resolve
  <1>3. CASE Stop(p)
    BY <1>1, <1>2, <1>3, StopStep
  <1>4. CASE /\ IsText(text) /\ Transitionable(text, Head(my.todo))
             /\ Goto(p, [my EXCEPT !.pc = "read", !.parsed = text])
    <2> DEFINE next == [my EXCEPT !.pc = "read", !.parsed = text]
    <2>1. text \in Text /\ TaskDoD(text, Head(my.todo))
      BY <1>1, <1>4 DEF IsText, Transitionable
    <2>2. next \in Memory /\ next.pc = "read" /\ next.parsed = text
          /\ next.task = my.task /\ next.archive = my.archive /\ next.todo = my.todo
      BY <1>1, <2>1 DEF MemoryOK, Memory
    <2>3. MemoryOK(next)
      BY <1>1, <2>1, <2>2 DEF MemoryOK, Moving, Splicing, Cutting, Rewriting, Reviving
    <2> QED
      BY <1>1, <1>2, <1>4, <2>2, <2>3, MemoryStep DEF Goto
  <1> QED
    BY <1>3, <1>4 DEF Resolve

\* Two texts of one layout have as many claims: a status spliced in where it was
\* parsed keeps the claim that allowed it.
LEMMA WriteStep ==
    ASSUME FilesInv, NEW p \in Proc, Write(p)
    PROVE  FilesInv'
  <1> DEFINE my == proc[p]
             to == Head(my.todo)
             written == Respliced(my.parsed, my.read, to)
             next == [my EXCEPT !.pc = "log"]
  <1>1. MemoryOK(my) /\ my.pc = "write" /\ my.task \in Task
    BY Current DEF Write, At
  <1>2. /\ my.parsed \in Text /\ my.read \in Text \cup {Mangled}
        /\ TaskDoD(my.parsed, to) /\ to \in StatusSet("task")
    BY <1>1 DEF MemoryOK, Memory, Moving, Splicing, Rewriting
  <1>3. written \in Text \cup {Mangled} /\ ClaimKept(written)
    <2>1. CASE IsText(my.read) /\ SameLayout(my.parsed, my.read)
      <3>1. my.read \in Text /\ written = [my.read EXCEPT !.status = to]
        BY <1>2, <2>1 DEF IsText, Respliced
      <3>2. to \in Working => my.parsed.claims # <<>>
        BY <1>2 DEF TaskDoD, Working, Claimed
      <3>3. Len(my.parsed.claims) = Len(my.read.claims)
        BY <2>1 DEF SameLayout
      <3>4. to \in Working => my.read.claims # <<>>
        BY <3>1, <3>2, <3>3, <1>2 DEF Text
      <3>5. written \in Text /\ written.status = to /\ written.claims = my.read.claims
        BY <3>1, <1>2 DEF Text
      <3> QED
        BY <3>4, <3>5 DEF ClaimKept, Claimed
    <2>2. CASE ~(IsText(my.read) /\ SameLayout(my.parsed, my.read))
      BY <2>2 DEF Respliced, ClaimKept, IsText
    <2> QED
      BY <2>1, <2>2
  <1>4. /\ next \in Memory /\ next.pc = "log" /\ next.parsed = my.parsed
        /\ next.task = my.task /\ next.archive = my.archive /\ next.todo = my.todo
    BY <1>1 DEF MemoryOK, Memory
  <1>5. MemoryOK(next)
    BY <1>1, <1>4 DEF MemoryOK, Moving, Splicing, Cutting, Rewriting, Reviving
  <1> QED
    BY <1>1, <1>3, <1>5, FileStep DEF Write, Goto

\* appendTransition holds the whole sidecar before it writes it.
LEMMA LogStep ==
    ASSUME FilesInv, NEW p \in Proc, Log(p)
    PROVE  FilesInv'
  <1> DEFINE my == proc[p]
             next == [my EXCEPT !.pc = "logWrite", !.history = sidecar]
  <1>1. MemoryOK(my) /\ my.pc = "log" /\ my.task \in Task /\ crashes' \in 0..MaxCrashes
    BY Current DEF Log, At
  <1>2. UNCHANGED <<file, sidecar, lines>> /\ sidecar \in [Task -> Seq(Move)]
    BY DEF Log, FilesInv, Types
  <1>3. /\ next \in Memory /\ next.pc = "logWrite" /\ next.history = sidecar
        /\ next.parsed = my.parsed /\ next.task = my.task /\ next.archive = my.archive /\ next.todo = my.todo
    BY <1>1, <1>2 DEF MemoryOK, Memory
  <1>4. MemoryOK(next)
    BY <1>1, <1>2, <1>3 DEF MemoryOK, Moving, Splicing, Cutting, Rewriting, Reviving
  <1> QED
    BY <1>1, <1>2, <1>4, MemoryStep DEF Log, Goto

\* A list of moves with more than one to make has moves left after the first.
LEMMA MoreToDo ==
    ASSUME NEW S, NEW todo \in Seq(S), todo # <<>>, Len(todo) # 1
    PROVE  Tail(todo) \in Seq(S) /\ Tail(todo) # <<>>
  <1>1. Len(todo) \in Nat /\ Len(todo) > 1
    <2>1. Len(todo) \in Nat
      OBVIOUS
    <2>2. Len(todo) # 0
      OBVIOUS
    <2>3. \A n \in Nat : n # 0 /\ n # 1 => n > 1
      OBVIOUS
    <2> QED
      BY <2>1, <2>2, <2>3
  <1>2. Tail(todo) \in Seq(S) /\ Len(Tail(todo)) = Len(todo) - 1
    BY <1>1
  <1> QED
    BY <1>1, <1>2

\* The sidecar that is written back is well typed, however old it is.
LEMMA LogWriteStep ==
    ASSUME FilesInv, NEW p \in Proc, LogWrite(p)
    PROVE  FilesInv'
  <1> DEFINE my == proc[p]
             next == [my EXCEPT !.pc = "afterClaim", !.todo = Tail(@)]
  <1>1. MemoryOK(my) /\ my.pc = "logWrite" /\ my.task \in Task
    BY Current DEF LogWrite, At
  <1>2. /\ my.todo \in Seq(StatusSet("task")) /\ my.todo # <<>> /\ my.parsed \in Text
        /\ my.history \in [Task -> Seq(Move)]
    BY <1>1 DEF MemoryOK, Memory, Moving, Splicing
  <1>3. Entry(my) \in Move
    BY <1>2 DEF Entry, Move, Text
  <1>4. sidecar' \in [Task -> Seq(Move)]
    BY <1>1, <1>2, <1>3 DEF LogWrite
  <1>5. Types'
    BY <1>4 DEF LogWrite, FilesInv, Types
  <1>6. /\ \A t \in Task : ClaimKept(file'[t])
        /\ \A k \in 1..Len(lines') : Frozen(lines'[k])
    BY DEF LogWrite, FilesInv, WorkClaimed, ClaimKept, Frozen, Working, IsText, Claimed
  <1>7. CASE Stop(p)
    <2>1. proc' = [proc EXCEPT ![p] = Rest] /\ MemoryOK(Rest)
      BY <1>7, RestIsOK DEF Stop, Goto
    <2> QED
      BY <2>1, <1>5, <1>6, <1>7, StepKeepsInv
  <1>8. CASE Len(my.todo) # 1 /\ Goto(p, next)
    <2>1. Tail(my.todo) \in Seq(StatusSet("task")) /\ Tail(my.todo) # <<>>
      BY <1>2, <1>8, MoreToDo
    <2>2. next \in Memory /\ next.pc = "afterClaim" /\ next.task = my.task /\ next.archive = my.archive
          /\ next.todo = Tail(my.todo)
      BY <1>1, <2>1 DEF MemoryOK, Memory
    <2>3. MemoryOK(next)
      BY <1>1, <2>1, <2>2 DEF MemoryOK, Moving, Splicing, Cutting, Rewriting, Reviving
    <2> QED
      BY <1>5, <1>6, <1>8, <2>3, StepKeepsInv DEF Goto
  <1> QED
    BY <1>7, <1>8 DEF LogWrite

\* What archiveStatement goes on with is done and claimed.
LEMMA CheckStep ==
    ASSUME FilesInv, NEW p \in Proc, Check(p)
    PROVE  FilesInv'
  <1> DEFINE my == proc[p]
             text == file[my.task]
             next == [my EXCEPT !.pc = "append", !.parsed = text]
  <1>1. MemoryOK(my) /\ my.pc = "check" /\ my.task \in Task /\ crashes' \in 0..MaxCrashes
    BY Current DEF Check, At
  <1>2. UNCHANGED <<file, sidecar, lines>>
    BY DEF Check
  <1>3. CASE Stop(p)
    BY <1>1, <1>2, <1>3, StopStep
  <1>4. CASE /\ Valid /\ IsText(text) /\ text.status \in ArchivableStatuses("task")
             /\ Goto(p, next)
    <2>1. text.status = "done"
      BY <1>4 DEF ArchivableStatuses
    <2>2. text \in Text /\ Claimed(text)
      BY <1>1, <1>4, <2>1, ValidIsClaimed DEF Working
    <2>3. next \in Memory /\ next.pc = "append" /\ next.parsed = text /\ next.task = my.task /\ next.archive = my.archive
      BY <1>1, <2>2 DEF MemoryOK, Memory
    <2>4. MemoryOK(next)
      BY <1>1, <2>1, <2>2, <2>3
         DEF MemoryOK, Moving, Splicing, Cutting, Rewriting, Reviving
    <2> QED
      BY <1>1, <1>2, <1>4, <2>4, MemoryStep DEF Goto
  <1> QED
    BY <1>3, <1>4 DEF Check

\* Appending leaves the older lines where they were and adds the new one.
LEMMA Appended ==
    ASSUME NEW ls \in Seq(Line), NEW line \in Line
    PROVE  /\ Append(ls, line) \in Seq(Line)
           /\ HasLine(Append(ls, line), line.task)
           /\ \A t \in Task : HasLine(ls, t) => HasLine(Append(ls, line), t)
           /\ (\A k \in 1..Len(ls) : Frozen(ls[k])) /\ Frozen(line)
                 => \A k \in 1..Len(Append(ls, line)) : Frozen(Append(ls, line)[k])
  <1> DEFINE more == Append(ls, line)
  <1>1. /\ more \in Seq(Line) /\ Len(ls) \in Nat /\ Len(more) = Len(ls) + 1
        /\ more[Len(ls) + 1] = line
        /\ \A k \in 1..Len(ls) : more[k] = ls[k]
    OBVIOUS
  <1> HIDE DEF more
  <1>2. HasLine(more, line.task)
    BY <1>1 DEF HasLine
  <1>3. \A t \in Task : HasLine(ls, t) => HasLine(more, t)
    BY <1>1 DEF HasLine
  <1>4. (\A k \in 1..Len(ls) : Frozen(ls[k])) /\ Frozen(line)
          => \A k \in 1..Len(more) : Frozen(more[k])
    BY <1>1
  <1> QED
    BY <1>1, <1>2, <1>3, <1>4 DEF more

\* An entry is a text with the status of the file and its first claim.
LEMMA SnapshotOfClaimed ==
    ASSUME NEW text \in Text, Claimed(text)
    PROVE  Snapshot(text) \in Text /\ Snapshot(text).status = text.status /\ Claimed(Snapshot(text))
  <1>1. Owner(text) \in Actor
    BY DEF Text, Claimed, Owner
  <1>2. <<Owner(text)>> \in Seq(Actor) /\ <<Owner(text)>> # <<>>
    BY <1>1
  <1> QED
    BY <1>2 DEF Text, Snapshot, Claimed

\* The line that is appended is of done, claimed work.
LEMMA AppendStep ==
    ASSUME FilesInv, NEW p \in Proc, AppendEntry(p)
    PROVE  FilesInv'
  <1> DEFINE my == proc[p]
             line == [task |-> my.task, text |-> Snapshot(my.parsed)]
             next == [my EXCEPT !.pc = "cutRead"]
  <1>1. MemoryOK(my) /\ my.pc = "append" /\ my.task \in Task
    BY Current DEF AppendEntry, At
  <1>2. my.parsed \in Text /\ my.parsed.status = "done" /\ Claimed(my.parsed)
    BY <1>1 DEF MemoryOK
  <1>3. Snapshot(my.parsed) \in Text /\ Frozen(line)
    BY <1>2, SnapshotOfClaimed DEF Frozen
  <1>4. line \in Line /\ line.task = my.task
    BY <1>1, <1>3 DEF Line
  <1>5. lines \in Seq(Line) /\ lines' = Append(lines, line)
    BY DEF FilesInv, Types, AppendEntry
  <1>6. /\ lines' \in Seq(Line)
        /\ \A k \in 1..Len(lines') : Frozen(lines'[k])
    <2>1. \A k \in 1..Len(lines) : Frozen(lines[k])
      BY DEF FilesInv, WorkClaimed, Frozen
    <2> HIDE DEF line
    <2> QED
      BY <1>3, <1>4, <1>5, <2>1, Appended
  <1>7. Types'
    BY <1>6 DEF AppendEntry, FilesInv, Types
  <1>8. \A t \in Task : ClaimKept(file'[t])
    BY DEF AppendEntry, FilesInv, WorkClaimed, ClaimKept, Working, IsText, Claimed
  <1>9. /\ next \in Memory /\ next.pc = "cutRead" /\ next.parsed = my.parsed
        /\ next.task = my.task /\ next.archive = my.archive
    BY <1>1 DEF MemoryOK, Memory
  <1>10. MemoryOK(next)
    BY <1>1, <1>2, <1>9 DEF MemoryOK, Moving, Splicing, Cutting, Rewriting, Reviving
  <1>11. proc' = [proc EXCEPT ![p] = next]
    BY DEF AppendEntry, Goto
  <1> QED
    BY <1>6, <1>7, <1>8, <1>9, <1>10, <1>11, StepKeepsInv

\* A file is cut away whole or, at stale offsets, mangled.
LEMMA CutStep ==
    ASSUME FilesInv, NEW p \in Proc, CutWrite(p)
    PROVE  FilesInv'
  <1> DEFINE my == proc[p]
             left == Cut(my.parsed, my.read)
  <1>1. MemoryOK(my) /\ my.pc = "cutWrite" /\ my.task \in Task
    BY Current DEF CutWrite, At
  <1>2. left \in {Absent, Mangled} /\ ClaimKept(left)
    BY DEF Cut, ClaimKept, IsText
  <1>3. proc' = [proc EXCEPT ![p] = Rest] /\ MemoryOK(Rest)
    BY RestIsOK DEF CutWrite, Stop, Goto
  <1>4. file' = [file EXCEPT ![my.task] = left] /\ UNCHANGED <<sidecar, lines, crashes>>
    BY DEF CutWrite
  <1> QED
    BY <1>1, <1>2, <1>3, <1>4, FileStep

\* unarchive goes on with an archive that has an entry of the task.
LEMMA FindStep ==
    ASSUME FilesInv, NEW p \in Proc, Find(p)
    PROVE  FilesInv'
  <1> DEFINE my == proc[p]
             next == [my EXCEPT !.pc = "restore", !.archive = lines]
  <1>1. MemoryOK(my) /\ my.pc = "find" /\ my.task \in Task /\ crashes' \in 0..MaxCrashes
    BY Current DEF Find, At
  <1>2. UNCHANGED <<file, sidecar, lines>>
    BY DEF Find
  <1>3. CASE Stop(p)
    BY <1>1, <1>2, <1>3, StopStep
  <1>4. CASE LinesOf(my.task) # {} /\ Goto(p, next)
    <2>1. lines \in Seq(Line) /\ \A k \in 1..Len(lines) : Frozen(lines[k])
      BY DEF FilesInv, Types, WorkClaimed, Frozen
    <2>2. HasLine(lines, my.task)
      BY <1>4 DEF LinesOf, HasLine
    <2>3. next \in Memory /\ next.pc = "restore" /\ next.archive = lines /\ next.task = my.task
      BY <1>1, <2>1 DEF MemoryOK, Memory
    <2>4. MemoryOK(next)
      BY <1>1, <2>1, <2>2, <2>3 DEF MemoryOK, Moving, Splicing, Cutting, Rewriting, Reviving
    <2> QED
      BY <1>1, <1>2, <1>4, <2>4, MemoryStep DEF Goto
  <1> QED
    BY <1>3, <1>4 DEF Find

\* What is restored is the claimed work of the first entry, reopened.
LEMMA RestoredText ==
    ASSUME NEW my \in Memory, HasLine(my.archive, my.task),
           \A k \in 1..Len(my.archive) : Frozen(my.archive[k])
    PROVE  Restored(my) \in Text /\ Claimed(Restored(my)) /\ Restored(my).status = ReopenStatus("task")
  <1> DEFINE entries == {k \in 1..Len(my.archive) : my.archive[k].task = my.task}
             first == CHOOSE k \in entries : \A j \in entries : k <= j
  <1>1. entries \subseteq Nat /\ entries # {}
    BY DEF HasLine
  <1> HIDE DEF entries
  <1>2. first \in entries
    BY <1>1, LeastMember
  <1>3. first \in 1..Len(my.archive)
    BY <1>2 DEF entries
  <1>4. Restored(my) = [my.archive[first].text EXCEPT !.status = ReopenStatus("task"), !.quoted = TRUE]
    BY DEF Restored, entries
  <1> HIDE DEF first
  <1>5. my.archive[first] \in Line /\ Frozen(my.archive[first])
    BY <1>3 DEF Memory
  <1>6. ReopenStatus("task") \in StatusSet("task")
    BY DEF ReopenStatus, StatusSet
  <1> QED
    BY <1>4, <1>5, <1>6 DEF Line, Frozen, Text, Claimed

\* The file unarchive writes is a text with the claim it was frozen with.
LEMMA RestoreStep ==
    ASSUME FilesInv, NEW p \in Proc, Restore(p)
    PROVE  FilesInv'
  <1> DEFINE my == proc[p]
             next == [my EXCEPT !.pc = "strip"]
             written == Restored(my)
  <1>1. MemoryOK(my) /\ my.pc = "restore" /\ my.task \in Task
    BY Current DEF Restore, At
  <1>2. written \in Text /\ ClaimKept(written)
    BY <1>1, RestoredText DEF MemoryOK, ClaimKept
  <1>3. next \in Memory /\ next.pc = "strip" /\ next.task = my.task /\ next.archive = my.archive
    BY <1>1 DEF MemoryOK, Memory
  <1>4. MemoryOK(next)
    BY <1>1, <1>3 DEF MemoryOK, Moving, Splicing, Cutting, Rewriting, Reviving
  <1> QED
    BY <1>1, <1>2, <1>4, FileStep DEF Restore, Goto

\* What is left of the archive are lines that were there.
LEMMA StripStep ==
    ASSUME FilesInv, NEW p \in Proc, Strip(p)
    PROVE  FilesInv'
  <1> DEFINE my == proc[p]
             others == {k \in 1..Len(my.archive) : my.archive[k].task # my.task}
  <1>1. MemoryOK(my) /\ my.archive \in Seq(Line)
    BY Current DEF Strip, At, MemoryOK, Memory
  <1>2. others \subseteq 1..Len(my.archive) /\ lines' = Kept(my.archive, others)
    BY DEF Strip
  <1> HIDE DEF others
  <1>3. lines' \in Seq(Line)
    BY <1>1, <1>2, KeptPicks
  <1>4. PICK h \in [1..Len(lines') -> others] : \A k \in 1..Len(lines') : lines'[k] = my.archive[h[k]]
    <2>1. \E h \in [1..Len(Kept(my.archive, others)) -> others] :
             /\ \A k \in 1..Len(Kept(my.archive, others)) : Kept(my.archive, others)[k] = my.archive[h[k]]
             /\ \A j, k \in 1..Len(Kept(my.archive, others)) : j < k => h[j] < h[k]
      BY <1>1, <1>2, KeptPicks
    <2> QED
      BY <1>2, <2>1
  <1>5. \A k \in 1..Len(lines') : Frozen(lines'[k])
    BY <1>1, <1>2, <1>4 DEF MemoryOK
  <1>6. Types'
    BY <1>3 DEF Strip, FilesInv, Types
  <1>7. \A t \in Task : ClaimKept(file'[t])
    BY DEF Strip, FilesInv, WorkClaimed, ClaimKept, Working, IsText, Claimed
  <1>8. proc' = [proc EXCEPT ![p] = Rest] /\ MemoryOK(Rest)
    BY RestIsOK DEF Strip, Stop, Goto
  <1> QED
    BY <1>5, <1>6, <1>7, <1>8, StepKeepsInv

\* A killed process loses its memory only.
LEMMA CrashStep ==
    ASSUME FilesInv, NEW p \in Proc, Crash(p)
    PROVE  FilesInv'
  <1>1. UNCHANGED <<file, sidecar, lines>> /\ Stop(p)
    BY DEF Crash
  <1>2. crashes' \in 0..MaxCrashes
    BY FilesAssumption DEF Crash, FilesInv, Types
  <1> QED
    BY <1>1, <1>2, StopStep

\* An author repairing a revived text leaves its claim alone.
LEMMA UnquoteStep ==
    ASSUME FilesInv, NEW t \in Task, Unquote(t)
    PROVE  FilesInv'
  <1> DEFINE written == [file[t] EXCEPT !.quoted = FALSE]
  <1>1. file[t] \in Text /\ file \in [Task -> Text \cup {Absent, Mangled}]
    BY DEF FilesInv, Types, Unquote, IsText
  <1>2. /\ written \in Text /\ written.status = file[t].status
        /\ written.claims = file[t].claims
    BY <1>1 DEF Text
  <1>3. \A u \in Task : file'[u] = IF u = t THEN written ELSE file[u]
    BY <1>1 DEF Unquote
  <1>4. Types' /\ UNCHANGED <<proc, lines>>
    BY <1>1, <1>2 DEF Unquote, FilesInv, Types
  <1>5. WorkClaimed'
    BY <1>1, <1>2, <1>3, <1>4, TextIsText DEF FilesInv, WorkClaimed, Claimed, IsText
  <1>6. proc' \in [Proc -> Memory] /\ \A p \in Proc : MemoryOK(proc'[p])
    BY <1>4 DEF FilesInv
  <1> QED
    BY <1>4, <1>5, <1>6 DEF FilesInv, MemoryOK
-----------------------------------------------------------------------------
\* Every step keeps the invariant.
LEMMA NextFilesInv == FilesInv /\ [Next]_vars => FilesInv'
  <1> SUFFICES ASSUME FilesInv, [Next]_vars
               PROVE  FilesInv'
    OBVIOUS
  <1>1. ASSUME NEW p \in Proc, Run(p)
        PROVE  FilesInv'
    BY <1>1, PacketStep, ClaimStep, RereadStep, ClaimWriteStep, AfterClaimStep, ResolveStep,
       WriteStep, LogStep, LogWriteStep, CheckStep, AppendStep, CutStep, FindStep, RestoreStep,
       StripStep DEF Run
  <1>2. ASSUME NEW p \in Proc, Crash(p)
        PROVE  FilesInv'
    BY <1>2, CrashStep
  <1>3. ASSUME NEW p \in Proc, NEW op \in Commands, NEW t \in Task, Begin(p, op, t)
        PROVE  FilesInv'
    BY <1>3, BeginStep
  <1>4. ASSUME NEW t \in Task, Unquote(t)
        PROVE  FilesInv'
    BY <1>4, UnquoteStep
  <1>5. CASE UNCHANGED vars
    BY <1>5 DEF vars, FilesInv, Types, WorkClaimed
  <1> QED
    BY <1>1, <1>2, <1>3, <1>4, <1>5 DEF Next

\* The files, the sidecar and the archive keep their types, and so does what every
\* process holds in memory, however stale.
THEOREM FilesTypeCorrect == Spec => []TypeOK
  <1>1. FilesInv => TypeOK
    BY DEF FilesInv, Types, TypeOK
  <1> QED
    BY <1>1, InitFilesInv, NextFilesInv, PTL DEF Spec

\* However many processes move, start, archive and unarchive tasks at once, and
\* wherever they are killed, no interleaving of their rewrites leaves work
\* claimed, in progress or done without a claim, or freezes work that is not done
\* and claimed.
THEOREM WorkStaysClaimed == Spec => []WorkClaimed
  <1>1. FilesInv => WorkClaimed
    BY DEF FilesInv
  <1> QED
    BY <1>1, InitFilesInv, NextFilesInv, PTL DEF Spec
-----------------------------------------------------------------------------
(* No record is lost *)

\* Nobody does anything at the same time.
Alone == \A p, q \in Proc : p = q

\* Nobody unarchives, unless alone.
Careful == "unarchive" \notin Commands \/ Alone

\* A command that is about to cut a file, or to drop a line, has made sure that
\* the record is in the other place; the archive it writes back is the last one.
Records ==
    /\ \A t \in Task : file[t] = Absent => HasLine(lines, t)
    /\ \A p \in Proc : proc[p].pc \in Cutting => HasLine(lines, proc[p].task)
    /\ \A p \in Proc : proc[p].pc \in {"restore", "strip"} => proc[p].archive = lines
    /\ \A p \in Proc : proc[p].pc = "strip" => file[proc[p].task] # Absent

\* At the start every task has its file.
LEMMA RecordsStart == Init => Records
  BY FirstTextAssumption DEF Init, Records, Rest, Cutting

\* Beside a command that acts, no other one revives a record.
LEMMA OthersRest ==
    ASSUME FilesInv, Careful, NEW p \in Proc, NEW q \in Proc, q # p
    PROVE  proc[q].pc \notin {"restore", "strip"}
  BY DEF FilesInv, Careful, Alone, MemoryOK, Reviving

\* A step of a process that keeps what the other ones rely on.
LEMMA RecordsStep ==
    ASSUME FilesInv, Careful, Records, NEW p \in Proc, NEW my,
           proc' = [proc EXCEPT ![p] = my],
           \A t \in Task : file'[t] = Absent => HasLine(lines', t),
           (\A t \in Task : HasLine(lines, t) => HasLine(lines', t)) \/ \A q \in Proc : q = p,
           my.pc \in Cutting => HasLine(lines', my.task),
           my.pc \in {"restore", "strip"} => my.archive = lines',
           my.pc = "strip" => file'[my.task] # Absent
    PROVE  Records'
  <1>1. \A q \in Proc : proc'[q] = IF q = p THEN my ELSE proc[q]
    BY DEF FilesInv
  <1>2. ASSUME NEW q \in Proc, proc'[q].pc \in Cutting
        PROVE  HasLine(lines', proc'[q].task)
    <2>1. CASE q = p
      BY <1>1, <1>2, <2>1
    <2>2. CASE q # p
      <3>1. proc[q].task \in Task /\ HasLine(lines, proc[q].task)
        BY <1>1, <1>2, <2>2 DEF FilesInv, MemoryOK, Cutting, Records
      <3> QED
        BY <1>1, <2>2, <3>1
    <2> QED
      BY <2>1, <2>2
  <1>3. ASSUME NEW q \in Proc, proc'[q].pc \in {"restore", "strip"}
        PROVE  proc'[q].archive = lines' /\ (proc'[q].pc = "strip" => file'[proc'[q].task] # Absent)
    BY <1>1, <1>3, OthersRest
  <1> QED
    BY <1>2, <1>3 DEF Records

\* A step that neither touches the files nor the archive, nor gets a command to
\* where it cuts or revives.
LEMMA QuietStep ==
    ASSUME FilesInv, Careful, Records, NEW p \in Proc, NEW my,
           proc' = [proc EXCEPT ![p] = my],
           my.pc \notin Cutting \cup {"restore", "strip"}, UNCHANGED <<file, lines>>
    PROVE  Records'
  <1>1. \A t \in Task : file'[t] = Absent => HasLine(lines', t)
    BY DEF Records
  <1> QED
    BY <1>1, RecordsStep

\* Every step keeps the records.
LEMMA RecordsPreserved ==
    ASSUME FilesInv, Careful, Records, [Next]_vars
    PROVE  Records'
  <1>1. ASSUME NEW p \in Proc, Stop(p), UNCHANGED <<file, lines>> PROVE Records'
    BY <1>1, QuietStep DEF Stop, Goto, Rest, Cutting
  <1>2. ASSUME NEW p \in Proc, NEW my, my.pc \notin Cutting \cup {"restore", "strip"}, Goto(p, my),
               UNCHANGED <<file, lines>>
        PROVE  Records'
    BY <1>2, QuietStep DEF Goto
  <1>3. ASSUME NEW p \in Proc, NEW op \in Commands, NEW t \in Task, Begin(p, op, t)
        PROVE  Records'
    <2> DEFINE my == [Rest EXCEPT !.op = op, !.task = t]
    <2>1. \/ \E to \in Targets : Goto(p, [my EXCEPT !.pc = "resolve", !.todo = <<to>>])
          \/ \E pc \in {"packet", "check", "find"} : Goto(p, [my EXCEPT !.pc = pc])
      BY <1>3 DEF Begin
    <2>2. /\ \A todo : [my EXCEPT !.pc = "resolve", !.todo = todo].pc = "resolve"
          /\ \A pc : [my EXCEPT !.pc = pc].pc = pc
      BY DEF Rest
    <2> HIDE DEF my
    <2>3. PICK next : Goto(p, next) /\ next.pc \in {"resolve", "packet", "check", "find"}
      BY <2>1, <2>2
    <2> QED
      BY <1>2, <1>3, <2>3 DEF Begin, Cutting
  <1>4. ASSUME NEW p \in Proc, Packet(p) \/ Claim(p) \/ AfterClaim(p) \/ Resolve(p) \/ Check(p)
        PROVE  Records'
    <2>1. proc[p] \in Memory
      BY DEF FilesInv
    <2>2. \/ Stop(p)
          \/ \E pc \in {"resolve", "claimRead"} : Goto(p, [proc[p] EXCEPT !.pc = pc])
          \/ \E pc \in {"claim", "afterClaim"} : \E todo : Goto(p, [proc[p] EXCEPT !.pc = pc, !.todo = todo])
          \/ \E pc \in {"read", "append"} : \E text : Goto(p, [proc[p] EXCEPT !.pc = pc, !.parsed = text])
      BY <1>4 DEF Packet, Claim, AfterClaim, Resolve, Check
    <2>3. /\ \A pc : [proc[p] EXCEPT !.pc = pc].pc = pc
          /\ \A pc, todo : [proc[p] EXCEPT !.pc = pc, !.todo = todo].pc = pc
          /\ \A pc, text : [proc[p] EXCEPT !.pc = pc, !.parsed = text].pc = pc
      BY <2>1 DEF Memory
    <2>4. Stop(p) \/ \E next : Goto(p, next) /\ next.pc \notin Cutting \cup {"restore", "strip"}
      BY <2>2, <2>3 DEF Cutting
    <2>5. UNCHANGED <<file, lines>>
      BY <1>4 DEF Packet, Claim, AfterClaim, Resolve, Check
    <2> QED
      BY <1>1, <1>2, <2>4, <2>5
  <1>5. ASSUME NEW p \in Proc, Log(p) \/ LogWrite(p)
        PROVE  Records'
    <2>1. proc[p] \in Memory
      BY DEF FilesInv
    <2>2. \/ Stop(p)
          \/ Goto(p, [proc[p] EXCEPT !.pc = "logWrite", !.history = sidecar])
          \/ Goto(p, [proc[p] EXCEPT !.pc = "afterClaim", !.todo = Tail(@)])
      BY <1>5 DEF Log, LogWrite
    <2>3. /\ [proc[p] EXCEPT !.pc = "logWrite", !.history = sidecar].pc = "logWrite"
          /\ [proc[p] EXCEPT !.pc = "afterClaim", !.todo = Tail(@)].pc = "afterClaim"
      BY <2>1 DEF Memory
    <2>4. Stop(p) \/ \E next : Goto(p, next) /\ next.pc \notin Cutting \cup {"restore", "strip"}
      BY <2>2, <2>3 DEF Cutting
    <2>5. UNCHANGED <<file, lines>>
      BY <1>5 DEF Log, LogWrite
    <2> QED
      BY <1>1, <1>2, <2>4, <2>5
  <1>6. ASSUME NEW p \in Proc, Reread(p)
        PROVE  Records'
    <2> DEFINE my == proc[p]
               next == [my EXCEPT !.read = file[my.task], !.pc = NextWrite[my.pc]]
    <2>1. my \in Memory /\ my.pc \in {"claimRead", "read", "cutRead"} /\ UNCHANGED <<file, lines>>
      BY <1>6 DEF Reread, NextWrite, FilesInv
    <2>2. CASE Stop(p)
      BY <1>1, <2>1, <2>2
    <2>3. CASE Goto(p, next)
      <3>1. next.pc = NextWrite[my.pc] /\ next.task = my.task
        BY <2>1 DEF Memory
      <3>2. /\ next.pc \in {"claimWrite", "write", "cutWrite"}
            /\ next.pc = "cutWrite" => my.pc = "cutRead"
        BY <2>1, <3>1 DEF NextWrite
      <3>3. next.pc \in Cutting => HasLine(lines', next.task)
        BY <2>1, <3>1, <3>2 DEF Records, Cutting
      <3>4. \A t \in Task : file'[t] = Absent => HasLine(lines', t)
        BY <2>1 DEF Records
      <3> QED
        BY <2>1, <2>3, <3>2, <3>3, <3>4, RecordsStep DEF Goto
    <2> QED
      BY <1>6, <2>2, <2>3 DEF Reread
  <1>7. ASSUME NEW p \in Proc, NEW my, Goto(p, my), my.pc \notin Cutting \cup {"restore"},
               NEW t \in Task, NEW x, file' = [file EXCEPT ![t] = x], x = Absent => HasLine(lines, t),
               UNCHANGED lines,
               my.pc = "strip" => my.archive = lines /\ my.task = t /\ x # Absent
        PROVE  Records'
    <2>1. \A u \in Task : file'[u] = IF u = t THEN x ELSE file[u]
      BY <1>7 DEF FilesInv, Types
    <2>2. \A u \in Task : file'[u] = Absent => HasLine(lines', u)
      BY <1>7, <2>1 DEF Records
    <2> QED
      BY <1>7, <2>1, <2>2, RecordsStep DEF Goto
  <1>8. ASSUME NEW p \in Proc, ClaimWrite(p) \/ Write(p)
        PROVE  Records'
    <2> DEFINE my == proc[p]
    <2>1. my \in Memory /\ my.task \in Task /\ MemoryOK(my) /\ UNCHANGED lines
      BY <1>8, Current DEF ClaimWrite, Write, At, MemoryOK
    <2>2. \E x : file' = [file EXCEPT ![my.task] = x] /\ x # Absent
      <3>1. CASE ClaimWrite(p)
        <4>1. my.read \in Text \cup {Mangled}
          BY <2>1, <3>1 DEF MemoryOK, Rewriting, ClaimWrite, At
        <4>2. WithClaim(my.read, ActorOf[p]) # Absent
          <5>1. CASE my.read \in Text
            <6>1. ActorOf[p] \in Actor
              BY DEF Actor
            <6>2. my.read.claims \in Seq(Actor)
              BY <5>1 DEF Text
            <6>3. <<ActorOf[p]>> \o my.read.claims \in Seq(Actor)
              BY <6>1, <6>2
            <6>4. [my.read EXCEPT !.claims = <<ActorOf[p]>> \o my.read.claims] \in Text
              BY <5>1, <6>3 DEF Text
            <6> QED
              BY <6>4, FirstTextAssumption DEF WithClaim
          <5>2. CASE my.read = Mangled
            BY <5>2, FirstTextAssumption DEF WithClaim, IsText
          <5> QED
            BY <4>1, <5>1, <5>2
        <4> QED
          BY <3>1, <4>2 DEF ClaimWrite
      <3>2. CASE Write(p)
        <4>1. my.read \in Text \cup {Mangled} /\ Head(my.todo) \in StatusSet("task")
          BY <2>1, <3>2 DEF MemoryOK, Rewriting, Write, At, Moving, Memory
        <4>2. Respliced(my.parsed, my.read, Head(my.todo)) # Absent
          <5>1. CASE my.read \in Text
            <6>1. [my.read EXCEPT !.status = Head(my.todo)] \in Text
              BY <4>1, <5>1 DEF Text
            <6> QED
              BY <6>1, FirstTextAssumption DEF Respliced
          <5>2. CASE my.read = Mangled
            BY <5>2, FirstTextAssumption DEF Respliced, IsText
          <5> QED
            BY <4>1, <5>1, <5>2
        <4> QED
          BY <3>2, <4>2 DEF Write
      <3> QED
        BY <1>8, <3>1, <3>2
    <2>3. \E next : Goto(p, next) /\ next.pc \in {"resolve", "log"}
      BY <1>8, <2>1 DEF ClaimWrite, Write, Memory
    <2> QED
      BY <1>7, <2>1, <2>2, <2>3 DEF Cutting
  <1>9. ASSUME NEW p \in Proc, CutWrite(p)
        PROVE  Records'
    <2>1. proc[p].task \in Task /\ HasLine(lines, proc[p].task)
      BY <1>9, Current DEF CutWrite, At, Records, Cutting
    <2>2. \E x : file' = [file EXCEPT ![proc[p].task] = x]
      BY <1>9 DEF CutWrite
    <2>3. Goto(p, Rest) /\ Rest.pc = "idle" /\ UNCHANGED lines
      BY <1>9 DEF CutWrite, Stop, Rest
    <2> QED
      BY <1>7, <2>1, <2>2, <2>3 DEF Cutting
  <1>10. ASSUME NEW p \in Proc, AppendEntry(p)
         PROVE  Records'
    <2> DEFINE my == proc[p]
               line == [task |-> my.task, text |-> Snapshot(my.parsed)]
               next == [my EXCEPT !.pc = "cutRead"]
    <2>1. /\ MemoryOK(my) /\ my.pc = "append" /\ my.task \in Task
          /\ my.parsed \in Text /\ Claimed(my.parsed) /\ my \in Memory
      BY <1>10, Current DEF AppendEntry, At, MemoryOK
    <2>2. line \in Line
      BY <2>1, SnapshotOfClaimed DEF Line
    <2>3. /\ \A t \in Task : HasLine(lines, t) => HasLine(Append(lines, line), t)
          /\ HasLine(Append(lines, line), line.task)
      <3>1. lines \in Seq(Line)
        BY DEF FilesInv, Types
      <3> HIDE DEF line
      <3> QED
        BY <2>2, <3>1, Appended
    <2>4. /\ lines' = Append(lines, line) /\ file' = file /\ proc' = [proc EXCEPT ![p] = next]
          /\ line.task = my.task
      BY <1>10 DEF AppendEntry, Goto
    <2>5. \A t \in Task : file'[t] = Absent => HasLine(lines', t)
      BY <2>3, <2>4 DEF Records
    <2>6. next.pc = "cutRead" /\ next.task = my.task
      BY <2>1 DEF Memory
    <2> HIDE DEF line, next, my
    <2> QED
      BY <2>3, <2>4, <2>5, <2>6, RecordsStep
  <1>11. ASSUME NEW p \in Proc, Find(p)
         PROVE  Records'
    <2> DEFINE next == [proc[p] EXCEPT !.pc = "restore", !.archive = lines]
    <2>1. UNCHANGED <<file, lines>> /\ proc[p] \in Memory
      BY <1>11 DEF Find, FilesInv
    <2>2. CASE Stop(p)
      BY <1>1, <2>1, <2>2
    <2>3. CASE Goto(p, next)
      <3>1. next.pc = "restore" /\ next.archive = lines
        BY <2>1 DEF Memory
      <3>2. \A t \in Task : file'[t] = Absent => HasLine(lines', t)
        BY <2>1 DEF Records
      <3> HIDE DEF next
      <3> QED
        BY <2>1, <2>3, <3>1, <3>2, RecordsStep DEF Goto, Cutting
    <2> QED
      BY <1>11, <2>2, <2>3 DEF Find
  <1>12. ASSUME NEW p \in Proc, Restore(p)
         PROVE  Records'
    <2> DEFINE my == proc[p]
               next == [my EXCEPT !.pc = "strip"]
    <2>1. MemoryOK(my) /\ my.pc = "restore" /\ my.task \in Task /\ my \in Memory
      BY <1>12, Current DEF Restore, At, MemoryOK
    <2>2. Restored(my) # Absent
      BY <2>1, RestoredText, FirstTextAssumption DEF MemoryOK
    <2>3. next.pc = "strip" /\ next.task = my.task /\ next.archive = lines
      BY <2>1 DEF Memory, Records
    <2>4. Goto(p, next) /\ UNCHANGED lines /\ file' = [file EXCEPT ![my.task] = Restored(my)]
      BY <1>12 DEF Restore
    <2> HIDE DEF next, my
    <2> QED
      BY <1>7, <2>1, <2>2, <2>3, <2>4 DEF Cutting
  <1>13. ASSUME NEW p \in Proc, Strip(p)
         PROVE  Records'
    <2> DEFINE my == proc[p]
               others == {k \in 1..Len(lines) : lines[k].task # my.task}
    <2>1. my.pc = "strip" /\ my.task \in Task /\ MemoryOK(my)
      BY <1>13, Current DEF Strip, At
    <2>2. my.archive = lines /\ file[my.task] # Absent
      BY <2>1 DEF Records
    <2>3. \A q \in Proc : q = p
      BY <2>1 DEF Careful, Alone, MemoryOK, Reviving
    <2>4. lines' = Kept(lines, others) /\ file' = file /\ Goto(p, Rest)
      BY <1>13, <2>2 DEF Strip, Stop
    <2>5. lines \in Seq(Line) /\ others \subseteq 1..Len(lines)
      BY DEF FilesInv, Types
    <2>6. ASSUME NEW t \in Task, t # my.task, HasLine(lines, t)
          PROVE  HasLine(lines', t)
      <3>1. PICK m \in others : lines[m].task = t
        BY <2>6 DEF HasLine
      <3> HIDE DEF others
      <3>2. \E k \in 1..Len(Kept(lines, others)) : Kept(lines, others)[k] = lines[m]
        BY <2>5, <3>1, KeptPicks
      <3> QED
        BY <2>4, <3>1, <3>2 DEF HasLine
    <2>7. \A t \in Task : file'[t] = Absent => HasLine(lines', t)
      BY <2>2, <2>4, <2>6 DEF Records
    <2> QED
      BY <2>3, <2>4, <2>7, RecordsStep DEF Goto, Rest, Cutting
  <1>14. ASSUME NEW p \in Proc, Run(p)
         PROVE  Records'
    BY <1>14, <1>4, <1>5, <1>6, <1>8, <1>9, <1>10, <1>11, <1>12, <1>13 DEF Run
  <1>15. ASSUME NEW p \in Proc, Crash(p)
         PROVE  Records'
    BY <1>1, <1>15 DEF Crash
  <1>16. ASSUME NEW t \in Task, Unquote(t)
         PROVE  Records'
    <2>1. file[t] \in Text /\ UNCHANGED <<lines, proc>>
      BY <1>16 DEF Unquote, FilesInv, Types, IsText
    <2>2. [file[t] EXCEPT !.quoted = FALSE] # Absent
      <3>1. [file[t] EXCEPT !.quoted = FALSE] \in Text
        BY <2>1 DEF Text
      <3> QED
        BY <3>1, FirstTextAssumption
    <2>3. \A u \in Task : file'[u] = Absent <=> file[u] = Absent
      BY <1>16, <2>1, <2>2, FirstTextAssumption DEF Unquote, FilesInv, Types
    <2>4. \A p \in Proc : proc[p].pc = "strip" => proc[p].task \in Task
      BY DEF FilesInv, MemoryOK
    <2> QED
      BY <2>1, <2>3, <2>4 DEF Records
  <1>17. CASE UNCHANGED vars
    BY <1>17 DEF vars, Records
  <1> QED
    BY <1>3, <1>14, <1>15, <1>16, <1>17 DEF Next

\* However many processes move, start and archive tasks at once, and wherever
\* they are killed, a record whose file is gone is in the archive; so it is when
\* a single process unarchives, and is killed, too.
THEOREM RecordsAreKept ==
    ASSUME Careful
    PROVE  Spec => []RecordKept
  <1>1. Records => RecordKept
    BY DEF Records, RecordKept, HasLine, LinesOf
  <1>2. FilesInv /\ Records /\ [Next]_vars => FilesInv' /\ Records'
    BY NextFilesInv, RecordsPreserved
  <1> QED
    BY <1>1, <1>2, InitFilesInv, RecordsStart, PTL DEF Spec
-----------------------------------------------------------------------------
(* One process at a time: the commands are as good as atomic *)

\* A text unarchive has not left.
Plain(x) == IsText(x) /\ ~x.quoted

\* What a process remembers of its task is still so: nobody else changes it, and
\* an author only repairs texts the process would have refused.
UpToDate(my, files, history) ==
    LET text == files[my.task] IN
    /\ my.pc \in {"claimRead", "claimWrite", "read", "write", "log", "logWrite", "append", "cutRead", "cutWrite"}
          => Plain(text)
    /\ my.pc \in {"read", "write", "append", "cutRead", "cutWrite"} => my.parsed = text
    /\ my.pc \in {"claimWrite", "write", "cutWrite"} => my.read = text
    /\ my.pc \in {"read", "write"} => <<text.status, Head(my.todo)>> \in TaskTransitions
    /\ my.pc \in {"append", "cutRead", "cutWrite"} => text.status = "done"
    /\ my.pc \in {"log", "logWrite"} => text.status = Head(my.todo)
    /\ my.pc = "logWrite" => my.history = history
    /\ my.pc = "restore" => text = Absent

\* That of every process; and no file is mangled.
Fresh ==
    /\ \A t \in Task : file[t] # Mangled
    /\ \A p \in Proc : UpToDate(proc[p], file, sidecar)

\* At the start nobody remembers anything.
LEMMA FreshStart == Init => Fresh
  BY FirstTextAssumption DEF Init, Fresh, UpToDate, Rest

\* The only process acts.
LEMMA AloneStep ==
    ASSUME Alone, FilesInv, NEW p \in Proc, NEW my, Goto(p, my),
           \A t \in Task : file'[t] # Mangled, UpToDate(my, file', sidecar')
    PROVE  Fresh'
  <1>1. \A q \in Proc : proc'[q] = my
    BY DEF FilesInv, Goto, Alone
  <1> QED
    BY <1>1 DEF Fresh

\* Of a process that has just begun, or stopped, nothing is expected.
Free == {"idle", "packet", "claim", "afterClaim", "resolve", "check", "find", "strip"}

\* A process that gets to such a point.
LEMMA FreeStep ==
    ASSUME Alone, FilesInv, NEW p \in Proc, NEW my, Goto(p, my), my.pc \in Free,
           \A t \in Task : file'[t] # Mangled
    PROVE  Fresh'
  <1>1. UpToDate(my, file', sidecar')
    BY DEF UpToDate, Free
  <1> QED
    BY <1>1, AloneStep

\* A text with one more claim is a text of the same status.
LEMMA ClaimedIsText ==
    ASSUME NEW p \in Proc, NEW text \in Text
    PROVE  /\ WithClaim(text, ActorOf[p]) \in Text /\ WithClaim(text, ActorOf[p]) \notin {Absent, Mangled}
           /\ WithClaim(text, ActorOf[p]).status = text.status
  <1>1. ActorOf[p] \in Actor /\ text.claims \in Seq(Actor)
    BY DEF Actor, Text
  <1>2. <<ActorOf[p]>> \o text.claims \in Seq(Actor)
    BY <1>1
  <1>3. WithClaim(text, ActorOf[p]) = [text EXCEPT !.claims = <<ActorOf[p]>> \o text.claims]
    BY TextIsText DEF WithClaim
  <1>4. WithClaim(text, ActorOf[p]) \in Text /\ WithClaim(text, ActorOf[p]).status = text.status
    BY <1>2, <1>3 DEF Text
  <1> QED
    BY <1>4, FirstTextAssumption

\* The points a process may be at.
LEMMA MemoryPc ==
    \A my \in Memory : my.pc \in Free \cup {"claimRead", "claimWrite", "read", "write", "log", "logWrite",
                                         "append", "cutRead", "cutWrite", "restore"}
  BY DEF Memory, Free

\* What the only process remembers of its task stays so, step by step.
LEMMA FreshPreserved ==
    ASSUME Alone, FilesInv, Fresh, [Next]_vars
    PROVE  Fresh'
  <1>1. ASSUME NEW p \in Proc, NEW my, Goto(p, my), my.pc \in Free, file' = file PROVE Fresh'
    BY <1>1, FreeStep DEF Fresh
  <1>2. ASSUME NEW p \in Proc, Stop(p), file' = file PROVE Fresh'
    BY <1>1, <1>2 DEF Stop, Rest, Free
  <1>3. ASSUME NEW p \in Proc, NEW op \in Commands, NEW t \in Task, Begin(p, op, t)
        PROVE  Fresh'
    <2> DEFINE my == [Rest EXCEPT !.op = op, !.task = t]
    <2>1. \/ \E to \in Targets : Goto(p, [my EXCEPT !.pc = "resolve", !.todo = <<to>>])
          \/ \E pc \in {"packet", "check", "find"} : Goto(p, [my EXCEPT !.pc = pc])
      BY <1>3 DEF Begin
    <2>2. /\ \A todo : [my EXCEPT !.pc = "resolve", !.todo = todo].pc = "resolve"
          /\ \A pc : [my EXCEPT !.pc = pc].pc = pc
      BY DEF Rest
    <2> HIDE DEF my
    <2>3. PICK next : Goto(p, next) /\ next.pc \in {"resolve", "packet", "check", "find"}
      BY <2>1, <2>2
    <2> QED
      BY <1>1, <1>3, <2>3 DEF Begin, Free
  <1>4. ASSUME NEW p \in Proc, Packet(p) \/ AfterClaim(p) \/ LogWrite(p) \/ Strip(p)
        PROVE  Fresh'
    <2>1. proc[p] \in Memory /\ file' = file
      BY <1>4 DEF FilesInv, Packet, AfterClaim, LogWrite, Strip
    <2>2. \/ Stop(p)
          \/ Goto(p, [proc[p] EXCEPT !.pc = "resolve"])
          \/ \E todo : Goto(p, [proc[p] EXCEPT !.pc = "claim", !.todo = todo])
          \/ \E todo : Goto(p, [proc[p] EXCEPT !.pc = "afterClaim", !.todo = todo])
      BY <1>4 DEF Packet, AfterClaim, LogWrite, Strip
    <2>3. /\ [proc[p] EXCEPT !.pc = "resolve"].pc \in Free
          /\ \A todo : [proc[p] EXCEPT !.pc = "claim", !.todo = todo].pc \in Free
          /\ \A todo : [proc[p] EXCEPT !.pc = "afterClaim", !.todo = todo].pc \in Free
      BY <2>1 DEF Memory, Free
    <2> QED
      BY <1>1, <1>2, <2>1, <2>2, <2>3
  <1>5. ASSUME NEW p \in Proc
        PROVE  /\ UpToDate(proc[p], file, sidecar) /\ proc[p] \in Memory /\ MemoryOK(proc[p])
               /\ \A t \in Task : file[t] \in Text \cup {Absent, Mangled} /\ file[t] # Mangled
    BY DEF Fresh, FilesInv, Types
  <1>6. ASSUME NEW p \in Proc, Claim(p)
        PROVE  Fresh'
    <2> DEFINE my == proc[p]
               next == [my EXCEPT !.pc = "claimRead"]
    <2>1. my \in Memory /\ file' = file /\ sidecar' = sidecar /\ my.task \in Task
      BY <1>5, <1>6 DEF Claim, At, MemoryOK
    <2>2. CASE Stop(p)
      BY <1>2, <2>1, <2>2
    <2>3. CASE Goto(p, [my EXCEPT !.pc = "resolve"])
      <3>1. [my EXCEPT !.pc = "resolve"].pc \in Free
        BY <2>1 DEF Memory, Free
      <3> QED
        BY <1>1, <2>1, <2>3, <3>1
    <2>4. CASE Valid /\ IsText(file[my.task]) /\ Goto(p, next)
      <3>1. Plain(file[my.task])
        BY <2>1, <2>4 DEF Valid, ValidText, Plain
      <3>2. next.pc = "claimRead" /\ next.task = my.task
        BY <2>1 DEF Memory
      <3>3. UpToDate(next, file', sidecar')
        BY <2>1, <3>1, <3>2 DEF UpToDate
      <3> QED
        BY <1>5, <2>1, <2>4, <3>3, AloneStep
    <2> QED
      BY <1>6, <2>2, <2>3, <2>4 DEF Claim
  <1>7. ASSUME NEW p \in Proc, Reread(p)
        PROVE  Fresh'
    <2> DEFINE my == proc[p]
               next == [my EXCEPT !.read = file[my.task], !.pc = NextWrite[my.pc]]
    <2>1. /\ my \in Memory /\ my.pc \in {"claimRead", "read", "cutRead"}
          /\ file' = file /\ sidecar' = sidecar
      BY <1>5, <1>7 DEF Reread, NextWrite
    <2>2. CASE Stop(p)
      BY <1>2, <2>1, <2>2
    <2>3. CASE Goto(p, next)
      <3>1. /\ next.pc = NextWrite[my.pc] /\ next.task = my.task /\ next.read = file[my.task]
            /\ next.parsed = my.parsed /\ next.todo = my.todo
        BY <2>1 DEF Memory
      <3>2. \/ my.pc = "claimRead" /\ next.pc = "claimWrite"
            \/ my.pc = "read" /\ next.pc = "write"
            \/ my.pc = "cutRead" /\ next.pc = "cutWrite"
        BY <2>1, <3>1 DEF NextWrite
      <3>3. UpToDate(next, file', sidecar')
        BY <1>5, <2>1, <3>1, <3>2 DEF UpToDate
      <3> QED
        BY <1>5, <2>1, <2>3, <3>3, AloneStep
    <2> QED
      BY <1>7, <2>2, <2>3 DEF Reread
  <1>8. ASSUME NEW p \in Proc, ClaimWrite(p)
        PROVE  Fresh'
    <2> DEFINE my == proc[p]
    <2>1. my \in Memory /\ my.task \in Task /\ my.read \in Text
      <3>1. my \in Memory /\ my.task \in Task /\ my.read = file[my.task] /\ IsText(my.read)
        BY <1>5, <1>8 DEF ClaimWrite, At, MemoryOK, UpToDate, Plain
      <3> QED
        BY <1>5, <3>1 DEF IsText
    <2>2. WithClaim(my.read, ActorOf[p]) # Mangled
      BY <1>5, <2>1, ClaimedIsText
    <2>3. \A t \in Task : file'[t] # Mangled
      BY <1>5, <1>8, <2>1, <2>2 DEF ClaimWrite, FilesInv, Types
    <2>4. Goto(p, [my EXCEPT !.pc = "resolve"]) /\ [my EXCEPT !.pc = "resolve"].pc \in Free
      BY <1>8, <2>1 DEF ClaimWrite, Memory, Free
    <2> QED
      BY <2>3, <2>4, FreeStep
  <1>9. ASSUME NEW p \in Proc, Resolve(p)
        PROVE  Fresh'
    <2> DEFINE my == proc[p]
               next == [my EXCEPT !.pc = "read", !.parsed = file[my.task]]
    <2>1. my \in Memory /\ file' = file /\ sidecar' = sidecar /\ my.task \in Task
      BY <1>5, <1>9 DEF Resolve, At, MemoryOK
    <2>2. CASE Stop(p)
      BY <1>2, <2>1, <2>2
    <2>3. CASE Valid /\ IsText(file[my.task]) /\ Transitionable(file[my.task], Head(my.todo)) /\ Goto(p, next)
      <3>1. Plain(file[my.task]) /\ <<file[my.task].status, Head(my.todo)>> \in TaskTransitions
        BY <2>1, <2>3 DEF Valid, ValidText, Plain, Transitionable
      <3>2. next.pc = "read" /\ next.task = my.task /\ next.parsed = file[my.task] /\ next.todo = my.todo
        BY <2>1 DEF Memory
      <3>3. UpToDate(next, file', sidecar')
        BY <2>1, <3>1, <3>2 DEF UpToDate
      <3> QED
        BY <1>5, <2>1, <2>3, <3>3, AloneStep
    <2> QED
      BY <1>9, <2>2, <2>3 DEF Resolve
  <1>10. ASSUME NEW p \in Proc, Write(p)
         PROVE  Fresh'
    <2> DEFINE my == proc[p]
               to == Head(my.todo)
               next == [my EXCEPT !.pc = "log"]
               written == [file[my.task] EXCEPT !.status = to]
    <2>1. /\ my \in Memory /\ my.task \in Task /\ my.read = file[my.task] /\ my.parsed = file[my.task]
          /\ Plain(file[my.task]) /\ to \in StatusSet("task") /\ file[my.task] \in Text
      <3>1. /\ my \in Memory /\ my.pc = "write" /\ my.task \in Task /\ MemoryOK(my)
            /\ UpToDate(my, file, sidecar)
        BY <1>5, <1>10 DEF Write, At, MemoryOK
      <3>2. my.read = file[my.task] /\ my.parsed = file[my.task] /\ Plain(file[my.task])
        BY <3>1 DEF UpToDate
      <3>3. file[my.task] \in Text
        BY <1>5, <3>1, <3>2 DEF Plain, IsText
      <3>4. my.todo \in Seq(StatusSet("task")) /\ my.todo # <<>>
        BY <3>1 DEF MemoryOK, Memory, Moving
      <3>5. to \in StatusSet("task")
        BY <3>4
      <3> QED
        BY <3>1, <3>2, <3>3, <3>5
    <2>2. Respliced(my.parsed, my.read, to) = written
      BY <2>1 DEF Respliced, SameLayout, Plain
    <2>3. written \in Text /\ written.status = to /\ Plain(written) /\ written # Mangled
      <3>1. written \in Text /\ written.status = to /\ ~written.quoted
        BY <2>1 DEF Text, Plain
      <3> QED
        BY <3>1, TextIsText DEF Plain, IsText
    <2>4. next.pc = "log" /\ next.task = my.task /\ next.todo = my.todo
      BY <2>1 DEF Memory
    <2>5. file' = [file EXCEPT ![my.task] = written] /\ Goto(p, next)
      BY <1>10, <2>2 DEF Write
    <2> HIDE DEF written, next
    <2>6. \A t \in Task : file'[t] = IF t = my.task THEN written ELSE file[t]
      BY <2>5 DEF FilesInv, Types
    <2>7. UpToDate(next, file', sidecar')
      BY <2>1, <2>3, <2>4, <2>6 DEF UpToDate
    <2> QED
      BY <1>5, <2>3, <2>5, <2>6, <2>7, AloneStep
  <1>11. ASSUME NEW p \in Proc, Log(p)
         PROVE  Fresh'
    <2> DEFINE my == proc[p]
               next == [my EXCEPT !.pc = "logWrite", !.history = sidecar]
    <2>1. my \in Memory /\ my.pc = "log" /\ file' = file /\ sidecar' = sidecar /\ Goto(p, next)
      BY <1>5, <1>11 DEF Log, At
    <2>2. next.pc = "logWrite" /\ next.task = my.task /\ next.todo = my.todo /\ next.history = sidecar
      BY <2>1 DEF Memory
    <2>3. UpToDate(next, file', sidecar')
      BY <1>5, <2>1, <2>2 DEF UpToDate
    <2> QED
      BY <1>5, <2>1, <2>3, AloneStep
  <1>12. ASSUME NEW p \in Proc, Check(p)
         PROVE  Fresh'
    <2> DEFINE my == proc[p]
               next == [my EXCEPT !.pc = "append", !.parsed = file[my.task]]
    <2>1. my \in Memory /\ file' = file /\ sidecar' = sidecar /\ my.task \in Task
      BY <1>5, <1>12 DEF Check, At, MemoryOK
    <2>2. CASE Stop(p)
      BY <1>2, <2>1, <2>2
    <2>3. CASE /\ Valid /\ IsText(file[my.task]) /\ file[my.task].status \in ArchivableStatuses("task")
               /\ Goto(p, next)
      <3>1. Plain(file[my.task]) /\ file[my.task].status = "done"
        BY <2>1, <2>3 DEF Valid, ValidText, Plain, ArchivableStatuses
      <3>2. next.pc = "append" /\ next.task = my.task /\ next.parsed = file[my.task]
        BY <2>1 DEF Memory
      <3>3. UpToDate(next, file', sidecar')
        BY <2>1, <3>1, <3>2 DEF UpToDate
      <3> QED
        BY <1>5, <2>1, <2>3, <3>3, AloneStep
    <2> QED
      BY <1>12, <2>2, <2>3 DEF Check
  <1>13. ASSUME NEW p \in Proc, AppendEntry(p)
         PROVE  Fresh'
    <2> DEFINE my == proc[p]
               next == [my EXCEPT !.pc = "cutRead"]
    <2>1. my \in Memory /\ my.pc = "append" /\ file' = file /\ sidecar' = sidecar /\ Goto(p, next)
      BY <1>5, <1>13 DEF AppendEntry, At
    <2>2. next.pc = "cutRead" /\ next.task = my.task /\ next.parsed = my.parsed
      BY <2>1 DEF Memory
    <2>3. UpToDate(next, file', sidecar')
      BY <1>5, <2>1, <2>2 DEF UpToDate
    <2> QED
      BY <1>5, <2>1, <2>3, AloneStep
  <1>14. ASSUME NEW p \in Proc, CutWrite(p)
         PROVE  Fresh'
    <2> DEFINE my == proc[p]
    <2>1. my.task \in Task /\ my.read = file[my.task] /\ my.parsed = file[my.task] /\ IsText(file[my.task])
      BY <1>5, <1>14 DEF CutWrite, At, MemoryOK, UpToDate, Plain
    <2>2. Cut(my.parsed, my.read) = Absent
      BY <2>1 DEF Cut, SameLayout
    <2>3. \A t \in Task : file'[t] # Mangled
      BY <1>5, <1>14, <2>1, <2>2, FirstTextAssumption DEF CutWrite, FilesInv, Types
    <2>4. Goto(p, Rest) /\ Rest.pc \in Free
      BY <1>14 DEF CutWrite, Stop, Rest, Free
    <2> QED
      BY <2>3, <2>4, FreeStep
  <1>15. ASSUME NEW p \in Proc, Find(p)
         PROVE  Fresh'
    <2> DEFINE my == proc[p]
               next == [my EXCEPT !.pc = "restore", !.archive = lines]
    <2>1. my \in Memory /\ file' = file /\ sidecar' = sidecar
      BY <1>5, <1>15 DEF Find
    <2>2. CASE Stop(p)
      BY <1>2, <2>1, <2>2
    <2>3. CASE file[my.task] = Absent /\ Goto(p, next)
      <3>1. next.pc = "restore" /\ next.task = my.task
        BY <2>1 DEF Memory
      <3>2. UpToDate(next, file', sidecar')
        BY <2>1, <2>3, <3>1 DEF UpToDate
      <3> QED
        BY <1>5, <2>1, <2>3, <3>2, AloneStep
    <2> QED
      BY <1>15, <2>2, <2>3 DEF Find
  <1>16. ASSUME NEW p \in Proc, Restore(p)
         PROVE  Fresh'
    <2> DEFINE my == proc[p]
    <2>1. my \in Memory /\ my.task \in Task /\ MemoryOK(my) /\ my.pc = "restore"
      BY <1>5, <1>16 DEF Restore, At, MemoryOK
    <2>2. Restored(my) # Mangled
      BY <2>1, RestoredText, FirstTextAssumption DEF MemoryOK
    <2>3. \A t \in Task : file'[t] # Mangled
      BY <1>5, <1>16, <2>1, <2>2 DEF Restore, FilesInv, Types
    <2>4. Goto(p, [my EXCEPT !.pc = "strip"]) /\ [my EXCEPT !.pc = "strip"].pc \in Free
      BY <1>16, <2>1 DEF Restore, Memory, Free
    <2> QED
      BY <2>3, <2>4, FreeStep
  <1>17. ASSUME NEW p \in Proc, Crash(p)
         PROVE  Fresh'
    BY <1>2, <1>17 DEF Crash
  <1>18. ASSUME NEW t \in Task, Unquote(t)
         PROVE  Fresh'
    <2> DEFINE written == [file[t] EXCEPT !.quoted = FALSE]
    <2>1. file[t] \in Text /\ UNCHANGED <<sidecar, proc>> /\ file[t].quoted
      BY <1>18 DEF Unquote, FilesInv, Types, IsText
    <2>2. written \in Text
      BY <2>1 DEF Text
    <2>3. written # Mangled /\ written # Absent
      BY <2>2, FirstTextAssumption
    <2>4. file' = [file EXCEPT ![t] = written]
      BY <1>18 DEF Unquote
    <2> HIDE DEF written
    <2>5. \A u \in Task : file'[u] = IF u = t THEN written ELSE file[u]
      BY <2>4 DEF FilesInv, Types
    <2>6. ASSUME NEW p \in Proc, proc[p].pc # "idle" PROVE UpToDate(proc[p], file', sidecar')
      <3>1. proc[p].task \in Task /\ UpToDate(proc[p], file, sidecar)
        BY <2>6 DEF Fresh, FilesInv, MemoryOK
      <3>2. CASE proc[p].task = t
        <4>1. proc[p].pc \in Free
          BY <2>1, <2>6, <3>1, <3>2, TextIsText, MemoryPc DEF UpToDate, Plain, Free, IsText, FilesInv
        <4> QED
          BY <4>1 DEF Free, UpToDate
      <3>3. CASE proc[p].task # t
        <4>1. file'[proc[p].task] = file[proc[p].task]
          BY <2>5, <3>1, <3>3
        <4> QED
          BY <2>1, <3>1, <4>1 DEF UpToDate
      <3> QED
        BY <3>2, <3>3
    <2>7. ASSUME NEW p \in Proc, proc[p].pc = "idle" PROVE UpToDate(proc[p], file', sidecar')
      BY <2>7 DEF UpToDate
    <2> QED
      BY <2>1, <2>3, <2>5, <2>6, <2>7 DEF Fresh
  <1>19. CASE UNCHANGED vars
    BY <1>19 DEF vars, Fresh
  <1>20. ASSUME NEW p \in Proc, Run(p)
         PROVE  Fresh'
    BY <1>20, <1>4, <1>6, <1>7, <1>8, <1>9, <1>10, <1>11, <1>12, <1>13, <1>14, <1>15, <1>16 DEF Run
  <1> QED
    BY <1>3, <1>17, <1>18, <1>19, <1>20 DEF Next

\* The status and the trail of a task as SdlcLedger has them.
StatusAt(x) == IF IsText(x) THEN x.status ELSE "archived"
StatusOf == [t \in Task |-> IF IsText(file[t]) THEN file[t].status ELSE "archived"]
TrailOf == [t \in Task |-> IF Entering(t) = {} THEN sidecar[t]
                           ELSE Append(sidecar[t], Entry(proc[CHOOSE p \in Entering(t) : TRUE]))]

\* The status is written, the entry is not.
Writing == {"log", "logWrite"}

\* The trail with the entry the only process is about to make.
TrailWith(my, history) ==
    [t \in Task |-> IF my.pc \in Writing /\ my.task = t THEN Append(history[t], Entry(my)) ELSE history[t]]

\* The only entry that is about to be made is that of the only process.
LEMMA TheTrail ==
    ASSUME Alone, NEW p \in Proc
    PROVE  TrailOf = TrailWith(proc[p], sidecar) /\ TrailOf' = TrailWith(proc'[p], sidecar')
  <1>1. \A t \in Task : Entering(t) = IF proc[p].pc \in Writing /\ proc[p].task = t THEN {p} ELSE {}
    BY DEF Alone, Entering, Writing
  <1>2. \A t \in Task : Entering(t)' = IF proc'[p].pc \in Writing /\ proc'[p].task = t THEN {p} ELSE {}
    BY DEF Alone, Entering, Writing
  <1>3. (CHOOSE q \in {p} : TRUE) = p
    OBVIOUS
  <1>4. \A t \in Task : TrailOf[t] = TrailWith(proc[p], sidecar)[t]
    BY <1>1, <1>3 DEF TrailOf, TrailWith
  <1>5. \A t \in Task : (TrailOf')[t] = TrailWith(proc'[p], sidecar')[t]
    BY <1>2, <1>3 DEF TrailOf, TrailWith
  <1> QED
    BY <1>4, <1>5 DEF TrailOf, TrailWith

\* What the steps of the ledger are in these terms.
LEMMA LedgerActs ==
    /\ Ledger!Init <=> StatusOf = [t \in Task |-> FirstText[t].status] /\ TrailOf = [t \in Task |-> <<>>]
    /\ \A t \in Task : \A to : Ledger!Move(t, to) <=>
          /\ <<StatusOf[t], to>> \in TaskTransitions
          /\ StatusOf' = [StatusOf EXCEPT ![t] = to]
          /\ TrailOf' = [TrailOf EXCEPT ![t] = Append(@, [from |-> StatusOf[t], to |-> to])]
    /\ \A t \in Task : Ledger!Forget(t) <=>
          /\ MaxCrashes > 0
          /\ TrailOf[t] # <<>> /\ TrailOf[t][Len(TrailOf[t])].to = StatusOf[t]
          /\ TrailOf' = [TrailOf EXCEPT ![t] = SubSeq(@, 1, Len(@) - 1)]
          /\ StatusOf' = StatusOf
    /\ \A t \in Task : Ledger!Retire(t) <=>
          StatusOf[t] = "done" /\ StatusOf' = [StatusOf EXCEPT ![t] = "archived"] /\ TrailOf' = TrailOf
    /\ \A t \in Task : Ledger!Revive(t) <=>
          /\ StatusOf[t] = "archived"
          /\ StatusOf' = [StatusOf EXCEPT ![t] = ReopenStatus("task")] /\ TrailOf' = TrailOf
    /\ StatusOf' = StatusOf /\ TrailOf' = TrailOf => UNCHANGED Ledger!ledger
  <1>1. Ledger!Init <=> StatusOf = [t \in Task |-> FirstText[t].status] /\ TrailOf = [t \in Task |-> <<>>]
    BY DEF Ledger!Init, StatusOf, TrailOf
  <1>2. ASSUME NEW t \in Task, NEW to
        PROVE  Ledger!Move(t, to) <=>
          /\ <<StatusOf[t], to>> \in TaskTransitions
          /\ StatusOf' = [StatusOf EXCEPT ![t] = to]
          /\ TrailOf' = [TrailOf EXCEPT ![t] = Append(@, [from |-> StatusOf[t], to |-> to])]
    BY DEF Ledger!Move, StatusOf, TrailOf, Ledger!TaskTransitions, TaskTransitions
  <1>3. ASSUME NEW t \in Task
        PROVE  Ledger!Forget(t) <=>
          /\ MaxCrashes > 0
          /\ TrailOf[t] # <<>> /\ TrailOf[t][Len(TrailOf[t])].to = StatusOf[t]
          /\ TrailOf' = [TrailOf EXCEPT ![t] = SubSeq(@, 1, Len(@) - 1)]
          /\ StatusOf' = StatusOf
    BY DEF Ledger!Forget, StatusOf, TrailOf
  <1>4. ASSUME NEW t \in Task
        PROVE  Ledger!Retire(t) <=>
          StatusOf[t] = "done" /\ StatusOf' = [StatusOf EXCEPT ![t] = "archived"] /\ TrailOf' = TrailOf
    BY DEF Ledger!Retire, StatusOf, TrailOf
  <1>5. ASSUME NEW t \in Task
        PROVE  Ledger!Revive(t) <=>
          /\ StatusOf[t] = "archived"
          /\ StatusOf' = [StatusOf EXCEPT ![t] = ReopenStatus("task")] /\ TrailOf' = TrailOf
    BY DEF Ledger!Revive, StatusOf, TrailOf, Ledger!ReopenStatus, ReopenStatus
  <1>6. StatusOf' = StatusOf /\ TrailOf' = TrailOf => UNCHANGED Ledger!ledger
    BY DEF Ledger!ledger, StatusOf, TrailOf
  <1> QED
    BY <1>1, <1>2, <1>3, <1>4, <1>5, <1>6

\* The entry that was appended last is dropped again.
LEMMA LastEntry ==
    ASSUME NEW S, NEW q \in Seq(S), NEW x \in S
    PROVE  /\ Append(q, x) # <<>> /\ Append(q, x)[Len(Append(q, x))] = x
           /\ SubSeq(Append(q, x), 1, Len(Append(q, x)) - 1) = q
  OBVIOUS

\* Every step is one of the ledger, or none.
LEMMA LedgerStep ==
    ASSUME Alone, FilesInv, Fresh, [Next]_vars
    PROVE  [Ledger!Next]_(Ledger!ledger)
  <1>1. ASSUME StatusOf' = StatusOf, TrailOf' = TrailOf
        PROVE  [Ledger!Next]_(Ledger!ledger)
    BY <1>1, LedgerActs
  <1>2. ASSUME NEW t \in Task,
               \/ \E to \in StatusSet("task") : Ledger!Move(t, to)
               \/ Ledger!Forget(t) \/ Ledger!Retire(t) \/ Ledger!Revive(t)
        PROVE  [Ledger!Next]_(Ledger!ledger)
    BY <1>2 DEF Ledger!Next, Ledger!StatusSet, StatusSet
  <1>3. StatusOf = [t \in Task |-> StatusAt(file[t])] /\ StatusOf' = [t \in Task |-> StatusAt(file'[t])]
    BY DEF StatusOf, StatusAt
  \* A step that changes neither the sidecar nor any status, outside the two writes.
  <1>4. ASSUME NEW p \in Proc, proc[p].pc \notin Writing, proc'[p].pc \notin Writing, sidecar' = sidecar,
               \A t \in Task : StatusAt(file'[t]) = StatusAt(file[t])
        PROVE  [Ledger!Next]_(Ledger!ledger)
    <2>1. StatusOf' = StatusOf
      BY <1>3, <1>4
    <2>2. TrailOf' = TrailOf
      BY <1>4, TheTrail DEF TrailWith
    <2> QED
      BY <1>1, <2>1, <2>2
  \* A step outside the two writes that gives one task another status.
  <1>5. ASSUME NEW p \in Proc, proc[p].pc \notin Writing, proc'[p].pc \notin Writing, sidecar' = sidecar,
               NEW t \in Task, NEW x, file' = [file EXCEPT ![t] = x]
        PROVE  StatusOf' = [StatusOf EXCEPT ![t] = StatusAt(x)] /\ TrailOf' = TrailOf
    <2>1. \A u \in Task : file'[u] = IF u = t THEN x ELSE file[u]
      BY <1>5 DEF FilesInv, Types
    <2>2. StatusOf' = [StatusOf EXCEPT ![t] = StatusAt(x)]
      BY <1>3, <2>1
    <2>3. TrailOf' = TrailOf
      BY <1>5, TheTrail DEF TrailWith
    <2> QED
      BY <2>2, <2>3
  <1>6. ASSUME NEW p \in Proc
        PROVE  /\ UpToDate(proc[p], file, sidecar) /\ proc[p] \in Memory /\ MemoryOK(proc[p])
               /\ \A t \in Task : file[t] \in Text \cup {Absent, Mangled} /\ file[t] # Mangled
               /\ \A my : Goto(p, my) => proc'[p] = my
    BY DEF Fresh, FilesInv, Types, Goto
  <1>7. ASSUME NEW p \in Proc, NEW op \in Commands, NEW t \in Task, Begin(p, op, t)
        PROVE  [Ledger!Next]_(Ledger!ledger)
    <2> DEFINE my == [Rest EXCEPT !.op = op, !.task = t]
    <2>1. \/ \E to \in Targets : Goto(p, [my EXCEPT !.pc = "resolve", !.todo = <<to>>])
          \/ \E pc \in {"packet", "check", "find"} : Goto(p, [my EXCEPT !.pc = pc])
      BY <1>7 DEF Begin
    <2>2. /\ \A todo : [my EXCEPT !.pc = "resolve", !.todo = todo].pc = "resolve"
          /\ \A pc : [my EXCEPT !.pc = pc].pc = pc
      BY DEF Rest
    <2> HIDE DEF my
    <2>3. proc'[p].pc \in {"resolve", "packet", "check", "find"}
      BY <1>6, <2>1, <2>2
    <2>4. proc[p].pc = "idle" /\ file' = file /\ sidecar' = sidecar
      BY <1>7 DEF Begin, At
    <2> QED
      BY <1>4, <2>3, <2>4 DEF Writing
  <1>8. ASSUME NEW p \in Proc,
               Packet(p) \/ Claim(p) \/ AfterClaim(p) \/ Resolve(p) \/ Check(p) \/ AppendEntry(p) \/ Find(p) \/ Strip(p)
        PROVE  [Ledger!Next]_(Ledger!ledger)
    <2>1. /\ file' = file /\ sidecar' = sidecar
          /\ proc[p].pc \in {"packet", "claim", "afterClaim", "resolve", "check", "append", "find", "strip"}
      BY <1>8 DEF Packet, Claim, AfterClaim, Resolve, Check, AppendEntry, Find, Strip, At
    <2>2. \/ Stop(p)
          \/ Goto(p, [proc[p] EXCEPT !.pc = "resolve"]) \/ Goto(p, [proc[p] EXCEPT !.pc = "claimRead"])
          \/ Goto(p, [proc[p] EXCEPT !.pc = "cutRead"])
          \/ \E todo : Goto(p, [proc[p] EXCEPT !.pc = "claim", !.todo = todo])
          \/ \E todo : Goto(p, [proc[p] EXCEPT !.pc = "afterClaim", !.todo = todo])
          \/ \E text : Goto(p, [proc[p] EXCEPT !.pc = "read", !.parsed = text])
          \/ \E text : Goto(p, [proc[p] EXCEPT !.pc = "append", !.parsed = text])
          \/ \E archive : Goto(p, [proc[p] EXCEPT !.pc = "restore", !.archive = archive])
      BY <1>8 DEF Packet, Claim, AfterClaim, Resolve, Check, AppendEntry, Find, Strip
    <2>3. /\ [proc[p] EXCEPT !.pc = "resolve"].pc \notin Writing /\ [proc[p] EXCEPT !.pc = "claimRead"].pc \notin Writing
          /\ [proc[p] EXCEPT !.pc = "cutRead"].pc \notin Writing
          /\ \A todo : [proc[p] EXCEPT !.pc = "claim", !.todo = todo].pc \notin Writing
          /\ \A todo : [proc[p] EXCEPT !.pc = "afterClaim", !.todo = todo].pc \notin Writing
          /\ \A text : [proc[p] EXCEPT !.pc = "read", !.parsed = text].pc \notin Writing
          /\ \A text : [proc[p] EXCEPT !.pc = "append", !.parsed = text].pc \notin Writing
          /\ \A archive : [proc[p] EXCEPT !.pc = "restore", !.archive = archive].pc \notin Writing
          /\ Rest.pc \notin Writing
      BY <1>6 DEF Memory, Rest, Writing
    <2>4. proc'[p].pc \notin Writing
      BY <1>6, <2>2, <2>3 DEF Stop
    <2> QED
      BY <1>4, <2>1, <2>4 DEF Writing
  <1>9. ASSUME NEW p \in Proc, Reread(p)
        PROVE  [Ledger!Next]_(Ledger!ledger)
    <2> DEFINE my == proc[p]
               next == [my EXCEPT !.read = file[my.task], !.pc = NextWrite[my.pc]]
    <2>1. /\ file' = file /\ sidecar' = sidecar /\ my.pc \in {"claimRead", "read", "cutRead"}
          /\ Stop(p) \/ Goto(p, next)
      BY <1>9 DEF Reread, NextWrite
    <2>2. next.pc \notin Writing /\ Rest.pc \notin Writing
      BY <1>6, <2>1 DEF Memory, Writing, NextWrite, Rest
    <2> HIDE DEF next
    <2>3. proc'[p].pc \notin Writing
      BY <1>6, <2>1, <2>2 DEF Stop
    <2> QED
      BY <1>4, <2>1, <2>3 DEF Writing
  <1>10. ASSUME NEW p \in Proc, ClaimWrite(p)
         PROVE  [Ledger!Next]_(Ledger!ledger)
    <2> DEFINE my == proc[p]
               next == [my EXCEPT !.pc = "resolve"]
               written == WithClaim(my.read, ActorOf[p])
    <2>1. /\ my.task \in Task /\ my.pc = "claimWrite" /\ my.read = file[my.task] /\ my.read \in Text
      <3>1. my.task \in Task /\ my.pc = "claimWrite" /\ my.read = file[my.task] /\ IsText(my.read)
        BY <1>6, <1>10 DEF ClaimWrite, At, MemoryOK, UpToDate, Plain
      <3> QED
        BY <1>6, <3>1 DEF IsText
    <2>2. /\ file' = [file EXCEPT ![my.task] = written] /\ sidecar' = sidecar /\ Goto(p, next)
          /\ next.pc = "resolve"
      BY <1>6, <1>10 DEF ClaimWrite, Memory
    <2>3. StatusAt(written) = StatusAt(file[my.task])
      BY <2>1, ClaimedIsText, TextIsText DEF StatusAt
    <2> HIDE DEF written, next
    <2>4. proc'[p].pc \notin Writing /\ proc[p].pc \notin Writing
      BY <1>6, <2>1, <2>2 DEF Writing
    <2>5. \A t \in Task : StatusAt(file'[t]) = StatusAt(file[t])
      BY <2>1, <2>2, <2>3 DEF FilesInv, Types
    <2> QED
      BY <1>4, <2>2, <2>4, <2>5
  <1>11. ASSUME NEW p \in Proc, Write(p)
         PROVE  [Ledger!Next]_(Ledger!ledger)
    <2> DEFINE my == proc[p]
               next == [my EXCEPT !.pc = "log"]
    <2>a. my \in Memory /\ my.pc = "write" /\ MemoryOK(my) /\ UpToDate(my, file, sidecar)
      BY <1>6, <1>11 DEF Write, At
    <2>b. PICK t \in Task : t = my.task
      BY <2>a DEF MemoryOK
    <2>c. PICK to \in StatusSet("task") : to = Head(my.todo)
      <3>1. my.todo \in Seq(StatusSet("task")) /\ my.todo # <<>>
        BY <2>a DEF Memory, MemoryOK, Moving
      <3> QED
        BY <3>1
    <2> DEFINE written == [file[t] EXCEPT !.status = to]
    <2>1. /\ my \in Memory /\ my.pc = "write"
          /\ my.read = file[t] /\ my.parsed = file[t] /\ Plain(file[t])
          /\ <<file[t].status, to>> \in TaskTransitions
      BY <2>a, <2>b, <2>c DEF UpToDate
    <2>2. file[t] \in Text
      BY <1>6, <2>1 DEF Plain, IsText
    <2>3. written \in Text /\ written.status = to
      BY <2>2 DEF Text
    <2>4. /\ file' = [file EXCEPT ![t] = written] /\ sidecar' = sidecar /\ Goto(p, next)
      <3>1. Respliced(my.parsed, my.read, to) = written
        BY <2>1 DEF Respliced, SameLayout, Plain
      <3> QED
        BY <1>11, <2>b, <2>c, <3>1 DEF Write
    <2>5. next.pc = "log" /\ next.task = t /\ Head(next.todo) = to /\ next.parsed = file[t]
      BY <2>1, <2>b, <2>c DEF Memory
    <2> HIDE DEF written, next
    <2>6. \A u \in Task : file'[u] = IF u = t THEN written ELSE file[u]
      BY <2>1, <2>4 DEF FilesInv, Types
    <2>7. StatusOf[t] = file[t].status /\ StatusOf' = [StatusOf EXCEPT ![t] = to]
      BY <1>3, <2>1, <2>2, <2>3, <2>6, TextIsText DEF StatusAt
    <2>8. Entry(next) = [from |-> StatusOf[t], to |-> to]
      BY <2>5, <2>7 DEF Entry
    <2>9. TrailOf = [u \in Task |-> sidecar[u]]
      BY <2>1, TheTrail DEF TrailWith, Writing
    <2>10. TrailOf' = [u \in Task |-> IF u = t THEN Append(sidecar[u], Entry(next)) ELSE sidecar[u]]
      <3>1. proc'[p] = next
        BY <1>6, <2>4
      <3>2. TrailOf' = TrailWith(next, sidecar)
        BY <2>4, <3>1, TheTrail
      <3> QED
        BY <2>5, <3>2 DEF TrailWith, Writing
    <2>11. TrailOf' = [TrailOf EXCEPT ![t] = Append(@, [from |-> StatusOf[t], to |-> to])]
      BY <2>1, <2>8, <2>9, <2>10
    <2>12. Ledger!Move(t, to)
      BY <2>1, <2>7, <2>11, LedgerActs
    <2> QED
      BY <1>2, <2>12
  <1>12. ASSUME NEW p \in Proc, Log(p)
         PROVE  [Ledger!Next]_(Ledger!ledger)
    <2> DEFINE my == proc[p]
               next == [my EXCEPT !.pc = "logWrite", !.history = sidecar]
    <2>1. my \in Memory /\ my.pc = "log" /\ file' = file /\ sidecar' = sidecar /\ proc'[p] = next
      BY <1>6, <1>12 DEF Log, At
    <2>2. next.pc = "logWrite" /\ next.task = my.task /\ Entry(next) = Entry(my)
      BY <2>1 DEF Memory, Entry
    <2> HIDE DEF next
    <2>3. StatusOf' = StatusOf
      BY <1>3, <2>1
    <2>4. TrailOf = TrailWith(my, sidecar) /\ TrailOf' = TrailWith(next, sidecar)
      BY <2>1, TheTrail
    <2>5. TrailWith(next, sidecar) = TrailWith(my, sidecar)
      BY <2>1, <2>2 DEF TrailWith, Writing
    <2> QED
      BY <1>1, <2>3, <2>4, <2>5
  <1>13. ASSUME NEW p \in Proc, LogWrite(p)
         PROVE  [Ledger!Next]_(Ledger!ledger)
    <2> DEFINE my == proc[p]
               t == my.task
    <2>1. my \in Memory /\ my.pc = "logWrite" /\ my.history = sidecar /\ t \in Task /\ file' = file
      BY <1>6, <1>13 DEF LogWrite, At, UpToDate, MemoryOK
    <2>2. sidecar' = [sidecar EXCEPT ![t] = Append(@, Entry(my))] /\ sidecar \in [Task -> Seq(Move)]
      BY <1>13, <2>1 DEF LogWrite, FilesInv, Types
    <2>3. proc'[p].pc \in {"idle", "afterClaim"}
      <3>1. Rest.pc = "idle" /\ [my EXCEPT !.pc = "afterClaim", !.todo = Tail(@)].pc = "afterClaim"
        BY <2>1 DEF Memory, Rest
      <3>2. Stop(p) \/ Goto(p, [my EXCEPT !.pc = "afterClaim", !.todo = Tail(@)])
        BY <1>13 DEF LogWrite
      <3> QED
        BY <1>6, <3>1, <3>2 DEF Stop
    <2>4. StatusOf' = StatusOf
      BY <1>3, <2>1
    <2>5. TrailOf = [u \in Task |-> IF t = u THEN Append(sidecar[u], Entry(my)) ELSE sidecar[u]]
      BY <2>1, TheTrail DEF TrailWith, Writing
    <2>6. TrailOf' = [u \in Task |-> sidecar'[u]]
      BY <2>3, TheTrail DEF TrailWith, Writing
    <2>7. \A u \in Task : sidecar'[u] = IF t = u THEN Append(sidecar[u], Entry(my)) ELSE sidecar[u]
      BY <2>1, <2>2
    <2> QED
      BY <1>1, <2>4, <2>5, <2>6, <2>7
  <1>14. ASSUME NEW p \in Proc, CutWrite(p)
         PROVE  [Ledger!Next]_(Ledger!ledger)
    <2> DEFINE my == proc[p]
    <2>a. my.pc = "cutWrite" /\ my.task \in Task
      BY <1>6, <1>14 DEF CutWrite, At, MemoryOK
    <2>b. PICK t \in Task : t = my.task
      BY <2>a
    <2>1. /\ my.pc = "cutWrite" /\ my.read = file[t] /\ my.parsed = file[t]
          /\ IsText(file[t]) /\ file[t].status = "done"
      BY <1>6, <2>a, <2>b DEF UpToDate, Plain
    <2>2. file' = [file EXCEPT ![t] = Absent]
      <3>1. Cut(my.parsed, my.read) = Absent
        BY <2>1 DEF Cut, SameLayout
      <3> QED
        BY <1>14, <2>b, <3>1 DEF CutWrite
    <2>3. proc'[p].pc = "idle" /\ sidecar' = sidecar
      BY <1>6, <1>14 DEF CutWrite, Stop, Rest
    <2>4. StatusAt(Absent) = "archived" /\ StatusOf[t] = "done"
      BY <1>3, <2>1 DEF StatusAt, IsText
    <2>5. StatusOf' = [StatusOf EXCEPT ![t] = "archived"] /\ TrailOf' = TrailOf
      BY <1>5, <2>1, <2>2, <2>3, <2>4 DEF Writing
    <2>6. Ledger!Retire(t)
      BY <2>4, <2>5, LedgerActs
    <2> QED
      BY <1>2, <2>6
  <1>15. ASSUME NEW p \in Proc, Restore(p)
         PROVE  [Ledger!Next]_(Ledger!ledger)
    <2> DEFINE my == proc[p]
               next == [my EXCEPT !.pc = "strip"]
    <2>a. my \in Memory /\ my.pc = "restore" /\ MemoryOK(my) /\ my.task \in Task
      BY <1>6, <1>15 DEF Restore, At, MemoryOK
    <2>b. PICK t \in Task : t = my.task
      BY <2>a
    <2>1. my \in Memory /\ my.pc = "restore" /\ file[t] = Absent /\ MemoryOK(my)
      BY <1>6, <2>a, <2>b DEF UpToDate
    <2>2. Restored(my) \in Text /\ Restored(my).status = ReopenStatus("task")
      BY <2>1, RestoredText DEF MemoryOK
    <2>3. file' = [file EXCEPT ![t] = Restored(my)] /\ sidecar' = sidecar /\ proc'[p] = next
      BY <1>6, <1>15, <2>b DEF Restore
    <2>4. next.pc = "strip"
      BY <2>1 DEF Memory
    <2> HIDE DEF next
    <2>5. StatusAt(Restored(my)) = ReopenStatus("task") /\ StatusOf[t] = "archived"
      BY <1>3, <2>1, <2>2, TextIsText DEF StatusAt, IsText
    <2>6. StatusOf' = [StatusOf EXCEPT ![t] = ReopenStatus("task")] /\ TrailOf' = TrailOf
      BY <1>5, <2>1, <2>3, <2>4, <2>5 DEF Writing
    <2>7. Ledger!Revive(t)
      BY <2>5, <2>6, LedgerActs
    <2> QED
      BY <1>2, <2>7
  <1>16. ASSUME NEW p \in Proc, Crash(p)
         PROVE  [Ledger!Next]_(Ledger!ledger)
    <2> DEFINE my == proc[p]
    <2>1. file' = file /\ sidecar' = sidecar /\ proc'[p].pc = "idle" /\ MaxCrashes > 0 /\ my.pc # "idle"
      <3>1. crashes \in Nat /\ MaxCrashes \in Nat /\ crashes < MaxCrashes
        BY <1>16, FilesAssumption DEF Crash, FilesInv, Types
      <3> QED
        BY <1>6, <1>16, <3>1 DEF Crash, Stop, Rest, At
    <2>2. CASE my.pc \notin Writing
      BY <1>4, <2>1, <2>2 DEF Writing
    <2>3. CASE my.pc \in Writing
      <3>a. PICK t \in Task : t = my.task
        BY <1>6, <2>1 DEF MemoryOK
      <3>1. IsText(file[t]) /\ file[t].status = Head(my.todo)
        BY <1>6, <2>3, <3>a DEF Writing, UpToDate, Plain
      <3>2. StatusOf[t] = Entry(my).to /\ StatusOf' = StatusOf
        BY <1>3, <2>1, <3>1 DEF StatusAt, Entry
      <3>3. sidecar[t] \in Seq(Move) /\ Entry(my) \in Move
        <4>1. my.parsed \in Text /\ my.todo \in Seq(StatusSet("task")) /\ my.todo # <<>>
          BY <1>6, <2>3 DEF Writing, MemoryOK, Splicing, Moving, Memory
        <4>2. Head(my.todo) \in StatusSet("task") /\ my.parsed.status \in StatusSet("task")
          BY <4>1 DEF Text
        <4> QED
          BY <4>2 DEF FilesInv, Types, Entry, Move
      <3>4. TrailOf = [u \in Task |-> IF u = t THEN Append(sidecar[u], Entry(my)) ELSE sidecar[u]]
        BY <2>3, <3>a, TheTrail DEF TrailWith
      <3>5. TrailOf' = [u \in Task |-> sidecar[u]]
        BY <2>1, TheTrail DEF TrailWith, Writing
      <3>6. /\ TrailOf[t] # <<>> /\ TrailOf[t][Len(TrailOf[t])] = Entry(my)
            /\ SubSeq(TrailOf[t], 1, Len(TrailOf[t]) - 1) = sidecar[t]
        <4>1. TrailOf[t] = Append(sidecar[t], Entry(my))
          BY <3>4
        <4> QED
          BY <3>3, <4>1, LastEntry
      <3>7. TrailOf' = [TrailOf EXCEPT ![t] = SubSeq(@, 1, Len(@) - 1)]
        BY <3>4, <3>5, <3>6
      <3>8. TrailOf[t][Len(TrailOf[t])].to = StatusOf[t]
        BY <3>2, <3>6
      <3>9. Ledger!Forget(t)
        BY <2>1, <3>2, <3>6, <3>7, <3>8, LedgerActs
      <3> QED
        BY <1>2, <3>9
    <2> QED
      BY <2>2, <2>3
  <1>17. ASSUME NEW t \in Task, Unquote(t)
         PROVE  [Ledger!Next]_(Ledger!ledger)
    <2> DEFINE written == [file[t] EXCEPT !.quoted = FALSE]
    <2>1. file[t] \in Text /\ UNCHANGED <<sidecar, proc>>
      BY <1>17 DEF Unquote, FilesInv, Types, IsText
    <2>2. written \in Text /\ written.status = file[t].status
      BY <2>1 DEF Text
    <2>3. file' = [file EXCEPT ![t] = written]
      BY <1>17 DEF Unquote
    <2> HIDE DEF written
    <2>4. \A u \in Task : file'[u] = IF u = t THEN written ELSE file[u]
      BY <2>3 DEF FilesInv, Types
    <2>5. StatusOf' = StatusOf
      BY <1>3, <2>1, <2>2, <2>4, TextIsText DEF StatusAt
    <2>6. TrailOf' = TrailOf
      BY <2>1 DEF TrailOf, Entering, Entry
    <2> QED
      BY <1>1, <2>5, <2>6
  <1>18. CASE UNCHANGED vars
    <2>1. StatusOf' = StatusOf /\ TrailOf' = TrailOf
      BY <1>18 DEF vars, StatusOf, TrailOf, Entering, Entry, IsText
    <2> QED
      BY <1>1, <2>1
  <1>19. ASSUME NEW p \in Proc, Run(p)
         PROVE  [Ledger!Next]_(Ledger!ledger)
    BY <1>19, <1>8, <1>9, <1>10, <1>11, <1>12, <1>13, <1>14, <1>15 DEF Run
  <1> QED
    BY <1>7, <1>16, <1>17, <1>18, <1>19 DEF Next

\* Run by one process at a time, killed anywhere and run again, the commands do
\* to the tasks and their trails what the atomic acts of SdlcLedger do.
THEOREM CommandsKeepTheLedger ==
    ASSUME Alone
    PROVE  Spec => ImplementsLedger
  <1>1. Init => Ledger!Init
    <2> SUFFICES ASSUME Init PROVE Ledger!Init
      OBVIOUS
    <2>1. \A t \in Task : IsText(file[t])
      BY TextIsText, FirstTextAssumption DEF Init
    <2>2. StatusOf = [t \in Task |-> FirstText[t].status]
      BY <2>1 DEF StatusOf, Init
    <2>3. \A t \in Task : Entering(t) = {}
      BY DEF Init, Entering, Rest
    <2>4. TrailOf = [t \in Task |-> <<>>]
      BY <2>3 DEF TrailOf, Init
    <2> QED
      BY <2>2, <2>4, LedgerActs
  <1>2. FilesInv /\ Fresh /\ [Next]_vars => FilesInv' /\ Fresh' /\ [Ledger!Next]_(Ledger!ledger)
    BY NextFilesInv, FreshPreserved, LedgerStep
  <1> QED
    BY <1>1, <1>2, InitFilesInv, FreshStart, PTL DEF Spec, ImplementsLedger, Ledger!Spec
=============================================================================
