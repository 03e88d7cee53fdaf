------------------------- MODULE SdlcWorkspaceProofs -------------------------
(***************************************************************************)
(* What holds of every SDLC workspace, whatever its ids, actors, seeds and *)
(* bounds: the types, and the safety invariants of SdlcWorkspace.          *)
(***************************************************************************)
EXTENDS SdlcWorkspace, TLAPS

Optional(i) == RecordOf(i) \cup {NoRecord}

SrcOK(s) ==
    /\ s \in [Id -> [FileNames -> AnyRecord \cup {NoRecord}]]
    /\ \A i \in Id : \A n \in FileNames : s[i][n] \in Optional(i)

ArchiveOK(a) ==
    /\ a \in [Id -> Seq(AnyRecord)]
    /\ \A i \in Id : \A k \in 1..Len(a[i]) : a[i][k] \in RecordOf(i)
-----------------------------------------------------------------------------
(* The transition tables stay inside the status sets. *)

\* Every status of a kind is a status; kinds start, and reopen, with one of
\* their own statuses (InitialStatus: the `sdlc new` templates; ReopenStatus:
\* REOPEN_STATUSES of unarchive, for the kinds that can be archived).
LEMMA StatusesOfKinds ==
    ASSUME NEW kind \in Kinds
    PROVE  /\ StatusSet(kind) \subseteq AnyStatus
           /\ InitialStatus(kind) \in StatusSet(kind)
           /\ kind \in ArchivableKinds => ReopenStatus(kind) \in StatusSet(kind)
           /\ ArchivableStatuses(kind) # {} => kind \in ArchivableKinds
  BY DEF AnyStatus, Kinds, SdlcKinds, StatusSet, InitialStatus, ReopenStatus,
         ArchivableKinds, ArchivableStatuses

\* Records of an id are records, and none of them is NoRecord.
LEMMA RecordsAreRecords ==
    ASSUME NEW i \in Id
    PROVE  /\ RecordOf(i) \subseteq AnyRecord
           /\ NoRecord \notin RecordOf(i)
  <1>1. KindOf[i] \in Kinds
    BY ConstantsAssumption
  <1>2. StatusSet(KindOf[i]) \subseteq AnyStatus
    BY <1>1, StatusesOfKinds
  <1>3. RecordOf(i) \subseteq AnyRecord
    BY <1>2 DEF RecordOf, AnyRecord, RecordWith
  <1> QED
    BY <1>3, ConstantsAssumption

\* Putting a record of id i, or nothing, in one of i's two files keeps the
\* sources well typed: what every write of a command amounts to.
LEMMA PutKeepsSrcOK ==
    ASSUME SrcOK(src), NEW i \in Id, NEW n \in FileNames, NEW r \in Optional(i)
    PROVE  SrcOK([src EXCEPT ![i][n] = r])
  BY RecordsAreRecords DEF SrcOK, Optional

\* The record a lookup finds for a live id is in a file and well typed.
LEMMA LiveRecord ==
    ASSUME SrcOK(src), NEW i \in Live
    PROVE  /\ i \in Id
           /\ FileOf(i) \in FileNames
           /\ src[i][FileOf(i)] # NoRecord
           /\ Record(i) = src[i][FileOf(i)]
           /\ Record(i) \in RecordOf(i)
  BY DEF Live, LiveIn, FilesOf, FileOf, FileNames, Record, SrcOK, Optional

\* What `sdlc new`, `sdlc link` and unarchive write is well typed.
LEMMA TemplatesAreRecords ==
    ASSUME NEW i \in Id
    PROVE  BlankRecord(i) \in RecordOf(i) /\ Template(i) \in RecordOf(i)
  <1>1. InitialStatus(KindOf[i]) \in StatusSet(KindOf[i])
    BY StatusesOfKinds, ConstantsAssumption
  <1>2. BlankRecord(i) \in RecordOf(i)
    BY <1>1 DEF BlankRecord, RecordOf, RecordWith, StepStatuses
  <1>3. {<<"requirement", TodoRequirement>>} \in SUBSET (RefFields \X Target)
    BY DEF RefFields, Target
  <1>4. {"appetite", "problem", "rabbit_holes", "no_go_areas"} \in SUBSET Sections
        /\ {"gwt"} \in SUBSET Sections
    BY DEF Sections
  <1> QED
    BY <1>2, <1>3, <1>4 DEF Template, RecordOf, RecordWith

LEMMA RewrittenRecords ==
    ASSUME NEW i \in Id, NEW r \in RecordOf(i)
    PROVE  /\ \A to \in StatusSet(KindOf[i]) : [r EXCEPT !.status = to] \in RecordOf(i)
           /\ \A refs \in SUBSET (RefFields \X Target) : [r EXCEPT !.refs = refs] \in RecordOf(i)
           /\ \A st \in Step, to \in StepStatuses : [r EXCEPT !.steps[st] = to] \in RecordOf(i)
           /\ \A to \in StatusSet(KindOf[i]) : \A q \in BOOLEAN :
                  [r EXCEPT !.status = to, !.quoted = q] \in RecordOf(i)
  BY DEF RecordOf, RecordWith

LEMMA ClaimedRecord ==
    ASSUME NEW i \in Id, NEW r \in RecordOf(i), NEW a \in Actor
    PROVE  [r EXCEPT !.refs = @ \cup {<<"claimed_by", a>>}] \in RecordOf(i)
  <1>1. r.refs \cup {<<"claimed_by", a>>} \in SUBSET (RefFields \X Target)
    BY DEF RecordOf, RecordWith, RefFields, Target
  <1> QED
    BY <1>1 DEF RecordOf, RecordWith

\* Only tasks can be moved to done.
LEMMA DoneIsATaskStatus ==
    ASSUME NEW kind \in Kinds, NEW from, <<from, "done">> \in LegalTransitions(kind)
    PROVE  kind = "task" /\ "done" \in StatusSet(kind) /\ from = "in-progress"
  BY DEF LegalTransitions, StatusSet, TaskTransitions, PlanTransitions, BugTransitions,
         RequirementTransitions, CriterionTransitions, PitchTransitions, Kinds, SdlcKinds

LEMMA LinkedRecord ==
    ASSUME SrcOK(src), NEW i \in Live, NEW t \in Id, Linkable(i, t)
    PROVE  /\ Linked(i, t) \in RecordOf(i)
           /\ Linked(i, t).status = Record(i).status
           /\ Linked(i, t).steps = Record(i).steps
           /\ LinkField(KindOf[i], KindOf[t]) # "blocked_by"
           /\ Linked(i, t).refs = Record(i).refs \cup {<<LinkField(KindOf[i], KindOf[t]), t>>}
  <1>1. Record(i) \in RecordOf(i) /\ i \in Id
    BY LiveRecord
  <1>2. LinkField(KindOf[i], KindOf[t]) \in RefFields
        /\ LinkField(KindOf[i], KindOf[t]) # "blocked_by"
    BY DEF Linkable, LinkField, RefFields
  <1>3. Record(i).refs \cup {<<LinkField(KindOf[i], KindOf[t]), t>>}
            \in SUBSET (RefFields \X Target)
    BY <1>1, <1>2 DEF RecordOf, RecordWith, Target
  <1> QED
    BY <1>1, <1>2, <1>3 DEF Linked, RecordOf, RecordWith

\* Repairing a record's text keeps its type, its status and its steps, and only
\* drops references.
LEMMA RepairedRecord ==
    ASSUME SrcOK(src), NEW i \in Live
    PROVE  /\ Repaired(i) \in RecordOf(i)
           /\ Repaired(i).status = Record(i).status
           /\ Repaired(i).steps = Record(i).steps
           /\ Repaired(i).refs = {ref \in Record(i).refs : Resolves(Live, ref)}
  <1>1. Record(i) \in RecordOf(i)
    BY LiveRecord
  <1>2. {ref \in Record(i).refs : Resolves(Live, ref)} \in SUBSET (RefFields \X Target)
    BY <1>1 DEF RecordOf, RecordWith
  <1>3. Record(i).fill \cup {"appetite", "rabbit_holes", "no_go_areas"} \in SUBSET Sections
    BY <1>1 DEF RecordOf, RecordWith, Sections
  <1> QED
    BY <1>1, <1>2, <1>3 DEF Repaired, RecordOf, RecordWith

\* An author's text is a record with the status and the steps it had.
LEMMA DraftedRecord ==
    ASSUME SrcOK(src), NEW i \in Live, NEW text \in AuthorText[i]
    PROVE  /\ Drafted(i, text) \in RecordOf(i)
           /\ Drafted(i, text).status = Record(i).status
           /\ Drafted(i, text).steps = Record(i).steps
  <1>1. Record(i) \in RecordOf(i) /\ i \in Id
    BY LiveRecord
  <1>2. text.refs \subseteq RefFields \X Target /\ text.fill \subseteq Sections
    BY <1>1, AuthorTextAssumption
  <1>3. text.refs \cup (Record(i).refs \cap ({"claimed_by"} \X Actor))
            \in SUBSET (RefFields \X Target)
    BY <1>1, <1>2 DEF RecordOf, RecordWith
  <1> QED
    BY <1>1, <1>2, <1>3 DEF Drafted, RecordOf, RecordWith

\* What unarchive writes for an id it accepts is a record of that id.
LEMMA RestoredRecord ==
    ASSUME ArchiveOK(archive), NEW i \in Archived, KindOf[i] \in ArchivableKinds
    PROVE  Restored(i) \in RecordOf(i)
  <1>1. archive[i] \in Seq(AnyRecord) /\ archive[i] # <<>> /\ i \in Id
    BY DEF Archived, ArchiveOK
  <1>2. Head(archive[i]) = archive[i][1] /\ 1 \in 1..Len(archive[i])
    BY <1>1
  <1>3. Head(archive[i]) \in RecordOf(i)
    BY <1>1, <1>2 DEF ArchiveOK
  <1>4. ReopenStatus(KindOf[i]) \in StatusSet(KindOf[i])
    BY <1>1, ConstantsAssumption, StatusesOfKinds
  <1> QED
    BY <1>3, <1>4 DEF Restored, RecordOf, RecordWith
-----------------------------------------------------------------------------
\* Appending a record of id i to i's archive keeps the archive well typed.
LEMMA AppendKeepsArchiveOK ==
    ASSUME ArchiveOK(archive), NEW i \in Id, NEW r \in RecordOf(i)
    PROVE  ArchiveOK([archive EXCEPT ![i] = Append(@, r)])
  <1> DEFINE a == [archive EXCEPT ![i] = Append(@, r)]
  <1>1. archive[i] \in Seq(AnyRecord) /\ r \in AnyRecord
    BY RecordsAreRecords DEF ArchiveOK
  <1>2. a \in [Id -> Seq(AnyRecord)]
    BY <1>1 DEF ArchiveOK
  <1>3. ASSUME NEW j \in Id, NEW k \in 1..Len(a[j]) PROVE a[j][k] \in RecordOf(j)
    <2>1. CASE j = i
      <3>1. a[j] = Append(archive[i], r) /\ Len(a[j]) = Len(archive[i]) + 1
        BY <2>1, <1>1 DEF ArchiveOK
      <3> QED
        BY <3>1, <2>1, <1>1 DEF ArchiveOK
    <2>2. CASE j # i
      BY <2>2 DEF ArchiveOK
    <2> QED
      BY <2>1, <2>2
  <1> QED
    BY <1>2, <1>3 DEF ArchiveOK

\* archiveStatement keeps both halves well typed.
LEMMA MoveKeepsTypes ==
    ASSUME SrcOK(src), ArchiveOK(archive), NEW i \in Live, MoveToArchive(i)
    PROVE  SrcOK(src') /\ ArchiveOK(archive')
  <1>1. i \in Id /\ FileOf(i) \in FileNames /\ Record(i) \in RecordOf(i)
    BY LiveRecord
  <1>2. SrcOK(src')
    BY <1>1, PutKeepsSrcOK DEF MoveToArchive, Optional
  <1>3. ArchiveOK(archive')
    BY <1>1, AppendKeepsArchiveOK DEF MoveToArchive
  <1> QED
    BY <1>2, <1>3

\* A command's rewrite of a live record keeps the sources well typed.
LEMMA WriteKeepsSrcOK ==
    ASSUME SrcOK(src), NEW i \in Live, NEW r \in RecordOf(i), Write(i, r)
    PROVE  SrcOK(src')
  BY LiveRecord, PutKeepsSrcOK DEF Write, Optional

\* Entering a status in the sidecar keeps it well typed.
LEMMA RecordedKeepsType ==
    ASSUME last \in [Id -> AnyStatus \cup {"none"}], NEW i \in Id,
           NEW to \in StatusSet(KindOf[i]), Recorded(i, to)
    PROVE  last' \in [Id -> AnyStatus \cup {"none"}]
  BY StatusesOfKinds, ConstantsAssumption DEF Recorded

\* The initial workspaces are well typed (the sources a user starts from).
LEMMA InitTypeOK == Init => TypeOK
  <1> SUFFICES ASSUME Init PROVE TypeOK
    OBVIOUS
  <1>1. PICK first \in [Id -> UNION {Seeds[i] : i \in Id}] :
            /\ \A i \in Id : first[i] \in Seeds[i]
            /\ src = [i \in Id |-> [n \in FileNames |->
                                       IF n = "slug" THEN first[i] ELSE NoRecord]]
    BY DEF Init
  <1>2. \A i \in Id : first[i] \in Optional(i)
    BY <1>1, SeedsAssumption DEF Optional
  <1>3. SrcOK(src)
    BY <1>1, <1>2, RecordsAreRecords DEF SrcOK, Optional
  <1>4. archive \in [Id -> Seq(AnyRecord)] /\ \A i \in Id : Len(archive[i]) = 0
    BY DEF Init
  <1>5. ArchiveOK(archive)
    BY <1>4 DEF ArchiveOK
  <1> QED
    BY <1>3, <1>5 DEF TypeOK, SrcOK, ArchiveOK, Optional, Init

\* Every command, release step and human edit keeps the types.
LEMMA NextTypeOK == TypeOK /\ [Next]_vars => TypeOK'
  <1> SUFFICES ASSUME TypeOK, [Next]_vars PROVE TypeOK'
    OBVIOUS
  <1> USE DEF Optional
  <1>0. SrcOK(src) /\ ArchiveOK(archive)
    BY DEF TypeOK, SrcOK, ArchiveOK
  <1>b. Busy \subseteq Id /\ \A i \in Id : KindOf[i] \in Kinds
    BY ConstantsAssumption
  <1>1. ASSUME NEW i \in Id, Scaffold(i) PROVE TypeOK'
    <2>1. SrcOK(src')
      BY <1>1, <1>0, PutKeepsSrcOK, TemplatesAreRecords DEF Scaffold, FileNames
    <2> QED
      BY <2>1, <1>1, <1>0 DEF Scaffold, TypeOK, SrcOK, ArchiveOK
  <1>2. ASSUME NEW i \in Id, NEW t \in Id, CreatePlan(i, t) PROVE TypeOK'
    <2>1. {<<"task", t>>} \in SUBSET (RefFields \X Target)
      BY DEF RefFields, Target
    <2>2. [BlankRecord(i) EXCEPT !.refs = {<<"task", t>>}] \in RecordOf(i)
      BY <2>1, TemplatesAreRecords, RewrittenRecords
    <2>3. SrcOK(src')
      BY <2>2, <1>2, <1>0, PutKeepsSrcOK DEF CreatePlan, FileNames
    <2> QED
      BY <2>3, <1>2, <1>0 DEF CreatePlan, TypeOK, SrcOK, ArchiveOK
  <1>3. ASSUME NEW i \in Id, NEW to \in StatusSet(KindOf[i]), Transition(i, to) PROVE TypeOK'
    <2>1. SrcOK(src')
      BY <1>3, <1>0, LiveRecord, RewrittenRecords, WriteKeepsSrcOK DEF Transition
    <2>2. last' \in [Id -> AnyStatus \cup {"none"}]
      BY <1>3, RecordedKeepsType DEF Transition, TypeOK
    <2> QED
      BY <2>1, <2>2, <1>3, <1>0 DEF Transition, TypeOK, SrcOK, ArchiveOK
  <1>4. ASSUME NEW i \in Id, NEW t \in Id, Link(i, t) PROVE TypeOK'
    <2>1. SrcOK(src')
      BY <1>4, <1>0, LinkedRecord, WriteKeepsSrcOK DEF Link
    <2> QED
      BY <2>1, <1>4, <1>0 DEF Link, TypeOK, SrcOK, ArchiveOK
  <1>5. ASSUME NEW i \in Id, NEW v \in Id, Complete(i, v) PROVE TypeOK'
    <2>1. i \in Live /\ Linked(i, v) \in RecordOf(i)
      BY <1>5, <1>0, LinkedRecord DEF Complete
    <2>2. CASE Write(i, Linked(i, v)) /\ UNCHANGED last
      <3>1. SrcOK(src')
        BY <2>1, <2>2, <1>0, WriteKeepsSrcOK
      <3> QED
        BY <3>1, <2>2, <1>5, <1>0 DEF Complete, TypeOK, SrcOK, ArchiveOK
    <2>3. CASE /\ Transitionable(i, Linked(i, v), "done")
               /\ Write(i, [Linked(i, v) EXCEPT !.status = "done"])
               /\ Recorded(i, "done")
      <3>1. "done" \in StatusSet(KindOf[i])
        BY <2>3, <1>b, DoneIsATaskStatus DEF Transitionable
      <3>2. SrcOK(src')
        BY <3>1, <2>1, <2>3, <1>0, RewrittenRecords, WriteKeepsSrcOK
      <3>3. last' \in [Id -> AnyStatus \cup {"none"}]
        BY <3>1, <2>3, RecordedKeepsType DEF TypeOK
      <3> QED
        BY <3>2, <3>3, <1>5, <1>0 DEF Complete, TypeOK, SrcOK, ArchiveOK
    <2> QED
      BY <2>2, <2>3, <1>5 DEF Complete
  <1>6. ASSUME NEW i \in Id, NEW a \in Actor, Start(i, a) PROVE TypeOK'
    <2>1. i \in Live /\ Record(i) \in RecordOf(i) /\ KindOf[i] = "task"
      BY <1>6, <1>0, LiveRecord DEF Start, Ready
    <2>2. "in-progress" \in StatusSet(KindOf[i])
      BY <2>1 DEF StatusSet
    <2>4. [Record(i) EXCEPT !.refs = @ \cup {<<"claimed_by", a>>}] \in RecordOf(i)
      BY <2>1, ClaimedRecord
    <2>5. SrcOK(src')
      BY <2>1, <2>2, <2>4, <1>6, <1>0, RewrittenRecords, WriteKeepsSrcOK DEF Start
    <2>6. last' \in [Id -> AnyStatus \cup {"none"}]
      BY <2>2, <1>6, RecordedKeepsType DEF Start, TypeOK
    <2> QED
      BY <2>5, <2>6, <1>6, <1>0 DEF Start, TypeOK, SrcOK, ArchiveOK
  <1>7. ASSUME NEW i \in Id, NEW st \in Step, NEW to \in StepStatuses, PlanStep(i, st, to)
        PROVE  TypeOK'
    <2>1. SrcOK(src')
      BY <1>7, <1>0, LiveRecord, RewrittenRecords, WriteKeepsSrcOK DEF PlanStep, Ready
    <2> QED
      BY <2>1, <1>7, <1>0 DEF PlanStep, TypeOK, SrcOK, ArchiveOK
  <1>8. ASSUME NEW i \in Id, Archive(i) PROVE TypeOK'
    <2>1. SrcOK(src') /\ ArchiveOK(archive')
      BY <1>8, <1>0, MoveKeepsTypes DEF Archive, Eligible
    <2> QED
      BY <2>1, <1>8 DEF Archive, TypeOK, SrcOK, ArchiveOK
  <1>9. ASSUME NEW i \in Id, ReleaseStep(i) PROVE TypeOK'
    <2>1. SrcOK(src') /\ ArchiveOK(archive')
      BY <1>9, <1>0, MoveKeepsTypes DEF ReleaseStep, Eligible
    <2> QED
      BY <2>1, <1>9 DEF ReleaseStep, TypeOK, SrcOK, ArchiveOK
  <1>10. ASSUME NEW i \in Id, Unarchive(i) PROVE TypeOK'
    <2>5. Restored(i) \in RecordOf(i)
      BY <1>10, <1>0, RestoredRecord DEF Unarchive
    <2>6. SrcOK(src')
      BY <2>5, <1>10, <1>0, PutKeepsSrcOK DEF Unarchive, FileNames
    <2>7. ArchiveOK(archive')
      <3>1. archive' = [archive EXCEPT ![i] = <<>>]
        BY <1>10 DEF Unarchive
      <3>2. <<>> \in Seq(AnyRecord) /\ Len(<<>>) = 0
        OBVIOUS
      <3> QED
        BY <3>1, <3>2, <1>0 DEF ArchiveOK
    <2> QED
      BY <2>6, <2>7, <1>10 DEF Unarchive, TypeOK, SrcOK, ArchiveOK
  <1>11. ASSUME NEW i \in Id, NEW text \in AuthorText[i], Draft(i, text) PROVE TypeOK'
    <2>5. SrcOK(src')
      BY <1>11, <1>0, DraftedRecord, WriteKeepsSrcOK DEF Draft
    <2> QED
      BY <2>5, <1>11, <1>0 DEF Draft, TypeOK, SrcOK, ArchiveOK
  <1>12. ASSUME NEW i \in Id, Repair(i) PROVE TypeOK'
    <2>1. SrcOK(src')
      <3>1. ASSUME NEW n \in FileNames, src' = [src EXCEPT ![i][n] = NoRecord]
            PROVE  SrcOK(src')
        <4>1. NoRecord \in Optional(i)
          OBVIOUS
        <4> QED
          BY <4>1, <3>1, <1>0, PutKeepsSrcOK
      <3>2. CASE /\ i \in Live
                 /\ Write(i, Repaired(i))
        BY <3>2, <1>0, RepairedRecord, WriteKeepsSrcOK
      <3> QED
        BY <3>1, <3>2, <1>12 DEF Repair
    <2> QED
      BY <2>1, <1>12, <1>0 DEF Repair, TypeOK, SrcOK, ArchiveOK
  <1>13. ASSUME NEW i \in Id, NEW to \in StatusSet(KindOf[i]), EditStatus(i, to) PROVE TypeOK'
    <2>1. SrcOK(src')
      BY <1>13, <1>0, LiveRecord, RewrittenRecords, WriteKeepsSrcOK DEF EditStatus
    <2> QED
      BY <2>1, <1>13, <1>0 DEF EditStatus, TypeOK, SrcOK, ArchiveOK
  <1>14. CASE BeginRelease
    BY <1>14, <1>b DEF BeginRelease, TypeOK
  <1>15. CASE Interrupt
    BY <1>15 DEF Interrupt, TypeOK
  <1>16. CASE UNCHANGED vars
    BY <1>16 DEF vars, TypeOK
  <1> QED
    BY <1>1, <1>2, <1>3, <1>4, <1>5, <1>6, <1>7, <1>8, <1>9, <1>10, <1>11, <1>12, <1>13,
       <1>14, <1>15, <1>16, <1>b DEF Next, Command, Human

\* Type correctness of the workspace, its sidecar and its archive.
THEOREM TypeCorrect == Spec => []TypeOK
  BY InitTypeOK, NextTypeOK, PTL DEF Spec
-----------------------------------------------------------------------------
(* What the four kinds of write do to the resolved workspace. *)

\* Rewriting a live record changes nothing but that record.
LEMMA WriteFrame ==
    ASSUME SrcOK(src), NEW i \in Live, NEW r \in RecordOf(i), Write(i, r)
    PROVE  /\ Live' = Live
           /\ \A j \in Id : FilesOf(src, j)' = FilesOf(src, j)
           /\ Record(i)' = r
           /\ \A j \in Id \ {i} : Record(j)' = Record(j)
  <1>1. i \in Id /\ FileOf(i) \in FileNames /\ src[i][FileOf(i)] # NoRecord /\ r # NoRecord
    BY LiveRecord, RecordsAreRecords
  <1>2. src' = [src EXCEPT ![i][FileOf(i)] = r]
    BY DEF Write
  <1>3. \A j \in Id : \A n \in FileNames :
            /\ src'[j][n] = IF j = i /\ n = FileOf(i) THEN r ELSE src[j][n]
            /\ src'[j][n] = NoRecord <=> src[j][n] = NoRecord
    BY <1>1, <1>2 DEF SrcOK
  <1>4. \A j \in Id : FilesOf(src, j)' = FilesOf(src, j)
    BY <1>3 DEF FilesOf
  <1>5. Live' = Live
    BY <1>4 DEF Live, LiveIn
  <1>6. \A j \in Id : FileOf(j)' = FileOf(j)
    BY <1>3 DEF FileOf, FileNames
  <1>7. \A j \in Id : FileOf(j) \in FileNames
    BY DEF FileOf, FileNames
  <1> QED
    BY <1>1, <1>3, <1>4, <1>5, <1>6, <1>7 DEF Record

\* In a valid workspace an id has one file, so archiving it takes it out of the
\* live records, and leaves the others alone.
LEMMA MoveFrame ==
    ASSUME SrcOK(src), ArchiveOK(archive), Valid, NEW i \in Live, MoveToArchive(i)
    PROVE  /\ Live' = Live \ {i}
           /\ FilesOf(src, i)' = {}
           /\ \A j \in Id \ {i} : /\ FilesOf(src, j)' = FilesOf(src, j)
                                  /\ Record(j)' = Record(j)
                                  /\ archive'[j] = archive[j]
           /\ archive'[i] # <<>>
           /\ archive'[i][Len(archive'[i])] = Record(i)
  <1>1. i \in Id /\ FileOf(i) \in FileNames /\ Record(i) \in RecordOf(i)
    BY LiveRecord
  <1>2. src' = [src EXCEPT ![i][FileOf(i)] = NoRecord]
    BY DEF MoveToArchive
  <1>3. FilesOf(src, i) # FileNames
    BY DEF Valid, ValidIn, Live
  <1>4. \A j \in Id \ {i} : \A n \in FileNames : src'[j][n] = src[j][n]
    BY <1>1, <1>2 DEF SrcOK
  <1>5. \A n \in FileNames : src'[i][n] = NoRecord
    BY <1>1, <1>2, <1>3 DEF SrcOK, FilesOf, FileNames, FileOf
  <1>6. FilesOf(src, i)' = {} /\ \A j \in Id \ {i} : FilesOf(src, j)' = FilesOf(src, j)
    BY <1>4, <1>5 DEF FilesOf
  <1>7. Live' = Live \ {i}
    BY <1>6 DEF Live, LiveIn
  <1>8. \A j \in Id \ {i} : Record(j)' = Record(j)
    BY <1>4 DEF Record, FileOf, FileNames
  <1>9. archive[i] \in Seq(AnyRecord) /\ Record(i) \in AnyRecord
    BY <1>1, RecordsAreRecords DEF ArchiveOK
  <1>10. archive' = [archive EXCEPT ![i] = Append(archive[i], Record(i))]
    BY DEF MoveToArchive
  <1>11. archive'[i] = Append(archive[i], Record(i))
    BY <1>1, <1>10 DEF ArchiveOK
  <1>12. archive'[i] # <<>> /\ archive'[i][Len(archive'[i])] = Record(i)
    BY <1>9, <1>11
  <1>13. \A j \in Id \ {i} : archive'[j] = archive[j]
    BY <1>10 DEF ArchiveOK
  <1> QED
    BY <1>6, <1>7, <1>8, <1>12, <1>13

\* A file is added or removed at id i: the other ids are left alone.
LEMMA FileFrame ==
    ASSUME SrcOK(src), NEW i \in Id, NEW n \in FileNames, NEW r \in Optional(i),
           src' = [src EXCEPT ![i][n] = r]
    PROVE  /\ \A j \in Id \ {i} : /\ FilesOf(src, j)' = FilesOf(src, j)
                                  /\ Record(j)' = Record(j)
                                  /\ j \in Live' <=> j \in Live
           /\ src'[i][n] = r
           /\ \A m \in FileNames \ {n} : src'[i][m] = src[i][m]
  <1>1. \A j \in Id \ {i} : \A m \in FileNames : src'[j][m] = src[j][m]
    BY DEF SrcOK
  <1>2. src'[i][n] = r /\ \A m \in FileNames \ {n} : src'[i][m] = src[i][m]
    BY DEF SrcOK
  <1>3. \A j \in Id \ {i} : FilesOf(src, j)' = FilesOf(src, j)
    BY <1>1 DEF FilesOf
  <1> QED
    BY <1>1, <1>2, <1>3 DEF Record, FileOf, FileNames, Live, LiveIn
-----------------------------------------------------------------------------
(* DriftExplained, the invariant behind the drift warnings of `sdlc check`. *)

\* Only a second life gives an id a second file.
SecondFileRestarted == \A i \in Id : FilesOf(src, i) = FileNames => i \in restarted

\* The sidecar has no entry for an id the graph does not know: records leave
\* the live sources only for the archive.
UnknownUntouched ==
    \A i \in Id \ Known : last[i] = "none" /\ \A st \in Step : stepLast[i][st] = "none"

DriftInv == TypeOK /\ SecondFileRestarted /\ UnknownUntouched /\ DriftExplained

LEMMA TypeParts ==
    ASSUME TypeOK
    PROVE  /\ SrcOK(src) /\ ArchiveOK(archive)
           /\ last \in [Id -> AnyStatus \cup {"none"}]
           /\ stepLast \in [Id -> [Step -> StepStatuses \cup {"none"}]]
  BY DEF TypeOK, SrcOK, ArchiveOK, Optional

\* A rewrite that keeps status and steps, and records nothing, keeps DriftInv:
\* sdlc link, a refused complete, drafting and repairing.
LEMMA RewriteKeepsDriftInv ==
    ASSUME DriftInv, NEW i \in Live, NEW r \in RecordOf(i), Write(i, r),
           r.status = Record(i).status, r.steps = Record(i).steps,
           UNCHANGED <<last, stepLast, archive, handEdited, restarted>>
    PROVE  (SecondFileRestarted /\ UnknownUntouched /\ DriftExplained)'
  <1>1. SrcOK(src) /\ i \in Id
    BY TypeParts, LiveRecord DEF DriftInv
  <1>2. /\ Live' = Live
        /\ \A j \in Id : FilesOf(src, j)' = FilesOf(src, j)
        /\ Record(i)' = r
        /\ \A j \in Id \ {i} : Record(j)' = Record(j)
    BY <1>1, WriteFrame
  <1>3. SecondFileRestarted'
    BY <1>2 DEF DriftInv, SecondFileRestarted
  <1>4. Known' = Known
    BY <1>2 DEF Known, Archived
  <1>5. UnknownUntouched'
    BY <1>4 DEF DriftInv, UnknownUntouched
  <1>6. \A j \in Id : Record(j)'.status = Record(j).status /\ Record(j)'.steps = Record(j).steps
    BY <1>2
  <1>7. \A j \in Id : Drifted(j)' <=> Drifted(j)
    BY <1>6 DEF Drifted
  <1>8. DriftExplained'
    BY <1>1, <1>2, <1>7 DEF DriftInv, DriftExplained, Live, LiveIn
  <1> QED
    BY <1>3, <1>5, <1>8

\* So does a rewrite of the status that is recorded: transition, start, complete.
LEMMA RecordedRewriteKeepsDriftInv ==
    ASSUME DriftInv, NEW i \in Live, NEW r \in RecordOf(i), Write(i, r), Recorded(i, r.status),
           r.steps = Record(i).steps,
           UNCHANGED <<stepLast, archive, handEdited, restarted>>
    PROVE  (SecondFileRestarted /\ UnknownUntouched /\ DriftExplained)'
  <1>1. SrcOK(src) /\ i \in Id /\ last \in [Id -> AnyStatus \cup {"none"}]
    BY TypeParts, LiveRecord DEF DriftInv
  <1>2. /\ Live' = Live
        /\ \A j \in Id : FilesOf(src, j)' = FilesOf(src, j)
        /\ Record(i)' = r
        /\ \A j \in Id \ {i} : Record(j)' = Record(j)
    BY <1>1, WriteFrame
  <1>3. last'[i] = r.status /\ \A j \in Id \ {i} : last'[j] = last[j]
    BY <1>1 DEF Recorded
  <1>4. SecondFileRestarted'
    BY <1>2 DEF DriftInv, SecondFileRestarted
  <1>5. Known' = Known /\ i \in Known
    BY <1>2 DEF Known, Archived
  <1>6. UnknownUntouched'
    BY <1>3, <1>5 DEF DriftInv, UnknownUntouched
  <1>7. \A j \in Id \ {i} : Drifted(j)' <=> Drifted(j)
    BY <1>2, <1>3 DEF Drifted
  <1>8. Drifted(i)' => Drifted(i)
    BY <1>2, <1>3 DEF Drifted
  <1>9. DriftExplained'
    BY <1>1, <1>2, <1>7, <1>8 DEF DriftInv, DriftExplained, Live, LiveIn
  <1> QED
    BY <1>4, <1>6, <1>9

\* Archiving keeps DriftInv: the id leaves the live records.
LEMMA MoveKeepsDriftInv ==
    ASSUME DriftInv, Valid, NEW i \in Live, MoveToArchive(i),
           UNCHANGED <<last, stepLast, handEdited, restarted>>
    PROVE  (SecondFileRestarted /\ UnknownUntouched /\ DriftExplained)'
  <1>1. SrcOK(src) /\ ArchiveOK(archive) /\ i \in Id
    BY TypeParts, LiveRecord DEF DriftInv
  <1>2. /\ Live' = Live \ {i}
        /\ FilesOf(src, i)' = {}
        /\ \A j \in Id \ {i} : /\ FilesOf(src, j)' = FilesOf(src, j)
                               /\ Record(j)' = Record(j)
                               /\ archive'[j] = archive[j]
        /\ archive'[i] # <<>>
    BY <1>1, MoveFrame
  <1>3. SecondFileRestarted'
    BY <1>2 DEF DriftInv, SecondFileRestarted, FileNames
  <1>4. Known' = Known
    BY <1>1, <1>2 DEF Known, Archived, Live, LiveIn
  <1>5. UnknownUntouched'
    BY <1>4 DEF DriftInv, UnknownUntouched
  <1>6. \A j \in Id \ {i} : Drifted(j)' <=> Drifted(j)
    BY <1>2 DEF Drifted
  <1>7. DriftExplained'
    BY <1>1, <1>2, <1>6 DEF DriftInv, DriftExplained, Live, LiveIn
  <1> QED
    BY <1>3, <1>5, <1>7

\* A new or removed file of id i is harmless when i has begun a second life,
\* or when nothing was ever known of i.
LEMMA FileKeepsDriftInv ==
    ASSUME DriftInv, NEW i \in Id, NEW n \in FileNames, NEW r \in Optional(i),
           src' = [src EXCEPT ![i][n] = r],
           UNCHANGED <<last, stepLast, handEdited>>,
           restarted \subseteq restarted',
           \A j \in Id \ {i} : archive'[j] = archive[j],
           i \in Known',
           \/ i \in restarted'
           \/ i \notin Known /\ src'[i]["slug"] # NoRecord /\ n = "slug"
    PROVE  (SecondFileRestarted /\ UnknownUntouched /\ DriftExplained)'
  <1>1. SrcOK(src)
    BY TypeParts DEF DriftInv
  <1>2. /\ \A j \in Id \ {i} : /\ FilesOf(src, j)' = FilesOf(src, j)
                               /\ Record(j)' = Record(j)
                               /\ j \in Live' <=> j \in Live
        /\ \A m \in FileNames \ {n} : src'[i][m] = src[i][m]
    BY <1>1, FileFrame
  <1>3. i \in restarted' \/ FilesOf(src, i)' # FileNames
    BY <1>2 DEF Known, Live, LiveIn, FilesOf, FileNames
  <1>4. SecondFileRestarted'
    BY <1>2, <1>3 DEF DriftInv, SecondFileRestarted
  <1>5. \A j \in Id \ {i} : j \in Known' <=> j \in Known
    BY <1>2 DEF Known, Archived
  <1>6. UnknownUntouched'
    BY <1>5 DEF DriftInv, UnknownUntouched
  <1>7. \A j \in Id \ {i} : Drifted(j)' <=> Drifted(j)
    BY <1>2 DEF Drifted
  <1>8. i \in restarted' \/ ~Drifted(i)'
    BY DEF DriftInv, UnknownUntouched, Drifted
  <1>9. DriftExplained'
    BY <1>2, <1>7, <1>8 DEF DriftInv, DriftExplained, Live, LiveIn
  <1> QED
    BY <1>4, <1>6, <1>9

\* The initial workspace has one file per id and an empty sidecar.
LEMMA InitDriftInv == Init => DriftInv
  <1> SUFFICES ASSUME Init PROVE DriftInv
    OBVIOUS
  <1>1. TypeOK
    BY InitTypeOK
  <1>2. \A i \in Id : src[i]["id"] = NoRecord
    BY DEF Init, FileNames
  <1>3. SecondFileRestarted
    BY <1>2 DEF SecondFileRestarted, FilesOf, FileNames
  <1>4. \A i \in Id : last[i] = "none" /\ \A st \in Step : stepLast[i][st] = "none"
    BY DEF Init
  <1>5. UnknownUntouched /\ DriftExplained
    BY <1>4 DEF UnknownUntouched, DriftExplained, Drifted, Live, LiveIn
  <1> QED
    BY <1>1, <1>3, <1>5 DEF DriftInv

\* A step that touches neither sources, sidecar nor archive keeps DriftInv.
LEMMA StillDriftInv ==
    ASSUME DriftInv, UNCHANGED <<src, last, stepLast, archive, handEdited, restarted>>
    PROVE  (SecondFileRestarted /\ UnknownUntouched /\ DriftExplained)'
  <1>1. Live' = Live /\ Known' = Known
    BY DEF Live, Known, Archived
  <1>2. \A i \in Id : Record(i)' = Record(i) /\ FilesOf(src, i)' = FilesOf(src, i)
    BY DEF Record, FileOf, FilesOf
  <1> QED
    BY <1>1, <1>2 DEF DriftInv, SecondFileRestarted, UnknownUntouched, DriftExplained, Drifted,
                     Live, LiveIn

\* Every step keeps DriftInv.
LEMMA NextDriftInv == DriftInv /\ [Next]_vars => DriftInv'
  <1> SUFFICES ASSUME DriftInv, [Next]_vars PROVE DriftInv'
    OBVIOUS
  <1> DEFINE Rest == SecondFileRestarted /\ UnknownUntouched /\ DriftExplained
  <1>a. TypeOK /\ TypeOK'
    BY NextTypeOK DEF DriftInv
  <1>b. SrcOK(src) /\ ArchiveOK(archive)
    BY <1>a, TypeParts
  <1>c. SUFFICES Rest'
    BY <1>a DEF DriftInv
  <1> USE DEF Optional
  <1>1. ASSUME NEW i \in Id, Scaffold(i) PROVE Rest'
    <2>1. Template(i) \in Optional(i) /\ Template(i) # NoRecord
      BY TemplatesAreRecords, RecordsAreRecords
    <2>2. src' = [src EXCEPT ![i]["slug"] = Template(i)]
      BY <1>1 DEF Scaffold
    <2>3. src'[i]["slug"] # NoRecord
      BY <2>1, <2>2, <1>b DEF SrcOK, FileNames
    <2>4. i \in Known'
      BY <2>3 DEF Known, Live, LiveIn, FilesOf, FileNames
    <2>5. i \in restarted' \/ i \notin Known
      BY <1>1, <1>a DEF Scaffold, TypeOK
    <2> QED
      BY <2>1, <2>2, <2>3, <2>4, <2>5, <1>1, FileKeepsDriftInv DEF Scaffold, FileNames
  <1>2. ASSUME NEW i \in Id, NEW t \in Id, CreatePlan(i, t) PROVE Rest'
    <2> DEFINE r == [BlankRecord(i) EXCEPT !.refs = {<<"task", t>>}]
    <2>1. {<<"task", t>>} \in SUBSET (RefFields \X Target)
      BY DEF RefFields, Target
    <2>2. r \in Optional(i) /\ r # NoRecord
      <3>1. BlankRecord(i) \in RecordOf(i)
        BY TemplatesAreRecords
      <3>2. r \in RecordOf(i)
        BY <2>1, <3>1, RewrittenRecords
      <3> QED
        BY <3>2, RecordsAreRecords
    <2>3. src' = [src EXCEPT ![i]["slug"] = r]
      BY <1>2 DEF CreatePlan
    <2>4. src'[i]["slug"] # NoRecord
      BY <2>2, <2>3, <1>b DEF SrcOK, FileNames
    <2>5. i \in Known'
      BY <2>4 DEF Known, Live, LiveIn, FilesOf, FileNames
    <2> HIDE DEF r
    <2> QED
      BY <2>2, <2>3, <2>4, <2>5, <1>2, FileKeepsDriftInv DEF CreatePlan, FileNames
  <1>3. ASSUME NEW i \in Id, NEW to \in StatusSet(KindOf[i]), Transition(i, to) PROVE Rest'
    <2> DEFINE r == [Record(i) EXCEPT !.status = to]
    <2>1. i \in Live /\ Record(i) \in RecordOf(i)
      BY <1>3, <1>b, LiveRecord DEF Transition
    <2>2. r \in RecordOf(i) /\ r.status = to /\ r.steps = Record(i).steps
      BY <2>1, RewrittenRecords DEF RecordOf, RecordWith
    <2>3. Write(i, r) /\ Recorded(i, r.status)
      BY <2>2, <1>3 DEF Transition
    <2> HIDE DEF r
    <2> QED
      BY <2>1, <2>2, <2>3, <1>3, RecordedRewriteKeepsDriftInv DEF Transition
  <1>4. ASSUME NEW i \in Id, NEW t \in Id, Link(i, t) PROVE Rest'
    <2>1. /\ i \in Live /\ Write(i, Linked(i, t))
          /\ UNCHANGED <<last, stepLast, archive, handEdited, restarted>>
      BY <1>4 DEF Link
    <2>2. /\ Linked(i, t) \in RecordOf(i)
          /\ Linked(i, t).status = Record(i).status /\ Linked(i, t).steps = Record(i).steps
      BY <2>1, <1>4, <1>b, LinkedRecord DEF Link
    <2> QED
      BY <2>1, <2>2, RewriteKeepsDriftInv
  <1>5. ASSUME NEW i \in Id, NEW v \in Id, Complete(i, v) PROVE Rest'
    <2>1. i \in Live /\ UNCHANGED <<stepLast, archive, handEdited, restarted>>
      BY <1>5 DEF Complete
    <2>2. /\ Linked(i, v) \in RecordOf(i)
          /\ Linked(i, v).status = Record(i).status /\ Linked(i, v).steps = Record(i).steps
      BY <2>1, <1>5, <1>b, LinkedRecord DEF Complete
    <2>3. CASE Write(i, Linked(i, v)) /\ UNCHANGED last
      BY <2>1, <2>2, <2>3, RewriteKeepsDriftInv
    <2>4. CASE /\ Write(i, [Linked(i, v) EXCEPT !.status = "done"]) /\ Recorded(i, "done")
               /\ Transitionable(i, Linked(i, v), "done")
      <3> DEFINE r == [Linked(i, v) EXCEPT !.status = "done"]
      <3>1. "done" \in StatusSet(KindOf[i])
        BY <2>4, ConstantsAssumption, DoneIsATaskStatus DEF Transitionable
      <3>2. r \in RecordOf(i) /\ r.status = "done" /\ r.steps = Record(i).steps
        BY <2>2, <3>1, RewrittenRecords DEF RecordOf, RecordWith
      <3> HIDE DEF r
      <3>3. Write(i, r) /\ Recorded(i, r.status)
        BY <2>4, <3>2 DEF r
      <3> QED
        BY <2>1, <3>2, <3>3, RecordedRewriteKeepsDriftInv
    <2> QED
      BY <2>3, <2>4, <1>5 DEF Complete
  <1>6. ASSUME NEW i \in Id, NEW a \in Actor, Start(i, a) PROVE Rest'
    <2> DEFINE claimed == IF Record(i).status = "unclaimed"
                            THEN [Record(i) EXCEPT !.refs = @ \cup {<<"claimed_by", a>>}]
                            ELSE Record(i)
               r == [claimed EXCEPT !.status = "in-progress"]
    <2>1. i \in Live /\ Record(i) \in RecordOf(i) /\ "in-progress" \in StatusSet(KindOf[i])
      BY <1>6, <1>b, LiveRecord DEF Start, Ready, StatusSet
    <2>2. claimed \in RecordOf(i) /\ claimed.steps = Record(i).steps
      BY <2>1, ClaimedRecord DEF RecordOf, RecordWith
    <2>3. r \in RecordOf(i) /\ r.status = "in-progress" /\ r.steps = Record(i).steps
      BY <2>1, <2>2, RewrittenRecords DEF RecordOf, RecordWith
    <2>4. Write(i, r) /\ Recorded(i, "in-progress")
      BY <1>6 DEF Start
    <2> HIDE DEF r, claimed
    <2> QED
      BY <2>1, <2>3, <2>4, <1>6, RecordedRewriteKeepsDriftInv DEF Start
  <1>7. ASSUME NEW i \in Id, NEW st \in Step, NEW to \in StepStatuses, PlanStep(i, st, to)
        PROVE  Rest'
    <2> DEFINE r == [Record(i) EXCEPT !.steps[st] = to]
    <2>1. i \in Live /\ Record(i) \in RecordOf(i) /\ KindOf[i] = "plan"
      BY <1>7, <1>b, LiveRecord DEF PlanStep, Ready
    <2>2. /\ r \in RecordOf(i) /\ r.status = Record(i).status
          /\ \A other \in Step : r.steps[other] = IF other = st THEN to
                                                 ELSE Record(i).steps[other]
      <3>1. Record(i).steps \in [Step -> StepStatuses]
        BY <2>1 DEF RecordOf, RecordWith
      <3>2. r.steps = [Record(i).steps EXCEPT ![st] = to] /\ r.status = Record(i).status
        BY <2>1 DEF RecordOf, RecordWith
      <3>3. r \in RecordOf(i)
        BY <2>1, RewrittenRecords
      <3> QED
        BY <3>1, <3>2, <3>3
    <2>3. Write(i, r)
      BY <1>7 DEF PlanStep
    <2> HIDE DEF r
    <2>4. /\ Live' = Live
          /\ \A j \in Id : FilesOf(src, j)' = FilesOf(src, j)
          /\ Record(i)' = r
          /\ \A j \in Id \ {i} : Record(j)' = Record(j)
      BY <2>1, <2>2, <2>3, <1>b, WriteFrame
    <2>5. /\ \A other \in Step : stepLast'[i][other] = IF other = st THEN to
                                                       ELSE stepLast[i][other]
          /\ \A j \in Id \ {i} : stepLast'[j] = stepLast[j]
      BY <1>7, <1>a DEF PlanStep, TypeOK
    <2>6. UNCHANGED <<last, archive, handEdited, restarted>>
      BY <1>7 DEF PlanStep
    <2>7. Known' = Known /\ i \in Known
      BY <2>1, <2>4, <2>6 DEF Known, Archived
    <2>8. SecondFileRestarted'
      BY <2>4, <2>6 DEF DriftInv, SecondFileRestarted
    <2>9. UnknownUntouched'
      BY <2>5, <2>6, <2>7 DEF DriftInv, UnknownUntouched
    <2>10. \A j \in Id \ {i} : Drifted(j)' <=> Drifted(j)
      BY <2>4, <2>5, <2>6 DEF Drifted
    <2>11. Drifted(i)' => Drifted(i)
      BY <2>2, <2>4, <2>5, <2>6 DEF Drifted
    <2>12. DriftExplained'
      BY <2>4, <2>6, <2>10, <2>11 DEF DriftInv, DriftExplained, Live, LiveIn
    <2> QED
      BY <2>8, <2>9, <2>12
  <1>8. ASSUME NEW i \in Id, Archive(i) PROVE Rest'
    BY <1>8, MoveKeepsDriftInv DEF Archive, Eligible, Ready
  <1>9. ASSUME NEW i \in Id, ReleaseStep(i) PROVE Rest'
    <2>1. CASE Valid /\ Eligible(i)
      BY <2>1, <1>9, MoveKeepsDriftInv DEF ReleaseStep, Eligible
    <2>2. CASE UNCHANGED <<src, archive>>
      BY <2>2, <1>9, StillDriftInv DEF ReleaseStep
    <2> QED
      BY <2>1, <2>2, <1>9 DEF ReleaseStep
  <1>10. ASSUME NEW i \in Id, Unarchive(i) PROVE Rest'
    <2>1. src' = [src EXCEPT ![i]["id"] = Restored(i)] /\ i \in restarted'
          /\ UNCHANGED <<last, stepLast, handEdited>> /\ restarted \subseteq restarted'
          /\ \A j \in Id \ {i} : archive'[j] = archive[j]
      BY <1>10, <1>b DEF Unarchive, ArchiveOK
    <2>2. src'[i]["id"] = Restored(i)
      BY <2>1, <1>b DEF SrcOK, FileNames
    <2>3. Restored(i) \in RecordOf(i)
      BY <1>10, <1>b, RestoredRecord DEF Unarchive
    <2>4. i \in Known'
      BY <2>2, <2>3, RecordsAreRecords DEF Known, Live, LiveIn, FilesOf, FileNames
    <2> QED
      BY <2>1, <2>3, <2>4, FileKeepsDriftInv DEF FileNames
  <1>11. ASSUME NEW i \in Id, NEW text \in AuthorText[i], Draft(i, text) PROVE Rest'
    <2>1. /\ i \in Live /\ Write(i, Drafted(i, text))
          /\ UNCHANGED <<last, stepLast, archive, handEdited, restarted>>
      BY <1>11 DEF Draft
    <2>2. /\ Drafted(i, text) \in RecordOf(i)
          /\ Drafted(i, text).status = Record(i).status
          /\ Drafted(i, text).steps = Record(i).steps
      BY <2>1, <1>b, DraftedRecord
    <2> QED
      BY <2>1, <2>2, RewriteKeepsDriftInv
  <1>12. ASSUME NEW i \in Id, Repair(i) PROVE Rest'
    <2>1. UNCHANGED <<last, stepLast, archive, handEdited, restarted>>
      BY <1>12 DEF Repair
    <2>2. ASSUME FilesOf(src, i) = FileNames, NEW n \in FileNames,
                 src' = [src EXCEPT ![i][n] = NoRecord]
          PROVE  Rest'
      <3>1. i \in restarted
        BY <2>2 DEF DriftInv, SecondFileRestarted
      <3>2. NoRecord \in Optional(i)
        OBVIOUS
      <3>3. PICK m \in FileNames : m # n
        BY DEF FileNames
      <3>4. src'[i][m] = src[i][m] /\ src[i][m] # NoRecord
        BY <2>2, <3>2, <3>3, <1>b, FileFrame DEF FilesOf
      <3>5. i \in Known'
        BY <3>4 DEF Known, Live, LiveIn, FilesOf
      <3> QED
        BY <3>1, <3>2, <3>5, <2>1, <2>2, FileKeepsDriftInv
    <2>3. CASE i \in Live /\ Write(i, Repaired(i))
      BY <2>1, <2>3, <1>b, RepairedRecord, RewriteKeepsDriftInv
    <2> QED
      BY <2>2, <2>3, <1>12 DEF Repair
  <1>13. ASSUME NEW i \in Id, NEW to \in StatusSet(KindOf[i]), EditStatus(i, to) PROVE Rest'
    <2> DEFINE r == [Record(i) EXCEPT !.status = to]
    <2>1. i \in Live /\ Record(i) \in RecordOf(i)
      BY <1>13, <1>b, LiveRecord DEF EditStatus
    <2>2. r \in RecordOf(i)
      BY <2>1, RewrittenRecords
    <2>3. Write(i, r)
      BY <1>13 DEF EditStatus
    <2> HIDE DEF r
    <2>4. /\ Live' = Live
          /\ \A j \in Id : FilesOf(src, j)' = FilesOf(src, j)
          /\ \A j \in Id \ {i} : Record(j)' = Record(j)
      BY <2>1, <2>2, <2>3, <1>b, WriteFrame
    <2>5. /\ UNCHANGED <<last, stepLast, archive, restarted>>
          /\ handEdited' = handEdited \cup {i}
      BY <1>13 DEF EditStatus
    <2>6. SecondFileRestarted' /\ UnknownUntouched'
      BY <2>4, <2>5 DEF DriftInv, SecondFileRestarted, UnknownUntouched, Known, Archived
    <2>7. \A j \in Id \ {i} : Drifted(j)' <=> Drifted(j)
      BY <2>4, <2>5 DEF Drifted
    <2>8. DriftExplained'
      BY <2>4, <2>5, <2>7 DEF DriftInv, DriftExplained, Live, LiveIn
    <2> QED
      BY <2>6, <2>8
  <1>14. CASE BeginRelease
    BY <1>14, StillDriftInv DEF BeginRelease
  <1>15. CASE Interrupt
    BY <1>15, StillDriftInv DEF Interrupt
  <1>16. CASE UNCHANGED vars
    BY <1>16, StillDriftInv DEF vars
  <1> QED
    BY <1>1, <1>2, <1>3, <1>4, <1>5, <1>6, <1>7, <1>8, <1>9, <1>10, <1>11, <1>12, <1>13,
       <1>14, <1>15, <1>16, ConstantsAssumption DEF Next, Command, Human

\* No false alarm from `sdlc check`: whatever commands ran, a live record whose
\* status or steps differ from the last transition recorded for them was edited
\* by hand or began a second life.
THEOREM DriftIsExplained == Spec => []DriftExplained
  <1>1. DriftInv => DriftExplained
    BY DEF DriftInv
  <1> QED
    BY <1>1, InitDriftInv, NextDriftInv, PTL DEF Spec
-----------------------------------------------------------------------------
(* BlockersFinished: nothing is worked on ahead of what blocks it. *)

Touched == handEdited \cup restarted

BlockInv == DriftInv /\ BlockersFinished

Finished(b) == b \in Known /\ ById(b).status = "done"

UnderWay == {"in-progress", "done"}

Blockers(r) == Refs(r, "blocked_by")

\* `done` is a status of tasks only, and no transition leaves it.
LEMMA DoneIsFinal ==
    ASSUME NEW kind \in Kinds, "done" \in StatusSet(kind)
    PROVE  kind = "task" /\ \A to : <<"done", to>> \notin LegalTransitions(kind)
  BY DEF LegalTransitions, StatusSet, TaskTransitions, Kinds, SdlcKinds

\* Rewriting the status token leaves the rest of the record alone.
LEMMA StatusRewrite ==
    ASSUME NEW i \in Id, NEW r \in RecordOf(i), NEW to \in StatusSet(KindOf[i])
    PROVE  /\ [r EXCEPT !.status = to] \in RecordOf(i)
           /\ [r EXCEPT !.status = to].status = to
           /\ Blockers([r EXCEPT !.status = to]) = Blockers(r)
  <1>1. /\ [r EXCEPT !.status = to].refs = r.refs
        /\ [r EXCEPT !.status = to].status = to
    BY DEF RecordOf, RecordWith
  <1> QED
    BY <1>1, RewrittenRecords DEF Blockers, Refs

\* In a valid workspace every blocker named by a live record is live.
LEMMA ValidBlockers ==
    ASSUME SrcOK(src), Valid, NEW i \in Live, NEW b \in Blockers(Record(i))
    PROVE  b \in Live
  <1>1. FileOf(i) \in FilesOf(src, i) /\ Record(i) = src[i][FileOf(i)]
    BY LiveRecord DEF FilesOf
  <1>2. RecordValid(Live, i, Record(i))
    BY <1>1 DEF Valid, ValidIn, Live
  <1>3. Resolves(Live, <<"blocked_by", b>>)
    BY <1>2 DEF RecordValid, Blockers, Refs
  <1> QED
    BY <1>3 DEF Resolves

\* A rewrite keeps BlockersFinished when it does not reopen a finished task and
\* puts a task under way only with finished blockers.
LEMMA RewriteKeepsBlockers ==
    ASSUME BlockInv, NEW i \in Live, NEW r \in RecordOf(i), Write(i, r),
           UNCHANGED <<archive, restarted>>, handEdited \subseteq handEdited',
           \/ i \in handEdited'
           \/ /\ Record(i).status = "done" => r.status = "done"
              /\ \/ KindOf[i] # "task" \/ r.status \notin UnderWay
                 \/ Record(i).status \in UnderWay /\ Blockers(r) \subseteq Blockers(Record(i))
                 \/ \A b \in Blockers(r) : Finished(b)
    PROVE  BlockersFinished'
  <1>1. SrcOK(src) /\ i \in Id
    BY TypeParts, LiveRecord DEF BlockInv, DriftInv
  <1>2. /\ Live' = Live
        /\ Record(i)' = r
        /\ \A j \in Id \ {i} : Record(j)' = Record(j)
    BY <1>1, WriteFrame
  <1>3. Known' = Known /\ Known \subseteq Id
    BY <1>2 DEF Known, Archived, Live, LiveIn
  <1>4. ASSUME NEW b \in Known, b \notin Touched', Finished(b) PROVE Finished(b)'
    <2>1. CASE b = i
      BY <2>1, <1>2, <1>3, <1>4 DEF Touched, Finished, ById
    <2>2. CASE b # i
      BY <2>2, <1>2, <1>3, <1>4 DEF Finished, ById
    <2> QED
      BY <2>1, <2>2
  <1>5. ASSUME NEW j \in Live, KindOf[j] = "task", j \notin Touched',
               Record(j)'.status \in UnderWay, NEW b \in Blockers(Record(j)'),
               b \notin Touched'
        PROVE  Finished(b)
    <2>1. j \notin Touched /\ b \notin Touched
      BY <1>5 DEF Touched
    <2>2. Record(j).status \in UnderWay /\ b \in Blockers(Record(j)) => Finished(b)
      BY <1>5, <2>1 DEF BlockInv, BlockersFinished, LiveOf, Touched, UnderWay, Blockers, Finished
    <2>3. CASE j = i
      BY <2>2, <2>3, <1>5, <1>2 DEF Touched
    <2>4. CASE j # i
      BY <2>2, <2>4, <1>5, <1>2, <1>1 DEF Live, LiveIn
    <2> QED
      BY <2>3, <2>4
  <1>6. \A b : Finished(b) => b \in Known
    BY DEF Finished
  <1> QED
    BY <1>2, <1>4, <1>5, <1>6 DEF BlockersFinished, LiveOf, Touched, UnderWay, Blockers, Finished

\* Archiving a record keeps BlockersFinished: the snapshot has its status.
LEMMA MoveKeepsBlockers ==
    ASSUME BlockInv, Valid, NEW i \in Live, MoveToArchive(i), UNCHANGED <<handEdited, restarted>>
    PROVE  BlockersFinished'
  <1>1. SrcOK(src) /\ ArchiveOK(archive) /\ i \in Id
    BY TypeParts, LiveRecord DEF BlockInv, DriftInv
  <1>2. /\ Live' = Live \ {i}
        /\ \A j \in Id \ {i} : Record(j)' = Record(j) /\ archive'[j] = archive[j]
        /\ archive'[i] # <<>> /\ archive'[i][Len(archive'[i])] = Record(i)
    BY <1>1, MoveFrame
  <1>3. Known' = Known /\ Known \subseteq Id
    BY <1>1, <1>2 DEF Known, Archived, Live, LiveIn
  <1>4. ASSUME NEW b \in Known, Finished(b) PROVE Finished(b)'
    <2>1. CASE b = i
      BY <2>1, <1>2, <1>3, <1>4 DEF Finished, ById
    <2>2. CASE b # i
      BY <2>2, <1>2, <1>3, <1>4 DEF Finished, ById
    <2> QED
      BY <2>1, <2>2
  <1> QED
    BY <1>2, <1>3, <1>4 DEF BlockInv, BlockersFinished, LiveOf, Finished, Live, LiveIn

\* A file added or removed at i keeps BlockersFinished when i has begun a second
\* life, or was unknown and is not under way.
LEMMA FileKeepsBlockers ==
    ASSUME BlockInv, NEW i \in Id, NEW n \in FileNames, NEW r \in Optional(i),
           src' = [src EXCEPT ![i][n] = r],
           UNCHANGED handEdited, restarted \subseteq restarted',
           \A j \in Id \ {i} : archive'[j] = archive[j],
           \/ i \in restarted'
           \/ i \notin Known /\ (KindOf[i] = "task" => Record(i)'.status \notin UnderWay)
    PROVE  BlockersFinished'
  <1>1. SrcOK(src)
    BY TypeParts DEF BlockInv, DriftInv
  <1>2. \A j \in Id \ {i} : Record(j)' = Record(j) /\ (j \in Live' <=> j \in Live)
    BY <1>1, FileFrame
  <1>3. \A j \in Id \ {i} : Finished(j) => Finished(j)'
    BY <1>2 DEF Finished, ById, Known, Archived
  <1>4. Live' \subseteq Id /\ \A b : Finished(b) => b \in Id
    BY DEF Live, LiveIn, Finished, Known, Archived
  <1>5. \A b : b \notin Touched' /\ Finished(b) => Finished(b)'
    BY <1>3, <1>4 DEF Touched, Finished
  <1>6. Touched \subseteq Touched'
    BY DEF Touched
  <1> QED
    BY <1>2, <1>4, <1>5, <1>6
       DEF BlockInv, BlockersFinished, LiveOf, Touched, UnderWay, Finished

\* Tasks enter the workspace unstarted, so nothing is under way at first.
LEMMA InitBlockInv == Init => BlockInv
  <1> SUFFICES ASSUME Init PROVE BlockersFinished
    BY InitDriftInv DEF BlockInv
  <1>1. PICK first \in [Id -> UNION {Seeds[i] : i \in Id}] :
            /\ \A i \in Id : first[i] \in Seeds[i]
            /\ src = [i \in Id |-> [n \in FileNames |->
                                       IF n = "slug" THEN first[i] ELSE NoRecord]]
    BY DEF Init
  <1>2. ASSUME NEW i \in LiveOf("task") PROVE Record(i).status \notin UnderWay
    <2>1. i \in Id /\ KindOf[i] = "task" /\ first[i] # NoRecord /\ Record(i) = first[i]
      BY <1>1, <1>2 DEF LiveOf, Live, LiveIn, FilesOf, FileNames, Record, FileOf
    <2>2. Record(i).status = "unclaimed"
      BY <2>1, <1>1, SeedsAssumption
    <2> QED
      BY <2>2 DEF UnderWay
  <1> QED
    BY <1>2 DEF BlockersFinished, UnderWay

\* A step that touches neither sources nor archive keeps BlockersFinished.
LEMMA StillBlockers ==
    ASSUME BlockInv, UNCHANGED <<src, archive, handEdited, restarted>>
    PROVE  BlockersFinished'
  <1>1. Live' = Live /\ Known' = Known /\ \A i : Record(i)' = Record(i) /\ ById(i)' = ById(i)
    BY DEF Live, Known, Archived, Record, FileOf, ById
  <1> QED
    BY <1>1 DEF BlockInv, BlockersFinished, LiveOf

\* Every step keeps BlockersFinished.
LEMMA NextBlockInv == BlockInv /\ [Next]_vars => BlockInv'
  <1> SUFFICES ASSUME BlockInv, [Next]_vars PROVE BlockersFinished'
    BY NextDriftInv DEF BlockInv
  <1>a. SrcOK(src) /\ ArchiveOK(archive) /\ SecondFileRestarted
    BY TypeParts DEF BlockInv, DriftInv
  <1>b. \A i \in Id : KindOf[i] \in Kinds
    BY ConstantsAssumption
  <1>c. ASSUME NEW i \in Live, Record(i).status = "done"
        PROVE  /\ KindOf[i] = "task"
               /\ \A to : <<"done", to>> \notin LegalTransitions(KindOf[i])
    <2>1. i \in Id /\ "done" \in StatusSet(KindOf[i])
      BY <1>a, <1>c, LiveRecord DEF RecordOf, RecordWith
    <2> QED
      BY <2>1, <1>b, DoneIsFinal
  <1> USE DEF Optional
  <1>1. ASSUME NEW i \in Id, Scaffold(i) PROVE BlockersFinished'
    <2>1. src' = [src EXCEPT ![i]["slug"] = Template(i)] /\ Template(i) \in RecordOf(i)
      BY <1>1, TemplatesAreRecords DEF Scaffold
    <2>2. ASSUME i \notin Known, KindOf[i] = "task" PROVE Record(i)'.status \notin UnderWay
      <3>1. src[i]["id"] = NoRecord
        BY <2>2 DEF Known, Live, LiveIn, FilesOf, FileNames
      <3>2. src'[i]["id"] = NoRecord /\ src'[i]["slug"] = Template(i)
        BY <2>1, <3>1, <1>a DEF SrcOK, FileNames
      <3>3. Record(i)' = Template(i)
        BY <3>2 DEF Record, FileOf
      <3> QED
        BY <3>3, <2>2 DEF Template, BlankRecord, InitialStatus, UnderWay
    <2>3. i \in restarted' \/ i \notin Known
      BY <1>1 DEF Scaffold
    <2>4. restarted \subseteq restarted' /\ UNCHANGED <<archive, handEdited>>
      BY <1>1 DEF Scaffold
    <2> QED
      BY <2>1, <2>2, <2>3, <2>4, FileKeepsBlockers DEF FileNames
  <1>2. ASSUME NEW i \in Id, NEW t \in Id, CreatePlan(i, t) PROVE BlockersFinished'
    <2> DEFINE r == [BlankRecord(i) EXCEPT !.refs = {<<"task", t>>}]
    <2>1. {<<"task", t>>} \in SUBSET (RefFields \X Target) /\ BlankRecord(i) \in RecordOf(i)
      BY TemplatesAreRecords DEF RefFields, Target
    <2>2. r \in RecordOf(i)
      BY <2>1, RewrittenRecords
    <2>3. src' = [src EXCEPT ![i]["slug"] = r]
      BY <1>2 DEF CreatePlan
    <2> HIDE DEF r
    <2> QED
      BY <2>2, <2>3, <1>2, FileKeepsBlockers DEF CreatePlan, FileNames
  <1>3. ASSUME NEW i \in Id, NEW to \in StatusSet(KindOf[i]), Transition(i, to)
        PROVE  BlockersFinished'
    <2> DEFINE r == [Record(i) EXCEPT !.status = to]
    <2>1. /\ i \in Live /\ Record(i) \in RecordOf(i) /\ Valid
          /\ <<Record(i).status, to>> \in LegalTransitions(KindOf[i])
      BY <1>3, <1>a, LiveRecord DEF Transition, Ready
    <2>2. r \in RecordOf(i) /\ r.status = to /\ Blockers(r) = Blockers(Record(i))
      BY <2>1, StatusRewrite
    <2>3. /\ Record(i).status # "done" /\ Write(i, r)
          /\ UNCHANGED <<archive, handEdited, restarted>>
      BY <2>1, <1>3, <1>c DEF Transition
    <2> HIDE DEF r
    <2>4. CASE to = "in-progress" /\ KindOf[i] = "task"
      <3>1. \A b \in Blockers(Record(i)) : b \in Known => ById(b).status = "done"
        BY <2>4, <1>3 DEF Transition, DoD, TaskDoD, Blockers
      <3>2. \A b \in Blockers(r) : Finished(b)
        BY <3>1, <2>1, <2>2, <1>a, ValidBlockers DEF Finished, Known
      <3> QED
        BY <3>2, <2>1, <2>2, <2>3, RewriteKeepsBlockers
    <2>5. CASE to = "done"
      <3>1. Record(i).status \in UnderWay
        BY <2>1, <2>5, <1>b, DoneIsATaskStatus DEF UnderWay
      <3> QED
        BY <3>1, <2>1, <2>2, <2>3, RewriteKeepsBlockers
    <2>6. CASE to # "done" /\ ~(to = "in-progress" /\ KindOf[i] = "task")
      <3>1. KindOf[i] # "task" \/ r.status \notin UnderWay
        BY <2>2, <2>6 DEF UnderWay
      <3> QED
        BY <3>1, <2>1, <2>2, <2>3, RewriteKeepsBlockers
    <2> QED
      BY <2>4, <2>5, <2>6
  <1>4. ASSUME NEW i \in Id, NEW t \in Id, Link(i, t) PROVE BlockersFinished'
    <2>1. i \in Live /\ Write(i, Linked(i, t)) /\ UNCHANGED <<archive, handEdited, restarted>>
      BY <1>4 DEF Link
    <2>2. /\ Linked(i, t) \in RecordOf(i)
          /\ Linked(i, t).status = Record(i).status
          /\ Blockers(Linked(i, t)) = Blockers(Record(i))
      BY <2>1, <1>4, <1>a, LinkedRecord DEF Link, Blockers, Refs
    <2> QED
      BY <2>1, <2>2, RewriteKeepsBlockers
  <1>5. ASSUME NEW i \in Id, NEW v \in Id, Complete(i, v) PROVE BlockersFinished'
    <2>1. i \in Live /\ UNCHANGED <<archive, handEdited, restarted>>
      BY <1>5 DEF Complete
    <2>2. /\ Linked(i, v) \in RecordOf(i)
          /\ Linked(i, v).status = Record(i).status
          /\ Blockers(Linked(i, v)) = Blockers(Record(i))
      BY <2>1, <1>5, <1>a, LinkedRecord DEF Complete, Blockers, Refs
    <2>3. CASE Write(i, Linked(i, v))
      BY <2>1, <2>2, <2>3, RewriteKeepsBlockers
    <2>4. CASE /\ Write(i, [Linked(i, v) EXCEPT !.status = "done"])
               /\ Transitionable(i, Linked(i, v), "done")
      <3> DEFINE r == [Linked(i, v) EXCEPT !.status = "done"]
      <3>1. "done" \in StatusSet(KindOf[i]) /\ Record(i).status \in UnderWay
        BY <2>2, <2>4, <1>b, DoneIsATaskStatus DEF Transitionable, UnderWay
      <3>2. r \in RecordOf(i) /\ r.status = "done" /\ Blockers(r) = Blockers(Record(i))
        BY <2>2, <3>1, StatusRewrite
      <3>3. Write(i, r)
        BY <2>4
      <3> HIDE DEF r
      <3> QED
        BY <2>1, <3>1, <3>2, <3>3, RewriteKeepsBlockers
    <2> QED
      BY <2>3, <2>4, <1>5 DEF Complete
  <1>6. ASSUME NEW i \in Id, NEW a \in Actor, Start(i, a) PROVE BlockersFinished'
    <2> DEFINE claimed == IF Record(i).status = "unclaimed"
                            THEN [Record(i) EXCEPT !.refs = @ \cup {<<"claimed_by", a>>}]
                            ELSE Record(i)
               r == [claimed EXCEPT !.status = "in-progress"]
    <2>1. /\ i \in Live /\ Valid /\ Record(i) \in RecordOf(i)
          /\ "in-progress" \in StatusSet(KindOf[i])
          /\ Record(i).status # "done"
      BY <1>6, <1>a, LiveRecord DEF Start, Ready, StatusSet
    <2>2. claimed \in RecordOf(i) /\ Blockers(claimed) = Blockers(Record(i))
      BY <2>1, ClaimedRecord DEF RecordOf, RecordWith, Blockers, Refs
    <2>3. /\ r \in RecordOf(i) /\ r.status = "in-progress"
          /\ Blockers(r) = Blockers(Record(i))
      BY <2>1, <2>2, StatusRewrite
    <2>4. Write(i, r) /\ UNCHANGED <<archive, handEdited, restarted>>
      BY <1>6 DEF Start
    <2>5. \A b \in Blockers(Record(i)) : b \in Known => ById(b).status = "done"
      BY <1>6 DEF Start, CanStart, Blockers
    <2> HIDE DEF r, claimed
    <2>6. \A b \in Blockers(r) : Finished(b)
      BY <2>1, <2>3, <2>5, <1>a, ValidBlockers DEF Finished, Known
    <2> QED
      BY <2>1, <2>3, <2>4, <2>6, RewriteKeepsBlockers
  <1>7. ASSUME NEW i \in Id, NEW st \in Step, NEW to \in StepStatuses, PlanStep(i, st, to)
        PROVE  BlockersFinished'
    <2>1. i \in Live /\ Record(i) \in RecordOf(i) /\ KindOf[i] = "plan"
      BY <1>7, <1>a, LiveRecord DEF PlanStep, Ready
    <2>2. [Record(i) EXCEPT !.steps[st] = to] \in RecordOf(i)
      BY <2>1, RewrittenRecords
    <2>3. Record(i).status # "done"
      BY <2>1, <1>c
    <2> QED
      BY <2>1, <2>2, <2>3, <1>7, RewriteKeepsBlockers DEF PlanStep
  <1>8. ASSUME NEW i \in Id, Archive(i) PROVE BlockersFinished'
    BY <1>8, MoveKeepsBlockers DEF Archive, Eligible, Ready
  <1>9. ASSUME NEW i \in Id, ReleaseStep(i) PROVE BlockersFinished'
    <2>1. CASE Valid /\ MoveToArchive(i) /\ i \in Live
      BY <2>1, <1>9, MoveKeepsBlockers DEF ReleaseStep
    <2>2. CASE UNCHANGED <<src, archive>>
      BY <2>2, <1>9, StillBlockers DEF ReleaseStep
    <2> QED
      BY <2>1, <2>2, <1>9 DEF ReleaseStep, Eligible
  <1>10. ASSUME NEW i \in Id, Unarchive(i) PROVE BlockersFinished'
    <2>1. /\ src' = [src EXCEPT ![i]["id"] = Restored(i)] /\ i \in restarted'
          /\ UNCHANGED handEdited /\ restarted \subseteq restarted'
          /\ \A j \in Id \ {i} : archive'[j] = archive[j]
      BY <1>10, <1>a DEF Unarchive, ArchiveOK
    <2>2. Restored(i) \in RecordOf(i)
      BY <1>10, <1>a, RestoredRecord DEF Unarchive
    <2> QED
      BY <2>1, <2>2, FileKeepsBlockers DEF FileNames
  <1>11. ASSUME NEW i \in Id, NEW text \in AuthorText[i], Draft(i, text)
         PROVE  BlockersFinished'
    <2>1. /\ i \in Live /\ Write(i, Drafted(i, text))
          /\ UNCHANGED <<archive, handEdited, restarted>>
          /\ Record(i).status = InitialStatus(KindOf[i])
      BY <1>11 DEF Draft
    <2>2. /\ Drafted(i, text) \in RecordOf(i)
          /\ Drafted(i, text).status = Record(i).status
      BY <2>1, <1>a, DraftedRecord
    <2>3. KindOf[i] = "task" => Record(i).status \notin UnderWay
      BY <2>1 DEF InitialStatus, UnderWay
    <2> QED
      BY <2>1, <2>2, <2>3, RewriteKeepsBlockers
  <1>12. ASSUME NEW i \in Id, Repair(i) PROVE BlockersFinished'
    <2>1. UNCHANGED <<archive, handEdited, restarted>>
      BY <1>12 DEF Repair
    <2>2. ASSUME FilesOf(src, i) = FileNames, NEW n \in FileNames,
                 src' = [src EXCEPT ![i][n] = NoRecord]
          PROVE  BlockersFinished'
      <3>1. i \in restarted /\ NoRecord \in Optional(i)
        BY <2>2, <1>a DEF SecondFileRestarted
      <3> QED
        BY <3>1, <2>1, <2>2, FileKeepsBlockers
    <2>3. CASE i \in Live /\ Write(i, Repaired(i))
      <3>1. /\ Repaired(i) \in RecordOf(i)
            /\ Repaired(i).status = Record(i).status
            /\ Blockers(Repaired(i)) \subseteq Blockers(Record(i))
        BY <2>3, <1>a, RepairedRecord DEF Blockers, Refs
      <3> QED
        BY <3>1, <2>1, <2>3, RewriteKeepsBlockers
    <2> QED
      BY <2>2, <2>3, <1>12 DEF Repair
  <1>13. ASSUME NEW i \in Id, NEW to \in StatusSet(KindOf[i]), EditStatus(i, to)
         PROVE  BlockersFinished'
    <2>1. i \in Live /\ Record(i) \in RecordOf(i)
      BY <1>13, <1>a, LiveRecord DEF EditStatus
    <2>2. [Record(i) EXCEPT !.status = to] \in RecordOf(i)
      BY <2>1, RewrittenRecords
    <2>3. i \in handEdited' /\ handEdited \subseteq handEdited'
      BY <1>13 DEF EditStatus
    <2> QED
      BY <2>1, <2>2, <2>3, <1>13, RewriteKeepsBlockers DEF EditStatus
  <1>14. CASE BeginRelease
    BY <1>14, StillBlockers DEF BeginRelease
  <1>15. CASE Interrupt
    BY <1>15, StillBlockers DEF Interrupt
  <1>16. CASE UNCHANGED vars
    BY <1>16, StillBlockers DEF vars
  <1> QED
    BY <1>1, <1>2, <1>3, <1>4, <1>5, <1>6, <1>7, <1>8, <1>9, <1>10, <1>11, <1>12, <1>13,
       <1>14, <1>15, <1>16, ConstantsAssumption DEF Next, Command, Human

\* No task is in progress or done ahead of the tasks it is blocked by, in any
\* workspace and after any sequence of commands, unless a status was edited by
\* hand or one of the two began a second life (blockersSatisfied of the task
\* Definition of Done, can_start of the start packet).
THEOREM BlockersAreFinished == Spec => []BlockersFinished
  <1>1. BlockInv => BlockersFinished
    BY DEF BlockInv
  <1> QED
    BY <1>1, InitBlockInv, NextBlockInv, PTL DEF Spec
=============================================================================
