------------------------- MODULE SdlcFinishedProofs -------------------------
(***************************************************************************)
(* What holds of finished work in every SDLC workspace: its proof stays    *)
(* live, the archive holds nothing else, the Definition of Done is as      *)
(* strict as the validator, and a release drains what is archivable.       *)
(***************************************************************************)
EXTENDS SdlcWorkspaceProofs

\* The references a task must have before it is done.
ProofFields == {"satisfies", "acceptance_refs", "verification_refs"}

\* A record whose proof is present and leads to live records of its kinds.
Proved(r) ==
    \A field \in ProofFields :
        /\ Refs(r, field) # {}
        /\ \A t \in Refs(r, field) : t \in Live /\ KindOf[t] \in AllowedKinds(field)

DoneTasksProved ==
    \A i \in LiveOf("task") \ Touched : Record(i).status = "done" => Proved(Record(i))

\* Nothing but an archivable kind has ever been archived.
ArchivableOnly == \A i \in Archived : KindOf[i] \in ArchivableKinds

ProofInv == DriftInv /\ ArchivableOnly /\ DoneTasksProved
-----------------------------------------------------------------------------
(* What validity says of one record, and what an archivable status says. *)

\* The validator looked at the record a lookup of a live id finds.
LEMMA ValidRecord ==
    ASSUME SrcOK(src), Valid, NEW i \in Live
    PROVE  RecordValid(Live, i, Record(i))
  <1>1. FileOf(i) \in FilesOf(src, i) /\ Record(i) = src[i][FileOf(i)]
    BY LiveRecord DEF FilesOf
  <1> QED
    BY <1>1 DEF Valid, ValidIn, Live

\* What can be archived is of an archivable kind.
LEMMA EligibleIsArchivable ==
    ASSUME NEW i \in Id, Eligible(i)
    PROVE  i \in Live /\ KindOf[i] \in ArchivableKinds
  <1>1. KindOf[i] \in Kinds
    BY ConstantsAssumption
  <1> QED
    BY <1>1, StatusesOfKinds DEF Eligible

\* No field of a proof may name a record of an archivable kind.
LEMMA ProofKindsStay ==
    ASSUME NEW field \in ProofFields
    PROVE  AllowedKinds(field) \cap ArchivableKinds = {} /\ field # "claimed_by"
  BY DEF ProofFields, AllowedKinds, ArchivableKinds

\* A record that satisfies the Definition of Done of a done task and the
\* validator's rule on references is proved.
LEMMA DoneIsProved ==
    ASSUME NEW r, TaskDoD(r, "done"),
           \A field \in ProofFields : \A t \in Refs(r, field) : Resolves(Live, <<field, t>>)
    PROVE  Proved(r)
  BY ProofKindsStay DEF TaskDoD, Proved, ProofFields, Resolves

\* sdlc link gives a task's proof only live targets of the right kind: what is
\* archived is of another kind.
LEMMA LinkKeepsProof ==
    ASSUME SrcOK(src), ArchivableOnly, NEW i \in Live, NEW t \in Id, Linkable(i, t),
           KindOf[i] = "task"
    PROVE  LET field == LinkField("task", KindOf[t]) IN
               t \in Live /\ KindOf[t] \in AllowedKinds(field)
  <1>1. KindOf[t] \in {"requirement", "acceptance_criterion", "verification"}
    BY DEF Linkable, LinkField
  <1>2. KindOf[t] \notin ArchivableKinds
    BY <1>1 DEF ArchivableKinds
  <1>3. t \in Live
    BY <1>2 DEF Linkable, Known, ArchivableOnly
  <1> QED
    BY <1>1, <1>3 DEF LinkField, AllowedKinds
-----------------------------------------------------------------------------
(* ProofStaysLive: what the kinds of write do to it. *)

\* A rewrite keeps the proofs when the record it leaves is no done task's, or
\* is proved.
LEMMA RewriteKeepsProofs ==
    ASSUME ProofInv, NEW i \in Live, NEW r \in RecordOf(i), Write(i, r),
           UNCHANGED <<archive, restarted>>, handEdited \subseteq handEdited',
           \/ i \in handEdited'
           \/ KindOf[i] = "task" /\ r.status = "done" => Proved(r)
    PROVE  (ArchivableOnly /\ DoneTasksProved)'
  <1>1. SrcOK(src) /\ i \in Id
    BY TypeParts, LiveRecord DEF ProofInv, DriftInv
  <1>2. /\ Live' = Live
        /\ Record(i)' = r
        /\ \A j \in Id \ {i} : Record(j)' = Record(j)
    BY <1>1, WriteFrame
  <1>3. ArchivableOnly'
    BY DEF ProofInv, ArchivableOnly, Archived
  <1>4. \A j \in Id : (Proved(Record(j)))' <=> Proved(Record(j)')
    BY <1>2 DEF Proved
  <1>5. ASSUME NEW j \in Live, KindOf[j] = "task", j \notin Touched',
               Record(j)'.status = "done"
        PROVE  Proved(Record(j)')
    <2>1. j \notin Touched /\ j \in Id
      BY <1>5 DEF Touched, Live, LiveIn
    <2>2. CASE j = i
      BY <2>2, <1>2, <1>5 DEF Touched
    <2>3. CASE j # i
      BY <2>1, <2>3, <1>2, <1>5 DEF ProofInv, DoneTasksProved, LiveOf
    <2> QED
      BY <2>2, <2>3
  <1>6. DoneTasksProved'
    BY <1>2, <1>4, <1>5 DEF DoneTasksProved, LiveOf, Live, LiveIn
  <1> QED
    BY <1>3, <1>6

\* Archiving keeps them: what a proof refers to cannot be archived.
LEMMA MoveKeepsProofs ==
    ASSUME ProofInv, Valid, NEW i \in Id, Eligible(i), MoveToArchive(i),
           UNCHANGED <<handEdited, restarted>>
    PROVE  (ArchivableOnly /\ DoneTasksProved)'
  <1>1. SrcOK(src) /\ ArchiveOK(archive) /\ i \in Live /\ KindOf[i] \in ArchivableKinds
    BY TypeParts, EligibleIsArchivable DEF ProofInv, DriftInv
  <1>2. /\ Live' = Live \ {i}
        /\ \A j \in Id \ {i} : Record(j)' = Record(j) /\ archive'[j] = archive[j]
    BY <1>1, MoveFrame
  <1>3. ArchivableOnly'
    BY <1>1, <1>2 DEF ProofInv, ArchivableOnly, Archived
  <1>4. ASSUME NEW r, Proved(r) PROVE Proved(r)'
    BY <1>1, <1>2, <1>4, ProofKindsStay DEF Proved
  <1>5. DoneTasksProved'
    <2> SUFFICES ASSUME NEW j \in LiveOf("task")', j \notin Touched',
                        Record(j)'.status = "done"
                 PROVE  (Proved(Record(j)))'
      BY DEF DoneTasksProved
    <2>1. j \in LiveOf("task") /\ j # i /\ j \in Id /\ j \notin Touched
      BY <1>2 DEF LiveOf, Live, LiveIn, Touched
    <2>2. Record(j)' = Record(j) /\ Proved(Record(j))
      BY <2>1, <1>2 DEF ProofInv, DoneTasksProved
    <2>3. (Proved(Record(j)))' <=> \A field \in ProofFields :
              /\ Refs(Record(j)', field) # {}
              /\ \A t \in Refs(Record(j)', field) :
                     t \in Live' /\ KindOf[t] \in AllowedKinds(field)
      BY DEF Proved
    <2> QED
      BY <2>2, <2>3, <1>1, <1>2, ProofKindsStay DEF Proved
  <1> QED
    BY <1>3, <1>5

\* A file added or removed at i keeps them when i stays live and has begun a
\* second life or is no done task.
LEMMA FileKeepsProofs ==
    ASSUME ProofInv, NEW i \in Id, NEW n \in FileNames, NEW r \in Optional(i),
           src' = [src EXCEPT ![i][n] = r],
           UNCHANGED handEdited, restarted \subseteq restarted',
           \A j \in Id \ {i} : archive'[j] = archive[j],
           archive'[i] \in {archive[i], <<>>},
           i \in Live',
           i \in restarted' \/ Record(i)'.status # "done"
    PROVE  (ArchivableOnly /\ DoneTasksProved)'
  <1>1. SrcOK(src)
    BY TypeParts DEF ProofInv, DriftInv
  <1>2. \A j \in Id \ {i} : Record(j)' = Record(j) /\ (j \in Live' <=> j \in Live)
    BY <1>1, FileFrame
  <1>3. ArchivableOnly'
    BY DEF ProofInv, ArchivableOnly, Archived
  <1>4. Live \subseteq Live'
    BY <1>2 DEF Live, LiveIn
  <1>5. DoneTasksProved'
    <2> SUFFICES ASSUME NEW j \in LiveOf("task")', j \notin Touched',
                        Record(j)'.status = "done"
                 PROVE  (Proved(Record(j)))'
      BY DEF DoneTasksProved
    <2>1. j \in Id /\ j # i /\ j \notin Touched
      BY DEF LiveOf, Live, LiveIn, Touched
    <2>2. j \in LiveOf("task") /\ Record(j)' = Record(j)
      BY <2>1, <1>2 DEF LiveOf
    <2>3. Proved(Record(j))
      BY <2>1, <2>2 DEF ProofInv, DoneTasksProved
    <2> QED
      BY <2>2, <2>3, <1>4 DEF Proved
  <1> QED
    BY <1>3, <1>5

\* A step that touches neither sources nor archive keeps them.
LEMMA StillProofs ==
    ASSUME ProofInv, UNCHANGED <<src, archive, handEdited, restarted>>
    PROVE  (ArchivableOnly /\ DoneTasksProved)'
  <1>1. Live' = Live /\ Archived' = Archived /\ \A i : Record(i)' = Record(i)
    BY DEF Live, Archived, Record, FileOf
  <1> QED
    BY <1>1 DEF ProofInv, ArchivableOnly, DoneTasksProved, LiveOf, Proved, Touched

\* No task is done at first, and nothing is archived.
LEMMA InitProofInv == Init => ProofInv
  <1> SUFFICES ASSUME Init PROVE ArchivableOnly /\ DoneTasksProved
    BY InitDriftInv DEF ProofInv
  <1>1. PICK first \in [Id -> UNION {Seeds[i] : i \in Id}] :
            /\ \A i \in Id : first[i] \in Seeds[i]
            /\ src = [i \in Id |-> [n \in FileNames |->
                                       IF n = "slug" THEN first[i] ELSE NoRecord]]
    BY DEF Init
  <1>2. ASSUME NEW i \in LiveOf("task") PROVE Record(i).status # "done"
    <2>1. i \in Id /\ KindOf[i] = "task" /\ first[i] # NoRecord /\ Record(i) = first[i]
      BY <1>1, <1>2 DEF LiveOf, Live, LiveIn, FilesOf, FileNames, Record, FileOf
    <2> QED
      BY <2>1, <1>1, SeedsAssumption
  <1>3. Archived = {}
    BY DEF Init, Archived
  <1> QED
    BY <1>2, <1>3 DEF ArchivableOnly, DoneTasksProved

\* Every step keeps ProofInv.
LEMMA NextProofInv == ProofInv /\ [Next]_vars => ProofInv'
  <1> SUFFICES ASSUME ProofInv, [Next]_vars PROVE (ArchivableOnly /\ DoneTasksProved)'
    BY NextDriftInv DEF ProofInv
  <1> DEFINE Goal == ArchivableOnly /\ DoneTasksProved
  <1>a. SrcOK(src) /\ ArchiveOK(archive) /\ SecondFileRestarted /\ ArchivableOnly
    BY TypeParts DEF ProofInv, DriftInv
  <1>b. \A i \in Id : KindOf[i] \in Kinds
    BY ConstantsAssumption
  <1>c. ASSUME NEW i \in Live, i \notin Touched, KindOf[i] = "task",
               Record(i).status = "done"
        PROVE  Proved(Record(i))
    BY <1>c DEF ProofInv, DoneTasksProved, LiveOf
  <1> USE DEF Optional
  <1>1. ASSUME NEW i \in Id, Scaffold(i) PROVE Goal'
    <2>1. src' = [src EXCEPT ![i]["slug"] = Template(i)] /\ Template(i) \in RecordOf(i)
      BY <1>1, TemplatesAreRecords DEF Scaffold
    <2>2. src'[i]["slug"] = Template(i) /\ Template(i) # NoRecord
      BY <2>1, <1>a, RecordsAreRecords DEF SrcOK, FileNames
    <2>3. i \in Live'
      BY <2>2 DEF Live, LiveIn, FilesOf, FileNames
    <2>4. ASSUME i \notin Known PROVE Record(i)'.status # "done"
      <3>1. src[i]["id"] = NoRecord
        BY <2>4 DEF Known, Live, LiveIn, FilesOf, FileNames
      <3>2. Record(i)' = Template(i)
        BY <2>1, <2>2, <3>1, <1>a DEF SrcOK, FileNames, Record, FileOf
      <3>3. Template(i).status = InitialStatus(KindOf[i])
        BY DEF Template, BlankRecord
      <3> QED
        BY <3>2, <3>3 DEF InitialStatus
    <2>5. i \in restarted' \/ i \notin Known
      BY <1>1 DEF Scaffold
    <2>6. restarted \subseteq restarted' /\ UNCHANGED <<archive, handEdited>>
      BY <1>1 DEF Scaffold
    <2> QED
      BY <2>1, <2>3, <2>4, <2>5, <2>6, FileKeepsProofs DEF FileNames
  <1>2. ASSUME NEW i \in Id, NEW t \in Id, CreatePlan(i, t) PROVE Goal'
    <2> DEFINE r == [BlankRecord(i) EXCEPT !.refs = {<<"task", t>>}]
    <2>1. {<<"task", t>>} \in SUBSET (RefFields \X Target) /\ BlankRecord(i) \in RecordOf(i)
      BY TemplatesAreRecords DEF RefFields, Target
    <2>2. r \in RecordOf(i) /\ r.status = "draft"
      BY <2>1, <1>2, RewrittenRecords DEF BlankRecord, InitialStatus, CreatePlan
    <2>3. src' = [src EXCEPT ![i]["slug"] = r]
      BY <1>2 DEF CreatePlan
    <2> HIDE DEF r
    <2>4. src'[i]["slug"] = r /\ r # NoRecord
      BY <2>2, <2>3, <1>a, RecordsAreRecords DEF SrcOK, FileNames
    <2>5. i \in Live'
      BY <2>4 DEF Live, LiveIn, FilesOf, FileNames
    <2>6. src[i]["id"] = NoRecord
      BY <1>2 DEF CreatePlan, Known, Live, LiveIn, FilesOf, FileNames
    <2>7. Record(i)' = r
      BY <2>3, <2>4, <2>6, <1>a DEF SrcOK, FileNames, Record, FileOf
    <2> QED
      BY <2>2, <2>3, <2>5, <2>7, <1>2, FileKeepsProofs DEF CreatePlan, FileNames
  <1>3. ASSUME NEW i \in Id, NEW to \in StatusSet(KindOf[i]), Transition(i, to) PROVE Goal'
    <2> DEFINE r == [Record(i) EXCEPT !.status = to]
    <2>1. i \in Live /\ Record(i) \in RecordOf(i) /\ Valid /\ DoD(i, Record(i), to)
      BY <1>3, <1>a, LiveRecord DEF Transition, Ready
    <2>2. r \in RecordOf(i) /\ r.status = to /\ r.refs = Record(i).refs
      BY <2>1, RewrittenRecords DEF RecordOf, RecordWith
    <2>3. Write(i, r) /\ UNCHANGED <<archive, handEdited, restarted>>
      BY <1>3 DEF Transition
    <2> HIDE DEF r
    <2>4. ASSUME KindOf[i] = "task", r.status = "done" PROVE Proved(r)
      <3>1. TaskDoD(Record(i), "done")
        BY <2>1, <2>2, <2>4 DEF DoD
      <3>2. RecordValid(Live, i, Record(i))
        BY <2>1, <1>a, ValidRecord
      <3>3. Proved(Record(i))
        BY <3>1, <3>2, DoneIsProved DEF RecordValid, Refs
      <3> QED
        BY <3>3, <2>2 DEF Proved, Refs
    <2> QED
      BY <2>1, <2>2, <2>3, <2>4, RewriteKeepsProofs
  <1>4. ASSUME NEW i \in Live, NEW t \in Id, Linkable(i, t), Write(i, Linked(i, t)),
               UNCHANGED <<archive, handEdited, restarted>>
        PROVE  Goal'
    <2>1. /\ Linked(i, t) \in RecordOf(i)
          /\ Linked(i, t).status = Record(i).status
          /\ Linked(i, t).refs = Record(i).refs \cup {<<LinkField(KindOf[i], KindOf[t]), t>>}
      BY <1>4, <1>a, LinkedRecord
    <2>2. CASE i \in Touched
      \* a touched id's record is not asked to be proved
      <3>1. DoneTasksProved' /\ ArchivableOnly'
        <4>1. /\ Live' = Live
              /\ \A j \in Id \ {i} : Record(j)' = Record(j)
          BY <1>4, <1>a, <2>1, WriteFrame
        <4>2. Touched' = Touched
          BY <1>4 DEF Touched
        <4> QED
          BY <4>1, <4>2, <2>2, <1>4, <1>a
             DEF ProofInv, DoneTasksProved, Proved, LiveOf, Live, LiveIn, ArchivableOnly, Archived
      <3> QED
        BY <3>1
    <2>3. CASE i \notin Touched
      <3>1. ASSUME KindOf[i] = "task", Linked(i, t).status = "done" PROVE Proved(Linked(i, t))
        <4>1. Proved(Record(i))
          BY <2>1, <2>3, <3>1, <1>c
        <4>2. t \in Live /\ KindOf[t] \in AllowedKinds(LinkField("task", KindOf[t]))
          BY <3>1, <1>4, <1>a, LinkKeepsProof
        <4>3. \A field \in ProofFields :
                  Refs(Linked(i, t), field) = Refs(Record(i), field)
                      \cup (IF field = LinkField("task", KindOf[t]) THEN {t} ELSE {})
          BY <2>1, <3>1 DEF Refs, Target
        <4> QED
          BY <4>1, <4>2, <4>3 DEF Proved
      <3> QED
        BY <2>1, <3>1, <1>4, RewriteKeepsProofs
    <2> QED
      BY <2>2, <2>3
  <1>5. ASSUME NEW i \in Id, NEW v \in Id, Complete(i, v) PROVE Goal'
    <2>1. /\ i \in Live /\ Valid /\ Linkable(i, v)
          /\ UNCHANGED <<archive, handEdited, restarted>>
      BY <1>5 DEF Complete, Ready
    <2>2. CASE Write(i, Linked(i, v))
      BY <2>1, <2>2, <1>4
    <2>3. CASE /\ Write(i, [Linked(i, v) EXCEPT !.status = "done"])
               /\ Transitionable(i, Linked(i, v), "done")
      <3> DEFINE r == [Linked(i, v) EXCEPT !.status = "done"]
      <3>1. KindOf[i] = "task" /\ "done" \in StatusSet(KindOf[i])
        BY <2>3, <1>b, DoneIsATaskStatus DEF Transitionable
      <3>2. /\ Linked(i, v) \in RecordOf(i)
            /\ Linked(i, v).refs = Record(i).refs \cup {<<LinkField(KindOf[i], KindOf[v]), v>>}
        BY <2>1, <1>a, LinkedRecord
      <3>3. r \in RecordOf(i) /\ r.refs = Linked(i, v).refs
        BY <3>1, <3>2, RewrittenRecords DEF RecordOf, RecordWith
      <3>4. Write(i, r)
        BY <2>3
      <3> HIDE DEF r
      <3>5. TaskDoD(Linked(i, v), "done")
        BY <2>3, <3>1 DEF Transitionable, DoD
      <3>6. RecordValid(Live, i, Record(i))
        BY <2>1, <1>a, ValidRecord
      <3>7. v \in Live /\ KindOf[v] \in AllowedKinds(LinkField("task", KindOf[v]))
        BY <2>1, <3>1, <1>a, LinkKeepsProof
      <3>8. ASSUME NEW field \in ProofFields, NEW t \in Refs(Linked(i, v), field)
            PROVE  Resolves(Live, <<field, t>>)
        BY <3>1, <3>2, <3>6, <3>7 DEF RecordValid, Refs, Resolves
      <3>9. Proved(Linked(i, v))
        BY <3>5, <3>8, DoneIsProved
      <3>10. Proved(r)
        BY <3>3, <3>9 DEF Proved, Refs
      <3> QED
        BY <2>1, <3>3, <3>4, <3>10, RewriteKeepsProofs
    <2> QED
      BY <2>2, <2>3, <1>5 DEF Complete
  <1>6. ASSUME NEW i \in Id, NEW a \in Actor, Start(i, a) PROVE Goal'
    <2> DEFINE claimed == IF Record(i).status = "unclaimed"
                            THEN [Record(i) EXCEPT !.refs = @ \cup {<<"claimed_by", a>>}]
                            ELSE Record(i)
               r == [claimed EXCEPT !.status = "in-progress"]
    <2>1. i \in Live /\ Record(i) \in RecordOf(i) /\ "in-progress" \in StatusSet(KindOf[i])
      BY <1>6, <1>a, LiveRecord DEF Start, Ready, StatusSet
    <2>2. claimed \in RecordOf(i)
      BY <2>1, ClaimedRecord
    <2>3. r \in RecordOf(i) /\ r.status = "in-progress"
      BY <2>1, <2>2, StatusRewrite
    <2>4. Write(i, r) /\ UNCHANGED <<archive, handEdited, restarted>>
      BY <1>6 DEF Start
    <2> HIDE DEF r, claimed
    <2> QED
      BY <2>1, <2>3, <2>4, RewriteKeepsProofs
  <1>7. ASSUME NEW i \in Id, NEW st \in Step, NEW to \in StepStatuses, PlanStep(i, st, to)
        PROVE  Goal'
    <2>1. i \in Live /\ Record(i) \in RecordOf(i) /\ KindOf[i] = "plan"
      BY <1>7, <1>a, LiveRecord DEF PlanStep, Ready
    <2>2. [Record(i) EXCEPT !.steps[st] = to] \in RecordOf(i)
      BY <2>1, RewrittenRecords
    <2> QED
      BY <2>1, <2>2, <1>7, RewriteKeepsProofs DEF PlanStep
  <1>8. ASSUME NEW i \in Id, Archive(i) PROVE Goal'
    BY <1>8, MoveKeepsProofs DEF Archive, Ready
  <1>9. ASSUME NEW i \in Id, ReleaseStep(i) PROVE Goal'
    <2>1. CASE Valid /\ Eligible(i)
      BY <2>1, <1>9, MoveKeepsProofs DEF ReleaseStep
    <2>2. CASE UNCHANGED <<src, archive>>
      BY <2>2, <1>9, StillProofs DEF ReleaseStep
    <2> QED
      BY <2>1, <2>2, <1>9 DEF ReleaseStep
  <1>10. ASSUME NEW i \in Id, Unarchive(i) PROVE Goal'
    <2>1. /\ src' = [src EXCEPT ![i]["id"] = Restored(i)] /\ i \in restarted'
          /\ UNCHANGED handEdited /\ restarted \subseteq restarted'
          /\ archive' = [archive EXCEPT ![i] = <<>>]
      BY <1>10 DEF Unarchive
    <2>2. archive'[i] = <<>> /\ \A j \in Id \ {i} : archive'[j] = archive[j]
      BY <2>1, <1>a DEF ArchiveOK
    <2>3. Restored(i) \in RecordOf(i)
      BY <1>10, <1>a, RestoredRecord DEF Unarchive
    <2>4. i \in Live'
      BY <2>1, <2>3, <1>a, RecordsAreRecords DEF SrcOK, FileNames, Live, LiveIn, FilesOf
    <2> QED
      BY <2>1, <2>2, <2>3, <2>4, FileKeepsProofs DEF FileNames
  <1>11. ASSUME NEW i \in Id, NEW text \in AuthorText[i], Draft(i, text) PROVE Goal'
    <2>1. /\ i \in Live /\ Write(i, Drafted(i, text))
          /\ UNCHANGED <<archive, handEdited, restarted>>
          /\ Record(i).status = InitialStatus(KindOf[i])
      BY <1>11 DEF Draft
    <2>2. Drafted(i, text) \in RecordOf(i) /\ Drafted(i, text).status = Record(i).status
      BY <2>1, <1>a, DraftedRecord
    <2>3. Drafted(i, text).status # "done"
      BY <2>1, <2>2 DEF InitialStatus
    <2> QED
      BY <2>1, <2>2, <2>3, RewriteKeepsProofs
  <1>12. ASSUME NEW i \in Id, Repair(i) PROVE Goal'
    <2>1. UNCHANGED <<archive, handEdited, restarted>>
      BY <1>12 DEF Repair
    <2>2. ASSUME FilesOf(src, i) = FileNames, NEW n \in FileNames,
                 src' = [src EXCEPT ![i][n] = NoRecord]
          PROVE  Goal'
      <3>1. i \in restarted /\ NoRecord \in Optional(i)
        BY <2>2, <1>a DEF SecondFileRestarted
      <3>2. PICK m \in FileNames : m # n
        BY DEF FileNames
      <3>3. src'[i][m] = src[i][m] /\ src[i][m] # NoRecord
        BY <2>2, <3>1, <3>2, <1>a, FileFrame DEF FilesOf
      <3>4. i \in Live'
        BY <3>3 DEF Live, LiveIn, FilesOf
      <3> QED
        BY <3>1, <3>4, <2>1, <2>2, FileKeepsProofs
    <2>3. CASE i \in Live /\ Write(i, Repaired(i))
      <3>1. /\ Repaired(i) \in RecordOf(i)
            /\ Repaired(i).status = Record(i).status
            /\ Repaired(i).refs = {ref \in Record(i).refs : Resolves(Live, ref)}
        BY <2>3, <1>a, RepairedRecord
      <3>2. ASSUME Proved(Record(i)) PROVE Proved(Repaired(i))
        <4>1. \A field \in ProofFields : Refs(Repaired(i), field) = Refs(Record(i), field)
          BY <3>1, <3>2 DEF Proved, Refs, Resolves
        <4> QED
          BY <4>1, <3>2 DEF Proved
      <3>3. /\ Live' = Live /\ Record(i)' = Repaired(i)
            /\ \A j \in Id \ {i} : Record(j)' = Record(j)
        BY <2>3, <3>1, <1>a, WriteFrame
      <3>4. ASSUME NEW j \in LiveOf("task") \ Touched, Record(j)'.status = "done"
            PROVE  Proved(Record(j)')
        <4>1. Proved(Record(j))
          BY <3>1, <3>3, <3>4 DEF ProofInv, DoneTasksProved, LiveOf, Live, LiveIn
        <4> QED
          BY <4>1, <3>2, <3>3, <3>4 DEF LiveOf, Live, LiveIn
      <3> QED
        BY <3>3, <3>4, <2>1, <1>a
           DEF DoneTasksProved, ArchivableOnly, Archived, LiveOf, Proved, Touched
    <2> QED
      BY <2>2, <2>3, <1>12 DEF Repair
  <1>13. ASSUME NEW i \in Id, NEW to \in StatusSet(KindOf[i]), EditStatus(i, to) PROVE Goal'
    <2>1. i \in Live /\ Record(i) \in RecordOf(i)
      BY <1>13, <1>a, LiveRecord DEF EditStatus
    <2>2. [Record(i) EXCEPT !.status = to] \in RecordOf(i)
      BY <2>1, RewrittenRecords
    <2>3. i \in handEdited' /\ handEdited \subseteq handEdited'
      BY <1>13 DEF EditStatus
    <2> QED
      BY <2>1, <2>2, <2>3, <1>13, RewriteKeepsProofs DEF EditStatus
  <1>14. CASE BeginRelease
    BY <1>14, StillProofs DEF BeginRelease
  <1>15. CASE Interrupt
    BY <1>15, StillProofs DEF Interrupt
  <1>16. CASE UNCHANGED vars
    BY <1>16, StillProofs DEF vars
  <1>17. ASSUME NEW i \in Id, NEW t \in Id, Link(i, t) PROVE Goal'
    BY <1>17, <1>4 DEF Link
  <1> QED
    BY <1>1, <1>2, <1>3, <1>5, <1>6, <1>7, <1>8, <1>9, <1>10, <1>11, <1>12, <1>13,
       <1>14, <1>15, <1>16, <1>17, ConstantsAssumption DEF Next, Command, Human

\* A finished task keeps its proof: in every workspace and after any commands,
\* the requirement, criterion and verification references of a done task are
\* there and lead to live records, unless its status was edited by hand or it
\* began a second life (task Definition of Done, isArchivableKind).
THEOREM FinishedTasksStayProved == Spec => []ProofStaysLive
  <1>1. ProofInv => ProofStaysLive
    BY DEF ProofInv, DoneTasksProved, ProofStaysLive, Proved, ProofFields, Touched
  <1> QED
    BY <1>1, InitProofInv, NextProofInv, PTL DEF Spec
-----------------------------------------------------------------------------
(* ArchivedWorkFinished: the archive is a record of finished work. *)

\* What ArchivedWorkFinished asks of one snapshot of an undisturbed id.
FinishedSnapshot(i, r) ==
    /\ KindOf[i] = "task" =>
           /\ r.status = "done"
           /\ \A field \in {"claimed_by", "satisfies", "acceptance_refs",
                            "verification_refs"} : Refs(r, field) # {}
    /\ KindOf[i] = "plan" /\ r.status = "complete" =>
           \A st \in Step : r.steps[st] \in FinishedSteps
    /\ KindOf[i] = "bug" /\ r.status = "verified" =>
           Refs(r, "fixed_in_verification") # {}

ArchivedInv == ProofInv /\ ArchivedWorkFinished

\* archiveStatement accepts finished work only: the status is archivable, the
\* workspace is valid, and a done task is proved.
LEMMA EligibleIsFinished ==
    ASSUME ProofInv, Valid, NEW i \in Id, Eligible(i), i \notin Touched
    PROVE  FinishedSnapshot(i, Record(i))
  <1>1. SrcOK(src) /\ i \in Live
    BY TypeParts, EligibleIsArchivable DEF ProofInv, DriftInv
  <1>2. RecordValid(Live, i, Record(i))
    BY <1>1, ValidRecord
  <1>3. ASSUME KindOf[i] = "task"
        PROVE  Record(i).status = "done" /\ Proved(Record(i))
    <2>1. Record(i).status = "done"
      BY <1>3 DEF Eligible, ArchivableStatuses
    <2> QED
      BY <2>1, <1>1, <1>3 DEF ProofInv, DoneTasksProved, LiveOf
  <1> QED
    BY <1>2, <1>3 DEF RecordValid, Proved, ProofFields, FinishedSnapshot

\* Archiving keeps ArchivedWorkFinished.
LEMMA MoveKeepsFinished ==
    ASSUME ArchivedInv, Valid, NEW i \in Id, Eligible(i), MoveToArchive(i),
           UNCHANGED <<handEdited, restarted>>
    PROVE  ArchivedWorkFinished'
  <1>1. SrcOK(src) /\ ArchiveOK(archive) /\ i \in Live
    BY TypeParts, EligibleIsArchivable DEF ArchivedInv, ProofInv, DriftInv
  <1>2. archive[i] \in Seq(AnyRecord) /\ Record(i) \in AnyRecord
    BY <1>1, LiveRecord, RecordsAreRecords DEF ArchiveOK
  <1>3. /\ archive'[i] = Append(archive[i], Record(i))
        /\ \A j \in Id \ {i} : archive'[j] = archive[j]
    BY <1>1 DEF MoveToArchive, ArchiveOK
  <1>4. SUFFICES ASSUME NEW j \in Id, j \notin Touched, NEW k \in 1..Len(archive'[j])
                 PROVE  FinishedSnapshot(j, archive'[j][k])
    BY DEF ArchivedWorkFinished, FinishedSnapshot, Touched, Refs
  <1>5. \A l \in 1..Len(archive[j]) : FinishedSnapshot(j, archive[j][l])
    BY <1>4 DEF ArchivedInv, ArchivedWorkFinished, FinishedSnapshot, Touched
  <1>6. CASE j # i
    BY <1>3, <1>5, <1>6
  <1>7. CASE j = i /\ k = Len(archive[i]) + 1
    <2>1. archive'[j][k] = Record(i)
      BY <1>2, <1>3, <1>7
    <2> QED
      BY <2>1, <1>4, <1>7, EligibleIsFinished DEF ArchivedInv
  <1>8. CASE j = i /\ k # Len(archive[i]) + 1
    <2>1. k \in 1..Len(archive[i]) /\ archive'[i][k] = archive[i][k]
      BY <1>2, <1>3, <1>4, <1>8
    <2> QED
      BY <2>1, <1>5, <1>8
  <1> QED
    BY <1>6, <1>7, <1>8

\* So does every step that adds no snapshot.
LEMMA NoSnapshotKeepsFinished ==
    ASSUME ArchivedInv, \A j \in Id : archive'[j] \in {archive[j], <<>>},
           handEdited \subseteq handEdited', restarted \subseteq restarted'
    PROVE  ArchivedWorkFinished'
  <1> SUFFICES ASSUME NEW j \in Id, j \notin Touched', NEW k \in 1..Len(archive'[j])
               PROVE  FinishedSnapshot(j, archive'[j][k])
    BY DEF ArchivedWorkFinished, FinishedSnapshot, Touched, Refs
  <1>1. j \notin Touched
    BY DEF Touched
  <1>2. archive'[j] = archive[j]
    OBVIOUS
  <1> QED
    BY <1>1, <1>2 DEF ArchivedInv, ArchivedWorkFinished, FinishedSnapshot, Touched

\* Every step keeps ArchivedInv.
LEMMA NextArchivedInv == ArchivedInv /\ [Next]_vars => ArchivedInv'
  <1> SUFFICES ASSUME ArchivedInv, [Next]_vars PROVE ArchivedWorkFinished'
    BY NextProofInv DEF ArchivedInv
  <1>1. ASSUME NEW i \in Id, Archive(i) PROVE ArchivedWorkFinished'
    BY <1>1, MoveKeepsFinished DEF Archive, Ready
  <1>2. ASSUME NEW i \in Id, ReleaseStep(i), Valid, Eligible(i) PROVE ArchivedWorkFinished'
    BY <1>2, MoveKeepsFinished DEF ReleaseStep
  <1>3. ASSUME NEW i \in Id, Unarchive(i) PROVE ArchivedWorkFinished'
    <2>1. \A j \in Id : archive'[j] = IF j = i THEN <<>> ELSE archive[j]
      BY <1>3, TypeParts DEF Unarchive, ArchivedInv, ProofInv, DriftInv, ArchiveOK
    <2> QED
      BY <2>1, <1>3, NoSnapshotKeepsFinished DEF Unarchive
  <1>4. CASE /\ UNCHANGED archive
             /\ handEdited \subseteq handEdited' /\ restarted \subseteq restarted'
    BY <1>4, NoSnapshotKeepsFinished
  <1>5. ASSUME NEW i \in Id, Command(i)
        PROVE  \/ Archive(i) \/ Unarchive(i)
               \/ ReleaseStep(i) /\ Valid /\ Eligible(i)
               \/ /\ UNCHANGED archive
                  /\ handEdited \subseteq handEdited' /\ restarted \subseteq restarted'
    BY <1>5 DEF Command, Scaffold, CreatePlan, Transition, Link, Complete, Start, PlanStep,
                ReleaseStep
  <1>6. ASSUME NEW i \in Id, Human(i)
        PROVE  /\ UNCHANGED archive
               /\ handEdited \subseteq handEdited' /\ restarted \subseteq restarted'
    BY <1>6 DEF Human, Draft, Repair, EditStatus
  <1>7. CASE BeginRelease
    BY <1>4, <1>7 DEF BeginRelease
  <1>8. CASE Interrupt
    BY <1>4, <1>8 DEF Interrupt
  <1>9. CASE UNCHANGED vars
    BY <1>4, <1>9 DEF vars
  <1> QED
    BY <1>1, <1>2, <1>3, <1>4, <1>5, <1>6, <1>7, <1>8, <1>9, ConstantsAssumption DEF Next

\* The archive is a record of finished work: every snapshot of an undisturbed
\* id is a done task that is claimed and proved, a plan whose steps are
\* finished if it is complete, or a bug with its verification if it is
\* verified (isArchivableStatus and the validation archiveStatement runs).
THEOREM ArchiveHoldsFinishedWork == Spec => []ArchivedWorkFinished
  <1>1. Init => ArchivedInv
    <2>1. Init => \A i \in Id : Len(archive[i]) = 0
      BY DEF Init
    <2>2. Init => ArchivedWorkFinished
      BY <2>1 DEF ArchivedWorkFinished
    <2> QED
      BY <2>2, InitProofInv DEF ArchivedInv
  <1>2. ArchivedInv => ArchivedWorkFinished
    BY DEF ArchivedInv
  <1> QED
    BY <1>1, <1>2, NextArchivedInv, PTL DEF Spec
-----------------------------------------------------------------------------
(* TransitionKeepsValid: the Definition of Done covers the validator. *)

\* A valid record written over a live one leaves a valid workspace valid.
LEMMA ValidAfterWrite ==
    ASSUME SrcOK(src), Valid, NEW i \in Live, NEW r \in RecordOf(i), Write(i, r),
           RecordValid(Live, i, r)
    PROVE  Valid'
  <1>1. /\ Live' = Live
        /\ \A j \in Id : FilesOf(src, j)' = FilesOf(src, j)
    BY WriteFrame
  <1>2. i \in Id /\ FileOf(i) \in FileNames
    BY LiveRecord
  <1>3. \A j \in Id : \A n \in FileNames :
            src'[j][n] = IF j = i /\ n = FileOf(i) THEN r ELSE src[j][n]
    BY <1>2 DEF Write, SrcOK
  <1>4. ASSUME NEW j \in Live
        PROVE  /\ FilesOf(src, j) # FileNames
               /\ \A n \in FilesOf(src, j) : RecordValid(Live, j, src[j][n])
    BY DEF Valid, ValidIn, Live
  <1>5. ASSUME NEW j \in Live, NEW n \in FilesOf(src, j)
        PROVE  RecordValid(Live, j, src'[j][n])
    BY <1>3, <1>4, <1>5 DEF FilesOf, Live, LiveIn
  <1>6. Live = LiveIn(src) /\ LiveIn(src') = Live /\ Live \subseteq Id
    BY <1>1 DEF Live, LiveIn
  <1>7. \A j \in Id : FilesOf(src', j) = FilesOf(src, j)
    BY <1>1 DEF FilesOf
  <1>8. ValidIn(src')
    BY <1>4, <1>5, <1>6, <1>7 DEF ValidIn
  <1> QED
    BY <1>8 DEF Valid

\* The Definition of Done of a status covers what the validator asks of a
\* record in that status, for every kind but a pitch.
LEMMA DoDCoversValidity ==
    ASSUME NEW i \in Id, NEW r \in RecordOf(i), NEW to \in StatusSet(KindOf[i]),
           KindOf[i] # "pitch", RecordValid(Live, i, r), DoD(i, r, to)
    PROVE  RecordValid(Live, i, [r EXCEPT !.status = to])
  <1> DEFINE s == [r EXCEPT !.status = to]
  <1>1. /\ s.status = to /\ s.refs = r.refs /\ s.fill = r.fill
        /\ s.steps = r.steps /\ s.quoted = r.quoted
    BY DEF RecordOf, RecordWith
  <1> HIDE DEF s
  <1>2. \A field : Refs(s, field) = Refs(r, field)
    BY <1>1 DEF Refs
  <1>3. KindOf[i] = "task" /\ to \in {"claimed", "in-progress", "done"}
            => Refs(r, "claimed_by") # {}
    BY DEF DoD, TaskDoD
  <1>4. KindOf[i] = "bug" /\ to = "verified" => Refs(r, "fixed_in_verification") # {}
    BY DEF DoD, BugDoD
  <1>5. KindOf[i] = "plan" /\ to = "complete"
            => \A st \in Step : r.steps[st] \in FinishedSteps
    BY DEF DoD, PlanDoD
  <1>6. RecordValid(Live, i, s)
    BY <1>1, <1>2, <1>3, <1>4, <1>5 DEF RecordValid
  <1> QED
    BY <1>6 DEF s

\* A step of the transition commands is as the property says.
LEMMA ValidStep ==
    ASSUME TypeOK, [Next]_vars, Valid, NEW k \in Id, KindOf[k] # "pitch", last'[k] # last[k]
    PROVE  Valid'
  <1>a. SrcOK(src) /\ last \in [Id -> AnyStatus \cup {"none"}]
    BY TypeParts
  <1>b. \A i \in Id : KindOf[i] \in Kinds
    BY ConstantsAssumption
  <1>1. ASSUME NEW i \in Id, NEW to \in StatusSet(KindOf[i]), Transition(i, to) PROVE Valid'
    <2> DEFINE r == [Record(i) EXCEPT !.status = to]
    <2>1. i = k
      BY <1>1, <1>a DEF Transition, Recorded
    <2>2. i \in Live /\ Record(i) \in RecordOf(i) /\ DoD(i, Record(i), to) /\ Write(i, r)
      BY <1>1, <1>a, LiveRecord DEF Transition
    <2>3. RecordValid(Live, i, Record(i))
      BY <2>2, <1>a, ValidRecord
    <2>4. r \in RecordOf(i) /\ RecordValid(Live, i, r)
      BY <2>1, <2>2, <2>3, RewrittenRecords, DoDCoversValidity
    <2> HIDE DEF r
    <2> QED
      BY <2>2, <2>4, <1>a, ValidAfterWrite
  <1>2. ASSUME NEW i \in Id, NEW v \in Id, Complete(i, v) PROVE Valid'
    <2> DEFINE r == [Linked(i, v) EXCEPT !.status = "done"]
               relinked == [src EXCEPT ![i][FileOf(i)] = Linked(i, v)]
    <2>1. /\ i \in Live /\ Linkable(i, v) /\ ValidIn(relinked)
          /\ Transitionable(i, Linked(i, v), "done") /\ Write(i, r) /\ Recorded(i, "done")
      BY <1>2 DEF Complete
    <2>2. KindOf[i] = "task" /\ "done" \in StatusSet(KindOf[i]) /\ DoD(i, Linked(i, v), "done")
      BY <2>1, <1>b, DoneIsATaskStatus DEF Transitionable
    <2>3. Linked(i, v) \in RecordOf(i) /\ Linked(i, v) # NoRecord
      BY <2>1, <1>a, LinkedRecord, RecordsAreRecords
    <2>4. /\ FileOf(i) \in FileNames /\ src[i][FileOf(i)] # NoRecord
      BY <2>1, <1>a, LiveRecord
    <2>5. \A j \in Id : \A n \in FileNames :
              /\ relinked[j][n] = IF j = i /\ n = FileOf(i) THEN Linked(i, v) ELSE src[j][n]
              /\ relinked[j][n] = NoRecord <=> src[j][n] = NoRecord
      BY <2>3, <2>4, <1>a DEF SrcOK
    <2> HIDE DEF relinked
    <2>6. \A j \in Id : FilesOf(relinked, j) = FilesOf(src, j)
      BY <2>5 DEF FilesOf
    <2>7. LiveIn(relinked) = Live
      BY <2>6 DEF Live, LiveIn
    <2>8. FileOf(i) \in FilesOf(relinked, i) /\ relinked[i][FileOf(i)] = Linked(i, v)
      BY <2>4, <2>5, <2>6 DEF FilesOf
    <2>9. RecordValid(Live, i, Linked(i, v))
      BY <2>1, <2>7, <2>8 DEF ValidIn
    <2>10. r \in RecordOf(i) /\ RecordValid(Live, i, r)
      BY <2>2, <2>3, <2>9, RewrittenRecords, DoDCoversValidity
    <2> HIDE DEF r
    <2> QED
      BY <2>1, <2>10, <1>a, ValidAfterWrite
  <1>3. ASSUME NEW i \in Id, NEW a \in Actor, Start(i, a) PROVE Valid'
    <2> DEFINE claimed == IF Record(i).status = "unclaimed"
                            THEN [Record(i) EXCEPT !.refs = @ \cup {<<"claimed_by", a>>}]
                            ELSE Record(i)
               r == [claimed EXCEPT !.status = "in-progress"]
    <2>1. /\ i \in Live /\ Record(i) \in RecordOf(i) /\ KindOf[i] = "task"
          /\ "in-progress" \in StatusSet(KindOf[i]) /\ Write(i, r)
          /\ Record(i).status \in {"unclaimed", "claimed"}
      BY <1>3, <1>a, LiveRecord DEF Start, Ready, StatusSet
    <2>2. RecordValid(Live, i, Record(i))
      BY <2>1, <1>a, ValidRecord
    <2>3. claimed \in RecordOf(i)
      BY <2>1, ClaimedRecord
    <2>4. /\ claimed.refs \subseteq Record(i).refs \cup {<<"claimed_by", a>>}
          /\ claimed.quoted = Record(i).quoted
      BY <2>1 DEF RecordOf, RecordWith
    <2>5. Refs(claimed, "claimed_by") # {}
      <3>1. CASE Record(i).status = "unclaimed"
        <4>1. <<"claimed_by", a>> \in claimed.refs
          BY <3>1, <2>1 DEF RecordOf, RecordWith
        <4> QED
          BY <4>1 DEF Refs, Target
      <3>2. CASE Record(i).status = "claimed"
        BY <3>2, <2>1, <2>2 DEF RecordValid
      <3> QED
        BY <3>1, <3>2, <2>1
    <2>6. /\ r \in RecordOf(i) /\ r.status = "in-progress" /\ r.refs = claimed.refs
          /\ r.quoted = claimed.quoted
      BY <2>1, <2>3, RewrittenRecords DEF RecordOf, RecordWith
    <2> HIDE DEF r, claimed
    <2>7. RecordValid(Live, i, r)
      <3>1. \A ref \in r.refs : Resolves(Live, ref) /\ ref # <<"blocked_by", i>>
        BY <2>2, <2>4, <2>6 DEF RecordValid, Resolves
      <3>2. RequiredRefs(KindOf[i]) = {}
        BY <2>1 DEF RequiredRefs
      <3>3. Refs(r, "claimed_by") # {} /\ ~r.quoted
        BY <2>2, <2>4, <2>5, <2>6 DEF RecordValid, Refs
      <3> QED
        BY <2>1, <3>1, <3>2, <3>3 DEF RecordValid
    <2> QED
      BY <2>1, <2>6, <2>7, <1>a, ValidAfterWrite
  <1> QED
    BY <1>1, <1>2, <1>3, ConstantsAssumption
       DEF Next, vars, Command, Human, Scaffold, CreatePlan, Link, PlanStep, Archive, ReleaseStep,
           Unarchive, Draft, Repair, EditStatus, BeginRelease, Interrupt

\* A transition never turns a valid workspace into one every command refuses:
\* the Definition of Done (dod/*.js) asks for all the validator does, for every
\* kind but a pitch.
THEOREM TransitionsKeepWorkspacesValid == Spec => TransitionKeepsValid
  <1>1. TypeOK /\ [Next]_vars =>
            [Valid /\ (\E i \in Id : KindOf[i] # "pitch" /\ last'[i] # last[i]) => Valid']_vars
    BY ValidStep
  <1> QED
    BY <1>1, InitTypeOK, NextTypeOK, PTL DEF Spec, TransitionKeepsValid
-----------------------------------------------------------------------------
(* ReleaseDrains: a release in a workspace that stays valid leaves nothing. *)

\* While a release runs in a valid workspace, its candidates are all that can
\* be archived: nothing becomes archivable, and only an invalid workspace makes
\* it pass a candidate over.
CandidatesCover ==
    pending # {} /\ Valid => \A i \in Busy : Eligible(i) => i \in pending

ReleaseInv == TypeOK /\ CandidatesCover

\* A step of the batch that leaves a valid workspace leaves it covered by the
\* remaining candidates.
LEMMA BatchStep ==
    ASSUME ReleaseInv, NEW i \in Id, ReleaseStep(i), Valid'
    PROVE  \A j \in Busy : Eligible(j)' => j \in pending'
  <1>1. SrcOK(src) /\ ArchiveOK(archive) /\ Busy \subseteq Id
    BY TypeParts, ConstantsAssumption DEF ReleaseInv
  <1>2. pending # {} /\ pending' = pending \ {i}
    BY DEF ReleaseStep
  <1>3. CASE Valid /\ Eligible(i) /\ MoveToArchive(i)
    <2>1. i \in Live
      BY <1>3 DEF Eligible
    <2>2. Live' = Live \ {i} /\ \A j \in Id \ {i} : Record(j)' = Record(j)
      BY <2>1, <1>1, <1>3, MoveFrame
    <2>3. \A j \in Busy : Eligible(j)' => j # i /\ Eligible(j)
      BY <2>2, <1>1 DEF Eligible
    <2> QED
      BY <2>3, <1>2, <1>3 DEF ReleaseInv, CandidatesCover
  <1>4. CASE ~(Valid /\ Eligible(i)) /\ UNCHANGED src
    <2>1. Valid' = Valid /\ Live' = Live /\ \A j : Record(j)' = Record(j)
      BY <1>4 DEF Valid, Live, Record, FileOf
    <2>2. Valid /\ ~Eligible(i)
      BY <2>1, <1>4
    <2>3. \A j : Eligible(j)' <=> Eligible(j)
      BY <2>1 DEF Eligible
    <2> QED
      BY <2>2, <2>3, <1>2 DEF ReleaseInv, CandidatesCover
  <1> QED
    BY <1>3, <1>4 DEF ReleaseStep

\* Every step keeps ReleaseInv: no other command runs while a release does.
LEMMA NextReleaseInv == ReleaseInv /\ [Next]_vars => ReleaseInv'
  <1> SUFFICES ASSUME ReleaseInv, [Next]_vars PROVE CandidatesCover'
    BY NextTypeOK DEF ReleaseInv
  <1>1. ASSUME NEW i \in Id, ReleaseStep(i) PROVE CandidatesCover'
    BY <1>1, BatchStep DEF CandidatesCover
  <1>2. CASE BeginRelease
    <2>1. pending' = {i \in Busy : Eligible(i)} /\ UNCHANGED src
      BY <1>2 DEF BeginRelease
    <2>2. \A i : Eligible(i)' <=> Eligible(i)
      BY <2>1 DEF Eligible, Live, Record, FileOf
    <2> QED
      BY <2>1, <2>2 DEF CandidatesCover
  <1>3. CASE pending' = {}
    BY <1>3 DEF CandidatesCover
  <1>4. CASE UNCHANGED vars
    <2>1. /\ Valid' = Valid /\ pending' = pending
          /\ \A i : Eligible(i)' <=> Eligible(i)
      BY <1>4 DEF vars, Valid, Eligible, Live, Record, FileOf
    <2> QED
      BY <2>1 DEF ReleaseInv, CandidatesCover
  <1>5. ASSUME NEW i \in Id, Command(i) PROVE ReleaseStep(i) \/ pending' = {}
    BY <1>5 DEF Command, Idle, Ready, Scaffold, CreatePlan, Transition, Link, Complete, Start,
                PlanStep, Archive, Unarchive
  <1>6. ASSUME NEW i \in Id, Human(i) PROVE pending' = {}
    BY <1>6 DEF Human, Idle, Draft, Repair, EditStatus
  <1> QED
    BY <1>1, <1>2, <1>3, <1>4, <1>5, <1>6, ConstantsAssumption DEF Next, Interrupt

\* A release that runs to its end in a workspace that stayed valid leaves
\* nothing archivable, whatever order its candidates came in (archiveBatch).
THEOREM ReleasesDrain == Spec => ReleaseDrains
  <1>1. Init => ReleaseInv
    BY InitTypeOK DEF Init, ReleaseInv, CandidatesCover
  <1>2. ReleaseInv /\ [Next]_vars =>
            [pending # {} /\ pending' = {} /\ Valid' /\ (\E i \in Id : ReleaseStep(i))
                 => \A i \in Busy : ~Eligible(i)']_vars
    BY BatchStep
  <1> QED
    BY <1>1, <1>2, NextReleaseInv, PTL DEF Spec, ReleaseDrains
=============================================================================
