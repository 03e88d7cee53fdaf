-------------------------- MODULE AdoptionPlanProofs --------------------------
(***************************************************************************)
(* For any candidates, references, projections, selectors, edits and       *)
(* kills: what the plan calls applied is written, nothing is written       *)
(* unreviewed where the workspace validates, candidates come from the      *)
(* trusted source, adopted files have receipts, and files of humans stay.  *)
(***************************************************************************)
EXTENDS AdoptionPlan, TLAPS

Fields == {"op", "pc", "sel", "forced", "loads", "v", "text", "out", "todo", "plan"}
Planning == {"promote", "files", "model", "plan"}
Typed == TypeOK /\ DOMAIN run = Fields

\* Which command is at which step.
Phases ==
    /\ run.op = "none" => At("idle")
    /\ run.op = "adopt" => run.pc \in {"promote", "files", "plan", "agent", "receipt"}
    /\ run.op = "reconcile" => run.pc \in {"promote", "model", "plan", "agent"}
    /\ run.op = "refresh" => /\ run.v \in Version
                             /\ run.pc \in {"clearApp", "clearPlan", "raw", "reconcile", "promote",
                                            "model", "plan", "agent", "provenance"}
    /\ run.op \in {"none", "adopt", "reconcile", "refresh"}
    /\ run.op # "adopt" => run.out = {}
    /\ run.pc \notin {"promote", "files"} => run.todo = {}

Accounted(i) == canon[i] # Absent \/ i \in removed \/ HasTwin(i)

\* What a plan calls applied or a duplicate is accounted for, or still to be written.
WrittenBut(pl, todo) ==
    /\ \A i \in Item : pl.status[i] = "applied" => Accounted(i) \/ i \in todo
    /\ \A i \in pl.dup : Accounted(i)
Written ==
    /\ WrittenBut(plan, {})
    /\ run.pc \in Planning => WrittenBut(run.plan, run.todo)

\* What a plan calls approved has been reviewed.
Covered(i) == {p \in projections \ late : Bundle[i] \in Covers[p]}
Approved(pl) ==
    /\ pl.groups \subseteq reviewed
    /\ \A i \in Item : Kind[i] = "capability" /\ pl.status[i] = "approved" => Covered(i) \subseteq reviewed
Reviewed ==
    /\ Approved(plan) /\ (run.pc \in Planning => Approved(run.plan))
    /\ ReviewedFirst

HumansKept == \A i \in run.todo : canon[i] # Human

\* Candidates and model are of the trusted version, or of the one a refresh
\* is about to trust.
Trust ==
    ~crossed =>
        /\ run.op = "refresh" =>
              /\ run.v = source
              /\ run.pc \in {"clearPlan", "raw"} => cands = Absent
              /\ At("raw") => model = Absent
              /\ run.pc \in {"reconcile", "promote", "model", "plan", "agent", "provenance"} =>
                    cands = run.v /\ model \in {Absent, run.v}
        /\ run.op # "refresh" => cands \in {Absent, trusted} /\ model \in {Absent, trusted}
        /\ run.op = "adopt" => \A i \in run.out : run.text[i] = trusted

Receipts ==
    /\ \A i \in Item \ unreceipted :
          canon[i] \in Version => <<i, canon[i]>> \in receipts \/ i \in run.out \ run.todo
    /\ \A i \in run.out \ run.todo : canon[i] = run.text[i]

IInv == Typed /\ Phases /\ Written /\ Reviewed /\ HumansKept /\ Trust /\ Receipts
-----------------------------------------------------------------------------
(* What a command computes *)

LEMMA Values ==
    /\ Absent \notin Version /\ Human \notin Version /\ Edited \notin Version
    /\ Absent # Human /\ Absent # Edited /\ Human # Edited
    /\ \A i \in Item : Kind[i] \in {"capability", "entity", "shape"} /\ Needs[i] \subseteq Item
    /\ \A v \in Version : Found[v] \subseteq Item
  BY ItemsAssumption, SourceAssumption

LEMMA OfferedItems ==
    ASSUME Typed
    PROVE  Offered \subseteq Item /\ (Offered # {} => cands \in Version)
  <1>1. Extracted \subseteq Item /\ (Extracted # {} => cands \in Version)
    BY Values DEF Extracted, Typed, TypeOK
  <1>2. Offered \subseteq Extracted
    BY DEF Offered
  <1> QED
    BY <1>1, <1>2

\* What a reconcile sees.
LEMMA Seen ==
    /\ Sight.loads = Loads /\ Sight.offered = Offered
    /\ Sight.dup = {i \in Offered : Duplicate(i)}
  BY DEF Sight

LEMMA MergedType ==
    ASSUME Typed
    PROVE  /\ Merged(Sight) \in PlanType
           /\ Merged(Sight).groups = plan.groups
           /\ Merged(Sight).dup = Sight.dup \cup (plan.dup \ Sight.offered)
           /\ \A i \in Item : Merged(Sight).status[i] = MergedStatus(Sight, i)
  <1> DEFINE sight == Sight
  <1>1. plan \in PlanType /\ sight.dup \subseteq Item
    BY Seen, OfferedItems DEF Typed, TypeOK
  <1> HIDE DEF sight
  <1>2. ASSUME NEW i \in Item PROVE MergedStatus(sight, i) \in Status \cup {Absent}
    <2>1. plan.status[i] \in Status \cup {Absent}
      BY <1>1 DEF PlanType
    <2>2. BaseStatus(sight, i) \in Status
      BY DEF BaseStatus, Status
    <2>3. ASSUME NEW status \in Status PROVE Derived(sight, i, status, plan.groups) \in Status
      BY <2>3 DEF Derived, Status
    <2> QED
      BY <2>1, <2>2, <2>3 DEF MergedStatus, Status
  <1> QED
    BY <1>1, <1>2 DEF Merged, PlanType, sight

\* An item is applied because it was or because it has a canonical file; it is
\* approved because it was or because all its reviews are; a capability that is
\* pending in a workspace that validates has no review to wait for.
LEMMA MergedMeans ==
    ASSUME Typed, NEW i \in Item
    PROVE  LET status == Merged(Sight).status[i] IN
           /\ status = "applied" => plan.status[i] = "applied" \/ canon[i] # Absent
           /\ status = "approved" => \/ plan.status[i] = "approved"
                                     \/ /\ Kind[i] = "capability"
                                        /\ {p \in projections : Bundle[i] \in Covers[p]} \subseteq plan.groups
           /\ status = "pending" /\ Loads /\ Kind[i] = "capability" =>
                 {p \in projections : Bundle[i] \in Covers[p]} = {}
           /\ i \notin Offered => status \in {"applied", Absent}
  <1> DEFINE sight == Sight
  <1>1. Merged(Sight).status[i] = MergedStatus(sight, i)
    BY MergedType
  <1>2. sight.loads = Loads /\ sight.offered = Offered
    BY Seen
  <1> HIDE DEF sight
  <1>3. Blockers(sight, i) # {} => Kind[i] = "capability"
    BY DEF Blockers
  <1>4. Blockers(sight, i) # {} \/ (Loads /\ Kind[i] = "capability" /\ i \in Offered) =>
           Blockers(sight, i) = {p \in projections : Bundle[i] \in Covers[p]}
    BY <1>2 DEF Blockers
  <1>5. Absent \notin Status
    BY SourceAssumption
  <1>6. BaseStatus(sight, i) \notin {"applied", "approved"}
    BY DEF BaseStatus
  <1> QED
    BY <1>1, <1>2, <1>3, <1>4, <1>5, <1>6 DEF MergedStatus, Derived, Status

\* A plan that is merged again accounts for what it accounted for.
LEMMA MergedKeeps ==
    ASSUME Typed, WrittenBut(plan, {}), Approved(plan)
    PROVE  WrittenBut(Merged(Sight), {}) /\ Approved(Merged(Sight))
  <1>1. ASSUME NEW i \in Item, Merged(Sight).status[i] = "applied" PROVE Accounted(i)
    BY <1>1, MergedMeans DEF WrittenBut, Accounted
  <1>2. ASSUME NEW i \in Merged(Sight).dup PROVE Accounted(i)
    <2>1. CASE i \in plan.dup
      BY <2>1 DEF WrittenBut
    <2>2. CASE i \in Item /\ Duplicate(i)
      <3>1. PICK j \in Item : Kind[j] = "shape" /\ Signature[j] = Signature[i] /\ canon[j] \in Version \cup {Edited}
        BY <2>2 DEF Duplicate
      <3>2. CASE j = i
        BY <3>1, <3>2, Values DEF Accounted
      <3>3. CASE j # i
        BY <2>2, <3>1, <3>3, Values DEF Accounted, HasTwin, Duplicate
      <3> QED
        BY <3>2, <3>3
    <2> QED
      BY <1>2, <2>1, <2>2, MergedType, Seen, OfferedItems
  <1>3. ASSUME NEW i \in Item, Kind[i] = "capability", Merged(Sight).status[i] = "approved"
        PROVE  Covered(i) \subseteq reviewed
    <2>1. CASE plan.status[i] = "approved"
      BY <1>3, <2>1 DEF Approved
    <2>2. CASE {p \in projections : Bundle[i] \in Covers[p]} \subseteq plan.groups
      BY <2>2 DEF Approved, Covered
    <2> QED
      BY <1>3, <2>1, <2>2, MergedMeans
  <1>4. Merged(Sight).groups \subseteq reviewed
    BY MergedType DEF Approved
  <1> QED
    BY <1>1, <1>2, <1>3, <1>4 DEF WrittenBut, Approved

LEMMA ApprovedGroups ==
    ASSUME NEW sel \in Selector
    PROVE  projections \subseteq Projection => Approves(sel, Sight) \subseteq Projection
  <1> SUFFICES ASSUME projections \subseteq Projection PROVE Approves(sel, Sight) \subseteq Projection
    OBVIOUS
  <1>1. \A i \in Sight.offered : Blockers(Sight, i) \subseteq Projection
    BY DEF Blockers
  <1> QED
    BY <1>1, SourceAssumption DEF Approves

\* What adopt records, and what it writes.
LEMMA AdoptedMeans ==
    ASSUME Typed, NEW sel \in Selector
    PROVE  LET merged == Merged(Sight)
               adopted == Adopted(sel, Sight, merged)
           IN /\ adopted \in PlanType
              /\ adopted.groups = merged.groups \cup Approves(sel, Sight)
              /\ adopted.dup = merged.dup
              /\ \A i \in Item : adopted.status[i] = "applied" =>
                    merged.status[i] = "applied" \/ (i \in Selected(sel, merged.status) /\ merged.status[i] # Absent)
              /\ \A i \in Item : adopted.status[i] = "approved" =>
                    \/ merged.status[i] = "approved"
                    \/ /\ Kind[i] = "capability"
                       /\ {p \in projections : Bundle[i] \in Covers[p]} \subseteq adopted.groups
  <1> DEFINE merged == Merged(Sight)
             groups == merged.groups \cup Approves(sel, Sight)
             After(i, status) ==
                 IF status = Absent THEN Absent
                 ELSE IF i \in Selected(sel, merged.status) THEN "applied"
                 ELSE IF sel.by \in {"review", "bundle-review"} THEN Derived(Sight, i, status, groups)
                 ELSE status
             adopted == Adopted(sel, Sight, merged)
  <1>1. adopted = [merged EXCEPT !.groups = groups, !.status = [i \in Item |-> After(i, merged.status[i])]]
    BY DEF Adopted
  <1>2. merged \in PlanType /\ groups \subseteq Projection
    BY MergedType, ApprovedGroups DEF PlanType, Typed, TypeOK
  <1>3. adopted.groups = groups /\ adopted.dup = merged.dup
        /\ adopted.status = [i \in Item |-> After(i, merged.status[i])]
        /\ adopted = [status |-> adopted.status, groups |-> groups, dup |-> merged.dup]
    BY <1>1, <1>2 DEF PlanType
  <1> HIDE DEF merged, groups, adopted
  <1>4. ASSUME NEW i \in Item
        PROVE  /\ After(i, merged.status[i]) \in Status \cup {Absent}
               /\ After(i, merged.status[i]) = "applied" => \/ merged.status[i] = "applied"
                                                           \/ /\ i \in Selected(sel, merged.status)
                                                              /\ merged.status[i] # Absent
               /\ After(i, merged.status[i]) = "approved" =>
                    \/ merged.status[i] = "approved"
                    \/ /\ Kind[i] = "capability"
                       /\ {p \in projections : Bundle[i] \in Covers[p]} \subseteq groups
    <2>1. merged.status[i] \in Status \cup {Absent}
      BY <1>2 DEF PlanType
    <2>2. Blockers(Sight, i) # {} =>
             Kind[i] = "capability" /\ Blockers(Sight, i) = {p \in projections : Bundle[i] \in Covers[p]}
      BY DEF Blockers
    <2>3. ASSUME NEW status \in Status
          PROVE  /\ Derived(Sight, i, status, groups) \in Status
                 /\ Derived(Sight, i, status, groups) = "applied" => status = "applied"
                 /\ Derived(Sight, i, status, groups) = "approved" =>
                      \/ status = "approved"
                      \/ Blockers(Sight, i) # {} /\ Blockers(Sight, i) \subseteq groups
      BY <2>3 DEF Derived, Status
    <2>4. Absent \notin Status
      BY SourceAssumption
    <2>5. CASE merged.status[i] = Absent
      BY <2>4, <2>5 DEF Status
    <2>6. CASE merged.status[i] \in Status /\ i \in Selected(sel, merged.status)
      BY <2>4, <2>6 DEF Status
    <2>7. CASE merged.status[i] \in Status /\ i \notin Selected(sel, merged.status)
      BY <2>2, <2>3, <2>4, <2>7
    <2> QED
      BY <2>1, <2>5, <2>6, <2>7
  <1>5. adopted \in PlanType
    BY <1>2, <1>3, <1>4 DEF PlanType
  <1> QED
    BY <1>3, <1>4, <1>5 DEF adopted, merged, groups

\* A capability that adopt selects in a workspace that validates, and that has
\* neither been applied nor deleted, has had its reviews.
LEMMA OutputsMean ==
    ASSUME Typed, WrittenBut(plan, {}), Approved(plan), NEW sel \in Selector, NEW refreshAdopted \in BOOLEAN
    PROVE  LET out == Outputs(sel, Merged(Sight), Text(Sight), refreshAdopted) IN
           /\ out \subseteq Item
           /\ \A i \in out : Text(Sight)[i] \in Version /\ canon[i] # Human /\ Text(Sight)[i] \in {cands, model}
           /\ \A i \in Item : i \in Selected(sel, Merged(Sight).status) /\ Merged(Sight).status[i] # Absent =>
                 Accounted(i) \/ i \in out
           /\ \A i \in out : Loads /\ Kind[i] = "capability" /\ canon[i] = Absent /\ i \notin removed =>
                 Covered(i) \subseteq reviewed
  <1> DEFINE merged == Merged(Sight)
             text == Text(Sight)
             out == Outputs(sel, merged, text, refreshAdopted)
  <1>1. /\ merged \in PlanType /\ WrittenBut(merged, {}) /\ Approved(merged)
    BY MergedType, MergedKeeps
  <1>2. \A i \in Item : text[i] = IF i \in Offered THEN cands ELSE model
    BY Seen DEF Text
  <1>3. Selected(sel, merged.status) \subseteq Item
    BY DEF Selected, InitiallySelected, DependentShapes
  <1>4. /\ out \subseteq Selected(sel, merged.status) \ merged.dup
        /\ \A i \in Selected(sel, merged.status) \ merged.dup :
              i \in out <=> text[i] # Absent /\ (canon[i] = Absent \/ (refreshAdopted /\ canon[i] # Human))
    BY DEF Outputs
  <1>5. ASSUME NEW i \in out PROVE text[i] \in Version /\ canon[i] # Human /\ text[i] \in {cands, model}
    BY <1>2, <1>3, <1>4, Values DEF Typed, TypeOK
  <1>6. ASSUME NEW i \in Item, i \in Selected(sel, merged.status), merged.status[i] # Absent
        PROVE  Accounted(i) \/ i \in out
    <2>1. CASE i \in merged.dup
      BY <1>1, <2>1 DEF WrittenBut
    <2>2. CASE i \notin Offered
      <3>1. merged.status[i] = "applied"
        BY <1>6, <2>2, MergedMeans
      <3> QED
        BY <1>1, <3>1 DEF WrittenBut
    <2>3. CASE i \notin merged.dup /\ i \in Offered
      <3>1. text[i] # Absent
        BY <1>2, <2>3, OfferedItems, Values
      <3> QED
        BY <1>4, <1>6, <2>3, <3>1 DEF Accounted
    <2> QED
      BY <2>1, <2>2, <2>3
  <1>7. ASSUME NEW i \in out, Loads, Kind[i] = "capability", canon[i] = Absent, i \notin removed
        PROVE  Covered(i) \subseteq reviewed
    <2>1. i \in Item /\ i \in InitiallySelected(sel, merged.status)
      BY <1>3, <1>4, <1>7 DEF Selected, DependentShapes
    <2>2. merged.status[i] \in {"pending", "approved", "applied"}
      BY <2>1 DEF InitiallySelected
    <2>3. ~Accounted(i)
      BY <1>7 DEF Accounted, HasTwin
    <2>4. merged.status[i] # "applied"
      BY <1>1, <2>1, <2>3 DEF WrittenBut
    <2>5. CASE merged.status[i] = "approved"
      BY <1>1, <1>7, <2>1, <2>5 DEF Approved
    <2>6. CASE merged.status[i] = "pending"
      BY <1>7, <2>1, <2>6, MergedMeans DEF Covered
    <2> QED
      BY <2>2, <2>4, <2>5, <2>6
  <1> QED
    BY <1>3, <1>4, <1>5, <1>6, <1>7
-----------------------------------------------------------------------------
(* The inductive invariant *)

LEMMA IdleRun ==
    /\ DOMAIN Idle = Fields /\ Idle.op = "none" /\ Idle.pc = "idle" /\ Idle.plan = NoPlan
    /\ Idle.out = {} /\ Idle.todo = {} /\ NoPlan \in PlanType
    /\ NoPlan.groups = {} /\ NoPlan.dup = {} /\ \A i \in Item : NoPlan.status[i] = Absent
  BY DEF Idle, Fields, NoPlan, PlanType

LEMMA NothingPlanned == WrittenBut(NoPlan, {}) /\ Approved(NoPlan)
  BY IdleRun, SourceAssumption DEF WrittenBut, Approved, Status

LEMMA Start == Init => IInv
  <1> SUFFICES ASSUME Init PROVE IInv
    OBVIOUS
  <1> USE DEF Init
  <1>1. \A i \in Item : plan.status[i] \in {"skipped", "needs_review", "pending", Absent}
    BY DEF BaseStatus
  <1>2. plan.groups = {} /\ plan.dup = {} /\ plan \in PlanType
    BY <1>1 DEF PlanType, Status
  <1>3. Typed
    BY <1>2, IdleRun, SourceAssumption DEF Typed, TypeOK
  <1>4. Phases /\ HumansKept /\ Trust
    BY IdleRun DEF Phases, HumansKept, Trust, At
  <1>5. Written /\ Reviewed
    BY <1>1, <1>2, IdleRun, SourceAssumption
    DEF Written, WrittenBut, Reviewed, Approved, ReviewedFirst, Planning, Status
  <1>6. Receipts
    BY Values, IdleRun DEF Receipts
  <1> QED
    BY <1>3, <1>4, <1>5, <1>6 DEF IInv

\* The steps of a command that only move it on, or write nothing that the
\* invariant speaks of.
LEMMA Preserved == IInv /\ [Next]_vars => IInv'
  <1> SUFFICES ASSUME IInv, [Next]_vars PROVE IInv'
    OBVIOUS
  <1> USE DEF IInv
  <1>1. ASSUME NEW sel \in Selector, NEW forced \in BOOLEAN, NEW refreshAdopted \in BOOLEAN,
               Adopt(sel, forced, refreshAdopted)
        PROVE  IInv'
    <2> DEFINE merged == Merged(Sight)
               text == Text(Sight)
               out == Outputs(sel, merged, text, refreshAdopted)
               adopted == Adopted(sel, Sight, merged)
    <2>1. /\ run' = [op |-> "adopt", pc |-> "promote", sel |-> sel, forced |-> forced,
                     loads |-> Sight.loads, v |-> Absent, text |-> text, out |-> out,
                     todo |-> out, plan |-> adopted]
          /\ reviewed' = reviewed \cup Approves(sel, Sight)
          /\ At("idle")
          /\ UNCHANGED <<source, trusted, cands, topo, proposals, receipts, bounds,
                         late, removed, crossed, unreceipted>>
      BY <1>1 DEF Adopt
    <2>2. /\ adopted \in PlanType
          /\ adopted.groups = merged.groups \cup Approves(sel, Sight)
          /\ adopted.dup = merged.dup
          /\ \A i \in Item : adopted.status[i] = "applied" =>
                merged.status[i] = "applied" \/ (i \in Selected(sel, merged.status) /\ merged.status[i] # Absent)
          /\ \A i \in Item : adopted.status[i] = "approved" =>
                \/ merged.status[i] = "approved"
                \/ {p \in projections : Bundle[i] \in Covers[p]} \subseteq adopted.groups
      BY AdoptedMeans
    <2>3. WrittenBut(plan, {}) /\ Approved(plan)
      BY DEF Written, Reviewed
    <2>4. WrittenBut(merged, {}) /\ Approved(merged)
      BY <2>3, MergedKeeps
    <2>5. /\ out \subseteq Item
          /\ \A i \in out : text[i] \in Version /\ canon[i] # Human /\ text[i] \in {cands, model}
          /\ \A i \in Item : i \in Selected(sel, merged.status) /\ merged.status[i] # Absent =>
                Accounted(i) \/ i \in out
          /\ \A i \in out : Loads /\ Kind[i] = "capability" /\ canon[i] = Absent /\ i \notin removed =>
                Covered(i) \subseteq reviewed
      BY <2>3, OutputsMean
    <2>6. Sight.loads = Loads
      BY Seen
    <2> HIDE DEF merged, text, out, adopted
    <2>7. /\ DOMAIN run' = Fields /\ run'.op = "adopt" /\ run'.pc = "promote" /\ run'.loads = Loads
          /\ run'.text = text /\ run'.out = out /\ run'.todo = out /\ run'.plan = adopted
      BY <2>1, <2>6 DEF Fields
    <2>8. Typed'
      BY <2>1, <2>2, <2>5, <2>7 DEF Typed, TypeOK, topo, proposals
    <2>9. Phases'
      BY <2>7 DEF Phases
    <2>10. Written'
      BY <2>1, <2>2, <2>3, <2>4, <2>5, <2>7
      DEF Written, WrittenBut, Accounted, HasTwin, topo, proposals, PlanType
    <2>11. Approved(plan)' /\ Approved(run.plan)'
      BY <2>1, <2>2, <2>3, <2>4, <2>7 DEF Approved, Covered, topo, proposals
    <2>12. ReviewedFirst'
      BY <2>1, <2>5, <2>7 DEF ReviewedFirst, Covered, topo
    <2>13. Reviewed'
      BY <2>11, <2>12 DEF Reviewed
    <2>14. HumansKept'
      BY <2>1, <2>5, <2>7 DEF HumansKept, topo
    <2>15. Trust'
      BY <2>1, <2>5, <2>7, Values DEF Trust, Phases, At, proposals
    <2>16. Receipts'
      BY <2>1, <2>7 DEF Receipts, Phases, At, topo
    <2> QED
      BY <2>8, <2>9, <2>10, <2>13, <2>14, <2>15, <2>16
  <1>2. CASE Promote
    <2>1. /\ DOMAIN run' = Fields /\ run'.op = run.op /\ run'.v = run.v /\ run'.loads = run.loads
          /\ run'.text = run.text /\ run'.out = run.out /\ run'.todo = run.todo /\ run'.plan = run.plan
          /\ run'.pc = CASE run.op # "adopt" -> "model" [] run.op = "adopt" /\ run.todo # {} -> "files"
                         [] OTHER -> "plan"
      BY <1>2 DEF Promote, Goto, Typed, Fields
    <2>2. run'.pc \in {"model", "files", "plan"} /\ (run'.pc = "model" <=> run.op # "adopt")
          /\ (run'.pc # "files" => run.todo = {})
      BY <2>1 DEF Typed, TypeOK, Phases
    <2>3. Typed'
      BY <1>2, <2>1, <2>2 DEF Promote, Typed, TypeOK, proposals, reviews
    <2>4. Phases'
      BY <1>2, <2>1, <2>2 DEF Promote, Phases, At
    <2>5. Written' /\ Reviewed'
      BY <1>2, <2>1, <2>2
      DEF Promote, Written, WrittenBut, Accounted, HasTwin, Reviewed, Approved, Covered, ReviewedFirst,
          Planning, At, proposals, reviews
    <2>6. HumansKept' /\ Receipts'
      BY <1>2, <2>1 DEF Promote, HumansKept, Receipts
    <2>7. Trust'
      BY <1>2, <2>1, <2>2 DEF Promote, Trust, At, proposals, Phases
    <2> QED
      BY <2>3, <2>4, <2>5, <2>6, <2>7
  <1>3. CASE WriteItem
    <2>1. PICK i \in run.todo :
             /\ canon' = [canon EXCEPT ![i] = run.text[i]]
             /\ run' = [run EXCEPT !.todo = @ \ {i}, !.pc = IF run.todo = {i} THEN "plan" ELSE @]
      BY <1>3 DEF WriteItem
    <2>2. /\ DOMAIN run' = Fields /\ run'.op = run.op /\ run'.v = run.v /\ run'.loads = run.loads
          /\ run'.text = run.text /\ run'.out = run.out /\ run'.todo = run.todo \ {i} /\ run'.plan = run.plan
          /\ run'.pc = IF run.todo = {i} THEN "plan" ELSE "files"
      BY <1>3, <2>1 DEF WriteItem, Typed, Fields, At
    <2>3. i \in Item /\ i \in run.out /\ run.text[i] \in Version /\ run.op = "adopt"
      BY <1>3 DEF WriteItem, Typed, TypeOK, Phases, At
    <2>4. /\ canon'[i] = run.text[i] /\ canon' \in [Item -> Version \cup {Human, Edited, Absent}]
          /\ \A j \in Item : j # i => canon'[j] = canon[j]
      BY <2>1, <2>3 DEF Typed, TypeOK
    <2>5. Typed'
      BY <1>3, <2>2, <2>4 DEF WriteItem, Typed, TypeOK, proposals, reviews
    <2>6. Phases'
      BY <1>3, <2>2, <2>3 DEF WriteItem, Phases, At
    <2>7. \A j \in Item : (Accounted(j) \/ j = i) => Accounted(j)'
      BY <1>3, <2>3, <2>4, Values DEF WriteItem, Accounted, HasTwin, reviews
    <2>8. Written'
      BY <1>3, <2>2, <2>7 DEF WriteItem, Written, WrittenBut, Planning, At, proposals, Typed, TypeOK, PlanType
    <2>9. Reviewed'
      BY <1>3, <2>2, <2>4
      DEF WriteItem, Reviewed, Approved, Covered, ReviewedFirst, Planning, At, proposals, reviews, Typed, TypeOK
    <2>10. HumansKept'
      BY <2>2, <2>4 DEF HumansKept, Typed, TypeOK
    <2>11. Trust'
      BY <1>3, <2>2, <2>3 DEF WriteItem, Trust, At, proposals
    <2>12. Receipts'
      <3>1. ASSUME NEW j \in Item \ unreceipted', canon'[j] \in Version
            PROVE  <<j, canon'[j]>> \in receipts' \/ j \in run'.out \ run'.todo
        <4>1. CASE j = i
          BY <2>2, <2>3, <2>4, <4>1
        <4>2. CASE j # i
          BY <1>3, <2>2, <2>4, <3>1, <4>2 DEF WriteItem, Receipts
        <4> QED
          BY <4>1, <4>2
      <3>2. \A j \in run'.out \ run'.todo : canon'[j] = run'.text[j]
        BY <2>2, <2>4 DEF Receipts, Typed, TypeOK
      <3> QED
        BY <3>1, <3>2 DEF Receipts
    <2> QED
      BY <2>5, <2>6, <2>8, <2>9, <2>10, <2>11, <2>12
  <1>4. CASE WriteModel
    <2>1. /\ DOMAIN run' = Fields /\ run'.op = run.op /\ run'.v = run.v /\ run'.loads = run.loads
          /\ run'.text = run.text /\ run'.out = run.out /\ run'.todo = run.todo /\ run'.plan = run.plan
          /\ run'.pc = "plan"
      BY <1>4 DEF WriteModel, Goto, Typed, Fields
    <2>2. Typed' /\ Phases'
      BY <1>4, <2>1 DEF WriteModel, Typed, TypeOK, Phases, At, topo, reviews
    <2>3. Written' /\ Reviewed' /\ HumansKept'
      BY <1>4, <2>1
      DEF WriteModel, Written, WrittenBut, Accounted, HasTwin, Reviewed, Approved, Covered, ReviewedFirst,
          HumansKept, Planning, At, topo, reviews
    <2>4. Trust' /\ Receipts'
      BY <1>4, <2>1 DEF WriteModel, Trust, Receipts, At, topo, Phases
    <2> QED
      BY <2>2, <2>3, <2>4
  <1>5. CASE WritePlan
    <2>1. /\ DOMAIN run' = Fields /\ run'.op = run.op /\ run'.v = run.v /\ run'.loads = run.loads
          /\ run'.text = run.text /\ run'.out = run.out /\ run'.todo = run.todo /\ run'.plan = run.plan
          /\ run'.pc = "agent" /\ run.todo = {}
      BY <1>5 DEF WritePlan, Goto, Typed, Fields, Phases, At
    <2>2. Typed' /\ Phases'
      BY <1>5, <2>1 DEF WritePlan, Typed, TypeOK, Phases, At, topo, reviews
    <2>3. Written' /\ Reviewed' /\ HumansKept'
      BY <1>5, <2>1
      DEF WritePlan, Written, WrittenBut, Accounted, HasTwin, Reviewed, Approved, Covered, ReviewedFirst,
          HumansKept, Planning, At, topo, reviews
    <2>4. Trust' /\ Receipts'
      BY <1>5, <2>1 DEF WritePlan, Trust, Receipts, At, topo, Phases
    <2> QED
      BY <2>2, <2>3, <2>4
  <1>6. CASE WriteAgentPlan
    <2>1. CASE run.op = "reconcile" /\ run' = Idle
      <3>1. Typed' /\ Phases'
        BY <1>6, <2>1, IdleRun DEF WriteAgentPlan, Typed, TypeOK, Phases, At, topo, reviews
      <3>2. Written' /\ Reviewed' /\ HumansKept'
        BY <1>6, <2>1, IdleRun
        DEF WriteAgentPlan, Written, WrittenBut, Accounted, HasTwin, Reviewed, Approved, Covered,
            ReviewedFirst, HumansKept, Planning, topo, reviews
      <3>3. Trust' /\ Receipts'
        BY <1>6, <2>1, IdleRun DEF WriteAgentPlan, Trust, Receipts, Phases, At, topo
      <3> QED
        BY <3>1, <3>2, <3>3
    <2>2. CASE run.op # "reconcile" /\ Goto(IF run.op = "adopt" THEN "receipt" ELSE "provenance")
      <3>1. /\ DOMAIN run' = Fields /\ run'.op = run.op /\ run'.v = run.v /\ run'.loads = run.loads
            /\ run'.text = run.text /\ run'.out = run.out /\ run'.todo = run.todo /\ run'.plan = run.plan
            /\ run'.pc = IF run.op = "adopt" THEN "receipt" ELSE "provenance"
            /\ run.op \in {"adopt", "refresh"}
        BY <1>6, <2>2 DEF WriteAgentPlan, Goto, Typed, Fields, Phases, At
      <3>2. Typed' /\ Phases'
        BY <1>6, <3>1 DEF WriteAgentPlan, Typed, TypeOK, Phases, At, topo, reviews
      <3>3. Written' /\ Reviewed' /\ HumansKept'
        BY <1>6, <3>1
        DEF WriteAgentPlan, Written, WrittenBut, Accounted, HasTwin, Reviewed, Approved, Covered,
            ReviewedFirst, HumansKept, Planning, At, topo, reviews
      <3>4. Trust' /\ Receipts'
        BY <1>6, <3>1 DEF WriteAgentPlan, Trust, Receipts, At, topo
      <3> QED
        BY <3>2, <3>3, <3>4
    <2> QED
      BY <1>6, <2>1, <2>2 DEF WriteAgentPlan
  <1>7. CASE AppendReceipt
    <2>1. run' = Idle /\ run.todo = {} /\ run.out \subseteq Item
      BY <1>7 DEF AppendReceipt, Phases, At, Typed, TypeOK
    <2>2. Typed' /\ Phases'
      BY <1>7, <2>1, IdleRun DEF AppendReceipt, Typed, TypeOK, Phases, At, topo, proposals, reviews
    <2>3. Written' /\ Reviewed' /\ HumansKept'
      BY <1>7, <2>1, IdleRun
      DEF AppendReceipt, Written, WrittenBut, Accounted, HasTwin, Reviewed, Approved, Covered,
          ReviewedFirst, HumansKept, Planning, topo, proposals, reviews
    <2>4. Trust'
      BY <1>7, <2>1, IdleRun DEF AppendReceipt, Trust, At, proposals, Phases
    <2>5. Receipts'
      <3>1. ASSUME NEW i \in Item \ unreceipted', canon'[i] \in Version
            PROVE  <<i, canon'[i]>> \in receipts'
        BY <1>7, <2>1, <3>1 DEF AppendReceipt, Receipts, topo
      <3> QED
        BY <2>1, <3>1, IdleRun DEF Receipts
    <2> QED
      BY <2>2, <2>3, <2>4, <2>5
  <1>8. CASE Extract
    <2>1. /\ DOMAIN run' = Fields /\ run'.op = "refresh" /\ run'.pc = "clearApp" /\ run'.v = source
          /\ run'.out = {} /\ run'.todo = {} /\ run'.plan \in PlanType
      BY <1>8, IdleRun DEF Extract, Fields
    <2>2. Typed' /\ Phases'
      BY <1>8, <2>1 DEF Extract, Typed, TypeOK, Phases, At, topo, proposals, reviews
    <2>3. Written' /\ Reviewed' /\ HumansKept'
      BY <1>8, <2>1
      DEF Extract, Written, WrittenBut, Accounted, HasTwin, Reviewed, Approved, Covered,
          ReviewedFirst, HumansKept, Planning, At, topo, proposals, reviews
    <2>4. Trust' /\ Receipts'
      BY <1>8, <2>1 DEF Extract, Trust, Receipts, At, topo, Phases
    <2> QED
      BY <2>2, <2>3, <2>4
  <1>9. CASE ClearCandidates
    <2>1. /\ DOMAIN run' = Fields /\ run'.op = run.op /\ run'.v = run.v /\ run'.loads = run.loads
          /\ run'.text = run.text /\ run'.out = run.out /\ run'.todo = run.todo /\ run'.plan = run.plan
          /\ run'.pc = "clearPlan" /\ run.op = "refresh"
      BY <1>9 DEF ClearCandidates, Goto, Typed, Fields, Phases, At
    <2>2. Typed' /\ Phases'
      BY <1>9, <2>1 DEF ClearCandidates, Typed, TypeOK, Phases, At, topo, proposals, reviews
    <2>3. Written' /\ Reviewed' /\ HumansKept'
      BY <1>9, <2>1
      DEF ClearCandidates, Written, WrittenBut, Accounted, HasTwin, Reviewed, Approved, Covered,
          ReviewedFirst, HumansKept, Planning, At, topo, proposals, reviews
    <2>4. Trust' /\ Receipts'
      BY <1>9, <2>1 DEF ClearCandidates, Trust, Receipts, At, topo
    <2> QED
      BY <2>2, <2>3, <2>4
  <1>10. CASE ClearPlan
    <2>1. /\ DOMAIN run' = Fields /\ run'.op = run.op /\ run'.v = run.v /\ run'.loads = run.loads
          /\ run'.text = run.text /\ run'.out = run.out /\ run'.todo = run.todo /\ run'.plan = run.plan
          /\ run'.pc = "raw" /\ run.op = "refresh"
      BY <1>10 DEF ClearPlan, Goto, Typed, Fields, Phases, At
    <2>2. Typed' /\ Phases'
      BY <1>10, <2>1, IdleRun DEF ClearPlan, Typed, TypeOK, Phases, At, topo
    <2>3. WrittenBut(NoPlan, {})' /\ Approved(NoPlan)'
      BY IdleRun, SourceAssumption DEF WrittenBut, Approved, Status
    <2>4. Written' /\ HumansKept'
      BY <1>10, <2>1, <2>3 DEF ClearPlan, Written, WrittenBut, HumansKept, Planning, topo
    <2>5. Reviewed'
      BY <1>10, <2>1, <2>3 DEF ClearPlan, Reviewed, Approved, Covered, ReviewedFirst, Planning
    <2>6. Trust' /\ Receipts'
      BY <1>10, <2>1 DEF ClearPlan, Trust, Receipts, At, topo
    <2> QED
      BY <2>2, <2>4, <2>5, <2>6
  <1>11. CASE WriteCandidates
    <2>1. /\ DOMAIN run' = Fields /\ run'.op = run.op /\ run'.v = run.v /\ run'.loads = run.loads
          /\ run'.text = run.text /\ run'.out = run.out /\ run'.todo = run.todo /\ run'.plan = run.plan
          /\ run'.pc = "reconcile" /\ run.op = "refresh" /\ run.v \in Version
      BY <1>11 DEF WriteCandidates, Goto, Typed, Fields, Phases, At
    <2>2. Typed' /\ Phases'
      BY <1>11, <2>1 DEF WriteCandidates, Typed, TypeOK, Phases, At, topo, proposals, reviews
    <2>3. Written' /\ Reviewed' /\ HumansKept'
      BY <1>11, <2>1
      DEF WriteCandidates, Written, WrittenBut, Accounted, HasTwin, Reviewed, Approved, Covered,
          ReviewedFirst, HumansKept, Planning, At, topo, proposals, reviews
    <2>4. Trust' /\ Receipts'
      BY <1>11, <2>1 DEF WriteCandidates, Trust, Receipts, At, topo, proposals
    <2> QED
      BY <2>2, <2>3, <2>4
  <1>12. CASE ReconcileRefreshed
    <2>1. /\ DOMAIN run' = Fields /\ run'.op = run.op /\ run'.v = run.v /\ run'.loads = run.loads
          /\ run'.text = run.text /\ run'.out = run.out /\ run'.todo = run.todo /\ run'.pc = "promote"
          /\ run'.plan = Merged(Sight) /\ run.op = "refresh" /\ run.todo = {}
      BY <1>12 DEF ReconcileRefreshed, Typed, Fields, Phases, At
    <2>2. WrittenBut(Merged(Sight), {}) /\ Approved(Merged(Sight)) /\ Merged(Sight) \in PlanType
      BY MergedKeeps, MergedType DEF Written, Reviewed
    <2>3. Typed' /\ Phases'
      BY <1>12, <2>1, <2>2 DEF ReconcileRefreshed, Typed, TypeOK, Phases, At, topo, proposals, reviews
    <2>4. Written' /\ Reviewed' /\ HumansKept'
      BY <1>12, <2>1, <2>2
      DEF ReconcileRefreshed, Written, WrittenBut, Accounted, HasTwin, Reviewed, Approved, Covered,
          ReviewedFirst, HumansKept, Planning, At, topo, proposals, reviews
    <2>5. Trust' /\ Receipts'
      BY <1>12, <2>1 DEF ReconcileRefreshed, Trust, Receipts, At, topo, proposals
    <2> QED
      BY <2>3, <2>4, <2>5
  <1>13. CASE WriteProvenance
    <2>1. run' = Idle /\ run.op = "refresh" /\ run.out = {}
      BY <1>13 DEF WriteProvenance, Phases, At
    <2>2. Typed' /\ Phases'
      BY <1>13, <2>1, IdleRun DEF WriteProvenance, Typed, TypeOK, Phases, At, topo, proposals, reviews
    <2>3. Written' /\ Reviewed' /\ HumansKept'
      BY <1>13, <2>1, IdleRun
      DEF WriteProvenance, Written, WrittenBut, Accounted, HasTwin, Reviewed, Approved, Covered,
          ReviewedFirst, HumansKept, Planning, topo, proposals, reviews
    <2>4. Trust' /\ Receipts'
      BY <1>13, <2>1, IdleRun DEF WriteProvenance, Trust, Receipts, At, topo, proposals
    <2> QED
      BY <2>2, <2>3, <2>4
  <1>14. CASE Reconcile
    <2>1. /\ DOMAIN run' = Fields /\ run'.op = "reconcile" /\ run'.out = {} /\ run'.todo = {}
          /\ run'.pc = "promote" /\ run'.plan = Merged(Sight)
      BY <1>14, IdleRun DEF Reconcile, Fields
    <2>2. WrittenBut(Merged(Sight), {}) /\ Approved(Merged(Sight)) /\ Merged(Sight) \in PlanType
      BY MergedKeeps, MergedType DEF Written, Reviewed
    <2>3. Typed' /\ Phases'
      BY <1>14, <2>1, <2>2 DEF Reconcile, Typed, TypeOK, Phases, At, topo, proposals, reviews
    <2>4. Written' /\ Reviewed' /\ HumansKept'
      BY <1>14, <2>1, <2>2
      DEF Reconcile, Written, WrittenBut, Accounted, HasTwin, Reviewed, Approved, Covered,
          ReviewedFirst, HumansKept, Planning, At, topo, proposals, reviews
    <2>5. Trust' /\ Receipts'
      BY <1>14, <2>1 DEF Reconcile, Trust, Receipts, Phases, At, topo, proposals
    <2> QED
      BY <2>3, <2>4, <2>5
  <1>15. CASE Kill
    <2>1. run' = Idle
      BY <1>15 DEF Kill
    <2>2. Typed' /\ Phases'
      BY <1>15, <2>1, IdleRun DEF Kill, Typed, TypeOK, Phases, At, topo, proposals, reviews
    <2>3. Written' /\ Reviewed' /\ HumansKept'
      BY <1>15, <2>1, IdleRun
      DEF Kill, Written, WrittenBut, Accounted, HasTwin, Reviewed, Approved, Covered,
          ReviewedFirst, HumansKept, Planning, topo, proposals, reviews
    <2>4. Trust'
      BY <1>15, <2>1, IdleRun DEF Kill, Trust, At, proposals, Phases
    <2>5. Receipts'
      BY <1>15, <2>1, IdleRun DEF Kill, Receipts, topo
    <2> QED
      BY <2>2, <2>3, <2>4, <2>5
  <1>16. ASSUME NEW v \in Version, ChangeSource(v) PROVE IInv'
    <2>1. Typed' /\ Phases'
      BY <1>16 DEF ChangeSource, Typed, TypeOK, Phases, At, topo, proposals, reviews
    <2>2. Written' /\ Reviewed' /\ HumansKept'
      BY <1>16
      DEF ChangeSource, Written, WrittenBut, Accounted, HasTwin, Reviewed, Approved, Covered,
          ReviewedFirst, HumansKept, Planning, topo, proposals, reviews
    <2>3. Trust' /\ Receipts'
      BY <1>16 DEF ChangeSource, Trust, Receipts, At, topo, proposals
    <2> QED
      BY <2>1, <2>2, <2>3
  <1>17. ASSUME ByHand, docs' \subseteq Draft, projections' \subseteq Projection,
                canon' \in [Item -> Version \cup {Human, Edited, Absent}],
                \A p \in projections' : p \in projections \/ p \in late',
                late \subseteq late',
                \A i \in Item : Accounted(i) => Accounted(i)',
                \A i \in Item : canon'[i] \in Version => canon'[i] = canon[i]
         PROVE  IInv'
    <2>1. /\ At("idle") /\ run' = run /\ run.op = "none" /\ run.out = {} /\ run.todo = {}
          /\ UNCHANGED <<source, trusted, cands, proposals, receipts, run, kills, reviewed, crossed, unreceipted>>
      BY <1>17 DEF ByHand, Phases, At
    <2>2. Typed' /\ Phases'
      BY <1>17, <2>1 DEF Typed, TypeOK, Phases, At, proposals
    <2>3. Written' /\ HumansKept'
      BY <1>17, <2>1
      DEF Written, WrittenBut, Accounted, HasTwin, HumansKept, Planning, At, proposals, Typed, TypeOK, PlanType
    <2>4. Reviewed'
      <3>1. \A i \in Item : Covered(i)' \subseteq Covered(i)
        BY <1>17 DEF Covered
      <3> QED
        BY <2>1, <3>1 DEF Reviewed, Approved, ReviewedFirst, Planning, At, proposals
    <2>5. Trust' /\ Receipts'
      BY <1>17, <2>1 DEF Trust, Receipts, At, proposals
    <2> QED
      BY <2>2, <2>3, <2>4, <2>5
  <1>18. ASSUME NEW i \in Item, Author(i) \/ Edit(i) \/ Delete(i) PROVE IInv'
    <2>1. /\ ByHand /\ UNCHANGED <<docs, projections, late>>
          /\ \E c \in {Human, Edited, Absent} :
                canon' = [canon EXCEPT ![i] = c] /\ (c = Absent => removed' = removed \cup {i})
          /\ removed \subseteq removed'
      BY <1>18, Values DEF Author, Edit, Delete
    <2>2. PICK c \in {Human, Edited, Absent} :
             canon' = [canon EXCEPT ![i] = c] /\ (c = Absent => removed' = removed \cup {i})
      BY <2>1
    <2>3. /\ canon'[i] = c /\ \A j \in Item : j # i => canon'[j] = canon[j]
          /\ canon' \in [Item -> Version \cup {Human, Edited, Absent}]
      BY <2>2 DEF Typed, TypeOK
    <2>4. \A j \in Item : Accounted(j) => Accounted(j)'
      <3>1. \A j \in Item : canon[j] # Absent \/ j \in removed => canon'[j] # Absent \/ j \in removed'
        BY <2>1, <2>2, <2>3, Values
      <3> QED
        BY <3>1 DEF Accounted, HasTwin
    <2>5. \A j \in Item : canon'[j] \in Version => canon'[j] = canon[j]
      BY <2>3, Values
    <2> QED
      BY <1>17, <2>1, <2>3, <2>4, <2>5 DEF Typed, TypeOK
  <1>19. ASSUME NEW d \in Draft, DeleteDoc(d) PROVE IInv'
    BY <1>17, <1>19 DEF DeleteDoc, Typed, TypeOK, Accounted, HasTwin
  <1>20. ASSUME NEW p \in Projection, Project(p) PROVE IInv'
    BY <1>17, <1>20 DEF Project, Typed, TypeOK, Accounted, HasTwin
  <1>21. CASE UNCHANGED vars
    BY <1>21
    DEF vars, topo, proposals, bounds, reviews, Typed, TypeOK, Phases, Written, WrittenBut, Accounted,
        HasTwin, Reviewed, Approved, Covered, ReviewedFirst, HumansKept, Trust, Receipts, At, Planning
  <1> QED
    BY <1>1, <1>2, <1>3, <1>4, <1>5, <1>6, <1>7, <1>8, <1>9, <1>10, <1>11, <1>12, <1>13, <1>14,
       <1>15, <1>16, <1>18, <1>19, <1>20, <1>21 DEF Next, Step
-----------------------------------------------------------------------------
(* What an adopted file references *)

\* What a plan skips is accounted for: the record itself is canonical or was, or
\* one with the same fields.
SkippedBy(pl) == \A i \in Item : pl.status[i] = "skipped" => Accounted(i)
Skipped == SkippedBy(plan) /\ (run.pc \in Planning => SkippedBy(run.plan))

\* While a bundle or the plan is adopted, what adopted files reference is
\* accounted for, or still to be written.
Whole == run.op = "adopt" /\ run.loads /\ run.sel.by \in {"bundle", "from-plan"}
Supported == Whole =>
    \A i \in Item : canon[i] \in Version \cup {Edited} \/ i \in run.todo =>
        \A j \in Needs[i] \cap Extracted : Accounted(j) \/ j \in run.todo

\* What is merged is skipped because it was, or as a duplicate; what is offered
\* has a status, and only a capability waits for a review.
LEMMA MergedSkips ==
    ASSUME Typed, WrittenBut(plan, {}), Approved(plan), SkippedBy(plan), NEW i \in Item
    PROVE  LET status == Merged(Sight).status[i] IN
           /\ status = "skipped" => Accounted(i)
           /\ i \in Offered /\ Kind[i] # "capability" =>
                 status \in {"pending", "approved", "applied", "skipped"}
  <1> DEFINE sight == Sight
  <1>1. Merged(Sight).status[i] = MergedStatus(sight, i)
    BY MergedType
  <1>2. sight.offered = Offered /\ sight.dup \subseteq Merged(Sight).dup
    BY Seen, MergedType
  <1>3. \A j \in Merged(Sight).dup : Accounted(j)
    BY MergedKeeps DEF WrittenBut
  <1> HIDE DEF sight
  <1>4. Absent \notin Status /\ plan.status[i] \in Status \cup {Absent}
    BY SourceAssumption DEF Typed, TypeOK, PlanType
  <1>5. BaseStatus(sight, i) \in {"skipped", "needs_review", "pending"}
        /\ (BaseStatus(sight, i) = "skipped" => i \in sight.dup)
    BY DEF BaseStatus
  <1>6. ASSUME NEW status \in Status
        PROVE  /\ Derived(sight, i, status, plan.groups) = "skipped" => status = "skipped"
               /\ Kind[i] # "capability" =>
                     Derived(sight, i, status, plan.groups) \in {"pending", "approved", "applied", "skipped"}
    <2>1. Kind[i] # "capability" => Blockers(sight, i) = {}
      BY DEF Blockers
    <2> QED
      BY <2>1 DEF Derived, Status
  <1>7. MergedStatus(sight, i) = "skipped" => plan.status[i] = "skipped" \/ i \in sight.dup
    BY <1>4, <1>5, <1>6 DEF MergedStatus, Status
  <1>8. i \in Offered /\ Kind[i] # "capability" =>
           MergedStatus(sight, i) \in {"pending", "approved", "applied", "skipped"}
    BY <1>2, <1>4, <1>5, <1>6 DEF MergedStatus, Status
  <1> QED
    BY <1>1, <1>2, <1>3, <1>7, <1>8 DEF SkippedBy

\* adopt skips what the merged plan skips.
LEMMA AdoptedSkips ==
    ASSUME Typed, NEW sel \in Selector, NEW i \in Item,
           Adopted(sel, Sight, Merged(Sight)).status[i] = "skipped"
    PROVE  Merged(Sight).status[i] = "skipped"
  <1> DEFINE merged == Merged(Sight)
             groups == merged.groups \cup Approves(sel, Sight)
             After(j, status) ==
                 IF status = Absent THEN Absent
                 ELSE IF j \in Selected(sel, merged.status) THEN "applied"
                 ELSE IF sel.by \in {"review", "bundle-review"} THEN Derived(Sight, j, status, groups)
                 ELSE status
  <1>1. merged \in PlanType
    BY MergedType
  <1>2. Adopted(sel, Sight, merged) =
           [merged EXCEPT !.groups = groups, !.status = [j \in Item |-> After(j, merged.status[j])]]
    BY DEF Adopted
  <1> HIDE DEF merged, groups
  <1>3. Adopted(sel, Sight, merged).status[i] = After(i, merged.status[i])
    BY <1>1, <1>2 DEF PlanType
  <1>4. After(i, merged.status[i]) = "skipped"
    BY <1>3 DEF merged
  <1>5. Absent # "skipped" /\ merged.status[i] \in Status \cup {Absent}
    BY <1>1, SourceAssumption DEF PlanType, Status
  <1>6. merged.status[i] = "skipped"
    BY <1>4, <1>5 DEF Derived, Status
  <1> QED
    BY <1>6 DEF merged

\* Where the workspace validates, adopting a bundle or the plan writes what the
\* files it writes reference, if the source has it and nothing accounts for it.
LEMMA OutputsSupported ==
    ASSUME Typed, WrittenBut(plan, {}), Approved(plan), SkippedBy(plan), Loads,
           NEW sel \in Selector, sel.by \in {"bundle", "from-plan"}, NEW refreshAdopted \in BOOLEAN,
           NEW i \in Item, NEW j \in Needs[i] \cap Extracted,
           \/ canon[i] \in Version \cup {Edited}
           \/ i \in Outputs(sel, Merged(Sight), Text(Sight), refreshAdopted)
    PROVE  Accounted(j) \/ j \in Outputs(sel, Merged(Sight), Text(Sight), refreshAdopted)
  <1> DEFINE merged == Merged(Sight)
             out == Outputs(sel, merged, Text(Sight), refreshAdopted)
  <1>1. j \in Item /\ Kind[i] = "capability" /\ Kind[j] # "capability" /\ Bundle[j] = Bundle[i]
    BY Values, ReferencesAssumption
  <1>2. /\ \A k \in out : canon[k] # Human
        /\ \A k \in Item : k \in Selected(sel, merged.status) /\ merged.status[k] # Absent =>
              Accounted(k) \/ k \in out
    BY OutputsMean
  <1>3. i \in out => i \in Selected(sel, merged.status)
    BY DEF Outputs
  <1>4. WrittenBut(merged, {})
    BY MergedKeeps
  <1>5. /\ merged.status[j] = "skipped" => Accounted(j)
        /\ j \in Offered => merged.status[j] \in {"pending", "approved", "applied", "skipped"}
    BY <1>1, MergedSkips
  <1> HIDE DEF merged, out
  <1>6. CASE canon[i] \in Version \cup {Edited}
    BY <1>6 DEF Loads, Accounted
  <1>7. CASE canon[j] # Absent
    BY <1>7 DEF Accounted
  <1>8. CASE i \in out /\ canon[i] = Absent /\ canon[j] = Absent
    <2>1. i \in InitiallySelected(sel, merged.status)
      BY <1>1, <1>3, <1>8 DEF Selected, DependentShapes
    <2>2. j \in Offered
      <3>1. CASE Kind[j] = "shape"
        <4>1. cands \in Version /\ j \in Found[cands]
          BY DEF Extracted, Typed, TypeOK
        <4>2. i \in Extracted
          BY <3>1, <4>1, Values, ReferencesAssumption DEF Extracted
        <4> QED
          BY <1>1, <1>8, <3>1, <4>2 DEF Offered
      <3>2. CASE Kind[j] # "shape"
        BY <1>8, <3>2 DEF Offered
      <3> QED
        BY <3>1, <3>2
    <2>3. CASE merged.status[j] \in {"pending", "approved"}
      <3>1. j \in InitiallySelected(sel, merged.status)
        BY <1>1, <2>1, <2>3 DEF InitiallySelected, Matches
      <3>2. j \in Selected(sel, merged.status) /\ merged.status[j] # Absent
        BY <2>3, <3>1, SourceAssumption DEF Selected, Status
      <3> QED
        BY <1>1, <1>2, <3>2 DEF out, merged
    <2>4. CASE merged.status[j] = "applied"
      BY <1>1, <1>4, <2>4 DEF WrittenBut
    <2> QED
      BY <1>5, <2>2, <2>3, <2>4
  <1>9. canon[i] \in Version \cup {Edited, Absent} \/ i \notin out
    BY <1>2 DEF Typed, TypeOK
  <1> QED
    BY <1>6, <1>7, <1>8, <1>9 DEF out, merged

\* A record stays accounted for until a refresh drops the plan.
LEMMA AccountedStays ==
    ASSUME IInv, [Next]_vars, ~ClearPlan, NEW i \in Item, Accounted(i)
    PROVE  Accounted(i)'
  <1> SUFFICES ASSUME NEW j \in Item, canon[j] # Absent \/ j \in removed
               PROVE  canon'[j] # Absent \/ j \in removed'
    BY DEF Accounted, HasTwin
  <1>1. CASE UNCHANGED <<canon, removed>>
    BY <1>1
  <1>2. CASE WriteItem
    <2>1. PICK k \in run.todo : canon' = [canon EXCEPT ![k] = run.text[k]]
      BY <1>2 DEF WriteItem
    <2>2. run.text[k] # Absent /\ canon \in [Item -> Version \cup {Human, Edited, Absent}]
      BY Values DEF IInv, Typed, TypeOK
    <2> QED
      BY <1>2, <2>1, <2>2 DEF WriteItem, reviews
  <1>3. ASSUME NEW k \in Item, Author(k) \/ Edit(k) \/ Delete(k) PROVE canon'[j] # Absent \/ j \in removed'
    <2>1. canon \in [Item -> Version \cup {Human, Edited, Absent}]
      BY DEF IInv, Typed, TypeOK
    <2> QED
      BY <1>3, <2>1, Values DEF Author, Edit, Delete
  <1> QED
    BY <1>1, <1>2, <1>3
    DEF Next, Step, Promote, WriteModel, WritePlan, WriteAgentPlan, AppendReceipt, ClearCandidates,
        WriteCandidates, ReconcileRefreshed, WriteProvenance, Kill, Extract, Reconcile, Adopt,
        ChangeSource, DeleteDoc, Project, vars, topo, reviews

LEMMA SupportStarts == Init => Skipped /\ Supported
  <1> SUFFICES ASSUME Init PROVE Skipped /\ Supported
    OBVIOUS
  <1>1. run = Idle /\ run.op = "none" /\ run.pc = "idle"
    BY IdleRun DEF Init
  <1>2. ASSUME NEW i \in Item PROVE plan.status[i] # "skipped"
    <2>1. ~Duplicate(i)
      BY Values DEF Init, Duplicate
    <2>2. i \notin Sight.dup
      BY <2>1, Seen
    <2>3. plan.status[i] = IF i \in Offered THEN BaseStatus(Sight, i) ELSE Absent
      BY DEF Init
    <2>4. Absent # "skipped"
      BY SourceAssumption DEF Status
    <2> QED
      BY <2>2, <2>3, <2>4 DEF BaseStatus
  <1> QED
    BY <1>1, <1>2 DEF Skipped, SkippedBy, Supported, Whole, Planning

\* What the saved plan and the plan to be saved skip stays accounted for.
LEMMA SkippedPreserved == IInv /\ Skipped /\ [Next]_vars => Skipped'
  <1> SUFFICES ASSUME IInv, Skipped, [Next]_vars PROVE Skipped'
    OBVIOUS
  <1>1. CASE ClearPlan
    <2>1. plan' = NoPlan /\ run'.pc = "raw"
      BY <1>1 DEF ClearPlan, Goto, IInv, Typed, Fields
    <2>2. \A i \in Item : plan'.status[i] # "skipped"
      BY <2>1, IdleRun, SourceAssumption DEF Status
    <2> QED
      BY <2>1, <2>2 DEF Skipped, SkippedBy, Planning
  <1>2. CASE ~ClearPlan
    <2>1. \A i \in Item : Accounted(i) => Accounted(i)'
      BY <1>2, AccountedStays
    <2>2. WrittenBut(plan, {}) /\ Approved(plan) /\ Typed /\ SkippedBy(plan)
      BY DEF IInv, Written, Reviewed, Skipped
    <2>3. SkippedBy(Merged(Sight))
      BY <2>2, MergedSkips DEF SkippedBy
    <2>4. \A sel \in Selector : SkippedBy(Adopted(sel, Sight, Merged(Sight)))
      BY <2>2, <2>3, AdoptedSkips DEF SkippedBy
    <2>5. SkippedBy(plan)'
      <3>1. CASE WritePlan
        BY <2>1, <3>1 DEF WritePlan, Skipped, SkippedBy, Planning, At
      <3>2. CASE plan' = plan
        BY <2>1, <2>2, <3>2 DEF SkippedBy
      <3> QED
        BY <1>2, <3>1, <3>2
        DEF Next, Step, Promote, WriteItem, WriteModel, WriteAgentPlan, AppendReceipt, ClearCandidates,
            WriteCandidates, ReconcileRefreshed, WriteProvenance, Kill, Extract, Reconcile, Adopt,
            ChangeSource, Author, Edit, Delete, ByHand, DeleteDoc, Project, vars, proposals
    <2>6. run'.pc \in Planning =>
             \/ run.pc \in Planning /\ run'.plan = run.plan
             \/ run'.plan = Merged(Sight)
             \/ \E sel \in Selector : run'.plan = Adopted(sel, Sight, Merged(Sight))
      <3>1. DOMAIN run = Fields
        BY DEF IInv, Typed
      <3>2. CASE Promote \/ WriteItem \/ WriteModel
        BY <3>1, <3>2 DEF Promote, WriteItem, WriteModel, Goto, At, Planning, Fields
      <3>3. CASE WritePlan \/ ClearCandidates \/ WriteCandidates
        BY <3>1, <3>3 DEF WritePlan, ClearCandidates, WriteCandidates, Goto, Planning, Fields
      <3>4. CASE WriteAgentPlan
        BY <3>1, <3>4, IdleRun DEF WriteAgentPlan, Goto, Planning, Fields
      <3>5. CASE AppendReceipt \/ WriteProvenance \/ Kill
        BY <3>5, IdleRun DEF AppendReceipt, WriteProvenance, Kill, Planning
      <3>6. CASE ReconcileRefreshed
        BY <3>1, <3>6 DEF ReconcileRefreshed, Fields
      <3>7. CASE Extract
        BY <3>7, IdleRun DEF Extract, Planning, Fields
      <3>8. CASE Reconcile
        BY <3>8, IdleRun DEF Reconcile, Fields
      <3>9. ASSUME NEW sel \in Selector, NEW forced \in BOOLEAN, NEW refreshAdopted \in BOOLEAN,
                   Adopt(sel, forced, refreshAdopted)
            PROVE  run'.plan = Adopted(sel, Sight, Merged(Sight))
        BY <3>9 DEF Adopt
      <3>10. CASE run' = run
        BY <3>10
      <3> QED
        BY <1>2, <3>2, <3>3, <3>4, <3>5, <3>6, <3>7, <3>8, <3>9, <3>10
        DEF Next, Step, ChangeSource, Author, Edit, Delete, ByHand, DeleteDoc, Project, vars
    <2>7. run'.pc \in Planning => SkippedBy(run'.plan)
      BY <2>3, <2>4, <2>6 DEF Skipped
    <2>8. run'.pc \in Planning => SkippedBy(run.plan)'
      BY <2>1, <2>7 DEF SkippedBy
    <2> QED
      BY <2>5, <2>8 DEF Skipped
  <1> QED
    BY <1>1, <1>2

\* Each write of an adoption accounts for one record more.
LEMMA SupportPreserved == IInv /\ Skipped /\ Supported /\ [Next]_vars => Supported'
  <1> SUFFICES ASSUME IInv, Skipped, Supported, [Next]_vars, Whole',
                      NEW i \in Item, canon'[i] \in Version \cup {Edited} \/ i \in run'.todo,
                      NEW j \in Needs[i] \cap Extracted'
               PROVE  Accounted(j)' \/ j \in run'.todo
    BY DEF Supported
  <1>1. Typed /\ DOMAIN run = Fields /\ j \in Item
    BY Values DEF IInv, Typed
  <1>2. ASSUME NEW sel \in Selector, NEW forced \in BOOLEAN, NEW refreshAdopted \in BOOLEAN,
               Adopt(sel, forced, refreshAdopted)
        PROVE  Accounted(j)' \/ j \in run'.todo
    <2> DEFINE out == Outputs(sel, Merged(Sight), Text(Sight), refreshAdopted)
    <2>1. /\ run'.sel = sel /\ run'.loads = Sight.loads /\ run'.todo = out
          /\ UNCHANGED <<cands, topo, removed>>
      BY <1>2 DEF Adopt
    <2> HIDE DEF out
    <2>2. Loads /\ sel.by \in {"bundle", "from-plan"}
      BY <2>1, Seen DEF Whole
    <2>3. canon[i] \in Version \cup {Edited} \/ i \in out
      BY <2>1 DEF topo
    <2>4. j \in Needs[i] \cap Extracted
      BY <2>1 DEF Extracted
    <2>5. Accounted(j) \/ j \in out
      BY <1>1, <2>2, <2>3, <2>4, OutputsSupported DEF out, IInv, Written, Reviewed, Skipped
    <2> QED
      BY <2>1, <2>5 DEF Accounted, HasTwin, topo
  <1>3. CASE WriteItem
    <2>1. PICK k \in run.todo :
             /\ canon' = [canon EXCEPT ![k] = run.text[k]]
             /\ run' = [run EXCEPT !.todo = @ \ {k}, !.pc = IF run.todo = {k} THEN "plan" ELSE @]
      BY <1>3 DEF WriteItem
    <2>2. /\ run'.op = run.op /\ run'.sel = run.sel /\ run'.loads = run.loads
          /\ run'.todo = run.todo \ {k} /\ cands' = cands
      BY <1>1, <1>3, <2>1 DEF WriteItem, Fields
    <2>3. k \in Item /\ canon'[k] = run.text[k] /\ run.text[k] \in Version
          /\ \A l \in Item : l # k => canon'[l] = canon[l]
      BY <2>1 DEF IInv, Typed, TypeOK
    <2>4. canon[i] \in Version \cup {Edited} \/ i \in run.todo
      BY <2>2, <2>3
    <2>5. Accounted(j) \/ j \in run.todo
      BY <2>2, <2>4 DEF Supported, Whole, Extracted
    <2>6. CASE j = k
      BY <2>3, <2>6, Values DEF Accounted
    <2>7. CASE Accounted(j)
      BY <1>1, <1>3, <2>7, AccountedStays DEF WriteItem, ClearPlan, At
    <2> QED
      BY <2>2, <2>5, <2>6, <2>7
  <1>4. CASE /\ UNCHANGED <<cands, canon, removed>>
             /\ run'.op = run.op /\ run'.sel = run.sel /\ run'.loads = run.loads /\ run'.todo = run.todo
    BY <1>4 DEF Supported, Whole, Extracted, Accounted, HasTwin
  <1>5. CASE Promote \/ WritePlan
    BY <1>1, <1>4, <1>5 DEF Promote, WritePlan, Goto, Fields, reviews, topo
  <1>6. CASE WriteAgentPlan
    <2>1. run' # Idle
      BY IdleRun DEF Whole
    <2>2. run' = [run EXCEPT !.pc = IF run.op = "adopt" THEN "receipt" ELSE "provenance"]
      BY <1>6, <2>1 DEF WriteAgentPlan, Goto
    <2> QED
      BY <1>1, <1>4, <1>6, <2>2 DEF WriteAgentPlan, Fields, reviews, topo
  <1>7. CASE AppendReceipt \/ WriteProvenance \/ Kill
    BY <1>7, IdleRun DEF AppendReceipt, WriteProvenance, Kill, Whole
  <1>8. CASE WriteModel \/ ClearCandidates \/ ClearPlan \/ WriteCandidates \/ ReconcileRefreshed
    <2>1. run.op # "adopt"
      BY <1>8
      DEF WriteModel, ClearCandidates, ClearPlan, WriteCandidates, ReconcileRefreshed, At, IInv, Phases
    <2>2. run'.op = run.op
      BY <1>1, <1>8
      DEF WriteModel, ClearCandidates, ClearPlan, WriteCandidates, ReconcileRefreshed, Goto, Fields
    <2> QED
      BY <2>1, <2>2 DEF Whole
  <1>9. CASE Extract \/ Reconcile
    BY <1>9, IdleRun DEF Extract, Reconcile, Whole, Fields
  <1>10. CASE ByHand
    <2>1. run' = run /\ run.op # "adopt"
      BY <1>10 DEF ByHand, At, IInv, Phases
    <2> QED
      BY <2>1 DEF Whole
  <1>11. ASSUME NEW v \in Version, ChangeSource(v) PROVE Accounted(j)' \/ j \in run'.todo
    BY <1>4, <1>11 DEF ChangeSource, topo, reviews
  <1>12. CASE UNCHANGED vars
    BY <1>4, <1>12 DEF vars, topo, reviews
  <1> QED
    BY <1>2, <1>3, <1>5, <1>6, <1>7, <1>8, <1>9, <1>10, <1>11, <1>12
    DEF Next, Step, Author, Edit, Delete, DeleteDoc, Project
-----------------------------------------------------------------------------
(* The theorems *)

\* Records, plans and running commands keep their types.
THEOREM AdoptionTypeCorrect == Spec => []TypeOK
  <1>1. IInv => TypeOK
    BY DEF IInv, Typed
  <1> QED
    BY Start, Preserved, <1>1, PTL DEF Spec

\* However often commands are killed, what the plan calls applied has its
\* canonical file, was deleted by a human or is the duplicate of a shape.
THEOREM AppliedItemsAreWritten == Spec => []AppliedIsWritten
  <1>1. IInv => AppliedIsWritten
    BY DEF IInv, Written, WrittenBut, Accounted, AppliedIsWritten
  <1> QED
    BY Start, Preserved, <1>1, PTL DEF Spec

\* Where the workspace validates, no capability is written before the
\* projections that cover it have been reviewed.
THEOREM ReviewsComeFirst == Spec => []ReviewedFirst
  <1>1. IInv => ReviewedFirst
    BY DEF IInv, Reviewed
  <1> QED
    BY Start, Preserved, <1>1, PTL DEF Spec

\* What adopt writes was extracted from the version whose hashes are trusted,
\* however commands were killed before the last refresh that ended undisturbed.
THEOREM CandidatesAreTrusted == Spec => []TrustedCandidates
  <1>1. IInv => TrustedCandidates
    BY DEF IInv, Trust, TrustedCandidates
  <1> QED
    BY Start, Preserved, <1>1, PTL DEF Spec

\* Every adopted file has a receipt of its version, unless a kill took it.
THEOREM AdoptionsHaveReceipts == Spec => []Receipted
  <1>1. IInv => Receipted
    BY DEF IInv, Receipts, Phases, Receipted, At
  <1> QED
    BY Start, Preserved, <1>1, PTL DEF Spec

\* Adopting a bundle or the plan leaves no file that references a record the
\* source has, unless a human deleted that record or a shape with the same
\* fields stands for it.
THEOREM AdoptionsLoad == Spec => []AdoptKeepsLoading
  <1>1. IInv /\ Supported => AdoptKeepsLoading
    <2> SUFFICES ASSUME IInv, Supported, At("receipt"), run.loads, run.sel.by \in {"bundle", "from-plan"},
                        NEW i \in Item, canon[i] \in Version \cup {Edited}, NEW j \in Needs[i] \cap Extracted
                 PROVE  canon[j] # Absent \/ j \in removed \/ HasTwin(j)
      BY DEF AdoptKeepsLoading
    <2>1. run.op = "adopt" /\ run.todo = {}
      BY DEF IInv, Phases, At
    <2> QED
      BY <2>1 DEF Supported, Whole, Accounted
  <1> QED
    BY Start, Preserved, SupportStarts, SkippedPreserved, SupportPreserved, <1>1, PTL DEF Spec

\* No step of a command changes a file that a human wrote.
THEOREM HumanFilesStay == Spec => HumanFilesKept
  <1>1. Init => edits \in Nat
    BY DEF Init
  <1>2. edits \in Nat /\ [Next]_vars => (edits \in Nat)'
    <2> SUFFICES ASSUME edits \in Nat, [Next]_vars PROVE edits' \in Nat
      OBVIOUS
    <2>1. CASE Step
      BY <2>1
      DEF Step, Promote, WriteItem, WriteModel, WritePlan, WriteAgentPlan, AppendReceipt, ClearCandidates,
          ClearPlan, WriteCandidates, ReconcileRefreshed, WriteProvenance, bounds
    <2>2. CASE Kill \/ Extract \/ Reconcile
      BY <2>2 DEF Kill, Extract, Reconcile, bounds
    <2>3. ASSUME NEW sel, NEW forced, NEW refreshAdopted, Adopt(sel, forced, refreshAdopted) PROVE edits' \in Nat
      BY <2>3 DEF Adopt, bounds
    <2>4. ASSUME NEW v, ChangeSource(v) PROVE edits' \in Nat
      BY <2>4 DEF ChangeSource
    <2>5. CASE ByHand
      BY <2>5 DEF ByHand
    <2> QED
      BY <2>1, <2>2, <2>3, <2>4, <2>5 DEF Next, Author, Edit, Delete, DeleteDoc, Project, vars, bounds
  <1>3. IInv /\ edits \in Nat /\ [Next]_vars =>
          [\A i \in Item : canon[i] = Human /\ edits' = edits => canon'[i] = Human]_vars
    <2> SUFFICES ASSUME IInv, edits \in Nat, Next, NEW i \in Item, canon[i] = Human, edits' = edits
                 PROVE  canon'[i] = Human
      OBVIOUS
    <2>1. CASE WriteItem
      BY <2>1 DEF WriteItem, IInv, HumansKept, Typed, TypeOK
    <2>2. CASE canon' = canon
      BY <2>2
    <2>3. ~ByHand
      BY DEF ByHand
    <2> QED
      BY <2>1, <2>2, <2>3
      DEF Next, Step, Promote, WriteModel, WritePlan, WriteAgentPlan, AppendReceipt, ClearCandidates,
          ClearPlan, WriteCandidates, ReconcileRefreshed, WriteProvenance, Kill, Extract, Reconcile,
          Adopt, ChangeSource, Author, Edit, Delete, DeleteDoc, Project, topo
  <1> QED
    BY Start, Preserved, <1>1, <1>2, <1>3, PTL DEF Spec, HumanFilesKept
=============================================================================
