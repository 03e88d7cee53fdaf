--------------------------- MODULE MCSdlcDelivery ---------------------------
(***************************************************************************)
(* A task, the plan that carries it out and the bug it fixes: the records  *)
(* a release archives, which point at each other.                          *)
(***************************************************************************)
EXTENDS SdlcWorkspace, TLC

MCId == {"task_a", "plan_p", "bug_g", "req_r", "ac_c", "ver_v"}
MCKindOf == ("task_a" :> "task") @@ ("plan_p" :> "plan") @@ ("bug_g" :> "bug")
                @@ ("req_r" :> "requirement") @@ ("ac_c" :> "acceptance_criterion")
                @@ ("ver_v" :> "verification")
\* acceptance_criteria/, bugs/, plans/, requirements/, tasks/, verifications/
MCRank == ("ac_c" :> 1) @@ ("bug_g" :> 2) @@ ("plan_p" :> 3) @@ ("req_r" :> 4)
              @@ ("task_a" :> 5) @@ ("ver_v" :> 6)

NoSteps == [st \in {"s"} |-> "pending"]
Rec(status, refs, fill) ==
    [status |-> status, refs |-> refs, fill |-> fill, steps |-> NoSteps, quoted |-> FALSE]

Proof == {<<"satisfies", "req_r">>, <<"acceptance_refs", "ac_c">>}

MCSeeds ==
    ("task_a" :> {Rec("unclaimed", Proof, {})})
    @@ ("plan_p" :> {NoRecord})
    @@ ("bug_g" :> {Rec("open", {}, {})})
    @@ ("req_r" :> {Rec("approved", {}, {"affects"})})
    @@ ("ac_c" :> {Rec("approved", {<<"requirement", "req_r">>}, {"gwt"})})
    @@ ("ver_v" :> {Rec("active", {}, {})})

MCAuthorText == [i \in MCId |-> {}]
=============================================================================
