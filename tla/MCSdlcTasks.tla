----------------------------- MODULE MCSdlcTasks -----------------------------
(***************************************************************************)
(* Two tasks, the second blocked by the first, with the requirement,       *)
(* criterion and verification that prove them.                             *)
(***************************************************************************)
EXTENDS SdlcWorkspace, TLC

MCId == {"task_a", "task_b", "req_r", "ac_c", "ver_v"}
MCKindOf == ("task_a" :> "task") @@ ("task_b" :> "task") @@ ("req_r" :> "requirement")
                @@ ("ac_c" :> "acceptance_criterion") @@ ("ver_v" :> "verification")
MCRank == ("ac_c" :> 1) @@ ("req_r" :> 2) @@ ("task_a" :> 3) @@ ("task_b" :> 4) @@ ("ver_v" :> 5)

NoSteps == [st \in {"s"} |-> "pending"]
Rec(status, refs, fill) ==
    [status |-> status, refs |-> refs, fill |-> fill, steps |-> NoSteps, quoted |-> FALSE]

Proof == {<<"satisfies", "req_r">>, <<"acceptance_refs", "ac_c">>}

MCSeeds ==
    ("task_a" :> {Rec("unclaimed", Proof, {})})
    @@ ("task_b" :> {NoRecord, Rec("unclaimed", {<<"blocked_by", "task_a">>}, {})})
    @@ ("req_r" :> {Rec("approved", {}, {"affects"})})
    @@ ("ac_c" :> {Rec("approved", {<<"requirement", "req_r">>}, {"gwt"})})
    @@ ("ver_v" :> {Rec("active", {}, {})})

MCAuthorText ==
    ("task_a" :> {})
    @@ ("task_b" :> {[refs |-> Proof \cup {<<"blocked_by", "task_a">>}, fill |-> {}]})
    @@ ("req_r" :> {}) @@ ("ac_c" :> {}) @@ ("ver_v" :> {})
=============================================================================
