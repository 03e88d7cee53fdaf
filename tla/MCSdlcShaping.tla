---------------------------- MODULE MCSdlcShaping ----------------------------
(***************************************************************************)
(* From an idea to approved scope: a pitch, the requirement that covers it *)
(* and its acceptance criterion, with statuses edited by hand in between.  *)
(***************************************************************************)
EXTENDS SdlcWorkspace, TLC

MCId == {"pitch_p", "req_r", "ac_c"}
MCKindOf == ("pitch_p" :> "pitch") @@ ("req_r" :> "requirement")
                @@ ("ac_c" :> "acceptance_criterion")
MCRank == ("ac_c" :> 1) @@ ("pitch_p" :> 2) @@ ("req_r" :> 3)

MCSeeds == [i \in MCId |-> {NoRecord}]

\* A pitch with or without the two sections its validator asks for once shaped.
MCAuthorText ==
    ("pitch_p" :> {[refs |-> {}, fill |-> {"appetite", "problem"}],
                   [refs |-> {}, fill |-> {"appetite", "problem", "rabbit_holes", "no_go_areas"}]})
    @@ ("req_r" :> {[refs |-> {<<"pitch", "pitch_p">>}, fill |-> {"affects", "rules"}]})
    @@ ("ac_c" :> {[refs |-> {<<"requirement", "req_r">>}, fill |-> {"gwt"}]})
=============================================================================
