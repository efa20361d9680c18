---------------------------- MODULE MCLanePipeline ----------------------------
(* A short pipeline with one step of every sort harbor_completed_lanes has: a pinned *)
(* generation, both phases of the normalization around the profile, the step that     *)
(* binds the stage, and one that binds nothing and whose validator can stop the       *)
(* workbook.                                                                          *)
EXTENDS LanePipeline, TLC

ShortSteps ==
    <<"source", "normalization_phase1", "source_profile", "normalization_phase2",
      "environment", "naturalization">>
ShortLane ==
    [k \in {ShortSteps[i] : i \in 1..6} |->
        IF k \in {"normalization_phase1", "normalization_phase2"} THEN "normalization" ELSE k]
ShortPair == {"source"}
ShortContexts == {"source"}
ShortExhaustible == {"naturalization"}
ShortBinders == {ShortSteps[i] : i \in 1..5}
=============================================================================
