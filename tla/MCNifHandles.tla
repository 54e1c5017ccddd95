------------------------------ MODULE MCNifHandles ------------------------------
(* Two processes and six handles.  Each scenario is one family of functions   *)
(* on the handles that make its calls interfere.                              *)
EXTENDS NifHandlesProperties

MCHandles == { "h1", "h2", "h3", "h4", "h5", "h6" }

Heap(values) ==
    [h \in MCHandles |-> IF h \in DOMAIN values THEN values[h] ELSE Unborn]

\* The process that makes the only call of EveryNif.
One == CHOOSE c \in Callers : TRUE

\* Refusals touch no handle and interfere with nobody: EveryNif has them all.
Scenario(nifs, values, calls, panics) ==
    [nifs |-> nifs, heap |-> Heap(values), panics |-> panics, refusals |-> FALSE,
     calls |-> [c \in Callers |-> calls]]

\* One filter, one builder; recorded and unrecorded operations, finishing.
FusionScenario ==
    Scenario({ "fusion_propagate_recorded", "fusion_update_stationary_recorded",
               "fusion_propagate", "fusion_rts_history_builder_finish" },
             [h1 |-> NewFilter, h2 |-> NewBuilder], 2, TRUE)

TrackScenario ==
    Scenario({ "track_filter_predict_recorded", "track_filter_update_position_recorded",
               "track_filter_update_position", "track_filter_record_prediction_only",
               "track_rts_history_builder_finish" },
             [h1 |-> NewFilter, h2 |-> NewBuilder], 2, TRUE)

\* Two updates at one time leave two checkpoints of one epoch.
StateScenario ==
    Scenario({ "fusion_propagate", "fusion_update_loose", "fusion_encode_state",
               "fusion_restore_state", "fusion_from_state_bytes" },
             [h1 |-> Operated(NewFilter, 0)], 2, FALSE)

GuardScenario ==
    Scenario({ "data_exact_cache_open", "data_exact_cache_read",
               "data_exact_cache_publish", "data_exact_cache_cleanup",
               "data_exact_cache_close" },
             [h1 |-> [NewDisk EXCEPT !.writer = "h2"], h2 |-> [kind |-> "guard", full |-> TRUE]],
             2, TRUE)

OwnerScenario ==
    Scenario({ "data_exact_cache_open_single_flight", "data_exact_cache_owner_heartbeat",
               "data_exact_cache_owner_publish", "data_exact_cache_owner_abandon",
               "data_exact_cache_read_unlocked" },
             [h1 |-> [NewDisk EXCEPT !.flight = "h2"], h2 |-> [kind |-> "owner", full |-> TRUE]],
             2, TRUE)

SsrScenario ==
    Scenario({ "ssr_store_ingest", "ssr_lookup", "spp_solve_ssr_exact",
               "ssr_sample_broadcast", "ssr_corrected_position" },
             [h1 |-> NewStore], 2, TRUE)

StageScenario ==
    Scenario({ "tec_grid_tec_xyz_prepare", "tec_grid_tec_xyz_resume" },
             [h1 |-> [kind |-> "grid"], h2 |-> Request("h1", "pierce point")], 2, TRUE)

MappedScenario ==
    Scenario({ "terrain_store_mmap_from_path_attested", "terrain_store_mmap_verify",
               "terrain_store_height_m", "terrain_store_digest_provenance" },
             [h1 |-> Mapped("attested", FALSE)], 2, TRUE)

StreamScenario ==
    Scenario({ "ntrip_machine_push", "ntrip_machine_reset", "nmea_accumulator_finish",
               "nmea_accumulator_retained_len" },
             [h1 |-> NewStream], 2, TRUE)

\* Every function once, with every kind of handle at hand.
EveryNif ==
    [nifs |-> DOMAIN NifTable, panics |-> FALSE, refusals |-> TRUE,
     calls |-> [c \in Callers |-> IF c = One THEN 1 ELSE 0],
     heap |-> Heap([h1 |-> NewFilter, h2 |-> NewBuilder, h3 |-> NewMachine,
                    h4 |-> NewStore, h5 |-> NewStream])]

MCScenarios ==
    [fusion |-> FusionScenario, track |-> TrackScenario, state |-> StateScenario,
     guard |-> GuardScenario, owner |-> OwnerScenario, ssr |-> SsrScenario,
     stage |-> StageScenario, mapped |-> MappedScenario, stream |-> StreamScenario,
     every |-> EveryNif]

===============================================================================
