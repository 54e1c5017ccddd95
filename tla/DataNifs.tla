------------------------------- MODULE DataNifs -------------------------------
(* The product catalog (native/sidereon_nif/src/data.rs): centers, products,  *)
(* identities, archive locations, publication listings and terrain tiles.     *)
(* Most functions come twice: a plain one, and one that answers a refusal     *)
(* with its fields.                                                           *)
EXTENDS NifCalls

catalog_atom ==
    { "unknown_center", "unknown_product_type", "unsupported_product",
      "unsupported_distribution", "unsupported_product_era", "unsupported_distribution_era",
      "no_distribution_sources", "invalid_official_filename", "inconsistent_product_identity",
      "no_open_mirror", "invalid_date", "date_out_of_range", "date_before_gps_epoch",
      "invalid_gps_day_of_week", "invalid_sample", "unsupported_sample", "invalid_span",
      "invalid_issue", "missing_issue", "unexpected_issue", "unsupported_issue",
      "invalid_date_time", "no_ultra_issue", "no_available_ultra_issue",
      "unsupported_nominal_schedule", "unrecognized_archive_listing", "invalid_station",
      "invalid_coordinate", "invalid_tile_index", "invalid_tile_id", "value", "center",
      "product_type", "source", "date", "field", "year", "month", "day", "gps_day", "sample",
      "issue", "hour", "minute", "second", "reason", "lat_deg_bits", "lon_deg_bits",
      "lat_index", "lon_index" }

Product == { "center", "product_type" }

\* The refusals of the catalog that name a product, a source or an identity.
catalog_product_projection ==
    [unknown_center |-> { "value" }, unknown_product_type |-> { "value" },
     unsupported_product |-> Product,
     unsupported_distribution |-> { "source", "product_type" },
     unsupported_product_era |-> Product \cup { "date" },
     unsupported_distribution_era |-> Product \cup { "source", "date" },
     no_distribution_sources |-> {}, invalid_official_filename |-> { "value" },
     inconsistent_product_identity |-> { "field" }, no_open_mirror |-> Product,
     invalid_date |-> { "year", "month", "day" }, date_out_of_range |-> {},
     date_before_gps_epoch |-> { "date" }, invalid_gps_day_of_week |-> { "gps_day" },
     invalid_sample |-> { "value" }, unsupported_sample |-> Product \cup { "sample" }]

\* The ones that name a span, an issue, a schedule, a listing or a tile.
catalog_issue_projection ==
    [invalid_span |-> { "value" }, invalid_issue |-> { "value" },
     missing_issue |-> { "center" }, unexpected_issue |-> { "center" },
     unsupported_issue |-> { "center", "issue" },
     invalid_date_time |-> { "hour", "minute", "second" }, no_ultra_issue |-> {},
     no_available_ultra_issue |-> {}, unsupported_nominal_schedule |-> Product,
     unrecognized_archive_listing |-> { "reason" }, invalid_station |-> { "value" },
     invalid_coordinate |-> { "lat_deg_bits", "lon_deg_bits" },
     invalid_tile_index |-> { "lat_index", "lon_index" }, invalid_tile_id |-> { "value" }]

\* A plain function answers eight refusals by a term of their own, and every
\* other one with its fields, as the second family does for all of them.
OwnTerm ==
    { "unknown_center", "unknown_product_type", "unsupported_product", "no_open_mirror",
      "invalid_coordinate", "invalid_tile_index", "invalid_tile_id",
      "unrecognized_archive_listing" }
Without(details, own) == [f \in DOMAIN details \ own |-> details[f]]
encode_result ==
    CallsKinded(Without(catalog_product_projection, OwnTerm), catalog_atom)
      \o CallsKinded(Without(catalog_issue_projection, OwnTerm), catalog_atom)
      \o Calls(OwnTerm)
encode_result_with_catalog_details ==
    CallsKinded(catalog_product_projection, catalog_atom)
      \o CallsKinded(catalog_issue_projection, catalog_atom)

center == RefusesInto({ "center" })
product_type == RefusesInto({ "product_type" })
product_date == RefusesInto({ "date" })
product_datetime == RefusesInto({ "datetime" })
distribution_source == RefusesInto({ "source" })
space_weather_product == RefusesInto({ "product" })

\* The sixteen texts of an identity, in their order; the identity they make is
\* validated as a whole.
IdentityFields ==
    { "field_count", "family", "center", "publisher", "solution_class", "campaign",
      "filename_version", "date", "issue", "span", "sample", "official_filename", "format",
      "format_version", "prediction_horizon_days" }
product_identity ==
    Typed(IdentityFields) \o Refuses({ "field_count" }) \o Refuses({ "family" })
      \o Refuses({ "center" }) \o Refuses({ "publisher" }) \o Refuses({ "solution_class" })
      \o Refuses({ "campaign" }) \o Refuses({ "filename_version" }) \o Refuses({ "date" })
      \o Refuses({ "format" }) \o Refuses({ "prediction_horizon_days" })
      \o Pass(IdentityFields) \o Calls({ "inconsistent_product_identity" })

CenterEntryNifs ==
    [data_catalog_lists |-> << >>, data_center_entry |-> Typed({ "center" }) \o center]

IdentityNifs ==
    [data_validate_exact_product_set |->
         Typed({ "expected", "available" }) \o RefusesInto({ "expected" })
           \o RefusesInto({ "available" }) \o Calls({ "exact_product_set" }),
     data_validate_product_identity |-> product_identity \o encode_result_with_catalog_details,
     data_product_request |->
         product_identity \o Typed({ "sources" }) \o RefusesInto({ "sources" })
           \o encode_result_with_catalog_details,
     data_open_mirror |-> Direct(Product) \o encode_result_with_catalog_details]

ProductNifs ==
    [data_default_sample |-> Typed(Product) \o center \o product_type \o encode_result,
     data_product_solution_class |-> Typed(Product) \o center \o product_type \o encode_result,
     data_product_solution_class_catalog_details |->
         Typed(Product) \o center \o product_type \o encode_result_with_catalog_details]

ContentStartNifs ==
    [data_sp3_content_start_convention |->
         Typed({ "center", "date", "issue" }) \o center \o product_date \o Pass({ "issue" })
           \o encode_result,
     data_sp3_content_start_convention_catalog_details |->
         Typed({ "center", "date", "issue" }) \o center \o product_date \o Pass({ "issue" })
           \o encode_result_with_catalog_details]

\* A function of a center, a product, a date and these options.
ForDate(options) ==
    Typed(Product \cup { "date" } \cup options) \o center \o product_type \o product_date
      \o Pass(options)
SampleNifs ==
    [data_default_sample_for_date |-> ForDate({}) \o encode_result,
     data_supported_samples |-> ForDate({ "issue" }) \o encode_result,
     data_default_sample_for_issue |-> ForDate({ "issue" }) \o encode_result]
ProductIdentityNifs ==
    [data_product_identity |-> ForDate({ "sample", "issue" }) \o encode_result,
     data_product_identity_catalog_details |->
         ForDate({ "sample", "issue" }) \o encode_result_with_catalog_details]

LocationNifs ==
    [data_distribution_location_for_identity |->
         product_identity \o Typed({ "source" }) \o distribution_source \o encode_result,
     data_distribution_location_for_identity_catalog_details |->
         product_identity \o Typed({ "source" }) \o distribution_source
           \o encode_result_with_catalog_details,
     data_ultra_sp3_locations |->
         Typed({ "center", "date", "issue" }) \o center \o product_date \o Pass({ "issue" })
           \o encode_result]

DateNifs ==
    [data_archive_compression |-> Typed(Product) \o center \o product_type \o encode_result,
     data_product_date_from_gps_week_day |->
         Typed({ "week", "day_of_week" }) \o RefusesInto({ "day_of_week" }) \o Pass({ "week" })
           \o encode_result_with_catalog_details,
     data_gps_week |-> Typed({ "date" }) \o product_date \o encode_result,
     data_day_of_year |-> Typed({ "date" }) \o product_date,
     data_predicted_day_offset |-> Typed({ "center" }) \o center]

ArchiveNifs ==
    [data_canonical_filename |-> ForDate({ "sample", "issue" }) \o encode_result,
     data_archive_url |-> ForDate({ "sample", "issue" }) \o encode_result]

CandidateNifs ==
    [data_gim_date_candidates |->
         Typed({ "center", "date", "lookback" }) \o center \o product_date
           \o Pass({ "lookback" }) \o encode_result,
     data_ultra_issue_candidates |->
         Typed({ "center", "datetime" }) \o center \o product_datetime \o encode_result,
     data_ultra_issue_candidates_catalog_details |->
         Typed({ "center", "datetime" }) \o center \o product_datetime
           \o encode_result_with_catalog_details]

\* A candidate without a filename or an address refuses all of them.
PredictedIonexNifs ==
    [data_predicted_ionex_line_candidates |->
         Typed({ "date", "sample" }) \o product_date \o Pass({ "sample" }) \o encode_result
           \o Each("error", "error"),
     data_publication_listing_urls |-> ForDate({}) \o encode_result]

ListingNifs ==
    [data_parse_archive_listing |->
         Typed({ "body" }) \o RefusesInto({ "body" }) \o encode_result,
     data_parse_archive_listing_catalog_details |->
         Typed({ "body" }) \o RefusesInto({ "body" }) \o encode_result_with_catalog_details,
     data_station_obs_filename |->
         Typed({ "station", "date", "sample" }) \o product_date \o Pass({ "station", "sample" })
           \o encode_result_with_catalog_details]

\* A flaw in the issues that the caller found is seen after the others.
LatestIssueNifs ==
    [data_latest_ultra_issue |->
         Typed({ "center", "datetime", "available_issues" }) \o center \o product_datetime
           \o RefusesInto({ "available_issues" }) \o encode_result_with_catalog_details]

PublishedNifs ==
    [data_newest_published_product |->
         Typed(Product \cup { "objects" }) \o center \o product_type \o Pass({ "objects" })
           \o encode_result \o Answer({ "newest", "nil" }),
     data_newest_published_product_catalog_details |->
         Typed(Product \cup { "objects" }) \o center \o product_type \o Pass({ "objects" })
           \o encode_result_with_catalog_details \o Answer({ "newest", "nil" }),
     data_published_issue_age_minutes |->
         Typed({ "date", "issue", "filename", "datetime" }) \o product_date
           \o Pass({ "issue", "filename" }) \o product_datetime \o encode_result]

NextIssueNifs ==
    [data_next_issue_due |->
         Typed(Product \cup { "datetime" }) \o center \o product_type \o product_datetime
           \o encode_result,
     data_next_issue_due_catalog_details |->
         Typed(Product \cup { "datetime" }) \o center \o product_type \o product_datetime
           \o encode_result_with_catalog_details]

\* The first candidate that is published; a flawed candidate refuses them all,
\* the ones before it included.
FirstPublishedNifs ==
    [data_resolve_first_published |->
         Direct({ "objects" }) \o Each("error", "error") \o encode_result
           \o Answer({ "index", "nil" })]

Tile == { "lat_index", "lon_index" }
SourceEntryNifs ==
    [data_source_entries |-> << >>,
     data_space_weather_filename |-> Typed({ "product" }) \o space_weather_product,
     data_space_weather_archive_url |-> Typed({ "product" }) \o space_weather_product,
     data_space_weather_cache_relpath |-> Typed({ "product" }) \o space_weather_product]
TileNifs ==
    [data_skadi_tile_id |-> Direct(Tile) \o encode_result,
     data_skadi_tile_id_catalog_details |-> Direct(Tile) \o encode_result_with_catalog_details,
     data_skadi_band |-> Direct({ "lat_index" }) \o encode_result,
     data_skadi_archive_url |-> Direct(Tile) \o encode_result,
     data_terrain_tile_index |-> Direct({ "lat_deg", "lon_deg" }) \o encode_result,
     data_terrain_tile_index_catalog_details |->
         Direct({ "lat_deg", "lon_deg" }) \o encode_result_with_catalog_details,
     data_dted_paths |-> Direct(Tile) \o encode_result,
     data_parse_skadi_tile_id |-> Direct({ "tile_id" }) \o encode_result,
     data_parse_skadi_tile_id_catalog_details |->
         Direct({ "tile_id" }) \o encode_result_with_catalog_details]

encode_hgt_error == { "bad_hgt_length", "invalid_tile_index" }
ConversionNifs ==
    [data_hgt_to_dted |-> Direct(Tile \cup { "hgt" }) \o Calls(encode_hgt_error),
     data_unix_compress_decompress |->
         Direct({ "archive", "limit" }) \o Calls({ "size_limit", "invalid_unix_compress" })]

DataNifTables ==
    << CenterEntryNifs, IdentityNifs, ProductNifs, ContentStartNifs, SampleNifs,
       ProductIdentityNifs, LocationNifs, DateNifs, ArchiveNifs, CandidateNifs,
       PredictedIonexNifs, ListingNifs, LatestIssueNifs, PublishedNifs, NextIssueNifs,
       FirstPublishedNifs, SourceEntryNifs, TileNifs, ConversionNifs >>

===============================================================================
