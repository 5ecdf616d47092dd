--------------------------- MODULE MissionMessages ---------------------------
(* The documents of mission autonomy: the dataclasses of                    *)
(* models/task_config.py and models/mission_autonomy.py, and the converters *)
(* of mission_autonomy/_converters.py as the tables of what they carry.     *)
EXTENDS Fields

-----------------------------------------------------------------------------
(* models/task_config.py.                                                   *)

WaypointDTO ==
  As("WaypointDTO", "plain", {"latitude", "longitude"})
  @@ As("WaypointDTO", "optional",
       {"altitude", "speed", "fly_through", "vehicle_action", "wp_order", "gimbal_pitch"})

WaypointTaskConfig ==
  As("WaypointTaskConfig", "plain", {"flight_id"})
  @@ As("WaypointTaskConfig", "list", {"waypoints"})
  @@ As("WaypointTaskConfig", "optional",
       {"fly_to_wayline_mode", "wayline_finish_action", "wayline_type",
        "wayline_turn_mode", "use_straight_line", "wayline_precision_type",
        "exit_wayline_when_rc_lost", "rc_lost_action", "out_of_control_action",
        "take_off_security_height", "rth_altitude", "rth_mode", "rth_speed",
        "global_speed", "global_transition_speed", "global_height",
        "gimbal_pitch_mode", "global_gimbal_pitch", "payload_imaging_type",
        "file_url", "file_md5", "flight_area_file_url", "flight_area_checksum"})

DetectionParameter ==
  As("DetectionParameter", "plain", {"name", "value"})
  @@ As("DetectionParameter", "optional", {"description"})

DetectTaskConfig ==
  As("DetectTaskConfig", "list", {"detection_targets", "detection_parameters"})
  @@ As("DetectTaskConfig", "optional",
       {"detection_mode", "area_latitude", "area_longitude", "area_radius",
        "detection_altitude", "scan_pattern", "scan_speed", "thermal_detection",
        "visual_detection", "min_confidence", "max_detections",
        "auto_capture_on_detection", "investigate_detections",
        "investigation_distance", "investigation_duration", "gimbal_pitch",
        "enable_zoom", "zoom_level", "max_duration", "on_max_detections_action",
        "realtime_alerts", "ai_model_id"})

AreaVertex ==
  As("AreaVertex", "plain", {"latitude", "longitude"})
  @@ As("AreaVertex", "optional", {"order"})

AreaMappingTaskConfig ==
  As("AreaMappingTaskConfig", "plain", {"survey_altitude"})
  @@ As("AreaMappingTaskConfig", "list", {"area_vertices"})
  @@ As("AreaMappingTaskConfig", "optional",
       {"flight_pattern", "front_overlap", "side_overlap", "speed",
        "gimbal_pitch", "camera_angle", "terrain_following",
        "ground_sampling_distance", "enable_3d_reconstruction"})

PoiTaskConfig ==
  As("PoiTaskConfig", "plain", {"poi_latitude", "poi_longitude", "poi_altitude"})
  @@ As("PoiTaskConfig", "optional",
       {"orbit_radius", "orbit_speed", "flight_altitude", "number_of_orbits",
        "orbit_direction", "start_angle", "end_angle", "capture_enabled",
        "capture_interval", "lock_camera_on_poi"})

FollowTaskConfig ==
  As("FollowTaskConfig", "plain", {"target_type"})
  @@ As("FollowTaskConfig", "optional",
       {"initial_latitude", "initial_longitude", "follow_distance",
        "relative_altitude", "max_speed", "follow_mode", "angle_offset",
        "obstacle_avoidance", "max_duration", "max_distance_from_start",
        "lost_target_action", "lost_target_timeout", "lock_camera_on_target",
        "gimbal_pitch_offset", "auto_capture", "capture_interval"})

TrackTaskConfig ==
  As("TrackTaskConfig", "plain", {"target_type"})
  @@ As("TrackTaskConfig", "optional",
       {"initial_latitude", "initial_longitude", "target_altitude",
        "tracking_mode", "max_movement_radius", "tracking_altitude",
        "gimbal_tracking", "auto_zoom", "zoom_level", "tracking_sensitivity",
        "max_duration", "lost_target_action", "lost_target_timeout",
        "search_pattern", "search_duration", "continuous_recording",
        "photo_capture", "capture_interval", "confidence_threshold"})

-----------------------------------------------------------------------------
(* models/mission_autonomy.py and models/common.py.                         *)

TaskDTO ==
  As("TaskDTO", "status", {"status"})
  @@ As("TaskDTO", "type", {"task_type"})
  @@ As("TaskDTO", "time", {"created_at", "modified_at"})
  @@ As("TaskDTO", "optional",
       {"id", "mission_id", "name", "description", "asset_id", "sn_number",
        "current_progress", "current_step", "break_reason", "modified_from"})

MissionDTO ==
  As("MissionDTO", "plain", {"name", "description"})
  @@ As("MissionDTO", "status", {"status", "type"})
  @@ As("MissionDTO", "list", {"tasks", "assigned_assets"})
  @@ As("MissionDTO", "time", {"start_date", "end_date", "created_at", "modified_at"})
  @@ As("MissionDTO", "optional", {"id", "geo_json", "updated_user"})

SchedulerDTO ==
  As("SchedulerDTO", "plain", {"name", "cron_expression"})
  @@ As("SchedulerDTO", "status", {"type"})
  @@ As("SchedulerDTO", "time", {"created_at", "modified_at"})
  @@ As("SchedulerDTO", "optional",
       {"id", "mission_id", "task_id", "active", "client_time_zone"})

ErrorInfo ==
  As("ErrorInfo", "plain", {"error_message"})
  @@ As("ErrorInfo", "code", {"error_code"})
  @@ As("ErrorInfo", "time", {"timestamp"})

ProgressInfo ==
  As("ProgressInfo", "plain", {"progress", "state", "left_time_in_seconds"})

\* The head of a response; "success" stands for hasErrors, which it negates.
Response(class, key) ==
  As(class, "plain", {"success", "tid", key}) @@ As(class, "time", {"timestamp"})

-----------------------------------------------------------------------------
(* mission_autonomy/_converters.py.                                         *)

waypoint_to_proto_Speed ==             \* mutant: forgets the speed too
  Except(WaypointDTO, "WaypointDTO", {"vehicle_action", "speed"})
waypoint_to_proto == Except(WaypointDTO, "WaypointDTO", {"vehicle_action"})
proto_to_waypoint == Except(WaypointDTO, "WaypointDTO", {"vehicle_action"})

\* Ten attributes are enums of the proto and are neither written nor read.
WaylineEnums ==
  {"fly_to_wayline_mode", "wayline_finish_action", "wayline_type",
   "wayline_turn_mode", "wayline_precision_type", "exit_wayline_when_rc_lost",
   "rc_lost_action", "out_of_control_action", "rth_mode", "gimbal_pitch_mode"}

waypoint_config_to_proto ==
  Except(WaypointTaskConfig, "WaypointTaskConfig", WaylineEnums) @@ waypoint_to_proto
proto_to_waypoint_config ==
  Except(WaypointTaskConfig, "WaypointTaskConfig", WaylineEnums) @@ proto_to_waypoint

detect_config_to_proto == DetectTaskConfig @@ DetectionParameter
proto_to_detect_config == DetectTaskConfig @@ DetectionParameter

area_mapping_config_to_proto == AreaMappingTaskConfig @@ AreaVertex
proto_to_area_mapping_config == AreaMappingTaskConfig @@ AreaVertex

poi_config_to_proto == PoiTaskConfig
proto_to_poi_config == PoiTaskConfig

follow_config_to_proto == FollowTaskConfig
proto_to_follow_config == FollowTaskConfig

track_config_to_proto == TrackTaskConfig
proto_to_track_config == TrackTaskConfig

\* The member of the oneof "taskConfig", by the class of the object or by the
\* member that is set.
apply_task_config ==
  waypoint_config_to_proto @@ detect_config_to_proto @@ area_mapping_config_to_proto
  @@ poi_config_to_proto @@ follow_config_to_proto @@ track_config_to_proto
proto_to_task_config ==
  proto_to_waypoint_config @@ proto_to_detect_config @@ proto_to_area_mapping_config
  @@ proto_to_poi_config @@ proto_to_follow_config @@ proto_to_track_config

task_to_proto == Except(TaskDTO, "TaskDTO", {"break_reason"}) @@ apply_task_config
proto_to_task == Except(TaskDTO, "TaskDTO", {"break_reason"}) @@ proto_to_task_config

mission_to_proto == MissionDTO @@ task_to_proto
proto_to_mission == MissionDTO @@ proto_to_task

scheduler_to_proto == SchedulerDTO
proto_to_scheduler == SchedulerDTO

proto_to_mission_response ==
  Response("MissionResponse", "mission_id") @@ ErrorInfo @@ ProgressInfo @@ proto_to_mission
proto_to_task_response ==
  Response("TaskResponse", "task_id") @@ ErrorInfo @@ ProgressInfo @@ proto_to_task
proto_to_scheduler_response ==
  Response("SchedulerResponse", "scheduler_id") @@ ErrorInfo @@ ProgressInfo
  @@ proto_to_scheduler
=============================================================================
