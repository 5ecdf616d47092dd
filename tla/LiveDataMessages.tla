-------------------------- MODULE LiveDataMessages --------------------------
(* The messages of live data: the dataclasses of models/live_data.py and    *)
(* the converters of live_data/_converters.py as the tables of what they    *)
(* carry. Telemetry and notifications are only read, requests only written. *)
EXTENDS MissionMessages

\* An id of the caller's, and the asset it may name.
Envelope(class) ==
  As(class, "plain", {"sn"}) @@ As(class, "id", {"tid"})

AssetId(class) == As(class, "optional", {"asset_id"})

-----------------------------------------------------------------------------
(* Requests.                                                                *)

StreamTelemetryRequest ==
  Envelope("StreamTelemetryRequest") @@ AssetId("StreamTelemetryRequest")
  @@ As("StreamTelemetryRequest", "count", {"frequency_ms", "duration_seconds"})
StreamNotificationRequest ==
  Envelope("StreamNotificationRequest")
  @@ As("StreamNotificationRequest", "list", {"event_types"})
LiveDataStartLiveStreamRequest ==
  Envelope("LiveDataStartLiveStreamRequest") @@ AssetId("LiveDataStartLiveStreamRequest")
  @@ As("LiveDataStartLiveStreamRequest", "plain",
       {"video_id", "stream_server", "stream_type", "asset_type"})
LiveDataStopLiveStreamRequest ==
  Envelope("LiveDataStopLiveStreamRequest") @@ AssetId("LiveDataStopLiveStreamRequest")
  @@ As("LiveDataStopLiveStreamRequest", "plain", {"video_id"})
ChangeLensRequest ==
  Envelope("ChangeLensRequest") @@ AssetId("ChangeLensRequest")
  @@ As("ChangeLensRequest", "plain", {"lens"})
ChangeZoomRequest ==
  Envelope("ChangeZoomRequest") @@ AssetId("ChangeZoomRequest")
  @@ As("ChangeZoomRequest", "plain", {"zoom"})
  @@ As("ChangeZoomRequest", "optional", {"lens"})

\* The builders: no message has a field for the asset id.
stream_telemetry_request_to_proto ==
  Except(StreamTelemetryRequest, "StreamTelemetryRequest", {"asset_id"})
stream_notifications_request_to_proto == StreamNotificationRequest
start_live_stream_to_proto ==
  Except(LiveDataStartLiveStreamRequest, "LiveDataStartLiveStreamRequest", {"asset_id"})
stop_live_stream_to_proto ==
  Except(LiveDataStopLiveStreamRequest, "LiveDataStopLiveStreamRequest", {"asset_id"})
change_lens_to_proto == Except(ChangeLensRequest, "ChangeLensRequest", {"asset_id"})
change_zoom_to_proto == Except(ChangeZoomRequest, "ChangeZoomRequest", {"asset_id"})

-----------------------------------------------------------------------------
(* Responses of the unary methods.                                          *)

LiveStreamStartResult == As("LiveStreamStartResult", "plain", {"stream_url", "video_id"})

LiveDataResponse ==
  As("LiveDataResponse", "plain", {"success", "tid", "sn"})
  @@ As("LiveDataResponse", "optional", {"asset_id", "message"})
  @@ As("LiveDataResponse", "time", {"timestamp"})

\* The error is shown without its time.
proto_to_live_data_response ==
  LiveDataResponse @@ LiveStreamStartResult @@ Except(ErrorInfo, "ErrorInfo", {"timestamp"})

-----------------------------------------------------------------------------
(* Telemetry.                                                               *)

CameraData ==
  As("CameraData", "optional",
     {"current_lens", "gimbal_pitch", "gimbal_yaw", "gimbal_roll", "zoom_factor"})
RangeFinderData ==
  As("RangeFinderData", "optional",
     {"target_latitude", "target_longitude", "target_distance", "target_altitude"})
SensorData == As("SensorData", "optional", {"target_temperature"})
PayloadTelemetry ==
  As("PayloadTelemetry", "plain", {"id", "name"})
  @@ As("PayloadTelemetry", "time", {"timestamp"})
SubAssetBatteryInfo ==
  As("SubAssetBatteryInfo", "optional",
     {"percentage", "remaining_time", "return_to_home_power"})
AssetSubAssetInformation ==
  As("AssetSubAssetInformation", "optional", {"sn", "model", "paired", "online"})
AssetNetworkInfo ==
  As("AssetNetworkInfo", "named", {"type", "quality"})
  @@ As("AssetNetworkInfo", "optional", {"rate"})
AssetAirConditioner ==
  As("AssetAirConditioner", "named", {"state"})
  @@ As("AssetAirConditioner", "optional", {"switch_time"})
AssetWirelessLinkInfo ==
  As("AssetWirelessLinkInfo", "optional",
     {"fourth_generation_freq_band", "fourth_generation_gnd_quality",
      "fourth_generation_link_state", "fourth_generation_quality",
      "fourth_generation_uav_quality", "dongle_number", "link_workmode",
      "sdr_freq_band", "sdr_link_state", "sdr_quality"})
AssetSdrState ==
  As("AssetSdrState", "optional", {"down_quality", "up_quality", "frequency_band"})
AssetPositionState ==
  As("AssetPositionState", "optional", {"gps_number", "rtk_number", "quality"})

AssetTelemetry ==
  As("AssetTelemetry", "plain", {"id"})
  @@ As("AssetTelemetry", "time", {"timestamp"})
  @@ As("AssetTelemetry", "named",
       {"mode", "rainfall", "cover_state", "manual_control_state"})
  @@ As("AssetTelemetry", "optional",
       {"sn", "latitude", "longitude", "absolute_altitude", "relative_altitude",
        "environment_temp", "inside_temp", "humidity", "sub_asset_at_home",
        "sub_asset_charging", "sub_asset_percentage", "heading",
        "debug_mode_open", "has_active_manual_control_session",
        "working_voltage", "working_current", "supply_voltage", "wind_speed",
        "position_valid"})

SubAssetTelemetry ==
  As("SubAssetTelemetry", "plain", {"id"})
  @@ As("SubAssetTelemetry", "time", {"timestamp"})
  @@ As("SubAssetTelemetry", "named", {"mode"})
  @@ As("SubAssetTelemetry", "optional",
       {"latitude", "longitude", "absolute_altitude", "relative_altitude",
        "horizontal_speed", "vertical_speed", "wind_speed", "wind_direction",
        "heading", "gear", "height_limit", "home_distance",
        "total_movement_distance", "total_movement_time", "country"})

\* The head of a frame.
StreamTelemetryResponse ==
  As("StreamTelemetryResponse", "plain", {"tid", "sn", "has_errors"})
  @@ As("StreamTelemetryResponse", "optional", {"asset_id"})
  @@ As("StreamTelemetryResponse", "time", {"timestamp"})

\* The fourth member of the oneof "telemetry", which no dataclass shows.
LiveStreamState ==
  As("LiveStreamState", "optional", {"video_id", "stream_url", "is_live"})

decode_asset_telemetry ==
  AssetTelemetry @@ AssetNetworkInfo @@ AssetAirConditioner
  @@ AssetSubAssetInformation @@ AssetPositionState @@ AssetWirelessLinkInfo
  @@ AssetSdrState

decode_payload == PayloadTelemetry @@ CameraData @@ RangeFinderData @@ SensorData

decode_sub_asset_telemetry == SubAssetTelemetry @@ decode_payload @@ SubAssetBatteryInfo

\* StreamTelemetryError has the attributes of ErrorInfo.
proto_to_stream_telemetry_response ==
  StreamTelemetryResponse @@ decode_asset_telemetry @@ decode_sub_asset_telemetry
  @@ ErrorInfo

-----------------------------------------------------------------------------
(* Notifications.                                                           *)

\* The messages, which live_data_pb2.py declares by hand: "online" is not an
\* optional field, so its absence reads as False.
AssetStatusEvent ==
  As("NotificationAssetStatus", "plain", {"sn", "online"})
  @@ As("NotificationAssetStatus", "optional", {"asset_id", "message"})
TaskEvent ==
  As("NotificationTaskEvent", "plain", {"task_id"})
  @@ As("NotificationTaskEvent", "named", {"task_type", "status"})
  @@ As("NotificationTaskEvent", "optional", {"progress", "message", "external_task_type"})
OperationEvent ==
  As("NotificationOperationEvent", "plain", {"operation_id"})
  @@ As("NotificationOperationEvent", "named", {"mission_type", "status"})
  @@ As("NotificationOperationEvent", "optional", {"message"})
LiveDataNotificationResponse ==
  As("StreamNotificationResponse", "plain", {"tid", "sn", "has_errors"})
  @@ As("StreamNotificationResponse", "optional", {"asset_id"})
  @@ As("StreamNotificationResponse", "time", {"timestamp"})

\* The dataclasses.
NotificationAssetStatus ==
  As("NotificationAssetStatus", "plain", {"sn"})
  @@ As("NotificationAssetStatus", "optional", {"asset_id", "online", "message"})
NotificationTaskEvent ==
  As("NotificationTaskEvent", "plain", {"task_id"})
  @@ As("NotificationTaskEvent", "named", {"task_type", "status"})
  @@ As("NotificationTaskEvent", "optional", {"progress", "message", "external_task_type"})
NotificationOperationEvent ==
  As("NotificationOperationEvent", "plain", {"operation_id"})
  @@ As("NotificationOperationEvent", "named", {"mission_type", "status"})
  @@ As("NotificationOperationEvent", "optional", {"message"})
StreamNotificationResponse ==
  As("StreamNotificationResponse", "plain", {"tid", "sn", "has_errors"})
  @@ As("StreamNotificationResponse", "optional", {"asset_id"})
  @@ As("StreamNotificationResponse", "time", {"timestamp"})

proto_to_stream_notification_response ==
  StreamNotificationResponse @@ NotificationAssetStatus @@ NotificationTaskEvent
  @@ NotificationOperationEvent @@ ErrorInfo
=============================================================================
