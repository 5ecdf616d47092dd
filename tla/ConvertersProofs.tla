-------------------------- MODULE ConvertersProofs --------------------------
(* What the converters carry: for every kind of message, each attribute is  *)
(* written and read as a value of the kind it is declared with, or is one   *)
(* of the known losses. The tables are finite, but joined from many; the    *)
(* lemmas say what joining preserves, so that each is looked at by itself.  *)
EXTENDS Documents, TLAPS

-----------------------------------------------------------------------------
(* What joining tables preserves.                                           *)

\* Every attribute of a table is of one of these kinds.
Sorted(table, sorts) ==
  \A p \in DOMAIN table : p # <<"TaskDTO", "config">> /\ table[p] \in sorts

LEMMA AsSorted ==
  ASSUME NEW class, NEW sort, NEW names, NEW sorts,
         sort \in sorts, class # "TaskDTO" \/ "config" \notin names
  PROVE  Sorted(As(class, sort, names), sorts)
  BY DEF Sorted, As

LEMMA JoinedSorted ==
  ASSUME NEW f, NEW g, NEW sorts, Sorted(f, sorts), Sorted(g, sorts)
  PROVE  Sorted(Merge(f, g), sorts)
  BY DEF Sorted, Merge

LEMMA ExceptSorted ==
  ASSUME NEW table, NEW class, NEW names, NEW sorts, Sorted(table, sorts)
  PROVE  Sorted(Except(table, class, names), sorts)
  BY DEF Sorted, Except

\* Every attribute of a table is of one of these classes.
Classed(table, classes) == \A p \in DOMAIN table : p[1] \in classes

LEMMA AsClassed ==
  ASSUME NEW class, NEW sort, NEW names, NEW classes, class \in classes
  PROVE  Classed(As(class, sort, names), classes)
  BY DEF Classed, As

LEMMA JoinedClassed ==
  ASSUME NEW f, NEW g, NEW classes, Classed(f, classes), Classed(g, classes)
  PROVE  Classed(Merge(f, g), classes)
  BY DEF Classed, Merge

LEMMA ExceptClassed ==
  ASSUME NEW table, NEW class, NEW names, NEW classes, Classed(table, classes)
  PROVE  Classed(Except(table, class, names), classes)
  BY DEF Classed, Except

\* A converter may treat a value that is always there as an optional one.
Names(sort, declared) ==
  sort = declared \/ (sort = "optional" /\ declared = "plain")

\* What is declared a converter of this kind carries, or is known to lose.
Conveys(k, declared, table, missing) ==
  \A p \in DOMAIN declared :
    IF p \in DOMAIN table THEN Names(table[p], declared[p])
    ELSE declared[p] \in missing /\ Loses(k, p)

LEMMA WholeConveys ==
  ASSUME NEW k, NEW t, NEW missing PROVE Conveys(k, t, t, missing)
  BY DEF Conveys, Names

LEMMA HeadConveys ==
  ASSUME NEW k, NEW f, NEW d, NEW t, NEW missing, Conveys(k, d, t, missing)
  PROVE  Conveys(k, Merge(f, d), Merge(f, t), missing)
  BY DEF Conveys, Names, Merge

LEMMA JoinedConveys ==
  ASSUME NEW k, NEW d1, NEW t1, NEW d2, NEW t2, NEW missing,
         Conveys(k, d1, t1, missing), Conveys(k, d2, t2, missing),
         DOMAIN t1 \subseteq DOMAIN d1, (DOMAIN d1 \ DOMAIN t1) \cap DOMAIN t2 = {}
  PROVE  Conveys(k, Merge(d1, d2), Merge(t1, t2), missing)
  BY DEF Conveys, Merge

\* The same of a converter that carries nothing more, and loses attributes of
\* these classes only.
Trims(k, declared, table, classes) ==
  /\ Conveys(k, declared, table, {"optional"})
  /\ DOMAIN table \subseteq DOMAIN declared
  /\ \A p \in DOMAIN declared \ DOMAIN table : p[1] \in classes

LEMMA JoinedTrims ==
  ASSUME NEW k, NEW d, NEW t, NEW rest, NEW classes, NEW others,
         Trims(k, d, t, classes), Classed(rest, others), classes \cap others = {}
  PROVE  Trims(k, Merge(d, rest), Merge(t, rest), classes)
  BY DEF Trims, Conveys, Names, Classed, Merge

LEMMA RestConveys ==
  ASSUME NEW k, NEW d, NEW t, NEW lost, NEW missing, Conveys(k, d, t, missing),
         DOMAIN lost \cap DOMAIN t \subseteq DOMAIN d,
         \A p \in DOMAIN lost : lost[p] \in missing /\ Loses(k, p)
  PROVE  Conveys(k, Merge(d, lost), t, missing)
  BY DEF Conveys, Names, Merge

\* The attributes of a class with these names are of one of these kinds.
Gives(table, class, names, sorts) ==
  \A p \in DOMAIN table : p[1] = class /\ p[2] \in names => table[p] \in sorts

LEMMA AsGives ==
  ASSUME NEW class, NEW sort, NEW attributes_, NEW names, NEW sorts,
         sort \in sorts \/ attributes_ \cap names = {}
  PROVE  Gives(As(class, sort, attributes_), class, names, sorts)
  BY DEF Gives, As

LEMMA JoinedGives ==
  ASSUME NEW f, NEW g, NEW class, NEW names, NEW sorts,
         Gives(f, class, names, sorts), Gives(g, class, names, sorts)
  PROVE  Gives(Merge(f, g), class, names, sorts)
  BY DEF Gives, Merge

LEMMA ExceptConveys ==
  ASSUME NEW k, NEW d, NEW class, NEW names, NEW missing,
         Gives(d, class, names, missing),
         \A p : p[1] = class /\ p[2] \in names => Loses(k, p)
  PROVE  Conveys(k, d, Except(d, class, names), missing)
  BY DEF Conveys, Names, Except, Gives

-----------------------------------------------------------------------------
(* The kinds of the attributes.                                             *)

DocumentSorts == {"plain", "optional", "time", "status", "type", "list"}
FrameSorts == DocumentSorts \cup {"named", "code"}

LEMMA SortedMore == \A t : Sorted(t, DocumentSorts) => Sorted(t, FrameSorts)
  BY DEF Sorted, FrameSorts

LEMMA ConfigSorted ==
  /\ Sorted(WaypointDTO, DocumentSorts) /\ Sorted(WaypointTaskConfig, DocumentSorts)
  /\ Sorted(DetectionParameter, DocumentSorts) /\ Sorted(DetectTaskConfig, DocumentSorts)
  /\ Sorted(AreaVertex, DocumentSorts) /\ Sorted(AreaMappingTaskConfig, DocumentSorts)
  /\ Sorted(PoiTaskConfig, DocumentSorts) /\ Sorted(FollowTaskConfig, DocumentSorts)
  /\ Sorted(TrackTaskConfig, DocumentSorts)
<1>1. /\ "plain" \in DocumentSorts /\ "optional" \in DocumentSorts
      /\ "list" \in DocumentSorts
  BY DEF DocumentSorts
<1>2. Sorted(WaypointDTO, DocumentSorts) /\ Sorted(WaypointTaskConfig, DocumentSorts)
  BY <1>1, AsSorted, JoinedSorted DEF WaypointDTO, WaypointTaskConfig, @@
<1>3. Sorted(DetectionParameter, DocumentSorts) /\ Sorted(DetectTaskConfig, DocumentSorts)
  BY <1>1, AsSorted, JoinedSorted DEF DetectionParameter, DetectTaskConfig, @@
<1>4. Sorted(AreaVertex, DocumentSorts) /\ Sorted(AreaMappingTaskConfig, DocumentSorts)
  BY <1>1, AsSorted, JoinedSorted DEF AreaVertex, AreaMappingTaskConfig, @@
<1>5. Sorted(PoiTaskConfig, DocumentSorts) /\ Sorted(FollowTaskConfig, DocumentSorts)
  BY <1>1, AsSorted, JoinedSorted DEF PoiTaskConfig, FollowTaskConfig, @@
<1>6. Sorted(TrackTaskConfig, DocumentSorts)
  BY <1>1, AsSorted, JoinedSorted DEF TrackTaskConfig, @@
<1>7. QED
  BY <1>2, <1>3, <1>4, <1>5, <1>6

LEMMA DocumentSorted ==
  /\ Sorted(TaskDTO, DocumentSorts) /\ Sorted(MissionDTO, DocumentSorts)
  /\ Sorted(SchedulerDTO, DocumentSorts) /\ Sorted(TaskConfigs, DocumentSorts)
<1>1. /\ "plain" \in DocumentSorts /\ "optional" \in DocumentSorts
      /\ "list" \in DocumentSorts /\ "time" \in DocumentSorts
      /\ "status" \in DocumentSorts /\ "type" \in DocumentSorts
  BY DEF DocumentSorts
<1>2. Sorted(TaskDTO, DocumentSorts)
  BY <1>1, AsSorted, JoinedSorted DEF TaskDTO, @@
<1>3. Sorted(MissionDTO, DocumentSorts)
  BY <1>1, AsSorted, JoinedSorted DEF MissionDTO, @@
<1>4. Sorted(SchedulerDTO, DocumentSorts)
  BY <1>1, AsSorted, JoinedSorted DEF SchedulerDTO, @@
<1>5. Sorted(TaskConfigs, DocumentSorts)
  BY ConfigSorted, JoinedSorted DEF TaskConfigs, @@
<1>6. QED
  BY <1>2, <1>3, <1>4, <1>5

LEMMA ResponseSorted ==
  /\ Sorted(ErrorInfo, FrameSorts) /\ Sorted(ProgressInfo, FrameSorts)
  /\ \A key : /\ Sorted(Response("MissionResponse", key), FrameSorts)
              /\ Sorted(Response("TaskResponse", key), FrameSorts)
              /\ Sorted(Response("SchedulerResponse", key), FrameSorts)
  /\ Sorted(RemoteControlResponse, FrameSorts) /\ Sorted(LiveDataResponse, FrameSorts)
  /\ Sorted(LiveStreamStartResult, FrameSorts)
<1>1. /\ "plain" \in FrameSorts /\ "optional" \in FrameSorts
      /\ "time" \in FrameSorts /\ "code" \in FrameSorts
  BY DEF FrameSorts, DocumentSorts
<1>2. Sorted(ErrorInfo, FrameSorts) /\ Sorted(ProgressInfo, FrameSorts)
  BY <1>1, AsSorted, JoinedSorted DEF ErrorInfo, ProgressInfo, @@
<1>3. ASSUME NEW key
      PROVE  /\ Sorted(Response("MissionResponse", key), FrameSorts)
             /\ Sorted(Response("TaskResponse", key), FrameSorts)
             /\ Sorted(Response("SchedulerResponse", key), FrameSorts)
  BY <1>1, AsSorted, JoinedSorted DEF Response, @@
<1>4. Sorted(RemoteControlResponse, FrameSorts)
  BY <1>1, AsSorted, JoinedSorted DEF RemoteControlResponse, @@
<1>5. Sorted(LiveDataResponse, FrameSorts) /\ Sorted(LiveStreamStartResult, FrameSorts)
  BY <1>1, AsSorted, JoinedSorted DEF LiveDataResponse, LiveStreamStartResult, @@
<1>6. QED
  BY <1>2, <1>3, <1>4, <1>5

LEMMA TelemetrySorted ==
  /\ Sorted(proto_to_stream_telemetry_response, FrameSorts)
  /\ Sorted(LiveStreamState, FrameSorts)
<1>1. /\ "plain" \in FrameSorts /\ "optional" \in FrameSorts
      /\ "time" \in FrameSorts /\ "named" \in FrameSorts
  BY DEF FrameSorts, DocumentSorts
<1>2. /\ Sorted(AssetTelemetry, FrameSorts) /\ Sorted(AssetNetworkInfo, FrameSorts)
      /\ Sorted(AssetAirConditioner, FrameSorts)
  BY <1>1, AsSorted, JoinedSorted
  DEF AssetTelemetry, AssetNetworkInfo, AssetAirConditioner, @@
<1>3. /\ Sorted(AssetSubAssetInformation, FrameSorts) /\ Sorted(AssetPositionState, FrameSorts)
      /\ Sorted(AssetWirelessLinkInfo, FrameSorts) /\ Sorted(AssetSdrState, FrameSorts)
  BY <1>1, AsSorted
  DEF AssetSubAssetInformation, AssetPositionState, AssetWirelessLinkInfo, AssetSdrState
<1>4. Sorted(decode_asset_telemetry, FrameSorts)
  BY <1>2, <1>3, JoinedSorted DEF decode_asset_telemetry, @@
<1>5. /\ Sorted(CameraData, FrameSorts) /\ Sorted(RangeFinderData, FrameSorts)
      /\ Sorted(SensorData, FrameSorts) /\ Sorted(PayloadTelemetry, FrameSorts)
  BY <1>1, AsSorted, JoinedSorted
  DEF CameraData, RangeFinderData, SensorData, PayloadTelemetry, @@
<1>6. Sorted(SubAssetTelemetry, FrameSorts) /\ Sorted(SubAssetBatteryInfo, FrameSorts)
  BY <1>1, AsSorted, JoinedSorted DEF SubAssetTelemetry, SubAssetBatteryInfo, @@
<1>7. Sorted(decode_sub_asset_telemetry, FrameSorts)
  BY <1>5, <1>6, JoinedSorted DEF decode_sub_asset_telemetry, decode_payload, @@
<1>8. Sorted(StreamTelemetryResponse, FrameSorts) /\ Sorted(LiveStreamState, FrameSorts)
  BY <1>1, AsSorted, JoinedSorted DEF StreamTelemetryResponse, LiveStreamState, @@
<1>9. QED
  BY <1>4, <1>7, <1>8, ResponseSorted, JoinedSorted
  DEF proto_to_stream_telemetry_response, @@

LEMMA NotificationSorted ==
  /\ Sorted(LiveDataNotificationResponse, FrameSorts) /\ Sorted(AssetStatusEvent, FrameSorts)
  /\ Sorted(TaskEvent, FrameSorts) /\ Sorted(OperationEvent, FrameSorts)
<1>1. /\ "plain" \in FrameSorts /\ "optional" \in FrameSorts
      /\ "time" \in FrameSorts /\ "named" \in FrameSorts
  BY DEF FrameSorts, DocumentSorts
<1>2. Sorted(LiveDataNotificationResponse, FrameSorts) /\ Sorted(AssetStatusEvent, FrameSorts)
  BY <1>1, AsSorted, JoinedSorted DEF LiveDataNotificationResponse, AssetStatusEvent, @@
<1>3. Sorted(TaskEvent, FrameSorts) /\ Sorted(OperationEvent, FrameSorts)
  BY <1>1, AsSorted, JoinedSorted DEF TaskEvent, OperationEvent, @@
<1>4. QED
  BY <1>2, <1>3

-----------------------------------------------------------------------------
(* What each kind of message carries.                                       *)

LEMMA ReadEntries ==
  /\ Reader["mission"] = proto_to_mission
  /\ Reader["task"] = proto_to_task
  /\ Reader["scheduler"] = proto_to_scheduler
  /\ Reader["mission_response"] = proto_to_mission_response
  /\ Reader["task_response"] = proto_to_task_response
  /\ Reader["scheduler_response"] = proto_to_scheduler_response
  /\ Reader["remote_control_response"] = proto_to_response
  /\ Reader["live_data_response"] = proto_to_live_data_response
  /\ Reader["telemetry"] = proto_to_stream_telemetry_response
  /\ Reader["notification"] = proto_to_stream_notification_response
  BY Zenon DEF Reader

LEMMA ReadKinds ==
  DOMAIN Reader =
    {"mission", "task", "scheduler", "mission_response", "task_response",
     "scheduler_response", "remote_control_response", "live_data_response",
     "telemetry", "notification"}
  BY Zenon DEF Reader

LEMMA WrittenEntries ==
  /\ Writer["mission"] = mission_to_proto
  /\ Writer["task"] = task_to_proto
  /\ Writer["scheduler"] = scheduler_to_proto
  /\ Writer["takeoff"] = takeoff
  /\ Writer["go_to"] = go_to
  /\ Writer["look_at"] = look_at
  /\ Writer["return_to_home"] = return_to_home
  /\ Writer["manual_control"] = manual_control_call
  /\ Writer["dock_operation"] = dock_operation
  /\ Writer["close_cover"] = close_cover
  /\ Writer["boot_sub_asset"] = boot_sub_asset
  /\ Writer["debug_mode"] = debug_mode
  /\ Writer["manual_control_input"] = request_iterator
  /\ Writer["stream_telemetry"] = stream_telemetry_request_to_proto
  /\ Writer["stream_notifications"] = stream_notifications_request_to_proto
  /\ Writer["start_live_stream"] = start_live_stream_to_proto
  /\ Writer["stop_live_stream"] = stop_live_stream_to_proto
  /\ Writer["change_lens"] = change_lens_to_proto
  /\ Writer["change_zoom"] = change_zoom_to_proto
  BY Zenon DEF Writer

RequestKinds ==
  {"takeoff", "go_to", "look_at", "return_to_home", "manual_control", "dock_operation",
   "close_cover", "boot_sub_asset", "debug_mode", "manual_control_input",
   "stream_telemetry", "stream_notifications", "start_live_stream", "stop_live_stream",
   "change_lens", "change_zoom"}

LEMMA WrittenKinds ==
  DOMAIN Writer = {"mission", "task", "scheduler"} \cup RequestKinds
  BY DEF Writer, RequestKinds

LEMMA RequestsAre == Requests = RequestKinds
  BY WrittenKinds DEF Requests, RequestKinds

LEMMA DeclaredKinds == Kinds = DOMAIN Writer \cup DOMAIN Reader
  BY WrittenKinds, ReadKinds DEF Kinds, Declared, RequestKinds

LEMMA DocumentEntries ==
  /\ Declared["mission"] = MissionDTO @@ TaskDTO
  /\ Declared["task"] = Task
  /\ Declared["scheduler"] = SchedulerDTO
  BY Zenon DEF Declared

LEMMA RequestEntries ==
  /\ Declared["takeoff"] = TakeoffRequest
  /\ Declared["go_to"] = GoToRequest
  /\ Declared["look_at"] = LookAtRequest
  /\ Declared["return_to_home"] = ReturnToHomeRequest
  /\ Declared["manual_control"] = ManualControlRequest
  /\ Declared["dock_operation"] = DockOperationRequest
  /\ Declared["close_cover"] = DockOperationRequest
  /\ Declared["boot_sub_asset"] = Switched
  /\ Declared["debug_mode"] = Switched
  /\ Declared["manual_control_input"] = ManualControlInput
  /\ Declared["stream_telemetry"] = StreamTelemetryRequest
  /\ Declared["stream_notifications"] = StreamNotificationRequest
  /\ Declared["start_live_stream"] = LiveDataStartLiveStreamRequest
  /\ Declared["stop_live_stream"] = LiveDataStopLiveStreamRequest
  /\ Declared["change_lens"] = ChangeLensRequest
  /\ Declared["change_zoom"] = ChangeZoomRequest
  BY Zenon DEF Declared

LEMMA ResponseEntries ==
  /\ Declared["mission_response"] =
       Response("MissionResponse", "mission_id") @@ ErrorInfo @@ ProgressInfo @@ MissionDTO
  /\ Declared["task_response"] =
       Response("TaskResponse", "task_id") @@ ErrorInfo @@ ProgressInfo @@ TaskDTO
  /\ Declared["scheduler_response"] =
       Response("SchedulerResponse", "scheduler_id") @@ ErrorInfo @@ ProgressInfo
       @@ SchedulerDTO
  /\ Declared["remote_control_response"] = RemoteControlResponse @@ ErrorInfo @@ ProgressInfo
  /\ Declared["live_data_response"] = LiveDataResponse @@ LiveStreamStartResult @@ ErrorInfo
  /\ Declared["telemetry"] =
       StreamTelemetryResponse
       @@ (AssetTelemetry @@ AssetNetworkInfo @@ AssetAirConditioner
           @@ AssetSubAssetInformation @@ AssetPositionState @@ AssetWirelessLinkInfo
           @@ AssetSdrState)
       @@ (SubAssetTelemetry
           @@ (PayloadTelemetry @@ CameraData @@ RangeFinderData @@ SensorData)
           @@ SubAssetBatteryInfo)
       @@ ErrorInfo @@ LiveStreamState
  /\ Declared["notification"] =
       LiveDataNotificationResponse @@ AssetStatusEvent @@ TaskEvent @@ OperationEvent
       @@ ErrorInfo
  BY Zenon DEF Declared

LEMMA TheProtoOnly ==
  /\ DOMAIN ProtoOnly = {<<"TaskDTO", "config">>}
  /\ \A p \in DOMAIN ProtoOnly : ProtoOnly[p] = "optional"
  BY DEF ProtoOnly, As

-----------------------------------------------------------------------------
(* The documents of mission autonomy.                                       *)

Missing == {"optional", "time"}

ConfigClasses ==
  {"WaypointTaskConfig", "WaypointDTO", "DetectTaskConfig", "DetectionParameter",
   "AreaMappingTaskConfig", "AreaVertex", "PoiTaskConfig", "FollowTaskConfig",
   "TrackTaskConfig"}
LossyConfigs == {"WaypointTaskConfig", "WaypointDTO"}

LEMMA ConfigClassed ==
  /\ Classed(WaypointTaskConfig, {"WaypointTaskConfig"})
  /\ Classed(WaypointDTO, {"WaypointDTO"})
  /\ Classed(Merge(DetectTaskConfig, DetectionParameter), ConfigClasses \ LossyConfigs)
  /\ Classed(Merge(AreaMappingTaskConfig, AreaVertex), ConfigClasses \ LossyConfigs)
  /\ Classed(PoiTaskConfig, ConfigClasses \ LossyConfigs)
  /\ Classed(FollowTaskConfig, ConfigClasses \ LossyConfigs)
  /\ Classed(TrackTaskConfig, ConfigClasses \ LossyConfigs)
<1>1. Classed(WaypointTaskConfig, {"WaypointTaskConfig"})
  BY AsClassed, JoinedClassed DEF WaypointTaskConfig, @@
<1>2. Classed(WaypointDTO, {"WaypointDTO"})
  BY AsClassed, JoinedClassed DEF WaypointDTO, @@
<1>3. {"DetectTaskConfig", "DetectionParameter", "AreaMappingTaskConfig", "AreaVertex",
       "PoiTaskConfig", "FollowTaskConfig", "TrackTaskConfig"}
        \subseteq ConfigClasses \ LossyConfigs
  BY DEF ConfigClasses, LossyConfigs
<1>4. /\ Classed(Merge(DetectTaskConfig, DetectionParameter), ConfigClasses \ LossyConfigs)
      /\ Classed(Merge(AreaMappingTaskConfig, AreaVertex), ConfigClasses \ LossyConfigs)
  BY <1>3, AsClassed, JoinedClassed
  DEF DetectTaskConfig, DetectionParameter, AreaMappingTaskConfig, AreaVertex, @@
<1>5. /\ Classed(PoiTaskConfig, ConfigClasses \ LossyConfigs)
      /\ Classed(FollowTaskConfig, ConfigClasses \ LossyConfigs)
      /\ Classed(TrackTaskConfig, ConfigClasses \ LossyConfigs)
  BY <1>3, AsClassed, JoinedClassed DEF PoiTaskConfig, FollowTaskConfig, TrackTaskConfig, @@
<1>6. QED
  BY <1>1, <1>2, <1>4, <1>5

LEMMA TaskConfigsClassed == Classed(TaskConfigs, ConfigClasses)
<1>1. /\ Classed(WaypointTaskConfig, ConfigClasses) /\ Classed(WaypointDTO, ConfigClasses)
  BY ConfigClassed DEF Classed, ConfigClasses
<1>2. \A t : Classed(t, ConfigClasses \ LossyConfigs) => Classed(t, ConfigClasses)
  BY DEF Classed
<1>3. QED
  BY <1>1, <1>2, ConfigClassed, JoinedClassed DEF TaskConfigs, @@

LEMMA ConfigTrims ==
  ASSUME NEW k
  PROVE  /\ Trims(k, TaskConfigs, apply_task_config, LossyConfigs)
         /\ Trims(k, TaskConfigs, proto_to_task_config, LossyConfigs)
<1> DEFINE Config == Except(WaypointTaskConfig, "WaypointTaskConfig", WaylineEnums)
           Point == Except(WaypointDTO, "WaypointDTO", {"vehicle_action"})
<1>1. Trims(k, WaypointTaskConfig, Config, {"WaypointTaskConfig"})
  <2>1. Gives(WaypointTaskConfig, "WaypointTaskConfig", WaylineEnums, {"optional"})
    BY AsGives, JoinedGives DEF WaypointTaskConfig, WaylineEnums, @@
  <2>2. \A p : p[1] = "WaypointTaskConfig" /\ p[2] \in WaylineEnums => Loses(k, p)
    BY DEF Loses
  <2>3. Conveys(k, WaypointTaskConfig, Config, {"optional"})
    BY <2>1, <2>2, ExceptConveys
  <2>4. QED
    BY <2>3 DEF Trims, Except
<1>2. Trims(k, WaypointDTO, Point, {"WaypointDTO"})
  <2>1. Gives(WaypointDTO, "WaypointDTO", {"vehicle_action"}, {"optional"})
    BY AsGives, JoinedGives DEF WaypointDTO, @@
  <2>2. \A p : p[1] = "WaypointDTO" /\ p[2] \in {"vehicle_action"} => Loses(k, p)
    BY DEF Loses
  <2>3. Conveys(k, WaypointDTO, Point, {"optional"})
    BY <2>1, <2>2, ExceptConveys
  <2>4. QED
    BY <2>3 DEF Trims, Except
<1>3. Classed(Config, {"WaypointTaskConfig"}) /\ Classed(Point, {"WaypointDTO"})
  BY ConfigClassed, ExceptClassed
<1> HIDE DEF Config, Point
<1>4. Trims(k, Merge(WaypointTaskConfig, WaypointDTO), Merge(Config, Point), LossyConfigs)
  BY <1>1, <1>2, <1>3, ConfigClassed DEF Trims, Conveys, Classed, LossyConfigs, Merge
<1>5. LossyConfigs \cap (ConfigClasses \ LossyConfigs) = {}
  OBVIOUS
<1>6. QED
  BY <1>4, <1>5, ConfigClassed, JoinedTrims
  DEF TaskConfigs, @@, Config, Point,
      apply_task_config, waypoint_config_to_proto, waypoint_to_proto,
      detect_config_to_proto, area_mapping_config_to_proto, poi_config_to_proto,
      follow_config_to_proto, track_config_to_proto,
      proto_to_task_config, proto_to_waypoint_config, proto_to_waypoint,
      proto_to_detect_config, proto_to_area_mapping_config, proto_to_poi_config,
      proto_to_follow_config, proto_to_track_config

LEMMA TaskConveys ==
  ASSUME NEW k
  PROVE  /\ Conveys(k, TaskDTO, task_to_proto, {"optional"})
         /\ Conveys(k, TaskDTO, proto_to_task, {"optional"})
         /\ Conveys(k, Task, task_to_proto, {"optional"})
         /\ Conveys(k, Task, proto_to_task, {"optional"})
         /\ DOMAIN proto_to_task \cap DOMAIN ProtoOnly = {}
<1> DEFINE Most == Except(TaskDTO, "TaskDTO", {"break_reason"})
<1>1. Trims(k, TaskDTO, Most, {"TaskDTO"})
  <2>1. Gives(TaskDTO, "TaskDTO", {"break_reason"}, {"optional"})
    BY AsGives, JoinedGives DEF TaskDTO, @@
  <2>2. \A p : p[1] = "TaskDTO" /\ p[2] \in {"break_reason"} => Loses(k, p)
    BY DEF Loses
  <2>3. Conveys(k, TaskDTO, Most, {"optional"})
    BY <2>1, <2>2, ExceptConveys
  <2>4. QED
    BY <2>3 DEF Trims, Except
<1> HIDE DEF Most
<1>2. ASSUME NEW table, Trims(k, TaskConfigs, table, LossyConfigs)
      PROVE  /\ Conveys(k, TaskDTO, Merge(Most, table), {"optional"})
             /\ Conveys(k, Task, Merge(Most, table), {"optional"})
             /\ DOMAIN Merge(Most, table) \cap DOMAIN ProtoOnly = {}
  <2>1. "TaskDTO" \notin ConfigClasses /\ DOMAIN table \subseteq DOMAIN TaskConfigs
    BY <1>2 DEF ConfigClasses, Trims
  <2>2. \A p \in DOMAIN table : p[1] # "TaskDTO"
    BY <2>1, TaskConfigsClassed DEF Classed
  <2>3. (DOMAIN TaskDTO \ DOMAIN Most) \cap DOMAIN table = {}
    BY <1>1, <2>2 DEF Trims
  <2>4. /\ Conveys(k, TaskDTO, Most, {"optional"}) /\ DOMAIN Most \subseteq DOMAIN TaskDTO
        /\ Conveys(k, TaskConfigs, table, {"optional"})
    BY <1>1, <1>2 DEF Trims
  <2>5. Conveys(k, TaskDTO, Merge(Most, table), {"optional"})
    BY <1>1, <2>3 DEF Trims, Conveys, Merge
  <2>6. Conveys(k, Merge(TaskDTO, TaskConfigs), Merge(Most, table), {"optional"})
    BY <2>4, <2>3, JoinedConveys
  <2>7. DOMAIN Merge(Most, table) \subseteq DOMAIN Merge(TaskDTO, TaskConfigs)
    BY <1>1, <1>2 DEF Trims, Merge
  <2>8. \A p \in DOMAIN ProtoOnly : ProtoOnly[p] \in {"optional"} /\ Loses(k, p)
    BY TheProtoOnly DEF Loses
  <2>9. Conveys(k, Task, Merge(Most, table), {"optional"})
    BY <2>6, <2>7, <2>8, RestConveys DEF Task, @@
  <2>10. Sorted(Merge(TaskDTO, TaskConfigs), DocumentSorts)
    BY DocumentSorted, JoinedSorted
  <2>11. QED
    BY <2>5, <2>7, <2>9, <2>10, TheProtoOnly DEF Sorted
<1>3. task_to_proto = Merge(Most, apply_task_config)
  BY DEF task_to_proto, Most, @@
<1>4. proto_to_task = Merge(Most, proto_to_task_config)
  BY DEF proto_to_task, Most, @@
<1>5. QED
  BY <1>2, <1>3, <1>4, ConfigTrims

-----------------------------------------------------------------------------
(* What is read.                                                            *)

LEMMA MissingMore ==
  \A k, d, t : Conveys(k, d, t, {"optional"}) => Conveys(k, d, t, Missing)
  BY DEF Conveys, Missing

\* Everything declared is of one of these kinds, the field of ProtoOnly, which
\* no converter reads, an optional one.
Declares(declared, table, sorts) ==
  /\ \A p \in DOMAIN declared : declared[p] \in sorts
  /\ \A p \in DOMAIN declared \cap DOMAIN ProtoOnly :
       declared[p] = "optional" /\ p \notin DOMAIN table

LEMMA SortedDeclares ==
  ASSUME NEW declared, NEW table, NEW sorts, Sorted(declared, sorts)
  PROVE  Declares(declared, table, sorts)
  BY TheProtoOnly DEF Declares, Sorted

LEMMA DocumentReads ==
  ASSUME NEW k \in {"mission", "task", "scheduler"}
  PROVE  /\ Conveys(k, Declared[k], Reader[k], Missing)
         /\ Declares(Declared[k], Reader[k], DocumentSorts)
<1>1. CASE k = "mission"
  <2>1. Conveys(k, Merge(MissionDTO, TaskDTO), Merge(MissionDTO, proto_to_task), Missing)
    BY TaskConveys, HeadConveys, MissingMore
  <2>2. Sorted(Merge(MissionDTO, TaskDTO), DocumentSorts)
    BY DocumentSorted, JoinedSorted
  <2>3. QED
    BY <1>1, <2>1, <2>2, SortedDeclares, DocumentEntries, ReadEntries
    DEF proto_to_mission, @@
<1>2. CASE k = "task"
  <2>1. Sorted(Merge(TaskDTO, TaskConfigs), DocumentSorts)
    BY DocumentSorted, JoinedSorted
  <2>2. "optional" \in DocumentSorts /\ Task = Merge(Merge(TaskDTO, TaskConfigs), ProtoOnly)
    BY DEF DocumentSorts, Task, @@
  <2>3. \A p \in DOMAIN Task : Task[p] \in DocumentSorts
    BY <2>1, <2>2, TheProtoOnly DEF Sorted, Merge
  <2>4. \A p \in DOMAIN ProtoOnly : Task[p] = "optional"
    BY <2>1, <2>2, TheProtoOnly DEF Sorted, Merge
  <2>5. Declares(Task, proto_to_task, DocumentSorts)
    BY <2>3, <2>4, TaskConveys DEF Declares
  <2>6. QED
    BY <1>2, <2>5, TaskConveys, MissingMore, DocumentEntries, ReadEntries
<1>3. CASE k = "scheduler"
  BY <1>3, DocumentSorted, SortedDeclares, WholeConveys, DocumentEntries, ReadEntries
  DEF proto_to_scheduler
<1>4. QED
  BY <1>1, <1>2, <1>3

LEMMA ResponseReads ==
  ASSUME NEW k \in {"mission_response", "task_response", "scheduler_response",
                    "remote_control_response"}
  PROVE  /\ Conveys(k, Declared[k], Reader[k], Missing)
         /\ Sorted(Declared[k], FrameSorts)
<1>1. CASE k = "mission_response"
  <2>1. Conveys(k, MissionDTO, proto_to_mission, Missing)
    BY DEF proto_to_mission, @@, Merge, Conveys, Names
  <2>2. QED
    BY <1>1, <2>1, HeadConveys, JoinedSorted, ResponseSorted, DocumentSorted, SortedMore,
       ResponseEntries, ReadEntries DEF proto_to_mission_response, @@
<1>2. CASE k = "task_response"
  BY <1>2, TaskConveys, MissingMore, HeadConveys, JoinedSorted, ResponseSorted,
     DocumentSorted, SortedMore, ResponseEntries, ReadEntries DEF proto_to_task_response, @@
<1>3. CASE k = "scheduler_response"
  BY <1>3, WholeConveys, JoinedSorted, ResponseSorted, DocumentSorted, SortedMore,
     ResponseEntries, ReadEntries DEF proto_to_scheduler_response, proto_to_scheduler, @@
<1>4. CASE k = "remote_control_response"
  BY <1>4, WholeConveys, JoinedSorted, ResponseSorted, ResponseEntries, ReadEntries
  DEF proto_to_response, @@
<1>5. QED
  BY <1>1, <1>2, <1>3, <1>4

LEMMA LiveDataReads ==
  ASSUME NEW k \in {"live_data_response", "telemetry"}
  PROVE  /\ Conveys(k, Declared[k], Reader[k], Missing)
         /\ Sorted(Declared[k], FrameSorts)
<1>1. CASE k = "live_data_response"
  <2>1. Gives(ErrorInfo, "ErrorInfo", {"timestamp"}, Missing)
    BY AsGives, JoinedGives DEF ErrorInfo, Missing, @@
  <2>2. ASSUME NEW p \in DOMAIN ErrorInfo \ DOMAIN Except(ErrorInfo, "ErrorInfo", {"timestamp"})
        PROVE  ErrorInfo[p] \in Missing /\ Loses(k, p)
    BY <1>1, <2>1 DEF Loses, Except, Gives
  <2>3. Conveys(k, ErrorInfo, Except(ErrorInfo, "ErrorInfo", {"timestamp"}), Missing)
    BY <2>2 DEF Conveys, Names, Except
  <2>4. QED
    BY <1>1, <2>3, HeadConveys, JoinedSorted, ResponseSorted, ResponseEntries, ReadEntries
    DEF proto_to_live_data_response, @@
<1>2. CASE k = "telemetry"
  <2>1. Declared[k] = Merge(proto_to_stream_telemetry_response, LiveStreamState)
    BY <1>2, ResponseEntries
    DEF proto_to_stream_telemetry_response, decode_asset_telemetry,
        decode_sub_asset_telemetry, decode_payload, @@
  <2>2. \A p \in DOMAIN LiveStreamState :
          p[1] = "LiveStreamState" /\ LiveStreamState[p] = "optional"
    BY DEF LiveStreamState, As
  <2>3. Conveys(k, proto_to_stream_telemetry_response, proto_to_stream_telemetry_response,
                Missing)
    BY WholeConveys
  <2>4. Conveys(k, Declared[k], proto_to_stream_telemetry_response, Missing)
    BY <2>1, <2>2, <2>3 DEF Conveys, Merge, Loses, Missing
  <2>5. QED
    BY <1>2, <2>1, <2>4, TelemetrySorted, JoinedSorted, ReadEntries
<1>3. QED
  BY <1>1, <1>2

\* One attribute is declared optional by the dataclass alone.
LEMMA NotificationReads ==
  /\ Conveys("notification", Declared["notification"], Reader["notification"], Missing)
  /\ Sorted(Declared["notification"], FrameSorts)
<1> DEFINE Same(d, t) == /\ DOMAIN d = DOMAIN t
                         /\ \A p \in DOMAIN d : Names(t[p], d[p])
<1>1. ASSUME NEW d1, NEW t1, NEW d2, NEW t2, Same(d1, t1), Same(d2, t2)
      PROVE  Same(Merge(d1, d2), Merge(t1, t2))
  BY <1>1 DEF Merge
<1>2. ASSUME NEW t PROVE Same(t, t)
  BY DEF Names
<1>3. /\ Same(LiveDataNotificationResponse, StreamNotificationResponse)
      /\ Same(TaskEvent, NotificationTaskEvent)
      /\ Same(OperationEvent, NotificationOperationEvent)
      /\ Same(ErrorInfo, ErrorInfo)
  <2>1. /\ LiveDataNotificationResponse = StreamNotificationResponse
        /\ TaskEvent = NotificationTaskEvent /\ OperationEvent = NotificationOperationEvent
    BY DEF LiveDataNotificationResponse, StreamNotificationResponse, TaskEvent,
           NotificationTaskEvent, OperationEvent, NotificationOperationEvent, @@
  <2>2. QED
    BY <1>2, <2>1
<1>4. Same(AssetStatusEvent, NotificationAssetStatus)
  BY DEF AssetStatusEvent, NotificationAssetStatus, @@, Merge, As, Names
<1> HIDE DEF Same
<1>5. Same(Declared["notification"], Reader["notification"])
  BY <1>1, <1>3, <1>4, ResponseEntries, ReadEntries
  DEF proto_to_stream_notification_response, @@
<1>6. QED
  BY <1>5, NotificationSorted, ResponseSorted, JoinedSorted, ResponseEntries
  DEF Same, Conveys, @@

\* A reader reads every attribute of its kind as a value of the kind declared,
\* or leaves one unset that is known to be lost; it has no field of ProtoOnly.
LEMMA ReaderCarries ==
  ASSUME NEW k \in DOMAIN Reader
  PROVE  /\ Conveys(k, Declared[k], Reader[k], Missing)
         /\ Declares(Declared[k], Reader[k], FrameSorts)
         /\ k \in DOMAIN Writer => Declares(Declared[k], Reader[k], DocumentSorts)
<1>1. CASE k \in {"mission", "task", "scheduler"}
  BY <1>1, DocumentReads DEF Declares, FrameSorts
<1>2. CASE k \in {"mission_response", "task_response", "scheduler_response",
                  "remote_control_response", "live_data_response", "telemetry",
                  "notification"}
  <2>1. Conveys(k, Declared[k], Reader[k], Missing) /\ Sorted(Declared[k], FrameSorts)
    BY <1>2, ResponseReads, LiveDataReads, NotificationReads
  <2>2. k \notin DOMAIN Writer
    BY <1>2, WrittenKinds DEF RequestKinds
  <2>3. QED
    BY <2>1, <2>2, SortedDeclares
<1>3. QED
  BY <1>1, <1>2, ReadKinds

-----------------------------------------------------------------------------
(* What is written.                                                         *)

RequestSorts == {"plain", "optional", "list", "count", "id", "switch"}

LEMMA RemoteControlSorted ==
  /\ Sorted(TakeoffRequest, RequestSorts) /\ Sorted(GoToRequest, RequestSorts)
  /\ Sorted(LookAtRequest, RequestSorts) /\ Sorted(ReturnToHomeRequest, RequestSorts)
  /\ Sorted(ManualControlRequest, RequestSorts)
  /\ Sorted(DockOperationRequest, RequestSorts) /\ Sorted(Switched, RequestSorts)
  /\ Sorted(ManualControlInput, RequestSorts)
<1>1. /\ "plain" \in RequestSorts /\ "optional" \in RequestSorts
      /\ "switch" \in RequestSorts
  BY DEF RequestSorts
<1>2. /\ Sorted(TakeoffRequest, RequestSorts) /\ Sorted(GoToRequest, RequestSorts)
      /\ Sorted(LookAtRequest, RequestSorts)
  BY <1>1, AsSorted, JoinedSorted
  DEF TakeoffRequest, GoToRequest, LookAtRequest, Positioned, @@
<1>3. /\ Sorted(ReturnToHomeRequest, RequestSorts)
      /\ Sorted(ManualControlRequest, RequestSorts)
  BY <1>1, AsSorted, JoinedSorted DEF ReturnToHomeRequest, ManualControlRequest, @@
<1>4. /\ Sorted(DockOperationRequest, RequestSorts) /\ Sorted(Switched, RequestSorts)
      /\ Sorted(ManualControlInput, RequestSorts)
  BY <1>1, AsSorted, JoinedSorted
  DEF DockOperationRequest, Switched, dock_operation, ManualControlInput, @@
<1>5. QED
  BY <1>2, <1>3, <1>4

LEMMA LiveDataSorted ==
  /\ Sorted(StreamTelemetryRequest, RequestSorts)
  /\ Sorted(StreamNotificationRequest, RequestSorts)
  /\ Sorted(LiveDataStartLiveStreamRequest, RequestSorts)
  /\ Sorted(LiveDataStopLiveStreamRequest, RequestSorts)
  /\ Sorted(ChangeLensRequest, RequestSorts) /\ Sorted(ChangeZoomRequest, RequestSorts)
<1>1. /\ "plain" \in RequestSorts /\ "optional" \in RequestSorts /\ "list" \in RequestSorts
      /\ "id" \in RequestSorts /\ "count" \in RequestSorts
  BY DEF RequestSorts
<1>2. /\ Sorted(StreamTelemetryRequest, RequestSorts)
      /\ Sorted(StreamNotificationRequest, RequestSorts)
  BY <1>1, AsSorted, JoinedSorted
  DEF StreamTelemetryRequest, StreamNotificationRequest, Envelope, AssetId, @@
<1>3. /\ Sorted(LiveDataStartLiveStreamRequest, RequestSorts)
      /\ Sorted(LiveDataStopLiveStreamRequest, RequestSorts)
  BY <1>1, AsSorted, JoinedSorted
  DEF LiveDataStartLiveStreamRequest, LiveDataStopLiveStreamRequest, Envelope, AssetId, @@
<1>4. Sorted(ChangeLensRequest, RequestSorts) /\ Sorted(ChangeZoomRequest, RequestSorts)
  BY <1>1, AsSorted, JoinedSorted
  DEF ChangeLensRequest, ChangeZoomRequest, Envelope, AssetId, @@
<1>5. QED
  BY <1>2, <1>3, <1>4

\* A request leaves out what it has no field for.
LEMMA ContextLost ==
  ASSUME NEW k \in RequestKinds, NEW d, NEW class, NEW names \in SUBSET Context,
         Gives(d, class, names, {"optional"})
  PROVE  Conveys(k, d, Except(d, class, names), {"optional"})
<1>1. \A p : p[1] = class /\ p[2] \in names => Loses(k, p)
  BY RequestsAre DEF Loses
<1>2. QED
  BY <1>1, ExceptConveys

LEMMA RemoteControlWrites ==
  ASSUME NEW k \in {"takeoff", "go_to", "look_at", "return_to_home", "manual_control",
                    "manual_control_input"}
  PROVE  /\ Conveys(k, Declared[k], Writer[k], {"optional"})
         /\ Sorted(Declared[k], RequestSorts)
<1>1. k \in RequestKinds /\ Context \subseteq Context
  BY DEF RequestKinds
<1>2. /\ Gives(TakeoffRequest, "TakeoffRequest", Context, {"optional"})
      /\ Gives(GoToRequest, "GoToRequest", Context, {"optional"})
      /\ Gives(LookAtRequest, "LookAtRequest", Context, {"optional"})
  BY AsGives, JoinedGives
  DEF TakeoffRequest, GoToRequest, LookAtRequest, Positioned, Context, @@
<1>3. /\ Gives(ReturnToHomeRequest, "ReturnToHomeRequest", Context, {"optional"})
      /\ Gives(ManualControlRequest, "ManualControlRequest", Context, {"optional"})
  BY AsGives, JoinedGives DEF ReturnToHomeRequest, ManualControlRequest, Context, @@
<1>4. CASE k \in {"takeoff", "go_to", "look_at"}
  BY <1>1, <1>2, <1>4, ContextLost, RemoteControlSorted, RequestEntries, WrittenEntries
  DEF takeoff, go_to, look_at
<1>5. CASE k \in {"return_to_home", "manual_control"}
  BY <1>1, <1>3, <1>5, ContextLost, RemoteControlSorted, RequestEntries, WrittenEntries
  DEF return_to_home, manual_control_call
<1>6. CASE k = "manual_control_input"
  BY <1>6, WholeConveys, RemoteControlSorted, RequestEntries, WrittenEntries
  DEF request_iterator
<1>7. QED
  BY <1>4, <1>5, <1>6

LEMMA DockWrites ==
  ASSUME NEW k \in {"dock_operation", "close_cover", "boot_sub_asset", "debug_mode"}
  PROVE  /\ Conveys(k, Declared[k], Writer[k], {"optional"})
         /\ Sorted(Declared[k], RequestSorts)
<1>1. \A p : p[2] = "asset_id" => Loses(k, p)
  BY RequestsAre DEF Loses, RequestKinds, Context
<1>2. CASE k = "dock_operation"
  <2>1. \A p : p[2] = "value" => Loses(k, p)
    BY <1>2 DEF Loses
  <2>2. Conveys(k, DockOperationRequest, dock_operation, {"optional"})
    BY <1>1, <2>1 DEF DockOperationRequest, dock_operation, @@, As, Merge, Conveys, Names
  <2>3. QED
    BY <1>2, <2>2, RemoteControlSorted, RequestEntries, WrittenEntries
<1>3. CASE k = "close_cover"
  <2>1. Conveys(k, DockOperationRequest, close_cover, {"optional"})
    BY <1>1 DEF DockOperationRequest, dock_operation, close_cover, @@, As, Merge, Conveys, Names
  <2>2. QED
    BY <1>3, <2>1, RemoteControlSorted, RequestEntries, WrittenEntries
<1>4. CASE k \in {"boot_sub_asset", "debug_mode"}
  <2>1. \A p \in DOMAIN As("DockOperationRequest", "optional", {"asset_id"}) :
          p[2] = "asset_id" /\ As("DockOperationRequest", "optional", {"asset_id"})[p] = "optional"
    BY DEF As
  <2>2. boot_sub_asset = debug_mode
    BY DEF boot_sub_asset, debug_mode
  <2>3. Conveys(k, debug_mode, debug_mode, {"optional"})
    BY WholeConveys
  <2>4. Conveys(k, Switched, debug_mode, {"optional"})
    BY <1>1, <2>1, <2>3 DEF Switched, debug_mode, @@, Merge, Conveys, Names
  <2>5. QED
    BY <1>4, <2>2, <2>4, RemoteControlSorted, RequestEntries, WrittenEntries
<1>5. QED
  BY <1>2, <1>3, <1>4

LEMMA LiveDataWrites ==
  ASSUME NEW k \in {"stream_telemetry", "stream_notifications", "start_live_stream",
                    "stop_live_stream", "change_lens", "change_zoom"}
  PROVE  /\ Conveys(k, Declared[k], Writer[k], {"optional"})
         /\ Sorted(Declared[k], RequestSorts)
<1>1. k \in RequestKinds /\ {"asset_id"} \in SUBSET Context
  BY DEF RequestKinds, Context
<1>2. /\ Gives(StreamTelemetryRequest, "StreamTelemetryRequest", {"asset_id"}, {"optional"})
      /\ Gives(ChangeLensRequest, "ChangeLensRequest", {"asset_id"}, {"optional"})
      /\ Gives(ChangeZoomRequest, "ChangeZoomRequest", {"asset_id"}, {"optional"})
  BY AsGives, JoinedGives
  DEF StreamTelemetryRequest, ChangeLensRequest, ChangeZoomRequest, Envelope, AssetId, @@
<1>3. /\ Gives(LiveDataStartLiveStreamRequest, "LiveDataStartLiveStreamRequest",
               {"asset_id"}, {"optional"})
      /\ Gives(LiveDataStopLiveStreamRequest, "LiveDataStopLiveStreamRequest",
               {"asset_id"}, {"optional"})
  BY AsGives, JoinedGives
  DEF LiveDataStartLiveStreamRequest, LiveDataStopLiveStreamRequest, Envelope, AssetId, @@
<1>4. CASE k \in {"stream_telemetry", "change_lens", "change_zoom"}
  BY <1>1, <1>2, <1>4, ContextLost, LiveDataSorted, RequestEntries, WrittenEntries
  DEF stream_telemetry_request_to_proto, change_lens_to_proto, change_zoom_to_proto
<1>5. CASE k \in {"start_live_stream", "stop_live_stream"}
  BY <1>1, <1>3, <1>5, ContextLost, LiveDataSorted, RequestEntries, WrittenEntries
  DEF start_live_stream_to_proto, stop_live_stream_to_proto
<1>6. CASE k = "stream_notifications"
  BY <1>6, WholeConveys, LiveDataSorted, RequestEntries, WrittenEntries
  DEF stream_notifications_request_to_proto
<1>7. QED
  BY <1>4, <1>5, <1>6

LEMMA DocumentWrites ==
  ASSUME NEW k \in {"mission", "task", "scheduler"}
  PROVE  Conveys(k, Declared[k], Writer[k], {"optional"})
<1>1. CASE k = "mission"
  BY <1>1, TaskConveys, HeadConveys, DocumentEntries, WrittenEntries
  DEF mission_to_proto, @@
<1>2. CASE k = "task"
  BY <1>2, TaskConveys, DocumentEntries, WrittenEntries
<1>3. CASE k = "scheduler"
  BY <1>3, WholeConveys, DocumentEntries, WrittenEntries DEF scheduler_to_proto
<1>4. QED
  BY <1>1, <1>2, <1>3

\* A writer writes every attribute of its kind as a value of the kind declared,
\* or leaves out an optional one that is known to be lost.
LEMMA WriterCarries ==
  ASSUME NEW k \in DOMAIN Writer
  PROVE  /\ Conveys(k, Declared[k], Writer[k], {"optional"})
         /\ k \in RequestKinds => Sorted(Declared[k], RequestSorts)
<1>1. CASE k \in {"mission", "task", "scheduler"}
  <2>1. k \notin RequestKinds
    BY <1>1 DEF RequestKinds
  <2>2. QED
    BY <1>1, <2>1, DocumentWrites
<1>2. CASE k \in RequestKinds
  BY <1>2, RemoteControlWrites, DockWrites, LiveDataWrites DEF RequestKinds
<1>3. QED
  BY <1>1, <1>2, WrittenKinds

-----------------------------------------------------------------------------
(* The behaviours use all of this through one fact about each attribute.    *)

\* What the converters do with attribute p of a kind, declared of kind d.
Carries(k, p, d) ==
  /\ d \in DOMAIN Held
  /\ p \in DOMAIN ProtoOnly => d = "optional"
  /\ k \in DOMAIN Writer =>
       IF p \in DOMAIN Writer[k] THEN Names(Writer[k][p], d)
       ELSE d = "optional" /\ Loses(k, p)
  /\ k \in DOMAIN Reader =>
       /\ d \in FrameSorts
       /\ p \notin DOMAIN ProtoOnly \/ p \notin DOMAIN Reader[k]
       /\ IF p \in DOMAIN Reader[k] THEN Names(Reader[k][p], d)
          ELSE d \in Missing /\ Loses(k, p)
  /\ k \in DOMAIN Reader /\ k \in DOMAIN Writer => d \in DocumentSorts

LEMMA HeldKinds ==
  DOMAIN Held = {"plain", "optional", "time", "status", "type", "named", "code", "list",
                 "count", "id", "switch"}
  BY Zenon DEF Held

\* Every converter writes and reads each attribute as a value of the kind that
\* its dataclass declares, a required one possibly as an optional one, or the
\* attribute is one of the known losses (models/_converters.py,
\* mission_autonomy/_converters.py, live_data/_converters.py, the requests
\* that remote_control/client.py and live_data/client.py build).
THEOREM ConvertersTheorem ==
  \A k \in Kinds : \A p \in DOMAIN Declared[k] : Carries(k, p, Declared[k][p])
<1> SUFFICES ASSUME NEW k \in Kinds, NEW p \in DOMAIN Declared[k]
             PROVE  Carries(k, p, Declared[k][p])
  OBVIOUS
<1>1. ASSUME k \in DOMAIN Reader
      PROVE  /\ Declared[k][p] \in FrameSorts
             /\ p \in DOMAIN ProtoOnly =>
                  Declared[k][p] = "optional" /\ p \notin DOMAIN Reader[k]
             /\ k \in DOMAIN Writer => Declared[k][p] \in DocumentSorts
             /\ IF p \in DOMAIN Reader[k] THEN Names(Reader[k][p], Declared[k][p])
                ELSE Declared[k][p] \in Missing /\ Loses(k, p)
  BY <1>1, ReaderCarries DEF Declares, Conveys
<1>2. ASSUME k \in DOMAIN Writer
      PROVE  IF p \in DOMAIN Writer[k] THEN Names(Writer[k][p], Declared[k][p])
             ELSE Declared[k][p] = "optional" /\ Loses(k, p)
  BY <1>2, WriterCarries DEF Conveys
<1>3. ASSUME k \in RequestKinds
      PROVE  Declared[k][p] \in RequestSorts /\ p \notin DOMAIN ProtoOnly
  BY <1>3, WriterCarries, WrittenKinds, TheProtoOnly DEF Sorted
<1>4. FrameSorts \subseteq DOMAIN Held /\ RequestSorts \subseteq DOMAIN Held
  BY HeldKinds DEF FrameSorts, DocumentSorts, RequestSorts
<1>5. k \in DOMAIN Reader \/ k \in RequestKinds
  BY DeclaredKinds, WrittenKinds, ReadKinds
<1>6. QED
  BY <1>1, <1>2, <1>3, <1>4, <1>5 DEF Carries
=============================================================================
