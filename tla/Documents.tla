------------------------------ MODULE Documents ------------------------------
(* The objects of the SDK on their way to a service and back: a caller gets *)
(* a document, edits it and writes it back (get_mission, update_mission and *)
(* the like), composes one (create_task, or any request), or is sent one (a *)
(* response, a frame). The service and its other clients change a document  *)
(* meanwhile. Converters treat each attribute on its own, so a behaviour    *)
(* watches one attribute of a kind of message, or two, one a status.        *)
EXTENDS RemoteControlMessages, Integers

CONSTANTS
  MaxWrites,   \* bound: tries of all calls, and changes by the service and others
  MaxEdits     \* bound: edits by the caller

ASSUME DocumentsAssumption == MaxWrites \in Nat /\ MaxEdits \in Nat

-----------------------------------------------------------------------------
(* The kinds of messages.                                                   *)

\* Who writes and who reads a kind; a service reads and writes it as it is.
Writer ==
  [mission |-> mission_to_proto, task |-> task_to_proto, scheduler |-> scheduler_to_proto,
   takeoff |-> takeoff, go_to |-> go_to, look_at |-> look_at,
   return_to_home |-> return_to_home, manual_control |-> manual_control_call,
   dock_operation |-> dock_operation, close_cover |-> close_cover,
   boot_sub_asset |-> boot_sub_asset, debug_mode |-> debug_mode,
   manual_control_input |-> request_iterator,
   stream_telemetry |-> stream_telemetry_request_to_proto,
   stream_notifications |-> stream_notifications_request_to_proto,
   start_live_stream |-> start_live_stream_to_proto,
   stop_live_stream |-> stop_live_stream_to_proto,
   change_lens |-> change_lens_to_proto, change_zoom |-> change_zoom_to_proto]
Reader ==
  [mission |-> proto_to_mission, task |-> proto_to_task, scheduler |-> proto_to_scheduler,
   mission_response |-> proto_to_mission_response,
   task_response |-> proto_to_task_response,
   scheduler_response |-> proto_to_scheduler_response,
   remote_control_response |-> proto_to_response,
   live_data_response |-> proto_to_live_data_response,
   telemetry |-> proto_to_stream_telemetry_response,
   notification |-> proto_to_stream_notification_response]

TaskConfigs ==
  (WaypointTaskConfig @@ WaypointDTO) @@ (DetectTaskConfig @@ DetectionParameter)
  @@ (AreaMappingTaskConfig @@ AreaVertex) @@ PoiTaskConfig @@ FollowTaskConfig
  @@ TrackTaskConfig

\* A field of the message TaskProtoDTO for which TaskDTO has no attribute.
ProtoOnly == As("TaskDTO", "optional", {"config"})

Task == TaskDTO @@ TaskConfigs @@ ProtoOnly

\* The operations that send False where the caller gave no value.
Switched == dock_operation @@ As("DockOperationRequest", "switch", {"value"})
               @@ As("DockOperationRequest", "optional", {"asset_id"})

\* Everything a message or an object of each kind may hold.
Declared ==
  [mission |-> MissionDTO @@ TaskDTO, task |-> Task, scheduler |-> SchedulerDTO,
   takeoff |-> TakeoffRequest, go_to |-> GoToRequest, look_at |-> LookAtRequest,
   return_to_home |-> ReturnToHomeRequest, manual_control |-> ManualControlRequest,
   dock_operation |-> DockOperationRequest, close_cover |-> DockOperationRequest,
   boot_sub_asset |-> Switched, debug_mode |-> Switched,
   manual_control_input |-> ManualControlInput,
   stream_telemetry |-> StreamTelemetryRequest,
   stream_notifications |-> StreamNotificationRequest,
   start_live_stream |-> LiveDataStartLiveStreamRequest,
   stop_live_stream |-> LiveDataStopLiveStreamRequest,
   change_lens |-> ChangeLensRequest, change_zoom |-> ChangeZoomRequest,
   mission_response |->
     Response("MissionResponse", "mission_id") @@ ErrorInfo @@ ProgressInfo @@ MissionDTO,
   task_response |->
     Response("TaskResponse", "task_id") @@ ErrorInfo @@ ProgressInfo @@ TaskDTO,
   scheduler_response |->
     Response("SchedulerResponse", "scheduler_id") @@ ErrorInfo @@ ProgressInfo
     @@ SchedulerDTO,
   remote_control_response |-> RemoteControlResponse @@ ErrorInfo @@ ProgressInfo,
   live_data_response |-> LiveDataResponse @@ LiveStreamStartResult @@ ErrorInfo,
   telemetry |->
     StreamTelemetryResponse
     @@ (AssetTelemetry @@ AssetNetworkInfo @@ AssetAirConditioner
         @@ AssetSubAssetInformation @@ AssetPositionState @@ AssetWirelessLinkInfo
         @@ AssetSdrState)
     @@ (SubAssetTelemetry
         @@ (PayloadTelemetry @@ CameraData @@ RangeFinderData @@ SensorData)
         @@ SubAssetBatteryInfo)
     @@ ErrorInfo @@ LiveStreamState,
   notification |->
     LiveDataNotificationResponse @@ AssetStatusEvent @@ TaskEvent @@ OperationEvent
     @@ ErrorInfo]

Kinds == DOMAIN Declared

\* A status is watched beside the id and the creation time of its class.
Statuses ==
  {<<"MissionDTO", "status">>, <<"TaskDTO", "status">>, <<"SchedulerDTO", "type">>}
Beside(p) == {q \in Statuses : q[1] = p[1] /\ p[2] \in {"id", "created_at"}}

\* Streamed: the loop that reads them logs what raises, and reads on.
Frames == {"telemetry", "notification"}

\* Kinds whose requests are built in the operation that is retried.
Rebuilt(k) == k \in {"start_live_stream", "stop_live_stream", "change_lens", "change_zoom"}

-----------------------------------------------------------------------------
VARIABLES
  kind,       \* the kind of message this behaviour is about
  attributes, \* the attributes it watches, by kind
  writes,     \* those the writer of that kind carries
  reads,      \* and those its reader does
  store,      \* the service's document, or the last request it executed
  answer,     \* the message on its way to the caller
  copy,       \* the caller's object
  origin,     \* the message that object was read from (history)
  edited,     \* the attributes edited since (history)
  edits,      \* edits so far
  request,    \* the message of the latest try of the call in progress
  tries,      \* its tries so far
  sends,      \* the tries of all calls so far
  under_way,  \* those the service has not executed, of this call or another
  outcome,    \* how the latest call ended
  changes     \* changes by others so far

about == <<kind, attributes, writes, reads>>
caller == <<copy, origin, edited, edits>>
writing == <<request, tries, sends, under_way>>
doc_vars == <<about, store, answer, caller, writing, outcome, changes>>

Nothing == << >>

watched == DOMAIN attributes
Kind(p) == attributes[p]

Messages == {m \in [watched -> Value] : \A p \in watched : m[p] \in Stored(Kind(p))}
Objects ==
  {m \in [watched -> Value] :
     \A p \in watched : m[p] \in IF p \in DOMAIN ProtoOnly THEN {"none"} ELSE Held[Kind(p)]}

Readable == kind \in DOMAIN Reader
Writable == kind \in DOMAIN Writer

DocInit ==
  /\ kind \in Kinds
  /\ \E p \in DOMAIN Declared[kind] :
       attributes = For(Declared[kind], {p} \cup Beside(p))
  /\ writes = IF Writable THEN For(Writer[kind], watched) ELSE Nothing
  /\ reads = IF Readable THEN For(Reader[kind], watched) ELSE Nothing
  /\ store \in (IF Readable THEN Messages ELSE {}) \cup (IF Writable THEN {Nothing} ELSE {})
  /\ answer = Nothing /\ copy = Nothing /\ origin = Nothing /\ request = Nothing
  /\ edited = {} /\ edits = 0 /\ tries = 0 /\ sends = 0 /\ under_way = {} /\ changes = 0
  /\ outcome = "none"

Idle == answer = Nothing /\ request = Nothing

\* The service, or another client of it, changes the document.
Change(p, v) ==
  /\ Readable /\ store # Nothing
  /\ sends + changes < MaxWrites
  /\ v \in Stored(Kind(p)) \ {store[p]}
  /\ store' = [store EXCEPT ![p] = v]
  /\ changes' = changes + 1
  /\ UNCHANGED <<about, answer, caller, writing, outcome>>

\* get_mission and the like, or the next frame of a stream: the service answers.
Get ==
  /\ Idle
  /\ Readable /\ store # Nothing
  /\ answer' = store
  /\ outcome' = "none"
  /\ UNCHANGED <<about, store, caller, writing, changes>>

\* The answer is converted, after execute has counted the call as a success. If
\* that raises, a call fails; a frame does not reach the callback.
Decode ==
  /\ answer # Nothing
  /\ answer' = Nothing
  /\ IF ReadRaises(reads, answer)
       THEN /\ outcome' = IF kind \in Frames THEN "dropped" ELSE "unreadable"
            /\ UNCHANGED caller
       ELSE /\ outcome' = "ok"
            /\ copy' = Read(reads, answer)
            /\ origin' = answer
            /\ edited' = {} /\ UNCHANGED edits
  /\ UNCHANGED <<about, store, writing, changes>>

\* The caller composes an object of its own.
Compose ==
  /\ Writable /\ Idle
  /\ store = Nothing /\ copy = Nothing
  /\ copy' \in Objects
  /\ UNCHANGED <<about, store, answer, origin, edited, edits, writing, outcome, changes>>

\* The caller edits its object, which it may do while a call is in progress.
Edit(p, v) ==
  /\ Writable /\ p \in DOMAIN copy
  /\ p \notin DOMAIN ProtoOnly
  /\ edits < MaxEdits
  /\ v \in Held[Kind(p)] \ {copy[p]}
  /\ copy' = [copy EXCEPT ![p] = v]
  /\ edited' = edited \cup {p}
  /\ edits' = edits + 1
  /\ UNCHANGED <<about, store, answer, origin, writing, outcome, changes>>

\* A try leaves with the request as it is now.
Try ==
  /\ sends + changes < MaxWrites
  /\ tries' = tries + 1 /\ sends' = sends + 1
  /\ under_way' = under_way \cup {[number |-> sends', message |-> request']}

\* update_mission and the like, or a request: the first try.
Send ==
  /\ Writable /\ Idle /\ copy # Nothing
  /\ request' = Write(writes, copy)
  /\ Try
  /\ outcome' = "none"
  /\ UNCHANGED <<about, store, answer, caller, changes>>

\* A task whose config is none of the six variants: TypeError, nothing sent.
SendUnknownConfig ==
  /\ kind \in {"mission", "task"} /\ Idle /\ copy # Nothing
  /\ outcome' = "type_error"
  /\ UNCHANGED <<about, store, answer, caller, writing, changes>>

Retry ==
  /\ request # Nothing
  /\ request' = IF Rebuilt(kind) THEN Write(writes, copy) ELSE request
  /\ Try
  /\ UNCHANGED <<about, store, answer, caller, outcome, changes>>

\* The service executes a try, an earlier one or one of a call that has ended
\* included: the message replaces the document.
Perform(t) ==
  /\ under_way' = under_way \ {t}
  /\ store' = t.message
  /\ UNCHANGED <<about, answer, caller, request, tries, sends, outcome, changes>>

Executed(n) == \A t \in under_way : t.number # n

\* The call ends; a service that executed a try of it may answer with the
\* document. What it has not executed stays under way.
Finish ==
  /\ request # Nothing
  /\ request' = Nothing /\ tries' = 0
  /\ \/ /\ \E n \in (sends - tries + 1)..sends : Executed(n)
        /\ outcome' = "ok"
        /\ answer' \in {Nothing} \cup (IF Readable THEN {request} ELSE {})
     \/ /\ outcome' = "failed"
        /\ UNCHANGED answer
  /\ UNCHANGED <<about, store, caller, sends, under_way, changes>>

DocNext ==
  \/ \E p \in watched, v \in Value : Change(p, v) \/ Edit(p, v)
  \/ Get \/ Decode \/ Compose
  \/ Send \/ SendUnknownConfig \/ Retry \/ Finish
  \/ \E t \in under_way : Perform(t)

DocSpec == DocInit /\ [][DocNext]_doc_vars

-----------------------------------------------------------------------------
(* Properties.                                                              *)

\* The type of every variable: what a message may hold, and an object.
DocTypeOK ==
  /\ kind \in Kinds /\ DOMAIN writes \cup DOMAIN reads \subseteq watched
  /\ {store, answer, origin, request} \subseteq Messages \cup {Nothing}
  /\ copy \in Objects \cup {Nothing}
  /\ edited \subseteq watched /\ edits \in 0..MaxEdits
  /\ sends \in 0..MaxWrites /\ changes \in 0..MaxWrites /\ tries \in 0..sends
  /\ under_way \subseteq [number : 1..sends, message : Messages]
  /\ outcome \in {"none", "ok", "failed", "unreadable", "dropped", "type_error"}

\* What the converters are known to lose, per kind: attributes of objects for
\* which no field is written, fields for which there is no attribute.
Requests == DOMAIN Writer \ {"mission", "task", "scheduler"}
Loses(k, p) ==
  \/ p \in DOMAIN ProtoOnly \/ p[1] = "LiveStreamState"
  \/ p[2] \in {"vehicle_action", "break_reason"}
  \/ p[1] = "WaypointTaskConfig" /\ p[2] \in WaylineEnums
  \/ k \in Requests /\ p[2] \in Context
  \/ k = "dock_operation" /\ p[2] = "value"
  \/ k = "live_data_response" /\ p = <<"ErrorInfo", "timestamp">>
Lost == {p \in watched : Loses(kind, p)}

\* What a value stands for: a zero time, a zero count and an enumerator without
\* a name stand for none, a time too fine for the one it is rounded to, a switch
\* without a value is off, an id is given.
Meaning(k, v) ==
  CASE k = "time"   -> proto_ts_to_datetime(v)
    [] k = "count"  -> IF v = "zero" THEN "none" ELSE v
    [] k = "named"  -> IF v = "new" THEN "none" ELSE v
    [] k = "switch" -> IF v = "none" THEN "zero" ELSE v
    [] k = "id"     -> "set"
    [] OTHER        -> v

View(m) == [p \in DOMAIN m \ Lost |-> Meaning(Kind(p), m[p])]

\* The tries under way, likewise.
Seen(t) == [number |-> t.number, message |-> View(t.message)]
Views == {Seen(t) : t \in under_way}

\* But for the known losses, messages and objects say the same: the caller
\* reads what the service has, the service stores what the caller had.
Register == INSTANCE DocumentRegister WITH
  document <- View(store), answer <- View(answer), copy <- View(copy),
  writing <- View(request), under_way <- Views

KeepsRegister == Register!Spec

\* A write changes what the caller edited and nothing else: every other field
\* goes back as it was read, but for the known losses, a timestamp of zero,
\* which is left out, and one finer than a datetime, which is rounded.
WriteKeepsUnedited ==
  request # Nothing /\ origin # Nothing =>
    \A p \in DOMAIN origin \ (edited \cup Lost) :
      (Kind(p) = "time" /\ origin[p] \in {"zero", "fine"})
        \/ (p \in DOMAIN request /\ request[p] = origin[p])
=============================================================================
