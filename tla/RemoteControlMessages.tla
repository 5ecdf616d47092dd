------------------------ MODULE RemoteControlMessages ------------------------
(* The messages of remote control: the dataclasses of                       *)
(* models/remote_control.py and models/remote_control_input.py, the         *)
(* requests the methods of remote_control/client.py and the session build   *)
(* from them, and the response of all of them.                              *)
EXTENDS LiveDataMessages

\* Attributes for which no request has a field.
Context == {"asset_id", "mission_id", "task_id"}

Positioned(class, context) ==
  As(class, "plain", {"sn", "latitude", "longitude", "altitude"})
  @@ As(class, "optional", context)

TakeoffRequest == Positioned("TakeoffRequest", Context)
GoToRequest == Positioned("GoToRequest", Context)
LookAtRequest == Positioned("LookAtRequest", {"asset_id"})
ReturnToHomeRequest ==
  As("ReturnToHomeRequest", "plain", {"sn"})
  @@ As("ReturnToHomeRequest", "optional", Context \cup {"altitude"})
ManualControlRequest ==
  As("ManualControlRequest", "plain", {"sn", "client_id", "user_id", "session_id"})
  @@ As("ManualControlRequest", "optional", {"asset_id", "reason"})
DockOperationRequest ==
  As("DockOperationRequest", "plain", {"sn"})
  @@ As("DockOperationRequest", "optional", {"asset_id", "value"})
ManualControlInput ==
  As("ManualControlInput", "optional",
     {"roll", "pitch", "yaw", "throttle", "gimbal_pitch"})

takeoff == Except(TakeoffRequest, "TakeoffRequest", Context)
go_to == Except(GoToRequest, "GoToRequest", Context)
look_at == Except(LookAtRequest, "LookAtRequest", Context)
return_to_home == Except(ReturnToHomeRequest, "ReturnToHomeRequest", Context)
manual_control_call == Except(ManualControlRequest, "ManualControlRequest", Context)
request_iterator == ManualControlInput

\* The operations without a parameter: open_cover, start_charging,
\* stop_charging, reboot_asset, change_ac_mode.
dock_operation == As("DockOperationRequest", "plain", {"sn"})
close_cover == dock_operation @@ As("DockOperationRequest", "optional", {"value"})
boot_sub_asset == dock_operation @@ As("DockOperationRequest", "switch", {"value"})
debug_mode == dock_operation @@ As("DockOperationRequest", "switch", {"value"})

RemoteControlResponse ==
  As("RemoteControlResponse", "plain", {"success", "tid"})
  @@ As("RemoteControlResponse", "optional", {"asset_id", "message"})

\* The serial number shown is the request's, and there is no time.
proto_to_response == RemoteControlResponse @@ ErrorInfo @@ ProgressInfo
=============================================================================
