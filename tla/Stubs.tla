-------------------------------- MODULE Stubs --------------------------------
(* The RPCs: what the methods of the sub-clients call and build, what the   *)
(* stubs of generated/ offer, and what a server that registers their        *)
(* servicers reads. All three are functions from RPCs to request messages.  *)
EXTENDS Sequences, Tables

\* RPCs whose request is named after them.
Named(prefix, rpcs) == [r \in rpcs |-> prefix \o r \o "Request"]

\* RPCs that take a request of the name given.
Taking(request, rpcs) == [r \in rpcs |-> request]

-----------------------------------------------------------------------------
(* Remote control.                                                          *)

\* The methods, by the RPC each calls; the session calls ManualControlInput and
\* no method does (ManualControlSession).
RemoteControlClient ==
  Named("RemoteControl",
    {"TakeOff", "GoTo", "ReturnToHome", "LookAt", "OpenCover", "CloseCover",
     "StartCharging", "StopCharging", "RebootAsset", "BootSubAsset", "ChangeAcMode"})
  @@ Taking("RemoteControlManualControlRequest", {"EnterManualControl", "ExitManualControl"})
  @@ Taking("RemoteControlDebugModeRequest", {"EnterOrCloseRemoteDebugMode"})

RemoteControlServiceStub ==
  Named("RemoteControl",
    {"TakeOff", "GoTo", "ReturnToHome", "LookAt", "TakePhoto", "OpenCover",
     "CloseCover", "StartCharging", "StopCharging", "RebootAsset",
     "BootSubAsset", "ChangeAcMode"})
  @@ Taking("RemoteControlManualControlRequest", {"EnterManualControl", "ExitManualControl"})
  @@ Taking("RemoteControlManualControlInputRequest", {"ManualControlInput"})
  @@ Taking("RemoteControlDebugModeRequest", {"EnterOrCloseRemoteDebugMode"})

add_RemoteControlServiceServicer_to_server ==
  Named("RemoteControl",
    {"TakeOff", "GoTo", "ReturnToHome", "LookAt", "TakePhoto", "OpenCover",
     "CloseCover", "StartCharging", "StopCharging", "RebootAsset",
     "BootSubAsset", "ChangeAcMode"})
  @@ Taking("RemoteControlManualControlRequest", {"EnterManualControl", "ExitManualControl"})
  @@ Taking("RemoteControlManualControlInputRequest", {"ManualControlInput"})
  @@ Taking("RemoteControlDebugModeRequest", {"EnterOrCloseRemoteDebugMode"})

-----------------------------------------------------------------------------
(* Mission autonomy. The stub lacks PauseTask and ResumeTask, and           *)
(* mission_autonomy_pb2 their requests.                                     *)

MissionAutonomyClient ==
  Named("",
    {"CreateMission", "UpdateMission", "GetMission", "DeleteMission",
     "CreateTask", "UpdateTask", "GetTask", "DeleteTask", "StartTask",
     "StopTask", "PauseTask", "ResumeTask", "CreateScheduler",
     "UpdateScheduler", "GetScheduler", "DeleteScheduler"})
  @@ Taking("GetTaskRequest", {"GetTaskByFlightId", "GetAllSchedulers"})

MissionAutonomyServiceStub ==
  Named("",
    {"GetMission", "CreateMission", "UpdateMission", "DeleteMission",
     "GetTask", "CreateTask", "UpdateTask", "DeleteTask", "GetScheduler",
     "CreateScheduler", "UpdateScheduler", "DeleteScheduler",
     "CreateSchedulers", "DeleteSchedulers", "DeleteSchedulersByTask",
     "StartTask", "StopTask"})
  @@ Taking("GetTaskRequest", {"GetTaskByFlightId", "GetAllSchedulers"})

add_MissionAutonomyServiceServicer_to_server ==
  Named("",
    {"GetMission", "CreateMission", "UpdateMission", "DeleteMission",
     "GetTask", "CreateTask", "UpdateTask", "DeleteTask", "GetScheduler",
     "CreateScheduler", "UpdateScheduler", "DeleteScheduler",
     "CreateSchedulers", "DeleteSchedulers", "DeleteSchedulersByTask",
     "StartTask", "StopTask"})
  @@ Taking("GetTaskRequest", {"GetTaskByFlightId", "GetAllSchedulers"})

-----------------------------------------------------------------------------
(* Live data.                                                               *)

LiveDataClient ==
  Named("LiveData",
    {"StartLiveStream", "StopLiveStream", "ChangeLens", "ChangeZoom",
     "StreamTelemetry", "StreamNotifications"})

LiveDataServiceStub ==
  Named("LiveData",
    {"StreamTelemetry", "StreamNotifications", "StartLiveStream",
     "StopLiveStream", "ChangeLens", "ChangeZoom", "StartRecording",
     "StopRecording", "CapturePhoto"})
  @@ Named("", {"ProduceTelemetry"})

add_LiveDataServiceServicer_to_server ==
  Named("LiveData",
    {"StreamTelemetry", "StreamNotifications", "StartLiveStream",
     "StopLiveStream", "ChangeLens", "ChangeZoom", "StartRecording",
     "StopRecording", "CapturePhoto"})
  @@ Named("", {"ProduceTelemetry"})

-----------------------------------------------------------------------------

\* By service.
Builds ==
  [remote_control |-> RemoteControlClient, mission_autonomy |-> MissionAutonomyClient,
   live_data |-> LiveDataClient]
Stub ==
  [remote_control |-> RemoteControlServiceStub,
   mission_autonomy |-> MissionAutonomyServiceStub, live_data |-> LiveDataServiceStub]
Handlers ==
  [remote_control |-> add_RemoteControlServiceServicer_to_server,
   mission_autonomy |-> add_MissionAutonomyServiceServicer_to_server,
   live_data |-> add_LiveDataServiceServicer_to_server]

\* The RPCs that stream frames back.
Streams == {"StreamTelemetry", "StreamNotifications"}
=============================================================================
