----------------------------- MODULE CameraConfig -----------------------------
(***************************************************************************)
(* How the camera's ROS parameters become what libsc132 is started with:   *)
(* SensorNode::LoadCameraConfig, CameraPublisher::Impl::Start,             *)
(* src/cam_demo_config.cpp and src/cam_demo_common.cpp.  Two of the values *)
(* go through the process environment, which outlives a publisher.         *)
(***************************************************************************)
EXTENDS Integers, FiniteSets

CONSTANTS
    Modulus,      \* the number of values of int and of uint32_t
    Masks, Rates, Rotations, Timeouts, Skews, Capacities,  \* bounds: parameter values
    MaxStarts     \* bound: publishers built in one process

ASSUME ModulusAssumption == Modulus \in Nat /\ Modulus % 2 = 0
ASSUME MaxStartsAssumption == MaxStarts \in Nat \ {0}
\* The parameters are int64_t.
ASSUME ValuesAssumption ==
    Masks \cup Rates \cup Rotations \cup Timeouts \cup Skews \cup Capacities \subseteq Int

VARIABLES
    at,       \* where the construction and Start are
    param,    \* the ROS parameters, int64_t
    options,  \* Options, and the queue's capacity
    env,      \* SC132_TRIGGER_MODE and SC132_SENSOR_PROFILE
    claimed,  \* start_claimed_ of the process's core
    library,  \* what libsc132 was configured and started with
    starts    \* publishers built so far

vars == <<at, param, options, env, claimed, library, starts>>

Triggers == {"software_gpio", "none", "other"}
OrNegative(values) == values \cup {-1}
Values ==
    [camera_mask : OrNegative(Masks), fps : Rates, rotate_degrees : Rotations,
     timeout : OrNegative(Timeouts), skew : OrNegative(Skews), capacity : Capacities, trigger_mode : Triggers]
Default ==
    [camera_mask |-> 15, fps |-> 30, rotate_degrees |-> 0, timeout |-> 100, skew |-> 100,
     capacity |-> 4, trigger_mode |-> "software_gpio"]

NoProfile == ""
NotStarted == [camera_count |-> 0]

\* The shell may have chosen a profile.
Init ==
    /\ at = "idle" /\ param = Default /\ options = Default
    /\ \E profile \in {NoProfile, "user"} : env = [trigger |-> "unset", profile |-> profile]
    /\ claimed = FALSE /\ library = NotStarted /\ starts = 0

-----------------------------------------------------------------------------
(* Parameters.                                                             *)

\* declare_parameter<int> returns an int64_t, which the return statement narrows.
DeclareInt(v) == {((v + Modulus \div 2) % Modulus) - Modulus \div 2}

\* The set is empty where the code throws.
DeclareUint32(v) == {n \in {v} : n >= 0 /\ n <= Modulus - 1}
DeclareUint64(v) == {n \in {v} : n >= 0}
DeclareSize(v) == {n \in {v} : n > 0}

LoadCameraConfig(p) ==
    [camera_mask : DeclareUint32(p.camera_mask), fps : DeclareInt(p.fps),
     rotate_degrees : DeclareInt(p.rotate_degrees), timeout : DeclareUint32(p.timeout),
     skew : DeclareUint64(p.skew), capacity : DeclareSize(p.capacity),
     trigger_mode : {p.trigger_mode}]

ValidateCameraOptions(o) ==
    /\ o.camera_mask \in {1, 2, 4, 8, 15}
    /\ o.fps \in {25, 30, 40, 50, 60}
    /\ o.rotate_degrees \in {0, 90, 180, 270}
    /\ o.rotate_degrees = 180 => o.fps = 30
    /\ o.timeout # 0 /\ o.skew # 0
    /\ o.trigger_mode \in {"software_gpio", "none"}

-----------------------------------------------------------------------------
(* The camera mask, bit by bit, and the output's axes.                     *)

MaxChannels == 4
CameraMaskContains(mask, id) == (mask \div 2^id) % 2 = 1
CameraMaskPopCount(mask) ==
    Cardinality({id \in 0..(MaxChannels - 1) : CameraMaskContains(mask, id)})

SensorInputWidth == 1088
SensorInputHeight == 1280

\* The sensor is mounted upright: 90 degrees are added inside.
InternalRotateDegrees(o) == (o.rotate_degrees + 90) % 360

\* Mutant: the axes follow the user's rotation.
SwapsAxesUser(o) == o.rotate_degrees \in {90, 270}
SwapsAxes(o) == InternalRotateDegrees(o) \in {90, 270}

Sc132OutputWidth(o) == IF SwapsAxes(o) THEN SensorInputHeight ELSE SensorInputWidth
Sc132OutputHeight(o) == IF SwapsAxes(o) THEN SensorInputWidth ELSE SensorInputHeight

\* CameraLifecycleCore::ValidateConfig.
ValidateConfig(o) ==
    /\ o.camera_mask \in 1..(2^MaxChannels - 1)
    /\ o.capacity > 0 /\ o.timeout > 0 /\ o.skew > 0
    /\ Sc132OutputWidth(o) > 0 /\ Sc132OutputHeight(o) > 0

\* 30 fps has a profile of its own, the other rates derive from that of 60 fps.
SensorProfile(o) == IF o.fps = 30 THEN "30fps" ELSE "60fps"

-----------------------------------------------------------------------------
Step(from, to) == at = from /\ at' = to

\* An exception, or a core that refuses: the publisher is gone.
Throw(from) ==
    /\ Step(from, "idle") /\ param' = Default /\ options' = Default
    /\ UNCHANGED <<env, library, starts>>

SetParameters ==
    /\ Step("idle", "load")
    /\ starts < MaxStarts /\ starts' = starts + 1
    /\ param' \in Values
    /\ UNCHANGED <<options, env, claimed, library>>

Load ==
    /\ Step("load", "validate")
    /\ options' \in LoadCameraConfig(param)
    /\ UNCHANGED <<param, env, claimed, library, starts>>
LoadThrows == LoadCameraConfig(param) = {} /\ Throw("load") /\ UNCHANGED claimed

Validate ==
    /\ Step("validate", "trigger") /\ ValidateCameraOptions(options)
    /\ UNCHANGED <<param, options, env, claimed, library, starts>>
ValidateThrows == ~ValidateCameraOptions(options) /\ Throw("validate") /\ UNCHANGED claimed

\* The parameter overrides the environment.
ConfigureSc132TriggerMode ==
    /\ Step("trigger", "profile")
    /\ env' = [env EXCEPT !.trigger = options.trigger_mode]
    /\ UNCHANGED <<param, options, claimed, library, starts>>

\* A profile that is set stays; four cameras need none.
ConfigureSc132SensorProfile ==
    /\ Step("profile", "core")
    /\ env' = IF env.profile # NoProfile \/ CameraMaskPopCount(options.camera_mask) # 1
              THEN env ELSE [env EXCEPT !.profile = SensorProfile(options)]
    /\ UNCHANGED <<param, options, claimed, library, starts>>

SetenvThrows ==
    \E step \in {"trigger", "profile"} :
        Throw(step) /\ UNCHANGED claimed

StartAccepted == ~claimed

\* The frame-set configuration; the library reads the environment when it starts.
\* ValidateConfig has a failing branch, which LibraryFitsOptions shows to be dead.
CoreStart ==
    /\ Step("core", "started")
    /\ StartAccepted /\ ValidateConfig(options)
    /\ claimed' = TRUE
    /\ library' = [fps |-> options.fps, rotation |-> InternalRotateDegrees(options),
                   camera_mask |-> options.camera_mask,
                   camera_count |-> CameraMaskPopCount(options.camera_mask),
                   width |-> Sc132OutputWidth(options), height |-> Sc132OutputHeight(options),
                   trigger |-> env.trigger, profile |-> env.profile]
    /\ UNCHANGED <<param, options, env, starts>>

CoreRejectsRestart == ~StartAccepted /\ Throw("core") /\ UNCHANGED claimed

Stop == Throw("started") /\ UNCHANGED claimed

Next ==
    \/ SetParameters \/ Load \/ LoadThrows \/ Validate \/ ValidateThrows
    \/ ConfigureSc132TriggerMode \/ ConfigureSc132SensorProfile \/ SetenvThrows
    \/ CoreStart \/ CoreRejectsRestart \/ Stop

Spec == Init /\ [][Next]_vars

-----------------------------------------------------------------------------
(* Properties.                                                             *)

Started == at = "started"

\* The camera starts with what was asked for.  The rotation is the user's turned by
\* the mounting, and the canvas has its axes: the native 1280x1088 at 90 and 270
\* degrees, the sensor's 1088x1280 at 0 and 180; a wrong pair fails the start.  One
\* camera runs with the profile of its own frame rate, four with none, unless the shell
\* chose (a second publisher, which the demo never builds, included).  No larger
\* integer passes for one of the masks (README.md:93).  And the core never refuses
\* what was validated, which would use up the one start that a process has.
LibraryFitsOptions ==
    /\ Started =>
        /\ (library.width > library.height) = (library.rotation \in {90, 270})
        /\ (library.rotation - options.rotate_degrees) % 360 = 90
        /\ library.profile # "user" =>
              library.profile = IF library.camera_count # 1 THEN NoProfile
                                ELSE IF library.fps = 30 THEN "30fps" ELSE "60fps"
        /\ param.camera_mask \in {1, 2, 4, 8, 15}
    /\ at = "core" => ValidateConfig(options)

\* "相机支持 25/30/40/50/60fps" (README.md:93), and cam_demo_config.cpp:39: "camera.fps
\* must be 25, 30, 40, 50, or 60": the camera starts only if the parameter is one of these.
RateAsConfigured == Started => param.fps \in {25, 30, 40, 50, 60}
=============================================================================
