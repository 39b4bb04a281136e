------------------------- MODULE CameraConfigProofs -------------------------
(***************************************************************************)
(* Theorems about CameraConfig: whatever the parameters and the publishers *)
(* built before, the library starts with what was asked for.               *)
(***************************************************************************)
EXTENDS CameraConfig, TLAPS

Validated == at \in {"trigger", "profile", "core", "started"}

\* What Validate lets through is what the parameters say, where they are not narrowed.
OptionsOK ==
    /\ at = "load" => param \in Values
    /\ at = "validate" \/ Validated =>
        /\ options.camera_mask = param.camera_mask
        /\ options.camera_mask \in Int /\ options.capacity \in Int
        /\ options.timeout \in Nat /\ options.skew \in Nat /\ options.capacity > 0
    /\ Validated => ValidateCameraOptions(options)

\* The profile that the options call for.
ProfileOf(o) == IF CameraMaskPopCount(o.camera_mask) # 1 THEN NoProfile ELSE SensorProfile(o)

\* Only a publisher that goes on to claim the core's start leaves a profile behind.
ProfileOK ==
    /\ ~claimed /\ at # "core" => env.profile \in {NoProfile, "user"}
    /\ ~claimed /\ at = "core" => env.profile \in {ProfileOf(options), "user"}

\* What the library was started with comes from the options that it is started by.
LibraryOK ==
    at = "started" =>
        /\ library.fps = options.fps /\ library.rotation = InternalRotateDegrees(options)
        /\ library.camera_count = CameraMaskPopCount(options.camera_mask)
        /\ library.width = Sc132OutputWidth(options)
        /\ library.height = Sc132OutputHeight(options)
        /\ library.profile \in {ProfileOf(options), "user"}

Stages == {"idle", "load", "validate", "trigger", "profile", "core", "started"}
Environments ==
    [trigger : {"unset", "software_gpio", "none"}, profile : {NoProfile, "user", "30fps", "60fps"}]
EnvOK == at \in Stages /\ claimed \in BOOLEAN /\ env \in Environments

IInv == EnvOK /\ OptionsOK /\ ProfileOK /\ LibraryOK

LEMMA Initially == Init => IInv
<1> SUFFICES ASSUME Init PROVE IInv
  OBVIOUS
<1>1. PICK profile \in {NoProfile, "user"} : env = [trigger |-> "unset", profile |-> profile]
  BY DEF Init
<1>2. at = "idle" /\ claimed = FALSE
  BY DEF Init
<1> QED
  BY <1>1, <1>2 DEF IInv, EnvOK, Environments, Stages, OptionsOK, Validated, ProfileOK, LibraryOK

\* The values that LoadCameraConfig lets through.
LEMMA Loaded ==
  ASSUME NEW p \in Values, NEW o \in LoadCameraConfig(p)
  PROVE  /\ o.camera_mask = p.camera_mask
         /\ o.camera_mask \in Int /\ o.capacity \in Int
         /\ o.timeout \in Nat /\ o.skew \in Nat /\ o.capacity > 0
<1>1. /\ o.camera_mask \in DeclareUint32(p.camera_mask) /\ o.timeout \in DeclareUint32(p.timeout)
      /\ o.skew \in DeclareUint64(p.skew) /\ o.capacity \in DeclareSize(p.capacity)
  BY DEF LoadCameraConfig
<1>2. /\ p.camera_mask \in Int /\ p.timeout \in Int /\ p.skew \in Int /\ p.capacity \in Int
  BY ValuesAssumption DEF Values, OrNegative
<1> QED
  BY <1>1, <1>2 DEF DeclareUint32, DeclareUint64, DeclareSize

\* An exception or a refusal leaves the environment as it is.
LEMMA ThrowKeeps ==
  ASSUME IInv, NEW from \in Stages, Throw(from), claimed' = claimed, from = "core" => claimed
  PROVE  IInv'
<1>1. at = from /\ at' = "idle" /\ UNCHANGED <<env, claimed>>
  BY DEF Throw, Step
<1> QED
  BY <1>1 DEF IInv, EnvOK, Stages, OptionsOK, Validated, ProfileOK, LibraryOK

LEMMA LoadKeeps ==
  ASSUME IInv, SetParameters \/ Load \/ Validate
  PROVE  IInv'
<1>1. CASE SetParameters
  BY <1>1 DEF SetParameters, Step, IInv, EnvOK, Stages, OptionsOK, Validated, ProfileOK, LibraryOK
<1>2. CASE Load
  <2>1. /\ at = "load" /\ at' = "validate" /\ options' \in LoadCameraConfig(param)
        /\ UNCHANGED <<param, env, claimed>>
    BY <1>2 DEF Load, Step
  <2>2. param \in Values
    BY <2>1 DEF IInv, OptionsOK
  <2> QED
    BY <2>1, <2>2, Loaded DEF IInv, EnvOK, Stages, OptionsOK, Validated, ProfileOK, LibraryOK
<1>3. CASE Validate
  BY <1>3 DEF Validate, Step, IInv, EnvOK, Stages, OptionsOK, Validated, ProfileOK, LibraryOK
<1> QED
  BY <1>1, <1>2, <1>3

\* The environment: the profile is set for the options that are about to be started.
LEMMA EnvironmentKeeps ==
  ASSUME IInv, ConfigureSc132TriggerMode \/ ConfigureSc132SensorProfile
  PROVE  IInv'
<1>1. CASE ConfigureSc132TriggerMode
  <2>1. /\ at = "trigger" /\ at' = "profile" /\ UNCHANGED <<param, options, claimed>>
        /\ env' = [env EXCEPT !.trigger = options.trigger_mode]
    BY <1>1 DEF ConfigureSc132TriggerMode, Step
  <2>2. env' \in Environments /\ env'.profile = env.profile
    BY <2>1 DEF IInv, EnvOK, Environments, OptionsOK, Validated, ValidateCameraOptions
  <2> QED
    BY <2>1, <2>2 DEF IInv, EnvOK, Stages, OptionsOK, Validated, ProfileOK, LibraryOK
<1>2. CASE ConfigureSc132SensorProfile
  <2>1. /\ at = "profile" /\ at' = "core" /\ UNCHANGED <<param, options, claimed>>
        /\ env' = IF env.profile # NoProfile \/ CameraMaskPopCount(options.camera_mask) # 1
                  THEN env ELSE [env EXCEPT !.profile = SensorProfile(options)]
    BY <1>2 DEF ConfigureSc132SensorProfile, Step
  <2>2. env' \in Environments
    BY <2>1 DEF IInv, EnvOK, Environments, SensorProfile
  <2>3. ~claimed => env'.profile \in {ProfileOf(options), "user"}
    BY <2>1 DEF IInv, EnvOK, Environments, ProfileOK, ProfileOf
  <2> QED
    BY <2>1, <2>2, <2>3 DEF IInv, EnvOK, Stages, OptionsOK, Validated, ProfileOK, ProfileOf, LibraryOK
<1> QED
  BY <1>1, <1>2

LEMMA CoreStartKeeps ==
  ASSUME IInv, CoreStart
  PROVE  IInv'
<1>1. /\ at = "core" /\ at' = "started" /\ ~claimed /\ claimed' = TRUE
      /\ UNCHANGED <<param, options, env>>
      /\ library' = [fps |-> options.fps, rotation |-> InternalRotateDegrees(options),
                     camera_mask |-> options.camera_mask,
                     camera_count |-> CameraMaskPopCount(options.camera_mask),
                     width |-> Sc132OutputWidth(options), height |-> Sc132OutputHeight(options),
                     trigger |-> env.trigger, profile |-> env.profile]
  BY DEF CoreStart, StartAccepted, Step
<1>2. env.profile \in {ProfileOf(options), "user"}
  BY <1>1 DEF IInv, ProfileOK
<1>3. LibraryOK'
  <2>1. /\ library'.fps = options.fps /\ library'.rotation = InternalRotateDegrees(options)
        /\ library'.camera_count = CameraMaskPopCount(options.camera_mask)
        /\ library'.width = Sc132OutputWidth(options)
        /\ library'.height = Sc132OutputHeight(options)
        /\ library'.profile = env.profile
    BY <1>1
  <2>2. options' = options
    BY <1>1
  <2> QED
    BY <1>2, <2>1, <2>2 DEF LibraryOK, ProfileOf, SensorProfile, InternalRotateDegrees,
       Sc132OutputWidth, Sc132OutputHeight, SwapsAxes
<1> QED
  BY <1>1, <1>3 DEF IInv, EnvOK, Stages, OptionsOK, Validated, ProfileOK

LEMMA NextKeeps == IInv /\ [Next]_vars => IInv'
<1> SUFFICES ASSUME IInv, [Next]_vars PROVE IInv'
  OBVIOUS
<1>1. CASE LoadThrows \/ ValidateThrows \/ SetenvThrows \/ CoreRejectsRestart \/ Stop
  BY <1>1, ThrowKeeps DEF LoadThrows, ValidateThrows, SetenvThrows, CoreRejectsRestart,
     StartAccepted, Stop, Stages
<1>2. CASE UNCHANGED vars
  BY <1>2 DEF vars, IInv, EnvOK, OptionsOK, Validated, ProfileOK, ProfileOf, LibraryOK
<1> QED
  BY <1>1, <1>2, LoadKeeps, EnvironmentKeeps, CoreStartKeeps DEF Next

\* The strengthened invariant, for every width of int and every value of the parameters.
THEOREM Invariance == Spec => []IInv
BY Initially, NextKeeps, PTL DEF Spec

\* The rotation that the sensor's mounting adds.
LEMMA Mounted ==
  ASSUME NEW o, o.rotate_degrees \in {0, 90, 180, 270}
  PROVE  /\ (InternalRotateDegrees(o) - o.rotate_degrees) % 360 = 90
         /\ (Sc132OutputWidth(o) > Sc132OutputHeight(o)) = (InternalRotateDegrees(o) \in {90, 270})
         /\ Sc132OutputWidth(o) > 0 /\ Sc132OutputHeight(o) > 0
<1>1. InternalRotateDegrees(o) = (o.rotate_degrees + 90) % 360
  BY DEF InternalRotateDegrees
<1>2. (InternalRotateDegrees(o) - o.rotate_degrees) % 360 = 90
  BY <1>1
<1>3. CASE InternalRotateDegrees(o) \in {90, 270}
  BY <1>2, <1>3 DEF Sc132OutputWidth, Sc132OutputHeight, SwapsAxes, SensorInputWidth, SensorInputHeight
<1>4. CASE InternalRotateDegrees(o) \notin {90, 270}
  BY <1>2, <1>4 DEF Sc132OutputWidth, Sc132OutputHeight, SwapsAxes, SensorInputWidth, SensorInputHeight
<1> QED
  BY <1>2, <1>3, <1>4

\* From the parameters to the library (LoadCameraConfig, ValidateCameraOptions,
\* ConfigureSc132SensorProfile, ValidateConfig).
THEOREM LibraryFits == Spec => []LibraryFitsOptions
<1>1. IInv => LibraryFitsOptions
  <2> SUFFICES ASSUME IInv PROVE LibraryFitsOptions
    OBVIOUS
  <2>1. ASSUME Validated
        PROVE  /\ ValidateCameraOptions(options) /\ options.camera_mask = param.camera_mask
               /\ options.camera_mask \in {1, 2, 4, 8, 15}
               /\ options.rotate_degrees \in {0, 90, 180, 270}
               /\ options.timeout > 0 /\ options.skew > 0 /\ options.capacity > 0
    BY <2>1 DEF IInv, OptionsOK, ValidateCameraOptions
  <2>2. ASSUME at = "core" PROVE ValidateConfig(options)
    <3>1. 2^MaxChannels - 1 = 15
      BY DEF MaxChannels
    <3> QED
      BY <2>1, <2>2, <3>1, Mounted DEF Validated, ValidateConfig
  <2>3. ASSUME at = "started"
        PROVE  /\ (library.width > library.height) = (library.rotation \in {90, 270})
               /\ (library.rotation - options.rotate_degrees) % 360 = 90
               /\ library.profile # "user" =>
                     library.profile = IF library.camera_count # 1 THEN NoProfile
                                       ELSE IF library.fps = 30 THEN "30fps" ELSE "60fps"
               /\ param.camera_mask \in {1, 2, 4, 8, 15}
    <3>1. /\ library.fps = options.fps /\ library.rotation = InternalRotateDegrees(options)
          /\ library.camera_count = CameraMaskPopCount(options.camera_mask)
          /\ library.width = Sc132OutputWidth(options)
          /\ library.height = Sc132OutputHeight(options)
          /\ library.profile \in {ProfileOf(options), "user"}
      BY <2>3 DEF IInv, LibraryOK
    <3>2. library.profile # "user" =>
             library.profile = IF library.camera_count # 1 THEN NoProfile
                               ELSE IF library.fps = 30 THEN "30fps" ELSE "60fps"
      BY <3>1 DEF ProfileOf, SensorProfile
    <3> QED
      BY <2>1, <2>3, <3>1, <3>2, Mounted DEF Validated
  <2> QED
    BY <2>2, <2>3 DEF LibraryFitsOptions, Started
<1> QED
  BY <1>1, Invariance, PTL
=============================================================================
