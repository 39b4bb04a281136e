------------------------- MODULE MCCameraLifecycle -------------------------
(* Instances of CameraLifecycle for TLC.                                   *)
EXTENDS CameraLifecycle, TLC

CONSTANTS front, rear

\* Cameras are interchangeable: no property orders them.
CameraSymmetry == Permutations({front, rear})
=============================================================================
