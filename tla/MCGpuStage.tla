----------------------------- MODULE MCGpuStage -----------------------------
(* Instances of GpuStage for TLC. *)
EXTENDS GpuStage, TLC

\* Two photos, the first with two patches.
TwoPhotos == (0 :> 1 @@ 1 :> 1 @@ 2 :> 2)
OnePhotoEach == (0 :> 1 @@ 1 :> 2)
=============================================================================
