------------------------ MODULE MCUpdateScheduleLive ------------------------
(* Instances of UpdateScheduleLive for TLC.                                *)
EXTENDS UpdateScheduleLive

(* A socket that may be full, drain in part or altogether, or break.       *)
AnyNetwork == {"stuck", "some", "all", "broken"}

(* Encoders that never take the screen for a video.                        *)
StillImages == {"exact", "beside", "lossy"}
=============================================================================
