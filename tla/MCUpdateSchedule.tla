-------------------------- MODULE MCUpdateSchedule --------------------------
(* Instances of UpdateSchedule for TLC.                                    *)
EXTENDS UpdateSchedule

(* A socket that may be full, drain in part or altogether, or break.       *)
AnyNetwork == {"stuck", "some", "all", "broken"}

(* Encoders that may take the screen for a video.                          *)
MovingImages == {"exact", "beside", "lossy", "video"}

AnyRights == Perms
=============================================================================
