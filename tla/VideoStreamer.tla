--------------------------- MODULE VideoStreamer ---------------------------
(***************************************************************************)
(* The GStreamer half of class VideoStreamer: five pipeline pointers and   *)
(* the four calls that build, start, pause and drop them.  Every call      *)
(* walks the pipelines in the same fixed order and may fail, or be left by *)
(* an exception of a signal handler, half way; so a call is not one step   *)
(* but one step per pipeline, and `cursor` is the pipeline it is at.       *)
(*                                                                         *)
(* The module has no specification of its own: who makes which call, and   *)
(* what happens to the results, is the business of MainLoop.               *)
(***************************************************************************)
EXTENDS Integers

CONSTANTS
    stereo_flag,        \* stream both eyes, or the left one only
    main_camera_valid   \* camera_ptr->isValid(): the main camera was found

ASSUME StreamerAssumption ==
    /\ stereo_flag \in BOOLEAN
    /\ main_camera_valid \in BOOLEAN

VARIABLES
    pipeline,           \* the five pointers, with the GstState of the element
    cursor              \* the pipeline the running call is at

streamer_vars == <<pipeline, cursor>>

\* The pipelines, numbered in the order in which every call visits them.
stereo_left  == 1
stereo_right == 2
main_camera  == 3
audio_in     == 4
audio_out    == 5
Pipelines    == stereo_left .. audio_out

PipelineStates == {"nullptr", "NULL", "PAUSED", "PLAYING"}

StreamerTypeOK ==
    /\ pipeline \in [Pipelines -> PipelineStates]
    /\ cursor \in Pipelines

StreamerInit ==
    /\ pipeline = [p \in Pipelines |-> "nullptr"]
    /\ cursor = stereo_left

-----------------------------------------------------------------------------

\* The pipelines this configuration builds.
Wanted ==
    {p \in Pipelines : /\ p = stereo_right => stereo_flag
                       /\ p = main_camera => main_camera_valid}

\* The call is at its last pipeline: it returns 0 with this step.
AtLast == cursor = audio_out

\* Mutant of Advance: the walk runs past the last pipeline.
AdvancePastEnd == cursor' = cursor + 1

Advance == cursor' = IF AtLast THEN stereo_left ELSE cursor + 1

\* The call is left early: `return -1`, or an exception.
Abandon == cursor' = stereo_left

\* initGStreamer: the pipeline at the cursor is not configured.
SkipPipeline ==
    /\ cursor \notin Wanted
    /\ Advance
    /\ UNCHANGED pipeline

\* initGStreamer: gst_parse_launch() made the pipeline.
ConstructPipeline ==
    /\ cursor \in Wanted
    /\ pipeline[cursor] = "nullptr"
    /\ pipeline' = [pipeline EXCEPT ![cursor] = "NULL"]
    /\ Advance

\* initGStreamer returns -1: the pointer was not null on entry, or
\* gst_parse_launch() failed and the pointer is null (again).  What was built
\* before the failing pipeline stays.
ConstructFails ==
    /\ cursor \in Wanted
    /\ Abandon
    /\ UNCHANGED pipeline

\* playStream and stopStream: one existing pipeline is set to the target state.
SetState(target) ==
    /\ pipeline' = IF pipeline[cursor] = "nullptr"
                     THEN pipeline
                     ELSE [pipeline EXCEPT ![cursor] = target]
    /\ Advance

\* playStream and stopStream return -1: the failing pipeline is dropped, the
\* ones after it keep their state.
SetStateFails ==
    /\ pipeline[cursor] # "nullptr"
    /\ pipeline' = [pipeline EXCEPT ![cursor] = "nullptr"]
    /\ Abandon

\* deinitGStreamer: one pipeline is set to GST_STATE_NULL and dropped.  Here and in
\* SetStateFails no signal comes between gst_object_unref() and the nullptr.
DropPipeline ==
    /\ pipeline' = [pipeline EXCEPT ![cursor] = "nullptr"]
    /\ Advance

-----------------------------------------------------------------------------

NonePlaying == \A p \in Pipelines : pipeline[p] # "PLAYING"

AllPlaying ==
    \A p \in Pipelines :
        pipeline[p] = IF p \in Wanted THEN "PLAYING" ELSE "nullptr"

NoPipelines == \A p \in Pipelines : pipeline[p] = "nullptr"
=============================================================================
