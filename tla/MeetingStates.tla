--------------------------- MODULE MeetingStates ---------------------------
(***************************************************************************)
(* The states of a meeting, the stages of its processing and the legal     *)
(* transitions between the states (app/pipeline/states.py).                *)
(***************************************************************************)
EXTENDS Naturals

\* Members of the enumerations are strings of the same names.
MeetingState ==
    {"ARMED", "RECORDING", "RECORDED", "TRANSCRIBING", "TRANSCRIBED",
     "SUMMARIZING", "SUMMARIZED", "RENDERED", "DELIVERED", "FAILED",
     "INTERRUPTED", "DISCARDED"}

JobStage == {"transcribe", "assemble", "summarize", "render", "deliver"}

JobState == {"pending", "running", "done", "failed", "cancelled"}

\* The happy path, in order.
PIPELINE == <<"RECORDING", "RECORDED", "TRANSCRIBING", "TRANSCRIBED",
              "SUMMARIZING", "SUMMARIZED", "RENDERED", "DELIVERED">>

STAGE_ORDER == <<"transcribe", "assemble", "summarize", "render", "deliver">>

STAGE_RUNNING_STATE ==
    [transcribe |-> "TRANSCRIBING", assemble |-> "TRANSCRIBING",
     summarize |-> "SUMMARIZING", render |-> "SUMMARIZED",
     deliver |-> "RENDERED"]

STAGE_DONE_STATE ==
    [transcribe |-> "TRANSCRIBING", assemble |-> "TRANSCRIBED",
     summarize |-> "SUMMARIZED", render |-> "RENDERED",
     deliver |-> "DELIVERED"]

\* States a meeting can still be worked on from.
ACTIVE == {PIPELINE[i] : i \in 1 .. 7}

\* States from which a retry may re-enter the pipeline.
RETRYABLE_ENTRY == {"RECORDED", "TRANSCRIBING", "TRANSCRIBED",
                    "SUMMARIZING", "SUMMARIZED", "RENDERED"}

LEGAL_TRANSITIONS ==
    {<<PIPELINE[i], PIPELINE[i + 1]>> : i \in 1 .. 7}
        \union {<<"TRANSCRIBING", "TRANSCRIBING">>}
        \union ((ACTIVE \union {"ARMED"}) \X {"FAILED", "INTERRUPTED", "DISCARDED"})
        \union ({"FAILED", "INTERRUPTED"} \X RETRYABLE_ENTRY)
        \union {<<"RENDERED", "SUMMARIZING">>, <<"DELIVERED", "SUMMARIZING">>,
                <<"RENDERED", "SUMMARIZED">>, <<"DELIVERED", "RENDERED">>,
                <<"TRANSCRIBED", "TRANSCRIBING">>, <<"SUMMARIZED", "SUMMARIZING">>,
                <<"ARMED", "RECORDING">>, <<"RECORDED", "RECORDING">>,
                <<"INTERRUPTED", "RECORDED">>, <<"DISCARDED", "RECORDED">>}
        \union ({"TRANSCRIBING"} \X {"SUMMARIZED", "RENDERED", "DELIVERED"})
        \union ((RETRYABLE_ENTRY \union {"DELIVERED", "FAILED"})
                    \X {"TRANSCRIBING", "RECORDED"})

\* Mutant: the transitions a stopped re-transcription needs are missing.
NoWayBack(old, new) ==
    /\ <<old, new>> \in LEGAL_TRANSITIONS
    /\ ~(old = "TRANSCRIBING" /\ new \in {"SUMMARIZED", "RENDERED", "DELIVERED"})

is_legal(old, new) == <<old, new>> \in LEGAL_TRANSITIONS

\* The position of a stage in STAGE_ORDER.
Index(s) == CHOOSE i \in 1 .. 5 : STAGE_ORDER[i] = s

next_stage(s) == STAGE_ORDER[Index(s) + 1]

\* STAGE_ORDER[STAGE_ORDER.index(s):], as a set.
StagesFrom(s) == {t \in JobStage : Index(s) <= Index(t)}
=============================================================================
