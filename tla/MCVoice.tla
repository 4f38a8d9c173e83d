--------------------------------- MODULE MCVoice ---------------------------------
(***************************************************************************)
(* The text functions over every input up to a length: one of the answer's *)
(* text, the model's output and the user's words grows, the others stay    *)
(* empty.                                                                  *)
(***************************************************************************)
EXTENDS ReplyText, FollowupMarker, Intent

CONSTANTS d1

VoiceInit == TextInit /\ OutputInit /\ IntentInit

VoiceNext ==
  \/ Grow /\ output = << >> /\ heard = << >> /\ UNCHANGED <<outputVars, heard>>
  \/ Emit /\ text = << >> /\ heard = << >> /\ UNCHANGED <<text, heard>>
  \/ Hear /\ text = << >> /\ output = << >> /\ UNCHANGED <<text, outputVars>>

VoiceSpec == VoiceInit /\ [][VoiceNext]_<<text, outputVars, heard>>

=============================================================================
