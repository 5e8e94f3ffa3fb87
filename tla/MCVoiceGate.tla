---------------------------- MODULE MCVoiceGate ----------------------------
(* Instance of VoiceGate for TLC: two sessions of different kinds, two      *)
(* holds, two domains. No symmetry: the run checks liveness too.            *)
EXTENDS VoiceGate
=============================================================================
