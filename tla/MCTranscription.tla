-------------------------- MODULE MCTranscription --------------------------
(* One dictation session, two chunks of audio, two retries.                 *)
EXTENDS Transcription
=============================================================================
