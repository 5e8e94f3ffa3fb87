----------------------------- MODULE MCDictation ----------------------------
EXTENDS DictationSession
=============================================================================
