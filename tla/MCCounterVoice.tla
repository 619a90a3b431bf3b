--------------------------- MODULE MCCounterVoice ---------------------------
(* The instance of CounterVoice that TLC checks.                            *)
EXTENDS CounterVoice

=============================================================================
