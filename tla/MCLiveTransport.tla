-------------------------- MODULE MCLiveTransport --------------------------
(* The instances of LiveTransport that TLC checks.                          *)
EXTENDS LiveTransport

============================================================================
