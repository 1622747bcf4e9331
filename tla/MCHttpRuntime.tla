--------------------------- MODULE MCHttpRuntime ---------------------------
(* Two servers, as when the OTLP receiver is configured.                   *)
EXTENDS HttpRuntime

CONSTANTS api, otlp

MCServers == <<api, otlp>>

=============================================================================
