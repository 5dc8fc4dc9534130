------------------------------- MODULE MCStartup -------------------------------
(* Model checking Startup: one server in the configuration or none, any    *)
(* blob of any version to begin with, and any number of starts.            *)
EXTENDS Startup
================================================================================
