---------------------------- MODULE MCLifecycle -----------------------------
(* Lifecycle for TLC, with three of the providers of app/main.py.           *)
EXTENDS Lifecycle

SomeOrder == <<"postgres", "redis", "http_client">>

=============================================================================
