---------------------------- MODULE HostThreads -----------------------------
(* What the components that several threads run in at a time have in common. *)
CONSTANT Threads     (* OS threads of the host that evaluate Starlark        *)
=============================================================================
