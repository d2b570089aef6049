----------------------------- MODULE MC_ReadUntil -----------------------------
(* ReadUntil with the delimiter of the server, two line ends. *)
EXTENDS ReadUntil

Delimiter == <<"cr", "lf", "cr", "lf">>
=============================================================================
