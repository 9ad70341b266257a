---- MODULE MCEvCore ----
(* Two event threads, a signalfd and two descriptors. *)
EXTENDS EvCore
====
