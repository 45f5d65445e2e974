----------------------------- MODULE MCSessions -----------------------------
(* A small instance of Sessions: a plugin with every callback, one that lacks  *)
(* a callback to play with, and one that lacks a metadata pass as well.        *)
EXTENDS Sessions

CONSTANTS p1, p2, p3

MCPluginOrder == <<p1, p2, p3>>
=============================================================================
