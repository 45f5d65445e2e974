---------------------------- MODULE MCPluginString ----------------------------
(* Every string of up to five bytes, read with limits it can exceed, meet and  *)
(* stay under.                                                                 *)
EXTENDS PluginStringRead
=============================================================================
