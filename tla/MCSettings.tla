----------------------------- MODULE MCSettings -----------------------------
(* A small instance of Settings: one setting in one extension, two values of  *)
(* its kind, and what an earlier release may have left in the store: an       *)
(* unknown id, a value of another kind, a string with an interior NUL.        *)
EXTENDS Settings, TLC

MCIds    == {"filter", "gone"}
MCExts   == {"mod"}
MCValues == {"on", "off", "nul", "seven"}
MCKind   == [v \in MCValues |-> IF v = "seven" THEN "int" ELSE "string"]

\* One integer setting with no extension, for the runs about flushing.
IntKind   == [v \in {1, 2} |-> "int"]
IntSchema == {"filter" :> 1}

MCSchemas == {"filter" :> "on", "filter" :> "nul"}
\* The next release of a plugin may change a setting's kind.
MCSchemasUpgraded == MCSchemas \cup {"filter" :> "seven"}

MCEmpty  == {<<>>}
MCStores ==
  {(<<"", "filter">> :> "nul") @@ (<<"mod", "filter">> :> "off")
     @@ (<<"", "gone">> :> "on")}

Symmetry == Permutations(Callers)
=============================================================================
