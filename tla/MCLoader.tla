------------------------------ MODULE MCLoader ------------------------------
(* A small instance of Loader: a directory of two files and one beside it, in  *)
(* batches that reach a file twice, name a path that is not there, and load    *)
(* nothing; names pinned first, last, in both lists and not at all; libraries  *)
(* that fail each check, and one with the entry points of two kinds.           *)
EXTENDS Loader

MCKindOrder == <<"Playback", "Output", "Resample">>

Named(name) == [api_version |-> 2, name |-> name, version |-> 0, library_version |-> 0]
Exports(kind, header) == [opens |-> TRUE, entry |-> [k \in {kind} |-> header]]

MCLibraries ==
  {Exports("Playback", Named(n)) : n \in {NoText} \cup Names}
    \cup {Exports("Output", Named(1)), Exports("Resample", None),
          Exports("Playback", [Named(2) EXCEPT !.api_version = 1]),
          Exports("Playback", [Named(2) EXCEPT !.library_version = TooLong]),
          [opens |-> FALSE, entry |-> <<>>],
          [opens |-> TRUE, entry |-> <<>>],
          [opens |-> TRUE,
           entry |-> [k \in {"Output", "Resample"} |-> Named(IF k = "Output" THEN 3 ELSE 1)]]}

MCBatches == {<<3, Directory>>, <<Directory, 2, Missing, 3>>, <<>>}
MCOrders ==
  {[first |-> <<2>>, last |-> <<1>>], [first |-> <<1, 3>>, last |-> <<2, 1>>],
   [first |-> <<>>, last |-> <<>>]}
=============================================================================
