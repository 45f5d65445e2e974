------------------------------- MODULE Loader -------------------------------
(***************************************************************************)
(* loader.rs: one batch of load_plugins_ordered, and one select_playback   *)
(* over the plugins it loaded.                                             *)
(*                                                                         *)
(* A library is known by whether it opens and what its entry points return *)
(* when load_one calls one: a null pointer or a descriptor's header.       *)
(* Files are numbers in the order of their paths, names in the order of    *)
(* their strings.  The extension canon is part of what InDirectory holds.  *)
(***************************************************************************)
EXTENDS Integers, Sequences, FiniteSets, SequencesExt, FiniteSetsExt

CONSTANTS
  Files,        \* candidate files
  Directory,    \* a path that is a directory
  Missing,      \* a path that cannot be inspected
  InDirectory,  \* files in it with a plugin extension
  Batches,      \* the sequences of paths a host may load
  KindOrder,    \* PluginKind::ALL, in the order of its entry points
  Names,        \* plugin names
  Versions,     \* api_versions, with the one that is ours
  ApiVersion,
  Libraries,    \* what a file may be
  Orders,       \* the ProbeOrders a host may ask for
  None          \* no plugin, no descriptor

Kinds == {KindOrder[i] : i \in DOMAIN KindOrder}

(* A descriptor's strings: a name, nothing in it, or over its limit. *)
NoText  == 0
TooLong == 0 - 1
Text    == Names \cup {NoText, TooLong}

Header  == [api_version : Versions, name : Text, version : {NoText, TooLong},
            library_version : {NoText, TooLong}]
Library == [opens : BOOLEAN,
            entry : UNION {[exported -> Header \cup {None}] : exported \in SUBSET Kinds}]

LoadErrors == {"Open", "NoEntryPoint", "NullDescriptor", "ApiVersion",
               "DescriptorStringLimit", "MissingName"}

ASSUME LoaderAssumption ==
  /\ Files \subseteq Nat /\ InDirectory \subseteq Files /\ IsFiniteSet(InDirectory)
  /\ Names \subseteq Nat \ {NoText}
  /\ KindOrder \in Seq(Kinds) /\ IsInjective(KindOrder)
  /\ ApiVersion \in Versions /\ None \notin Header
  /\ Directory \notin Files /\ Missing \notin Files /\ Directory # Missing
  /\ Batches \subseteq Seq(Files \cup {Directory, Missing})
  /\ Orders \subseteq [first : Seq(Names), last : Seq(Names)]
  /\ "Playback" \in Kinds
  /\ None \notin Files
  /\ Libraries \subseteq Library

VARIABLES
  disk,      \* what each file holds
  order,     \* the ProbeOrder asked for
  paths,     \* paths still to load
  files,     \* candidates of the path being loaded
  seen,      \* <<kind, name>> of the plugins loaded so far
  plugins,   \* report.plugins, by file
  errors,    \* report.errors, by path
  tried,     \* files given to load_one, in order (history)
  selection  \* the running selection, or how far the batch is

batch == <<disk, order>>
vars  == <<batch, paths, files, seen, plugins, errors, tried, selection>>

-----------------------------------------------------------------------------
(* The elements of a finite set, as a sort by this order leaves them. *)
InOrder(S, before) ==
  CHOOSE s \in [1..Cardinality(S) -> S] :
    \A i, j \in 1..Cardinality(S) : i < j => <<s[i], s[j]>> \in before

(* The smallest first. *)
Ascending(S) == InOrder(S, {pair \in S \X S : pair[1] < pair[2]})

-----------------------------------------------------------------------------
(* Loading. *)

Loading == selection.stage = "loading"

(* scan_directory: unreadable, or sorted but for the entries that failed. *)
ScanDirectory ==
  \/ /\ files' = <<>>
     /\ errors' = Append(errors, [path |-> Directory, error |-> "Path"])
  \/ \E lost \in SUBSET InDirectory :
       /\ files' = Ascending(InDirectory \ lost)
       /\ errors' = errors \o [i \in 1..Cardinality(lost) |->
                                 [path |-> Directory, error |-> "Path"]]

TakePath ==
  /\ Loading /\ files = <<>> /\ paths # <<>>
  /\ paths' = Tail(paths)
  /\ CASE Head(paths) = Directory -> ScanDirectory
       [] Head(paths) = Missing ->
            /\ errors' = Append(errors, [path |-> Missing, error |-> "Path"])
            /\ UNCHANGED files
       [] OTHER -> files' = <<Head(paths)>> /\ UNCHANGED errors
  /\ UNCHANGED <<batch, seen, plugins, tried, selection>>

(* entry_point: the first kind whose symbol resolves, if one does. *)
Resolved(library) == {i \in DOMAIN KindOrder : KindOrder[i] \in DOMAIN library.entry}
KindOf(library) == KindOrder[Min(Resolved(library))]
HeaderOf(library) == library.entry[KindOf(library)]

(* What is wrong with the descriptor, the first of load_one's checks first. *)
HeaderError(header) ==
  IF header = None THEN "NullDescriptor"
  ELSE IF header.api_version # ApiVersion THEN "ApiVersion"
  ELSE IF TooLong \in {header.name, header.version, header.library_version}
       THEN "DescriptorStringLimit"
  ELSE IF header.name = NoText THEN "MissingName"
  ELSE "none"

(* What load_one finds wrong with a library, its name's being taken aside. *)
ErrorOf(library) ==
  IF ~library.opens THEN "Open"
  ELSE IF Resolved(library) = {} THEN "NoEntryPoint"
  ELSE HeaderError(HeaderOf(library))

(* Of a library without an error: what no other plugin may have. *)
Identity(library) == <<KindOf(library), HeaderOf(library).name>>

(* Fault: a library whose strings are refused takes its name all the same. *)
ClaimsUnchecked(library) ==
  IF ErrorOf(library) \in {"none", "DescriptorStringLimit"} THEN {Identity(library)} ELSE {}

(* The name a library takes: load_one inserts it last of its checks. *)
Claims(library) == IF ErrorOf(library) = "none" THEN {Identity(library)} ELSE {}

(* Fault: one plugin of a name, whatever its kind. *)
TakenByAny(library) == \E kind \in Kinds : <<kind, HeaderOf(library).name>> \in seen

(* A plugin of this kind and name is loaded already. *)
Taken(library) == Identity(library) \in seen

(* load_one, and where load_into puts what it returns. *)
LoadOne ==
  /\ Loading /\ files # <<>>
  /\ LET f == Head(files)
         library == disk[f]
         error == IF ErrorOf(library) # "none" THEN ErrorOf(library)
                  ELSE IF Taken(library) THEN "DuplicateName"
                  ELSE "none"
     IN  /\ plugins' = IF error = "none" THEN Append(plugins, f) ELSE plugins
         /\ errors' = IF error = "none" THEN errors
                      ELSE Append(errors, [path |-> f, error |-> error])
         /\ seen' = seen \cup Claims(library)
         /\ tried' = Append(tried, f)
  /\ files' = Tail(files)
  /\ UNCHANGED <<batch, paths, selection>>

(* position(|pin| pin == name) *)
FirstPin(pins, name) == Min({i \in DOMAIN pins : pins[i] = name})

(* Fault: a name pinned twice is tried last. *)
KeyLastWins(name) ==
  IF \E i \in DOMAIN order.last : order.last[i] = name
  THEN <<2, FirstPin(order.last, name), name>>
  ELSE IF \E i \in DOMAIN order.first : order.first[i] = name
  THEN <<0, FirstPin(order.first, name), name>>
  ELSE <<1, 0, name>>

(* ProbeOrder::key *)
Key(name) ==
  IF \E i \in DOMAIN order.first : order.first[i] = name
  THEN <<0, FirstPin(order.first, name), name>>
  ELSE IF \E i \in DOMAIN order.last : order.last[i] = name
  THEN <<2, FirstPin(order.last, name), name>>
  ELSE <<1, 0, name>>

(* Triples compare as Rust's tuples do. *)
Less(a, b) ==
  \E i \in 1..3 : a[i] < b[i] /\ \A j \in 1..(i - 1) : a[j] = b[j]

(* A plugin goes before another by their keys, or by when they were loaded. *)
KeyAt(i) == Key(HeaderOf(disk[plugins[i]]).name)
Precedes ==
  {pair \in (DOMAIN plugins) \X (DOMAIN plugins) :
     \/ Less(KeyAt(pair[1]), KeyAt(pair[2]))
     \/ KeyAt(pair[1]) = KeyAt(pair[2]) /\ pair[1] < pair[2]}

(* A stable sort of the plugins by key. *)
InProbeOrder ==
  LET positions == InOrder(DOMAIN plugins, Precedes)
  IN  [k \in DOMAIN plugins |-> plugins[positions[k]]]

SortPlugins ==
  /\ Loading /\ files = <<>> /\ paths = <<>>
  /\ plugins' = InProbeOrder
  /\ selection' = [stage |-> "loaded"]
  /\ UNCHANGED <<batch, paths, files, seen, errors, tried>>

-----------------------------------------------------------------------------
(* Selecting. *)

(* The plugins of a kind, in the order they are in. *)
OfKind(kind) ==
  LET at == Ascending({i \in DOMAIN plugins : KindOf(disk[plugins[i]]) = kind})
  IN  [k \in DOMAIN at |-> plugins[at[k]]]

(* No data, too much of it, or a file name no plugin can be given. *)
RefuseSelect ==
  /\ selection.stage = "loaded"
  /\ selection' = [stage |-> "selected", chosen |-> None, asked |-> <<>>]
  /\ UNCHANGED <<batch, paths, files, seen, plugins, errors, tried>>

BeginSelect ==
  /\ selection.stage = "loaded"
  /\ selection' = [stage |-> "probing", todo |-> OfKind("Playback"), unsure |-> None,
                   data |-> "pristine", asked |-> <<>>]
  /\ UNCHANGED <<batch, paths, files, seen, plugins, errors, tried>>

(* Fault: every plugin is given the one copy. *)
OfferedOneCopy == selection.data

(* What the next probe is given: a private copy of the file's prefix. *)
Offered == "pristine"

Answers == {"Supported", "Unsure", "Unsupported", "unknown"}

(* The first plugin that is unsure is kept. *)
UnsureAfter(f, answer) ==
  IF answer = "Unsure" /\ selection.unsure = None THEN f ELSE selection.unsure

Selected(chosen, asked) ==
  selection' = [stage |-> "selected", chosen |-> chosen, asked |-> asked]

(* A plugin is asked about the file. It may write over what it is given, and
   answers of anything but the file as it pleases. *)
Probe ==
  /\ selection.stage = "probing" /\ selection.todo # <<>>
  /\ \E ofFile \in Answers, answer \in Answers, after \in {"pristine", "scribbled"} :
       LET f == Head(selection.todo)
           asked == Append(selection.asked, [plugin |-> f, of_file |-> ofFile])
       IN  /\ Offered = "pristine" => answer = ofFile
           /\ IF answer = "Supported" THEN Selected(f, asked)
              ELSE selection' = [stage |-> "probing", todo |-> Tail(selection.todo),
                                 unsure |-> UnsureAfter(f, answer),
                                 data |-> IF Offered = "pristine" THEN after ELSE selection.data,
                                 asked |-> asked]
  /\ UNCHANGED <<batch, paths, files, seen, plugins, errors, tried>>

(* A plugin without probe_can_play is passed over. *)
SkipProbe ==
  /\ selection.stage = "probing" /\ selection.todo # <<>>
  /\ selection' = [selection EXCEPT !.todo = Tail(@)]
  /\ UNCHANGED <<batch, paths, files, seen, plugins, errors, tried>>

(* Every plugin was asked, or the next copy could not be had. *)
EndSelect ==
  /\ selection.stage = "probing"
  /\ Selected(selection.unsure, selection.asked)
  /\ UNCHANGED <<batch, paths, files, seen, plugins, errors, tried>>

-----------------------------------------------------------------------------
Init ==
  /\ disk \in [Files -> Libraries]
  /\ order \in Orders
  /\ paths \in Batches
  /\ files = <<>>
  /\ seen = {}
  /\ plugins = <<>>
  /\ errors = <<>>
  /\ tried = <<>>
  /\ selection = [stage |-> "loading"]

Next ==
  \/ TakePath \/ LoadOne \/ SortPlugins
  \/ RefuseSelect \/ BeginSelect \/ Probe \/ SkipProbe \/ EndSelect

Spec == Init /\ [][Next]_vars

-----------------------------------------------------------------------------
Selections ==
  [stage : {"loading", "loaded"}]
  \cup [stage : {"probing"}, todo : Seq(Files), unsure : Files \cup {None},
        data : {"pristine", "scribbled"},
        asked : Seq([plugin : Files, of_file : Answers])]
  \cup [stage : {"selected"}, chosen : Files \cup {None},
        asked : Seq([plugin : Files, of_file : Answers])]

(* Every variable stays in its type, and the names seen are those of the
   plugins in the report and no others. *)
TypeOK ==
  /\ disk \in [Files -> Libraries] /\ order \in Orders
  /\ paths \in Seq(Files \cup {Directory, Missing})
  /\ {files, plugins, tried} \subseteq Seq(Files)
  /\ seen = {Identity(disk[f]) : f \in ToSet(plugins)}
  /\ errors \in Seq([path : Files \cup {Directory, Missing},
                     error : LoadErrors \cup {"Path", "DuplicateName"}])
  /\ selection \in Selections

(* What the ABI asks of a plugin's library, whatever order it is checked in. *)
Valid(f) ==
  /\ disk[f].opens
  /\ \E i \in DOMAIN KindOrder :
       /\ KindOrder[i] \in DOMAIN disk[f].entry
       /\ \A j \in 1..(i - 1) : KindOrder[j] \notin DOMAIN disk[f].entry
       /\ disk[f].entry[KindOrder[i]] \in
            [api_version : {ApiVersion}, name : Names, version : {NoText},
             library_version : {NoText}]
Same(f, g) == Identity(disk[f]) = Identity(disk[g])

(* Every path is answered for: of the files of one kind and name the first
   that passes every check is the plugin, an invalid copy before it does not
   shadow it, and each of the others is an error of its own (load_one). *)
FirstValidWins ==
  /\ ToSet(plugins) = {tried[i] : i \in {i \in DOMAIN tried :
       Valid(tried[i]) /\ \A j \in 1..(i - 1) : ~(Valid(tried[j]) /\ Same(tried[j], tried[i]))}}
  /\ IsInjective(plugins)
  /\ Cardinality({i \in DOMAIN errors : errors[i].error # "Path"})
       = Len(tried) - Len(plugins)

NameOf(f) == HeaderOf(disk[f]).name
Pins(pins) == {pins[i] : i \in DOMAIN pins}

(* Within a kind, plugins are asked in an order that follows from their names
   alone: those pinned first as they are listed, those not pinned by name,
   then those pinned last (ProbeOrder, sort_by, of_kind). *)
ProbeOrderFollowed ==
  ~Loading => \A kind \in Kinds : LET asked == OfKind(kind) IN
    \A i, j \in DOMAIN asked : i < j =>
      LET a == NameOf(asked[i])
          b == NameOf(asked[j])
          first == Pins(order.first)
          last  == Pins(order.last) \ first
      IN  /\ b \in first => a \in first /\ FirstPin(order.first, a) < FirstPin(order.first, b)
          /\ a \in last => b \in last /\ FirstPin(order.last, a) < FirstPin(order.last, b)
          /\ {a, b} \cap (first \cup last) = {} => a < b

(* "The first Supported wins, otherwise the first Unsure": of the plugins that
   were asked, by what each says of the file, whatever those asked before did
   to the data (select_playback_candidate). *)
FirstClaimWins ==
  selection.stage = "selected" =>
    LET asked == selection.asked
        Said(answer) == {i \in DOMAIN asked : asked[i].of_file = answer}
    IN  selection.chosen =
          IF Said("Supported") # {} THEN asked[Min(Said("Supported"))].plugin
          ELSE IF Said("Unsure") # {} THEN asked[Min(Said("Unsure"))].plugin
          ELSE None
=============================================================================
