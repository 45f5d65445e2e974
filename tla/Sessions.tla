------------------------------ MODULE Sessions ------------------------------
(***************************************************************************)
(* The playback plugins of one host in session/mod.rs, the sessions opened *)
(* on them, what keeps them alive, and the metadata record they push into. *)
(*                                                                         *)
(* `owned` says through which of the two interfaces: an                    *)
(* OwnedPlaybackRuntime, which its handles and its sessions share by an    *)
(* Rc, or a PlaybackPlugins that players borrow, so that the compiler      *)
(* lets it go only after them.  Every call is made on one thread.  What    *)
(* that thread has still to do is `todo`, a sequence of steps: callbacks   *)
(* of a plugin, and what the host does between them.                       *)
(* Dropping a value puts the drops of its fields in front, in their order. *)
(* A callback is entered and left in two steps; in between the plugin      *)
(* pushes metadata.  The consumer takes the record on a thread of its own. *)
(***************************************************************************)
EXTENDS Metadata, Sequences, FiniteSets, SequencesExt

CONSTANTS
  PluginOrder,  \* the playback plugins, in the order of RuntimeInner.plugins
  Incomplete,   \* plugins without one of the required callbacks
  Passless,     \* plugins without a static metadata pass
  Slots,        \* the host's variables for a session
  None,         \* no session, no instance
  MaxSongs,     \* bound: songs opened or passed over, by serial number
  MaxTakes      \* bound: records the consumer takes

Plugins   == {PluginOrder[i] : i \in DOMAIN PluginOrder}
Songs     == 1..MaxSongs
Instances == Songs       \* an instance is created for one song

ASSUME SessionsAssumption ==
  /\ PluginOrder \in Seq(Plugins) /\ PluginOrder # <<>> /\ IsInjective(PluginOrder)
  /\ Incomplete \subseteq Plugins /\ Passless \subseteq Plugins
  /\ None \notin Songs
  /\ MaxSongs \in Nat
  /\ MaxTakes \in Nat

VARIABLES
  todo,       \* what the runtime's thread has still to do, first thing first
  running,    \* the callback it is in, or NoCall
  owned,      \* the sessions are a runtime's, and not borrowed players
  handles,    \* clones of the runtime the host holds, by what they are for
  slots,      \* the session in each variable
  prepared,   \* the borrowed players that Player::prepare was called on
  opened,     \* Player.opened, of the players that exist
  song,       \* serial number of the last song opened or passed over
  outcome,    \* how each song's call ended, as far as it has (history)
  passed,     \* the record the last metadata pass returned (history)
  record,     \* the metadata record
  held,       \* the id each song's plugin code was given by create_url
  takes,      \* records taken by the consumer (history)
  plugin_of,  \* the plugin that created an instance
  statics,    \* each plugin's process-wide state: "new", "up" or "down"
  instances,  \* each instance: "none", "created", "open", "closed", "destroyed"
  mapped,     \* the libraries are mapped
  service,    \* the service host is live
  misused     \* a callback was called out of order (history)

held_by == <<owned, handles, slots, prepared>>
songs   == <<opened, song, outcome, passed>>
host    == <<held_by, songs>>
store   == <<record, held, takes>>
plugins == <<plugin_of, statics, instances, mapped, service>>
vars    == <<todo, running, host, store, plugins, misused>>

-----------------------------------------------------------------------------
(* Steps.  Each names what it does and what it does it to. *)

Do(what, arg) == [do |-> what, arg |-> arg]
NoCall == Do("none", None)

StaticCalls   == {"static_init", "static_destroy", "create", "metadata"}
InstanceCalls == {"open", "viz_info", "use", "close", "destroy"}

(* The plugin a call goes to. `create` and `metadata` name the song's. *)
PluginOf(call) ==
  IF call.do \in {"static_init", "static_destroy"} THEN call.arg
  ELSE plugin_of[call.arg]

(* What the ABI promises a plugin of the order it is called in. *)
Legal(call) ==
  /\ mapped /\ service
  /\ CASE call.do = "static_init" -> statics[call.arg] = "new"
       [] call.do = "static_destroy" ->
            /\ statics[call.arg] = "up"
            /\ \A i \in Instances :
                 plugin_of[i] = call.arg => instances[i] \in {"none", "destroyed"}
       [] OTHER ->
            /\ statics[PluginOf(call)] = "up"
            /\ CASE call.do = "open" -> instances[call.arg] = "created"
                 [] call.do \in {"viz_info", "use", "close"} ->
                      instances[call.arg] = "open"
                 [] call.do = "destroy" -> instances[call.arg] \in {"created", "closed"}
                 [] OTHER -> instances[call.arg] = "none"

-----------------------------------------------------------------------------
(* What dropping a value does, in the order of its fields. *)

Statics(what) == [i \in DOMAIN PluginOrder |-> Do(what, PluginOrder[i])]

(* Fault: the plugins are never torn down. *)
StaticsForgotten == <<Do("unmap", None), Do("end_service", None)>>

(* RuntimeInner::drop and then its fields. *)
RuntimeDrop ==
  Statics("static_destroy") \o <<Do("unmap", None), Do("end_service", None)>>

(* Fault: only a player that was opened has an instance to destroy. *)
OpenedOnly(i) == IF i \in opened THEN <<Do("close", i), Do("destroy", i)>> ELSE <<>>

(* Player::drop. *)
PlayerDrop(i) ==
  (IF i \in opened THEN <<Do("close", i)>> ELSE <<>>) \o <<Do("destroy", i)>>

(* Fault: the session lets go of the runtime before its player is dropped. *)
RuntimeFieldFirst(i) == <<Do("release", None)>> \o PlayerDrop(i)

(* OwnedPreparedSession's fields: player, runtime, layout. *)
SessionDrop(i) == PlayerDrop(i) \o (IF owned THEN <<Do("release", None)>> ELSE <<>>)

(* What assigning to the variable drops. *)
SlotDrop(s) == IF slots[s] = None THEN <<>> ELSE SessionDrop(slots[s])

-----------------------------------------------------------------------------
(* What the host asks of the runtime. *)

Idle == todo = <<>> /\ running = NoCall
Busy == UNCHANGED <<running, store, plugins, misused>>

(* The host can call p: it holds a clone for it, or can borrow it. *)
Holds(p) == IF owned THEN p \in handles ELSE "runtime" \in handles

(* OwnedPlaybackRuntime::select, and a clone of the runtime in its answer. *)
Select(p) ==
  /\ Idle
  /\ owned /\ "runtime" \in handles
  /\ handles' = handles \cup {p}
  /\ UNCHANGED <<todo, owned, slots, prepared, songs>> /\ Busy

(* Fault: sessions do not keep the runtime. *)
HandlesOnly(hs, ss) == hs = {}

(* The runtime is held by nothing but what is being dropped. *)
LastHandle(hs, ss) == hs = {} /\ \A s \in Slots : ss[s] = None

(* The host drops a clone; the last one takes the runtime with it. What is
   borrowed can be dropped only when nothing borrows it. *)
DropHandle(h) ==
  /\ Idle
  /\ h \in handles
  /\ owned \/ \A s \in Slots : slots[s] = None
  /\ handles' = handles \ {h}
  /\ todo' = IF LastHandle(handles', slots) THEN RuntimeDrop ELSE <<>>
  /\ UNCHANGED <<owned, slots, prepared, songs>> /\ Busy

(* The host drops a session, or a player. *)
DropSession(s) ==
  /\ Idle
  /\ slots[s] # None
  /\ todo' = SlotDrop(s)
  /\ slots' = [slots EXCEPT ![s] = None]
  /\ UNCHANGED <<owned, handles, prepared, songs>> /\ Busy

(* What the two interfaces share, as far as nothing fails (open_player). *)
PlayerSteps(n) == <<Do("create", n), Do("open", n)>>

(* open_prepared_inner goes on to a prepared session, open_inner does not. *)
OpenSteps(n, s) ==
  PlayerSteps(n)
    \o (IF owned THEN <<Do("viz_info", n), Do("prepare", n)>> ELSE <<>>)
    \o <<Do("install", s)>>

(* A song that is refused before any callback is called for it: by its target,
   its url or a callback the plugin does not have. *)
Refused(n, as) ==
  /\ outcome' = [outcome EXCEPT ![n] = as]
  /\ UNCHANGED plugin_of

Accepted(n, p) ==
  /\ plugin_of' = [plugin_of EXCEPT ![n] = p]
  /\ UNCHANGED outcome

(* replace_prepared, or open_prepared into an empty variable: the session that
   is there goes first. A player that is opened takes the place of the one that
   is there, which goes when the new one is installed. *)
Open(p, s) ==
  /\ Idle
  /\ Holds(p)
  /\ song < MaxSongs
  /\ song' = song + 1
  /\ \E first \in {IF owned THEN SlotDrop(s) ELSE <<>>} :
       \/ todo' = first /\ Refused(song', "Refused")
       \/ /\ p \notin Incomplete
          /\ todo' = first \o OpenSteps(song', s)
          /\ Accepted(song', p)
  /\ slots' = IF owned THEN [slots EXCEPT ![s] = None] ELSE slots
  /\ UNCHANGED <<running, owned, handles, prepared, opened, passed, store, statics,
                 instances, mapped, service, misused>>

(* Player::prepare, of a player the host opened; it can be called once. *)
PreparePlayer(s) ==
  /\ Idle
  /\ ~owned
  /\ slots[s] # None /\ slots[s] \notin prepared
  /\ todo' = <<Do("prepare", slots[s])>>
  /\ UNCHANGED host /\ Busy

(* Fault: the pass starts on whatever record is there. *)
PassWithoutDiscard(n) == <<Do("metadata", n), Do("take", n)>>

(* OwnedPlaybackPlugin::metadata and Plugin::metadata *)
PassSteps(n) == <<Do("discard", n), Do("metadata", n), Do("take", n)>>

(* A plugin without a pass reports no record, and nothing is discarded. *)
StaticPass(p) ==
  /\ Idle
  /\ Holds(p)
  /\ song < MaxSongs
  /\ song' = song + 1
  /\ \/ /\ todo' = todo
        /\ Refused(song', IF p \in Passless THEN "NoRecord" ELSE "Refused")
     \/ /\ p \notin Passless
        /\ todo' = PassSteps(song')
        /\ Accepted(song', p)
  /\ UNCHANGED <<running, held_by, opened, passed, store, statics, instances,
                 mapped, service, misused>>

(* Any call of a session that goes to its plugin: read_data, seek, scope_enable,
   settings_updated, or what a visualization is captured with. *)
Use(s) ==
  /\ Idle
  /\ slots[s] # None
  /\ todo' = <<Do("use", slots[s])>>
  /\ UNCHANGED host /\ Busy

-----------------------------------------------------------------------------
(* The runtime's thread: the host's own steps. *)

Step == Head(todo)
Calling(what) == running = NoCall /\ todo # <<>> /\ Step.do = what

(* Fault: a failed open's record is dropped before its instance is. *)
DiscardThenDestroy(i) == <<Do("discard", i)>> \o PlayerDrop(i)

(* open() failed: the player is dropped, and then what was pushed. *)
OpenFailure(i) == PlayerDrop(i) \o <<Do("discard", i)>>

(* The song's call returns an error: the steps left are the ones given. *)
Fails(n, error, steps) ==
  /\ outcome' = [outcome EXCEPT ![n] = error]
  /\ todo' = steps

(* Player::prepare: its budget is refused, or its buffers cannot be had. It
   consumes the player, so a failure takes the player out of its variable. *)
Prepare ==
  /\ Calling("prepare")
  /\ \/ /\ todo' = Tail(todo)
        /\ prepared' = IF owned THEN prepared ELSE prepared \cup {Step.arg}
        /\ UNCHANGED <<slots, outcome>>
     \/ /\ Fails(Step.arg, "SetupFailed", PlayerDrop(Step.arg))
        /\ slots' = [s \in Slots |-> IF slots[s] = Step.arg THEN None ELSE slots[s]]
        /\ UNCHANGED prepared
  /\ UNCHANGED <<owned, handles, opened, song, passed>> /\ Busy

(* open_prepared_inner without a VisualizationConfig. *)
NoVisualization ==
  /\ Calling("viz_info")
  /\ todo' = Tail(todo)
  /\ UNCHANGED host /\ Busy

(* The session is returned into its variable; a player that is there goes. *)
Install ==
  /\ Calling("install")
  /\ todo' = SlotDrop(Step.arg) \o Tail(todo)
  /\ slots' = [slots EXCEPT ![Step.arg] = song]
  /\ outcome' = [outcome EXCEPT ![song] = "Ok"]
  /\ UNCHANGED <<owned, handles, prepared, opened, song, passed>> /\ Busy

(* A session's own clone of the runtime is dropped. *)
Release ==
  /\ Calling("release")
  /\ todo' = (IF LastHandle(handles, slots) THEN RuntimeDrop ELSE <<>>) \o Tail(todo)
  /\ UNCHANGED host /\ Busy

(* The PluginSet is dropped, and then the ServiceHost. *)
Unmap ==
  /\ Calling("unmap")
  /\ todo' = Tail(todo)
  /\ mapped' = FALSE
  /\ UNCHANGED <<running, host, store, plugin_of, statics, instances, service, misused>>

EndService ==
  /\ Calling("end_service")
  /\ todo' = Tail(todo)
  /\ service' = FALSE
  /\ UNCHANGED <<running, host, store, plugin_of, statics, instances, mapped, misused>>

(* MetadataHandle::discard *)
Discard ==
  /\ Calling("discard")
  /\ todo' = Tail(todo)
  /\ record' = Replaced(record)
  /\ UNCHANGED <<running, host, held, takes, plugins, misused>>

(* MetadataHandle::take, by the pass whose callback succeeded. *)
TakePassed ==
  /\ Calling("take")
  /\ todo' = Tail(todo)
  /\ passed' = [song |-> Step.arg, record |-> record]
  /\ record' = Replaced(record)
  /\ outcome' = [outcome EXCEPT ![Step.arg] = "Ok"]
  /\ UNCHANGED <<running, held_by, opened, song, held, takes, plugins, misused>>

HostStep ==
  \/ Prepare \/ NoVisualization \/ Install \/ Release \/ Unmap \/ EndService
  \/ Discard \/ TakePassed

-----------------------------------------------------------------------------
(* The runtime's thread: a callback is entered, pushes, and is left. *)

Enter ==
  /\ running = NoCall
  /\ todo # <<>>
  /\ Step.do \in StaticCalls \cup InstanceCalls
  /\ running' = Step
  /\ todo' = Tail(todo)
  /\ misused' = (misused \/ ~Legal(Step))
  /\ UNCHANGED <<host, store, plugins>>

In(what) == running.do = what
Leave == running' = NoCall /\ UNCHANGED <<store, plugin_of, mapped, service, misused>>

LeaveStatic ==
  /\ running.do \in {"static_init", "static_destroy"}
  /\ statics' = [statics EXCEPT ![running.arg] =
       IF In("static_init") THEN "up" ELSE "down"]
  /\ UNCHANGED <<todo, host, instances>> /\ Leave

(* create() returns an instance, or null. *)
LeaveCreate ==
  /\ In("create")
  /\ \/ /\ instances' = [instances EXCEPT ![running.arg] = "created"]
        /\ UNCHANGED <<todo, outcome>>
     \/ /\ Fails(running.arg, "CreateFailed", <<>>)
        /\ UNCHANGED instances
  /\ UNCHANGED <<held_by, opened, song, passed, statics>> /\ Leave

(* open() succeeds, and the player will close what it opened; or it fails. *)
LeaveOpen ==
  /\ In("open")
  /\ \/ /\ instances' = [instances EXCEPT ![running.arg] = "open"]
        /\ opened' = opened \cup {running.arg}
        /\ UNCHANGED <<todo, outcome>>
     \/ /\ Fails(running.arg, "OpenFailed", OpenFailure(running.arg))
        /\ UNCHANGED <<opened, instances>>
  /\ UNCHANGED <<held_by, song, passed, statics>> /\ Leave

(* prepare_visualization gets a layout or none, or refuses what it got. *)
LeaveVizInfo ==
  /\ In("viz_info")
  /\ \/ UNCHANGED <<todo, outcome>>
     \/ Fails(running.arg, "SetupFailed", PlayerDrop(running.arg))
  /\ UNCHANGED <<held_by, opened, song, passed, statics, instances>> /\ Leave

LeaveUse ==
  /\ In("use")
  /\ UNCHANGED <<todo, host, statics, instances>> /\ Leave

LeaveDrop ==
  /\ running.do \in {"close", "destroy"}
  /\ instances' = [instances EXCEPT ![running.arg] =
       IF In("close") THEN "closed" ELSE "destroyed"]
  /\ opened' = opened \ {running.arg}
  /\ UNCHANGED <<todo, held_by, song, outcome, passed, statics>> /\ Leave

(* metadata() succeeds, or fails and what it pushed is thrown away. *)
LeaveMetadata ==
  /\ In("metadata")
  /\ \/ UNCHANGED <<todo, outcome>>
     \/ Fails(running.arg, "MetadataFailed", <<Do("discard", running.arg)>>)
  /\ UNCHANGED <<held_by, opened, song, passed, statics, instances>> /\ Leave

LeaveAny ==
  \/ LeaveStatic \/ LeaveCreate \/ LeaveOpen \/ LeaveVizInfo \/ LeaveUse
  \/ LeaveDrop \/ LeaveMetadata

(* Calls that are about a song: the ones that push. *)
AboutSong == running # NoCall /\ running.do \notin {"static_init", "static_destroy"}

CreateUrl ==
  /\ AboutSong
  /\ held' = [held EXCEPT ![running.arg] = record.id]
  /\ record' = UrlCreated(record, running.arg)
  /\ UNCHANGED <<todo, running, host, takes, plugins, misused>>

(* A plugin pushes under the id create_url gave it for this song. *)
Push ==
  /\ AboutSong
  /\ held[running.arg] # 0
  /\ record' = Pushed(record, held[running.arg], running.arg)
  /\ UNCHANGED <<todo, running, host, held, takes, plugins, misused>>

(* The consumer takes the record, from its own thread. *)
Take ==
  /\ takes < MaxTakes
  /\ takes' = takes + 1
  /\ record' = Replaced(record)
  /\ UNCHANGED <<todo, running, host, held, plugins, misused>>

-----------------------------------------------------------------------------
(* OwnedPlaybackRuntime::new or PlaybackPlugins::new is about to start. *)
Init ==
  /\ todo = Statics("static_init")
  /\ running = NoCall
  /\ owned \in BOOLEAN
  /\ handles = {"runtime"}
  /\ slots = [s \in Slots |-> None]
  /\ prepared = {}
  /\ opened = {}
  /\ song = 0
  /\ outcome = [n \in Songs |-> "none"]
  /\ passed = [song |-> 0, record |-> NewRecord(0)]
  /\ record = FirstRecord
  /\ held = [n \in Songs |-> 0]
  /\ takes = 0
  /\ plugin_of = [i \in Instances |-> PluginOrder[1]]
  /\ statics = [p \in Plugins |-> "new"]
  /\ instances = [i \in Instances |-> "none"]
  /\ mapped = TRUE
  /\ service = TRUE
  /\ misused = FALSE

Request ==
  \/ \E p \in Plugins : Select(p) \/ StaticPass(p)
  \/ \E p \in Plugins, s \in Slots : Open(p, s)
  \/ \E h \in Plugins \cup {"runtime"} : DropHandle(h)
  \/ \E s \in Slots : DropSession(s) \/ PreparePlayer(s) \/ Use(s)

Thread == HostStep \/ Enter \/ LeaveAny

Next == Request \/ Thread \/ CreateUrl \/ Push \/ Take

Spec == Init /\ [][Next]_vars

(* The thread runs and callbacks return; nobody has to ask for anything. *)
FairSpec == Spec /\ WF_vars(Thread)

-----------------------------------------------------------------------------
Records == [id : Nat, url : Songs \cup {NoSong}, songs : SUBSET Songs, foreign : BOOLEAN]
Steps == [do : StaticCalls \cup InstanceCalls \cup
               {"none", "prepare", "install", "release", "unmap", "end_service",
                "discard", "take"},
          arg : Plugins \cup Songs \cup Slots \cup {None}]
Errors == {"Refused", "CreateFailed", "OpenFailed", "SetupFailed", "MetadataFailed"}

(* Every variable stays in its type, and the record's id grows by one with
   every take and discard. *)
TypeOK ==
  /\ todo \in Seq(Steps)
  /\ running \in Steps
  /\ handles \subseteq Plugins \cup {"runtime"}
  /\ slots \in [Slots -> Songs \cup {None}]
  /\ owned \in BOOLEAN
  /\ prepared \subseteq Instances
  /\ opened \subseteq Instances
  /\ song \in 0..MaxSongs
  /\ outcome \in [Songs -> {"none", "Ok", "NoRecord"} \cup Errors]
  /\ passed \in [song : Songs \cup {NoSong}, record : Records]
  /\ record \in Records
  /\ held \in [Songs -> Nat]
  /\ \A n \in Songs : held[n] <= record.id
  /\ takes \in 0..MaxTakes
  /\ plugin_of \in [Instances -> Plugins]
  /\ statics \in [Plugins -> {"new", "up", "down"}]
  /\ instances \in [Instances -> {"none", "created", "open", "closed", "destroyed"}]
  /\ mapped \in BOOLEAN /\ service \in BOOLEAN /\ misused \in BOOLEAN

(* No callback is ever called out of order, on an instance that is not in the
   state for it, or after its library or its services are gone: through failed
   opens, replaced sessions, and whichever of the host's values is dropped last
   (open_player, the Drop of Player and RuntimeInner, the order of fields). *)
CallbacksLegal == ~misused

Live(i) == instances[i] \in {"created", "open", "closed"}

(* Every instance has one way to its destruction: between calls, an instance
   that is not destroyed is the session in exactly one variable, so an open
   that fails at any step leaves none behind (open_prepared_inner). *)
NothingLeaks ==
  Idle => \A i \in Instances :
            /\ Live(i) <=> \E s \in Slots : slots[s] = i
            /\ \A s, t \in Slots : slots[s] = i /\ slots[t] = i => s = t

(* A session the host has can be read: its song is open, its plugin is set up,
   its library mapped and its services live, whatever handles were dropped. *)
SessionsUsable ==
  \A s \in Slots : slots[s] # None =>
    /\ instances[slots[s]] = "open"
    /\ statics[plugin_of[slots[s]]] = "up"
    /\ mapped /\ service

(* What open() or metadata() pushed before it failed, and what the instance
   pushed while it was destroyed, is in no record anyone takes later
   (open_prepared_inner, metadata). *)
RefusedLeavesNothing ==
  Idle => \A n \in Songs :
    outcome[n] \in {"OpenFailed", "MetadataFailed"} => n \notin SongsOf(record)

(* A static pass returns what was pushed about its own song and nothing else,
   whatever was left in the record and whenever the consumer takes. *)
PassIsItsOwn == SongsOf(passed.record) \subseteq {passed.song}

(* When the last thing that holds the runtime is dropped, every plugin is torn
   down after its instances, the libraries are unmapped and the host is gone. *)
RuntimeEnds ==
  LastHandle(handles, slots) ~>
    /\ ~mapped /\ ~service
    /\ \A p \in Plugins : statics[p] = "down"
    /\ \A i \in Instances : ~Live(i)

(* The doc of discard: it throws away what has accumulated, "so a call that
   failed part-way leaves nothing for the next one to pick up". *)
FailedCallLeavesNothing ==
  Idle => \A n \in Songs : outcome[n] \in Errors => n \notin SongsOf(record)

(* The doc of foreign_record_id: "A push named a record this store never
   minted". Plugins here name only ids that create_url gave them. *)
ForeignWasNeverMinted == ~record.foreign
=============================================================================
