------------------------------ MODULE Settings ------------------------------
(***************************************************************************)
(* The settings service of service/settings.rs: the registry every plugin  *)
(* and the host share behind one mutex, and the host's SettingsStore that  *)
(* it loads from and saves to with the mutex released.                     *)
(*                                                                         *)
(* One action per critical section or store call.  A caller is one running *)
(* call of the service, not a thread: store.load and store.save may call   *)
(* back into the service, so a nested call is a second caller that happens *)
(* to finish before the first goes on, one of the interleavings here.      *)
(*                                                                         *)
(* A module's schema defaults and overrides are one function from          *)
(* <<extension, id>> to the value; the global scope is Global, and its     *)
(* keys are always there.  Extensions are the normalised ones.             *)
(***************************************************************************)
EXTENDS Integers, Sequences, FiniteSets

CONSTANTS
  Regs,          \* registration ids
  Ids,           \* setting ids
  Exts,          \* normalised extensions
  Global,        \* the empty extension
  Values,        \* setting values
  Kind,          \* Kind[v]: what Value::type_name says of v
  NulValues,     \* strings with an interior NUL
  Schemas,       \* what a plugin may register: defaults by setting id
  Stores,        \* what the store may hold of a module when the host starts
  Callers,       \* calls that may be running at once
  MaxOrder,      \* bound: registrations begun per run of the host
  MaxRevision,   \* bound: effective writes per module and run of the host
  MaxRestarts    \* bound: host restarts

Scopes == Exts \cup {Global}
Keys   == Scopes \X Ids

(* Functions from some of the keys to values: what a module or a store holds. *)
KeyedValues == UNION {[K -> Values] : K \in SUBSET Keys}

ASSUME SettingsAssumption ==
  /\ Global \notin Exts
  /\ NulValues \subseteq Values
  /\ Schemas \subseteq UNION {[I -> Values] : I \in SUBSET Ids}
  /\ Stores \subseteq KeyedValues
  /\ MaxOrder \in Nat
  /\ MaxRevision \in Nat
  /\ MaxRestarts \in Nat

VARIABLES
  modules,     \* Registry.modules, by registration id
  listed,      \* Registry.modules, as the order of the Vec
  pending,     \* Registry.pending_registrations
  next_order,  \* Registry.next_registration_order
  interned,    \* Registry.interned
  calls,       \* the running calls
  store,       \* what the host's store holds, across restarts
  durable,     \* the revision the store holds (history)
  restarts     \* host restarts so far (history)

vars == <<modules, listed, pending, next_order, interned, calls, store,
          durable, restarts>>

-----------------------------------------------------------------------------
NoModule ==
  [schema |-> <<>>, values |-> <<>>, dirty |-> FALSE, saving |-> FALSE,
   revision |-> 0, order |-> -1]

Registered == {r \in Regs : modules[r] # NoModule}

Idle == [op |-> "idle"]

(* Setting::accepts *)
Accepts(schema, id, v) == id \in DOMAIN schema /\ Kind[v] = Kind[schema[id]]

NulFree(v) == v \notin NulValues

(* Fault: a stored value is taken back whatever its setting has become. *)
RestorableKnown(schema, stored) ==
  {k \in DOMAIN stored : k[2] \in DOMAIN schema /\ NulFree(stored[k])}

(* The stored values restore keeps: known, of the schema's kind, NUL-free. *)
Restorable(schema, stored) ==
  {k \in DOMAIN stored : Accepts(schema, k[2], stored[k]) /\ NulFree(stored[k])}

(* What a module holds once register has overlaid what was stored. *)
Restored(schema, stored) ==
  [k \in ({Global} \X DOMAIN schema) \cup Restorable(schema, stored) |->
     IF k \in Restorable(schema, stored) THEN stored[k] ELSE schema[k[2]]]

(* Fault: the overrides of extensions are not saved. *)
GlobalsOnly(r) ==
  [reg |-> r, revision |-> modules[r].revision,
   values |-> [k \in {Global} \X DOMAIN modules[r].schema |-> modules[r].values[k]]]

(* Module::stored_values is the whole of m.values: every schema's global value
   and every override. *)
Snapshot(r) == [reg |-> r, values |-> modules[r].values, revision |-> modules[r].revision]

-----------------------------------------------------------------------------
(* Registration. *)

(* Fault: only finished registrations are looked at. *)
FreeOfModules(r) == r \notin Registered

(* begin_registration: neither registered nor being registered. *)
Free(r) == r \notin Registered /\ r \notin pending

(* SettingsHandle::register up to store.load. A registration refused for its
   id or for a NUL default changes nothing. *)
BeginRegistration(c, r, schema) ==
  /\ calls[c] = Idle
  /\ Free(r)
  /\ next_order < MaxOrder
  /\ \A id \in DOMAIN schema : NulFree(schema[id])
  /\ pending' = pending \cup {r}
  /\ next_order' = next_order + 1
  /\ calls' = [calls EXCEPT ![c] = [op |-> "loading", reg |-> r,
                                    order |-> next_order, schema |-> schema]]
  /\ UNCHANGED <<modules, listed, interned, store, durable, restarts>>

(* store.load returns and restore overlays what it held; the mutex is free. *)
Load(c) ==
  /\ calls[c].op = "loading"
  /\ calls' = [calls EXCEPT ![c] =
       [op |-> "loaded", reg |-> @.reg, order |-> @.order, schema |-> @.schema,
        values |-> Restored(@.schema, store[@.reg])]]
  /\ UNCHANGED <<modules, listed, pending, next_order, interned, store,
                 durable, restarts>>

(* Fault: the module goes to the end of the list. *)
LastPlace(order) == Len(listed) + 1

(* partition_point: one past the modules registered before this order. *)
Place(order) ==
  Cardinality({i \in DOMAIN listed : modules[listed[i]].order < order}) + 1

(* finish_registration *)
FinishRegistration(c) ==
  /\ calls[c].op = "loaded"
  /\ LET m == calls[c]
         p == Place(m.order)
     IN  /\ pending' = pending \ {m.reg}
         /\ listed' = SubSeq(listed, 1, p - 1) \o <<m.reg>>
                        \o SubSeq(listed, p, Len(listed))
         /\ modules' = [modules EXCEPT ![m.reg] =
              [schema |-> m.schema, values |-> m.values, dirty |-> FALSE,
               saving |-> FALSE, revision |-> 0, order |-> m.order]]
         /\ durable' = [durable EXCEPT ![m.reg] = 0]
  /\ calls' = [calls EXCEPT ![c] = Idle]
  /\ UNCHANGED <<next_order, interned, store, restarts>>

PendingWithout(r) == pending \ {r}

(* store.load panics: PendingRegistration's Drop takes the id back. *)
LoadPanics(c) ==
  /\ calls[c].op = "loading"
  /\ pending' = PendingWithout(calls[c].reg)
  /\ calls' = [calls EXCEPT ![c] = Idle]
  /\ UNCHANGED <<modules, listed, next_order, interned, store, durable,
                 restarts>>

-----------------------------------------------------------------------------
(* Reading and writing values. *)

(* Registry::value: the override of the extension, else the global value. *)
Lookup(m, ext, id) ==
  IF <<ext, id>> \in DOMAIN m.values THEN m.values[<<ext, id>>]
  ELSE m.values[<<Global, id>>]

(* write *)
Written(values, key, v) ==
  [k \in DOMAIN values \cup {key} |-> IF k = key THEN v ELSE values[k]]

(* An equal value at the same scope is no change. *)
SameAtScope(m, key, v) == key \in DOMAIN m.values /\ m.values[key] = v

(* Registry::set_value, of a value that changes something; refusals and equal
   writes return before any assignment. *)
SetValue(r, key, v) ==
  /\ r \in Registered
  /\ LET m == modules[r]
     IN  /\ Accepts(m.schema, key[2], v)
         /\ NulFree(v)
         /\ ~SameAtScope(m, key, v)
         /\ m.revision < MaxRevision
         /\ modules' = [modules EXCEPT ![r] =
              [schema |-> m.schema, values |-> Written(m.values, key, v),
               dirty |-> TRUE, saving |-> m.saving, revision |-> m.revision + 1,
               order |-> m.order]]
  /\ UNCHANGED <<listed, pending, next_order, interned, calls, store, durable,
                 restarts>>

(* get_string: lookup takes and releases the mutex ... *)
GetString(c, r, ext, id) ==
  /\ calls[c] = Idle
  /\ r \in Registered
  /\ id \in DOMAIN modules[r].schema
  /\ LET v == Lookup(modules[r], ext, id)
     IN  /\ Kind[v] = "string"
         /\ calls' = [calls EXCEPT ![c] = [op |-> "interning", value |-> v]]
  /\ UNCHANGED <<modules, listed, pending, next_order, interned, store, durable,
                 restarts>>

(* Fault: every read pushes a copy. *)
InternedAgain(v) == Append(interned, v)

(* intern's list after a lookup of v. *)
InternedWith(v) ==
  IF \E i \in DOMAIN interned : interned[i] = v THEN interned
  ELSE Append(interned, v)

(* ... and intern takes it again to hand out a pointer into interned. *)
Intern(c) ==
  /\ calls[c].op = "interning"
  /\ interned' = InternedWith(calls[c].value)
  /\ calls' = [calls EXCEPT ![c] = Idle]
  /\ UNCHANGED <<modules, listed, pending, next_order, store, durable, restarts>>

-----------------------------------------------------------------------------
(* Flushing. *)

(* A module with its two marks set. *)
Marked(m, dirty, saving) ==
  [schema |-> m.schema, values |-> m.values, dirty |-> dirty, saving |-> saving,
   revision |-> m.revision, order |-> m.order]

(* Fault: a module is written again while a save of it is in flight. *)
ChangedModules == {r \in Registered : modules[r].dirty}

(* begin_flush: the modules this call takes to save. *)
ToSave == {r \in Registered : modules[r].dirty /\ ~modules[r].saving}

(* Saves go in registration order: the one that comes first of those left. *)
First(s, todo) == \A t \in todo : modules[s.reg].order <= modules[t.reg].order

(* begin_flush, which marks and copies under one lock. A call with nothing to
   save returns at once. *)
BeginFlush(c) ==
  /\ calls[c] = Idle
  /\ ToSave # {}
  /\ modules' = [r \in Regs |-> IF r \in ToSave
                               THEN Marked(modules[r], TRUE, TRUE)
                               ELSE modules[r]]
  /\ calls' = [calls EXCEPT ![c] =
       [op |-> "saving", todo |-> {Snapshot(r) : r \in ToSave}]]
  /\ UNCHANGED <<listed, pending, next_order, interned, store, durable, restarts>>

(* store.save replaces the stored values; the mutex is free. *)
Save(c) ==
  /\ calls[c].op = "saving"
  /\ \E s \in calls[c].todo :
       /\ First(s, calls[c].todo)
       /\ store' = [store EXCEPT ![s.reg] = s.values]
       /\ durable' = [durable EXCEPT ![s.reg] = s.revision]
       /\ calls' = [calls EXCEPT ![c] =
            [op |-> "saved", at |-> s, todo |-> calls[c].todo \ {s}]]
  /\ UNCHANGED <<modules, listed, pending, next_order, interned, restarts>>

(* Fault: a module is clean once its save succeeded, edited since or not. *)
CleanOnSuccess(m, revision, succeeded) ==
  Marked(m, ~succeeded, FALSE)

(* finish_save *)
FinishSave(m, revision, succeeded) ==
  Marked(m, ~succeeded \/ m.revision # revision, FALSE)

(* store.save has returned. The call ends with its last module. *)
SaveReturns(c) ==
  /\ calls[c].op = "saved"
  /\ LET s == calls[c].at
     IN  modules' = [modules EXCEPT ![s.reg] = FinishSave(@, s.revision, TRUE)]
  /\ calls' = [calls EXCEPT ![c] =
       IF calls[c].todo = {} THEN Idle ELSE [op |-> "saving", todo |-> calls[c].todo]]
  /\ UNCHANGED <<listed, pending, next_order, interned, store, durable, restarts>>

(* The save of s failed, and the rest is still to be taken back. *)
FailSave(c, s, rest) ==
  /\ modules' = [modules EXCEPT ![s.reg] = FinishSave(@, s.revision, FALSE)]
  /\ calls' = [calls EXCEPT ![c] = [op |-> "unwinding", todo |-> rest]]
  /\ UNCHANGED <<listed, pending, next_order, interned, store, durable, restarts>>

(* store.save panics before it replaced the values ... *)
SavePanics(c) ==
  /\ calls[c].op = "saving"
  /\ \E s \in calls[c].todo : First(s, calls[c].todo) /\ FailSave(c, s, calls[c].todo \ {s})

(* ... or after. *)
SavedPanics(c) ==
  /\ calls[c].op = "saved"
  /\ FailSave(c, calls[c].at, calls[c].todo)

(* Fault: the panic leaves the rest of the snapshot marked as being saved. *)
TakenBackNone(todo) == modules

(* The modules of the snapshot that were never reached. *)
TakenBack(todo) ==
  [r \in Regs |-> IF \E s \in todo : s.reg = r
                 THEN FinishSave(modules[r], (CHOOSE s \in todo : s.reg = r).revision, FALSE)
                 ELSE modules[r]]

(* ... and the panic goes on to flush's caller. *)
Unwind(c) ==
  /\ calls[c].op = "unwinding"
  /\ modules' = TakenBack(calls[c].todo)
  /\ calls' = [calls EXCEPT ![c] = Idle]
  /\ UNCHANGED <<listed, pending, next_order, interned, store, durable, restarts>>

-----------------------------------------------------------------------------
(* The process ends at any point, in the middle of a flush too, and the host
   comes back with an empty registry and what the store holds. *)
Restart ==
  /\ restarts < MaxRestarts
  /\ restarts' = restarts + 1
  /\ modules' = [r \in Regs |-> NoModule]
  /\ listed' = <<>>
  /\ pending' = {}
  /\ next_order' = 0
  /\ interned' = <<>>
  /\ calls' = [c \in Callers |-> Idle]
  /\ durable' = [r \in Regs |-> 0]
  /\ UNCHANGED store

Init ==
  /\ modules = [r \in Regs |-> NoModule]
  /\ listed = <<>>
  /\ pending = {}
  /\ next_order = 0
  /\ interned = <<>>
  /\ calls = [c \in Callers |-> Idle]
  /\ store \in [Regs -> Stores]
  /\ durable = [r \in Regs |-> 0]
  /\ restarts = 0

(* The steps of a call that is under way. *)
Proceed(c) ==
  \/ Load(c) \/ FinishRegistration(c) \/ LoadPanics(c)
  \/ Intern(c)
  \/ Save(c) \/ SaveReturns(c) \/ SavePanics(c) \/ SavedPanics(c) \/ Unwind(c)

(* The calls the host and its plugins make. *)
Call(c) ==
  \/ \E r \in Regs, schema \in Schemas : BeginRegistration(c, r, schema)
  \/ \E r \in Regs, ext \in Scopes, id \in Ids : GetString(c, r, ext, id)
  \/ BeginFlush(c)

Next ==
  \/ \E c \in Callers : Call(c) \/ Proceed(c)
  \/ \E r \in Regs, key \in Keys, v \in Values : SetValue(r, key, v)
  \/ Restart

Spec == Init /\ [][Next]_vars

(* A call that has begun goes on: its thread runs, and load and save return or
   panic. Nothing obliges the host to make a call. *)
Fairness == \A c \in Callers : WF_vars(Proceed(c))

FairSpec == Spec /\ Fairness

-----------------------------------------------------------------------------
Module ==
  [schema : Schemas, values : KeyedValues, dirty : BOOLEAN, saving : BOOLEAN,
   revision : 0..MaxRevision, order : Nat]

SnapshotOf == [reg : Regs, values : KeyedValues, revision : 0..MaxRevision]

CallType ==
  {Idle}
  \cup [op : {"loading"}, reg : Regs, order : Nat, schema : Schemas]
  \cup [op : {"loaded"}, reg : Regs, order : Nat, schema : Schemas, values : KeyedValues]
  \cup [op : {"interning"}, value : Values]
  \cup [op : {"saving", "unwinding"}, todo : SUBSET SnapshotOf]
  \cup [op : {"saved"}, at : SnapshotOf, todo : SUBSET SnapshotOf]

Typed ==
  /\ modules \in [Regs -> Module \cup {NoModule}]
  /\ listed \in Seq(Regs)
  /\ pending \subseteq Regs
  /\ next_order \in 0..MaxOrder
  /\ interned \in Seq(Values)
  /\ calls \in [Callers -> CallType]
  /\ store \in [Regs -> KeyedValues]
  /\ durable \in [Regs -> 0..MaxRevision]
  /\ restarts \in 0..MaxRestarts

(* Every setting has its global value, and every value is one set_value would
   accept of that setting. *)
Fits(schema, values) ==
  /\ {Global} \X DOMAIN schema \subseteq DOMAIN values
  /\ \A k \in DOMAIN values : Accepts(schema, k[2], values[k]) /\ NulFree(values[k])

(* Every variable stays in its type, and every value in its setting's: whatever
   an earlier release left in the store and whatever is set in which scope, a
   lookup of a known setting finds a value of its kind (register, set_value,
   value). *)
TypeOK == Typed /\ \A r \in Registered : Fits(modules[r].schema, modules[r].values)

Loading(c) == calls[c].op \in {"loading", "loaded"}

(* The snapshots call c still answers for. *)
Todo(c) ==
  IF calls[c].op = "saved" THEN calls[c].todo \cup {calls[c].at}
  ELSE IF calls[c].op \in {"saving", "unwinding"} THEN calls[c].todo ELSE {}

(* A module is marked as being saved exactly while one flush call, and only
   one, holds a snapshot of it, through panics and edits; so no two saves of a
   module are ever in flight together and none is locked out for good
   (begin_flush, finish_save, the unwinding of flush). *)
SavingHasOneOwner ==
  \A r \in Registered :
    /\ modules[r].saving <=> \E c \in Callers : \E s \in Todo(c) : s.reg = r
    /\ \A c, d \in Callers : \A s \in Todo(c), t \in Todo(d) :
         s.reg = r /\ t.reg = r => c = d /\ s = t

(* A pending id is one a running registration answers for, and nobody
   registers an id that is pending or registered, whatever load does
   (begin_registration, PendingRegistration's Drop). *)
PendingHasOneOwner ==
  /\ pending \cap Registered = {}
  /\ \A r \in Regs : r \in pending <=> \E c \in Callers : Loading(c) /\ calls[c].reg = r
  /\ \A c, d \in Callers : Loading(c) /\ Loading(d) /\ calls[c].reg = calls[d].reg => c = d

(* reg_ids lists the registered modules in the order their registrations
   began, in whatever order they finish (finish_registration). *)
ListedInOrder ==
  /\ {listed[i] : i \in DOMAIN listed} = Registered
  /\ \A i, j \in DOMAIN listed : i < j => modules[listed[i]].order < modules[listed[j]].order

(* A module that says it has not changed since it was last written can be
   restarted from the store without losing a value: registering its schema
   again gives back exactly the live values (set_value, flush, restore). *)
CleanIsDurable ==
  \A r \in Registered :
    ~modules[r].dirty => Restored(modules[r].schema, store[r]) = modules[r].values

(* A string handed to a plugin stays where it is, and reading it again, or
   from two threads at once, adds no copy (get_string, intern). *)
InternedStable ==
  [][restarts' = restarts =>
       /\ Len(interned) <= Len(interned')
       /\ \A i \in DOMAIN interned : interned'[i] = interned[i]
       /\ \A i, j \in DOMAIN interned' : interned'[i] = interned'[j] => i = j]_vars

(* What the service promises whoever holds its modules, with no registry,
   locks or calls in it: see DurableSettings. *)
Promise == INSTANCE DurableSettings WITH
  version  <- [r \in Regs |-> modules[r].revision],
  durable  <- durable,
  reported <- [r \in Regs |-> modules[r].dirty]

DurablePromise == Promise!Spec

(* Every mark a flush leaves is taken off again, by its success or its panic,
   so a changed module can always be flushed again. *)
SavingIsReleased ==
  \A r \in Regs : modules[r].saving ~> ~modules[r].saving

(* The doc of flush: "Writes every changed module to the store."  So once a
   flush has begun, the values of every changed module are on their way there,
   by this call or at least by another one. *)
FlushWritesEveryChange ==
  [][\A c \in Callers :
       calls[c] = Idle /\ calls'[c].op = "saving" =>
         \A r \in Registered : modules[r].dirty =>
           \E d \in Callers : \E s \in Todo(d)' :
             s.reg = r /\ s.revision = modules[r].revision]_vars
=============================================================================
