--------------------------- MODULE SettingsProofs ---------------------------
(***************************************************************************)
(* Proofs about Settings, for any registrations, callers and schemas.      *)
(*                                                                         *)
(* The argument rests on one inductive invariant.  Ownership says who may  *)
(* touch a module: a pending id belongs to one registration, a saving mark *)
(* to one flush.  Because only the owner of a mark saves the module, the   *)
(* snapshot it holds is never older than what the store has, which is what *)
(* keeps the stored revision moving forward (DurableInv).  Because a module  *)
(* is only cleared when the snapshot saved is still the live revision, a   *)
(* clean module and the store agree (StoreInv).                            *)
(***************************************************************************)
EXTENDS Settings, FiniteSetTheorems, SequenceTheorems, TLAPS

-----------------------------------------------------------------------------
(* Values by key. *)

(* KeyedValues are the functions from keys to values. *)
LEMMA KeyedValuesIntro ==
  ASSUME NEW f, f = [k \in DOMAIN f |-> f[k]], DOMAIN f \subseteq Keys,
         \A k \in DOMAIN f : f[k] \in Values
  PROVE  f \in KeyedValues
<1>1. f \in [DOMAIN f -> Values]
  OBVIOUS
<1>. QED BY <1>1 DEF KeyedValues

LEMMA KeyedValuesElim ==
  ASSUME NEW f \in KeyedValues
  PROVE  /\ f = [k \in DOMAIN f |-> f[k]]
         /\ DOMAIN f \subseteq Keys
         /\ \A k \in DOMAIN f : f[k] \in Values
<1>1. PICK K \in SUBSET Keys : f \in [K -> Values]
  BY DEF KeyedValues
<1>. QED BY <1>1

LEMMA SchemaElim ==
  ASSUME NEW schema \in Schemas
  PROVE  /\ DOMAIN schema \subseteq Ids
         /\ \A id \in DOMAIN schema : schema[id] \in Values
<1>1. PICK I \in SUBSET Ids : schema \in [I -> Values]
  BY SettingsAssumption
<1>. QED BY <1>1

(* What restore leaves is a legal content of a module. *)
LEMMA RestoredType ==
  ASSUME NEW schema \in Schemas, NEW stored \in KeyedValues
  PROVE  Restored(schema, stored) \in KeyedValues
<1>. DEFINE f == Restored(schema, stored)
<1>1. DOMAIN f = ({Global} \X DOMAIN schema) \cup Restorable(schema, stored)
  BY DEF Restored
<1>2. DOMAIN f \subseteq Keys
  BY <1>1, SchemaElim, KeyedValuesElim DEF Restorable, Keys, Scopes
<1>3. \A k \in DOMAIN f : f[k] \in Values
  <2>. TAKE k \in DOMAIN f
  <2>1. CASE k \in Restorable(schema, stored)
    BY <2>1, <1>1, KeyedValuesElim DEF Restored, Restorable
  <2>2. CASE k \notin Restorable(schema, stored)
    <3>1. k \in {Global} \X DOMAIN schema
      BY <2>2, <1>1
    <3>2. f[k] = schema[k[2]]
      BY <2>2, <3>1 DEF Restored
    <3>. QED BY <3>1, <3>2, SchemaElim
  <2>. QED BY <2>1, <2>2
<1>4. f = [k \in DOMAIN f |-> f[k]]
  BY DEF Restored
<1>5. f \in KeyedValues
  <2>. HIDE DEF f
  <2>. QED BY <1>2, <1>3, <1>4, KeyedValuesIntro
<1>. QED BY <1>5

(* Saving values that fit and registering again gives them back unchanged. *)
LEMMA RestoreRoundTrip ==
  ASSUME NEW schema, NEW values \in KeyedValues, Fits(schema, values)
  PROVE  Restored(schema, values) = values
<1>1. Restorable(schema, values) = DOMAIN values
  BY DEF Fits, Restorable
<1>2. Restored(schema, values) = [k \in DOMAIN values |-> values[k]]
  BY <1>1 DEF Fits, Restored
<1>. QED BY <1>2, KeyedValuesElim

(* What restore leaves fits the schema, if the defaults are NUL-free. *)
LEMMA RestoredFits ==
  ASSUME NEW schema \in Schemas, NEW stored \in KeyedValues,
         \A id \in DOMAIN schema : NulFree(schema[id])
  PROVE  Fits(schema, Restored(schema, stored))
<1>. DEFINE f == Restored(schema, stored)
<1>1. DOMAIN f = ({Global} \X DOMAIN schema) \cup Restorable(schema, stored)
  BY DEF Restored
<1>2. ASSUME NEW k \in DOMAIN f
      PROVE  Accepts(schema, k[2], f[k]) /\ NulFree(f[k])
  <2>1. CASE k \in Restorable(schema, stored)
    BY <2>1, <1>1 DEF Restored, Restorable
  <2>2. CASE k \notin Restorable(schema, stored)
    <3>1. k \in {Global} \X DOMAIN schema
      BY <2>2, <1>1
    <3>2. f[k] = schema[k[2]]
      BY <2>2, <3>1 DEF Restored
    <3>. QED BY <3>1, <3>2 DEF Accepts
  <2>. QED BY <2>1, <2>2
<1>. QED BY <1>1, <1>2 DEF Fits

-----------------------------------------------------------------------------
(* Type correctness. *)

LEMMA ModuleTypes ==
  ASSUME Typed, NEW r \in Registered
  PROVE  /\ r \in Regs
         /\ modules[r] \in Module
BY DEF Typed, Registered

LEMMA NoModuleIsNoModule == NoModule \notin Module
BY DEF NoModule, Module

LEMMA RegisteredModules ==
  ASSUME Typed, NEW r
  PROVE  r \in Registered <=> r \in Regs /\ modules[r] \in Module
BY NoModuleIsNoModule DEF Typed, Registered

LEMMA PlaceType ==
  ASSUME Typed, NEW order \in Nat
  PROVE  /\ Place(order) \in 1..(Len(listed) + 1)
<1>. DEFINE S == {i \in DOMAIN listed : modules[listed[i]].order < order}
<1>1. S \subseteq 1..Len(listed)
  BY DEF Typed
<1>2. IsFiniteSet(1..Len(listed)) /\ Cardinality(1..Len(listed)) = Len(listed)
  <2>1. Len(listed) \in Nat
    BY LenProperties DEF Typed
  <2>2. Cardinality(1..Len(listed)) = IF 1 > Len(listed) THEN 0 ELSE Len(listed) - 1 + 1
    BY <2>1, FS_Interval
  <2>3. IsFiniteSet(1..Len(listed))
    BY <2>1, FS_Interval
  <2>. QED BY <2>1, <2>2, <2>3
<1>3. Cardinality(S) \in Nat /\ Cardinality(S) <= Len(listed)
  BY <1>1, <1>2, FS_Subset, FS_CardinalityType
<1>. QED BY <1>3, LenProperties DEF Place, Typed

LEMMA InsertType ==
  ASSUME Typed, NEW p \in 1..(Len(listed) + 1), NEW r \in Regs
  PROVE  SubSeq(listed, 1, p - 1) \o <<r>> \o SubSeq(listed, p, Len(listed)) \in Seq(Regs)
<1>1. listed \in Seq(Regs) /\ Len(listed) \in Nat
  BY DEF Typed
<1>2. SubSeq(listed, 1, p - 1) \in Seq(Regs)
  BY <1>1, SubSeqProperties
<1>3. SubSeq(listed, p, Len(listed)) \in Seq(Regs)
  BY <1>1, SubSeqProperties
<1>. QED BY <1>2, <1>3

(* What a running call holds, by what it is doing. *)
LEMMA CallTypes ==
  ASSUME NEW call \in CallType
  PROVE  /\ call.op = "loading" =>
              call \in [op : {"loading"}, reg : Regs, order : Nat, schema : Schemas]
         /\ call.op = "loaded" =>
              call \in [op : {"loaded"}, reg : Regs, order : Nat, schema : Schemas,
                        values : KeyedValues]
         /\ call.op = "interning" => call \in [op : {"interning"}, value : Values]
         /\ call.op \in {"saving", "unwinding"} =>
              call \in [op : {"saving", "unwinding"}, todo : SUBSET SnapshotOf]
         /\ call.op = "saved" =>
              call \in [op : {"saved"}, at : SnapshotOf, todo : SUBSET SnapshotOf]
BY DEF CallType, Idle

(* One call that changes to a call of the type keeps all of them typed. *)
LEMMA CallsType ==
  ASSUME Typed, NEW c \in Callers, NEW call \in CallType
  PROVE  [calls EXCEPT ![c] = call] \in [Callers -> CallType]
BY DEF Typed

LEMMA MarkedType ==
  ASSUME NEW m \in Module, NEW dirty \in BOOLEAN, NEW saving \in BOOLEAN
  PROVE  Marked(m, dirty, saving) \in Module
BY DEF Marked, Module

LEMMA FinishSaveType ==
  ASSUME NEW m \in Module, NEW revision, NEW succeeded \in BOOLEAN
  PROVE  FinishSave(m, revision, succeeded) \in Module
BY MarkedType DEF FinishSave

LEMMA WrittenType ==
  ASSUME NEW values \in KeyedValues, NEW key \in Keys, NEW v \in Values
  PROVE  Written(values, key, v) \in KeyedValues
<1>. DEFINE f == Written(values, key, v)
<1>1. f = [k \in DOMAIN f |-> f[k]] /\ DOMAIN f \subseteq Keys
      /\ \A k \in DOMAIN f : f[k] \in Values
  BY KeyedValuesElim DEF Written
<1>2. f \in KeyedValues
  <2>. HIDE DEF f
  <2>. QED BY <1>1, KeyedValuesIntro
<1>. QED BY <1>2

(* Only registered modules are being saved. *)
SavesRegistered == \A c \in Callers : \A s \in Todo(c) : modules[s.reg] \in Module

(* What a module holds, or is about to hold, fits its schema. *)
ValuesFit ==
  /\ \A r \in Regs : modules[r] \in Module => Fits(modules[r].schema, modules[r].values)
  /\ \A c \in Callers : Loading(c) =>
       \A id \in DOMAIN calls[c].schema : NulFree(calls[c].schema[id])
  /\ \A c \in Callers : calls[c].op = "loaded" => Fits(calls[c].schema, calls[c].values)

TypeInv == Typed /\ SavesRegistered /\ ValuesFit

LEMMA TakenBackType ==
  ASSUME Typed, NEW todo \in SUBSET SnapshotOf,
         \A s \in todo : modules[s.reg] \in Module
  PROVE  TakenBack(todo) \in [Regs -> Module \cup {NoModule}]
<1>. SUFFICES ASSUME NEW r \in Regs
              PROVE  TakenBack(todo)[r] \in Module \cup {NoModule}
  BY DEF TakenBack
<1>1. CASE \E s \in todo : s.reg = r
  BY <1>1, FinishSaveType DEF TakenBack
<1>2. CASE ~ \E s \in todo : s.reg = r
  BY <1>2 DEF TakenBack, Typed
<1>. QED BY <1>1, <1>2

LEMMA TodoType ==
  ASSUME Typed, NEW c \in Callers
  PROVE  Todo(c) \subseteq SnapshotOf
BY CallTypes DEF Typed, Todo

LEMMA LookupType ==
  ASSUME NEW m \in Module, Fits(m.schema, m.values), NEW ext, NEW id \in DOMAIN m.schema
  PROVE  Lookup(m, ext, id) \in Values
<1>1. m.values \in KeyedValues
  BY DEF Module
<1>2. <<Global, id>> \in DOMAIN m.values
  BY DEF Fits
<1>. QED BY <1>1, <1>2, KeyedValuesElim DEF Lookup

LEMMA WrittenFits ==
  ASSUME NEW schema, NEW values \in KeyedValues, Fits(schema, values),
         NEW key, NEW v, Accepts(schema, key[2], v), NulFree(v)
  PROVE  Fits(schema, Written(values, key, v))
BY DEF Fits, Written

(* Settings are typed from the start, and every step keeps them so. *)
LEMMA TypeInit == Init => TypeInv
<1>. SUFFICES ASSUME Init PROVE TypeInv
  OBVIOUS
<1>1. Typed
  BY SettingsAssumption DEF Init, Typed, CallType
<1>2. SavesRegistered
  BY DEF Init, SavesRegistered, Todo, Idle
<1>3. ValuesFit
  BY NoModuleIsNoModule DEF Init, ValuesFit, Loading, Idle
<1>. QED BY <1>1, <1>2, <1>3 DEF TypeInv

LEMMA TypeRegistration ==
  ASSUME TypeInv, NEW c \in Callers,
         \/ \E r \in Regs, schema \in Schemas : BeginRegistration(c, r, schema)
         \/ Load(c) \/ FinishRegistration(c) \/ LoadPanics(c)
  PROVE  TypeInv'
<1>. USE DEF TypeInv
<1>1. Typed'
  <2>1. ASSUME NEW r \in Regs, NEW schema \in Schemas, BeginRegistration(c, r, schema)
        PROVE  Typed'
    BY <2>1, SettingsAssumption DEF BeginRegistration, CallType, Typed
  <2>2. CASE Load(c)
    <3>1. calls[c] \in [op : {"loading"}, reg : Regs, order : Nat, schema : Schemas]
      BY <2>2, CallTypes DEF Load, Typed
    <3>2. Restored(calls[c].schema, store[calls[c].reg]) \in KeyedValues
      BY <3>1, RestoredType DEF Typed
    <3>3. [op |-> "loaded", reg |-> calls[c].reg, order |-> calls[c].order,
           schema |-> calls[c].schema,
           values |-> Restored(calls[c].schema, store[calls[c].reg])] \in CallType
      BY <3>1, <3>2 DEF CallType
    <3>4. calls' \in [Callers -> CallType]
      BY <2>2, <3>3, CallsType DEF Load
    <3>. QED BY <2>2, <3>4 DEF Load, Typed
  <2>3. CASE FinishRegistration(c)
    <3>. DEFINE m == calls[c]
    <3>1. m \in [op : {"loaded"}, reg : Regs, order : Nat, schema : Schemas,
                 values : KeyedValues]
      BY <2>3, CallTypes DEF FinishRegistration, Typed
    <3>2. listed' \in Seq(Regs)
      <4>1. Place(m.order) \in 1..(Len(listed) + 1)
        BY <3>1, PlaceType
      <4>2. listed' = SubSeq(listed, 1, Place(m.order) - 1) \o <<m.reg>>
                        \o SubSeq(listed, Place(m.order), Len(listed))
        BY <2>3 DEF FinishRegistration
      <4>. QED BY <3>1, <4>1, <4>2, InsertType
    <3>3. modules' \in [Regs -> Module \cup {NoModule}]
      BY <2>3, <3>1, SettingsAssumption DEF FinishRegistration, Module, Typed
    <3>4. calls' \in [Callers -> CallType]
      BY <2>3, CallsType DEF FinishRegistration, CallType
    <3>5. pending' \subseteq Regs /\ durable' \in [Regs -> 0..MaxRevision]
      BY <2>3, <3>1, SettingsAssumption DEF FinishRegistration, Typed
    <3>. QED BY <2>3, <3>2, <3>3, <3>4, <3>5 DEF FinishRegistration, Typed
  <2>4. CASE LoadPanics(c)
    BY <2>4 DEF LoadPanics, CallType, PendingWithout, Typed
  <2>. QED BY <2>1, <2>2, <2>3, <2>4
<1>2. \A r \in Regs : modules[r] \in Module => modules'[r] \in Module
  <2>1. CASE FinishRegistration(c)
    <3>1. calls[c] \in [op : {"loaded"}, reg : Regs, order : Nat, schema : Schemas,
                        values : KeyedValues]
      BY <2>1, CallTypes DEF FinishRegistration, Typed
    <3>. QED BY <2>1, <3>1, SettingsAssumption DEF FinishRegistration, Module, Typed
  <2>. QED BY <2>1 DEF BeginRegistration, Load, LoadPanics
<1>3. \A d \in Callers : Todo(d)' \subseteq Todo(d)
  <2>1. /\ \A d \in Callers : d # c => calls'[d] = calls[d]
        /\ calls'[c].op \notin {"saved", "saving", "unwinding"}
    <3>1. CASE \E r \in Regs, schema \in Schemas : BeginRegistration(c, r, schema)
      BY <3>1 DEF BeginRegistration, Typed
    <3>2. CASE Load(c)
      BY <3>2 DEF Load, Typed
    <3>3. CASE FinishRegistration(c)
      BY <3>3 DEF FinishRegistration, Typed, Idle
    <3>4. CASE LoadPanics(c)
      BY <3>4 DEF LoadPanics, Typed, Idle
    <3>. QED BY <3>1, <3>2, <3>3, <3>4
  <2>. QED BY <2>1 DEF Todo
<1>4. \A d \in Callers : \A s \in Todo(d) : s.reg \in Regs
  BY TodoType DEF SnapshotOf
<1>5. SavesRegistered'
  BY <1>2, <1>3, <1>4 DEF SavesRegistered
<1>6. ValuesFit'
  <2>1. ASSUME NEW r \in Regs, NEW schema \in Schemas, BeginRegistration(c, r, schema)
        PROVE  ValuesFit'
    BY <2>1 DEF BeginRegistration, ValuesFit, Loading, Typed
  <2>2. CASE Load(c)
    <3>1. calls[c] \in [op : {"loading"}, reg : Regs, order : Nat, schema : Schemas]
      BY <2>2, CallTypes DEF Load, Typed
    <3>2. Fits(calls[c].schema, Restored(calls[c].schema, store[calls[c].reg]))
      BY <2>2, <3>1, RestoredFits DEF Load, Typed, ValuesFit, Loading
    <3>. QED BY <2>2, <3>1, <3>2 DEF Load, ValuesFit, Loading, Typed
  <2>3. CASE FinishRegistration(c)
    <3>1. calls[c] \in [op : {"loaded"}, reg : Regs, order : Nat, schema : Schemas,
                        values : KeyedValues]
      BY <2>3, CallTypes DEF FinishRegistration, Typed
    <3>2. \A r \in Regs : modules'[r] =
            IF r = calls[c].reg
              THEN [schema |-> calls[c].schema, values |-> calls[c].values,
                    dirty |-> FALSE, saving |-> FALSE, revision |-> 0,
                    order |-> calls[c].order]
              ELSE modules[r]
      BY <2>3, <3>1 DEF FinishRegistration, Typed
    <3>3. Fits(calls[c].schema, calls[c].values)
      BY <2>3 DEF FinishRegistration, ValuesFit
    <3>4. \A d \in Callers : calls'[d] = calls[d] \/ calls'[d] = Idle
      BY <2>3 DEF FinishRegistration, Typed
    <3>. QED BY <3>2, <3>3, <3>4 DEF ValuesFit, Loading, Idle
  <2>4. CASE LoadPanics(c)
    BY <2>4 DEF LoadPanics, ValuesFit, Loading, Typed, Idle
  <2>. QED BY <2>1, <2>2, <2>3, <2>4
<1>. QED BY <1>1, <1>5, <1>6

LEMMA TypeValues ==
  ASSUME TypeInv,
         \/ \E r \in Regs, key \in Keys, v \in Values : SetValue(r, key, v)
         \/ \E c \in Callers, r \in Regs, ext \in Scopes, id \in Ids : GetString(c, r, ext, id)
         \/ \E c \in Callers : Intern(c)
  PROVE  TypeInv'
<1>. USE DEF TypeInv
<1>1. ASSUME NEW r \in Regs, NEW key \in Keys, NEW v \in Values, SetValue(r, key, v)
      PROVE  TypeInv'
  <2>1. modules[r] \in Module
    BY <1>1, ModuleTypes DEF SetValue
  <2>2. Written(modules[r].values, key, v) \in KeyedValues
    BY <2>1, WrittenType DEF Module
  <2>3. modules[r].revision + 1 \in 0..MaxRevision
    BY <1>1, <2>1, SettingsAssumption DEF SetValue, Module
  <2>4. [schema |-> modules[r].schema, values |-> Written(modules[r].values, key, v),
         dirty |-> TRUE, saving |-> modules[r].saving,
         revision |-> modules[r].revision + 1, order |-> modules[r].order] \in Module
    BY <2>1, <2>2, <2>3 DEF Module
  <2>5. /\ modules' \in [Regs -> Module \cup {NoModule}]
        /\ \A q \in Regs : modules[q] \in Module => modules'[q] \in Module
    BY <1>1, <2>4 DEF SetValue, Typed
  <2>6. Typed'
    BY <1>1, <2>5 DEF SetValue, Typed
  <2>7. \A d \in Callers : Todo(d)' = Todo(d) /\ \A s \in Todo(d) : s.reg \in Regs
    BY <1>1, TodoType DEF SetValue, Todo, SnapshotOf
  <2>8. Fits(modules[r].schema, Written(modules[r].values, key, v))
    BY <1>1, <2>1, WrittenFits DEF SetValue, ValuesFit, Module
  <2>9. ValuesFit'
    BY <1>1, <2>1, <2>4, <2>8 DEF SetValue, ValuesFit, Loading, Typed
  <2>. QED BY <2>5, <2>6, <2>7, <2>9 DEF SavesRegistered
<1>2. ASSUME NEW c \in Callers, NEW r \in Regs, NEW ext \in Scopes, NEW id \in Ids,
             GetString(c, r, ext, id)
      PROVE  TypeInv'
  <2>1. modules[r] \in Module
    BY <1>2, ModuleTypes DEF GetString
  <2>2. Lookup(modules[r], ext, id) \in Values
    BY <1>2, <2>1, LookupType DEF GetString, ValuesFit
  <2>3. calls' \in [Callers -> CallType]
    BY <1>2, <2>2 DEF GetString, CallType, Typed
  <2>4. Typed'
    BY <1>2, <2>3 DEF GetString, Typed
  <2>5. \A d \in Callers : Todo(d)' \subseteq Todo(d)
    BY <1>2 DEF GetString, Todo, Typed, Idle
  <2>6. ValuesFit'
    BY <1>2 DEF GetString, ValuesFit, Loading, Typed
  <2>. QED BY <1>2, <2>4, <2>5, <2>6 DEF SavesRegistered, GetString
<1>3. ASSUME NEW c \in Callers, Intern(c)
      PROVE  TypeInv'
  <2>1. calls[c] \in [op : {"interning"}, value : Values]
    BY <1>3, CallTypes DEF Intern, Typed
  <2>2. interned' \in Seq(Values)
    BY <1>3, <2>1 DEF Intern, InternedWith, Typed
  <2>3. Typed'
    BY <1>3, <2>2 DEF Intern, CallType, Typed
  <2>4. \A d \in Callers : Todo(d)' \subseteq Todo(d)
    BY <1>3 DEF Intern, Todo, Typed, Idle
  <2>5. ValuesFit'
    BY <1>3 DEF Intern, ValuesFit, Loading, Typed, Idle
  <2>. QED BY <1>3, <2>3, <2>4, <2>5 DEF SavesRegistered, Intern
<1>. QED BY <1>1, <1>2, <1>3

(* The same for a step of a call that leaves the calls of others alone. *)
LEMMA TodoOfOthers ==
  ASSUME NEW c \in Callers, NEW d \in Callers, d # c, Typed,
         NEW call, calls' = [calls EXCEPT ![c] = call]
  PROVE  calls'[d] = calls[d] /\ Todo(d)' = Todo(d)
BY DEF Typed, Todo

FlushAction(c) ==
  \/ BeginFlush(c) \/ Save(c) \/ SaveReturns(c)
  \/ SavePanics(c) \/ SavedPanics(c) \/ Unwind(c)

(* What every step of a flush does: it changes the marks of registered modules
   and nothing else of them, and its own call. *)
OnlyMarks ==
  /\ modules' \in [Regs -> Module \cup {NoModule}]
  /\ \A r \in Regs : modules[r] \in Module =>
       /\ modules'[r] \in Module
       /\ modules'[r].schema = modules[r].schema
       /\ modules'[r].values = modules[r].values
       /\ modules'[r].revision = modules[r].revision
       /\ modules'[r].order = modules[r].order
  /\ \A r \in Regs : modules[r] \notin Module => modules'[r] = modules[r]

FlushOps == {"idle", "saving", "saved", "unwinding"}

MovesOn(c) ==
  /\ calls[c].op \in FlushOps
  /\ \E call \in CallType : calls' = [calls EXCEPT ![c] = call] /\ call.op \in FlushOps
  /\ \A s \in Todo(c)' : s \in SnapshotOf /\ modules[s.reg] \in Module

FlushStep(c) ==
  /\ OnlyMarks /\ MovesOn(c)
  /\ listed' = listed /\ pending' = pending /\ next_order' = next_order
  /\ interned' = interned /\ restarts' = restarts
  /\ store' \in [Regs -> KeyedValues] /\ durable' \in [Regs -> 0..MaxRevision]

LEMMA FlushEffect ==
  ASSUME TypeInv, NEW c \in Callers,
         FlushAction(c)
  PROVE  FlushStep(c)
<1>. USE DEF TypeInv, OnlyMarks, MovesOn, FlushStep, FlushOps, FlushAction
<1>1. ASSUME NEW m \in Module, NEW revision, NEW succeeded \in BOOLEAN
      PROVE  /\ FinishSave(m, revision, succeeded) \in Module
             /\ FinishSave(m, revision, succeeded).schema = m.schema
             /\ FinishSave(m, revision, succeeded).values = m.values
             /\ FinishSave(m, revision, succeeded).revision = m.revision
             /\ FinishSave(m, revision, succeeded).order = m.order
  <2>1. FinishSave(m, revision, succeeded) \in Module
    BY FinishSaveType
  <2>. QED BY <2>1 DEF FinishSave, Marked
<1>2. Idle \in CallType
  BY DEF CallType
<1>3. ASSUME NEW s \in SnapshotOf, modules[s.reg] \in Module, NEW succeeded \in BOOLEAN,
             modules' = [modules EXCEPT ![s.reg] = FinishSave(@, s.revision, succeeded)]
      PROVE  OnlyMarks
  <2>1. s.reg \in Regs
    BY DEF SnapshotOf
  <2>. QED BY <1>1, <1>3, <2>1 DEF Typed
<1>4. \A d \in Callers : \A s \in Todo(d) : s \in SnapshotOf /\ modules[s.reg] \in Module
  BY TodoType DEF SavesRegistered
<1>5. calls[c].op \in FlushOps
  <2>1. CASE BeginFlush(c)
    BY <2>1 DEF BeginFlush, Idle
  <2>2. CASE Save(c) \/ SavePanics(c)
    BY <2>2 DEF Save, SavePanics
  <2>3. CASE SaveReturns(c) \/ SavedPanics(c) \/ Unwind(c)
    BY <2>3 DEF SaveReturns, SavedPanics, Unwind
  <2>. QED BY <2>1, <2>2, <2>3
<1>6. FlushStep(c)
  <2>1. CASE BeginFlush(c)
    <3>1. \A r \in ToSave : r \in Regs /\ modules[r] \in Module
      BY ModuleTypes DEF ToSave
    <3>2. \A r \in ToSave : Snapshot(r) \in SnapshotOf /\ Snapshot(r).reg = r
      BY <3>1 DEF Snapshot, SnapshotOf, Module
    <3>3. OnlyMarks
      BY <2>1, <3>1, MarkedType DEF BeginFlush, Marked, Typed
    <3>4. [op |-> "saving", todo |-> {Snapshot(r) : r \in ToSave}] \in CallType
      BY <3>2 DEF CallType
    <3>5. Todo(c)' = {Snapshot(r) : r \in ToSave}
      BY <2>1 DEF BeginFlush, Todo, Typed
    <3>6. MovesOn(c)
      BY <2>1, <3>1, <3>2, <3>4, <3>5, <1>5 DEF BeginFlush
    <3>. QED BY <2>1, <3>3, <3>6 DEF BeginFlush, Typed
  <2>2. CASE Save(c)
    <3>1. calls[c] \in [op : {"saving", "unwinding"}, todo : SUBSET SnapshotOf]
      BY <2>2, CallTypes DEF Save, Typed
    <3>2. PICK s \in calls[c].todo :
            /\ store' = [store EXCEPT ![s.reg] = s.values]
            /\ durable' = [durable EXCEPT ![s.reg] = s.revision]
            /\ calls' = [calls EXCEPT ![c] =
                 [op |-> "saved", at |-> s, todo |-> calls[c].todo \ {s}]]
      BY <2>2 DEF Save
    <3>3. s \in SnapshotOf
      BY <3>1, <3>2
    <3>4. [op |-> "saved", at |-> s, todo |-> calls[c].todo \ {s}] \in CallType
      BY <3>1, <3>3 DEF CallType
    <3>5. Todo(c)' = calls[c].todo /\ Todo(c) = calls[c].todo
      BY <2>2, <3>2 DEF Save, Todo, Typed
    <3>6. MovesOn(c)
      BY <3>2, <3>4, <3>5, <1>4, <1>5
    <3>7. store' \in [Regs -> KeyedValues] /\ durable' \in [Regs -> 0..MaxRevision]
      BY <3>2, <3>3 DEF SnapshotOf, Typed
    <3>. QED BY <2>2, <3>6, <3>7 DEF Save, Typed
  <2>3. CASE SaveReturns(c)
    <3>1. calls[c] \in [op : {"saved"}, at : SnapshotOf, todo : SUBSET SnapshotOf]
      BY <2>3, CallTypes DEF SaveReturns, Typed
    <3>2. Todo(c) = calls[c].todo \cup {calls[c].at}
      BY <3>1 DEF Todo
    <3>3. OnlyMarks
      BY <2>3, <3>1, <3>2, <1>3, <1>4 DEF SaveReturns
    <3>4. MovesOn(c)
      <4>. DEFINE call == IF calls[c].todo = {} THEN Idle
                          ELSE [op |-> "saving", todo |-> calls[c].todo]
      <4>1. call \in CallType /\ call.op \in {"idle", "saving"}
        BY <3>1, <1>2 DEF CallType, Idle
      <4>2. calls' = [calls EXCEPT ![c] = call]
        BY <2>3 DEF SaveReturns
      <4>3. Todo(c)' \subseteq Todo(c)
        BY <4>2, <3>2 DEF Todo, Typed, Idle
      <4>. QED BY <4>1, <4>2, <4>3, <1>4, <1>5
    <3>. QED BY <2>3, <3>3, <3>4 DEF SaveReturns, Typed
  <2>4. ASSUME NEW s \in Todo(c), NEW rest \in SUBSET Todo(c), FailSave(c, s, rest)
        PROVE  FlushStep(c)
    <3>1. OnlyMarks
      BY <2>4, <1>3, <1>4 DEF FailSave
    <3>2. [op |-> "unwinding", todo |-> rest] \in CallType
      BY <1>4 DEF CallType
    <3>3. Todo(c)' = rest
      BY <2>4 DEF FailSave, Todo, Typed
    <3>4. MovesOn(c)
      BY <2>4, <3>2, <3>3, <1>4, <1>5 DEF FailSave
    <3>. QED BY <2>4, <3>1, <3>4 DEF FailSave, Typed
  <2>5. CASE SavePanics(c)
    <3>1. Todo(c) = calls[c].todo
      BY <2>5 DEF SavePanics, Todo
    <3>. QED BY <2>5, <3>1, <2>4 DEF SavePanics
  <2>6. CASE SavedPanics(c)
    <3>1. Todo(c) = calls[c].todo \cup {calls[c].at}
      BY <2>6 DEF SavedPanics, Todo
    <3>. QED BY <2>6, <3>1, <2>4 DEF SavedPanics
  <2>7. CASE Unwind(c)
    <3>1. calls[c] \in [op : {"saving", "unwinding"}, todo : SUBSET SnapshotOf]
      BY <2>7, CallTypes DEF Unwind, Typed
    <3>2. Todo(c) = calls[c].todo
      BY <2>7 DEF Unwind, Todo
    <3>3. \A s \in calls[c].todo : s.reg \in Regs /\ modules[s.reg] \in Module
      BY <3>2, <1>4 DEF SnapshotOf
    <3>4. OnlyMarks
      <4>1. modules' \in [Regs -> Module \cup {NoModule}]
        BY <2>7, <3>1, <3>3, TakenBackType DEF Unwind
      <4>2. \A r \in Regs : \/ modules'[r] = modules[r]
                            \/ /\ modules[r] \in Module
                               /\ \E revision : modules'[r] = FinishSave(modules[r], revision, FALSE)
        BY <2>7, <3>3 DEF Unwind, TakenBack
      <4>3. ASSUME NEW r \in Regs, modules[r] \in Module
            PROVE  /\ modules'[r] \in Module
                   /\ modules'[r].schema = modules[r].schema
                   /\ modules'[r].values = modules[r].values
                   /\ modules'[r].revision = modules[r].revision
                   /\ modules'[r].order = modules[r].order
        <5>1. CASE modules'[r] = modules[r]
          BY <4>3, <5>1
        <5>2. CASE \E revision : modules'[r] = FinishSave(modules[r], revision, FALSE)
          <6>1. PICK revision : modules'[r] = FinishSave(modules[r], revision, FALSE)
            BY <5>2
          <6>. QED BY <4>3, <6>1, FinishSaveType DEF FinishSave, Marked, Module
        <5>. QED BY <4>2, <5>1, <5>2
      <4>. QED BY <4>1, <4>2, <4>3
    <3>5. Todo(c)' = {}
      BY <2>7 DEF Unwind, Todo, Typed, Idle
    <3>6. MovesOn(c)
      BY <2>7, <3>5, <1>2, <1>5 DEF Unwind, Idle
    <3>. QED BY <2>7, <3>4, <3>6 DEF Unwind, Typed
  <2>. QED BY <2>1, <2>2, <2>3, <2>5, <2>6, <2>7
<1>. QED BY <1>6

LEMMA TypeFlush ==
  ASSUME TypeInv, NEW c \in Callers, FlushStep(c)
  PROVE  TypeInv'
<1>. USE DEF TypeInv, OnlyMarks, MovesOn, FlushStep, FlushOps
<1>4. \A d \in Callers : \A s \in Todo(d) : s \in SnapshotOf /\ modules[s.reg] \in Module
  BY TodoType DEF SavesRegistered
<1>6. Typed'
  BY CallsType DEF Typed
<1>7. SavesRegistered'
  <2>1. \A d \in Callers : \A s \in Todo(d)' : s \in SnapshotOf /\ modules[s.reg] \in Module
    <3>1. PICK call \in CallType : calls' = [calls EXCEPT ![c] = call]
      OBVIOUS
    <3>2. \A d \in Callers : d # c => Todo(d)' = Todo(d)
      BY <3>1, TodoOfOthers
    <3>3. \A s \in Todo(c)' : s \in SnapshotOf /\ modules[s.reg] \in Module
      OBVIOUS
    <3>. QED BY <3>2, <3>3, <1>4
  <2>. QED BY <2>1 DEF SavesRegistered, SnapshotOf
<1>8. ValuesFit'
  <2>1. \A d \in Callers : calls'[d].op \in {"loading", "loaded"} => calls'[d] = calls[d]
    BY DEF Typed
  <2>2. \A r \in Regs : modules'[r] \in Module =>
          modules[r] \in Module /\ modules'[r].schema = modules[r].schema
          /\ modules'[r].values = modules[r].values
    BY NoModuleIsNoModule DEF Typed
  <2>. QED BY <2>1, <2>2 DEF ValuesFit, Loading
<1>. QED BY <1>6, <1>7, <1>8

LEMMA TypeRestart ==
  ASSUME TypeInv, Restart
  PROVE  TypeInv'
<1>1. Typed'
  BY SettingsAssumption DEF TypeInv, Typed, Restart, CallType
<1>2. SavesRegistered'
  BY DEF Restart, SavesRegistered, Todo, Idle
<1>3. ValuesFit'
  BY NoModuleIsNoModule DEF Restart, ValuesFit, Loading, Idle
<1>. QED BY <1>1, <1>2, <1>3 DEF TypeInv

LEMMA TypeStep ==
  ASSUME TypeInv, [Next]_vars
  PROVE  TypeInv'
<1>1. CASE \E c \in Callers : Call(c) \/ Proceed(c)
  BY <1>1, TypeRegistration, TypeValues, FlushEffect, TypeFlush DEF Call, Proceed, FlushAction
<1>2. CASE \E r \in Regs, key \in Keys, v \in Values : SetValue(r, key, v)
  BY <1>2, TypeValues
<1>3. CASE Restart
  BY <1>3, TypeRestart
<1>4. CASE UNCHANGED vars
  BY <1>4 DEF vars, TypeInv, Typed, SavesRegistered, Todo, ValuesFit, Loading
<1>. QED BY <1>1, <1>2, <1>3, <1>4 DEF Next

(* Every reachable state is typed, and every value a module holds is one its
   schema accepts, for any schemas, stored values, callers and bounds. *)
THEOREM TypeCorrect == Spec => []TypeOK
<1>1. TypeInv => TypeOK
  BY RegisteredModules DEF TypeInv, ValuesFit, TypeOK
<1>. QED BY <1>1, TypeInit, TypeStep, PTL DEF Spec

-----------------------------------------------------------------------------
(* Who may touch a module. *)

(* The snapshot being saved has left the rest of its flush. *)
AtIsOut == \A c \in Callers : calls[c].op = "saved" => calls[c].at \notin calls[c].todo

OwnerInv == TypeInv /\ PendingHasOneOwner /\ SavingHasOneOwner /\ AtIsOut

LEMMA RegisteredByFlush ==
  ASSUME Typed, OnlyMarks
  PROVE  Registered' = Registered
BY NoModuleIsNoModule DEF Typed, Registered, OnlyMarks

(* A step that changes no registration leaves the owners of pending ids. *)
LEMMA PendingFrame ==
  ASSUME PendingHasOneOwner, pending' = pending, Registered' = Registered,
         \A c \in Callers : /\ Loading(c)' <=> Loading(c)
                            /\ Loading(c) => calls'[c].reg = calls[c].reg
  PROVE  PendingHasOneOwner'
BY DEF PendingHasOneOwner

LEMMA PendingStep ==
  ASSUME TypeInv, PendingHasOneOwner, Next
  PROVE  PendingHasOneOwner'
<1>. USE DEF TypeInv
<1>1. ASSUME NEW c \in Callers, NEW r \in Regs, NEW schema \in Schemas,
             BeginRegistration(c, r, schema)
      PROVE  PendingHasOneOwner'
  <2>1. \A d \in Callers : d # c => calls'[d] = calls[d]
    BY <1>1 DEF BeginRegistration, Typed
  <2>2. calls'[c].op = "loading" /\ calls'[c].reg = r /\ ~Loading(c)
    BY <1>1 DEF BeginRegistration, Typed, Loading, Idle
  <2>3. pending' = pending \cup {r} /\ r \notin pending /\ r \notin Registered
        /\ Registered' = Registered
    BY <1>1 DEF BeginRegistration, Free, Registered
  <2>. QED BY <2>1, <2>2, <2>3 DEF PendingHasOneOwner, Loading
<1>2. ASSUME NEW c \in Callers, Load(c)
      PROVE  PendingHasOneOwner'
  <2>1. \A d \in Callers : d # c => calls'[d] = calls[d]
    BY <1>2 DEF Load, Typed
  <2>2. Loading(c) /\ Loading(c)' /\ calls'[c].reg = calls[c].reg
    BY <1>2 DEF Load, Typed, Loading
  <2>. QED BY <1>2, <2>1, <2>2, PendingFrame DEF Load, Loading, Registered
<1>3. ASSUME NEW c \in Callers, FinishRegistration(c) \/ LoadPanics(c)
      PROVE  PendingHasOneOwner'
  <2>1. \A d \in Callers : d # c => calls'[d] = calls[d]
    BY <1>3 DEF FinishRegistration, LoadPanics, Typed
  <2>2. Loading(c) /\ ~Loading(c)' /\ pending' = pending \ {calls[c].reg}
    BY <1>3 DEF FinishRegistration, LoadPanics, PendingWithout, Typed, Loading, Idle
  <2>3. Registered' \subseteq Registered \cup {calls[c].reg}
    BY <1>3 DEF FinishRegistration, LoadPanics, Registered, Typed
  <2>. QED BY <2>1, <2>2, <2>3 DEF PendingHasOneOwner, Loading
<1>4. ASSUME NEW r \in Regs, NEW key \in Keys, NEW v \in Values, SetValue(r, key, v)
      PROVE  PendingHasOneOwner'
  <2>1. Registered' = Registered
    <3>1. modules[r] # NoModule /\ modules[r] \in Module
      BY <1>4, ModuleTypes DEF SetValue, Registered
    <3>2. modules'[r] # NoModule
      BY <1>4, <3>1 DEF SetValue, NoModule, Typed
    <3>. QED BY <1>4, <3>1, <3>2 DEF SetValue, Typed, Registered
  <2>. QED BY <1>4, <2>1, PendingFrame DEF SetValue, Loading
<1>5. ASSUME NEW c \in Callers,
             \/ \E r \in Regs, ext \in Scopes, id \in Ids : GetString(c, r, ext, id)
             \/ Intern(c)
      PROVE  PendingHasOneOwner'
  <2>1. \A d \in Callers : d # c => calls'[d] = calls[d]
    BY <1>5 DEF GetString, Intern, Typed
  <2>2. ~Loading(c) /\ ~Loading(c)'
    BY <1>5 DEF GetString, Intern, Typed, Loading, Idle
  <2>3. pending' = pending /\ Registered' = Registered
    BY <1>5 DEF GetString, Intern, Registered
  <2>. QED BY <2>1, <2>2, <2>3, PendingFrame DEF Loading
<1>6. ASSUME NEW c \in Callers, FlushStep(c)
      PROVE  PendingHasOneOwner'
  <2>1. \A d \in Callers : d # c => calls'[d] = calls[d]
    BY <1>6 DEF FlushStep, MovesOn, Typed
  <2>2. ~Loading(c) /\ ~Loading(c)'
    BY <1>6 DEF FlushStep, MovesOn, FlushOps, Typed, Loading
  <2>3. pending' = pending /\ Registered' = Registered
    BY <1>6, RegisteredByFlush DEF FlushStep
  <2>. QED BY <2>1, <2>2, <2>3, PendingFrame DEF Loading
<1>7. CASE Restart
  BY <1>7 DEF Restart, PendingHasOneOwner, Loading, Registered, Idle
<1>. QED BY <1>1, <1>2, <1>3, <1>4, <1>5, <1>6, <1>7, FlushEffect DEF Next, Call, Proceed, FlushAction

(* A step that keeps the snapshots held and the marks of the registered modules,
   and registers a module only unmarked. *)
LEMMA SavingFrame ==
  ASSUME TypeInv, SavingHasOneOwner,
         \A c \in Callers : Todo(c)' = Todo(c),
         \A r \in Registered' : \/ r \in Registered /\ (modules'[r].saving <=> modules[r].saving)
                                \/ r \notin Registered /\ ~modules'[r].saving
  PROVE  SavingHasOneOwner'
<1>1. \A c \in Callers : \A s \in Todo(c) : s.reg \in Registered
  BY RegisteredModules, TodoType DEF TypeInv, SavesRegistered, SnapshotOf
<1>. QED BY <1>1 DEF SavingHasOneOwner

(* A call that lets go of some of its snapshots, and takes off their marks. *)
LEMMA SavingRelease ==
  ASSUME SavingHasOneOwner, NEW c \in Callers, NEW S \in SUBSET Todo(c),
         \A d \in Callers : d # c => Todo(d)' = Todo(d),
         Todo(c)' = Todo(c) \ S,
         Registered' = Registered,
         \A r \in Registered :
           modules'[r].saving <=> modules[r].saving /\ ~ \E s \in S : s.reg = r
  PROVE  SavingHasOneOwner'
BY DEF SavingHasOneOwner

(* The steps that save nothing. *)
LEMMA SavingOutsideFlush ==
  ASSUME OwnerInv, Next, ~ \E c \in Callers : FlushAction(c)
  PROVE  SavingHasOneOwner'
<1>. USE DEF OwnerInv, TypeInv
<1>1. ASSUME NEW c \in Callers,
             \/ \E r \in Regs, schema \in Schemas : BeginRegistration(c, r, schema)
             \/ Load(c) \/ LoadPanics(c) \/ Intern(c)
             \/ \E r \in Regs, ext \in Scopes, id \in Ids : GetString(c, r, ext, id)
      PROVE  SavingHasOneOwner'
  <2>1. \A d \in Callers : d # c => calls'[d] = calls[d]
    BY <1>1 DEF BeginRegistration, Load, LoadPanics, Intern, GetString, Typed
  <2>2. {calls[c].op, calls'[c].op} \cap {"saving", "saved", "unwinding"} = {}
    BY <1>1 DEF BeginRegistration, Load, LoadPanics, Intern, GetString, Typed, Idle
  <2>3. modules' = modules
    BY <1>1 DEF BeginRegistration, Load, LoadPanics, Intern, GetString
  <2>4. \A d \in Callers : Todo(d)' = Todo(d)
    BY <2>1, <2>2 DEF Todo
  <2>. QED BY <2>3, <2>4, SavingFrame DEF Registered
<1>2. ASSUME NEW c \in Callers, FinishRegistration(c)
      PROVE  SavingHasOneOwner'
  <2>1. \A d \in Callers : d # c => calls'[d] = calls[d]
    BY <1>2 DEF FinishRegistration, Typed
  <2>2. {calls[c].op, calls'[c].op} \cap {"saving", "saved", "unwinding"} = {}
    BY <1>2 DEF FinishRegistration, Typed, Idle
  <2>3. \A d \in Callers : Todo(d)' = Todo(d)
    BY <2>1, <2>2 DEF Todo
  <2>4. calls[c].reg \in pending
    <3>1. calls[c] \in [op : {"loaded"}, reg : Regs, order : Nat, schema : Schemas,
                        values : KeyedValues]
      BY <1>2, CallTypes DEF FinishRegistration, Typed
    <3>. QED BY <1>2, <3>1 DEF FinishRegistration, PendingHasOneOwner, Loading
  <2>5. calls[c].reg \notin Registered
    BY <2>4 DEF PendingHasOneOwner
  <2>6. \A r \in Regs : modules'[r] =
          IF r = calls[c].reg
            THEN [schema |-> calls[c].schema, values |-> calls[c].values,
                  dirty |-> FALSE, saving |-> FALSE, revision |-> 0,
                  order |-> calls[c].order]
            ELSE modules[r]
    BY <1>2 DEF FinishRegistration, Typed
  <2>7. \A r \in Registered' : \/ r \in Registered /\ modules'[r] = modules[r]
                               \/ r \notin Registered /\ ~modules'[r].saving
    BY <2>5, <2>6 DEF Registered
  <2>. QED BY <2>3, <2>7, SavingFrame
<1>3. ASSUME NEW r \in Regs, NEW key \in Keys, NEW v \in Values, SetValue(r, key, v)
      PROVE  SavingHasOneOwner'
  <2>1. \A d \in Callers : Todo(d)' = Todo(d)
    BY <1>3 DEF SetValue, Todo
  <2>2. \A q \in Registered' : q \in Registered /\ (modules'[q].saving <=> modules[q].saving)
    <3>1. \A q \in Regs : q # r => modules'[q] = modules[q]
      BY <1>3 DEF SetValue, Typed
    <3>2. r \in Registered /\ (modules'[r].saving <=> modules[r].saving)
      BY <1>3 DEF SetValue, Typed
    <3>. QED BY <3>1, <3>2 DEF Registered
  <2>. QED BY <2>1, <2>2, SavingFrame
<1>4. CASE Restart
  BY <1>4 DEF Restart, SavingHasOneOwner, Registered
<1>. QED BY <1>1, <1>2, <1>3, <1>4 DEF Next, Call, Proceed, FlushAction

(* The steps of a flush, and what each lets go of. *)
LEMMA SavingInFlush ==
  ASSUME OwnerInv, NEW c \in Callers,
         FlushAction(c)
  PROVE  SavingHasOneOwner' /\ AtIsOut'
<1>. USE DEF OwnerInv, TypeInv, FlushAction
<1>1. FlushStep(c) /\ Registered' = Registered
  BY FlushEffect, RegisteredByFlush DEF FlushStep
<1>2. \A d \in Callers : d # c => calls'[d] = calls[d] /\ Todo(d)' = Todo(d)
  BY <1>1, TodoOfOthers DEF FlushStep, MovesOn
<1>3. \A d \in Callers : \A s \in Todo(d) : s.reg \in Registered /\ s.reg \in Regs
  BY RegisteredModules, TodoType DEF SavesRegistered, SnapshotOf
<1>4. ASSUME calls'[c].op # "saved" PROVE AtIsOut'
  BY <1>2, <1>4 DEF AtIsOut
<1>5. CASE BeginFlush(c)
  <2>1. Todo(c) = {} /\ Todo(c)' = {Snapshot(r) : r \in ToSave}
    BY <1>5 DEF BeginFlush, Todo, Typed, Idle
  <2>2. \A s \in Todo(c)' : s.reg \in ToSave /\ s = Snapshot(s.reg)
    BY <2>1 DEF Snapshot
  <2>3. \A r \in ToSave : r \in Registered /\ Snapshot(r) \in Todo(c)' /\ Snapshot(r).reg = r
    BY <2>1 DEF Snapshot, ToSave
  <2>4. \A r \in ToSave : \A d \in Callers : \A s \in Todo(d) : s.reg # r
    BY DEF ToSave, SavingHasOneOwner
  <2>5. \A r \in Registered : modules'[r].saving <=> modules[r].saving \/ r \in ToSave
    BY <1>5 DEF BeginFlush, Marked, Registered
  <2>6. SavingHasOneOwner'
    BY <1>1, <1>2, <2>1, <2>2, <2>3, <2>4, <2>5 DEF SavingHasOneOwner
  <2>7. calls'[c].op # "saved"
    BY <1>5 DEF BeginFlush, Typed
  <2>. QED BY <2>6, <2>7, <1>4
<1>6. CASE Save(c)
  <2>1. PICK s \in calls[c].todo :
          calls' = [calls EXCEPT ![c] =
                      [op |-> "saved", at |-> s, todo |-> calls[c].todo \ {s}]]
    BY <1>6 DEF Save
  <2>2. Todo(c)' = Todo(c)
    BY <1>6, <2>1 DEF Save, Todo, Typed
  <2>3. modules' = modules
    BY <1>6 DEF Save
  <2>4. SavingHasOneOwner'
    BY <1>1, <1>2, <2>2, <2>3, SavingFrame
  <2>5. AtIsOut'
    BY <1>2, <2>1 DEF AtIsOut, Typed
  <2>. QED BY <2>4, <2>5
<1>7. ASSUME NEW s \in Todo(c), NEW succeeded \in BOOLEAN,
             modules' = [modules EXCEPT ![s.reg] = FinishSave(@, s.revision, succeeded)],
             Todo(c)' = Todo(c) \ {s}, calls'[c].op # "saved"
      PROVE  SavingHasOneOwner' /\ AtIsOut'
  <2>1. \A r \in Registered : modules'[r].saving <=> modules[r].saving /\ r # s.reg
    BY <1>3, <1>7 DEF FinishSave, Marked, Registered, Typed
  <2>2. SavingHasOneOwner'
    <3>. DEFINE S == {s}
    <3>1. S \in SUBSET Todo(c) /\ Todo(c)' = Todo(c) \ S
      BY <1>7
    <3>2. \A r \in Registered :
            modules'[r].saving <=> modules[r].saving /\ ~ \E t \in S : t.reg = r
      BY <2>1
    <3>. HIDE DEF S
    <3>. QED BY <1>1, <1>2, <3>1, <3>2, SavingRelease
  <2>. QED BY <2>2, <1>4, <1>7
<1>8. CASE SaveReturns(c)
  <2>. DEFINE at == calls[c].at
  <2>1. at \in Todo(c) /\ Todo(c) \ {at} = calls[c].todo
    BY <1>8 DEF SaveReturns, Todo, AtIsOut
  <2>2. calls'[c] = IF calls[c].todo = {} THEN Idle
                    ELSE [op |-> "saving", todo |-> calls[c].todo]
    BY <1>8 DEF SaveReturns, Typed
  <2>3. Todo(c)' = Todo(c) \ {at} /\ calls'[c].op # "saved"
    BY <2>1, <2>2 DEF Todo, Idle
  <2>4. modules' = [modules EXCEPT ![at.reg] = FinishSave(@, at.revision, TRUE)]
    BY <1>8 DEF SaveReturns
  <2>. QED BY <2>1, <2>3, <2>4, <1>7
<1>9. ASSUME NEW s \in Todo(c), FailSave(c, s, Todo(c) \ {s})
      PROVE  SavingHasOneOwner' /\ AtIsOut'
  <2>1. Todo(c)' = Todo(c) \ {s} /\ calls'[c].op # "saved"
    BY <1>9 DEF FailSave, Todo, Typed
  <2>2. modules' = [modules EXCEPT ![s.reg] = FinishSave(@, s.revision, FALSE)]
    BY <1>9 DEF FailSave
  <2>. QED BY <2>1, <2>2, <1>7
<1>10. CASE SavePanics(c)
  <2>1. Todo(c) = calls[c].todo
    BY <1>10 DEF SavePanics, Todo
  <2>. QED BY <1>9, <1>10, <2>1 DEF SavePanics
<1>11. CASE SavedPanics(c)
  <2>1. calls[c].at \in Todo(c) /\ Todo(c) \ {calls[c].at} = calls[c].todo
    BY <1>11 DEF SavedPanics, Todo, AtIsOut
  <2>. QED BY <1>9, <1>11, <2>1 DEF SavedPanics
<1>12. CASE Unwind(c)
  <2>1. Todo(c) = calls[c].todo /\ Todo(c)' = {} /\ calls'[c].op # "saved"
    BY <1>12 DEF Unwind, Todo, Typed, Idle
  <2>2. \A r \in Registered :
          modules'[r].saving <=> modules[r].saving /\ ~ \E s \in Todo(c) : s.reg = r
    BY <1>12, <2>1 DEF Unwind, TakenBack, FinishSave, Marked, Registered
  <2>3. SavingHasOneOwner'
    <3>. DEFINE S == Todo(c)
    <3>1. S \in SUBSET Todo(c) /\ Todo(c)' = Todo(c) \ S
      BY <2>1
    <3>. HIDE DEF S
    <3>2. S = Todo(c)
      BY DEF S
    <3>. QED BY <1>1, <1>2, <2>2, <3>1, <3>2, SavingRelease
  <2>. QED BY <2>1, <2>3, <1>4
<1>. QED BY <1>5, <1>6, <1>8, <1>10, <1>11, <1>12

LEMMA AtIsOutOutsideFlush ==
  ASSUME OwnerInv, Next, ~ \E c \in Callers : FlushAction(c)
  PROVE  AtIsOut'
<1>. USE DEF OwnerInv, TypeInv
<1>1. ASSUME NEW c \in Callers,
             \/ \E r \in Regs, schema \in Schemas : BeginRegistration(c, r, schema)
             \/ Load(c) \/ FinishRegistration(c) \/ LoadPanics(c) \/ Intern(c)
             \/ \E r \in Regs, ext \in Scopes, id \in Ids : GetString(c, r, ext, id)
      PROVE  AtIsOut'
  <2>1. (\A d \in Callers : d # c => calls'[d] = calls[d]) /\ calls'[c].op # "saved"
    <3>1. CASE \E r \in Regs, schema \in Schemas : BeginRegistration(c, r, schema)
      BY <3>1 DEF BeginRegistration, Typed
    <3>2. CASE Load(c)
      BY <3>2 DEF Load, Typed
    <3>3. CASE FinishRegistration(c)
      BY <3>3 DEF FinishRegistration, Typed, Idle
    <3>4. CASE LoadPanics(c)
      BY <3>4 DEF LoadPanics, Typed, Idle
    <3>5. CASE Intern(c)
      BY <3>5 DEF Intern, Typed, Idle
    <3>6. CASE \E r \in Regs, ext \in Scopes, id \in Ids : GetString(c, r, ext, id)
      BY <3>6 DEF GetString, Typed
    <3>. QED BY <1>1, <3>1, <3>2, <3>3, <3>4, <3>5, <3>6
  <2>. QED BY <2>1 DEF AtIsOut
<1>2. CASE \E r \in Regs, key \in Keys, v \in Values : SetValue(r, key, v)
  BY <1>2 DEF SetValue, AtIsOut
<1>3. CASE Restart
  BY <1>3 DEF Restart, AtIsOut, Idle
<1>. QED BY <1>1, <1>2, <1>3 DEF Next, Call, Proceed, FlushAction

LEMMA OwnerStep ==
  ASSUME OwnerInv, [Next]_vars
  PROVE  OwnerInv'
<1>1. TypeInv'
  BY TypeStep DEF OwnerInv
<1>2. ASSUME Next PROVE PendingHasOneOwner' /\ SavingHasOneOwner' /\ AtIsOut'
  <2>1. PendingHasOneOwner'
    BY <1>2, PendingStep DEF OwnerInv
  <2>. QED BY <1>2, <2>1, SavingInFlush, SavingOutsideFlush, AtIsOutOutsideFlush
<1>3. CASE UNCHANGED vars
  BY <1>3 DEF vars, OwnerInv, TypeInv, Typed, SavesRegistered, ValuesFit, Todo,
     PendingHasOneOwner, SavingHasOneOwner, AtIsOut, Loading, Registered
<1>. QED BY <1>1, <1>2, <1>3 DEF OwnerInv

LEMMA OwnerInit == Init => OwnerInv
<1>. SUFFICES ASSUME Init PROVE OwnerInv
  OBVIOUS
<1>1. TypeInv
  BY TypeInit
<1>2. PendingHasOneOwner /\ SavingHasOneOwner /\ AtIsOut
  BY DEF Init, PendingHasOneOwner, SavingHasOneOwner, AtIsOut, Todo, Loading,
     Registered, Idle
<1>. QED BY <1>1, <1>2 DEF OwnerInv

(* No two calls ever register one id, and no id stays pending once its
   registration has returned or panicked. *)
THEOREM PendingOwned == Spec => []PendingHasOneOwner
<1>1. OwnerInv => PendingHasOneOwner
  BY DEF OwnerInv
<1>. QED BY <1>1, OwnerInit, OwnerStep, PTL DEF Spec

(* No two saves of a module are ever in flight, and none is left marked by a
   flush that has returned or panicked. *)
THEOREM SavingOwned == Spec => []SavingHasOneOwner
<1>1. OwnerInv => SavingHasOneOwner
  BY DEF OwnerInv
<1>. QED BY <1>1, OwnerInit, OwnerStep, PTL DEF Spec

-----------------------------------------------------------------------------
(* What the store holds. *)

(* The stored revision follows the live one, and reaches it before a module is
   reported clean; a snapshot lies between the two, and is the live content as
   long as its revision is. *)
DurableInv ==
  /\ \A r \in Regs : /\ durable[r] <= modules[r].revision
                     /\ ~modules[r].dirty => durable[r] = modules[r].revision
  /\ \A c \in Callers : \A s \in Todo(c) :
       /\ modules[s.reg].dirty
       /\ durable[s.reg] <= s.revision
       /\ s.revision <= modules[s.reg].revision
       /\ s.revision = modules[s.reg].revision => s.values = modules[s.reg].values
  /\ \A c \in Callers : calls[c].op = "saved" =>
       durable[calls[c].at.reg] = calls[c].at.revision

(* Where the stored revision is the live one, registering again gives back the
   live values; a registration that has loaded still holds what is stored. *)
StoreInv ==
  /\ \A r \in Registered : durable[r] = modules[r].revision =>
       Restored(modules[r].schema, store[r]) = modules[r].values
  /\ \A c \in Callers : calls[c].op = "loaded" =>
       calls[c].values = Restored(calls[c].schema, store[calls[c].reg])

IInv == OwnerInv /\ DurableInv /\ StoreInv

LEMMA Unregistered ==
  ASSUME IInv, NEW r \in Regs, r \notin Registered
  PROVE  modules[r] = NoModule /\ durable[r] = 0
BY DEF IInv, OwnerInv, TypeInv, Typed, DurableInv, Registered, NoModule

(* What each kind of step does to the state the promise is about. *)
LEMMA FinishRegistrationEffect ==
  ASSUME IInv, NEW c \in Callers, FinishRegistration(c)
  PROVE  /\ calls[c].reg \in Regs \ Registered
         /\ modules' = [modules EXCEPT ![calls[c].reg] =
              [schema |-> calls[c].schema, values |-> calls[c].values, dirty |-> FALSE,
               saving |-> FALSE, revision |-> 0, order |-> calls[c].order]]
         /\ durable' = durable /\ store' = store
         /\ \A d \in Callers : d # c => calls'[d] = calls[d]
         /\ calls'[c] = Idle
<1>. USE DEF IInv, OwnerInv, TypeInv
<1>1. calls[c] \in [op : {"loaded"}, reg : Regs, order : Nat, schema : Schemas,
                    values : KeyedValues]
  BY CallTypes DEF FinishRegistration, Typed
<1>2. calls[c].reg \in Regs \ Registered
  BY <1>1 DEF FinishRegistration, PendingHasOneOwner, Loading
<1>3. durable' = durable
  BY <1>1, <1>2, Unregistered DEF FinishRegistration, Typed
<1>. QED BY <1>1, <1>2, <1>3 DEF FinishRegistration, Typed

LEMMA SaveEffect ==
  ASSUME IInv, NEW c \in Callers, Save(c)
  PROVE  \E s \in Todo(c) :
           /\ s \in SnapshotOf /\ s.reg \in Registered
           /\ modules' = modules
           /\ store' = [store EXCEPT ![s.reg] = s.values]
           /\ durable' = [durable EXCEPT ![s.reg] = s.revision]
           /\ calls'[c].op = "saved" /\ calls'[c].at = s
           /\ \A d \in Callers : Todo(d)' = Todo(d) /\ (d # c => calls'[d] = calls[d])
<1>. USE DEF IInv, OwnerInv, TypeInv
<1>1. PICK s \in calls[c].todo :
        /\ store' = [store EXCEPT ![s.reg] = s.values]
        /\ durable' = [durable EXCEPT ![s.reg] = s.revision]
        /\ calls' = [calls EXCEPT ![c] =
             [op |-> "saved", at |-> s, todo |-> calls[c].todo \ {s}]]
  BY DEF Save
<1>2. s \in Todo(c) /\ Todo(c)' = Todo(c)
  BY <1>1 DEF Save, Todo, Typed
<1>3. s \in SnapshotOf /\ s.reg \in Registered
  BY <1>2, TodoType, RegisteredModules DEF SavesRegistered, SnapshotOf
<1>4. \A d \in Callers : d # c => calls'[d] = calls[d] /\ Todo(d)' = Todo(d)
  BY <1>1, TodoOfOthers
<1>5. calls'[c].op = "saved" /\ calls'[c].at = s
  BY <1>1 DEF Typed
<1>. QED BY <1>1, <1>2, <1>3, <1>4, <1>5 DEF Save

(* A save that returned, or a panic: the snapshots let go of leave their modules
   reported as changed, but for the one just saved whose module was not edited. *)
LEMMA ReleaseEffect ==
  ASSUME IInv, NEW c \in Callers,
         SaveReturns(c) \/ SavePanics(c) \/ SavedPanics(c) \/ Unwind(c)
  PROVE  /\ store' = store /\ durable' = durable
         /\ calls'[c].op # "saved"
         /\ Todo(c)' \subseteq Todo(c)
         /\ \A r \in Regs :
              \/ modules'[r].dirty <=> modules[r].dirty
              \/ /\ calls[c].op = "saved" /\ r = calls[c].at.reg
                 /\ calls[c].at \in Todo(c) /\ calls[c].at \notin Todo(c)'
                 /\ modules'[r].dirty <=> modules[r].revision # calls[c].at.revision
<1>. USE DEF IInv, OwnerInv, TypeInv
<1>1. CASE SaveReturns(c)
  <2>. DEFINE at == calls[c].at
  <2>1. at \in Todo(c) /\ Todo(c) = calls[c].todo \cup {at} /\ at \notin calls[c].todo
    BY <1>1 DEF SaveReturns, Todo, AtIsOut
  <2>2. calls'[c] = IF calls[c].todo = {} THEN Idle
                    ELSE [op |-> "saving", todo |-> calls[c].todo]
    BY <1>1 DEF SaveReturns, Typed
  <2>3. Todo(c)' = calls[c].todo /\ calls'[c].op # "saved"
    BY <2>2 DEF Todo, Idle
  <2>4. \A r \in Regs : r # at.reg => modules'[r] = modules[r]
    BY <1>1 DEF SaveReturns, Typed
  <2>5. at.reg \in Regs
    BY <2>1, TodoType DEF SnapshotOf
  <2>6. modules'[at.reg].dirty <=> modules[at.reg].revision # at.revision
    BY <1>1, <2>5 DEF SaveReturns, FinishSave, Marked, Typed
  <2>. QED BY <1>1, <2>1, <2>3, <2>4, <2>6 DEF SaveReturns
<1>2. ASSUME NEW s \in Todo(c), FailSave(c, s, Todo(c) \ {s})
      PROVE  /\ store' = store /\ durable' = durable
             /\ calls'[c].op # "saved"
             /\ Todo(c)' \subseteq Todo(c)
             /\ \A r \in Regs : modules'[r].dirty <=> modules[r].dirty
  <2>1. Todo(c)' \subseteq Todo(c) /\ calls'[c].op # "saved"
    BY <1>2 DEF FailSave, Todo, Typed
  <2>2. s.reg \in Regs /\ modules[s.reg].dirty
    BY TodoType DEF SnapshotOf, DurableInv
  <2>3. \A r \in Regs : modules'[r].dirty <=> modules[r].dirty
    BY <1>2, <2>2 DEF FailSave, FinishSave, Marked, Typed
  <2>. QED BY <1>2, <2>1, <2>3 DEF FailSave
<1>3. CASE SavePanics(c)
  <2>1. Todo(c) = calls[c].todo
    BY <1>3 DEF SavePanics, Todo
  <2>. QED BY <1>2, <1>3, <2>1 DEF SavePanics
<1>4. CASE SavedPanics(c)
  <2>1. calls[c].at \in Todo(c) /\ Todo(c) \ {calls[c].at} = calls[c].todo
    BY <1>4 DEF SavedPanics, Todo, AtIsOut
  <2>. QED BY <1>2, <1>4, <2>1 DEF SavedPanics
<1>5. CASE Unwind(c)
  <2>1. Todo(c) = calls[c].todo /\ Todo(c)' = {} /\ calls'[c].op # "saved"
    BY <1>5 DEF Unwind, Todo, Typed, Idle
  <2>2. \A s \in calls[c].todo : modules[s.reg].dirty
    BY <2>1 DEF DurableInv
  <2>3. \A r \in Regs : modules'[r].dirty <=> modules[r].dirty
    BY <1>5, <2>2 DEF Unwind, TakenBack, FinishSave, Marked
  <2>. QED BY <1>5, <2>1, <2>3 DEF Unwind
<1>. QED BY <1>1, <1>3, <1>4, <1>5

LEMMA SetValueEffect ==
  ASSUME TypeInv, NEW r \in Regs, NEW key \in Keys, NEW v \in Values, SetValue(r, key, v)
  PROVE  /\ r \in Registered /\ Registered' = Registered
         /\ modules'[r].dirty
         /\ modules'[r].revision = modules[r].revision + 1
         /\ modules[r].revision \in Nat
         /\ \A q \in Regs : q # r => modules'[q] = modules[q]
<1>. USE DEF TypeInv
<1>1. modules[r] # NoModule /\ modules[r] \in Module
  BY ModuleTypes DEF SetValue, Registered
<1>2. /\ modules'[r].dirty
      /\ modules'[r].revision = modules[r].revision + 1
      /\ modules'[r].order = modules[r].order
  BY DEF SetValue, Typed
<1>3. modules[r].revision \in Nat /\ modules'[r] # NoModule
  BY <1>1, <1>2 DEF Module, NoModule
<1>4. \A q \in Regs : q # r => modules'[q] = modules[q]
  BY DEF SetValue, Typed
<1>5. Registered' = Registered
  BY <1>1, <1>3, <1>4 DEF Registered
<1>. QED BY <1>2, <1>3, <1>4, <1>5 DEF SetValue

(* Steps of calls that are neither a flush nor the end of a registration. *)
LEMMA OtherCalls ==
  ASSUME TypeInv, NEW c \in Callers,
         \/ \E r \in Regs, schema \in Schemas : BeginRegistration(c, r, schema)
         \/ Load(c) \/ LoadPanics(c) \/ Intern(c)
         \/ \E r \in Regs, ext \in Scopes, id \in Ids : GetString(c, r, ext, id)
  PROVE  /\ modules' = modules /\ store' = store /\ durable' = durable
         /\ calls'[c].op # "saved"
         /\ \A d \in Callers : Todo(d)' = Todo(d) /\ (d # c => calls'[d] = calls[d])
<1>. USE DEF TypeInv
<1>1. \A d \in Callers : d # c => calls'[d] = calls[d]
  BY DEF BeginRegistration, Load, LoadPanics, Intern, GetString, Typed
<1>2. {calls[c].op, calls'[c].op} \cap {"saving", "saved", "unwinding"} = {}
  BY DEF BeginRegistration, Load, LoadPanics, Intern, GetString, Typed, Idle
<1>3. modules' = modules /\ store' = store /\ durable' = durable
  BY DEF BeginRegistration, Load, LoadPanics, Intern, GetString
<1>4. \A d \in Callers : Todo(d)' = Todo(d)
  BY <1>1, <1>2 DEF Todo
<1>. QED BY <1>1, <1>2, <1>3, <1>4

LEMMA MarkTypes ==
  ASSUME NEW ms \in [Regs -> Module \cup {NoModule}], NEW r \in Regs
  PROVE  ms[r].dirty \in BOOLEAN
<1>1. CASE ms[r] \in Module
  BY <1>1 DEF Module
<1>2. CASE ms[r] = NoModule
  <2>1. NoModule.dirty = FALSE
    BY DEF NoModule
  <2>. QED BY <1>2, <2>1
<1>. QED BY <1>1, <1>2

LEMMA RevisionTypes ==
  ASSUME TypeInv
  PROVE  /\ \A r \in Regs : durable[r] \in Nat /\ modules[r].revision \in Nat
                            /\ modules[r].dirty \in BOOLEAN
         /\ \A c \in Callers : \A s \in Todo(c) : s.revision \in Nat /\ s.reg \in Regs
<1>1. \A r \in Regs : modules[r] \in Module \/ modules[r] = NoModule
  BY DEF TypeInv, Typed
<1>2. ASSUME NEW r \in Regs
      PROVE  durable[r] \in Nat /\ modules[r].revision \in Nat
  <2>1. durable[r] \in 0..MaxRevision /\ MaxRevision \in Nat
    BY SettingsAssumption DEF TypeInv, Typed
  <2>. QED BY <1>1, <2>1, SettingsAssumption DEF Module, NoModule
<1>3. ASSUME NEW r \in Regs
      PROVE  modules[r].dirty \in BOOLEAN
  BY MarkTypes DEF TypeInv, Typed
<1>4. ASSUME NEW c \in Callers, NEW s \in Todo(c)
      PROVE  s.revision \in Nat /\ s.reg \in Regs
  <2>1. s \in SnapshotOf
    BY TodoType DEF TypeInv
  <2>. QED BY <2>1, SettingsAssumption DEF SnapshotOf
<1>. QED BY <1>2, <1>3, <1>4

LEMMA DurableStep ==
  ASSUME IInv, Next
  PROVE  DurableInv'
<1>. USE DEF IInv, OwnerInv
<1>1. ASSUME NEW c \in Callers,
             \/ \E r \in Regs, schema \in Schemas : BeginRegistration(c, r, schema)
             \/ Load(c) \/ LoadPanics(c) \/ Intern(c)
             \/ \E r \in Regs, ext \in Scopes, id \in Ids : GetString(c, r, ext, id)
      PROVE  DurableInv'
  BY <1>1, OtherCalls DEF DurableInv
<1>2. ASSUME NEW c \in Callers, FinishRegistration(c)
      PROVE  DurableInv'
  <2>. DEFINE r == calls[c].reg
  <2>1. r \in Regs \ Registered /\ durable' = durable /\ durable[r] = 0
    <3>1. r \in Regs \ Registered /\ durable' = durable
      BY <1>2, FinishRegistrationEffect
    <3>. QED BY <3>1, Unregistered
  <2>2. /\ \A q \in Regs : q # r => modules'[q] = modules[q]
        /\ modules'[r].revision = 0
    <3>1. modules' = [modules EXCEPT ![r] =
              [schema |-> calls[c].schema, values |-> calls[c].values, dirty |-> FALSE,
               saving |-> FALSE, revision |-> 0, order |-> calls[c].order]]
      BY <1>2, FinishRegistrationEffect
    <3>. QED BY <2>1, <3>1 DEF TypeInv, Typed
  <2>3. \A d \in Callers : calls'[d] = calls[d] \/ calls'[d] = Idle
    BY <1>2, FinishRegistrationEffect
  <2>6. \A d \in Callers : Todo(d)' \subseteq Todo(d)
    BY <2>3 DEF Todo, Idle
  <2>4. \A d \in Callers : \A s \in Todo(d) : s.reg # r /\ s.reg \in Regs
    BY <2>1, RegisteredModules, RevisionTypes DEF TypeInv, SavesRegistered
  <2>5. \A d \in Callers : calls'[d].op = "saved" =>
          calls'[d] = calls[d] /\ calls[d].at \in Todo(d)
    BY <2>3 DEF Todo, Idle
  <2>. HIDE DEF r
  <2>. QED BY <2>1, <2>2, <2>4, <2>5, <2>6 DEF DurableInv
<1>3. ASSUME NEW r \in Regs, NEW key \in Keys, NEW v \in Values, SetValue(r, key, v)
      PROVE  DurableInv'
  <2>1. durable' = durable /\ calls' = calls /\ \A d \in Callers : Todo(d)' = Todo(d)
    BY <1>3 DEF SetValue, Todo
  <2>2. /\ modules'[r].dirty
        /\ modules'[r].revision = modules[r].revision + 1
        /\ \A q \in Regs : q # r => modules'[q] = modules[q]
    BY <1>3, SetValueEffect
  <2>. QED BY <2>1, <2>2, RevisionTypes DEF DurableInv
<1>4. ASSUME NEW c \in Callers, BeginFlush(c)
      PROVE  DurableInv'
  <2>1. durable' = durable /\ \A d \in Callers : d # c => calls'[d] = calls[d]
    BY <1>4 DEF BeginFlush, TypeInv, Typed
  <2>2. Todo(c)' = {Snapshot(r) : r \in ToSave} /\ calls'[c].op # "saved"
    BY <1>4 DEF BeginFlush, Todo, TypeInv, Typed
  <2>3. \A d \in Callers : d # c => Todo(d)' = Todo(d)
    BY <2>1 DEF Todo
  <2>4. \A r \in Regs : /\ modules'[r].revision = modules[r].revision
                        /\ modules'[r].values = modules[r].values
                        /\ modules'[r].dirty <=> modules[r].dirty
    BY <1>4 DEF BeginFlush, ToSave, Marked
  <2>5. \A s \in Todo(c)' : /\ s.reg \in ToSave
                            /\ s.revision = modules[s.reg].revision
                            /\ s.values = modules[s.reg].values
    BY <2>2 DEF Snapshot
  <2>6. \A r \in ToSave : r \in Regs /\ modules[r].dirty
    BY DEF ToSave, Registered
  <2>. QED BY <2>1, <2>2, <2>3, <2>4, <2>5, <2>6, RevisionTypes DEF DurableInv
<1>5. ASSUME NEW c \in Callers, Save(c)
      PROVE  DurableInv'
  <2>1. PICK s \in Todo(c) :
           /\ s \in SnapshotOf /\ s.reg \in Registered
           /\ modules' = modules
           /\ durable' = [durable EXCEPT ![s.reg] = s.revision]
           /\ calls'[c].op = "saved" /\ calls'[c].at = s
           /\ \A d \in Callers : Todo(d)' = Todo(d) /\ (d # c => calls'[d] = calls[d])
    BY <1>5, SaveEffect
  <2>2. \A d \in Callers : \A t \in Todo(d) : t.reg = s.reg => d = c /\ t = s
    BY <2>1 DEF SavingHasOneOwner
  <2>3. \A r \in Regs : durable'[r] = IF r = s.reg THEN s.revision ELSE durable[r]
    BY <2>1 DEF TypeInv, Typed
  <2>4. \A d \in Callers : calls[d].op = "saved" => calls[d].at \in Todo(d)
    BY DEF Todo
  <2>5. calls[c].op # "saved"
    BY <1>5 DEF Save
  <2>. QED BY <2>1, <2>2, <2>3, <2>4, <2>5, RevisionTypes DEF DurableInv
<1>6. ASSUME NEW c \in Callers,
             SaveReturns(c) \/ SavePanics(c) \/ SavedPanics(c) \/ Unwind(c)
      PROVE  DurableInv'
  <2>1. FlushStep(c)
    BY <1>6, FlushEffect DEF FlushAction
  <2>2. \A d \in Callers : d # c => calls'[d] = calls[d] /\ Todo(d)' = Todo(d)
    BY <2>1, TodoOfOthers DEF FlushStep, MovesOn, TypeInv
  <2>3. \A r \in Regs : /\ modules'[r].revision = modules[r].revision
                        /\ modules'[r].values = modules[r].values
    BY <2>1 DEF FlushStep, OnlyMarks
  <2>4. /\ durable' = durable /\ calls'[c].op # "saved"
        /\ Todo(c)' \subseteq Todo(c)
    BY <1>6, ReleaseEffect
  <2>5. ASSUME NEW r \in Regs
        PROVE  \/ modules'[r].dirty <=> modules[r].dirty
               \/ /\ modules'[r].dirty <=> modules[r].revision # durable[r]
                  /\ \A d \in Callers : \A s \in Todo(d)' : s.reg # r
    <3>1. CASE modules'[r].dirty <=> modules[r].dirty
      BY <3>1
    <3>2. CASE /\ calls[c].op = "saved" /\ r = calls[c].at.reg
               /\ calls[c].at \in Todo(c) /\ calls[c].at \notin Todo(c)'
               /\ modules'[r].dirty <=> modules[r].revision # calls[c].at.revision
      <4>1. durable[r] = calls[c].at.revision
        BY <3>2 DEF DurableInv
      <4>2. r \in Registered
        BY <3>2, RegisteredModules DEF TypeInv, SavesRegistered
      <4>3. \A d \in Callers : \A s \in Todo(d)' : s.reg # r
        BY <2>2, <2>4, <3>2, <4>2 DEF SavingHasOneOwner
      <4>. QED BY <3>2, <4>1, <4>3
    <3>. QED BY <1>6, <3>1, <3>2, ReleaseEffect
  <2>6. \A d \in Callers : \A s \in Todo(d)' : s \in Todo(d) /\ s.reg \in Regs
    BY <2>2, <2>4, RevisionTypes
  <2>7. /\ \A r \in Regs : /\ durable'[r] <= modules'[r].revision
                           /\ ~modules'[r].dirty => durable'[r] = modules'[r].revision
        /\ \A d \in Callers : \A s \in Todo(d)' :
             /\ modules'[s.reg].dirty
             /\ durable'[s.reg] <= s.revision
             /\ s.revision <= modules'[s.reg].revision
             /\ s.revision = modules'[s.reg].revision => s.values = modules'[s.reg].values
    BY <2>3, <2>4, <2>5, <2>6 DEF DurableInv
  <2>8. \A d \in Callers : calls'[d].op = "saved" =>
          durable'[calls'[d].at.reg] = calls'[d].at.revision
    BY <2>2, <2>4 DEF DurableInv
  <2>. QED BY <2>7, <2>8 DEF DurableInv
<1>7. CASE Restart
  BY <1>7 DEF Restart, DurableInv, Todo, Idle, NoModule
<1>. QED BY <1>1, <1>2, <1>3, <1>4, <1>5, <1>6, <1>7 DEF Next, Call, Proceed

LEMMA StoreStep ==
  ASSUME IInv, Next
  PROVE  StoreInv'
<1>. USE DEF IInv, OwnerInv
<1>1. ASSUME NEW c \in Callers,
             \/ \E r \in Regs, schema \in Schemas : BeginRegistration(c, r, schema)
             \/ Load(c) \/ LoadPanics(c) \/ Intern(c)
             \/ \E r \in Regs, ext \in Scopes, id \in Ids : GetString(c, r, ext, id)
      PROVE  StoreInv'
  <2>1. /\ modules' = modules /\ store' = store /\ durable' = durable
        /\ \A d \in Callers : d # c => calls'[d] = calls[d]
    BY <1>1, OtherCalls
  <2>2. calls'[c].op = "loaded" =>
          calls'[c].values = Restored(calls'[c].schema, store[calls'[c].reg])
    BY <1>1 DEF BeginRegistration, Load, LoadPanics, Intern, GetString, TypeInv, Typed, Idle
  <2>. QED BY <2>1, <2>2 DEF StoreInv, Registered
<1>2. ASSUME NEW c \in Callers, FinishRegistration(c)
      PROVE  StoreInv'
  <2>. DEFINE r == calls[c].reg
  <2>1. /\ r \in Regs \ Registered /\ durable' = durable /\ store' = store
        /\ \A d \in Callers : calls'[d] = calls[d] \/ calls'[d] = Idle
    BY <1>2, FinishRegistrationEffect
  <2>2. modules' = [modules EXCEPT ![r] =
            [schema |-> calls[c].schema, values |-> calls[c].values, dirty |-> FALSE,
             saving |-> FALSE, revision |-> 0, order |-> calls[c].order]]
    BY <1>2, FinishRegistrationEffect
  <2>3. /\ \A q \in Regs : q # r => modules'[q] = modules[q]
        /\ modules'[r].schema = calls[c].schema
        /\ modules'[r].values = calls[c].values
    BY <2>1, <2>2 DEF TypeInv, Typed
  <2>4. calls[c].values = Restored(calls[c].schema, store[r])
    BY <1>2 DEF FinishRegistration, StoreInv
  <2>5. \A q \in Registered' : q \in Regs /\ (q # r => q \in Registered)
    BY <2>3 DEF Registered
  <2>. HIDE DEF r
  <2>. QED BY <2>1, <2>3, <2>4, <2>5 DEF StoreInv, Idle
<1>3. ASSUME NEW r \in Regs, NEW key \in Keys, NEW v \in Values, SetValue(r, key, v)
      PROVE  StoreInv'
  <2>1. durable' = durable /\ calls' = calls /\ store' = store
    BY <1>3 DEF SetValue
  <2>2. /\ Registered' = Registered
        /\ modules'[r].revision = modules[r].revision + 1
        /\ \A q \in Regs : q # r => modules'[q] = modules[q]
    BY <1>3, SetValueEffect
  <2>3. durable[r] # modules'[r].revision
    BY <2>2, RevisionTypes DEF DurableInv
  <2>. QED BY <2>1, <2>2, <2>3 DEF StoreInv, Registered
<1>4. ASSUME NEW c \in Callers, Save(c)
      PROVE  StoreInv'
  <2>1. PICK s \in Todo(c) :
           /\ s \in SnapshotOf /\ s.reg \in Registered
           /\ modules' = modules
           /\ store' = [store EXCEPT ![s.reg] = s.values]
           /\ durable' = [durable EXCEPT ![s.reg] = s.revision]
           /\ calls'[c].op = "saved"
           /\ \A d \in Callers : d # c => calls'[d] = calls[d]
    BY <1>4, SaveEffect
  <2>2. \A r \in Regs : /\ durable'[r] = IF r = s.reg THEN s.revision ELSE durable[r]
                        /\ store'[r] = IF r = s.reg THEN s.values ELSE store[r]
    BY <2>1 DEF TypeInv, Typed
  <2>3. ASSUME s.revision = modules[s.reg].revision
        PROVE  Restored(modules[s.reg].schema, s.values) = modules[s.reg].values
    <3>1. modules[s.reg] \in Module
      BY <2>1, RegisteredModules DEF TypeInv
    <3>2. s.values = modules[s.reg].values
      BY <2>3 DEF DurableInv
    <3>3. Fits(modules[s.reg].schema, s.values) /\ s.values \in KeyedValues
      BY <2>1, <3>1, <3>2 DEF TypeInv, ValuesFit, Module, SnapshotOf
    <3>. QED BY <3>2, <3>3, RestoreRoundTrip
  <2>4. \A d \in Callers : calls[d].op = "loaded" =>
          calls[d].reg # s.reg /\ calls[d].reg \in Regs
    <3>1. \A d \in Callers : calls[d].op = "loaded" => calls[d].reg \in Regs
      BY CallTypes DEF TypeInv, Typed
    <3>2. \A d \in Callers : calls[d].op = "loaded" => calls[d].reg \in pending
      BY <3>1 DEF PendingHasOneOwner, Loading
    <3>. QED BY <2>1, <3>1, <3>2 DEF PendingHasOneOwner
  <2>. QED BY <2>1, <2>2, <2>3, <2>4 DEF StoreInv, Registered
<1>5. ASSUME NEW c \in Callers,
             BeginFlush(c) \/ SaveReturns(c) \/ SavePanics(c) \/ SavedPanics(c) \/ Unwind(c)
      PROVE  StoreInv'
  <2>1. FlushStep(c)
    BY <1>5, FlushEffect DEF FlushAction
  <2>2. store' = store /\ durable' = durable
    BY <1>5, ReleaseEffect DEF BeginFlush
  <2>3. Registered' = Registered
    BY <2>1, RegisteredByFlush DEF FlushStep, TypeInv
  <2>4. \A r \in Registered : /\ modules'[r].schema = modules[r].schema
                              /\ modules'[r].values = modules[r].values
                              /\ modules'[r].revision = modules[r].revision
    BY <2>1, RegisteredModules DEF FlushStep, OnlyMarks, TypeInv
  <2>5. \A d \in Callers : calls'[d].op = "loaded" => calls'[d] = calls[d]
    BY <2>1 DEF FlushStep, MovesOn, FlushOps, TypeInv, Typed
  <2>. QED BY <2>2, <2>3, <2>4, <2>5 DEF StoreInv
<1>6. CASE Restart
  BY <1>6 DEF Restart, StoreInv, Registered, Idle
<1>. QED BY <1>1, <1>2, <1>3, <1>4, <1>5, <1>6 DEF Next, Call, Proceed

LEMMA IInvInit == Init => IInv
<1>. SUFFICES ASSUME Init PROVE IInv
  OBVIOUS
<1>1. OwnerInv
  BY OwnerInit
<1>2. DurableInv /\ StoreInv
  BY DEF Init, DurableInv, StoreInv, Todo, Registered, NoModule, Idle
<1>. QED BY <1>1, <1>2 DEF IInv

LEMMA IInvStep ==
  ASSUME IInv, [Next]_vars
  PROVE  IInv'
<1>1. OwnerInv'
  BY OwnerStep DEF IInv
<1>2. ASSUME Next PROVE DurableInv' /\ StoreInv'
  BY <1>2, DurableStep, StoreStep
<1>3. CASE UNCHANGED vars
  <2>1. \A c \in Callers : Todo(c)' = Todo(c)
    BY <1>3 DEF vars, Todo
  <2>2. DurableInv'
    BY <1>3, <2>1 DEF vars, IInv, DurableInv
  <2>3. StoreInv'
    BY <1>3 DEF vars, IInv, StoreInv, Registered
  <2>. QED BY <1>1, <2>2, <2>3 DEF IInv
<1>. QED BY <1>1, <1>2, <1>3 DEF IInv

(* A module reported as unchanged comes back from the store exactly as it is. *)
THEOREM CleanDurable == Spec => []CleanIsDurable
<1>1. IInv => CleanIsDurable
  <2>. SUFFICES ASSUME IInv, NEW r \in Registered, ~modules[r].dirty
                PROVE  Restored(modules[r].schema, store[r]) = modules[r].values
    BY DEF CleanIsDurable
  <2>1. durable[r] = modules[r].revision
    BY DEF IInv, DurableInv, Registered
  <2>. QED BY <2>1 DEF IInv, StoreInv
<1>. QED BY <1>1, IInvInit, IInvStep, PTL DEF Spec

-----------------------------------------------------------------------------
(* The service implements its promise. *)

LEMMA PromiseInit == Init => Promise!Init
BY DEF Init, Promise!Init, NoModule

(* A step that leaves revisions, marks and the store alone. *)
LEMMA PromiseFrame ==
  ASSUME durable' = durable,
         \A r \in Regs : modules'[r].revision = modules[r].revision
                         /\ modules'[r].dirty = modules[r].dirty
  PROVE  UNCHANGED Promise!vars
BY DEF Promise!vars

LEMMA PromiseStep ==
  ASSUME IInv, [Next]_vars
  PROVE  [Promise!Next]_(Promise!vars)
<1>. USE DEF IInv, OwnerInv
<1>1. ASSUME NEW c \in Callers,
             \/ \E r \in Regs, schema \in Schemas : BeginRegistration(c, r, schema)
             \/ Load(c) \/ LoadPanics(c) \/ Intern(c)
             \/ \E r \in Regs, ext \in Scopes, id \in Ids : GetString(c, r, ext, id)
      PROVE  UNCHANGED Promise!vars
  <2>1. modules' = modules /\ durable' = durable
    BY <1>1, OtherCalls
  <2>. QED BY <2>1, PromiseFrame
<1>2. ASSUME NEW c \in Callers, FinishRegistration(c)
      PROVE  UNCHANGED Promise!vars
  <2>. DEFINE r == calls[c].reg
  <2>1. r \in Regs \ Registered /\ durable' = durable
    BY <1>2, FinishRegistrationEffect
  <2>2. modules' = [modules EXCEPT ![r] =
            [schema |-> calls[c].schema, values |-> calls[c].values, dirty |-> FALSE,
             saving |-> FALSE, revision |-> 0, order |-> calls[c].order]]
    BY <1>2, FinishRegistrationEffect
  <2>3. modules[r] = NoModule
    BY <2>1, Unregistered
  <2>4. modules'[r].revision = 0 /\ modules'[r].dirty = FALSE
    BY <2>1, <2>2 DEF TypeInv, Typed
  <2>5. modules[r].revision = 0 /\ modules[r].dirty = FALSE
    BY <2>3 DEF NoModule
  <2>6. \A q \in Regs : q # r => modules'[q] = modules[q]
    BY <2>1, <2>2 DEF TypeInv, Typed
  <2>7. \A q \in Regs : modules'[q].revision = modules[q].revision
                        /\ modules'[q].dirty = modules[q].dirty
    BY <2>4, <2>5, <2>6
  <2>. QED BY <2>1, <2>7, PromiseFrame
<1>3. ASSUME NEW r \in Regs, NEW key \in Keys, NEW v \in Values, SetValue(r, key, v)
      PROVE  Promise!Change(r)
  <2>1. /\ modules'[r].dirty
        /\ modules'[r].revision = modules[r].revision + 1
        /\ \A q \in Regs : q # r => modules'[q] = modules[q]
    BY <1>3, SetValueEffect
  <2>2. modules'[r].dirty = TRUE /\ durable' = durable
    BY <1>3 DEF SetValue, TypeInv, Typed
  <2>. QED BY <2>1, <2>2 DEF Promise!Change
<1>4. ASSUME NEW c \in Callers, BeginFlush(c)
      PROVE  UNCHANGED Promise!vars
  <2>1. durable' = durable
    BY <1>4 DEF BeginFlush
  <2>2. \A r \in Regs : modules'[r].revision = modules[r].revision
                        /\ (modules'[r].dirty <=> modules[r].dirty)
    BY <1>4 DEF BeginFlush, ToSave, Marked
  <2>3. \A r \in Regs : modules[r].dirty \in BOOLEAN /\ modules'[r].dirty \in BOOLEAN
    <3>1. FlushStep(c)
      BY <1>4, FlushEffect DEF FlushAction
    <3>. QED BY <3>1, MarkTypes DEF FlushStep, OnlyMarks, TypeInv, Typed
  <2>4. \A r \in Regs : modules'[r].dirty = modules[r].dirty
    BY <2>2, <2>3
  <2>. QED BY <2>1, <2>2, <2>4, PromiseFrame
<1>5. ASSUME NEW c \in Callers, Save(c)
      PROVE  \E r \in Regs : Promise!Write(r)
  <2>1. PICK s \in Todo(c) :
           /\ s \in SnapshotOf /\ s.reg \in Registered
           /\ modules' = modules
           /\ durable' = [durable EXCEPT ![s.reg] = s.revision]
    BY <1>5, SaveEffect
  <2>2. s.reg \in Regs /\ s.revision \in durable[s.reg]..modules[s.reg].revision
    BY RevisionTypes DEF DurableInv
  <2>3. Promise!Write(s.reg)
    BY <2>1, <2>2 DEF Promise!Write
  <2>. QED BY <2>2, <2>3
<1>6. ASSUME NEW c \in Callers,
             SaveReturns(c) \/ SavePanics(c) \/ SavedPanics(c) \/ Unwind(c)
      PROVE  UNCHANGED Promise!vars \/ \E r \in Regs : Promise!Settle(r)
  <2>1. FlushStep(c)
    BY <1>6, FlushEffect DEF FlushAction
  <2>2. \A r \in Regs : modules'[r].revision = modules[r].revision
    <3>1. \A r \in Regs : modules[r] \in Module \/ modules[r] \notin Module
      OBVIOUS
    <3>. QED BY <2>1, <3>1 DEF FlushStep, OnlyMarks
  <2>3. durable' = durable
    BY <1>6, ReleaseEffect
  <2>4. \A r \in Regs : modules[r].dirty \in BOOLEAN /\ modules'[r].dirty \in BOOLEAN
    BY <2>1, MarkTypes DEF FlushStep, OnlyMarks, TypeInv, Typed
  <2>5. CASE \A r \in Regs : modules'[r].dirty <=> modules[r].dirty
    <3>1. \A r \in Regs : modules'[r].dirty = modules[r].dirty
      BY <2>4, <2>5
    <3>. QED BY <2>2, <2>3, <3>1, PromiseFrame
  <2>6. CASE ~ \A r \in Regs : modules'[r].dirty <=> modules[r].dirty
    <3>1. PICK r \in Regs : ~ (modules'[r].dirty <=> modules[r].dirty)
      BY <2>6
    <3>2. /\ calls[c].op = "saved" /\ r = calls[c].at.reg /\ calls[c].at \in Todo(c)
          /\ modules'[r].dirty <=> modules[r].revision # calls[c].at.revision
      BY <1>6, <3>1, ReleaseEffect
    <3>3. modules[r].dirty
      BY <3>2 DEF DurableInv
    <3>4. durable[r] = modules[r].revision
      BY <3>1, <3>2, <3>3 DEF DurableInv
    <3>5. modules'[r].dirty = FALSE
      BY <2>4, <3>1, <3>3
    <3>6. \A q \in Regs : q # r => (modules'[q].dirty <=> modules[q].dirty)
      BY <1>6, <3>2, ReleaseEffect
    <3>7. \A q \in Regs : q # r => modules'[q].dirty = modules[q].dirty
      BY <2>4, <3>6
    <3>8. Promise!Settle(r)
      BY <2>2, <2>3, <3>4, <3>5, <3>7 DEF Promise!Settle
    <3>. QED BY <3>8
  <2>. QED BY <2>5, <2>6
<1>7. CASE Restart
  <2>1. Promise!StartOver
    BY <1>7 DEF Restart, Promise!StartOver, NoModule
  <2>. QED BY <2>1 DEF Promise!Next
<1>8. CASE UNCHANGED vars
  BY <1>8, PromiseFrame DEF vars
<1>. QED BY <1>1, <1>2, <1>3, <1>4, <1>5, <1>6, <1>7, <1>8
         DEF Next, Call, Proceed, Promise!Next

(* Whatever the interleaving of edits, flushes, panics and restarts, the stored
   version only moves towards the live one, and a module is reported unchanged
   only when the two agree: the service implements its promise. *)
THEOREM KeepsPromise == Spec => DurablePromise
<1>. QED BY IInvInit, IInvStep, PromiseInit, PromiseStep, PTL
         DEF Spec, DurablePromise, Promise!Spec

-----------------------------------------------------------------------------
(* The strings handed to plugins. *)

Distinct == \A i, j \in DOMAIN interned : interned[i] = interned[j] => i = j

InternedInv == TypeInv /\ Distinct

LEMMA InternedStep ==
  ASSUME InternedInv, [Next]_vars
  PROVE  /\ Distinct'
         /\ restarts' = restarts =>
              /\ Len(interned) <= Len(interned')
              /\ \A i \in DOMAIN interned : interned'[i] = interned[i]
<1>. USE DEF InternedInv, TypeInv, Typed
<1>1. CASE interned' = interned
  BY <1>1, LenProperties DEF Distinct
<1>2. CASE \E c \in Callers : Intern(c)
  <2>1. PICK c \in Callers : Intern(c)
    BY <1>2
  <2>2. calls[c].value \in Values
    BY <2>1, CallTypes DEF Intern
  <2>3. CASE \E i \in DOMAIN interned : interned[i] = calls[c].value
    BY <1>1, <2>1, <2>3 DEF Intern, InternedWith
  <2>4. CASE ~ \E i \in DOMAIN interned : interned[i] = calls[c].value
    <3>1. interned' = Append(interned, calls[c].value)
      BY <2>1, <2>4 DEF Intern, InternedWith
    <3>2. /\ Len(interned') = Len(interned) + 1 /\ Len(interned) \in Nat
          /\ DOMAIN interned = 1..Len(interned) /\ DOMAIN interned' = 1..Len(interned')
          /\ \A i \in 1..Len(interned) : interned'[i] = interned[i]
          /\ interned'[Len(interned) + 1] = calls[c].value
      BY <2>2, <3>1
    <3>3. Distinct'
      <4>1. ASSUME NEW i \in DOMAIN interned', NEW j \in DOMAIN interned',
                   interned'[i] = interned'[j]
            PROVE  i = j
        <5>1. i \in 1..Len(interned) \/ i = Len(interned) + 1
          BY <3>2
        <5>2. j \in 1..Len(interned) \/ j = Len(interned) + 1
          BY <3>2
        <5>3. CASE i \in 1..Len(interned) /\ j \in 1..Len(interned)
          BY <3>2, <4>1, <5>3 DEF Distinct
        <5>4. CASE ~(i \in 1..Len(interned) /\ j \in 1..Len(interned))
          BY <2>4, <3>2, <4>1, <5>1, <5>2, <5>4
        <5>. QED BY <5>3, <5>4
      <4>. QED BY <4>1 DEF Distinct
    <3>. QED BY <3>2, <3>3
  <2>. QED BY <2>3, <2>4
<1>3. CASE Restart
  <2>1. interned' = <<>> /\ restarts' = restarts + 1 /\ restarts \in Int
    BY <1>3, SettingsAssumption DEF Restart
  <2>. QED BY <2>1 DEF Distinct
<1>4. CASE UNCHANGED vars
  BY <1>1, <1>4 DEF vars
<1>5. ASSUME NEW c \in Callers, Call(c) \/ Proceed(c)
      PROVE  interned' = interned \/ Intern(c)
  <2>1. CASE Call(c)
    BY <2>1 DEF Call, BeginRegistration, BeginFlush, GetString
  <2>2. CASE Proceed(c)
    BY <2>2 DEF Proceed, Load, FinishRegistration, LoadPanics, Save, SaveReturns,
       SavePanics, SavedPanics, FailSave, Unwind
  <2>. QED BY <1>5, <2>1, <2>2
<1>6. ASSUME NEW r \in Regs, NEW key \in Keys, NEW v \in Values, SetValue(r, key, v)
      PROVE  interned' = interned
  BY <1>6 DEF SetValue
<1>. QED BY <1>1, <1>2, <1>3, <1>4, <1>5, <1>6 DEF Next

(* A string a plugin was handed never moves, and is never interned twice, by
   however many threads and calls. *)
THEOREM StringsStay == Spec => InternedStable
<1>1. Init => InternedInv
  BY TypeInit DEF Init, InternedInv, Distinct
<1>2. InternedInv /\ [Next]_vars => InternedInv'
  BY TypeStep, InternedStep DEF InternedInv
<1>3. InternedInv /\ [Next]_vars =>
        [restarts' = restarts =>
           /\ Len(interned) <= Len(interned')
           /\ \A i \in DOMAIN interned : interned'[i] = interned[i]
           /\ \A i, j \in DOMAIN interned' : interned'[i] = interned'[j] => i = j]_vars
  BY InternedStep DEF Distinct
<1>. QED BY <1>1, <1>2, <1>3, PTL DEF Spec, InternedStable
-----------------------------------------------------------------------------
(* The order in which reg_ids lists the modules.                           *)
(*                                                                         *)
(* A registration takes its order when it begins and its place in the list *)
(* when it finishes, with other registrations finishing in between.  The   *)
(* invariant says that orders are handed out once: no running registration *)
(* has the order of another, or of a listed module.  Then the modules that *)
(* come before it are a prefix of the list, and their number, which is     *)
(* what partition_point finds, is its place.                               *)

(* A set of positions with all that come before them is a prefix, and has as
   many elements as its last one. *)
LEMMA DownwardClosed ==
  ASSUME NEW n \in Nat, NEW S \in SUBSET (1..n),
         \A i \in S : \A j \in 1..i : j \in S
  PROVE  S = 1..Cardinality(S)
<1>1. IsFiniteSet(S) /\ Cardinality(S) \in Nat
  <2>1. IsFiniteSet(1..n)
    BY FS_Interval
  <2>2. IsFiniteSet(S)
    BY <2>1, FS_Subset
  <2>. QED BY <2>2, FS_CardinalityType
<1>2. ASSUME NEW i \in S
      PROVE  i <= Cardinality(S)
  <2>1. i \in Nat /\ 1 <= i
    OBVIOUS
  <2>2. 1..i \subseteq S
    OBVIOUS
  <2>3. Cardinality(1..i) = i
    <3>1. Cardinality(1..i) = IF 1 > i THEN 0 ELSE i - 1 + 1
      BY <2>1, FS_Interval
    <3>. QED BY <2>1, <3>1
  <2>4. Cardinality(1..i) <= Cardinality(S)
    BY <1>1, <2>2, FS_Subset
  <2>. QED BY <2>3, <2>4
<1>3. S \subseteq 1..Cardinality(S)
  BY <1>1, <1>2
<1>4. IsFiniteSet(1..Cardinality(S)) /\ Cardinality(1..Cardinality(S)) = Cardinality(S)
  <2>1. Cardinality(1..Cardinality(S)) =
          IF 1 > Cardinality(S) THEN 0 ELSE Cardinality(S) - 1 + 1
    BY <1>1, FS_Interval
  <2>2. IsFiniteSet(1..Cardinality(S))
    BY <1>1, FS_Interval
  <2>. QED BY <1>1, <2>1, <2>2
<1>. QED BY <1>3, <1>4, FS_Subset

(* Orders are handed out once, and only those below next_order. *)
OrdersOnce ==
  /\ \A r \in Registered : modules[r].order < next_order
  /\ \A c \in Callers : Loading(c) => calls[c].order < next_order
  /\ \A c, d \in Callers : Loading(c) /\ Loading(d) /\ calls[c].order = calls[d].order => c = d
  /\ \A c \in Callers, r \in Registered : Loading(c) => calls[c].order # modules[r].order

OrderInv == OrdersOnce /\ ListedInOrder

(* The modules that come before an order nobody has are a prefix of the list. *)
LEMMA PlaceIsPrefix ==
  ASSUME Typed, ListedInOrder, NEW order \in Nat
  PROVE  \A i \in DOMAIN listed : modules[listed[i]].order < order <=> i < Place(order)
<1>. DEFINE S == {i \in DOMAIN listed : modules[listed[i]].order < order}
<1>1. /\ Len(listed) \in Nat /\ DOMAIN listed = 1..Len(listed)
      /\ \A i \in DOMAIN listed : listed[i] \in Registered
  BY LenProperties DEF Typed, ListedInOrder
<1>2. \A i \in DOMAIN listed : modules[listed[i]].order \in Nat
  BY <1>1, ModuleTypes DEF Module
<1>3. S \subseteq 1..Len(listed)
  BY <1>1
<1>4. ASSUME NEW i \in S, NEW j \in 1..i
      PROVE  j \in S
  <2>1. i \in DOMAIN listed /\ j \in DOMAIN listed /\ (j < i \/ j = i)
    BY <1>1
  <2>2. j = i \/ modules[listed[j]].order < modules[listed[i]].order
    BY <2>1 DEF ListedInOrder
  <2>. QED BY <1>2, <2>1, <2>2
<1>5. S = 1..Cardinality(S)
  <2>. HIDE DEF S
  <2>. QED BY <1>1, <1>3, <1>4, DownwardClosed
<1>6. Place(order) = Cardinality(S) + 1 /\ Cardinality(S) \in Nat
  <2>1. IsFiniteSet(1..Len(listed))
    BY <1>1, FS_Interval
  <2>2. IsFiniteSet(S)
    <3>. HIDE DEF S
    <3>. QED BY <1>3, <2>1, FS_Subset
  <2>. QED BY <2>2, FS_CardinalityType DEF Place
<1>7. \A i \in DOMAIN listed : i \in S <=> i < Place(order)
  <2>. HIDE DEF S
  <2>. QED BY <1>1, <1>5, <1>6
<1>. QED BY <1>7

(* The list with r put in at place p, position by position. *)
Inserted(s, p, r) == SubSeq(s, 1, p - 1) \o <<r>> \o SubSeq(s, p, Len(s))

LEMMA InsertAt ==
  ASSUME NEW s \in Seq(Regs), NEW p \in 1..(Len(s) + 1), NEW r \in Regs,
         NEW t, t = Inserted(s, p, r)
  PROVE  /\ DOMAIN t = 1..(Len(s) + 1)
         /\ t[p] = r
         /\ \A i \in 1..Len(s) : i < p => t[i] = s[i]
         /\ \A i \in 1..(Len(s) + 1) : p < i => t[i] = s[i - 1]
<1>. DEFINE a == SubSeq(s, 1, p - 1)
            b == SubSeq(s, p, Len(s))
<1>1. Len(s) \in Nat /\ p \in Nat
  BY LenProperties
<1>2. /\ a \in Seq(Regs) /\ Len(a) = p - 1
      /\ \A i \in 1..(p - 1) : a[i] = s[i]
  BY <1>1
<1>3. /\ b \in Seq(Regs) /\ Len(b) = Len(s) - p + 1
      /\ \A i \in 1..(Len(s) - p + 1) : b[i] = s[p + i - 1]
  BY <1>1
<1>. HIDE DEF a, b
<1>4. t = (a \o <<r>>) \o b
  BY DEF a, b, Inserted
<1>5. /\ a \o <<r>> \in Seq(Regs) /\ Len(a \o <<r>>) = p
      /\ \A i \in 1..p : (a \o <<r>>)[i] = IF i = p THEN r ELSE s[i]
  BY <1>1, <1>2
<1>6. DEFINE h == a \o <<r>>
<1>. HIDE DEF h
<1>7. /\ h \in Seq(Regs) /\ Len(h) = p /\ t = h \o b
      /\ \A i \in 1..p : h[i] = IF i = p THEN r ELSE s[i]
  BY <1>4, <1>5 DEF h
<1>8. Len(h) + Len(b) = Len(s) + 1
  BY <1>1, <1>3, <1>7
<1>9. /\ t \in Seq(Regs) /\ Len(t) = Len(s) + 1
      /\ \A i \in 1..(Len(s) + 1) : t[i] = IF i <= p THEN h[i] ELSE b[i - p]
  <2>1. /\ h \o b \in Seq(Regs)
        /\ Len(h \o b) = Len(h) + Len(b)
        /\ \A i \in 1..Len(h) + Len(b) :
             (h \o b)[i] = IF i <= Len(h) THEN h[i] ELSE b[i - Len(h)]
    BY <1>3, <1>7, ConcatProperties
  <2>. QED BY <1>7, <1>8, <2>1
<1>10. DOMAIN t = 1..(Len(s) + 1)
  BY <1>9, LenProperties
<1>11. t[p] = r /\ \A i \in 1..Len(s) : i < p => t[i] = s[i]
  <2>1. h[p] = r /\ \A i \in 1..Len(s) : i < p => h[i] = s[i]
    BY <1>1, <1>7
  <2>2. \A i \in 1..(Len(s) + 1) : i <= p => t[i] = h[i]
    BY <1>9
  <2>3. t[p] = h[p]
    <3>1. p \in 1..(Len(s) + 1) /\ p <= p
      BY <1>1
    <3>. QED BY <2>2, <3>1, Zenon
  <2>4. ASSUME NEW i \in 1..Len(s), i < p
        PROVE  t[i] = h[i]
    <3>1. i \in 1..(Len(s) + 1) /\ i <= p
      BY <1>1, <2>4
    <3>. QED BY <2>2, <3>1
  <2>. QED BY <2>1, <2>3, <2>4
<1>12. ASSUME NEW i \in 1..(Len(s) + 1), p < i
       PROVE  t[i] = s[i - 1]
  <2>1. i - p \in 1..(Len(s) - p + 1) /\ p + (i - p) - 1 = i - 1
    BY <1>1, <1>12
  <2>2. t[i] = b[i - p]
    <3>1. ~ (i <= p)
      BY <1>1, <1>12
    <3>. QED BY <1>9, <3>1
  <2>3. b[i - p] = s[p + (i - p) - 1]
    BY <1>3, <2>1
  <2>. QED BY <2>1, <2>2, <2>3
<1>. QED BY <1>10, <1>11, <1>12

-----------------------------------------------------------------------------
(* A step that registers nothing, and puts no call among the running
   registrations, keeps the orders. *)
LEMMA OrderFrame ==
  ASSUME OrderInv, listed' = listed, next_order' = next_order,
         Registered' = Registered,
         \A r \in Registered : modules'[r].order = modules[r].order,
         \A c \in Callers : Loading(c)' =>
           Loading(c) /\ calls'[c].order = calls[c].order
  PROVE  OrderInv'
<1>1. OrdersOnce'
  BY DEF OrderInv, OrdersOnce
<1>2. ListedInOrder'
  <2>1. \A i \in DOMAIN listed : listed[i] \in Registered
    BY DEF OrderInv, ListedInOrder
  <2>. QED BY <2>1 DEF OrderInv, ListedInOrder
<1>. QED BY <1>1, <1>2 DEF OrderInv

(* A registration that begins takes an order nobody has. *)
LEMMA OrderBegin ==
  ASSUME TypeInv, OrderInv, NEW c \in Callers, NEW r \in Regs, NEW schema \in Schemas,
         BeginRegistration(c, r, schema)
  PROVE  OrderInv'
<1>. USE DEF TypeInv
<1>1. /\ modules' = modules /\ listed' = listed /\ next_order' = next_order + 1
      /\ \A d \in Callers : d # c => calls'[d] = calls[d]
      /\ calls'[c].op = "loading" /\ calls'[c].order = next_order
  BY DEF BeginRegistration, Typed
<1>2. next_order \in Nat
  BY SettingsAssumption DEF Typed
<1>3. \A q \in Registered : modules[q].order \in Nat
  BY ModuleTypes DEF Module
<1>4. \A d \in Callers : Loading(d) => calls[d].order \in Nat
  BY CallTypes DEF Typed, Loading
<1>5. Registered' = Registered
  BY <1>1 DEF Registered
<1>6. OrdersOnce'
  <2>1. \A q \in Registered' : modules'[q].order < next_order'
    BY <1>1, <1>2, <1>3, <1>5 DEF OrderInv, OrdersOnce
  <2>2. \A d \in Callers : Loading(d)' =>
          \/ d = c
          \/ /\ d # c /\ Loading(d) /\ calls'[d] = calls[d]
             /\ calls[d].order < next_order
    <3>1. \A d \in Callers : d # c /\ Loading(d)' => Loading(d)
      BY <1>1 DEF Loading
    <3>2. \A d \in Callers : Loading(d) => calls[d].order < next_order
      BY DEF OrderInv, OrdersOnce
    <3>. QED BY <1>1, <3>1, <3>2
  <2>3. \A d \in Callers : Loading(d)' => calls'[d].order < next_order'
    BY <1>1, <1>2, <1>4, <2>2
  <2>4. \A d, e \in Callers :
          Loading(d)' /\ Loading(e)' /\ calls'[d].order = calls'[e].order => d = e
    BY <1>1, <1>2, <1>4, <2>2 DEF OrderInv, OrdersOnce
  <2>5. \A d \in Callers, q \in Registered' :
          Loading(d)' => calls'[d].order # modules'[q].order
    BY <1>1, <1>2, <1>3, <1>5, <2>2 DEF OrderInv, OrdersOnce
  <2>. QED BY <2>1, <2>3, <2>4, <2>5 DEF OrdersOnce
<1>7. ListedInOrder'
  BY <1>1, <1>5 DEF OrderInv, ListedInOrder
<1>. QED BY <1>6, <1>7 DEF OrderInv

(* A registration that finishes is put where its order belongs. *)
LEMMA OrderFinish ==
  ASSUME IInv, OrderInv, NEW c \in Callers, FinishRegistration(c)
  PROVE  OrderInv'
<1>. DEFINE r == calls[c].reg
            o == calls[c].order
            p == Place(o)
<1>. USE DEF IInv, OwnerInv, TypeInv
<1>1. /\ r \in Regs \ Registered
      /\ \A d \in Callers : d # c => calls'[d] = calls[d]
      /\ calls'[c] = Idle
  BY FinishRegistrationEffect
<1>2. /\ modules'[r].order = o /\ modules'[r] # NoModule
      /\ \A q \in Regs : q # r => modules'[q] = modules[q]
  <2>1. o \in Nat
    <3>1. calls[c] \in CallType
      BY DEF Typed
    <3>2. calls[c].op = "loaded"
      BY DEF FinishRegistration
    <3>. QED BY <3>1, <3>2, CallTypes
  <2>2. modules'[r] = [schema |-> calls[c].schema, values |-> calls[c].values,
                       dirty |-> FALSE, saving |-> FALSE, revision |-> 0, order |-> o]
        /\ \A q \in Regs : q # r => modules'[q] = modules[q]
    BY <1>1, FinishRegistrationEffect DEF Typed
  <2>. QED BY <2>1, <2>2 DEF NoModule
<1>3. o \in Nat
  <2>1. calls[c] \in CallType
    BY DEF Typed
  <2>2. calls[c].op = "loaded"
    BY DEF FinishRegistration
  <2>. QED BY <2>1, <2>2, CallTypes
<1>4. Registered' = Registered \cup {r}
  BY <1>1, <1>2 DEF Registered
<1>5. \A q \in Registered : modules'[q] = modules[q] /\ modules[q].order \in Nat
                            /\ modules[q].order # o
  <2>1. \A q \in Registered : modules[q].order # o
    BY DEF FinishRegistration, Loading, OrderInv, OrdersOnce
  <2>. QED BY <1>1, <1>2, <2>1, ModuleTypes DEF Module
<1>6. OrdersOnce'
  <2>1. o < next_order /\ next_order' = next_order
    BY DEF FinishRegistration, Loading, OrderInv, OrdersOnce
  <2>2. \A d \in Callers : Loading(d)' => d # c /\ Loading(d) /\ calls'[d] = calls[d]
    BY <1>1 DEF Loading, Idle
  <2>3. \A d \in Callers : d # c /\ Loading(d) => calls[d].order # o
    BY DEF FinishRegistration, Loading, OrderInv, OrdersOnce
  <2>. HIDE DEF r, o
  <2>. QED BY <1>2, <1>4, <1>5, <2>1, <2>2, <2>3 DEF OrderInv, OrdersOnce
<1>7. ListedInOrder'
  <2>1. p \in 1..(Len(listed) + 1) /\ Len(listed) \in Nat
    BY <1>3, PlaceType, LenProperties DEF Typed
  <2>2. listed' = SubSeq(listed, 1, p - 1) \o <<r>> \o SubSeq(listed, p, Len(listed))
    BY DEF FinishRegistration
  <2>3. /\ DOMAIN listed = 1..Len(listed)
        /\ \A i \in DOMAIN listed : listed[i] \in Registered
        /\ \A q \in Registered : \E i \in DOMAIN listed : q = listed[i]
    BY LenProperties DEF Typed, OrderInv, ListedInOrder
  <2>4. /\ DOMAIN listed' = 1..(Len(listed) + 1)
        /\ listed'[p] = r
        /\ \A i \in 1..Len(listed) : i < p => listed'[i] = listed[i]
        /\ \A i \in 1..(Len(listed) + 1) : p < i => listed'[i] = listed[i - 1]
    <3>1. r \in Regs /\ listed \in Seq(Regs)
      BY <1>1 DEF Typed
    <3>. HIDE DEF p, r
    <3>2. listed' = Inserted(listed, p, r)
      BY <2>2 DEF Inserted, p, r
    <3>. QED BY <2>1, <3>1, <3>2, InsertAt
  <2>5. \A i \in DOMAIN listed : modules[listed[i]].order < o <=> i < p
    BY <1>3, PlaceIsPrefix DEF OrderInv
  <2>. HIDE DEF p, o, r
  <2>6. {listed'[i] : i \in DOMAIN listed'} = Registered'
    <3>1. ASSUME NEW i \in DOMAIN listed'
          PROVE  listed'[i] \in Registered'
      <4>1. CASE i < p
        BY <1>4, <2>1, <2>3, <2>4, <4>1
      <4>2. CASE i = p
        BY <1>4, <2>4, <4>2
      <4>3. CASE p < i
        <5>1. i - 1 \in DOMAIN listed
          BY <2>1, <2>3, <2>4, <4>3
        <5>. QED BY <1>4, <2>3, <2>4, <4>3, <5>1
      <4>. QED BY <2>1, <2>4, <4>1, <4>2, <4>3
    <3>2. ASSUME NEW q \in Registered'
          PROVE  \E i \in DOMAIN listed' : listed'[i] = q
      <4>1. CASE q = r
        BY <2>1, <2>4, <4>1
      <4>2. CASE q \in Registered
        <5>1. PICK i \in 1..Len(listed) : q = listed[i]
          BY <2>3, <4>2
        <5>2. CASE i < p
          BY <2>1, <2>4, <5>1, <5>2
        <5>3. CASE p <= i
          <6>1. i + 1 \in 1..(Len(listed) + 1) /\ p < i + 1 /\ (i + 1) - 1 = i
            BY <2>1, <5>3
          <6>. QED BY <2>4, <5>1, <6>1
        <5>. QED BY <2>1, <5>2, <5>3
      <4>. QED BY <1>4, <4>1, <4>2
    <3>. QED BY <3>1, <3>2
  <2>7. ASSUME NEW i \in DOMAIN listed', NEW j \in DOMAIN listed', i < j
        PROVE  modules'[listed'[i]].order < modules'[listed'[j]].order
    <3>1. CASE j < p
      <4>1. i \in 1..Len(listed) /\ j \in 1..Len(listed) /\ i < p
        BY <2>1, <2>4, <2>7, <3>1
      <4>. QED BY <1>5, <2>3, <2>4, <2>7, <3>1, <4>1, SMTT(30) DEF OrderInv, ListedInOrder
    <3>2. CASE j = p
      <4>1. i \in 1..Len(listed) /\ i < p
        BY <2>1, <2>4, <2>7, <3>2
      <4>. QED BY <1>2, <1>5, <2>3, <2>4, <2>5, <3>2, <4>1
    <3>3. CASE i = p
      <4>1. j - 1 \in 1..Len(listed) /\ p < j /\ ~ (j - 1 < p)
        BY <2>1, <2>4, <2>7, <3>3
      <4>2. ~ (modules[listed[j - 1]].order < o)
        BY <2>3, <2>5, <4>1
      <4>3. listed'[j] = listed[j - 1] /\ listed[j - 1] \in Registered
        BY <2>3, <2>4, <4>1
      <4>. QED BY <1>2, <1>3, <1>5, <2>4, <3>3, <4>2, <4>3, SMTT(30)
    <3>4. CASE i < p /\ p < j
      <4>1. i \in 1..Len(listed) /\ j - 1 \in 1..Len(listed) /\ ~ (j - 1 < p)
        BY <2>1, <2>4, <2>7, <3>4
      <4>2. modules[listed[i]].order < o /\ ~ (modules[listed[j - 1]].order < o)
        BY <2>3, <2>5, <3>4, <4>1
      <4>3. /\ listed'[i] = listed[i] /\ listed[i] \in Registered
            /\ listed'[j] = listed[j - 1] /\ listed[j - 1] \in Registered
        BY <2>3, <2>4, <3>4, <4>1
      <4>. QED BY <1>3, <1>5, <4>2, <4>3
    <3>5. CASE p < i
      <4>1. /\ i - 1 \in 1..Len(listed) /\ j - 1 \in 1..Len(listed)
            /\ i - 1 < j - 1 /\ p < j
        BY <2>1, <2>4, <2>7, <3>5
      <4>2. /\ listed'[i] = listed[i - 1] /\ listed[i - 1] \in Registered
            /\ listed'[j] = listed[j - 1] /\ listed[j - 1] \in Registered
        BY <2>3, <2>4, <3>5, <4>1
      <4>3. modules[listed[i - 1]].order < modules[listed[j - 1]].order
        BY <2>3, <4>1 DEF OrderInv, ListedInOrder
      <4>. QED BY <1>5, <4>2, <4>3
    <3>. QED BY <2>1, <2>4, <2>7, <3>1, <3>2, <3>3, <3>4, <3>5
  <2>. QED BY <2>6, <2>7 DEF ListedInOrder
<1>. QED BY <1>6, <1>7 DEF OrderInv

LEMMA OrderStep ==
  ASSUME IInv, OrderInv, [Next]_vars
  PROVE  OrderInv'
<1>. USE DEF IInv, OwnerInv, TypeInv
<1>1. ASSUME NEW c \in Callers, NEW r \in Regs, NEW schema \in Schemas,
             BeginRegistration(c, r, schema)
      PROVE  OrderInv'
  BY <1>1, OrderBegin
<1>2. ASSUME NEW c \in Callers, FinishRegistration(c)
      PROVE  OrderInv'
  BY <1>2, OrderFinish
<1>3. ASSUME NEW c \in Callers,
             \/ Load(c) \/ LoadPanics(c) \/ Intern(c)
             \/ \E r \in Regs, ext \in Scopes, id \in Ids : GetString(c, r, ext, id)
      PROVE  OrderInv'
  <2>1. modules' = modules /\ listed' = listed /\ next_order' = next_order
    BY <1>3 DEF Load, LoadPanics, Intern, GetString
  <2>2. \A d \in Callers : d # c => calls'[d] = calls[d]
    BY <1>3, OtherCalls
  <2>3. Loading(c)' => Loading(c) /\ calls'[c].order = calls[c].order
    BY <1>3 DEF Load, LoadPanics, Intern, GetString, Loading, Typed, Idle
  <2>. QED BY <2>1, <2>2, <2>3, OrderFrame DEF Registered, Loading
<1>4. ASSUME NEW r \in Regs, NEW key \in Keys, NEW v \in Values, SetValue(r, key, v)
      PROVE  OrderInv'
  <2>1. /\ Registered' = Registered
        /\ \A q \in Regs : q # r => modules'[q] = modules[q]
    BY <1>4, SetValueEffect
  <2>2. modules'[r].order = modules[r].order
    BY <1>4 DEF SetValue, Typed
  <2>3. listed' = listed /\ next_order' = next_order /\ calls' = calls
    BY <1>4 DEF SetValue
  <2>. QED BY <2>1, <2>2, <2>3, OrderFrame DEF Registered, Loading
<1>5. ASSUME NEW c \in Callers, FlushStep(c)
      PROVE  OrderInv'
  <2>1. listed' = listed /\ next_order' = next_order /\ Registered' = Registered
    BY <1>5, RegisteredByFlush DEF FlushStep
  <2>2. \A r \in Registered : modules'[r].order = modules[r].order
    BY <1>5, RegisteredModules DEF FlushStep, OnlyMarks
  <2>3. \A d \in Callers : Loading(d)' => Loading(d) /\ calls'[d].order = calls[d].order
    BY <1>5 DEF FlushStep, MovesOn, FlushOps, Loading, Typed
  <2>. QED BY <2>1, <2>2, <2>3, OrderFrame
<1>6. CASE Restart
  BY <1>6 DEF Restart, OrderInv, OrdersOnce, ListedInOrder, Registered, Loading, Idle
<1>7. CASE UNCHANGED vars
  BY <1>7, OrderFrame DEF vars, Registered, Loading
<1>. QED BY <1>1, <1>2, <1>3, <1>4, <1>5, <1>6, <1>7, FlushEffect
         DEF Next, Call, Proceed, FlushAction

(* However registrations interleave, panic and finish, reg_ids lists exactly the
   registered modules, in the order their registrations began. *)
THEOREM ListOrdered == Spec => []ListedInOrder
<1>1. Init => OrderInv
  BY DEF Init, OrderInv, OrdersOnce, ListedInOrder, Registered, Loading, Idle
<1>2. OrderInv => ListedInOrder
  BY DEF OrderInv
<1>. QED BY <1>1, <1>2, IInvInit, IInvStep, OrderStep, PTL DEF Spec
=============================================================================
