--------------------------- MODULE SessionsProofs ---------------------------
(***************************************************************************)
(* Proofs about Sessions, for any plugins, variables and number of songs.  *)
(*                                                                         *)
(* The callback the thread is in and the steps it has still to do are one  *)
(* sequence, Plan.  A plan is the start of the runtime, its end, or the    *)
(* work in between.  Of the first two the invariant says exactly how far   *)
(* they are.  Work it knows by its links: which step may follow which, and *)
(* what the step that comes first finds.  Each step leaves what the next   *)
(* one needs, so a callback that is entered is legal; and the one instance *)
(* that is in no variable, if there is one, is the first step's.           *)
(***************************************************************************)
EXTENDS Sessions, SequenceTheorems, TLAPS

N == Len(PluginOrder)

(* What the thread has still to do, the callback it is in first. *)
Plan == IF running = NoCall THEN todo ELSE <<running>> \o todo

-----------------------------------------------------------------------------
(* The links of work: what may follow a step, and what may end it. *)

Follows(own, a, b) ==
  \/ a.do = "close" /\ b = Do("destroy", a.arg)
  \/ a.do = "destroy" /\ (b.do = "release" \/ b = Do("discard", a.arg))
  \/ a.do = "release" /\ b.do = "create"
  \/ a.do = "create" /\ b = Do("open", a.arg)
  \/ a.do = "open" /\ (b = Do("viz_info", a.arg) \/ b.do = "install")
  \/ a.do = "viz_info" /\ b = Do("prepare", a.arg)
  \/ a.do = "prepare" /\ own /\ b.do = "install"
  \/ a.do = "discard" /\ b = Do("metadata", a.arg)
  \/ a.do = "metadata" /\ b = Do("take", a.arg)

Finishes(own, a) ==
  \/ a.do \in {"destroy", "release", "install", "discard", "take", "use"}
  \/ a.do = "prepare" /\ ~own

Chained(own, w) ==
  /\ \A k \in 1..(Len(w) - 1) : Follows(own, w[k], w[k + 1])
  /\ w # <<>> => Finishes(own, w[Len(w)])

WorkSteps ==
  {"close", "destroy", "release", "create", "open", "viz_info", "prepare",
   "install", "discard", "metadata", "take", "use"}

(* The rest of a plan, when its first step is done. *)
Advances(w, v) ==
  /\ w # <<>>
  /\ v \in Seq(Steps) /\ Len(v) = Len(w) - 1
  /\ \A k \in 1..Len(v) : v[k] = w[k + 1]

LEMMA LinkedSteps ==
  ASSUME NEW own, NEW a, NEW b, Follows(own, a, b) \/ Finishes(own, a)
  PROVE  a.do \in WorkSteps
BY DEF Follows, Finishes, WorkSteps

LEMMA ChainedSteps ==
  ASSUME NEW own, NEW w \in Seq(Steps), Chained(own, w), NEW k \in 1..Len(w)
  PROVE  w[k].do \in WorkSteps
<1>1. Len(w) \in Nat /\ w # <<>>
  OBVIOUS
<1>2. CASE k = Len(w)
  BY <1>1, <1>2, LinkedSteps DEF Chained
<1>3. CASE k # Len(w)
  <2>1. k \in 1..(Len(w) - 1)
    BY <1>1, <1>3
  <2>2. Follows(own, w[k], w[k + 1])
    BY <2>1 DEF Chained
  <2>. QED BY <2>2, LinkedSteps
<1>. QED BY <1>2, <1>3

LEMMA ChainedRest ==
  ASSUME NEW own, NEW w \in Seq(Steps), NEW v, Chained(own, w), Advances(w, v)
  PROVE  /\ Chained(own, v)
         /\ v = <<>> => Len(w) = 1 /\ Finishes(own, w[1])
         /\ v # <<>> => Len(w) > 1 /\ v[1] = w[2] /\ Follows(own, w[1], v[1])
<1>1. /\ Len(w) \in Nat /\ Len(v) \in Nat /\ Len(w) = Len(v) + 1
      /\ v \in Seq(Steps) /\ w # <<>>
  BY DEF Advances
<1>2. \A k \in 1..(Len(v) - 1) : Follows(own, v[k], v[k + 1])
  <2>. TAKE k \in 1..(Len(v) - 1)
  <2>1. k + 1 \in 1..(Len(w) - 1) /\ v[k] = w[k + 1] /\ v[k + 1] = w[k + 1 + 1]
    BY <1>1 DEF Advances
  <2>. QED BY <2>1 DEF Chained
<1>3. CASE v = <<>>
  <2>1. Len(w) = 1
    BY <1>1, <1>3
  <2>. QED BY <1>1, <1>3, <2>1 DEF Chained
<1>4. CASE v # <<>>
  <2>1. Len(v) \in 1..Len(v) /\ 1 \in 1..(Len(w) - 1) /\ 1 \in 1..Len(v)
    BY <1>1, <1>4
  <2>2. v[Len(v)] = w[Len(w)] /\ v[1] = w[2]
    BY <1>1, <2>1 DEF Advances
  <2>3. Follows(own, w[1], w[1 + 1]) /\ Finishes(own, w[Len(w)])
    BY <1>1, <2>1 DEF Chained
  <2>. QED BY <1>1, <1>2, <1>4, <2>1, <2>2, <2>3 DEF Chained
<1>. QED BY <1>3, <1>4

(* Only a session that is dropped has a song created after it. *)
LEMMA CreatedLater ==
  ASSUME NEW own, NEW w \in Seq(Steps), Chained(own, w),
         NEW k \in 1..Len(w), k > 1, w[k].do = "create"
  PROVE  w[1].do \in {"close", "destroy", "release"}
<1>1. Len(w) \in Nat
  OBVIOUS
<1>2. ASSUME NEW j \in 2..Len(w)
      PROVE  /\ w[j].do = "create" => w[j - 1].do = "release"
             /\ w[j].do = "release" => w[j - 1].do = "destroy"
             /\ w[j].do = "destroy" => w[j - 1].do = "close"
             /\ w[j].do # "close"
  <2>1. j - 1 \in 1..(Len(w) - 1) /\ (j - 1) + 1 = j
    BY <1>1
  <2>2. Follows(own, w[j - 1], w[j])
    BY <2>1 DEF Chained
  <2>. QED BY <2>2 DEF Follows, Do
<1>3. w[k - 1].do = "release"
  BY <1>1, <1>2
<1>4. CASE k = 2
  BY <1>3, <1>4
<1>5. CASE k > 2
  <2>1. k - 1 \in 2..Len(w) /\ (k - 1) - 1 = k - 2
    BY <1>1, <1>5
  <2>2. w[k - 2].do = "destroy"
    BY <1>2, <1>3, <2>1
  <2>3. CASE k = 3
    BY <2>2, <2>3
  <2>4. CASE k > 3
    <3>1. k - 2 \in 2..Len(w) /\ (k - 2) - 1 = k - 3
      BY <1>1, <2>4
    <3>2. w[k - 3].do = "close"
      BY <1>2, <2>2, <3>1
    <3>3. k = 4
      <4>1. k > 4 => k - 3 \in 2..Len(w)
        BY <1>1
      <4>. QED BY <1>1, <1>2, <2>4, <3>2, <4>1
    <3>. QED BY <3>2, <3>3
  <2>. QED BY <1>1, <1>5, <2>3, <2>4
<1>. QED BY <1>1, <1>4, <1>5

(* Two pieces of work, the second of which may follow the first. *)
LEMMA ChainedConcat ==
  ASSUME NEW own, NEW a \in Seq(Steps), NEW b \in Seq(Steps),
         Chained(own, a), Chained(own, b),
         a # <<>> /\ b # <<>> => Follows(own, a[Len(a)], b[1])
  PROVE  Chained(own, a \o b)
<1>. DEFINE w == a \o b
<1>1. /\ Len(a) \in Nat /\ Len(b) \in Nat /\ w \in Seq(Steps)
      /\ Len(w) = Len(a) + Len(b)
      /\ \A i \in 1..(Len(a) + Len(b)) : w[i] = IF i <= Len(a) THEN a[i] ELSE b[i - Len(a)]
  BY ConcatProperties
<1>. HIDE DEF w
<1>2. ASSUME NEW k \in 1..(Len(w) - 1)
      PROVE  Follows(own, w[k], w[k + 1])
  <2>1. CASE k < Len(a)
    <3>1. k \in 1..(Len(a) - 1) /\ w[k] = a[k] /\ w[k + 1] = a[k + 1]
      BY <1>1, <2>1
    <3>. QED BY <3>1 DEF Chained
  <2>2. CASE k = Len(a)
    <3>0. /\ k \in 1..(Len(a) + Len(b)) /\ k + 1 \in 1..(Len(a) + Len(b))
          /\ k <= Len(a) /\ ~(k + 1 <= Len(a)) /\ (k + 1) - Len(a) = 1
          /\ Len(a) > 0 /\ Len(b) > 0
      BY <1>1, <2>2
    <3>1. w[k] = a[Len(a)] /\ w[k + 1] = b[1] /\ a # <<>> /\ b # <<>>
      <4>1. w[k] = a[Len(a)] /\ w[k + 1] = b[1]
        BY <1>1, <2>2, <3>0
      <4>2. a # <<>> /\ b # <<>>
        BY <3>0
      <4>. QED BY <4>1, <4>2
    <3>. QED BY <3>1
  <2>3. CASE k > Len(a)
    <3>1. /\ k - Len(a) \in 1..(Len(b) - 1) /\ w[k] = b[k - Len(a)]
          /\ w[k + 1] = b[(k - Len(a)) + 1]
      BY <1>1, <2>3
    <3>. QED BY <3>1 DEF Chained
  <2>. QED BY <1>1, <2>1, <2>2, <2>3
<1>3. ASSUME w # <<>>
      PROVE  Finishes(own, w[Len(w)])
  <2>1. CASE b = <<>>
    <3>1. w[Len(w)] = a[Len(a)] /\ a # <<>>
      BY <1>1, <1>3, <2>1
    <3>. QED BY <3>1 DEF Chained
  <2>2. CASE b # <<>>
    <3>1. Len(w) \in 1..Len(w) /\ ~ (Len(w) <= Len(a)) /\ Len(w) - Len(a) = Len(b)
      BY <1>1, <2>2
    <3>2. w[Len(w)] = b[Len(b)]
      BY <1>1, <3>1
    <3>. QED BY <2>2, <3>2 DEF Chained
  <2>. QED BY <2>1, <2>2
<1>. QED BY <1>2, <1>3 DEF Chained, w

-----------------------------------------------------------------------------
(* The plan and the thread. *)

LEMMA PlanType ==
  ASSUME TypeOK
  PROVE  /\ Plan \in Seq(Steps) /\ Len(Plan) \in Nat
         /\ Plan = <<>> <=> Idle
         /\ running = NoCall => Plan = todo
<1>1. todo \in Seq(Steps) /\ running \in Steps
  BY DEF TypeOK
<1>2. CASE running = NoCall
  BY <1>1, <1>2 DEF Plan, Idle
<1>3. CASE running # NoCall
  BY <1>1, <1>3 DEF Plan, Idle
<1>. QED BY <1>2, <1>3

(* While a callback runs it is the first step of the plan. *)
LEMMA PlanInCall ==
  ASSUME TypeOK, running # NoCall
  PROVE  /\ Plan # <<>> /\ Plan[1] = running
         /\ Len(Plan) = Len(todo) + 1
         /\ \A k \in 1..Len(todo) : Plan[k + 1] = todo[k]
BY DEF TypeOK, Plan

(* A callback returns, and the steps after it are left to do. *)
LEMMA PlanAfterCall ==
  ASSUME TypeOK, running # NoCall, running' = NoCall, todo' = todo
  PROVE  Advances(Plan, Plan')
<1>1. Plan' = todo /\ todo \in Seq(Steps)
  BY DEF Plan, TypeOK
<1>. QED BY <1>1, PlanInCall, PlanType DEF Advances

(* A step of the host is done. *)
LEMMA PlanAfterStep ==
  ASSUME TypeOK, running = NoCall, todo # <<>>, running' = running, todo' = Tail(todo)
  PROVE  Advances(Plan, Plan')
BY DEF TypeOK, Plan, Advances

(* Entering a callback is no step of the plan. *)
LEMMA PlanOnEnter ==
  ASSUME TypeOK, Enter
  PROVE  /\ Plan' = Plan /\ running' # NoCall
         /\ Plan # <<>> /\ Plan[1] = Step /\ running' = Step
         /\ Step \in Steps /\ todo' \in Seq(Steps)
<1>1. todo \in Seq(Steps) /\ todo # <<>> /\ Step = Head(todo) /\ Step.do # "none"
  BY DEF TypeOK, Enter, Step, StaticCalls, InstanceCalls
<1>2. running' # NoCall /\ running' = Head(todo) /\ todo' = Tail(todo)
  BY <1>1 DEF Enter, NoCall, Do
<1>3. <<Head(todo)>> \o Tail(todo) = todo
  BY <1>1
<1>. QED BY <1>1, <1>2, <1>3 DEF Plan, Enter

-----------------------------------------------------------------------------
(* The invariant. *)

(* The steps of a call the host makes with the runtime in its hand. *)
Lent == {"create", "open", "viz_info", "prepare", "install", "metadata"}

(* What is known of the steps that are still to come. *)
Foreseen ==
  \A k \in 1..Len(Plan) :
    /\ Plan[k].do = "create" =>
         /\ Plan[k].arg = song /\ song \in Songs
         /\ instances[song] = "none" /\ outcome[song] = "none"
    /\ Plan[k].do \in Lent => handles # {}
    /\ Plan[k].do = "install" => Plan[k].arg \in Slots
    /\ Plan[k].do \in {"release", "viz_info"} => owned
    /\ Plan[k].do = "discard" /\ k > 1 => k = Len(Plan)

(* What holds the runtime, or lets it go at the end. *)
Held ==
  /\ ~owned => "runtime" \in handles
  /\ LastHandle(handles, slots) => \E k \in 1..Len(Plan) : Plan[k].do = "release"

Course == Chained(owned, Plan) /\ Foreseen /\ Held

InSlot(i) == \E s \in Slots : slots[s] = i

Failed == {"OpenFailed", "MetadataFailed"}

(* The steps about the song that was opened or passed over last. *)
AboutNew ==
  \/ Plan[1].do \in {"create", "open", "viz_info", "metadata", "take"}
  \/ Plan[1].do = "prepare" /\ owned
  \/ Plan[1].do = "discard" /\ Len(Plan) > 1

(* What the step that comes first finds. *)
Established ==
  LET do == Plan[1].do
      i  == Plan[1].arg
  IN  /\ AboutNew => i = song /\ song \in Songs /\ outcome[song] = "none"
      /\ do = "install" =>
           song \in Songs /\ instances[song] = "open" /\ outcome[song] = "none"
      /\ do = "open" => instances[i] = "created"
      /\ do = "viz_info" => instances[i] = "open"
      /\ do = "prepare" => i \in Songs /\ instances[i] = "open" /\ (owned \/ InSlot(i))
      /\ do = "use" => i \in Songs /\ InSlot(i)
      /\ do = "close" => i \in Songs /\ instances[i] = "open" /\ outcome[i] \notin Failed
      /\ do = "destroy" =>
           /\ i \in Songs /\ instances[i] \in {"created", "closed"}
           /\ outcome[i] \in Failed => Len(Plan) > 1 /\ Plan[2] = Do("discard", i)
      /\ do \in {"create", "metadata"} => instances[i] = "none"
      /\ do = "discard" /\ Len(Plan) > 1 => instances[i] = "none"
      /\ do \in {"metadata", "take"} => i \in Songs /\ SongsOf(record) \subseteq {i}

(* The instance that is in no variable. *)
Loose(i) ==
  /\ Plan # <<>>
  /\ \/ Plan[1].do \in {"open", "viz_info", "close", "destroy"} /\ Plan[1].arg = i
     \/ Plan[1].do = "prepare" /\ owned /\ Plan[1].arg = i
     \/ Plan[1].do = "install" /\ song = i

Starting ==
  \E k \in 1..N :
    /\ Len(Plan) = N - k + 1
    /\ \A j \in 1..Len(Plan) : Plan[j] = Do("static_init", PluginOrder[k + j - 1])
    /\ \A j \in 1..N : statics[PluginOrder[j]] = IF j < k THEN "up" ELSE "new"
    /\ mapped /\ service
    /\ "runtime" \in handles /\ song = 0

(* The steps that end the runtime, one after the other. *)
LastSteps(m) ==
  IF m <= N THEN Do("static_destroy", PluginOrder[m])
  ELSE IF m = N + 1 THEN Do("unmap", None) ELSE Do("end_service", None)

Ending ==
  /\ LastHandle(handles, slots)
  /\ \E k \in 1..(N + 3) :
       /\ Len(Plan) = N + 3 - k
       /\ \A j \in 1..Len(Plan) : Plan[j] = LastSteps(k + j - 1)
       /\ \A j \in 1..N : statics[PluginOrder[j]] = IF j < k THEN "down" ELSE "up"
       /\ mapped <=> k <= N + 1
       /\ service <=> k <= N + 2

Up == mapped /\ service /\ \A p \in Plugins : statics[p] = "up"

Working == Up /\ Course /\ (Plan # <<>> => Established)

SlotsInv ==
  /\ \A s \in Slots : slots[s] # None =>
       /\ instances[slots[s]] = "open" /\ outcome[slots[s]] = "Ok"
       /\ ~Loose(slots[s])
  /\ \A s, t \in Slots : slots[s] = slots[t] /\ slots[s] # None => s = t

InstancesInv ==
  /\ \A i \in Instances : Live(i) <=> InSlot(i) \/ Loose(i)
  /\ \A i \in Instances : i \in opened <=> instances[i] = "open"
  /\ \A i \in Instances : i > song => instances[i] = "none" /\ outcome[i] = "none"
  /\ owned \/ handles \subseteq {"runtime"}

RecordInv ==
  /\ \A n \in Songs : outcome[n] \in Failed /\ n \in SongsOf(record) =>
       Plan # <<>> /\ Plan[1] \in {Do("destroy", n), Do("discard", n)}
  /\ PassIsItsOwn

RunningInv == running = NoCall \/ running.do \in StaticCalls \cup InstanceCalls

Inv ==
  /\ TypeOK /\ ~misused /\ RunningInv
  /\ Starting \/ Working \/ Ending
  /\ SlotsInv /\ InstancesInv /\ RecordInv

-----------------------------------------------------------------------------
(* Which phase a step belongs to. *)

LEMMA NType ==
  /\ N \in Nat /\ N >= 1 /\ DOMAIN PluginOrder = 1..N
  /\ \A p \in Plugins : \E j \in 1..N : p = PluginOrder[j]
  /\ \A j \in 1..N : PluginOrder[j] \in Plugins
<1>1. PluginOrder \in Seq(Plugins) /\ PluginOrder # <<>>
  BY SessionsAssumption
<1>2. N \in Nat /\ N >= 1 /\ DOMAIN PluginOrder = 1..N
  BY <1>1, EmptySeq, LenProperties DEF N
<1>. QED BY <1>2 DEF Plugins

LEMMA OrderOnce ==
  ASSUME NEW j \in 1..N, NEW k \in 1..N, PluginOrder[j] = PluginOrder[k]
  PROVE  j = k
BY NType, SessionsAssumption DEF IsInjective

LEMMA StartingSteps ==
  ASSUME TypeOK, Starting
  PROVE  Plan # <<>> /\ Plan[1].do = "static_init"
<1>1. PICK k \in 1..N :
        /\ Len(Plan) = N - k + 1
        /\ \A j \in 1..Len(Plan) : Plan[j] = Do("static_init", PluginOrder[k + j - 1])
  BY DEF Starting
<1>2. Len(Plan) \in Nat /\ Len(Plan) >= 1 /\ 1 \in 1..Len(Plan)
  BY <1>1, NType
<1>3. Plan # <<>>
  BY <1>2
<1>. QED BY <1>1, <1>2, <1>3 DEF Do

LEMMA EndingSteps ==
  ASSUME TypeOK, Ending, Plan # <<>>
  PROVE  Plan[1].do \in {"static_destroy", "unmap", "end_service"}
<1>1. Len(Plan) \in Nat /\ 1 \in 1..Len(Plan)
  BY PlanType
<1>. QED BY <1>1 DEF Ending, LastSteps, Do

LEMMA WorkingSteps ==
  ASSUME TypeOK, Working, Plan # <<>>
  PROVE  Plan[1].do \in WorkSteps
<1>1. Plan \in Seq(Steps) /\ 1 \in 1..Len(Plan)
  BY PlanType
<1>. QED BY <1>1, ChainedSteps DEF Working, Course

LEMMA IsWork ==
  ASSUME Inv, Plan # <<>>, Plan[1].do \in WorkSteps
  PROVE  Working /\ Established
BY StartingSteps, EndingSteps DEF Inv, Working, WorkSteps

LEMMA IsIdleWork ==
  ASSUME Inv, Idle, ~LastHandle(handles, slots)
  PROVE  Working /\ Plan = <<>>
BY PlanType, StartingSteps DEF Inv, Ending

(* A callback that runs in work. *)
LEMMA InCall ==
  ASSUME Inv, running.do \in WorkSteps
  PROVE  /\ running # NoCall /\ Plan # <<>> /\ Plan[1] = running
         /\ Working /\ Established
<1>1. running # NoCall
  BY DEF NoCall, Do, WorkSteps
<1>. QED BY <1>1, PlanInCall, IsWork DEF Inv

(* A step of the host that comes in work. *)
LEMMA AtStep ==
  ASSUME Inv, NEW what \in WorkSteps, Calling(what)
  PROVE  /\ running = NoCall /\ todo # <<>> /\ Plan = todo /\ Plan # <<>>
         /\ Plan[1] = Step /\ Plan[1].do = what
         /\ Working /\ Established
<1>1. running = NoCall /\ todo # <<>> /\ todo \in Seq(Steps) /\ Plan = todo
  BY PlanType DEF Calling, Inv, TypeOK
<1>2. Plan[1] = Step /\ Plan[1].do = what
  BY <1>1 DEF Calling, Step
<1>. QED BY <1>1, <1>2, IsWork

-----------------------------------------------------------------------------
(* Where a plan of work goes. *)

LEMMA CourseAdvances ==
  ASSUME TypeOK, Working, Advances(Plan, Plan'),
         owned' = owned, handles' = handles, slots' = slots, song' = song,
         Plan[1].do = "release" => ~LastHandle(handles, slots),
         Plan[1].do \in {"close", "destroy", "release"} =>
           (song \in Songs /\ instances[song] = "none" /\ outcome[song] = "none" =>
              instances'[song] = "none" /\ outcome'[song] = "none")
  PROVE  /\ Course'
         /\ Plan' = <<>> => Len(Plan) = 1 /\ Finishes(owned, Plan[1])
         /\ Plan' # <<>> => /\ Len(Plan) > 1 /\ Plan'[1] = Plan[2]
                            /\ Follows(owned, Plan[1], Plan'[1])
<1>1. /\ Plan \in Seq(Steps) /\ Len(Plan) \in Nat /\ Plan' \in Seq(Steps)
      /\ Len(Plan') \in Nat /\ Len(Plan') = Len(Plan) - 1
      /\ \A k \in 1..Len(Plan') : Plan'[k] = Plan[k + 1] /\ k + 1 \in 1..Len(Plan)
  BY PlanType DEF Advances
<1>2. /\ Chained(owned, Plan')
      /\ Plan' = <<>> => Len(Plan) = 1 /\ Finishes(owned, Plan[1])
      /\ Plan' # <<>> => /\ Len(Plan) > 1 /\ Plan'[1] = Plan[2]
                         /\ Follows(owned, Plan[1], Plan'[1])
  BY <1>1, ChainedRest DEF Working, Course
<1>3. Foreseen'
  <2>. SUFFICES ASSUME NEW k \in 1..Len(Plan')
                PROVE  /\ Plan'[k].do = "create" =>
                            /\ Plan'[k].arg = song /\ song \in Songs
                            /\ instances'[song] = "none" /\ outcome'[song] = "none"
                       /\ Plan'[k].do \in Lent => handles # {}
                       /\ Plan'[k].do = "install" => Plan'[k].arg \in Slots
                       /\ Plan'[k].do \in {"release", "viz_info"} => owned
                       /\ Plan'[k].do = "discard" /\ k > 1 => k = Len(Plan')
    BY DEF Foreseen
  <2>1. Plan'[k] = Plan[k + 1] /\ k + 1 \in 1..Len(Plan) /\ k + 1 > 1
    BY <1>1
  <2>2. Foreseen
    BY DEF Working, Course
  <2>3. ASSUME Plan'[k].do = "create"
        PROVE  instances'[song] = "none" /\ outcome'[song] = "none"
    <3>1. Plan[1].do \in {"close", "destroy", "release"}
      BY <1>1, <2>1, <2>3, CreatedLater DEF Working, Course
    <3>. QED BY <2>1, <2>2, <2>3, <3>1 DEF Foreseen
  <2>4. Plan'[k].do = "discard" /\ k > 1 => k = Len(Plan')
    BY <1>1, <2>1, <2>2 DEF Foreseen
  <2>. QED BY <2>1, <2>2, <2>3, <2>4 DEF Foreseen
<1>4. Held'
  <2>1. ASSUME LastHandle(handles, slots)
        PROVE  \E k \in 1..Len(Plan') : Plan'[k].do = "release"
    <3>1. PICK k \in 1..Len(Plan) : Plan[k].do = "release"
      BY <2>1 DEF Working, Course, Held
    <3>2. k # 1
      BY <2>1, <3>1
    <3>3. k - 1 \in 1..Len(Plan') /\ (k - 1) + 1 = k
      BY <1>1, <3>2
    <3>. QED BY <1>1, <3>1, <3>3
  <2>. QED BY <2>1 DEF Working, Course, Held, LastHandle
<1>. QED BY <1>2, <1>3, <1>4 DEF Course

(* Work of which nothing need be foreseen. *)
LEMMA CourseAfresh ==
  ASSUME Plan' \in Seq(Steps), Chained(owned', Plan'),
         \A k \in 1..Len(Plan') :
           Plan'[k].do \in {"close", "destroy", "discard", "metadata", "take", "use"},
         \A k \in 1..Len(Plan') : Plan'[k].do = "metadata" => handles' # {},
         \A k \in 1..Len(Plan') : Plan'[k].do = "discard" /\ k > 1 => k = Len(Plan'),
         ~LastHandle(handles', slots'), ~owned' => "runtime" \in handles'
  PROVE  Course'
BY DEF Course, Foreseen, Held, Lent, LastHandle

LEMMA EmptyCourse ==
  ASSUME Plan' = <<>>, ~LastHandle(handles', slots'), ~owned' => "runtime" \in handles'
  PROVE  Course'
<1>1. Plan' \in Seq(Steps) /\ Len(Plan') = 0
  OBVIOUS
<1>2. Chained(owned', Plan')
  BY <1>1 DEF Chained
<1>. QED BY <1>1, <1>2, CourseAfresh

LEMMA DoSteps ==
  ASSUME NEW what \in StaticCalls \cup InstanceCalls \cup
               {"none", "prepare", "install", "release", "unmap", "end_service",
                "discard", "take"},
         NEW arg \in Plugins \cup Songs \cup Slots \cup {None}
  PROVE  Do(what, arg) \in Steps /\ Do(what, arg).do = what /\ Do(what, arg).arg = arg
BY DEF Do, Steps

(* The drop of a player: what it is, and where it starts. *)
LEMMA PlayerDropSteps ==
  ASSUME NEW i \in Songs
  PROVE  /\ PlayerDrop(i) \in Seq(Steps) /\ PlayerDrop(i) # <<>>
         /\ \A own : Chained(own, PlayerDrop(i))
         /\ PlayerDrop(i)[Len(PlayerDrop(i))] = Do("destroy", i)
         /\ i \in opened => PlayerDrop(i)[1] = Do("close", i) /\ Len(PlayerDrop(i)) = 2
         /\ i \notin opened => PlayerDrop(i)[1] = Do("destroy", i) /\ Len(PlayerDrop(i)) = 1
         /\ \A k \in 1..Len(PlayerDrop(i)) : PlayerDrop(i)[k].do \in {"close", "destroy"}
<1>. DEFINE c == Do("close", i)
            d == Do("destroy", i)
<1>1. /\ c \in Steps /\ c.do = "close" /\ c.arg = i
      /\ d \in Steps /\ d.do = "destroy" /\ d.arg = i
  BY DoSteps DEF StaticCalls, InstanceCalls
<1>2. CASE i \in opened
  <2>1. PlayerDrop(i) = <<c>> \o <<d>>
    BY <1>2 DEF PlayerDrop
  <2>. DEFINE w == <<c>> \o <<d>>
  <2>. HIDE DEF c, d
  <2>2. w \in Seq(Steps) /\ Len(w) = 2 /\ w[1] = c /\ w[2] = d /\ w # <<>>
    BY <1>1
  <2>. HIDE DEF w
  <2>3. \A own : Chained(own, w)
    BY <1>1, <2>2 DEF Chained, Follows, Finishes, c, d
  <2>4. \A k \in 1..Len(w) : w[k].do \in {"close", "destroy"}
    BY <1>1, <2>2
  <2>. QED BY <1>2, <2>1, <2>2, <2>3, <2>4 DEF w, c, d
<1>3. CASE i \notin opened
  <2>1. PlayerDrop(i) = <<>> \o <<d>>
    BY <1>3 DEF PlayerDrop
  <2>. DEFINE w == <<>> \o <<d>>
  <2>. HIDE DEF c, d
  <2>2. w \in Seq(Steps) /\ Len(w) = 1 /\ w[1] = d /\ w # <<>>
    BY <1>1
  <2>. HIDE DEF w
  <2>3. \A own : Chained(own, w)
    BY <1>1, <2>2 DEF Chained, Finishes
  <2>4. \A k \in 1..Len(w) : w[k].do \in {"close", "destroy"}
    BY <1>1, <2>2
  <2>. QED BY <1>3, <2>1, <2>2, <2>3, <2>4 DEF w, c, d
<1>. QED BY <1>2, <1>3

(* ... and of one whose song did not open, with what it pushed. *)
LEMMA OpenFailureSteps ==
  ASSUME NEW i \in Songs, i \notin opened
  PROVE  /\ OpenFailure(i) \in Seq(Steps) /\ Len(OpenFailure(i)) = 2
         /\ OpenFailure(i)[1] = Do("destroy", i) /\ OpenFailure(i)[2] = Do("discard", i)
         /\ \A own : Chained(own, OpenFailure(i))
<1>. DEFINE p == PlayerDrop(i)
            d == Do("discard", i)
            w == p \o <<d>>
<1>1. p \in Seq(Steps) /\ Len(p) = 1 /\ p[1] = Do("destroy", i)
  BY PlayerDropSteps
<1>2. d \in Steps
  BY DoSteps
<1>. HIDE DEF p
<1>3. w \in Seq(Steps) /\ Len(w) = 2 /\ w[1] = Do("destroy", i) /\ w[2] = d
  <2>. HIDE DEF d
  <2>1. <<d>> \in Seq(Steps) /\ Len(<<d>>) = 1 /\ <<d>>[1] = d
    BY <1>2
  <2>2. /\ w \in Seq(Steps) /\ Len(w) = Len(p) + Len(<<d>>)
        /\ \A k \in 1..(Len(p) + Len(<<d>>)) :
             w[k] = IF k <= Len(p) THEN p[k] ELSE <<d>>[k - Len(p)]
    BY <1>1, <2>1, ConcatProperties
  <2>. HIDE DEF w
  <2>3. w[1] = p[1]
    BY <1>1, <2>1, <2>2
  <2>4. w[2] = <<d>>[1]
    BY <1>1, <2>1, <2>2
  <2>. QED BY <1>1, <2>1, <2>2, <2>3, <2>4
<1>. HIDE DEF w
<1>4. \A own : Chained(own, w)
  BY <1>3 DEF Chained, Follows, Finishes, Do
<1>5. OpenFailure(i) = w
  BY DEF OpenFailure, w, p
<1>. QED BY <1>3, <1>4, <1>5

-----------------------------------------------------------------------------
(* Callbacks that return. *)

(* create() returns an instance for open to be called on, or none. *)
LEMMA LeaveCreateInv ==
  ASSUME Inv, LeaveCreate
  PROVE  Inv'
<1>. DEFINE i == running.arg
<1>1. /\ running # NoCall /\ Plan # <<>> /\ Plan[1] = running
      /\ Plan[1].do = "create" /\ Working /\ Established
  BY InCall DEF LeaveCreate, In, WorkSteps
<1>2. TypeOK /\ 1 \in 1..Len(Plan)
  BY <1>1, PlanType DEF Inv
<1>3. i = song /\ song \in Songs /\ outcome[song] = "none" /\ instances[song] = "none"
  BY <1>1 DEF Established, AboutNew
<1>4. handles # {}
  BY <1>1, <1>2 DEF Working, Course, Foreseen, Lent
<1>5. /\ owned' = owned /\ handles' = handles /\ slots' = slots /\ prepared' = prepared
      /\ opened' = opened /\ song' = song /\ passed' = passed
      /\ record' = record /\ held' = held /\ takes' = takes
      /\ plugin_of' = plugin_of /\ statics' = statics /\ mapped' = mapped
      /\ service' = service /\ misused' = misused /\ running' = NoCall
  BY DEF LeaveCreate, Leave, held_by, store
<1>6. CASE todo' = todo /\ outcome' = outcome /\ instances' = [instances EXCEPT ![i] = "created"]
  <2>1. TypeOK'
    BY <1>2, <1>3, <1>5, <1>6 DEF TypeOK, NoCall, Do, Steps
  <2>2. /\ instances'[song] = "created"
        /\ \A j \in Instances : j # song => instances'[j] = instances[j]
    BY <1>2, <1>3, <1>6 DEF TypeOK, Instances
  <2>3. Advances(Plan, Plan')
    BY <1>1, <1>2, <1>5, <1>6, PlanAfterCall
  <2>4. /\ Course' /\ Plan' # <<>>
        /\ Follows(owned, Plan[1], Plan'[1])
    BY <1>1, <1>2, <1>5, <2>3, CourseAdvances DEF Finishes
  <2>5. Plan'[1].do = "open" /\ Plan'[1].arg = song
    BY <1>1, <1>3, <2>4 DEF Follows, Do
  <2>6. Working'
    BY <1>1, <1>3, <1>5, <1>6, <2>2, <2>4, <2>5 DEF Working, Up, Established, AboutNew
  <2>7. ~ \E j \in Instances : Loose(j)
    BY <1>1 DEF Loose
  <2>8. \A j : Loose(j)' <=> j = song
    BY <2>4, <2>5 DEF Loose
  <2>9. \A s \in Slots : slots[s] # song
    BY <1>3, SessionsAssumption DEF Inv, SlotsInv
  <2>10. SlotsInv'
    BY <1>2, <1>3, <1>5, <1>6, <2>2, <2>8, <2>9 DEF Inv, SlotsInv, TypeOK, Instances
  <2>11. InstancesInv'
    <3>1. \A j \in Instances : Live(j)' <=> InSlot(j)' \/ Loose(j)'
      BY <1>3, <1>5, <2>2, <2>7, <2>8, <2>9 DEF Inv, InstancesInv, Live, InSlot
    <3>2. \A j \in Instances : j \in opened' <=> instances'[j] = "open"
      BY <1>3, <1>5, <2>2 DEF Inv, InstancesInv
    <3>3. \A j \in Instances : j > song' => instances'[j] = "none" /\ outcome'[j] = "none"
      BY <1>3, <1>5, <1>6, <2>2 DEF Inv, InstancesInv, Instances, Songs
    <3>. QED BY <1>5, <3>1, <3>2, <3>3 DEF Inv, InstancesInv
  <2>12. RecordInv'
    BY <1>1, <1>5, <1>6, <2>4 DEF Inv, RecordInv, PassIsItsOwn, Do
  <2>. QED BY <1>5, <2>1, <2>6, <2>10, <2>11, <2>12 DEF Inv, RunningInv
<1>7. CASE Fails(i, "CreateFailed", <<>>) /\ instances' = instances
  <2>1. TypeOK'
    BY <1>2, <1>3, <1>5, <1>7 DEF TypeOK, NoCall, Do, Steps, Fails, Errors
  <2>2. /\ outcome'[song] = "CreateFailed"
        /\ \A j \in Songs : j # song => outcome'[j] = outcome[j]
    BY <1>2, <1>3, <1>7 DEF TypeOK, Fails
  <2>3. Plan' = <<>>
    BY <1>5, <1>7 DEF Plan, Fails
  <2>4. Course'
    BY <1>1, <1>4, <1>5, <2>3, EmptyCourse DEF Working, Course, Held, LastHandle
  <2>5. Working'
    BY <1>1, <1>5, <1>7, <2>3, <2>4 DEF Working, Up
  <2>6. \A j : ~Loose(j) /\ ~Loose(j)'
    BY <1>1, <2>3 DEF Loose
  <2>7. \A s \in Slots : slots[s] # song
    BY <1>3, SessionsAssumption DEF Inv, SlotsInv
  <2>8. SlotsInv'
    BY <1>2, <1>5, <1>7, <2>2, <2>6, <2>7 DEF Inv, SlotsInv, TypeOK
  <2>9. InstancesInv'
    <3>1. \A j \in Instances : Live(j)' <=> InSlot(j)' \/ Loose(j)'
      BY <1>5, <1>7, <2>6 DEF Inv, InstancesInv, Live, InSlot
    <3>2. \A j \in Instances : j > song' => instances'[j] = "none" /\ outcome'[j] = "none"
      BY <1>3, <1>5, <1>7, <2>2 DEF Inv, InstancesInv, Instances, Songs
    <3>. QED BY <1>5, <1>7, <3>1, <3>2 DEF Inv, InstancesInv
  <2>10. RecordInv'
    BY <1>1, <1>5, <2>2 DEF Inv, RecordInv, PassIsItsOwn, Do, Failed
  <2>. QED BY <1>5, <2>1, <2>5, <2>8, <2>9, <2>10 DEF Inv, RunningInv
<1>. QED BY <1>6, <1>7 DEF LeaveCreate

(* open() succeeds, or the player is dropped without a close and what it pushed
   is thrown away. *)
LEMMA LeaveOpenInv ==
  ASSUME Inv, LeaveOpen
  PROVE  Inv'
<1>. DEFINE i == running.arg
<1>1. /\ running # NoCall /\ Plan # <<>> /\ Plan[1] = running
      /\ Plan[1].do = "open" /\ Working /\ Established
  BY InCall DEF LeaveOpen, In, WorkSteps
<1>2. TypeOK /\ 1 \in 1..Len(Plan)
  BY <1>1, PlanType DEF Inv
<1>3. /\ i = song /\ song \in Songs /\ outcome[song] = "none"
      /\ instances[song] = "created" /\ song \notin opened
  BY <1>1 DEF Established, AboutNew, Inv, InstancesInv, Instances
<1>4. handles # {}
  BY <1>1, <1>2 DEF Working, Course, Foreseen, Lent
<1>5. /\ owned' = owned /\ handles' = handles /\ slots' = slots /\ prepared' = prepared
      /\ song' = song /\ passed' = passed
      /\ record' = record /\ held' = held /\ takes' = takes
      /\ plugin_of' = plugin_of /\ statics' = statics /\ mapped' = mapped
      /\ service' = service /\ misused' = misused /\ running' = NoCall
  BY DEF LeaveOpen, Leave, held_by, store
<1>6. \A s \in Slots : slots[s] # song
  BY <1>3, SessionsAssumption DEF Inv, SlotsInv
<1>7. \A j : Loose(j) <=> j = song
  BY <1>1, <1>3 DEF Loose
<1>8. CASE /\ todo' = todo /\ outcome' = outcome
           /\ instances' = [instances EXCEPT ![i] = "open"] /\ opened' = opened \cup {i}
  <2>1. TypeOK'
    BY <1>2, <1>3, <1>5, <1>8 DEF TypeOK, NoCall, Do, Steps, Instances
  <2>2. /\ instances'[song] = "open" /\ opened' = opened \cup {song}
        /\ \A j \in Instances : j # song => instances'[j] = instances[j]
    BY <1>2, <1>3, <1>8 DEF TypeOK, Instances
  <2>3. Advances(Plan, Plan')
    BY <1>1, <1>2, <1>5, <1>8, PlanAfterCall
  <2>4. /\ Course' /\ Plan' # <<>>
        /\ Follows(owned, Plan[1], Plan'[1])
    BY <1>1, <1>2, <1>5, <2>3, CourseAdvances DEF Finishes
  <2>5. Plan'[1] = Do("viz_info", song) \/ Plan'[1].do = "install"
    BY <1>1, <1>3, <2>4 DEF Follows
  <2>6. Working'
    BY <1>1, <1>3, <1>5, <1>8, <2>2, <2>4, <2>5 DEF Working, Up, Established, AboutNew, Do
  <2>7. \A j : Loose(j)' <=> j = song
    BY <1>5, <2>4, <2>5 DEF Loose, Do
  <2>8. SlotsInv'
    BY <1>2, <1>3, <1>5, <1>6, <1>8, <2>2, <2>7 DEF Inv, SlotsInv, TypeOK, Instances
  <2>9. InstancesInv'
    <3>1. \A j \in Instances : Live(j)' <=> InSlot(j)' \/ Loose(j)'
      BY <1>3, <1>5, <1>6, <1>7, <2>2, <2>7 DEF Inv, InstancesInv, Live, InSlot
    <3>2. \A j \in Instances : j \in opened' <=> instances'[j] = "open"
      BY <1>3, <1>5, <2>2 DEF Inv, InstancesInv
    <3>3. \A j \in Instances : j > song' => instances'[j] = "none" /\ outcome'[j] = "none"
      BY <1>3, <1>5, <1>8, <2>2 DEF Inv, InstancesInv, Instances, Songs
    <3>. QED BY <1>5, <3>1, <3>2, <3>3 DEF Inv, InstancesInv
  <2>10. RecordInv'
    BY <1>1, <1>5, <1>8, <2>4 DEF Inv, RecordInv, PassIsItsOwn, Do
  <2>. QED BY <1>5, <2>1, <2>6, <2>8, <2>9, <2>10 DEF Inv, RunningInv
<1>9. CASE /\ Fails(i, "OpenFailed", OpenFailure(i))
           /\ opened' = opened /\ instances' = instances
  <2>1. /\ outcome'[song] = "OpenFailed"
        /\ \A j \in Songs : j # song => outcome'[j] = outcome[j]
        /\ outcome' \in [Songs -> {"none", "Ok", "NoRecord"} \cup Errors]
    BY <1>2, <1>3, <1>9 DEF TypeOK, Fails, Errors
  <2>2. /\ Plan' = todo' /\ todo' \in Seq(Steps) /\ Len(Plan') = 2
        /\ Plan'[1] = Do("destroy", song) /\ Plan'[2] = Do("discard", song)
        /\ Chained(owned', Plan')
    BY <1>3, <1>5, <1>9, OpenFailureSteps DEF Plan, Fails
  <2>3. TypeOK'
    BY <1>2, <1>5, <1>9, <2>1, <2>2 DEF TypeOK, NoCall, Do, Steps
  <2>4. Plan' # <<>> /\ \A k \in 1..Len(Plan') : k = 1 \/ k = 2
    BY <2>2
  <2>5. Course'
    BY <1>1, <1>4, <1>5, <2>2, <2>4, CourseAfresh
       DEF Working, Course, Held, LastHandle, Do
  <2>6. Working'
    BY <1>1, <1>3, <1>5, <1>9, <2>1, <2>2, <2>5
       DEF Working, Up, Established, AboutNew, Do
  <2>7. \A j : Loose(j)' <=> j = song
    BY <2>2, <2>4 DEF Loose, Do
  <2>8. SlotsInv'
    BY <1>2, <1>5, <1>6, <1>9, <2>1, <2>7 DEF Inv, SlotsInv, TypeOK
  <2>9. InstancesInv'
    <3>1. \A j \in Instances : Live(j)' <=> InSlot(j)' \/ Loose(j)'
      BY <1>5, <1>7, <1>9, <2>7 DEF Inv, InstancesInv, Live, InSlot
    <3>2. \A j \in Instances : j > song' => instances'[j] = "none" /\ outcome'[j] = "none"
      BY <1>3, <1>5, <1>9, <2>1 DEF Inv, InstancesInv, Instances, Songs
    <3>. QED BY <1>5, <1>9, <3>1, <3>2 DEF Inv, InstancesInv
  <2>10. RecordInv'
    BY <1>1, <1>5, <2>1, <2>2, <2>4 DEF Inv, RecordInv, PassIsItsOwn, Do
  <2>. QED BY <1>5, <2>3, <2>6, <2>8, <2>9, <2>10 DEF Inv, RunningInv
<1>. QED BY <1>8, <1>9 DEF LeaveOpen

(* An opened player whose setup is refused is closed and destroyed; shared by
   viz_info and prepare. *)
LEMMA SetupFails ==
  ASSUME Inv, Working, Plan # <<>>, NEW i \in Songs, Plan[1].arg = i,
         \/ Plan[1].do = "viz_info"
         \/ Plan[1].do = "prepare",
         instances[i] = "open", handles # {},
         Fails(i, "SetupFailed", PlayerDrop(i)), running' = NoCall,
         slots' \in [Slots -> Songs \cup {None}],
         \A s \in Slots : slots'[s] = IF slots[s] = i THEN None ELSE slots[s],
         /\ owned' = owned /\ handles' = handles /\ song' = song
         /\ opened' = opened /\ passed' = passed /\ instances' = instances
         /\ record' = record /\ held' = held /\ takes' = takes
         /\ plugin_of' = plugin_of /\ statics' = statics /\ mapped' = mapped
         /\ service' = service /\ misused' = misused /\ prepared' = prepared
  PROVE  Inv'
<1>1. TypeOK /\ i \in opened /\ i <= song /\ i # None
  <2>1. TypeOK /\ InstancesInv
    BY DEF Inv
  <2>2. i \in Instances /\ i # None /\ i \in Nat /\ song \in Nat
    BY <2>1, SessionsAssumption DEF Instances, Songs, TypeOK
  <2>. QED BY <2>1, <2>2 DEF InstancesInv
<1>2. /\ outcome'[i] = "SetupFailed"
      /\ \A j \in Songs : j # i => outcome'[j] = outcome[j]
      /\ outcome' \in [Songs -> {"none", "Ok", "NoRecord"} \cup Errors]
  BY <1>1 DEF TypeOK, Fails, Errors
<1>3. /\ Plan' = todo' /\ todo' \in Seq(Steps) /\ Len(Plan') = 2
      /\ Plan'[1] = Do("close", i) /\ Plan' # <<>>
      /\ Chained(owned', Plan')
      /\ \A k \in 1..Len(Plan') : Plan'[k].do \in {"close", "destroy"}
  BY <1>1, PlayerDropSteps DEF Plan, Fails
<1>4. TypeOK'
  BY <1>1, <1>2, <1>3 DEF TypeOK, NoCall, Do, Steps
<1>5. Course'
  BY <1>3, CourseAfresh DEF Working, Course, Held, LastHandle
<1>6. Working'
  BY <1>2, <1>3, <1>5 DEF Working, Up, Established, AboutNew, Do, Failed
<1>7. \A j : Loose(j)' <=> j = i
  BY <1>3 DEF Loose, Do
<1>8. SlotsInv'
  BY <1>1, <1>2, <1>7 DEF Inv, SlotsInv, TypeOK
<1>9. InstancesInv'
  <2>1. \A j \in Instances : InSlot(j)' <=> InSlot(j) /\ j # i
    BY <1>1, SessionsAssumption DEF InSlot, Instances
  <2>2. \A j : Loose(j) => j = i
    BY DEF Loose
  <2>3. Live(i)
    BY DEF Live
  <2>4. \A j \in Instances : Live(j)' <=> InSlot(j)' \/ Loose(j)'
    BY <1>7, <2>1, <2>2, <2>3 DEF Inv, InstancesInv, Live
  <2>5. \A j \in Instances : j > song' => instances'[j] = "none" /\ outcome'[j] = "none"
    BY <1>1, <1>2 DEF Inv, InstancesInv, Instances, Songs
  <2>. QED BY <2>4, <2>5 DEF Inv, InstancesInv
<1>10. RecordInv'
  BY <1>2, <1>3 DEF Inv, RecordInv, PassIsItsOwn, Do, Failed
<1>. QED BY <1>4, <1>6, <1>8, <1>9, <1>10 DEF Inv, RunningInv

(* prepare_visualization goes on, or refuses. *)
LEMMA LeaveVizInfoInv ==
  ASSUME Inv, LeaveVizInfo
  PROVE  Inv'
<1>. DEFINE i == running.arg
<1>1. /\ running # NoCall /\ Plan # <<>> /\ Plan[1] = running
      /\ Plan[1].do = "viz_info" /\ Working /\ Established
  BY InCall DEF LeaveVizInfo, In, WorkSteps
<1>2. TypeOK /\ 1 \in 1..Len(Plan)
  BY <1>1, PlanType DEF Inv
<1>3. /\ i = song /\ song \in Songs /\ outcome[song] = "none"
      /\ instances[song] = "open"
  BY <1>1 DEF Established, AboutNew
<1>4. handles # {} /\ owned
  BY <1>1, <1>2 DEF Working, Course, Foreseen, Lent
<1>5. /\ owned' = owned /\ handles' = handles /\ slots' = slots /\ prepared' = prepared
      /\ song' = song /\ passed' = passed
      /\ record' = record /\ held' = held /\ takes' = takes
      /\ plugin_of' = plugin_of /\ statics' = statics /\ mapped' = mapped
      /\ service' = service /\ misused' = misused /\ running' = NoCall
      /\ opened' = opened /\ instances' = instances
  BY DEF LeaveVizInfo, Leave, held_by, store
<1>6. CASE todo' = todo /\ outcome' = outcome
  <2>1. TypeOK'
    BY <1>2, <1>5, <1>6 DEF TypeOK, NoCall, Do, Steps
  <2>2. Advances(Plan, Plan')
    BY <1>1, <1>2, <1>5, <1>6, PlanAfterCall
  <2>3. /\ Course' /\ Plan' # <<>>
        /\ Follows(owned, Plan[1], Plan'[1])
    BY <1>1, <1>2, <1>5, <2>2, CourseAdvances DEF Finishes
  <2>4. Plan'[1] = Do("prepare", song)
    BY <1>1, <1>3, <2>3 DEF Follows
  <2>5. Working'
    BY <1>1, <1>3, <1>4, <1>5, <1>6, <2>3, <2>4 DEF Working, Up, Established, AboutNew, Do
  <2>6. \A j : Loose(j)' <=> Loose(j)
    BY <1>1, <1>3, <1>4, <1>5, <2>3, <2>4 DEF Loose, Do
  <2>7. SlotsInv' /\ InstancesInv'
    BY <1>5, <1>6, <2>6 DEF Inv, SlotsInv, InstancesInv, Live, InSlot
  <2>8. RecordInv'
    BY <1>1, <1>5, <1>6, <2>3 DEF Inv, RecordInv, PassIsItsOwn, Do
  <2>. QED BY <1>5, <2>1, <2>5, <2>7, <2>8 DEF Inv, RunningInv
<1>7. CASE Fails(i, "SetupFailed", PlayerDrop(i))
  <2>1. \A s \in Slots : slots[s] # song
    BY <1>1, <1>3, SessionsAssumption DEF Inv, SlotsInv, Loose
  <2>. QED BY <1>1, <1>2, <1>3, <1>4, <1>5, <1>7, <2>1, SetupFails DEF TypeOK
<1>. QED BY <1>6, <1>7 DEF LeaveVizInfo

(* A call of a session leaves nothing behind. *)
LEMMA LeaveUseInv ==
  ASSUME Inv, LeaveUse
  PROVE  Inv'
<1>. DEFINE i == running.arg
<1>1. /\ running # NoCall /\ Plan # <<>> /\ Plan[1] = running
      /\ Plan[1].do = "use" /\ Working /\ Established
  BY InCall DEF LeaveUse, In, WorkSteps
<1>2. TypeOK /\ 1 \in 1..Len(Plan)
  BY <1>1, PlanType DEF Inv
<1>3. /\ owned' = owned /\ handles' = handles /\ slots' = slots /\ prepared' = prepared
      /\ song' = song /\ passed' = passed
      /\ record' = record /\ held' = held /\ takes' = takes
      /\ plugin_of' = plugin_of /\ statics' = statics /\ mapped' = mapped
      /\ service' = service /\ misused' = misused /\ running' = NoCall
      /\ opened' = opened /\ instances' = instances /\ outcome' = outcome
      /\ todo' = todo
  BY DEF LeaveUse, Leave, host, held_by, songs, store
<1>4. TypeOK'
  BY <1>2, <1>3 DEF TypeOK, NoCall, Do, Steps
<1>5. Advances(Plan, Plan')
  BY <1>1, <1>2, <1>3, PlanAfterCall
<1>6. Course' /\ Plan' = <<>>
  BY <1>1, <1>2, <1>3, <1>5, CourseAdvances DEF Follows
<1>7. Working'
  BY <1>1, <1>3, <1>6 DEF Working, Up
<1>8. \A j : ~Loose(j) /\ ~Loose(j)'
  BY <1>1, <1>6 DEF Loose
<1>9. SlotsInv' /\ InstancesInv'
  BY <1>3, <1>8 DEF Inv, SlotsInv, InstancesInv, Live, InSlot
<1>10. RecordInv'
  BY <1>1, <1>3 DEF Inv, RecordInv, PassIsItsOwn, Do
<1>. QED BY <1>3, <1>4, <1>7, <1>9, <1>10 DEF Inv, RunningInv

(* close() or destroy() returns. *)
LEMMA LeaveDropInv ==
  ASSUME Inv, LeaveDrop
  PROVE  Inv'
<1>. DEFINE i == running.arg
<1>1. /\ running # NoCall /\ Plan # <<>> /\ Plan[1] = running
      /\ Plan[1].do \in {"close", "destroy"} /\ Working /\ Established
  BY InCall DEF LeaveDrop, WorkSteps
<1>2. TypeOK /\ 1 \in 1..Len(Plan)
  BY <1>1, PlanType DEF Inv
<1>3. /\ i \in Songs /\ Live(i)
      /\ Plan[1].do = "destroy" => i \notin opened
      /\ Plan[1].do = "close" => outcome[i] \notin Failed
  BY <1>1 DEF Established, Live, Inv, InstancesInv, Instances
<1>4. /\ owned' = owned /\ handles' = handles /\ slots' = slots /\ prepared' = prepared
      /\ song' = song /\ passed' = passed
      /\ record' = record /\ held' = held /\ takes' = takes
      /\ plugin_of' = plugin_of /\ statics' = statics /\ mapped' = mapped
      /\ service' = service /\ misused' = misused /\ running' = NoCall
      /\ outcome' = outcome /\ todo' = todo /\ opened' = opened \ {i}
  BY DEF LeaveDrop, Leave, held_by, store
<1>5. /\ instances'[i] = IF Plan[1].do = "close" THEN "closed" ELSE "destroyed"
      /\ \A j \in Instances : j # i => instances'[j] = instances[j]
      /\ instances' \in [Instances -> {"none", "created", "open", "closed", "destroyed"}]
  BY <1>1, <1>2, <1>3 DEF LeaveDrop, TypeOK, Instances, In
<1>6. TypeOK'
  BY <1>2, <1>4, <1>5 DEF TypeOK, NoCall, Do, Steps
<1>7. Advances(Plan, Plan')
  BY <1>1, <1>2, <1>4, PlanAfterCall
<1>8. \A j : Loose(j) <=> j = i
  BY <1>1 DEF Loose
<1>9. /\ Course'
      /\ Plan' = <<>> => Len(Plan) = 1 /\ Finishes(owned, Plan[1])
      /\ Plan' # <<>> => /\ Len(Plan) > 1 /\ Plan'[1] = Plan[2]
                         /\ Follows(owned, Plan[1], Plan'[1])
  <2>1. song \in Songs /\ instances[song] = "none" => instances'[song] = "none"
    BY <1>3, <1>5 DEF Live, Instances
  <2>. QED BY <1>1, <1>2, <1>4, <1>7, <2>1, CourseAdvances
<1>10. \A s \in Slots : slots[s] # i
  BY <1>3, <1>8, SessionsAssumption DEF Inv, SlotsInv
<1>11. SlotsInv' /\ InstancesInv' /\ RecordInv' /\ Working'
  <2>1. CASE Plan[1].do = "close"
    <3>1. Plan' # <<>> /\ Plan'[1] = Do("destroy", i)
      BY <1>1, <1>9, <2>1 DEF Finishes, Follows
    <3>2. \A j : Loose(j)' <=> j = i
      BY <3>1 DEF Loose, Do
    <3>3. SlotsInv'
      BY <1>2, <1>4, <1>5, <1>10, <3>2 DEF Inv, SlotsInv, TypeOK, Instances
    <3>4. InstancesInv'
      <4>1. \A j \in Instances : Live(j)' <=> InSlot(j)' \/ Loose(j)'
        BY <1>3, <1>4, <1>5, <1>8, <2>1, <3>2 DEF Inv, InstancesInv, Live, InSlot
      <4>2. \A j \in Instances : j \in opened' <=> instances'[j] = "open"
        BY <1>4, <1>5, <2>1 DEF Inv, InstancesInv
      <4>3. \A j \in Instances : j > song' => instances'[j] = "none" /\ outcome'[j] = "none"
        BY <1>3, <1>4, <1>5 DEF Inv, InstancesInv, Live
      <4>. QED BY <1>4, <4>1, <4>2, <4>3 DEF Inv, InstancesInv
    <3>5. RecordInv'
      BY <1>1, <1>4, <2>1 DEF Inv, RecordInv, PassIsItsOwn, Do
    <3>6. Working'
      BY <1>1, <1>3, <1>4, <1>5, <1>9, <2>1, <3>1 DEF Working, Up, Established, AboutNew, Do
    <3>. QED BY <3>3, <3>4, <3>5, <3>6
  <2>2. CASE Plan[1].do = "destroy"
    <3>1. Plan' # <<>> => Plan'[1].do = "release" \/ Plan'[1] = Do("discard", i)
      BY <1>1, <1>9, <2>2 DEF Finishes, Follows
    <3>2. \A j : ~Loose(j)'
      BY <3>1 DEF Loose, Do
    <3>3. SlotsInv'
      BY <1>2, <1>4, <1>5, <1>10, <3>2 DEF Inv, SlotsInv, TypeOK, Instances
    <3>4. InstancesInv'
      <4>1. \A j \in Instances : Live(j)' <=> InSlot(j)' \/ Loose(j)'
        BY <1>3, <1>4, <1>5, <1>8, <1>10, <2>2, <3>2 DEF Inv, InstancesInv, Live, InSlot
      <4>2. \A j \in Instances : j \in opened' <=> instances'[j] = "open"
        BY <1>4, <1>5, <2>2 DEF Inv, InstancesInv
      <4>3. \A j \in Instances : j > song' => instances'[j] = "none" /\ outcome'[j] = "none"
        BY <1>3, <1>4, <1>5 DEF Inv, InstancesInv, Live
      <4>. QED BY <1>4, <4>1, <4>2, <4>3 DEF Inv, InstancesInv
    <3>5. RecordInv'
      <4>1. ASSUME NEW n \in Songs, outcome'[n] \in Failed, n \in SongsOf(record)'
            PROVE  Plan' # <<>> /\ Plan'[1] = Do("discard", n)
        <5>1. n = i
          BY <1>1, <1>4, <2>2, <4>1 DEF Inv, RecordInv, Do
        <5>2. Len(Plan) > 1 /\ Plan[2] = Do("discard", i)
          BY <1>1, <1>4, <2>2, <4>1, <5>1 DEF Established
        <5>3. Plan' # <<>>
          BY <1>9, <5>2
        <5>. QED BY <1>9, <5>1, <5>2, <5>3
      <4>. QED BY <1>4, <4>1 DEF Inv, RecordInv, PassIsItsOwn
    <3>6. Plan' # <<>> => ~(Plan'[1].do = "discard" /\ Len(Plan') > 1)
      <4>1. Len(Plan) \in Nat /\ Len(Plan') \in Nat /\ Len(Plan') = Len(Plan) - 1
        BY <1>2, <1>7, PlanType DEF Advances
      <4>2. ASSUME Plan' # <<>>, Plan'[1].do = "discard"
            PROVE  Len(Plan') = 1
        <5>1. 2 \in 1..Len(Plan) /\ Plan[2].do = "discard"
          BY <1>9, <4>1, <4>2
        <5>2. \A k \in 1..Len(Plan) : Plan[k].do = "discard" /\ k > 1 => k = Len(Plan)
          BY <1>1 DEF Working, Course, Foreseen
        <5>3. Len(Plan) = 2
          BY <4>1, <5>1, <5>2
        <5>. QED BY <4>1, <5>3
      <4>. QED BY <4>1, <4>2
    <3>7. Plan' # <<>> => Established'
      BY <1>4, <3>1, <3>6 DEF Established, AboutNew, Do
    <3>8. Working'
      BY <1>1, <1>4, <1>9, <3>7 DEF Working, Up
    <3>. QED BY <3>3, <3>4, <3>5, <3>8
  <2>. QED BY <1>1, <2>1, <2>2
<1>. QED BY <1>4, <1>6, <1>11 DEF Inv, RunningInv

(* metadata() succeeds, and its record is taken, or fails, and it is not. *)
LEMMA LeaveMetadataInv ==
  ASSUME Inv, LeaveMetadata
  PROVE  Inv'
<1>. DEFINE i == running.arg
<1>1. /\ running # NoCall /\ Plan # <<>> /\ Plan[1] = running
      /\ Plan[1].do = "metadata" /\ Working /\ Established
  BY InCall DEF LeaveMetadata, In, WorkSteps
<1>2. TypeOK /\ 1 \in 1..Len(Plan)
  BY <1>1, PlanType DEF Inv
<1>3. /\ i = song /\ song \in Songs /\ outcome[song] = "none"
      /\ instances[song] = "none" /\ SongsOf(record) \subseteq {song}
  BY <1>1 DEF Established, AboutNew
<1>4. handles # {}
  BY <1>1, <1>2 DEF Working, Course, Foreseen, Lent
<1>5. /\ owned' = owned /\ handles' = handles /\ slots' = slots /\ prepared' = prepared
      /\ song' = song /\ passed' = passed
      /\ record' = record /\ held' = held /\ takes' = takes
      /\ plugin_of' = plugin_of /\ statics' = statics /\ mapped' = mapped
      /\ service' = service /\ misused' = misused /\ running' = NoCall
      /\ opened' = opened /\ instances' = instances
  BY DEF LeaveMetadata, Leave, held_by, store
<1>6. \A s \in Slots : slots[s] # song
  BY <1>3, SessionsAssumption DEF Inv, SlotsInv
<1>7. \A j : ~Loose(j)
  BY <1>1 DEF Loose
<1>8. CASE todo' = todo /\ outcome' = outcome
  <2>1. TypeOK'
    BY <1>2, <1>5, <1>8 DEF TypeOK, NoCall, Do, Steps
  <2>2. Advances(Plan, Plan')
    BY <1>1, <1>2, <1>5, <1>8, PlanAfterCall
  <2>3. /\ Course' /\ Plan' # <<>>
        /\ Follows(owned, Plan[1], Plan'[1])
    BY <1>1, <1>2, <1>5, <2>2, CourseAdvances DEF Finishes
  <2>4. Plan'[1] = Do("take", song)
    BY <1>1, <1>3, <2>3 DEF Follows
  <2>5. Working'
    BY <1>1, <1>3, <1>5, <1>8, <2>3, <2>4 DEF Working, Up, Established, AboutNew, Do
  <2>6. \A j : ~Loose(j)'
    BY <2>3, <2>4 DEF Loose, Do
  <2>7. SlotsInv' /\ InstancesInv'
    BY <1>5, <1>7, <1>8, <2>6 DEF Inv, SlotsInv, InstancesInv, Live, InSlot
  <2>8. RecordInv'
    BY <1>1, <1>5, <1>8, <2>3 DEF Inv, RecordInv, PassIsItsOwn, Do
  <2>. QED BY <1>5, <2>1, <2>5, <2>7, <2>8 DEF Inv, RunningInv
<1>9. CASE Fails(i, "MetadataFailed", <<Do("discard", i)>>)
  <2>1. /\ outcome'[song] = "MetadataFailed"
        /\ \A j \in Songs : j # song => outcome'[j] = outcome[j]
        /\ outcome' \in [Songs -> {"none", "Ok", "NoRecord"} \cup Errors]
    BY <1>2, <1>3, <1>9 DEF TypeOK, Fails, Errors
  <2>2. /\ Plan' = todo' /\ todo' \in Seq(Steps) /\ Len(Plan') = 1 /\ Plan' # <<>>
        /\ Plan'[1] = Do("discard", song)
    BY <1>3, <1>5, <1>9, DoSteps DEF Plan, Fails
  <2>3. Chained(owned', Plan')
    BY <2>2 DEF Chained, Finishes, Do
  <2>4. TypeOK'
    BY <1>2, <1>5, <2>1, <2>2 DEF TypeOK, NoCall, Do, Steps
  <2>5. Course'
    BY <1>1, <1>4, <1>5, <2>2, <2>3, CourseAfresh DEF Working, Course, Held, LastHandle, Do
  <2>6. Working'
    BY <1>1, <1>5, <2>2, <2>5 DEF Working, Up, Established, AboutNew, Do
  <2>7. \A j : ~Loose(j)'
    BY <2>2 DEF Loose, Do
  <2>8. SlotsInv'
    BY <1>2, <1>5, <1>6, <1>7, <2>1, <2>7 DEF Inv, SlotsInv, TypeOK
  <2>9. InstancesInv'
    <3>1. \A j \in Instances : Live(j)' <=> InSlot(j)' \/ Loose(j)'
      BY <1>5, <1>7, <2>7 DEF Inv, InstancesInv, Live, InSlot
    <3>2. \A j \in Instances : j > song' => instances'[j] = "none" /\ outcome'[j] = "none"
      BY <1>3, <1>5, <2>1 DEF Inv, InstancesInv, Instances, Songs
    <3>. QED BY <1>5, <3>1, <3>2 DEF Inv, InstancesInv
  <2>10. RecordInv'
    BY <1>1, <1>5, <2>1, <2>2 DEF Inv, RecordInv, PassIsItsOwn, Do
  <2>. QED BY <1>5, <2>4, <2>6, <2>8, <2>9, <2>10 DEF Inv, RunningInv
<1>. QED BY <1>8, <1>9 DEF LeaveMetadata

-----------------------------------------------------------------------------
(* How the runtime starts and ends. *)

(* A step that is about no session: all but the plan and the plugins' own state
   stays as it is. *)
LEMMA AboutNoSession ==
  ASSUME Inv, \A j : ~Loose(j) /\ ~Loose(j)',
         Plan # <<>> => Plan[1].do \notin {"destroy", "discard"},
         instances' = instances, slots' = slots, opened' = opened, song' = song,
         outcome' = outcome, owned' = owned, handles' = handles, record' = record,
         passed' = passed
  PROVE  SlotsInv' /\ InstancesInv' /\ RecordInv'
<1>1. SlotsInv' /\ InstancesInv'
  BY DEF Inv, SlotsInv, InstancesInv, Live, InSlot
<1>2. RecordInv'
  BY DEF Inv, RecordInv, PassIsItsOwn, Do
<1>. QED BY <1>1, <1>2

LEMMA LeaveStaticInit ==
  ASSUME Inv, LeaveStatic, running.do = "static_init"
  PROVE  Inv'
<1>1. TypeOK /\ running # NoCall
  BY DEF Inv, NoCall, Do
<1>2. /\ Plan # <<>> /\ Plan[1] = running /\ Advances(Plan, Plan')
      /\ Len(Plan) \in Nat /\ Len(Plan') \in Nat /\ Len(Plan') = Len(Plan) - 1
      /\ \A k \in 1..Len(Plan') : Plan'[k] = Plan[k + 1]
  BY <1>1, PlanInCall, PlanType, PlanAfterCall DEF LeaveStatic, Leave, Advances
<1>3. Starting
  BY <1>1, <1>2, WorkingSteps, EndingSteps DEF Inv, WorkSteps
<1>4. PICK k \in 1..N :
        /\ Len(Plan) = N - k + 1
        /\ \A j \in 1..Len(Plan) : Plan[j] = Do("static_init", PluginOrder[k + j - 1])
        /\ \A j \in 1..N : statics[PluginOrder[j]] = IF j < k THEN "up" ELSE "new"
  BY <1>3 DEF Starting
<1>5. k \in Nat /\ N \in Nat
  BY NType
<1>6. running.arg = PluginOrder[k]
  <2>1. 1 \in 1..Len(Plan) /\ k + 1 - 1 = k
    BY <1>4, <1>5
  <2>. QED BY <1>2, <1>4, <2>1 DEF Do
<1>7. /\ statics' \in [Plugins -> {"new", "up", "down"}]
      /\ \A j \in 1..N : statics'[PluginOrder[j]] = IF j < k + 1 THEN "up" ELSE "new"
  <2>1. statics' = [statics EXCEPT ![PluginOrder[k]] = "up"]
    BY <1>6 DEF LeaveStatic, In
  <2>2. statics \in [Plugins -> {"new", "up", "down"}]
    BY <1>1 DEF TypeOK
  <2>3. ASSUME NEW j \in 1..N
        PROVE  statics'[PluginOrder[j]] = IF j < k + 1 THEN "up" ELSE "new"
    <3>1. PluginOrder[j] \in Plugins
      BY NType
    <3>2. CASE j = k
      BY <1>5, <2>1, <2>2, <3>1, <3>2
    <3>3. CASE j # k
      <4>1. PluginOrder[j] # PluginOrder[k]
        BY <3>3, OrderOnce
      <4>2. statics'[PluginOrder[j]] = statics[PluginOrder[j]]
        BY <2>1, <2>2, <3>1, <4>1
      <4>. QED BY <1>4, <1>5, <3>3, <4>2
    <3>. QED BY <3>2, <3>3
  <2>. QED BY <2>1, <2>2, <2>3
<1>8. /\ todo' = todo /\ UNCHANGED <<host, store, plugin_of, instances, mapped, service, misused>>
      /\ running' = NoCall
  BY DEF LeaveStatic, Leave
<1>9. TypeOK'
  BY <1>1, <1>7, <1>8 DEF TypeOK, NoCall, Do, Steps, host, held_by, songs, store
<1>10. /\ mapped /\ service /\ "runtime" \in handles /\ song = 0
  BY <1>3 DEF Starting
<1>11. CASE k = N
  <2>1. Plan' = <<>>
    BY <1>2, <1>4, <1>5, <1>11 DEF Advances
  <2>2. \A p \in Plugins : statics'[p] = "up"
    <3>1. \A j \in 1..N : statics'[PluginOrder[j]] = "up"
      BY <1>5, <1>7, <1>11
    <3>. QED BY <3>1, NType
  <2>3. Course'
    BY <1>8, <1>10, <2>1, EmptyCourse DEF LastHandle, host, held_by
  <2>4. Working'
    BY <1>8, <1>10, <2>1, <2>2, <2>3 DEF Working, Up
  <2>5. \A j : ~Loose(j) /\ ~Loose(j)'
    BY <1>2, <2>1 DEF Loose
  <2>6. SlotsInv' /\ InstancesInv' /\ RecordInv'
    BY <1>2, <1>8, <2>5, AboutNoSession DEF host, held_by, songs, store
  <2>. QED BY <1>8, <1>9, <2>4, <2>6 DEF Inv, RunningInv
<1>12. CASE k # N
  <2>1. k + 1 \in 1..N /\ Len(Plan') = N - (k + 1) + 1
    BY <1>2, <1>4, <1>5, <1>12
  <2>2. \A j \in 1..Len(Plan') : Plan'[j] = Do("static_init", PluginOrder[(k + 1) + j - 1])
    <3>. TAKE j \in 1..Len(Plan')
    <3>1. j + 1 \in 1..Len(Plan) /\ k + (j + 1) - 1 = (k + 1) + j - 1
      BY <1>2, <1>5
    <3>. QED BY <1>2, <1>4, <3>1
  <2>3. Starting'
    BY <1>7, <1>8, <1>10, <2>1, <2>2 DEF Starting, host, held_by, songs
  <2>4. Plan' # <<>> /\ Plan'[1].do = "static_init"
    <3>1. 1 \in 1..Len(Plan') /\ (k + 1) + 1 - 1 = k + 1 /\ Plan' # <<>>
      BY <1>2, <1>5, <2>1
    <3>2. Plan'[1] = Do("static_init", PluginOrder[(k + 1) + 1 - 1])
      BY <2>2, <3>1
    <3>. QED BY <3>1, <3>2 DEF Do
  <2>5. \A j : ~Loose(j) /\ ~Loose(j)'
    BY <1>2, <2>4 DEF Loose
  <2>6. SlotsInv' /\ InstancesInv' /\ RecordInv'
    BY <1>2, <1>8, <2>5, AboutNoSession DEF host, held_by, songs, store
  <2>. QED BY <1>8, <1>9, <2>3, <2>6 DEF Inv, RunningInv
<1>. QED BY <1>11, <1>12

(* The steps that end the runtime: one after another, each does its own. *)
LEMMA EndStep ==
  ASSUME Inv, Advances(Plan, Plan'),
         Plan[1].do \in {"static_destroy", "unmap", "end_service"},
         statics' = IF Plan[1].do = "static_destroy"
                    THEN [statics EXCEPT ![Plan[1].arg] = "down"] ELSE statics,
         mapped' = (mapped /\ Plan[1].do # "unmap"),
         service' = (service /\ Plan[1].do # "end_service"),
         UNCHANGED <<host, store, plugin_of, instances, misused>>,
         running' = NoCall, todo' \in Seq(Steps)
  PROVE  Inv'
<1>1. /\ TypeOK /\ Plan # <<>>
      /\ Len(Plan) \in Nat /\ Len(Plan') \in Nat /\ Len(Plan') = Len(Plan) - 1
      /\ \A k \in 1..Len(Plan') : Plan'[k] = Plan[k + 1]
  BY PlanType DEF Advances, Inv
<1>2. Ending
  BY <1>1, WorkingSteps, StartingSteps DEF Inv, WorkSteps
<1>3. PICK k \in 1..(N + 3) :
        /\ Len(Plan) = N + 3 - k
        /\ \A j \in 1..Len(Plan) : Plan[j] = LastSteps(k + j - 1)
        /\ \A j \in 1..N : statics[PluginOrder[j]] = IF j < k THEN "down" ELSE "up"
        /\ mapped <=> k <= N + 1
        /\ service <=> k <= N + 2
  BY <1>2 DEF Ending
<1>4. k \in Nat /\ N \in Nat /\ k + 1 \in 1..(N + 3) /\ Len(Plan') = N + 3 - (k + 1)
  BY <1>1, <1>3, NType
<1>5. Plan[1] = LastSteps(k)
  <2>1. 1 \in 1..Len(Plan) /\ k + 1 - 1 = k
    BY <1>1, <1>4
  <2>. QED BY <1>3, <2>1
<1>6. /\ k <= N <=> Plan[1].do = "static_destroy"
      /\ k = N + 1 <=> Plan[1].do = "unmap"
      /\ k <= N => Plan[1].arg = PluginOrder[k]
  BY <1>4, <1>5 DEF LastSteps, Do
<1>7. \A j \in 1..Len(Plan') : Plan'[j] = LastSteps((k + 1) + j - 1)
  <2>. TAKE j \in 1..Len(Plan')
  <2>1. j + 1 \in 1..Len(Plan) /\ k + (j + 1) - 1 = (k + 1) + j - 1
    BY <1>1, <1>4
  <2>. QED BY <1>1, <1>3, <2>1
<1>8. /\ statics' \in [Plugins -> {"new", "up", "down"}]
      /\ \A j \in 1..N : statics'[PluginOrder[j]] = IF j < k + 1 THEN "down" ELSE "up"
  <2>1. statics \in [Plugins -> {"new", "up", "down"}]
    BY <1>1 DEF TypeOK
  <2>2. CASE k <= N
    <3>1. statics' = [statics EXCEPT ![PluginOrder[k]] = "down"] /\ k \in 1..N
      <4>1. Plan[1].do = "static_destroy" /\ Plan[1].arg = PluginOrder[k]
        BY <1>6, <2>2
      <4>2. statics' = [statics EXCEPT ![Plan[1].arg] = "down"]
        BY <4>1
      <4>3. k \in 1..N
        BY <1>4, <2>2
      <4>. QED BY <4>1, <4>2, <4>3
    <3>2. ASSUME NEW j \in 1..N
          PROVE  statics'[PluginOrder[j]] = IF j < k + 1 THEN "down" ELSE "up"
      <4>1. PluginOrder[j] \in Plugins
        BY NType
      <4>2. CASE j = k
        BY <1>4, <2>1, <3>1, <4>1, <4>2
      <4>3. CASE j # k
        <5>1. PluginOrder[j] # PluginOrder[k]
          BY <3>1, <4>3, OrderOnce
        <5>2. statics'[PluginOrder[j]] = statics[PluginOrder[j]]
          BY <2>1, <3>1, <4>1, <5>1
        <5>. QED BY <1>3, <1>4, <4>3, <5>2
      <4>. QED BY <4>2, <4>3
    <3>. QED BY <2>1, <3>1, <3>2
  <2>3. CASE ~(k <= N)
    <3>1. statics' = statics
      BY <1>6, <2>3
    <3>2. \A j \in 1..N : j < k /\ j < k + 1
      BY <1>4, <2>3
    <3>. QED BY <1>3, <2>1, <3>1, <3>2
  <2>. QED BY <2>2, <2>3
<1>9. (mapped' <=> k + 1 <= N + 1) /\ (service' <=> k + 1 <= N + 2)
  <2>1. Plan[1].do = "end_service" <=> k = N + 2
    <3>1. k <= N + 2
      BY <1>1, <1>4
    <3>. QED BY <1>4, <1>5, <1>6, <3>1 DEF LastSteps, Do
  <2>2. /\ mapped' <=> mapped /\ k # N + 1
        /\ service' <=> service /\ k # N + 2
    BY <1>6, <2>1
  <2>3. /\ k <= N + 1 /\ k # N + 1 <=> k + 1 <= N + 1
        /\ k <= N + 2 /\ k # N + 2 <=> k + 1 <= N + 2
    BY <1>4
  <2>. QED BY <1>3, <2>2, <2>3
<1>10. TypeOK'
  BY <1>1, <1>8 DEF TypeOK, NoCall, Do, Steps, host, held_by, songs, store
<1>11. Ending'
  <2>1. LastHandle(handles, slots)'
    BY <1>2 DEF Ending, LastHandle, host, held_by
  <2>. QED BY <1>4, <1>7, <1>8, <1>9, <2>1 DEF Ending
<1>12. Plan' # <<>> => Plan'[1].do \in {"static_destroy", "unmap", "end_service"}
  <2>. SUFFICES ASSUME Plan' # <<>>
                PROVE  Plan'[1].do \in {"static_destroy", "unmap", "end_service"}
    OBVIOUS
  <2>1. 1 \in 1..Len(Plan')
    BY <1>1 DEF Advances
  <2>2. Plan'[1] = LastSteps((k + 1) + 1 - 1)
    BY <1>7, <2>1
  <2>3. \A m : LastSteps(m).do \in {"static_destroy", "unmap", "end_service"}
    BY DEF LastSteps, Do
  <2>. QED BY <2>2, <2>3
<1>13. \A j : ~Loose(j) /\ ~Loose(j)'
  BY <1>12 DEF Loose
<1>14. SlotsInv' /\ InstancesInv' /\ RecordInv'
  BY <1>13, AboutNoSession DEF host, held_by, songs, store
<1>. QED BY <1>10, <1>11, <1>14 DEF Inv, RunningInv

LEMMA LeaveStaticInv ==
  ASSUME Inv, LeaveStatic
  PROVE  Inv'
<1>1. CASE running.do = "static_init"
  BY <1>1, LeaveStaticInit
<1>2. CASE running.do = "static_destroy"
  <2>1. TypeOK /\ running # NoCall
    BY <1>2 DEF Inv, NoCall, Do
  <2>2. Plan[1] = running /\ Advances(Plan, Plan')
    BY <2>1, PlanInCall, PlanAfterCall DEF LeaveStatic, Leave
  <2>3. mapped' = mapped /\ service' = service /\ mapped \in BOOLEAN /\ service \in BOOLEAN
    BY <2>1 DEF LeaveStatic, Leave, TypeOK
  <2>4. statics' = [statics EXCEPT ![Plan[1].arg] = "down"]
    BY <1>2, <2>2 DEF LeaveStatic, In
  <2>5. /\ UNCHANGED <<host, store, plugin_of, instances, misused>>
        /\ running' = NoCall /\ todo' \in Seq(Steps)
    BY <2>1 DEF LeaveStatic, Leave, TypeOK
  <2>. QED BY <1>2, <2>2, <2>3, <2>4, <2>5, EndStep
<1>. QED BY <1>1, <1>2 DEF LeaveStatic

LEMMA UnmapEndServiceInv ==
  ASSUME Inv, Unmap \/ EndService
  PROVE  Inv'
<1>1. /\ running = NoCall /\ todo # <<>> /\ todo \in Seq(Steps) /\ TypeOK
      /\ Plan = todo /\ Step = Plan[1] /\ running' = running /\ todo' = Tail(todo)
  BY PlanType DEF Unmap, EndService, Calling, Step, Inv, TypeOK
<1>2. Advances(Plan, Plan') /\ todo' \in Seq(Steps)
  BY <1>1, PlanAfterStep
<1>3. mapped \in BOOLEAN /\ service \in BOOLEAN
  BY <1>1 DEF TypeOK
<1>4. UNCHANGED <<host, store, plugin_of, instances, misused>> /\ statics' = statics
  BY DEF Unmap, EndService
<1>5. CASE Unmap
  BY <1>1, <1>2, <1>3, <1>4, <1>5, EndStep DEF Unmap, Calling
<1>6. CASE EndService
  BY <1>1, <1>2, <1>3, <1>4, <1>6, EndStep DEF EndService, Calling
<1>. QED BY <1>5, <1>6

-----------------------------------------------------------------------------
(* Callbacks that are entered, and what is pushed in them. *)

(* A step that changes neither the plan nor anything of the sessions. *)
LEMMA SamePlan ==
  ASSUME Inv, Plan' = Plan, UNCHANGED <<host, plugins>>
  PROVE  /\ Starting \/ Ending => Starting' \/ Ending'
         /\ Up => Up'
         /\ Course => Course'
         /\ SlotsInv' /\ InstancesInv'
<1>. USE DEF host, held_by, songs, plugins
<1>1. Starting => Starting'
  BY DEF Starting
<1>2. Ending => Ending'
  BY DEF Ending, LastHandle
<1>3. Up => Up'
  BY DEF Up
<1>4. Course => Course'
  BY DEF Course, Foreseen, Held, LastHandle
<1>5. \A i : Loose(i)' <=> Loose(i)
  BY DEF Loose
<1>6. SlotsInv' /\ InstancesInv'
  BY <1>5 DEF Inv, SlotsInv, InstancesInv, Live, InSlot
<1>. QED BY <1>1, <1>2, <1>3, <1>4, <1>6

(* A song's callback is called for a song the plugin was noted for. *)
LEMMA AboutSongType ==
  ASSUME Inv, AboutSong
  PROVE  /\ Plan # <<>> /\ Plan[1] = running /\ Working /\ Established
         /\ running.arg \in Songs
         /\ outcome[running.arg] \in Failed => Plan[1] = Do("destroy", running.arg)
<1>1. running.do \in WorkSteps
  BY DEF AboutSong, Inv, RunningInv, StaticCalls, InstanceCalls, WorkSteps
<1>2. Plan # <<>> /\ Plan[1] = running /\ Working /\ Established
  BY <1>1, InCall
<1>3. Plan[1].do \in {"create", "metadata", "open", "viz_info", "use", "close", "destroy"}
  BY <1>2 DEF AboutSong, Inv, RunningInv, StaticCalls, InstanceCalls
<1>4. running.arg \in Songs
  BY <1>2, <1>3 DEF Established, AboutNew
<1>5. ASSUME outcome[running.arg] \in Failed
      PROVE  Plan[1] = Do("destroy", running.arg)
  <2>1. Plan[1].do \notin {"create", "metadata", "open", "viz_info"}
    BY <1>2, <1>5 DEF Established, AboutNew, Failed
  <2>2. Plan[1].do # "use"
    BY <1>2, <1>4, <1>5 , SessionsAssumption
       DEF Established, Failed, Inv, SlotsInv, InSlot
  <2>3. Plan[1].do = "destroy"
    BY <1>2, <1>3, <1>5, <2>1, <2>2 DEF Established
  <2>4. running \in Steps
    BY DEF Inv, TypeOK
  <2>. QED BY <1>2, <2>3, <2>4 DEF Steps, Do
<1>. QED BY <1>2, <1>4, <1>5

(* A callback that comes first in the plan is legal. *)
LEMMA FirstIsLegal ==
  ASSUME Inv, Plan # <<>>, Plan[1].do \in StaticCalls \cup InstanceCalls
  PROVE  Legal(Plan[1])
<1>. DEFINE c == Plan[1]
<1>1. /\ TypeOK /\ Len(Plan) \in Nat /\ 1 \in 1..Len(Plan) /\ c \in Steps
  BY PlanType DEF Inv
<1>2. CASE Starting
  <2>1. PICK k \in 1..N :
          /\ \A j \in 1..Len(Plan) : Plan[j] = Do("static_init", PluginOrder[k + j - 1])
          /\ \A j \in 1..N : statics[PluginOrder[j]] = IF j < k THEN "up" ELSE "new"
    BY <1>2 DEF Starting
  <2>2. k \in Nat /\ k + 1 - 1 = k
    BY NType
  <2>3. c = Do("static_init", PluginOrder[k]) /\ statics[PluginOrder[k]] = "new"
    BY <1>1, <2>1, <2>2
  <2>. QED BY <1>2, <2>3 DEF Starting, Legal, Do
<1>3. CASE Ending
  <2>1. PICK k \in 1..(N + 3) :
          /\ \A j \in 1..Len(Plan) : Plan[j] = LastSteps(k + j - 1)
          /\ \A j \in 1..N : statics[PluginOrder[j]] = IF j < k THEN "down" ELSE "up"
          /\ mapped <=> k <= N + 1
          /\ service <=> k <= N + 2
    BY <1>3 DEF Ending
  <2>2. k \in Nat /\ N \in Nat /\ k + 1 - 1 = k
    BY NType
  <2>3. c = LastSteps(k)
    BY <1>1, <2>1, <2>2
  <2>4. k <= N
    BY <2>2, <2>3 DEF LastSteps, Do, StaticCalls, InstanceCalls
  <2>5. k \in 1..N /\ c = Do("static_destroy", PluginOrder[k]) /\ mapped /\ service
    BY <2>1, <2>2, <2>3, <2>4 DEF LastSteps
  <2>6. statics[PluginOrder[k]] = "up"
    BY <2>1, <2>2, <2>5
  <2>7. \A i \in Instances : instances[i] \in {"none", "destroyed"}
    <3>1. \A i \in Instances : ~InSlot(i)
      BY <1>3, SessionsAssumption DEF Ending, LastHandle, InSlot, Instances
    <3>2. \A i : ~Loose(i)
      BY <2>5 DEF Loose, Do
    <3>. QED BY <1>1, <3>1, <3>2 DEF Inv, InstancesInv, Live, TypeOK
  <2>. QED BY <2>5, <2>6, <2>7 DEF Legal, Do
<1>4. CASE Working
  <2>1. Established /\ Up
    BY <1>4 DEF Working
  <2>2. c.do \in {"create", "metadata", "open", "viz_info", "use", "close", "destroy"}
    BY <1>4, WorkingSteps, <1>1 DEF WorkSteps, StaticCalls, InstanceCalls
  <2>3. c.arg \in Songs
    BY <2>1, <2>2 DEF Established, AboutNew
  <2>4. statics[plugin_of[c.arg]] = "up" /\ mapped /\ service
    BY <1>1, <2>1, <2>3 DEF TypeOK, Up, Instances
  <2>5. /\ c.do = "open" => instances[c.arg] = "created"
        /\ c.do \in {"viz_info", "close"} => instances[c.arg] = "open"
        /\ c.do = "destroy" => instances[c.arg] \in {"created", "closed"}
        /\ c.do \in {"create", "metadata"} => instances[c.arg] = "none"
    BY <2>1 DEF Established
  <2>6. c.do = "use" => instances[c.arg] = "open"
    BY <2>1, <2>3, SessionsAssumption DEF Established, Inv, SlotsInv, InSlot
  <2>. QED BY <2>2, <2>4, <2>5, <2>6 DEF Legal, PluginOf
<1>. QED BY <1>2, <1>3, <1>4 DEF Inv

LEMMA EnterInv ==
  ASSUME Inv, Enter
  PROVE  Inv'
<1>1. /\ Plan' = Plan /\ Plan # <<>> /\ Plan[1] = Step /\ running' = Step
      /\ Step \in Steps /\ todo' \in Seq(Steps)
  BY PlanOnEnter DEF Inv
<1>2. UNCHANGED <<host, store, plugins>> /\ Step.do \in StaticCalls \cup InstanceCalls
  BY DEF Enter
<1>3. ~misused'
  BY <1>1, <1>2, FirstIsLegal DEF Enter, Inv
<1>4. TypeOK'
  <2>1. misused' \in BOOLEAN
    BY Zenon DEF Enter
  <2>. QED BY <1>1, <1>2, <2>1 DEF Inv, TypeOK, host, held_by, songs, store, plugins
<1>5. Starting' \/ Working' \/ Ending'
  <2>1. Established => Established'
    BY <1>1, <1>2 DEF Established, AboutNew, InSlot, host, held_by, songs, store, plugins
  <2>. QED BY <1>1, <1>2, <2>1, SamePlan DEF Inv, Working
<1>6. SlotsInv' /\ InstancesInv'
  BY <1>1, <1>2, SamePlan
<1>7. RecordInv'
  BY <1>1, <1>2 DEF Inv, RecordInv, PassIsItsOwn, host, songs, store
<1>. QED BY <1>1, <1>2, <1>3, <1>4, <1>5, <1>6, <1>7 DEF Inv, RunningInv

(* A plugin pushes about the song it is called for, or the consumer takes. *)
LEMMA RecordChanges ==
  ASSUME Inv, UNCHANGED <<todo, running, host, plugins, misused>>,
         record' \in Records, held' \in [Songs -> Nat], takes' \in 0..MaxTakes,
         \A n \in Songs : held'[n] <= record'.id,
         \/ SongsOf(record') = {}
         \/ AboutSong /\ SongsOf(record') \subseteq SongsOf(record) \cup {running.arg}
  PROVE  Inv'
<1>1. Plan' = Plan
  BY DEF Plan
<1>2. TypeOK'
  BY DEF Inv, TypeOK, host, held_by, songs, plugins
<1>3. SlotsInv' /\ InstancesInv'
  BY <1>1, SamePlan
<1>4. Starting' \/ Working' \/ Ending'
  <2>1. ASSUME Plan # <<>>, Established
        PROVE  Established'
    <3>1. Plan[1].do \in {"metadata", "take"} => SongsOf(record') \subseteq {Plan[1].arg}
      <4>1. CASE SongsOf(record') = {}
        BY <4>1
      <4>2. CASE AboutSong /\ SongsOf(record') \subseteq SongsOf(record) \cup {running.arg}
        <5>1. Plan[1] = running
          BY <4>2, AboutSongType
        <5>. QED BY <2>1, <4>2, <5>1 DEF Established
      <4>. QED BY <4>1, <4>2
    <3>. QED BY <1>1, <2>1, <3>1
             DEF Established, AboutNew, InSlot, host, held_by, songs, plugins
  <2>. QED BY <1>1, <2>1, SamePlan DEF Inv, Working
<1>5. RecordInv'
  <2>1. ASSUME NEW n \in Songs, outcome[n] \in Failed, n \in SongsOf(record')
        PROVE  Plan # <<>> /\ Plan[1] \in {Do("destroy", n), Do("discard", n)}
    <3>1. AboutSong /\ SongsOf(record') \subseteq SongsOf(record) \cup {running.arg}
      BY <2>1
    <3>2. CASE n \in SongsOf(record)
      BY <2>1, <3>2 DEF Inv, RecordInv
    <3>3. CASE n = running.arg
      BY <2>1, <3>1, <3>3, AboutSongType
    <3>. QED BY <2>1, <3>1, <3>2, <3>3
  <2>2. UNCHANGED <<outcome, passed>>
    BY DEF host, songs
  <2>. QED BY <1>1, <2>1, <2>2 DEF Inv, RecordInv, PassIsItsOwn
<1>6. misused' = misused /\ running' = running
  OBVIOUS
<1>. QED BY <1>2, <1>3, <1>4, <1>5, <1>6 DEF Inv, RunningInv

LEMMA ReplacedType ==
  ASSUME NEW r \in Records
  PROVE  Replaced(r) \in Records /\ Replaced(r).id = r.id + 1 /\ SongsOf(Replaced(r)) = {}
BY DEF Replaced, NewRecord, Records, SongsOf, NoSong

LEMMA PushInv ==
  ASSUME Inv, CreateUrl \/ Push \/ Take
  PROVE  Inv'
<1>1. /\ TypeOK /\ record \in Records /\ held \in [Songs -> Nat] /\ record.id \in Nat
      /\ \A n \in Songs : held[n] <= record.id
      /\ takes \in 0..MaxTakes
  BY DEF Inv, TypeOK, Records
<1>2. CASE CreateUrl
  <2>1. running.arg \in Songs
    BY <1>2, AboutSongType DEF CreateUrl
  <2>2. /\ record' \in Records /\ record'.id = record.id
        /\ SongsOf(record') \subseteq SongsOf(record) \cup {running.arg}
    BY <1>1, <1>2, <2>1 DEF CreateUrl, UrlCreated, Records, SongsOf
  <2>3. held' \in [Songs -> Nat] /\ \A n \in Songs : held'[n] <= record'.id
    BY <1>1, <1>2, <2>1, <2>2 DEF CreateUrl
  <2>4. /\ AboutSong /\ takes' \in 0..MaxTakes
        /\ UNCHANGED <<todo, running, host, plugins, misused>>
    BY <1>1, <1>2 DEF CreateUrl
  <2>. QED BY <2>2, <2>3, <2>4, RecordChanges
<1>3. CASE Push
  <2>1. running.arg \in Songs
    BY <1>3, AboutSongType DEF Push
  <2>2. /\ record' \in Records /\ record'.id = record.id
        /\ SongsOf(record') \subseteq SongsOf(record) \cup {running.arg}
    BY <1>1, <1>3, <2>1 DEF Push, Pushed, Records, SongsOf
  <2>3. /\ AboutSong /\ takes' \in 0..MaxTakes
        /\ held' \in [Songs -> Nat] /\ \A n \in Songs : held'[n] <= record'.id
        /\ UNCHANGED <<todo, running, host, plugins, misused>>
    BY <1>1, <1>3, <2>2 DEF Push
  <2>. QED BY <2>2, <2>3, RecordChanges
<1>4. CASE Take
  <2>1. takes' \in 0..MaxTakes
    BY <1>1, <1>4, SessionsAssumption DEF Take
  <2>2. record' \in Records /\ record'.id = record.id + 1 /\ SongsOf(record') = {}
    BY <1>1, <1>4, ReplacedType DEF Take
  <2>3. /\ held' \in [Songs -> Nat] /\ \A n \in Songs : held'[n] <= record'.id
        /\ UNCHANGED <<todo, running, host, plugins, misused>>
    BY <1>1, <1>4, <2>2 DEF Take
  <2>. QED BY <2>1, <2>2, <2>3, RecordChanges
<1>. QED BY <1>2, <1>3, <1>4

-----------------------------------------------------------------------------
(* What the host does between callbacks. *)

(* The drop of a session, and of the runtime's last holder. *)
LEMMA SessionDropSteps ==
  ASSUME TypeOK, NEW i \in Songs, i \in opened
  PROVE  /\ SessionDrop(i) \in Seq(Steps) /\ SessionDrop(i) # <<>>
         /\ SessionDrop(i)[1] = Do("close", i)
         /\ Len(SessionDrop(i)) = IF owned THEN 3 ELSE 2
         /\ owned => SessionDrop(i)[3].do = "release"
         /\ Chained(owned, SessionDrop(i))
         /\ \A k \in 1..Len(SessionDrop(i)) :
              /\ SessionDrop(i)[k].do \in {"close", "destroy", "release"}
              /\ SessionDrop(i)[k].do = "release" => owned
<1>. DEFINE p == PlayerDrop(i)
            r == Do("release", None)
            w == IF owned THEN p \o <<r>> ELSE p
<1>1. /\ p \in Seq(Steps) /\ Len(p) = 2 /\ p[1] = Do("close", i) /\ p[2] = Do("destroy", i)
      /\ Chained(owned, p) /\ p # <<>>
      /\ \A k \in 1..Len(p) : p[k].do \in {"close", "destroy"}
  BY PlayerDropSteps
<1>2. r \in Steps /\ r.do = "release"
  BY DoSteps
<1>3. SessionDrop(i) = p \o (IF owned THEN <<r>> ELSE <<>>)
  BY DEF SessionDrop
<1>. HIDE DEF p, r
<1>4. CASE owned
  <2>. DEFINE q == <<r>>
              v == p \o q
  <2>1. q \in Seq(Steps) /\ Len(q) = 1 /\ q[1] = r /\ q # <<>>
    BY <1>2
  <2>2. Chained(owned, q)
    BY <1>2, <2>1 DEF Chained, Finishes
  <2>. HIDE DEF q
  <2>3. Follows(owned, p[Len(p)], q[1])
    BY <1>1, <1>2, <2>1 DEF Follows, Do
  <2>4. Chained(owned, v)
    BY <1>1, <2>1, <2>2, <2>3, ChainedConcat
  <2>5. /\ v \in Seq(Steps) /\ Len(v) = 3
        /\ \A k \in 1..3 : v[k] = IF k <= 2 THEN p[k] ELSE q[k - 2]
    <3>1. /\ v \in Seq(Steps) /\ Len(v) = Len(p) + Len(q)
          /\ \A k \in 1..(Len(p) + Len(q)) :
               v[k] = IF k <= Len(p) THEN p[k] ELSE q[k - Len(p)]
      BY <1>1, <2>1, ConcatProperties
    <3>. QED BY <1>1, <2>1, <3>1
  <2>. HIDE DEF v
  <2>6. v[1] = Do("close", i) /\ v[3] = r /\ v # <<>>
    BY <1>1, <2>1, <2>5
  <2>7. \A k \in 1..Len(v) : v[k].do \in {"close", "destroy", "release"}
    BY <1>1, <1>2, <2>1, <2>5
  <2>8. SessionDrop(i) = v
    BY <1>3, <1>4 DEF v, q
  <2>. QED BY <1>2, <1>4, <2>4, <2>5, <2>6, <2>7, <2>8
<1>5. CASE ~owned
  <2>1. SessionDrop(i) = p
    BY <1>1, <1>3, <1>5, EmptySeq, ConcatEmptySeq
  <2>. QED BY <1>1, <1>5, <2>1
<1>. QED BY <1>4, <1>5

LEMMA RuntimeDropSteps ==
  /\ RuntimeDrop \in Seq(Steps) /\ Len(RuntimeDrop) = N + 2
  /\ \A j \in 1..(N + 2) : RuntimeDrop[j] = LastSteps(j)
<1>. DEFINE a == Statics("static_destroy")
            b == <<Do("unmap", None), Do("end_service", None)>>
<1>1. N \in Nat
  BY NType
<1>2. /\ a \in Seq(Steps) /\ Len(a) = N
      /\ \A j \in 1..N : a[j] = Do("static_destroy", PluginOrder[j])
  <2>1. \A j \in 1..N : Do("static_destroy", PluginOrder[j]) \in Steps
    BY NType, DoSteps DEF StaticCalls
  <2>2. a = [j \in 1..N |-> Do("static_destroy", PluginOrder[j])]
    BY NType DEF Statics
  <2>. QED BY <1>1, <2>1, <2>2
<1>3. /\ b \in Seq(Steps) /\ Len(b) = 2
      /\ b[1] = Do("unmap", None) /\ b[2] = Do("end_service", None)
  BY DoSteps
<1>. DEFINE w == a \o b
<1>4. RuntimeDrop = w
  BY DEF RuntimeDrop
<1>. HIDE DEF a, b
<1>5. /\ w \in Seq(Steps) /\ Len(w) = N + 2
      /\ \A j \in 1..(N + 2) : w[j] = IF j <= N THEN a[j] ELSE b[j - N]
  <2>1. /\ w \in Seq(Steps) /\ Len(w) = Len(a) + Len(b)
        /\ \A j \in 1..(Len(a) + Len(b)) :
             w[j] = IF j <= Len(a) THEN a[j] ELSE b[j - Len(a)]
    BY <1>2, <1>3, ConcatProperties
  <2>. QED BY <1>1, <1>2, <1>3, <2>1
<1>. HIDE DEF w
<1>6. ASSUME NEW j \in 1..(N + 2)
      PROVE  w[j] = LastSteps(j)
  <2>1. CASE j <= N
    BY <1>1, <1>2, <1>5, <2>1 DEF LastSteps
  <2>2. CASE j = N + 1
    <3>1. ~(j <= N) /\ j - N = 1
      BY <1>1, <2>2
    <3>. QED BY <1>3, <1>5, <2>2, <3>1 DEF LastSteps
  <2>3. CASE j = N + 2
    <3>1. ~(j <= N) /\ j - N = 2 /\ j # N + 1
      BY <1>1, <2>3
    <3>. QED BY <1>3, <1>5, <2>3, <3>1 DEF LastSteps
  <2>. QED BY <1>1, <2>1, <2>2, <2>3
<1>. QED BY <1>4, <1>5, <1>6

(* A session goes; where it is a runtime's, it lets go of that at the end. *)
LEMMA DropCourse ==
  ASSUME TypeOK, NEW i \in Songs, i \in opened, Plan' = SessionDrop(i),
         owned' = owned, handles' = handles, ~owned => "runtime" \in handles
  PROVE  /\ Course' /\ Plan' # <<>> /\ Plan'[1] = Do("close", i)
         /\ \A j : Loose(j)' <=> j = i
<1>1. /\ Chained(owned', Plan') /\ Plan' # <<>> /\ Plan'[1] = Do("close", i)
      /\ Len(Plan') = IF owned THEN 3 ELSE 2
      /\ owned => Plan'[3].do = "release"
      /\ \A k \in 1..Len(Plan') :
           /\ Plan'[k].do \in {"close", "destroy", "release"}
           /\ Plan'[k].do = "release" => owned
  BY SessionDropSteps
<1>2. Foreseen'
  BY <1>1 DEF Foreseen, Lent
<1>3. Held'
  <2>1. owned => 3 \in 1..Len(Plan')
    BY <1>1
  <2>. QED BY <1>1, <2>1 DEF Held, LastHandle
<1>. QED BY <1>1, <1>2, <1>3 DEF Course, Loose, Do

(* The last holder of the runtime is gone. *)
LEMMA EndsNow ==
  ASSUME Inv, Up, Plan' = RuntimeDrop, LastHandle(handles', slots'),
         \A j : ~Loose(j), UNCHANGED plugins
  PROVE  Ending' /\ \A j : ~Loose(j)'
<1>1. /\ N \in Nat /\ Len(Plan') = N + 2
      /\ \A j \in 1..Len(Plan') : Plan'[j] = LastSteps(j)
  BY RuntimeDropSteps, NType
<1>2. \A j \in 1..N : statics'[PluginOrder[j]] = "up"
  BY NType DEF Up, plugins
<1>3. mapped' /\ service'
  BY DEF Up, plugins
<1>4. 1 \in 1..(N + 3) /\ \A j \in 1..Len(Plan') : 1 + j - 1 = j
  BY <1>1
<1>5. \A j \in 1..N : ~(j < 1)
  BY <1>1
<1>6. Ending'
  <2>1. /\ Len(Plan') = N + 3 - 1
        /\ \A j \in 1..Len(Plan') : Plan'[j] = LastSteps(1 + j - 1)
        /\ \A j \in 1..N : statics'[PluginOrder[j]] = IF j < 1 THEN "down" ELSE "up"
        /\ mapped' <=> 1 <= N + 1
        /\ service' <=> 1 <= N + 2
    BY <1>1, <1>2, <1>3, <1>4, <1>5
  <2>. QED BY <1>4, <2>1 DEF Ending, LastHandle
<1>7. Plan'[1].do \in {"static_destroy", "unmap", "end_service"}
  <2>1. 1 \in 1..Len(Plan')
    BY <1>1
  <2>. QED BY <1>1, <2>1 DEF LastSteps, Do
<1>. QED BY <1>6, <1>7 DEF Loose

(* Player::prepare succeeds, or takes its player with it. *)
LEMMA PrepareInv ==
  ASSUME Inv, Prepare
  PROVE  Inv'
<1>. DEFINE i == Step.arg
<1>1. /\ running = NoCall /\ todo # <<>> /\ Plan = todo /\ Plan # <<>>
      /\ Plan[1] = Step /\ Plan[1].do = "prepare" /\ Working /\ Established
  BY AtStep DEF Prepare, WorkSteps
<1>2. TypeOK /\ 1 \in 1..Len(Plan)
  BY <1>1, PlanType DEF Inv
<1>3. /\ i \in Songs /\ instances[i] = "open" /\ (owned \/ InSlot(i))
      /\ owned => i = song /\ outcome[song] = "none"
  BY <1>1 DEF Established, AboutNew
<1>4. handles # {}
  BY <1>1, <1>2 DEF Working, Course, Foreseen, Lent
<1>5. /\ owned' = owned /\ handles' = handles
      /\ opened' = opened /\ song' = song /\ passed' = passed
      /\ record' = record /\ held' = held /\ takes' = takes
      /\ plugin_of' = plugin_of /\ statics' = statics /\ mapped' = mapped
      /\ service' = service /\ misused' = misused /\ running' = running
      /\ instances' = instances
  BY DEF Prepare, Busy, store, plugins
<1>6. CASE /\ todo' = Tail(todo) /\ slots' = slots /\ outcome' = outcome
           /\ prepared' = IF owned THEN prepared ELSE prepared \cup {i}
  <2>1. TypeOK'
    BY <1>1, <1>2, <1>3, <1>5, <1>6 DEF TypeOK, Instances
  <2>2. Advances(Plan, Plan')
    BY <1>1, <1>2, <1>5, <1>6, PlanAfterStep
  <2>3. /\ Course'
        /\ Plan' = <<>> => Len(Plan) = 1 /\ Finishes(owned, Plan[1])
        /\ Plan' # <<>> => Follows(owned, Plan[1], Plan'[1])
    BY <1>1, <1>2, <1>5, <1>6, <2>2, CourseAdvances
  <2>4. /\ Plan' = <<>> => ~owned
        /\ Plan' # <<>> => owned /\ Plan'[1].do = "install"
    BY <1>1, <2>3 DEF Finishes, Follows
  <2>5. Plan' # <<>> => Established'
    BY <1>3, <1>5, <1>6, <2>4 DEF Established, AboutNew
  <2>6. Working'
    BY <1>1, <1>5, <2>3, <2>5 DEF Working, Up
  <2>7. \A j : Loose(j)' <=> Loose(j)
    BY <1>1, <1>3, <1>5, <2>4 DEF Loose
  <2>8. SlotsInv' /\ InstancesInv'
    BY <1>5, <1>6, <2>7 DEF Inv, SlotsInv, InstancesInv, Live, InSlot
  <2>9. RecordInv'
    BY <1>1, <1>5, <1>6 DEF Inv, RecordInv, PassIsItsOwn, Do
  <2>. QED BY <1>5, <2>1, <2>6, <2>8, <2>9 DEF Inv, RunningInv
<1>7. CASE /\ Fails(i, "SetupFailed", PlayerDrop(i)) /\ prepared' = prepared
           /\ slots' = [s \in Slots |-> IF slots[s] = i THEN None ELSE slots[s]]
  <2>1. /\ slots' \in [Slots -> Songs \cup {None}]
        /\ \A s \in Slots : slots'[s] = IF slots[s] = i THEN None ELSE slots[s]
    BY <1>2, <1>7 DEF TypeOK
  <2>. QED BY <1>1, <1>3, <1>4, <1>5, <1>7, <2>1, SetupFails
<1>. QED BY <1>6, <1>7 DEF Prepare

LEMMA NoVisualizationInv ==
  ASSUME Inv, NoVisualization
  PROVE  Inv'
<1>1. /\ running = NoCall /\ todo # <<>> /\ Plan = todo /\ Plan # <<>>
      /\ Plan[1] = Step /\ Plan[1].do = "viz_info" /\ Working /\ Established
  BY AtStep DEF NoVisualization, WorkSteps
<1>2. TypeOK /\ 1 \in 1..Len(Plan)
  BY <1>1, PlanType DEF Inv
<1>3. /\ Plan[1].arg = song /\ song \in Songs /\ outcome[song] = "none"
      /\ instances[song] = "open" /\ owned
  BY <1>1, <1>2 DEF Established, AboutNew, Working, Course, Foreseen
<1>4. /\ UNCHANGED <<running, host, store, plugins, misused>> /\ todo' = Tail(todo)
      /\ owned' = owned /\ handles' = handles /\ slots' = slots /\ song' = song
      /\ instances' = instances /\ outcome' = outcome /\ running' = running
      /\ passed' = passed /\ record' = record
  BY DEF NoVisualization, Busy, host, held_by, songs, store, plugins
<1>5. TypeOK'
  BY <1>1, <1>2, <1>4 DEF TypeOK, host, held_by, songs, store, plugins
<1>6. Advances(Plan, Plan')
  BY <1>1, <1>2, <1>4, PlanAfterStep
<1>7. Course' /\ Plan' # <<>> /\ Follows(owned, Plan[1], Plan'[1])
  BY <1>1, <1>2, <1>4, <1>6, CourseAdvances DEF Finishes
<1>8. Plan'[1] = Do("prepare", song)
  BY <1>1, <1>3, <1>7 DEF Follows
<1>9. Working'
  BY <1>1, <1>3, <1>4, <1>7, <1>8 DEF Working, Up, Established, AboutNew, Do, plugins
<1>10. \A j : Loose(j)' <=> Loose(j)
  BY <1>1, <1>3, <1>4, <1>7, <1>8 DEF Loose, Do
<1>11. SlotsInv' /\ InstancesInv'
  BY <1>4, <1>10 DEF Inv, SlotsInv, InstancesInv, Live, InSlot, host, held_by, songs, plugins
<1>12. RecordInv'
  BY <1>1, <1>4 DEF Inv, RecordInv, PassIsItsOwn, Do
<1>. QED BY <1>4, <1>5, <1>9, <1>11, <1>12 DEF Inv, RunningInv

LEMMA OnlyStep ==
  ASSUME NEW own, NEW w \in Seq(Steps), w # <<>>, Chained(own, w),
         Len(w) > 1 => ~Follows(own, w[1], w[1 + 1])
  PROVE  Len(w) = 1 /\ Tail(w) = <<>>
<1>1. Len(w) \in Nat /\ Len(w) >= 1
  OBVIOUS
<1>2. ~(Len(w) > 1)
  <2>1. Len(w) > 1 => 1 \in 1..(Len(w) - 1)
    BY <1>1
  <2>. QED BY <2>1 DEF Chained
<1>3. Len(w) = 1
  <2>1. \A n \in Nat : n >= 1 /\ ~(n > 1) => n = 1
    OBVIOUS
  <2>. QED BY <1>1, <1>2, <2>1, Zenon
<1>4. Tail(w) \in Seq(Steps) /\ Len(Tail(w)) = Len(w) - 1
  BY HeadTailProperties
<1>5. Tail(w) = <<>>
  <2>1. Len(Tail(w)) = 0
    BY <1>3, <1>4
  <2>. QED BY <1>4, <2>1, EmptySeq, Zenon
<1>. QED BY <1>3, <1>5

(* The session is returned; the one that was in its variable goes. *)
LEMMA InstallInv ==
  ASSUME Inv, Install
  PROVE  Inv'
<1>. DEFINE v == Step.arg
            old == slots[v]
<1>1. /\ running = NoCall /\ todo # <<>> /\ Plan = todo /\ Plan # <<>>
      /\ Plan[1] = Step /\ Plan[1].do = "install" /\ Working /\ Established
  BY AtStep DEF Install, WorkSteps
<1>2. TypeOK /\ Len(Plan) \in Nat /\ 1 \in 1..Len(Plan)
  BY <1>1, PlanType DEF Inv
<1>3. /\ v \in Slots /\ song \in Songs /\ instances[song] = "open" /\ outcome[song] = "none"
      /\ handles # {} /\ (~owned => "runtime" \in handles)
  BY <1>1, <1>2 DEF Established, Working, Course, Foreseen, Lent, Held
<1>4. /\ owned' = owned /\ handles' = handles /\ prepared' = prepared
      /\ opened' = opened /\ song' = song /\ passed' = passed
      /\ record' = record /\ held' = held /\ takes' = takes
      /\ plugin_of' = plugin_of /\ statics' = statics /\ mapped' = mapped
      /\ service' = service /\ misused' = misused /\ running' = running
      /\ instances' = instances
      /\ slots' \in [Slots -> Songs \cup {None}] /\ slots'[v] = song
      /\ \A s \in Slots : s # v => slots'[s] = slots[s]
  BY <1>2, <1>3 DEF Install, Busy, store, plugins, TypeOK
<1>5. /\ outcome' \in [Songs -> {"none", "Ok", "NoRecord"} \cup Errors]
      /\ outcome'[song] = "Ok"
      /\ \A j \in Songs : j # song => outcome'[j] = outcome[j]
  BY <1>2, <1>3 DEF Install, TypeOK
<1>6. Tail(todo) = <<>>
  <2>1. ~Follows(owned, Plan[1], Plan[1 + 1])
    BY <1>1 DEF Follows
  <2>2. Plan \in Seq(Steps) /\ Chained(owned, Plan)
    BY <1>1, <1>2, PlanType DEF Working, Course
  <2>. QED BY <1>1, <2>1, <2>2, OnlyStep
<1>7. \A j : Loose(j) <=> j = song
  BY <1>1 DEF Loose
<1>8. (\A s \in Slots : slots[s] # song) /\ song # None
  BY <1>3, <1>7, SessionsAssumption DEF Inv, SlotsInv
<1>9. ASSUME Plan' \in Seq(Steps), todo' \in Seq(Steps), Course',
             Plan' # <<>> => /\ old \in Songs /\ instances[old] = "open"
                             /\ outcome[old] = "Ok" /\ Plan'[1] = Do("close", old),
             \A j : Loose(j)' <=> j = old /\ j # None
      PROVE  Inv'
  <2>1. TypeOK'
    BY <1>2, <1>4, <1>5, <1>9 DEF TypeOK
  <2>2. Plan' # <<>> => Established'
    <3>1. Plan' # <<>> => outcome'[old] \notin Failed
      BY <1>5, <1>9 DEF Failed
    <3>. QED BY <1>4, <1>9, <3>1 DEF Established, AboutNew, Do
  <2>3. Working'
    BY <1>1, <1>4, <1>9, <2>2 DEF Working, Up
  <2>4. SlotsInv'
    <3>1. ASSUME NEW s \in Slots, slots'[s] # None
          PROVE  (/\ instances[slots[s]] = "open" /\ outcome[slots[s]] = "Ok"
                  /\ ~Loose(slots[s]))'
      <4>1. CASE s = v
        BY <1>3, <1>4, <1>5, <1>8, <1>9, <4>1
      <4>2. CASE s # v
        <5>1. /\ slots'[s] = slots[s] /\ slots[s] # song /\ slots[s] \in Songs
              /\ instances[slots[s]] = "open" /\ outcome[slots[s]] = "Ok"
              /\ slots[s] # old
          BY <1>2, <1>3, <1>4, <1>8, <3>1, <4>2 DEF Inv, SlotsInv, TypeOK
        <5>. QED BY <1>4, <1>5, <1>9, <5>1
      <4>. QED BY <4>1, <4>2
    <3>2. ASSUME NEW s \in Slots, NEW t \in Slots, slots'[s] = slots'[t], slots'[s] # None
          PROVE  s = t
      BY <1>4, <1>8, <3>2 DEF Inv, SlotsInv
    <3>. QED BY <3>1, <3>2 DEF SlotsInv
  <2>5. InstancesInv'
    <3>1. \A j \in Instances : InSlot(j)' <=> j = song \/ (InSlot(j) /\ j # old)
      <4>. TAKE j \in Instances
      <4>1. ASSUME InSlot(j), j # old
            PROVE  InSlot(j)'
        BY <1>4, <4>1 DEF InSlot
      <4>2. ASSUME InSlot(j)', j # song
            PROVE  InSlot(j) /\ j # old
        <5>1. PICK s \in Slots : slots'[s] = j
          BY <4>2 DEF InSlot
        <5>2. s # v /\ slots[s] = j
          BY <1>4, <4>2, <5>1
        <5>3. j # None
          BY SessionsAssumption DEF Instances
        <5>. QED BY <1>3, <5>2, <5>3 DEF InSlot, Inv, SlotsInv
      <4>3. j = song => InSlot(j)'
        BY <1>3, <1>4 DEF InSlot
      <4>. QED BY <4>1, <4>2, <4>3
    <3>2. \A j \in Instances : Loose(j)' <=> j = old
      BY <1>9, SessionsAssumption DEF Instances
    <3>3. \A j \in Instances : j = old => InSlot(j)
      BY <1>3 DEF InSlot
    <3>4. \A j \in Instances : Live(j)' <=> InSlot(j)' \/ Loose(j)'
      BY <1>4, <1>7, <3>1, <3>2, <3>3 DEF Inv, InstancesInv, Live
    <3>5. \A j \in Instances : j > song' => instances'[j] = "none" /\ outcome'[j] = "none"
      BY <1>3, <1>4, <1>5 DEF Inv, InstancesInv, Instances, Songs
    <3>. QED BY <1>4, <3>4, <3>5 DEF Inv, InstancesInv
  <2>6. RecordInv'
    <3>1. ASSUME NEW n \in Songs, outcome'[n] \in Failed, n \in SongsOf(record)'
          PROVE  FALSE
      BY <1>1, <1>4, <1>5, <3>1 DEF Inv, RecordInv, Failed, Do
    <3>. QED BY <1>4, <3>1 DEF Inv, RecordInv, PassIsItsOwn
  <2>. QED BY <1>4, <2>1, <2>3, <2>4, <2>5, <2>6 DEF Inv, RunningInv
<1>10. CASE old = None
  <2>1. todo' = <<>>
    BY <1>6, <1>10 DEF Install, SlotDrop
  <2>2. Plan' = <<>> /\ Plan' \in Seq(Steps) /\ todo' \in Seq(Steps)
    BY <1>1, <1>4, <2>1 DEF Plan
  <2>3. Course'
    BY <1>3, <1>4, <2>2, EmptyCourse DEF LastHandle
  <2>4. \A j : Loose(j)' <=> j = old /\ j # None
    BY <1>10, <2>2 DEF Loose
  <2>. QED BY <1>9, <2>2, <2>3, <2>4
<1>11. CASE old # None
  <2>1. old \in Songs /\ instances[old] = "open" /\ outcome[old] = "Ok" /\ old \in opened
    <3>1. old \in Songs
      BY <1>2, <1>3, <1>11 DEF TypeOK
    <3>2. instances[old] = "open" /\ outcome[old] = "Ok" /\ old \in opened
      <4>1. InstancesInv /\ SlotsInv /\ old \in Instances
        BY <3>1 DEF Inv, Instances, Songs
      <4>2. instances[old] = "open" /\ outcome[old] = "Ok"
        BY <1>3, <1>11, <4>1 DEF SlotsInv
      <4>. QED BY <4>1, <4>2 DEF InstancesInv
    <3>. QED BY <3>1, <3>2
  <2>2. SessionDrop(old) \in Seq(Steps)
    BY <1>2, <2>1, SessionDropSteps
  <2>3. todo' = SessionDrop(old)
    <3>1. todo' = SessionDrop(old) \o <<>>
      BY <1>6, <1>11 DEF Install, SlotDrop
    <3>. QED BY <2>2, <3>1, ConcatEmptySeq
  <2>4. Plan' = SessionDrop(old) /\ Plan' \in Seq(Steps) /\ todo' \in Seq(Steps)
    BY <1>1, <1>4, <2>2, <2>3 DEF Plan
  <2>. HIDE DEF old
  <2>5. /\ Course' /\ Plan'[1] = Do("close", old)
        /\ \A j : Loose(j)' <=> j = old
    BY <1>2, <1>3, <1>4, <2>1, <2>4, DropCourse
  <2>6. old # None
    BY <1>11
  <2>. QED BY <1>9, <2>1, <2>4, <2>5, <2>6 DEF old
<1>. QED BY <1>10, <1>11

(* A session's clone goes, and the runtime with the last one. *)
LEMMA ReleaseInv ==
  ASSUME Inv, Release
  PROVE  Inv'
<1>1. /\ running = NoCall /\ todo # <<>> /\ Plan = todo /\ Plan # <<>>
      /\ Plan[1] = Step /\ Plan[1].do = "release" /\ Working /\ Established
  BY AtStep DEF Release, WorkSteps
<1>2. TypeOK /\ Len(Plan) \in Nat /\ 1 \in 1..Len(Plan) /\ todo \in Seq(Steps)
  BY <1>1, PlanType DEF Inv, TypeOK
<1>3. /\ UNCHANGED <<running, host, store, plugins, misused>>
      /\ owned' = owned /\ handles' = handles /\ slots' = slots /\ song' = song
      /\ instances' = instances /\ outcome' = outcome /\ running' = running
      /\ passed' = passed /\ record' = record /\ opened' = opened
  BY DEF Release, Busy, host, held_by, songs, store, plugins
<1>4. \A j : ~Loose(j)
  BY <1>1 DEF Loose
<1>5. CASE LastHandle(handles, slots)
  <2>1. Tail(todo) = <<>>
    <3>1. Plan \in Seq(Steps) /\ Chained(owned, Plan)
      BY <1>1, <1>2, PlanType DEF Working, Course
    <3>2. ASSUME Len(Plan) > 1
          PROVE  ~Follows(owned, Plan[1], Plan[1 + 1])
      <4>1. 1 + 1 \in 1..Len(Plan)
        BY <1>2, <3>2
      <4>2. handles = {}
        BY <1>5 DEF LastHandle
      <4>3. Plan[1 + 1].do # "create"
        BY <1>1, <4>1, <4>2 DEF Working, Course, Foreseen, Lent
      <4>. QED BY <1>1, <4>3 DEF Follows
    <3>. QED BY <1>1, <3>1, <3>2, OnlyStep
  <2>2. todo' = RuntimeDrop
    <3>1. todo' = RuntimeDrop \o <<>>
      BY <1>5, <2>1 DEF Release
    <3>. QED BY <3>1, RuntimeDropSteps, ConcatEmptySeq
  <2>3. Plan' = RuntimeDrop /\ todo' \in Seq(Steps)
    BY <1>1, <1>3, <2>2, RuntimeDropSteps DEF Plan
  <2>4. TypeOK'
    BY <1>2, <1>3, <2>3 DEF TypeOK, host, held_by, songs, store, plugins
  <2>5. Ending' /\ \A j : ~Loose(j)'
    BY <1>1, <1>3, <1>4, <1>5, <2>3, EndsNow DEF Working
  <2>6. SlotsInv' /\ InstancesInv' /\ RecordInv'
    BY <1>1, <1>3, <1>4, <2>5, AboutNoSession
  <2>. QED BY <1>3, <2>4, <2>5, <2>6 DEF Inv, RunningInv
<1>6. CASE ~LastHandle(handles, slots)
  <2>1. todo' = Tail(todo)
    <3>1. todo' = <<>> \o Tail(todo) /\ Tail(todo) \in Seq(Steps)
      BY <1>1, <1>2, <1>6 DEF Release
    <3>. QED BY <3>1, ConcatEmptySeq
  <2>2. Advances(Plan, Plan') /\ todo' \in Seq(Steps)
    BY <1>1, <1>2, <1>3, <2>1, PlanAfterStep
  <2>3. TypeOK'
    BY <1>2, <1>3, <2>2 DEF TypeOK, host, held_by, songs, store, plugins
  <2>4. /\ Course'
        /\ Plan' # <<>> => Follows(owned, Plan[1], Plan'[1])
    BY <1>1, <1>2, <1>3, <1>6, <2>2, CourseAdvances
  <2>5. Plan' # <<>> => Plan'[1].do = "create"
    BY <1>1, <2>4 DEF Follows
  <2>6. Plan' # <<>> => Established'
    <3>1. Plan' # <<>> => 1 \in 1..Len(Plan')
      BY <2>2 DEF Advances
    <3>. QED BY <2>4, <2>5, <3>1 DEF Established, AboutNew, Course, Foreseen
  <2>7. Working'
    BY <1>1, <1>3, <2>4, <2>6 DEF Working, Up, plugins
  <2>8. \A j : ~Loose(j)'
    BY <2>5 DEF Loose
  <2>9. SlotsInv' /\ InstancesInv' /\ RecordInv'
    BY <1>1, <1>3, <1>4, <2>8, AboutNoSession
  <2>. QED BY <1>3, <2>3, <2>7, <2>9 DEF Inv, RunningInv
<1>. QED BY <1>5, <1>6

(* What was pushed is thrown away, by a pass that starts or a call that failed. *)
LEMMA DiscardInv ==
  ASSUME Inv, Discard
  PROVE  Inv'
<1>1. /\ running = NoCall /\ todo # <<>> /\ Plan = todo /\ Plan # <<>>
      /\ Plan[1] = Step /\ Plan[1].do = "discard" /\ Working /\ Established
  BY AtStep DEF Discard, WorkSteps
<1>2. TypeOK /\ 1 \in 1..Len(Plan) /\ todo \in Seq(Steps)
  BY <1>1, PlanType DEF Inv, TypeOK
<1>3. /\ UNCHANGED <<running, host, held, takes, plugins, misused>>
      /\ owned' = owned /\ handles' = handles /\ slots' = slots /\ song' = song
      /\ instances' = instances /\ outcome' = outcome /\ running' = running
      /\ passed' = passed /\ opened' = opened /\ todo' = Tail(todo)
  BY DEF Discard, host, held_by, songs, plugins
<1>4. /\ record' \in Records /\ record'.id = record.id + 1 /\ SongsOf(record') = {}
      /\ \A n \in Songs : held[n] <= record'.id
  <2>1. record \in Records /\ record.id \in Nat /\ held \in [Songs -> Nat]
    BY <1>2 DEF TypeOK, Records
  <2>2. record' \in Records /\ record'.id = record.id + 1 /\ SongsOf(record') = {}
    BY <2>1, ReplacedType DEF Discard
  <2>. QED BY <1>2, <2>1, <2>2 DEF TypeOK
<1>5. Advances(Plan, Plan') /\ todo' \in Seq(Steps)
  BY <1>1, <1>2, <1>3, PlanAfterStep
<1>6. TypeOK'
  BY <1>2, <1>3, <1>4, <1>5 DEF TypeOK, host, held_by, songs, plugins
<1>7. /\ Course'
      /\ Plan' # <<>> => Len(Plan) > 1 /\ Follows(owned, Plan[1], Plan'[1])
  BY <1>1, <1>2, <1>3, <1>5, CourseAdvances
<1>8. Plan' # <<>> => /\ Plan'[1] = Do("metadata", song) /\ song \in Songs
                      /\ outcome[song] = "none" /\ instances[song] = "none"
  BY <1>1, <1>7 DEF Follows, Established, AboutNew
<1>9. Plan' # <<>> => Established'
  BY <1>3, <1>4, <1>8 DEF Established, AboutNew, Do
<1>10. Working'
  BY <1>1, <1>3, <1>7, <1>9 DEF Working, Up, plugins
<1>11. \A j : ~Loose(j) /\ ~Loose(j)'
  BY <1>1, <1>8 DEF Loose, Do
<1>12. SlotsInv' /\ InstancesInv'
  BY <1>3, <1>11 DEF Inv, SlotsInv, InstancesInv, Live, InSlot
<1>13. RecordInv'
  BY <1>3, <1>4 DEF Inv, RecordInv, PassIsItsOwn
<1>. QED BY <1>3, <1>6, <1>10, <1>12, <1>13 DEF Inv, RunningInv

(* The pass whose callback succeeded takes its record. *)
LEMMA TakePassedInv ==
  ASSUME Inv, TakePassed
  PROVE  Inv'
<1>. DEFINE i == Step.arg
<1>1. /\ running = NoCall /\ todo # <<>> /\ Plan = todo /\ Plan # <<>>
      /\ Plan[1] = Step /\ Plan[1].do = "take" /\ Working /\ Established
  BY AtStep DEF TakePassed, WorkSteps
<1>2. TypeOK /\ 1 \in 1..Len(Plan) /\ todo \in Seq(Steps)
  BY <1>1, PlanType DEF Inv, TypeOK
<1>3. /\ i = song /\ song \in Songs /\ outcome[song] = "none"
      /\ SongsOf(record) \subseteq {song}
  BY <1>1 DEF Established, AboutNew
<1>4. /\ owned' = owned /\ handles' = handles /\ slots' = slots /\ prepared' = prepared
      /\ opened' = opened /\ song' = song /\ held' = held /\ takes' = takes
      /\ plugin_of' = plugin_of /\ statics' = statics /\ mapped' = mapped
      /\ service' = service /\ misused' = misused /\ running' = running
      /\ instances' = instances /\ todo' = Tail(todo)
      /\ passed' = [song |-> song, record |-> record]
  BY <1>3 DEF TakePassed, held_by, plugins
<1>5. /\ outcome' \in [Songs -> {"none", "Ok", "NoRecord"} \cup Errors]
      /\ outcome'[song] = "Ok"
      /\ \A j \in Songs : j # song => outcome'[j] = outcome[j]
  BY <1>2, <1>3 DEF TakePassed, TypeOK
<1>6. /\ record \in Records /\ record' \in Records /\ SongsOf(record') = {}
      /\ \A n \in Songs : held[n] <= record'.id
  <2>1. record \in Records /\ record.id \in Nat /\ held \in [Songs -> Nat]
    BY <1>2 DEF TypeOK, Records
  <2>2. record' \in Records /\ record'.id = record.id + 1 /\ SongsOf(record') = {}
    BY <2>1, ReplacedType DEF TakePassed
  <2>. QED BY <1>2, <2>1, <2>2 DEF TypeOK
<1>7. Advances(Plan, Plan') /\ todo' \in Seq(Steps)
  BY <1>1, <1>2, <1>4, PlanAfterStep
<1>8. TypeOK'
  <2>1. passed' \in [song : Songs \cup {NoSong}, record : Records]
    BY <1>3, <1>4, <1>6
  <2>. QED BY <1>2, <1>4, <1>5, <1>6, <1>7, <2>1 DEF TypeOK
<1>9. Course' /\ Plan' = <<>>
  BY <1>1, <1>2, <1>4, <1>7, CourseAdvances DEF Follows
<1>10. Working'
  BY <1>1, <1>4, <1>9 DEF Working, Up
<1>11. \A j : ~Loose(j) /\ ~Loose(j)'
  BY <1>1, <1>9 DEF Loose
<1>12. SlotsInv'
  BY <1>2, <1>4, <1>5, <1>11 DEF Inv, SlotsInv, TypeOK
<1>13. InstancesInv'
  <2>1. \A j \in Instances : j > song' => instances'[j] = "none" /\ outcome'[j] = "none"
    BY <1>3, <1>4, <1>5 DEF Inv, InstancesInv, Instances, Songs
  <2>. QED BY <1>4, <1>11, <2>1 DEF Inv, InstancesInv, Live, InSlot
<1>14. RecordInv'
  <2>1. PassIsItsOwn'
    BY <1>3, <1>4 DEF PassIsItsOwn, SongsOf
  <2>. QED BY <1>6, <2>1 DEF RecordInv
<1>. QED BY <1>4, <1>8, <1>10, <1>12, <1>13, <1>14 DEF Inv, RunningInv

-----------------------------------------------------------------------------
(* What the host asks of the runtime, with nothing under way. *)

LEMMA AtRequest ==
  ASSUME Inv, Idle, ~LastHandle(handles, slots)
  PROVE  /\ TypeOK /\ Working /\ Up /\ Plan = <<>> /\ running = NoCall /\ todo = <<>>
         /\ ~owned => "runtime" \in handles
         /\ \A j : ~Loose(j)
         /\ \A n \in Songs : outcome[n] \in Failed => n \notin SongsOf(record)
<1>1. TypeOK /\ Working /\ Plan = <<>>
  BY IsIdleWork DEF Inv
<1>. QED BY <1>1 DEF Working, Course, Held, Up, Loose, Idle, Inv, RecordInv

(* What a session is dropped for, or replaced by, finds it as it was. *)
LEMMA SessionType ==
  ASSUME Inv, NEW s \in Slots, slots[s] # None
  PROVE  /\ slots[s] \in Songs /\ slots[s] <= song
         /\ instances[slots[s]] = "open" /\ outcome[slots[s]] = "Ok"
         /\ slots[s] \in opened /\ InSlot(slots[s])
         /\ ~LastHandle(handles, slots)
<1>1. slots[s] \in Songs /\ instances[slots[s]] = "open" /\ outcome[slots[s]] = "Ok"
  BY DEF Inv, TypeOK, SlotsInv
<1>2. song \in Nat /\ slots[s] \in Nat
  BY <1>1, SessionsAssumption DEF Inv, TypeOK, Songs
<1>. QED BY <1>1, <1>2 DEF Inv, InstancesInv, Instances, InSlot, LastHandle

(* A variable is emptied, and its session is the one that is being dropped. *)
LEMMA SlotEmptied ==
  ASSUME Inv, NEW s \in Slots, slots[s] # None, \A j : ~Loose(j),
         slots' = [slots EXCEPT ![s] = None], \A j : Loose(j)' <=> j = slots[s],
         instances' = instances, opened' = opened, handles' = handles, owned' = owned,
         song' \in song..MaxSongs,
         \A j \in Songs : j <= song \/ j > song' => outcome'[j] = outcome[j]
  PROVE  SlotsInv' /\ InstancesInv'
<1>. DEFINE i == slots[s]
<1>1. /\ slots \in [Slots -> Songs \cup {None}] /\ song \in Nat /\ song' \in Nat
      /\ song' >= song
  BY SessionsAssumption DEF Inv, TypeOK
<1>2. slots'[s] = None /\ \A t \in Slots : t # s => slots'[t] = slots[t]
  BY <1>1
<1>3. \A t \in Slots : slots'[t] # None =>
        /\ slots'[t] = slots[t] /\ slots[t] \in Songs /\ slots[t] # i /\ slots[t] <= song
        /\ instances[slots[t]] = "open" /\ outcome[slots[t]] = "Ok"
  <2>. TAKE t \in Slots
  <2>. HAVE slots'[t] # None
  <2>1. t # s /\ slots'[t] = slots[t]
    BY <1>2
  <2>. QED BY <1>1, <2>1, SessionType DEF Inv, SlotsInv
<1>4. SlotsInv'
  <2>1. \A t \in Slots : slots'[t] # None =>
          (/\ instances[slots[t]] = "open" /\ outcome[slots[t]] = "Ok" /\ ~Loose(slots[t]))'
    BY <1>3
  <2>2. \A t, u \in Slots : slots'[t] = slots'[u] /\ slots'[t] # None => t = u
    BY <1>3 DEF Inv, SlotsInv
  <2>. QED BY <2>1, <2>2 DEF SlotsInv
<1>5. \A j \in Instances : InSlot(j)' <=> InSlot(j) /\ j # i
  <2>. TAKE j \in Instances
  <2>1. j # None
    BY SessionsAssumption DEF Instances
  <2>2. InSlot(j)' => InSlot(j) /\ j # i
    BY <1>3, <2>1 DEF InSlot
  <2>3. InSlot(j) /\ j # i => InSlot(j)'
    BY <1>2 DEF InSlot
  <2>. QED BY <2>2, <2>3
<1>6. InstancesInv'
  <2>1. InSlot(i)
    BY DEF InSlot
  <2>2. \A j \in Instances : Live(j)' <=> InSlot(j)' \/ Loose(j)'
    BY <1>5, <2>1 DEF Inv, InstancesInv, Live
  <2>3. \A j \in Instances : j > song' => instances'[j] = "none" /\ outcome'[j] = "none"
    BY <1>1 DEF Inv, InstancesInv, Instances, Songs
  <2>. QED BY <2>2, <2>3 DEF Inv, InstancesInv
<1>. QED BY <1>4, <1>6

(* The same of a request that empties none and drops none. *)
LEMMA SlotsKept ==
  ASSUME Inv, \A j : ~Loose(j) /\ ~Loose(j)',
         slots' = slots, instances' = instances, opened' = opened,
         owned' \/ handles' \subseteq {"runtime"},
         song' \in song..MaxSongs,
         \A j \in Songs : j <= song \/ j > song' => outcome'[j] = outcome[j]
  PROVE  SlotsInv' /\ InstancesInv'
<1>1. song \in Nat /\ song' \in Nat /\ song' >= song
  BY SessionsAssumption DEF Inv, TypeOK
<1>2. \A t \in Slots : slots[t] # None =>
        /\ slots[t] \in Songs /\ slots[t] <= song
        /\ instances[slots[t]] = "open" /\ outcome[slots[t]] = "Ok"
  BY SessionType
<1>3. SlotsInv'
  BY <1>2 DEF Inv, SlotsInv
<1>4. InstancesInv'
  <2>1. \A j \in Instances : j > song' => instances'[j] = "none" /\ outcome'[j] = "none"
    BY <1>1 DEF Inv, InstancesInv, Instances, Songs
  <2>. QED BY <2>1 DEF Inv, InstancesInv, Live, InSlot
<1>. QED BY <1>3, <1>4

(* The record is as it was, and so is how the songs in it ended. *)
LEMMA RecordKept ==
  ASSUME Inv, \A n \in Songs : outcome[n] \in Failed => n \notin SongsOf(record),
         record' = record, passed' = passed,
         \A n \in Songs : outcome'[n] \in Failed => outcome'[n] = outcome[n]
  PROVE  RecordInv'
BY DEF Inv, RecordInv, PassIsItsOwn

LEMMA SelectInv ==
  ASSUME Inv, NEW p \in Plugins, Select(p)
  PROVE  Inv'
<1>1. Idle /\ owned /\ ~LastHandle(handles, slots)
  BY DEF Select, LastHandle
<1>2. /\ TypeOK /\ Working /\ Up /\ Plan = <<>> /\ running = NoCall /\ todo = <<>>
      /\ \A j : ~Loose(j)
      /\ \A n \in Songs : outcome[n] \in Failed => n \notin SongsOf(record)
  BY <1>1, AtRequest
<1>3. /\ todo' = todo /\ running' = running /\ misused' = misused
      /\ owned' = owned /\ slots' = slots /\ prepared' = prepared
      /\ opened' = opened /\ song' = song /\ outcome' = outcome /\ passed' = passed
      /\ record' = record /\ held' = held /\ takes' = takes /\ UNCHANGED plugins
      /\ handles' = handles \cup {p}
  BY DEF Select, Busy, songs, store
<1>4. TypeOK'
  BY <1>2, <1>3 DEF TypeOK, plugins
<1>5. Plan' = <<>> /\ \A j : ~Loose(j)'
  BY <1>2, <1>3 DEF Plan, Loose
<1>6. Course'
  BY <1>1, <1>3, <1>5, EmptyCourse DEF LastHandle
<1>7. Working'
  BY <1>2, <1>3, <1>5, <1>6 DEF Working, Up, plugins
<1>8. song' \in song..MaxSongs
  BY <1>2, <1>3, SessionsAssumption DEF TypeOK
<1>9. SlotsInv' /\ InstancesInv'
  BY <1>1, <1>2, <1>3, <1>5, <1>8, SlotsKept DEF plugins
<1>10. RecordInv'
  BY <1>2, <1>3, RecordKept
<1>. QED BY <1>3, <1>4, <1>7, <1>9, <1>10 DEF Inv, RunningInv

LEMMA DropHandleInv ==
  ASSUME Inv, NEW h, DropHandle(h)
  PROVE  Inv'
<1>1. Idle /\ h \in handles /\ ~LastHandle(handles, slots)
  BY DEF DropHandle, LastHandle
<1>2. /\ TypeOK /\ Working /\ Up /\ Plan = <<>> /\ running = NoCall /\ todo = <<>>
      /\ ~owned => "runtime" \in handles
      /\ \A j : ~Loose(j)
      /\ \A n \in Songs : outcome[n] \in Failed => n \notin SongsOf(record)
  BY <1>1, AtRequest
<1>3. /\ running' = running /\ misused' = misused
      /\ owned' = owned /\ slots' = slots /\ prepared' = prepared
      /\ opened' = opened /\ song' = song /\ outcome' = outcome /\ passed' = passed
      /\ record' = record /\ held' = held /\ takes' = takes /\ UNCHANGED plugins
      /\ handles' = handles \ {h} /\ instances' = instances
      /\ todo' = IF LastHandle(handles', slots) THEN RuntimeDrop ELSE <<>>
  BY DEF DropHandle, Busy, songs, store, plugins
<1>4. todo' \in Seq(Steps) /\ Plan' = todo'
  BY <1>2, <1>3, RuntimeDropSteps DEF Plan
<1>5. TypeOK'
  BY <1>2, <1>3, <1>4 DEF TypeOK, plugins
<1>6. (Working' \/ Ending') /\ \A j : ~Loose(j)'
  <2>1. CASE LastHandle(handles', slots)
    <3>1. Plan' = RuntimeDrop /\ LastHandle(handles', slots')
      BY <1>3, <1>4, <2>1
    <3>. QED BY <1>2, <1>3, <3>1, EndsNow
  <2>2. CASE ~LastHandle(handles', slots)
    <3>1. Plan' = <<>> /\ ~LastHandle(handles', slots')
      BY <1>3, <1>4, <2>2
    <3>2. ~owned => "runtime" \in handles'
      <4>1. ~owned => handles' = {} /\ \A s \in Slots : slots[s] = None
        BY <1>1, <1>3 DEF DropHandle, Inv, InstancesInv
      <4>. QED BY <2>2, <4>1 DEF LastHandle
    <3>3. Course'
      BY <1>3, <3>1, <3>2, EmptyCourse
    <3>4. Working'
      BY <1>2, <1>3, <3>1, <3>3 DEF Working, Up, plugins
    <3>. QED BY <3>1, <3>4 DEF Loose
  <2>. QED BY <2>1, <2>2
<1>7. song' \in song..MaxSongs
  BY <1>2, <1>3, SessionsAssumption DEF TypeOK
<1>8. owned' \/ handles' \subseteq {"runtime"}
  BY <1>3 DEF Inv, InstancesInv
<1>9. SlotsInv' /\ InstancesInv'
  BY <1>2, <1>3, <1>6, <1>7, <1>8, SlotsKept
<1>10. RecordInv'
  BY <1>2, <1>3, RecordKept
<1>. QED BY <1>3, <1>5, <1>6, <1>9, <1>10 DEF Inv, RunningInv

LEMMA DropSessionInv ==
  ASSUME Inv, NEW s \in Slots, DropSession(s)
  PROVE  Inv'
<1>. DEFINE i == slots[s]
<1>1. /\ Idle /\ i # None /\ i \in Songs /\ instances[i] = "open" /\ outcome[i] = "Ok"
      /\ i \in opened /\ ~LastHandle(handles, slots)
  BY SessionType DEF DropSession
<1>2. /\ TypeOK /\ Working /\ Up /\ Plan = <<>> /\ running = NoCall /\ todo = <<>>
      /\ ~owned => "runtime" \in handles
      /\ \A j : ~Loose(j)
      /\ \A n \in Songs : outcome[n] \in Failed => n \notin SongsOf(record)
  BY <1>1, AtRequest
<1>3. /\ running' = running /\ misused' = misused
      /\ owned' = owned /\ handles' = handles /\ prepared' = prepared
      /\ opened' = opened /\ song' = song /\ outcome' = outcome /\ passed' = passed
      /\ record' = record /\ held' = held /\ takes' = takes /\ UNCHANGED plugins
      /\ instances' = instances
      /\ slots' = [slots EXCEPT ![s] = None] /\ todo' = SessionDrop(i)
  BY <1>1 DEF DropSession, SlotDrop, Busy, songs, store, plugins
<1>4. todo' \in Seq(Steps) /\ Plan' = SessionDrop(i)
  BY <1>1, <1>2, <1>3, SessionDropSteps DEF Plan
<1>5. TypeOK'
  BY <1>2, <1>3, <1>4 DEF TypeOK, plugins
<1>. HIDE DEF i
<1>6. /\ Course' /\ Plan' # <<>> /\ Plan'[1] = Do("close", i)
      /\ \A j : Loose(j)' <=> j = i
  BY <1>1, <1>2, <1>3, <1>4, DropCourse
<1>7. Working'
  BY <1>1, <1>2, <1>3, <1>6 DEF Working, Up, plugins, Established, AboutNew, Do, Failed
<1>8. song' \in song..MaxSongs
  BY <1>2, <1>3, SessionsAssumption DEF TypeOK
<1>9. SlotsInv' /\ InstancesInv'
  <2>1. slots[s] # None /\ \A j : Loose(j)' <=> j = slots[s]
    BY <1>1, <1>6 DEF i
  <2>. QED BY <1>2, <1>3, <1>8, <2>1, SlotEmptied
<1>10. RecordInv'
  BY <1>2, <1>3, RecordKept
<1>. QED BY <1>3, <1>5, <1>7, <1>9, <1>10 DEF Inv, RunningInv

(* A session's player is prepared, or called. *)
LEMMA SessionCallInv ==
  ASSUME Inv, NEW s \in Slots, PreparePlayer(s) \/ Use(s)
  PROVE  Inv'
<1>. DEFINE i == slots[s]
            what == IF PreparePlayer(s) THEN "prepare" ELSE "use"
            do == Do(what, i)
<1>1. /\ Idle /\ i # None /\ i \in Songs /\ instances[i] = "open" /\ InSlot(i)
      /\ ~LastHandle(handles, slots) /\ (what = "prepare" => ~owned)
  BY SessionType DEF PreparePlayer, Use
<1>2. /\ TypeOK /\ Working /\ Up /\ Plan = <<>> /\ running = NoCall /\ todo = <<>>
      /\ ~owned => "runtime" \in handles
      /\ \A j : ~Loose(j)
      /\ \A n \in Songs : outcome[n] \in Failed => n \notin SongsOf(record)
  BY <1>1, AtRequest
<1>3. /\ running' = running /\ misused' = misused
      /\ owned' = owned /\ handles' = handles /\ slots' = slots /\ prepared' = prepared
      /\ opened' = opened /\ song' = song /\ outcome' = outcome /\ passed' = passed
      /\ record' = record /\ held' = held /\ takes' = takes /\ UNCHANGED plugins
      /\ instances' = instances /\ todo' = <<do>>
  BY DEF PreparePlayer, Use, Busy, host, held_by, songs, store, plugins
<1>4. /\ do \in Steps /\ do.do \in {"prepare", "use"} /\ do.arg = i
      /\ do.do = "prepare" => ~owned
  <2>1. what \in {"prepare", "use"} /\ i \in Songs
    BY <1>1
  <2>2. what \in InstanceCalls \/ what = "prepare"
    BY <2>1 DEF InstanceCalls
  <2>. HIDE DEF what, i
  <2>3. do \in Steps /\ do.do = what /\ do.arg = i
    BY <2>1, <2>2, DoSteps
  <2>. QED BY <1>1, <2>1, <2>3
<1>. HIDE DEF do, what
<1>5. todo' \in Seq(Steps) /\ Plan' = <<do>> /\ Plan'[1] = do /\ Len(Plan') = 1 /\ Plan' # <<>>
  BY <1>2, <1>3, <1>4 DEF Plan
<1>6. TypeOK'
  BY <1>2, <1>3, <1>5 DEF TypeOK, plugins
<1>7. Course'
  <2>1. Chained(owned', Plan')
    BY <1>3, <1>4, <1>5 DEF Chained, Finishes
  <2>2. Foreseen'
    <3>1. ASSUME NEW k \in 1..Len(Plan')
          PROVE  Plan'[k] = do /\ (do.do = "prepare" => handles' # {})
      BY <1>2, <1>3, <1>4, <1>5
    <3>. QED BY <1>4, <3>1 DEF Foreseen, Lent
  <2>3. Held'
    BY <1>1, <1>2, <1>3 DEF Held, LastHandle
  <2>. QED BY <2>1, <2>2, <2>3 DEF Course
<1>8. Established'
  BY <1>1, <1>3, <1>4, <1>5 DEF Established, AboutNew, InSlot
<1>9. Working'
  BY <1>2, <1>3, <1>7, <1>8 DEF Working, Up, plugins
<1>10. \A j : ~Loose(j)'
  BY <1>3, <1>4, <1>5 DEF Loose
<1>11. song' \in song..MaxSongs
  BY <1>2, <1>3, SessionsAssumption DEF TypeOK
<1>12. owned' \/ handles' \subseteq {"runtime"}
  BY <1>3 DEF Inv, InstancesInv
<1>13. SlotsInv' /\ InstancesInv'
  BY <1>2, <1>3, <1>10, <1>11, <1>12, SlotsKept
<1>14. RecordInv'
  BY <1>2, <1>3, RecordKept
<1>. QED BY <1>3, <1>6, <1>9, <1>13, <1>14 DEF Inv, RunningInv

-----------------------------------------------------------------------------
(* Songs that are opened or passed over. *)

LEMMA NewSong ==
  ASSUME Inv, song < MaxSongs, song' = song + 1
  PROVE  /\ song' \in Songs /\ song' \in 0..MaxSongs /\ song' \in song..MaxSongs
         /\ instances[song'] = "none" /\ outcome[song'] = "none"
         /\ \A j \in Songs : j <= song \/ j > song' => j # song'
<1>1. song \in Nat /\ MaxSongs \in Nat /\ song' \in 1..MaxSongs /\ song' > song
  BY SessionsAssumption DEF Inv, TypeOK
<1>. QED BY <1>1 DEF Inv, InstancesInv, Instances, Songs

LEMMA PassStepsType ==
  ASSUME NEW n \in Songs
  PROVE  /\ PassSteps(n) \in Seq(Steps) /\ Len(PassSteps(n)) = 3
         /\ PassSteps(n)[1] = Do("discard", n) /\ PassSteps(n)[2] = Do("metadata", n)
         /\ PassSteps(n)[3] = Do("take", n)
         /\ \A own : Chained(own, PassSteps(n))
<1>. DEFINE d == Do("discard", n)
            m == Do("metadata", n)
            t == Do("take", n)
            w == PassSteps(n)
<1>1. d \in Steps /\ m \in Steps /\ t \in Steps
  BY DoSteps DEF StaticCalls
<1>2. w = <<d, m, t>>
  BY DEF PassSteps
<1>. HIDE DEF d, m, t, w
<1>3. w \in Seq(Steps) /\ Len(w) = 3 /\ w[1] = d /\ w[2] = m /\ w[3] = t
  BY <1>1, <1>2
<1>4. \A own : Chained(own, w)
  <2>1. \A own : Follows(own, w[1], w[1 + 1]) /\ Follows(own, w[2], w[2 + 1])
                 /\ Finishes(own, w[3])
    BY <1>3 DEF Follows, Finishes, Do, d, m, t
  <2>2. \A k \in 1..(Len(w) - 1) : k = 1 \/ k = 2
    BY <1>3
  <2>. QED BY <1>3, <2>1, <2>2 DEF Chained
<1>. QED BY <1>3, <1>4 DEF d, m, t, w

LEMMA OpenStepsType ==
  ASSUME TypeOK, NEW n \in Songs, NEW s \in Slots
  PROVE  /\ OpenSteps(n, s) \in Seq(Steps) /\ OpenSteps(n, s) # <<>>
         /\ OpenSteps(n, s)[1] = Do("create", n)
         /\ Chained(owned, OpenSteps(n, s))
         /\ \A k \in 1..Len(OpenSteps(n, s)) :
              /\ OpenSteps(n, s)[k].do \in {"create", "open", "viz_info", "prepare", "install"}
              /\ OpenSteps(n, s)[k].do = "create" => OpenSteps(n, s)[k].arg = n
              /\ OpenSteps(n, s)[k].do = "install" => OpenSteps(n, s)[k].arg = s
              /\ OpenSteps(n, s)[k].do = "viz_info" => owned
<1>. DEFINE c == Do("create", n)
            o == Do("open", n)
            v == Do("viz_info", n)
            p == Do("prepare", n)
            i == Do("install", s)
            w == OpenSteps(n, s)
<1>1. c \in Steps /\ o \in Steps /\ v \in Steps /\ p \in Steps /\ i \in Steps
  BY DoSteps DEF StaticCalls, InstanceCalls
<1>2. w = <<c, o>> \o (IF owned THEN <<v, p>> ELSE <<>>) \o <<i>>
  BY DEF OpenSteps, PlayerSteps
<1>3. \A own : /\ Follows(own, c, o) /\ Follows(own, o, v) /\ Follows(own, o, i)
               /\ Follows(own, v, p) /\ (own => Follows(own, p, i)) /\ Finishes(own, i)
  BY DEF Follows, Finishes, Do
<1>4. /\ c.do = "create" /\ c.arg = n /\ o.do = "open" /\ v.do = "viz_info"
      /\ p.do = "prepare" /\ i.do = "install" /\ i.arg = s
  BY DEF Do
<1>. HIDE DEF c, o, v, p, i, w
<1>5. CASE owned
  <2>1. w = (<<c, o>> \o <<v, p>>) \o <<i>>
    BY <1>2, <1>5
  <2>2. /\ w \in Seq(Steps) /\ Len(w) = 5 /\ w # <<>>
        /\ w[1] = c /\ w[2] = o /\ w[3] = v /\ w[4] = p /\ w[5] = i
    BY <1>1, <2>1
  <2>3. \A k \in 1..(Len(w) - 1) : Follows(owned, w[k], w[k + 1])
    <3>1. /\ Follows(owned, w[1], w[1 + 1]) /\ Follows(owned, w[2], w[2 + 1])
          /\ Follows(owned, w[3], w[3 + 1]) /\ Follows(owned, w[4], w[4 + 1])
      <4>1. Follows(owned, c, o) /\ Follows(owned, o, v)
        BY <1>3
      <4>2. Follows(owned, v, p) /\ Follows(owned, p, i)
        BY <1>3, <1>5
      <4>. QED BY <2>2, <4>1, <4>2
    <3>2. \A k \in 1..(Len(w) - 1) : k = 1 \/ k = 2 \/ k = 3 \/ k = 4
      BY <2>2
    <3>. QED BY <3>1, <3>2
  <2>4. Chained(owned, w)
    BY <1>3, <2>2, <2>3 DEF Chained
  <2>5. \A k \in 1..Len(w) : w[k] \in {c, o, v, p, i}
    <3>1. \A k \in 1..Len(w) : k = 1 \/ k = 2 \/ k = 3 \/ k = 4 \/ k = 5
      BY <2>2
    <3>. QED BY <2>2, <3>1
  <2>6. \A k \in 1..Len(w) :
          /\ w[k].do \in {"create", "open", "viz_info", "prepare", "install"}
          /\ w[k].do = "create" => w[k].arg = n
          /\ w[k].do = "install" => w[k].arg = s
    BY <1>4, <2>5
  <2>. QED BY <1>5, <2>2, <2>4, <2>6 DEF c, w
<1>6. CASE ~owned
  <2>1. w = (<<c, o>> \o <<>>) \o <<i>>
    BY <1>2, <1>6
  <2>2. /\ w \in Seq(Steps) /\ Len(w) = 3 /\ w # <<>>
        /\ w[1] = c /\ w[2] = o /\ w[3] = i
    BY <1>1, <2>1
  <2>3. \A k \in 1..(Len(w) - 1) : Follows(owned, w[k], w[k + 1])
    <3>1. Follows(owned, w[1], w[1 + 1]) /\ Follows(owned, w[2], w[2 + 1])
      BY <1>3, <2>2
    <3>2. \A k \in 1..(Len(w) - 1) : k = 1 \/ k = 2
      BY <2>2
    <3>. QED BY <3>1, <3>2
  <2>4. Chained(owned, w)
    BY <1>3, <2>2, <2>3 DEF Chained
  <2>5. \A k \in 1..Len(w) : w[k] \in {c, o, i}
    <3>1. \A k \in 1..Len(w) : k = 1 \/ k = 2 \/ k = 3
      BY <2>2
    <3>. QED BY <2>2, <3>1
  <2>6. \A k \in 1..Len(w) :
          /\ w[k].do \in {"create", "open", "viz_info", "prepare", "install"}
          /\ w[k].do = "create" => w[k].arg = n
          /\ w[k].do = "install" => w[k].arg = s
          /\ w[k].do # "viz_info"
    BY <1>4, <2>5
  <2>. QED BY <2>2, <2>4, <2>6 DEF c, w
<1>. QED BY <1>5, <1>6

(* A static pass is refused before its callback, or its three steps are due. *)
LEMMA StaticPassInv ==
  ASSUME Inv, NEW p \in Plugins, StaticPass(p)
  PROVE  Inv'
<1>. DEFINE n == song'
<1>1. /\ n \in Songs /\ n \in 0..MaxSongs /\ n \in song..MaxSongs
      /\ instances[n] = "none" /\ outcome[n] = "none"
      /\ \A j \in Songs : j <= song \/ j > n => j # n
  BY NewSong DEF StaticPass
<1>2. Idle /\ handles # {} /\ ~LastHandle(handles, slots)
  BY DEF StaticPass, Holds, LastHandle
<1>3. /\ TypeOK /\ Working /\ Up /\ Plan = <<>> /\ running = NoCall /\ todo = <<>>
      /\ ~owned => "runtime" \in handles
      /\ \A j : ~Loose(j)
      /\ \A j \in Songs : outcome[j] \in Failed => j \notin SongsOf(record)
  BY <1>2, AtRequest
<1>4. /\ running' = running /\ misused' = misused
      /\ owned' = owned /\ handles' = handles /\ slots' = slots /\ prepared' = prepared
      /\ opened' = opened /\ passed' = passed
      /\ record' = record /\ held' = held /\ takes' = takes /\ statics' = statics
      /\ instances' = instances /\ mapped' = mapped /\ service' = service
  BY DEF StaticPass, held_by, store
<1>5. owned' \/ handles' \subseteq {"runtime"}
  BY <1>4 DEF Inv, InstancesInv
<1>6. CASE /\ todo' = todo /\ Refused(n, IF p \in Passless THEN "NoRecord" ELSE "Refused")
  <2>. DEFINE how == IF p \in Passless THEN "NoRecord" ELSE "Refused"
  <2>1. how \in {"NoRecord", "Refused"}
    OBVIOUS
  <2>2. outcome' = [outcome EXCEPT ![n] = how] /\ plugin_of' = plugin_of
    BY <1>6 DEF Refused
  <2>. HIDE DEF how
  <2>3. /\ outcome' \in [Songs -> {"none", "Ok", "NoRecord"} \cup Errors]
        /\ outcome'[n] = how /\ \A j \in Songs : j # n => outcome'[j] = outcome[j]
    BY <1>1, <1>3, <2>1, <2>2 DEF TypeOK, Errors
  <2>4. TypeOK'
    BY <1>1, <1>3, <1>4, <1>6, <2>2, <2>3 DEF TypeOK
  <2>5. Plan' = <<>> /\ \A j : ~Loose(j)'
    BY <1>3, <1>4, <1>6 DEF Plan, Loose
  <2>6. Course'
    BY <1>2, <1>3, <1>4, <2>5, EmptyCourse
  <2>7. Working'
    BY <1>3, <1>4, <2>5, <2>6 DEF Working, Up
  <2>8. SlotsInv' /\ InstancesInv'
    BY <1>1, <1>3, <1>4, <1>5, <2>3, <2>5, SlotsKept
  <2>9. RecordInv'
    <3>1. \A j \in Songs : outcome'[j] \in Failed => outcome'[j] = outcome[j]
      BY <2>1, <2>3 DEF Failed
    <3>. QED BY <1>3, <1>4, <3>1, RecordKept
  <2>. QED BY <1>4, <2>4, <2>7, <2>8, <2>9 DEF Inv, RunningInv
<1>7. CASE todo' = PassSteps(n) /\ Accepted(n, p)
  <2>1. /\ Plan' = todo' /\ todo' \in Seq(Steps) /\ Len(Plan') = 3
        /\ Plan'[1] = Do("discard", n) /\ Plan'[2] = Do("metadata", n)
        /\ Plan'[3] = Do("take", n) /\ Chained(owned', Plan')
    BY <1>1, <1>3, <1>4, <1>7, PassStepsType DEF Plan
  <2>2. /\ outcome' = outcome /\ plugin_of' = [plugin_of EXCEPT ![n] = p]
    BY <1>7 DEF Accepted
  <2>3. TypeOK'
    BY <1>1, <1>3, <1>4, <2>1, <2>2 DEF TypeOK, Instances
  <2>4. Plan' # <<>> /\ \A k \in 1..Len(Plan') : k = 1 \/ k = 2 \/ k = 3
    BY <2>1
  <2>5. Course'
    <3>1. \A k \in 1..Len(Plan') :
            /\ Plan'[k].do \in {"discard", "metadata", "take"}
            /\ Plan'[k].do = "discard" => k = 1
      BY <2>1, <2>4 DEF Do
    <3>2. \A k \in 1..Len(Plan') : ~(k = 1 /\ k > 1)
      BY <2>1
    <3>. QED BY <1>2, <1>3, <1>4, <2>1, <3>1, <3>2, CourseAfresh
  <2>6. Established'
    BY <1>1, <1>4, <2>1, <2>2 DEF Established, AboutNew, Do
  <2>7. Working'
    BY <1>3, <1>4, <2>5, <2>6 DEF Working, Up
  <2>8. \A j : ~Loose(j)'
    BY <2>1 DEF Loose, Do
  <2>9. SlotsInv' /\ InstancesInv'
    BY <1>1, <1>3, <1>4, <1>5, <2>2, <2>8, SlotsKept
  <2>10. RecordInv'
    BY <1>3, <1>4, <2>2, RecordKept
  <2>. QED BY <1>4, <2>3, <2>7, <2>9, <2>10 DEF Inv, RunningInv
<1>. QED BY <1>6, <1>7 DEF StaticPass

(* An open: of a runtime's session the one it takes the place of goes first; then
   the song is refused, or the steps of its open are due. *)
LEMMA OpenInv ==
  ASSUME Inv, NEW p \in Plugins, NEW s \in Slots, Open(p, s)
  PROVE  Inv'
<1>. DEFINE n == song'
            old == slots[s]
            first == IF owned THEN SlotDrop(s) ELSE <<>>
            drops == owned /\ slots[s] # None
<1>1. /\ n \in Songs /\ n \in 0..MaxSongs /\ n \in song..MaxSongs
      /\ instances[n] = "none" /\ outcome[n] = "none"
      /\ \A j \in Songs : j <= song \/ j > n => j # n
  BY NewSong DEF Open
<1>2. Idle /\ handles # {} /\ ~LastHandle(handles, slots)
  BY DEF Open, Holds, LastHandle
<1>3. /\ TypeOK /\ Working /\ Up /\ Plan = <<>> /\ running = NoCall /\ todo = <<>>
      /\ ~owned => "runtime" \in handles
      /\ \A j : ~Loose(j)
      /\ \A j \in Songs : outcome[j] \in Failed => j \notin SongsOf(record)
  BY <1>2, AtRequest
<1>4. /\ running' = running /\ misused' = misused
      /\ owned' = owned /\ handles' = handles /\ prepared' = prepared
      /\ opened' = opened /\ passed' = passed
      /\ record' = record /\ held' = held /\ takes' = takes /\ statics' = statics
      /\ instances' = instances /\ mapped' = mapped /\ service' = service
      /\ slots' = IF owned THEN [slots EXCEPT ![s] = None] ELSE slots
  BY DEF Open, store
<1>5. owned' \/ handles' \subseteq {"runtime"}
  BY <1>4 DEF Inv, InstancesInv
<1>6. /\ drops => /\ old # None /\ old \in Songs /\ old <= song /\ instances[old] = "open"
                  /\ outcome[old] = "Ok" /\ old \in opened
      /\ drops => /\ first = SessionDrop(old) /\ first \in Seq(Steps) /\ first # <<>>
      /\ ~drops => first = <<>>
  <2>1. CASE drops
    <3>1. /\ old # None /\ old \in Songs /\ old <= song /\ instances[old] = "open"
          /\ outcome[old] = "Ok" /\ old \in opened
      BY <2>1, SessionType
    <3>2. first = SessionDrop(old)
      BY <2>1 DEF SlotDrop
    <3>3. SessionDrop(old) \in Seq(Steps) /\ SessionDrop(old) # <<>>
      BY <1>3, <3>1, SessionDropSteps
    <3>. QED BY <2>1, <3>1, <3>2, <3>3
  <2>2. CASE ~drops
    BY <2>2 DEF SlotDrop
  <2>. QED BY <2>1, <2>2
<1>7. \/ todo' = first /\ Refused(n, "Refused")
      \/ todo' = first \o OpenSteps(n, s) /\ Accepted(n, p)
  BY DEF Open
<1>8. slots' \in [Slots -> Songs \cup {None}] /\ (~drops => slots' = slots)
  <2>1. slots \in [Slots -> Songs \cup {None}]
    BY <1>3 DEF TypeOK
  <2>2. [slots EXCEPT ![s] = None] \in [Slots -> Songs \cup {None}]
    BY <2>1
  <2>3. slots[s] = None => [slots EXCEPT ![s] = None] = slots
    BY <2>1
  <2>. QED BY <1>4, <2>1, <2>2, <2>3
<1>9. /\ outcome' \in [Songs -> {"none", "Ok", "NoRecord"} \cup Errors]
      /\ outcome'[n] \in {"none", "Refused"} /\ plugin_of' \in [Instances -> Plugins]
      /\ \A j \in Songs : j # n => outcome'[j] = outcome[j]
  BY <1>1, <1>3, <1>7 DEF Refused, Accepted, TypeOK, Errors, Instances
<1>. DEFINE opens == OpenSteps(n, s)
<1>10. /\ opens \in Seq(Steps) /\ opens # <<>> /\ opens[1] = Do("create", n)
       /\ Chained(owned, opens)
       /\ \A k \in 1..Len(opens) :
            /\ opens[k].do \in {"create", "open", "viz_info", "prepare", "install"}
            /\ opens[k].do = "create" => opens[k].arg = n
            /\ opens[k].do = "install" => opens[k].arg = s
            /\ opens[k].do = "viz_info" => owned
  BY <1>1, <1>3, OpenStepsType
<1>11. Accepted(n, p) => outcome'[n] = "none"
  BY <1>1 DEF Accepted
<1>. HIDE DEF drops, old, first, opens
(* Whatever the plan starts with, the invariant is made of the same parts. *)
<1>12. ASSUME todo' \in Seq(Steps), Course', Plan' # <<>> => Established',
              SlotsInv', InstancesInv'
       PROVE  Inv'
  <2>1. TypeOK'
    BY <1>1, <1>3, <1>4, <1>8, <1>9, <1>12 DEF TypeOK
  <2>2. Working'
    BY <1>3, <1>4, <1>12 DEF Working, Up
  <2>3. RecordInv'
    <3>1. \A j \in Songs : outcome'[j] \in Failed => outcome'[j] = outcome[j]
      BY <1>1, <1>9 DEF Failed
    <3>. QED BY <1>3, <1>4, <3>1, RecordKept
  <2>. QED BY <1>4, <1>12, <2>1, <2>2, <2>3 DEF Inv, RunningInv
<1>13. Plan' = todo'
  BY <1>3, <1>4 DEF Plan
<1>14. \A j \in Songs : j <= song \/ j > song' => outcome'[j] = outcome[j]
  BY <1>1, <1>9
<1>15. CASE ~drops /\ todo' = first
  <2>1. Plan' = <<>> /\ todo' \in Seq(Steps)
    BY <1>6, <1>13, <1>15
  <2>2. Course'
    <3>1. ~LastHandle(handles', slots')
      BY <1>2, <1>4 DEF LastHandle
    <3>. QED BY <1>3, <1>4, <2>1, <3>1, EmptyCourse
  <2>3. \A j : ~Loose(j)'
    BY <2>1 DEF Loose
  <2>4. SlotsInv' /\ InstancesInv'
    BY <1>1, <1>3, <1>4, <1>5, <1>8, <1>14, <1>15, <2>3, SlotsKept
  <2>. QED BY <1>12, <2>1, <2>2, <2>4
<1>16. ASSUME ~drops, todo' = first \o opens, Accepted(n, p)
       PROVE  Inv'
  <2>1. todo' = opens
    <3>1. todo' = <<>> \o opens
      BY <1>6, <1>16
    <3>. QED BY <1>10, <3>1, ConcatEmptySeq
  <2>2. Course'
    <3>1. Chained(owned', Plan')
      BY <1>4, <1>10, <1>13, <2>1
    <3>2. Foreseen'
      <4>1. instances'[n] = "none" /\ outcome'[n] = "none" /\ handles' # {}
        BY <1>1, <1>2, <1>4, <1>11, <1>16
      <4>. QED BY <1>1, <1>4, <1>10, <1>13, <2>1, <4>1 DEF Foreseen, Lent
    <3>3. Held'
      BY <1>2, <1>3, <1>4 DEF Held, LastHandle
    <3>. QED BY <3>1, <3>2, <3>3 DEF Course
  <2>3. Plan' # <<>> /\ Plan'[1] = Do("create", n)
    BY <1>10, <1>13, <2>1
  <2>4. Established'
    BY <1>1, <1>4, <1>11, <1>16, <2>3 DEF Established, AboutNew, Do
  <2>5. \A j : ~Loose(j)'
    BY <2>3 DEF Loose, Do
  <2>6. SlotsInv' /\ InstancesInv'
    BY <1>1, <1>3, <1>4, <1>5, <1>8, <1>14, <1>16, <2>5, SlotsKept
  <2>. QED BY <1>10, <1>12, <2>1, <2>2, <2>4, <2>6
<1>17. ASSUME drops, Plan' # <<>>, Plan'[1] = Do("close", old)
       PROVE  Established' /\ SlotsInv' /\ InstancesInv'
  <2>1. outcome'[old] = "Ok" /\ old # n
    <3>1. old <= song /\ old \in Songs
      BY <1>6, <1>17
    <3>2. old # n
      BY <1>1, <3>1
    <3>. QED BY <1>6, <1>9, <1>17, <3>1, <3>2
  <2>2. Established'
    BY <1>4, <1>6, <1>17, <2>1 DEF Established, AboutNew, Do, Failed
  <2>3. \A j : Loose(j)' <=> j = slots[s]
    BY <1>17 DEF Loose, Do, old
  <2>4. slots[s] # None /\ slots' = [slots EXCEPT ![s] = None]
    BY <1>4, <1>17 DEF drops
  <2>5. SlotsInv' /\ InstancesInv'
    BY <1>1, <1>3, <1>4, <1>14, <2>3, <2>4, SlotEmptied
  <2>. QED BY <2>2, <2>5
<1>18. CASE drops /\ todo' = first
  <2>1. Plan' = SessionDrop(old) /\ todo' \in Seq(Steps)
    BY <1>6, <1>13, <1>18
  <2>2. Course' /\ Plan' # <<>> /\ Plan'[1] = Do("close", old)
    BY <1>3, <1>4, <1>6, <1>18, <2>1, DropCourse
  <2>. QED BY <1>12, <1>17, <1>18, <2>1, <2>2
<1>19. ASSUME drops, todo' = first \o opens, Accepted(n, p)
       PROVE  Inv'
  <2>1. /\ owned /\ first \in Seq(Steps) /\ first # <<>> /\ first[1] = Do("close", old)
        /\ Len(first) = 3 /\ first[3].do = "release" /\ Chained(owned, first)
        /\ \A k \in 1..Len(first) : first[k].do \in {"close", "destroy", "release"}
    <3>1. owned
      BY <1>19 DEF drops
    <3>. QED BY <1>3, <1>6, <1>19, <3>1, SessionDropSteps
  <2>2. /\ todo' \in Seq(Steps) /\ Len(todo') = Len(first) + Len(opens)
        /\ \A k \in 1..(Len(first) + Len(opens)) :
             todo'[k] = IF k <= Len(first) THEN first[k] ELSE opens[k - Len(first)]
    <3>. DEFINE w == first \o opens
    <3>1. /\ w \in Seq(Steps) /\ Len(w) = Len(first) + Len(opens)
          /\ \A k \in 1..(Len(first) + Len(opens)) :
               w[k] = IF k <= Len(first) THEN first[k] ELSE opens[k - Len(first)]
      <4>1. first \in Seq(Steps) /\ opens \in Seq(Steps)
        BY <1>10, <2>1
      <4>. QED BY <4>1, ConcatProperties
    <3>2. todo' = w
      BY <1>19
    <3>. HIDE DEF w
    <3>. QED BY <3>1, <3>2
  <2>3. Chained(owned, todo')
    <3>1. Follows(owned, first[Len(first)], opens[1])
      BY <1>10, <2>1 DEF Follows, Do
    <3>. QED BY <1>10, <1>19, <2>1, <3>1, ChainedConcat
  <2>4. Len(opens) \in Nat
    BY <1>10
  <2>5. \A k \in 1..Len(todo') :
          \/ todo'[k].do \in {"close", "destroy", "release"}
          \/ /\ todo'[k].do \in {"create", "open", "viz_info", "prepare", "install"}
             /\ todo'[k].do = "create" => todo'[k].arg = n
             /\ todo'[k].do = "install" => todo'[k].arg = s
    <3>. TAKE k \in 1..Len(todo')
    <3>1. CASE k <= 3
      BY <2>1, <2>2, <2>4, <3>1
    <3>2. CASE ~(k <= 3)
      <4>1. k - 3 \in 1..Len(opens) /\ todo'[k] = opens[k - 3]
        BY <2>1, <2>2, <2>4, <3>2
      <4>. QED BY <1>10, <4>1
    <3>. QED BY <3>1, <3>2
  <2>6. Course'
    <3>1. instances'[n] = "none" /\ outcome'[n] = "none" /\ handles' # {}
      BY <1>1, <1>2, <1>4, <1>11, <1>19
    <3>2. Foreseen'
      BY <1>1, <1>4, <1>13, <2>1, <2>5, <3>1 DEF Foreseen, Lent
    <3>3. Held'
      BY <1>2, <1>3, <1>4 DEF Held, LastHandle
    <3>. QED BY <1>4, <1>13, <2>3, <3>2, <3>3 DEF Course
  <2>7. Plan' # <<>> /\ Plan'[1] = Do("close", old)
    <3>1. 1 \in 1..(Len(first) + Len(opens)) /\ 1 <= Len(first)
      BY <2>1, <2>4
    <3>2. Plan'[1] = first[1]
      BY <1>13, <2>2, <3>1
    <3>3. Len(Plan') # 0
      BY <1>13, <2>1, <2>2, <2>4
    <3>. QED BY <1>13, <2>1, <2>2, <3>2, <3>3
  <2>. QED BY <1>12, <1>17, <1>19, <2>2, <2>6, <2>7
<1>. QED BY <1>7, <1>15, <1>16, <1>18, <1>19 DEF first, opens

-----------------------------------------------------------------------------
(* The invariant holds of every state. *)

LEMMA InitInv == Init => Inv
<1>. SUFFICES ASSUME Init
              PROVE  Inv
  OBVIOUS
<1>. DEFINE w == Statics("static_init")
<1>1. N \in Nat /\ N >= 1 /\ 1 \in 1..N
  BY NType
<1>2. /\ w \in Seq(Steps) /\ Len(w) = N
      /\ \A j \in 1..N : w[j] = Do("static_init", PluginOrder[j])
  <2>1. \A j \in 1..N : Do("static_init", PluginOrder[j]) \in Steps
    BY NType, DoSteps DEF StaticCalls
  <2>2. w = [j \in 1..N |-> Do("static_init", PluginOrder[j])]
    BY NType DEF Statics
  <2>. QED BY <1>1, <2>1, <2>2
<1>3. todo = w /\ running = NoCall /\ Plan = w
  BY DEF Init, Plan
<1>. HIDE DEF w
<1>4. TypeOK
  <2>1. NewRecord(0) \in Records /\ FirstRecord \in Records
    BY DEF NewRecord, FirstRecord, Records, NoSong
  <2>2. PluginOrder[1] \in Plugins
    BY <1>1, NType
  <2>3. NoCall \in Steps
    BY DoSteps DEF NoCall
  <2>4. \A n \in Songs : 0 <= record.id
    BY <2>1 DEF Init, Records
  <2>5. /\ slots \in [Slots -> Songs \cup {None}] /\ held \in [Songs -> Nat]
        /\ outcome \in [Songs -> {"none", "Ok", "NoRecord"} \cup Errors]
        /\ plugin_of \in [Instances -> Plugins]
        /\ statics \in [Plugins -> {"new", "up", "down"}]
        /\ instances \in [Instances -> {"none", "created", "open", "closed", "destroyed"}]
    BY <2>2 DEF Init
  <2>6. passed \in [song : Songs \cup {NoSong}, record : Records]
    BY <2>1 DEF Init, NoSong
  <2>7. song \in 0..MaxSongs /\ takes \in 0..MaxTakes
    BY SessionsAssumption DEF Init
  <2>8. \A n \in Songs : held[n] <= record.id
    BY <2>4 DEF Init
  <2>. QED BY <1>2, <1>3, <2>1, <2>3, <2>5, <2>6, <2>7, <2>8 DEF Init, TypeOK
<1>5. Starting
  <2>1. \A j \in 1..N : statics[PluginOrder[j]] = "new" /\ ~(j < 1)
    BY <1>1, NType DEF Init
  <2>2. Len(Plan) = N - 1 + 1 /\ \A j \in 1..Len(Plan) : 1 + j - 1 = j
    BY <1>1, <1>2, <1>3
  <2>3. \A j \in 1..Len(Plan) : Plan[j] = Do("static_init", PluginOrder[1 + j - 1])
    BY <1>2, <1>3, <2>2
  <2>. QED BY <1>1, <2>1, <2>2, <2>3 DEF Starting, Init
<1>6. \A j : ~Loose(j)
  BY <1>1, <1>2, <1>3 DEF Loose, Do
<1>7. SlotsInv
  BY DEF Init, SlotsInv
<1>8. InstancesInv
  <2>1. \A i \in Instances : ~Live(i) /\ ~InSlot(i)
    BY SessionsAssumption DEF Init, Live, InSlot, Instances
  <2>. QED BY <1>6, <2>1 DEF Init, InstancesInv, Instances
<1>9. RecordInv
  BY DEF Init, RecordInv, PassIsItsOwn, Failed, SongsOf, NewRecord, NoSong
<1>10. ~misused /\ RunningInv
  BY <1>3 DEF Init, RunningInv
<1>. QED BY <1>4, <1>5, <1>7, <1>8, <1>9, <1>10 DEF Inv

LEMMA StutterInv ==
  ASSUME Inv, UNCHANGED vars
  PROVE  Inv'
<1>1. Plan' = Plan /\ UNCHANGED <<host, plugins>>
  BY DEF vars, Plan
<1>2. UNCHANGED <<todo, running, host, store, plugins, misused>>
  BY DEF vars
<1>3. TypeOK'
  BY <1>2 DEF Inv, TypeOK, host, held_by, songs, store, plugins
<1>4. Starting' \/ Working' \/ Ending'
  <2>1. Established => Established'
    BY <1>1, <1>2 DEF Established, AboutNew, InSlot, host, held_by, songs, store, plugins
  <2>. QED BY <1>1, <2>1, SamePlan DEF Inv, Working
<1>5. SlotsInv' /\ InstancesInv'
  BY <1>1, SamePlan
<1>6. RecordInv'
  BY <1>1, <1>2 DEF Inv, RecordInv, PassIsItsOwn, host, songs, store
<1>. QED BY <1>2, <1>3, <1>4, <1>5, <1>6 DEF Inv, RunningInv

LEMMA StepInv == Inv /\ [Next]_vars => Inv'
<1>. SUFFICES ASSUME Inv, [Next]_vars
              PROVE  Inv'
  OBVIOUS
<1>1. CASE Request
  <2>1. ASSUME NEW p \in Plugins, Select(p) \/ StaticPass(p)
        PROVE  Inv'
    BY <2>1, SelectInv, StaticPassInv
  <2>2. ASSUME NEW p \in Plugins, NEW s \in Slots, Open(p, s)
        PROVE  Inv'
    BY <2>2, OpenInv
  <2>3. ASSUME NEW h \in Plugins \cup {"runtime"}, DropHandle(h)
        PROVE  Inv'
    BY <2>3, DropHandleInv
  <2>4. ASSUME NEW s \in Slots, DropSession(s) \/ PreparePlayer(s) \/ Use(s)
        PROVE  Inv'
    BY <2>4, DropSessionInv, SessionCallInv
  <2>. QED BY <1>1, <2>1, <2>2, <2>3, <2>4 DEF Request
<1>2. CASE HostStep
  BY <1>2, PrepareInv, NoVisualizationInv, InstallInv, ReleaseInv, UnmapEndServiceInv,
     DiscardInv, TakePassedInv DEF HostStep
<1>3. CASE Enter
  BY <1>3, EnterInv
<1>4. CASE LeaveAny
  BY <1>4, LeaveStaticInv, LeaveCreateInv, LeaveOpenInv, LeaveVizInfoInv, LeaveUseInv,
     LeaveDropInv, LeaveMetadataInv DEF LeaveAny
<1>5. CASE CreateUrl \/ Push \/ Take
  BY <1>5, PushInv
<1>6. CASE UNCHANGED vars
  BY <1>6, StutterInv
<1>. QED BY <1>1, <1>2, <1>3, <1>4, <1>5, <1>6 DEF Next, Thread

(* Every state the host, the output's thread and the plugins can bring about is
   described by Inv, which every theorem below rests on. *)
THEOREM Invariance == Spec => []Inv
BY InitInv, StepInv, PTL DEF Spec

-----------------------------------------------------------------------------
(* What it is for. *)

(* Every variable stays in its type; the id a song's plugin code was given is
   never ahead of the record's (MetadataStore). *)
THEOREM TypeCorrect == Spec => []TypeOK
<1>1. Inv => TypeOK
  BY DEF Inv
<1>. QED BY <1>1, Invariance, PTL

(* No callback is ever called out of order: open_player, the Drop of Player and of
   RuntimeInner, and the order of the fields of sessions and runtime. *)
THEOREM CallsInOrder == Spec => []CallbacksLegal
<1>1. Inv => CallbacksLegal
  BY DEF Inv, CallbacksLegal
<1>. QED BY <1>1, Invariance, PTL

(* Between calls an instance that is not destroyed is in exactly one variable
   (open_prepared_inner, open_inner). *)
THEOREM EveryInstanceHeld == Spec => []NothingLeaks
<1>1. Inv => NothingLeaks
  <2>. SUFFICES ASSUME Inv, Idle, NEW i \in Instances
                PROVE  /\ Live(i) <=> \E s \in Slots : slots[s] = i
                       /\ \A s, t \in Slots : slots[s] = i /\ slots[t] = i => s = t
    BY DEF NothingLeaks
  <2>1. ~Loose(i)
    BY PlanType DEF Inv, Loose
  <2>2. i # None
    BY SessionsAssumption DEF Instances
  <2>3. Live(i) <=> InSlot(i)
    BY <2>1 DEF Inv, InstancesInv
  <2>. QED BY <2>2, <2>3 DEF Inv, SlotsInv, InSlot
<1>. QED BY <1>1, Invariance, PTL

(* A session the host has is open, on a plugin that is set up, in a library that
   is mapped, with services that live (OwnedPreparedSession keeps the runtime). *)
THEOREM SessionsCanBeRead == Spec => []SessionsUsable
<1>1. Inv => SessionsUsable
  <2>. SUFFICES ASSUME Inv, NEW s \in Slots, slots[s] # None
                PROVE  /\ instances[slots[s]] = "open"
                       /\ statics[plugin_of[slots[s]]] = "up"
                       /\ mapped /\ service
    BY DEF SessionsUsable
  <2>1. /\ slots[s] \in Songs /\ slots[s] <= song /\ instances[slots[s]] = "open"
        /\ ~LastHandle(handles, slots)
    BY SessionType
  <2>2. ~Starting
    <3>1. song # 0
      BY <2>1 DEF Songs
    <3>. QED BY <3>1 DEF Starting
  <2>3. Up
    BY <2>1, <2>2 DEF Inv, Ending, Working
  <2>4. plugin_of[slots[s]] \in Plugins
    BY <2>1 DEF Inv, TypeOK, Instances
  <2>. QED BY <2>1, <2>3, <2>4 DEF Up
<1>. QED BY <1>1, Invariance, PTL

(* What a failed open or pass pushed is in no record that is taken later: the
   discard comes after the instance's last callback (open_prepared_inner,
   metadata). *)
THEOREM FailedCallsForgotten == Spec => []RefusedLeavesNothing
<1>1. Inv => RefusedLeavesNothing
  <2>. SUFFICES ASSUME Inv, Idle, NEW n \in Songs,
                       outcome[n] \in {"OpenFailed", "MetadataFailed"}
                PROVE  n \notin SongsOf(record)
    BY DEF RefusedLeavesNothing
  <2>1. Plan = <<>>
    BY PlanType DEF Inv
  <2>. QED BY <2>1 DEF Inv, RecordInv, Failed
<1>. QED BY <1>1, Invariance, PTL

(* A static pass returns what was pushed about its own song: it starts on an empty
   record, and no callback about another song runs before it takes (metadata). *)
THEOREM PassesApart == Spec => []PassIsItsOwn
<1>1. Inv => PassIsItsOwn
  BY DEF Inv, RecordInv
<1>. QED BY <1>1, Invariance, PTL

(* Nothing holds the runtime and its thread has nothing left to do: then it has
   ended in full.  With FairSpec's weak fairness this is what RuntimeEnds says. *)
EndedInFull ==
  Idle /\ LastHandle(handles, slots) =>
    /\ ~mapped /\ ~service
    /\ \A p \in Plugins : statics[p] = "down"
    /\ \A i \in Instances : ~Live(i)

(* Whatever is dropped last, and whatever failed before: every plugin has been torn
   down, the libraries are unmapped, the services gone, and no instance is left
   (RuntimeInner::drop and its fields). *)
THEOREM RuntimeEndsInFull == Spec => []EndedInFull
<1>1. Inv => EndedInFull
  <2>. SUFFICES ASSUME Inv, Idle, LastHandle(handles, slots)
                PROVE  /\ ~mapped /\ ~service
                       /\ \A p \in Plugins : statics[p] = "down"
                       /\ \A i \in Instances : ~Live(i)
    BY DEF EndedInFull
  <2>1. TypeOK /\ Plan = <<>> /\ Len(Plan) = 0
    BY PlanType DEF Inv
  <2>2. ~Starting
    BY <2>1, StartingSteps
  <2>3. ~Working
    BY <2>1 DEF Working, Course, Held
  <2>4. PICK k \in 1..(N + 3) :
          /\ Len(Plan) = N + 3 - k
          /\ \A j \in 1..N : statics[PluginOrder[j]] = IF j < k THEN "down" ELSE "up"
          /\ mapped <=> k <= N + 1
          /\ service <=> k <= N + 2
    BY <2>2, <2>3 DEF Inv, Ending
  <2>5. N \in Nat /\ k = N + 3
    BY <2>1, <2>4, NType
  <2>6. ~mapped /\ ~service /\ \A j \in 1..N : statics[PluginOrder[j]] = "down"
    BY <2>4, <2>5
  <2>7. \A i \in Instances : ~Live(i)
    <3>1. \A i \in Instances : ~InSlot(i)
      BY SessionsAssumption DEF LastHandle, InSlot, Instances
    <3>2. \A i : ~Loose(i)
      BY <2>1 DEF Loose
    <3>. QED BY <3>1, <3>2 DEF Inv, InstancesInv
  <2>. QED BY <2>6, <2>7, NType
<1>. QED BY <1>1, Invariance, PTL
=============================================================================
