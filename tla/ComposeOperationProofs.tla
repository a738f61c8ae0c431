----------------------- MODULE ComposeOperationProofs -----------------------
(***************************************************************************)
(* Proofs about ComposeOperation, for any operations, kinds of             *)
(* cancellation and filters.                                               *)
(***************************************************************************)
EXTENDS ComposeOperation, TLAPS

\* An operation has one item in the queue at most, and none while it waits.
OneItem ==
  /\ \A i, j \in DOMAIN queue : queue[i].op = queue[j].op => i = j
  /\ \A i \in DOMAIN queue : queue[i].op \notin pending

\* What an item or a wait says of the coroutine.
ItemsFit ==
  /\ \A o \in pending : frame[o] = "suspended"
  /\ \A i \in DOMAIN queue :
       LET o == queue[i].op IN
         IF queue[i].what = "resume"
         THEN frame[o] = "suspended"
         ELSE frame[o] = "gone" /\ fate[o] = "none"

Queued(o) == \E i \in DOMAIN queue : queue[i].op = o

\* What is suspended, or gone and has not ended, is waited for or queued.
Kept ==
  \A o \in Ops :
    /\ frame[o] = "suspended" => o \in pending \/ Queued(o)
    /\ frame[o] = "gone" /\ fate[o] = "none" => Queued(o)
    /\ frame[o] # "gone" => fate[o] = "none"

\* When io_context::run has returned nothing is left.
NothingLeft ==
  returned => queue = << >> /\ \A o \in Ops : frame[o] \in {"none", "gone"}

\* did_suspend is set inside the initiating function by an inline operation only.
SuspendedInside ==
  /\ \A o \in didSuspend : frame[o] # "none"
  /\ turn.starting /\ turn.op \in didSuspend => turn.op \in inlined
  /\ early \subseteq inlined

\* What was never called has no cancellation state.
Unborn == \A o \in Ops : frame[o] = "none" => filter[o] = {}

IInv ==
  TypeOK /\ OneItem /\ ItemsFit /\ Kept /\ NothingLeft /\ SuspendedInside /\ Unborn

-----------------------------------------------------------------------------
(***************************************************************************)
(* Queues.                                                                 *)
(***************************************************************************)
\* The queue with an item more.
LEMMA Appended ==
  ASSUME NEW S, NEW q \in Seq(S), NEW x \in S
  PROVE  /\ Append(q, x) \in Seq(S)
         /\ DOMAIN Append(q, x) = DOMAIN q \cup {Len(q) + 1}
         /\ Len(q) + 1 \notin DOMAIN q
         /\ \A i \in DOMAIN q : Append(q, x)[i] = q[i]
         /\ Append(q, x)[Len(q) + 1] = x
OBVIOUS

\* The queue without its first item: the others move up by one place.
LEMMA Taken ==
  ASSUME NEW S, NEW q \in Seq(S), q # << >>
  PROVE  /\ Tail(q) \in Seq(S)
         /\ 1 \in DOMAIN q /\ Head(q) = q[1] /\ Head(q) \in S
         /\ \A i \in DOMAIN Tail(q) : i + 1 \in DOMAIN q /\ i + 1 # 1 /\ Tail(q)[i] = q[i + 1]
         /\ \A i \in DOMAIN q : i # 1 => i - 1 \in DOMAIN Tail(q) /\ Tail(q)[i - 1] = q[i]
OBVIOUS

LEMMA InitInv == Init => IInv
<1>. SUFFICES ASSUME Init PROVE IInv
  OBVIOUS
<1>1. TypeOK
  <2>1. NoResult \in [ec : Results \cup {"none"}, cnc : Types \cup {None},
                     raw : Results \cup {"none"}]
    BY DEF NoResult
  <2>2. /\ Nobody \in [op : Ops \cup {None}, within : BOOLEAN, starting : BOOLEAN]
        /\ Nobody.op = None
    BY DEF Nobody
  <2>3. << >> \in Seq(Items)
    OBVIOUS
  <2>4. /\ turn \in [op : Ops \cup {None}, within : BOOLEAN, starting : BOOLEAN]
        /\ \A o \in Ops : frame[o] = "running" <=> turn.op = o
    BY <2>2, ComposeAssumption DEF Init
  <2>5. /\ filter \in [Ops -> SUBSET Types] /\ outFilter \in [Ops -> SUBSET Types]
        /\ cancelled \in [Ops -> Types \cup {None}]
        /\ \A o \in Ops : cancelled[o] \in filter[o] \cup {None}
        /\ told \in [Ops -> Types \cup {None}]
    BY DEF Init
  <2>6. /\ frame \in [Ops -> {"none", "running", "suspended", "gone"}]
        /\ fate \in [Ops -> {"none", "completed", "threw", "dropped"}]
        /\ awaits \in [Ops -> 0 .. MaxAwaits]
    BY ComposeAssumption DEF Init
  <2>7. got \in [Ops -> [ec : Results \cup {"none"}, cnc : Types \cup {None},
                       raw : Results \cup {"none"}]]
    BY <2>1 DEF Init
  <2>8. queue \in Seq(Items)
    BY <2>3 DEF Init
  <2>. QED
    BY <2>4, <2>5, <2>6, <2>7, <2>8 DEF Init, TypeOK
<1>2. OneItem /\ ItemsFit /\ Kept
  BY DEF Init, OneItem, ItemsFit, Kept
<1>3. NothingLeft /\ SuspendedInside /\ Unborn
  BY DEF Init, NothingLeft, SuspendedInside, Unborn, Nobody
<1>. QED
  BY <1>1, <1>2, <1>3 DEF IInv

-----------------------------------------------------------------------------
(***************************************************************************)
(* How a step of one coroutine changes queue and frames.                   *)
(***************************************************************************)
Alone(o) == o \notin pending /\ ~Queued(o)

Places == OneItem /\ ItemsFit /\ Kept

\* The other coroutines are where they were.
OthersStay(o) ==
  /\ \A p \in Ops \ {o} : frame'[p] = frame[p] /\ fate'[p] = fate[p]
  /\ \A p \in Ops \ {o} : p \in pending' <=> p \in pending
  /\ pending' \subseteq Ops

\* A coroutine that runs is in no handler.
LEMMA RunsAlone ==
  ASSUME TypeOK, ItemsFit, NEW o \in Ops, frame[o] \in {"none", "running"}
  PROVE  Alone(o)
BY DEF TypeOK, ItemsFit, Alone, Queued

\* An item is appended for a coroutine that has none.
LEMMA Adding ==
  ASSUME TypeOK, Places, NEW o \in Ops, NEW x \in Items, x.op = o,
         ~Queued(o), o \notin pending', OthersStay(o), queue' = Append(queue, x),
         IF x.what = "resume" THEN frame'[o] = "suspended" /\ fate'[o] = "none"
         ELSE frame'[o] = "gone" /\ fate'[o] = "none"
  PROVE  Places'
<1>. DEFINE n == Len(queue) + 1
<1>0. queue \in Seq(Items)
  BY DEF TypeOK
<1>1. /\ DOMAIN queue' = DOMAIN queue \cup {n}
      /\ n \notin DOMAIN queue
      /\ \A i \in DOMAIN queue : queue'[i] = queue[i]
      /\ queue'[n] = x
  BY <1>0, Appended
<1>2. \A i \in DOMAIN queue : queue[i].op \in Ops \ {o}
  BY <1>0 DEF Queued, Items, Item
<1>. HIDE DEF n
<1>3. OneItem'
  BY <1>1, <1>2 DEF OneItem, Places, OthersStay
<1>4. ItemsFit'
  <2>1. \A p \in pending' : frame'[p] = "suspended"
    BY DEF ItemsFit, Places, OthersStay
  <2>2. ASSUME NEW i \in DOMAIN queue
        PROVE  IF queue'[i].what = "resume"
               THEN frame'[queue'[i].op] = "suspended"
               ELSE frame'[queue'[i].op] = "gone" /\ fate'[queue'[i].op] = "none"
    BY <1>1, <1>2 DEF ItemsFit, Places, OthersStay
  <2>. QED
    BY <1>1, <2>1, <2>2 DEF ItemsFit
<1>5. Kept'
  <2>1. Queued(o)'
    BY <1>1 DEF Queued
  <2>2. \A p \in Ops \ {o} : Queued(p) => Queued(p)'
    BY <1>1 DEF Queued
  <2>. QED
    BY <2>1, <2>2 DEF Kept, Places, OthersStay
<1>. QED
  BY <1>3, <1>4, <1>5 DEF Places

\* The queue stays; the coroutine has no item.
LEMMA Staying ==
  ASSUME TypeOK, Places, NEW o \in Ops, ~Queued(o), OthersStay(o), queue' = queue,
         o \in pending' <=> frame'[o] = "suspended",
         frame'[o] = "gone" <=> fate'[o] # "none"
  PROVE  Places'
<1>1. queue \in Seq(Items)
  BY DEF TypeOK
<1>2. \A i \in DOMAIN queue : queue[i].op \in Ops \ {o}
  BY <1>1 DEF Queued, Items, Item
<1>3. OneItem'
  BY <1>2 DEF OneItem, Places, OthersStay
<1>4. ItemsFit'
  <2>1. \A p \in pending' : frame'[p] = "suspended"
    BY DEF ItemsFit, Places, OthersStay
  <2>2. ASSUME NEW i \in DOMAIN queue
        PROVE  IF queue[i].what = "resume"
               THEN frame'[queue[i].op] = "suspended"
               ELSE frame'[queue[i].op] = "gone" /\ fate'[queue[i].op] = "none"
    BY <1>2 DEF ItemsFit, Places, OthersStay
  <2>. QED
    BY <2>1, <2>2 DEF ItemsFit
<1>5. Kept'
  <2>1. \A p \in Ops : Queued(p)' <=> Queued(p)
    BY DEF Queued
  <2>. QED
    BY <2>1 DEF Kept, Places, OthersStay
<1>. QED
  BY <1>3, <1>4, <1>5 DEF Places

\* The first item is taken: its coroutine runs, or ends.
LEMMA Taking ==
  ASSUME TypeOK, Places, queue # << >>, queue' = Tail(queue), pending' = pending,
         OthersStay(Head(queue).op),
         LET o == Head(queue).op IN
           \/ frame'[o] = "running" /\ fate'[o] = "none"
           \/ frame'[o] = "gone" /\ fate'[o] # "none"
  PROVE  Places'
<1>. DEFINE o == Head(queue).op
<1>0. queue \in Seq(Items)
  BY DEF TypeOK
<1>1. /\ 1 \in DOMAIN queue /\ Head(queue) = queue[1] /\ Head(queue) \in Items
      /\ \A i \in DOMAIN queue' :
           i + 1 \in DOMAIN queue /\ i + 1 # 1 /\ queue'[i] = queue[i + 1]
      /\ \A i \in DOMAIN queue :
           i # 1 => i - 1 \in DOMAIN queue' /\ queue'[i - 1] = queue[i]
  BY <1>0, Taken
<1>2. o \in Ops /\ o \notin pending
  BY <1>1 DEF Items, Item, Places, OneItem
<1>3. \A i \in DOMAIN queue : i # 1 => queue[i].op \in Ops \ {o}
  BY <1>0, <1>1 DEF Items, Item, Places, OneItem
<1>4. \A i \in DOMAIN queue' : queue'[i].op \in Ops \ {o}
  BY <1>1, <1>3
<1>. HIDE DEF o
<1>5. OneItem'
  <2>1. ASSUME NEW i \in DOMAIN queue', NEW j \in DOMAIN queue',
               queue'[i].op = queue'[j].op
        PROVE  i = j
    <3>1. queue' \in Seq(Items)
      BY <1>0, Taken
    <3>2. i \in Nat /\ j \in Nat
      BY <3>1
    <3>3. i + 1 = j + 1
      BY <1>1, <2>1 DEF OneItem, Places
    <3>. QED
      BY <3>2, <3>3
  <2>2. \A i \in DOMAIN queue' : queue'[i].op \notin pending'
    BY <1>1 DEF OneItem, Places
  <2>. QED
    BY <2>1, <2>2 DEF OneItem
<1>6. ItemsFit'
  <2>1. \A p \in pending' : frame'[p] = "suspended"
    BY <1>2 DEF ItemsFit, Places, OthersStay, o
  <2>2. ASSUME NEW i \in DOMAIN queue'
        PROVE  IF queue'[i].what = "resume"
               THEN frame'[queue'[i].op] = "suspended"
               ELSE frame'[queue'[i].op] = "gone" /\ fate'[queue'[i].op] = "none"
    <3>1. /\ frame'[queue'[i].op] = frame[queue'[i].op]
          /\ fate'[queue'[i].op] = fate[queue'[i].op]
      BY <1>4 DEF OthersStay, o
    <3>2. i + 1 \in DOMAIN queue /\ queue'[i] = queue[i + 1]
      BY <1>1
    <3>. QED
      BY <3>1, <3>2 DEF ItemsFit, Places
  <2>. QED
    BY <2>1, <2>2 DEF ItemsFit
<1>7. Kept'
  <2>1. ASSUME NEW p \in Ops \ {o}, Queued(p)
        PROVE  Queued(p)'
    <3>1. PICK i \in DOMAIN queue : queue[i].op = p
      BY <2>1 DEF Queued
    <3>2. i # 1
      BY <1>1, <2>1, <3>1 DEF o
    <3>. QED
      BY <1>1, <3>1, <3>2 DEF Queued
  <2>2. \A p \in Ops \ {o} : Queued(p) => Queued(p)'
    BY <2>1
  <2>. QED
    BY <2>2 DEF Kept, Places, OthersStay, o
<1>. QED
  BY <1>5, <1>6, <1>7 DEF Places

-----------------------------------------------------------------------------
(***************************************************************************)
(* The types.                                                              *)
(***************************************************************************)
LEMMA ItemTypes ==
  ASSUME NEW o \in Ops
  PROVE  /\ \A r \in Results : Item("resume", o, r) \in Items
         /\ Item("complete", o, "none") \in Items
         /\ Item("rethrow", o, "none") \in Items
         /\ \A w, r : Item(w, o, r).op = o /\ Item(w, o, r).what = w /\ Item(w, o, r).ec = r
BY DEF Items, Item

LEMMA NoResultType ==
  NoResult \in [ec : Results \cup {"none"}, cnc : Types \cup {None},
                raw : Results \cup {"none"}]
BY DEF NoResult

\* The turn goes from nobody to a coroutine, or from one to nobody.
LEMMA TurnTypes ==
  /\ Nobody \in [op : Ops \cup {None}, within : BOOLEAN, starting : BOOLEAN]
  /\ Nobody.op = None /\ Nobody.starting = FALSE
  /\ \A o \in Ops : o # None
BY ComposeAssumption DEF Nobody

LEMMA InitiateTypes ==
  ASSUME TypeOK, Unborn, NEW o \in Ops, NEW within \in BOOLEAN, Initiate(o, within)
  PROVE  TypeOK'
<1>1. frame' \in [Ops -> {"none", "running", "suspended", "gone"}]
  BY DEF TypeOK, Initiate, Becomes
<1>2. /\ turn' \in [op : Ops \cup {None}, within : BOOLEAN, starting : BOOLEAN]
      /\ turn'.op = o
  BY DEF Initiate
<1>3. \A p \in Ops : frame'[p] = "running" <=> turn'.op = p
  BY <1>2, TurnTypes DEF TypeOK, Initiate, Idle, Becomes
<1>4. filter' \in [Ops -> SUBSET Types] /\ outFilter' \in [Ops -> SUBSET Types]
  BY ComposeAssumption DEF TypeOK, Initiate, NewPromise
<1>5. \A p \in Ops : cancelled[p] \in filter'[p] \cup {None}
  BY DEF TypeOK, Unborn, Initiate, NewPromise
<1>. QED
  BY <1>1, <1>2, <1>3, <1>4, <1>5 DEF TypeOK, Initiate, inner, outcome

LEMMA ResetTypes ==
  ASSUME TypeOK, NEW o \in Ops, NEW f \in Filters, NEW g \in Filters, Reset(o, f, g)
  PROVE  TypeOK'
BY NoResultType, ComposeAssumption DEF TypeOK, Reset, outcome, context

LEMMA SuspendTypes ==
  ASSUME TypeOK, NEW o \in Ops, Suspend(o), queue' \in Seq(Items),
         pending' \subseteq Ops, redirect' \subseteq Ops
  PROVE  TypeOK'
<1>1. frame' \in [Ops -> {"none", "running", "suspended", "gone"}]
  BY DEF TypeOK, Suspend, Becomes
<1>2. /\ turn' \in [op : Ops \cup {None}, within : BOOLEAN, starting : BOOLEAN]
      /\ turn'.op = None
  BY TurnTypes DEF Suspend
<1>3. \A p \in Ops : frame'[p] = "running" <=> turn'.op = p
  BY <1>2, TurnTypes DEF TypeOK, Suspend, Running, Becomes
<1>4. awaits' \in [Ops -> 0 .. MaxAwaits]
  BY ComposeAssumption DEF TypeOK, Suspend
<1>5. /\ told' \in [Ops -> Types \cup {None}]
      /\ got' \in [Ops -> [ec : Results \cup {"none"}, cnc : Types \cup {None},
                          raw : Results \cup {"none"}]]
  BY NoResultType DEF TypeOK, Suspend
<1>. QED
  BY <1>1, <1>2, <1>3, <1>4, <1>5 DEF TypeOK, Suspend, state, outcome, context

LEMMA InlineTypes ==
  ASSUME TypeOK, NEW o \in Ops, AwaitInline(o)
  PROVE  TypeOK'
BY ComposeAssumption DEF TypeOK, AwaitInline, Running, state, context, Results

LEMMA LeaveTypes ==
  ASSUME TypeOK, NEW o \in Ops, Leave(o), queue' \in Seq(Items),
         fate' \in [Ops -> {"none", "completed", "threw", "dropped"}], early' \subseteq Ops
  PROVE  TypeOK'
<1>1. frame' \in [Ops -> {"none", "running", "suspended", "gone"}]
  BY DEF TypeOK, Leave, Becomes
<1>2. /\ turn' \in [op : Ops \cup {None}, within : BOOLEAN, starting : BOOLEAN]
      /\ turn'.op = None
  BY TurnTypes DEF Leave
<1>3. \A p \in Ops : frame'[p] = "running" <=> turn'.op = p
  BY <1>2, TurnTypes DEF TypeOK, Leave, Running, Becomes
<1>4. awaits' \in [Ops -> 0 .. MaxAwaits]
  BY ComposeAssumption DEF TypeOK, Leave
<1>5. /\ filter' \in [Ops -> SUBSET Types] /\ outFilter' \in [Ops -> SUBSET Types]
      /\ cancelled' \in [Ops -> Types \cup {None}]
      /\ \A p \in Ops : cancelled'[p] \in filter'[p] \cup {None}
  BY DEF TypeOK, Leave
<1>6. /\ told' \in [Ops -> Types \cup {None}]
      /\ got' \in [Ops -> [ec : Results \cup {"none"}, cnc : Types \cup {None},
                          raw : Results \cup {"none"}]]
  BY NoResultType DEF TypeOK, Leave
<1>. QED
  BY <1>1, <1>2, <1>3, <1>4, <1>5, <1>6 DEF TypeOK, Leave, context

LEMMA RunTypes ==
  ASSUME TypeOK, Run
  PROVE  TypeOK'
<1>. DEFINE i == Head(queue)
<1>1. queue # << >> /\ queue \in Seq(Items)
  BY DEF Run, TypeOK
<1>2. i \in Items /\ queue' \in Seq(Items)
  BY <1>1, Taken DEF Run
<1>3. i.op \in Ops
  BY <1>2 DEF Items, Item
<1>4. CASE i.what = "resume"
  <2>1. i.ec \in Results
    BY <1>2, <1>4 DEF Items, Item
  <2>2. Redirected(i.op, i.ec) \in [ec : Results \cup {"none"}, cnc : Types \cup {None},
                                    raw : Results \cup {"none"}]
    BY <1>3, <2>1 DEF Redirected, TypeOK, Results
  <2>3. Resume(i.op, i.ec)
    BY <1>4 DEF Run
  <2>. QED
    BY <1>2, <1>3, <2>2, <2>3, TurnTypes
       DEF Run, TypeOK, Resume, Becomes, Idle, state, context
<1>5. CASE i.what # "resume"
  <2>1. i.what \in {"complete", "rethrow"}
    BY <1>2, <1>5 DEF Items, Item
  <2>2. fate' \in [Ops -> {"none", "completed", "threw", "dropped"}]
    BY <1>3, <1>5, <2>1 DEF Run, TypeOK
  <2>. QED
    BY <1>2, <1>5, <2>1, <2>2 DEF Run, TypeOK, state, context
<1>. QED
  BY <1>4, <1>5

LEMMA FinishTypes ==
  ASSUME TypeOK, NEW o \in Ops, NEW ec \in Results, Finish(o, ec)
  PROVE  queue' \in Seq(Items) /\ pending' \subseteq Ops
<1>1. queue \in Seq(Items) /\ Item("resume", o, ec) \in Items
  BY ItemTypes DEF TypeOK
<1>. QED
  BY <1>1 DEF Finish, TypeOK

LEMMA FireTypes ==
  ASSUME TypeOK, NEW o \in Ops, NEW ec \in {"ok", "error"}, Fire(o, ec)
  PROVE  TypeOK'
<1>1. queue' \in Seq(Items) /\ pending' \subseteq Ops
  BY FinishTypes DEF Fire, Results
<1>. QED
  BY <1>1 DEF Fire, TypeOK, state, outcome, context

LEMMA EmitTypes ==
  ASSUME TypeOK, NEW o \in Ops, NEW c \in Types, Emit(o, c)
  PROVE  TypeOK'
<1>1. queue' \in Seq(Items) /\ pending' \subseteq Ops
  BY FinishTypes DEF Emit, Results, TypeOK
<1>2. cancelled' \in [Ops -> Types \cup {None}] /\ told' \in [Ops -> Types \cup {None}]
  BY DEF Emit, TypeOK
<1>3. \A p \in Ops : cancelled'[p] \in filter[p] \cup {None}
  BY DEF Emit, TypeOK
<1>. QED
  BY <1>1, <1>2, <1>3 DEF Emit, TypeOK, outcome, context

LEMMA ShutdownTypes ==
  ASSUME TypeOK, Shutdown
  PROVE  TypeOK'
<1>1. << >> \in Seq(Items)
  OBVIOUS
<1>2. fate' \in [Ops -> {"none", "completed", "threw", "dropped"}]
  BY DEF Shutdown, TypeOK
<1>3. frame' \in [Ops -> {"none", "running", "suspended", "gone"}]
  BY DEF Shutdown, TypeOK
<1>4. \A o \in Ops : frame'[o] = "running" <=> turn'.op = o
  BY DEF Shutdown, TypeOK
<1>. QED
  BY <1>1, <1>2, <1>3, <1>4 DEF Shutdown, TypeOK, state

-----------------------------------------------------------------------------
(***************************************************************************)
(* The invariant, one action at a time.                                    *)
(***************************************************************************)
\* What every action of a running coroutine starts from.
LEMMA RunningFacts ==
  ASSUME IInv, NEW o \in Ops, Running(o)
  PROVE  frame[o] = "running" /\ Alone(o) /\ ~returned /\ fate[o] = "none"
<1>1. frame[o] = "running"
  BY DEF IInv, TypeOK, Running
<1>2. Alone(o)
  BY <1>1, RunsAlone DEF IInv
<1>. QED
  BY <1>1, <1>2 DEF IInv, NothingLeft, Kept

LEMMA InitiateInv ==
  ASSUME IInv, NEW o \in Ops, NEW within \in BOOLEAN, Initiate(o, within)
  PROVE  IInv'
<1>1. TypeOK'
  BY InitiateTypes DEF IInv
<1>2. Alone(o) /\ fate[o] = "none" /\ frame'[o] = "running"
  BY RunsAlone DEF IInv, Kept, Initiate, Becomes, TypeOK
<1>3. OthersStay(o)
  BY DEF OthersStay, Initiate, Becomes, inner, outcome, IInv, TypeOK
<1>4. Places'
  BY <1>2, <1>3, Staying DEF IInv, Places, Alone, Initiate, inner, outcome
<1>5. NothingLeft'
  BY DEF Initiate, NothingLeft
<1>6. SuspendedInside'
  BY DEF Initiate, Becomes, outcome, IInv, SuspendedInside, TypeOK
<1>7. Unborn'
  BY DEF Initiate, Becomes, NewPromise, IInv, Unborn, TypeOK
<1>. QED
  BY <1>1, <1>4, <1>5, <1>6, <1>7 DEF IInv, Places

LEMMA ResetInv ==
  ASSUME IInv, NEW o \in Ops, NEW f \in Filters, NEW g \in Filters, Reset(o, f, g)
  PROVE  IInv'
<1>1. TypeOK'
  BY ResetTypes DEF IInv
<1>2. frame[o] = "running"
  BY RunningFacts DEF Reset
<1>3. Unborn'
  BY <1>2 DEF Reset, IInv, Unborn, TypeOK
<1>. QED
  BY <1>1, <1>3
     DEF IInv, OneItem, ItemsFit, Kept, Queued, NothingLeft, SuspendedInside, Reset,
         outcome, context

\* What does not depend on the operation that is awaited.
LEMMA SuspendRest ==
  ASSUME IInv, NEW o \in Ops, Suspend(o)
  PROVE  NothingLeft' /\ SuspendedInside' /\ Unborn'
<1>1. ~returned /\ frame[o] = "running"
  BY RunningFacts DEF Suspend
<1>2. NothingLeft'
  BY <1>1 DEF Suspend, context, NothingLeft
<1>3. SuspendedInside'
  BY <1>1, TurnTypes DEF Suspend, Becomes, outcome, SuspendedInside, IInv, TypeOK
<1>4. Unborn'
  BY <1>1 DEF Suspend, Becomes, state, Unborn, IInv, TypeOK
<1>. QED
  BY <1>2, <1>3, <1>4

LEMMA AwaitPostInv ==
  ASSUME IInv, NEW o \in Ops, AwaitPost(o)
  PROVE  IInv'
<1>. DEFINE x == Item("resume", o, "ok")
<1>1. x \in Items /\ x.op = o /\ x.what = "resume"
  BY ItemTypes DEF Results
<1>2. Suspend(o) /\ queue' = Append(queue, x) /\ pending' = pending /\ redirect' = redirect
  BY DEF AwaitPost
<1>. HIDE DEF x
<1>3. Alone(o) /\ fate[o] = "none"
  BY <1>2, RunningFacts DEF Suspend
<1>4. TypeOK'
  <2>1. queue' \in Seq(Items)
    BY <1>1, <1>2, Appended DEF IInv, TypeOK
  <2>2. pending' \subseteq Ops /\ redirect' \subseteq Ops
    BY <1>2 DEF IInv, TypeOK
  <2>. QED
    BY <1>2, <2>1, <2>2, SuspendTypes DEF IInv
<1>5. OthersStay(o)
  BY <1>2 DEF OthersStay, Suspend, Becomes, outcome, IInv, TypeOK
<1>6. frame'[o] = "suspended" /\ fate'[o] = "none"
  BY <1>2, <1>3 DEF Suspend, Becomes, outcome, IInv, TypeOK
<1>7. Places'
  BY <1>1, <1>2, <1>3, <1>5, <1>6, Adding DEF IInv, Places, Alone
<1>. QED
  BY <1>2, <1>4, <1>7, SuspendRest DEF IInv, Places

LEMMA AwaitWaitInv ==
  ASSUME IInv, NEW o \in Ops, NEW r \in BOOLEAN, AwaitWait(o, r)
  PROVE  IInv'
<1>1. Suspend(o) /\ queue' = queue /\ pending' = pending \cup {o}
  BY DEF AwaitWait
<1>2. Alone(o) /\ fate[o] = "none"
  BY <1>1, RunningFacts DEF Suspend
<1>3. TypeOK'
  BY <1>1, SuspendTypes DEF IInv, TypeOK, AwaitWait
<1>4. OthersStay(o)
  BY <1>1 DEF OthersStay, Suspend, Becomes, outcome, IInv, TypeOK
<1>5. frame'[o] = "suspended" /\ fate'[o] = "none"
  BY <1>1, <1>2 DEF Suspend, Becomes, outcome, IInv, TypeOK
<1>6. Places'
  BY <1>1, <1>2, <1>4, <1>5, Staying DEF IInv, Places, Alone
<1>. QED
  BY <1>1, <1>3, <1>6, SuspendRest DEF IInv, Places

LEMMA AwaitInlineInv ==
  ASSUME IInv, NEW o \in Ops, AwaitInline(o)
  PROVE  IInv'
<1>1. TypeOK'
  BY InlineTypes DEF IInv
<1>2. frame[o] = "running"
  BY RunningFacts DEF AwaitInline
<1>3. OneItem' /\ ItemsFit' /\ Kept' /\ NothingLeft' /\ Unborn'
  BY DEF IInv, OneItem, ItemsFit, Kept, Queued, NothingLeft, Unborn, AwaitInline,
         state, context
<1>4. SuspendedInside'
  BY <1>2 DEF IInv, SuspendedInside, AwaitInline, Running
<1>. QED
  BY <1>1, <1>3, <1>4 DEF IInv

\* What does not depend on how the coroutine ended.
LEMMA LeaveRest ==
  ASSUME IInv, NEW o \in Ops, Leave(o)
  PROVE  /\ NothingLeft' /\ Unborn'
         /\ early' \subseteq early \cup {o} /\ (o \in early' => o \in inlined) => SuspendedInside'
         /\ Alone(o) /\ fate[o] = "none" /\ frame'[o] = "gone"
         /\ \A p \in Ops \ {o} : frame'[p] = frame[p]
         /\ pending' = pending
<1>1. ~returned /\ frame[o] = "running" /\ Alone(o) /\ fate[o] = "none"
  BY RunningFacts DEF Leave
<1>2. NothingLeft'
  BY <1>1 DEF Leave, context, NothingLeft
<1>3. Unborn'
  BY <1>1 DEF Leave, Becomes, Unborn, IInv, TypeOK
<1>4. ASSUME early' \subseteq early \cup {o}, o \in early' => o \in inlined
      PROVE  SuspendedInside'
  BY <1>1, <1>4, TurnTypes DEF Leave, Becomes, SuspendedInside, IInv, TypeOK
<1>5. /\ frame'[o] = "gone" /\ \A p \in Ops \ {o} : frame'[p] = frame[p]
      /\ pending' = pending
  BY DEF Leave, Becomes, IInv, TypeOK
<1>. QED
  BY <1>1, <1>2, <1>3, <1>4, <1>5

\* The coroutine ends with an item in the queue that says how.
LEMMA LeavePosting ==
  ASSUME IInv, NEW o \in Ops, NEW w \in {"complete", "rethrow"}, Leave(o),
         queue' = Append(queue, Item(w, o, "none")), fate' = fate, early' = early
  PROVE  IInv'
<1>. DEFINE x == Item(w, o, "none")
<1>1. x \in Items /\ x.op = o /\ x.what # "resume"
  BY ItemTypes
<1>2. queue' = Append(queue, x) /\ queue \in Seq(Items)
  BY DEF IInv, TypeOK
<1>. HIDE DEF x
<1>3. TypeOK'
  <2>1. queue' \in Seq(Items)
    BY <1>1, <1>2, Appended
  <2>2. /\ fate' \in [Ops -> {"none", "completed", "threw", "dropped"}]
        /\ early' \subseteq Ops
    BY DEF IInv, TypeOK
  <2>. QED
    BY <2>1, <2>2, LeaveTypes DEF IInv
<1>4. OthersStay(o) /\ ~Queued(o) /\ o \notin pending' /\ frame'[o] = "gone" /\ fate'[o] = "none"
  BY LeaveRest DEF OthersStay, Alone, IInv, TypeOK
<1>5. Places'
  BY <1>1, <1>2, <1>4, Adding DEF IInv, Places
<1>6. SuspendedInside'
  BY LeaveRest DEF IInv, SuspendedInside
<1>. QED
  BY <1>3, <1>5, <1>6, LeaveRest DEF IInv, Places

LEMMA ReturnInv ==
  ASSUME IInv, NEW o \in Ops, Return(o)
  PROVE  IInv'
<1>1. Leave(o) /\ Complete(o)
  BY DEF Return
<1>2. CASE ~(o \in didSuspend /\ turn.within)
  BY <1>1, <1>2, LeavePosting DEF Complete, PostHandler
<1>3. CASE o \in didSuspend /\ turn.within
  <2>1. CallHandler(o)
    BY <1>1, <1>3 DEF Complete
  <2>2. /\ fate' = [fate EXCEPT ![o] = "completed"]
        /\ early' = IF turn.starting THEN early \cup {o} ELSE early
        /\ queue' = queue
    BY <2>1 DEF CallHandler
  <2>3. TypeOK'
    <3>1. fate' \in [Ops -> {"none", "completed", "threw", "dropped"}]
      BY <2>2 DEF IInv, TypeOK
    <3>2. early' \subseteq Ops /\ queue' \in Seq(Items)
      BY <2>2 DEF IInv, TypeOK
    <3>. QED
      BY <1>1, <3>1, <3>2, LeaveTypes DEF IInv
  <2>4. OthersStay(o)
    BY <1>1, <2>2, LeaveRest DEF OthersStay, IInv, TypeOK
  <2>5. /\ ~Queued(o) /\ o \notin pending'
        /\ frame'[o] = "gone" /\ fate'[o] = "completed"
    BY <1>1, <2>2, LeaveRest DEF Alone, IInv, TypeOK
  <2>6. Places'
    BY <2>2, <2>4, <2>5, Staying DEF IInv, Places
  <2>7. turn.op = o
    BY <1>1 DEF Leave, Running
  <2>8. early' \subseteq early \cup {o} /\ (o \in early' => o \in inlined)
    BY <1>3, <2>2, <2>7 DEF IInv, SuspendedInside
  <2>. QED
    BY <1>1, <2>3, <2>6, <2>8, LeaveRest DEF IInv, Places
<1>. QED
  BY <1>2, <1>3

LEMMA ThrowInv ==
  ASSUME IInv, NEW o \in Ops, Throw(o)
  PROVE  IInv'
BY LeavePosting DEF Throw

LEMMA RunInv ==
  ASSUME IInv, Run
  PROVE  IInv'
<1>. DEFINE i == Head(queue)
            o == i.op
<1>1. queue \in Seq(Items) /\ queue # << >>
  BY DEF Run, IInv, TypeOK
<1>2. i \in Items /\ 1 \in DOMAIN queue /\ i = queue[1]
  BY <1>1, Taken
<1>3. o \in Ops /\ i.what \in {"resume", "complete", "rethrow"}
  BY <1>2 DEF Items, Item
<1>4. /\ ~returned /\ returned' = returned /\ queue' = Tail(queue) /\ pending' = pending
      /\ filter' = filter /\ inlined' = inlined /\ turn = Nobody
  BY DEF Run, state, context, Idle
<1>5. TypeOK'
  BY RunTypes DEF IInv
<1>6. NothingLeft'
  BY <1>4 DEF NothingLeft
<1>7. CASE i.what = "resume"
  <2>1. Resume(o, i.ec)
    BY <1>7 DEF Run
  <2>2. frame[o] = "suspended" /\ fate[o] = "none"
    BY <1>2, <1>3, <1>7 DEF IInv, ItemsFit, Kept
  <2>. HIDE DEF i
  <2>3. /\ frame' = [frame EXCEPT ![o] = "running"]
        /\ turn' = [op |-> o, within |-> TRUE, starting |-> FALSE]
        /\ didSuspend' = didSuspend \cup {o} /\ fate' = fate /\ early' = early
    BY <2>1 DEF Resume, Becomes
  <2>4. OthersStay(o) /\ frame'[o] = "running" /\ fate'[o] = "none"
    BY <1>3, <1>4, <2>2, <2>3 DEF OthersStay, IInv, TypeOK
  <2>5. Places'
    BY <1>1, <1>4, <2>4, Taking DEF IInv, Places, i
  <2>6. SuspendedInside'
    BY <1>3, <1>4, <2>3 DEF SuspendedInside, IInv, TypeOK
  <2>7. Unborn'
    BY <1>3, <1>4, <2>3 DEF Unborn, IInv, TypeOK
  <2>. QED
    BY <1>5, <1>6, <2>5, <2>6, <2>7 DEF IInv, Places
<1>8. CASE i.what # "resume"
  <2>1. frame[o] = "gone"
    BY <1>2, <1>3, <1>8 DEF IInv, ItemsFit
  <2>2. /\ \E e \in {"completed", "threw"} : fate' = [fate EXCEPT ![o] = e]
        /\ frame' = frame /\ turn' = turn /\ didSuspend' = didSuspend /\ early' = early
    BY <1>3, <1>8 DEF Run
  <2>. HIDE DEF i
  <2>3. OthersStay(o) /\ frame'[o] = "gone" /\ fate'[o] # "none"
    BY <1>3, <1>4, <2>1, <2>2 DEF OthersStay, IInv, TypeOK
  <2>4. Places'
    BY <1>1, <1>4, <2>3, Taking DEF IInv, Places, i
  <2>5. SuspendedInside' /\ Unborn'
    BY <1>4, <2>2 DEF SuspendedInside, Unborn, IInv
  <2>. QED
    BY <1>5, <1>6, <2>4, <2>5 DEF IInv, Places
<1>. QED
  BY <1>7, <1>8

LEMMA RunReturnsInv ==
  ASSUME IInv, RunReturns
  PROVE  IInv'
<1>1. queue = << >> /\ \A o \in Ops : frame[o] \in {"none", "gone"}
  BY DEF RunReturns, Work, IInv, TypeOK
<1>2. NothingLeft'
  BY <1>1 DEF NothingLeft, RunReturns
<1>. QED
  BY <1>2
     DEF IInv, TypeOK, OneItem, ItemsFit, Kept, Queued, SuspendedInside, Unborn,
         RunReturns, state, inner, outcome

\* The awaited operation ends.
LEMMA FinishPlaces ==
  ASSUME IInv, NEW o \in Ops, o \in pending, NEW ec \in Results, Finish(o, ec),
         frame' = frame, fate' = fate
  PROVE  Places'
<1>. DEFINE x == Item("resume", o, ec)
<1>1. x \in Items /\ x.op = o /\ x.what = "resume"
  BY ItemTypes
<1>2. queue' = Append(queue, x) /\ pending' = pending \ {o}
  BY DEF Finish
<1>. HIDE DEF x
<1>3. ~Queued(o) /\ frame'[o] = "suspended" /\ fate'[o] = "none"
  BY DEF Queued, IInv, OneItem, ItemsFit, Kept
<1>4. OthersStay(o)
  BY <1>2 DEF OthersStay, IInv, TypeOK
<1>. QED
  BY <1>1, <1>2, <1>3, <1>4, Adding DEF IInv, Places

LEMMA FireInv ==
  ASSUME IInv, NEW o \in Ops, NEW ec \in {"ok", "error"}, Fire(o, ec)
  PROVE  IInv'
<1>1. TypeOK'
  BY FireTypes DEF IInv
<1>2. Places'
  BY FinishPlaces DEF Fire, Results, outcome
<1>3. ~returned
  BY DEF Fire, IInv, ItemsFit, NothingLeft
<1>4. NothingLeft' /\ SuspendedInside' /\ Unborn'
  BY <1>3 DEF Fire, IInv, NothingLeft, SuspendedInside, Unborn, outcome, context, state
<1>. QED
  BY <1>1, <1>2, <1>4 DEF IInv, Places

LEMMA EmitInv ==
  ASSUME IInv, NEW o \in Ops, NEW c \in Types, Emit(o, c)
  PROVE  IInv'
<1>1. TypeOK'
  BY EmitTypes DEF IInv
<1>2. ~returned
  BY DEF Emit, IInv, NothingLeft
<1>3. NothingLeft' /\ SuspendedInside' /\ Unborn'
  BY <1>2 DEF Emit, IInv, NothingLeft, SuspendedInside, Unborn, outcome, context
<1>4. frame' = frame /\ fate' = fate
  BY DEF Emit, outcome
<1>5. Places'
  <2>1. CASE o \in pending /\ Finish(o, "aborted")
    BY <1>4, <2>1, FinishPlaces DEF Results
  <2>2. CASE pending' = pending /\ queue' = queue
    BY <1>4, <2>2 DEF IInv, Places, OneItem, ItemsFit, Kept, Queued
  <2>. QED
    BY <2>1, <2>2 DEF Emit
<1>. QED
  BY <1>1, <1>3, <1>5 DEF IInv, Places

LEMMA ShutdownInv ==
  ASSUME IInv, Shutdown
  PROVE  IInv'
<1>1. TypeOK'
  BY ShutdownTypes DEF IInv
<1>2. /\ queue' = << >> /\ pending' = {} /\ turn = Nobody
      /\ \A o \in Ops :
           /\ frame'[o] = IF frame[o] = "suspended" THEN "gone" ELSE frame[o]
           /\ fate'[o] = IF frame[o] # "none" /\ fate[o] = "none" THEN "dropped" ELSE fate[o]
  BY DEF Shutdown, Idle, Outstanding
<1>3. \A o \in Ops : frame[o] # "running"
  BY <1>2, TurnTypes DEF IInv, TypeOK
<1>4. OneItem' /\ ItemsFit'
  BY <1>2 DEF OneItem, ItemsFit
<1>5. Kept'
  BY <1>2, <1>3 DEF Kept, IInv, TypeOK
<1>6. NothingLeft' /\ SuspendedInside' /\ Unborn'
  BY <1>2, <1>3 DEF NothingLeft, SuspendedInside, Unborn, IInv, TypeOK, Shutdown, state
<1>. QED
  BY <1>1, <1>4, <1>5, <1>6 DEF IInv

LEMMA NextInv == IInv /\ [Next]_vars => IInv'
<1>. SUFFICES ASSUME IInv, [Next]_vars
              PROVE  IInv'
  OBVIOUS
<1>1. CASE UNCHANGED vars
  BY <1>1 DEF IInv, TypeOK, OneItem, ItemsFit, Kept, Queued, NothingLeft, SuspendedInside,
             Unborn, vars, state, inner, context, outcome
<1>2. ASSUME NEW o \in Ops, Body(o)
      PROVE  IInv'
  BY <1>2, ResetInv, AwaitPostInv, AwaitInlineInv, AwaitWaitInv, ReturnInv, ThrowInv
     DEF Body
<1>3. CASE Next
  BY <1>2, <1>3, InitiateInv, FireInv, EmitInv, RunInv, RunReturnsInv, ShutdownInv DEF Next
<1>. QED
  BY <1>1, <1>3

-----------------------------------------------------------------------------
LEMMA Invariant == Spec => []IInv
<1>. QED
  BY InitInv, NextInv, PTL DEF Spec

\* The variables keep their types; a frame runs exactly when its coroutine has the
\* turn, and a remembered cancellation is one that the filter in force lets through.
THEOREM TypeCorrect == Spec => []TypeOK
<1>1. IInv => TypeOK
  BY DEF IInv
<1>. QED
  BY <1>1, Invariant, PTL

\* A suspended coroutine is owned by one handler, and no other by any.
THEOREM OneOwnerHolds == Spec => []OneOwner
<1>1. IInv => OneOwner
  <2>. SUFFICES ASSUME IInv, NEW o \in Ops
                PROVE  /\ frame[o] = "suspended" <=> o \in pending \/ Resumptions(o) # {}
                       /\ o \in pending => Resumptions(o) = {}
                       /\ \A i, j \in Resumptions(o) : i = j
    BY DEF OneOwner
  <2>1. \A i \in Resumptions(o) :
          i \in DOMAIN queue /\ queue[i].what = "resume" /\ queue[i].op = o
    BY DEF Resumptions
  <2>2. o \in pending \/ Resumptions(o) # {} => frame[o] = "suspended"
    BY <2>1 DEF IInv, ItemsFit
  <2>3. ASSUME frame[o] = "suspended", o \notin pending
        PROVE  Resumptions(o) # {}
    <3>1. PICK i \in DOMAIN queue : queue[i].op = o
      BY <2>3 DEF IInv, Kept, Queued
    <3>2. queue[i].what = "resume"
      BY <2>3, <3>1 DEF IInv, ItemsFit
    <3>. QED
      BY <3>1, <3>2 DEF Resumptions
  <2>4. o \in pending => Resumptions(o) = {}
    BY <2>1 DEF IInv, OneItem
  <2>5. \A i, j \in Resumptions(o) : i = j
    BY <2>1 DEF IInv, OneItem
  <2>. QED
    BY <2>2, <2>3, <2>4, <2>5
<1>. QED
  BY <1>1, Invariant, PTL

\* io_context::run returns only when every composed operation has ended.
THEOREM RunOutlivesHolds == Spec => []RunOutlivesOperations
<1>1. IInv => RunOutlivesOperations
  BY DEF IInv, NothingLeft, Kept, Queued, RunOutlivesOperations, Outstanding
<1>. QED
  BY <1>1, Invariant, PTL

\* No handler is called inside its initiating function, but for an operation that
\* awaited one which was.
THEOREM NotInsideHolds == Spec => []NotInsideInitiation
<1>1. IInv => NotInsideInitiation
  BY DEF IInv, SuspendedInside, NotInsideInitiation
<1>. QED
  BY <1>1, Invariant, PTL

-----------------------------------------------------------------------------
(***************************************************************************)
(* The coroutine is an asynchronous operation.                             *)
(***************************************************************************)
Initiated == {o \in Ops : frame[o] # "none"}

\* An operation that has not ended ends; whether it was initiated stays.
LEMMA Ends ==
  ASSUME NEW o \in Ops, frame[o] # "none", fate[o] = "none", NEW f \in {"completed", "threw"},
         fate' = [fate EXCEPT ![o] = f], Initiated' = Initiated
  PROVE  Operation!Next
<1>1. Operation!End(o, f)
  BY DEF Operation!End, Operation!Outstanding, Initiated
<1>. QED
  BY <1>1 DEF Operation!Next, Operation!Fates

LEMMA Stutters ==
  ASSUME fate' = fate, Initiated' = Initiated
  PROVE  UNCHANGED Operation!vars
BY DEF Operation!vars, Initiated

\* A step of a coroutine that was initiated, and that leaves the other frames.
LEMMA Stays ==
  ASSUME TypeOK, NEW o \in Ops, frame[o] # "none", NEW s \in {"running", "suspended", "gone"},
         Becomes(o, s)
  PROVE  Initiated' = Initiated
BY DEF TypeOK, Becomes, Initiated

LEMMA BodyImplements ==
  ASSUME IInv, NEW o \in Ops, Body(o)
  PROVE  [Operation!Next]_(Operation!vars)
<1>1. Running(o)
  BY DEF Body, Reset, AwaitPost, AwaitInline, AwaitWait, Suspend, Return, Throw, Leave
<1>2. frame[o] = "running" /\ fate[o] = "none" /\ TypeOK
  BY <1>1, RunningFacts DEF IInv
<1>3. ASSUME fate' = fate, frame' = frame \/ Becomes(o, "suspended") \/ Becomes(o, "gone")
      PROVE  UNCHANGED Operation!vars
  <2>1. Initiated' = Initiated
    BY <1>2, <1>3, Stays DEF Initiated
  <2>. QED
    BY <1>3, <2>1, Stutters
<1>4. CASE \E f, g \in Filters : Reset(o, f, g)
  BY <1>3, <1>4 DEF Reset, outcome
<1>5. CASE AwaitPost(o) \/ \E r \in BOOLEAN : AwaitWait(o, r)
  BY <1>3, <1>5 DEF AwaitPost, AwaitWait, Suspend, outcome
<1>6. CASE AwaitInline(o)
  BY <1>3, <1>6 DEF AwaitInline
<1>7. CASE Throw(o)
  BY <1>3, <1>7 DEF Throw, Leave
<1>8. CASE Return(o)
  <2>1. Becomes(o, "gone") /\ (CallHandler(o) \/ PostHandler(o))
    BY <1>8 DEF Return, Leave, Complete
  <2>2. CASE PostHandler(o)
    BY <1>3, <2>1, <2>2 DEF PostHandler
  <2>3. CASE CallHandler(o)
    BY <1>2, <2>1, <2>3, Stays, Ends DEF CallHandler
  <2>. QED
    BY <2>1, <2>2, <2>3
<1>. QED
  BY <1>4, <1>5, <1>6, <1>7, <1>8 DEF Body

LEMMA RunImplements ==
  ASSUME IInv, Run
  PROVE  [Operation!Next]_(Operation!vars)
<1>. DEFINE i == Head(queue)
            o == i.op
<1>1. queue \in Seq(Items) /\ queue # << >> /\ TypeOK
  BY DEF Run, IInv, TypeOK
<1>2. i \in Items /\ 1 \in DOMAIN queue /\ i = queue[1]
  BY <1>1, Taken
<1>3. o \in Ops /\ i.what \in {"resume", "complete", "rethrow"}
  BY <1>2 DEF Items, Item
<1>4. CASE i.what = "resume"
  <2>1. Resume(o, i.ec)
    BY <1>4 DEF Run
  <2>2. frame[o] = "suspended"
    BY <1>2, <1>3, <1>4 DEF IInv, ItemsFit
  <2>. HIDE DEF i
  <2>3. fate' = fate /\ Initiated' = Initiated
    BY <1>1, <1>3, <2>1, <2>2, Stays DEF Resume
  <2>. QED
    BY <2>3, Stutters
<1>5. CASE i.what # "resume"
  <2>1. frame[o] = "gone" /\ fate[o] = "none"
    BY <1>2, <1>3, <1>5 DEF IInv, ItemsFit
  <2>2. frame' = frame /\ \E f \in {"completed", "threw"} : fate' = [fate EXCEPT ![o] = f]
    BY <1>3, <1>5 DEF Run
  <2>. HIDE DEF i
  <2>3. Initiated' = Initiated
    BY <2>2 DEF Initiated
  <2>. QED
    BY <1>3, <2>1, <2>2, <2>3, Ends
<1>. QED
  BY <1>4, <1>5

LEMMA ShutdownImplements ==
  ASSUME IInv, Shutdown
  PROVE  Operation!Next
<1>1. Initiated' = Initiated
  BY DEF Shutdown, Initiated, IInv, TypeOK
<1>2. fate' = [o \in Ops |-> IF o \in Operation!Outstanding THEN "dropped" ELSE fate[o]]
  BY DEF Shutdown, Outstanding, Operation!Outstanding
<1>3. Operation!DropAll
  BY <1>1, <1>2 DEF Operation!DropAll, Initiated
<1>. QED
  BY <1>3 DEF Operation!Next

LEMMA StepImplements == IInv /\ [Next]_vars => [Operation!Next]_(Operation!vars)
<1>. SUFFICES ASSUME IInv, [Next]_vars
              PROVE  [Operation!Next]_(Operation!vars)
  OBVIOUS
<1>1. ASSUME fate' = fate, frame' = frame
      PROVE  UNCHANGED Operation!vars
  BY <1>1, Stutters DEF Initiated
<1>2. CASE UNCHANGED vars
  BY <1>1, <1>2 DEF vars, outcome
<1>3. ASSUME NEW o \in Ops, NEW within \in BOOLEAN, Initiate(o, within)
      PROVE  Operation!Next
  <2>1. Operation!Initiate(o)
    BY <1>3 DEF Operation!Initiate, Initiate, Becomes, outcome, IInv, TypeOK
  <2>. QED
    BY <2>1 DEF Operation!Next
<1>4. ASSUME NEW o \in Ops, NEW ec \in {"ok", "error"}, Fire(o, ec)
      PROVE  UNCHANGED Operation!vars
  BY <1>1, <1>4 DEF Fire, outcome
<1>5. ASSUME NEW o \in Ops, NEW c \in Types, Emit(o, c)
      PROVE  UNCHANGED Operation!vars
  BY <1>1, <1>5 DEF Emit, outcome
<1>6. CASE RunReturns
  BY <1>1, <1>6 DEF RunReturns, outcome
<1>7. CASE Next
  BY <1>3, <1>4, <1>5, <1>6, <1>7, BodyImplements, RunImplements, ShutdownImplements DEF Next
<1>. QED
  BY <1>2, <1>7

\* Every step of the coroutines is a step of asynchronous operations: initiated
\* once, and ended once.
THEOREM ComposeImplements == Spec => ImplementsAsyncOperation
<1>1. Init => Operation!Init
  BY DEF Init, Operation!Init
<1>. QED
  BY <1>1, StepImplements, Invariant, PTL DEF Spec, ImplementsAsyncOperation, Operation!Spec

-----------------------------------------------------------------------------
(***************************************************************************)
(* Cancellation.                                                           *)
(***************************************************************************)
\* A wait that was cancelled has ended, and the kind is one that was let through.
Told ==
  /\ \A o \in pending : told[o] = None
  /\ \A o \in Ops : frame[o] = "suspended" => told[o] \in (filter[o] \cap outFilter[o]) \cup {None}
  /\ \A i \in DOMAIN queue : queue[i].ec = "aborted" => told[queue[i].op] # None
  /\ \A o \in Ops :
       got[o].raw \in {"aborted", "error"} => frame[o] = "running" /\ Honoured(o)

\* The operations of o aside, what Told says stays.
OthersTold(o) ==
  /\ \A p \in Ops \ {o} :
       frame'[p] = frame[p] /\ told'[p] = told[p] /\ filter'[p] = filter[p]
       /\ outFilter'[p] = outFilter[p] /\ got'[p] = got[p]
  /\ pending' \subseteq pending \cup {o}

\* A step of a coroutine without items, after which it knows of no cancellation.
LEMMA TellsNothing ==
  ASSUME IInv, Told, NEW o \in Ops, Alone(o), OthersTold(o),
         NEW x \in Items, x.ec # "aborted", queue' = queue \/ queue' = Append(queue, x),
         told'[o] = None \/ (o \notin pending' /\ frame'[o] # "suspended"),
         got'[o].raw \notin {"aborted", "error"}
  PROVE  Told'
<1>1. queue \in Seq(Items) /\ pending \subseteq Ops
  BY DEF IInv, TypeOK
<1>2. \A i \in DOMAIN queue' :
        queue'[i].ec = "aborted" => i \in DOMAIN queue /\ queue'[i] = queue[i]
  BY <1>1, Appended
<1>3. \A i \in DOMAIN queue : queue[i].op \in Ops \ {o}
  BY <1>1 DEF Alone, Queued, Items, Item
<1>4. \A i \in DOMAIN queue' : queue'[i].ec = "aborted" => told'[queue'[i].op] # None
  BY <1>2, <1>3 DEF Told, OthersTold
<1>5. \A p \in pending' : told'[p] = None
  BY <1>1 DEF Told, OthersTold
<1>6. \A p \in Ops : frame'[p] = "suspended" => told'[p] \in (filter'[p] \cap outFilter'[p]) \cup {None}
  BY DEF Told, OthersTold
<1>7. \A p \in Ops :
        got'[p].raw \in {"aborted", "error"} => frame'[p] = "running" /\ Honoured(p)'
  BY DEF Told, OthersTold, Honoured
<1>. QED
  BY <1>4, <1>5, <1>6, <1>7 DEF Told

LEMMA BodyTold ==
  ASSUME IInv, Told, NEW o \in Ops, Body(o)
  PROVE  Told'
<1>1. Running(o)
  BY DEF Body, Reset, AwaitPost, AwaitInline, AwaitWait, Suspend, Return, Throw, Leave
<1>2. Alone(o) /\ TypeOK /\ frame[o] = "running"
  BY <1>1, RunningFacts DEF IInv
<1>3. /\ \A w \in {"complete", "rethrow"} :
           Item(w, o, "none") \in Items /\ Item(w, o, "none").ec # "aborted"
      /\ Item("resume", o, "ok") \in Items /\ Item("resume", o, "ok").ec # "aborted"
      /\ NoResult.raw \notin {"aborted", "error"}
  BY ItemTypes DEF Results, NoResult
<1>4. ASSUME NEW f \in Filters, NEW g \in Filters, Reset(o, f, g)
      PROVE  Told'
  <2>1. OthersTold(o) /\ got'[o].raw \notin {"aborted", "error"} /\ queue' = queue
    BY <1>2, <1>3, <1>4 DEF OthersTold, Reset, TypeOK
  <2>2. o \notin pending' /\ frame'[o] # "suspended"
    BY <1>2, <1>4 DEF Reset, Alone
  <2>. QED
    BY <1>2, <1>3, <2>1, <2>2, TellsNothing
<1>5. CASE AwaitPost(o)
  <2>1. OthersTold(o) /\ got'[o].raw \notin {"aborted", "error"} /\ told'[o] = None
    BY <1>2, <1>3, <1>5 DEF OthersTold, AwaitPost, Suspend, Becomes, state, TypeOK
  <2>2. queue' = Append(queue, Item("resume", o, "ok"))
    BY <1>5 DEF AwaitPost
  <2>. QED
    BY <1>2, <1>3, <2>1, <2>2, TellsNothing
<1>6. ASSUME NEW r \in BOOLEAN, AwaitWait(o, r)
      PROVE  Told'
  <2>1. OthersTold(o) /\ got'[o].raw \notin {"aborted", "error"} /\ told'[o] = None
    BY <1>2, <1>3, <1>6 DEF OthersTold, AwaitWait, Suspend, Becomes, state, TypeOK
  <2>2. queue' = queue
    BY <1>6 DEF AwaitWait
  <2>. QED
    BY <1>2, <1>3, <2>1, <2>2, TellsNothing
<1>7. CASE AwaitInline(o)
  <2>1. OthersTold(o) /\ got'[o].raw \notin {"aborted", "error"} /\ queue' = queue
    BY <1>2, <1>7 DEF OthersTold, AwaitInline, state, TypeOK
  <2>2. o \notin pending' /\ frame'[o] # "suspended"
    BY <1>2, <1>7 DEF AwaitInline, Alone
  <2>. QED
    BY <1>2, <1>3, <2>1, <2>2, TellsNothing
<1>8. CASE Return(o) \/ Throw(o)
  <2>1. Leave(o)
    BY <1>8 DEF Return, Throw
  <2>2. OthersTold(o) /\ got'[o].raw \notin {"aborted", "error"} /\ told'[o] = None
    BY <1>2, <1>3, <2>1 DEF OthersTold, Leave, Becomes, TypeOK
  <2>3. \/ queue' = queue
        \/ queue' = Append(queue, Item("complete", o, "none"))
        \/ queue' = Append(queue, Item("rethrow", o, "none"))
    BY <1>8 DEF Return, Throw, Complete, CallHandler, PostHandler
  <2>. QED
    BY <1>2, <1>3, <2>2, <2>3, TellsNothing
<1>. QED
  BY <1>4, <1>5, <1>6, <1>7, <1>8 DEF Body

LEMMA InitiateTold ==
  ASSUME IInv, Told, NEW o \in Ops, NEW within \in BOOLEAN, Initiate(o, within)
  PROVE  Told'
<1>1. Alone(o) /\ TypeOK /\ frame[o] = "none"
  BY RunsAlone DEF IInv, Initiate
<1>2. OthersTold(o) /\ got'[o].raw \notin {"aborted", "error"} /\ queue' = queue
  BY <1>1 DEF OthersTold, Initiate, Becomes, NewPromise, inner, Told, TypeOK
<1>3. o \notin pending' /\ frame'[o] # "suspended"
  BY <1>1 DEF Initiate, Becomes, inner, Alone, TypeOK
<1>4. Item("complete", o, "none") \in Items /\ Item("complete", o, "none").ec # "aborted"
  BY ItemTypes
<1>. QED
  BY <1>1, <1>2, <1>3, <1>4, TellsNothing

LEMMA RunTold ==
  ASSUME IInv, Told, Run
  PROVE  Told'
<1>. DEFINE i == Head(queue)
            o == i.op
<1>1. queue \in Seq(Items) /\ queue # << >> /\ TypeOK
  BY DEF Run, IInv, TypeOK
<1>2. i \in Items /\ 1 \in DOMAIN queue /\ i = queue[1]
  BY <1>1, Taken
<1>3. o \in Ops /\ i.what \in {"resume", "complete", "rethrow"}
  BY <1>2 DEF Items, Item
<1>4. /\ queue' = Tail(queue) /\ told' = told /\ pending' = pending
      /\ filter' = filter /\ outFilter' = outFilter
  BY DEF Run, state
<1>5. \A j \in DOMAIN queue' : queue'[j].ec = "aborted" => told'[queue'[j].op] # None
  BY <1>1, <1>4, Taken DEF Told
<1>6. CASE i.what = "resume"
  <2>1. Resume(o, i.ec)
    BY <1>6 DEF Run
  <2>2. frame[o] = "suspended" /\ told[o] \in (filter[o] \cap outFilter[o]) \cup {None}
    BY <1>2, <1>3, <1>6 DEF IInv, ItemsFit, Told
  <2>3. i.ec = "aborted" => told[o] # None
    BY <1>2 DEF Told
  <2>. HIDE DEF i
  <2>4. /\ got' = [got EXCEPT ![o] = Redirected(o, i.ec)]
        /\ frame' = [frame EXCEPT ![o] = "running"]
    BY <2>1 DEF Resume, Becomes
  <2>5. LET r == Redirected(o, i.ec) IN
          r.raw \in {"aborted", "error"} =>
            /\ r.raw = "aborted" => r.ec = "ok"
            /\ r.ec = "ok" => r.cnc \in filter[o] \cap outFilter[o]
    BY <2>2, <2>3 DEF Redirected
  <2>6. \A p \in Ops :
          got'[p].raw \in {"aborted", "error"} => frame'[p] = "running" /\ Honoured(p)'
    BY <1>1, <1>3, <1>4, <2>4, <2>5 DEF Told, Honoured, TypeOK
  <2>7. \A p \in Ops : frame'[p] = "suspended" => told'[p] \in (filter'[p] \cap outFilter'[p]) \cup {None}
    BY <1>1, <1>3, <1>4, <2>4 DEF Told, TypeOK
  <2>. QED
    BY <1>4, <1>5, <2>6, <2>7 DEF Told
<1>7. CASE i.what # "resume"
  <2>1. frame' = frame /\ got' = got
    BY <1>3, <1>7 DEF Run
  <2>. QED
    BY <1>4, <1>5, <2>1 DEF Told, Honoured
<1>. QED
  BY <1>6, <1>7

LEMMA FireTold ==
  ASSUME IInv, Told, NEW o \in Ops, NEW ec \in {"ok", "error"}, Fire(o, ec)
  PROVE  Told'
<1>. DEFINE x == Item("resume", o, ec)
<1>1. queue \in Seq(Items) /\ x \in Items /\ x.ec # "aborted"
  BY ItemTypes DEF IInv, TypeOK, Results
<1>2. queue' = Append(queue, x) /\ pending' = pending \ {o}
  BY DEF Fire, Finish
<1>. HIDE DEF x
<1>3. \A j \in DOMAIN queue' :
        queue'[j].ec = "aborted" => j \in DOMAIN queue /\ queue'[j] = queue[j]
  BY <1>1, <1>2, Appended
<1>. QED
  BY <1>2, <1>3 DEF Told, Honoured, Fire, state

LEMMA EmitTold ==
  ASSUME IInv, Told, NEW o \in Ops, NEW c \in Types, Emit(o, c)
  PROVE  Told'
<1>. DEFINE x == Item("resume", o, "aborted")
<1>1. queue \in Seq(Items) /\ x \in Items /\ x.op = o /\ TypeOK /\ pending \subseteq Ops
  BY ItemTypes DEF IInv, TypeOK, Results
<1>2. /\ frame' = frame /\ filter' = filter /\ outFilter' = outFilter
      /\ got' = got /\ c # None
  BY ComposeAssumption DEF Emit
<1>3. CASE c \notin filter[o] \cap outFilter[o]
  BY <1>2, <1>3 DEF Emit, Told, Honoured
<1>4. CASE c \in filter[o] \cap outFilter[o]
  <2>1. told' = [told EXCEPT ![o] = c]
    BY <1>4 DEF Emit
  <2>2. \A p \in Ops : told'[p] = IF p = o THEN c ELSE told[p]
    BY <1>1, <2>1 DEF TypeOK
  <2>3. \/ pending' = pending \ {o} /\ queue' = Append(queue, x)
        \/ o \notin pending /\ pending' = pending /\ queue' = queue
    BY <1>4 DEF Emit, Finish
  <2>. HIDE DEF x
  <2>4. \A p \in pending' : told'[p] = None
    BY <1>1, <2>2, <2>3 DEF Told
  <2>5. \A p \in Ops : frame'[p] = "suspended" => told'[p] \in (filter'[p] \cap outFilter'[p]) \cup {None}
    BY <1>2, <1>4, <2>2 DEF Told
  <2>6. \A j \in DOMAIN queue : queue[j].op \in Ops
    BY <1>1 DEF Items, Item
  <2>7. \A j \in DOMAIN queue : queue[j].ec = "aborted" => told'[queue[j].op] # None
    BY <1>2, <2>2, <2>6 DEF Told
  <2>8. \A j \in DOMAIN queue' :
          \/ j \in DOMAIN queue /\ queue'[j] = queue[j]
          \/ queue'[j] = x
    BY <1>1, <2>3, Appended
  <2>9. \A j \in DOMAIN queue' : queue'[j].ec = "aborted" => told'[queue'[j].op] # None
    BY <1>1, <1>2, <2>2, <2>7, <2>8
  <2>. QED
    BY <1>2, <2>4, <2>5, <2>9 DEF Told, Honoured
<1>. QED
  BY <1>3, <1>4

LEMMA ShutdownTold ==
  ASSUME IInv, Told, Shutdown
  PROVE  Told'
<1>1. /\ queue' = << >> /\ pending' = {} /\ told' = told /\ got' = got
      /\ filter' = filter /\ outFilter' = outFilter
      /\ \A o \in Ops :
           frame'[o] = IF frame[o] = "suspended" THEN "gone" ELSE frame[o]
  BY DEF Shutdown, state
<1>. QED
  BY <1>1 DEF Told, Honoured

LEMMA NextTold == IInv /\ Told /\ [Next]_vars => Told'
<1>. SUFFICES ASSUME IInv, Told, [Next]_vars
              PROVE  Told'
  OBVIOUS
<1>1. CASE UNCHANGED vars
  BY <1>1 DEF Told, Honoured, vars, state, inner
<1>2. CASE RunReturns
  BY <1>2 DEF Told, Honoured, RunReturns, state, inner
<1>3. CASE Next
  BY <1>2, <1>3, InitiateTold, BodyTold, FireTold, EmitTold, RunTold, ShutdownTold DEF Next
<1>. QED
  BY <1>1, <1>3

\* A cancellation that both filters let through ends the wait, and what a redirected
\* await reports of it is no error and a kind that both let through, however
\* signals, completions and resets interleave; no other error is hidden.
THEOREM CancellationHonouredHolds == Spec => []CancellationHonoured
<1>1. Init => Told
  BY DEF Init, Told, NoResult
<1>2. Told => CancellationHonoured
  BY DEF Told, CancellationHonoured, Honoured
<1>. QED
  BY <1>1, <1>2, NextTold, Invariant, PTL DEF Spec

-----------------------------------------------------------------------------
\* The safety part of EveryOperationEnds: an operation that has not ended runs, is
\* waited for or has an item in the queue, in whichever of the ways its coroutine was
\* resumed, thrown out of or completed (async.hpp:288-312).
THEOREM NoneForgotten ==
  Spec => [](\A o \in Outstanding : Running(o) \/ o \in pending \/ Queued(o))
<1>1. IInv => \A o \in Outstanding : Running(o) \/ o \in pending \/ Queued(o)
  <2>. SUFFICES ASSUME IInv, NEW o \in Ops, frame[o] # "none", fate[o] = "none"
                PROVE  Running(o) \/ o \in pending \/ Queued(o)
    BY DEF Outstanding
  <2>1. frame[o] \in {"running", "suspended", "gone"} /\ (frame[o] = "running" <=> turn.op = o)
    BY DEF IInv, TypeOK
  <2>. QED
    BY <2>1 DEF IInv, Kept, Running
<1>. QED
  BY <1>1, Invariant, PTL
=============================================================================
