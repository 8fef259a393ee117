---------------------------- MODULE CallDeskProofs ----------------------------
(***************************************************************************)
(* That the slots of both pools are neither lost nor doubled, and what      *)
(* _calls knows of the calls that are on, for any number of cases, tasks    *)
(* and slots.                                                               *)
(***************************************************************************)
EXTENDS CallDesk, FiniteSetTheorems, TLAPS

(* What the methods of a pool do to its fields.                             *)

Sound(p) == p \in Pool /\ p.woken <= Len(p.waiters)

LEMMA TakenFields ==
    ASSUME NEW p, Sound(p), ~Locked(p)
    PROVE  /\ Sound(Taken(p))
           /\ Taken(p).free = p.free - 1 /\ Taken(p).running = p.running + 1
           /\ Taken(p).waiters = <<>> /\ Taken(p).woken = 0
           /\ p.waiters = <<>> /\ p.woken = 0
<1>1. p.waiters = <<>> /\ p.woken = 0 /\ p.free \in Nat \ {0}
  <2>1. p.waiters = <<>> /\ p.free \in Nat \ {0} /\ p.woken \in Nat
    BY DEF Sound, Pool, Locked
  <2>2. Len(<<>>) = 0
    OBVIOUS
  <2> QED
    BY <2>1, <2>2 DEF Sound
<1>2. /\ Taken(p).free = p.free - 1 /\ Taken(p).running = p.running + 1
      /\ Taken(p).waiters = p.waiters /\ Taken(p).woken = p.woken
  BY DEF Taken, Sound, Pool
<1>3. p.free - 1 \in Nat /\ p.running + 1 \in Nat
  BY <1>1 DEF Sound, Pool
<1>4. Taken(p) \in Pool
  BY <1>3 DEF Taken, Sound, Pool
<1> QED
  BY <1>1, <1>2, <1>4 DEF Sound

LEMMA QueuedFields ==
    ASSUME NEW p, Sound(p), NEW t \in Task
    PROVE  /\ Sound(Queued(p, t))
           /\ Queued(p, t).free = p.free /\ Queued(p, t).running = p.running
           /\ Queued(p, t).waiters = Append(p.waiters, t) /\ Queued(p, t).woken = p.woken
<1>1. p.waiters \in Seq(Task) /\ p.woken \in Nat /\ p.woken <= Len(p.waiters)
  BY DEF Sound, Pool
<1>2. Append(p.waiters, t) \in Seq(Task) /\ p.woken <= Len(Append(p.waiters, t))
  BY <1>1
<1> QED
  BY <1>2 DEF Queued, Sound, Pool

\* Some n of the waiters are given a slot: all of them, or as many as k.
LEMMA WakeFields ==
    ASSUME NEW p, Sound(p), NEW k \in Nat, k <= p.free
    PROVE  /\ Sound(Wake(p, k))
           /\ Wake(p, k).running = p.running /\ Wake(p, k).waiters = p.waiters
           /\ \E n \in 0 .. k :
                 /\ Wake(p, k).free = p.free - n /\ Wake(p, k).woken = p.woken + n
                 /\ n = k \/ Wake(p, k).woken = Len(p.waiters)
<1>1. /\ p.waiters \in Seq(Task) /\ p.woken \in Nat /\ p.woken <= Len(p.waiters)
      /\ p.free \in Nat /\ p.running \in Nat /\ Len(p.waiters) \in Nat
  BY DEF Sound, Pool
<1> DEFINE n == IF k < Asleep(p) THEN k ELSE Asleep(p)
<1>2. n \in 0 .. k /\ n <= Asleep(p) /\ (n = k \/ n = Asleep(p))
  BY <1>1 DEF Asleep
<1>3. Wake(p, k) = [p EXCEPT !.free = @ - n, !.woken = @ + n]
  BY DEF Wake
<1> HIDE DEF n
<1>4. /\ Wake(p, k).free = p.free - n /\ Wake(p, k).woken = p.woken + n
      /\ Wake(p, k).running = p.running /\ Wake(p, k).waiters = p.waiters
  BY <1>3 DEF Sound, Pool
<1>5. /\ p.free - n \in Nat /\ p.woken + n \in Nat /\ p.woken + n <= Len(p.waiters)
      /\ n = k \/ p.woken + n = Len(p.waiters)
  BY <1>1, <1>2 DEF Asleep
<1>6. Wake(p, k) \in Pool
  BY <1>3, <1>5 DEF Sound, Pool
<1> QED
  BY <1>2, <1>4, <1>5, <1>6 DEF Sound

LEMMA ReleasedFields ==
    ASSUME NEW p, Sound(p), p.running > 0
    PROVE  /\ Sound(Released(p))
           /\ Released(p).running = p.running - 1 /\ Released(p).waiters = p.waiters
           /\ \E n \in 0 .. 1 :
                 /\ Released(p).free = p.free + 1 - n /\ Released(p).woken = p.woken + n
                 /\ n = 1 \/ Released(p).woken = Len(p.waiters)
<1> DEFINE q == [p EXCEPT !.free = @ + 1, !.running = @ - 1]
<1>1. /\ q.free = p.free + 1 /\ q.running = p.running - 1
      /\ q.waiters = p.waiters /\ q.woken = p.woken
  BY DEF Sound, Pool
<1>2. /\ p.free \in Nat /\ p.woken \in Nat
      /\ p.free + 1 \in Nat /\ p.running - 1 \in Nat /\ 1 <= p.free + 1
  BY DEF Sound, Pool
<1>3. q \in Pool
  BY <1>2 DEF Sound, Pool
<1>4. Sound(q) /\ 1 <= q.free
  BY <1>1, <1>2, <1>3 DEF Sound
<1>5. Released(p) = Wake(q, 1)
  BY DEF Released
<1> HIDE DEF q
<1>6. PICK n \in 0 .. 1 :
         /\ Released(p).free = q.free - n /\ Released(p).woken = q.woken + n
         /\ n = 1 \/ Released(p).woken = Len(q.waiters)
  BY <1>4, <1>5, WakeFields
<1>7. Sound(Released(p)) /\ Released(p).running = q.running /\ Released(p).waiters = q.waiters
  BY <1>4, <1>5, WakeFields
<1>8. Released(p).free = p.free + 1 - n /\ Released(p).woken = p.woken + n
  BY <1>1, <1>2, <1>6
<1> QED
  BY <1>1, <1>6, <1>7, <1>8

LEMMA ResumedFields ==
    ASSUME NEW p, Sound(p), p.woken > 0
    PROVE  /\ Sound(Resumed(p)) /\ p.waiters # <<>>
           /\ Resumed(p).running = p.running + 1 /\ Resumed(p).waiters = Tail(p.waiters)
           /\ \E n \in Nat :
                 /\ Resumed(p).free = p.free - n /\ Resumed(p).woken = p.woken - 1 + n
                 /\ Resumed(p).free = 0 \/ Resumed(p).woken = Len(p.waiters) - 1
<1> DEFINE q == [p EXCEPT !.waiters = Tail(@), !.woken = @ - 1, !.running = @ + 1]
<1>1. /\ p.waiters \in Seq(Task) /\ p.woken \in Nat /\ p.woken <= Len(p.waiters)
      /\ p.free \in Nat /\ p.running \in Nat
  BY DEF Sound, Pool
<1>2. /\ p.waiters # <<>> /\ Tail(p.waiters) \in Seq(Task)
      /\ Len(Tail(p.waiters)) = Len(p.waiters) - 1
  BY <1>1
<1>3. /\ q.free = p.free /\ q.running = p.running + 1
      /\ q.waiters = Tail(p.waiters) /\ q.woken = p.woken - 1
  BY DEF Sound, Pool
<1>4. q \in Pool
  <2>1. p.woken - 1 \in Nat /\ p.running + 1 \in Nat
    BY <1>1
  <2> QED
    BY <1>2, <2>1 DEF Sound, Pool
<1>5. Sound(q)
  <2>1. q.woken <= Len(q.waiters)
    BY <1>1, <1>2, <1>3
  <2> QED
    BY <1>4, <2>1 DEF Sound
<1> HIDE DEF q
<1>6. PICK k \in Nat : k = p.free /\ k <= q.free /\ Resumed(p) = Wake(q, k)
  <2>1. Resumed(p) = Wake(q, p.free)
    BY DEF Resumed, q
  <2>2. p.free <= q.free
    BY <1>1, <1>3
  <2> QED
    BY <1>1, <2>1, <2>2
<1>7. PICK n \in 0 .. k :
         /\ Resumed(p).free = q.free - n /\ Resumed(p).woken = q.woken + n
         /\ n = k \/ Resumed(p).woken = Len(q.waiters)
  <2>1. k <= q.free
    BY <1>6
  <2>2. \E n \in 0 .. k :
            /\ Wake(q, k).free = q.free - n /\ Wake(q, k).woken = q.woken + n
            /\ n = k \/ Wake(q, k).woken = Len(q.waiters)
    BY <1>5, <2>1, WakeFields, Zenon
  <2> QED
    BY <1>6, <2>2, Zenon
<1>8. Sound(Resumed(p)) /\ Resumed(p).running = q.running /\ Resumed(p).waiters = q.waiters
  BY <1>5, <1>6, WakeFields
<1>9. /\ Resumed(p).free = p.free - n /\ Resumed(p).woken = p.woken - 1 + n
      /\ Resumed(p).free = 0 \/ Resumed(p).woken = Len(p.waiters) - 1
  <2>1. Resumed(p).free = p.free - n /\ Resumed(p).woken = p.woken - 1 + n
    BY <1>1, <1>3, <1>6, <1>7
  <2>2. CASE n = k
    BY <1>1, <1>6, <2>1, <2>2
  <2>3. CASE Resumed(p).woken = Len(q.waiters)
    BY <1>2, <1>3, <2>1, <2>3
  <2> QED
    BY <1>7, <2>1, <2>2, <2>3
<1>10. n \in Nat
  OBVIOUS
<1>11. Resumed(p).running = p.running + 1 /\ Resumed(p).waiters = Tail(p.waiters)
  BY <1>3, <1>8
<1> QED
  BY <1>2, <1>8, <1>9, <1>10, <1>11

-----------------------------------------------------------------------------
(* Counting the holders of slots.                                           *)

LEMMA OneMore ==
    ASSUME NEW S, IsFiniteSet(S), NEW x, x \notin S
    PROVE  Cardinality(S \cup {x}) = Cardinality(S) + 1
BY FS_AddElement

LEMMA OneLess ==
    ASSUME NEW S, IsFiniteSet(S), NEW x, x \in S
    PROVE  Cardinality(S \ {x}) = Cardinality(S) - 1 /\ Cardinality(S) > 0
<1>1. IsFiniteSet(S \ {x}) /\ Cardinality(S \ {x}) = Cardinality(S) - 1
  BY FS_RemoveElement
<1>2. Cardinality(S) \in Nat /\ Cardinality(S \ {x}) \in Nat
  BY <1>1, FS_CardinalityType
<1> QED
  BY <1>1, <1>2

Callers == {o \in Offer : HoldsCall(o)}
Workers == {t \in Task : task[t].at = "working"}
Sleepers == {t \in Task : task[t].at = "queued"}

LEMMA FiniteHolders ==
    /\ IsFiniteSet(Callers) /\ Cardinality(Callers) \in Nat
    /\ IsFiniteSet(Workers) /\ Cardinality(Workers) \in Nat
<1>1. IsFiniteSet(Offer) /\ IsFiniteSet(Task)
  BY DeskAssumption, FS_Union DEF Task
<1>2. IsFiniteSet(Callers) /\ IsFiniteSet(Workers)
  BY <1>1, FS_Subset DEF Callers, Workers
<1> QED
  BY <1>2, FS_CardinalityType

-----------------------------------------------------------------------------
(* Types, but for the pools.                                                *)

TaskTypes ==
    /\ row \in [Case -> {"review", "call", "ended"}]
    /\ task \in [Task -> [at : Doing, case : Case \cup {None}]]
    /\ \A j \in Job : task[j].at \in {"idle", "queued", "working"}
    /\ \A t \in Task : task[t].at # "idle" => task[t].case \in Case
    /\ _calls \in [Case -> Offer \cup {None}]
    /\ crossed \subseteq Case

\* Only t moves on, to what it does from now on, for c.
Moves(t, at, c) ==
    /\ task'[t].at = at /\ task'[t].case = c
    /\ \A u \in Task \ {t} : task'[u] = task[u]

LEMMA MovesKeepTypes ==
    ASSUME TaskTypes, NEW t \in Task, NEW at \in Doing, NEW c \in Case \cup {None},
           task' = [task EXCEPT ![t] = [at |-> at, case |-> c]],
           at # "idle" => c \in Case,
           t \in Job => at \in {"idle", "queued", "working"}
    PROVE  /\ task' \in [Task -> [at : Doing, case : Case \cup {None}]]
           /\ \A j \in Job : task'[j].at \in {"idle", "queued", "working"}
           /\ \A u \in Task : task'[u].at # "idle" => task'[u].case \in Case
           /\ Moves(t, at, c)
BY DEF TaskTypes, Moves

LEMMA GoesOn ==
    ASSUME TaskTypes, NEW t \in Task, NEW at \in Doing, Goes(t, at)
    PROVE  task' = [task EXCEPT ![t] = [at |-> at, case |-> task[t].case]]
<1>1. [task[t] EXCEPT !.at = at] = [at |-> at, case |-> task[t].case]
  BY DEF TaskTypes
<1>2. task' = [task EXCEPT ![t] = [task[t] EXCEPT !.at = at]]
  BY DEF Goes
<1> QED
  BY <1>1, <1>2

\* What each action does to its task.
LEMMA LookMoves ==
    ASSUME TaskTypes, NEW o \in Offer, NEW c \in Case, Look(o, c)
    PROVE  TaskTypes' /\ Moves(o, "looked", c)
<1>1. o \in Task /\ o \notin Job /\ "looked" \in Doing
  BY DeskAssumption DEF Task, Doing
<1> QED
  BY <1>1, MovesKeepTypes DEF Look, TaskTypes

LEMMA BackToIdle ==
    ASSUME TaskTypes, NEW t \in Task, task' = [task EXCEPT ![t] = Idle]
    PROVE  /\ task' \in [Task -> [at : Doing, case : Case \cup {None}]]
           /\ \A j \in Job : task'[j].at \in {"idle", "queued", "working"}
           /\ \A u \in Task : task'[u].at # "idle" => task'[u].case \in Case
           /\ Moves(t, "idle", None)
BY MovesKeepTypes DEF Idle, Doing

LEMMA OfferGoesOn ==
    ASSUME TaskTypes, NEW o \in Offer, task[o].at # "idle",
           NEW at \in Doing, at # "idle", Goes(o, at)
    PROVE  /\ task' \in [Task -> [at : Doing, case : Case \cup {None}]]
           /\ \A j \in Job : task'[j].at \in {"idle", "queued", "working"}
           /\ \A u \in Task : task'[u].at # "idle" => task'[u].case \in Case
           /\ Moves(o, at, task[o].case)
<1>1. o \in Task /\ o \notin Job
  BY DeskAssumption DEF Task
<1>2. task[o].case \in Case
  BY <1>1 DEF TaskTypes
<1>3. task' = [task EXCEPT ![o] = [at |-> at, case |-> task[o].case]]
  BY <1>1, GoesOn
<1> QED
  BY <1>1, <1>2, <1>3, MovesKeepTypes

LEMMA OfferMoves ==
    ASSUME TaskTypes, NEW o \in Offer
    PROVE  /\ Refuse(o) => TaskTypes' /\ Moves(o, "idle", None)
           /\ Admit(o) => TaskTypes' /\ Moves(o, "handshake", task[o].case)
           /\ HandshakeFails(o) => TaskTypes' /\ Moves(o, "idle", None)
           /\ Connect(o) => TaskTypes' /\ Moves(o, "talking", task[o].case)
           /\ CallFails(o) => TaskTypes' /\ Moves(o, "idle", None)
<1>1. o \in Task
  BY DEF Task
<1>2. ASSUME Refuse(o) PROVE TaskTypes' /\ Moves(o, "idle", None)
  BY <1>1, <1>2, BackToIdle DEF Refuse, TaskTypes
<1>3. ASSUME Admit(o) PROVE TaskTypes' /\ Moves(o, "handshake", task[o].case)
  <2>1. task[o].case \in Case
    BY <1>1, <1>3 DEF TaskTypes, Admit
  <2> QED
    BY <1>3, <2>1, OfferGoesOn DEF Admit, TaskTypes, Doing
<1>4. ASSUME HandshakeFails(o) PROVE TaskTypes' /\ Moves(o, "idle", None)
  BY <1>1, <1>4, BackToIdle DEF HandshakeFails, TaskTypes
<1>5. ASSUME Connect(o) PROVE TaskTypes' /\ Moves(o, "talking", task[o].case)
  <2>1. _calls' \in [Case -> Offer \cup {None}]
    BY <1>5 DEF Connect, TaskTypes
  <2> QED
    BY <1>5, <2>1, OfferGoesOn DEF Connect, TaskTypes, Doing
<1>6. ASSUME CallFails(o) PROVE TaskTypes' /\ Moves(o, "idle", None)
  <2>1. _calls' \in [Case -> Offer \cup {None}]
    BY <1>6 DEF CallFails, Ends, EntryRemoved, TaskTypes
  <2> QED
    BY <1>1, <1>6, <2>1, BackToIdle DEF CallFails, Ends, TaskTypes
<1> QED
  BY <1>2, <1>3, <1>4, <1>5, <1>6

LEMMA EnterMoves ==
    ASSUME TaskTypes, NEW t \in Task, NEW c \in Case, Enter(t, c),
           UNCHANGED <<row, _calls, crossed>>
    PROVE  /\ TaskTypes'
           /\ \/ Locked(cases) /\ cases' = Queued(cases, t) /\ Moves(t, "queued", c)
              \/ ~Locked(cases) /\ cases' = Taken(cases) /\ Moves(t, "working", c)
<1>1. "queued" \in Doing /\ "working" \in Doing
  BY DEF Doing
<1>2. CASE Locked(cases)
  BY <1>1, <1>2, MovesKeepTypes DEF Enter, TaskTypes
<1>3. CASE ~Locked(cases)
  BY <1>1, <1>3, MovesKeepTypes DEF Enter, TaskTypes
<1> QED
  BY <1>2, <1>3

LEMMA GetsTurnMoves ==
    ASSUME TaskTypes, NEW t \in Task, task[t].at = "queued", GetsTurn(t)
    PROVE  TaskTypes' /\ Moves(t, "working", task[t].case)
<1>1. "working" \in Doing /\ task[t].case \in Case
  BY DEF Doing, TaskTypes
<1>2. task' = [task EXCEPT ![t] = [at |-> "working", case |-> task[t].case]]
  BY <1>1, GoesOn DEF GetsTurn
<1> QED
  BY <1>1, <1>2, MovesKeepTypes DEF GetsTurn, TaskTypes

LEMMA FinishMoves ==
    ASSUME TaskTypes, NEW t \in Task, Finish(t)
    PROVE  TaskTypes' /\ Moves(t, "idle", None)
<1>1. row' \in [Case -> {"review", "call", "ended"}]
  <2>1. PICK r \in Afterwards(t, row[task[t].case]) : row' = [row EXCEPT ![task[t].case] = r]
    BY DEF Finish
  <2>2. row[task[t].case] \in {"review", "call", "ended"}
    BY DEF TaskTypes, Finish
  <2>3. r \in {"review", "call", "ended"}
    BY <2>2 DEF Afterwards
  <2> QED
    BY <2>1, <2>3 DEF TaskTypes
<1>2. _calls' \in [Case -> Offer \cup {None}] /\ task' = [task EXCEPT ![t] = Idle]
  BY DEF Finish, Ends, EntryRemoved, TaskTypes
<1> QED
  BY <1>1, <1>2, BackToIdle DEF Finish, TaskTypes

-----------------------------------------------------------------------------
(* What _calls knows.                                                       *)

EntryInv == NoGhosts /\ OneCallUnlessCrossed

\* The offer goes on and _calls stays as it is: enough that the offer is on a
\* call, or on none, as before.
LEMMA EntriesStay ==
    ASSUME TaskTypes, EntryInv, NEW t \in Task, NEW at \in Doing, NEW c \in Case \cup {None},
           Moves(t, at, c), _calls' = _calls, crossed' = crossed,
           t \in Offer /\ (HoldsCall(t) \/ HoldsCall(t)') =>
              /\ c = task[t].case \/ at = "idle"
              /\ HoldsCall(t)' => HoldsCall(t)
              /\ OnCall(t)' <=> OnCall(t)
    PROVE  EntryInv'
<1>1. \A u \in Offer \ {t} : (HoldsCall(u)' <=> HoldsCall(u)) /\ (OnCall(u)' <=> OnCall(u))
  BY DEF HoldsCall, OnCall, Moves, Task
<1>2. NoGhosts'
  <2> SUFFICES ASSUME NEW d \in Case, _calls[d] # None
               PROVE  OnCall(_calls[d])' /\ task'[_calls[d]].case = d
    BY DEF NoGhosts, OnCall
  <2>1. _calls[d] \in Offer /\ OnCall(_calls[d]) /\ task[_calls[d]].case = d
    BY DEF EntryInv, NoGhosts, TaskTypes
  <2>2. CASE _calls[d] = t
    <3>1. HoldsCall(t) /\ OnCall(t) /\ t \in Offer
      BY <2>1, <2>2 DEF HoldsCall
    <3>2. OnCall(t)' /\ at # "idle"
      BY <3>1 DEF OnCall, Moves
    <3> QED
      BY <2>1, <2>2, <3>1, <3>2 DEF Moves
  <2>3. CASE _calls[d] # t
    BY <1>1, <2>1, <2>3 DEF Moves, Task
  <2> QED
    BY <2>2, <2>3
<1>3. OneCallUnlessCrossed'
  <2> SUFFICES ASSUME NEW d \in Case \ crossed, NEW o \in Offer,
                      task'[o].case = d, HoldsCall(o)'
               PROVE  /\ OnCall(o)' => _calls[d] = o
                      /\ \A p \in Offer \ {o} : task'[p].case = d => ~HoldsCall(p)'
    BY DEF OneCallUnlessCrossed, HoldsCall, OnCall
  <2>1. \A u \in Offer : HoldsCall(u)' =>
            HoldsCall(u) /\ task'[u].case = task[u].case /\ (OnCall(u)' <=> OnCall(u))
    <3> SUFFICES ASSUME NEW u \in Offer, HoldsCall(u)'
                 PROVE  HoldsCall(u) /\ task'[u].case = task[u].case /\ (OnCall(u)' <=> OnCall(u))
      OBVIOUS
    <3>1. CASE u = t
      BY <3>1 DEF Moves, HoldsCall, OnCall
    <3>2. CASE u # t
      BY <1>1, <3>2 DEF Moves, Task
    <3> QED
      BY <3>1, <3>2
  <2> QED
    BY <2>1 DEF EntryInv, OneCallUnlessCrossed
<1> QED
  BY <1>2, <1>3 DEF EntryInv

LEMMA AdmitKeepsEntries ==
    ASSUME TaskTypes, EntryInv, NEW o \in Offer, Admit(o)
    PROVE  EntryInv'
<1> DEFINE c == task[o].case
<1>1. /\ Moves(o, "handshake", c) /\ c \in Case /\ _calls' = _calls /\ _calls[c] = None
      /\ task[o].at = "looked" /\ o \in Task
      /\ crossed' = IF OthersShakeHands(o) THEN crossed \cup {c} ELSE crossed
  BY OfferMoves DEF Admit, Callable, TaskTypes, Task
<1>2. /\ ~HoldsCall(o) /\ ~OnCall(o)' /\ task'[o].case = c
      /\ \A u \in Offer \ {o} : /\ HoldsCall(u)' <=> HoldsCall(u)
                                /\ OnCall(u)' <=> OnCall(u)
                                /\ task'[u].case = task[u].case
  BY <1>1 DEF HoldsCall, OnCall, Moves, Task
<1>3. NoGhosts'
  <2> SUFFICES ASSUME NEW d \in Case, _calls[d] # None
               PROVE  OnCall(_calls[d])' /\ task'[_calls[d]].case = d
    BY <1>1 DEF NoGhosts, OnCall
  <2>1. _calls[d] \in Offer /\ OnCall(_calls[d]) /\ task[_calls[d]].case = d
    BY DEF EntryInv, NoGhosts, TaskTypes
  <2>2. _calls[d] # o
    BY <1>2, <2>1 DEF HoldsCall
  <2> QED
    BY <1>1, <1>2, <2>1, <2>2 DEF OnCall
<1>4. ASSUME c \notin crossed', NEW p \in Offer \ {o}, task[p].case = c PROVE ~HoldsCall(p)
  <2>1. c \notin crossed /\ task[p].at # "handshake"
    BY <1>1, <1>4 DEF OthersShakeHands
  <2>2. ~OnCall(p)
    <3>1. OnCall(p) => _calls[c] = p
      BY <1>1, <1>4, <2>1 DEF EntryInv, OneCallUnlessCrossed, HoldsCall
    <3> QED
      BY <1>1, <3>1, DeskAssumption
  <2> QED
    BY <2>1, <2>2 DEF HoldsCall
<1>5. OneCallUnlessCrossed'
  <2> SUFFICES ASSUME NEW d \in Case \ crossed', NEW q \in Offer, task'[q].case = d, HoldsCall(q)'
               PROVE  /\ OnCall(q)' => _calls'[d] = q
                      /\ \A p \in Offer \ {q} : task'[p].case = d => ~HoldsCall(p)'
    BY DEF OneCallUnlessCrossed, HoldsCall, OnCall
  <2>1. crossed \subseteq crossed'
    BY <1>1
  <2>2. CASE q = o
    BY <1>2, <1>4, <2>2
  <2>3. CASE q # o
    <3>1. HoldsCall(q) /\ task[q].case = d
      BY <1>2, <2>3
    <3>2. /\ OnCall(q) => _calls[d] = q
          /\ \A p \in Offer \ {q} : task[p].case = d => ~HoldsCall(p)
      BY <2>1, <3>1 DEF EntryInv, OneCallUnlessCrossed
    <3>3. d # c
      BY <1>4, <2>3, <3>1
    <3> QED
      BY <1>1, <1>2, <2>3, <3>2, <3>3
  <2> QED
    BY <2>2, <2>3
<1> QED
  BY <1>3, <1>5 DEF EntryInv

LEMMA ConnectKeepsEntries ==
    ASSUME TaskTypes, EntryInv, NEW o \in Offer, Connect(o)
    PROVE  EntryInv'
<1> DEFINE c == task[o].case
<1>1. /\ Moves(o, "talking", c) /\ c \in Case /\ crossed' = crossed /\ o \in Task
      /\ task[o].at = "handshake" /\ _calls' = [_calls EXCEPT ![c] = o]
      /\ o # None
  BY OfferMoves, DeskAssumption DEF Connect, TaskTypes, Task
<1>2. /\ HoldsCall(o) /\ ~OnCall(o) /\ task'[o].case = c /\ task'[o].at = "talking"
      /\ \A u \in Offer \ {o} : /\ HoldsCall(u)' <=> HoldsCall(u)
                                /\ OnCall(u)' <=> OnCall(u)
                                /\ task'[u] = task[u]
  BY <1>1 DEF HoldsCall, OnCall, Moves, Task
<1>3. /\ _calls'[c] = o
      /\ \A d \in Case \ {c} : _calls'[d] = _calls[d]
  BY <1>1 DEF TaskTypes
<1>4. NoGhosts'
  <2> SUFFICES ASSUME NEW d \in Case, _calls'[d] # None
               PROVE  OnCall(_calls[d])' /\ task'[_calls'[d]].case = d
    BY DEF NoGhosts
  <2>1. CASE d = c
    BY <1>2, <1>3, <2>1 DEF OnCall
  <2>2. CASE d # c
    <3>1. _calls[d] \in Offer /\ OnCall(_calls[d]) /\ task[_calls[d]].case = d
      BY <1>3, <2>2 DEF EntryInv, NoGhosts, TaskTypes
    <3>2. _calls[d] # o
      BY <1>2, <3>1
    <3> QED
      BY <1>2, <1>3, <2>2, <3>1, <3>2 DEF OnCall
  <2> QED
    BY <2>1, <2>2
<1>5. OneCallUnlessCrossed'
  <2> SUFFICES ASSUME NEW d \in Case \ crossed, NEW q \in Offer, task'[q].case = d, HoldsCall(q)'
               PROVE  /\ OnCall(q)' => _calls'[d] = q
                      /\ \A p \in Offer \ {q} : task'[p].case = d => ~HoldsCall(p)'
    BY <1>1 DEF OneCallUnlessCrossed, HoldsCall, OnCall
  <2>1. HoldsCall(q) /\ task[q].case = d
    BY <1>2
  <2>2. /\ OnCall(q) => _calls[d] = q
        /\ \A p \in Offer \ {q} : task[p].case = d => ~HoldsCall(p)
    BY <2>1 DEF EntryInv, OneCallUnlessCrossed
  <2>3. q # o => d # c
    BY <1>2, <2>2
  <2>4. OnCall(q)' => _calls'[d] = q
    BY <1>2, <1>3, <2>2, <2>3
  <2>5. \A p \in Offer \ {q} : task'[p].case = d => ~HoldsCall(p)'
    BY <1>2, <2>2
  <2> QED
    BY <2>4, <2>5
<1> QED
  BY <1>4, <1>5 DEF EntryInv

\* The end of a call leaves no entry for its case, and nobody else is on it.
LEMMA EndKeepsEntries ==
    ASSUME TaskTypes, EntryInv, NEW o \in Offer, OnCall(o), Ends(o), crossed' = crossed
    PROVE  EntryInv'
<1> DEFINE c == task[o].case
<1>1. /\ c \in Case /\ o \in Task /\ _calls' = [_calls EXCEPT ![c] = None]
      /\ task' = [task EXCEPT ![o] = Idle]
  BY DEF OnCall, Ends, EntryRemoved, TaskTypes, Task
<1>2. /\ HoldsCall(o) /\ ~HoldsCall(o)' /\ ~OnCall(o)'
      /\ \A u \in Offer \ {o} : /\ HoldsCall(u)' <=> HoldsCall(u)
                                /\ OnCall(u)' <=> OnCall(u)
                                /\ task'[u] = task[u]
  BY <1>1 DEF HoldsCall, OnCall, Idle, TaskTypes, Task
<1>3. /\ _calls'[c] = None
      /\ \A d \in Case \ {c} : _calls'[d] = _calls[d]
  BY <1>1 DEF TaskTypes
<1>4. NoGhosts'
  <2> SUFFICES ASSUME NEW d \in Case, _calls'[d] # None
               PROVE  OnCall(_calls[d])' /\ task'[_calls'[d]].case = d
    BY DEF NoGhosts
  <2>1. d # c /\ _calls'[d] = _calls[d]
    BY <1>3
  <2>2. _calls[d] \in Offer /\ OnCall(_calls[d]) /\ task[_calls[d]].case = d
    BY <2>1 DEF EntryInv, NoGhosts, TaskTypes
  <2> QED
    BY <1>2, <2>1, <2>2 DEF OnCall
<1>5. OneCallUnlessCrossed'
  <2> SUFFICES ASSUME NEW d \in Case \ crossed, NEW q \in Offer, task'[q].case = d, HoldsCall(q)'
               PROVE  /\ OnCall(q)' => _calls'[d] = q
                      /\ \A p \in Offer \ {q} : task'[p].case = d => ~HoldsCall(p)'
    BY DEF OneCallUnlessCrossed, HoldsCall, OnCall
  <2>1. q # o /\ HoldsCall(q) /\ task[q].case = d
    BY <1>2
  <2>2. /\ OnCall(q) => _calls[d] = q
        /\ \A p \in Offer \ {q} : task[p].case = d => ~HoldsCall(p)
    BY <2>1 DEF EntryInv, OneCallUnlessCrossed
  <2>3. d # c
    BY <1>2, <2>1, <2>2
  <2> QED
    BY <1>2, <1>3, <2>1, <2>2, <2>3
<1> QED
  BY <1>4, <1>5 DEF EntryInv

-----------------------------------------------------------------------------
(* The slots of CALLS.                                                      *)

CallInv == Sound(calls) /\ CallSlotsBalance

LEMMA CallSlotsStay ==
    ASSUME TaskTypes, CallInv, NEW t \in Task, NEW at \in Doing, NEW c, Moves(t, at, c),
           calls' = calls, t \in Offer => (HoldsCall(t)' <=> HoldsCall(t))
    PROVE  CallInv'
<1>1. \A o \in Offer : HoldsCall(o)' <=> HoldsCall(o)
  BY DEF Moves, HoldsCall, OnCall, Task
<1>2. {o \in Offer : HoldsCall(o)'} = {o \in Offer : HoldsCall(o)}
  BY <1>1
<1> QED
  BY <1>2 DEF CallInv, CallSlotsBalance, HoldsCall, OnCall

LEMMA SlotTaken ==
    ASSUME TaskTypes, CallInv, NEW o \in Offer, Admit(o)
    PROVE  CallInv'
<1>1. Moves(o, "handshake", task[o].case)
  BY OfferMoves
<1>2. /\ Sound(calls') /\ calls'.free = calls.free - 1 /\ calls'.running = calls.running + 1
      /\ calls'.waiters = <<>> /\ calls'.woken = 0
  BY TakenFields DEF CallInv, Admit, Callable
<1>3. o \notin Callers /\ Callers' = Callers \cup {o}
  BY <1>1 DEF Callers, HoldsCall, OnCall, Moves, Admit, Task
<1>4. Cardinality(Callers') = Cardinality(Callers) + 1
  BY <1>3, OneMore, FiniteHolders
<1>5. /\ calls.free + Cardinality(Callers) = CallLimit /\ calls.running + calls.free = CallLimit
      /\ calls.free \in Nat /\ calls.running \in Nat /\ Cardinality(Callers) \in Nat
  BY FiniteHolders DEF CallInv, CallSlotsBalance, Callers, Sound, Pool
<1>6. /\ calls'.free + Cardinality(Callers') = CallLimit
      /\ calls'.running + calls'.free = CallLimit
  BY <1>2, <1>4, <1>5
<1> QED
  BY <1>2, <1>6 DEF CallInv, CallSlotsBalance, Callers, Sound, Pool

LEMMA SlotReleased ==
    ASSUME TaskTypes, CallInv, NEW o \in Offer, HoldsCall(o), Moves(o, "idle", None),
           calls' = Released(calls)
    PROVE  CallInv'
<1>1. o \in Callers /\ Callers' = Callers \ {o}
  BY DEF Callers, HoldsCall, OnCall, Moves, Task
<1>2. Cardinality(Callers') = Cardinality(Callers) - 1 /\ Cardinality(Callers) > 0
  BY <1>1, OneLess, FiniteHolders
<1>3. /\ calls.free + Cardinality(Callers) = CallLimit /\ calls.running + calls.free = CallLimit
      /\ calls.free \in Nat /\ calls.running \in Nat /\ Cardinality(Callers) \in Nat
      /\ Sound(calls) /\ calls.waiters = <<>> /\ calls.woken = 0
  BY FiniteHolders DEF CallInv, CallSlotsBalance, Callers, Sound, Pool
<1>4. calls.running > 0
  BY <1>2, <1>3
<1>5. PICK n \in 0 .. 1 : calls'.free = calls.free + 1 - n /\ calls'.woken = calls.woken + n
  BY <1>3, <1>4, ReleasedFields
<1>6. /\ Sound(calls') /\ calls'.running = calls.running - 1 /\ calls'.waiters = <<>>
  BY <1>3, <1>4, ReleasedFields
<1>7. n = 0
  <2>1. calls'.woken <= 0
    BY <1>6 DEF Sound
  <2> QED
    BY <1>3, <1>5, <2>1
<1>8. /\ calls'.free + Cardinality(Callers') = CallLimit
      /\ calls'.running + calls'.free = CallLimit /\ calls'.woken = 0
  BY <1>2, <1>3, <1>5, <1>6, <1>7
<1> QED
  BY <1>6, <1>8 DEF CallInv, CallSlotsBalance, Callers

-----------------------------------------------------------------------------
(* The slots of CASES.                                                      *)

\* Nobody waits twice.
WaitsOnce(s) == \A i, j \in DOMAIN s : s[i] = s[j] => i = j

CaseInv == Sound(cases) /\ CaseSlotsBalance /\ WaitsOnce(cases.waiters)

LEMMA CaseSlotsStay ==
    ASSUME TaskTypes, CaseInv, NEW t \in Task, NEW at, NEW c, Moves(t, at, c), cases' = cases,
           at \notin {"working", "queued"}, task[t].at \notin {"working", "queued"}
    PROVE  CaseInv'
<1>1. Workers' = Workers /\ Sleepers' = Sleepers
  BY DEF Workers, Sleepers, Moves
<1> QED
  BY <1>1 DEF CaseInv, CaseSlotsBalance, Workers, Sleepers

LEMMA AppendRange ==
    ASSUME NEW s \in Seq(Task), NEW t \in Task, WaitsOnce(s), t \notin Range(s)
    PROVE  Range(Append(s, t)) = Range(s) \cup {t} /\ WaitsOnce(Append(s, t))
<1>1. /\ DOMAIN s = 1 .. Len(s) /\ Len(s) \in Nat
      /\ DOMAIN Append(s, t) = 1 .. Len(s) + 1
      /\ \A i \in 1 .. Len(s) : Append(s, t)[i] = s[i]
      /\ Append(s, t)[Len(s) + 1] = t
  OBVIOUS
<1>2. Range(Append(s, t)) = Range(s) \cup {t}
  <2>1. \A x \in Range(Append(s, t)) : x \in Range(s) \cup {t}
    BY <1>1 DEF Range
  <2>2. \A x \in Range(s) \cup {t} : x \in Range(Append(s, t))
    BY <1>1 DEF Range
  <2> QED
    BY <2>1, <2>2
<1>3. WaitsOnce(Append(s, t))
  BY <1>1 DEF WaitsOnce, Range
<1> QED
  BY <1>2, <1>3

LEMMA TailRange ==
    ASSUME NEW s \in Seq(Task), s # <<>>, WaitsOnce(s)
    PROVE  Range(Tail(s)) = Range(s) \ {Head(s)} /\ WaitsOnce(Tail(s)) /\ Head(s) \in Range(s)
<1>1. /\ DOMAIN s = 1 .. Len(s) /\ Len(s) \in Nat \ {0} /\ Head(s) = s[1]
      /\ DOMAIN Tail(s) = 1 .. Len(s) - 1
      /\ \A i \in 1 .. Len(s) - 1 : Tail(s)[i] = s[i + 1]
  OBVIOUS
<1>2. Range(Tail(s)) = Range(s) \ {Head(s)}
  <2>1. \A x \in Range(Tail(s)) : x \in Range(s) \ {Head(s)}
    BY <1>1 DEF Range, WaitsOnce
  <2>2. ASSUME NEW x \in Range(s) \ {Head(s)} PROVE x \in Range(Tail(s))
    <3>1. PICK i \in 1 .. Len(s) : x = s[i]
      BY <1>1 DEF Range
    <3>2. i - 1 \in 1 .. Len(s) - 1 /\ Tail(s)[i - 1] = x
      BY <1>1, <2>2, <3>1
    <3> QED
      BY <1>1, <3>2 DEF Range
  <2> QED
    BY <2>1, <2>2
<1>3. WaitsOnce(Tail(s))
  BY <1>1 DEF WaitsOnce
<1>4. Head(s) \in Range(s)
  BY <1>1 DEF Range
<1> QED
  BY <1>2, <1>3, <1>4

LEMMA CaseCounts ==
    ASSUME CaseInv
    PROVE  /\ Sound(cases) /\ cases.running = Cardinality(Workers)
           /\ cases.free + cases.running + cases.woken = CaseLimit
           /\ cases.woken < Len(cases.waiters) => cases.free = 0 \/ cases.woken > 0
           /\ Sleepers = Range(cases.waiters) /\ WaitsOnce(cases.waiters)
           /\ cases.free \in Nat /\ cases.running \in Nat /\ cases.woken \in Nat
           /\ cases.waiters \in Seq(Task) /\ Len(cases.waiters) \in Nat
           /\ cases.woken <= Len(cases.waiters)
BY DEF CaseInv, CaseSlotsBalance, Sound, Pool, Workers, Sleepers

LEMMA QueueKeepsSlots ==
    ASSUME TaskTypes, CaseInv, NEW t \in Task, task[t].at \notin {"queued", "working"},
           Locked(cases), cases' = Queued(cases, t), NEW c, Moves(t, "queued", c)
    PROVE  CaseInv'
<1>1. /\ Sound(cases') /\ cases'.free = cases.free /\ cases'.running = cases.running
      /\ cases'.waiters = Append(cases.waiters, t) /\ cases'.woken = cases.woken
  BY CaseCounts, QueuedFields
<1>2. Workers' = Workers /\ Sleepers' = Sleepers \cup {t} /\ t \notin Sleepers
  BY DEF Workers, Sleepers, Moves
<1>3. Range(cases'.waiters) = Sleepers' /\ WaitsOnce(cases'.waiters)
  BY <1>1, <1>2, CaseCounts, AppendRange
<1>4. cases'.free = 0 \/ cases'.woken > 0
  <2>1. CASE cases.waiters = <<>>
    BY <1>1, <2>1 DEF Locked
  <2>2. CASE cases.waiters # <<>>
    <3>1. Len(cases.waiters) > 0
      BY <2>2, CaseCounts
    <3> QED
      BY <1>1, <3>1, CaseCounts
  <2> QED
    BY <2>1, <2>2
<1>5. /\ cases'.running = Cardinality(Workers')
      /\ cases'.free + cases'.running + cases'.woken = CaseLimit
  BY <1>1, <1>2, CaseCounts
<1> QED
  BY <1>1, <1>3, <1>4, <1>5 DEF CaseInv, CaseSlotsBalance, Workers, Sleepers

LEMMA TakeKeepsSlots ==
    ASSUME TaskTypes, CaseInv, NEW t \in Task, task[t].at \notin {"queued", "working"},
           ~Locked(cases), cases' = Taken(cases), NEW c, Moves(t, "working", c)
    PROVE  CaseInv'
<1>1. /\ Sound(cases') /\ cases'.free = cases.free - 1 /\ cases'.running = cases.running + 1
      /\ cases'.waiters = <<>> /\ cases'.woken = 0
      /\ cases.waiters = <<>> /\ cases.woken = 0
  BY CaseCounts, TakenFields
<1>2. Workers' = Workers \cup {t} /\ Sleepers' = Sleepers /\ t \notin Workers
  BY DEF Workers, Sleepers, Moves
<1>3. Cardinality(Workers') = Cardinality(Workers) + 1
  BY <1>2, OneMore, FiniteHolders
<1>4. /\ cases'.running = Cardinality(Workers')
      /\ cases'.free + cases'.running + cases'.woken = CaseLimit
  BY <1>1, <1>3, CaseCounts
<1>5. Len(cases'.waiters) = 0 /\ Sleepers' = Range(cases'.waiters) /\ WaitsOnce(cases'.waiters)
  BY <1>1, <1>2, CaseCounts
<1> QED
  BY <1>1, <1>4, <1>5 DEF CaseInv, CaseSlotsBalance, Workers, Sleepers

LEMMA TurnKeepsSlots ==
    ASSUME TaskTypes, CaseInv, NEW t \in Task, GetsTurn(t)
    PROVE  task[t].at = "queued" /\ CaseInv'
<1>1. PICK n \in Nat :
         /\ cases'.free = cases.free - n /\ cases'.woken = cases.woken - 1 + n
         /\ cases'.free = 0 \/ cases'.woken = Len(cases.waiters) - 1
  BY CaseCounts, ResumedFields DEF GetsTurn
<1>2. /\ Sound(cases') /\ cases.waiters # <<>> /\ t = Head(cases.waiters)
      /\ cases'.running = cases.running + 1 /\ cases'.waiters = Tail(cases.waiters)
  BY CaseCounts, ResumedFields DEF GetsTurn
<1>3. /\ Range(cases'.waiters) = Sleepers \ {t} /\ WaitsOnce(cases'.waiters) /\ t \in Sleepers
      /\ Len(cases'.waiters) = Len(cases.waiters) - 1
  BY <1>2, CaseCounts, TailRange
<1>4. task[t].at = "queued"
  BY <1>3 DEF Sleepers
<1>5. Moves(t, "working", task[t].case)
  BY <1>4, GetsTurnMoves
<1>6. Workers' = Workers \cup {t} /\ Sleepers' = Sleepers \ {t} /\ t \notin Workers
  BY <1>4, <1>5 DEF Workers, Sleepers, Moves
<1>7. Cardinality(Workers') = Cardinality(Workers) + 1
  BY <1>6, OneMore, FiniteHolders
<1>8. /\ cases'.running = Cardinality(Workers')
      /\ cases'.free + cases'.running + cases'.woken = CaseLimit
  <2>1. /\ cases.free \in Nat /\ cases.running \in Nat /\ cases.woken \in Nat
        /\ cases.free + cases.running + cases.woken = CaseLimit
        /\ cases.running = Cardinality(Workers)
    BY CaseCounts
  <2>2. cases'.running = Cardinality(Workers')
    BY <1>2, <1>7, <2>1
  <2>3. cases'.free + cases'.running + cases'.woken = cases.free + cases.running + cases.woken
    <3>1. cases'.free = cases.free - n /\ cases'.woken = cases.woken - 1 + n
      BY <1>1
    <3>2. cases'.running = cases.running + 1
      BY <1>2
    <3> QED
      BY <2>1, <3>1, <3>2
  <2> QED
    BY <2>1, <2>2, <2>3
<1>9. cases'.woken < Len(cases'.waiters) => cases'.free = 0 \/ cases'.woken > 0
  BY <1>1, <1>3, CaseCounts
<1>10. Sleepers' = Range(cases'.waiters)
  BY <1>3, <1>6
<1> QED
  BY <1>2, <1>3, <1>4, <1>8, <1>9, <1>10 DEF CaseInv, CaseSlotsBalance, Workers, Sleepers

LEMMA ReleaseKeepsSlots ==
    ASSUME TaskTypes, CaseInv, NEW t \in Task, task[t].at = "working",
           cases' = Released(cases), Moves(t, "idle", None)
    PROVE  CaseInv'
<1>1. Workers' = Workers \ {t} /\ Sleepers' = Sleepers /\ t \in Workers
  BY DEF Workers, Sleepers, Moves
<1>2. Cardinality(Workers') = Cardinality(Workers) - 1 /\ cases.running > 0
  BY <1>1, OneLess, FiniteHolders, CaseCounts
<1>3. PICK n \in 0 .. 1 :
         /\ cases'.free = cases.free + 1 - n /\ cases'.woken = cases.woken + n
         /\ n = 1 \/ cases'.woken = Len(cases.waiters)
  BY <1>2, CaseCounts, ReleasedFields
<1>4. Sound(cases') /\ cases'.running = cases.running - 1 /\ cases'.waiters = cases.waiters
  BY <1>2, CaseCounts, ReleasedFields
<1>5. /\ cases'.running = Cardinality(Workers')
      /\ cases'.free + cases'.running + cases'.woken = CaseLimit
  BY <1>2, <1>3, <1>4, CaseCounts
<1>6. cases'.woken < Len(cases'.waiters) => cases'.woken > 0
  BY <1>3, <1>4, CaseCounts
<1>7. Sleepers' = Range(cases'.waiters) /\ WaitsOnce(cases'.waiters)
  BY <1>1, <1>4, CaseCounts
<1> QED
  BY <1>4, <1>5, <1>6, <1>7 DEF CaseInv, CaseSlotsBalance, Workers, Sleepers

-----------------------------------------------------------------------------
(* The desk as a whole.                                                     *)

DeskInv == TaskTypes /\ EntryInv /\ CallInv /\ CaseInv

LEMMA OfferKeeps ==
    ASSUME DeskInv, NEW o \in Offer, Progress(o)
    PROVE  DeskInv'
<1> USE DEF DeskInv
<1>0. o \in Task /\ o \notin Job
  BY DeskAssumption DEF Task
<1> DEFINE c == task[o].case
<1>1. CASE Refuse(o)
  <2>1. /\ TaskTypes' /\ Moves(o, "idle", None) /\ "idle" \in Doing /\ task[o].at = "looked"
        /\ UNCHANGED <<_calls, calls, cases, crossed>>
    BY <1>1, OfferMoves DEF Refuse, Doing
  <2>2. ~HoldsCall(o) /\ ~HoldsCall(o)'
    BY <2>1 DEF HoldsCall, OnCall, Moves
  <2>3. EntryInv'
    BY <1>0, <2>1, <2>2, EntriesStay
  <2>4. CallInv'
    BY <1>0, <2>1, <2>2, CallSlotsStay
  <2>5. CaseInv'
    BY <1>0, <2>1, CaseSlotsStay
  <2> QED
    BY <2>1, <2>3, <2>4, <2>5
<1>2. CASE Admit(o)
  <2>1. /\ TaskTypes' /\ Moves(o, "handshake", c) /\ task[o].at = "looked" /\ cases' = cases
    BY <1>2, OfferMoves DEF Admit
  <2>2. CaseInv'
    BY <1>0, <2>1, CaseSlotsStay
  <2> QED
    BY <1>2, <2>1, <2>2, AdmitKeepsEntries, SlotTaken
<1>3. CASE HandshakeFails(o)
  <2>1. /\ TaskTypes' /\ Moves(o, "idle", None) /\ "idle" \in Doing /\ task[o].at = "handshake"
        /\ UNCHANGED <<_calls, cases, crossed>> /\ calls' = Released(calls)
    BY <1>3, OfferMoves DEF HandshakeFails, SlotBack, Doing
  <2>2. HoldsCall(o) /\ ~HoldsCall(o)' /\ ~OnCall(o) /\ ~OnCall(o)'
    BY <2>1 DEF HoldsCall, OnCall, Moves
  <2>3. EntryInv'
    BY <1>0, <2>1, <2>2, EntriesStay
  <2>4. CallInv'
    BY <2>1, <2>2, SlotReleased
  <2>5. CaseInv'
    BY <1>0, <2>1, CaseSlotsStay
  <2> QED
    BY <2>1, <2>3, <2>4, <2>5
<1>4. CASE Connect(o)
  <2>1. /\ TaskTypes' /\ Moves(o, "talking", c) /\ task[o].at = "handshake"
        /\ UNCHANGED <<calls, cases>> /\ "talking" \in Doing
    BY <1>4, OfferMoves DEF Connect, Doing
  <2>2. HoldsCall(o) /\ HoldsCall(o)'
    BY <2>1 DEF HoldsCall, OnCall, Moves
  <2>3. CallInv'
    BY <1>0, <2>1, <2>2, CallSlotsStay
  <2>4. CaseInv'
    BY <1>0, <2>1, CaseSlotsStay
  <2> QED
    BY <1>4, <2>1, <2>3, <2>4, ConnectKeepsEntries
<1>5. CASE CallFails(o)
  <2>1. /\ TaskTypes' /\ Moves(o, "idle", None) /\ task[o].at = "talking"
        /\ Ends(o) /\ calls' = Released(calls) /\ UNCHANGED <<cases, crossed>>
    BY <1>5, OfferMoves DEF CallFails, Ends
  <2>2. OnCall(o) /\ HoldsCall(o)
    BY <2>1 DEF HoldsCall, OnCall
  <2>3. EntryInv'
    BY <2>1, <2>2, EndKeepsEntries
  <2>4. CallInv'
    BY <2>1, <2>2, SlotReleased
  <2>5. CaseInv'
    BY <1>0, <2>1, CaseSlotsStay
  <2> QED
    BY <2>1, <2>3, <2>4, <2>5
<1>6. CASE HangUp(o)
  <2>1. /\ task[o].at = "talking" /\ c \in Case /\ Enter(o, c)
        /\ UNCHANGED <<row, _calls, calls, crossed>>
    BY <1>0, <1>6 DEF HangUp, TaskTypes
  <2>2. PICK at \in {"queued", "working"} :
           /\ Moves(o, at, c)
           /\ \/ at = "queued" /\ Locked(cases) /\ cases' = Queued(cases, o)
              \/ at = "working" /\ ~Locked(cases) /\ cases' = Taken(cases)
    BY <1>0, <2>1, EnterMoves
  <2>3. TaskTypes' /\ at \in Doing
    BY <1>0, <2>1, EnterMoves DEF Doing
  <2>4. HoldsCall(o) /\ HoldsCall(o)' /\ OnCall(o) /\ OnCall(o)'
    BY <2>1, <2>2 DEF HoldsCall, OnCall, Moves
  <2>5. EntryInv'
    BY <1>0, <2>1, <2>2, <2>3, <2>4, EntriesStay
  <2>6. CallInv'
    BY <1>0, <2>1, <2>2, <2>3, <2>4, CallSlotsStay
  <2>7. CaseInv'
    BY <1>0, <2>1, <2>2, QueueKeepsSlots, TakeKeepsSlots
  <2> QED
    BY <2>3, <2>5, <2>6, <2>7
<1> QED
  BY <1>1, <1>2, <1>3, <1>4, <1>5, <1>6 DEF Progress

LEMMA RunKeeps ==
    ASSUME DeskInv, NEW t \in Task, GetsTurn(t) \/ Finish(t)
    PROVE  DeskInv'
<1> USE DEF DeskInv
<1>1. CASE GetsTurn(t)
  <2>1. /\ task[t].at = "queued" /\ CaseInv' /\ "working" \in Doing
        /\ UNCHANGED <<_calls, calls, crossed>>
    BY <1>1, TurnKeepsSlots DEF GetsTurn, Doing
  <2>2. TaskTypes' /\ Moves(t, "working", task[t].case) /\ task[t].case \in Case
    BY <1>1, <2>1, GetsTurnMoves DEF TaskTypes
  <2>3. HoldsCall(t) /\ HoldsCall(t)' /\ OnCall(t) /\ OnCall(t)'
    BY <2>1, <2>2 DEF HoldsCall, OnCall, Moves
  <2>4. EntryInv'
    BY <2>1, <2>2, <2>3, EntriesStay
  <2>5. CallInv'
    BY <2>1, <2>2, <2>3, CallSlotsStay
  <2> QED
    BY <2>1, <2>2, <2>4, <2>5
<1>2. CASE Finish(t)
  <2>1. /\ TaskTypes' /\ Moves(t, "idle", None) /\ task[t].at = "working" /\ "idle" \in Doing
        /\ cases' = Released(cases) /\ crossed' = crossed
    BY <1>2, FinishMoves DEF Finish, Doing
  <2>2. CaseInv'
    BY <2>1, ReleaseKeepsSlots
  <2>3. CASE t \in Offer
    <3>1. Ends(t) /\ OnCall(t) /\ HoldsCall(t) /\ calls' = Released(calls)
      BY <1>2, <2>1, <2>3 DEF Finish, Ends, OnCall, HoldsCall
    <3>2. EntryInv'
      BY <2>1, <2>3, <3>1, EndKeepsEntries
    <3>3. CallInv'
      BY <2>1, <2>3, <3>1, SlotReleased
    <3> QED
      BY <2>1, <2>2, <3>2, <3>3
  <2>4. CASE t \notin Offer
    <3>1. UNCHANGED <<_calls, calls>>
      BY <1>2, <2>4 DEF Finish
    <3>2. EntryInv'
      BY <2>1, <2>4, <3>1, EntriesStay
    <3>3. CallInv'
      BY <2>1, <2>4, <3>1, CallSlotsStay
    <3> QED
      BY <2>1, <2>2, <3>2, <3>3
  <2> QED
    BY <2>3, <2>4
<1> QED
  BY <1>1, <1>2

LEMMA StepKeeps == DeskInv /\ [Next]_vars => DeskInv'
<1> SUFFICES ASSUME DeskInv, [Next]_vars PROVE DeskInv'
  OBVIOUS
<1> USE DEF DeskInv
<1>1. ASSUME NEW o \in Offer, NEW c \in Case, Look(o, c) PROVE DeskInv'
  <2>1. /\ TaskTypes' /\ Moves(o, "looked", c) /\ task[o].at = "idle" /\ o \in Task
        /\ UNCHANGED <<_calls, calls, cases, crossed>> /\ "looked" \in Doing
    BY <1>1, LookMoves DEF Look, Doing, Task
  <2>2. ~HoldsCall(o) /\ ~HoldsCall(o)'
    BY <2>1 DEF HoldsCall, OnCall, Moves
  <2>3. EntryInv'
    BY <2>1, <2>2, EntriesStay
  <2>4. CallInv'
    BY <2>1, <2>2, CallSlotsStay
  <2>5. CaseInv'
    BY <2>1, CaseSlotsStay
  <2> QED
    BY <2>1, <2>3, <2>4, <2>5
<1>2. ASSUME NEW j \in Job, NEW c \in Case, Submit(j, c) PROVE DeskInv'
  <2>1. /\ j \in Task /\ j \notin Offer /\ task[j].at = "idle" /\ Enter(j, c)
        /\ UNCHANGED <<row, _calls, calls, crossed>>
    BY <1>2, DeskAssumption DEF Submit, Task
  <2>2. PICK at \in {"queued", "working"} :
           /\ Moves(j, at, c)
           /\ \/ at = "queued" /\ Locked(cases) /\ cases' = Queued(cases, j)
              \/ at = "working" /\ ~Locked(cases) /\ cases' = Taken(cases)
    BY <2>1, EnterMoves
  <2>3. TaskTypes' /\ at \in Doing
    BY <2>1, EnterMoves DEF Doing
  <2>4. EntryInv'
    BY <2>1, <2>2, <2>3, EntriesStay
  <2>5. CallInv'
    BY <2>1, <2>2, <2>3, CallSlotsStay
  <2>6. CaseInv'
    BY <2>1, <2>2, QueueKeepsSlots, TakeKeepsSlots
  <2> QED
    BY <2>3, <2>4, <2>5, <2>6
<1>3. ASSUME UNCHANGED vars PROVE DeskInv'
  BY <1>3 DEF vars, TaskTypes, EntryInv, NoGhosts, OneCallUnlessCrossed, CallInv, CallSlotsBalance,
     CaseInv, CaseSlotsBalance, HoldsCall, OnCall
<1> QED
  BY <1>1, <1>2, <1>3, OfferKeeps, RunKeeps DEF Next

LEMMA DeskHolds == Spec => []DeskInv
<1>1. Init => DeskInv
  <2> SUFFICES ASSUME Init PROVE DeskInv
    OBVIOUS
  <2>0. \A t \in Task : task[t].at = "idle" /\ task[t].case = None
    BY DEF Init, Idle
  <2>1. TaskTypes
    <3>1. task \in [Task -> [at : Doing, case : Case \cup {None}]]
      BY DEF Init, Idle, Doing
    <3>2. row \in [Case -> {"review", "call", "ended"}] /\ crossed \subseteq Case
      BY DEF Init
    <3>3. _calls \in [Case -> Offer \cup {None}]
      BY DEF Init
    <3>4. \A j \in Job : task[j].at \in {"idle", "queued", "working"}
      BY <2>0 DEF Task
    <3> QED
      BY <2>0, <3>1, <3>2, <3>3, <3>4 DEF TaskTypes
  <2>2. Callers = {} /\ Workers = {} /\ Sleepers = {}
    BY <2>0 DEF Callers, Workers, Sleepers, HoldsCall, OnCall, Task
  <2>3. EntryInv
    BY <2>2 DEF Init, EntryInv, NoGhosts, OneCallUnlessCrossed, Callers
  <2>4. Cardinality({}) = 0
    BY FS_EmptySet
  <2>5. <<>> \in Seq(Task) /\ Len(<<>>) = 0 /\ DOMAIN <<>> = {} /\ Range(<<>>) = {}
    BY DEF Range
  <2>6. \A limit \in Nat : /\ Sound(Empty(limit))
                           /\ Empty(limit).free = limit /\ Empty(limit).running = 0
                           /\ Empty(limit).waiters = <<>> /\ Empty(limit).woken = 0
    BY <2>5 DEF Empty, Sound, Pool
  <2>7. CallInv
    <3>1. calls = Empty(CallLimit) /\ CallLimit \in Nat
      BY DeskAssumption DEF Init
    <3>2. /\ Sound(calls) /\ calls.free = CallLimit /\ calls.running = 0
          /\ calls.waiters = <<>> /\ calls.woken = 0
      BY <2>6, <3>1
    <3>3. Cardinality(Callers) = 0
      BY <2>2, <2>4
    <3> QED
      BY <3>1, <3>2, <3>3 DEF CallInv, CallSlotsBalance, Callers
  <2>8. CaseInv
    <3>1. cases = Empty(CaseLimit) /\ CaseLimit \in Nat
      BY DeskAssumption DEF Init
    <3>2. WaitsOnce(<<>>)
      BY <2>5 DEF WaitsOnce
    <3>3. /\ Sound(cases) /\ cases.free = CaseLimit /\ cases.running = 0
          /\ cases.waiters = <<>> /\ cases.woken = 0
      BY <2>6, <3>1
    <3>4. Cardinality(Workers) = 0 /\ Sleepers = Range(cases.waiters)
      BY <2>2, <2>4, <2>5, <3>3
    <3>5. cases.free + cases.running + cases.woken = CaseLimit
      BY <3>1, <3>3
    <3>6. ~(cases.woken < Len(cases.waiters)) /\ WaitsOnce(cases.waiters)
      BY <2>5, <3>2, <3>3
    <3> QED
      BY <3>3, <3>4, <3>5, <3>6 DEF CaseInv, CaseSlotsBalance, Workers, Sleepers
  <2> QED
    BY <2>1, <2>3, <2>7, <2>8 DEF DeskInv
<1> QED
  BY <1>1, StepKeeps, PTL DEF Spec

\* Every variable keeps its type: no count of a pool ever goes below zero.
THEOREM TypeCorrect == Spec => []TypeOK
<1>1. DeskInv => TypeOK
  BY DEF DeskInv, TaskTypes, CallInv, CaseInv, Sound, TypeOK
<1> QED
  BY <1>1, DeskHolds, PTL

\* No call is on without a slot, and no slot is held by a call that never began
\* or has ended; never more runs than slots, and no free slot that a waiter has
\* not heard of.
THEOREM SlotsAlwaysBalance == Spec => []SlotsBalance
<1>1. DeskInv => SlotsBalance
  BY DEF DeskInv, CallInv, CaseInv, SlotsBalance
<1> QED
  BY <1>1, DeskHolds, PTL

\* No case is locked out of its next call by a call that has ended.
THEOREM NeverGhosts == Spec => []NoGhosts
<1>1. DeskInv => NoGhosts
  BY DEF DeskInv, EntryInv
<1> QED
  BY <1>1, DeskHolds, PTL

\* One call per case, unless two of its offers were in their handshakes at once.
THEOREM OneCallPerCase == Spec => []OneCallUnlessCrossed
<1>1. DeskInv => OneCallUnlessCrossed
  BY DEF DeskInv, EntryInv
<1> QED
  BY <1>1, DeskHolds, PTL
===============================================================================
