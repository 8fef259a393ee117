----------------------------- MODULE DeliveryProofs -----------------------------
(***************************************************************************)
(* For any number of complaints, tasks of the server, crashes and races    *)
(* for the two files: that no complaint is lost, that one that always      *)
(* fails costs a bounded number of runs, and that the poll loop hands each *)
(* on once.  Three inductive invariants, KeptInv, CostInv and OnceInv, all *)
(* resting on BaseInv: what each actor can be at, and what it then knows.  *)
(***************************************************************************)
EXTENDS Delivery, FiniteSetTheorems, TLAPS

(* The inductive invariant.                                                 *)

\* What each actor can be at, and what it knows when it is.
ListenerPhase == {"idle", "running", "noting", "counting", "marking", "clearing", "burying"}
WorkerPhase == {"idle", "running", "noting", "noting_review", "counting", "clearing"}
OperatorPhase == {"idle", "requeuing", "unmarking"}

PhasesInv ==
    /\ \A a \in Actor : IF At(a, "idle") THEN task[a].item = None ELSE task[a].item \in Item
    /\ task[Listener].at \in ListenerPhase
    /\ \A w \in Worker : task[w].at \in WorkerPhase
    /\ task[Operator].at \in OperatorPhase
    /\ \A a \in Actor : task[a].at \in {"marking", "clearing"} => handled[task[a].item] > 0
    /\ \A i \in Poison : handled[i] = 0
    /\ task[Listener].item \notin heard

\* The runs of i that have been started, and are neither counted nor given up.
OnRun == {"running", "noting", "counting"}

On(t, i) == t.item = i /\ t.at \in OnRun

OnIt(a, i) == On(task[a], i)

\* The workers on a run of i.
WorkersOn(i) == {w \in Worker : OnIt(w, i)}

Going(t, i) == t.item = i /\ t.at \in {"running", "noting", "counting", "burying"}

\* No run that is under way is forgotten.
StartedInv == \A i \in Poison : UnderWay(i, Actor) <= runs[i]

\* The operator's requeue of i has its record, and its mark, to itself.
OperatorSees(i) ==
    task[Operator].item = i =>
        /\ At(Operator, "requeuing") /\ task[Operator].holding => task[Operator].log[i] = log[i]
        /\ At(Operator, "unmarking") =>
              /\ log[i] = 0
              /\ task[Operator].holding => (i \in task[Operator].seen <=> i \in seen)

Burying(i) == At(Listener, "burying") /\ task[Listener].item = i

\* Nothing about i was lost, as long as nobody got in anybody's way.
KeptAt(i) ==
    /\ OperatorSees(i)
    /\ i \in heard => i \notin seen
    /\ i \in seen => Kept(i)
    /\ Burying(i) => handled[i] > 0 \/ Dead(log, i)

KeptInv == \A i \in Item \ contested : KeptAt(i)

\* The poll loop may still start a run of i, without a requeue.
MayStart(i) == ~OnIt(Listener, i) /\ ~Burying(i) /\ i \notin seen

\* The runs of i are counted or about to be, and a dead i has few left.
CostAt(i) ==
    /\ OnIt(Listener, i) => runs[i] <= log[i] + Cardinality(WorkersOn(i)) + 1
    /\ ~OnIt(Listener, i) => runs[i] <= log[i] + Cardinality(WorkersOn(i))
    /\ Dead(log, i) =>
          /\ runs[i] <= MaxAttempts + Cardinality(Worker)
          /\ MayStart(i) => runs[i] < MaxAttempts + Cardinality(Worker)

CostInv == \A i \in Poison \ contested : CostAt(i)

\* Nobody but the poll loop runs i.
Alone(i) ==
    /\ \A w \in Worker : task[w].item = i => At(w, "noting_review")
    /\ task[Operator].item # i

\* The poll loop has handled i once at most, and is done with it then.
OnceAt(i) ==
    /\ handled[i] <= 1
    /\ handled[i] > 0 =>
          /\ i \notin heard /\ ~OnIt(Listener, i)
          /\ i \in seen \/ (At(Listener, "marking") /\ task[Listener].item = i)

OnceInv ==
    /\ \A i \in Item \ replayed : Alone(i)
    /\ \A i \in Item \ (replayed \cup contested) : OnceAt(i)

-----------------------------------------------------------------------------
(* The actors and their tasks.                                              *)

LEMMA Actors ==
    /\ IsFiniteSet(Actor) /\ Worker \subseteq Actor /\ Listener \in Actor /\ Operator \in Actor
    /\ Listener # Operator /\ Listener \notin Worker /\ Operator \notin Worker
<1>1. IsFiniteSet(Worker \cup {Listener})
  BY DeliveryAssumption, FS_AddElement
<1>2. IsFiniteSet((Worker \cup {Listener}) \cup {Operator})
  BY <1>1, FS_AddElement
<1>3. Actor = (Worker \cup {Listener}) \cup {Operator}
  BY DEF Actor
<1> QED
  BY <1>2, <1>3, DeliveryAssumption DEF Actor

LEMMA DoingFields ==
    ASSUME NEW phase, NEW i
    PROVE  /\ Doing(phase, i).at = phase /\ Doing(phase, i).item = i
           /\ ~Doing(phase, i).holding
           /\ phase \in {"running"} \cup FilePhases /\ i \in Item => Doing(phase, i) \in Task
BY DEF Doing, Free, Task, Clean, Log

LEMMA FreeFields ==
    Free \in Task /\ Free.at = "idle" /\ Free.item = None /\ ~Free.holding
BY DEF Free, Task, Clean, Log

\* What a task of a may be once it has taken a step.
Fits(a, t) ==
    /\ IF t.at = "idle" THEN t.item = None ELSE t.item \in Item
    /\ a = Listener => t.at \in ListenerPhase /\ t.item \notin heard'
    /\ a \in Worker => t.at \in WorkerPhase
    /\ a = Operator => t.at \in OperatorPhase
    /\ t.at \in {"marking", "clearing"} => handled'[t.item] > 0

LEMMA PhasesKept ==
    ASSUME TypeOK, PhasesInv, NEW a \in Actor, NEW t \in Task, Fits(a, t),
           task' = [task EXCEPT ![a] = t],
           handled' \in [Item -> 0 .. 2], \A i \in Item : handled[i] <= handled'[i],
           \A i \in Poison : handled'[i] = 0, a = Listener \/ heard' \subseteq heard
    PROVE  PhasesInv'
<1>1. task'[a] = t /\ \A b \in Actor \ {a} : task'[b] = task[b]
  BY DEF TypeOK
<1>2. ASSUME NEW b \in Actor
      PROVE  /\ IF task'[b].at = "idle" THEN task'[b].item = None ELSE task'[b].item \in Item
             /\ task'[b].at \in {"marking", "clearing"} => handled'[task'[b].item] > 0
  <2>1. CASE b = a
    BY <1>1, <2>1 DEF Fits
  <2>2. CASE b # a
    <3>1. task'[b] = task[b]
      BY <1>1, <2>2
    <3>2. /\ IF task[b].at = "idle" THEN task[b].item = None ELSE task[b].item \in Item
          /\ task[b].at \in {"marking", "clearing"} => handled[task[b].item] > 0
      BY DEF PhasesInv, At
    <3>3. task[b].at \in {"marking", "clearing"} => handled'[task[b].item] > 0
      BY <3>2 DEF TypeOK
    <3> QED
      BY <3>1, <3>2, <3>3
  <2> QED
    BY <2>1, <2>2
<1>3. task'[Listener].at \in ListenerPhase /\ task'[Listener].item \notin heard'
  BY <1>1, Actors DEF Fits, PhasesInv
<1>4. task'[Operator].at \in OperatorPhase /\ \A w \in Worker : task'[w].at \in WorkerPhase
  BY <1>1, Actors DEF Fits, PhasesInv
<1> QED
  BY <1>2, <1>3, <1>4 DEF PhasesInv, At

-----------------------------------------------------------------------------
(* Counting the runs that are under way.                                    *)

LEMMA UnderWayIs ==
    ASSUME NEW i, NEW actors \in SUBSET Actor
    PROVE  /\ UnderWay(i, actors) = Cardinality({a \in actors : Going(task[a], i)})
           /\ UnderWay(i, actors) \in Nat
           /\ IsFiniteSet({a \in actors : Going(task[a], i)})
<1>1. {a \in actors \cap Busy(i) : task[a].at \in {"running", "noting", "counting", "burying"}}
        = {a \in actors : Going(task[a], i)}
  BY DEF Busy, Going
<1>2. {a \in actors : Going(task[a], i)} \in SUBSET Actor
  OBVIOUS
<1>3. IsFiniteSet({a \in actors : Going(task[a], i)})
  BY <1>2, Actors, FS_Subset
<1>4. Cardinality({a \in actors : Going(task[a], i)}) \in Nat
  BY <1>3, FS_CardinalityType
<1> QED
  BY <1>1, <1>3, <1>4 DEF UnderWay

LEMMA UnderWayIsNext ==
    ASSUME NEW i, NEW actors \in SUBSET Actor
    PROVE  /\ UnderWay(i, actors)' = Cardinality({a \in actors : Going(task'[a], i)})
           /\ UnderWay(i, actors)' \in Nat
           /\ IsFiniteSet({a \in actors : Going(task'[a], i)})
<1>1. {a \in actors \cap Busy(i)' :
          task'[a].at \in {"running", "noting", "counting", "burying"}}
        = {a \in actors : Going(task'[a], i)}
  BY DEF Busy, Going
<1>2. {a \in actors : Going(task'[a], i)} \in SUBSET Actor
  OBVIOUS
<1>3. IsFiniteSet({a \in actors : Going(task'[a], i)})
  BY <1>2, Actors, FS_Subset
<1>4. Cardinality({a \in actors : Going(task'[a], i)}) \in Nat
  BY <1>3, FS_CardinalityType
<1> QED
  BY <1>1, <1>3, <1>4 DEF UnderWay

\* A step of one actor: one run more at most, and none unless it starts one.
LEMMA OneStepUnderWay ==
    ASSUME TypeOK, NEW a \in Actor, NEW t \in Task, task' = [task EXCEPT ![a] = t], NEW i
    PROVE  /\ UnderWay(i, Actor)' <= UnderWay(i, Actor) + 1
           /\ (Going(t, i) => Going(task[a], i)) => UnderWay(i, Actor)' <= UnderWay(i, Actor)
           /\ UnderWay(i, Actor) \in Nat /\ UnderWay(i, Actor)' \in Nat
<1>1. PICK S, T : S = {b \in Actor : Going(task[b], i)} /\ T = {b \in Actor : Going(task'[b], i)}
  OBVIOUS
<1>2. /\ UnderWay(i, Actor) = Cardinality(S) /\ UnderWay(i, Actor)' = Cardinality(T)
      /\ IsFiniteSet(S) /\ IsFiniteSet(T) /\ Cardinality(S) \in Nat /\ Cardinality(T) \in Nat
  BY <1>1, UnderWayIs, UnderWayIsNext
<1>3. task'[a] = t /\ \A b \in Actor \ {a} : task'[b] = task[b]
  BY DEF TypeOK
<1>4. T \in SUBSET (S \cup {a}) /\ ((Going(t, i) => Going(task[a], i)) => T \in SUBSET S)
  BY <1>1, <1>3
<1>5. IsFiniteSet(S \cup {a}) /\ Cardinality(S \cup {a}) <= Cardinality(S) + 1
  <2>1. /\ IsFiniteSet(S \cup {a})
        /\ Cardinality(S \cup {a}) = IF a \in S THEN Cardinality(S) ELSE Cardinality(S) + 1
    BY <1>2, FS_AddElement
  <2> QED
    BY <1>2, <2>1
<1>6. Cardinality(S \cup {a}) \in Nat
  BY <1>5, FS_CardinalityType
<1>7. Cardinality(T) <= Cardinality(S \cup {a})
  BY <1>4, <1>5, FS_Subset
<1>8. T \in SUBSET S => Cardinality(T) <= Cardinality(S)
  BY <1>2, FS_Subset
<1> QED
  BY <1>2, <1>4, <1>5, <1>6, <1>7, <1>8

-----------------------------------------------------------------------------
(* Type correctness.                                                        *)

BaseInv == TypeOK /\ PhasesInv /\ StartedInv

LEMMA StartedKept ==
    ASSUME BaseInv, NEW a \in Actor, NEW t \in Task, task' = [task EXCEPT ![a] = t],
           runs' = runs,
           \A i \in Poison : Going(t, i) => Going(task[a], i)
    PROVE  StartedInv'
<1>1. \A i \in Poison : UnderWay(i, Actor)' <= UnderWay(i, Actor) /\ UnderWay(i, Actor) \in Nat
                        /\ UnderWay(i, Actor)' \in Nat
  BY OneStepUnderWay DEF BaseInv
<1> QED
  BY <1>1 DEF BaseInv, StartedInv, TypeOK

\* A step of one actor that touches no counter.
LEMMA PlainStep ==
    ASSUME BaseInv, NEW a \in Actor, NEW t \in Task, task' = [task EXCEPT ![a] = t],
           Fits(a, t), heard' \subseteq heard, UNCHANGED <<handled, runs>>,
           \A i \in Poison : Going(t, i) => Going(task[a], i),
           log' \in Log, seen' \subseteq Item, contested' \subseteq Item,
           unposted' \subseteq Item, replayed' \subseteq Item, events' \in 0 .. MaxEvents
    PROVE  BaseInv'
<1>1. StartedInv'
  BY StartedKept
<1>2. handled \in [Item -> 0 .. 2] /\ \A i \in Poison : handled[i] = 0
  BY DEF BaseInv, TypeOK, PhasesInv
<1>3. PhasesInv'
  <2>1. handled' \in [Item -> 0 .. 2] /\ \A i \in Poison : handled'[i] = 0
    BY <1>2
  <2>2. \A i \in Item : handled[i] <= handled'[i]
    BY <1>2
  <2> QED
    BY <2>1, <2>2, PhasesKept DEF BaseInv
<1>4. TypeOK'
  BY DEF BaseInv, TypeOK
<1> QED
  BY <1>1, <1>3, <1>4 DEF BaseInv

LEMMA EventType == ASSUME TypeOK, Event PROVE events' \in 0 .. MaxEvents
BY DeliveryAssumption DEF TypeOK, Event

LEMMA PollKeepsBase == ASSUME BaseInv, Poll PROVE BaseInv'
<1>1. task' = task /\ handled' = handled /\ runs' = runs /\ UNCHANGED <<files, unposted, replayed>>
  BY DEF Poll
<1>2. PICK s \in {seen, {}} : FindsSeen(s) /\ heard' = Fresh(s)
                            /\ contested' = contested \cup (heard' \cap seen)
  BY DEF Poll
<1>3. heard' \subseteq Item /\ contested' \subseteq Item
  BY <1>2 DEF Fresh, BaseInv, TypeOK
<1>4. events' \in 0 .. MaxEvents
  BY <1>2, EventType DEF FindsSeen, BaseInv, TypeOK
<1>5. TypeOK'
  BY <1>1, <1>3, <1>4 DEF BaseInv, TypeOK, files
<1>6. task[Listener].item = None
  BY Actors DEF Poll, BaseInv, PhasesInv, At
<1>7. PhasesInv'
  <2>1. task'[Listener].item \notin heard'
    BY <1>1, <1>3, <1>6, DeliveryAssumption
  <2> QED
    BY <1>1, <2>1 DEF BaseInv, PhasesInv, At
<1>8. StartedInv'
  BY <1>1 DEF BaseInv, StartedInv, UnderWay, Busy
<1> QED
  BY <1>5, <1>7, <1>8 DEF BaseInv

\* A run of i is started.
LEMMA RunKeepsBase ==
    ASSUME BaseInv, NEW a \in Worker \cup {Listener}, NEW i \in Item, At(a, "idle"), Run(a, i),
           heard' \subseteq heard, a = Listener => i \notin heard',
           log' = log, seen' = seen, handled' = handled, unposted' = unposted,
           contested' = contested, replayed' \subseteq Item, events' \in 0 .. MaxEvents
    PROVE  BaseInv'
<1>1. PICK t : t = Doing("running", i)
  OBVIOUS
<1>2. t \in Task /\ t.at = "running" /\ t.item = i
  BY <1>1, DoingFields
<1>3. task' = [task EXCEPT ![a] = t]
  BY <1>1 DEF Run
<1>4. a \in Actor
  BY Actors
<1>5. runs' = [j \in Poison |-> IF j = i THEN runs[j] + 1 ELSE runs[j]]
  BY DEF Run
<1>6. Fits(a, t)
  BY <1>2, Actors DEF Fits, ListenerPhase, WorkerPhase
<1>7. handled \in [Item -> 0 .. 2] /\ \A j \in Poison : handled[j] = 0
  BY DEF BaseInv, TypeOK, PhasesInv
<1>8. PhasesInv'
  <2>1. handled' \in [Item -> 0 .. 2] /\ \A j \in Poison : handled'[j] = 0
    BY <1>7
  <2>2. \A j \in Item : handled[j] <= handled'[j]
    BY <1>7
  <2> QED
    BY <1>2, <1>3, <1>4, <1>6, <2>1, <2>2, PhasesKept DEF BaseInv
<1>9. TypeOK'
  <2>1. runs' \in [Poison -> Nat]
    BY <1>5 DEF BaseInv, TypeOK
  <2>2. task' \in [Actor -> Task]
    BY <1>2, <1>3 DEF BaseInv, TypeOK
  <2> QED
    BY <2>1, <2>2 DEF BaseInv, TypeOK
<1>10. StartedInv'
  <2>1. SUFFICES ASSUME NEW j \in Poison PROVE UnderWay(j, Actor)' <= runs'[j]
    BY DEF StartedInv
  <2>2. /\ UnderWay(j, Actor) <= runs[j] /\ UnderWay(j, Actor)' <= UnderWay(j, Actor) + 1
        /\ j # i => UnderWay(j, Actor)' <= UnderWay(j, Actor)
        /\ UnderWay(j, Actor) \in Nat /\ UnderWay(j, Actor)' \in Nat
    <3>1. j # i => ~Going(t, j)
      BY <1>2 DEF Going
    <3> QED
      BY <1>2, <1>3, <1>4, <3>1, OneStepUnderWay DEF BaseInv, StartedInv
  <2> QED
    BY <1>5, <2>2 DEF BaseInv, TypeOK
<1> QED
  BY <1>8, <1>9, <1>10 DEF BaseInv

LEMMA HandleKeepsBase == ASSUME BaseInv, NEW i \in Item, Handle(i) PROVE BaseInv'
<1>1. /\ At(Listener, "idle") /\ Run(Listener, i) /\ heard' = heard \ {i} /\ log' = log
      /\ seen' = seen /\ handled' = handled /\ unposted' = unposted /\ contested' = contested
      /\ replayed' = replayed /\ events' = events
  BY DEF Handle, files
<1>2. /\ replayed' \subseteq Item /\ events' \in 0 .. MaxEvents
      /\ i \notin heard' /\ heard' \subseteq heard
  BY <1>1 DEF BaseInv, TypeOK
<1> QED
  BY <1>1, <1>2, RunKeepsBase

LEMMA IngestKeepsBase ==
    ASSUME BaseInv, NEW w \in Worker, NEW i \in Item, Ingest(w, i)
    PROVE  BaseInv'
<1>1. /\ At(w, "idle") /\ Run(w, i) /\ heard' = heard /\ log' = log
      /\ seen' = seen /\ handled' = handled /\ unposted' = unposted /\ contested' = contested
      /\ replayed' = replayed \cup {i} /\ Event
  BY DEF Ingest, Ingests, files
<1>2. /\ replayed' \subseteq Item /\ events' \in 0 .. MaxEvents
      /\ heard' \subseteq heard /\ w # Listener
  BY <1>1, EventType, Actors DEF BaseInv, TypeOK
<1> QED
  BY <1>1, <1>2, RunKeepsBase

LEMMA UnpostedKeepsBase ==
    ASSUME BaseInv, NEW a \in Worker \cup {Listener}, NEW i \in Item, Unposted(a, i)
    PROVE  BaseInv'
<1>1. PICK t : /\ task' = [task EXCEPT ![a] = t]
               /\ \/ t = Doing("noting", i) /\ At(a, "running") /\ task[a].item = i
                  \/ t = Doing("noting_review", i) /\ a \in Worker
  BY DEF Unposted
<1>2. /\ t.at \in {"noting", "noting_review"} /\ t.item = i /\ t \in Task
      /\ t.at = "noting" => At(a, "running") /\ task[a].item = i
      /\ t.at = "noting_review" => a \in Worker
  <2>1. ASSUME NEW phase \in {"noting", "noting_review"}, t = Doing(phase, i)
        PROVE  t.at = phase /\ t.item = i /\ t \in Task
    <3>1. phase \in {"running"} \cup FilePhases /\ i \in Item
      BY DEF FilePhases, LogPhases
    <3> QED
      BY <2>1, <3>1, DoingFields
  <2> QED
    BY <1>1, <2>1
<1>3. task' = [task EXCEPT ![a] = t]
  BY <1>1
<1>4. a \in Actor
  BY Actors
<1>5. Fits(a, t)
  <2>1. a = Listener => t.at = "noting" /\ t.item \notin heard'
    BY <1>2, Actors DEF Unposted, BaseInv, PhasesInv
  <2> QED
    BY <1>2, <2>1, Actors DEF Fits, ListenerPhase, WorkerPhase
<1>6. \A j \in Poison : Going(t, j) => Going(task[a], j)
  BY <1>2 DEF Going, At
<1>7. events' \in 0 .. MaxEvents
  BY EventType DEF Unposted, BaseInv
<1>8. /\ heard' \subseteq heard /\ UNCHANGED <<handled, runs>> /\ log' \in Log
      /\ seen' \subseteq Item /\ contested' \subseteq Item /\ unposted' \subseteq Item
      /\ replayed' \subseteq Item
  BY DEF Unposted, files, BaseInv, TypeOK
<1> QED
  BY <1>2, <1>3, <1>4, <1>5, <1>6, <1>7, <1>8, PlainStep

\* The run of a task has an item, which no poll still has to hand over.
LEMMA RunningItem ==
    ASSUME BaseInv, NEW a \in Actor, ~At(a, "idle")
    PROVE  /\ task[a] \in Task /\ task[a].item \in Item
           /\ a = Listener => task[a].item \notin heard /\ task[a].at \in ListenerPhase
           /\ a \in Worker => task[a].at \in WorkerPhase
           /\ a = Operator => task[a].at \in OperatorPhase
BY DEF BaseInv, TypeOK, PhasesInv

LEMMA RunEndsKeepsBase ==
    ASSUME BaseInv, NEW a \in Worker \cup {Listener}, RunEnds(a)
    PROVE  BaseInv'
<1>1. a \in Actor /\ At(a, "running") /\ ~At(a, "idle")
  BY Actors DEF RunEnds, At
<1>2. PICK i : i = task[a].item
  OBVIOUS
<1>3. i \in Item /\ (a = Listener => i \notin heard) /\ heard' = heard
  BY <1>1, <1>2, RunningItem DEF RunEnds
<1>4. /\ heard' \subseteq heard /\ runs' = runs /\ log' \in Log
      /\ seen' \subseteq Item /\ contested' \subseteq Item /\ unposted' \subseteq Item
      /\ replayed' \subseteq Item /\ events' \in 0 .. MaxEvents
  BY DEF RunEnds, files, BaseInv, TypeOK
<1>5. CASE /\ i \notin Poison
           /\ handled' = [handled EXCEPT ![i] = IF @ < 2 THEN @ + 1 ELSE 2]
           /\ task' = [task EXCEPT ![a] = Doing(IF a = Listener THEN "marking" ELSE "clearing", i)]
  <2>1. PICK t : t = Doing(IF a = Listener THEN "marking" ELSE "clearing", i)
    OBVIOUS
  <2>2. t \in Task /\ t.item = i /\ t.at = IF a = Listener THEN "marking" ELSE "clearing"
    BY <1>3, <2>1, DoingFields DEF FilePhases, LogPhases, SeenPhases
  <2>3. /\ handled' \in [Item -> 0 .. 2] /\ handled'[i] > 0
        /\ \A j \in Item : handled[j] <= handled'[j]
        /\ \A j \in Poison : handled'[j] = 0
    BY <1>3, <1>5, DeliveryAssumption DEF BaseInv, TypeOK, PhasesInv
  <2>4. Fits(a, t)
    BY <1>3, <2>2, <2>3, Actors DEF Fits, ListenerPhase, WorkerPhase
  <2>5. PhasesInv'
    BY <1>1, <1>4, <1>5, <2>1, <2>2, <2>3, <2>4, PhasesKept DEF BaseInv
  <2>6. StartedInv'
    BY <1>1, <1>4, <1>5, <2>1, <2>2, StartedKept DEF Going
  <2>7. TypeOK'
    <3>1. task' \in [Actor -> Task]
      BY <1>5, <2>1, <2>2 DEF BaseInv, TypeOK
    <3> QED
      BY <1>4, <2>3, <3>1 DEF BaseInv, TypeOK
  <2> QED
    BY <2>5, <2>6, <2>7 DEF BaseInv
<1>6. CASE task' = [task EXCEPT ![a] = Doing("counting", i)] /\ handled' = handled
  <2>1. PICK t : t = Doing("counting", i)
    OBVIOUS
  <2>2. t \in Task /\ t.item = i /\ t.at = "counting"
    BY <1>3, <2>1, DoingFields DEF FilePhases, LogPhases
  <2>3. Fits(a, t)
    BY <1>3, <2>2, Actors DEF Fits, ListenerPhase, WorkerPhase
  <2>4. \A j \in Poison : Going(t, j) => Going(task[a], j)
    BY <1>1, <1>2, <2>2 DEF Going, At
  <2> QED
    BY <1>1, <1>4, <1>6, <2>1, <2>2, <2>3, <2>4, PlainStep
<1> QED
  BY <1>2, <1>5, <1>6 DEF RunEnds, FailsInto

LEMMA ReadKeepsBase == ASSUME BaseInv, NEW a \in Actor, Read(a) PROVE BaseInv'
<1>1. ~At(a, "idle") /\ task[a].at \in FilePhases
  BY DEF Read, At, FilePhases, LogPhases, SeenPhases
<1>2. /\ heard' = heard /\ UNCHANGED <<handled, runs>> /\ log' \in Log
      /\ seen' \subseteq Item /\ unposted' \subseteq Item /\ replayed' \subseteq Item
  BY DEF Read, files, BaseInv, TypeOK
<1>3. ASSUME NEW t, task' = [task EXCEPT ![a] = t], t.at = task[a].at, t.item = task[a].item,
             t \in Task, contested' \subseteq Item, events' \in 0 .. MaxEvents
      PROVE  BaseInv'
  <2>1. Fits(a, t)
    <3>1. t.at # "idle" /\ t.item \in Item
      BY <1>1, <1>3, RunningItem DEF At
    <3>2. t.at \in {"marking", "clearing"} => handled[t.item] > 0
      BY <1>3 DEF BaseInv, PhasesInv
    <3> QED
      BY <1>1, <1>2, <1>3, <3>1, <3>2, RunningItem DEF Fits
  <2>2. \A j \in Poison : Going(t, j) => Going(task[a], j)
    BY <1>3 DEF Going
  <2> QED
    BY <1>2, <1>3, <2>1, <2>2, PlainStep
<1>4. CASE task[a].at \in LogPhases
  <2>1. PICK t : t = [task[a] EXCEPT !.holding = TRUE, !.log = log]
    OBVIOUS
  <2>2. t.at = task[a].at /\ t.item = task[a].item /\ t \in Task
    BY <1>1, <2>1, RunningItem DEF Task, BaseInv, TypeOK
  <2>3. task' = [task EXCEPT ![a] = t]
    BY <1>4, <2>1 DEF Read
  <2>4. contested' \subseteq Item /\ events' \in 0 .. MaxEvents
    BY <1>4 DEF Read, BaseInv, TypeOK
  <2> QED
    BY <1>3, <2>2, <2>3, <2>4
<1>5. CASE task[a].at \notin LogPhases
  <2>1. PICK s \in {seen, {}} : /\ FindsSeen(s) /\ contested' = contested \cup (seen \ s)
                                /\ task' = [task EXCEPT ![a].holding = TRUE, ![a].seen = s]
    BY <1>5 DEF Read
  <2>2. PICK t : t = [task[a] EXCEPT !.holding = TRUE, !.seen = s]
    OBVIOUS
  <2>3. t.at = task[a].at /\ t.item = task[a].item /\ t \in Task
    BY <1>1, <2>2, RunningItem DEF Task, BaseInv, TypeOK
  <2>4. task' = [task EXCEPT ![a] = t]
    BY <2>1, <2>2
  <2>5. contested' \subseteq Item /\ events' \in 0 .. MaxEvents
    BY <2>1, EventType DEF FindsSeen, BaseInv, TypeOK
  <2> QED
    BY <1>3, <2>3, <2>4, <2>5
<1> QED
  BY <1>4, <1>5

LEMMA RequeueKeepsBase == ASSUME BaseInv, NEW i \in Item, Requeue(i) PROVE BaseInv'
<1>1. PICK t : t = Doing("requeuing", i)
  OBVIOUS
<1>2. t \in Task /\ t.at = "requeuing" /\ t.item = i
  BY <1>1, DoingFields DEF FilePhases, LogPhases
<1>3. task' = [task EXCEPT ![Operator] = t]
  BY <1>1 DEF Requeue
<1>4. Fits(Operator, t) /\ \A j \in Poison : Going(t, j) => Going(task[Operator], j)
  BY <1>2, Actors DEF Fits, OperatorPhase, Going
<1>5. events' \in 0 .. MaxEvents
  BY EventType DEF Requeue, BaseInv
<1>6. /\ heard' \subseteq heard /\ UNCHANGED <<handled, runs>> /\ log' \in Log
      /\ seen' \subseteq Item /\ contested' \subseteq Item /\ unposted' \subseteq Item
      /\ replayed' \subseteq Item
  BY DEF Requeue, files, BaseInv, TypeOK
<1> QED
  BY <1>2, <1>3, <1>4, <1>5, <1>6, Actors, PlainStep

\* What Then, Writes and LogAfter come to in each phase.
LEMMA ThenIs ==
    ASSUME NEW a, NEW t
    PROVE  /\ t.at = "marking" => Then(a, t) = Doing("clearing", t.item)
           /\ t.at = "noting" => Then(a, t) = Doing("running", t.item)
           /\ t.at = "counting" =>
                 Then(a, t) = IF a = Listener /\ Dead(LogAfter(t), t.item)
                              THEN Doing("burying", t.item) ELSE Free
           /\ t.at = "requeuing" => Then(a, t) = Doing("unmarking", t.item)
           /\ t.at \in {"noting_review", "clearing", "burying", "unmarking"} =>
                 Then(a, t) = Free
<1> HIDE DEF Dead, LogAfter
<1> QED
  BY DEF Then

LEMMA WritesIs ==
    ASSUME NEW t
    PROVE  /\ t.at \in {"clearing", "requeuing"} => (Writes(t) <=> t.log[t.item] > 0)
           /\ t.at = "unmarking" => (Writes(t) <=> t.item \in t.seen)
           /\ t.at \in {"noting", "noting_review", "counting", "marking", "burying"} => Writes(t)
BY DEF Writes

LEMMA LogAfterIs ==
    ASSUME NEW t \in Task, t.item \in Item
    PROVE  /\ LogAfter(t) \in Log
           /\ \A i \in Item \ {t.item} : LogAfter(t)[i] = t.log[i]
           /\ t.at \in {"clearing", "requeuing"} => LogAfter(t)[t.item] = 0
           /\ t.at \notin {"clearing", "requeuing"} => LogAfter(t)[t.item] = t.log[t.item] + 1
BY DEF LogAfter, Task, Log

LEMMA ThenPhase ==
    ASSUME NEW a, NEW t \in Task, t.item \in Item, t.at \in FilePhases, NEW u, u = Then(a, t)
    PROVE  /\ u \in Task /\ ~u.holding
           /\ IF u.at = "idle" THEN u.item = None ELSE u.item = t.item
           /\ t.at = "marking" => u.at = "clearing"
           /\ t.at = "noting" => u.at = "running"
           /\ t.at = "counting" =>
                 u.at = IF a = Listener /\ Dead(LogAfter(t), t.item) THEN "burying" ELSE "idle"
           /\ t.at = "requeuing" => u.at = "unmarking"
           /\ t.at \in {"noting_review", "clearing", "burying", "unmarking"} => u.at = "idle"
<1>1. PICK i : i = t.item
  OBVIOUS
<1>2. ASSUME NEW phase \in {"clearing", "running", "burying", "unmarking"}, u = Doing(phase, i)
      PROVE  u \in Task /\ u.at = phase /\ u.item = i /\ ~u.holding
  <2>1. phase \in {"running"} \cup FilePhases /\ i \in Item
    BY <1>1 DEF FilePhases, LogPhases, SeenPhases
  <2>2. /\ Doing(phase, i).at = phase /\ Doing(phase, i).item = i
        /\ ~Doing(phase, i).holding /\ Doing(phase, i) \in Task
    BY <2>1, DoingFields
  <2> QED
    BY <1>2, <2>2
<1>3. u = Free => u \in Task /\ u.at = "idle" /\ u.item = None /\ ~u.holding
  BY FreeFields
<1>4. CASE t.at = "marking"
  BY <1>1, <1>2, <1>4, ThenIs
<1>5. CASE t.at = "noting"
  BY <1>1, <1>2, <1>5, ThenIs
<1>6. CASE t.at = "counting" /\ a = Listener /\ Dead(LogAfter(t), t.item)
  <2>1. u = Doing("burying", i)
    BY <1>1, <1>6, ThenIs
  <2> QED
    BY <1>1, <1>2, <1>6, <2>1
<1>7. CASE t.at = "counting" /\ ~(a = Listener /\ Dead(LogAfter(t), t.item))
  <2>1. u = Free
    BY <1>1, <1>7, ThenIs
  <2> QED
    BY <1>1, <1>3, <1>7, <2>1
<1>8. CASE t.at = "requeuing"
  BY <1>1, <1>2, <1>8, ThenIs
<1>9. CASE t.at \in {"noting_review", "clearing", "burying", "unmarking"}
  BY <1>1, <1>3, <1>9, ThenIs
<1> QED
  BY <1>4, <1>5, <1>6, <1>7, <1>8, <1>9 DEF FilePhases, LogPhases, SeenPhases

\* The phase an update leaves an actor in is one of its own.
LEMMA ThenFits ==
    ASSUME BaseInv, NEW a \in Actor, Write(a), NEW t, t = task[a]
    PROVE  /\ t \in Task /\ t.item \in Item /\ ~At(a, "idle")
           /\ Then(a, t) \in Task /\ Fits(a, Then(a, t))
           /\ Then(a, t).at # "idle" => Then(a, t).item = t.item
           /\ ~Then(a, t).holding
           /\ \A j : Going(Then(a, t), j) => Going(t, j)
<1>1. t.at \in FilePhases /\ t.holding /\ ~At(a, "idle") /\ heard' = heard /\ handled' = handled
  BY DEF Write, At, FilePhases, LogPhases, SeenPhases
<1>2. /\ t \in Task /\ t.item \in Item
      /\ a = Listener => t.item \notin heard /\ t.at \in ListenerPhase
      /\ a \in Worker => t.at \in WorkerPhase
      /\ a = Operator => t.at \in OperatorPhase
  BY <1>1, RunningItem
<1>3. t.at = "marking" => handled[t.item] > 0
  BY DEF BaseInv, PhasesInv
<1>4. PICK u : u = Then(a, t)
  OBVIOUS
<1>0. /\ u \in Task /\ ~u.holding
      /\ IF u.at = "idle" THEN u.item = None ELSE u.item = t.item
      /\ t.at = "marking" => u.at = "clearing"
      /\ t.at = "noting" => u.at = "running"
      /\ t.at = "counting" =>
            u.at = IF a = Listener /\ Dead(LogAfter(t), t.item) THEN "burying" ELSE "idle"
      /\ t.at = "requeuing" => u.at = "unmarking"
      /\ t.at \in {"noting_review", "clearing", "burying", "unmarking"} => u.at = "idle"
  BY <1>1, <1>2, <1>4, ThenPhase
<1>5. /\ u \in Task /\ ~u.holding
      /\ \/ u.at = "idle" /\ u.item = None
         \/ /\ u.item = t.item
            /\ \/ t.at = "marking" /\ u.at = "clearing"
               \/ t.at = "noting" /\ u.at = "running"
               \/ t.at = "counting" /\ u.at = "burying" /\ a = Listener
               \/ t.at = "requeuing" /\ u.at = "unmarking"
  BY <1>0, <1>1 DEF FilePhases, LogPhases, SeenPhases
<1>6. Fits(a, u)
  <2>1. CASE u.at = "idle"
    BY <1>1, <1>2, <1>5, <2>1, Actors, DeliveryAssumption
    DEF Fits, ListenerPhase, WorkerPhase, OperatorPhase, BaseInv, TypeOK
  <2>2. CASE u.at # "idle"
    BY <1>1, <1>2, <1>3, <1>5, <2>2, Actors
    DEF Fits, ListenerPhase, WorkerPhase, OperatorPhase
  <2> QED
    BY <2>1, <2>2
<1>7. \A j : Going(u, j) => Going(t, j)
  BY <1>5 DEF Going
<1> QED
  BY <1>1, <1>2, <1>4, <1>5, <1>6, <1>7

LEMMA WriteKeepsBase == ASSUME BaseInv, NEW a \in Actor, Write(a) PROVE BaseInv'
<1>1. PICK t : t = task[a]
  OBVIOUS
<1>2. PICK u : u = Then(a, t)
  OBVIOUS
<1>3. /\ t \in Task /\ t.item \in Item /\ u \in Task /\ Fits(a, u)
      /\ \A j : Going(u, j) => Going(task[a], j)
  BY <1>1, <1>2, ThenFits
<1>4. /\ task' = [task EXCEPT ![a] = u] /\ heard' = heard /\ handled' = handled
      /\ replayed' = replayed /\ events' = events
      /\ log' = IF t.at \in LogPhases /\ Writes(t) THEN LogAfter(t) ELSE log
      /\ seen' = IF t.at \in SeenPhases /\ Writes(t) THEN SeenAfter(t) ELSE seen
      /\ contested' = contested \cup Undone(t) \cup Crossing(t)
      /\ unposted' = IF t.at = "requeuing" THEN unposted \ {t.item} ELSE unposted
      /\ runs' = [i \in Poison |->
             IF t.at = "requeuing" /\ t.item = i THEN UnderWay(i, Actor) ELSE runs[i]]
  BY <1>1, <1>2 DEF Write
<1>5. log' \in Log
  BY <1>3, <1>4, LogAfterIs DEF BaseInv, TypeOK
<1>6. SeenAfter(t) \subseteq Item /\ Undone(t) \subseteq Item /\ Crossing(t) \subseteq Item
  BY <1>3 DEF SeenAfter, Undone, Crossing, Task
<1>7. seen' \subseteq Item /\ contested' \subseteq Item /\ unposted' \subseteq Item
  BY <1>4, <1>6 DEF BaseInv, TypeOK
<1>8. \A i \in Poison : /\ UnderWay(i, Actor)' <= UnderWay(i, Actor) /\ UnderWay(i, Actor) \in Nat
                        /\ UnderWay(i, Actor)' \in Nat
  BY <1>3, <1>4, OneStepUnderWay DEF BaseInv
<1>9. TypeOK'
  <2>1. runs' \in [Poison -> Nat]
    BY <1>4, <1>8 DEF BaseInv, TypeOK
  <2>2. task' \in [Actor -> Task]
    BY <1>3, <1>4 DEF BaseInv, TypeOK
  <2> QED
    BY <1>4, <1>5, <1>7, <2>1, <2>2 DEF BaseInv, TypeOK
<1>10. PhasesInv'
  <2>1. handled' \in [Item -> 0 .. 2] /\ \A j \in Poison : handled'[j] = 0
    BY <1>4 DEF BaseInv, TypeOK, PhasesInv
  <2>2. \A j \in Item : handled[j] <= handled'[j]
    BY <1>4 DEF BaseInv, TypeOK
  <2> QED
    BY <1>3, <1>4, <2>1, <2>2, PhasesKept DEF BaseInv
<1>11. StartedInv'
  <2>1. SUFFICES ASSUME NEW i \in Poison PROVE UnderWay(i, Actor)' <= runs'[i]
    BY DEF StartedInv
  <2>2. UnderWay(i, Actor)' <= UnderWay(i, Actor) /\ UnderWay(i, Actor) <= runs[i]
    BY <1>8 DEF BaseInv, StartedInv
  <2>3. UnderWay(i, Actor) \in Nat /\ UnderWay(i, Actor)' \in Nat /\ runs[i] \in Nat
    BY <1>8 DEF BaseInv, TypeOK
  <2> QED
    BY <1>4, <2>2, <2>3
<1> QED
  BY <1>9, <1>10, <1>11 DEF BaseInv

\* Some actors fall idle: their runs are taken off, and nobody else's.
LEMMA UnderWayAfterCrash ==
    ASSUME TypeOK, NEW S \in SUBSET Actor, NEW i,
           task' = [b \in Actor |-> IF b \in S THEN Free ELSE task[b]]
    PROVE  /\ UnderWay(i, Actor)' = UnderWay(i, Actor) - UnderWay(i, S)
           /\ UnderWay(i, S) \in Nat /\ UnderWay(i, Actor) \in Nat /\ UnderWay(i, Actor)' \in Nat
<1>1. PICK A, B, C : /\ A = {b \in Actor : Going(task[b], i)}
                     /\ B = {b \in S : Going(task[b], i)}
                     /\ C = {b \in Actor : Going(task'[b], i)}
  OBVIOUS
<1>2. /\ UnderWay(i, Actor) = Cardinality(A) /\ UnderWay(i, S) = Cardinality(B)
      /\ UnderWay(i, Actor)' = Cardinality(C) /\ IsFiniteSet(B) /\ IsFiniteSet(C)
      /\ Cardinality(A) \in Nat /\ Cardinality(B) \in Nat /\ Cardinality(C) \in Nat
  <2>1. /\ UnderWay(i, Actor) = Cardinality(A) /\ UnderWay(i, Actor)' = Cardinality(C)
        /\ IsFiniteSet(C) /\ Cardinality(A) \in Nat /\ Cardinality(C) \in Nat
    BY <1>1, UnderWayIs, UnderWayIsNext
  <2>2. UnderWay(i, S) = Cardinality(B) /\ IsFiniteSet(B) /\ Cardinality(B) \in Nat
    BY <1>1, UnderWayIs
  <2> QED
    BY <2>1, <2>2
<1>3. C = {b \in Actor \ S : Going(task[b], i)}
  BY <1>1, FreeFields DEF Going
<1>4. A = B \cup C /\ B \cap C = {}
  BY <1>1, <1>3
<1>5. Cardinality(A) = Cardinality(B) + Cardinality(C)
  BY <1>2, <1>4, FS_Union, FS_EmptySet
<1> QED
  BY <1>2, <1>5

LEMMA CrashKeepsBase == ASSUME BaseInv, NEW a \in Actor, Crash(a) PROVE BaseInv'
<1>1. PICK S : S = {b \in Actor : SameProcess(a, b)}
  OBVIOUS
<1>2. /\ task' = [b \in Actor |-> IF b \in S THEN Free ELSE task[b]]
      /\ runs' = [i \in Poison |-> runs[i] - UnderWay(i, S)]
      /\ handled' = handled /\ log' = log /\ unposted' = unposted
  BY <1>1 DEF Crash
<1>3. heard' \subseteq heard
  BY DEF Crash
<1>4. seen' \subseteq seen
  BY DEF Crash
<1>5. replayed' \subseteq Item
  <2>1. \A b \in Actor : ~At(b, "idle") => task[b].item \in Item
    BY RunningItem
  <2> QED
    BY <2>1 DEF Crash, BaseInv, TypeOK
<1>6. contested' \subseteq Item
  <2>1. a = Operator => task[a].item \in Item
    <3>1. a = Operator => ~At(a, "idle")
      BY Actors DEF Crash, SameProcess
    <3> QED
      BY <3>1, RunningItem
  <2> QED
    BY <2>1 DEF Crash, BaseInv, TypeOK
<1>7. events' \in 0 .. MaxEvents
  BY EventType DEF Crash, BaseInv
<1>8. \A i \in Poison : /\ UnderWay(i, Actor)' = UnderWay(i, Actor) - UnderWay(i, S)
                        /\ UnderWay(i, S) \in Nat /\ UnderWay(i, Actor) \in Nat
                        /\ UnderWay(i, Actor)' \in Nat /\ UnderWay(i, Actor) <= runs[i]
                        /\ runs[i] \in Nat
  BY <1>1, <1>2, UnderWayAfterCrash DEF BaseInv, StartedInv, TypeOK
<1>9. runs' \in [Poison -> Nat] /\ StartedInv'
  BY <1>2, <1>8 DEF StartedInv
<1>10. PhasesInv'
  <2>1. \A b \in Actor : task'[b] = Free \/ task'[b] = task[b]
    BY <1>2
  <2> QED
    BY <1>2, <1>3, <2>1, FreeFields, Actors, DeliveryAssumption
    DEF BaseInv, TypeOK, PhasesInv, At, ListenerPhase, WorkerPhase, OperatorPhase
<1>11. TypeOK'
  <2>1. task' \in [Actor -> Task]
    BY <1>2, FreeFields DEF BaseInv, TypeOK
  <2> QED
    BY <1>2, <1>3, <1>4, <1>5, <1>6, <1>7, <1>9, <2>1 DEF BaseInv, TypeOK
<1> QED
  BY <1>9, <1>10, <1>11 DEF BaseInv

LEMMA BaseStep == ASSUME BaseInv, [Next]_vars PROVE BaseInv'
<1>1. CASE UNCHANGED vars
  BY <1>1 DEF vars, files, history, BaseInv, TypeOK, PhasesInv, StartedInv, UnderWay, Busy, At
<1>2. ASSUME NEW a \in Worker \cup {Listener}, NEW i \in Item, Unposted(a, i)
      PROVE  BaseInv'
  BY <1>2, UnpostedKeepsBase
<1>3. ASSUME NEW a \in Worker \cup {Listener}, RunEnds(a) PROVE BaseInv'
  BY <1>3, RunEndsKeepsBase
<1>4. ASSUME NEW a \in Actor, Read(a) \/ Write(a) PROVE BaseInv'
  BY <1>4, ReadKeepsBase, WriteKeepsBase
<1>5. CASE ListenerNext
  BY <1>2, <1>3, <1>4, <1>5, Actors, PollKeepsBase, HandleKeepsBase DEF ListenerNext
<1>6. ASSUME NEW w \in Worker, ServerNext(w) PROVE BaseInv'
  BY <1>2, <1>3, <1>4, <1>6, Actors, IngestKeepsBase DEF ServerNext
<1>7. CASE OperatorNext
  BY <1>4, <1>7, Actors, RequeueKeepsBase DEF OperatorNext
<1> QED
  BY <1>1, <1>5, <1>6, <1>7, CrashKeepsBase DEF Next

LEMMA BaseInit == Init => BaseInv
<1> SUFFICES ASSUME Init PROVE BaseInv
  OBVIOUS
<1>1. \A a \in Actor : task[a] = Free
  BY DEF Init
<1>2. TypeOK
  BY FreeFields, DeliveryAssumption DEF Init, TypeOK, Log, Clean
<1>3. PhasesInv
  BY <1>1, FreeFields, Actors, DeliveryAssumption
  DEF Init, PhasesInv, At, ListenerPhase, WorkerPhase, OperatorPhase
<1>4. StartedInv
  <2>1. SUFFICES ASSUME NEW i \in Poison PROVE UnderWay(i, Actor) <= runs[i]
    BY DEF StartedInv
  <2>2. {a \in Actor : Going(task[a], i)} = {}
    BY <1>1, FreeFields DEF Going
  <2>3. UnderWay(i, Actor) = 0
    BY <2>2, UnderWayIs, FS_EmptySet
  <2> QED
    BY <2>3 DEF Init
<1> QED
  BY <1>2, <1>3, <1>4 DEF BaseInv

LEMMA BaseInvariant == Spec => []BaseInv
<1>1. BaseInv /\ [Next]_vars => BaseInv'
  BY BaseStep
<1> QED
  BY <1>1, BaseInit, PTL DEF Spec

\* The two files, the actors' tasks and the counters have the types their
\* declarations say: no crash takes more runs off a count than were under way.
THEOREM TypeCorrect == Spec => []TypeOK
<1>1. BaseInv => TypeOK
  BY DEF BaseInv
<1> QED
  BY <1>1, BaseInvariant, PTL

-----------------------------------------------------------------------------
(* What an update of a file does to an item nobody got in the way of.       *)

LEMMA WriteMoves ==
    ASSUME BaseInv, NEW a \in Actor, Write(a), NEW t, t = task[a],
           NEW i \in Item \ contested'
    PROVE  /\ i \notin contested
           /\ t.item = i /\ a # Operator => task[Operator].item # i
           /\ t.item = i /\ a = Operator => \A b \in Actor \ {Operator} : task[b].item # i
           /\ t.item # i => log'[i] = log[i] /\ (i \in seen' <=> i \in seen)
           /\ t.at \in LogPhases => (i \in seen' <=> i \in seen)
           /\ t.at \in SeenPhases => log'[i] = log[i]
           /\ t.item = i /\ t.at \in {"noting", "noting_review", "counting"} =>
                 log'[i] = log[i] + 1 /\ LogAfter(t)[i] = log'[i]
           /\ t.item = i /\ t.at = "requeuing" /\ t.log[i] = log[i] => log'[i] = 0
           /\ t.item = i /\ t.at \in {"marking", "burying"} => i \in seen'
           /\ t.item = i /\ t.at = "unmarking" /\ (i \in t.seen <=> i \in seen) => i \notin seen'
<1>1. /\ log' = IF t.at \in LogPhases /\ Writes(t) THEN LogAfter(t) ELSE log
      /\ seen' = IF t.at \in SeenPhases /\ Writes(t) THEN SeenAfter(t) ELSE seen
      /\ contested' = contested \cup Undone(t) \cup Crossing(t)
      /\ t.at \in FilePhases
  BY DEF Write
<1>2. t \in Task /\ t.item \in Item /\ log \in Log /\ t.log \in Log
  <2>1. t \in Task /\ t.item \in Item
    BY ThenFits
  <2> QED
    BY <2>1 DEF BaseInv, TypeOK, Task
<1>3. i \notin contested /\ i \notin Undone(t) /\ i \notin Crossing(t)
  BY <1>1
<1>4. /\ t.item = i /\ a # Operator => task[Operator].item # i
      /\ t.item = i /\ a = Operator => \A b \in Actor \ {Operator} : task[b].item # i
  <2>1. t.item = i => (Operator \in Busy(i) => Busy(i) = {Operator})
    BY <1>3 DEF Crossing
  <2>2. t.item = i => a \in Busy(i)
    BY DEF Busy
  <2>3. (Operator \in Busy(i) <=> task[Operator].item = i)
        /\ \A b \in Actor : (b \in Busy(i) <=> task[b].item = i)
    BY Actors DEF Busy
  <2> QED
    BY <2>1, <2>2, <2>3
<1>5. Writes(t) /\ t.at \in LogPhases => log[i] = t.log[i]
  BY <1>3 DEF Undone
<1>6. Writes(t) /\ t.at \in SeenPhases => (i \in seen <=> i \in t.seen)
  <2>1. t.at \in SeenPhases => t.at \notin LogPhases
    BY DEF LogPhases, SeenPhases
  <2> QED
    BY <1>3, <2>1 DEF Undone
<1>7. t.item # i => log'[i] = log[i]
  BY <1>1, <1>2, <1>5, LogAfterIs
<1>8. t.item # i => (i \in seen' <=> i \in seen)
  BY <1>1, <1>6 DEF SeenAfter
<1>9. t.item = i /\ t.at \in {"noting", "noting_review", "counting"} =>
          log'[i] = log[i] + 1 /\ LogAfter(t)[i] = log'[i]
  <2>1. t.at \in {"noting", "noting_review", "counting"} =>
            t.at \in LogPhases /\ t.at \notin {"clearing", "requeuing"} /\ Writes(t)
    BY WritesIs DEF LogPhases
  <2> QED
    BY <1>1, <1>2, <1>5, <2>1, LogAfterIs
<1>10. t.item = i /\ t.at = "requeuing" /\ t.log[i] = log[i] => log'[i] = 0
  <2>1. t.at = "requeuing" => t.at \in LogPhases /\ (Writes(t) <=> t.log[t.item] > 0)
    BY WritesIs DEF LogPhases
  <2>2. log[i] \in Nat
    BY <1>2 DEF Log
  <2> QED
    BY <1>1, <1>2, <2>1, <2>2, LogAfterIs
<1>11. t.item = i /\ t.at \in {"marking", "burying"} => i \in seen'
  <2>1. t.at \in {"marking", "burying"} => t.at \in SeenPhases /\ t.at # "unmarking" /\ Writes(t)
    BY WritesIs DEF SeenPhases
  <2> QED
    BY <1>1, <2>1 DEF SeenAfter
<1>12. t.item = i /\ t.at = "unmarking" /\ (i \in t.seen <=> i \in seen) => i \notin seen'
  <2>1. t.at = "unmarking" => t.at \in SeenPhases /\ (Writes(t) <=> t.item \in t.seen)
    BY WritesIs DEF SeenPhases
  <2> QED
    BY <1>1, <2>1 DEF SeenAfter
<1>13. /\ t.at \in LogPhases => (i \in seen' <=> i \in seen)
       /\ t.at \in SeenPhases => log'[i] = log[i]
  <2>1. t.at \in LogPhases => t.at \notin SeenPhases
    BY DEF LogPhases, SeenPhases
  <2> QED
    BY <1>1, <2>1
<1> QED
  BY <1>3, <1>4, <1>7, <1>8, <1>9, <1>10, <1>11, <1>12, <1>13

-----------------------------------------------------------------------------
(* Nothing evaporates.                                                      *)

\* A step that does not touch what KeptAt is about.
LEMMA KeptFrame ==
    ASSUME NEW i \in Item, KeptAt(i), task'[Operator] = task[Operator], log'[i] = log[i],
           i \in seen' <=> i \in seen, i \in heard' => i \in heard,
           handled[i] > 0 => handled'[i] > 0, Burying(i)' => Burying(i)
    PROVE  KeptAt(i)'
<1>1. OperatorSees(i)'
  BY DEF KeptAt, OperatorSees, At
<1>2. Kept(i) => Kept(i)'
  BY DEF Kept, Dead, At
<1>3. Dead(log, i) => Dead(log, i)'
  BY DEF Dead
<1> QED
  BY <1>1, <1>2, <1>3 DEF KeptAt

LEMMA WriteKeepsKept ==
    ASSUME BaseInv, KeptInv, NEW a \in Actor, Write(a), NEW i \in Item \ contested'
    PROVE  KeptAt(i)'
<1>1. PICK t : t = task[a]
  OBVIOUS
<1>2. PICK u : u = Then(a, t)
  OBVIOUS
<1>3. /\ task'[a] = u /\ \A b \in Actor \ {a} : task'[b] = task[b]
      /\ heard' = heard /\ handled' = handled /\ t.holding /\ t.at \in FilePhases
  BY <1>1, <1>2 DEF Write, BaseInv, TypeOK
<1>4. /\ i \notin contested
      /\ t.item = i /\ a # Operator => task[Operator].item # i
      /\ t.item = i /\ a = Operator => \A b \in Actor \ {Operator} : task[b].item # i
      /\ t.item # i => log'[i] = log[i] /\ (i \in seen' <=> i \in seen)
      /\ t.at \in LogPhases => (i \in seen' <=> i \in seen)
      /\ t.at \in SeenPhases => log'[i] = log[i]
      /\ t.item = i /\ t.at \in {"noting", "noting_review", "counting"} =>
            log'[i] = log[i] + 1 /\ LogAfter(t)[i] = log'[i]
      /\ t.item = i /\ t.at = "requeuing" /\ t.log[i] = log[i] => log'[i] = 0
      /\ t.item = i /\ t.at \in {"marking", "burying"} => i \in seen'
      /\ t.item = i /\ t.at = "unmarking" /\ (i \in t.seen <=> i \in seen) => i \notin seen'
  BY <1>1, WriteMoves
<1>5. KeptAt(i) /\ log[i] \in Nat
  BY <1>4 DEF KeptInv, BaseInv, TypeOK, Log
<1>6. t \in Task /\ t.item \in Item /\ (u.at # "idle" => u.item = t.item) /\ ~u.holding
      /\ (u.at = "idle" => u.item = None) /\ None \notin Item
  <2>1. /\ t \in Task /\ t.item \in Item /\ ~u.holding /\ Fits(a, u)
        /\ u.at # "idle" => u.item = t.item
    BY <1>1, <1>2, ThenFits
  <2> QED
    BY <2>1, DeliveryAssumption DEF Fits
<1>0. /\ u \in Task /\ ~u.holding
      /\ IF u.at = "idle" THEN u.item = None ELSE u.item = t.item
      /\ t.at = "marking" => u.at = "clearing"
      /\ t.at = "noting" => u.at = "running"
      /\ t.at = "counting" =>
            u.at = IF a = Listener /\ Dead(LogAfter(t), t.item) THEN "burying" ELSE "idle"
      /\ t.at = "requeuing" => u.at = "unmarking"
      /\ t.at \in {"noting_review", "clearing", "burying", "unmarking"} => u.at = "idle"
  BY <1>2, <1>3, <1>6, ThenPhase
<1>7. CASE t.item # i
  <2>1. u.item # i
    BY <1>6, <1>7
  <2>2. CASE a # Operator
    <3>1. task'[Operator] = task[Operator] /\ (Burying(i)' => Burying(i))
      BY <1>1, <1>3, <2>1, <2>2, Actors DEF Burying, At
    <3> QED
      BY <1>3, <1>4, <1>5, <1>7, <3>1, KeptFrame
  <2>3. CASE a = Operator
    <3>1. task'[Operator].item # i /\ task[Operator].item # i /\ task'[Listener] = task[Listener]
      BY <1>1, <1>3, <1>7, <2>1, <2>3, Actors
    <3> QED
      BY <1>3, <1>4, <1>5, <1>7, <3>1 DEF KeptAt, OperatorSees, Kept, Dead, Burying, At
  <2> QED
    BY <2>2, <2>3
<1>8. CASE t.item = i /\ a # Operator
  <2>1. task'[Operator] = task[Operator] /\ task[Operator].item # i
    BY <1>3, <1>4, <1>8, Actors
  <2>2. OperatorSees(i)'
    BY <2>1 DEF OperatorSees
  <2>3. i \in seen => handled[i] > 0 \/ Dead(log, i)
    BY <1>5, <2>1 DEF KeptAt, Kept
  <2>4. Burying(i)' => Burying(i) \/ (a = Listener /\ t.at = "counting" /\ Dead(LogAfter(t), i))
    <3>1. CASE a = Listener
      <4>1. u.at = "burying" => t.at = "counting" /\ Dead(LogAfter(t), i)
        BY <1>0, <1>3, <1>8, <3>1 DEF FilePhases, LogPhases, SeenPhases
      <4> QED
        BY <1>3, <3>1, <4>1 DEF Burying, At
    <3>2. CASE a # Listener
      BY <1>3, <3>2, Actors DEF Burying, At
    <3> QED
      BY <3>1, <3>2
  <2>5. CASE t.at \in {"noting", "noting_review", "counting"}
    <3>1. log'[i] = log[i] + 1 /\ LogAfter(t)[i] = log'[i] /\ (i \in seen' <=> i \in seen)
      BY <1>4, <1>8, <2>5 DEF LogPhases
    <3>2. (Dead(log, i) => Dead(log, i)') /\ (Dead(LogAfter(t), i) => Dead(log, i)')
      BY <1>5, <3>1, DeliveryAssumption DEF Dead
    <3> QED
      BY <1>3, <1>5, <2>2, <2>3, <2>4, <3>1, <3>2 DEF KeptAt, Kept
  <2>6. CASE t.at \in {"clearing", "marking"}
    <3>1. handled'[i] > 0
      BY <1>1, <1>3, <1>8, <2>6 DEF BaseInv, PhasesInv
    <3>2. i \in heard' => i \notin seen'
      <4>1. CASE t.at = "clearing"
        BY <1>3, <1>4, <1>5, <4>1 DEF KeptAt, LogPhases
      <4>2. CASE t.at = "marking"
        <5>1. a = Listener
          BY <1>1, <4>2, Actors DEF BaseInv, PhasesInv, WorkerPhase, OperatorPhase, Actor
        <5> QED
          BY <1>1, <1>3, <1>8, <5>1 DEF BaseInv, PhasesInv
      <4> QED
        BY <2>6, <4>1, <4>2
    <3> QED
      BY <2>2, <3>1, <3>2 DEF KeptAt, Kept
  <2>7. CASE t.at = "burying"
    <3>1. a = Listener
      BY <1>1, <2>7, Actors DEF BaseInv, PhasesInv, WorkerPhase, OperatorPhase, Actor
    <3>2. i \notin heard
      BY <1>1, <1>8, <3>1 DEF BaseInv, PhasesInv
    <3>3. (handled[i] > 0 \/ Dead(log, i)) /\ log'[i] = log[i]
      BY <1>1, <1>4, <1>5, <1>8, <2>7, <3>1 DEF KeptAt, Burying, At, SeenPhases
    <3> QED
      BY <1>3, <2>2, <3>2, <3>3 DEF KeptAt, Kept, Dead
  <2>8. t.at \notin {"requeuing", "unmarking"}
    BY <1>1, <1>8, Actors DEF BaseInv, PhasesInv, WorkerPhase, ListenerPhase, Actor
  <2> QED
    BY <1>3, <2>5, <2>6, <2>7, <2>8 DEF FilePhases, LogPhases, SeenPhases
<1>9. CASE t.item = i /\ a = Operator
  <2>1. t.at \in {"requeuing", "unmarking"}
    BY <1>1, <1>3, <1>9 DEF BaseInv, PhasesInv, OperatorPhase, FilePhases, LogPhases, SeenPhases
  <2>2. ~Burying(i)'
    BY <1>3, <1>4, <1>9, Actors DEF Burying
  <2>3. CASE t.at = "requeuing"
    <3>1. t.log[i] = log[i]
      BY <1>1, <1>3, <1>5, <1>9, <2>3 DEF KeptAt, OperatorSees, At
    <3>2. log'[i] = 0 /\ (i \in seen' <=> i \in seen)
      BY <1>4, <1>9, <2>3, <3>1 DEF LogPhases
    <3>3. u.at = "unmarking" /\ u.item = i /\ ~u.holding
      BY <1>0, <1>9, <2>3
    <3> QED
      BY <1>3, <1>5, <1>9, <2>2, <3>2, <3>3 DEF KeptAt, OperatorSees, Kept, At
  <2>4. CASE t.at = "unmarking"
    <3>1. i \in t.seen <=> i \in seen
      BY <1>1, <1>3, <1>5, <1>9, <2>4 DEF KeptAt, OperatorSees, At
    <3>2. i \notin seen' /\ task'[Operator].item # i
      <4>1. u = Free
        BY <1>2, <2>4, ThenIs
      <4> QED
        BY <1>3, <1>4, <1>6, <1>9, <2>4, <3>1, <4>1, FreeFields
    <3> QED
      BY <2>2, <3>2 DEF KeptAt, OperatorSees
  <2> QED
    BY <2>1, <2>3, <2>4
<1> QED
  BY <1>7, <1>8, <1>9

LEMMA CrashKeepsKept ==
    ASSUME BaseInv, KeptInv, NEW a \in Actor, Crash(a), NEW i \in Item \ contested'
    PROVE  KeptAt(i)'
<1>1. /\ \A b \in Actor : task'[b] = IF SameProcess(a, b) THEN Free ELSE task[b]
      /\ handled' = handled /\ log' = log /\ heard' \subseteq heard
      /\ contested' = contested \cup (seen \ seen') \cup
             (IF a = Operator THEN {task[a].item} ELSE {})
      /\ seen' \subseteq seen
  BY DEF Crash
<1>2. /\ i \notin contested /\ (i \in seen' <=> i \in seen)
      /\ a = Operator => task[Operator].item # i
  BY <1>1
<1>3. KeptAt(i)
  BY <1>2 DEF KeptInv
<1>4. Burying(i)' => Burying(i)
  BY <1>1, FreeFields, Actors DEF Burying, At
<1>5. CASE a # Operator
  <2>1. task'[Operator] = task[Operator]
    BY <1>1, <1>5, Actors DEF SameProcess
  <2> QED
    BY <1>1, <1>2, <1>3, <1>4, <2>1, KeptFrame
<1>6. CASE a = Operator
  <2>1. task'[Operator].item # i /\ task[Operator].item # i
    BY <1>1, <1>2, <1>6, FreeFields, Actors, DeliveryAssumption DEF SameProcess
  <2> QED
    BY <1>1, <1>2, <1>3, <1>4, <2>1 DEF KeptAt, OperatorSees, Kept, Dead
<1> QED
  BY <1>5, <1>6

LEMMA OperatorKeepsKept ==
    ASSUME BaseInv, KeptInv, Read(Operator) \/ \E j \in Item : Requeue(j),
           NEW i \in Item \ contested'
    PROVE  KeptAt(i)'
<1>1. /\ \A b \in Actor \ {Operator} : task'[b] = task[b]
      /\ log' = log /\ seen' = seen /\ heard' = heard /\ handled' = handled
      /\ contested \subseteq contested'
  BY DEF Read, Requeue, files, BaseInv, TypeOK
<1>2. KeptAt(i) /\ (Burying(i)' <=> Burying(i))
  BY <1>1, Actors DEF KeptInv, Burying, At
<1>3. OperatorSees(i)' /\ (Kept(i) => Kept(i)')
  <2>1. ASSUME NEW j \in Item, Requeue(j) PROVE OperatorSees(i)' /\ (Kept(i) => Kept(i)')
    <3>1. PICK t : t = Doing("requeuing", j)
      OBVIOUS
    <3>2. t.at = "requeuing" /\ ~t.holding
      BY <3>1, DoingFields
    <3>3. task'[Operator] = t
      BY <2>1, <3>1, Actors DEF Requeue, BaseInv, TypeOK
    <3> QED
      BY <1>1, <2>1, <3>2, <3>3 DEF OperatorSees, Kept, Dead, At, Requeue
  <2>2. CASE Read(Operator) /\ task[Operator].at \in LogPhases
    <3>1. PICK t : t = [task[Operator] EXCEPT !.holding = TRUE, !.log = log]
      OBVIOUS
    <3>2. /\ t.at = task[Operator].at /\ t.item = task[Operator].item
          /\ t.log = log /\ t.at # "unmarking"
      BY <2>2, <3>1, Actors DEF BaseInv, TypeOK, Task, LogPhases
    <3>3. task'[Operator] = t
      BY <2>2, <3>1, Actors DEF Read, BaseInv, TypeOK
    <3> QED
      BY <1>1, <3>2, <3>3 DEF OperatorSees, Kept, Dead, At
  <2>3. CASE Read(Operator) /\ task[Operator].at \notin LogPhases
    <3>1. PICK s \in {seen, {}} :
            /\ contested' = contested \cup (seen \ s)
            /\ task' = [task EXCEPT ![Operator].holding = TRUE, ![Operator].seen = s]
      BY <2>3 DEF Read
    <3>2. PICK t : t = [task[Operator] EXCEPT !.holding = TRUE, !.seen = s]
      OBVIOUS
    <3>3. /\ t.at = task[Operator].at /\ t.item = task[Operator].item /\ t.seen = s
          /\ t.at # "requeuing"
      BY <2>3, <3>2, Actors DEF BaseInv, TypeOK, Task, LogPhases
    <3>4. task'[Operator] = t
      BY <3>1, <3>2, Actors DEF BaseInv, TypeOK
    <3>5. i \in s <=> i \in seen
      BY <3>1
    <3>6. t.item = i /\ t.at = "unmarking" => log[i] = 0
      BY <1>2, <3>3 DEF KeptAt, OperatorSees, At
    <3>7. OperatorSees(i)'
      BY <1>1, <3>3, <3>4, <3>5, <3>6 DEF OperatorSees, At
    <3>8. Kept(i) => Kept(i)'
      BY <1>1, <3>3, <3>4 DEF Kept, Dead, At
    <3> QED
      BY <3>7, <3>8
  <2> QED
    BY <2>1, <2>2, <2>3
<1> QED
  BY <1>1, <1>2, <1>3 DEF KeptAt, Dead

LEMMA PollKeepsKept ==
    ASSUME BaseInv, KeptInv, Poll, NEW i \in Item \ contested'
    PROVE  KeptAt(i)'
<1>1. /\ task' = task /\ log' = log /\ seen' = seen /\ handled' = handled
      /\ contested' = contested \cup (heard' \cap seen)
  BY DEF Poll, files
<1>2. KeptAt(i) /\ (i \in heard' => i \notin seen')
  BY <1>1 DEF KeptInv
<1>3. (OperatorSees(i) => OperatorSees(i)') /\ (Kept(i) => Kept(i)')
      /\ (Burying(i)' => Burying(i))
  <2>1. task'[Operator] = task[Operator] /\ task'[Listener] = task[Listener]
    BY <1>1
  <2> QED
    BY <1>1, <2>1 DEF OperatorSees, Kept, Dead, At, Burying
<1> QED
  BY <1>1, <1>2, <1>3 DEF KeptAt, Dead

LEMMA ReadMoves ==
    ASSUME BaseInv, NEW a \in Actor, Read(a)
    PROVE  \E t : /\ task' = [task EXCEPT ![a] = t]
                  /\ t.at = task[a].at /\ t.item = task[a].item
<1>1. CASE task[a].at \in LogPhases
  <2>1. PICK t : t = [task[a] EXCEPT !.holding = TRUE, !.log = log]
    OBVIOUS
  <2>2. t.at = task[a].at /\ t.item = task[a].item
    BY <2>1 DEF BaseInv, TypeOK, Task
  <2>3. task' = [task EXCEPT ![a] = t]
    BY <1>1, <2>1 DEF Read
  <2> QED
    BY <2>2, <2>3
<1>2. CASE task[a].at \notin LogPhases
  <2>1. PICK s : task' = [task EXCEPT ![a].holding = TRUE, ![a].seen = s]
    BY <1>2 DEF Read
  <2>2. PICK t : t = [task[a] EXCEPT !.holding = TRUE, !.seen = s]
    OBVIOUS
  <2>3. t.at = task[a].at /\ t.item = task[a].item
    BY <2>2 DEF BaseInv, TypeOK, Task
  <2>4. task' = [task EXCEPT ![a] = t]
    BY <2>1, <2>2
  <2> QED
    BY <2>3, <2>4
<1> QED
  BY <1>1, <1>2

\* A poll loop or a task of the server, between its updates of the files.
Aside(a) ==
    \/ \E i \in Item : Unposted(a, i)
    \/ RunEnds(a)
    \/ Read(a)
    \/ a = Listener /\ \E i \in Item : Handle(i)
    \/ a \in Worker /\ \E i \in Item : Ingest(a, i)

LEMMA AsideTask ==
    ASSUME BaseInv, NEW a \in Worker \cup {Listener}, Aside(a)
    PROVE  \E t : /\ task' = [task EXCEPT ![a] = t]
                  /\ t.at = "burying" => t.at = task[a].at /\ t.item = task[a].item
<1>1. ASSUME NEW phase \in {"running", "noting", "noting_review", "marking", "clearing",
                            "counting"},
             NEW i, task' = [task EXCEPT ![a] = Doing(phase, i)]
      PROVE  \E t : /\ task' = [task EXCEPT ![a] = t]
                    /\ t.at = "burying" => t.at = task[a].at /\ t.item = task[a].item
  <2>1. PICK t : t = Doing(phase, i)
    OBVIOUS
  <2>2. t.at # "burying" /\ task' = [task EXCEPT ![a] = t]
    BY <1>1, <2>1, DoingFields
  <2> QED
    BY <2>2
<1>2. CASE Read(a)
  BY <1>2, Actors, ReadMoves
<1>3. CASE RunEnds(a)
  <2>1. \/ task' = [task EXCEPT ![a] = Doing("counting", task[a].item)]
        \/ task' = [task EXCEPT ![a] = Doing("marking", task[a].item)]
        \/ task' = [task EXCEPT ![a] = Doing("clearing", task[a].item)]
    BY <1>3 DEF RunEnds, FailsInto
  <2> QED
    BY <1>1, <2>1
<1>4. ASSUME NEW i, Run(a, i)
      PROVE  \E t : /\ task' = [task EXCEPT ![a] = t]
                    /\ t.at = "burying" => t.at = task[a].at /\ t.item = task[a].item
  BY <1>1, <1>4 DEF Run
<1>5. ASSUME NEW i, Unposted(a, i)
      PROVE  \E t : /\ task' = [task EXCEPT ![a] = t]
                    /\ t.at = "burying" => t.at = task[a].at /\ t.item = task[a].item
  <2>1. \/ task' = [task EXCEPT ![a] = Doing("noting", i)]
        \/ task' = [task EXCEPT ![a] = Doing("noting_review", i)]
    BY <1>5 DEF Unposted
  <2> QED
    BY <1>1, <2>1
<1> QED
  BY <1>2, <1>3, <1>4, <1>5 DEF Aside, Handle, Ingest

LEMMA AsideKeepsKept ==
    ASSUME BaseInv, KeptInv, NEW a \in Worker \cup {Listener}, Aside(a),
           NEW i \in Item \ contested'
    PROVE  KeptAt(i)'
<1>1. PICK t : /\ task' = [task EXCEPT ![a] = t]
               /\ t.at = "burying" => t.at = task[a].at /\ t.item = task[a].item
  BY AsideTask
<1>2. task'[a] = t /\ \A b \in Actor \ {a} : task'[b] = task[b]
  BY <1>1, Actors DEF BaseInv, TypeOK
<1>3. task'[Operator] = task[Operator] /\ (Burying(i)' => Burying(i))
  BY <1>1, <1>2, Actors DEF Burying, At
<1>4. heard' \subseteq heard /\ contested \subseteq contested' /\ log' = log /\ seen' = seen
  BY DEF Aside, Unposted, RunEnds, Read, Handle, Ingest, files
<1>5. handled[i] > 0 => handled'[i] > 0
  <2>1. handled \in [Item -> 0 .. 2]
    BY DEF BaseInv, TypeOK
  <2>2. CASE RunEnds(a)
    <3>1. \/ handled' = handled
          \/ handled' = [handled EXCEPT ![task[a].item] = IF @ < 2 THEN @ + 1 ELSE 2]
      BY <2>2 DEF RunEnds
    <3> QED
      BY <2>1, <3>1
  <2>3. CASE ~RunEnds(a)
    BY <2>3 DEF Aside, Unposted, Read, Handle, Ingest
  <2> QED
    BY <2>2, <2>3
<1>6. KeptAt(i)
  BY <1>4 DEF KeptInv
<1> QED
  BY <1>3, <1>4, <1>5, <1>6, KeptFrame

LEMMA KeptStep == ASSUME BaseInv, KeptInv, [Next]_vars PROVE KeptInv'
<1> SUFFICES ASSUME NEW i \in Item \ contested' PROVE KeptAt(i)'
  BY DEF KeptInv
<1>1. CASE UNCHANGED vars
  <2>1. contested' = contested /\ task' = task /\ log' = log /\ seen' = seen /\ heard' = heard
        /\ handled' = handled
    BY <1>1 DEF vars, files, history
  <2>2. KeptAt(i) /\ (Burying(i)' => Burying(i))
    BY <2>1 DEF KeptInv, Burying, At
  <2> QED
    BY <2>1, <2>2, KeptFrame
<1>2. ASSUME NEW a \in Worker \cup {Listener}, Aside(a) \/ Write(a) PROVE KeptAt(i)'
  BY <1>2, AsideKeepsKept, WriteKeepsKept, Actors
<1>3. CASE ListenerNext
  BY <1>2, <1>3, PollKeepsKept DEF ListenerNext, Aside
<1>4. ASSUME NEW w \in Worker, ServerNext(w) PROVE KeptAt(i)'
  BY <1>2, <1>4 DEF ServerNext, Aside
<1>5. CASE OperatorNext
  BY <1>5, OperatorKeepsKept, WriteKeepsKept, Actors DEF OperatorNext
<1> QED
  BY <1>1, <1>3, <1>4, <1>5, CrashKeepsKept DEF Next

LEMMA KeptInvariant == Spec => []KeptInv
<1>1. Init => KeptInv
  <2> SUFFICES ASSUME Init, NEW i \in Item \ contested PROVE KeptAt(i)
    BY DEF KeptInv
  <2>1. task[Operator] = Free /\ task[Listener] = Free /\ seen = {}
    BY Actors DEF Init
  <2> QED
    BY <2>1, FreeFields, DeliveryAssumption DEF KeptAt, OperatorSees, Burying, At
<1>2. BaseInv /\ KeptInv /\ [Next]_vars => KeptInv'
  BY KeptStep
<1> QED
  BY <1>1, <1>2, BaseInvariant, PTL DEF Spec

\* "Dead is not lost": whatever crashes, fails or is requeued, a complaint the
\* listener will not fetch again has been handled, has a dead record or is being
\* requeued, as long as no two processes got in each other's way about it
\* (SeenStore, DeliveryLog, requeue_everywhere).
THEOREM NothingEverEvaporates == Spec => []NothingEvaporates
<1>1. BaseInv /\ KeptInv => NothingEvaporates
  BY DEF BaseInv, TypeOK, KeptInv, KeptAt, NothingEvaporates
<1> QED
  BY <1>1, BaseInvariant, KeptInvariant, PTL

-----------------------------------------------------------------------------
(* What a poisoned item costs.                                              *)

LEMMA WorkersCount ==
    ASSUME NEW i
    PROVE  /\ IsFiniteSet(WorkersOn(i)) /\ IsFiniteSet(WorkersOn(i)')
           /\ Cardinality(WorkersOn(i)) \in Nat /\ Cardinality(WorkersOn(i))' \in Nat
           /\ Cardinality(WorkersOn(i)) <= Cardinality(Worker) /\ Cardinality(Worker) \in Nat
           /\ Cardinality(WorkersOn(i))' = Cardinality(WorkersOn(i)')
<1>1. WorkersOn(i) \in SUBSET Worker /\ WorkersOn(i)' \in SUBSET Worker /\ IsFiniteSet(Worker)
  BY DeliveryAssumption DEF WorkersOn
<1>2. /\ IsFiniteSet(WorkersOn(i)) /\ IsFiniteSet(WorkersOn(i)')
      /\ Cardinality(WorkersOn(i)) <= Cardinality(Worker)
  BY <1>1, FS_Subset
<1>3. /\ Cardinality(WorkersOn(i)) \in Nat /\ Cardinality(WorkersOn(i)') \in Nat
      /\ Cardinality(Worker) \in Nat
  BY <1>1, <1>2, FS_CardinalityType
<1> QED
  BY <1>2, <1>3

\* A step of one actor adds it to the workers on i, or takes it away.
LEMMA OneStepWorkers ==
    ASSUME BaseInv, NEW a \in Actor, NEW t, task' = [task EXCEPT ![a] = t], NEW i
    PROVE  /\ a \notin Worker \/ (On(t, i) <=> On(task[a], i)) =>
                 Cardinality(WorkersOn(i))' = Cardinality(WorkersOn(i))
           /\ a \in Worker /\ On(t, i) /\ ~On(task[a], i) =>
                 Cardinality(WorkersOn(i))' = Cardinality(WorkersOn(i)) + 1
           /\ a \in Worker /\ ~On(t, i) /\ On(task[a], i) =>
                 Cardinality(WorkersOn(i))' = Cardinality(WorkersOn(i)) - 1
<1>1. task'[a] = t /\ \A b \in Actor \ {a} : task'[b] = task[b]
  BY DEF BaseInv, TypeOK
<1>2. PICK S, T, m, n : /\ S = WorkersOn(i) /\ T = WorkersOn(i)'
                        /\ m = Cardinality(WorkersOn(i)) /\ n = Cardinality(WorkersOn(i))'
  OBVIOUS
<1>3. /\ IsFiniteSet(S) /\ m = Cardinality(S) /\ n = Cardinality(T)
      /\ \A w \in Worker : (w \in S <=> On(task[w], i)) /\ (w \in T <=> On(task'[w], i))
      /\ S \subseteq Worker /\ T \subseteq Worker
  BY <1>2, WorkersCount DEF WorkersOn, OnIt
<1>4. \A w \in Worker \ {a} : w \in S <=> w \in T
  BY <1>1, <1>3, Actors
<1>5. CASE a \notin Worker \/ (On(t, i) <=> On(task[a], i))
  <2>1. S = T
    BY <1>1, <1>3, <1>4, <1>5
  <2> QED
    BY <1>2, <1>3, <1>5, <2>1
<1>6. CASE a \in Worker /\ On(t, i) /\ ~On(task[a], i)
  <2>1. T = S \cup {a} /\ a \notin S
    BY <1>1, <1>3, <1>4, <1>6
  <2>2. Cardinality(S \cup {a}) = Cardinality(S) + 1
    BY <1>3, <2>1, FS_AddElement
  <2> QED
    BY <1>2, <1>3, <1>6, <2>1, <2>2
<1>7. CASE a \in Worker /\ ~On(t, i) /\ On(task[a], i)
  <2>1. T = S \ {a} /\ a \in S
    BY <1>1, <1>3, <1>4, <1>7
  <2>2. Cardinality(S \ {a}) = Cardinality(S) - 1
    BY <1>3, <2>1, FS_RemoveElement
  <2> QED
    BY <1>2, <1>3, <1>7, <2>1, <2>2
<1> QED
  BY <1>2, <1>5, <1>6, <1>7

\* Nothing the bound depends on gets worse.
LEMMA CostSame ==
    ASSUME NEW i, CostAt(i), runs'[i] = runs[i], log'[i] = log[i],
           Cardinality(WorkersOn(i))' = Cardinality(WorkersOn(i)),
           OnIt(Listener, i)' <=> OnIt(Listener, i), MayStart(i)' => MayStart(i)
    PROVE  CostAt(i)'
BY DEF CostAt, Dead

LEMMA WriteKeepsCost ==
    ASSUME BaseInv, KeptInv, CostInv, NEW a \in Actor, Write(a), NEW i \in Poison \ contested'
    PROVE  CostAt(i)'
<1>1. PICK t : t = task[a]
  OBVIOUS
<1>2. PICK u : u = Then(a, t)
  OBVIOUS
<1>3. /\ task' = [task EXCEPT ![a] = u] /\ task'[a] = u
      /\ \A b \in Actor \ {a} : task'[b] = task[b]
      /\ handled' = handled /\ t.holding /\ t.at \in FilePhases
      /\ runs'[i] = IF t.at = "requeuing" /\ t.item = i THEN UnderWay(i, Actor) ELSE runs[i]
  BY <1>1, <1>2 DEF Write, BaseInv, TypeOK
<1>4. i \in Item \ contested'
  BY DeliveryAssumption
<1>5. /\ i \notin contested
      /\ t.item = i /\ a # Operator => task[Operator].item # i
      /\ t.item = i /\ a = Operator => \A b \in Actor \ {Operator} : task[b].item # i
      /\ t.item # i => log'[i] = log[i] /\ (i \in seen' <=> i \in seen)
      /\ t.at \in LogPhases => (i \in seen' <=> i \in seen)
      /\ t.at \in SeenPhases => log'[i] = log[i]
      /\ t.item = i /\ t.at \in {"noting", "noting_review", "counting"} =>
            log'[i] = log[i] + 1 /\ LogAfter(t)[i] = log'[i]
      /\ t.item = i /\ t.at = "requeuing" /\ t.log[i] = log[i] => log'[i] = 0
      /\ t.item = i /\ t.at \in {"marking", "burying"} => i \in seen'
      /\ t.item = i /\ t.at = "unmarking" /\ (i \in t.seen <=> i \in seen) => i \notin seen'
  BY <1>1, <1>4, WriteMoves
<1>6. t \in Task /\ t.item \in Item
  BY <1>1, ThenFits
<1>7. /\ u \in Task /\ ~u.holding
      /\ IF u.at = "idle" THEN u.item = None ELSE u.item = t.item
      /\ t.at = "marking" => u.at = "clearing"
      /\ t.at = "noting" => u.at = "running"
      /\ t.at = "counting" =>
            u.at = IF a = Listener /\ Dead(LogAfter(t), t.item) THEN "burying" ELSE "idle"
      /\ t.at = "requeuing" => u.at = "unmarking"
      /\ t.at \in {"noting_review", "clearing", "burying", "unmarking"} => u.at = "idle"
  BY <1>2, <1>3, <1>6, ThenPhase
<1>8. /\ CostAt(i) /\ KeptAt(i) /\ log[i] \in Nat /\ runs[i] \in Nat /\ MaxAttempts \in Nat \ {0}
      /\ None # i /\ handled[i] = 0
  BY <1>4, <1>5, DeliveryAssumption
  DEF CostInv, KeptInv, BaseInv, TypeOK, Log, PhasesInv
<1>9. PICK m, n : m = Cardinality(WorkersOn(i)) /\ n = Cardinality(WorkersOn(i))'
  OBVIOUS
<1>10. /\ m \in Nat /\ n \in Nat /\ m <= Cardinality(Worker) /\ Cardinality(Worker) \in Nat
  BY <1>9, WorkersCount
<1>11. /\ a \notin Worker \/ (On(u, i) <=> On(t, i)) => n = m
       /\ a \in Worker /\ ~On(u, i) /\ On(t, i) => n = m - 1
  <2>1. /\ a \notin Worker \/ (On(u, i) <=> On(task[a], i)) => n = m
        /\ a \in Worker /\ ~On(u, i) /\ On(task[a], i) => n = m - 1
    BY <1>3, <1>9, OneStepWorkers
  <2> QED
    BY <1>1, <2>1
<1>12. /\ a # Listener => (OnIt(Listener, i)' <=> OnIt(Listener, i)) /\ (Burying(i)' <=> Burying(i))
       /\ a = Listener => /\ OnIt(Listener, i)' <=> On(u, i)
                          /\ OnIt(Listener, i) <=> On(t, i)
                          /\ Burying(i)' <=> u.at = "burying" /\ u.item = i
                          /\ Burying(i) <=> t.at = "burying" /\ t.item = i
  BY <1>1, <1>3, Actors DEF OnIt, Burying, At
<1>13. CASE t.item # i
  <2>1. ~On(u, i) /\ ~On(t, i) /\ u.item # i /\ runs'[i] = runs[i] /\ log'[i] = log[i]
        /\ (i \in seen' <=> i \in seen)
    BY <1>3, <1>5, <1>7, <1>8, <1>13 DEF On
  <2>2. n = m /\ (OnIt(Listener, i)' <=> OnIt(Listener, i)) /\ (Burying(i)' <=> Burying(i))
    BY <1>11, <1>12, <1>13, <2>1
  <2>3. MayStart(i)' => MayStart(i)
    BY <2>1, <2>2 DEF MayStart
  <2> QED
    BY <1>8, <1>9, <2>1, <2>2, <2>3, CostSame
<1>14. CASE t.item = i /\ t.at \in {"noting", "noting_review", "counting"}
  <2>1. log'[i] = log[i] + 1 /\ LogAfter(t)[i] = log'[i] /\ runs'[i] = runs[i]
        /\ (i \in seen' <=> i \in seen)
    BY <1>3, <1>5, <1>14 DEF LogPhases
  <2>2. /\ \/ n = m /\ (OnIt(Listener, i)' <=> OnIt(Listener, i))
           \/ n = m - 1 /\ (OnIt(Listener, i)' <=> OnIt(Listener, i))
           \/ n = m /\ OnIt(Listener, i) /\ ~OnIt(Listener, i)'
        /\ log[i] + 1 >= MaxAttempts /\ MayStart(i)' => MayStart(i) /\ ~OnIt(Listener, i)
    <3>1. CASE a # Listener
      <4>1. (n = m \/ n = m - 1) /\ (OnIt(Listener, i)' <=> OnIt(Listener, i))
        <5>1. On(u, i) => On(t, i)
          BY <1>7, <1>14 DEF On, OnRun
        <5> QED
          BY <1>11, <1>12, <3>1, <5>1
      <4>2. MayStart(i)' => MayStart(i) /\ ~OnIt(Listener, i)
        BY <1>12, <2>1, <3>1 DEF MayStart
      <4> QED
        BY <4>1, <4>2
    <3>2. CASE a = Listener
      <4>1. n = m /\ t.at # "noting_review"
        BY <1>1, <1>11, <3>2, Actors DEF BaseInv, PhasesInv, ListenerPhase
      <4>2. OnIt(Listener, i)
        BY <1>12, <1>14, <3>2, <4>1 DEF On, OnRun
      <4>3. log[i] + 1 >= MaxAttempts => ~MayStart(i)'
        <5>1. CASE t.at = "noting"
          BY <1>7, <1>8, <1>12, <1>14, <3>2, <5>1 DEF MayStart, On, OnRun
        <5>2. CASE t.at = "counting" /\ log[i] + 1 >= MaxAttempts
          <6>1. Dead(LogAfter(t), t.item)
            BY <1>14, <2>1, <5>2 DEF Dead
          <6>2. Burying(i)'
            BY <1>7, <1>12, <1>14, <3>2, <5>2, <6>1
          <6> QED
            BY <6>2 DEF MayStart
        <5> QED
          BY <1>14, <4>1, <5>1, <5>2
      <4> QED
        BY <4>1, <4>2, <4>3
    <3> QED
      BY <3>1, <3>2
  <2> QED
    BY <1>8, <1>9, <1>10, <2>1, <2>2 DEF CostAt, Dead
<1>15. CASE t.item = i /\ t.at \in {"marking", "clearing"}
  BY <1>1, <1>8, <1>15 DEF BaseInv, PhasesInv
<1>16. CASE t.item = i /\ t.at = "burying"
  <2>1. i \in seen' /\ log'[i] = log[i] /\ runs'[i] = runs[i] /\ ~On(u, i) /\ ~On(t, i)
    BY <1>3, <1>5, <1>7, <1>8, <1>16 DEF SeenPhases, On, OnRun
  <2>2. n = m /\ (OnIt(Listener, i)' <=> OnIt(Listener, i)) /\ ~MayStart(i)'
    BY <1>11, <1>12, <2>1 DEF MayStart
  <2> QED
    BY <1>8, <1>9, <2>1, <2>2, CostSame
<1>17. CASE t.item = i /\ t.at \in {"requeuing", "unmarking"}
  <2>1. a = Operator
    BY <1>1, <1>17, Actors DEF BaseInv, PhasesInv, ListenerPhase, WorkerPhase, Actor
  <2>2. /\ n = m /\ (OnIt(Listener, i)' <=> OnIt(Listener, i)) /\ ~OnIt(Listener, i)
    BY <1>5, <1>11, <1>12, <1>17, <2>1, Actors DEF OnIt, On
  <2>3. CASE t.at = "requeuing"
    <3>1. t.log[i] = log[i]
      BY <1>1, <1>3, <1>8, <1>17, <2>1, <2>3 DEF KeptAt, OperatorSees, At
    <3>2. log'[i] = 0
      BY <1>5, <1>17, <2>3, <3>1
    <3>3. {b \in Actor : Going(task[b], i)} = {}
      BY <1>1, <1>5, <1>17, <2>1, <2>3 DEF Going
    <3>4. runs'[i] = 0
      BY <1>3, <1>17, <2>3, <3>3, UnderWayIs, FS_EmptySet
    <3> QED
      BY <1>8, <1>9, <1>10, <2>2, <3>2, <3>4 DEF CostAt, Dead
  <2>4. CASE t.at = "unmarking"
    <3>1. log[i] = 0 /\ log'[i] = log[i] /\ runs'[i] = runs[i]
      BY <1>1, <1>3, <1>5, <1>8, <1>17, <2>1, <2>4 DEF KeptAt, OperatorSees, At, SeenPhases
    <3> QED
      BY <1>8, <1>9, <2>2, <3>1 DEF CostAt, Dead
  <2> QED
    BY <1>17, <2>3, <2>4
<1> QED
  BY <1>3, <1>13, <1>14, <1>15, <1>16, <1>17 DEF FilePhases, LogPhases, SeenPhases

\* A step of one actor that leaves it on i, or off it, and a burial to its end.
LEMMA PlainCost ==
    ASSUME BaseInv, NEW a \in Actor, NEW t, task' = [task EXCEPT ![a] = t], NEW i, CostAt(i),
           On(t, i) <=> On(task[a], i),
           task[a].at = "burying" /\ task[a].item = i => t.at = "burying" /\ t.item = i,
           runs'[i] = runs[i], log'[i] = log[i], i \in seen' <=> i \in seen
    PROVE  CostAt(i)'
<1>1. Cardinality(WorkersOn(i))' = Cardinality(WorkersOn(i))
  BY OneStepWorkers
<1>2. task'[a] = t /\ \A b \in Actor \ {a} : task'[b] = task[b]
  BY DEF BaseInv, TypeOK
<1>3. (OnIt(Listener, i)' <=> OnIt(Listener, i)) /\ (Burying(i) => Burying(i)')
  BY <1>2, Actors DEF OnIt, Burying, At
<1>4. MayStart(i)' => MayStart(i)
  BY <1>3 DEF MayStart
<1> QED
  BY <1>1, <1>3, <1>4, CostSame

\* The ends of a run that start none.
LEMMA AsideCost ==
    ASSUME BaseInv, CostInv, NEW a \in Actor,
           \/ \E j \in Item : Unposted(a, j)
           \/ RunEnds(a)
           \/ Read(a)
           \/ a = Operator /\ \E j \in Item : Requeue(j),
           NEW i \in Poison \ contested'
    PROVE  CostAt(i)'
<1>1. /\ runs' = runs /\ log' = log /\ seen' = seen /\ contested \subseteq contested'
  BY DEF Unposted, RunEnds, Read, Requeue, files
<1>2. CostAt(i) /\ i \in Item
  BY <1>1, DeliveryAssumption DEF CostInv
<1>3. ASSUME NEW t, task' = [task EXCEPT ![a] = t], On(t, i) <=> On(task[a], i),
             task[a].at = "burying" /\ task[a].item = i => t.at = "burying" /\ t.item = i
      PROVE  CostAt(i)'
  BY <1>1, <1>2, <1>3, PlainCost
<1>4. ASSUME NEW j \in Item, Unposted(a, j) PROVE CostAt(i)'
  <2>1. PICK t : /\ task' = [task EXCEPT ![a] = t]
                 /\ \/ t = Doing("noting", j) /\ At(a, "running") /\ task[a].item = j
                    \/ t = Doing("noting_review", j) /\ At(a, "idle")
    BY <1>4 DEF Unposted
  <2>2. On(t, i) <=> On(task[a], i)
    BY <2>1, DoingFields DEF On, OnRun, At
  <2>3. task[a].at # "burying"
    BY <2>1 DEF At
  <2> QED
    BY <1>3, <2>1, <2>2, <2>3
<1>5. CASE RunEnds(a)
  <2>1. PICK t : /\ task' = [task EXCEPT ![a] = t]
                 /\ \/ t = Doing("counting", task[a].item)
                    \/ /\ t = Doing("marking", task[a].item) \/ t = Doing("clearing", task[a].item)
                       /\ task[a].item \notin Poison
    BY <1>5 DEF RunEnds, FailsInto
  <2>2. On(t, i) <=> On(task[a], i)
    BY <1>5, <2>1, DoingFields DEF On, OnRun, At, RunEnds
  <2>3. task[a].at # "burying"
    BY <1>5 DEF At, RunEnds
  <2> QED
    BY <1>3, <2>1, <2>2, <2>3
<1>6. CASE Read(a)
  <2>1. PICK t : task' = [task EXCEPT ![a] = t] /\ t.at = task[a].at /\ t.item = task[a].item
    BY <1>6, ReadMoves
  <2> QED
    BY <1>3, <2>1 DEF On
<1>7. ASSUME NEW j \in Item, Requeue(j), a = Operator PROVE CostAt(i)'
  <2>1. PICK t : t = Doing("requeuing", j)
    OBVIOUS
  <2>2. task' = [task EXCEPT ![a] = t] /\ task[a].at = "idle" /\ t.at = "requeuing"
    BY <1>7, <2>1, DoingFields DEF Requeue, At
  <2>3. ~On(t, i) /\ ~On(task[a], i)
    BY <2>2 DEF On, OnRun
  <2> QED
    BY <1>3, <2>2, <2>3
<1> QED
  BY <1>4, <1>5, <1>6, <1>7

\* The poll loop starts a run of what it has not buried, the server of what is
\* not dead.
LEMMA RunCost ==
    ASSUME BaseInv, KeptInv, CostInv, NEW a \in Actor, NEW j \in Item,
           \/ a = Listener /\ Handle(j)
           \/ a \in Worker /\ Ingest(a, j),
           NEW i \in Poison \ contested'
    PROVE  CostAt(i)'
<1>1. /\ Run(a, j) /\ log' = log /\ seen' = seen /\ contested' = contested /\ At(a, "idle")
      /\ a = Listener => j \in heard
      /\ a \in Worker => ~Dead(log, j)
  BY Actors DEF Handle, Ingest, Ingests, files
<1>2. PICK t : t = Doing("running", j)
  OBVIOUS
<1>3. /\ task' = [task EXCEPT ![a] = t] /\ t.at = "running" /\ t.item = j
      /\ runs' = [k \in Poison |-> IF k = j THEN runs[k] + 1 ELSE runs[k]]
  BY <1>1, <1>2, DoingFields DEF Run
<1>4. task[a].at = "idle" /\ (On(t, i) <=> i = j) /\ ~On(task[a], i)
  BY <1>1, <1>3 DEF On, OnRun, At
<1>5. i \in Item \ contested
  BY <1>1, DeliveryAssumption
<1>6. CostAt(i) /\ KeptAt(i) /\ runs[i] \in Nat /\ log[i] \in Nat /\ MaxAttempts \in Nat \ {0}
  BY <1>5, DeliveryAssumption DEF CostInv, KeptInv, BaseInv, TypeOK, Log
<1>7. CASE i # j
  <2>1. runs'[i] = runs[i]
    BY <1>3, <1>7
  <2> QED
    BY <1>1, <1>3, <1>4, <1>6, <1>7, <2>1, PlainCost
<1>8. CASE i = j
  <2>1. runs'[i] = runs[i] + 1
    BY <1>3, <1>8
  <2>2. PICK m, n : m = Cardinality(WorkersOn(i)) /\ n = Cardinality(WorkersOn(i))'
    OBVIOUS
  <2>3. /\ m \in Nat /\ n \in Nat /\ m <= Cardinality(Worker) /\ Cardinality(Worker) \in Nat
    BY <2>2, WorkersCount
  <2>4. /\ a \notin Worker => n = m
        /\ a \in Worker => n = m + 1
    BY <1>3, <1>4, <1>8, <2>2, OneStepWorkers
  <2>5. task'[a] = t /\ \A b \in Actor \ {a} : task'[b] = task[b]
    BY <1>3 DEF BaseInv, TypeOK
  <2>6. CASE a = Listener
    <3>1. MayStart(i) /\ ~OnIt(Listener, i)
      BY <1>1, <1>4, <1>6, <1>8, <2>6 DEF MayStart, KeptAt, OnIt, On, OnRun, Burying, At
    <3>2. OnIt(Listener, i)' /\ ~MayStart(i)'
      BY <1>4, <1>8, <2>5, <2>6 DEF MayStart, OnIt
    <3> QED
      BY <1>1, <1>6, <2>1, <2>2, <2>3, <2>4, <2>6, <3>1, <3>2, Actors DEF CostAt, Dead
  <2>7. CASE a \in Worker
    <3>1. OnIt(Listener, i)' <=> OnIt(Listener, i)
      BY <2>5, <2>7, Actors DEF OnIt
    <3>2. ~Dead(log, i)
      BY <1>1, <1>8, <2>7
    <3> QED
      BY <1>1, <1>6, <2>1, <2>2, <2>3, <2>4, <2>7, <3>1, <3>2 DEF CostAt, Dead
  <2> QED
    BY <2>6, <2>7
<1> QED
  BY <1>7, <1>8

\* A crash takes off the count the runs it cuts short.
LEMMA CrashCost ==
    ASSUME BaseInv, CostInv, NEW a \in Actor, Crash(a), NEW i \in Poison \ contested'
    PROVE  CostAt(i)'
<1>1. PICK S : S = {b \in Actor : SameProcess(a, b)}
  OBVIOUS
<1>2. /\ task' = [b \in Actor |-> IF b \in S THEN Free ELSE task[b]]
      /\ runs'[i] = runs[i] - UnderWay(i, S) /\ log' = log
      /\ contested \subseteq contested' /\ seen' \subseteq seen /\ seen \ seen' \subseteq contested'
  BY <1>1 DEF Crash
<1>3. (i \in seen' <=> i \in seen) /\ CostAt(i) /\ i \in Item
  BY <1>2, DeliveryAssumption DEF CostInv
<1>4. /\ runs[i] \in Nat /\ log[i] \in Nat /\ MaxAttempts \in Nat \ {0} /\ None # i
  BY <1>3, DeliveryAssumption DEF BaseInv, TypeOK, Log
<1>5. /\ UnderWay(i, S) = Cardinality({b \in S : Going(task[b], i)})
      /\ UnderWay(i, S) \in Nat /\ IsFiniteSet({b \in S : Going(task[b], i)})
  BY <1>1, UnderWayIs
<1>6. PICK m, n : m = Cardinality(WorkersOn(i)) /\ n = Cardinality(WorkersOn(i))'
  OBVIOUS
<1>7. /\ m \in Nat /\ n \in Nat /\ m <= Cardinality(Worker) /\ Cardinality(Worker) \in Nat
  BY <1>6, WorkersCount
<1>8. ~On(Free, i)
  BY <1>4, FreeFields DEF On
<1>9. \A b \in Actor : task'[b] = IF b \in S THEN Free ELSE task[b]
  BY <1>2
<1>10. CASE a \in Worker
  <2>1. S = Worker
    BY <1>1, <1>10, Actors DEF SameProcess
  <2>2. OnIt(Listener, i)' <=> OnIt(Listener, i)
    BY <1>9, <2>1, Actors DEF OnIt
  <2>3. MayStart(i)' => MayStart(i)
    BY <1>3, <1>9, <2>1, <2>2, Actors DEF MayStart, Burying, At
  <2>4. WorkersOn(i) \in SUBSET {b \in S : Going(task[b], i)}
    BY <2>1 DEF WorkersOn, OnIt, On, OnRun, Going
  <2>5. m <= UnderWay(i, S)
    BY <1>5, <1>6, <2>4, FS_Subset
  <2> QED
    BY <1>2, <1>3, <1>4, <1>5, <1>6, <1>7, <2>2, <2>3, <2>5 DEF CostAt, Dead
<1>11. CASE a \notin Worker
  <2>1. S = {a}
    BY <1>1, <1>11 DEF SameProcess
  <2>2. n = m
    <3>1. \A w \in Worker : task'[w] = task[w]
      BY <1>9, <1>11, <2>1, Actors
    <3>2. WorkersOn(i)' = WorkersOn(i)
      BY <3>1 DEF WorkersOn, OnIt
    <3> QED
      BY <1>6, <3>2
  <2>3. CASE a = Listener
    <3>1. ~OnIt(Listener, i)'
      BY <1>8, <1>9, <2>1, <2>3 DEF OnIt
    <3>2. CASE Going(task[Listener], i)
      <4>1. {b \in S : Going(task[b], i)} = {Listener}
        BY <2>1, <2>3, <3>2
      <4>2. UnderWay(i, S) = 1
        BY <1>5, <4>1, FS_Singleton
      <4> QED
        BY <1>2, <1>3, <1>4, <1>6, <1>7, <2>2, <3>1, <4>2 DEF CostAt, Dead
    <3>3. CASE ~Going(task[Listener], i)
      <4>1. {b \in S : Going(task[b], i)} = {}
        BY <2>1, <2>3, <3>3
      <4>2. UnderWay(i, S) = 0
        BY <1>5, <4>1, FS_EmptySet
      <4>3. ~OnIt(Listener, i) /\ ~Burying(i)
        BY <3>3 DEF OnIt, On, OnRun, Going, Burying, At
      <4> QED
        BY <1>2, <1>3, <1>4, <1>6, <1>7, <2>2, <3>1, <4>2, <4>3 DEF CostAt, Dead, MayStart
    <3> QED
      BY <3>2, <3>3
  <2>4. CASE a = Operator
    <3>1. {b \in S : Going(task[b], i)} = {}
      BY <2>1, <2>4 DEF Going, BaseInv, PhasesInv, OperatorPhase
    <3>2. UnderWay(i, S) = 0
      BY <1>5, <3>1, FS_EmptySet
    <3>3. task'[Listener] = task[Listener]
      BY <1>9, <2>1, <2>4, Actors
    <3>4. (OnIt(Listener, i)' <=> OnIt(Listener, i)) /\ (MayStart(i)' => MayStart(i))
      BY <1>3, <3>3 DEF OnIt, MayStart, Burying, At
    <3>5. runs'[i] = runs[i] /\ log'[i] = log[i]
      BY <1>2, <1>4, <3>2
    <3>6. Cardinality(WorkersOn(i))' = Cardinality(WorkersOn(i))
      BY <1>6, <2>2
    <3> QED
      BY <1>3, <3>4, <3>5, <3>6, CostSame
  <2> QED
    BY <1>11, <2>3, <2>4 DEF Actor
<1> QED
  BY <1>10, <1>11

LEMMA CostStep == ASSUME BaseInv, KeptInv, CostInv, [Next]_vars PROVE CostInv'
<1> SUFFICES ASSUME NEW i \in Poison \ contested' PROVE CostAt(i)'
  BY DEF CostInv
<1>1. CASE UNCHANGED vars \/ Poll
  <2>1. task' = task /\ runs' = runs /\ log' = log /\ seen' = seen /\ contested \subseteq contested'
    BY <1>1 DEF vars, files, history, Poll
  <2>2. CostAt(i)
    BY <2>1 DEF CostInv
  <2>3. task' = [task EXCEPT ![Listener] = task[Listener]]
    BY <2>1 DEF BaseInv, TypeOK
  <2> QED
    BY <2>1, <2>2, <2>3, PlainCost, Actors
<1>2. ASSUME NEW a \in Actor,
             (\E j \in Item : Unposted(a, j)) \/ RunEnds(a) \/ Read(a) \/ Write(a)
      PROVE  CostAt(i)'
  BY <1>2, AsideCost, WriteKeepsCost
<1>3. CASE ListenerNext
  <2>1. ASSUME NEW j \in Item, Handle(j) PROVE CostAt(i)'
    BY <2>1, RunCost, Actors
  <2> QED
    BY <1>1, <1>2, <1>3, <2>1, Actors DEF ListenerNext
<1>4. ASSUME NEW w \in Worker, ServerNext(w) PROVE CostAt(i)'
  <2>1. ASSUME NEW j \in Item, Ingest(w, j) PROVE CostAt(i)'
    BY <2>1, RunCost, Actors
  <2> QED
    BY <1>2, <1>4, <2>1, Actors DEF ServerNext
<1>5. CASE OperatorNext
  <2>1. ASSUME NEW j \in Item, Requeue(j) PROVE CostAt(i)'
    BY <2>1, AsideCost, Actors
  <2> QED
    BY <1>2, <1>5, <2>1, Actors DEF OperatorNext
<1> QED
  BY <1>1, <1>3, <1>4, <1>5, CrashCost DEF Next

LEMMA CostInvariant == Spec => []CostInv
<1>1. Init => CostInv
  <2> SUFFICES ASSUME Init, NEW i \in Poison PROVE CostAt(i)
    BY DEF CostInv
  <2>1. runs[i] = 0 /\ log[i] = 0 /\ i \in Item /\ ~OnIt(Listener, i)
    BY Actors, FreeFields, DeliveryAssumption DEF Init, Clean, OnIt, On
  <2> QED
    BY <2>1, WorkersCount, DeliveryAssumption DEF CostAt, Dead
<1>2. BaseInv /\ KeptInv /\ CostInv /\ [Next]_vars => CostInv'
  BY CostStep
<1> QED
  BY <1>1, <1>2, BaseInvariant, KeptInvariant, PTL DEF Spec

\* A complaint whose handler always fails is run a bounded number of times,
\* however many processes start the runs and however they overlap or crash: its
\* attempts, and one for each task of the server (DeliveryLog.record_failure,
\* watch, /api/ingest).
THEOREM CostAlwaysBounded == Spec => []CostIsBounded
<1>1. ASSUME BaseInv, CostInv, NEW i \in Poison \ contested
      PROVE  runs[i] <= MaxAttempts + Cardinality(Worker)
  <2>1. CostAt(i) /\ runs[i] \in Nat /\ log[i] \in Nat /\ MaxAttempts \in Nat \ {0}
    BY <1>1, DeliveryAssumption DEF CostInv, BaseInv, TypeOK, Log
  <2>2. PICK m : m = Cardinality(WorkersOn(i))
    OBVIOUS
  <2>3. m \in Nat /\ m <= Cardinality(Worker) /\ Cardinality(Worker) \in Nat
    BY <2>2, WorkersCount
  <2> QED
    BY <2>1, <2>2, <2>3 DEF CostAt, Dead
<1>2. BaseInv /\ CostInv => CostIsBounded
  BY <1>1 DEF CostIsBounded
<1> QED
  BY <1>2, BaseInvariant, CostInvariant, PTL

-----------------------------------------------------------------------------
(* What the poll loop has handled.                                          *)

LEMMA AloneFrame ==
    ASSUME BaseInv, NEW a \in Actor, NEW t, task' = [task EXCEPT ![a] = t], NEW i, Alone(i),
           a \in Worker /\ t.item = i => t.at = "noting_review",
           a = Operator => t.item # i
    PROVE  Alone(i)'
<1>1. task'[a] = t /\ \A b \in Actor \ {a} : task'[b] = task[b]
  BY DEF BaseInv, TypeOK
<1> QED
  BY <1>1, Actors DEF Alone, At

LEMMA AloneStep ==
    ASSUME BaseInv, [Next]_vars, NEW i \in Item \ replayed', i \notin replayed => Alone(i)
    PROVE  Alone(i)'
<1>1. ASSUME replayed \subseteq replayed' PROVE Alone(i)
  BY <1>1
<1>2. None # i
  BY DeliveryAssumption
<1>3. CASE UNCHANGED vars \/ Poll
  <2>1. task' = task /\ replayed' = replayed
    BY <1>3 DEF vars, history, Poll
  <2>2. task' = [task EXCEPT ![Listener] = task[Listener]]
    BY <2>1 DEF BaseInv, TypeOK
  <2> QED
    BY <1>1, <2>1, <2>2, AloneFrame, Actors
<1>4. ASSUME NEW a \in Worker \cup {Listener}, NEW j \in Item, Unposted(a, j) PROVE Alone(i)'
  <2>1. PICK t : /\ task' = [task EXCEPT ![a] = t]
                 /\ \/ t = Doing("noting", j) /\ At(a, "running") /\ task[a].item = j
                    \/ t = Doing("noting_review", j)
    BY <1>4 DEF Unposted
  <2>2. Alone(i)
    BY <1>1, <1>4 DEF Unposted
  <2>3. a \in Worker /\ t.item = i => t.at = "noting_review"
    BY <2>1, <2>2, DoingFields DEF Alone, At
  <2> QED
    BY <2>1, <2>2, <2>3, AloneFrame, Actors
<1>5. ASSUME NEW a \in Worker \cup {Listener}, RunEnds(a) PROVE Alone(i)'
  <2>1. PICK t, phase : task' = [task EXCEPT ![a] = t] /\ t = Doing(phase, task[a].item)
    BY <1>5 DEF RunEnds, FailsInto
  <2>2. Alone(i) /\ At(a, "running")
    BY <1>1, <1>5 DEF RunEnds
  <2>3. a \in Worker => t.item # i
    BY <2>1, <2>2, DoingFields DEF Alone, At
  <2> QED
    BY <2>1, <2>2, <2>3, AloneFrame, Actors
<1>6. ASSUME NEW a \in Actor, Read(a) PROVE Alone(i)'
  <2>1. PICK t : task' = [task EXCEPT ![a] = t] /\ t.at = task[a].at /\ t.item = task[a].item
    BY <1>6, ReadMoves
  <2>2. Alone(i)
    BY <1>1, <1>6 DEF Read
  <2>3. (a \in Worker /\ t.item = i => t.at = "noting_review") /\ (a = Operator => t.item # i)
    BY <2>1, <2>2 DEF Alone, At
  <2> QED
    BY <2>1, <2>2, <2>3, AloneFrame
<1>7. ASSUME NEW a \in Actor, Write(a) PROVE Alone(i)'
  <2>1. PICK t : t = task[a]
    OBVIOUS
  <2>2. PICK u : u = Then(a, t)
    OBVIOUS
  <2>3. task' = [task EXCEPT ![a] = u] /\ t.at \in FilePhases /\ Alone(i)
    BY <1>1, <1>7, <2>1, <2>2 DEF Write
  <2>4. t \in Task /\ t.item \in Item
    BY <1>7, <2>1, ThenFits
  <2>5. /\ IF u.at = "idle" THEN u.item = None ELSE u.item = t.item
        /\ t.at = "noting_review" => u.at = "idle"
    BY <2>2, <2>3, <2>4, ThenPhase
  <2>6. (a \in Worker /\ u.item = i => u.at = "noting_review") /\ (a = Operator => u.item # i)
    BY <1>2, <2>1, <2>3, <2>5 DEF Alone, At
  <2> QED
    BY <2>3, <2>6, AloneFrame
<1>8. ASSUME NEW a \in Worker \cup {Listener}, NEW j \in Item,
             (a = Listener /\ Handle(j)) \/ Ingest(a, j)
      PROVE  Alone(i)'
  <2>1. PICK t : t = Doing("running", j)
    OBVIOUS
  <2>2. task' = [task EXCEPT ![a] = t] /\ t.item = j /\ replayed \subseteq replayed'
    BY <1>8, <2>1, DoingFields DEF Handle, Ingest, Run
  <2>3. a \in Worker => t.item # i
    BY <1>8, <2>2, Actors DEF Ingest
  <2> QED
    BY <1>1, <2>2, <2>3, AloneFrame, Actors
<1>9. ASSUME NEW j \in Item, Requeue(j) PROVE Alone(i)'
  <2>1. PICK t : t = Doing("requeuing", j)
    OBVIOUS
  <2>2. task' = [task EXCEPT ![Operator] = t] /\ t.item = j /\ replayed' = replayed \cup {j}
    BY <1>9, <2>1, DoingFields DEF Requeue
  <2> QED
    BY <1>1, <2>2, AloneFrame, Actors
<1>10. ASSUME NEW a \in Actor, Crash(a) PROVE Alone(i)'
  <2>1. \A b \in Actor : task'[b] = Free \/ task'[b] = task[b]
    BY <1>10 DEF Crash
  <2>2. Alone(i)
    BY <1>1, <1>10 DEF Crash
  <2> QED
    BY <1>2, <2>1, <2>2, FreeFields, Actors DEF Alone, At
<1>11. CASE ListenerNext
  BY <1>3, <1>4, <1>5, <1>6, <1>7, <1>8, <1>11, Actors DEF ListenerNext
<1>12. ASSUME NEW w \in Worker, ServerNext(w) PROVE Alone(i)'
  BY <1>4, <1>5, <1>6, <1>7, <1>8, <1>12, Actors DEF ServerNext
<1>13. CASE OperatorNext
  BY <1>6, <1>7, <1>9, <1>13, Actors DEF OperatorNext
<1> QED
  BY <1>3, <1>10, <1>11, <1>12, <1>13 DEF Next

\* Nothing the poll loop did about i is undone, and no run of i is started.
LEMMA OnceFrame ==
    ASSUME NEW i, OnceAt(i), handled'[i] = handled[i], i \in heard' => i \in heard,
           OnIt(Listener, i)' => OnIt(Listener, i), i \in seen => i \in seen',
           At(Listener, "marking") /\ task[Listener].item = i =>
              i \in seen' \/ (At(Listener, "marking") /\ task[Listener].item = i)'
    PROVE  OnceAt(i)'
BY DEF OnceAt

LEMMA PollOnce ==
    ASSUME BaseInv, Poll, NEW i \in Item \ contested', OnceAt(i)
    PROVE  OnceAt(i)'
<1>1. /\ At(Listener, "idle") /\ task' = task /\ handled' = handled /\ seen' = seen
      /\ contested' = contested \cup (heard' \cap seen)
  BY DEF Poll, files
<1>2. ~OnIt(Listener, i)' /\ ~At(Listener, "marking")
  BY <1>1 DEF OnIt, On, OnRun, At
<1>3. i \in heard' => i \notin seen
  BY <1>1
<1> QED
  BY <1>1, <1>2, <1>3 DEF OnceAt

\* What the server and the operator do is about other items.
LEMMA OthersOnce ==
    ASSUME BaseInv, NEW a \in Actor \ {Listener},
           NEW t, task' = [task EXCEPT ![a] = t],
           NEW i, OnceAt(i), handled'[i] = handled[i], heard' = heard, i \in seen => i \in seen'
    PROVE  OnceAt(i)'
<1>1. task'[Listener] = task[Listener]
  BY Actors DEF BaseInv, TypeOK
<1>2. /\ OnIt(Listener, i)' => OnIt(Listener, i)
      /\ At(Listener, "marking")' <=> At(Listener, "marking")
  BY <1>1 DEF OnIt, At
<1> QED
  BY <1>1, <1>2, OnceFrame

LEMMA HandleOnce ==
    ASSUME BaseInv, NEW j \in Item, Handle(j), NEW i \in Item, OnceAt(i)
    PROVE  OnceAt(i)'
<1>1. /\ At(Listener, "idle") /\ j \in heard /\ heard' = heard \ {j} /\ seen' = seen
      /\ handled' = handled
  BY DEF Handle, files
<1>2. PICK t : t = Doing("running", j)
  OBVIOUS
<1>3. task'[Listener] = t /\ t.item = j
  BY <1>2, Actors, DoingFields DEF Handle, Run, BaseInv, TypeOK
<1>4. ~At(Listener, "marking") /\ (i # j => ~OnIt(Listener, i)')
  BY <1>1, <1>3 DEF At, OnIt, On
<1>5. CASE i = j
  <2>1. ~(handled[i] > 0)
    BY <1>1, <1>5 DEF OnceAt
  <2> QED
    BY <1>1, <2>1 DEF OnceAt
<1>6. CASE i # j
  BY <1>1, <1>4, <1>6, OnceFrame
<1> QED
  BY <1>5, <1>6

LEMMA RunEndsOnce ==
    ASSUME BaseInv, NEW a \in Worker \cup {Listener}, RunEnds(a), NEW i \in Item,
           Alone(i), OnceAt(i)
    PROVE  OnceAt(i)'
<1>1. PICK t, phase : /\ task' = [task EXCEPT ![a] = t] /\ t = Doing(phase, task[a].item)
                      /\ \/ /\ phase \in {"marking", "clearing"}
                            /\ handled' = [handled EXCEPT ![task[a].item] =
                                  IF @ < 2 THEN @ + 1 ELSE 2]
                            /\ a = Listener => phase = "marking"
                         \/ phase = "counting" /\ handled' = handled
  BY DEF RunEnds, FailsInto
<1>2. At(a, "running") /\ heard' = heard /\ seen' = seen /\ handled \in [Item -> 0 .. 2]
  BY DEF RunEnds, files, BaseInv, TypeOK
<1>3. t.at = phase /\ t.item = task[a].item
  BY <1>1, DoingFields
<1>4. CASE a \in Worker
  <2>1. task[a].item # i
    BY <1>2, <1>4 DEF Alone, At
  <2>2. handled'[i] = handled[i]
    BY <1>1, <1>2, <2>1
  <2> QED
    BY <1>1, <1>2, <1>4, <2>2, OthersOnce, Actors
<1>5. CASE a = Listener
  <2>1. task'[Listener] = t
    BY <1>1, <1>5, Actors DEF BaseInv, TypeOK
  <2>2. ~At(Listener, "marking")
    BY <1>2, <1>5 DEF At
  <2>3. CASE t.item # i
    <3>1. handled'[i] = handled[i]
      BY <1>1, <1>2, <1>3, <2>3
    <3>2. ~OnIt(Listener, i)'
      BY <2>1, <2>3 DEF OnIt, On
    <3> QED
      BY <1>2, <2>2, <3>1, <3>2, OnceFrame
  <2>4. CASE t.item = i
    <3>1. OnIt(Listener, i)
      BY <1>2, <1>3, <1>5, <2>4 DEF OnIt, On, OnRun, At
    <3>2. handled[i] = 0
      <4>1. handled[i] \in 0 .. 2 /\ ~(handled[i] > 0)
        BY <1>2, <3>1 DEF OnceAt
      <4> QED
        BY <4>1
    <3>3. CASE phase = "counting"
      <4>1. handled'[i] = 0
        BY <1>1, <3>2, <3>3
      <4> QED
        BY <4>1 DEF OnceAt
    <3>4. CASE phase # "counting"
      <4>1. handled'[i] = 1 /\ phase = "marking"
        BY <1>1, <1>2, <1>3, <1>5, <2>4, <3>2, <3>4
      <4>2. i \notin heard'
        BY <1>2, <1>3, <1>5, <2>4 DEF BaseInv, PhasesInv
      <4>3. ~OnIt(Listener, i)' /\ At(Listener, "marking")' /\ task'[Listener].item = i
        BY <1>3, <2>1, <2>4, <4>1 DEF OnIt, On, OnRun, At
      <4> QED
        BY <4>1, <4>2, <4>3 DEF OnceAt
    <3> QED
      BY <3>3, <3>4
  <2> QED
    BY <2>3, <2>4
<1> QED
  BY <1>4, <1>5

LEMMA WriteOnce ==
    ASSUME BaseInv, NEW a \in Actor, Write(a), NEW i \in Item \ contested',
           Alone(i), OnceAt(i)
    PROVE  OnceAt(i)'
<1>1. PICK t : t = task[a]
  OBVIOUS
<1>2. PICK u : u = Then(a, t)
  OBVIOUS
<1>3. /\ task' = [task EXCEPT ![a] = u] /\ t.at \in FilePhases /\ handled' = handled
      /\ heard' = heard
  BY <1>1, <1>2 DEF Write
<1>4. t \in Task /\ t.item \in Item /\ None # i
  BY <1>1, ThenFits, DeliveryAssumption
<1>5. /\ IF u.at = "idle" THEN u.item = None ELSE u.item = t.item
      /\ t.at = "marking" => u.at = "clearing"
      /\ t.at = "noting" => u.at = "running"
      /\ t.at = "counting" => u.at \in {"burying", "idle"}
      /\ t.at = "requeuing" => u.at = "unmarking"
      /\ t.at \in {"noting_review", "clearing", "burying", "unmarking"} => u.at = "idle"
  BY <1>2, <1>3, <1>4, ThenPhase
<1>6. /\ t.item # i => (i \in seen' <=> i \in seen)
      /\ t.at \in LogPhases => (i \in seen' <=> i \in seen)
      /\ t.item = i /\ t.at \in {"marking", "burying"} => i \in seen'
  BY <1>1, WriteMoves
<1>7. CASE a # Listener
  <2>1. t.item = i => t.at = "noting_review"
    BY <1>1, <1>7 DEF Alone, At, Actor
  <2>2. i \in seen => i \in seen'
    BY <1>6, <2>1 DEF LogPhases
  <2> QED
    BY <1>3, <1>7, <2>2, OthersOnce
<1>8. CASE a = Listener
  <2>1. task'[Listener] = u
    BY <1>3, <1>8, Actors DEF BaseInv, TypeOK
  <2>2. OnIt(Listener, i)' => OnIt(Listener, i)
    BY <1>1, <1>3, <1>4, <1>5, <1>8, <2>1 DEF OnIt, On, OnRun, FilePhases, LogPhases, SeenPhases
  <2>3. i \in seen => i \in seen'
    <3>1. t.at \in ListenerPhase
      BY <1>1, <1>8 DEF BaseInv, PhasesInv
    <3> QED
      BY <1>3, <1>6, <3>1 DEF FilePhases, LogPhases, SeenPhases, ListenerPhase
  <2>4. At(Listener, "marking") /\ task[Listener].item = i => i \in seen'
    BY <1>1, <1>6, <1>8 DEF At
  <2> QED
    BY <1>3, <2>2, <2>3, <2>4, OnceFrame
<1> QED
  BY <1>7, <1>8

LEMMA CrashOnce ==
    ASSUME BaseInv, NEW a \in Actor, Crash(a), NEW i \in Item \ (replayed' \cup contested'),
           OnceAt(i)
    PROVE  OnceAt(i)'
<1>1. /\ \A b \in Actor : task'[b] = IF SameProcess(a, b) THEN Free ELSE task[b]
      /\ handled' = handled /\ heard' \subseteq heard
      /\ seen \ seen' \subseteq contested'
      /\ \A b \in Actor : SameProcess(a, b) /\ ~At(b, "idle") => task[b].item \in replayed'
  BY DEF Crash
<1>2. OnIt(Listener, i)' => OnIt(Listener, i)
  BY <1>1, FreeFields, Actors DEF OnIt, On, OnRun
<1>3. At(Listener, "marking") /\ task[Listener].item = i => task'[Listener] = task[Listener]
  BY <1>1, Actors DEF At
<1> QED
  BY <1>1, <1>2, <1>3, OnceFrame DEF At

LEMMA OnceStep == ASSUME BaseInv, OnceInv, [Next]_vars PROVE OnceInv'
<1>1. ASSUME NEW i \in Item \ replayed' PROVE Alone(i)'
  BY <1>1, AloneStep DEF OnceInv
<1>2. ASSUME NEW i \in Item \ (replayed' \cup contested') PROVE OnceAt(i)'
  <2>1. ASSUME replayed \subseteq replayed', contested \subseteq contested'
        PROVE  Alone(i) /\ OnceAt(i)
    BY <1>2, <2>1 DEF OnceInv
  <2>2. ASSUME NEW a \in Actor, Read(a) \/ (\E j \in Item : Unposted(a, j)) PROVE OnceAt(i)'
    <3>1. PICK t : /\ task' = [task EXCEPT ![a] = t]
                   /\ On(t, i) => On(task[a], i) \/ a # Listener
                   /\ a = Listener /\ At(a, "marking") => t.at = task[a].at /\ t.item = task[a].item
      <4>1. CASE Read(a)
        <5>1. PICK t : task' = [task EXCEPT ![a] = t] /\ t.at = task[a].at /\ t.item = task[a].item
          BY <4>1, ReadMoves
        <5>2. On(t, i) => On(task[a], i)
          BY <5>1 DEF On
        <5> QED
          BY <5>1, <5>2
      <4>2. ASSUME NEW j \in Item, Unposted(a, j)
            PROVE  \E t : /\ task' = [task EXCEPT ![a] = t]
                          /\ On(t, i) => On(task[a], i) \/ a # Listener
                          /\ a = Listener => ~At(a, "marking")
        <5>1. PICK t : /\ task' = [task EXCEPT ![a] = t]
                       /\ \/ t = Doing("noting", j) /\ At(a, "running") /\ task[a].item = j
                          \/ a \in Worker
          BY <4>2 DEF Unposted
        <5>2. CASE a = Listener
          <6>1. t.item = j /\ At(a, "running") /\ task[a].item = j
            BY <5>1, <5>2, Actors, DoingFields
          <6> QED
            BY <5>1, <6>1 DEF On, OnRun, At
        <5> QED
          BY <5>1, <5>2
      <4> QED
        BY <2>2, <4>1, <4>2
    <3>2. /\ seen' = seen /\ heard' = heard /\ handled' = handled
          /\ replayed' = replayed /\ contested \subseteq contested'
      BY <2>2 DEF Read, Unposted, files
    <3>3. CASE a # Listener
      BY <2>1, <3>1, <3>2, <3>3, OthersOnce
    <3>4. CASE a = Listener
      <4>1. task'[Listener] = t
        BY <3>1, <3>4, Actors DEF BaseInv, TypeOK
      <4>2. OnIt(Listener, i)' => OnIt(Listener, i)
        BY <3>1, <3>4, <4>1 DEF OnIt
      <4> QED
        BY <2>1, <3>1, <3>2, <3>4, <4>1, <4>2, OnceFrame DEF At
    <3> QED
      BY <3>3, <3>4
  <2>3. ASSUME NEW a \in Worker \cup {Listener}, RunEnds(a) PROVE OnceAt(i)'
    BY <2>1, <2>3, RunEndsOnce DEF RunEnds
  <2>4. ASSUME NEW a \in Actor, Write(a) PROVE OnceAt(i)'
    BY <1>2, <2>1, <2>4, WriteOnce DEF Write
  <2>5. ASSUME NEW a \in Actor \ {Listener}, NEW j \in Item,
               (a \in Worker /\ Ingest(a, j)) \/ (a = Operator /\ Requeue(j))
        PROVE  OnceAt(i)'
    <3>1. PICK t : task' = [task EXCEPT ![a] = t]
      BY <2>5 DEF Ingest, Run, Requeue
    <3>2. /\ seen' = seen /\ heard' = heard /\ handled' = handled
          /\ replayed \subseteq replayed' /\ contested' = contested
      BY <2>5 DEF Ingest, Requeue, files
    <3> QED
      BY <2>1, <3>1, <3>2, OthersOnce
  <2>6. CASE UNCHANGED vars
    <3>1. /\ task' = task /\ seen' = seen /\ heard' = heard /\ handled' = handled
          /\ replayed' = replayed /\ contested' = contested
      BY <2>6 DEF vars, files, history
    <3> QED
      BY <2>1, <3>1, OnceFrame DEF OnIt, At
  <2>7. CASE Poll
    BY <1>2, <2>1, <2>7, PollOnce DEF Poll
  <2>8. ASSUME NEW j \in Item, Handle(j) PROVE OnceAt(i)'
    BY <2>1, <2>8, HandleOnce DEF Handle
  <2>9. ASSUME NEW a \in Actor, Crash(a) PROVE OnceAt(i)'
    BY <1>2, <2>1, <2>9, CrashOnce DEF Crash
  <2>10. CASE ListenerNext
    BY <2>2, <2>3, <2>4, <2>7, <2>8, <2>10, Actors DEF ListenerNext
  <2>11. ASSUME NEW w \in Worker, ServerNext(w) PROVE OnceAt(i)'
    BY <2>2, <2>3, <2>4, <2>5, <2>11, Actors DEF ServerNext
  <2>12. CASE OperatorNext
    BY <2>2, <2>4, <2>5, <2>12, Actors DEF OperatorNext
  <2> QED
    BY <2>6, <2>9, <2>10, <2>11, <2>12 DEF Next
<1> QED
  BY <1>1, <1>2 DEF OnceInv

LEMMA OnceInvariant == Spec => []OnceInv
<1>1. Init => OnceInv
  <2> SUFFICES ASSUME Init PROVE OnceInv
    OBVIOUS
  <2>1. \A a \in Actor : task[a] = Free
    BY DEF Init
  <2>2. \A i \in Item : handled[i] = 0
    BY DEF Init
  <2>3. \A i \in Item : Alone(i)
    BY <2>1, FreeFields, Actors, DeliveryAssumption DEF Alone
  <2>4. \A i \in Item : OnceAt(i)
    BY <2>2 DEF OnceAt
  <2> QED
    BY <2>3, <2>4 DEF OnceInv
<1>2. BaseInv /\ OnceInv /\ [Next]_vars => OnceInv'
  BY OnceStep
<1> QED
  BY <1>1, <1>2, BaseInvariant, KeptInvariant, PTL DEF Spec

\* The poll loop hands a complaint on once, though its files are read and
\* written without a lock by other processes and its own may die at any step,
\* unless a crash, a requeue, an ingest or a race brought it back (watch, poll
\* and mark of sanwaad/listener.py).
THEOREM HandledAtMostOnce == Spec => []HandledOnce
<1>1. OnceInv => HandledOnce
  BY DEF OnceInv, OnceAt, HandledOnce
<1> QED
  BY <1>1, OnceInvariant, PTL
=============================================================================
