-------------------------------- MODULE Delivery --------------------------------
(***************************************************************************)
(* How a complaint gets from a connector into a case, and what is kept of  *)
(* one that does not (sanwaad/listener.py, sanwaad/delivery.py, and        *)
(* /api/ingest of sanwaad/api/server.py).                                  *)
(*                                                                         *)
(* Three processes share two files, the delivery log and the seen-store:   *)
(* the listener's poll loop, the tasks of the API server and the           *)
(* operator's command.  Each update of a file is a read and then a write,  *)
(* with no lock: another process may get in between.  The log is replaced  *)
(* as a whole; the seen-store is truncated and then written.  The tasks of *)
(* the server share one event loop, and a task that has left its handler   *)
(* updates the files without an await.                                     *)
(***************************************************************************)
EXTENDS Naturals, FiniteSets

CONSTANTS
    Item,            \* complaints of the feed, by delivery_key
    Poison,          \* the items whose handler always raises
    Worker,          \* tasks of the API server
    Listener,        \* the poll loop
    Operator,        \* python -m sanwaad.delivery --requeue
    MaxAttempts,     \* DeliveryLog.max_attempts
    MaxEvents,       \* bound: ingests, requeues, crashes, replies not posted
                     \* and truncated files read
    None             \* no item

Actor == Worker \cup {Listener, Operator}

ASSUME DeliveryAssumption ==
    /\ IsFiniteSet(Worker)
    /\ Poison \subseteq Item
    /\ None \notin Item
    /\ Listener \notin Worker /\ Operator \notin Worker /\ Listener # Operator
    /\ MaxAttempts \in Nat \ {0}
    /\ MaxEvents \in Nat

VARIABLES
    log,        \* delivery_failures.json: the attempts of each item's record, or 0
    seen,       \* listener_seen.json
    heard,      \* what the listener's last poll found and watch() has not got to
    task,       \* what each actor is doing
    handled,    \* history: how many runs of an item went through, up to two
    runs,       \* history: how many of a poisoned one were started since it was
                \* last requeued, those a crash cut short aside
    unposted,   \* history: items with an approved reply that did not go out
    contested,  \* history: items whose record or mark was lost to a race of two
                \* processes, a half-written file or a requeue cut short
    replayed,   \* history: items something other than the poll loop brought back
    events      \* history: how many of the bounded events there were

files == <<log, seen>>
history == <<handled, runs, unposted, contested, replayed>>
vars == <<log, seen, heard, task, history, events>>

-----------------------------------------------------------------------------
(* The two files.                                                           *)

Log == [Item -> Nat]

\* Mutant: one attempt too many.
DeadLater(l, i) == l[i] > MaxAttempts

\* A record is dead from its last attempt on.
Dead(l, i) == l[i] >= MaxAttempts

\* The files' updates, in the order a caller makes them.
LogPhases == {"noting", "noting_review", "counting", "clearing", "requeuing"}
SeenPhases == {"marking", "burying", "unmarking"}
FilePhases == LogPhases \cup SeenPhases

\* holding: the file has been read into log or seen, and not written back yet.
Task ==
    [at : {"idle", "running"} \cup FilePhases, item : Item \cup {None},
     holding : BOOLEAN, log : Log, seen : SUBSET Item]

Clean == [i \in Item |-> 0]

Free == [at |-> "idle", item |-> None, holding |-> FALSE, log |-> Clean, seen |-> {}]

Doing(phase, i) == [Free EXCEPT !.at = phase, !.item = i]

At(a, phase) == task[a].at = phase

Busy(i) == {a \in Actor : task[a].item = i}

\* How many of these actors are on a failing run of i they are not done with.
UnderWay(i, actors) ==
    Cardinality({a \in actors \cap Busy(i) :
                    task[a].at \in {"running", "noting", "counting", "burying"}})

SameProcess(a, b) == a = b \/ {a, b} \subseteq Worker

\* Nobody else of the process is between two awaits.
Turn(a) ==
    \A b \in Actor \ {a} : SameProcess(a, b) => task[b].at \notin FilePhases

\* Mutant: attempts are counted down.
CountedDown(t) ==
    [t.log EXCEPT ![t.item] =
        IF t.at \in {"clearing", "requeuing"} THEN 0 ELSE @ - 1]

\* record_failure counts one more, clear and requeue drop the record.
LogAfter(t) ==
    [t.log EXCEPT ![t.item] =
        IF t.at \in {"clearing", "requeuing"} THEN 0 ELSE @ + 1]

\* Mutant: mark() saves the new ids only.
SeenLast(t) == IF t.at = "unmarking" THEN t.seen \ {t.item} ELSE {t.item}

SeenAfter(t) ==
    IF t.at = "unmarking" THEN t.seen \ {t.item} ELSE t.seen \cup {t.item}

\* An update that would change nothing is not written, except by mark().
Writes(t) ==
    CASE t.at \in {"clearing", "requeuing"} -> t.log[t.item] > 0
      [] t.at = "unmarking" -> t.item \in t.seen
      [] OTHER -> TRUE

\* What other processes have done to the file since t read it, and t undoes.
Undone(t) ==
    IF ~Writes(t) THEN {}
    ELSE IF t.at \in LogPhases THEN {i \in Item : log[i] # t.log[i]}
    ELSE {i \in Item : (i \in seen) # (i \in t.seen)}

\* The item is requeued while somebody is at work on it.
Crossing(t) ==
    IF Operator \in Busy(t.item) /\ Busy(t.item) # {Operator} THEN {t.item} ELSE {}

\* What an actor goes on to, once its update is written.
Then(a, t) ==
    CASE t.at = "marking" -> Doing("clearing", t.item)
      [] t.at = "noting" -> Doing("running", t.item)
      [] t.at = "counting" /\ a = Listener /\ Dead(LogAfter(t), t.item) ->
            Doing("burying", t.item)
      [] t.at = "requeuing" -> Doing("unmarking", t.item)
      [] OTHER -> Free

\* Mutant: an item that has failed is not fetched again.
FreshUnfailed(s) == {i \in Item \ s : log[i] = 0}

\* What of the feed poll() hands to watch().
Fresh(s) == Item \ s

Event == events < MaxEvents /\ events' = events + 1

\* What a reader of the seen-store finds: one that finds it truncated, because
\* somebody is writing it, takes it for empty.
FindsSeen(s) ==
    \/ s = seen /\ UNCHANGED events
    \/ /\ s = {}
       /\ \E a \in Actor : task[a].at \in SeenPhases /\ task[a].holding
       /\ Event

-----------------------------------------------------------------------------
Init ==
    /\ log = Clean
    /\ seen = {}
    /\ heard = {}
    /\ task = [a \in Actor |-> Free]
    /\ handled = [i \in Item |-> 0]
    /\ runs = [i \in Poison |-> 0]
    /\ unposted = {}
    /\ contested = {}
    /\ replayed = {}
    /\ events = 0

\* Listener.poll: the feed, without what the seen-store has.
Poll ==
    /\ At(Listener, "idle")
    /\ heard = {}
    /\ \E s \in {seen, {}} :
        /\ FindsSeen(s)
        /\ heard' = Fresh(s)
        /\ heard' # {}
        /\ contested' = contested \cup (heard' \cap seen)
    /\ UNCHANGED <<files, task, handled, runs, unposted, replayed>>

Run(a, i) ==
    /\ task' = [task EXCEPT ![a] = Doing("running", i)]
    /\ runs' = [j \in Poison |-> IF j = i THEN runs[j] + 1 ELSE runs[j]]

\* watch() takes the next item of the poll; it does not look at the log.
Handle(i) ==
    /\ At(Listener, "idle")
    /\ i \in heard
    /\ heard' = heard \ {i}
    /\ Run(Listener, i)
    /\ UNCHANGED <<files, handled, unposted, contested, replayed, events>>

\* One item of an ingest: a dead one is turned away.
Ingests(w, i) == At(w, "idle") /\ Turn(w) /\ ~Dead(log, i)

Ingest(w, i) ==
    /\ Ingests(w, i)
    /\ Event
    /\ Run(w, i)
    /\ replayed' = replayed \cup {i}
    /\ UNCHANGED <<files, heard, handled, unposted, contested>>

\* publish_node, inside the run or in one that a review resumed: an approved
\* reply that could not be posted is recorded as a failure of the item.
Unposted(a, i) ==
    /\ Turn(a)
    /\ \/ At(a, "running") /\ task[a].item = i
          /\ task' = [task EXCEPT ![a] = Doing("noting", i)]
       \/ a \in Worker /\ At(a, "idle") /\ handled[i] > 0
          /\ task' = [task EXCEPT ![a] = Doing("noting_review", i)]
    /\ Event
    /\ unposted' = unposted \cup {i}
    /\ UNCHANGED <<files, heard, handled, runs, contested, replayed>>

\* Mutant: the item is marked before its handler has returned.
FailsMarked(a) == IF a = Listener THEN "marking" ELSE "counting"

FailsInto(a) == "counting"

\* The handler returns, or raises.
RunEnds(a) ==
    /\ At(a, "running")
    /\ Turn(a)
    /\ LET i == task[a].item
       IN  \/ /\ i \notin Poison
              /\ handled' = [handled EXCEPT ![i] = IF @ < 2 THEN @ + 1 ELSE 2]
              /\ task' = [task EXCEPT ![a] =
                     Doing(IF a = Listener THEN "marking" ELSE "clearing", i)]
           \/ /\ task' = [task EXCEPT ![a] = Doing(FailsInto(a), i)]
              /\ UNCHANGED handled
    /\ UNCHANGED <<files, heard, runs, unposted, contested, replayed, events>>

Read(a) ==
    /\ task[a].at \in FilePhases
    /\ ~task[a].holding
    /\ IF task[a].at \in LogPhases
       THEN /\ task' = [task EXCEPT ![a].holding = TRUE, ![a].log = log]
            /\ UNCHANGED <<contested, events>>
       ELSE \E s \in {seen, {}} :
                /\ FindsSeen(s)
                /\ task' = [task EXCEPT ![a].holding = TRUE, ![a].seen = s]
                /\ contested' = contested \cup (seen \ s)
    /\ UNCHANGED <<files, heard, handled, runs, unposted, replayed>>

\* The update is written, over whatever another process wrote meanwhile.
Write(a) ==
    /\ task[a].at \in FilePhases
    /\ task[a].holding
    /\ LET t == task[a]
       IN  /\ log' = IF t.at \in LogPhases /\ Writes(t) THEN LogAfter(t) ELSE log
           /\ seen' = IF t.at \in SeenPhases /\ Writes(t) THEN SeenAfter(t) ELSE seen
           /\ contested' = contested \cup Undone(t) \cup Crossing(t)
           /\ runs' = [i \in Poison |->
                  IF t.at = "requeuing" /\ t.item = i THEN UnderWay(i, Actor) ELSE runs[i]]
           /\ unposted' = IF t.at = "requeuing" THEN unposted \ {t.item} ELSE unposted
           /\ task' = [task EXCEPT ![a] = Then(a, t)]
    /\ UNCHANGED <<heard, handled, replayed, events>>

\* requeue_everywhere: the record first, then the seen-mark.
Requeue(i) ==
    /\ At(Operator, "idle")
    /\ Event
    /\ task' = [task EXCEPT ![Operator] = Doing("requeuing", i)]
    /\ replayed' = replayed \cup {i}
    /\ UNCHANGED <<files, heard, handled, runs, unposted, contested>>

\* A process dies and is started again.  One that dies while it writes the
\* seen-store may leave it truncated; an operator's command cut short leaves
\* its item between the two files.
Crash(a) ==
    /\ Event
    /\ \E b \in Actor : SameProcess(a, b) /\ ~At(b, "idle")
    /\ task' = [b \in Actor |-> IF SameProcess(a, b) THEN Free ELSE task[b]]
    /\ heard' = IF a = Listener THEN {} ELSE heard
    /\ \E s \in (IF At(a, "idle") \/ task[a].at \notin SeenPhases \/ ~task[a].holding
                 THEN {seen} ELSE {seen, {}}) :
        /\ seen' = s
        /\ replayed' = replayed \cup (seen \ s) \cup
               {task[b].item : b \in {c \in Actor : SameProcess(a, c) /\ ~At(c, "idle")}}
    /\ contested' = contested \cup (seen \ seen') \cup
           (IF a = Operator THEN {task[a].item} ELSE {})
    /\ runs' = [i \in Poison |-> runs[i] - UnderWay(i, {b \in Actor : SameProcess(a, b)})]
    /\ UNCHANGED <<log, handled, unposted>>

ListenerNext ==
    \/ Poll
    \/ \E i \in Item : Handle(i) \/ Unposted(Listener, i)
    \/ RunEnds(Listener) \/ Read(Listener) \/ Write(Listener)

ServerNext(w) ==
    \/ \E i \in Item : Ingest(w, i) \/ Unposted(w, i)
    \/ RunEnds(w) \/ Read(w) \/ Write(w)

OperatorNext ==
    \/ \E i \in Item : Requeue(i)
    \/ Read(Operator) \/ Write(Operator)

Next ==
    \/ ListenerNext
    \/ \E w \in Worker : ServerNext(w)
    \/ OperatorNext
    \/ \E a \in Actor : Crash(a)

Spec == Init /\ [][Next]_vars

\* What is under way goes on, and the listener polls for ever.
FairSpec ==
    /\ Spec
    /\ WF_vars(Poll)
    /\ \A i \in Item : WF_vars(Handle(i))
    /\ \A a \in Actor : WF_vars(RunEnds(a)) /\ WF_vars(Read(a)) /\ WF_vars(Write(a))

-----------------------------------------------------------------------------
(* Properties.                                                              *)

TypeOK ==
    /\ log \in Log
    /\ seen \subseteq Item
    /\ heard \subseteq Item
    /\ task \in [Actor -> Task]
    /\ handled \in [Item -> 0 .. 2]
    /\ runs \in [Poison -> Nat]
    /\ {unposted, contested, replayed} \subseteq SUBSET Item
    /\ events \in 0 .. MaxEvents

\* "Dead is not lost": an item the listener will not fetch again has been
\* handled, or has a dead record with what it said and what broke it, or is
\* being requeued.
Kept(i) ==
    \/ handled[i] > 0
    \/ Dead(log, i)
    \/ At(Operator, "unmarking") /\ task[Operator].item = i

\* It holds for every item about which no two processes got in each other's
\* way and whose requeue was not cut short, whatever else crashed.
NothingEvaporates == \A i \in seen \ contested : Kept(i)

\* "It double-replies, which is the one public mistake a support account cannot
\* take back": the poll loop hands an item on once, unless a crash, a requeue,
\* an ingest or a race brought it back.
HandledOnce == \A i \in Item \ (replayed \cup contested) : handled[i] <= 1

\* An item that always fails costs a bounded number of runs, whoever starts
\* them and however they overlap: the attempts it has, and one for each task
\* of the server that had started before the last of them was counted.
CostIsBounded ==
    \A i \in Poison \ contested : runs[i] <= MaxAttempts + Cardinality(Worker)

\* In the end the poll loop stops paying for every item: handled or dead, it is
\* marked seen and stays so.
Settles == \A i \in Item : <>[](i \in seen)

-----------------------------------------------------------------------------
(* What the code says of itself, and does not do.                           *)

\* publish_node: "An approved reply that could not be posted is recoverable
\* work".  Between two updates of the log, every such reply has its record.
Updating == \E a \in Actor : task[a].at \in FilePhases

UnpostedIsKept == ~Updating => \A i \in unposted \ contested : log[i] > 0
=============================================================================
