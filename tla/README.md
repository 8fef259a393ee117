# A verification of Sanwaad

Sanwaad takes complaints from public channels, works each one through a graph
of steps, some done by models and some by people, and ends it with a public
reply, an action at the bank, a voice call, or a combination of them. This
directory holds TLA+ models of the parts of it that are hard to test, the TLC
runs that check them on small instances, and proofs, checked by TLAPS, of the
properties that matter most for every instance.

Paths below are relative to `src/sanwaad/` of the repository.

1. [The system](#1-the-system): what it consists of, and what would be wrong
2. [The modules](#2-the-modules): what each one models, and how it maps to the code
3. [The runs](#3-the-runs): what TLC checks, on which instances, and why they suffice
4. [The proofs](#4-the-proofs)
5. [What the code says and does not do](#5-what-the-code-says-and-does-not-do)
6. [What is not modelled](#6-what-is-not-modelled)
7. [What is left](#7-what-is-left)

`PROJECT.json` lists the components, runs, theorems, findings and hazards, the
source lines every definition translates, and for every checked property a
*mutant*: a plausible bug that makes TLC report the property violated. The
mutated operators stand in the modules, each under a comment `Mutant: ...`,
and are used by nothing else.

## 1. The system

### How a complaint travels

```
 connectors ──> Listener.poll/watch ──┐            policy_store ──> REVIEW, POLICY (read by every gate)
 people     ──> POST /api/ingest ─────┴─> run_case (pool CASES)      autonomy ────> record of a category
                                             │
       triage ─> pattern ─> judge ─> prioritise ─> retrieve ─> draft <─> ground_check ─> plan
                                             │ (noise: close)                              │
                                             └──────────────┐                              v
   close <── voice <── escalation <── act <── publish <── review_gate  <── a person: POST /review
              ^                        │          │
   POST /voice-outcome, a call       REGISTRY.call: breaker, retries, approvals ──> ledger, channel
```

A case is a LangGraph thread: a row in a SQLite checkpoint database. A *run* is
one `run_case` or `resume_case`; it executes nodes until the graph ends or a
node asks a person something (`interrupt`), and the row is saved after every
node. Any number of runs may be under way in the one asyncio event loop of the
server, for different cases or for the same one.

### Components

| component | files | state | operations | made correct by |
|---|---|---|---|---|
| Tool registry and breaker | `tools/registry.py`, `breaker.py`, `contracts.py` | per tool: opened_at, failures in a window, the probe flag | `call` (refuse, attempt, retry), `allows`, `record_outcome`, `abandon`, `reset` | no attempt into an open circuit; one probe; the probe is given back; a write acts once; the circuit closes again |
| Case graph, gate to closure | `graph/nodes.py`, `graph/graph.py` | the case's row | nodes `review_gate`, `publish`, `act`, `escalation`, `voice`, `close` | money by consent, once; replies by the gate; "resolved" is true; a case always waits for somebody or is being worked on |
| Case graph, intake | `graph/nodes.py`, `judge.py` | the case's row | nodes `triage` ... `plan` | the revision loop ends; a reply that was not grounded is not taken for one that was |
| Pipeline | `pipeline.py` | checkpoint database | `run_case`, `resume_case` | a row, not a process: crashes and double requests lose nothing |
| Actions | `actions.py` | none | `validate_action`, `tool_args`, `reversal_eligibility` | executed under the rules of the moment of execution |
| Ledger, built-in tools | `tools/ledger.py`, `builtin.py` | a JSON file | `reverse`, `raise_ticket`, lookups | idempotent by key, one reversal per debit |
| Delivery log | `delivery.py` | a JSON file | `record_failure`, `clear`, `is_dead`, `requeue` | no item evaporates, none is tried for ever |
| Listener | `listener.py` | seen-store (JSON), one poll's findings | `poll`, `watch` | handled at least once, and twice only where it must be |
| HTTP API | `api/server.py` | calls in flight, sessions | ingest, review, voice outcome, voice offer, policies, accounts | one call per case; slots given back |
| Concurrency pools | `limits.py` | permits, waiting, running | `acquire`, `acquire_now`, `slot` | never above the limit; no permit lost |
| Policy store | `policy_store.py`, `config.py` | policies in memory, a change log | `apply`, `revert`, `replay` | no illegal combination; changes survive a restart |
| Autonomy | `autonomy.py`, `memory.py` | a record of decisions | `record`, `verdict`, `prune` | authority is earned, capped, and fades |
| Support loop | `loop/kernel.py`, `budget.py`, `verify.py`, `support.py` | a turn's context and meters | `_drive`, `_finish`, `handle_turn` | ends; done means verified |
| Its policy and window | `loop/policy.py`, `window.py`, `subagent.py` | observations, summary, facts | `decide`, `render`, `observe`, `_compact_oldest` | a clean stop although the window forgets; nothing done twice |
| Missions | `handoff.py`, `missions.py` | the route so far | `check`, `run_mission` | no circles, bounded hops, every refusal with a reason |
| Accounts | `auth.py`, `api/server.py` | accounts, sessions, failures | sign in, demote, disable, change password | an administrator stays; a change ends sessions for good |
| Model calls | `llm.py`, `router.py` | attempts, the case's spending | `structured`, `route` | bounded attempts, within the budget and one call |
| Response cache | `caching.py` | entries with ages | `get`, `put` | a hit is a model's answer for this company |
| Pattern and judge | `pattern.py`, `judge.py` | a window of earlier complaints (JSON) | `add`, `assess_cluster`, `author_history`, `assess` | one author is no wave; a wave is seen |
| Spoken numbers, receipts | `voice/numbers.py`, `brief.py`, `consistency.py` | none | `normalise`, `spoken_amount`, `build_receipt` | what was said is what is read, or nothing |
| Texts and media | `rag/`, `voice/agent.py`, `guardrails.py`, `context.py`, ... | none across calls | | out of scope, see section 6 |

### What is hard about it

* **Two runs of one case.** A double click on *approve*, or a review and a call
  outcome, start two runs from one row. Each works on its own copy, and the last
  save wins.
* **Re-execution.** LangGraph runs an interrupted node again *from its top* when
  the answer comes, days later, under policies that may have changed; and runs a
  node again that a crash cut short, tool calls included.
* **State read before an await and used after it.** The ledger between the check
  of an action and its execution; the breaker between two attempts of a call.
* **Lost answers.** A post or a reversal can be carried out although its answer
  says that it failed.
* **Files without locks.** The listener, the server and the operator's commands
  read, change and write the same JSON files.
* **Boundaries.** The last attempt of an item, the probe of a circuit, the last
  administrator, the last revision of a draft.

The hazards are listed one by one, with their lines and the properties that
would catch them, under `hazards` in `PROJECT.json`.

## 2. The modules

| module | models | extends / uses |
|---|---|---|
| `ToolCalls` | one tool of the registry behind its breaker, called by several tasks | implements `CircuitPromise` |
| `CircuitPromise` | what a breaker promises, without clocks, counters or flags | |
| `CaseGraph` | cases from the gate to their closure, runs, crashes, the executor of actions, the ledger | implements `MoneyPromise` |
| `MoneyPromise` | what the pipeline promises about money | |
| `Delivery` | the listener, ingest, the delivery log and the seen-store | |
| `CallDesk` | the two pools, offers of voice calls, the runs that queue for a case slot | |
| `PolicyStore` | changes of policies, their log, reverts, the replay after a crash | |
| `AdminDesk` | accounts, sessions, the guards of the endpoints, the command line, the bootstrap, around the policy store | extends `PolicyStore`, and implements it |
| `SupportLoop` | one turn of the support loop: budgets, verifiers, hand-over; any model | |
| `ScriptedSupport` | the same loop with the scripted policy and the window it reads | extends `SupportLoop` |
| `ModelCall` | one structured model call: attempts, schema retries, fallbacks, cost | |
| `Intake` | a case from triage to the gate, with its model calls and the shared cache | extends `ModelCall` |
| `Readings` | pattern, judge and prioritise over a pattern file that two processes share | |
| `Autonomy` | the record of decisions, the levels it earns, the gate that uses it, pruning | |
| `SpokenNumbers`, `Missions` | pure algorithms: spoken amounts and receipts; routes of agents | |
| `ToolCallsProofs`, `CaseGraphProofs`, `DeliveryProofs`, `CallDeskProofs`, `AdminDeskProofs`, `SupportLoopProofs`, `IntakeProofs`, `EvidenceProofs` | the theorems of section 4; `AdminDeskProofs` those of `PolicyStore` too, `SupportLoopProofs` those of `ScriptedSupport`, `EvidenceProofs` those of `Readings` and of `Autonomy` | extend the module and TLAPS |
| `MCToolCalls`, `MCCaseGraph`, `MCCallDesk`, `MCAdminDesk`, `MCSupportLoop`, `MCScriptedSupport`, `MCIntake`, `MCReadings`, `MCAutonomy` | the data of the instances that TLC checks; `MCCallDesk` also extends `SpokenNumbers` and `MCAutonomy` extends `Missions`, and they state what these compute as `ASSUME`s | extend the module |

### ToolCalls

One action is everything a task does between two awaits. `ToolRegistry._call`
awaits only the handler, under `asyncio.wait_for`, so that a call is `Start` (or
`Refuse`), any number of `AttemptEnds`, and possibly `Cancel` when the client
hangs up and only the `finally` clause runs. The breaker's methods are functions
on its state (`Allowed`, `Asked`, `RecordOutcome`, `Abandon`), in the order in
which the registry calls them; a refusal keeps the order of the checks
(`Refusal`). Breakers share nothing, so that one tool stands for all.

Time is counted in ticks, as ages (of the open circuit, of the attempts, of the
failures in the window), which keeps the state space finite without a bound on
the clock. An attempt that has reached its timeout ends before the clock goes on
(`Tick`). `Weather` is the environment: the backend is well, or may fail in any
way; each attempt may have been carried out whatever its answer says (`landed`).
Not modelled: the audit trail, tracing, the counter of trips.

### CaseGraph

The variables are the rows (`thread`), what the tasks are doing (`run`: a copy
of the state, the answer they were resumed with, the local variables of the
nodes that wait), and the ledger. A node without an await is one step. `publish`
is two (`Post`, `PublishEnds`) and `act` is `CheckAction`, `CallTool` for each
action, and `ActEnds`, because a tool's handler runs later than the check that
let it through. `Save` is LangGraph's checkpoint after a node. `Begin`
abbreviates everything before the gate: which plan the case comes with is the
constant `Complaint`.

Of LangGraph, which is not part of the repository, the module assumes: a row is
saved atomically with the end of a node; the answer of a resume is consumed by
the first node of the run; an interrupted node runs again from its top; the last
save wins; an answer that is no review makes the gate raise, and leaves the row
as it was; resuming a case that has ended does nothing.

Every reading of a policy or of the record of a category finds *any* element of
`Rules`: a lead may edit a policy between any two steps. That is more than can
happen, and therefore safe for what holds. An edited reply is an approved reply,
since texts are not modelled. The decision on a ticket is not read by the code,
and is not in the model. A post may go out although its answer is lost.

The ledger is that of one server process; several processes on one ledger file
are a hazard of their own (section 6). An act that is executed
again after a crash finds the reversal it made before and reports the action as
blocked: the case under-reports, the money is safe.

`sent`, `submissions`, `posts`, `disturbed`, `dropped` and `crashes` are history,
for the properties and the bounds; no guard of the code's actions reads them,
except the bounds.

### Delivery

The poll loop, the tasks of the server and the operator's command share the log
and the seen-store. Each update of a file is `Read` and then `Write`, with any
step of another *process* possible in between; the tasks of the server share an
event loop and do not interleave there (`Turn`). The log is replaced by a
rename, so that a reader finds the old one or the new one; the seen-store is
truncated and written, so that a reader or a crash may find it empty
(`FindsSeen`, `Crash`). `Poll` hands the whole feed, less what the seen-store
has, to `Handle`, item by item. A run of an item may fail, always does for an
item of `Poison`, and may record an approved reply it could not post
(`Unposted`), as may a later run that a review resumed.

The feed is constant: an item stays on the page that every poll reads. Not
modelled: the bounds of 500 records and 5,000 ids, the 90 days of retention, the
shared name of the temporary file, and the filter for texts about the brand.
`contested` collects the items about which two processes got in each other's way
(one's write undid another's, a half-written file was read, a requeue was cut
short or crossed a run): about those the code promises nothing, and the
properties say so.

### CallDesk

An offer (`api_offer`) is `Look` (the snapshot of `get_case`), `Admit` or `Refuse`
(the check of `_calls` and `acquire_now`, which do not yield), `Connect` or
`HandshakeFails`, and then the task it starts: `HangUp` or `CallFails`, the wait
for a case slot in `resume_case`, `Finish`. Reviews and reported outcomes are
`Job`s, which only take a case slot. What a run does to its case is abstracted to
what the case waits for next (`Afterwards`); `CaseGraph` has the rest.

A pool is its semaphore and its count. Of asyncio (Python 3.12, as in the
`Dockerfile`) the module assumes that `acquire` of an unlocked semaphore does not
yield, that nobody overtakes a waiter, that a slot that comes back goes to the
first waiter without one, and that tasks run in the order they were woken. One
event loop is modelled, since the server has one; the cancellation of a handler,
which happens when the server shuts down, is not. `crossed` is history: the
cases for which an offer was admitted while another was in its handshake.

### PolicyStore

A change runs to its end within one step of the event loop, under a lock: it is
one action, `Apply`, unless the server dies in it (`CrashInApply`): then the
entry is in the log as a whole, without its newline, or in part. An entry that
is written after an open line ends up on that line, and `history` can read
neither (`Written`); `lost` collects the fields this costs a change. `replay` is
one action for each field (`Restore`), in the order in which the log first names
them, because what it may restore depends on what it has restored before.
`Below` is the rule that ties two fields to each other; bounds are integers.
Reasons and names are left out. A reason with a line separator that JSON does
not escape (U+2028) would split its own line, which is not modelled.

### AdminDesk

The store's actions, now taken by requests of people. The guard of an endpoint
(`require`) is a plain function that FastAPI runs in a thread (`Admit`); the
handler runs later, in one step of the event loop, with the `User` the guard
read, whatever has happened to the account since. `LetsIn` is what a cookie is
worth at a moment. `AddUser` is the insert, which the command line makes from
another process and the bootstrap in two steps (`BootstrapAsks`, `DeskServes`).
Wrong passwords are counted in memory and forgotten by a restart (`DeskDown`).
Cookies are numbers in the order of sign-ins; `holder` and `revoked` are history.
Of the roles only admin or not is kept.

### SupportLoop

One turn (`run_loop`) from its configuration to its reason to stop. An await is a
phase: the model's decision (`Ask`, `Decide`), a tool (`Called`), the policy
sub-agent (`Consulted`); everything `_drive` does with a decision is one step, one
operator for each of its branches (`Finish`, `Handoff`, `Propose`, `Refuse`,
`Call`). The model is the environment: it may decide anything at any time, so what
holds does not rest on `loop/policy.py`. The configurations are those that
`check_layering` lets through, narrowed by a workflow as `handle_turn` does it.

A text is the facts it states (references, amounts), the clauses it cites, whether
it states a timeline, and whether a guardrail blocks it. Of the context window only
what the verifiers read is kept: `seen` (`_seen`) and `clauses` (`clauses_seen`).
What the model is shown, and how it is compacted, changes no check. Tokens and
rupees are one budget. The meter keeps the last action and how often it was
repeated instead of the last `StallRepeats` fingerprints, which tells the same.
`observed`, `quoted` and `validated` are history. The kernel's notes quote what
the model wrote letter by letter for references and in whole rupees for amounts;
`Fact` stands for those. Not modelled: `loop_runs.jsonl`, the memory across turns
beyond the facts a turn starts with, and the arguments of tool calls.

### ScriptedSupport

`SupportLoop` lets the model decide anything; this module puts the code's own
policy for a system without a key in its place, and the window that policy reads.
A rendered view is the set of signs the policy looks for: a fact, a clause, the
line of a step. A step is `Observed` with its line, `Compacted` to what
`_compact_oldest` keeps of it, and shown or given up by `Render`, whose ladder of
concessions (old steps, summaries, facts) goes as far as a free choice says,
since tokens are not counted. `World` is what the ledger and the policy documents
hold, what an earlier turn left in memory, and which clause cannot be quoted
because it names another. Decisions follow `decide` branch by branch
(`TicketFirst`, `PolicyAnswer`, `AboutTxn`, `AboutMoney`).

### ModelCall and Intake

`structured()` is `Structured` (the budget and the route), any number of
`Attempt`s, and `GiveUp`; every attempt, also one that fails or does not parse,
is paid for (`Attempt`, `Used`). `online` is whether there is a key. A node of the
graph that asks a model is a step up to its wait, the attempts, and a step with
the outcome (`TriageAnswered`, `DraftAnswered`, ...). The cache lives as long as
the process and is shared with other cases and with Explore, which triages the
reviews of other companies under their own namespace (`OtherTriage`); texts the
embedding takes for the same are the pairs of `Similar`, and `Tick` ages entries.
`verified` and `readFrom` are history: that a model has found this very draft
grounded, and which entry a triage was read from.

`Route` is `router.py`: triage and the judge ask the cheapest model first, the
checker, the planner and a plain draft the next one, a draft that is grave, revised
or of an injected text the best, and each has one fallback. What the
judge, the pattern and the ledger say is a free choice here; `Readings` has the
rules behind it. `HardRules` and `MayPostAlone` are the first half of
`auto_post_allowed`; `CaseGraph` has the second, and takes the plan from here as
its `Complaint`.

### Readings

Each case is read by `Detect` and the rules, and added to the window by a load
(`AddLoads`), a save (`SaveOpens`) and the end of the write (`SaveEnds`), since the
file is truncated and then written by two processes without a lock; one of them
may die in between. `Cluster`, `Trimmed` and `AuthorHistory` are what
`assess_cluster`, `save` and `author_history` compute; scores of the judge are the
percentages of the code (`AccountSignals`, `RhetoricSignals`, `Authenticity`). Two
texts are alike when their topics are equal. A feed gives each case its author,
time and profile, because times of posts and order of arrival may differ.

### Autonomy

A row of the record has an age instead of a date. Nothing rewrites a row or asks for
the order of the rows, so that the file is the set of those decisions (`decided`)
that have their row on it (`ledger`), by their places. `LevelOf` is `autonomy_for` with
its ceiling and its cool-off; `Gate`, `Review` and `ReviewGrave` are what the review
gate does with it and adds to it. Pruning is a program of its own, which reads
(`PruneReads`) and later writes back (`PruneWrites`) the file: a decision recorded
in between is lost, which `lost` marks as far as that decision still counted.

### SpokenNumbers and Missions

Pure functions, hence no state machine: `Normalise` turns a transcript of tokens
into its numbers, amounts and references; `BuildReceipt` compares the clauses two
channels relied on; `RunMission` is a fold over the rounds of `run_mission`. What
must hold of them is an `ASSUME` over every short utterance (`MCCallDesk`) and every
mission of three agents with every choice of answers (`MCAutonomy`).

## 3. The runs

| run | instance | checks |
|---|---|---|
| `tool_calls` | two callers, three tools (a read, an idempotent and a plain write), threshold 2, window and cooldown 2 ticks, timeout 1 | `ProbeOwned`, `AtMostOnce`, `Recovers`, and that the registry implements `CircuitPromise` (`KeepsPromise`) |
| `money_race` | two cases about one debit, one of them about a second, foreign one; two runs; one answer each; one crash | `PostsAreGated`, and that the pipeline implements `MoneyPromise` (`KeepsMoneyPromise`) |
| `case_graph` | one case with a ticket, two runs, two answers, one crash | `NeverStranded`, `PostedOnce`, `ResolvedIsTrue`, `Settles` |
| `delivery` | two items, one of them poisoned, two tasks of the server, two attempts, two extraordinary events | `NothingEvaporates`, `HandledOnce`, `CostIsBounded`, `Settles` |
| `call_desk` | two cases, three offers, one job, two slots in each pool | `SlotsBalance`, `NoGhosts`, `OneCallUnlessCrossed`, `Drains`; the `ASSUME`s about `SpokenNumbers` |
| `admin_desk` | two people, two requests, one wrong password allowed; three policy fields, two of them tied; two crashes; five operations in all | `AnAdminRemains`, `RevokedStayOut`, `AlwaysLegal`, `RecordedOrDefault`, `FreeFieldsSurvive` |
| `support_loop` | two tools, two workflows, one fact, one clause; three passes, one retry, two repeats; every legal configuration | `DoneMeansVerified`, `PeopleDecide`, `OverBudgetByOnePass`, `LoopEnds` |
| `scripted_support` | every workflow and rung of the program with its real budgets, every world | `EndsClean`, `NoSecondTicket`, `TimelinesAreThePolicys` |
| `intake` | three texts (plain, one like it that names the law, one that reads like instructions), two brands, two cache entries, two triages a model may give, one schema retry, two revisions, a budget of two | `OnlyVerifiedPosts`, `RegulatoryIsFollowedUp`, `HitsAreAnswers`, `PaidWithinOneCall`, `IntakeEnds` |
| `readings` | four cases of three authors in two feeds, two processes, a history of two, one crash | `OneVoiceIsNoWave`, `WaveIsSeen`, `ReturningHasReturned` |
| `autonomy` | replies and a capability that moves money, a window of two days, three decisions of people | `AuthorityIsEarned`, `AuthorityFades`; the `ASSUME`s about `Missions` |
| `rejection_holds` | one case, one run | section 5 |

Type invariants are stated in every module, and proved (section 4) where there is a
module of proofs.

Why the bounds are enough to be worth something:

* `tool_calls`: two callers are what a race for a probe takes; a threshold of two
  and a window of two let a failure age out before the second one; the three
  tools are the three ways in which retries and approvals are decided. There is
  no bound on time or on the number of calls. `Recovers` needs callers that keep
  coming (`WF` of `Start`), a clock that runs, and clients that do not hang up
  on *every* call (`SF` of `AttemptEnds`); an attempt always ends, as
  `asyncio.wait_for` sees to.
* `money_race`: the shortest way to reverse a debit twice takes two cases, or two
  runs of one; a crash between the reversal and the save is the third. Both
  ceilings occur, so that a policy can change between the plan, the review and
  the execution.
* `case_graph`: two answers are a double click, or a review and a call outcome
  that cross. `Settles` assumes that a step that can be taken is (`WF` of `Step`):
  every tool call ends at its timeout and nothing else in a node waits.
* `delivery`: two tasks of the server beside the listener and the operator are
  all pairs of processes and of tasks; ingests, requeues, crashes, unposted
  replies and torn reads share the bound `MaxEvents` of 2, the poll loop has no
  bound. Fairness: the listener polls and goes through its findings, a run that
  was started ends, a file update that was begun is finished.

* `call_desk`: three offers are one more than there are call slots, and enough for
  a third call after two that crossed; four tasks for two case slots make a
  queue in which one waiter is woken and another comes in behind it. Tasks start
  over when they are done, without a bound. `Drains` assumes that a handshake is
  answered or fails, that a call ends (it has a hard cap), that a run of the graph
  ends, and that the event loop runs whoever can run.
* `admin_desk`: two admins are what it takes to lock each other out, and two
  requests to act on what a guard read before; four lines hold a change of each
  tied field, one that depends on both, and one more that is glued to a torn line;
  a second crash hits the replay or the entry after the first one. `MaxEffort`
  bounds changes of accounts and lines of the log together, so that long sequences
  of either occur, and mixtures of both up to five. Requests are symmetric.

* `support_loop`: facts and clauses are checked one by one, so that one of each, which
  a text states or does not, shows every verdict; three passes hold a rejection,
  the retry and one more; each limit comes first in some behaviour, because a
  workflow's passes, the retries, the repeats and the budgets are all within one
  of each other. `LoopEnds` assumes that awaits end: model calls, tools and the
  sub-agent have timeouts.
* `scripted_support`: passes, retries and repeats are the program's own numbers
  (8 or what the workflow grants, 2, 3); time and money never run out, because they
  are the business of `support_loop`. Two clauses tell the right one from another.
* `intake`: two revisions are the code's number; two cache entries make the third
  put evict one; a budget of two is used up in the middle of a draft or a check;
  other cases bring one text, once, which may come from a model, from keywords or
  from the cache, and be like the case's own. `IntakeEnds` assumes that attempts end, as
  their timeout makes them, and that nodes go on.
* `readings`: one feed is a wave of three people, one of them twice, whose ages and
  order of arrival differ; the other is one loud person and a stranger. A history of
  two makes the third case push one out. Processes are symmetric.
* `autonomy`: three decisions reach the highest level, and a window of two days with
  a cool-off of one lets a rejection stop counting for the one before the other.
  Rows older than retention are alike. `AuthorityFades` assumes that time passes.
* `MCCallDesk` evaluates all utterances of up to three tokens of its vocabulary and
  every amount said in words of its parts; `MCAutonomy` every routing table of three
  agents and every answer of theirs.

Runs that may really stop switch the deadlock check off: a case closes
(`CaseGraph`), a poll that finds nothing changes nothing (`Delivery`), the log
is full or the effort spent (`AdminDesk`), a turn is over (`SupportLoop`), every
case is read (`Readings`), the case is at the gate (`Intake`), all decisions are
made (`Autonomy`).

## 4. The proofs

TLC checks the instances above; TLAPS proves the following for every number of
callers, cases, runs, requests and crashes, every plan, ledger and policy.

`ToolCallsProofs`:

* `TypeCorrect`.
* `ProbeIsOwned`: a half-open probe belongs to a call in flight whose first
  outcome is not in. By itself this is not inductive: `ProbeInv` adds that a
  closed circuit has no probe out, and that a probe is only out once the cooldown
  is over, so that an outcome reported by somebody else cannot find it.
* `WritesOnce`: a call of a write acts at most once; `EffectInv` adds that a write
  that may not be retried has done nothing as long as its one attempt is out.
* `NeverIntoAnOpenCircuit`, from type correctness alone.
* `OneProbeAtATime` and `RegistryKeepsPromise`, under `ShortTimeouts`: every
  timeout is shorter than the cooldown, as those of the built-in tools (3 to 15 s
  against 30 s) are. `SingleInv` adds that whatever is out besides the probe went
  out before the circuit opened; by the time of the probe it has timed out. The
  refinement has one step per action of the registry.

`CaseGraphProofs`. What is about money, from one inductive invariant,
`MoneyInv == TypeOK /\ ApprovalsGiven /\ CallsCleared /\ MoneyConsented /\ ReversedOnce`:

* `TypeCorrect`.
* `MoneyMovesByConsent`: `ApprovalsGiven` says that every approval in a row or in
  a run's copy was sent by a person for that case; `CallsCleared` that a reversal
  whose tool call is out was checked against facts that do not change, and
  consented to. The ceiling is not among those facts: it may change in between.
* `DebitsReversedOnce`: from the ledger's own conflict check, which is in one
  step with its write.
* `PipelineKeepsPromise`: every step is a `Consent`, a `Move` or a stutter of
  `MoneyPromise`.

What is about the case rests on `MoneyInv`'s types and on two more:

* `PostsAlwaysGated` and `ResolvedIsAlwaysTrue`, from `TruthInv`: what a case's row
  says, and what every run's copy of it and the local variables of its node say
  (`StateTrue`, `WorkTrue`), holds of the case, however many runs there are and
  whichever of them saves last. A state beyond the gate may go out (`MayGoOut`); a
  result "executed" is in the ledger or among the tickets (`Done`); a closure
  "resolved" has all it needs. These facts only ever become truer, which is why a
  stale copy does no harm to them.
* `NeverLeftStranded` and `PostedAtMostOnce`, from `HandsInv == NeverStranded /\ OnceInv`:
  a case that was never disturbed has one run at most, which has what was saved
  last; once its reply is out the row is beyond `publish`, or that run still knows
  of its receipt (`Unshared`).

`DeliveryProofs`, for any complaints, any number of tasks of the server, crashes and
requeues; all three invariants rest on `BaseInv`, which says what each actor can be
at and what it then knows:

* `TypeCorrect`.
* `NothingEverEvaporates`, from `KeptInv`, for every item that is not `contested`:
  what the poll loop is about to handle is not yet seen, what it marks for dead is
  dead in the log or was handled after all, and a requeue holds an item's record, and
  its mark, as they are on file (`OperatorSees`).
* `CostAlwaysBounded`, from `CostInv`, which needs `KeptInv`: the runs of an item that
  always fails are the failures counted and the runs under way, which are counted
  as workers on it and the poll loop; once it is dead few are left, and as long as the
  poll loop may still start one (`MayStart`), one fewer have been. `Worker` is finite, or there would be no bound.
* `HandledAtMostOnce`, from `OnceInv`: nobody but the poll loop has its hands on an
  item that was not replayed (`Alone`), and what it has handled it marks next.

`CallDeskProofs`, for any number of cases, tasks and slots, from
`DeskInv == TaskTypes /\ EntryInv /\ CallInv /\ CaseInv`:

* `TypeCorrect`: no count of a pool goes below zero, which needs the balances.
* `SlotsAlwaysBalance`, by counting the tasks that hold a slot; the half about case
  slots needs that nobody waits twice (`WaitsOnce`).
* `NeverGhosts` and `OneCallPerCase`, which are inductive together: an offer is only
  admitted where `_calls` has no entry, and has one for every call that is on.

`AdminDeskProofs`, first of the policy store, for any fields, bounds and rules:

* `TypeCorrect` and `PoliciesAlwaysLegal`: every change and every field of a replay
  is held against the rules with the values of that moment, so that legality is
  inductive with the types.
* `ValuesAreRecorded` and `FreeFieldsAlwaysSurvive`, from `KeptInv`: as long as
  nothing was glued to a torn line the log only grows, every field that was ever
  changed has a last change (`HasLast`) within its bounds (`LoggedInBounds`), and
  the replay has restored, or refused, exactly the fields it is done with
  (`RestoredSoFar`). A field no rule ties to another is never refused.

then of the desk around it, for any people and requests:

* `DeskIsAPolicyStore`: the desk implements `PolicyStore`; hence `DeskKeepsPolicies`,
  from the theorems above, without a new proof of any of them.
* `DeskTypeCorrect`.
* `RevokedNeverLetIn`: a revoked cookie has lost its row and no new row is ever
  given its number, so that being revoked and having no row is inductive.
* `AnAdminAlwaysRemains`: `update_user` counts the active admins in the same step
  in which it writes, and the count is of a finite set without the one at hand.

`SupportLoopProofs`, for any budgets, tools, workflows, facts and clauses, and
whatever the model decides, from
`LoopInv == TypeOK /\ UnderWay /\ SeenIsTold /\ Paid /\ DoneMeansVerified /\ PeopleDecide /\ OverBudgetByOnePass`:

* `TypeCorrect`, `DoneIsVerified`, `PeopleAlwaysDecide`, `BudgetsHold`. None is
  inductive alone: `UnderWay` says that a run that goes on has given nothing away
  and has a retry left, `SeenIsTold` that what the verifiers take for seen was
  observed or quoted, `Paid` what may be spent at each phase, so that the last
  pass, with the sub-agent in it, is all a run can go over by.

With the scripted policy instead of any model, for any view, budget and compaction:

* `ScriptRunsTheLoop`: the scripted loop implements the loop with any model, so that
  the theorems above hold of it too. The policy's branches are gone through once,
  for what it may choose at all (`Tame`).
* `TimelinesAreTheirs`: what is remembered is said without a clause, which the
  verifiers refuse.
* `NeverASecondTicket`, from `WindowInv` and `TicketInv`: the signs of the lines that
  steps leave or have left (`Lasting`) are only ever added to, since `Compacted` moves
  a line from a step to the summary; as long as summaries are shown, a view has them
  all, and the ticket that memory recalled is one of them. It needs that the tools'
  names differ.
* `ScriptAlwaysEndsClean`, from `SignsMean` and `CleanInv`, unless summaries were given
  up, a tool failed or the clause cannot be quoted. `SignsMean` says that what the
  window knows is so (a clause it shows was retrieved, a transaction was seen), so that
  every answer but the remembered one passes the verifiers. `CleanInv` has the set of
  steps taken (`Taken`: looked up, traced, searched, consulted, rejected, proposed,
  ticket opened), each of which is called for (`CalledFor`) by who asks what and how
  things are. The policy takes a step only when its view does not show it (`Apt`), hence
  never twice: as many passes as steps, no action repeated, one retry at most. The
  steps that any one question calls for are five at most and fewer than the passes of
  its workflow (`FewSteps`). It is not true of all budgets: `Ample` asks for six passes,
  a retry, a stall at the second repetition or later, and money and time for five steps
  and a consultation. `LoopBudget` grants eight passes, two retries, three repetitions.
  The other clause that can be retrieved is a single one, as the policy quotes one.

`IntakeProofs`, for any texts, models, answers, brands, similarity and bounds:

* `CallsAreBounded` and `PaidWithinACall`, from `CallInv`: the attempts a call has
  made are read off its retries and whether its fallback is still to come (`Made`),
  each of them cost `MaxCharge` at most, and no call starts at the ceiling. The
  product of attempts and charge is kept by the lemma `Times`.
* `VerifiedOrRead`: with a key no stage settles for its stub (`NoStub`), so that a
  grounded verdict on the way to the plan is a model's (`Verdicts`).
* `CacheIsAnswers` and `HitsAlwaysAnswers`: aging, eviction and what is put keep
  every entry a model's, and a hit is one of them under the case's own brand.
* `LawIsFollowedUp`: `LawInv` adds that the severity stays what the override made it
  after triage, and that the plan adds the ticket whoever planned.

`EvidenceProofs`, for any feed, processes, sizes, opinions and crashes:

* `TypeCorrect`, in `BaseInv == TypeOK /\ OnFile`: no case is on file twice, and
  nothing is that did not join. So `Joining`, which leaves out the first fingerprint
  of a case, leaves out all there are, as `add` does.
* `OneVoiceIsNeverAWave`: the authors of what is recent and alike are among those of
  everything alike. `Case` and `Author` are finite.
* `WavesAreSeen`, from `AloneInv`: as long as no two processes ran into each other, the
  file is the end of all that joined. It stays so because trimming before a
  fingerprint joins loses nothing (`TrimmingIsHarmless`), the lemma about sequences
  that this proof is really about.
* `ReturningAlwaysReturned`: what is on file has joined, whoever overwrote whom.
* `OpinionsStayInTheMiddle`, which no run checks.

and of the record of decisions, for any capabilities, days and shares:

* `RecordIsWellFormed` and `AuthorityIsAlwaysEarned`, from `RecordInv`: no row is a
  rejection and an agreement, and unless a decision was lost, every one of the
  retention's days is on file. Retention is no shorter than the window, so that the
  rows a verdict counts are the decisions of these days, and what it makes of their
  number and their share is what people said.
* `AuthorityIsNeverUnfounded`, which no run checks: whatever was lost, who acts
  alone has `MinDecisions` decisions of these days behind it, and the agreement that
  so many take.

The constants' assumptions are the named `ASSUME`s of the modules, which TLC
evaluates on the instances. Model-checked only:

* Liveness (`Recovers`, `Drains`, `LoopEnds`, `IntakeEnds`, `AuthorityFades`, both
  `Settles`), which is out of the prover's reach.
* The pure algorithms of `SpokenNumbers` and `Missions`, which are recursive over
  sequences.
* `LooksUpOnce` of `ScriptedSupport`, which no run lists: TLC finds it true when it is
  added to `ScriptedSupport.cfg`.

Every other invariant and action property that a run checks is a theorem.

## 5. What the code says and does not do

The first is a run that ends with a trace. Those marked with a property are stated
in their module and fail when the property is added to the named cfg; the others
were met while translating, and are steps of the modules.

* `rejection_holds`: a reply every person rejected is posted, because the gate
  reads the rules again, before the answer, when it is resumed.

With a property:

* `CallAwaited` (an invariant, `CaseGraph.cfg`): a second review answers the interrupt of the
  voice node, and the case closes without the call it owes ("Suspend until a voice
  call completes", `graph/nodes.py:1401`).
* `UnpostedIsKept` (an invariant, `Delivery.cfg`): the record of a reply that could not be posted is
  cleared by the run that made it.
* `ChangesSurvive` (an invariant, `AdminDesk.cfg`): the replay refuses the new value of a field
  because another field that would permit it has not been restored yet.
* `FactsObserved` (an invariant, `SupportLoop.cfg`): an invented reference that was refused once
  passes the second time, because the refusal that names it has become part of what
  was "seen". The second half of `DoneMeansVerified` is what is left: every fact of
  an answer was observed or had been quoted back to the model.
* `BacklogIsNoIncident` (an invariant, `Readings.cfg` with `Feeds <- LateFeeds`): `recent()` has no
  upper bound, so that when old posts are worked through after new ones
  (`connectors/reddit.py:44` does so) people far apart in time make a crisis ("A
  backlog being worked through is not an incident", `pattern.py:273`).
* `DisagreementNeverPromotes` (a property, `Autonomy.cfg` with
  `MinDecisions = 3`): a disagreement is also a decision, and
  may be the one that was missing for the next level ("moves up by agreeing",
  `autonomy.py:18`).
* `CachedUnderItsModel` (an invariant, `Intake.cfg`): an answer a fallback gave is kept under the
  model that was asked ("a different model is a different answer", `caching.py:14`).

In the modules, without a property:

* Autonomy: "returns to ASSISTED until it has earned its way back" is over when the
  cool-off is, without a new decision; a disagreement that a prune loses can speed
  a promotion up; replies that went out alone leave no rows, so that authority
  fades by use of it too (`AuthorityFades`).
* Intake: `_after_prioritise` drops a case on `not reply_worthy` alone, noise or not;
  any author with a history counts as a customer.
* Scripted policy: it stalls when `open_ticket` or `reversal_status` fails; a policy
  question whose best clause names another clause uses up its passes (`EndsClean`
  excludes both); a search overwrites the sub-agent's fact under the same key; facts
  can be given up to fit the budget; a ticket recalled as open suppresses a new one,
  whatever the new message is about; every turn has a new `case_id`, so that a
  ticket's idempotency does not span turns.
* Numbers: "rupees ek lakh bayalis hazaar" is read as 100,000 (`numbers.py:38`), "dedh
  dedh hazaar" as 3,000 (`:48`), "rupees 500 4 hazaar" as 504,000 and "eleven two
  thousand" as 13,000 (`:310`), "do hazaar ₹500" becomes "₹2,000500", and "two
  thousand rupees 500" loses the 500.
* Receipts: channels that contradict each other in one clause are "consistent" when
  both rely on both (`consistency.py:17`); the citation tracker may credit a call with a
  clause too many (`voice/brief.py:268`).
* Missions: `qualify` hands to `reach_out` (`missions.py:87`), which its declaration
  does not list (`missions.py:45`): every lead with a contact and seats enough is
  refused (`LeadsFinish` says exactly which). `check` lets dead ends through and does
  not look at `max_hops` (`DeadEndsAreLetThrough`).
* Accounts: the bootstrap looks for users and inserts in two steps, between which the
  command line may add one ("never add to a real team", `auth.py`); the request of a
  demoted admin that is past its guard is still carried out, also one that promotes
  its sender again; if the first account is an agent, nobody can administer by the
  API until the command line adds an admin. `AnAdminRemains` starts from the first.
* A final answer is no part of an action's fingerprint
  (`record_action` gets the decision's `args`), so that different drafts, one of
  them empty, count as "identical action" (`budget.py`) and stall a loop that has
  retries left.
* `record_success` closes an open circuit whoever reports it. A
  success of an attempt that went out before the trip ends the cooldown, although
  no probe was let through ("A probe got an answer", `breaker.py`). `ToolCalls`
  has these steps, and `CircuitPromise` permits them (a late success).
* Two offers of one case are both let through if the second comes
  during the handshake of the first, and each call then removes the other's
  entry ("A case can only be on one call at a time", `api/server.py`).
  `CallDesk` has these steps; `OneCallUnlessCrossed` says what is left.
* Only the API asks `is_dead`, so that the poll loop runs an item once
  more that the API has declared dead ("Callers must not replay one",
  `delivery.py`); `CostIsBounded` holds all the same.
* An entry that follows a torn one is glued to it, so that a change
  which is in force cannot be read after the next restart ("no unrecorded
  change", `policy_store.py`). `PolicyStore` has these steps, and its properties
  leave out the fields they hit.

`PostedOnce` and `HandledOnce` hold as they are stated, with the overlaps and
crashes that the code does not guard against taken out: `post_reply` is not
idempotent, and two runs from one row may both post.

## 6. What is not modelled

* Texts and numerics: the classifiers of `triage_backends.py`, the patterns of
  guardrails, retrieval, embeddings, explanations. They keep no state across calls;
  their results are inputs that the models choose freely.
* The voice agent's media pipeline (`voice/agent.py`): the end of a call and its
  outcome are inputs.
* The ledger's JSON file under several processes, and the temporary file of the
  delivery log that two processes would share: the models have one process, or an
  atomic rename.
* The outer loop and the evaluations: statistics over recorded runs.
* Connectors: external channels; a post may land or not, whatever is answered.
* The console, the deployment scripts and the demonstrations.
* Feedback, costs, spans and audit entries that nodes append: no property reads
  them.

## 7. What is left

In the order of what matters most:

* Proofs: `LooksUpOnce` of `ScriptedSupport`, by the argument of `WindowInv` with the
  facts as well.
* The composition of `Intake` with `CaseGraph`: the plan of the one is the constant
  `Complaint` of the other.
* The ledger's file under two processes, where one reversal per debit fails.
