-------------------------------- MODULE Readings --------------------------------
(***************************************************************************)
(* The three readings of a case that decide whether it is answered at all  *)
(* (sanwaad/pattern.py, sanwaad/judge.py, and their nodes in               *)
(* sanwaad/graph/nodes.py): what it is next to the others, who is          *)
(* speaking, and how urgent that makes it.                                 *)
(*                                                                         *)
(* The others are a window of fingerprints in a file that every process    *)
(* reads, and rewrites whole.  A lock keeps the threads of one process     *)
(* apart; between processes nothing does.  detect() runs without an await: *)
(* a process is in one at a time.                                          *)
(*                                                                         *)
(* Scores are hundredths, times are ticks.  Two complaints are similar if  *)
(* they have a topic in common, and copies if their wording is the same.   *)
(***************************************************************************)
EXTENDS Integers, Sequences, FiniteSets, SequencesExt, FiniteSetsExt

CONSTANTS
    Process,      \* processes that run cases over one data directory
    Case, Author, Topic, Wording,
    Feeds,        \* what may be posted: functions from cases to posts
    Window,       \* ticks a cluster may reach back
    WatchSize, CrisisSize,
    Hour,         \* ticks of an hour
    Fast,         \* crisis_velocity_per_hour
    CampaignSize, \* coordinated_duplicate_authors
    MaxHistory,   \* fingerprints kept
    Opinion,      \* what a model may say of an author: pairs of a class and a score
    MaxCrashes,   \* bound: processes that die
    None

\* specifics, outrage, motive and shouting: what the text shows; the rest is the
\* account's.
Profile ==
    [specifics : Nat, outrage : BOOLEAN, motive : BOOLEAN, shouting : BOOLEAN,
     age : {"new", "young", "old"}, karma : {"throwaway", "some", "much"},
     verified : BOOLEAN, fewPosts : BOOLEAN, reach : Nat]

Post ==
    [author : Author, topic : Topic, wording : Wording, at : Nat,
     profile : Profile, complaint : BOOLEAN, severity : 1 .. 5]

Level == {"none", "watch", "crisis"}

Class == {"customer", "audience", "troll", "bot", "competitor", "unknown"}

ASSUME ReadingsAssumption ==
    /\ IsFiniteSet(Case) /\ IsFiniteSet(Author)
    /\ Feeds \subseteq [Case -> Post]
    /\ Window \in Nat /\ Hour \in Nat \ {0} /\ Fast \in Nat /\ CampaignSize \in Nat
    /\ MaxHistory \in Nat \ {0}
    /\ CrisisSize \in Nat /\ WatchSize \in 2 .. CrisisSize
    /\ Opinion \subseteq Class \X (0 .. 100) /\ MaxCrashes \in Nat
    /\ None \notin Case \cup Level

VARIABLES
    post,       \* the feed
    window,     \* the fingerprints on file, as the cases they are of
    torn,       \* the file is being written, or was never finished
    work,       \* where each process is in detect(): Process -> Work
    level,      \* the pattern of each case, or None before it is detected
    copies,     \* the other authors with the same wording
    verdict,    \* the author's, or None before the judge
    joined,     \* history: the cases whose fingerprints were saved, in order
    before,     \* history: those that a case was to be compared with
    overlapped, \* history: two processes were in detect() at once, or one died writing
    crashes     \* history: processes that died

vars == <<post, window, torn, work, level, copies, verdict, joined, before,
          overlapped, crashes>>

-----------------------------------------------------------------------------
(* The window and what a case looks like in it.                             *)

\* prints: what add() has loaded, with the case's own at the end.
Work == [case : Case \cup {None}, step : {"idle", "scored", "loaded", "writing"},
         prints : Seq(Case)]

NoWork == [case |-> None, step |-> "idle", prints |-> <<>>]

\* A file that does not parse is an empty window.
Load == IF torn THEN <<>> ELSE window

\* There is a floor to what is recent, and no ceiling.
Recent(c) == {d \in ToSet(Load) : d # c /\ post[d].at >= post[c].at - Window}

Alike(c, cases) == {d \in cases : post[d].topic = post[c].topic}

AuthorsOf(cases) == {post[d].author : d \in cases}

\* Mutant: comments are counted, and not people.
ClusterOfPosts(c, alike) == Cardinality(alike) + 1

Cluster(c, alike) == Cardinality(AuthorsOf(alike) \cup {post[c].author})

\* Of the times at or before the case's own, and never less than a tick.
Span(c, alike) == Max({1, post[c].at - Min({post[d].at : d \in alike \cup {c}})})

\* size / (span / hour) >= fast, without a fraction.
IsFast(c, alike) == Cluster(c, alike) * Hour >= Fast * Span(c, alike)

AssessCluster(c, alike) ==
    LET size == Cluster(c, alike)
    IN  IF size >= CrisisSize \/ (size >= WatchSize /\ IsFast(c, alike)) THEN "crisis"
        ELSE IF size >= WatchSize THEN "watch"
        ELSE "none"

CoordinatedAuthors(c, recent) ==
    Cardinality(AuthorsOf({d \in recent : post[d].wording = post[c].wording})
                    \ {post[c].author})

LastOf(s, n) == SubSeq(s, Max({1, Len(s) - n + 1}), Len(s))

\* Mutant: the oldest are kept.
TrimmedAtTheEnd(prints) == SubSeq(prints, 1, Min({Len(prints), MaxHistory}))

Trimmed(prints) == LastOf(prints, MaxHistory)

\* No case is on file twice, so that the first of it is all of it.
Joining(c, prints) == Append(RemoveFirst(prints, c), c)

-----------------------------------------------------------------------------
(* detect().                                                                *)

Init ==
    /\ post \in Feeds
    /\ window = <<>> /\ torn = FALSE
    /\ work = [p \in Process |-> NoWork]
    /\ level = [c \in Case |-> None]
    /\ copies = [c \in Case |-> 0]
    /\ verdict = [c \in Case |-> None]
    /\ joined = <<>> /\ before = [c \in Case |-> {}]
    /\ overlapped = FALSE /\ crashes = 0

Others(p) == {q \in Process \ {p} : work[q].step # "idle"}

\* The case is compared with the recent ones.
Detect(p, c) ==
    /\ work[p].step = "idle"
    /\ level[c] = None /\ \A q \in Process : work[q].case # c
    /\ LET recent == Recent(c)
       IN  /\ level' = [level EXCEPT ![c] = AssessCluster(c, Alike(c, recent))]
           /\ copies' = [copies EXCEPT ![c] = CoordinatedAuthors(c, recent)]
    /\ work' = [work EXCEPT ![p] = [case |-> c, step |-> "scored", prints |-> <<>>]]
    /\ before' = [before EXCEPT ![c] = ToSet(LastOf(joined, MaxHistory))]
    /\ overlapped' = (overlapped \/ Others(p) # {})
    /\ UNCHANGED <<post, window, torn, verdict, joined, crashes>>

AddLoads(p) ==
    /\ work[p].step = "scored"
    /\ work' = [work EXCEPT ![p].step = "loaded",
                            ![p].prints = Joining(work[p].case, Load)]
    /\ UNCHANGED <<post, window, torn, level, copies, verdict, joined, before,
                   overlapped, crashes>>

\* Opening the file to write it empties it.
SaveOpens(p) ==
    /\ work[p].step = "loaded"
    /\ work' = [work EXCEPT ![p].step = "writing"]
    /\ torn' = TRUE
    /\ UNCHANGED <<post, window, level, copies, verdict, joined, before, overlapped, crashes>>

SaveEnds(p) ==
    /\ work[p].step = "writing"
    /\ window' = Trimmed(work[p].prints)
    /\ torn' = FALSE
    /\ joined' = Joining(work[p].case, joined)
    /\ work' = [work EXCEPT ![p] = NoWork]
    /\ UNCHANGED <<post, level, copies, verdict, before, overlapped, crashes>>

\* The process dies in detect(); its case will be run again.
Crash(p) ==
    /\ crashes < MaxCrashes /\ work[p].step # "idle"
    /\ level' = [level EXCEPT ![work[p].case] = None]
    /\ work' = [work EXCEPT ![p] = NoWork]
    /\ overlapped' = (overlapped \/ work[p].step = "writing")
    /\ crashes' = crashes + 1
    /\ UNCHANGED <<post, window, torn, copies, verdict, joined, before>>

-----------------------------------------------------------------------------
(* The judge.                                                               *)

Verdict == [class : Class, authenticity : 0 .. 100, history : Nat, asked : BOOLEAN,
            byRules : 0 .. 100]

Within(low, high, n) == Max({low, Min({high, n})})

When(condition, delta) == IF condition THEN delta ELSE 0

AccountSignals(a) ==
    When(a.age = "new", -30) + When(a.age = "old", 15)
    + When(a.karma = "throwaway", -20) + When(a.karma = "much", 10)
    + When(a.verified, 15) + When(a.fewPosts, -10)

RhetoricSignals(a) ==
    When(a.outrage /\ a.specifics = 0, -25) + When(a.motive /\ a.specifics = 0, -15)
    + When(a.shouting, -10)

Authenticity(a, history, dup) ==
    Within(0, 100, 55 + 18 * Min({a.specifics, 3}) + AccountSignals(a)
                      + Min({10 * history, 20}) + When(dup >= CampaignSize, -35)
                      + RhetoricSignals(a))

Classify(a, authenticity, history, dup) ==
    IF dup >= CampaignSize /\ a.specifics = 0 THEN "bot"
    ELSE IF a.specifics > 0 \/ history > 0 THEN "customer"
    ELSE IF authenticity <= 35 THEN "troll"
    ELSE IF authenticity >= 55 THEN "audience"
    ELSE "unknown"

AmbiguousLow == 30
AmbiguousHigh == 55

NeedsASecondOpinion(v) ==
    v.class \in {"unknown", "troll"} /\ v.authenticity \in AmbiguousLow .. AmbiguousHigh

\* Mutant: the case that asks is counted.
HistoryWithItself(c) ==
    Cardinality({d \in ToSet(Load) : post[d].author = post[c].author})

AuthorHistory(c) ==
    Cardinality({d \in ToSet(Load) : post[d].author = post[c].author /\ d # c})

TriageWantsAReply(c) == post[c].complaint \/ post[c].severity >= 4

ByRules(c) ==
    LET a == post[c].profile
        history == AuthorHistory(c)
        authenticity == Authenticity(a, history, copies[c])
    IN  [class |-> Classify(a, authenticity, history, copies[c]),
         authenticity |-> authenticity, history |-> history, asked |-> FALSE,
         byRules |-> authenticity]

\* Mutant: the model's score is taken as it is.
MovedAnywhere(v, class, score) ==
    [v EXCEPT !.class = class, !.authenticity = score, !.asked = TRUE]

\* A model moves the score within the band it was asked about.
Moved(v, class, score) ==
    [v EXCEPT !.class = class, !.asked = TRUE,
              !.authenticity = Within(AmbiguousLow, AmbiguousHigh, score)]

\* The case is on file by now, with whatever else has come meanwhile.
Judge(c) ==
    /\ level[c] # None /\ verdict[c] = None
    /\ \A p \in Process : work[p].case # c
    /\ LET v == ByRules(c)
       IN  IF TriageWantsAReply(c) /\ NeedsASecondOpinion(v)
           THEN \E o \in Opinion \cup {<<v.class, v.authenticity>>} :
                    verdict' = [verdict EXCEPT ![c] = Moved(v, o[1], o[2])]
           ELSE verdict' = [verdict EXCEPT ![c] = v]
    /\ UNCHANGED <<post, window, torn, work, level, copies, joined, before,
                   overlapped, crashes>>

-----------------------------------------------------------------------------
(* prioritise(), which reads nothing but the case.                          *)

WorthyReach == 5000

ReplyWorthy(c) ==
    verdict[c].class # "bot"
    /\ (verdict[c].authenticity >= 35 \/ post[c].profile.reach >= WorthyReach)

Tier(c) ==
    IF level[c] = "crisis" THEN "crisis"
    ELSE IF ~ReplyWorthy(c) \/ ~TriageWantsAReply(c) THEN "ignore"
    ELSE IF post[c].severity >= 4 \/ level[c] = "watch" \/ post[c].profile.reach >= WorthyReach
    THEN "priority"
    ELSE "routine"

-----------------------------------------------------------------------------

Next ==
    \/ \E p \in Process :
          \/ \E c \in Case : Detect(p, c)
          \/ AddLoads(p) \/ SaveOpens(p) \/ SaveEnds(p) \/ Crash(p)
    \/ \E c \in Case : Judge(c)

Spec == Init /\ [][Next]_vars

-----------------------------------------------------------------------------
(* Properties.                                                              *)

TypeOK ==
    /\ post \in [Case -> Post]
    /\ window \in Seq(Case) /\ Len(window) <= MaxHistory
    /\ torn \in BOOLEAN
    /\ work \in [Process -> Work]
    /\ level \in [Case -> Level \cup {None}]
    /\ copies \in [Case -> Nat]
    /\ verdict \in [Case -> Verdict \cup {None}]
    /\ joined \in Seq(Case) /\ before \in [Case -> SUBSET Case]
    /\ overlapped \in BOOLEAN /\ crashes \in 0 .. MaxCrashes

Voices(c) == AuthorsOf(Alike(c, Case))

\* Nobody is a wave: however often one person posts, and however often a case
\* is run again, a level stands for as many people as it says (assess_cluster).
OneVoiceIsNoWave ==
    \A c \in Case : level[c] \in {"watch", "crisis"} => Cardinality(Voices(c)) >= WatchSize

\* A wave is seen: when enough people have posted the like within the window
\* before a comment, and no more cases than the store keeps have come since
\* theirs, the comment is part of a crisis, in whatever order they were handled
\* (detect, PatternStore).  Two processes at once may lose any of it.
WaveIsSeen ==
    ~overlapped =>
        \A c \in Case : level[c] # None =>
            LET wave == {d \in Alike(c, before[c] \cup {c}) :
                            post[d].at \in post[c].at - Window .. post[c].at}
                people == Cardinality(AuthorsOf(wave))
            IN  /\ people >= CrisisSize => level[c] = "crisis"
                /\ people >= WatchSize => level[c] \in {"watch", "crisis"}

\* Who is called a returning customer has returned: another case of theirs was
\* on file, and the case in hand, also when it is run twice, is none
\* (author_history).
ReturningHasReturned ==
    \A c \in Case : verdict[c] # None =>
        verdict[c].history <=
            Cardinality({d \in ToSet(joined) \ {c} : post[d].author = post[c].author})

\* A model is asked about the middle only, and what it says stays there: the
\* account's own evidence, strong either way, is never overturned (judge_node).
OpinionStaysInTheMiddle ==
    \A c \in Case : verdict[c] # None =>
        IF verdict[c].asked
        THEN {verdict[c].byRules, verdict[c].authenticity} \subseteq AmbiguousLow .. AmbiguousHigh
        ELSE verdict[c].authenticity = verdict[c].byRules

\* "A backlog being worked through is not an incident" (pattern.py:273): the
\* people of a crisis have posted within one window.
BacklogIsNoIncident ==
    \A c \in Case : level[c] = "crisis" =>
        \E t \in {post[d].at : d \in Case} : WatchSize <=
            Cardinality(AuthorsOf({d \in Alike(c, Case) : post[d].at \in t .. t + Window}))
================================================================================
