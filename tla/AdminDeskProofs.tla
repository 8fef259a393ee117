---------------------------- MODULE AdminDeskProofs ----------------------------
(***************************************************************************)
(* For any people, requests, fields, bounds and rules.  First of the policy *)
(* store: that no history of changes, reverts, crashes and replays puts an  *)
(* illegal combination of policies in force, and what a restart keeps.      *)
(* Then of the desk around it: that it is a policy store, so that all this  *)
(* holds behind the guards too; that no cookie outlives its revocation; and *)
(* that an admin remains.                                                   *)
(***************************************************************************)
EXTENDS AdminDesk, FiniteSetTheorems, TLAPS

(* Type correctness and legality.                                           *)

LEMMA ValidIsLegal ==
    ASSUME NEW v \in Values, Legal(v), NEW f \in Field, NEW x, Valid(v, f, x)
    PROVE  [v EXCEPT ![f] = x] \in Values /\ Legal([v EXCEPT ![f] = x])
BY PolicyAssumption DEF Values, Legal, Valid, InBounds, Consistent

LEMMA LogsLines ==
    ASSUME audit \in Seq(Line), NEW line \in Line
    PROVE  Written(line) \in Seq(Line)
<1>1. audit \in Seq(Line)
  OBVIOUS
<1>2. CASE open
  <2>1. \A n \in DOMAIN audit : audit[n] \in Line
    BY <1>1
  <2>2. \A n \in DOMAIN audit : [audit[n] EXCEPT !.readable = FALSE] \in Line
    BY <2>1 DEF Line
  <2>3. /\ DOMAIN Written(line) = DOMAIN audit
        /\ \A n \in DOMAIN audit : Written(line)[n] \in Line
    BY <1>2, <2>1, <2>2 DEF Written
  <2>4. Len(audit) \in Nat /\ DOMAIN audit = 1 .. Len(audit)
    BY <1>1
  <2>5. Written(line) = [n \in 1 .. Len(audit) |-> Written(line)[n]]
    BY <1>2, <2>3, <2>4 DEF Written
  <2> QED
    BY <2>3, <2>4, <2>5
<1>3. CASE ~open
  BY <1>1, <1>3 DEF Written
<1> QED
  BY <1>2, <1>3

LEMMA LostFields ==
    ASSUME lost \subseteq Field, NEW line, Logs(line)
    PROVE  lost' \subseteq Field
BY DEF Logs, Destroyed

TypeInv == TypeOK /\ AlwaysLegal

LEMMA ApplyKeepsTypes ==
    ASSUME TypeInv, NEW f \in Field, NEW x, Apply(f, x)
    PROVE  TypeInv'
<1>1. value \in Values /\ Legal(value) /\ Valid(value, f, x)
  BY DEF TypeInv, TypeOK, AlwaysLegal, Apply, Changeable
<1>2. value' \in Values /\ Legal(value)'
  BY <1>1, ValidIsLegal DEF Apply, Legal
<1>3. Entry(f, value[f], x) \in Line
  BY <1>1, PolicyAssumption DEF Entry, Line, Values, Valid, InBounds
<1>4. audit' \in Seq(Line)
  BY <1>3, LogsLines DEF TypeInv, TypeOK, Apply, Logs
<1>5. lost' \subseteq Field
  BY LostFields DEF TypeInv, TypeOK, Apply
<1> QED
  BY <1>2, <1>4, <1>5 DEF TypeInv, TypeOK, AlwaysLegal, Apply

LEMMA CrashesBounded ==
    ASSUME TypeOK, Down
    PROVE  crashes' \in 0 .. MaxCrashes
<1>1. MaxCrashes \in Nat
  BY PolicyAssumption
<1> QED
  BY <1>1 DEF TypeOK, Down

LEMMA StepKeepsTypes == TypeInv /\ [Next]_vars => TypeInv'
<1> SUFFICES ASSUME TypeInv, [Next]_vars PROVE TypeInv'
  OBVIOUS
<1>1. ASSUME NEW f \in Field, NEW x \in Low[f] .. High[f], Apply(f, x) PROVE TypeInv'
  BY <1>1, ApplyKeepsTypes
<1>2. ASSUME NEW f \in Field, NEW x \in Low[f] .. High[f], CrashInApply(f, x) PROVE TypeInv'
  <2>1. /\ Logs(Entry(f, value[f], x)) \/ Logs(Rest(f, value[f], x))
        /\ open' \in BOOLEAN
    BY <1>2 DEF CrashInApply
  <2>2. Entry(f, value[f], x) \in Line /\ Rest(f, value[f], x) \in Line
    BY PolicyAssumption DEF Entry, Rest, Line, Values, TypeInv, TypeOK
  <2>3. audit' \in Seq(Line)
    BY <2>1, <2>2, LogsLines DEF TypeInv, TypeOK, Logs
  <2>4. Down
    BY <1>2 DEF CrashInApply
  <2>5. crashes' \in 0 .. MaxCrashes
    BY <2>4, CrashesBounded DEF TypeInv
  <2> QED
    BY <2>1, <2>3, <2>4, <2>5, LostFields DEF TypeInv, TypeOK, AlwaysLegal, Down
<1>3. ASSUME NEW n \in DOMAIN audit, Revert(n) PROVE TypeInv'
  <2>1. audit[n] \in Line
    BY DEF TypeInv, TypeOK
  <2> QED
    BY <1>3, <2>1, ApplyKeepsTypes DEF Revert, Line
<1>4. CASE Crash
  BY <1>4, CrashesBounded DEF TypeInv, TypeOK, AlwaysLegal, Crash, Down, file
<1>5. CASE Start
  BY <1>5, PolicyAssumption DEF TypeInv, TypeOK, AlwaysLegal, Legal, Start, file
<1>6. ASSUME NEW f \in Field, Restore(f) PROVE TypeInv'
  <2>1. value \in Values /\ Legal(value)
    BY <1>6 DEF TypeInv, TypeOK, AlwaysLegal, Restore
  <2>2. value' \in Values /\ Legal(value)'
    BY <1>6, <2>1, ValidIsLegal DEF Restore, Legal
  <2> QED
    BY <1>6, <2>2 DEF TypeInv, TypeOK, AlwaysLegal, Restore, file
<1>7. CASE Serve
  BY <1>7 DEF TypeInv, TypeOK, AlwaysLegal, Legal, Serve, file
<1>8. CASE UNCHANGED vars
  BY <1>8 DEF TypeInv, TypeOK, AlwaysLegal, Legal, vars, memory, file
<1> QED
  BY <1>1, <1>2, <1>3, <1>4, <1>5, <1>6, <1>7, <1>8 DEF Next

LEMMA TypesAtFirst == Init => TypeInv
<1> SUFFICES ASSUME Init PROVE TypeInv
  OBVIOUS
<1>1. value \in Values /\ Legal(value)
  BY PolicyAssumption DEF Init
<1>2. crashes \in 0 .. MaxCrashes
  BY PolicyAssumption DEF Init
<1>3. audit \in Seq(Line)
  BY DEF Init
<1>4. server = "starting" /\ todo \subseteq Field /\ open \in BOOLEAN /\ lost \subseteq Field
  BY DEF Init
<1> QED
  BY <1>1, <1>2, <1>3, <1>4 DEF TypeInv, TypeOK, AlwaysLegal

LEMMA TypesHold == Spec => []TypeInv
BY TypesAtFirst, StepKeepsTypes, PTL DEF Spec

\* Every variable of the store keeps its type, whatever the fields are.
THEOREM TypeCorrect == Spec => []TypeOK
BY TypesHold, PTL DEF TypeInv

\* "Bounded": the policies in force are legal at every moment, also while the
\* log is replayed.
THEOREM PoliciesAlwaysLegal == Spec => []AlwaysLegal
BY TypesHold, PTL DEF TypeInv

-----------------------------------------------------------------------------
(* What a restart keeps.  As long as no line was written onto a torn one the *)
(* log only grows: every field that was changed has a last change, and the   *)
(* values in force follow it, or the defaults, field by field.               *)

HasLast ==
    \A f \in Field \ lost :
        (\E n \in DOMAIN audit : Logged(f, n)) => \E n \in DOMAIN audit : LastLogged(f, n)

LoggedInBounds ==
    \A f \in Field : \A n \in DOMAIN audit : Logged(f, n) => InBounds(f, audit[n].new)

Kept(f) == (AsLogged(f) \/ value[f] = Default[f]) /\ (Free(f) => AsLogged(f))

RestoredSoFar ==
    /\ server # "down" => \A f \in (Field \ todo) \ lost : Kept(f)
    /\ server = "starting" =>
          \A f \in todo \ lost : value[f] = Default[f] /\ \E n \in DOMAIN audit : Logged(f, n)
    /\ server = "serving" => todo = {}

OpenHasLine == open => audit # <<>>

KeptInv == TypeInv /\ OpenHasLine /\ HasLast /\ LoggedInBounds /\ RestoredSoFar

LEMMA TypeOfLog ==
    ASSUME audit \in Seq(Line), NEW line \in Line, Logs(line)
    PROVE  /\ DOMAIN audit \subseteq Int /\ DOMAIN audit' \subseteq Int
           /\ (open => audit # <<>>) => audit' # <<>>
<1>1. audit' \in Seq(Line)
  BY LogsLines DEF Logs
<1>2. CASE open
  BY <1>2 DEF Logs, Written
<1>3. CASE ~open
  BY <1>1, <1>3 DEF Logs, Written
<1> QED
  BY <1>1, <1>2, <1>3

\* Which line of the log is new, if any, and what the other lines tell.
LEMMA LogsLine ==
    ASSUME audit \in Seq(Line), NEW line \in Line, Logs(line), open => audit # <<>>,
           NEW f \in Field
    PROVE  /\ \A n \in DOMAIN audit :
                  /\ n \in DOMAIN audit'
                  /\ audit'[n].field = audit[n].field
                  /\ audit'[n].new = audit[n].new
           /\ \A n \in Int : Logged(f, n)' => Logged(f, n) \/ (audit'[n] = line /\ ~open)
           /\ f \notin lost' => \A n \in Int : Logged(f, n) => Logged(f, n)'
           /\ f \notin lost' /\ open => line.field # f
<1>1. Len(audit) \in Nat /\ DOMAIN audit = 1 .. Len(audit) /\ DOMAIN audit \subseteq Int
  OBVIOUS
<1>2. CASE open
  <2>1. /\ DOMAIN audit' = DOMAIN audit
        /\ \A n \in DOMAIN audit : audit[n] \in Line
        /\ \A n \in DOMAIN audit :
              audit'[n] = IF n = Len(audit) THEN [audit[n] EXCEPT !.readable = FALSE]
                          ELSE audit[n]
    <3>1. \A n \in DOMAIN audit : audit[n] \in Line
      BY <1>1
    <3>2. DOMAIN audit' = DOMAIN audit
      BY <1>2 DEF Logs, Written
    <3>3. \A n \in DOMAIN audit : n # Len(audit) => audit'[n] = audit[n]
      BY <1>1, <1>2 DEF Logs, Written
    <3>4. Len(audit) \in DOMAIN audit =>
             audit'[Len(audit)] = [audit[Len(audit)] EXCEPT !.readable = FALSE]
      BY <1>2 DEF Logs, Written
    <3> QED
      BY <3>1, <3>2, <3>3, <3>4
  <2>2. lost' = lost \cup {g \in Field : g = line.field \/ Logged(g, Len(audit))}
    BY <1>2 DEF Logs, Destroyed
  <2>3. \A n \in DOMAIN audit :
            /\ audit'[n].field = audit[n].field /\ audit'[n].new = audit[n].new
            /\ audit'[n].readable => audit[n].readable
            /\ n # Len(audit) => audit'[n] = audit[n]
    <3> SUFFICES ASSUME NEW n \in DOMAIN audit
                 PROVE  /\ audit'[n].field = audit[n].field /\ audit'[n].new = audit[n].new
                        /\ audit'[n].readable => audit[n].readable
                        /\ n # Len(audit) => audit'[n] = audit[n]
      OBVIOUS
    <3>1. CASE n = Len(audit)
      BY <2>1, <3>1 DEF Line
    <3>2. CASE n # Len(audit)
      BY <2>1, <3>2
    <3> QED
      BY <3>1, <3>2
  <2>4. \A n \in Int : Logged(f, n)' => Logged(f, n)
    BY <2>1, <2>3 DEF Logged
  <2>5. f \notin lost' => line.field # f /\ ~Logged(f, Len(audit))
    BY <2>2
  <2>6. f \notin lost' => \A n \in Int : Logged(f, n) => Logged(f, n)'
    BY <2>1, <2>3, <2>5 DEF Logged
  <2> QED
    BY <1>2, <2>1, <2>3, <2>4, <2>5, <2>6
<1>3. CASE ~open
  <2>1. audit' = Append(audit, line)
    BY <1>3 DEF Logs, Written
  <2>2. /\ DOMAIN audit' = 1 .. (Len(audit) + 1)
        /\ \A n \in DOMAIN audit : audit'[n] = audit[n]
        /\ audit'[Len(audit) + 1] = line
    BY <1>1, <2>1
  <2> QED
    BY <1>1, <1>3, <2>2 DEF Logged
<1> QED
  BY <1>2, <1>3

\* What is not about the new line's field stays as it is.
LEMMA OthersStay ==
    ASSUME audit \in Seq(Line), NEW line \in Line, Logs(line), open => audit # <<>>,
           NEW f \in Field, f \notin lost', ~(line.readable /\ line.field = f)
    PROVE  /\ \A n \in Int : LastLogged(f, n)' <=> LastLogged(f, n)
           /\ \A n \in Int : Logged(f, n)' <=> Logged(f, n)
           /\ value'[f] = value[f] => (AsLogged(f)' <=> AsLogged(f))
<1>1. \A n \in Int : Logged(f, n)' <=> Logged(f, n)
  BY LogsLine DEF Logged
<1>2. /\ DOMAIN audit \subseteq Int /\ DOMAIN audit' \subseteq Int
      /\ \A n \in DOMAIN audit : n \in DOMAIN audit' /\ audit'[n].new = audit[n].new
  BY LogsLine, LogsLines, TypeOfLog DEF Logs
<1>3. \A n \in Int : LastLogged(f, n)' <=> LastLogged(f, n)
  BY <1>1, <1>2 DEF LastLogged, Logged
<1> QED
  BY <1>1, <1>2, <1>3 DEF AsLogged, LastLogged, Logged

\* The last change of the new line's field is the new line.
LEMMA NewIsLast ==
    ASSUME audit \in Seq(Line), NEW f \in Field, NEW line \in Line, Logs(line), ~open,
           line.readable, line.field = f
    PROVE  \E n \in DOMAIN audit' : LastLogged(f, n)' /\ audit'[n] = line
<1>1. PICK n \in Nat : n = Len(audit) + 1
  OBVIOUS
<1>2. DOMAIN audit' = 1 .. n /\ audit'[n] = line
  BY <1>1 DEF Logs, Written
<1>3. LastLogged(f, n)'
  BY <1>1, <1>2 DEF LastLogged, Logged
<1> QED
  BY <1>1, <1>2, <1>3

LEMMA GrowthKeeps ==
    ASSUME audit \in Seq(Line), HasLast, LoggedInBounds, NEW line \in Line, Logs(line),
           open => audit # <<>>, line.readable => InBounds(line.field, line.new)
    PROVE  HasLast' /\ LoggedInBounds' /\ lost \subseteq lost'
<1>1. DOMAIN audit \subseteq Int /\ DOMAIN audit' \subseteq Int
  BY TypeOfLog DEF Logs
<1>2. lost \subseteq lost'
  BY DEF Logs
<1>3. HasLast'
  <2> SUFFICES ASSUME NEW f \in Field, f \notin lost', NEW n \in DOMAIN audit', Logged(f, n)'
               PROVE  \E m \in DOMAIN audit' : LastLogged(f, m)'
    BY DEF HasLast
  <2>1. CASE line.readable /\ line.field = f
    BY <2>1, NewIsLast, LogsLine DEF LastLogged
  <2>2. CASE ~(line.readable /\ line.field = f)
    <3>1. Logged(f, n)
      BY <1>1, <2>2, OthersStay
    <3>2. PICK m \in DOMAIN audit : LastLogged(f, m)
      BY <1>2, <3>1 DEF HasLast, Logged
    <3>3. LastLogged(f, m)'
      BY <1>1, <2>2, <3>2, OthersStay
    <3> QED
      BY <3>3 DEF LastLogged, Logged
  <2> QED
    BY <2>1, <2>2
<1>4. LoggedInBounds'
  <2> SUFFICES ASSUME NEW f \in Field, NEW n \in DOMAIN audit', Logged(f, n)'
               PROVE  InBounds(f, audit'[n].new)
    BY DEF LoggedInBounds, InBounds
  <2>1. Logged(f, n) \/ audit'[n] = line
    BY <1>1, LogsLine
  <2> QED
    BY <2>1, LogsLine DEF LoggedInBounds, Logged
<1> QED
  BY <1>2, <1>3, <1>4

LEMMA ApplyKeeps ==
    ASSUME KeptInv, NEW f \in Field, NEW x, Apply(f, x)
    PROVE  KeptInv'
<1> DEFINE line == Entry(f, value[f], x)
<1>1. /\ value \in Values /\ Valid(value, f, x) /\ audit \in Seq(Line)
      /\ server = "serving" /\ server' = server /\ todo' = todo /\ Logs(line)
      /\ value' = [value EXCEPT ![f] = x]
  BY DEF KeptInv, TypeInv, TypeOK, Apply, Changeable
<1>2. /\ line \in Line /\ line.readable /\ line.field = f /\ line.new = x
  BY <1>1, PolicyAssumption DEF Entry, Line, Values, Valid, InBounds
<1>3. HasLast' /\ LoggedInBounds' /\ lost \subseteq lost'
  BY <1>1, <1>2, GrowthKeeps DEF KeptInv, OpenHasLine, Valid
<1>4. f \notin lost' => AsLogged(f)'
  <2>1. value'[f] = x
    BY <1>1 DEF Values
  <2>2. f \notin lost' => ~open
    BY <1>1, <1>2 DEF Logs, Destroyed
  <2> QED
    BY <1>1, <1>2, <2>1, <2>2, NewIsLast DEF AsLogged
<1>5. ASSUME NEW g \in Field, g # f, g \notin lost' PROVE Kept(g)'
  <2>1. Kept(g) /\ value'[g] = value[g]
    BY <1>1, <1>3, <1>5 DEF KeptInv, RestoredSoFar, Values
  <2>2. AsLogged(g)' <=> AsLogged(g)
    BY <1>1, <1>2, <1>5, <2>1, OthersStay DEF KeptInv, OpenHasLine
  <2> QED
    BY <2>1, <2>2 DEF Kept, Free
<1>6. OpenHasLine'
  BY DEF OpenHasLine, Apply
<1> QED
  BY <1>1, <1>3, <1>4, <1>5, <1>6, ApplyKeepsTypes DEF KeptInv, RestoredSoFar, Kept

LEMMA RestoreKeeps ==
    ASSUME KeptInv, NEW f \in Field, Restore(f)
    PROVE  KeptInv'
<1>1. TypeInv'
  BY StepKeepsTypes DEF KeptInv, Next
<1>2. /\ HasLast /\ LoggedInBounds /\ RestoredSoFar
      /\ value \in Values /\ Legal(value) /\ audit \in Seq(Line)
      /\ server = "starting" /\ f \in todo /\ todo \subseteq Field
      /\ UNCHANGED <<server, audit, open, lost>> /\ todo' = todo \ {f}
  BY DEF KeptInv, TypeInv, TypeOK, AlwaysLegal, Restore, ComesFirst, file
<1>3. HasLast' /\ LoggedInBounds' /\ OpenHasLine'
  BY <1>2 DEF HasLast, LoggedInBounds, LastLogged, Logged, InBounds, KeptInv, OpenHasLine
<1> DEFINE x == audit[LatestChange(f)].new
<1>4. value' = IF Valid(value, f, x) THEN [value EXCEPT ![f] = x] ELSE value
  BY DEF Restore
<1>5. ASSUME f \notin lost PROVE Kept(f)'
  <2>1. LatestChange(f) \in DOMAIN audit /\ LastLogged(f, LatestChange(f))
    <3>1. \E n \in Changes(f) : \A m \in Changes(f) : m <= n
      BY <1>2, <1>5 DEF HasLast, RestoredSoFar, LastLogged, Logged, Changes, Readable
    <3>2. /\ LatestChange(f) \in Changes(f)
          /\ \A m \in Changes(f) : m <= LatestChange(f)
      BY <3>1 DEF LatestChange
    <3> QED
      BY <3>2 DEF LastLogged, Logged, Changes, Readable
  <2>2. InBounds(f, x)
    BY <1>2, <2>1 DEF LoggedInBounds, LastLogged
  <2>3. CASE Valid(value, f, x)
    <3>1. value'[f] = x
      BY <1>2, <1>4, <2>3 DEF Values
    <3> QED
      BY <1>2, <2>1, <3>1 DEF Kept, AsLogged, LastLogged, Logged
  <2>4. CASE ~Valid(value, f, x)
    <3>1. ~Free(f)
      BY <1>2, <2>2, <2>4, PolicyAssumption DEF Free, Valid, Consistent, Legal, Values
    <3>2. value'[f] = Default[f]
      BY <1>2, <1>4, <1>5, <2>4 DEF RestoredSoFar
    <3> QED
      BY <3>1, <3>2 DEF Kept, Free
  <2> QED
    BY <2>3, <2>4
<1>6. ASSUME NEW g \in Field, g # f PROVE value'[g] = value[g]
  BY <1>2, <1>4, <1>6 DEF Values
<1>7. ASSUME NEW g \in Field \ todo', g \notin lost PROVE Kept(g)'
  <2>1. CASE g = f
    BY <1>5, <1>7, <2>1
  <2>2. CASE g # f
    <3>1. Kept(g) /\ value'[g] = value[g]
      BY <1>2, <1>6, <1>7, <2>2 DEF RestoredSoFar
    <3> QED
      BY <1>2, <3>1 DEF Kept, AsLogged, LastLogged, Logged, Free
  <2> QED
    BY <2>1, <2>2
<1>8. ASSUME NEW g \in todo', g \notin lost
      PROVE  value'[g] = Default[g] /\ \E n \in DOMAIN audit' : Logged(g, n)'
  BY <1>2, <1>6, <1>8 DEF RestoredSoFar, Logged
<1>9. RestoredSoFar'
  BY <1>2, <1>7, <1>8 DEF RestoredSoFar
<1> QED
  BY <1>1, <1>3, <1>9 DEF KeptInv

LEMMA StepKeeps == KeptInv /\ [Next]_vars => KeptInv'
<1> SUFFICES ASSUME KeptInv, [Next]_vars PROVE KeptInv'
  OBVIOUS
<1>0. TypeInv'
  BY StepKeepsTypes DEF KeptInv
<1>1. ASSUME NEW f \in Field, NEW x \in Low[f] .. High[f], Apply(f, x) PROVE KeptInv'
  BY <1>1, ApplyKeeps
<1>2. ASSUME NEW f \in Field, NEW x \in Low[f] .. High[f], CrashInApply(f, x) PROVE KeptInv'
  <2>1. PICK line \in {Entry(f, value[f], x), Rest(f, value[f], x)} : Logs(line)
    BY <1>2 DEF CrashInApply
  <2>2. line \in Line /\ line.field = f /\ line.new = x
    <3>1. value[f] \in Int /\ x \in Int
      BY PolicyAssumption DEF Values, KeptInv, TypeInv, TypeOK
    <3>2. /\ Entry(f, value[f], x) \in Line /\ Rest(f, value[f], x) \in Line
          /\ Entry(f, value[f], x).field = f /\ Rest(f, value[f], x).field = f
          /\ Entry(f, value[f], x).new = x /\ Rest(f, value[f], x).new = x
      BY <3>1 DEF Entry, Rest, Line
    <3> QED
      BY <2>1, <3>2
  <2>3. audit \in Seq(Line) /\ OpenHasLine /\ HasLast /\ LoggedInBounds /\ InBounds(f, x)
    BY <1>2 DEF KeptInv, TypeInv, TypeOK, CrashInApply, Changeable, Valid
  <2>4. HasLast' /\ LoggedInBounds'
    BY <2>1, <2>2, <2>3, GrowthKeeps DEF OpenHasLine
  <2>5. OpenHasLine'
    BY <2>1, <2>2, <2>3, TypeOfLog DEF OpenHasLine
  <2> QED
    BY <1>0, <1>2, <2>4, <2>5 DEF KeptInv, CrashInApply, Down, RestoredSoFar
<1>3. ASSUME NEW n \in DOMAIN audit, Revert(n) PROVE KeptInv'
  <2>1. audit[n] \in Line
    BY DEF KeptInv, TypeInv, TypeOK
  <2> QED
    BY <1>3, <2>1, ApplyKeeps DEF Revert, Line
<1>4. ASSUME UNCHANGED file PROVE HasLast' /\ LoggedInBounds' /\ OpenHasLine'
  BY <1>4 DEF KeptInv, file, HasLast, LoggedInBounds, LastLogged, Logged, InBounds, OpenHasLine
<1>5. CASE Crash
  BY <1>0, <1>4, <1>5 DEF KeptInv, Crash, Down, RestoredSoFar
<1>6. CASE Start
  <2>1. /\ value' = Default /\ UNCHANGED audit /\ server' = "starting"
        /\ todo' = {f \in Field : \E n \in DOMAIN audit : Logged(f, n)}
    BY <1>6 DEF Start, file, Changes, Readable, Logged
  <2>2. ASSUME NEW f \in Field \ todo' PROVE Kept(f)'
    BY <2>1, <2>2 DEF Kept, AsLogged, Logged
  <2>3. RestoredSoFar'
    BY <2>1, <2>2 DEF RestoredSoFar, Logged
  <2> QED
    BY <1>0, <1>4, <1>6, <2>3 DEF KeptInv, Start
<1>7. ASSUME NEW f \in Field, Restore(f) PROVE KeptInv'
  BY <1>7, RestoreKeeps
<1>8. ASSUME UNCHANGED <<value, todo, file>>, server # "down",
             \/ server' = server
             \/ server = "starting" /\ server' = "serving" /\ todo = {}
      PROVE  KeptInv'
  <2>1. \A f \in Field : Kept(f)' <=> Kept(f)
    BY <1>8 DEF file, Kept, AsLogged, LastLogged, Logged, Free
  <2>2. RestoredSoFar'
    BY <1>8, <2>1 DEF KeptInv, RestoredSoFar, file, Logged
  <2> QED
    BY <1>0, <1>4, <1>8, <2>2 DEF KeptInv
<1>9. CASE Serve
  BY <1>8, <1>9 DEF Serve
<1>10. CASE UNCHANGED vars
  <2>1. CASE server = "down"
    BY <1>0, <1>4, <1>10, <2>1 DEF KeptInv, RestoredSoFar, vars, memory
  <2>2. CASE server # "down"
    BY <1>8, <1>10, <2>2 DEF vars, memory
  <2> QED
    BY <2>1, <2>2
<1> QED
  BY <1>1, <1>2, <1>3, <1>5, <1>6, <1>7, <1>9, <1>10 DEF Next

LEMMA KeptHolds == Spec => []KeptInv
<1>1. Init => KeptInv
  <2> SUFFICES ASSUME Init PROVE KeptInv
    OBVIOUS
  <2>1. TypeInv
    BY TypesAtFirst
  <2>2. audit = <<>> /\ todo = {} /\ server = "starting" /\ value = Default /\ ~open
    BY DEF Init
  <2>3. DOMAIN audit = {}
    BY <2>2
  <2> QED
    BY <2>1, <2>2, <2>3
       DEF KeptInv, OpenHasLine, HasLast, LoggedInBounds, RestoredSoFar, Kept, AsLogged
<1> QED
  BY <1>1, StepKeeps, PTL DEF Spec

\* What is in force is what the log tells last, or what the code ships with.
THEOREM ValuesAreRecorded == Spec => []RecordedOrDefault
<1>1. KeptInv => RecordedOrDefault
  BY DEF KeptInv, RestoredSoFar, RecordedOrDefault, Kept
<1> QED
  BY <1>1, KeptHolds, PTL

\* A field that no rule ties to another survives every restart.
THEOREM FreeFieldsAlwaysSurvive == Spec => []FreeFieldsSurvive
<1>1. KeptInv => FreeFieldsSurvive
  BY DEF KeptInv, RestoredSoFar, FreeFieldsSurvive, Kept
<1> QED
  BY <1>1, KeptHolds, PTL

-----------------------------------------------------------------------------
USE DEF vars, memory, file, deskVars, team, cookies

(* The desk implements the policy store.                                    *)

LEMMA DeskStepIsPolicyStep ==
    ASSUME [DeskNext]_<<vars, deskVars>>
    PROVE  [Next]_vars
<1>1. ASSUME NEW p \in Person, NEW role \in Role, CommandLine(p, role)
      PROVE  UNCHANGED vars
  BY <1>1 DEF CommandLine
<1>2. CASE BootstrapAsks
  BY <1>2 DEF BootstrapAsks
<1>3. CASE DeskServes
  BY <1>3 DEF DeskServes, Next
<1>4. ASSUME NEW p \in Person, SignIn(p) \/ SignInFails(p) \/ WindowMoves(p)
      PROVE  UNCHANGED vars
  BY <1>4 DEF SignIn, SignInFails, WindowMoves
<1>5. ASSUME NEW t \in live, SessionEnds(t)
      PROVE  UNCHANGED vars
  BY <1>5 DEF SessionEnds
<1>6. ASSUME NEW r \in Request, NEW t \in live, Admit(r, t)
      PROVE  UNCHANGED vars
  BY <1>6 DEF Admit
<1>7. ASSUME NEW r \in Request, Refused(r)
      PROVE  UNCHANGED vars
  BY <1>7 DEF Refused
<1>8. ASSUME NEW r \in Request, AdminChangesPolicy(r)
      PROVE  Next
  BY <1>8 DEF AdminChangesPolicy, Next
<1>9. ASSUME NEW r \in Request, NEW p \in Person, NEW role \in Role,
             AdminAddsUser(r, p, role)
      PROVE  UNCHANGED vars
  BY <1>9 DEF AdminAddsUser
<1>10. ASSUME NEW r \in Request, NEW p \in Person, NEW role, NEW dis, NEW pw,
              AdminUpdatesUser(r, p, role, dis, pw)
       PROVE  UNCHANGED vars
  BY <1>10 DEF AdminUpdatesUser
<1>11. CASE DeskCrashes
  BY <1>11 DEF DeskCrashes, Next
<1>12. ASSUME NEW r \in Request, DeskCrashesInChange(r)
       PROVE  Next
  BY <1>12 DEF DeskCrashesInChange, Next
<1>13. CASE DeskStarts
  BY <1>13 DEF DeskStarts, Next
<1>14. CASE UNCHANGED <<vars, deskVars>>
  BY <1>14
<1> QED
  BY <1>1, <1>2, <1>3, <1>4, <1>5, <1>6, <1>7, <1>8, <1>9, <1>10, <1>11, <1>12,
     <1>13, <1>14 DEF DeskNext

\* Every behaviour of the desk is one of the policy store: accounts, sessions
\* and requests add nothing to what a change, a revert or a crash may do.
THEOREM DeskIsAPolicyStore == DeskSpec => Spec
<1>1. DeskInit => Init
  BY DEF DeskInit
<1> QED
  BY <1>1, DeskStepIsPolicyStep, PTL DEF DeskSpec, Spec

\* So the policies stay legal, recorded and, where no rule ties them, kept over
\* restarts behind the guards too.
THEOREM DeskKeepsPolicies ==
    DeskSpec => [](AlwaysLegal /\ RecordedOrDefault /\ FreeFieldsSurvive)
BY DeskIsAPolicyStore, PoliciesAlwaysLegal, ValuesAreRecorded, FreeFieldsAlwaysSurvive, PTL

-----------------------------------------------------------------------------
(* Type correctness, and no live token that was revoked.                    *)

DeskInv == DeskTypeOK /\ live \cap revoked = {}

LEMMA DeskInvAtFirst == DeskInit => DeskInv
BY DeskAssumption DEF DeskInit, DeskInv, DeskTypeOK, Role

LEMMA AddUserKeepsTypes ==
    ASSUME DeskTypeOK, NEW p, NEW role \in Role, AddUser(p, role)
    PROVE  account' \in [Person -> Role \cup {"none"}] /\ disabled' \subseteq Person
BY DEF DeskTypeOK, AddUser

LEMMA SignInKeepsInv ==
    ASSUME DeskInv, NEW p \in Person, SignIn(p)
    PROVE  DeskInv'
<1> USE DEF DeskInv, DeskTypeOK
<1>1. /\ holder \in Seq(Person) /\ Len(holder) \in Nat
      /\ DOMAIN holder = 1 .. Len(holder)
  OBVIOUS
<1>2. /\ holder' \in Seq(Person)
      /\ DOMAIN holder' = DOMAIN holder \cup {Len(holder) + 1}
      /\ Len(holder) + 1 \notin DOMAIN holder
  BY <1>1 DEF SignIn
<1>3. live' \subseteq DOMAIN holder' /\ revoked' \subseteq DOMAIN holder'
  BY <1>2 DEF SignIn
<1>4. live' \cap revoked' = {}
  BY <1>2 DEF SignIn
<1>5. failures' \in [Person -> Nat] /\ moves' \in Nat
  BY DEF SignIn, Moves
<1> QED
  BY <1>2, <1>3, <1>4, <1>5 DEF SignIn

LEMMA UpdateKeepsInv ==
    ASSUME DeskInv, NEW r \in Request, NEW p \in Person,
           NEW role \in Role \cup {"same"}, NEW dis \in {"disable", "enable", "same"},
           NEW pw \in BOOLEAN, AdminUpdatesUser(r, p, role, dis, pw)
    PROVE  DeskInv'
<1> USE DEF DeskInv, DeskTypeOK
<1>1. account' \in [Person -> Role \cup {"none"}]
  BY DEF AdminUpdatesUser
<1>2. disabled' \subseteq Person
  BY DEF AdminUpdatesUser
<1>3. /\ live' \subseteq DOMAIN holder' /\ revoked' \subseteq DOMAIN holder'
      /\ live' \cap revoked' = {}
  BY DEF AdminUpdatesUser, EndsSessions, TokensOf
<1>4. admitted' \in [Request -> Person \cup {Nobody}] /\ moves' \in Nat
  BY DEF AdminUpdatesUser, Answers, Moves
<1> QED
  BY <1>1, <1>2, <1>3, <1>4 DEF AdminUpdatesUser

LEMMA DownKeepsInv ==
    ASSUME DeskInv, DeskDown
    PROVE  DeskInv'
BY DEF DeskInv, DeskTypeOK, DeskDown

LEMMA DeskInvKept ==
    ASSUME DeskInv, [DeskNext]_<<vars, deskVars>>
    PROVE  DeskInv'
<1>1. ASSUME NEW p \in Person, NEW role \in Role, CommandLine(p, role)
      PROVE  DeskInv'
  BY <1>1, AddUserKeepsTypes DEF CommandLine, Moves, DeskInv, DeskTypeOK
<1>2. CASE BootstrapAsks
  BY <1>2 DEF BootstrapAsks, DeskInv, DeskTypeOK
<1>3. CASE DeskServes
  <2>1. account' \in [Person -> Role \cup {"none"}] /\ disabled' \subseteq Person
    BY <1>3, AddUserKeepsTypes DEF DeskServes, Role, DeskInv, DeskTypeOK
  <2> QED
    BY <1>3, <2>1 DEF DeskServes, DeskInv, DeskTypeOK
<1>4. ASSUME NEW p \in Person, SignIn(p) \/ SignInFails(p) \/ WindowMoves(p)
      PROVE  DeskInv'
  <2>1. CASE SignIn(p)
    BY <2>1, SignInKeepsInv
  <2>2. CASE SignInFails(p)
    BY <2>2 DEF SignInFails, Moves, DeskInv, DeskTypeOK
  <2>3. CASE WindowMoves(p)
    BY <2>3 DEF WindowMoves, DeskInv, DeskTypeOK
  <2> QED
    BY <1>4, <2>1, <2>2, <2>3
<1>5. ASSUME NEW t \in live, SessionEnds(t)
      PROVE  DeskInv'
  BY <1>5 DEF SessionEnds, DeskInv, DeskTypeOK
<1>6. ASSUME NEW r \in Request, NEW t \in live, Admit(r, t)
      PROVE  DeskInv'
  <2>1. holder[t] \in Person
    BY DEF DeskInv, DeskTypeOK
  <2> QED
    BY <1>6, <2>1 DEF Admit, DeskInv, DeskTypeOK
<1>7. ASSUME NEW r \in Request, Refused(r) \/ AdminChangesPolicy(r)
      PROVE  DeskInv'
  BY <1>7 DEF Refused, AdminChangesPolicy, Answers, DeskInv, DeskTypeOK
<1>8. ASSUME NEW r \in Request, NEW p \in Person, NEW role \in Role,
             AdminAddsUser(r, p, role)
      PROVE  DeskInv'
  BY <1>8, AddUserKeepsTypes DEF AdminAddsUser, Answers, Moves, DeskInv, DeskTypeOK
<1>9. ASSUME NEW r \in Request, NEW p \in Person, NEW role \in Role \cup {"same"},
             NEW dis \in {"disable", "enable", "same"}, NEW pw \in BOOLEAN,
             AdminUpdatesUser(r, p, role, dis, pw)
      PROVE  DeskInv'
  BY <1>9, UpdateKeepsInv
<1>10. CASE DeskCrashes \/ \E r \in Request : DeskCrashesInChange(r)
  BY <1>10, DownKeepsInv DEF DeskCrashes, DeskCrashesInChange
<1>11. CASE DeskStarts \/ UNCHANGED <<vars, deskVars>>
  BY <1>11 DEF DeskStarts, DeskInv, DeskTypeOK
<1> QED
  BY <1>1, <1>2, <1>3, <1>4, <1>5, <1>6, <1>7, <1>8, <1>9, <1>10, <1>11 DEF DeskNext

LEMMA DeskInvHolds == DeskSpec => []DeskInv
BY DeskInvAtFirst, DeskInvKept, PTL DEF DeskSpec

\* Accounts, tokens, counts of wrong passwords and admitted requests keep
\* their types.
THEOREM DeskTypeCorrect == DeskSpec => []DeskTypeOK
BY DeskInvHolds, PTL DEF DeskInv

\* No token that was handed out before its account was disabled or given a new
\* password lets anybody in, also once the account is enabled again.
THEOREM RevokedNeverLetIn == DeskSpec => []RevokedStayOut
<1>1. DeskInv => RevokedStayOut
  BY DEF DeskInv, RevokedStayOut, LetsIn, Known
<1> QED
  BY <1>1, DeskInvHolds, PTL

-----------------------------------------------------------------------------
(* An admin remains.                                                        *)

LEMMA AnotherAdmin ==
    ASSUME Cardinality(ActiveAdmins) > 1, NEW p
    PROVE  \E q \in ActiveAdmins : q # p
<1>1. SUFFICES ASSUME \A q \in ActiveAdmins : q = p
               PROVE  FALSE
  OBVIOUS
<1>2. ActiveAdmins \in SUBSET {p}
  BY <1>1
<1>3. Cardinality(ActiveAdmins) <= Cardinality({p}) /\ Cardinality({p}) = 1
  BY <1>2, FS_Subset, FS_Singleton
<1>4. IsFiniteSet(ActiveAdmins)
  BY <1>2, FS_Subset, FS_Singleton
<1> QED
  BY <1>3, <1>4, FS_CardinalityType

LEMMA AddUserKeepsAdmins ==
    ASSUME DeskTypeOK, NEW p, NEW role, AddUser(p, role),
           NEW q \in Person, Administers(q)
    PROVE  Administers(q)'
BY DEF DeskTypeOK, AddUser, Administers, Exists

LEMMA UpdateLeavesAnAdmin ==
    ASSUME DeskTypeOK, NEW r \in Request, NEW p \in Person,
           NEW role \in Role \cup {"same"}, NEW dis \in {"disable", "enable", "same"},
           NEW pw \in BOOLEAN, AdminUpdatesUser(r, p, role, dis, pw),
           NEW q \in Person, Administers(q)
    PROVE  \E a \in Person : Administers(a)'
<1>1. ASSUME NEW a \in Person, a # p, Administers(a)
      PROVE  Administers(a)'
  BY <1>1 DEF AdminUpdatesUser, Administers, DeskTypeOK
<1>2. CASE LosesAdmin(p, role, dis)
  <2>1. PICK a \in ActiveAdmins : a # p
    BY <1>2, AnotherAdmin DEF AdminUpdatesUser
  <2> QED
    BY <1>1, <2>1 DEF ActiveAdmins, Administers
<1>3. CASE ~LosesAdmin(p, role, dis)
  <2>1. CASE q = p
    <3>1. role \in {"admin", "same"} /\ dis # "disable"
      BY <1>3, <2>1 DEF LosesAdmin, Role
    <3> QED
      BY <2>1, <3>1 DEF AdminUpdatesUser, Administers, DeskTypeOK
  <2>2. CASE q # p
    BY <1>1, <2>2
  <2> QED
    BY <2>1, <2>2
<1> QED
  BY <1>2, <1>3

LEMMA StepLeavesAnAdmin ==
    ASSUME DeskInv, [DeskNext]_<<vars, deskVars>>, NEW q \in Person, Administers(q)
    PROVE  \E a \in Person : Administers(a)'
<1>1. ASSUME NEW p \in Person, NEW role \in Role, CommandLine(p, role)
      PROVE  Administers(q)'
  BY <1>1, AddUserKeepsAdmins DEF CommandLine, DeskInv
<1>2. CASE DeskServes
  <2>1. CASE first = "empty"
    BY <1>2, <2>1, AddUserKeepsAdmins DEF DeskServes, DeskInv
  <2>2. CASE first # "empty"
    BY <1>2, <2>2 DEF DeskServes, Administers
  <2> QED
    BY <2>1, <2>2
<1>3. ASSUME NEW r \in Request, NEW p \in Person, NEW role \in Role,
             AdminAddsUser(r, p, role)
      PROVE  Administers(q)'
  BY <1>3, AddUserKeepsAdmins DEF AdminAddsUser, DeskInv
<1>4. ASSUME NEW r \in Request, NEW p \in Person, NEW role \in Role \cup {"same"},
             NEW dis \in {"disable", "enable", "same"}, NEW pw \in BOOLEAN,
             AdminUpdatesUser(r, p, role, dis, pw)
      PROVE  \E a \in Person : Administers(a)'
  BY <1>4, UpdateLeavesAnAdmin DEF DeskInv
<1>5. CASE UNCHANGED team
  BY <1>5 DEF Administers
<1>6. \/ UNCHANGED team
      \/ \E p \in Person, role \in Role : CommandLine(p, role)
      \/ DeskServes
      \/ \E r \in Request, p \in Person, role \in Role : AdminAddsUser(r, p, role)
      \/ \E r \in Request, p \in Person, role \in Role \cup {"same"},
            dis \in {"disable", "enable", "same"}, pw \in BOOLEAN :
                AdminUpdatesUser(r, p, role, dis, pw)
  BY DEF DeskNext, BootstrapAsks, SignIn, SignInFails, WindowMoves, SessionEnds, Admit,
         Refused, AdminChangesPolicy, DeskCrashes, DeskCrashesInChange, DeskDown,
         DeskStarts
<1> QED
  BY <1>1, <1>2, <1>3, <1>4, <1>5, <1>6

\* From the first admin on somebody can administer, whatever the admins do to
\* each other and to themselves.
THEOREM AnAdminAlwaysRemains == DeskSpec => AnAdminRemains
<1>1. DeskInv /\ [DeskNext]_<<vars, deskVars>>
         => [(\E p \in Person : Administers(p))
                => \E p \in Person : Administers(p)']_<<vars, deskVars>>
  BY StepLeavesAnAdmin
<1> QED
  BY <1>1, DeskInvHolds, PTL DEF DeskSpec, AnAdminRemains
================================================================================
