------------------------------- MODULE AdminDesk -------------------------------
(***************************************************************************)
(* Who may change the policies (sanwaad/auth.py and the endpoints of       *)
(* api/server.py that ask for an admin): accounts and sessions in SQLite,  *)
(* wrong passwords in memory, and the requests of PolicyStore's server.    *)
(*                                                                         *)
(* The guard of an endpoint (require) is a plain function, which FastAPI   *)
(* runs in a thread of its pool; the endpoint itself runs later, in one    *)
(* step of the event loop, with the User the guard read.  The command line *)
(* adds accounts from a process of its own.                                *)
(*                                                                         *)
(* Of the roles only "admin" matters here: "agent" stands for lead too.    *)
(***************************************************************************)
EXTENDS PolicyStore, FiniteSets

CONSTANTS
    Person,       \* the emails
    Owner,        \* SANWAAD_ADMIN_EMAIL, or Nobody
    Nobody,
    Request,      \* bound: requests in flight
    MaxFailures,  \* MAX_FAILURES
    MaxMoves,     \* bound: operations on accounts
    MaxEffort     \* bound: operations on accounts and lines of the log

VARIABLES
    account,    \* the role of each person, or "none"
    disabled,   \* persons whose account is disabled
    holder,     \* history: whom each token was given to
    live,       \* the tokens with a row in sessions that has not expired
    revoked,    \* history: tokens handed out before their account was last
                \* disabled or given a new password
    failures,   \* _failures: the wrong passwords in the window, by email
    admitted,   \* the requests past their guard: the admin it read, or Nobody
    first,      \* what bootstrap_admin_from_env() knows: "unasked", "empty"
                \* (no account yet) or "team"
    moves       \* history: operations on accounts

team == <<account, disabled>>
cookies == <<holder, live, revoked>>
deskVars == <<team, cookies, failures, admitted, first, moves>>

ASSUME DeskAssumption ==
    /\ Nobody \notin Person
    /\ Owner \in Person \cup {Nobody}
    /\ IsFiniteSet(Person)
    /\ MaxFailures \in Nat /\ MaxMoves \in Nat /\ MaxEffort \in Nat

Role == {"agent", "admin"}

-----------------------------------------------------------------------------
(* What the database says.                                                  *)

Exists(p) == account[p] # "none"

HasUsers == \E p \in Person : Exists(p)

\* Mutant: a disabled admin counts.
AnyAdmins == {p \in Person : account[p] = "admin"}

\* The admins update_user() counts.
ActiveAdmins == {p \in Person : account[p] = "admin" /\ p \notin disabled}

\* user_for(): the account of a token, as it is now, unless it is disabled.
Known(t) == t \in live /\ holder[t] \notin disabled

\* require("admin"): does the guard let a request with this token in?
LetsIn(t) == Known(t) /\ account[holder[t]] = "admin"

TokensOf(p) == {t \in DOMAIN holder : holder[t] = p}

\* Mutant: only a new password ends the sessions; a disabled account is kept
\* out by user_for() anyway.
EndsByPassword(dis, pw) == pw

\* Does this update end every open session?
EndsSessions(dis, pw) == dis = "disable" \/ pw

Administers(p) == account[p] = "admin" /\ p \notin disabled

\* losing_admin
LosesAdmin(p, role, dis) == Administers(p) /\ (role = "agent" \/ dis = "disable")

-----------------------------------------------------------------------------
DeskInit ==
    /\ Init
    /\ account = [p \in Person |-> "none"]
    /\ disabled = {}
    /\ holder = <<>>
    /\ live = {}
    /\ revoked = {}
    /\ failures = [p \in Person |-> 0]
    /\ admitted = [r \in Request |-> Nobody]
    /\ first = "unasked"
    /\ moves = 0

HasEffort == Len(audit) + moves < MaxEffort

Moves ==
    /\ moves < MaxMoves
    /\ HasEffort
    /\ moves' = moves + 1

\* add_user(): refused if there is an account with this email.
AddUser(p, role) ==
    /\ account' = IF Exists(p) THEN account ELSE [account EXCEPT ![p] = role]
    /\ UNCHANGED disabled

\* python -m sanwaad.auth add-user
CommandLine(p, role) ==
    /\ ~Exists(p)
    /\ Moves
    /\ AddUser(p, role)
    /\ UNCHANGED <<vars, cookies, failures, admitted, first>>

\* bootstrap_admin_from_env() looks whether there is any account, after the
\* replay ...
BootstrapAsks ==
    /\ server = "starting" /\ todo = {} /\ first = "unasked"
    /\ first' = IF Owner = Nobody \/ HasUsers THEN "team" ELSE "empty"
    /\ UNCHANGED <<vars, team, cookies, failures, admitted, moves>>

\* ... adds the first one if there was none, and the server begins to serve.
DeskServes ==
    /\ first # "unasked"
    /\ Serve
    /\ IF first = "empty" THEN AddUser(Owner, "admin") ELSE UNCHANGED team
    /\ first' = "unasked"
    /\ UNCHANGED <<cookies, failures, admitted, moves>>

-----------------------------------------------------------------------------
(* Signing in and out.                                                      *)

LockedOut(p) == failures[p] >= MaxFailures

\* api_login with the right password: a session of its own, and no memory of
\* the wrong ones.
SignIn(p) ==
    /\ server = "serving"
    /\ Exists(p) /\ p \notin disabled /\ ~LockedOut(p)
    /\ Moves
    /\ holder' = Append(holder, p)
    /\ live' = live \cup {Len(holder) + 1}
    /\ failures' = [failures EXCEPT ![p] = 0]
    /\ UNCHANGED <<vars, team, revoked, admitted, first>>

\* api_login with a wrong password, or for an account that is disabled or not
\* there.  While the email is locked out nothing more is counted.
SignInFails(p) ==
    /\ server = "serving"
    /\ ~LockedOut(p)
    /\ Moves
    /\ failures' = [failures EXCEPT ![p] = @ + 1]
    /\ UNCHANGED <<vars, team, cookies, admitted, first>>

\* A wrong password leaves the window.
WindowMoves(p) ==
    /\ failures[p] > 0
    /\ failures' = [failures EXCEPT ![p] = @ - 1]
    /\ UNCHANGED <<vars, team, cookies, admitted, first, moves>>

\* A session expires, or its person signs out.
SessionEnds(t) ==
    /\ t \in live
    /\ live' = live \ {t}
    /\ UNCHANGED <<vars, team, holder, revoked, failures, admitted, first, moves>>

-----------------------------------------------------------------------------
(* Requests for an admin.                                                   *)

\* The guard lets a request in; what it asks for is decided with the endpoint.
Admit(r, t) ==
    /\ server = "serving"
    /\ admitted[r] = Nobody
    /\ LetsIn(t)
    /\ admitted' = [admitted EXCEPT ![r] = holder[t]]
    /\ UNCHANGED <<vars, team, cookies, failures, first, moves>>

\* The endpoint of r runs, and answers.
Answers(r) ==
    /\ server = "serving"
    /\ admitted[r] # Nobody
    /\ admitted' = [admitted EXCEPT ![r] = Nobody]

\* An error is all the answer (a value out of bounds, an unknown account, an
\* email that is taken), or the request only reads.
Refused(r) ==
    /\ Answers(r)
    /\ UNCHANGED <<vars, team, cookies, failures, first, moves>>

\* api_add_user
AdminAddsUser(r, p, role) ==
    /\ Answers(r)
    /\ ~Exists(p)
    /\ Moves
    /\ AddUser(p, role)
    /\ UNCHANGED <<vars, cookies, failures, first>>

\* api_update_user: a role or "same"; "disable", "enable" or "same"; and
\* whether there is a new password.
AdminUpdatesUser(r, p, role, dis, pw) ==
    /\ Answers(r)
    /\ Exists(p)
    /\ LosesAdmin(p, role, dis) => Cardinality(ActiveAdmins) > 1
    /\ Moves
    /\ account' = IF role = "same" THEN account ELSE [account EXCEPT ![p] = role]
    /\ disabled' = CASE dis = "disable" -> disabled \cup {p}
                     [] dis = "enable"  -> disabled \ {p}
                     [] OTHER           -> disabled
    /\ live' = IF EndsSessions(dis, pw) THEN live \ TokensOf(p) ELSE live
    /\ revoked' = IF dis = "disable" \/ pw THEN revoked \cup TokensOf(p) ELSE revoked
    /\ UNCHANGED <<vars, holder, failures, first>>

\* api_settings_change and api_settings_revert
AdminChangesPolicy(r) ==
    /\ Answers(r)
    /\ HasEffort
    /\ \/ \E f \in Field : \E x \in Low[f] .. High[f] : Apply(f, x)
       \/ \E n \in DOMAIN audit : Revert(n)
    /\ UNCHANGED <<team, cookies, failures, first, moves>>

-----------------------------------------------------------------------------
\* The server's memory goes, the database stays.
DeskDown ==
    /\ failures' = [p \in Person |-> 0]
    /\ admitted' = [r \in Request |-> Nobody]
    /\ first' = "unasked"
    /\ UNCHANGED <<team, cookies, moves>>

DeskCrashes == Crash /\ DeskDown

DeskCrashesInChange(r) ==
    /\ admitted[r] # Nobody
    /\ HasEffort
    /\ \E f \in Field : \E x \in Low[f] .. High[f] : CrashInApply(f, x)
    /\ DeskDown

DeskStarts == (Start \/ \E f \in Field : Restore(f)) /\ UNCHANGED deskVars

DeskNext ==
    \/ \E p \in Person, role \in Role : CommandLine(p, role)
    \/ BootstrapAsks \/ DeskServes
    \/ \E p \in Person : SignIn(p) \/ SignInFails(p) \/ WindowMoves(p)
    \/ \E t \in live : SessionEnds(t)
    \/ \E r \in Request, t \in live : Admit(r, t)
    \/ \E r \in Request : Refused(r) \/ AdminChangesPolicy(r)
    \/ \E r \in Request, p \in Person, role \in Role : AdminAddsUser(r, p, role)
    \/ \E r \in Request, p \in Person, role \in Role \cup {"same"},
          dis \in {"disable", "enable", "same"}, pw \in BOOLEAN :
              AdminUpdatesUser(r, p, role, dis, pw)
    \/ DeskCrashes \/ (\E r \in Request : DeskCrashesInChange(r)) \/ DeskStarts

DeskSpec == DeskInit /\ [][DeskNext]_<<vars, deskVars>>

-----------------------------------------------------------------------------
(* Properties.                                                              *)

DeskTypeOK ==
    /\ account \in [Person -> Role \cup {"none"}]
    /\ disabled \subseteq Person
    /\ holder \in Seq(Person)
    /\ live \subseteq DOMAIN holder
    /\ revoked \subseteq DOMAIN holder
    /\ failures \in [Person -> Nat]
    /\ admitted \in [Request -> Person \cup {Nobody}]
    /\ first \in {"unasked", "empty", "team"}
    /\ moves \in Nat

\* "cannot lock everyone out": whatever two admins do to each other and to
\* themselves at once, the requests of those who were demoted meanwhile
\* included, somebody can administer from the first admin on.
AnAdminRemains ==
    [][(\E p \in Person : Administers(p)) => \E p \in Person : Administers(p)']_<<vars, deskVars>>

\* "A disabled account or a changed password ends every open session", for
\* good: enabling the account again does not bring an old cookie back.
RevokedStayOut == \A t \in revoked : ~LetsIn(t)
================================================================================
