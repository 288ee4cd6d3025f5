------------------------------ MODULE BrokerLogin ------------------------------
(***************************************************************************)
(* calling/mcp.py, start_broker_login, finish_broker_login and             *)
(* CalleAuth.cached_token, with the two places they are called from: the   *)
(* console's endpoints (api.py, calle_login_start and _finish), which keep *)
(* the login in app.state between two requests, and the command line       *)
(* (cli.py, cmd_calle_login), which keeps it to itself.                    *)
(*                                                                         *)
(* Every await is a step of its own: the requests of two people overlap.   *)
(* Polling, and the deadline of each login, is left out: a login may end   *)
(* unsuccessfully whenever it waits.                                       *)
(***************************************************************************)
EXTENDS Integers

CONSTANTS
  Curators,   \* people at the console
  Terminals,  \* people at the command line
  Sessions,   \* bound: the login sessions CALL-E may open
  Lifetimes   \* the seconds a token may be good for

NoSession == "no session"

ASSUME LoginAssumption == Lifetimes \subseteq Nat /\ NoSession \notin Sessions

VARIABLES
  now,       \* the instant, in seconds
  token,     \* token.json: when the token in it expires
  pending,   \* app.state.calle_pending
  sessions,  \* CALL-E's state of each login session
  logins,    \* what each person's request is doing
  offered    \* history: the sessions whose URL the console has handed out

loginVars == <<token, pending, sessions, logins, offered>>

People == Curators \cup Terminals
NoToken == -1
Unstated == -2   \* a token whose file names no expiry, or one in the environment

SessionStatuses == {"unused", "PENDING", "AUTHORIZED", "EXCHANGED", "EXPIRED"}
NoRequest == [step |-> "none", session |-> NoSession]
Requests == {NoRequest} \cup [step: {"starting", "finishing", "exchanging"}, session: Sessions]

LoginTypeOK ==
  /\ now \in Nat
  /\ token \in Nat \cup {NoToken, Unstated}
  /\ pending \in Sessions \cup {NoSession}
  /\ sessions \in [Sessions -> SessionStatuses]
  /\ logins \in [People -> Requests]
  /\ offered \subseteq Sessions

LoginInit ==
  /\ now = 0
  /\ token \in Lifetimes \cup {NoToken, Unstated}
  /\ pending = NoSession
  /\ sessions = [s \in Sessions |-> "unused"]
  /\ logins = [p \in People |-> NoRequest]
  /\ offered = {}

\* cached_token: a token that is there, and good for min_ttl_seconds more.
MinTtl == 120

\* Fault: the file's expiry is compared with the present.
UsableUntilExpired(t) == t # NoToken /\ (t # Unstated => t > now)

Usable(t) == t # NoToken /\ (t # Unstated => t - now > MinTtl)

-----------------------------------------------------------------------------

Doing(p, step) == logins[p].step = step
SessionOf(p) == logins[p].session
Turn(p, step) == logins' = [logins EXCEPT ![p].step = step]
Stop(p) == logins' = [logins EXCEPT ![p] = NoRequest]

\* start_broker_login reaches CALL-E.
OpenSession(p) ==
  /\ Doing(p, "none")
  /\ \E s \in Sessions :
       /\ sessions[s] = "unused"
       /\ sessions' = [sessions EXCEPT ![s] = "PENDING"]
       /\ logins' = [logins EXCEPT ![p] = [step |-> "starting", session |-> s]]
  /\ UNCHANGED <<now, token, pending, offered>>

\* Its answer arrives.  The console keeps the session, whatever it kept before;
\* the command line goes on to wait for the browser.
LoginStarted(p) ==
  /\ Doing(p, "starting")
  /\ IF p \in Curators
     THEN /\ pending' = SessionOf(p) /\ offered' = offered \cup {SessionOf(p)}
          /\ Stop(p)
     ELSE Turn(p, "finishing") /\ UNCHANGED <<pending, offered>>
  /\ UNCHANGED <<now, token, sessions>>

\* calle_login_finish takes up the session that is pending.
BeginFinish(p) ==
  /\ p \in Curators /\ Doing(p, "none")
  /\ pending # NoSession
  /\ logins' = [logins EXCEPT ![p] = [step |-> "finishing", session |-> pending]]
  /\ UNCHANGED <<now, token, pending, sessions, offered>>

\* A poll says AUTHORIZED, and the exchange reaches CALL-E.
Exchange(p) ==
  /\ Doing(p, "finishing") /\ sessions[SessionOf(p)] = "AUTHORIZED"
  /\ sessions' = [sessions EXCEPT ![SessionOf(p)] = "EXCHANGED"]
  /\ Turn(p, "exchanging")
  /\ UNCHANGED <<now, token, pending, offered>>

\* Fault: what is pending is forgotten however the request ends.
LoginFailsForgetting(p) ==
  /\ ~Doing(p, "none")
  /\ IF p \in Curators /\ ~Doing(p, "starting") THEN pending' = NoSession ELSE UNCHANGED pending
  /\ Stop(p)
  /\ UNCHANGED <<now, token, sessions, offered>>

\* The request raises: CALL-E cannot be reached or answers with an error, the
\* session has ended, the wait is over.  What is pending stays pending.
LoginFails(p) ==
  /\ ~Doing(p, "none")
  /\ Stop(p)
  /\ UNCHANGED <<now, token, pending, sessions, offered>>

\* The exchange is answered: the token is stored, and the console forgets what is
\* pending by now.
LoggedIn(p) ==
  /\ Doing(p, "exchanging")
  /\ token' \in {now + l : l \in Lifetimes} \cup {Unstated}
  /\ IF p \in Curators THEN pending' = NoSession ELSE UNCHANGED pending
  /\ Stop(p)
  /\ UNCHANGED <<now, sessions, offered>>

\* A person completes the login in a browser, or does not in time.
Visit(s) ==
  /\ sessions[s] = "PENDING"
  /\ sessions' = [sessions EXCEPT ![s] = "AUTHORIZED"]
  /\ UNCHANGED <<now, token, pending, logins, offered>>

Expire(s) ==
  /\ sessions[s] \in {"PENDING", "AUTHORIZED"}
  /\ sessions' = [sessions EXCEPT ![s] = "EXPIRED"]
  /\ UNCHANGED <<now, token, pending, logins, offered>>

LoginNext ==
  \/ \E p \in People : OpenSession(p) \/ LoginStarted(p) \/ BeginFinish(p) \/ Exchange(p)
                       \/ LoginFails(p) \/ LoggedIn(p)
  \/ \E s \in Sessions : Visit(s) \/ Expire(s)

-----------------------------------------------------------------------------

\* The console forgets a login only when one it started has been exchanged for a
\* token (api.py, calle_login_finish): a curator who is told that "no CALL-E login
\* has been started" after one was, is told so by a server that is logged in.
ForgottenOnlyWhenLoggedIn ==
  offered # {} /\ pending = NoSession => \E s \in offered : sessions[s] = "EXCHANGED"
=============================================================================
