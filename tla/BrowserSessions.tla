--------------------------- MODULE BrowserSessions ---------------------------
(***************************************************************************)
(* One browser with several requests under way, the frontend they go       *)
(* through and the backend behind it: proxy.ts, the binding cookies, the   *)
(* sign-in and sign-out routes, the guard of the member layout.            *)
(*                                                                         *)
(* A slot is a tab or a request of one: it meets the frontend with the     *)
(* jar as it is, goes through its calls, and its answer is applied to the  *)
(* jar in one step.  The strict and the lax binding cookie are written and *)
(* cleared together and are one here.                                      *)
(*                                                                         *)
(* The weather is calm: every call is answered and every answer arrives;   *)
(* or flaky: the frontend may give up on a rotation call, which may run    *)
(* all the same, a revoke may fail, and an answer may be lost between the  *)
(* frontend and the browser.  A request, its calls included, is done       *)
(* within Life.                                                            *)
(***************************************************************************)
EXTENDS BackendSessions

CONSTANTS Slot, IdleTimeout, RetryAfter,
          Life,      \* how long a request takes at most
          MaxClock,  \* bound: the clock, in each weather
          MaxLogins, \* bound: sign-ins
          MaxLosses, \* bound: answers that are lost
          Kinds      \* bound: what the visitor does in each weather

ASSUME IntervalAssumption ==
  /\ {RotateAfter, Grace, IdleTimeout, RetryAfter, Life} \subseteq Nat
  /\ Grace < RotateAfter /\ RetryAfter <= Grace /\ 2 * Life <= Grace

\* What is left of an idle timeout when half of it is gone outlasts a request.
ASSUME IdleAssumption == 2 * Life < IdleTimeout

ASSUME BoundAssumption ==
  /\ MaxTokens \in Nat \ {0} /\ MaxLosses \in Nat
  /\ \A w \in {"calm", "flaky"} :
       /\ MaxClock[w] \in Nat /\ RotateAfter < MaxClock[w]
       /\ Kinds[w] \subseteq {"nav", "post", "guest", "logout", "login"}

VARIABLES jar,        \* the session and binding cookies
          req,        \* per slot, its request
          late,       \* rotation calls nobody waits for any more
          weather,
          signedOut,  \* history: sign-ins ended by a sign-out
          losses,     \* history: how many answers were lost,
          strayed     \* and whether one of them carried a token of a rotation

backendVars == <<now, rows, alarm>>
lossVars == <<losses, strayed>>
browserVars == <<jar, req, late, weather, signedOut, lossVars>>
vars == <<backendVars, browserVars>>

NoBinding == [token |-> Never, expiresAt |-> Never, rotateAt |-> Never]
EmptyJar == [session |-> Never, binding |-> NoBinding]

Idle == [at |-> "idle"]
Clear == -1

\* A request as it meets the frontend, with the cookies its answer is going to set.
Request(kind) ==
  [at |-> "sent", kind |-> kind, since |-> now, asked |-> Never,
   token |-> jar.session, session |-> Never, binding |-> NoBinding]

\* Its answer: the cookies, and where it sends the browser.
Answered(r, goto) ==
  [at |-> "answered", goto |-> goto, since |-> r.since, session |-> r.session, binding |-> r.binding]

\* createBindingToken, and what readBindingState accepts.
Binding(token, rotateAt) ==
  [token |-> token, expiresAt |-> now + IdleTimeout, rotateAt |-> rotateAt]
Bound == jar.binding.token = jar.session /\ now <= jar.binding.expiresAt

\* Mutant: only a navigation rolls the binding.
RollSafeOnly(r) ==
  IF r.kind = "nav" /\ 2 * (jar.binding.expiresAt - now) <= IdleTimeout
  THEN Binding(r.token, jar.binding.rotateAt) ELSE NoBinding

\* The idle roll.
Rolled(r) ==
  IF 2 * (jar.binding.expiresAt - now) <= IdleTimeout
  THEN Binding(r.token, jar.binding.rotateAt) ELSE NoBinding

\* proxy.ts on a member route, up to the rotation call.
Member(r) ==
  CASE r.token = Never -> Answered(r, "login")
    [] r.token # Never /\ ~Bound -> Answered(r, "logout")
    [] r.token # Never /\ Bound /\ r.kind = "nav" /\ now >= jar.binding.rotateAt ->
         [r EXCEPT !.at = "rotating", !.asked = now]
    [] OTHER -> [r EXCEPT !.at = "rendering", !.binding = Rolled(r)]

\* proxy.ts on a guest page.
Guest(r) == IF r.token = Never THEN Idle ELSE Answered(r, "dashboard")

Met(r) ==
  CASE r.kind \in {"nav", "post"} -> Member(r)
    [] r.kind = "guest" -> Guest(r)
    [] r.kind = "logout" -> [r EXCEPT !.at = "revoking"]
    [] r.kind = "login" -> [r EXCEPT !.at = "signing in"]

Meet(s, kind) ==
  /\ req' = [req EXCEPT ![s] = Met(Request(kind))]
  /\ UNCHANGED <<backendVars, jar, late, weather, signedOut, lossVars>>

\* The visitor.  A sign-in form may be sent by a browser that has a session by now: the
\* guest pages turn its GETs away, not the POST of a form that was open in another tab.
Go(s, kind) == req[s] = Idle /\ Meet(s, kind)

Follow(s) == req[s].at = "redirected" /\ Meet(s, req[s].kind)

----------------------------------------------------------------------------
(***************************************************************************)
(* The rotation call.                                                      *)
(***************************************************************************)
Resolving(s) ==
  /\ \/ req[s].at = "rotating" /\ Resolve(req[s].token)
     \/ req[s].at = "rendering" /\ req[s].kind = "post" /\ MarkFirstUse(req[s].token)
  /\ UNCHANGED <<now, browserVars>>

\* Mutants: the answer's session cookie is dropped; a superseded request writes back
\* the cookies it came with.
RotatedUnset(r) ==
  [r EXCEPT !.at = "rendering", !.asked = Never, !.token = Len(rows) + 1,
            !.binding = Binding(Len(rows) + 1, r.asked + RotateIn(r.token))]
SupersededWriting(r) ==
  [r EXCEPT !.at = "rendering", !.asked = Never,
            !.session = r.token, !.binding = Binding(r.token, r.asked)]

\* What proxy.ts makes of each answer: the render spends the token it forwards.
RotatedTo(r) ==
  [r EXCEPT !.at = "rendering", !.asked = Never,
            !.token = Len(rows) + 1, !.session = Len(rows) + 1,
            !.binding = Binding(Len(rows) + 1, r.asked + RotateIn(r.token))]
NotDue(r) ==
  [r EXCEPT !.at = "rendering", !.asked = Never,
            !.binding = Binding(r.token, r.asked + RotateIn(r.token))]
LeftAlone(r) == [r EXCEPT !.at = "rendering", !.asked = Never]
Unavailable(r) ==
  [r EXCEPT !.at = "rendering", !.asked = Never,
            !.binding = Binding(r.token, r.asked + RetryAfter)]

AfterRotation(r) ==
  CASE Verdict(r.token) = "rotated" -> RotatedTo(r)
    [] Verdict(r.token) = "not_due" -> NotDue(r)
    [] Verdict(r.token) = "superseded" -> LeftAlone(r)
    [] Verdict(r.token) = "invalid" -> Answered(r, "logout")

RotationAnswered(s) ==
  /\ req[s].at = "rotating"
  /\ Rotate(req[s].token)
  /\ req' = [req EXCEPT ![s] = AfterRotation(@)]
  /\ UNCHANGED <<now, jar, late, weather, signedOut, lossVars>>

\* The call is aborted, fails or answers something else: it may run all the same.
RotationGivenUp(s) ==
  /\ weather # "calm" /\ req[s].at = "rotating"
  /\ req' = [req EXCEPT ![s] = Unavailable(@)]
  /\ \/ late = {} /\ late' = {[token |-> req[s].token, since |-> req[s].since]}
     \/ UNCHANGED late
  /\ UNCHANGED <<backendVars, jar, weather, signedOut, lossVars>>

LateRotation ==
  \E c \in late :
    /\ \/ Resolve(c.token) /\ UNCHANGED late
       \/ Rotate(c.token) /\ late' = {}
    /\ UNCHANGED <<now, jar, req, weather, signedOut, lossVars>>

LateLost == late # {} /\ late' = {} /\ UNCHANGED <<backendVars, jar, req, weather, signedOut, lossVars>>

----------------------------------------------------------------------------
(***************************************************************************)
(* The rest of the calls, and the answers.                                 *)
(***************************************************************************)
\* validateSession of the member layout, or the backend call of an action.
Render(s) ==
  /\ req[s].at = "rendering"
  /\ Present(req[s].token)
  /\ req' = [req EXCEPT ![s] =
               IF @.kind = "nav" /\ ~Served(@.token) THEN Answered(@, "logout") ELSE Answered(@, "stay")]
  /\ UNCHANGED <<now, jar, late, weather, signedOut, lossVars>>

\* revokeOtherSessionsAction, on a session the backend knows; else as above.
RevokeOthers(s) ==
  /\ req[s].at = "rendering" /\ req[s].kind = "post"
  /\ EndOthers(req[s].token)
  /\ req' = [req EXCEPT ![s] = Answered(@, "stay")]
  /\ signedOut' = signedOut \cup
                  {rows[t].family : t \in DOMAIN rows \ FamilyOf(req[s].token)}
  /\ UNCHANGED <<now, jar, late, weather, lossVars>>

\* Mutants of the cookies /logout clears.
ClearUnlessFailed(failed) == IF failed THEN Never ELSE Clear

Cleared(failed) == Clear

\* The handler of /logout: the revoke is best-effort, the cookies go whatever it does.
LogOut(s) ==
  /\ req[s].at = "revoking"
  /\ \/ /\ EndFamily(req[s].token)
        /\ signedOut' = signedOut \cup {rows[t].family : t \in {req[s].token} \cap DOMAIN rows}
        /\ req' = [req EXCEPT ![s] = [Answered(@, "login") EXCEPT !.session = Cleared(FALSE)]]
     \/ /\ weather # "calm"
        /\ UNCHANGED <<rows, alarm, signedOut>>
        /\ req' = [req EXCEPT ![s] = [Answered(@, "login") EXCEPT !.session = Cleared(TRUE)]]
  /\ UNCHANGED <<now, jar, late, weather, lossVars>>

\* loginAction and createUserAction.
LogIn(s) ==
  /\ req[s].at = "signing in"
  /\ \/ /\ Cardinality({rows[t].family : t \in DOMAIN rows}) < MaxLogins
        /\ SignIn
        /\ req' = [req EXCEPT ![s] =
                     [Answered(@, "dashboard") EXCEPT !.session = Len(rows) + 1,
                                                      !.binding = Binding(Len(rows) + 1, 0)]]
     \/ req' = [req EXCEPT ![s] = Idle] /\ UNCHANGED <<rows, alarm>>
  /\ UNCHANGED <<now, jar, late, weather, signedOut, lossVars>>

Page == [dashboard |-> "nav", login |-> "guest", logout |-> "logout"]

Landed(r) ==
  IF r.goto = "stay" THEN Idle
  ELSE [at |-> "redirected", kind |-> Page[r.goto], since |-> now]

\* The browser applies an answer's cookies and follows its redirect.
Receive(s) ==
  /\ req[s].at = "answered"
  /\ jar' = IF req[s].session = Clear THEN EmptyJar
            ELSE [session |-> IF req[s].session = Never THEN jar.session ELSE req[s].session,
                  binding |-> IF req[s].binding = NoBinding THEN jar.binding ELSE req[s].binding]
  /\ req' = [req EXCEPT ![s] = Landed(@)]
  /\ UNCHANGED <<backendVars, late, weather, signedOut, lossVars>>

\* A successor of an earlier token, not the first of a sign-in.
Rotated(t) == t \in DOMAIN rows /\ rows[t].family # t

\* An answer is lost on its way, with the cookies it carries.
Lose(s) ==
  /\ weather # "calm" /\ losses < MaxLosses
  /\ req[s].at = "answered"
  /\ req' = [req EXCEPT ![s] = Idle]
  /\ losses' = losses + 1
  /\ strayed' = (strayed \/ Rotated(req[s].session))
  /\ UNCHANGED <<backendVars, jar, late, weather, signedOut>>

Tick ==
  /\ now < MaxClock[weather]
  /\ \A s \in Slot : req[s] # Idle => now - req[s].since < Life
  /\ \A c \in late : now - c.since < Life
  /\ now' = now + 1
  /\ UNCHANGED <<rows, alarm, browserVars>>

Init ==
  /\ BackendInit
  /\ jar = [session |-> 1, binding |-> [token |-> 1, expiresAt |-> 1 + IdleTimeout, rotateAt |-> 0]]
  /\ req = [s \in Slot |-> Idle] /\ late = {}
  /\ weather \in {"calm", "flaky"} /\ signedOut = {}
  /\ losses = 0 /\ strayed = FALSE

Serve(s) ==
  \/ Follow(s) \/ Resolving(s) \/ RotationAnswered(s) \/ Render(s) \/ LogOut(s) \/ LogIn(s)

Next ==
  \/ \E s \in Slot : \/ \E kind \in Kinds[weather] : Go(s, kind)
                     \/ Serve(s) \/ RevokeOthers(s) \/ RotationGivenUp(s)
                     \/ Receive(s) \/ Lose(s)
  \/ LateRotation \/ LateLost \/ Tick

\* While calls are out or answers on their way one of them makes progress, and the
\* visitor goes on navigating, in one tab or the other.
Fairness ==
  /\ WF_vars(\E s \in Slot : Serve(s) \/ Receive(s))
  /\ SF_vars(\E s \in Slot : Go(s, "nav"))

Spec == Init /\ [][Next]_vars /\ Fairness

----------------------------------------------------------------------------
\* Types, and a browser that holds only tokens the backend issued.
TypeOK ==
  /\ BackendTypeOK
  /\ now <= MaxClock[weather]
  /\ jar.session \in {Never} \cup DOMAIN rows /\ jar.binding.token \in {Never} \cup DOMAIN rows
  /\ Cardinality(late) <= 1
  /\ losses \in 0..MaxLosses /\ strayed \in BOOLEAN

\* Types; and one browser is taken for two only when an answer that carried a rotated token
\* was lost on its way to it (the case proxy.ts and SECURITY.md name).  Concurrent tabs,
\* rotation calls given up and their late runs, lost answers of every other kind, a
\* sign-in over a session: none of them presents a retired token past the window once
\* its successor was used, as long as a request takes at most half the grace window.
NoFalseAlarm == TypeOK /\ (alarm => strayed)

\* A page that is being rendered is not refused by the backend, unless its sign-in was
\* ended by a sign-out: rotations by other tabs go unnoticed.
ServedUnlessEnded(s) ==
  req[s].at = "rendering" => Served(req[s].token) \/ rows[req[s].token].family \in signedOut
ServedWhileSignedIn == weather = "calm" => \A s \in Slot : ServedUnlessEnded(s)

\* The jar never goes back to an older token of its sign-in, in whatever order the
\* answers to its tabs come in.
JarMovesForward ==
  [][/\ jar.session # Never /\ jar'.session # Never
     /\ rows[jar.session].family = rows'[jar'.session].family
     => jar'.session >= jar.session]_vars

\* Whoever was let through to a member page has at least half the idle timeout left,
\* whatever its method and though a superseded request rolls nothing
\* (lib/auth/constants.ts: from half the configured value to all of it).
IdleFloor ==
  [][\A s \in Slot :
       /\ weather = "calm" /\ Receive(s) /\ req[s].goto = "stay"
       /\ \A o \in Slot \ {s} : req[o] = Idle
       /\ jar'.session # Never /\ jar'.binding.token = jar'.session
       => 2 * (jar'.binding.expiresAt - now + Life) > IdleTimeout]_vars

\* A jar whose session is over, or whose cookies disagree, does not stay so: the
\* guards redirect a visitor to /logout and not in circles.
Stale == jar.session # Never /\ (~Live(jar.session) \/ jar.binding.token # jar.session)
StaleJarHeals == Stale ~> ~Stale

\* The coarser backend keeps the promise SessionFamilies keeps.
KeepsLineage == [][Lineage!Next]_Lineage!vars
=============================================================================
