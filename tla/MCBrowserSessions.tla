-------------------------- MODULE MCBrowserSessions --------------------------
(***************************************************************************)
(* Two tabs, which send actions, sign out and sign in only where every     *)
(* call is answered.                                                       *)
(***************************************************************************)
EXTENDS BrowserSessions

Horizon == [calm |-> 6, flaky |-> 7]
Doings == [calm |-> {"nav", "post", "logout", "login"}, flaky |-> {"nav"}]
=============================================================================
