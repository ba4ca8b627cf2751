--------------------------- MODULE BrowserCustody ---------------------------
(***************************************************************************)
(* What web_provider promises of its browsers, without rows, locks, pages  *)
(* or an event loop: a context and its permit are in one hand at a time.   *)
(* The launch takes a permit and hands both to the registry; of those that *)
(* want to end the session one claims them from the registry, and returns  *)
(* the permit once.  A connection test takes a permit and returns it.  The *)
(* two ways in which the code misplaces a permit are actions of their own, *)
(* so that there can be no third.                                          *)
(***************************************************************************)
EXTENDS Naturals

CONSTANTS
  Contexts,     \* sessions and connection tests, each with one context
  Terminators,  \* those who may end a session
  Pool          \* pam_browser_concurrency

VARIABLES
  owners,  \* who has custody of a context
  free     \* permits that can be taken

vars == <<owners, free>>

Nobody   == {}
Launch   == {"launch"}
Registry == {"registry"}

Init ==
  /\ owners = [s \in Contexts |-> Nobody]
  /\ free = Pool

(* Custody of a context passes from some hands to others. *)
Pass(s, from, to) == owners[s] = from /\ owners' = [owners EXCEPT ![s] = to]

Take(s)     == free > 0 /\ Pass(s, Nobody, Launch) /\ free' = free - 1
HandOver(s) == Pass(s, Launch, Registry) /\ free' = free
GiveBack(s) == Pass(s, Launch, Nobody) /\ free' = free + 1

(* A launch or test whose permit is not returned, because what stands      *)
(* before the release raised; and one that is returned although the runtime *)
(* is registered, and will be returned again.                              *)
Leak(s)          == Pass(s, Launch, Nobody) /\ free' = free
HandOverTwice(s) == Pass(s, Launch, Registry) /\ free' = free + 1

(* A coroutine closes one session at a time. *)
Claim(t, s) ==
  /\ \A u \in Contexts : t \notin owners[u]
  /\ Pass(s, Registry, {t}) /\ free' = free

Return(t, s) == Pass(s, {t}, Nobody) /\ free' = free + 1

Crash == owners' = [s \in Contexts |-> Nobody] /\ free' = Pool

Next ==
  \/ \E s \in Contexts :
       \/ Take(s) \/ HandOver(s) \/ GiveBack(s) \/ Leak(s) \/ HandOverTwice(s)
       \/ \E t \in Terminators : Claim(t, s) \/ Return(t, s)
  \/ Crash

Spec == Init /\ [][Next]_vars
=============================================================================
