------------------------------- MODULE MCAccess -------------------------------
(* Small instances of Access for TLC. Each scene is a set of events that   *)
(* interfere with each other; all of them together are too many states.    *)
EXTENDS Access, TLC

MCAccounts == {[user |-> "admin", pass |-> "p"],
               [user |-> "editor", pass |-> "q"]}
MCDefault  == [user |-> "admin", pass |-> "p"]

\* The limiter and its clock; the audit and its faults; the account, the
\* session and restarts.
MCScenes == {{"login", "guess", "tick"},
             {"login", "guess", "fault", "restart"},
             {"login", "guess", "account", "fault", "restart"},
             {"login", "remember", "visit", "leave", "logout", "restart",
              "tick"}}
RememberScene == {{"login", "remember", "visit", "leave", "logout",
                   "restart", "tick"}}

Symmetry == Permutations(Clients)
=============================================================================
