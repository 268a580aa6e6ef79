------------------------------ MODULE MCBackup ------------------------------
(***************************************************************************)
(* What a browser has at the server: its backup (Backup) and its account   *)
(* (ServerAccount).  They share no variable; a behaviour is about one of   *)
(* them, the other stays in one fixed initial state, where it owes         *)
(* nothing.  The backup is run twice: handlers of the card that overlap,   *)
(* without the mute of the agent's passes, then these passes beside one    *)
(* handler at a time, whose page is not left.                              *)
(***************************************************************************)
EXTENDS Backup, ServerAccount

VARIABLE about

\* No card was left behind with its handler under way.
NobodyLeft == \A c \in Card : c = Shown \/ card[c].at = "idle"

MCInit ==
    /\ about \in {"cards", "passes", "account"}
    /\ Init
    /\ ServerAccountInit
    /\ about # "account" => cookie = "none" /\ ~factorOn /\ codeSet = 0 /\ ~onSettings

MCNext ==
    \/ about = "cards" /\ Next /\ agent' = "idle" /\ UNCHANGED <<about, serverAccountVars>>
    \/ about = "passes" /\ Next /\ NobodyLeft' /\ UNCHANGED <<about, serverAccountVars>>
    \/ about = "account" /\ ServerAccountNext /\ UNCHANGED <<about, vars>>

MCSpec == MCInit /\ [][MCNext]_<<about, vars, serverAccountVars>> /\ Fairness
=============================================================================
