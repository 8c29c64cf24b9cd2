---------------------------- MODULE ServiceWindow ----------------------------
(* What the queue service promises of its one service window, with everything *)
(* about how removed: tickets stand in a line, at most one of them is at the  *)
(* window, one that is being served can only finish, and one that was served  *)
(* or left unserved never comes back.                                         *)
CONSTANTS
    Ticket,
    NoTicket    \* not a ticket

VARIABLES
    line,       \* the tickets that wait
    window,     \* the ticket at the window, or NoTicket
    inService,  \* whether the ticket at the window is being served
    served,     \* the tickets whose service was finished
    left        \* the tickets that left without being served

windowVars == <<line, window, inService, served, left>>

Init ==
    /\ line = {}
    /\ window = NoTicket
    /\ inService = FALSE
    /\ served = {} /\ left = {}

Arrive(t) ==
    /\ t \notin line \cup served \cup left /\ t # window
    /\ line' = line \cup {t}
    /\ UNCHANGED <<window, inService, served, left>>

Call(t) ==
    /\ window = NoTicket
    /\ t \in line
    /\ line' = line \ {t}
    /\ window' = t
    /\ UNCHANGED <<inService, served, left>>

Begin ==
    /\ window # NoTicket /\ ~ inService
    /\ inService' = TRUE
    /\ UNCHANGED <<line, window, served, left>>

Finish ==
    /\ inService
    /\ served' = served \cup {window}
    /\ window' = NoTicket
    /\ inService' = FALSE
    /\ UNCHANGED <<line, left>>

SendBack ==
    /\ window # NoTicket /\ ~ inService
    /\ line' = line \cup {window}
    /\ window' = NoTicket
    /\ UNCHANGED <<inService, served, left>>

LeaveWindow ==
    /\ window # NoTicket /\ ~ inService
    /\ left' = left \cup {window}
    /\ window' = NoTicket
    /\ UNCHANGED <<line, inService, served>>

LeaveLine(t) ==
    /\ t \in line
    /\ line' = line \ {t}
    /\ left' = left \cup {t}
    /\ UNCHANGED <<window, inService, served>>

Next ==
    \/ \E t \in Ticket : Arrive(t) \/ Call(t) \/ LeaveLine(t)
    \/ Begin \/ Finish \/ SendBack \/ LeaveWindow

Spec == Init /\ [][Next]_windowVars
=============================================================================
