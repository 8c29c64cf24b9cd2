---------------------------- MODULE MCTicketQueue ----------------------------
(* TicketQueue for TLC.                                                       *)
EXTENDS TicketQueue, TLC

(* Customers, and staff requests, are interchangeable.                        *)
Symmetry == Permutations(Customer) \cup Permutations(Staff)

(* No operation and no property reads the owner, priority or absences of a    *)
(* ticket that is closed: states that differ in nothing else are one state.   *)
Essence(entry) ==
    IF entry.status \in TerminalStatus
    THEN [entry EXCEPT !.owner = Nobody, !.priority = 0, !.absence = 0]
    ELSE entry

View == <<queue, [t \in Ticket |-> Essence(entries[t])], today, stock,
          penalised, tx, deferral, late>>

(* The line alone: where no customer extends an order and nothing expires, no *)
(* operation looks at the status of an order but to change it.                *)
LineView == <<queue, [t \in Ticket |-> [Essence(entries[t]) EXCEPT !.order = "none"]],
              today, stock, penalised, tx, deferral, late>>
=============================================================================
