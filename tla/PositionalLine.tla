---------------------------- MODULE PositionalLine ---------------------------
(* The line as customers understand it, a sequence: who arrives stands at the *)
(* end, the first is called, and a customer who was absent is put back a      *)
(* fixed number of places behind the window, or at the end.  No priorities    *)
(* and no numbers: TicketQueue is shown to keep them so that the line they    *)
(* induce moves exactly like this.                                            *)
EXTENDS Naturals, Sequences, SequencesExt

CONSTANTS Ticket, Slots

VARIABLES
    line,       \* the tickets that wait, first to last
    window      \* the tickets at the window: at most one

lineVars == <<line, window>>

Init == line = <<>> /\ window = {}

Arrive(t) ==
    /\ ~ Contains(line, t) /\ t \notin window
    /\ line' = Append(line, t)
    /\ UNCHANGED window

CallFirst ==
    /\ window = {} /\ line # <<>>
    /\ window' = {Head(line)}
    /\ line' = Tail(line)

PutBack(t) ==
    /\ t \in window
    /\ window' = window \ {t}
    /\ line' = IF Len(line) < Slots THEN Append(line, t)
               ELSE InsertAt(line, Slots + 1, t)

LeaveWindow(t) ==
    /\ t \in window
    /\ window' = window \ {t}
    /\ UNCHANGED line

LeaveLine(t) ==
    /\ \E i \in 1 .. Len(line) : line[i] = t /\ line' = RemoveAt(line, i)
    /\ UNCHANGED window

Next ==
    \/ \E t \in Ticket : Arrive(t) \/ PutBack(t) \/ LeaveWindow(t) \/ LeaveLine(t)
    \/ CallFirst

Spec == Init /\ [][Next]_lineVars
=============================================================================
