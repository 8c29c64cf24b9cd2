---------------------------- MODULE NoticeDelivery ----------------------------
(* What the notification outbox promises of each notice: it is asked for once, *)
(* reaches the customer only while it is due, is reported sent only after it   *)
(* reached, and a notice that was sent or withdrawn is over with.              *)
CONSTANT Notification

VARIABLES
    due,        \* the notices that are to be delivered
    reached,    \* the notices of which a message reached the customer
    sent,       \* the notices reported as sent
    failed,     \* the notices given up; an operator may ask for them again
    withdrawn   \* the notices that are not wanted any more

deliveryVars == <<due, reached, sent, failed, withdrawn>>

Init ==
    /\ due = {} /\ reached = {}
    /\ sent = {} /\ failed = {} /\ withdrawn = {}

(* New notices are asked for, and the ones they make obsolete withdrawn.      *)
Ask(new, obsolete) ==
    /\ new \cap (due \cup sent \cup failed \cup withdrawn) = {}
    /\ obsolete \subseteq due
    /\ due' = (due \ obsolete) \cup new
    /\ withdrawn' = withdrawn \cup obsolete
    /\ UNCHANGED <<reached, sent, failed>>

Reach(n) ==
    /\ n \in due
    /\ reached' = reached \cup {n}
    /\ UNCHANGED <<due, sent, failed, withdrawn>>

Confirm(n) ==
    /\ n \in due \cap reached
    /\ due' = due \ {n}
    /\ sent' = sent \cup {n}
    /\ UNCHANGED <<reached, failed, withdrawn>>

GiveUp(n) ==
    /\ n \in due
    /\ due' = due \ {n}
    /\ failed' = failed \cup {n}
    /\ UNCHANGED <<reached, sent, withdrawn>>

AskAgain(n) ==
    /\ n \in failed
    /\ failed' = failed \ {n}
    /\ due' = due \cup {n}
    /\ UNCHANGED <<reached, sent, withdrawn>>

Next ==
    \/ \E new, obsolete \in SUBSET Notification : Ask(new, obsolete)
    \/ \E n \in Notification : Reach(n) \/ Confirm(n) \/ GiveUp(n) \/ AskAgain(n)

Spec == Init /\ [][Next]_deliveryVars
=============================================================================
