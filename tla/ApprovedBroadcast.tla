-------------------------- MODULE ApprovedBroadcast --------------------------
(***************************************************************************)
(* What the level-2 flow of defi_autonomy promises, without its files: a   *)
(* transaction goes to the chain only after it was armed, it is armed only *)
(* while no kill switch is set and, unless unattended, while an approval   *)
(* of that very transaction is live, and one is armed at a time.            *)
(***************************************************************************)
CONSTANTS
    Transactions,
    Unattended,     \* level 3 with allow_autonomous_broadcast
    Nothing         \* no transaction is armed

VARIABLES
    live,           \* transactions with a live operator approval
    stopped,        \* the kill switch file exists
    armed,          \* the transaction that passed every check, or Nothing
    sent            \* transactions handed to the chain

Init ==
    /\ live = {} /\ stopped = FALSE /\ armed = Nothing /\ sent = {}

Approve(t) ==
    /\ live' = live \cup {t}
    /\ UNCHANGED <<stopped, armed, sent>>

Expire(t) ==
    /\ live' = live \ {t}
    /\ UNCHANGED <<stopped, armed, sent>>

Switch ==
    /\ stopped' = ~stopped
    /\ UNCHANGED <<live, armed, sent>>

Arm(t) ==
    /\ ~stopped /\ armed = Nothing
    /\ Unattended \/ t \in live
    /\ armed' = t
    /\ UNCHANGED <<live, stopped, sent>>

Send ==
    /\ armed # Nothing
    /\ sent' = sent \cup {armed} /\ armed' = Nothing
    /\ UNCHANGED <<live, stopped>>

Drop ==
    /\ armed' = Nothing
    /\ UNCHANGED <<live, stopped, sent>>

Next ==
    \/ Switch \/ Send \/ Drop
    \/ \E t \in Transactions : Approve(t) \/ Expire(t) \/ Arm(t)

Spec == Init /\ [][Next]_<<live, stopped, armed, sent>>
=============================================================================
