----------------------------- MODULE LoginTicket ----------------------------
(***************************************************************************)
(* What the table oidc_login_states promises to the OIDC callback: a login *)
(* state is a ticket that is issued once, is redeemed at most once, and    *)
(* cannot be redeemed after it has been withdrawn.                         *)
(***************************************************************************)
EXTENDS Naturals

CONSTANT Ticket

VARIABLES
    issued,     \* tickets ever issued, some of them before the start
    open,       \* tickets that can be redeemed
    redeemed    \* [Ticket -> how often it has been redeemed]

TicketInit ==
    /\ issued \in SUBSET Ticket
    /\ open = {}
    /\ redeemed = [t \in Ticket |-> 0]

Issue(t) ==
    /\ t \notin issued
    /\ issued' = issued \cup {t}
    /\ open' = open \cup {t}
    /\ UNCHANGED redeemed

Redeem(t) ==
    /\ t \in open
    /\ open' = open \ {t}
    /\ redeemed' = [redeemed EXCEPT ![t] = @ + 1]
    /\ UNCHANGED issued

\* The pool of the login is deleted, with all its open tickets.
Withdraw(S) ==
    /\ open' = open \ S
    /\ UNCHANGED <<issued, redeemed>>

TicketNext ==
    \/ \E t \in Ticket : Issue(t) \/ Redeem(t)
    \/ \E S \in SUBSET open : Withdraw(S)

TicketSpec == TicketInit /\ [][TicketNext]_<<issued, open, redeemed>>

\* A ticket is redeemed at most once.
RedeemedOnce == \A t \in Ticket : redeemed[t] <= 1
=============================================================================
