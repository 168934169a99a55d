---------------------------- MODULE AddressPool -----------------------------
(***************************************************************************)
(* What an address pool promises its clients (abstract): an address is     *)
(* leased to one client at a time, a client that asks for any address gets *)
(* one as long as one is free, and is refused only when none is.           *)
(***************************************************************************)
EXTENDS Integers

CONSTANTS
    Clients,
    Addresses,
    NoAddr      \* not an address

VARIABLES
    lease,      \* the address each client holds, or NoAddr
    refused     \* whether the client's last request was refused

Leased == {lease[c] : c \in Clients} \ {NoAddr}

Init ==
    /\ lease = [c \in Clients |-> NoAddr]
    /\ refused = [c \in Clients |-> FALSE]

Grant(c) ==
    /\ lease[c] = NoAddr
    /\ \E a \in Addresses \ Leased : lease' = [lease EXCEPT ![c] = a]
    /\ refused' = [refused EXCEPT ![c] = FALSE]

Refuse(c) ==
    /\ lease[c] = NoAddr
    /\ Addresses \subseteq Leased
    /\ refused' = [refused EXCEPT ![c] = TRUE]
    /\ UNCHANGED lease

Return(c) ==
    /\ lease[c] # NoAddr
    /\ lease' = [lease EXCEPT ![c] = NoAddr]
    /\ UNCHANGED refused

Next == \E c \in Clients : Grant(c) \/ Refuse(c) \/ Return(c)

Spec == Init /\ [][Next]_<<lease, refused>>
=============================================================================
