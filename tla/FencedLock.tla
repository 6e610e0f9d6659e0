------------------------------ MODULE FencedLock ------------------------------
(***************************************************************************)
(* What the fenced lease promises, with neither clock nor rows nor         *)
(* heartbeats: a lock whose every grant carries a new token, in order, of  *)
(* which at most the last is valid.  A grant may come at any time, since a *)
(* holder that is silent too long loses the lock; what it can never do is  *)
(* hand out a token again, and a former holder that lets go never takes    *)
(* the lock from the present one.                                          *)
(***************************************************************************)
EXTENDS Naturals

CONSTANT Clients

VARIABLES
    last,       \* the last token granted; 0 before the first
    current,    \* the token that is valid; 0 when there is none
    token       \* client -> the token it holds; 0 when it holds none

Init == last = 0 /\ current = 0 /\ token = [c \in Clients |-> 0]

Grant(c) ==
    /\ last' = last + 1
    /\ current' = last + 1
    /\ token' = [token EXCEPT ![c] = last + 1]

\* Letting go invalidates the client's own token and no other.
LetGo(c) ==
    /\ current' = IF token[c] = current THEN 0 ELSE current
    /\ token' = [token EXCEPT ![c] = 0]
    /\ UNCHANGED last

\* An operator takes the lock from everyone.
Revoke == current' = 0 /\ UNCHANGED <<last, token>>

Next == (\E c \in Clients : Grant(c) \/ LetGo(c)) \/ Revoke

Spec == Init /\ [][Next]_<<last, current, token>>
===============================================================================
