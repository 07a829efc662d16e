----------------------------- MODULE ByteLedger -----------------------------
(***************************************************************************)
(* What the accounting of traffic promises, apart from how it is done.     *)
(* Every byte of an account is moved once; it is then due, until it is     *)
(* booked, once, or the account is waived, after which nothing more is     *)
(* promised than that no byte is invented.                                 *)
(***************************************************************************)
EXTENDS Integers

CONSTANT Account

VARIABLES
    moved,   \* bytes each account ever moved
    due,     \* bytes that still have to be booked
    booked,  \* bytes on the books
    waived   \* accounts that lost some byte for good

books == <<moved, due, booked, waived>>

Init ==
    /\ moved  = [a \in Account |-> 0]
    /\ due    = [a \in Account |-> 0]
    /\ booked = [a \in Account |-> 0]
    /\ waived = {}

Move(a) ==
    /\ moved' = [moved EXCEPT ![a] = @ + 1]
    /\ due' = [due EXCEPT ![a] = @ + 1]
    /\ UNCHANGED <<booked, waived>>

\* Some or all of what is due goes on the books, and is due no longer.
Book(a) ==
    \E d \in 1 .. due[a] :
        /\ due' = [due EXCEPT ![a] = @ - d]
        /\ booked' = [booked EXCEPT ![a] = @ + d]
        /\ UNCHANGED <<moved, waived>>

\* Some accounts are waived, now or earlier: theirs may be forgotten or
\* taken off the books again, but never exceed what was moved.
Waive(lost) ==
    /\ waived' = waived \cup lost
    /\ \A a \in Account \ lost :
          moved'[a] = moved[a] /\ due'[a] = due[a] /\ booked'[a] = booked[a]
    /\ \A a \in lost :
          /\ moved'[a] >= moved[a]
          /\ due'[a] >= 0 /\ booked'[a] >= 0
          /\ due'[a] + booked'[a] <= moved'[a]

Next ==
    \/ \E a \in Account : Move(a) \/ Book(a)
    \/ \E lost \in SUBSET Account : Waive(lost)

Spec == Init /\ [][Next]_books
=============================================================================
