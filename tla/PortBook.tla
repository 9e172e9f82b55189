------------------------------- MODULE PortBook -------------------------------
(***************************************************************************)
(* What the forwarding API promises, with neither its list, its counter    *)
(* nor libslirp: a book of exposed host endpoints.  No two entries of the  *)
(* book compete for an endpoint, an id is given out once until all of them *)
(* have been, and an entry leaves the book alone or with the whole book.   *)
(***************************************************************************)
EXTENDS Integers

CONSTANTS
  Entry,    \* records with id, is_udp, host_addr and host_port
  Id,       \* the ids that are given out before any is given out again
  AnyAddr,  \* the address that covers all others
  PortMod   \* the number of port numbers

VARIABLES
  book,     \* the entries in force
  issued    \* the ids given out so far

bookvars == <<book, issued>>

Compete(d, e) ==
  /\ d.is_udp = e.is_udp
  /\ d.host_port % PortMod = e.host_port % PortMod
  /\ d.host_addr = e.host_addr \/ AnyAddr \in {d.host_addr, e.host_addr}

Issue(i) == IF Id \subseteq issued
            THEN issued' = issued
            ELSE /\ i \in Id \ issued
                 /\ issued' = issued \cup {i}

Expose(e) == /\ \A d \in book : ~Compete(d, e)
             /\ Issue(e.id)
             /\ book' = book \cup {e}

\* An id may be given out for an endpoint that the book cannot name.
Waste(i) == /\ Issue(i)
            /\ UNCHANGED book

Withdraw(e) == /\ book' = book \ {e}
               /\ UNCHANGED issued

Close == /\ book' = {}
         /\ issued' \in {issued, {}}

Init == book = {} /\ issued = {}

Next == \/ \E e \in Entry : Expose(e) \/ Waste(e.id)
        \/ \E e \in book : Withdraw(e)
        \/ Close

Spec == Init /\ [][Next]_bookvars

\* Two entries of the book never claim the same host endpoint.
Exclusive == \A d, e \in book : d # e => ~Compete(d, e)

=============================================================================
