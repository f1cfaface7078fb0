------------------------------- MODULE Viewer -------------------------------
(***************************************************************************)
(* What the file browser promises, without its handlers, history and       *)
(* events: whoever names an address leaves the list alone and a rendering  *)
(* to come; only a rendering changes the list, and it fits the address of  *)
(* that moment.  Between the two the page's idea of where it is may run    *)
(* ahead; with no rendering to come, neither it nor the list changes.      *)
(***************************************************************************)
CONSTANTS Fits(_, _, _),   \* Fits(list, place, address)
          Blank(_)         \* at this address a rendering fails

VARIABLES address,
          pending,    \* a rendering is to come
          list,       \* what the page lists
          place       \* where the page takes itself to be

vars == <<address, pending, list, place>>

Init == pending = TRUE

Go == /\ pending' = TRUE
      /\ UNCHANGED list

Show == /\ pending
        /\ pending' \in BOOLEAN
        /\ UNCHANGED address
        /\ \/ Fits(list', place', address)
           \/ Blank(address) /\ UNCHANGED <<list, place>>

Next == Go \/ Show

Spec == Init /\ [][Next]_vars
=============================================================================
