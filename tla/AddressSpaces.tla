----------------------------- MODULE AddressSpaces ----------------------------
(***************************************************************************)
(* What the page tables promise: every address space maps its own user     *)
(* pages, and all of them map the same kernel pages.  Mapping may fail for *)
(* want of memory, page by page; unmapping never does.  A change touches   *)
(* no page outside the range it names, in this space or in another one.    *)
(***************************************************************************)
EXTENDS Integers

CONSTANTS
  Spaces,        \* the identities of address spaces
  KernelVirt,    \* virtual pages that all spaces share
  UserVirt,      \* virtual pages that each space has for itself
  Phys,          \* physical pages
  Lengths        \* how many pages a range has

VARIABLES
  kernel,        \* kernel page -> physical page, or 0
  user,          \* space -> user page -> physical page, or 0
  current        \* the space in use

vars == <<kernel, user, current>>

Nothing == [v \in UserVirt |-> 0]

Init ==
  /\ kernel = [v \in KernelVirt |-> 0]
  /\ \E s \in Spaces : current = s /\ user = [t \in {s} |-> Nothing]

\* Pages of a space get new values.
Update(space, new) ==
  /\ kernel' = [v \in KernelVirt |-> IF v \in DOMAIN new THEN new[v] ELSE kernel[v]]
  /\ user' = [user EXCEPT ![space] =
       [v \in UserVirt |-> IF v \in DOMAIN new THEN new[v] ELSE user[space][v]]]
  /\ UNCHANGED current

\* The pages at some offsets of the range are mapped, the others stay.
Map(space, virt, phys, length) ==
  \E offsets \in SUBSET (0 .. length - 1) :
    Update(space, [v \in {virt + k : k \in offsets} |-> phys + (v - virt)])

Unmap(space, virt, length) == Update(space, [v \in virt .. virt + length - 1 |-> 0])

Create ==
  \E s \in Spaces \ DOMAIN user :
    /\ user' = [t \in DOMAIN user \cup {s} |-> IF t = s THEN Nothing ELSE user[t]]
    /\ UNCHANGED <<kernel, current>>

Switch == current' \in DOMAIN user /\ UNCHANGED <<kernel, user>>

Next ==
  \/ \E s \in DOMAIN user, v \in KernelVirt \cup UserVirt, n \in Lengths :
       Unmap(s, v, n) \/ \E p \in Phys : Map(s, v, p, n)
  \/ Create
  \/ Switch

Spec == Init /\ [][Next]_vars
=============================================================================
