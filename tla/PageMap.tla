------------------------------- MODULE PageMap ------------------------------
(***************************************************************************)
(* What the bookkeeping of memory promises: a map from pages to what is    *)
(* known of them, changed for one range of pages at a time, and the number *)
(* of pages in use.  Areas, their splits and their offsets are not visible.*)
(***************************************************************************)
EXTENDS Integers, FiniteSets

CONSTANTS PmEnd,       \* the pages are 0 .. PmEnd - 1
          PmFree       \* what is known of a page that is not in use

VARIABLES pages, total

InUse(m) == {p \in DOMAIN m : m[p] # PmFree}

PmInit == /\ DOMAIN pages = 0 .. PmEnd - 1
          /\ total = Cardinality(InUse(pages))

(* The range becomes one new area: its pages have the same attributes, and *)
(* those of a file follow each other.  A user never replaces a page of the *)
(* LibOS, nor the LibOS one of a user.                                     *)
PmMap(b, e) ==
    /\ \A p \in b .. e - 1 :
          /\ pages'[p] # PmFree
          /\ pages[p] # PmFree => pages[p].internal = pages'[p].internal
          /\ pages'[p] = [pages'[b] EXCEPT !.page = IF @ = -1 THEN -1 ELSE @ + (p - b)]

PmUnmap(b, e) == \A p \in b .. e - 1 : pages'[p] = PmFree

(* A range that its owner is unmapping is kept from everybody else. *)
PmHold(b, e) ==
    /\ \A p \in b .. e - 1 : pages'[p] # PmFree /\ pages'[p].unmapped /\ pages'[p].internal
    /\ \A p, q \in InUse(pages) \cap (b .. e - 1) : pages[p].internal = pages[q].internal

PmProtect(b, e) ==
    \A p \in b .. e - 1 : /\ pages[p] # PmFree /\ ~pages[p].internal
                          /\ pages'[p] = [pages[p] EXCEPT !.prot = pages'[b].prot]

PmConvert(b, e) ==
    \A p \in b .. e - 1 : pages[p].unmapped /\ pages'[p] = [pages[p] EXCEPT !.internal = FALSE]

PmNext == /\ \E b, e \in 0 .. PmEnd :
                /\ b < e
                /\ \A p \in (0 .. b - 1) \cup (e .. PmEnd - 1) : pages'[p] = pages[p]
                /\ PmMap(b, e) \/ PmUnmap(b, e) \/ PmHold(b, e) \/ PmProtect(b, e)
                   \/ PmConvert(b, e)
          /\ DOMAIN pages' = DOMAIN pages
          /\ total' = Cardinality(InUse(pages'))

PmSpec == PmInit /\ [][PmNext]_<<pages, total>>
=============================================================================
