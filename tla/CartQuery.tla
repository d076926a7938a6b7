------------------------------ MODULE CartQuery ------------------------------
(***************************************************************************)
(* One entry of the query cache of @tanstack/react-query 5.64.1, as the     *)
(* cart provider of the web shop uses it: default options (stale at once,    *)
(* refetch on window focus and on mount), and invalidateQueries after a      *)
(* mutation.  The library is not part of the repository: these operators are *)
(* external.                                                                 *)
(*                                                                           *)
(*   known   some response was stored in the entry                           *)
(*   data    the stored response, a snapshot of the cart                     *)
(*   fetch   "idle", "asked" (request on its way), "answered"                *)
(*   resp    the snapshot of an answered request                             *)
(*   stale   isInvalidated                                                   *)
(*   joined  history: an invalidation left the fetch in flight to answer it  *)
(*   late    history: the data came from such a fetch                         *)
(***************************************************************************)

EXTENDS Naturals

CONSTANT Product

\* A snapshot of the cart: a quantity for every product, and the number of the
\* cart's last change.  The cart shown while there is no data has no items.
NoItems == [p \in Product |-> 0]

EmptyCart == [items |-> NoItems, version |-> 0]

Cart == [items : [Product -> Nat], version : Nat]

Entry ==
  [known : BOOLEAN, data : Cart, fetch : {"idle", "asked", "answered"},
   resp : Cart, stale : BOOLEAN, joined : BOOLEAN, late : BOOLEAN]

\* An entry nobody has asked for.
NewEntry ==
  [known |-> FALSE, data |-> EmptyCart, fetch |-> "idle", resp |-> EmptyCart,
   stale |-> FALSE, joined |-> FALSE, late |-> FALSE]

\* query.fetch without cancelRefetch (mount, focus): a fetch in flight serves.
Fetch(q) ==
  IF q.fetch = "idle" THEN [q EXCEPT !.fetch = "asked"] ELSE q

\* invalidateQueries: every entry becomes stale, and the active one is fetched
\* again with cancelRefetch.  Only an entry that has data drops the fetch in
\* flight; the first fetch of an entry is joined, and so is that of an entry
\* that is not on the screen.
Invalidate(q, active) ==
  IF active /\ (q.fetch = "idle" \/ q.known)
  THEN [q EXCEPT !.stale = TRUE, !.fetch = "asked", !.resp = EmptyCart, !.joined = FALSE]
  ELSE [q EXCEPT !.stale = TRUE, !.joined = q.joined \/ q.fetch # "idle"]

\* The response is stored, and whatever it is, the entry counts as valid again.
Store(q) ==
  [q EXCEPT !.known = TRUE, !.data = q.resp, !.fetch = "idle",
            !.resp = EmptyCart, !.stale = FALSE, !.joined = FALSE, !.late = q.joined]

\* The fetch failed after its retries: the data stays as it was.
GiveUp(q) == [q EXCEPT !.fetch = "idle", !.joined = FALSE]
=============================================================================
