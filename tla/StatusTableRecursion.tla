------------------------ MODULE StatusTableRecursion ------------------------
(***************************************************************************)
(* The removal of StatusTable as it is written: remove_*_status_item looks *)
(* a key up, removes the item it leads to from the primary map and calls   *)
(* itself with the item's own identity, before it goes on to the next key. *)
(* For TLC only: StatusTable itself has no recursive operator.             *)
(***************************************************************************)
EXTENDS StatusTable, TLC

CONSTANT MaxDepth    \* more calls deep than any removal goes

RECURSIVE RemoveRecursively(_, _, _)

\* One of the three statements of the function, for a call at depth n.
Statement(t, k, c, n) ==
  IF c[k] = None \/ c[k] \notin DOMAIN t.index[k]
  THEN t
  ELSE LET i == t.index[k][c[k]]
           u == [t EXCEPT !.index[k] = Without(@, c[k])]
           v == [u EXCEPT !.items = Without(@, i)]
       IN  IF i \in DOMAIN u.items
           THEN [RemoveRecursively(v, u.items[i].id, n + 1) EXCEPT !.deleted = @ \cup {u.items[i]}]
           ELSE u

RemoveRecursively(t, c, n) ==
  LET byName   == Statement(t, "name", c, n)
      byDevice == Statement(byName, "device", c, n)
  IN  IF n > MaxDepth THEN Assert(FALSE, "removal does not end")
      ELSE Statement(byDevice, "id", c, n)

-----------------------------------------------------------------------------
\* On every table the calls can build, and for every identity, the recursion
\* of remove_*_status_item goes one call deep and has the effect StatusTable
\* gives it: it cannot run away, and it takes out no third item.
RecursionIsEviction ==
  \A c \in Identity : RemoveRecursively(Table, c, 0) = RemoveStatusItem(Table, c)

Interchangeable == Permutations(Names) \cup Permutations(Devices)
=============================================================================
