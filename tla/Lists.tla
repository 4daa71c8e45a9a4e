-------------------------------- MODULE Lists -------------------------------
(***************************************************************************)
(* The lists of lists.c, as sequences: what the operations do to the items *)
(* of an id_list.  Index i of the code is position i + 1 here.             *)
(***************************************************************************)
LOCAL INSTANCE Naturals
LOCAL INSTANCE Sequences

(* The position of every item that is x. *)
Positions(l, x) == {k \in 1..Len(l) : l[k] = x}

list_Contains(l, x) == Positions(l, x) # {}

list_Push(l, x) == Append(l, x)

(* list_Insert moves the items from the position on down by one, the last  *)
(* one first.                                                              *)
list_Insert(l, k, x) ==
  [j \in 1..(Len(l) + 1) |-> IF j < k THEN l[j] ELSE IF j = k THEN x ELSE l[j - 1]]

list_Queue(l, x) == list_Insert(l, 1, x)

(* list_Remove moves the items behind the position up by one, and begins   *)
(* with the last of them: every one is overwritten by the last item before *)
(* it is moved itself.                                                     *)
list_Remove(l, k) ==
  [j \in 1..(Len(l) - 1) |-> IF j < k THEN l[j] ELSE l[Len(l)]]

list_Pop(l) == list_Remove(l, Len(l))

(* list_RemoveItem looks for the first position of x. *)
list_RemoveItem(l, x) ==
  IF list_Contains(l, x)
  THEN list_Remove(l, CHOOSE k \in Positions(l, x) : \A j \in Positions(l, x) : k <= j)
  ELSE l
=============================================================================
