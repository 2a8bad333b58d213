------------------------------- MODULE Lists -------------------------------
(***************************************************************************)
(* The ns_list operations the event loop uses, on sequences.  The list     *)
(* library itself is not part of the repository; an element carries its    *)
(* own link, so a list holds each element at most once.                    *)
(***************************************************************************)
EXTENDS Integers, Sequences, SequencesExt

(* ns_list_foreach with a test, ns_list_add_before the first element that   *)
(* satisfies it and return; ns_list_add_to_end after the loop.  Stops is    *)
(* the set of positions whose element satisfies the test.                   *)
InsertBefore(list, Stops, e) ==
    InsertAt(list, IF Stops = {} THEN Len(list) + 1 ELSE Min(Stops), e)

(* ns_list_remove of an element by its address. *)
Without(list, e) ==
    IF e \in Range(list)
    THEN RemoveAt(list, CHOOSE i \in DOMAIN list : list[i] = e)
    ELSE list

(* The list is in nondecreasing order of key. *)
SortedBy(list, key) ==
    \A i, j \in DOMAIN list : i < j => key[list[i]] <= key[list[j]]
=============================================================================
