-------------------------------- MODULE Lists --------------------------------
(* The order of a list's items (api/src/lists).  An item carries a rank, a  *)
(* string of digits; a new one between two others is made of theirs         *)
(* (rank.rs), so that moving an item writes its row alone.  Whoever writes a *)
(* rank reads its neighbours under the lock on the list's row; what they    *)
(* found before it, an item that was there, may be gone by then.            *)
EXTENDS Naturals, Sequences, FiniteSets

CONSTANTS
    Item,
    Editor,       \* requests
    Base,         \* how many digits there are, 62 in the code
    MaxItems,     \* MAX_ITEMS
    MaxListWrites \* bound: items made and moved

NoItem == "no item"

ASSUME ListAssumption ==
    /\ IsFiniteSet(Item) /\ NoItem \notin Item /\ Base \in Nat \ {0, 1}
    /\ MaxItems \in Nat /\ MaxListWrites \in Nat

Digit == 0..(Base - 1)

VARIABLES
    rank,      \* [Item -> its digits], none for an item that was never made
    removed,   \* items with deleted_at
    editor,    \* [Editor -> [does, item, after, to]]
    shown,     \* the items of a client that has had the events so far (listSync.ts)
    listWrites,
    strayed    \* history: items that were gone when their move got the lock

listVars == <<rank, removed, editor, shown, listWrites, strayed>>

NoEdit == [does |-> "nothing", item |-> NoItem, after |-> NoItem, to |-> <<>>]

ListTypeOK ==
    /\ rank \in [Item -> Seq(Digit)] /\ {removed, shown, strayed} \subseteq SUBSET Item
    /\ \A w \in Editor :
           /\ editor[w].does \in {"nothing", "create", "move", "delete", "write"}
           /\ {editor[w].item, editor[w].after} \subseteq Item \cup {NoItem}
           /\ editor[w].to \in Seq(Digit)
    /\ listWrites \in 0..MaxListWrites

ListInit ==
    /\ rank = [i \in Item |-> <<>>] /\ removed = {} /\ shown = {} /\ strayed = {}
    /\ editor = [w \in Editor |-> NoEdit] /\ listWrites = 0

Live == {i \in Item : rank[i] # <<>>} \ removed

-----------------------------------------------------------------------------
(* rank.rs.  An upper neighbour that is not there and one that is used up   *)
(* are treated alike, and are both the empty sequence here.  The calls that *)
(* midpoint makes of itself copy the digits the neighbours share, or those  *)
(* of the lower one that leave no room: they are replaced by the place they *)
(* end at.                                                                  *)

DigitAt(s, n) == IF n \in DOMAIN s THEN s[n] ELSE 0

(* The first digit in which the neighbours differ: shared + 1. *)
Parts(low, high) ==
    CHOOSE n \in 1..(Len(high) + 1) :
        /\ \A k \in 1..(n - 1) : DigitAt(low, k) = high[k]
        /\ n \in DOMAIN high => DigitAt(low, n) # high[n]

(* The first digit from n on that can be raised. *)
FirstRoom(low, n) ==
    CHOOSE m \in n..(n + Len(low)) :
        /\ DigitAt(low, m) < Base - 1
        /\ \A k \in n..(m - 1) : DigitAt(low, k) = Base - 1

(* The digits of s before the n-th, and d. *)
Cut(s, n, d) == [k \in 1..n |-> IF k < n THEN DigitAt(s, k) ELSE d]

(* Mutant: the digits need only differ. *)
RoomBetweenAny(l, h) == h > l

RoomBetween(l, h) == h > l + 1

Halfway(l, h) == (l + h + 1) \div 2

Midpoint(low, high) ==
    LET n == Parts(low, high)
        l == DigitAt(low, n)
        h == IF n \in DOMAIN high THEN high[n] ELSE Base
        m == FirstRoom(low, n + 1)
    IN  IF RoomBetween(l, h) THEN Cut(low, n, Halfway(l, h))
        ELSE IF Len(high) > n THEN Cut(low, n, h)
        ELSE Cut(low, m, Halfway(DigitAt(low, m), Base))

(* The order of the column, COLLATE "C": one is used up, or lower, where    *)
(* they first differ.                                                       *)
Less(s, t) ==
    \E n \in DOMAIN t :
        /\ \A k \in 1..(n - 1) : k \in DOMAIN s /\ s[k] = t[k]
        /\ n \in DOMAIN s => s[n] < t[n]

Lowest(ranks) == CHOOSE r \in ranks : \A q \in ranks : ~Less(q, r)
Highest(ranks) == CHOOSE r \in ranks : \A q \in ranks : ~Less(r, q)

(* neighbours_in: the item it shall follow, and the next one but the item   *)
(* itself.                                                                  *)
Between(i, after) ==
    LET low == IF after = NoItem THEN <<>> ELSE rank[after]
        above == {rank[j] : j \in {k \in Live \ {i, after} : Less(low, rank[k])}}
    IN  Midpoint(low, IF above = {} THEN <<>> ELSE Lowest(above))

(* last_rank_in *)
AfterTheLast ==
    Midpoint(IF Live = {} THEN <<>> ELSE Highest({rank[j] : j \in Live}), <<>>)

-----------------------------------------------------------------------------
Edits(w, edit) == editor' = [editor EXCEPT ![w] = edit]

(* create_item, as far as its transaction. *)
BeginCreate(w, i, after) ==
    /\ editor[w] = NoEdit /\ rank[i] = <<>> /\ after # i
    /\ \A o \in Editor : editor[o].item # i
    /\ listWrites < MaxListWrites /\ listWrites' = listWrites + 1
    /\ Edits(w, [NoEdit EXCEPT !.does = "create", !.item = i, !.after = after])
    /\ UNCHANGED <<rank, removed, shown, strayed>>

(* move_item finds the item, and delete_item does. *)
BeginMove(w, i, after) ==
    /\ editor[w] = NoEdit /\ i \in Live /\ after # i
    /\ listWrites < MaxListWrites /\ listWrites' = listWrites + 1
    /\ Edits(w, [NoEdit EXCEPT !.does = "move", !.item = i, !.after = after])
    /\ UNCHANGED <<rank, removed, shown, strayed>>

BeginDelete(w, i) ==
    /\ editor[w] = NoEdit /\ i \in Live
    /\ Edits(w, [NoEdit EXCEPT !.does = "delete", !.item = i])
    /\ UNCHANGED <<rank, removed, shown, listWrites, strayed>>

(* lock: FOR UPDATE, to the end of the transaction. *)
MayLockList == \A w \in Editor : editor[w].does # "write"

(* The transaction of create_item_in and move_item up to the write.  The    *)
(* item to follow has to be there, the item to move need not any more.      *)
Refused(w) ==
    \/ editor[w].after \notin Live \cup {NoItem}
    \/ editor[w].does = "create" /\ Cardinality(Live) >= MaxItems

ChooseRank(w) ==
    /\ editor[w].does \in {"create", "move"} /\ MayLockList
    /\ LET e == editor[w]
           to == IF e.does = "create" /\ e.after = NoItem THEN AfterTheLast
                 ELSE Between(e.item, e.after)
       IN  /\ Edits(w, IF Refused(w) THEN NoEdit
                       ELSE [e EXCEPT !.does = "write", !.to = to])
           /\ strayed' = IF ~Refused(w) /\ e.item \in removed
                         THEN strayed \cup {e.item} ELSE strayed
    /\ UNCHANGED <<rank, removed, shown, listWrites>>

(* insert_item_in or move_item_in, list.item_upserted and the commit. *)
WriteRank(w) ==
    /\ editor[w].does = "write"
    /\ rank' = [rank EXCEPT ![editor[w].item] = editor[w].to]
    /\ shown' = shown \cup {editor[w].item}
    /\ Edits(w, NoEdit)
    /\ UNCHANGED <<removed, listWrites, strayed>>

(* The transaction is rolled back. *)
EditFails(w) ==
    /\ editor[w].does = "write" /\ Edits(w, NoEdit)
    /\ UNCHANGED <<rank, removed, shown, listWrites, strayed>>

(* share_lock_in waits for whoever writes a rank. *)
MayShareList == MayLockList

(* delete_item_in: once; the second one is told that the item is not there. *)
DeleteItem(w) ==
    /\ editor[w].does = "delete" /\ MayShareList
    /\ removed' = removed \cup {editor[w].item}
    /\ shown' = IF editor[w].item \in removed THEN shown ELSE shown \ {editor[w].item}
    /\ Edits(w, NoEdit)
    /\ UNCHANGED <<rank, listWrites, strayed>>

ListNext ==
    \E w \in Editor :
        \/ ChooseRank(w) \/ WriteRank(w) \/ EditFails(w) \/ DeleteItem(w)
        \/ \E i \in Item :
               \/ BeginDelete(w, i)
               \/ \E after \in Item \cup {NoItem} :
                      BeginCreate(w, i, after) \/ BeginMove(w, i, after)

-----------------------------------------------------------------------------
(* Properties. *)

(* No two items of a list have one rank, and none ends in the lowest digit: *)
(* there is a rank between any two, and below the first (midpoint), however *)
(* often the same gap is halved.                                            *)
RanksAreSound ==
    /\ \A i, j \in Live : rank[i] = rank[j] => i = j
    /\ \A i \in Live : rank[i][Len(rank[i])] # 0

(* What shall come before the item: the one it was dropped on and those     *)
(* before that one; of a new item that was not dropped on any, all.         *)
StaysBefore(j, e) ==
    IF e.after = NoItem THEN rank[e.item] = <<>>
    ELSE j = e.after \/ Less(rank[j], rank[e.after])

Lands(e, to) ==
    \A j \in Live \ {e.item} :
        IF StaysBefore(j, e) THEN Less(rank[j], to) ELSE Less(to, rank[j])

(* Writing one rank puts the item exactly where it was asked to go, and     *)
(* moves no other: the ranks order the items as a plain list would, though  *)
(* the neighbours were read in an earlier step.                             *)
PlacedWhereAsked ==
    [][\A w \in Editor : LET e == editor[w] IN
           e.does = "write" /\ rank' # rank =>
               /\ e.after \in Live \cup {NoItem} /\ Lands(e, rank'[e.item])
               /\ \A j \in Item \ {e.item} : rank'[j] = rank[j]]_listVars

(* A client that has had every event in order shows the items that are      *)
(* there.  The exception is an item that was deleted between the moment its *)
(* move found it and the moment the move got the lock: move_item_in does    *)
(* not look at deleted_at, and its list.item_upserted puts the item back.   *)
ShownIsThereUnlessStrayed == strayed = {} => shown = Live

(* The ranks of a list order its items without ties, and what is shared    *)
(* with a list or shown in it is there.                                    *)
ListSafety == ListTypeOK /\ RanksAreSound /\ ShownIsThereUnlessStrayed
=============================================================================
