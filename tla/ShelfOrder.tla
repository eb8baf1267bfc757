----------------------------- MODULE ShelfOrder -----------------------------
(***************************************************************************)
(* The order of a store's goods and of its categories (GoodsService,       *)
(* CategoryService): what is created goes last, switchRank exchanges two   *)
(* neighbours, switchCategory takes a category elsewhere.                  *)
(*                                                                         *)
(* Goods are one list; the categories of one parent are a list, those      *)
(* without a parent are the list "0".  Names are the items themselves.     *)
(***************************************************************************)
EXTENDS Integers, FiniteSets, FiniteSetsExt

CONSTANTS
    Goods, Categories,
    Merchants,   \* handlers in flight
    MaxCalls     \* bound: handlers ever started

Items == Goods \cup Categories
Lists == {"goods", "0"} \cup Categories

VARIABLES
    row,         \* store_goods and category_goods by name: list, rank, status
    step, held,  \* where each handler is, and what it carries
    calls,       \* handlers started so far
    tied         \* history: lists that a call has put two equal ranks into

shelfVars == <<row, step, held, calls, tied>>

NoRow  == [list |-> "none", rank |-> 0, active |-> FALSE]
NoWork == [item |-> "none", other |-> "none", list |-> "none", rank |-> 0, mine |-> 0, met |-> FALSE]

There      == {i \in Items : row[i] # NoRow}
In(l)      == {i \in There : row[i].list = l}
Ranks(is)  == {row[i].rank : i \in is}

ShelfInit ==
    /\ row = [i \in Items |-> NoRow]
    /\ step = [m \in Merchants |-> "idle"]
    /\ held = [m \in Merchants |-> NoWork]
    /\ calls = 0
    /\ tied = {}

Put(m, to, k) ==
    /\ step' = [step EXCEPT ![m] = to]
    /\ held' = [held EXCEPT ![m] = k]

Starts(m) ==
    /\ step[m] = "idle"
    /\ calls < MaxCalls
    /\ calls' = calls + 1

(* The handler is done; those that read one of the lists ls are overtaken. *)
Done(m, ls) ==
    /\ step' = [step EXCEPT ![m] = "idle"]
    /\ held' = [b \in Merchants |-> IF b = m THEN NoWork
                                    ELSE [held[b] EXCEPT !.met = (@ \/ held[b].list \in ls)]]

(* Mutant of After: as the last one.                                       *)
AfterSame(is) == IF is = {} THEN 0 ELSE Max(Ranks(is))

After(is) == IF is = {} THEN 0 ELSE Max(Ranks(is)) + 1

(***************************************************************************)
(* GoodsService.create, remove; the same name and category gets another    *)
(* version and no row.                                                     *)
(***************************************************************************)
CreateGoods(m, g) ==
    /\ Starts(m)
    /\ g \notin There
    /\ Put(m, "create", [NoWork EXCEPT !.item = g, !.list = "goods", !.rank = After(In("goods"))])
    /\ UNCHANGED <<row, tied>>

RemoveGoods(g) ==
    /\ g \in There
    /\ row' = [row EXCEPT ![g] = NoRow]
    /\ UNCHANGED <<step, held, calls, tied>>

(***************************************************************************)
(* CategoryService.create: a category that was removed comes back as it    *)
(* was.  Without a parent the last of all categories is looked up, as the  *)
(* query's pid is undefined.                                               *)
(***************************************************************************)
CreateCategory(m, c, p) ==
    LET last == IF p = "0" THEN Categories \cap There ELSE In(p)
    IN  /\ Starts(m)
        /\ c \notin There
        /\ Put(m, "create", [NoWork EXCEPT !.item = c, !.list = p, !.rank = After(last)])
        /\ UNCHANGED <<row, tied>>

Reactive(c) ==
    /\ c \in There
    /\ ~row[c].active
    /\ row' = [row EXCEPT ![c].active = TRUE]
    /\ UNCHANGED <<step, held, calls, tied>>

RemoveCategory(c) ==
    /\ c \in There
    /\ row[c].active
    /\ row' = [row EXCEPT ![c].active = FALSE]
    /\ UNCHANGED <<step, held, calls, tied>>

(* Names are unique: of two that create one the later throws.              *)
Insert(m) ==
    LET k == held[m]
    IN  /\ step[m] = "create"
        /\ IF k.item \in There THEN UNCHANGED <<row, tied>>
           ELSE /\ row' = [row EXCEPT ![k.item] = [list |-> k.list, rank |-> k.rank, active |-> TRUE]]
                /\ tied' = IF k.met THEN tied \cup {k.list} ELSE tied
        /\ Done(m, {k.list})
        /\ UNCHANGED calls

(***************************************************************************)
(* switchCategory: to the end of another parent's list, or to the top with *)
(* the rank it has.  A category may go below itself.                       *)
(***************************************************************************)
SwitchCategory(m, c, p) ==
    /\ Starts(m)
    /\ {c, p} \subseteq There
    /\ Put(m, "move", [NoWork EXCEPT !.item = c, !.list = p, !.rank = After(In(p))])
    /\ UNCHANGED <<row, tied>>

Move(m) ==
    LET k == held[m]
    IN  /\ step[m] = "move"
        /\ row' = [row EXCEPT ![k.item].list = k.list, ![k.item].rank = k.rank]
        /\ tied' = IF k.met THEN tied \cup {k.list} ELSE tied
        /\ Done(m, {k.list, row[k.item].list})
        /\ UNCHANGED calls

ToTop(m, c) ==
    /\ Starts(m)
    /\ c \in There
    /\ row' = [row EXCEPT ![c].list = "0"]
    /\ tied' = IF row[c].list = "0" THEN tied ELSE tied \cup {"0"}
    /\ Done(m, {"0", row[c].list})

(***************************************************************************)
(* switchRank of both: the list is read and sorted, then two rows are      *)
(* updated in one transaction with the ranks that were read.               *)
(***************************************************************************)
(* The one before i or after it in the list; of equals, any.               *)
Neighbours(i, up) ==
    LET beyond == {j \in In(row[i].list) \ {i} : IF up THEN row[j].rank <= row[i].rank ELSE row[j].rank >= row[i].rank}
    IN  {j \in beyond : \A x \in beyond : IF up THEN row[x].rank <= row[j].rank ELSE row[x].rank >= row[j].rank}

SwitchStart(m, i) ==
    /\ Starts(m)
    /\ i \in There
    /\ \E up \in BOOLEAN : \E j \in Neighbours(i, up) :
          Put(m, "switch", [NoWork EXCEPT !.item = i, !.other = j, !.list = row[i].list,
                                          !.mine = row[i].rank, !.rank = row[j].rank])
    /\ UNCHANGED <<row, tied>>

(* Goods that are gone by now undo the transaction.                        *)
Switch(m) ==
    LET k == held[m]
    IN  /\ step[m] = "switch"
        /\ IF {k.item, k.other} \subseteq There
           THEN /\ row' = [row EXCEPT ![k.item].rank = k.rank, ![k.other].rank = k.mine]
                /\ tied' = IF k.met THEN tied \cup {row[k.item].list, row[k.other].list} ELSE tied
           ELSE UNCHANGED <<row, tied>>
        /\ Done(m, {row[i].list : i \in {k.item, k.other} \cap There})
        /\ UNCHANGED calls

ShelfNext ==
    \/ \E g \in Goods : RemoveGoods(g)
    \/ \E c \in Categories : Reactive(c) \/ RemoveCategory(c)
    \/ \E m \in Merchants :
          \/ \E g \in Goods : CreateGoods(m, g)
          \/ \E c \in Categories, p \in {"0"} \cup (Categories \cap There) : CreateCategory(m, c, p)
          \/ Insert(m)
          \/ \E c, p \in Categories : SwitchCategory(m, c, p)
          \/ Move(m)
          \/ \E c \in Categories : ToTop(m, c)
          \/ \E i \in Items : SwitchStart(m, i)
          \/ Switch(m)

ShelfSpec == ShelfInit /\ [][ShelfNext]_shelfVars
-----------------------------------------------------------------------------
(* Rows and calls have their types.                                        *)
ShelfTypeOK ==
    /\ \A i \in There : row[i].list \in Lists /\ row[i].rank \in Nat
    /\ \A g \in Goods \cap There : row[g].list = "goods"
    /\ \A m \in Merchants : step[m] = "idle" <=> held[m] = NoWork
    /\ tied \subseteq Lists

(* No two items of a list have one rank (switchRank could not tell them    *)
(* apart), except in a list that was written by a call which another had   *)
(* overtaken, and at the top once a category was lifted there.             *)
RanksDistinct ==
    \A l \in Lists \ tied : \A i, j \in In(l) : row[i].rank = row[j].rank => i = j

(* In every step: a switch in such a list exchanges two neighbours and     *)
(* leaves every other pair as it was.                                      *)
NeighboursSwitch ==
    \A m \in Merchants, l \in Lists :
       step[m] = "switch" /\ step'[m] = "idle" /\ ~held[m].met /\ held[m].list = l /\ l \notin tied =>
           Cardinality({p \in In(l) \X In(l) : row[p[1]].rank < row[p[2]].rank
                                               /\ row'[p[1]].rank > row'[p[2]].rank}) <= 1
=============================================================================
