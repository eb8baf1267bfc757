-------------------------- MODULE ActivationCodes --------------------------
(***************************************************************************)
(* Platform quota: orders for activation codes, their confirmation by a    *)
(* duty admin, and the two uses of a code: opening a second store and      *)
(* raising a store's member limit (PlatformService, StoreService.create,   *)
(* MemberService.create).                                                  *)
(*                                                                         *)
(* Every handler reads through one or more awaits and then writes, so each *)
(* one is a read step and a commit step; a transaction is one step.  The   *)
(* phone a code is bound to stands for its user.                           *)
(***************************************************************************)
EXTENDS Integers, FiniteSets

CONSTANTS
    Users,
    Stores,        \* supply of store ids
    QuotaOrders,   \* supply of quota order ids
    Codes,         \* supply of code words
    Reqs,          \* in-flight requests
    None,
    Quotas,        \* the member quota amounts on sale
    FreeStores,    \* FREE_STORES_PER_USER
    FreeMembers,   \* FREE_MEMBERS_PER_STORE
    MaxMembers     \* bound: member rows of a store

ASSUME CodesAssumption ==
    /\ None \notin Users \cup Stores \cup QuotaOrders \cup Codes
    /\ Quotas \subseteq Nat \ {0}
    /\ FreeStores \in Nat \ {0}
    /\ FreeMembers \in Nat
    /\ MaxMembers \in Nat

VARIABLES
    owner,       \* store.user_id; None: no such store yet
    extra,       \* store.extra_member_limit
    active,      \* store_member rows of the store with status 1
    disabled,    \* store_member rows of the store with status 0
    quotaOrder,  \* platform_quota_order rows
    code,        \* platform_activation_code rows
    openedWith,  \* history: the code whose redemption opened the store
    pc,          \* where each request is
    claim        \* what it carries from its reads

members == <<active, disabled>>
rows    == <<owner, extra, members, quotaOrder, code, openedWith>>
vars    == <<owner, extra, active, disabled, quotaOrder, code, openedWith, pc, claim>>

Types == {"store", "member"}

QuotaOrderRow == [status : {"none", "pending", "confirmed", "cancelled"}, type : Types,
                  user : Users \cup {None}, store : Stores \cup {None}, quota : Nat]

NoQuotaOrder == [status |-> "none", type |-> "store", user |-> None, store |-> None, quota |-> 0]

CodeRow == [status : {"none", "unused", "used"}, type : Types, order : QuotaOrders \cup {None},
            user : Users \cup {None}, store : Stores \cup {None}, quota : Nat,
            usedBy : Stores \cup {None}]

NoCode == [status |-> "none", type |-> "store", order |-> None, user |-> None, store |-> None,
           quota |-> 0, usedBy |-> None]

Claim == [user : Users \cup {None}, store : Stores \cup {None}, code : Codes \cup {None},
          order : QuotaOrders \cup {None}, extra : Nat, quota : Nat, needsCode : BOOLEAN]

NoClaim == [user |-> None, store |-> None, code |-> None, order |-> None, extra |-> 0,
            quota |-> 0, needsCode |-> FALSE]

Steps == {"idle", "confirm", "cancel", "lookup", "redeem", "allowed", "open", "enrol"}

Init ==
    /\ owner = [s \in Stores |-> None]
    /\ extra = [s \in Stores |-> 0]
    /\ active = [s \in Stores |-> 0]
    /\ disabled = [s \in Stores |-> 0]
    /\ quotaOrder = [o \in QuotaOrders |-> NoQuotaOrder]
    /\ code = [c \in Codes |-> NoCode]
    /\ openedWith = [s \in Stores |-> None]
    /\ pc = [r \in Reqs |-> "idle"]
    /\ claim = [r \in Reqs |-> NoClaim]

Goto(r, step, k) ==
    /\ pc' = [pc EXCEPT ![r] = step]
    /\ claim' = [claim EXCEPT ![r] = k]

Answer(r) == Goto(r, "idle", NoClaim)

(***************************************************************************)
(* Ordering a code, and what the duty admins do with the order.            *)
(***************************************************************************)

(* getStoreQuotaCheck: a user's first store is free.                       *)
StoresOf(u)  == {s \in Stores : owner[s] = u}
NeedsCode(u) == Cardinality(StoresOf(u)) >= FreeStores

CreateQuotaOrder(o) ==
    /\ quotaOrder[o].status = "none"
    /\ \E u \in Users :
          \/ /\ NeedsCode(u)
             /\ quotaOrder' = [quotaOrder EXCEPT ![o] =
                   [status |-> "pending", type |-> "store", user |-> u, store |-> None,
                    quota |-> 0]]
          \/ \E s \in Stores, q \in Quotas :
                /\ owner[s] # None
                /\ quotaOrder' = [quotaOrder EXCEPT ![o] =
                      [status |-> "pending", type |-> "member", user |-> u, store |-> s,
                       quota |-> q]]
    /\ UNCHANGED <<owner, extra, members, code, openedWith, pc, claim>>

(* confirmOrder: the order is pending and has no code yet.  The look for a *)
(* code comes last, so a confirmation between the two reads is seen too.   *)
ConfirmRead(r) ==
    /\ pc[r] = "idle"
    /\ \E o \in QuotaOrders :
          /\ quotaOrder[o].status = "pending"
          /\ \A c \in Codes : code[c].order # o
          /\ Goto(r, "confirm", [NoClaim EXCEPT !.order = o])
    /\ UNCHANGED rows

(* The transaction does not look at the order or its codes again.          *)
ConfirmCommit(r) ==
    LET o == claim[r].order
    IN  /\ pc[r] = "confirm"
        /\ quotaOrder' = [quotaOrder EXCEPT ![o].status = "confirmed"]
        /\ \E c \in Codes :
              /\ code[c].status = "none"
              /\ code' = [code EXCEPT ![c] =
                    [status |-> "unused", type |-> quotaOrder[o].type, order |-> o,
                     user |-> quotaOrder[o].user, store |-> quotaOrder[o].store,
                     quota |-> quotaOrder[o].quota, usedBy |-> None]]
        /\ Answer(r)
        /\ UNCHANGED <<owner, extra, members, openedWith>>

CancelRead(r) ==
    /\ pc[r] = "idle"
    /\ \E o \in QuotaOrders :
          /\ quotaOrder[o].status = "pending"
          /\ Goto(r, "cancel", [NoClaim EXCEPT !.order = o])
    /\ UNCHANGED rows

CancelCommit(r) ==
    /\ pc[r] = "cancel"
    /\ quotaOrder' = [quotaOrder EXCEPT ![claim[r].order].status = "cancelled"]
    /\ Answer(r)
    /\ UNCHANGED <<owner, extra, members, code, openedWith>>

(***************************************************************************)
(* redeemMemberQuotaCode: the store row is read first, then the code row;  *)
(* the transaction writes the store's limit from what was read.            *)
(***************************************************************************)
RedeemStoreRead(r) ==
    /\ pc[r] = "idle"
    /\ \E u \in Users, c \in Codes, s \in Stores :
          /\ owner[s] # None
          /\ Goto(r, "lookup", [NoClaim EXCEPT !.user = u, !.code = c, !.store = s,
                                               !.extra = extra[s]])
    /\ UNCHANGED rows

(* Mutant of MemberCodeFits: the code's store is not compared.             *)
MemberCodeFitsAnyStore(c, u, s) ==
    /\ code[c].status = "unused"
    /\ code[c].type = "member"
    /\ code[c].user = u
    /\ code[c].quota > 0

MemberCodeFits(c, u, s) ==
    /\ code[c].status = "unused"
    /\ code[c].type = "member"
    /\ code[c].user = u
    /\ code[c].store \in {None, s}
    /\ code[c].quota > 0

RedeemCodeRead(r) ==
    LET k == claim[r]
    IN  /\ pc[r] = "lookup"
        /\ IF MemberCodeFits(k.code, k.user, k.store)
           THEN Goto(r, "redeem", [k EXCEPT !.quota = code[k.code].quota])
           ELSE Answer(r)
        /\ UNCHANGED rows

Spent(row, s) == [row EXCEPT !.status = "used", !.usedBy = s]

(* Mutant of RedeemCommit: { increment } on the limit, nothing else.       *)
RedeemCommitIncrement(r) ==
    LET k == claim[r]
    IN  /\ pc[r] = "redeem"
        /\ code' = [code EXCEPT ![k.code] = Spent(@, k.store)]
        /\ extra' = [extra EXCEPT ![k.store] = @ + k.quota]
        /\ Answer(r)
        /\ UNCHANGED <<owner, members, quotaOrder, openedWith>>

RedeemCommit(r) ==
    LET k == claim[r]
    IN  /\ pc[r] = "redeem"
        /\ code' = [code EXCEPT ![k.code] = Spent(@, k.store)]
        /\ extra' = [extra EXCEPT ![k.store] = k.extra + k.quota]
        /\ Answer(r)
        /\ UNCHANGED <<owner, members, quotaOrder, openedWith>>

(***************************************************************************)
(* StoreService.create: two checks of the store quota, then a transaction  *)
(* that redeems the code, after validating it again, only if the second    *)
(* check asked for one and the caller sent one.                            *)
(***************************************************************************)

(* Mutant of StoreCodeFits: a used code still opens a store.               *)
StoreCodeFitsUsed(c, u) == code[c].status # "none" /\ code[c].type = "store" /\ code[c].user = u

StoreCodeFits(c, u) == code[c].status = "unused" /\ code[c].type = "store" /\ code[c].user = u

OpenAllowed(r) ==
    /\ pc[r] = "idle"
    /\ \E u \in Users, c \in Codes \cup {None} :
          /\ NeedsCode(u) => c # None /\ StoreCodeFits(c, u)
          /\ Goto(r, "allowed", [NoClaim EXCEPT !.user = u, !.code = c])
    /\ UNCHANGED rows

OpenCheck(r) ==
    /\ pc[r] = "allowed"
    /\ Goto(r, "open", [claim[r] EXCEPT !.needsCode = NeedsCode(claim[r].user)])
    /\ UNCHANGED rows

Redeems(k) == k.needsCode /\ k.code # None

OpenCommit(r) ==
    LET k == claim[r]
    IN  /\ pc[r] = "open"
        /\ Redeems(k) => StoreCodeFits(k.code, k.user)
        /\ \E s \in Stores :
              /\ owner[s] = None
              /\ owner' = [owner EXCEPT ![s] = k.user]
              /\ IF Redeems(k)
                 THEN /\ code' = [code EXCEPT ![k.code] = Spent(@, s)]
                      /\ openedWith' = [openedWith EXCEPT ![s] = k.code]
                 ELSE UNCHANGED <<code, openedWith>>
        /\ Answer(r)
        /\ UNCHANGED <<extra, members, quotaOrder>>

(* The code was used in between, or the transaction fails otherwise.       *)
OpenFail(r) ==
    /\ pc[r] = "open"
    /\ Answer(r)
    /\ UNCHANGED rows

(***************************************************************************)
(* Members: create() checks the limit and then adds a row or revives one;  *)
(* update() may set the status without a check.                            *)
(***************************************************************************)
AtLimit(s) == active[s] >= FreeMembers + extra[s]

EnrolCheck(r) ==
    /\ pc[r] = "idle"
    /\ \E s \in Stores :
          /\ owner[s] # None
          /\ ~AtLimit(s)
          /\ Goto(r, "enrol", [NoClaim EXCEPT !.store = s])
    /\ UNCHANGED rows

Revive(s) ==
    /\ disabled[s] > 0
    /\ active' = [active EXCEPT ![s] = @ + 1]
    /\ disabled' = [disabled EXCEPT ![s] = @ - 1]

(* The last case: the row was revived meanwhile, or the phone was added.   *)
EnrolCommit(r) ==
    LET s == claim[r].store
    IN  /\ pc[r] = "enrol"
        /\ \/ Revive(s)
           \/ /\ active[s] + disabled[s] < MaxMembers
              /\ active' = [active EXCEPT ![s] = @ + 1]
              /\ UNCHANGED disabled
           \/ UNCHANGED members
        /\ Answer(r)
        /\ UNCHANGED <<owner, extra, quotaOrder, code, openedWith>>

DisableMember(s) ==
    /\ active[s] > 0
    /\ active' = [active EXCEPT ![s] = @ - 1]
    /\ disabled' = [disabled EXCEPT ![s] = @ + 1]
    /\ UNCHANGED <<owner, extra, quotaOrder, code, openedWith, pc, claim>>

EnableMember(s) ==
    /\ Revive(s)
    /\ UNCHANGED <<owner, extra, quotaOrder, code, openedWith, pc, claim>>

(* The process restarts; requests are gone.                                *)
Crash ==
    /\ pc # [r \in Reqs |-> "idle"]
    /\ pc' = [r \in Reqs |-> "idle"]
    /\ claim' = [r \in Reqs |-> NoClaim]
    /\ UNCHANGED rows

Handle(r) == \/ ConfirmRead(r) \/ ConfirmCommit(r) \/ CancelRead(r) \/ CancelCommit(r)
             \/ RedeemStoreRead(r) \/ RedeemCodeRead(r) \/ RedeemCommit(r)
             \/ OpenAllowed(r) \/ OpenCheck(r) \/ OpenCommit(r) \/ OpenFail(r)
             \/ EnrolCheck(r) \/ EnrolCommit(r)

Next == \/ \E r \in Reqs : Handle(r)
        \/ \E o \in QuotaOrders : CreateQuotaOrder(o)
        \/ \E s \in Stores : DisableMember(s) \/ EnableMember(s)
        \/ Crash

Spec == Init /\ [][Next]_vars

-----------------------------------------------------------------------------
(* A request that will write still carries the rows it is about.           *)
Carried ==
    \A r \in Reqs :
        /\ pc[r] \in {"confirm", "cancel"} => claim[r].order \in QuotaOrders
        /\ pc[r] \in {"lookup", "redeem"} => claim[r].code \in Codes /\ claim[r].store \in Stores
        /\ pc[r] = "enrol" => claim[r].store \in Stores
        /\ pc[r] \in {"allowed", "open"} => claim[r].user \in Users

(* Every row and every request-local value has the type of its column.     *)
TypeOK ==
    /\ owner \in [Stores -> Users \cup {None}]
    /\ extra \in [Stores -> Nat]
    /\ active \in [Stores -> Nat]
    /\ disabled \in [Stores -> Nat]
    /\ quotaOrder \in [QuotaOrders -> QuotaOrderRow]
    /\ code \in [Codes -> CodeRow]
    /\ openedWith \in [Stores -> Codes \cup {None}]
    /\ pc \in [Reqs -> Steps]
    /\ claim \in [Reqs -> Claim]
    /\ Carried

(* A store code opens one store and the row names that store: it is        *)
(* validated again inside the transaction that creates the store.          *)
StoreCodeOpensOne ==
    \A s \in Stores : openedWith[s] # None =>
        /\ code[openedWith[s]].status = "used"
        /\ code[openedWith[s]].type = "store"
        /\ code[openedWith[s]].user = owner[s]
        /\ code[openedWith[s]].usedBy = s

(* A store code opens one store, in rows that are all well typed.          *)
StoreCodesOpenOne == TypeOK /\ StoreCodeOpensOne

(* Once spent a code stays spent on the same store, even when a second     *)
(* request that validated it earlier spends it again.                      *)
SpentCodesStay ==
    [][\A c \in Codes : code[c].status = "used" => code'[c] = code[c]]_vars
=============================================================================
