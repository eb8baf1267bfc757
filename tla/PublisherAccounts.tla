------------------------- MODULE PublisherAccounts -------------------------
(***************************************************************************)
(* One user's ALQQ credentials and the platform accounts under each:       *)
(* adding, preferring and deleting credentials, filling in accounts,       *)
(* binding them and reading back what ALQQ has (PublisherService).         *)
(*                                                                         *)
(* Nothing here is a transaction, every await is a step.  Names, keys and  *)
(* their checks are one refusal.  An update of a deleted row throws.       *)
(***************************************************************************)
EXTENDS Integers, FiniteSets

CONSTANTS
    MaxCreds,   \* bound: credentials ever created, in that order
    Platforms,
    Callers     \* handlers in flight

Creds == 1..MaxCreds

VARIABLES
    cred,       \* user_alqq_credential: "none", "plain", "default", "gone"
    acc,        \* content_platform_account by credential ('' is 0) and platform
    known,      \* platforms ever logged in at ALQQ under each key, or adopted
    stage, work, \* where each handler is, and what it carries
    met         \* history: a change of the credentials met another handler

accountVars == <<cred, acc, known, stage, work, met>>

(* "split": bound with bind_status 'pending'.                              *)
Status == {"none", "unbound", "pending", "bound", "split"}
Bound  == {"bound", "split"}
NoRows == [p \in Platforms |-> "none"]
NoWork == [op |-> "none", cred |-> 0, first |-> FALSE, todo |-> {}, found |-> {},
           rows |-> NoRows]
Rows    == {c \in Creds : cred[c] \in {"plain", "default"}}
Changes == {"create", "prefer", "delete"}

AccountsInit ==
    /\ cred = [c \in Creds |-> "none"]
    /\ acc = [c \in 0..MaxCreds |-> [p \in Platforms |-> IF c = 0 THEN "bound" ELSE "none"]]
    /\ known = [c \in Creds |-> {}]
    /\ stage = [h \in Callers |-> "idle"]
    /\ work = [h \in Callers |-> NoWork]
    /\ met = FALSE

Put(h, to, k) ==
    /\ stage' = [stage EXCEPT ![h] = to]
    /\ work' = [work EXCEPT ![h] = k]

Go(h, to) == Put(h, to, work[h])
Quit(h)   == Put(h, "idle", NoWork)

Met(h, op) ==
    met \/ \E g \in Callers \ {h} : stage[g] # "idle" /\ {op, work[g].op} \cap Changes # {}

(* A call about platforms todo of credential c.                            *)
Start(h, op, to, c, todo) ==
    /\ stage[h] = "idle"
    /\ Put(h, to, [NoWork EXCEPT !.op = op, !.cred = c, !.todo = todo])
    /\ met' = Met(h, op)

(***************************************************************************)
(* createAlqqCredential                                                    *)
(***************************************************************************)
CreateStart(h) ==
    /\ stage[h] = "idle"
    /\ Put(h, "create", [NoWork EXCEPT !.op = "create", !.first = (Rows = {})])
    /\ met' = Met(h, "create")
    /\ UNCHANGED <<cred, acc, known>>

(* The first is the default, another one on request.                       *)
CreateRow(h) ==
    LET new == {c \in Creds : cred[c] = "none"}
    IN  /\ stage[h] = "create"
        /\ new # {}
        /\ \E isDefault \in {TRUE, work[h].first} :
              LET c == CHOOSE x \in new : \A y \in new : x <= y
              IN  /\ cred' = [cred EXCEPT ![c] = IF isDefault THEN "default" ELSE "plain"]
                  /\ Put(h, IF isDefault THEN "clear" ELSE "ensure",
                         [work[h] EXCEPT !.cred = c])
        /\ UNCHANGED <<acc, known, met>>

(* setDefaultAlqqRow: first no row is the default, then c is.              *)
Cleared(c) == [x \in Creds |-> IF cred[x] = "default" THEN "plain" ELSE cred[x]]

ClearDefault(h) ==
    /\ stage[h] = "clear"
    /\ cred' = Cleared(work[h].cred)
    /\ Go(h, "mark")
    /\ UNCHANGED <<acc, known, met>>

MarkDefault(h) ==
    LET k == work[h]
    IN  /\ stage[h] = "mark"
        /\ IF k.cred \notin Rows THEN Quit(h) /\ UNCHANGED cred
           ELSE /\ cred' = [cred EXCEPT ![k.cred] = "default"]
                /\ IF k.op # "create" THEN Quit(h)
                   ELSE Go(h, IF k.first THEN "adopt" ELSE "ensure")
        /\ UNCHANGED <<acc, known, met>>

(* Accounts from before there were credentials; one statement, refused     *)
(* where the credential has that platform already.                         *)
Adopt(h) ==
    LET c == work[h].cred
        old == {p \in Platforms : acc[0][p] # "none"}
    IN  /\ stage[h] = "adopt"
        /\ IF \E p \in old : acc[c][p] # "none"
           THEN Quit(h) /\ UNCHANGED <<acc, known>>
           ELSE /\ acc' = [acc EXCEPT ![0] = NoRows,
                              ![c] = [p \in Platforms |-> IF p \in old THEN acc[0][p] ELSE @[p]]]
                /\ known' = [known EXCEPT ![c] = @ \cup old]
                /\ Put(h, "ensure", [work[h] EXCEPT !.first = FALSE])
        /\ UNCHANGED <<cred, met>>

(***************************************************************************)
(* ensureAccounts: the enabled platforms without a row get one.            *)
(* Administrators change what is enabled at any time.                      *)
(***************************************************************************)
EnsureRead(h) ==
    LET c == work[h].cred
    IN  /\ stage[h] = "ensure"
        /\ \E enabled \in SUBSET Platforms :
              Put(h, "fill", [work[h] EXCEPT !.todo = {p \in enabled : acc[c][p] = "none"}])
        /\ UNCHANGED <<cred, acc, known, met>>

(* Of two handlers filling in one platform the later is refused.           *)
EnsureRow(h) ==
    LET k == work[h]
    IN  /\ stage[h] = "fill"
        /\ IF k.todo = {}
           THEN /\ IF k.op = "create" THEN Quit(h) ELSE Go(h, "session")
                /\ UNCHANGED acc
           ELSE \E p \in k.todo :
                   IF acc[k.cred][p] # "none" THEN Quit(h) /\ UNCHANGED acc
                   ELSE /\ acc' = [acc EXCEPT ![k.cred][p] = "unbound"]
                        /\ Put(h, "fill", [k EXCEPT !.todo = @ \ {p}])
        /\ UNCHANGED <<cred, known, met>>

(***************************************************************************)
(* setDefaultAlqqCredential, deleteAlqqCredential                          *)
(***************************************************************************)
Prefer(h, c) ==
    /\ c \in Rows
    /\ Start(h, "prefer", "clear", c, {})
    /\ UNCHANGED <<cred, acc, known>>

DeleteStart(h, c) ==
    /\ c \in Rows
    /\ stage[h] = "idle"
    /\ Put(h, "delete", [NoWork EXCEPT !.op = "delete", !.cred = c,
                                       !.first = (cred[c] = "default")])
    /\ met' = Met(h, "delete")
    /\ UNCHANGED <<cred, acc, known>>

DeleteRow(h) ==
    LET c == work[h].cred
    IN  /\ stage[h] = "delete"
        /\ IF c \notin Rows THEN Quit(h) /\ UNCHANGED cred
           ELSE Go(h, "deleteaccounts") /\ cred' = [cred EXCEPT ![c] = "gone"]
        /\ UNCHANGED <<acc, known, met>>

(* Mutant of Dropped: the accounts of every credential.                    *)
DroppedAll(c) == [x \in 0..MaxCreds |-> NoRows]

Dropped(c) == [acc EXCEPT ![c] = NoRows]

DeleteAccounts(h) ==
    /\ stage[h] = "deleteaccounts"
    /\ acc' = Dropped(work[h].cred)
    /\ IF work[h].first THEN Go(h, "promote") ELSE Quit(h)
    /\ UNCHANGED <<cred, known, met>>

Promote(h) ==
    /\ stage[h] = "promote"
    /\ IF Rows = {} THEN Quit(h)
       ELSE Put(h, "clear", [work[h] EXCEPT !.cred = CHOOSE x \in Rows : \A y \in Rows : x <= y])
    /\ UNCHANGED <<cred, acc, known, met>>

(***************************************************************************)
(* listAccounts and confirmBind end in syncFromAlqq.                       *)
(***************************************************************************)
List(h, c) ==
    /\ c \in Rows
    /\ Start(h, "list", "ensure", c, {})
    /\ UNCHANGED <<cred, acc, known>>

Confirm(h, c, p) ==
    /\ acc[c][p] # "none"
    /\ Start(h, "confirm", "session", c, {p})
    /\ UNCHANGED <<cred, acc, known>>

(* ALQQ may not answer, and lists what is still logged in; the rows are    *)
(* read after its answer.                                                  *)
SyncFetch(h) ==
    /\ stage[h] = "session"
    /\ \/ Quit(h)
       \/ /\ work[h].cred \in Rows
          /\ \E found \in SUBSET known[work[h].cred] :
                Put(h, "rows", [work[h] EXCEPT !.found = found])
    /\ UNCHANGED <<cred, acc, known, met>>

SyncRows(h) ==
    /\ stage[h] = "rows"
    /\ Put(h, "sync", [work[h] EXCEPT !.rows = acc[work[h].cred]])
    /\ UNCHANGED <<cred, acc, known, met>>

Synced(k, p) == IF p \in k.found THEN "bound" ELSE acc[k.cred][p]

(* One row after the other; those neither found nor pending are left.      *)
SyncRow(h) ==
    LET k == work[h]
        due == {p \in Platforms : k.rows[p] = "pending" \/ (k.rows[p] # "none" /\ p \in k.found)}
    IN  /\ stage[h] = "sync"
        /\ IF due = {}
           THEN /\ IF k.op = "confirm" THEN Put(h, "latest", [k EXCEPT !.rows = NoRows, !.found = {}])
                   ELSE Quit(h)
                /\ UNCHANGED acc
           ELSE \E p \in due :
                   IF acc[k.cred][p] = "none" THEN Quit(h) /\ UNCHANGED acc
                   ELSE /\ acc' = [acc EXCEPT ![k.cred][p] = Synced(k, p)]
                        /\ Put(h, "sync", [k EXCEPT !.rows[p] = "none"])
        /\ UNCHANGED <<cred, known, met>>

ConfirmRead(h) ==
    LET k == work[h]
    IN  /\ stage[h] = "latest"
        /\ IF \E p \in k.todo : acc[k.cred][p] \in {"none"} \cup Bound THEN Quit(h)
           ELSE Go(h, "again")
        /\ UNCHANGED <<cred, acc, known, met>>

(* The status alone is written back.                                       *)
ConfirmPending(h) ==
    LET k == work[h]
    IN  /\ stage[h] = "again"
        /\ acc' = [acc EXCEPT ![k.cred] = [p \in Platforms |->
                      IF p \notin k.todo \/ @[p] = "none" THEN @[p]
                      ELSE IF @[p] \in Bound THEN "split" ELSE "pending"]]
        /\ Quit(h)
        /\ UNCHANGED <<cred, known, met>>

(***************************************************************************)
(* startBind, unbindAccount: a check, then one write.                      *)
(***************************************************************************)
BindStart(h, c, p) ==
    /\ acc[c][p] # "none"
    /\ c \in Rows
    /\ Start(h, "bind", "write", c, {p})
    /\ UNCHANGED <<cred, acc, known>>

UnbindStart(h, c, p) ==
    /\ acc[c][p] # "none"
    /\ Start(h, "unbind", "write", c, {p})
    /\ UNCHANGED <<cred, acc, known>>

BindWrite(h) ==
    LET k == work[h]
        to == IF k.op = "bind" THEN "pending" ELSE "unbound"
    IN  /\ stage[h] = "write"
        /\ acc' = [acc EXCEPT ![k.cred] = [p \in Platforms |->
                      IF p \in k.todo /\ @[p] # "none" THEN to ELSE @[p]]]
        /\ Quit(h)
        /\ UNCHANGED <<cred, known, met>>

(* ALQQ (external): the user logs a platform in under a key.               *)
RemoteLogin(c, p) ==
    /\ c \in Rows
    /\ known' = [known EXCEPT ![c] = @ \cup {p}]
    /\ UNCHANGED <<cred, acc, stage, work, met>>

AccountsNext ==
    \/ \E h \in Callers :
          \/ CreateStart(h) \/ CreateRow(h)
          \/ ClearDefault(h) \/ MarkDefault(h) \/ Adopt(h)
          \/ EnsureRead(h) \/ EnsureRow(h)
          \/ DeleteRow(h) \/ DeleteAccounts(h) \/ Promote(h)
          \/ SyncFetch(h) \/ SyncRows(h) \/ SyncRow(h)
          \/ ConfirmRead(h) \/ ConfirmPending(h) \/ BindWrite(h)
          \/ \E c \in Creds :
                \/ Prefer(h, c) \/ DeleteStart(h, c) \/ List(h, c)
                \/ \E p \in Platforms :
                      Confirm(h, c, p) \/ BindStart(h, c, p) \/ UnbindStart(h, c, p)
    \/ \E c \in Creds, p \in Platforms : RemoteLogin(c, p)

AccountsSpec == AccountsInit /\ [][AccountsNext]_accountVars
-----------------------------------------------------------------------------
Quiet == \A h \in Callers : stage[h] = "idle"

(* Rows and what handlers carry have their types, and accounts of the time *)
(* before credentials are never bound or unbound one by one.               *)
AccountsTypeOK ==
    /\ cred \in [Creds -> {"none", "plain", "default", "gone"}]
    /\ acc \in [0..MaxCreds -> [Platforms -> Status]]
    /\ known \in [Creds -> SUBSET Platforms]
    /\ acc[0] \in [Platforms -> {"none", "bound"}]
    /\ \A h \in Callers : work[h].cred = 0 => stage[h] \in {"idle", "create"}

(* Calls that change credentials one at a time leave one default, or no    *)
(* credential at all, and no account without its credential.               *)
OneDefault ==
    ~met /\ Quiet =>
        /\ Rows # {} => Cardinality({c \in Creds : cred[c] = "default"}) = 1
        /\ \A c \in Creds : cred[c] = "gone" => acc[c] = NoRows

(* An account is bound only under a key that ALQQ had that platform for,   *)
(* whatever syncs, bindings and unbindings are under way together.         *)
BoundIsKnown ==
    \A c \in Creds, p \in Platforms : acc[c][p] \in Bound => p \in known[c]

(* An account goes only with its credential: not with its platform, and    *)
(* not with another credential ("已下线平台的历史账号行保留").                          *)
AccountsStay ==
    [][\A c \in Creds, p \in Platforms :
          acc[c][p] # "none" /\ acc'[c][p] = "none" => cred[c] = "gone"]_accountVars
=============================================================================
