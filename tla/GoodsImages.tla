----------------------------- MODULE GoodsImages -----------------------------
(***************************************************************************)
(* The images of one store's goods, the quota they are held to, and the    *)
(* applications that raise it (GoodsService, StoreResourceService and the  *)
(* used-quota cache of CacheService).                                      *)
(*                                                                         *)
(* An image is its hash and of size 1; an application asks for 1 more.     *)
(* Reads that are next to each other and whose rows only grow (the quota   *)
(* and the cache, the version and its file) are one step.                  *)
(***************************************************************************)
EXTENDS Integers, FiniteSets

CONSTANTS
    Images,
    Versions,      \* supply of store_goods_version rows
    Applications,  \* supply of store_resource_order rows
    Admins,        \* handlers in flight
    FreeQuota,     \* what a store opens with
    MaxCalls       \* bound: handlers ever started

Nothing == -1

VARIABLES
    total,       \* store_resource.total_quota
    application, \* by store_resource_order: "none", "waiting" or "granted"
    image,       \* by version: the set of its image; {Nothing}: no such version
    cache,       \* used_quota:<store>, or Nothing
    step, held,  \* where each handler is, and what it carries
    calls,       \* handlers started so far
    mixed,       \* history: of which kind two handlers were under way at once
    shared,      \* history: an image was replaced that another version shows
    dated,       \* history: a version was removed while its image was in the cached sum
    lost         \* history: applications granted by a call that went no further

imagesVars == <<total, application, image, cache, step, held, calls, mixed, shared, dated, lost>>

NoWork == [op |-> "none", app |-> Nothing, version |-> Nothing, image |-> Nothing,
           old |-> 0, read |-> 0, dated |-> FALSE, quota |-> 0]

Listed == {v \in Versions : image[v] # {Nothing}}
Shown  == UNION {image[v] : v \in Listed}
Used   == Cardinality(Shown)

ImagesInit ==
    /\ total = FreeQuota
    /\ application = [a \in Applications |-> "none"]
    /\ image = [v \in Versions |-> {Nothing}]
    /\ cache = Nothing
    /\ step = [c \in Admins |-> "idle"]
    /\ held = [c \in Admins |-> NoWork]
    /\ calls = 0
    /\ mixed = {} /\ shared = FALSE /\ dated = FALSE
    /\ lost = {}

Put(c, to, k) ==
    /\ step' = [step EXCEPT ![c] = to]
    /\ held' = [held EXCEPT ![c] = k]

Kind(op) == IF op = "approve" THEN "quota" ELSE "images"

Busy(kind) == \E b \in Admins : step[b] # "idle" /\ Kind(held[b].op) = kind

Met(kind) == mixed' = IF Busy(kind) THEN mixed \cup {kind} ELSE mixed

Starts(c, op) ==
    /\ step[c] = "idle"
    /\ calls < MaxCalls
    /\ calls' = calls + 1
    /\ Met(Kind(op))

Quit(c) == Put(c, "idle", NoWork)

(***************************************************************************)
(* createQuotaOrder; approveOrder: check, mark, read the quota, add to it  *)
(***************************************************************************)
Apply(a) ==
    /\ application[a] = "none"
    /\ application' = [application EXCEPT ![a] = "waiting"]
    /\ UNCHANGED <<total, image, cache, step, held, calls, mixed, shared, dated, lost>>

(* Mutant of Approvable: an application is granted again.                  *)
ApprovableAgain(a) == application[a] # "none"

Approvable(a) == application[a] = "waiting"

ApproveStart(c, a) ==
    /\ Starts(c, "approve")
    /\ Approvable(a)
    /\ Put(c, "mark", [NoWork EXCEPT !.op = "approve", !.app = a])
    /\ UNCHANGED <<total, application, image, cache, shared, dated, lost>>

Mark(c) ==
    /\ step[c] = "mark"
    /\ application' = [application EXCEPT ![held[c].app] = "granted"]
    /\ Put(c, "read quota", held[c])
    /\ UNCHANGED <<total, image, cache, calls, mixed, shared, dated, lost>>

ReadQuota(c) ==
    /\ step[c] = "read quota"
    /\ Put(c, "add", [held[c] EXCEPT !.quota = total])
    /\ UNCHANGED <<total, application, image, cache, calls, mixed, shared, dated, lost>>

AddQuota(c) ==
    /\ step[c] = "add"
    /\ total' = held[c].quota + 1
    /\ Quit(c)
    /\ UNCHANGED <<application, image, cache, calls, mixed, shared, dated, lost>>

(***************************************************************************)
(* create, upsertGoodsVersion with a file: a new version, or the image of  *)
(* one that is there, whose size the check gives back.                     *)
(***************************************************************************)
UploadStart(c, v, h) ==
    /\ Starts(c, "upload")
    /\ v \in Listed \cup {Nothing}
    /\ Put(c, "quota", [NoWork EXCEPT !.op = "upload", !.version = v, !.image = h,
                                      !.old = IF v \in Listed THEN Cardinality(image[v]) ELSE 0])
    /\ UNCHANGED <<total, application, image, cache, shared, dated, lost>>

(* checkResourceQuota, getUsedQuota: the quota, and the cached sum or one  *)
(* of the store's distinct hashes that is cached then.                     *)
QuotaRead(c) ==
    /\ step[c] = "quota"
    /\ IF cache = Nothing
       THEN Put(c, "compute", [held[c] EXCEPT !.quota = total])
       ELSE Put(c, "check", [held[c] EXCEPT !.quota = total, !.read = cache, !.dated = dated])
    /\ UNCHANGED <<total, application, image, cache, calls, mixed, shared, dated, lost>>

CalculateUsedQuota(c) ==
    /\ step[c] = "compute"
    /\ Put(c, "fill", [held[c] EXCEPT !.read = Used])
    /\ UNCHANGED <<total, application, image, cache, calls, mixed, shared, dated, lost>>

SetUsedQuota(c) ==
    /\ step[c] = "fill"
    /\ cache' = held[c].read
    /\ dated' = FALSE
    /\ Put(c, "check", held[c])
    /\ UNCHANGED <<total, application, image, calls, mixed, shared, lost>>

(* Mutants of Needed: the new image, or the old one, is not reckoned.      *)
NeededBefore(k) == k.read - k.old
NeededBoth(k)   == k.read + 1

Needed(k) == k.read - k.old + 1

Refuse(c) ==
    /\ step[c] = "check"
    /\ Needed(held[c]) > held[c].quota
    /\ Quit(c)
    /\ UNCHANGED <<total, application, image, cache, calls, mixed, shared, dated, lost>>

Cleared(x) == Nothing

(* The cached sum is dropped before the version has its image.             *)
Pass(c) ==
    /\ step[c] = "check"
    /\ Needed(held[c]) <= held[c].quota
    /\ cache' = Cleared(cache)
    /\ dated' = FALSE
    /\ Put(c, "write", held[c])
    /\ UNCHANGED <<total, application, image, calls, mixed, shared, lost>>

(* Once the file is stored.                                                *)
CreateVersion(c) ==
    /\ step[c] = "write"
    /\ held[c].version = Nothing
    /\ \E v \in Versions \ Listed : image' = [image EXCEPT ![v] = {held[c].image}]
    /\ Quit(c)
    /\ UNCHANGED <<total, application, cache, calls, mixed, shared, dated, lost>>

(* Only an update drops the cached sum once more.                          *)
UpdateVersion(c) ==
    LET v == held[c].version
    IN  /\ step[c] = "write"
        /\ v \in Listed
        /\ image' = [image EXCEPT ![v] = {held[c].image}]
        /\ shared' = (shared \/ \E w \in Listed \ {v} : image[v] \cap image[w] # {})
        /\ Put(c, "drop", held[c])
        /\ UNCHANGED <<total, application, cache, calls, mixed, dated, lost>>

(* The version was removed in between.                                     *)
UpdateFails(c) ==
    /\ step[c] = "write"
    /\ held[c].version \in Versions \ Listed
    /\ Quit(c)
    /\ UNCHANGED <<total, application, image, cache, calls, mixed, shared, dated, lost>>

(* upsertGoodsVersion with remove_image.                                   *)
RemoveImage(c, v) ==
    /\ Starts(c, "remove image")
    /\ v \in Listed
    /\ image' = [image EXCEPT ![v] = {}]
    /\ Put(c, "drop", [NoWork EXCEPT !.op = "remove image"])
    /\ dated' = (dated \/ cache # Nothing)
    /\ UNCHANGED <<total, application, cache, shared, lost>>

InvalidateUsedQuota(c) ==
    /\ step[c] = "drop"
    /\ cache' = Nothing
    /\ dated' = FALSE
    /\ Quit(c)
    /\ UNCHANGED <<total, application, image, calls, mixed, shared, lost>>

(* remove: the goods and their versions; the cached sum stays.             *)
Remove(v) ==
    /\ v \in Listed
    /\ image' = [image EXCEPT ![v] = {Nothing}]
    /\ dated' = (dated \/ cache # Nothing)
    /\ Met("images")
    /\ UNCHANGED <<total, application, cache, step, held, calls, shared, lost>>

CacheLapse ==
    /\ cache # Nothing
    /\ cache' = Nothing
    /\ dated' = FALSE
    /\ UNCHANGED <<total, application, image, step, held, calls, mixed, shared, lost>>

Restart ==
    /\ \E c \in Admins : step[c] # "idle"
    /\ lost' = lost \cup {held[c].app : c \in {b \in Admins : step[b] \in {"read quota", "add"}}}
    /\ step' = [c \in Admins |-> "idle"]
    /\ held' = [c \in Admins |-> NoWork]
    /\ UNCHANGED <<total, application, image, cache, calls, mixed, shared, dated>>

ImagesNext ==
    \/ \E a \in Applications : Apply(a)
    \/ \E v \in Versions : Remove(v)
    \/ \E c \in Admins :
          \/ \E a \in Applications : ApproveStart(c, a)
          \/ Mark(c) \/ ReadQuota(c) \/ AddQuota(c)
          \/ \E v \in Versions \cup {Nothing}, h \in Images : UploadStart(c, v, h)
          \/ QuotaRead(c) \/ CalculateUsedQuota(c) \/ SetUsedQuota(c)
          \/ Refuse(c) \/ Pass(c)
          \/ CreateVersion(c) \/ UpdateVersion(c) \/ UpdateFails(c)
          \/ \E v \in Versions : RemoveImage(c, v)
          \/ InvalidateUsedQuota(c)
    \/ CacheLapse
    \/ Restart

ImagesSpec == ImagesInit /\ [][ImagesNext]_imagesVars
-----------------------------------------------------------------------------
Granted == {a \in Applications : application[a] = "granted"}

(* Every application that was granted raised the quota once, or is being   *)
(* added, or its call was cut off after the mark; two calls at a time may  *)
(* lose or double one.                                                     *)
QuotaExplained ==
    \/ "quota" \in mixed
    \/ total = FreeQuota + Cardinality(Granted \ lost)
               - Cardinality({c \in Admins : step[c] \in {"read quota", "add"}})

(* The store's images fit its quota, as long as uploads come one at a time *)
(* and no image was given back that another version still shows.           *)
UsageKept == mixed # {} \/ shared \/ Used <= total

(* The cached sum never hides an image: one that was added has dropped it. *)
CacheCovers ==
    "images" \in mixed \/ cache = Nothing \/ Used <= cache

(* An upload is refused only if the quota it read would be exceeded, or    *)
(* the image is shown already, or the sum is from before a removal.        *)
RefusalsExplained ==
    \A c \in Admins :
        step[c] = "check" /\ Needed(held[c]) > held[c].quota =>
            \/ "images" \in mixed \/ held[c].dated
            \/ held[c].image \in Shown
            \/ Cardinality((UNION {image[v] : v \in Listed \ {held[c].version}}) \cup {held[c].image}) > held[c].quota
=============================================================================
