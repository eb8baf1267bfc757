--------------------------- MODULE PublisherMedia ---------------------------
(***************************************************************************)
(* Images of articles: upload under a quota, attachment, saving, release   *)
(* and the collectors (PublisherMediaService, FileService, PublisherCron). *)
(*                                                                         *)
(* One author.  A file is known by the hash of its content.  The images an *)
(* article holds are rows of their own, rewritten on every save.  Nothing  *)
(* here is a transaction, every await is a step.                           *)
(***************************************************************************)
EXTENDS Integers, FiniteSets, SequencesExt

CONSTANTS
    Hashes,
    Articles,
    NoArticle,
    Editors,      \* handlers and collectors in flight
    Quota,        \* images, all of one size
    MaxImages,    \* PUBLISHER_MAX_IMAGES_PER_ARTICLE
    OrphanPage,   \* `take` of cleanupOrphanUploads, 200
    JobPage       \* `take` of cleanupPublishedAssets, 80

ASSUME MediaAssumption == Quota \in Nat

VARIABLES
    file,       \* file rows: "none", "shop" (nobody's), or the author's: "new", "old"
    assets,     \* content_article_asset: the images each article holds
    alive,      \* content_article
    running,    \* articles with a job running or scheduled
    finished,   \* articles with a job finished past its grace, in that order
    stage, work, \* where each handler is, and what it carries
    overlapped, \* history: images attached while a collector held them
    raced       \* history: an upload passed the quota while another had

mediaVars == <<file, assets, alive, running, finished, stage, work, overlapped, raced>>

NoWork == [op |-> "none", article |-> NoArticle, hashes |-> {}, dropped |-> {}, left |-> {}]
Mine   == {h \in Hashes : file[h] \in {"new", "old"}}
Used   == UNION {assets[a] : a \in Articles}

MediaInit ==
    /\ file = [h \in Hashes |-> "shop"]
    /\ assets = [a \in Articles |-> {}]
    /\ alive = Articles
    /\ running = {}
    /\ finished = <<>>
    /\ stage = [e \in Editors |-> "idle"]
    /\ work = [e \in Editors |-> NoWork]
    /\ overlapped = {}
    /\ raced = FALSE

Put(e, to, k) ==
    /\ stage' = [stage EXCEPT ![e] = to]
    /\ work' = [work EXCEPT ![e] = k]

Go(e, to) == Put(e, to, work[e])
Quit(e)   == Put(e, "idle", NoWork)

(* Rows for hs appear; a file that was deleted since it was looked up, or  *)
(* that a collector already chose, is about to be missed.                  *)
Attach(e, hs) ==
    /\ assets' = [assets EXCEPT ![work[e].article] = @ \cup hs]
    /\ overlapped' = overlapped \cup
          {h \in hs : \/ file[h] = "none"
                      \/ \E f \in Editors \ {e} : stage[f] = "collect" /\ h \in work[f].dropped}

(***************************************************************************)
(* uploadCover: an image it replaces is released, then the quota, the      *)
(* file, the attachment; for no article nothing is attached.               *)
(***************************************************************************)
UploadStart(e, a, h) ==
    /\ stage[e] = "idle"
    /\ a # NoArticle => a \in alive
    /\ LET k == [NoWork EXCEPT !.op = "upload", !.article = a, !.hashes = {h}]
       IN  \/ Put(e, "check", k)
           \/ \E old \in Mine : Put(e, "release", [k EXCEPT !.dropped = {old}])
    /\ UNCHANGED <<file, assets, alive, running, finished, overlapped, raced>>

(* releaseUrl                                                              *)
ReleaseUrl(e) ==
    /\ stage[e] = "release"
    /\ assets' = [a \in Articles |->
                     IF a = work[e].article THEN assets[a] \ work[e].dropped ELSE assets[a]]
    /\ Go(e, "gcread")
    /\ UNCHANGED <<file, alive, running, finished, overlapped, raced>>

(* Mutant of Fits: the image itself is not counted.                        *)
FitsBare == Cardinality(Mine) <= Quota

Fits == Cardinality(Mine) + 1 <= Quota

AssertCanUpload(e) ==
    /\ stage[e] = "check"
    /\ IF Fits THEN Go(e, "find") ELSE Quit(e)
    /\ raced' = (raced \/ (Fits /\ \E f \in Editors : stage[f] \in {"find", "store"}))
    /\ UNCHANGED <<file, assets, alive, running, finished, overlapped>>

Stored(e) == IF work[e].article = NoArticle THEN Quit(e) ELSE Go(e, "attach")

(* uploadFile: a known file is used again, nobody's file becomes the       *)
(* author's; its age stays.                                                *)
FindFile(e) ==
    LET h == CHOOSE x \in work[e].hashes : TRUE
    IN  /\ stage[e] = "find"
        /\ IF file[h] = "none" THEN Go(e, "store") /\ UNCHANGED file
           ELSE /\ Stored(e)
                /\ \/ file[h] # "shop" /\ UNCHANGED file
                   \/ /\ file[h] = "shop"
                      /\ \E age \in {"new", "old"} : file' = [file EXCEPT ![h] = age]
        /\ UNCHANGED <<assets, alive, running, finished, overlapped, raced>>

(* Storing may fail; hash is unique.                                       *)
StoreFile(e) ==
    LET h == CHOOSE x \in work[e].hashes : TRUE
    IN  /\ stage[e] = "store"
        /\ \/ Quit(e) /\ UNCHANGED file
           \/ /\ file[h] = "none"
              /\ file' = [file EXCEPT ![h] = "new"]
              /\ Stored(e)
        /\ UNCHANGED <<assets, alive, running, finished, overlapped, raced>>

AttachCheck(e) ==
    LET held == assets[work[e].article]
    IN  /\ stage[e] = "attach"
        /\ IF work[e].hashes \subseteq held \/ Cardinality(held) >= MaxImages
           THEN Quit(e) ELSE Go(e, "attachrow")
        /\ UNCHANGED <<file, assets, alive, running, finished, overlapped, raced>>

AttachAsset(e) ==
    /\ stage[e] = "attachrow"
    /\ Attach(e, work[e].hashes)
    /\ Quit(e)
    /\ UNCHANGED <<file, alive, running, finished, raced>>

(***************************************************************************)
(* syncArticleAssets, after creating or updating the article.              *)
(***************************************************************************)
Save(e, a, hs) ==
    /\ stage[e] = "idle"
    /\ a \in alive
    /\ Cardinality(hs) <= MaxImages
    /\ Put(e, "prev", [NoWork EXCEPT !.op = "save", !.article = a, !.hashes = hs])
    /\ UNCHANGED <<file, assets, alive, running, finished, overlapped, raced>>

SyncPrev(e) ==
    /\ stage[e] = "prev"
    /\ Put(e, "lookup", [work[e] EXCEPT !.dropped = assets[work[e].article]])
    /\ UNCHANGED <<file, assets, alive, running, finished, overlapped, raced>>

SyncFind(e) ==
    LET next == {h \in work[e].hashes : file[h] # "none"}
    IN  /\ stage[e] = "lookup"
        /\ Put(e, "clear", [work[e] EXCEPT !.hashes = next, !.dropped = @ \ next])
        /\ UNCHANGED <<file, assets, alive, running, finished, overlapped, raced>>

SyncClear(e) ==
    /\ stage[e] = "clear"
    /\ assets' = [assets EXCEPT ![work[e].article] = {}]
    /\ Go(e, "create")
    /\ UNCHANGED <<file, alive, running, finished, overlapped, raced>>

(* Row by row; (article, hash) is unique and a duplicate ends the save.    *)
SyncCreate(e) ==
    LET k == work[e]
        duplicate == k.hashes \cap assets[k.article] # {}
    IN  /\ stage[e] = "create"
        /\ IF duplicate
           THEN \E some \in SUBSET k.hashes : Attach(e, some) /\ Quit(e)
           ELSE Attach(e, k.hashes) /\ Go(e, "gcread")
        /\ UNCHANGED <<file, alive, running, finished, raced>>

(***************************************************************************)
(* releaseArticleAssets, for a deletion and for two of the collectors.     *)
(***************************************************************************)
DeleteStart(e, a) ==
    /\ stage[e] = "idle"
    /\ a \in alive
    /\ Put(e, "rows", [NoWork EXCEPT !.op = "delete", !.article = a])
    /\ UNCHANGED <<file, assets, alive, running, finished, overlapped, raced>>

ReleaseRead(e) ==
    /\ stage[e] = "rows"
    /\ Put(e, "unlink", [work[e] EXCEPT !.dropped = assets[work[e].article]])
    /\ UNCHANGED <<file, assets, alive, running, finished, overlapped, raced>>

ReleaseRows(e) ==
    /\ stage[e] = "unlink"
    /\ assets' = [assets EXCEPT ![work[e].article] = {}]
    /\ Go(e, "gcread")
    /\ UNCHANGED <<file, alive, running, finished, overlapped, raced>>

Unused(hs) == hs \ Used

(* gcUnusedHashes: the author's files only.                                *)
GcRead(e) ==
    /\ stage[e] = "gcread"
    /\ Put(e, "collect", [work[e] EXCEPT !.dropped = Unused(@) \cap Mine])
    /\ UNCHANGED <<file, assets, alive, running, finished, overlapped, raced>>

(* deleteByHashes, the store first and the rows after it; then on with     *)
(* whatever was released for.                                              *)
Collect(e) ==
    LET k == work[e]
    IN  /\ stage[e] = "collect"
        /\ file' = [h \in Hashes |-> IF h \in k.dropped THEN "none" ELSE file[h]]
        /\ CASE k.op = "upload"                -> Go(e, "check")
             [] k.op \in {"delete", "drafts"} -> Go(e, "remove")
             [] k.op = "published"            -> Go(e, "next")
             [] k.op \in {"save", "orphans"}  -> Quit(e)
        /\ UNCHANGED <<assets, alive, running, finished, overlapped, raced>>

RemoveArticle(e) ==
    LET k == work[e]
    IN  /\ stage[e] = "remove"
        /\ alive' = alive \ {k.article}
        /\ running' = running \ {k.article}
        /\ finished' = RemoveFirst(finished, k.article)
        /\ IF k.op = "drafts" THEN Go(e, "next") ELSE Quit(e)
        /\ UNCHANGED <<file, assets, overlapped, raced>>

(***************************************************************************)
(* The collectors of PublisherCron.  A page of orphans is in no order, one *)
(* of jobs is in the order in which they finished.                         *)
(***************************************************************************)
OrphanRead(e) ==
    LET Old == {h \in Hashes : file[h] = "old"}
    IN  /\ stage[e] = "idle"
        /\ \E page \in SUBSET Old :
              /\ page # {}
              /\ page = Old \/ Cardinality(page) = OrphanPage
              /\ Put(e, "referenced", [NoWork EXCEPT !.op = "orphans", !.dropped = page])
        /\ UNCHANGED <<file, assets, alive, running, finished, overlapped, raced>>

OrphanReferenced(e) ==
    /\ stage[e] = "referenced"
    /\ Put(e, "collect", [work[e] EXCEPT !.dropped = Unused(@)])
    /\ UNCHANGED <<file, assets, alive, running, finished, overlapped, raced>>

(* Which drafts were left alone for long is up to time.                    *)
DraftsRead(e) ==
    /\ stage[e] = "idle"
    /\ \E old \in SUBSET alive :
          /\ old # {}
          /\ Put(e, "next", [NoWork EXCEPT !.op = "drafts", !.left = old])
    /\ UNCHANGED <<file, assets, alive, running, finished, overlapped, raced>>

(* The jobs of the first page, whether or not their images are gone.       *)
DueJobs ==
    {finished[i] : i \in {n \in DOMAIN finished : n <= JobPage}}

PublishedRead(e) ==
    /\ stage[e] = "idle"
    /\ DueJobs # {}
    /\ Put(e, "next", [NoWork EXCEPT !.op = "published", !.left = DueJobs])
    /\ UNCHANGED <<file, assets, alive, running, finished, overlapped, raced>>

(* cleanupPublishedAssets passes over an article that is being published   *)
(* again, and one without images.                                          *)
NextArticle(e) ==
    LET k == work[e]
        Passed(a) == k.op = "published" /\ (a \in running \/ assets[a] = {})
    IN  /\ stage[e] = "next"
        /\ IF k.left = {} THEN Quit(e)
           ELSE \E a \in k.left :
                   Put(e, IF Passed(a) THEN "next" ELSE "rows",
                       [NoWork EXCEPT !.op = k.op, !.article = a, !.left = k.left \ {a}])
        /\ UNCHANGED <<file, assets, alive, running, finished, overlapped, raced>>

(***************************************************************************)
(* Time passes: files age, jobs run and end and their grace with them.     *)
(***************************************************************************)
FileAges(h) ==
    /\ file[h] = "new"
    /\ file' = [file EXCEPT ![h] = "old"]
    /\ UNCHANGED <<assets, alive, running, finished, stage, work, overlapped, raced>>

Publish(a) ==
    /\ a \in alive
    /\ running' = running \cup {a}
    /\ UNCHANGED <<file, assets, alive, finished, stage, work, overlapped, raced>>

(* One finished job of an article stands for all of them.                  *)
JobEnds(a) ==
    /\ a \in running
    /\ running' = running \ {a}
    /\ finished' = IF \E i \in DOMAIN finished : finished[i] = a THEN finished
                   ELSE Append(finished, a)
    /\ UNCHANGED <<file, assets, alive, stage, work, overlapped, raced>>

Resume(e) ==
    \/ ReleaseUrl(e) \/ AssertCanUpload(e) \/ FindFile(e) \/ StoreFile(e)
    \/ AttachCheck(e) \/ AttachAsset(e)
    \/ SyncPrev(e) \/ SyncFind(e) \/ SyncClear(e) \/ SyncCreate(e)
    \/ ReleaseRead(e) \/ ReleaseRows(e) \/ GcRead(e) \/ Collect(e) \/ RemoveArticle(e)
    \/ OrphanReferenced(e) \/ NextArticle(e)

Collector(e) == OrphanRead(e) \/ DraftsRead(e) \/ PublishedRead(e)

MediaNext ==
    \/ \E e \in Editors :
          \/ Resume(e) \/ Collector(e)
          \/ \E a \in Articles \cup {NoArticle} : \E h \in Hashes : UploadStart(e, a, h)
          \/ \E a \in Articles :
                \/ \E hs \in SUBSET Hashes : Save(e, a, hs)
                \/ DeleteStart(e, a)
    \/ \E h \in Hashes : FileAges(h)
    \/ \E a \in Articles : Publish(a) \/ JobEnds(a)

(* The timers fire for ever, whoever else is at work (Editors bounds the    *)
(* model, not the server), and what was begun goes on.                     *)
MediaSpec ==
    /\ MediaInit /\ [][MediaNext]_mediaVars
    /\ \A e \in Editors : WF_mediaVars(Resume(e))
    /\ SF_mediaVars(\E e \in Editors : PublishedRead(e))
-----------------------------------------------------------------------------
(* Rows and what handlers carry have their types; an image upload carries  *)
(* its one image, a deleted article leaves no job behind.                  *)
MediaTypeOK ==
    /\ file \in [Hashes -> {"none", "shop", "new", "old"}]
    /\ assets \in [Articles -> SUBSET Hashes]
    /\ alive \subseteq Articles
    /\ running \subseteq alive
    /\ finished \in Seq(Articles)
    /\ overlapped \subseteq Hashes
    /\ \A i \in DOMAIN finished : finished[i] \in alive
    /\ \A e \in Editors :
          /\ work[e].hashes \cup work[e].dropped \subseteq Hashes
          /\ work[e].left \subseteq Articles
          /\ stage[e] \in {"find", "store", "attach"} => Cardinality(work[e].hashes) = 1

(* The quota is summed before a file is stored: it is passed only by       *)
(* uploads that were under way together.                                   *)
QuotaNearlyKept == Cardinality(Mine) > Quota => raced

(* An article misses an image only if the image was attached while a       *)
(* collector that had found it unused was still under way: of the five     *)
(* ways to delete a file none deletes one that was in use all along.       *)
LostOnlyByOverlap ==
    \A a \in Articles : \A h \in assets[a] : file[h] = "none" => h \in overlapped

(* cleanupPublishedAssets: '发布结束超过宽限期后释放图片：... 到期都清': the images of every   *)
(* article whose grace is over are released, unless it is published again. *)
ReleasedWhenDue ==
    \A a \in Articles :
        (\E i \in DOMAIN finished : finished[i] = a) ~> (assets[a] = {} \/ a \in running \/ a \notin alive)
=============================================================================
