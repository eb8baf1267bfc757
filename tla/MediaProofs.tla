----------------------------- MODULE MediaProofs -----------------------------
(***************************************************************************)
(* Theorems about an author's images and accounts, for any number of       *)
(* images, articles, credentials, platforms and handlers, and any quota.   *)
(***************************************************************************)
EXTENDS MCMedia, SumTheorems, SequenceTheorems, TLAPS

(* The two parts share no state: a step of one leaves the other alone.     *)
LEMMA AuthorParts ==
  ASSUME [AuthorNext]_<<part, mediaVars, accounts>>
  PROVE  /\ [MediaNext]_mediaVars
         /\ [Accounts!AccountsNext]_accounts
  BY DEF AuthorNext

(***************************************************************************)
(* Images.  A handler knows what it works for: only the upload of an image *)
(* looks for its file, and the stages of a save are those of a save.       *)
(***************************************************************************)
Uploading == {"release", "check", "find", "store", "attach", "attachrow"}

Stages == Uploading \cup {"idle", "prev", "lookup", "clear", "create", "rows", "unlink", "gcread",
                          "collect", "remove", "referenced", "next"}

WorkType ==
    [op : {"none", "upload", "save", "delete", "orphans", "drafts", "published"},
     article : Articles \cup {NoArticle}, hashes : SUBSET Hashes, dropped : SUBSET Hashes,
     left : SUBSET Articles]

WorkKnown(s, k) ==
    /\ s \in Uploading => k.op = "upload"
    /\ s \in {"prev", "lookup"} => k.op = "save"
    /\ s \in {"prev", "rows"} => k.article \in Articles
    /\ s = "next" => k.op \in {"drafts", "published"}
    /\ s # "idle" => k.op # "none"
    /\ k.op = "upload" => \E h \in Hashes : k.hashes = {h}

RowsTyped ==
    /\ file \in [Hashes -> {"none", "shop", "new", "old"}]
    /\ assets \in [Articles -> SUBSET Hashes]
    /\ overlapped \subseteq Hashes
    /\ raced \in BOOLEAN

(* An article with a job, running or finished, is there, and is once in    *)
(* the list of the finished.                                               *)
JobsTyped ==
    /\ alive \subseteq Articles
    /\ running \subseteq alive
    /\ finished \in Seq(Articles)
    /\ \A i \in DOMAIN finished : finished[i] \in alive
    /\ \A i, j \in DOMAIN finished : finished[i] = finished[j] => i = j

HandlersTyped ==
    /\ stage \in [Editors -> Stages]
    /\ work \in [Editors -> WorkType]
    /\ \A e \in Editors : WorkKnown(stage[e], work[e])

(* Uploads that have passed the quota and have not stored their file.      *)
Storing == {e \in Editors : stage[e] \in {"find", "store"}}

(* There is room for the one upload that has passed the quota, unless two  *)
(* of them did.                                                            *)
RoomKept ==
    /\ IsFiniteSet(Mine)
    /\ ~raced => /\ Cardinality(Mine) <= Quota
                 /\ \A e, f \in Storing : e = f
                 /\ Storing # {} => Cardinality(Mine) + 1 <= Quota

(* An image that a collector is about to delete is in no article, unless   *)
(* it was attached while the collector held it.                            *)
DroppedUnused ==
    \A a \in Articles : \A h \in assets[a] :
        (\E e \in Editors : stage[e] = "collect" /\ h \in work[e].dropped) => h \in overlapped

MediaInv ==
    /\ RowsTyped
    /\ JobsTyped
    /\ HandlersTyped
    /\ RoomKept
    /\ DroppedUnused
    /\ LostOnlyByOverlap

LEMMA NoWorkKnown ==
  /\ NoWork \in WorkType
  /\ WorkKnown("idle", NoWork)
  BY DEF NoWork, WorkType, WorkKnown, Uploading

LEMMA MediaStarts == MediaInit => MediaInv
  <1> SUFFICES ASSUME MediaInit PROVE MediaInv
    OBVIOUS
  <1>1. RowsTyped
    BY DEF MediaInit, RowsTyped
  <1>2. JobsTyped
    BY DEF MediaInit, JobsTyped
  <1>3. HandlersTyped
    BY NoWorkKnown DEF MediaInit, HandlersTyped, Stages
  <1>4. RoomKept
    <2>1. Mine = {} /\ Storing = {}
      BY DEF MediaInit, Mine, Storing
    <2>2. QED
      BY <2>1, FS_EmptySet, MediaAssumption DEF RoomKept
  <1>5. DroppedUnused /\ LostOnlyByOverlap
    BY DEF MediaInit, DroppedUnused, LostOnlyByOverlap
  <1>6. QED
    BY <1>1, <1>2, <1>3, <1>4, <1>5 DEF MediaInv

(* What a handler does next is known to it.                                *)
LEMMA PutKnown ==
  ASSUME HandlersTyped, NEW e \in Editors, NEW to \in Stages, NEW k \in WorkType, WorkKnown(to, k),
         Put(e, to, k)
  PROVE  HandlersTyped'
  BY DEF HandlersTyped, Put

LEMMA QuitKnown ==
  ASSUME HandlersTyped, NEW e \in Editors, Quit(e)
  PROVE  HandlersTyped'
  BY NoWorkKnown, PutKnown DEF Quit, Stages

LEMMA GoKnown ==
  ASSUME HandlersTyped, NEW e \in Editors, NEW to \in Stages, WorkKnown(to, work[e]), Go(e, to)
  PROVE  HandlersTyped'
  BY DEF HandlersTyped, Go, Put

LEMMA HandlersStep ==
  ASSUME MediaInv, [MediaNext]_mediaVars
  PROVE  HandlersTyped'
  <1> USE DEF MediaInv
  <1>1. ASSUME NEW e \in Editors, Resume(e) PROVE HandlersTyped'
    <2>1. PICK k \in WorkType : k = work[e]
      BY DEF HandlersTyped
    <2>2. WorkKnown(stage[e], k)
      BY <2>1 DEF HandlersTyped
    <2> DEFINE Keep(to) == WorkKnown(to, work[e])
    <2>3. CASE ReleaseUrl(e)
      BY <2>1, <2>2, <2>3, GoKnown DEF ReleaseUrl, WorkKnown, Stages, Uploading
    <2>4. CASE AssertCanUpload(e)
      BY <2>1, <2>2, <2>4, GoKnown, QuitKnown DEF AssertCanUpload, WorkKnown, Stages, Uploading
    <2>5. CASE FindFile(e)
      BY <2>1, <2>2, <2>5, GoKnown, QuitKnown DEF FindFile, Stored, WorkKnown, Stages, Uploading
    <2>6. CASE StoreFile(e)
      BY <2>1, <2>2, <2>6, GoKnown, QuitKnown DEF StoreFile, Stored, WorkKnown, Stages, Uploading
    <2>7. CASE AttachCheck(e)
      BY <2>1, <2>2, <2>7, GoKnown, QuitKnown DEF AttachCheck, WorkKnown, Stages, Uploading
    <2>8. CASE AttachAsset(e)
      BY <2>8, QuitKnown DEF AttachAsset
    <2>9. CASE SyncPrev(e)
      <3>1. PICK n : n = [k EXCEPT !.dropped = assets[k.article]]
        OBVIOUS
      <3>2. Put(e, "lookup", n)
        BY <2>1, <2>9, <3>1 DEF SyncPrev
      <3>3. k.article \in Articles /\ k.op = "save"
        BY <2>2, <2>9 DEF SyncPrev, WorkKnown
      <3>4. n \in WorkType /\ n.op = "save"
        BY <3>1, <3>3 DEF WorkType, RowsTyped
      <3>5. QED
        BY <3>2, <3>4, PutKnown DEF WorkKnown, Stages, Uploading
    <2>10. CASE SyncFind(e)
      <3>1. PICK next \in SUBSET k.hashes : Put(e, "clear", [k EXCEPT !.hashes = next, !.dropped = @ \ next])
        BY <2>1, <2>10 DEF SyncFind
      <3>2. PICK n : n = [k EXCEPT !.hashes = next, !.dropped = @ \ next]
        OBVIOUS
      <3>3. k.op = "save"
        BY <2>2, <2>10 DEF SyncFind, WorkKnown
      <3>4. n \in WorkType /\ n.op = "save"
        BY <3>1, <3>2, <3>3 DEF WorkType
      <3>5. QED
        BY <3>1, <3>2, <3>4, PutKnown DEF WorkKnown, Stages, Uploading
    <2>11. CASE SyncClear(e)
      BY <2>1, <2>2, <2>11, GoKnown DEF SyncClear, WorkKnown, Stages, Uploading
    <2>12. CASE SyncCreate(e)
      BY <2>1, <2>2, <2>12, GoKnown, QuitKnown DEF SyncCreate, WorkKnown, Stages, Uploading
    <2>13. CASE ReleaseRead(e)
      <3>1. PICK n : n = [k EXCEPT !.dropped = assets[k.article]]
        OBVIOUS
      <3>2. Put(e, "unlink", n)
        BY <2>1, <2>13, <3>1 DEF ReleaseRead
      <3>3. k.article \in Articles /\ k.op # "none"
        BY <2>2, <2>13 DEF ReleaseRead, WorkKnown
      <3>4. n \in WorkType /\ n.op = k.op /\ n.hashes = k.hashes
        BY <3>1, <3>3 DEF WorkType, RowsTyped
      <3>5. QED
        BY <2>2, <3>2, <3>3, <3>4, PutKnown DEF WorkKnown, Stages, Uploading
    <2>14. CASE ReleaseRows(e)
      BY <2>1, <2>2, <2>14, GoKnown DEF ReleaseRows, WorkKnown, Stages, Uploading
    <2>15. CASE GcRead(e)
      <3>1. PICK n : n = [k EXCEPT !.dropped = Unused(k.dropped) \cap Mine]
        OBVIOUS
      <3>2. Put(e, "collect", n)
        BY <2>1, <2>15, <3>1 DEF GcRead
      <3>3. k.op # "none"
        BY <2>2, <2>15 DEF GcRead, WorkKnown
      <3>4. n \in WorkType /\ n.op = k.op /\ n.hashes = k.hashes
        BY <3>1 DEF WorkType, Mine
      <3>5. QED
        BY <2>2, <3>2, <3>3, <3>4, PutKnown DEF WorkKnown, Stages, Uploading
    <2>16. CASE Collect(e)
      <3>1. k.op \in {"upload", "save", "delete", "orphans", "drafts", "published"}
        BY <2>2, <2>16 DEF Collect, WorkKnown, WorkType
      <3>2. \/ k.op = "upload" /\ Go(e, "check")
            \/ k.op \in {"delete", "drafts"} /\ Go(e, "remove")
            \/ k.op = "published" /\ Go(e, "next")
            \/ Quit(e)
        BY <2>1, <2>16, <3>1 DEF Collect
      <3>3. QED
        BY <2>1, <2>2, <3>2, GoKnown, QuitKnown DEF WorkKnown, Stages, Uploading
    <2>17. CASE RemoveArticle(e)
      BY <2>1, <2>2, <2>17, GoKnown, QuitKnown DEF RemoveArticle, WorkKnown, Stages, Uploading
    <2>18. CASE OrphanReferenced(e)
      <3>1. PICK n : n = [k EXCEPT !.dropped = Unused(k.dropped)]
        OBVIOUS
      <3>2. Put(e, "collect", n)
        BY <2>1, <2>18, <3>1 DEF OrphanReferenced
      <3>3. k.op # "none"
        BY <2>2, <2>18 DEF OrphanReferenced, WorkKnown
      <3>4. n \in WorkType /\ n.op = k.op /\ n.hashes = k.hashes
        BY <3>1 DEF WorkType, Unused
      <3>5. QED
        BY <2>2, <3>2, <3>3, <3>4, PutKnown DEF WorkKnown, Stages, Uploading
    <2>19. CASE NextArticle(e)
      <3>1. k.op \in {"drafts", "published"}
        BY <2>2, <2>19 DEF NextArticle, WorkKnown
      <3>2. ASSUME NEW a \in k.left, NEW to \in {"next", "rows"},
                   Put(e, to, [NoWork EXCEPT !.op = k.op, !.article = a, !.left = k.left \ {a}])
            PROVE  HandlersTyped'
        <4>1. PICK n : n = [NoWork EXCEPT !.op = k.op, !.article = a, !.left = k.left \ {a}]
          OBVIOUS
        <4>2. n \in WorkType /\ n.op = k.op /\ n.article \in Articles
          BY <4>1 DEF WorkType, NoWork
        <4>3. QED
          BY <3>1, <3>2, <4>1, <4>2, PutKnown DEF WorkKnown, Stages, Uploading
      <3>3. QED
        BY <2>1, <2>19, <3>2, QuitKnown DEF NextArticle
    <2>20. QED
      BY <1>1, <2>3, <2>4, <2>5, <2>6, <2>7, <2>8, <2>9, <2>10, <2>11, <2>12, <2>13, <2>14, <2>15, <2>16,
         <2>17, <2>18, <2>19 DEF Resume
  <1>2. ASSUME NEW e \in Editors, Collector(e) PROVE HandlersTyped'
    <2>1. CASE OrphanRead(e)
      <3>1. PICK page \in SUBSET Hashes : Put(e, "referenced", [NoWork EXCEPT !.op = "orphans", !.dropped = page])
        BY <2>1 DEF OrphanRead
      <3>2. PICK n : n = [NoWork EXCEPT !.op = "orphans", !.dropped = page]
        OBVIOUS
      <3>3. n \in WorkType /\ n.op = "orphans"
        BY <3>2 DEF WorkType, NoWork
      <3>4. QED
        BY <3>1, <3>2, <3>3, PutKnown DEF WorkKnown, Stages, Uploading
    <2>2. CASE DraftsRead(e)
      <3>1. PICK old \in SUBSET Articles : Put(e, "next", [NoWork EXCEPT !.op = "drafts", !.left = old])
        BY <2>2 DEF DraftsRead, JobsTyped
      <3>2. PICK n : n = [NoWork EXCEPT !.op = "drafts", !.left = old]
        OBVIOUS
      <3>3. n \in WorkType /\ n.op = "drafts"
        BY <3>2 DEF WorkType, NoWork
      <3>4. QED
        BY <3>1, <3>2, <3>3, PutKnown DEF WorkKnown, Stages, Uploading
    <2>3. CASE PublishedRead(e)
      <3>1. DueJobs \in SUBSET Articles
        BY DEF DueJobs, JobsTyped
      <3>2. PICK n : n = [NoWork EXCEPT !.op = "published", !.left = DueJobs]
        OBVIOUS
      <3>3. n \in WorkType /\ n.op = "published"
        BY <3>1, <3>2 DEF WorkType, NoWork
      <3>4. QED
        BY <2>3, <3>2, <3>3, PutKnown DEF PublishedRead, WorkKnown, Stages, Uploading
    <2>4. QED
      BY <1>2, <2>1, <2>2, <2>3 DEF Collector
  <1>3. ASSUME NEW e \in Editors, NEW a \in Articles \cup {NoArticle}, NEW h \in Hashes, UploadStart(e, a, h)
        PROVE  HandlersTyped'
    <2>1. PICK k : k = [NoWork EXCEPT !.op = "upload", !.article = a, !.hashes = {h}]
      OBVIOUS
    <2>2. k \in WorkType /\ k.op = "upload" /\ k.hashes = {h}
      BY <2>1 DEF WorkType, NoWork
    <2>3. CASE Put(e, "check", k)
      BY <2>2, <2>3, PutKnown DEF WorkKnown, Stages, Uploading
    <2>4. ASSUME NEW old \in Mine, Put(e, "release", [k EXCEPT !.dropped = {old}])
          PROVE  HandlersTyped'
      <3>1. PICK n : n = [k EXCEPT !.dropped = {old}]
        OBVIOUS
      <3>2. n \in WorkType /\ n.op = "upload" /\ n.hashes = {h}
        BY <2>2, <3>1 DEF WorkType, Mine
      <3>3. QED
        BY <2>4, <3>1, <3>2, PutKnown DEF WorkKnown, Stages, Uploading
    <2>5. QED
      BY <1>3, <2>1, <2>3, <2>4 DEF UploadStart
  <1>4. ASSUME NEW e \in Editors, NEW a \in Articles, NEW hs \in SUBSET Hashes, Save(e, a, hs)
        PROVE  HandlersTyped'
    <2>1. PICK k : k = [NoWork EXCEPT !.op = "save", !.article = a, !.hashes = hs]
      OBVIOUS
    <2>2. k \in WorkType /\ k.op = "save" /\ k.article \in Articles
      BY <2>1 DEF WorkType, NoWork
    <2>3. QED
      BY <1>4, <2>1, <2>2, PutKnown DEF Save, WorkKnown, Stages, Uploading
  <1>5. ASSUME NEW e \in Editors, NEW a \in Articles, DeleteStart(e, a)
        PROVE  HandlersTyped'
    <2>1. PICK k : k = [NoWork EXCEPT !.op = "delete", !.article = a]
      OBVIOUS
    <2>2. k \in WorkType /\ k.op = "delete" /\ k.article \in Articles
      BY <2>1 DEF WorkType, NoWork
    <2>3. QED
      BY <1>5, <2>1, <2>2, PutKnown DEF DeleteStart, WorkKnown, Stages, Uploading
  <1>6. ASSUME UNCHANGED <<stage, work>> PROVE HandlersTyped'
    BY <1>6 DEF HandlersTyped
  <1>7. QED
    BY <1>1, <1>2, <1>3, <1>4, <1>5, <1>6 DEF MediaNext, mediaVars, FileAges, Publish, JobEnds

(***************************************************************************)
(* The list of the finished: an article that is removed leaves it.         *)
(***************************************************************************)
LEMMA OneLess ==
  ASSUME NEW S, NEW s \in Seq(S), NEW i \in 1..Len(s)
  PROVE  /\ RemoveAt(s, i) \in Seq(S)
         /\ \A n \in DOMAIN RemoveAt(s, i) :
               \E m \in DOMAIN s : m # i /\ RemoveAt(s, i)[n] = s[m]
         /\ \A n, m \in DOMAIN RemoveAt(s, i) : RemoveAt(s, i)[n] = RemoveAt(s, i)[m] =>
               n = m \/ \E k, l \in DOMAIN s : k # l /\ s[k] = s[l]
  <1>1. PICK r : r = RemoveAt(s, i)
    OBVIOUS
  <1>2. PICK p, q : p = SubSeq(s, 1, i - 1) /\ q = SubSeq(s, i + 1, Len(s))
    OBVIOUS
  <1>3. /\ p \in Seq(S) /\ Len(p) = i - 1
        /\ \A n \in 1..i - 1 : p[n] = s[n]
    BY <1>2, SubSeqProperties
  <1>4. /\ q \in Seq(S) /\ Len(q) = Len(s) - i
        /\ \A n \in 1..Len(s) - i : q[n] = s[i + n]
    BY <1>2, SubSeqProperties
  <1>5. r = p \o q
    BY <1>1, <1>2 DEF RemoveAt
  <1>6. r \in Seq(S) /\ Len(r) = Len(s) - 1
    BY <1>3, <1>4, <1>5, ConcatProperties
  <1>7. \A n \in 1..Len(s) - 1 : r[n] = s[IF n < i THEN n ELSE n + 1]
    <2>1. TAKE n \in 1..Len(s) - 1
    <2>2. r[n] = IF n <= Len(p) THEN p[n] ELSE q[n - Len(p)]
      BY <1>3, <1>4, <1>5, ConcatProperties
    <2>3. CASE n < i
      BY <1>3, <2>2, <2>3
    <2>4. CASE ~(n < i)
      <3>1. r[n] = q[n - (i - 1)] /\ n - (i - 1) \in 1..Len(s) - i
        BY <1>3, <2>2, <2>4
      <3>2. QED
        BY <1>4, <2>4, <3>1
    <2>5. QED
      BY <2>3, <2>4
  <1>8. DOMAIN r = 1..Len(s) - 1 /\ DOMAIN s = 1..Len(s) /\ Len(s) \in Nat
    BY <1>6
  <1>9. \A n \in DOMAIN r : \E m \in DOMAIN s : m # i /\ m = (IF n < i THEN n ELSE n + 1) /\ r[n] = s[m]
    BY <1>7, <1>8
  <1>10. \A n, m \in DOMAIN r : r[n] = r[m] => n = m \/ \E k, l \in DOMAIN s : k # l /\ s[k] = s[l]
    BY <1>8, <1>9
  <1>11. QED
    BY <1>1, <1>6, <1>9, <1>10

LEMMA FirstRemoved ==
  ASSUME NEW S, NEW s \in Seq(S), NEW a
  PROVE  \/ RemoveFirst(s, a) = s /\ \A n \in DOMAIN s : s[n] # a
         \/ \E i \in DOMAIN s : s[i] = a /\ RemoveFirst(s, a) = RemoveAt(s, i)
  <1>1. CASE \E i \in 1..Len(s) : s[i] = a
    <2> DEFINE I == {i \in 1..Len(s) : s[i] = a}
    <2>1. I # {} /\ I \subseteq Nat
      BY <1>1
    <2>2. PICK n \in I : \A m \in I : n <= m
      BY <2>1, Least
    <2>3. Min(I) \in I
      BY <2>2 DEF Min
    <2>4. RemoveFirst(s, a) = RemoveAt(s, Min(I))
      BY <1>1, <2>1 DEF RemoveFirst, SelectInSeq
    <2> HIDE DEF I
    <2>5. PICK i \in I : i = Min(I)
      BY <2>3
    <2>6. i \in DOMAIN s /\ s[i] = a
      BY DEF I
    <2>7. RemoveFirst(s, a) = RemoveAt(s, i)
      BY <2>4, <2>5
    <2>8. QED
      BY <2>6, <2>7
  <1>2. CASE ~\E i \in 1..Len(s) : s[i] = a
    BY <1>2 DEF RemoveFirst
  <1>3. QED
    BY <1>1, <1>2

LEMMA JobsStep ==
  ASSUME MediaInv, [MediaNext]_mediaVars
  PROVE  JobsTyped'
  <1> USE DEF MediaInv
  <1>1. CASE UNCHANGED <<alive, running, finished>>
    BY <1>1 DEF JobsTyped
  <1>2. ASSUME NEW e \in Editors, RemoveArticle(e) PROVE JobsTyped'
    <2>1. PICK a : a = work[e].article
      OBVIOUS
    <2>2. /\ alive' = alive \ {a}
          /\ running' = running \ {a}
          /\ finished' = RemoveFirst(finished, a)
      BY <1>2, <2>1 DEF RemoveArticle
    <2>3. PICK s \in Seq(Articles) : s = finished
      BY DEF JobsTyped
    <2>4. /\ \A i \in DOMAIN s : s[i] \in alive
          /\ \A i, j \in DOMAIN s : s[i] = s[j] => i = j
      BY <2>3 DEF JobsTyped
    <2>5. CASE finished' = s /\ \A n \in DOMAIN s : s[n] # a
      BY <2>2, <2>4, <2>5 DEF JobsTyped
    <2>6. ASSUME NEW i \in DOMAIN s, s[i] = a, finished' = RemoveAt(s, i)
          PROVE  JobsTyped'
      <3>1. PICK r : r = RemoveAt(s, i)
        OBVIOUS
      <3>2. /\ r \in Seq(Articles)
            /\ \A n \in DOMAIN r : \E m \in DOMAIN s : m # i /\ r[n] = s[m]
            /\ \A n, m \in DOMAIN r : r[n] = r[m] => n = m
        BY <2>4, <3>1, OneLess
      <3>3. \A n \in DOMAIN r : r[n] \in alive \ {a}
        BY <2>4, <2>6, <3>2
      <3>4. QED
        BY <2>2, <2>6, <3>1, <3>2, <3>3 DEF JobsTyped
    <2>7. QED
      BY <2>2, <2>3, <2>5, <2>6, FirstRemoved
  <1>3. ASSUME NEW a \in Articles, Publish(a) PROVE JobsTyped'
    BY <1>3 DEF Publish, JobsTyped
  <1>4. ASSUME NEW a \in Articles, JobEnds(a) PROVE JobsTyped'
    <2>1. CASE finished' = finished
      BY <1>4, <2>1 DEF JobEnds, JobsTyped
    <2>2. CASE /\ ~\E i \in DOMAIN finished : finished[i] = a
               /\ finished' = Append(finished, a)
      <3>1. a \in alive /\ alive' = alive /\ running' = running \ {a}
        BY <1>4 DEF JobEnds, JobsTyped
      <3>2. PICK s \in Seq(Articles) : s = finished
        BY DEF JobsTyped
      <3>3. PICK r : r = Append(s, a)
        OBVIOUS
      <3>4. /\ r \in Seq(Articles)
            /\ DOMAIN r = 1..Len(s) + 1 /\ DOMAIN s = 1..Len(s) /\ Len(s) \in Nat
            /\ r[Len(s) + 1] = a
            /\ \A i \in DOMAIN s : r[i] = s[i]
        BY <3>3
      <3>5. \A i \in DOMAIN r : i = Len(s) + 1 \/ i \in DOMAIN s
        BY <3>4
      <3>6. /\ \A i \in DOMAIN r : r[i] \in alive
            /\ \A i, j \in DOMAIN r : r[i] = r[j] => i = j
        BY <2>2, <3>1, <3>2, <3>4, <3>5 DEF JobsTyped
      <3>7. QED
        BY <2>2, <3>1, <3>2, <3>3, <3>4, <3>6 DEF JobsTyped
    <2>3. QED
      BY <1>4, <2>1, <2>2 DEF JobEnds
  <1>5. QED
    <2>1. ASSUME NEW e \in Editors, Resume(e), ~RemoveArticle(e) PROVE UNCHANGED <<alive, running, finished>>
      BY <2>1 DEF Resume, ReleaseUrl, AssertCanUpload, FindFile, StoreFile, AttachCheck, AttachAsset, SyncPrev,
         SyncFind, SyncClear, SyncCreate, ReleaseRead, ReleaseRows, GcRead, Collect, OrphanReferenced, NextArticle
    <2>2. ASSUME NEW e \in Editors, Collector(e) PROVE UNCHANGED <<alive, running, finished>>
      BY <2>2 DEF Collector, OrphanRead, DraftsRead, PublishedRead
    <2>3. QED
      BY <1>1, <1>2, <1>3, <1>4, <2>1, <2>2 DEF MediaNext, mediaVars, UploadStart, Save, DeleteStart, FileAges

LEMMA RowsStep ==
  ASSUME MediaInv, [MediaNext]_mediaVars
  PROVE  RowsTyped'
  <1> USE DEF MediaInv
  <1>1. ASSUME NEW e \in Editors, NEW hs \in SUBSET work[e].hashes, Attach(e, hs)
        PROVE  assets' \in [Articles -> SUBSET Hashes] /\ overlapped' \subseteq Hashes
    <2>1. hs \in SUBSET Hashes
      BY DEF HandlersTyped, WorkType
    <2>2. QED
      BY <1>1, <2>1 DEF Attach, RowsTyped
  <1>2. ASSUME NEW e \in Editors, Resume(e) PROVE RowsTyped'
    <2>1. CASE AttachAsset(e)
      BY <1>1, <2>1 DEF AttachAsset, RowsTyped
    <2>2. CASE SyncCreate(e)
      BY <1>1, <2>2 DEF SyncCreate, RowsTyped
    <2>3. CASE ReleaseUrl(e) \/ SyncClear(e) \/ ReleaseRows(e)
      BY <2>3 DEF ReleaseUrl, SyncClear, ReleaseRows, RowsTyped
    <2>4. CASE FindFile(e) \/ StoreFile(e)
      BY <2>4 DEF FindFile, StoreFile, RowsTyped
    <2>5. CASE Collect(e)
      BY <2>5 DEF Collect, RowsTyped
    <2>6. CASE AssertCanUpload(e)
      BY <2>6 DEF AssertCanUpload, RowsTyped
    <2>7. CASE \/ AttachCheck(e) \/ SyncPrev(e) \/ SyncFind(e) \/ ReleaseRead(e) \/ GcRead(e)
               \/ RemoveArticle(e) \/ OrphanReferenced(e) \/ NextArticle(e)
      BY <2>7 DEF AttachCheck, SyncPrev, SyncFind, ReleaseRead, GcRead, RemoveArticle, OrphanReferenced,
         NextArticle, RowsTyped
    <2>8. QED
      BY <1>2, <2>1, <2>2, <2>3, <2>4, <2>5, <2>6, <2>7 DEF Resume
  <1>3. ASSUME NEW e \in Editors, Collector(e) PROVE RowsTyped'
    BY <1>3 DEF Collector, OrphanRead, DraftsRead, PublishedRead, RowsTyped
  <1>4. ASSUME NEW h \in Hashes, FileAges(h) PROVE RowsTyped'
    BY <1>4 DEF FileAges, RowsTyped
  <1>5. QED
    BY <1>2, <1>3, <1>4 DEF MediaNext, mediaVars, UploadStart, Save, DeleteStart, Publish, JobEnds, RowsTyped

(***************************************************************************)
(* The quota.                                                              *)
(***************************************************************************)
LEMMA SmallerSet ==
  ASSUME NEW S, IsFiniteSet(S), NEW T, T \subseteq S
  PROVE  /\ IsFiniteSet(T)
         /\ Cardinality(S) \in Nat /\ Cardinality(T) \in Nat
         /\ Cardinality(T) <= Cardinality(S)
  BY FS_Subset, FS_CardinalityType

(* A step that stores nothing and lets nobody pass keeps the room.         *)
LEMMA RoomStays ==
  ASSUME RoomKept, Mine' \subseteq Mine, Storing' \subseteq Storing, raced' = raced
  PROVE  RoomKept'
  <1>1. PICK S, T : S = Mine /\ T = Mine'
    OBVIOUS
  <1>2. /\ IsFiniteSet(T)
        /\ Cardinality(S) \in Nat /\ Cardinality(T) \in Nat
        /\ Cardinality(T) <= Cardinality(S)
    BY <1>1, SmallerSet DEF RoomKept
  <1>3. Cardinality(S) <= Quota => Cardinality(T) <= Quota
    BY <1>2, MediaAssumption
  <1>4. Cardinality(S) + 1 <= Quota => Cardinality(T) + 1 <= Quota
    BY <1>2, MediaAssumption
  <1>5. QED
    BY <1>1, <1>2, <1>3, <1>4 DEF RoomKept

(* An upload that had passed the quota stores its image.                   *)
LEMMA RoomUsed ==
  ASSUME RoomKept, NEW e \in Storing, NEW h, Mine' \subseteq Mine \cup {h},
         Storing' = Storing \ {e}, raced' = raced
  PROVE  RoomKept'
  <1>1. PICK S, T : S = Mine /\ T = Mine'
    OBVIOUS
  <1>2. IsFiniteSet(S) /\ IsFiniteSet(S \cup {h}) /\ Cardinality(S) \in Nat
        /\ Cardinality(S \cup {h}) \in Nat /\ Cardinality(S \cup {h}) <= Cardinality(S) + 1
    BY <1>1, FS_AddElement, FS_CardinalityType DEF RoomKept
  <1>3. /\ IsFiniteSet(T) /\ Cardinality(T) \in Nat
        /\ Cardinality(T) <= Cardinality(S \cup {h})
    BY <1>1, <1>2, SmallerSet
  <1>4. Cardinality(S) + 1 <= Quota => Cardinality(T) <= Quota
    BY <1>2, <1>3, MediaAssumption
  <1>5. ~raced => Storing' = {}
    BY DEF RoomKept
  <1>6. QED
    BY <1>1, <1>3, <1>4, <1>5 DEF RoomKept

LEMMA RoomStep ==
  ASSUME MediaInv, [MediaNext]_mediaVars
  PROVE  RoomKept'
  <1> USE DEF MediaInv
  <1>1. ASSUME NEW e \in Editors, AssertCanUpload(e) PROVE RoomKept'
    <2>1. stage[e] = "check" /\ Mine' = Mine
      BY <1>1 DEF AssertCanUpload, Mine
    <2>2. CASE Fits
      <3>1. Storing' = Storing \cup {e} /\ e \notin Storing
        BY <1>1, <2>1, <2>2 DEF AssertCanUpload, Go, Put, Storing, HandlersTyped
      <3>2. raced' = (raced \/ Storing # {})
        BY <1>1, <2>2 DEF AssertCanUpload, Storing
      <3>3. ~raced' => Storing' = {e}
        BY <3>1, <3>2
      <3>4. Cardinality(Mine) + 1 <= Quota
        BY <2>2 DEF Fits
      <3>5. IsFiniteSet(Mine)' /\ Cardinality(Mine)' = Cardinality(Mine) /\ (~raced' => ~raced)
        BY <2>1, <3>2 DEF RoomKept
      <3>6. QED
        BY <3>3, <3>4, <3>5 DEF RoomKept
    <2>3. CASE ~Fits
      <3>1. Storing' \subseteq Storing /\ raced' = raced
        BY <1>1, <2>1, <2>3 DEF AssertCanUpload, Quit, Put, Storing, HandlersTyped, RowsTyped
      <3>2. QED
        BY <2>1, <3>1, RoomStays
    <2>4. QED
      BY <2>2, <2>3
  <1>2. ASSUME NEW e \in Editors, NEW h, FindFile(e) \/ StoreFile(e) PROVE RoomKept'
    <2>1. raced' = raced /\ e \in Storing
      BY <1>2 DEF FindFile, StoreFile, Storing
    <2>2. PICK x : x = (CHOOSE y \in work[e].hashes : TRUE)
      OBVIOUS
    <2>3. CASE UNCHANGED file
      <3>1. Mine' = Mine
        BY <2>3 DEF Mine
      <3>2. Storing' \subseteq Storing
        BY <1>2 DEF FindFile, StoreFile, Stored, Go, Quit, Put, Storing, HandlersTyped
      <3>3. QED
        BY <2>1, <3>1, <3>2, RoomStays
    <2>4. CASE ~UNCHANGED file
      <3>1. Stored(e) /\ \E age \in {"new", "old"} : file' = [file EXCEPT ![x] = age]
        BY <1>2, <2>2, <2>4 DEF FindFile, StoreFile
      <3>2. Mine' \subseteq Mine \cup {x}
        BY <3>1 DEF Mine, RowsTyped
      <3>3. Storing' = Storing \ {e}
        BY <3>1 DEF Stored, Go, Quit, Put, Storing, HandlersTyped
      <3>4. QED
        BY <2>1, <3>2, <3>3, RoomUsed
    <2>5. QED
      BY <2>3, <2>4
  <1>3. ASSUME NEW e \in Editors, Resume(e), ~AssertCanUpload(e), ~FindFile(e), ~StoreFile(e)
        PROVE  RoomKept'
    <2>1. Mine' \subseteq Mine /\ raced' = raced
      <3>1. CASE Collect(e)
        BY <3>1 DEF Collect, Mine, RowsTyped
      <3>2. CASE ~Collect(e)
        BY <1>3, <3>2 DEF Resume, ReleaseUrl, AttachCheck, AttachAsset, SyncPrev, SyncFind, SyncClear,
           SyncCreate, ReleaseRead, ReleaseRows, GcRead, RemoveArticle, OrphanReferenced, NextArticle, Mine
      <3>3. QED
        BY <3>1, <3>2
    <2>2. Storing' \subseteq Storing
      <3>1. CASE \/ ReleaseUrl(e) \/ AttachCheck(e) \/ AttachAsset(e) \/ SyncPrev(e) \/ SyncFind(e) \/ SyncClear(e)
                 \/ SyncCreate(e) \/ ReleaseRead(e)
        BY <3>1 DEF ReleaseUrl, AttachCheck, AttachAsset, SyncPrev, SyncFind, SyncClear, SyncCreate, ReleaseRead,
           Go, Quit, Put, Storing, HandlersTyped
      <3>2. CASE ReleaseRows(e) \/ GcRead(e) \/ RemoveArticle(e) \/ OrphanReferenced(e) \/ NextArticle(e)
        BY <3>2 DEF ReleaseRows, GcRead, RemoveArticle, OrphanReferenced, NextArticle, Go, Quit, Put, Storing,
           HandlersTyped
      <3>3. CASE Collect(e)
        <4>1. work[e].op \in {"upload", "save", "delete", "orphans", "drafts", "published"}
          BY <3>3 DEF Collect, HandlersTyped, WorkKnown, WorkType
        <4>2. Go(e, "check") \/ Go(e, "remove") \/ Go(e, "next") \/ Quit(e)
          BY <3>3, <4>1 DEF Collect
        <4>3. QED
          BY <4>2 DEF Go, Quit, Put, Storing, HandlersTyped
      <3>4. QED
        BY <1>3, <3>1, <3>2, <3>3 DEF Resume
    <2>3. QED
      BY <2>1, <2>2, RoomStays
  <1>4. ASSUME NEW e \in Editors, Collector(e) PROVE RoomKept'
    <2>1. Mine' = Mine /\ raced' = raced
      BY <1>4 DEF Collector, OrphanRead, DraftsRead, PublishedRead, Mine
    <2>2. Storing' \subseteq Storing
      BY <1>4 DEF Collector, OrphanRead, DraftsRead, PublishedRead, Put, Storing, HandlersTyped
    <2>3. QED
      BY <2>1, <2>2, RoomStays
  <1>5. ASSUME NEW e \in Editors, NEW a, NEW h, NEW hs, UploadStart(e, a, h) \/ Save(e, a, hs) \/ DeleteStart(e, a)
        PROVE  RoomKept'
    <2>1. Mine' = Mine /\ raced' = raced
      BY <1>5 DEF UploadStart, Save, DeleteStart, Mine
    <2>2. Storing' \subseteq Storing
      BY <1>5 DEF UploadStart, Save, DeleteStart, Put, Storing, HandlersTyped
    <2>3. QED
      BY <2>1, <2>2, RoomStays
  <1>6. ASSUME NEW h \in Hashes, FileAges(h) PROVE RoomKept'
    <2>1. Mine' = Mine /\ Storing' = Storing /\ raced' = raced
      BY <1>6 DEF FileAges, Mine, Storing, RowsTyped
    <2>2. QED
      BY <2>1, RoomStays
  <1>7. ASSUME UNCHANGED <<file, stage, raced>> PROVE RoomKept'
    <2>1. Mine' = Mine /\ Storing' = Storing
      BY <1>7 DEF Mine, Storing
    <2>2. QED
      BY <1>7, <2>1, RoomStays
  <1>8. QED
    <2>1. ASSUME NEW e \in Editors, Resume(e) PROVE RoomKept'
      BY <1>1, <1>2, <1>3, <2>1
    <2>2. QED
      BY <1>4, <1>5, <1>6, <1>7, <2>1 DEF MediaNext, mediaVars, Publish, JobEnds

(***************************************************************************)
(* Images of articles are there.                                           *)
(***************************************************************************)
Kept == DroppedUnused /\ LostOnlyByOverlap

Held(h) == \E e \in Editors : stage[e] = "collect" /\ h \in work[e].dropped

(* A step that attaches nothing keeps the images, if what it deletes a     *)
(* collector held, and if what a collector takes up is unused.             *)
LEMMA KeptWithout ==
  ASSUME Kept, \A a \in Articles : assets'[a] \subseteq assets[a], overlapped' = overlapped,
         \A h \in Hashes : file'[h] = "none" => file[h] = "none" \/ Held(h),
         \A h \in Hashes : Held(h)' => Held(h) \/ h \notin Used,
         RowsTyped, RowsTyped'
  PROVE  Kept'
  <1>1. ASSUME NEW a \in Articles, NEW h \in assets'[a]
        PROVE  /\ Held(h)' => h \in overlapped'
               /\ file'[h] = "none" => h \in overlapped'
    <2>1. h \in assets[a] /\ h \in Hashes /\ h \in Used
      BY DEF RowsTyped, Used
    <2>2. Held(h) => h \in overlapped
      BY <2>1 DEF Kept, DroppedUnused, Held
    <2>3. file[h] = "none" => h \in overlapped
      BY <2>1 DEF Kept, LostOnlyByOverlap
    <2>4. QED
      BY <2>1, <2>2, <2>3
  <1>2. QED
    BY <1>1 DEF Kept, DroppedUnused, LostOnlyByOverlap, Held

(* What is attached while a collector holds it is remembered.              *)
LEMMA KeptAttached ==
  ASSUME Kept, RowsTyped, RowsTyped', HandlersTyped, NEW e \in Editors, NEW hs, Attach(e, hs), file' = file,
         stage[e] # "collect", NEW to, to # "collect", Go(e, to) \/ Quit(e), to # "idle" \/ Quit(e)
  PROVE  Kept'
  <1>1. \A h : Held(h)' => \E f \in Editors \ {e} : stage[f] = "collect" /\ h \in work[f].dropped
    BY DEF Held, Go, Quit, Put, HandlersTyped
  <1>2. ASSUME NEW a \in Articles, NEW h \in assets'[a]
        PROVE  /\ Held(h)' => h \in overlapped'
               /\ file'[h] = "none" => h \in overlapped'
    <2>1. CASE h \in assets[a]
      BY <1>1, <2>1 DEF Kept, DroppedUnused, LostOnlyByOverlap, Attach, Held
    <2>2. CASE h \notin assets[a]
      <3>1. h \in hs
        BY <2>2 DEF Attach, RowsTyped
      <3>2. QED
        BY <1>1, <3>1 DEF Attach
    <2>3. QED
      BY <2>1, <2>2
  <1>3. QED
    BY <1>2 DEF Kept, DroppedUnused, LostOnlyByOverlap, Held

LEMMA KeptStep ==
  ASSUME MediaInv, [MediaNext]_mediaVars
  PROVE  Kept'
  <1> USE DEF MediaInv
  <1>1. Kept /\ RowsTyped'
    BY RowsStep DEF Kept
  (* Who starts a collection and who goes on.                              *)
  <1>2. ASSUME NEW e \in Editors, NEW to, NEW k, Put(e, to, k), to # "collect" \/ k.dropped \cap Used = {}
        PROVE  \A h \in Hashes : Held(h)' => Held(h) \/ h \notin Used
    BY <1>2 DEF Put, Held, HandlersTyped
  <1>3. ASSUME NEW e \in Editors, AttachAsset(e) PROVE Kept'
    <2>1. Attach(e, work[e].hashes) /\ Quit(e) /\ file' = file /\ stage[e] # "collect"
      BY <1>3 DEF AttachAsset
    <2>2. QED
      BY <1>1, <2>1, KeptAttached
  <1>4. ASSUME NEW e \in Editors, SyncCreate(e) PROVE Kept'
    <2>1. file' = file /\ stage[e] # "collect"
      BY <1>4 DEF SyncCreate
    <2>2. \E hs : Attach(e, hs) /\ (Quit(e) \/ Go(e, "gcread"))
      BY <1>4 DEF SyncCreate
    <2>3. PICK hs : Attach(e, hs) /\ (Quit(e) \/ Go(e, "gcread"))
      BY <2>2
    <2>4. QED
      BY <1>1, <2>1, <2>3, KeptAttached
  <1>5. ASSUME NEW e \in Editors, GcRead(e) \/ OrphanReferenced(e) PROVE Kept'
    <2>1. PICK k : Put(e, "collect", k) /\ k.dropped \cap Used = {}
      BY <1>5 DEF GcRead, OrphanReferenced, Unused, HandlersTyped, WorkType
    <2>2. UNCHANGED <<assets, overlapped, file>>
      BY <1>5 DEF GcRead, OrphanReferenced
    <2>3. QED
      BY <1>1, <1>2, <2>1, <2>2, KeptWithout
  <1>6. ASSUME NEW e \in Editors, Collect(e) PROVE Kept'
    <2>1. UNCHANGED <<assets, overlapped>>
      BY <1>6 DEF Collect
    <2>2. \A h \in Hashes : file'[h] = "none" => file[h] = "none" \/ Held(h)
      BY <1>6 DEF Collect, Held
    <2>3. work[e].op \in {"upload", "save", "delete", "orphans", "drafts", "published"}
      BY <1>6 DEF Collect, HandlersTyped, WorkKnown, WorkType
    <2>4. Go(e, "check") \/ Go(e, "remove") \/ Go(e, "next") \/ Quit(e)
      BY <1>6, <2>3 DEF Collect
    <2>5. \A h \in Hashes : Held(h)' => Held(h) \/ h \notin Used
      BY <1>2, <2>4 DEF Go, Quit
    <2>6. QED
      BY <1>1, <2>1, <2>2, <2>5, KeptWithout
  <1>7. ASSUME UNCHANGED overlapped, \A a \in Articles : assets'[a] \subseteq assets[a],
               \A h \in Hashes : file'[h] = "none" => file[h] = "none",
               \/ UNCHANGED <<stage, work>>
               \/ \E e \in Editors : \E to, k : Put(e, to, k) /\ to # "collect"
        PROVE  Kept'
    <2>1. \A h \in Hashes : Held(h)' => Held(h) \/ h \notin Used
      BY <1>2, <1>7 DEF Held
    <2>2. QED
      BY <1>1, <1>7, <2>1, KeptWithout
  <1>8. ASSUME NEW e \in Editors, ReleaseUrl(e) \/ SyncClear(e) \/ ReleaseRows(e) PROVE Kept'
    <2>1. UNCHANGED <<overlapped, file>> /\ \A a \in Articles : assets'[a] \subseteq assets[a]
      BY <1>8 DEF ReleaseUrl, SyncClear, ReleaseRows, RowsTyped
    <2>2. \E to : Go(e, to) /\ to # "collect"
      BY <1>8 DEF ReleaseUrl, SyncClear, ReleaseRows
    <2>3. QED
      BY <1>7, <2>1, <2>2 DEF Go
  <1>9. ASSUME NEW e \in Editors, AssertCanUpload(e) \/ FindFile(e) \/ StoreFile(e) PROVE Kept'
    <2>1. UNCHANGED <<assets, overlapped>>
      BY <1>9 DEF AssertCanUpload, FindFile, StoreFile
    <2>2. \A h \in Hashes : file'[h] = "none" => file[h] = "none"
      BY <1>9 DEF AssertCanUpload, FindFile, StoreFile, RowsTyped
    <2>3. Quit(e) \/ \E to : Go(e, to) /\ to # "collect"
      <3>1. CASE AssertCanUpload(e)
        BY <3>1 DEF AssertCanUpload
      <3>2. CASE FindFile(e) \/ StoreFile(e)
        BY <3>2 DEF FindFile, StoreFile, Stored
      <3>3. QED
        BY <1>9, <3>1, <3>2
    <2>4. QED
      BY <1>7, <2>1, <2>2, <2>3 DEF Go, Quit
  <1>10. ASSUME NEW e \in Editors, AttachCheck(e) \/ SyncPrev(e) \/ SyncFind(e) \/ ReleaseRead(e) \/ RemoveArticle(e)
                \/ NextArticle(e)
         PROVE  Kept'
    <2>1. UNCHANGED <<assets, overlapped, file>>
      BY <1>10 DEF AttachCheck, SyncPrev, SyncFind, ReleaseRead, RemoveArticle, NextArticle
    <2>2. \E to, k : Put(e, to, k) /\ to # "collect"
      <3>1. CASE AttachCheck(e) \/ RemoveArticle(e)
        BY <3>1 DEF AttachCheck, RemoveArticle, Go, Quit
      <3>2. CASE SyncPrev(e) \/ SyncFind(e) \/ ReleaseRead(e)
        <4>1. (\E k : Put(e, "lookup", k)) \/ (\E k : Put(e, "clear", k)) \/ (\E k : Put(e, "unlink", k))
          BY <3>2 DEF SyncPrev, SyncFind, ReleaseRead
        <4>2. QED
          BY <4>1
      <3>3. CASE NextArticle(e)
        <4>1. ASSUME NEW P \in BOOLEAN, NEW k, Put(e, IF P THEN "next" ELSE "rows", k)
              PROVE  \E to : Put(e, to, k) /\ to # "collect"
          BY <4>1
        <4>2. PICK k : \/ Put(e, "idle", k)
                       \/ \E a \in work[e].left :
                             Put(e, IF work[e].op = "published" /\ (a \in running \/ assets[a] = {})
                                    THEN "next" ELSE "rows", k)
          BY <3>3 DEF NextArticle, Quit
        <4>3. QED
          BY <4>1, <4>2
      <3>4. QED
        BY <1>10, <3>1, <3>2, <3>3
    <2>3. QED
      BY <1>7, <2>1, <2>2
  <1>11. ASSUME NEW e \in Editors, Collector(e) PROVE Kept'
    <2>1. UNCHANGED <<assets, overlapped, file>>
      BY <1>11 DEF Collector, OrphanRead, DraftsRead, PublishedRead
    <2>2. \E to, k : Put(e, to, k) /\ to # "collect"
      <3>1. (\E k : Put(e, "referenced", k)) \/ (\E k : Put(e, "next", k))
        BY <1>11 DEF Collector, OrphanRead, DraftsRead, PublishedRead
      <3>2. QED
        BY <3>1
    <2>3. QED
      BY <1>7, <2>1, <2>2
  <1>12. ASSUME NEW e \in Editors, NEW a, NEW h, NEW hs, UploadStart(e, a, h) \/ Save(e, a, hs) \/ DeleteStart(e, a)
         PROVE  Kept'
    <2>1. UNCHANGED <<assets, overlapped, file>>
      BY <1>12 DEF UploadStart, Save, DeleteStart
    <2>2. \E to, k : Put(e, to, k) /\ to # "collect"
      <3>1. \E to \in {"check", "release", "prev", "rows"} : \E k : Put(e, to, k)
        <4>1. CASE UploadStart(e, a, h)
          <5>1. (\E k : Put(e, "check", k)) \/ (\E k : Put(e, "release", k))
            BY <4>1 DEF UploadStart
          <5>2. QED
            BY <5>1
        <4>2. CASE Save(e, a, hs) \/ DeleteStart(e, a)
          <5>1. (\E k : Put(e, "prev", k)) \/ (\E k : Put(e, "rows", k))
            BY <4>2 DEF Save, DeleteStart
          <5>2. QED
            BY <5>1
        <4>3. QED
          BY <1>12, <4>1, <4>2
      <3>2. QED
        BY <3>1
    <2>3. QED
      BY <1>7, <2>1, <2>2
  <1>13. ASSUME UNCHANGED <<assets, overlapped, stage, work>>, file' = file \/ \E h \in Hashes : FileAges(h) PROVE Kept'
    <2>1. \A h \in Hashes : file'[h] = "none" => file[h] = "none"
      BY <1>13 DEF FileAges, RowsTyped
    <2>2. QED
      BY <1>7, <1>13, <2>1
  <1>14. QED
    <2>1. ASSUME NEW e \in Editors, Resume(e) PROVE Kept'
      BY <1>3, <1>4, <1>5, <1>6, <1>8, <1>9, <1>10, <2>1 DEF Resume
    <2>2. ASSUME NEW h \in Hashes, FileAges(h) PROVE Kept'
      BY <1>13, <2>2 DEF FileAges
    <2>3. QED
      BY <1>11, <1>12, <1>13, <2>1, <2>2 DEF MediaNext, mediaVars, Publish, JobEnds

LEMMA MediaStep == MediaInv /\ [MediaNext]_mediaVars => MediaInv'
  BY RowsStep, JobsStep, HandlersStep, RoomStep, KeptStep DEF MediaInv, Kept

LEMMA MediaInvKept == MediaInv => ImagesKept
  <1> SUFFICES ASSUME MediaInv PROVE ImagesKept
    OBVIOUS
  <1> USE DEF MediaInv
  <1>1. ASSUME NEW e \in Editors
        PROVE  /\ work[e].hashes \cup work[e].dropped \subseteq Hashes
               /\ work[e].left \subseteq Articles
               /\ stage[e] \in {"find", "store", "attach"} => Cardinality(work[e].hashes) = 1
    <2>1. work[e] \in WorkType /\ WorkKnown(stage[e], work[e])
      BY DEF HandlersTyped
    <2>2. stage[e] \in {"find", "store", "attach"} => \E h \in Hashes : work[e].hashes = {h}
      BY <2>1 DEF WorkKnown, Uploading
    <2>3. \A h : Cardinality({h}) = 1
      BY FS_Singleton
    <2>4. QED
      BY <2>1, <2>2, <2>3 DEF WorkType
  <1>2. MediaTypeOK
    BY <1>1 DEF MediaTypeOK, RowsTyped, JobsTyped
  <1>3. QuotaNearlyKept
    <2>1. Cardinality(Mine) \in Nat
      BY FS_CardinalityType DEF RoomKept
    <2>2. QED
      BY <2>1, MediaAssumption DEF QuotaNearlyKept, RoomKept
  <1>4. QED
    BY <1>2, <1>3 DEF ImagesKept

(* An author's images pass his quota only by uploads that are under way    *)
(* together (PublisherMediaService.assertCanUpload counts before the file  *)
(* is stored), and an article loses an image it holds to a collector only  *)
(* if the image was attached while the collector held it, whatever saves,  *)
(* uploads, releases and collectors overlap.                               *)
THEOREM ImagesStayKept == AuthorSpec => []ImagesKept
  <1>1. AuthorInit => MediaInv
    BY MediaStarts DEF AuthorInit
  <1>2. MediaInv /\ [AuthorNext]_<<part, mediaVars, accounts>> => MediaInv'
    BY AuthorParts, MediaStep
  <1>3. QED
    BY <1>1, <1>2, MediaInvKept, PTL DEF AuthorSpec

(***************************************************************************)
(* Accounts.  What a call knows of its credential, and what ALQQ told it.  *)
(***************************************************************************)
Changing == {"create", "clear", "mark", "adopt", "delete", "deleteaccounts", "promote"}

CallStages == Changing \cup {"idle", "ensure", "fill", "session", "rows", "sync", "latest", "again", "write"}

CallType ==
    [op : {"none", "create", "prefer", "delete", "list", "confirm", "bind", "unbind"}, cred : 0..MaxCreds,
     first : BOOLEAN, todo : SUBSET Platforms, found : SUBSET Platforms, rows : [Platforms -> Accounts!Status]]

CallKnown(s, k) ==
    /\ s \in Changing => k.op \in Accounts!Changes
    /\ s \notin {"idle", "create"} => k.cred \in Accounts!Creds
    /\ k.found # {} => s \in {"rows", "sync"} /\ k.found \subseteq known[k.cred]
    /\ s = "deleteaccounts" => cred[k.cred] = "gone"

CredsTyped ==
    /\ cred \in [Accounts!Creds -> {"none", "plain", "default", "gone"}]
    /\ acc \in [0..MaxCreds -> [Platforms -> Accounts!Status]]
    /\ acc[0] \in [Platforms -> {"none", "bound"}]
    /\ known \in [Accounts!Creds -> SUBSET Platforms]
    /\ met \in BOOLEAN

CallsTyped ==
    /\ at \in [Editors -> CallStages]
    /\ carried \in [Editors -> CallType]
    /\ \A h \in Editors : CallKnown(at[h], carried[h])

(***************************************************************************)
(* A call that changes credentials and has met no other call knows how far *)
(* it has come: whether some credential is the default, and which.         *)
(***************************************************************************)
Defaults == {c \in Accounts!Creds : cred[c] = "default"}

Unsettled(s, k) == s \in {"clear", "mark", "promote"} \/ (s = "deleteaccounts" /\ k.first)

Progress(s, k) ==
    /\ s \in {"clear", "mark", "delete", "adopt", "ensure", "fill"} => k.cred \in Accounts!Rows
    /\ Unsettled(s, k) /\ s # "clear" => Defaults = {}
    /\ s = "create" => k.first = (Accounts!Rows = {})
    /\ s = "delete" => k.first = (cred[k.cred] = "default")

OneAtATime ==
    \A h, g \in Editors :
        at[h] # "idle" /\ at[g] # "idle" /\ carried[h].op \in Accounts!Changes => h = g

OnePreferred ==
    \/ Accounts!Rows = {}
    \/ \E d \in Accounts!Creds : Defaults = {d}
    \/ \E h \in Editors : Unsettled(at[h], carried[h])

GoneCleared ==
    \A c \in Accounts!Creds : cred[c] = "gone" =>
        acc[c] = Accounts!NoRows \/ \E h \in Editors : at[h] = "deleteaccounts" /\ carried[h].cred = c

AloneInv ==
    ~met => /\ OneAtATime
            /\ OnePreferred
            /\ GoneCleared
            /\ \A h \in Editors : Progress(at[h], carried[h])

AccountsInv ==
    /\ CredsTyped
    /\ Accounts!BoundIsKnown
    /\ CallsTyped
    /\ AloneInv

LEMMA NoCallKnown ==
  /\ Accounts!NoWork \in CallType
  /\ Accounts!NoWork.found = {} /\ Accounts!NoWork.cred = 0
  BY CredsAssumption DEF Accounts!NoWork, Accounts!NoRows, CallType, Accounts!Status

(* A call goes on; what the others know stays true.                        *)
LEMMA CallsKeep ==
  ASSUME CallsTyped, NEW e \in Editors, NEW to \in CallStages, NEW k \in CallType, Accounts!Put(e, to, k),
         CallKnown(to, k)',
         \A c \in Accounts!Creds : known[c] \subseteq known'[c],
         \A c \in Accounts!Creds : cred[c] = "gone" => cred'[c] = "gone"
  PROVE  CallsTyped'
  <1>1. ASSUME NEW g \in Editors, g # e PROVE CallKnown(at[g], carried[g])'
    <2>1. at'[g] = at[g] /\ carried'[g] = carried[g]
      BY <1>1 DEF Accounts!Put, CallsTyped
    <2>2. PICK s, w : s = at[g] /\ w = carried[g]
      OBVIOUS
    <2>3. CallKnown(s, w)
      BY <2>2 DEF CallsTyped
    <2>4. s = "deleteaccounts" => w.cred \in Accounts!Creds
      BY <2>3 DEF CallKnown
    <2>5. w.found # {} => w.cred \in Accounts!Creds
      BY <2>3 DEF CallKnown
    <2>6. CallKnown(s, w)'
      BY <2>3, <2>4, <2>5 DEF CallKnown
    <2>7. QED
      BY <2>1, <2>2, <2>6
  <1>2. at'[e] = to /\ carried'[e] = k
    BY DEF Accounts!Put, CallsTyped
  <1>3. at' \in [Editors -> CallStages] /\ carried' \in [Editors -> CallType]
    BY DEF Accounts!Put, CallsTyped
  <1>4. QED
    BY <1>1, <1>2, <1>3 DEF CallsTyped

LEMMA QuitKeeps ==
  ASSUME CallsTyped, NEW e \in Editors, Accounts!Quit(e),
         \A c \in Accounts!Creds : known[c] \subseteq known'[c],
         \A c \in Accounts!Creds : cred[c] = "gone" => cred'[c] = "gone"
  PROVE  CallsTyped'
  <1>1. CallKnown("idle", Accounts!NoWork)'
    BY NoCallKnown DEF CallKnown, Changing
  <1>2. QED
    BY <1>1, NoCallKnown, CallsKeep DEF Accounts!Quit, CallStages

(***************************************************************************)
(* What a step does to AloneInv.                                           *)
(***************************************************************************)
LEMMA AloneAtStart ==
  ASSUME AloneInv, CallsTyped, NEW e \in Editors, at[e] = "idle", NEW to, NEW k, Accounts!Put(e, to, k),
         UNCHANGED <<cred, acc>>, met' = Accounts!Met(e, k.op), Progress(to, k)
  PROVE  AloneInv'
  <1> SUFFICES ASSUME ~met' PROVE AloneInv'
    BY DEF AloneInv
  <1>1. /\ ~met
        /\ \A g \in Editors \ {e} : at[g] # "idle" => k.op \notin Accounts!Changes
                                                      /\ carried[g].op \notin Accounts!Changes
    BY DEF Accounts!Met
  <1>2. /\ at'[e] = to /\ carried'[e] = k
        /\ \A g \in Editors \ {e} : at'[g] = at[g] /\ carried'[g] = carried[g]
    BY DEF Accounts!Put, CallsTyped
  <1>3. OneAtATime'
    BY <1>1, <1>2 DEF AloneInv, OneAtATime
  <1>4. Defaults' = Defaults /\ Accounts!Rows' = Accounts!Rows
    BY DEF Defaults, Accounts!Rows
  <1>5. OnePreferred'
    BY <1>1, <1>2, <1>4 DEF AloneInv, OnePreferred, Unsettled
  <1>6. GoneCleared'
    BY <1>1, <1>2 DEF AloneInv, GoneCleared
  <1>7. ASSUME NEW g \in Editors PROVE Progress(at[g], carried[g])'
    <2>1. PICK s, w : s = at'[g] /\ w = carried'[g]
      OBVIOUS
    <2>2. Progress(s, w)
      BY <1>1, <1>2, <2>1 DEF AloneInv
    <2>3. Progress(s, w)'
      BY <1>4, <2>2 DEF Progress
    <2>4. QED
      BY <2>1, <2>3
  <1>8. QED
    BY <1>3, <1>5, <1>6, <1>7 DEF AloneInv

(* A step of a call that changes no credential.                            *)
LEMMA AloneBeside ==
  ASSUME AloneInv, CallsTyped, NEW e \in Editors, at[e] # "idle", NEW to, NEW k, Accounts!Put(e, to, k),
         UNCHANGED <<cred, met>>,
         to # "idle" => k.op = carried[e].op,
         ~Unsettled(at[e], carried[e]), at[e] # "deleteaccounts", ~met => Progress(to, k),
         ~met => \A c \in Accounts!Creds : cred[c] = "gone" /\ acc[c] = Accounts!NoRows => acc'[c] = Accounts!NoRows
  PROVE  AloneInv'
  <1> SUFFICES ASSUME ~met, ~met' PROVE AloneInv'
    BY DEF AloneInv
  <1>1. /\ at'[e] = to /\ carried'[e] = k
        /\ \A g \in Editors \ {e} : at'[g] = at[g] /\ carried'[g] = carried[g]
    BY DEF Accounts!Put, CallsTyped
  <1>2. OneAtATime'
    BY <1>1 DEF AloneInv, OneAtATime
  <1>3. Defaults' = Defaults /\ Accounts!Rows' = Accounts!Rows
    BY DEF Defaults, Accounts!Rows
  <1>4. \A g \in Editors : Unsettled(at[g], carried[g]) => Unsettled(at'[g], carried'[g])
    BY <1>1 DEF Unsettled
  <1>5. OnePreferred'
    BY <1>3, <1>4 DEF AloneInv, OnePreferred, Unsettled
  <1>6. GoneCleared'
    BY <1>1 DEF AloneInv, GoneCleared, Accounts!NoRows
  <1>7. ASSUME NEW g \in Editors PROVE Progress(at[g], carried[g])'
    <2>1. PICK s, w : s = at'[g] /\ w = carried'[g]
      OBVIOUS
    <2>2. Progress(s, w)
      BY <1>1, <2>1 DEF AloneInv
    <2>3. Progress(s, w)'
      BY <1>3, <2>2 DEF Progress
    <2>4. QED
      BY <2>1, <2>3
  <1>8. QED
    BY <1>2, <1>5, <1>6, <1>7 DEF AloneInv

(* A step of a call that changes credentials: it has met nobody.           *)
LEMMA AloneStep ==
  ASSUME AloneInv, CallsTyped, NEW e \in Editors, at[e] \in Changing, NEW to, NEW k, Accounts!Put(e, to, k), met' = met,
         ~met => /\ Progress(to, k)'
                 /\ Accounts!Rows' = {} \/ (\E d \in Accounts!Creds : Defaults' = {d}) \/ Unsettled(to, k)
                 /\ \A c \in Accounts!Creds : cred'[c] = "gone" =>
                       acc'[c] = Accounts!NoRows \/ (to = "deleteaccounts" /\ k.cred = c)
  PROVE  AloneInv'
  <1> SUFFICES ASSUME ~met, ~met' PROVE AloneInv'
    BY DEF AloneInv
  <1>1. /\ at'[e] = to /\ carried'[e] = k
        /\ \A g \in Editors \ {e} : at'[g] = at[g] /\ carried'[g] = carried[g]
    BY DEF Accounts!Put, CallsTyped
  <1>2. carried[e].op \in Accounts!Changes /\ at[e] # "idle"
    BY DEF CallsTyped, CallKnown, Changing
  <1>3. \A g \in Editors \ {e} : at[g] = "idle"
    BY <1>2 DEF AloneInv, OneAtATime
  <1>4. OneAtATime'
    BY <1>1, <1>3 DEF OneAtATime
  <1>5. OnePreferred'
    BY <1>1 DEF OnePreferred, Unsettled
  <1>6. GoneCleared'
    BY <1>1 DEF GoneCleared, Accounts!NoRows
  <1>7. ASSUME NEW g \in Editors PROVE Progress(at[g], carried[g])'
    <2>1. PICK s, w : s = at'[g] /\ w = carried'[g]
      OBVIOUS
    <2>2. CASE g = e
      BY <1>1, <2>1, <2>2
    <2>3. CASE g # e
      <3>1. s = "idle"
        BY <1>1, <1>3, <2>1, <2>3
      <3>2. Progress(s, w)'
        BY <3>1 DEF Progress, Unsettled
      <3>3. QED
        BY <2>1, <3>2
    <2>4. QED
      BY <2>2, <2>3
  <1>8. QED
    BY <1>4, <1>5, <1>6, <1>7 DEF AloneInv

LEMMA SmallestCred ==
  ASSUME NEW S \in SUBSET Accounts!Creds, S # {}
  PROVE  (CHOOSE x \in S : \A y \in S : x <= y) \in S
  <1>1. S \subseteq Nat
    BY CredsAssumption DEF Accounts!Creds
  <1>2. \E x \in S : \A y \in S : x <= y
    BY <1>1, Least
  <1>3. QED
    BY <1>2

(***************************************************************************)
(* Rows of credentials and accounts.                                       *)
(***************************************************************************)
CredsKept ==
    /\ CredsTyped'
    /\ Accounts!BoundIsKnown'
    /\ \A c \in Accounts!Creds : known[c] \subseteq known'[c]
    /\ \A c \in Accounts!Creds : cred[c] = "gone" => cred'[c] = "gone"
    /\ \A c \in Accounts!Creds, p \in Platforms : acc[c][p] # "none" /\ acc'[c][p] = "none" => cred[c] = "gone"

LEMMA CredsStep ==
  ASSUME AccountsInv, [Accounts!AccountsNext]_accounts
  PROVE  CredsKept
  <1> USE DEF AccountsInv
  <1> DEFINE Creds == Accounts!Creds
  <1>1. ASSUME UNCHANGED <<cred, acc, known>>, met' \in BOOLEAN PROVE CredsKept
    BY <1>1 DEF CredsKept, CredsTyped, Accounts!BoundIsKnown
  (* A step that writes accounts of one credential.                        *)
  <1>2. ASSUME NEW c \in 0..MaxCreds, c # 0, NEW row \in [Platforms -> Accounts!Status], acc' = [acc EXCEPT ![c] = row],
               \A p \in Platforms : row[p] \in Accounts!Bound => acc[c][p] \in Accounts!Bound \/ p \in known[c],
               \A p \in Platforms : row[p] = "none" => acc[c][p] = "none" \/ cred[c] = "gone",
               UNCHANGED <<cred, known, met>>
        PROVE  CredsKept
    <2>1. c \in Creds /\ 0 \notin Creds /\ Creds \subseteq 0..MaxCreds
      BY <1>2, CredsAssumption DEF Accounts!Creds
    <2>2. acc' \in [0..MaxCreds -> [Platforms -> Accounts!Status]] /\ acc'[0] = acc[0] /\ acc'[c] = row
          /\ \A d \in Creds \ {c} : acc'[d] = acc[d]
      BY <1>2, <2>1 DEF CredsTyped
    <2>3. CredsTyped'
      BY <1>2, <2>2 DEF CredsTyped
    <2>4. Accounts!BoundIsKnown'
      BY <1>2, <2>1, <2>2 DEF Accounts!BoundIsKnown
    <2>5. QED
      BY <1>2, <2>1, <2>2, <2>3, <2>4 DEF CredsKept
  (* A step that writes credentials alone.                                 *)
  <1>3. ASSUME cred' \in [Creds -> {"none", "plain", "default", "gone"}],
               \A c \in Creds : cred[c] = "gone" => cred'[c] = "gone", UNCHANGED <<acc, known, met>>
        PROVE  CredsKept
    BY <1>3 DEF CredsKept, CredsTyped, Accounts!BoundIsKnown
  <1>4. ASSUME NEW h \in Editors, Accounts!CreateRow(h) PROVE CredsKept
    <2> DEFINE new == {c \in Creds : cred[c] = "none"}
    <2>1. new # {} /\ new \in SUBSET Creds
      BY <1>4 DEF Accounts!CreateRow
    <2>2. PICK c \in new : c = (CHOOSE x \in new : \A y \in new : x <= y)
      BY <2>1, SmallestCred
    <2>3. \E s \in {"default", "plain"} : cred' = [cred EXCEPT ![c] = s]
      BY <1>4, <2>2 DEF Accounts!CreateRow
    <2>4. UNCHANGED <<acc, known, met>>
      BY <1>4 DEF Accounts!CreateRow
    <2>5. QED
      BY <1>3, <2>2, <2>3, <2>4 DEF CredsTyped
  <1>5. ASSUME NEW h \in Editors, Accounts!ClearDefault(h) PROVE CredsKept
    BY <1>3, <1>5 DEF Accounts!ClearDefault, Accounts!Cleared, CredsTyped
  <1>6. ASSUME NEW h \in Editors, Accounts!MarkDefault(h) PROVE CredsKept
    BY <1>3, <1>6 DEF Accounts!MarkDefault, Accounts!Rows, CredsTyped
  <1>7. ASSUME NEW h \in Editors, Accounts!DeleteRow(h) PROVE CredsKept
    BY <1>3, <1>7 DEF Accounts!DeleteRow, CredsTyped
  <1>8. ASSUME NEW h \in Editors, Accounts!Adopt(h) PROVE CredsKept
    <2>1. PICK c \in Creds : c = carried[h].cred
      BY <1>8 DEF Accounts!Adopt, CallsTyped, CallKnown
    <2>2. PICK old \in SUBSET Platforms : old = {p \in Platforms : acc[0][p] # "none"}
      OBVIOUS
    <2>3. CASE \E p \in old : acc[c][p] # "none"
      BY <1>1, <1>8, <2>1, <2>2, <2>3 DEF Accounts!Adopt, CredsTyped
    <2>4. CASE ~\E p \in old : acc[c][p] # "none"
      <3>1. /\ acc' = [acc EXCEPT ![0] = Accounts!NoRows, ![c] = [p \in Platforms |-> IF p \in old THEN acc[0][p] ELSE @[p]]]
            /\ known' = [known EXCEPT ![c] = @ \cup old]
            /\ UNCHANGED <<cred, met>>
        BY <1>8, <2>1, <2>2, <2>4 DEF Accounts!Adopt
      <3>2. c # 0 /\ 0 \in 0..MaxCreds /\ c \in 0..MaxCreds /\ Creds \subseteq 0..MaxCreds /\ 0 \notin Creds
        BY CredsAssumption DEF Accounts!Creds
      <3>3. /\ acc'[0] = Accounts!NoRows
            /\ acc'[c] = [p \in Platforms |-> IF p \in old THEN acc[0][p] ELSE acc[c][p]]
            /\ \A d \in Creds \ {c} : acc'[d] = acc[d]
        BY <3>1, <3>2 DEF CredsTyped
      <3>4. /\ Accounts!NoRows \in [Platforms -> {"none", "bound"}]
            /\ Accounts!NoRows \in [Platforms -> Accounts!Status]
            /\ [p \in Platforms |-> IF p \in old THEN acc[0][p] ELSE acc[c][p]] \in [Platforms -> Accounts!Status]
        BY <3>2 DEF Accounts!NoRows, Accounts!Status, CredsTyped
      <3>5. acc' \in [0..MaxCreds -> [Platforms -> Accounts!Status]]
        BY <3>1, <3>2, <3>3, <3>4 DEF CredsTyped
      <3>6. CredsTyped'
        BY <3>1, <3>3, <3>4, <3>5 DEF CredsTyped
      <3>7. \A d \in Creds : known[d] \subseteq known'[d] /\ (d = c => old \subseteq known'[d])
        BY <3>1 DEF CredsTyped
      <3>8. \A d \in Creds, p \in Platforms :
               /\ acc'[d][p] = acc[d][p] \/ (d = c /\ p \in old /\ acc'[d][p] = acc[0][p])
        BY <3>3
      <3>9. Accounts!BoundIsKnown'
        BY <3>7, <3>8 DEF Accounts!BoundIsKnown
      <3>10. QED
        BY <2>2, <3>1, <3>6, <3>7, <3>8, <3>9 DEF CredsKept
    <2>5. QED
      BY <2>3, <2>4
  <1> DEFINE Known(h) == /\ carried[h].cred \in 0..MaxCreds /\ carried[h].cred # 0
                         /\ carried[h] \in CallType
                         /\ acc[carried[h].cred] \in [Platforms -> Accounts!Status]
  <1>9. ASSUME NEW h \in Editors, at[h] \notin {"idle", "create"} PROVE Known(h)
    BY <1>9, CredsAssumption DEF CallsTyped, CallKnown, CallType, CredsTyped, Accounts!Creds
  <1>10. ASSUME NEW h \in Editors, Accounts!EnsureRow(h) PROVE CredsKept
    <2>1. CASE acc' = acc
      BY <1>1, <1>10, <2>1 DEF Accounts!EnsureRow, CredsTyped
    <2>2. CASE acc' # acc
      <3>1. PICK p \in Platforms : acc[carried[h].cred][p] = "none" /\ acc' = [acc EXCEPT ![carried[h].cred][p] = "unbound"]
        BY <1>9, <1>10, <2>2 DEF Accounts!EnsureRow, CallType
      <3>2. PICK row : row = [acc[carried[h].cred] EXCEPT ![p] = "unbound"]
        OBVIOUS
      <3>3. Known(h)
        BY <1>9, <1>10 DEF Accounts!EnsureRow
      <3>4. /\ row \in [Platforms -> Accounts!Status]
            /\ acc' = [acc EXCEPT ![carried[h].cred] = row]
            /\ \A q \in Platforms : row[q] = acc[carried[h].cred][q] \/ row[q] = "unbound"
        BY <3>1, <3>2, <3>3 DEF Accounts!Status
      <3>5. UNCHANGED <<cred, known, met>>
        BY <1>10 DEF Accounts!EnsureRow
      <3>6. QED
        BY <1>2, <3>3, <3>4, <3>5 DEF Accounts!Bound
    <2>3. QED
      BY <2>1, <2>2
  <1>11. ASSUME NEW h \in Editors, Accounts!DeleteAccounts(h) PROVE CredsKept
    <2>1. Known(h) /\ cred[carried[h].cred] = "gone"
      BY <1>9, <1>11 DEF Accounts!DeleteAccounts, CallsTyped, CallKnown
    <2>2. Accounts!NoRows \in [Platforms -> Accounts!Status] /\ \A p \in Platforms : Accounts!NoRows[p] = "none"
      BY DEF Accounts!NoRows, Accounts!Status
    <2>3. acc' = [acc EXCEPT ![carried[h].cred] = Accounts!NoRows] /\ UNCHANGED <<cred, known, met>>
      BY <1>11 DEF Accounts!DeleteAccounts, Accounts!Dropped
    <2>4. QED
      BY <1>2, <2>1, <2>2, <2>3 DEF Accounts!Bound
  <1>12. ASSUME NEW h \in Editors, Accounts!SyncRow(h) PROVE CredsKept
    <2>1. CASE acc' = acc
      BY <1>1, <1>12, <2>1 DEF Accounts!SyncRow, CredsTyped
    <2>2. CASE acc' # acc
      <3>1. Known(h) /\ CallKnown(at[h], carried[h])
        BY <1>9, <1>12 DEF Accounts!SyncRow, CallsTyped
      <3>2. PICK p \in Platforms : /\ acc[carried[h].cred][p] # "none"
                                   /\ acc' = [acc EXCEPT ![carried[h].cred][p] = Accounts!Synced(carried[h], p)]
        BY <1>12, <2>2 DEF Accounts!SyncRow
      <3>3. PICK row : row = [acc[carried[h].cred] EXCEPT ![p] = Accounts!Synced(carried[h], p)]
        OBVIOUS
      <3>4. /\ row \in [Platforms -> Accounts!Status]
            /\ acc' = [acc EXCEPT ![carried[h].cred] = row]
            /\ \A q \in Platforms : row[q] = acc[carried[h].cred][q] \/ (row[q] = "bound" /\ q \in carried[h].found)
        BY <3>1, <3>2, <3>3 DEF Accounts!Status, Accounts!Synced
      <3>5. carried[h].found \subseteq known[carried[h].cred]
        BY <3>1 DEF CallKnown
      <3>6. UNCHANGED <<cred, known, met>>
        BY <1>12 DEF Accounts!SyncRow
      <3>7. QED
        BY <1>2, <3>1, <3>4, <3>5, <3>6 DEF Accounts!Bound
    <2>3. QED
      BY <2>1, <2>2
  <1>13. ASSUME NEW h \in Editors, Accounts!ConfirmPending(h) PROVE CredsKept
    <2>1. Known(h)
      BY <1>9, <1>13 DEF Accounts!ConfirmPending
    <2>2. PICK row : row = [p \in Platforms |-> IF p \notin carried[h].todo \/ acc[carried[h].cred][p] = "none"
                                                THEN acc[carried[h].cred][p]
                                                ELSE IF acc[carried[h].cred][p] \in Accounts!Bound THEN "split" ELSE "pending"]
      OBVIOUS
    <2>3. acc' = [acc EXCEPT ![carried[h].cred] = row] /\ UNCHANGED <<cred, known, met>>
      BY <1>13, <2>1, <2>2 DEF Accounts!ConfirmPending, CredsTyped
    <2>4. /\ row \in [Platforms -> Accounts!Status]
          /\ \A p \in Platforms : row[p] \in Accounts!Bound => acc[carried[h].cred][p] \in Accounts!Bound
          /\ \A p \in Platforms : row[p] = "none" => acc[carried[h].cred][p] = "none"
      BY <2>1, <2>2 DEF Accounts!Bound, Accounts!Status
    <2>5. QED
      BY <1>2, <2>1, <2>3, <2>4
  <1>14. ASSUME NEW h \in Editors, Accounts!BindWrite(h) PROVE CredsKept
    <2>1. Known(h)
      BY <1>9, <1>14 DEF Accounts!BindWrite
    <2>2. PICK to \in {"pending", "unbound"} : to = IF carried[h].op = "bind" THEN "pending" ELSE "unbound"
      OBVIOUS
    <2>3. PICK row : row = [p \in Platforms |-> IF p \in carried[h].todo /\ acc[carried[h].cred][p] # "none" THEN to
                                                ELSE acc[carried[h].cred][p]]
      OBVIOUS
    <2>4. acc' = [acc EXCEPT ![carried[h].cred] = row] /\ UNCHANGED <<cred, known, met>>
      BY <1>14, <2>1, <2>2, <2>3 DEF Accounts!BindWrite, CredsTyped
    <2>5. /\ row \in [Platforms -> Accounts!Status]
          /\ \A p \in Platforms : row[p] \in Accounts!Bound => acc[carried[h].cred][p] \in Accounts!Bound
          /\ \A p \in Platforms : row[p] = "none" => acc[carried[h].cred][p] = "none"
      BY <2>1, <2>2, <2>3 DEF Accounts!Bound, Accounts!Status
    <2>6. QED
      BY <1>2, <2>1, <2>4, <2>5
  <1>15. ASSUME NEW c \in Creds, NEW p \in Platforms, Accounts!RemoteLogin(c, p) PROVE CredsKept
    <2>1. known' = [known EXCEPT ![c] = @ \cup {p}] /\ UNCHANGED <<cred, acc, met>>
      BY <1>15 DEF Accounts!RemoteLogin
    <2>2. CredsTyped'
      BY <2>1 DEF CredsTyped
    <2>3. \A d \in Creds : known[d] \subseteq known'[d]
      BY <2>1 DEF CredsTyped
    <2>4. QED
      BY <2>1, <2>2, <2>3 DEF CredsKept, Accounts!BoundIsKnown
  <1>16. ASSUME NEW h \in Editors,
                \/ Accounts!CreateStart(h) \/ Accounts!EnsureRead(h) \/ Accounts!Promote(h) \/ Accounts!SyncFetch(h)
                \/ Accounts!SyncRows(h) \/ Accounts!ConfirmRead(h)
         PROVE  CredsKept
    <2>1. UNCHANGED <<cred, acc, known>>
      BY <1>16 DEF Accounts!CreateStart, Accounts!EnsureRead, Accounts!Promote, Accounts!SyncFetch, Accounts!SyncRows,
         Accounts!ConfirmRead
    <2>2. met' \in BOOLEAN
      BY <1>16 DEF Accounts!CreateStart, Accounts!EnsureRead, Accounts!Promote, Accounts!SyncFetch, Accounts!SyncRows,
         Accounts!ConfirmRead, Accounts!Met, CredsTyped
    <2>3. QED
      BY <1>1, <2>1, <2>2
  <1>17. ASSUME NEW h \in Editors, NEW c \in Creds, NEW p,
                \/ Accounts!Prefer(h, c) \/ Accounts!DeleteStart(h, c) \/ Accounts!List(h, c) \/ Accounts!Confirm(h, c, p)
                \/ Accounts!BindStart(h, c, p) \/ Accounts!UnbindStart(h, c, p)
         PROVE  CredsKept
    <2>1. UNCHANGED <<cred, acc, known>>
      BY <1>17 DEF Accounts!Prefer, Accounts!DeleteStart, Accounts!List, Accounts!Confirm, Accounts!BindStart,
         Accounts!UnbindStart
    <2>2. \E op : met' = Accounts!Met(h, op)
      BY <1>17 DEF Accounts!Prefer, Accounts!DeleteStart, Accounts!List, Accounts!Confirm, Accounts!BindStart,
         Accounts!UnbindStart, Accounts!Start
    <2>3. met' \in BOOLEAN
      BY <2>2 DEF Accounts!Met, CredsTyped
    <2>4. QED
      BY <1>1, <2>1, <2>3
  <1>18. QED
    <2>1. CASE UNCHANGED accounts
      BY <1>1, <2>1 DEF accounts, CredsTyped
    <2>2. QED
      BY <1>4, <1>5, <1>6, <1>7, <1>8, <1>10, <1>11, <1>12, <1>13, <1>14, <1>15, <1>16, <1>17, <2>1
         DEF Accounts!AccountsNext

(***************************************************************************)
(* What calls carry.                                                       *)
(***************************************************************************)
LEMMA CallsStep ==
  ASSUME AccountsInv, [Accounts!AccountsNext]_accounts, CredsKept
  PROVE  CallsTyped'
  <1> USE DEF AccountsInv
  <1> DEFINE Creds == Accounts!Creds
  <1>0. /\ \A c \in Creds : known[c] \subseteq known'[c]
        /\ \A c \in Creds : cred[c] = "gone" => cred'[c] = "gone"
    BY DEF CredsKept
  <1>24. Creds \subseteq 0..MaxCreds
    BY CredsAssumption DEF Accounts!Creds
  <1>1. ASSUME NEW h \in Editors, NEW to \in CallStages, NEW n \in CallType, Accounts!Put(h, to, n), CallKnown(to, n)'
        PROVE  CallsTyped'
    BY <1>0, <1>1, CallsKeep
  <1>2. ASSUME NEW h \in Editors, Accounts!Quit(h) PROVE CallsTyped'
    BY <1>0, <1>2, QuitKeeps
  (* A call that carries nothing from ALQQ goes on with the same.          *)
  <1>3. ASSUME NEW h \in Editors, NEW to \in CallStages, Accounts!Go(h, to), at[h] \notin {"idle", "create", "rows", "sync"},
               to \in Changing => at[h] \in Changing, to # "deleteaccounts" \/ cred'[carried[h].cred] = "gone"
        PROVE  CallsTyped'
    <2>1. PICK n \in CallType : n = carried[h]
      BY DEF CallsTyped
    <2>2. CallKnown(at[h], n)
      BY <2>1 DEF CallsTyped
    <2>3. CallKnown(to, n)'
      BY <1>3, <2>1, <2>2 DEF CallKnown
    <2>4. QED
      BY <1>1, <1>3, <2>1, <2>3 DEF Accounts!Go
  <1> USE DEF CallStages, Changing
  <1>4. ASSUME NEW h \in Editors, Accounts!CreateStart(h) PROVE CallsTyped'
    <2>1. PICK n : n = [Accounts!NoWork EXCEPT !.op = "create", !.first = (Accounts!Rows = {})]
      OBVIOUS
    <2>2. n \in CallType /\ n.op = "create" /\ n.found = {}
      BY <2>1, NoCallKnown DEF CallType
    <2>3. Accounts!Put(h, "create", n)
      BY <1>4, <2>1 DEF Accounts!CreateStart
    <2>4. CallKnown("create", n)'
      BY <2>2 DEF CallKnown, Accounts!Changes
    <2>5. QED
      BY <1>1, <2>2, <2>3, <2>4
  <1>5. ASSUME NEW h \in Editors, Accounts!CreateRow(h) PROVE CallsTyped'
    <2> DEFINE new == {c \in Creds : cred[c] = "none"}
    <2>1. new # {} /\ new \in SUBSET Creds
      BY <1>5 DEF Accounts!CreateRow
    <2>2. PICK c \in Creds : c = (CHOOSE x \in new : \A y \in new : x <= y)
      BY <2>1, SmallestCred
    <2>3. PICK n : n = [carried[h] EXCEPT !.cred = c]
      OBVIOUS
    <2>4. PICK to \in {"clear", "ensure"} : Accounts!Put(h, to, n)
      BY <1>5, <2>2, <2>3 DEF Accounts!CreateRow
    <2>5. PICK k \in CallType : k = carried[h]
      BY DEF CallsTyped
    <2>6. CallKnown("create", k)
      BY <1>5, <2>5 DEF CallsTyped, Accounts!CreateRow
    <2>7. n \in CallType /\ n.op = k.op /\ n.found = k.found /\ n.cred = c
      <3>1. c \in 0..MaxCreds
        BY <1>24
      <3>2. n = [k EXCEPT !.cred = c]
        BY <2>3, <2>5
      <3>3. QED
        BY <3>1, <3>2 DEF CallType
    <2>8. CallKnown(to, n)'
      BY <2>4, <2>6, <2>7 DEF CallKnown
    <2>9. QED
      BY <1>1, <2>4, <2>7, <2>8
  <1>6. ASSUME NEW h \in Editors, Accounts!ClearDefault(h) PROVE CallsTyped'
    BY <1>3, <1>6 DEF Accounts!ClearDefault
  <1>7. ASSUME NEW h \in Editors, Accounts!MarkDefault(h) PROVE CallsTyped'
    BY <1>2, <1>3, <1>7 DEF Accounts!MarkDefault
  <1> DEFINE Same(n, k) == n \in CallType /\ n.op = k.op /\ n.cred = k.cred
  <1>8. ASSUME NEW h \in Editors, Accounts!Adopt(h) PROVE CallsTyped'
    <2>1. PICK k \in CallType : k = carried[h] /\ CallKnown("adopt", k)
      BY <1>8 DEF CallsTyped, Accounts!Adopt
    <2>2. PICK n : n = [k EXCEPT !.first = FALSE]
      OBVIOUS
    <2>3. Accounts!Quit(h) \/ Accounts!Put(h, "ensure", n)
      BY <1>8, <2>1, <2>2 DEF Accounts!Adopt
    <2>4. Same(n, k) /\ n.found = k.found
      BY <2>1, <2>2 DEF CallType
    <2>5. CallKnown("ensure", n)'
      BY <2>1, <2>4 DEF CallKnown
    <2>6. QED
      BY <1>1, <1>2, <2>3, <2>4, <2>5
  <1>9. ASSUME NEW h \in Editors, Accounts!EnsureRead(h) PROVE CallsTyped'
    <2>1. PICK k \in CallType : k = carried[h] /\ CallKnown("ensure", k)
      BY <1>9 DEF CallsTyped, Accounts!EnsureRead
    <2>2. PICK todo \in SUBSET Platforms : Accounts!Put(h, "fill", [k EXCEPT !.todo = todo])
      BY <1>9, <2>1 DEF Accounts!EnsureRead
    <2>3. PICK n : n = [k EXCEPT !.todo = todo]
      OBVIOUS
    <2>4. Same(n, k) /\ n.found = k.found
      BY <2>1, <2>3 DEF CallType
    <2>5. CallKnown("fill", n)'
      BY <2>1, <2>4 DEF CallKnown
    <2>6. QED
      BY <1>1, <2>2, <2>3, <2>4, <2>5
  <1>10. ASSUME NEW h \in Editors, Accounts!EnsureRow(h) PROVE CallsTyped'
    <2>1. PICK k \in CallType : k = carried[h] /\ CallKnown("fill", k)
      BY <1>10 DEF CallsTyped, Accounts!EnsureRow
    <2>2. CASE Accounts!Quit(h) \/ Accounts!Go(h, "session")
      BY <1>2, <1>3, <1>10, <2>2 DEF Accounts!EnsureRow
    <2>3. ASSUME NEW p \in k.todo, Accounts!Put(h, "fill", [k EXCEPT !.todo = @ \ {p}]) PROVE CallsTyped'
      <3>1. PICK n : n = [k EXCEPT !.todo = @ \ {p}]
        OBVIOUS
      <3>2. Same(n, k) /\ n.found = k.found
        BY <2>1, <3>1 DEF CallType
      <3>3. CallKnown("fill", n)'
        BY <2>1, <3>2 DEF CallKnown
      <3>4. QED
        BY <1>1, <2>3, <3>1, <3>2, <3>3
    <2>4. QED
      BY <1>10, <2>1, <2>2, <2>3 DEF Accounts!EnsureRow
  <1>11. ASSUME NEW h \in Editors, Accounts!DeleteRow(h) PROVE CallsTyped'
    <2>1. CASE Accounts!Quit(h)
      BY <1>2, <2>1
    <2>2. CASE Accounts!Go(h, "deleteaccounts") /\ cred' = [cred EXCEPT ![carried[h].cred] = "gone"]
      <3>1. carried[h].cred \in Creds /\ at[h] = "delete"
        BY <1>11 DEF Accounts!DeleteRow, CallsTyped, CallKnown
      <3>2. cred'[carried[h].cred] = "gone"
        BY <2>2, <3>1 DEF CredsTyped
      <3>3. QED
        BY <1>3, <2>2, <3>1, <3>2
    <2>3. QED
      BY <1>11, <2>1, <2>2 DEF Accounts!DeleteRow
  <1>12. ASSUME NEW h \in Editors, Accounts!DeleteAccounts(h) PROVE CallsTyped'
    BY <1>2, <1>3, <1>12 DEF Accounts!DeleteAccounts
  <1>13. ASSUME NEW h \in Editors, Accounts!Promote(h) PROVE CallsTyped'
    <2>1. CASE Accounts!Rows = {}
      BY <1>2, <1>13, <2>1 DEF Accounts!Promote
    <2>2. CASE Accounts!Rows # {}
      <3>1. Accounts!Rows \in SUBSET Creds
        BY DEF Accounts!Rows
      <3>2. PICK c \in Creds : c = (CHOOSE x \in Accounts!Rows : \A y \in Accounts!Rows : x <= y)
        BY <2>2, <3>1, SmallestCred
      <3>3. PICK k \in CallType : k = carried[h] /\ CallKnown("promote", k)
        BY <1>13 DEF CallsTyped, Accounts!Promote
      <3>4. PICK n : n = [k EXCEPT !.cred = c]
        OBVIOUS
      <3>5. Accounts!Put(h, "clear", n)
        BY <1>13, <2>2, <3>2, <3>3, <3>4 DEF Accounts!Promote
      <3>6. n \in CallType /\ n.op = k.op /\ n.found = k.found /\ n.cred = c
        <4>1. c \in 0..MaxCreds
          BY <1>24
        <4>2. QED
          BY <3>3, <3>4, <4>1 DEF CallType
      <3>7. CallKnown("clear", n)'
        BY <3>2, <3>3, <3>6 DEF CallKnown
      <3>8. QED
        BY <1>1, <3>5, <3>6, <3>7
    <2>3. QED
      BY <2>1, <2>2
  <1>14. ASSUME NEW h \in Editors, Accounts!SyncFetch(h) PROVE CallsTyped'
    <2>1. CASE Accounts!Quit(h)
      BY <1>2, <2>1
    <2>2. CASE ~Accounts!Quit(h)
      <3>1. PICK k \in CallType : k = carried[h] /\ CallKnown("session", k)
        BY <1>14 DEF CallsTyped, Accounts!SyncFetch
      <3>2. PICK found \in SUBSET known[k.cred] : Accounts!Put(h, "rows", [k EXCEPT !.found = found])
        BY <1>14, <2>2, <3>1 DEF Accounts!SyncFetch
      <3>3. PICK n : n = [k EXCEPT !.found = found]
        OBVIOUS
      <3>4. k.cred \in Creds
        BY <3>1 DEF CallKnown
      <3>5. found \in SUBSET Platforms
        BY <3>2, <3>4 DEF CredsTyped
      <3>6. Same(n, k) /\ n.found = found
        BY <3>1, <3>3, <3>5 DEF CallType
      <3>7. found \subseteq known'[k.cred]
        BY <1>0, <3>2, <3>4
      <3>8. CallKnown("rows", n)'
        BY <3>4, <3>6, <3>7 DEF CallKnown
      <3>9. QED
        BY <1>1, <3>2, <3>3, <3>6, <3>8
    <2>3. QED
      BY <2>1, <2>2
  <1>15. ASSUME NEW h \in Editors, Accounts!SyncRows(h) PROVE CallsTyped'
    <2>1. PICK k \in CallType : k = carried[h] /\ CallKnown("rows", k)
      BY <1>15 DEF CallsTyped, Accounts!SyncRows
    <2>2. PICK n : n = [k EXCEPT !.rows = acc[k.cred]]
      OBVIOUS
    <2>3. k.cred \in Creds /\ acc[k.cred] \in [Platforms -> Accounts!Status]
      BY <2>1, CredsAssumption DEF CallKnown, CredsTyped, Accounts!Creds
    <2>4. Same(n, k) /\ n.found = k.found
      BY <2>1, <2>2, <2>3 DEF CallType
    <2>5. CallKnown("sync", n)'
      BY <1>0, <2>1, <2>3, <2>4 DEF CallKnown
    <2>6. Accounts!Put(h, "sync", n)
      BY <1>15, <2>1, <2>2 DEF Accounts!SyncRows
    <2>7. QED
      BY <1>1, <2>4, <2>5, <2>6
  <1>16. ASSUME NEW h \in Editors, Accounts!SyncRow(h) PROVE CallsTyped'
    <2>1. PICK k \in CallType : k = carried[h] /\ CallKnown("sync", k)
      BY <1>16 DEF CallsTyped, Accounts!SyncRow
    <2>2. k.cred \in Creds
      BY <2>1 DEF CallKnown
    <2>3. CASE Accounts!Put(h, "latest", [k EXCEPT !.rows = Accounts!NoRows, !.found = {}])
      <3>1. PICK n : n = [k EXCEPT !.rows = Accounts!NoRows, !.found = {}]
        OBVIOUS
      <3>2. Same(n, k) /\ n.found = {}
        BY <2>1, <3>1 DEF CallType, Accounts!NoRows, Accounts!Status
      <3>3. CallKnown("latest", n)'
        BY <2>2, <3>2 DEF CallKnown
      <3>4. QED
        BY <1>1, <2>3, <3>1, <3>2, <3>3
    <2>4. ASSUME NEW p \in Platforms, Accounts!Put(h, "sync", [k EXCEPT !.rows[p] = "none"]) PROVE CallsTyped'
      <3>1. PICK n : n = [k EXCEPT !.rows[p] = "none"]
        OBVIOUS
      <3>2. Same(n, k) /\ n.found = k.found
        BY <2>1, <3>1 DEF CallType, Accounts!Status
      <3>3. CallKnown("sync", n)'
        BY <1>0, <2>1, <2>2, <3>2 DEF CallKnown
      <3>4. QED
        BY <1>1, <2>4, <3>1, <3>2, <3>3
    <2>5. \/ Accounts!Quit(h)
          \/ Accounts!Put(h, "latest", [k EXCEPT !.rows = Accounts!NoRows, !.found = {}])
          \/ \E p \in Platforms : Accounts!Put(h, "sync", [k EXCEPT !.rows[p] = "none"])
      BY <1>16, <2>1 DEF Accounts!SyncRow
    <2>6. QED
      BY <1>2, <2>3, <2>4, <2>5
  <1>17. ASSUME NEW h \in Editors, Accounts!ConfirmRead(h) PROVE CallsTyped'
    BY <1>2, <1>3, <1>17 DEF Accounts!ConfirmRead
  <1>18. ASSUME NEW h \in Editors, Accounts!ConfirmPending(h) \/ Accounts!BindWrite(h) PROVE CallsTyped'
    BY <1>2, <1>18 DEF Accounts!ConfirmPending, Accounts!BindWrite
  <1>19. ASSUME NEW h \in Editors, NEW op \in {"prefer", "list", "confirm", "bind", "unbind"},
                NEW to \in {"clear", "ensure", "session", "write"}, to = "clear" => op = "prefer",
                NEW c \in Creds, NEW todo \in SUBSET Platforms, Accounts!Start(h, op, to, c, todo)
         PROVE  CallsTyped'
    <2>1. PICK n : n = [Accounts!NoWork EXCEPT !.op = op, !.cred = c, !.todo = todo]
      OBVIOUS
    <2>2. n \in CallType /\ n.op = op /\ n.cred = c /\ n.found = {}
      <3>1. PICK w \in CallType : w = Accounts!NoWork /\ w.found = {}
        BY NoCallKnown
      <3>2. c \in 0..MaxCreds
        BY <1>24
      <3>3. n = [w EXCEPT !.op = op, !.cred = c, !.todo = todo]
        BY <2>1, <3>1
      <3>4. QED
        BY <3>1, <3>2, <3>3 DEF CallType
    <2>3. CallKnown(to, n)'
      BY <1>19, <2>2 DEF CallKnown, Accounts!Changes
    <2>4. QED
      BY <1>1, <1>19, <2>1, <2>2, <2>3 DEF Accounts!Start
  <1>20. ASSUME NEW h \in Editors, NEW c \in Creds, Accounts!DeleteStart(h, c) PROVE CallsTyped'
    <2>1. PICK n : n = [Accounts!NoWork EXCEPT !.op = "delete", !.cred = c, !.first = (cred[c] = "default")]
      OBVIOUS
    <2>2. n \in CallType /\ n.op = "delete" /\ n.cred = c /\ n.found = {}
      <3>1. PICK w \in CallType : w = Accounts!NoWork /\ w.found = {}
        BY NoCallKnown
      <3>2. c \in 0..MaxCreds
        BY <1>24
      <3>3. n = [w EXCEPT !.op = "delete", !.cred = c, !.first = (cred[c] = "default")]
        BY <2>1, <3>1
      <3>4. QED
        BY <3>1, <3>2, <3>3 DEF CallType
    <2>3. CallKnown("delete", n)'
      BY <2>2 DEF CallKnown, Accounts!Changes
    <2>4. Accounts!Put(h, "delete", n)
      BY <1>20, <2>1 DEF Accounts!DeleteStart
    <2>5. QED
      BY <1>1, <2>2, <2>3, <2>4
  <1>21. ASSUME UNCHANGED <<at, carried>> PROVE CallsTyped'
    <2>1. ASSUME NEW g \in Editors PROVE CallKnown(at[g], carried[g])'
      <3>1. PICK s, w : s = at[g] /\ w = carried[g] /\ CallKnown(s, w)
        BY DEF CallsTyped
      <3>2. CallKnown(s, w)'
        BY <1>0, <3>1 DEF CallKnown
      <3>3. QED
        BY <1>21, <3>1, <3>2
    <2>2. QED
      BY <1>21, <2>1 DEF CallsTyped
  <1>22. ASSUME NEW h \in Editors, NEW c \in Creds,
                \/ Accounts!Prefer(h, c) \/ Accounts!List(h, c)
                \/ \E p \in Platforms : Accounts!Confirm(h, c, p) \/ Accounts!BindStart(h, c, p) \/ Accounts!UnbindStart(h, c, p)
         PROVE  CallsTyped'
    <2>1. \/ Accounts!Start(h, "prefer", "clear", c, {})
          \/ Accounts!Start(h, "list", "ensure", c, {})
          \/ \E p \in Platforms : \/ Accounts!Start(h, "confirm", "session", c, {p})
                                 \/ Accounts!Start(h, "bind", "write", c, {p})
                                 \/ Accounts!Start(h, "unbind", "write", c, {p})
      BY <1>22 DEF Accounts!Prefer, Accounts!List, Accounts!Confirm, Accounts!BindStart, Accounts!UnbindStart
    <2>2. ASSUME NEW op, NEW to, NEW todo \in SUBSET Platforms, Accounts!Start(h, op, to, c, todo),
                 <<op, to>> \in {<<"prefer", "clear">>, <<"list", "ensure">>, <<"confirm", "session">>,
                                <<"bind", "write">>, <<"unbind", "write">>}
          PROVE  CallsTyped'
      <3>1. /\ op \in {"prefer", "list", "confirm", "bind", "unbind"}
            /\ to \in {"clear", "ensure", "session", "write"}
            /\ to = "clear" => op = "prefer"
        BY <2>2
      <3>2. QED
        BY <1>19, <2>2, <3>1
    <2>3. CASE Accounts!Start(h, "prefer", "clear", c, {})
      BY <2>2, <2>3
    <2>4. CASE Accounts!Start(h, "list", "ensure", c, {})
      BY <2>2, <2>4
    <2>5. ASSUME NEW p \in Platforms PROVE {p} \in SUBSET Platforms
      OBVIOUS
    <2>6. ASSUME NEW p \in Platforms, Accounts!Start(h, "confirm", "session", c, {p}) PROVE CallsTyped'
      BY <2>2, <2>5, <2>6
    <2>7. ASSUME NEW p \in Platforms, Accounts!Start(h, "bind", "write", c, {p}) PROVE CallsTyped'
      BY <2>2, <2>5, <2>7
    <2>8. ASSUME NEW p \in Platforms, Accounts!Start(h, "unbind", "write", c, {p}) PROVE CallsTyped'
      BY <2>2, <2>5, <2>8
    <2>9. QED
      BY <2>1, <2>3, <2>4, <2>6, <2>7, <2>8
  <1>23. QED
    <2>1. CASE UNCHANGED accounts
      BY <1>21, <2>1 DEF accounts
    <2>2. ASSUME NEW c \in Creds, NEW p \in Platforms, Accounts!RemoteLogin(c, p) PROVE CallsTyped'
      BY <1>21, <2>2 DEF Accounts!RemoteLogin
    <2>3. QED
      BY <1>4, <1>5, <1>6, <1>7, <1>8, <1>9, <1>10, <1>11, <1>12, <1>13, <1>14, <1>15, <1>16, <1>17, <1>18, <1>20, <1>22,
         <2>1, <2>2 DEF Accounts!AccountsNext

(***************************************************************************)
(* Changes of credentials that meet no other call.                         *)
(***************************************************************************)
(* What the others leave to the one call that changes credentials.         *)
LEMMA AloneNow ==
  ASSUME AloneInv, CallsTyped, NEW e \in Editors, at[e] \in Changing, ~met
  PROVE  /\ Progress(at[e], carried[e])
         /\ Accounts!Rows = {} \/ (\E d \in Accounts!Creds : Defaults = {d}) \/ Unsettled(at[e], carried[e])
         /\ \A c \in Accounts!Creds : cred[c] = "gone" =>
               acc[c] = Accounts!NoRows \/ (at[e] = "deleteaccounts" /\ carried[e].cred = c)
  <1>1. carried[e].op \in Accounts!Changes /\ at[e] # "idle"
    BY DEF CallsTyped, CallKnown, Changing
  <1>2. \A g \in Editors \ {e} : at[g] = "idle"
    BY <1>1 DEF AloneInv, OneAtATime
  <1>3. \A g \in Editors \ {e} : ~Unsettled(at[g], carried[g]) /\ at[g] # "deleteaccounts"
    BY <1>2 DEF Unsettled
  <1>4. QED
    BY <1>3 DEF AloneInv, OnePreferred, GoneCleared

(* A change of credentials begins.                                         *)
LEMMA AloneBegins ==
  ASSUME AccountsInv, NEW h \in Editors, NEW c, NEW p,
         \/ Accounts!CreateStart(h) \/ Accounts!Prefer(h, c) \/ Accounts!DeleteStart(h, c) \/ Accounts!List(h, c)
         \/ Accounts!Confirm(h, c, p) \/ Accounts!BindStart(h, c, p) \/ Accounts!UnbindStart(h, c, p)
  PROVE  AloneInv'
  <1> USE DEF AccountsInv
  <1>1. PICK w \in CallType : w = Accounts!NoWork /\ ~w.first
    BY NoCallKnown DEF Accounts!NoWork
  <1>2. ASSUME NEW op, NEW to \in {"clear", "ensure", "session", "write"}, NEW todo,
               Accounts!Start(h, op, to, c, todo), UNCHANGED <<cred, acc>>, to \in {"clear", "ensure"} => c \in Accounts!Rows,
               op \in {"prefer", "list", "confirm", "bind", "unbind"}
        PROVE  AloneInv'
    <2>1. PICK n : n = [w EXCEPT !.op = op, !.cred = c, !.todo = todo]
      OBVIOUS
    <2>2. n.op = op /\ n.cred = c /\ ~n.first
      BY <1>1, <2>1 DEF CallType
    <2>3. Accounts!Put(h, to, n) /\ at[h] = "idle" /\ met' = Accounts!Met(h, n.op)
      BY <1>1, <1>2, <2>1, <2>2 DEF Accounts!Start
    <2>4. Progress(to, n)
      BY <1>2, <2>2 DEF Progress, Unsettled
    <2>5. QED
      BY <1>2, <2>3, <2>4, AloneAtStart
  <1>3. CASE Accounts!CreateStart(h)
    <2>1. PICK n : n = [w EXCEPT !.op = "create", !.first = (Accounts!Rows = {})]
      OBVIOUS
    <2>2. n.op = "create" /\ n.first = (Accounts!Rows = {})
      BY <1>1, <2>1 DEF CallType
    <2>3. Accounts!Put(h, "create", n) /\ at[h] = "idle" /\ met' = Accounts!Met(h, n.op)
      BY <1>1, <1>3, <2>1, <2>2 DEF Accounts!CreateStart
    <2>4. Progress("create", n)
      BY <2>2 DEF Progress, Unsettled
    <2>5. UNCHANGED <<cred, acc>>
      BY <1>3 DEF Accounts!CreateStart
    <2>6. QED
      BY <2>3, <2>4, <2>5, AloneAtStart
  <1>4. CASE Accounts!DeleteStart(h, c)
    <2>1. PICK n : n = [w EXCEPT !.op = "delete", !.cred = c, !.first = (cred[c] = "default")]
      OBVIOUS
    <2>2. n.op = "delete" /\ n.cred = c /\ n.first = (cred[c] = "default")
      BY <1>1, <2>1 DEF CallType
    <2>3. Accounts!Put(h, "delete", n) /\ at[h] = "idle" /\ met' = Accounts!Met(h, n.op)
      BY <1>1, <1>4, <2>1, <2>2 DEF Accounts!DeleteStart
    <2>4. Progress("delete", n)
      BY <1>4, <2>2 DEF Progress, Unsettled, Accounts!DeleteStart
    <2>5. UNCHANGED <<cred, acc>>
      BY <1>4 DEF Accounts!DeleteStart
    <2>6. QED
      BY <2>3, <2>4, <2>5, AloneAtStart
  <1>5. CASE Accounts!Prefer(h, c)
    BY <1>2, <1>5 DEF Accounts!Prefer
  <1>6. CASE Accounts!List(h, c)
    BY <1>2, <1>6 DEF Accounts!List
  <1>7. CASE Accounts!Confirm(h, c, p)
    BY <1>2, <1>7 DEF Accounts!Confirm
  <1>8. CASE Accounts!BindStart(h, c, p)
    BY <1>2, <1>8 DEF Accounts!BindStart
  <1>9. CASE Accounts!UnbindStart(h, c, p)
    BY <1>2, <1>9 DEF Accounts!UnbindStart
  <1>10. QED
    BY <1>3, <1>4, <1>5, <1>6, <1>7, <1>8, <1>9

(* A call that leaves the credentials alone goes on.                       *)
LEMMA AloneGoesOn ==
  ASSUME AccountsInv, NEW h \in Editors,
         \/ Accounts!EnsureRead(h) \/ Accounts!EnsureRow(h) \/ Accounts!SyncFetch(h) \/ Accounts!SyncRows(h)
         \/ Accounts!SyncRow(h) \/ Accounts!ConfirmRead(h) \/ Accounts!ConfirmPending(h) \/ Accounts!BindWrite(h)
  PROVE  AloneInv'
  <1> USE DEF AccountsInv
  <1>1. PICK k \in CallType : k = carried[h] /\ CallKnown(at[h], k)
    BY DEF CallsTyped
  <1>2. at[h] \in {"ensure", "fill", "session", "rows", "sync", "latest", "again", "write"}
    BY DEF Accounts!EnsureRead, Accounts!EnsureRow, Accounts!SyncFetch, Accounts!SyncRows, Accounts!SyncRow,
       Accounts!ConfirmRead, Accounts!ConfirmPending, Accounts!BindWrite
  <1>3. k.cred \in 0..MaxCreds /\ acc[k.cred] \in [Platforms -> Accounts!Status]
    BY <1>1 DEF CallType, CredsTyped
  <1>4. UNCHANGED <<cred, met>>
    BY DEF Accounts!EnsureRead, Accounts!EnsureRow, Accounts!SyncFetch, Accounts!SyncRows, Accounts!SyncRow,
       Accounts!ConfirmRead, Accounts!ConfirmPending, Accounts!BindWrite
  <1> DEFINE GoneStay == \A c \in Accounts!Creds : cred[c] = "gone" /\ acc[c] = Accounts!NoRows => acc'[c] = Accounts!NoRows
  <1>5. ASSUME NEW to \in {"idle", "fill", "session", "rows", "sync", "latest", "again"}, NEW n, Accounts!Put(h, to, n),
               to # "idle" => n.op = k.op,
               to = "fill" => n.cred = k.cred /\ at[h] \in {"ensure", "fill"},
               ~met => GoneStay
        PROVE  AloneInv'
    <2>1. ~Unsettled(at[h], k)
      BY <1>2 DEF Unsettled
    <2>2. ~met => Progress(at[h], k)
      BY <1>1 DEF AloneInv
    <2>3. ~met => Progress(to, n)
      BY <1>5, <2>2 DEF Progress, Unsettled
    <2>4. at[h] # "idle" /\ at[h] # "deleteaccounts"
      BY <1>2
    <2>5. to # "idle" => n.op = carried[h].op
      BY <1>1, <1>5
    <2>6. ~Unsettled(at[h], carried[h])
      BY <1>1, <2>1
    <2>7. QED
      BY <1>4, <1>5, <2>3, <2>4, <2>5, <2>6, AloneBeside
  <1>6. ASSUME Accounts!Quit(h), ~met => GoneStay PROVE AloneInv'
    BY <1>5, <1>6 DEF Accounts!Quit
  <1>7. CASE Accounts!EnsureRead(h)
    <2>1. PICK todo : Accounts!Put(h, "fill", [k EXCEPT !.todo = todo])
      BY <1>1, <1>7 DEF Accounts!EnsureRead
    <2>2. PICK n : n = [k EXCEPT !.todo = todo]
      OBVIOUS
    <2>3. n.op = k.op /\ n.cred = k.cred
      BY <1>1, <2>2 DEF CallType
    <2>4. GoneStay /\ at[h] = "ensure"
      BY <1>7 DEF Accounts!EnsureRead
    <2>5. QED
      BY <1>5, <2>1, <2>2, <2>3, <2>4
  <1>8. CASE Accounts!EnsureRow(h)
    <2>1. ~met => k.cred \in Accounts!Rows
      BY <1>1, <1>8 DEF AloneInv, Progress, Accounts!EnsureRow
    <2>2. acc' = acc \/ \E p \in Platforms : acc' = [acc EXCEPT ![k.cred][p] = "unbound"]
      BY <1>1, <1>8 DEF Accounts!EnsureRow, CallType
    <2>3. ASSUME NEW c \in Accounts!Creds, c # k.cred PROVE acc'[c] = acc[c]
      <3>1. c \in 0..MaxCreds
        BY CredsAssumption DEF Accounts!Creds
      <3>2. QED
        BY <2>2, <2>3, <3>1 DEF CredsTyped
    <2>4. ~met => GoneStay
      BY <2>1, <2>3 DEF Accounts!Rows
    <2>5. Accounts!Quit(h) \/ Accounts!Put(h, "session", k) \/ \E p : Accounts!Put(h, "fill", [k EXCEPT !.todo = @ \ {p}])
      BY <1>1, <1>8 DEF Accounts!EnsureRow, Accounts!Go
    <2>6. ASSUME NEW p, Accounts!Put(h, "fill", [k EXCEPT !.todo = @ \ {p}]) PROVE AloneInv'
      <3>1. PICK n : n = [k EXCEPT !.todo = @ \ {p}]
        OBVIOUS
      <3>2. n.op = k.op /\ n.cred = k.cred
        BY <1>1, <3>1 DEF CallType
      <3>3. at[h] = "fill"
        BY <1>8 DEF Accounts!EnsureRow
      <3>4. QED
        BY <1>5, <2>4, <2>6, <3>1, <3>2, <3>3
    <2>7. QED
      BY <1>5, <1>6, <2>4, <2>5, <2>6
  <1>9. CASE Accounts!SyncFetch(h)
    <2>1. GoneStay
      BY <1>9 DEF Accounts!SyncFetch
    <2>2. Accounts!Quit(h) \/ \E found : Accounts!Put(h, "rows", [k EXCEPT !.found = found])
      BY <1>1, <1>9 DEF Accounts!SyncFetch
    <2>3. ASSUME NEW found, Accounts!Put(h, "rows", [k EXCEPT !.found = found]) PROVE AloneInv'
      <3>1. PICK n : n = [k EXCEPT !.found = found]
        OBVIOUS
      <3>2. n.op = k.op
        BY <1>1, <3>1 DEF CallType
      <3>3. QED
        BY <1>5, <2>1, <2>3, <3>1, <3>2
    <2>4. QED
      BY <1>6, <2>1, <2>2, <2>3
  <1>10. CASE Accounts!SyncRows(h)
    <2>1. GoneStay
      BY <1>10 DEF Accounts!SyncRows
    <2>2. PICK n : n = [k EXCEPT !.rows = acc[k.cred]]
      OBVIOUS
    <2>3. n.op = k.op
      BY <1>1, <2>2 DEF CallType
    <2>4. Accounts!Put(h, "sync", n)
      BY <1>1, <1>10, <2>2 DEF Accounts!SyncRows
    <2>5. QED
      BY <1>5, <2>1, <2>3, <2>4
  <1>11. CASE Accounts!SyncRow(h)
    <2>1. acc' = acc \/ \E p \in Platforms : /\ acc[k.cred][p] # "none"
                                             /\ acc' = [acc EXCEPT ![k.cred][p] = Accounts!Synced(k, p)]
      BY <1>1, <1>11 DEF Accounts!SyncRow
    <2>2. ASSUME NEW c \in Accounts!Creds, acc[c] = Accounts!NoRows PROVE acc'[c] = acc[c]
      <3>1. c \in 0..MaxCreds
        BY CredsAssumption DEF Accounts!Creds
      <3>2. CASE c # k.cred
        BY <2>1, <3>1, <3>2 DEF CredsTyped
      <3>3. CASE c = k.cred
        BY <2>1, <2>2, <3>3 DEF Accounts!NoRows
      <3>4. QED
        BY <3>2, <3>3
    <2>3. GoneStay
      BY <2>2
    <2>4. \/ Accounts!Quit(h)
          \/ Accounts!Put(h, "latest", [k EXCEPT !.rows = Accounts!NoRows, !.found = {}])
          \/ \E p \in Platforms : Accounts!Put(h, "sync", [k EXCEPT !.rows[p] = "none"])
      BY <1>1, <1>11 DEF Accounts!SyncRow
    <2>5. CASE Accounts!Put(h, "latest", [k EXCEPT !.rows = Accounts!NoRows, !.found = {}])
      <3>1. PICK n : n = [k EXCEPT !.rows = Accounts!NoRows, !.found = {}]
        OBVIOUS
      <3>2. n.op = k.op
        BY <1>1, <3>1 DEF CallType
      <3>3. QED
        BY <1>5, <2>3, <2>5, <3>1, <3>2
    <2>6. ASSUME NEW p \in Platforms, Accounts!Put(h, "sync", [k EXCEPT !.rows[p] = "none"]) PROVE AloneInv'
      <3>1. PICK n : n = [k EXCEPT !.rows[p] = "none"]
        OBVIOUS
      <3>2. n.op = k.op
        BY <1>1, <3>1 DEF CallType
      <3>3. QED
        BY <1>5, <2>3, <2>6, <3>1, <3>2
    <2>7. QED
      BY <1>6, <2>3, <2>4, <2>5, <2>6
  <1>12. CASE Accounts!ConfirmRead(h)
    <2>1. GoneStay
      BY <1>12 DEF Accounts!ConfirmRead
    <2>2. Accounts!Quit(h) \/ Accounts!Put(h, "again", k)
      BY <1>1, <1>12 DEF Accounts!ConfirmRead, Accounts!Go
    <2>3. QED
      BY <1>5, <1>6, <2>1, <2>2
  <1>13. ASSUME NEW row, acc' = [acc EXCEPT ![k.cred] = row], acc[k.cred] = Accounts!NoRows => row = Accounts!NoRows
         PROVE  GoneStay
    BY <1>13, CredsAssumption DEF CredsTyped, Accounts!Creds
  <1>14. CASE Accounts!ConfirmPending(h)
    <2>1. PICK row : row = [p \in Platforms |-> IF p \notin k.todo \/ acc[k.cred][p] = "none"
                                                THEN acc[k.cred][p]
                                                ELSE IF acc[k.cred][p] \in Accounts!Bound THEN "split" ELSE "pending"]
      OBVIOUS
    <2>2. acc' = [acc EXCEPT ![k.cred] = row]
      BY <1>1, <1>3, <1>14, <2>1 DEF Accounts!ConfirmPending, CredsTyped
    <2>3. acc[k.cred] = Accounts!NoRows => row = Accounts!NoRows
      BY <2>1 DEF Accounts!NoRows
    <2>4. GoneStay
      BY <1>13, <2>2, <2>3
    <2>5. QED
      BY <1>6, <1>14, <2>4 DEF Accounts!ConfirmPending
  <1>15. CASE Accounts!BindWrite(h)
    <2>1. PICK to : to = IF k.op = "bind" THEN "pending" ELSE "unbound"
      OBVIOUS
    <2>2. PICK row : row = [p \in Platforms |-> IF p \in k.todo /\ acc[k.cred][p] # "none" THEN to ELSE acc[k.cred][p]]
      OBVIOUS
    <2>3. acc' = [acc EXCEPT ![k.cred] = row]
      BY <1>1, <1>3, <1>15, <2>1, <2>2 DEF Accounts!BindWrite, CredsTyped
    <2>4. acc[k.cred] = Accounts!NoRows => row = Accounts!NoRows
      BY <2>2 DEF Accounts!NoRows
    <2>5. GoneStay
      BY <1>13, <2>3, <2>4
    <2>6. QED
      BY <1>6, <1>15, <2>5 DEF Accounts!BindWrite
  <1>16. QED
    BY <1>7, <1>8, <1>9, <1>10, <1>11, <1>12, <1>14, <1>15

(* A call that changes the credentials takes a step.                       *)
LEMMA AloneChanges ==
  ASSUME AccountsInv, CredsTyped', NEW h \in Editors,
         \/ Accounts!CreateRow(h) \/ Accounts!ClearDefault(h) \/ Accounts!MarkDefault(h) \/ Accounts!Adopt(h)
         \/ Accounts!DeleteRow(h) \/ Accounts!DeleteAccounts(h) \/ Accounts!Promote(h)
  PROVE  AloneInv'
  <1> USE DEF AccountsInv
  <1> DEFINE Creds == Accounts!Creds
  <1>1. PICK k \in CallType : k = carried[h] /\ CallKnown(at[h], k)
    BY DEF CallsTyped
  <1>2. PICK s \in Changing : s = at[h]
    BY DEF Accounts!CreateRow, Accounts!ClearDefault, Accounts!MarkDefault, Accounts!Adopt, Accounts!DeleteRow,
       Accounts!DeleteAccounts, Accounts!Promote, Changing
  <1> DEFINE Preferred == Accounts!Rows = {} \/ (\E d \in Creds : Defaults = {d})
  <1>3. ~met => /\ Progress(s, k)
                /\ Preferred \/ Unsettled(s, k)
                /\ \A c \in Creds : cred[c] = "gone" => acc[c] = Accounts!NoRows \/ (s = "deleteaccounts" /\ k.cred = c)
    BY <1>1, <1>2, AloneNow
  <1> DEFINE Clean(to, n) == \A c \in Creds : cred'[c] = "gone" =>
                                acc'[c] = Accounts!NoRows \/ (to = "deleteaccounts" /\ n.cred = c)
  <1>4. ASSUME NEW to, NEW n, Accounts!Put(h, to, n), met' = met,
               ~met => Progress(to, n)' /\ (Preferred' \/ Unsettled(to, n)) /\ Clean(to, n)
        PROVE  AloneInv'
    BY <1>2, <1>4, AloneStep
  <1>5. ASSUME Accounts!Quit(h), met' = met, ~met => Preferred' /\ \A c \in Creds : cred'[c] = "gone" => acc'[c] = Accounts!NoRows
        PROVE  AloneInv'
    <2>1. Progress("idle", Accounts!NoWork)'
      BY DEF Progress, Unsettled
    <2>2. QED
      BY <1>4, <1>5, <2>1 DEF Accounts!Quit
  <1>6. CASE Accounts!CreateRow(h)
    <2> DEFINE new == {c \in Creds : cred[c] = "none"}
    <2>1. new # {} /\ new \in SUBSET Creds
      BY <1>6 DEF Accounts!CreateRow
    <2>2. PICK c \in new : c = (CHOOSE x \in new : \A y \in new : x <= y)
      BY <2>1, SmallestCred
    <2>3. PICK n : n = [k EXCEPT !.cred = c]
      OBVIOUS
    <2>4. n.cred = c /\ n.first = k.first
      BY <1>1, <2>3 DEF CallType
    <2>5. s = "create" /\ UNCHANGED <<acc, met>>
      BY <1>2, <1>6 DEF Accounts!CreateRow
    <2>6. \/ cred' = [cred EXCEPT ![c] = "default"] /\ Accounts!Put(h, "clear", n)
          \/ ~k.first /\ cred' = [cred EXCEPT ![c] = "plain"] /\ Accounts!Put(h, "ensure", n)
      BY <1>1, <1>6, <2>2, <2>3 DEF Accounts!CreateRow, CallType
    <2>7. c \in Creds /\ cred[c] = "none"
      BY <2>2
    <2>8. ~met => k.first = (Accounts!Rows = {}) /\ ~Unsettled(s, k)
      BY <1>3, <2>5 DEF Progress, Unsettled
    <2>9. CASE cred' = [cred EXCEPT ![c] = "default"] /\ Accounts!Put(h, "clear", n)
      <3>1. cred'[c] = "default" /\ \A d \in Creds \ {c} : cred'[d] = cred[d]
        BY <2>7, <2>9 DEF CredsTyped
      <3>2. Progress("clear", n)'
        BY <2>4, <2>7, <3>1 DEF Progress, Unsettled, Accounts!Rows
      <3>3. ~met => Clean("clear", n)
        BY <1>3, <2>5, <3>1
      <3>4. QED
        BY <1>4, <2>5, <2>9, <3>2, <3>3 DEF Unsettled
    <2>10. CASE ~k.first /\ cred' = [cred EXCEPT ![c] = "plain"] /\ Accounts!Put(h, "ensure", n)
      <3>1. cred'[c] = "plain" /\ \A d \in Creds \ {c} : cred'[d] = cred[d]
        BY <2>7, <2>10 DEF CredsTyped
      <3>2. Progress("ensure", n)'
        BY <2>4, <2>7, <3>1 DEF Progress, Unsettled, Accounts!Rows
      <3>3. ~met => Clean("ensure", n)
        BY <1>3, <2>5, <3>1
      <3>4. Defaults' = Defaults
        BY <2>7, <3>1 DEF Defaults
      <3>5. ~met => Preferred'
        BY <1>3, <2>8, <2>10, <3>4
      <3>6. QED
        BY <1>4, <2>5, <2>10, <3>2, <3>3, <3>5
    <2>11. QED
      BY <2>6, <2>9, <2>10
  <1>7. CASE Accounts!ClearDefault(h)
    <2>1. s = "clear" /\ UNCHANGED <<acc, met>> /\ Accounts!Put(h, "mark", k)
      BY <1>1, <1>2, <1>7 DEF Accounts!ClearDefault, Accounts!Go
    <2>2. \A c \in Creds : cred'[c] = IF cred[c] = "default" THEN "plain" ELSE cred[c]
      BY <1>7 DEF Accounts!ClearDefault, Accounts!Cleared
    <2>3. Defaults' = {} /\ Accounts!Rows' = Accounts!Rows
      BY <2>2 DEF Defaults, Accounts!Rows
    <2>4. ~met => Progress("mark", k)'
      BY <1>3, <2>1, <2>3 DEF Progress, Unsettled
    <2>5. ~met => Clean("mark", k)
      BY <1>3, <2>1, <2>2
    <2>6. QED
      BY <1>4, <2>1, <2>4, <2>5 DEF Unsettled
  <1>8. CASE Accounts!MarkDefault(h)
    <2>1. s = "mark" /\ UNCHANGED <<acc, met>>
      BY <1>2, <1>8 DEF Accounts!MarkDefault
    <2>2. CASE k.cred \notin Accounts!Rows
      <3>1. met /\ Accounts!Quit(h)
        BY <1>1, <1>3, <1>8, <2>1, <2>2 DEF Progress, Accounts!MarkDefault
      <3>2. QED
        BY <1>5, <2>1, <3>1
    <2>3. CASE k.cred \in Accounts!Rows
      <3>1. k.cred \in Creds /\ cred' = [cred EXCEPT ![k.cred] = "default"]
        BY <1>1, <1>8, <2>3 DEF Accounts!MarkDefault, Accounts!Rows
      <3>2. cred'[k.cred] = "default" /\ \A d \in Creds \ {k.cred} : cred'[d] = cred[d]
        BY <3>1 DEF CredsTyped
      <3>3. ~met => Defaults = {}
        BY <1>3, <2>1 DEF Progress, Unsettled
      <3>4. ~met => Defaults' = {k.cred}
        BY <3>1, <3>2, <3>3 DEF Defaults
      <3>5. ~met => \A c \in Creds : cred'[c] = "gone" => acc'[c] = Accounts!NoRows
        BY <1>3, <2>1, <3>2
      <3>6. ~met => Preferred'
        BY <3>1, <3>4
      <3>7. \/ Accounts!Quit(h)
            \/ Accounts!Put(h, "adopt", k)
            \/ Accounts!Put(h, "ensure", k)
        BY <1>1, <1>8, <2>3 DEF Accounts!MarkDefault, Accounts!Go
      <3>8. Progress("adopt", k)' /\ Progress("ensure", k)'
        BY <3>1, <3>2 DEF Progress, Unsettled, Accounts!Rows
      <3>9. QED
        BY <1>4, <1>5, <2>1, <3>5, <3>6, <3>7, <3>8
    <2>4. QED
      BY <2>2, <2>3
  <1>9. CASE Accounts!Adopt(h)
    <2>1. s = "adopt" /\ UNCHANGED <<cred, met>>
      BY <1>2, <1>9 DEF Accounts!Adopt
    <2>2. PICK n : n = [k EXCEPT !.first = FALSE]
      OBVIOUS
    <2>3. n.cred = k.cred
      BY <1>1, <2>2 DEF CallType
    <2>4. Accounts!Quit(h) \/ Accounts!Put(h, "ensure", n)
      BY <1>1, <1>9, <2>2 DEF Accounts!Adopt
    <2>5. acc' = acc \/ \E row : acc' = [acc EXCEPT ![0] = Accounts!NoRows, ![k.cred] = row]
      BY <1>1, <1>9 DEF Accounts!Adopt
    <2>6. ASSUME NEW c \in Creds, c # k.cred PROVE acc'[c] = acc[c]
      <3>1. c \in 0..MaxCreds /\ c # 0
        BY CredsAssumption DEF Accounts!Creds
      <3>2. QED
        BY <2>5, <2>6, <3>1 DEF CredsTyped
    <2>7. ~met => k.cred \in Accounts!Rows /\ Preferred
      BY <1>3, <2>1 DEF Progress, Unsettled
    <2>8. Defaults' = Defaults /\ Accounts!Rows' = Accounts!Rows
      BY <2>1 DEF Defaults, Accounts!Rows
    <2>9. ~met => \A c \in Creds : cred'[c] = "gone" => acc'[c] = Accounts!NoRows
      BY <1>3, <2>1, <2>6, <2>7 DEF Accounts!Rows
    <2>10. ~met => Progress("ensure", n)'
      BY <2>3, <2>7, <2>8 DEF Progress, Unsettled
    <2>11. ~met => Preferred'
      BY <2>7, <2>8
    <2>12. QED
      BY <1>4, <1>5, <2>1, <2>4, <2>9, <2>10, <2>11
  <1>10. CASE Accounts!DeleteRow(h)
    <2>1. s = "delete" /\ UNCHANGED <<acc, met>>
      BY <1>2, <1>10 DEF Accounts!DeleteRow
    <2>2. CASE k.cred \notin Accounts!Rows
      <3>1. met /\ Accounts!Quit(h)
        BY <1>1, <1>3, <1>10, <2>1, <2>2 DEF Progress, Accounts!DeleteRow
      <3>2. QED
        BY <1>5, <2>1, <3>1
    <2>3. CASE k.cred \in Accounts!Rows
      <3>1. k.cred \in Creds /\ cred' = [cred EXCEPT ![k.cred] = "gone"] /\ Accounts!Put(h, "deleteaccounts", k)
        BY <1>1, <1>10, <2>3 DEF Accounts!DeleteRow, Accounts!Rows, Accounts!Go
      <3>2. cred'[k.cred] = "gone" /\ \A d \in Creds \ {k.cred} : cred'[d] = cred[d]
        BY <3>1 DEF CredsTyped
      <3>3. ~met => Preferred /\ k.first = (cred[k.cred] = "default")
        BY <1>3, <2>1 DEF Progress, Unsettled
      <3>4. ~met => \E d \in Creds : Defaults = {d}
        BY <2>3, <3>3
      <3>5. Defaults' = Defaults \ {k.cred}
        BY <3>1, <3>2 DEF Defaults
      <3>6. k.first \in BOOLEAN
        BY <1>1 DEF CallType
      <3>7. ASSUME ~met, k.first PROVE Defaults' = {}
        BY <3>1, <3>3, <3>4, <3>5, <3>7 DEF Defaults
      <3>8. ASSUME ~met, ~k.first PROVE \E d \in Creds : Defaults' = {d}
        <4>1. k.cred \notin Defaults
          BY <3>3, <3>8 DEF Defaults
        <4>2. QED
          BY <3>4, <3>5, <3>8, <4>1
      <3>9. ~met => Progress("deleteaccounts", k)'
        BY <3>7 DEF Progress, Unsettled
      <3>10. ~met => (\E d \in Creds : Defaults' = {d}) \/ Unsettled("deleteaccounts", k)
        BY <3>8 DEF Unsettled
      <3>11. ~met => Clean("deleteaccounts", k)
        BY <1>3, <2>1, <3>2
      <3>12. QED
        BY <1>4, <2>1, <3>1, <3>9, <3>10, <3>11
    <2>4. QED
      BY <2>2, <2>3
  <1>11. CASE Accounts!DeleteAccounts(h)
    <2>1. s = "deleteaccounts" /\ UNCHANGED <<cred, met>>
      BY <1>2, <1>11 DEF Accounts!DeleteAccounts
    <2>2. acc' = [acc EXCEPT ![k.cred] = Accounts!NoRows]
      BY <1>1, <1>11 DEF Accounts!DeleteAccounts, Accounts!Dropped
    <2>3. ASSUME NEW c \in Creds PROVE acc'[c] = IF c = k.cred THEN Accounts!NoRows ELSE acc[c]
      <3>1. c \in 0..MaxCreds
        BY CredsAssumption DEF Accounts!Creds
      <3>2. QED
        BY <2>2, <3>1 DEF CredsTyped
    <2>4. ~met => \A c \in Creds : cred'[c] = "gone" => acc'[c] = Accounts!NoRows
      BY <1>3, <2>1, <2>3
    <2>5. Defaults' = Defaults /\ Accounts!Rows' = Accounts!Rows
      BY <2>1 DEF Defaults, Accounts!Rows
    <2>6. \/ k.first /\ Accounts!Put(h, "promote", k)
          \/ ~k.first /\ Accounts!Quit(h)
      BY <1>1, <1>11 DEF Accounts!DeleteAccounts, Accounts!Go, CallType
    <2>7. ASSUME ~met, k.first PROVE Progress("promote", k)'
      BY <1>3, <2>1, <2>5, <2>7 DEF Progress, Unsettled
    <2>8. ASSUME ~met, ~k.first PROVE Preferred'
      BY <1>3, <2>1, <2>5, <2>8 DEF Unsettled
    <2>9. Unsettled("promote", k)
      BY DEF Unsettled
    <2>10. CASE k.first /\ Accounts!Put(h, "promote", k)
      BY <1>4, <2>1, <2>4, <2>7, <2>9, <2>10
    <2>11. CASE ~k.first /\ Accounts!Quit(h)
      BY <1>5, <2>1, <2>4, <2>8, <2>11
    <2>12. QED
      BY <2>6, <2>10, <2>11
  <1>12. CASE Accounts!Promote(h)
    <2>1. s = "promote" /\ UNCHANGED <<cred, acc, met>>
      BY <1>2, <1>12 DEF Accounts!Promote
    <2>2. Defaults' = Defaults /\ Accounts!Rows' = Accounts!Rows
      BY <2>1 DEF Defaults, Accounts!Rows
    <2>3. ~met => \A c \in Creds : cred'[c] = "gone" => acc'[c] = Accounts!NoRows
      BY <1>3, <2>1
    <2>4. CASE Accounts!Rows = {}
      <3>1. Accounts!Quit(h)
        BY <1>12, <2>4 DEF Accounts!Promote
      <3>2. QED
        BY <1>5, <2>1, <2>2, <2>3, <2>4, <3>1
    <2>5. CASE Accounts!Rows # {}
      <3>1. Accounts!Rows \in SUBSET Creds
        BY DEF Accounts!Rows
      <3>2. PICK c \in Accounts!Rows : c = (CHOOSE x \in Accounts!Rows : \A y \in Accounts!Rows : x <= y)
        BY <2>5, <3>1, SmallestCred
      <3>3. PICK n : n = [k EXCEPT !.cred = c]
        OBVIOUS
      <3>4. n.cred = c
        BY <1>1, <3>3 DEF CallType
      <3>5. Accounts!Put(h, "clear", n)
        BY <1>1, <1>12, <2>5, <3>2, <3>3 DEF Accounts!Promote
      <3>6. Progress("clear", n)'
        BY <2>2, <3>2, <3>4 DEF Progress, Unsettled
      <3>7. QED
        BY <1>4, <2>1, <2>3, <3>5, <3>6 DEF Unsettled
    <2>6. QED
      BY <2>4, <2>5
  <1>13. QED
    BY <1>6, <1>7, <1>8, <1>9, <1>10, <1>11, <1>12

LEMMA AccountsStart == Accounts!AccountsInit => AccountsInv
  <1> SUFFICES ASSUME Accounts!AccountsInit PROVE AccountsInv
    OBVIOUS
  <1> USE DEF Accounts!AccountsInit
  <1> DEFINE Creds == Accounts!Creds
  <1>1. Creds \subseteq 0..MaxCreds /\ 0 \notin Creds /\ 0 \in 0..MaxCreds
    BY CredsAssumption DEF Accounts!Creds
  <1>2. CredsTyped
    BY <1>1 DEF CredsTyped, Accounts!Status
  <1>3. Accounts!BoundIsKnown
    BY <1>1 DEF Accounts!BoundIsKnown, Accounts!Bound
  <1>4. CallsTyped
    BY NoCallKnown DEF CallsTyped, CallStages, CallKnown, Changing
  <1>5. Accounts!Rows = {}
    BY DEF Accounts!Rows
  <1>6. AloneInv
    BY <1>5 DEF AloneInv, OneAtATime, OnePreferred, GoneCleared, Progress, Unsettled
  <1>7. QED
    BY <1>2, <1>3, <1>4, <1>6 DEF AccountsInv

LEMMA AccountsStep == AccountsInv /\ [Accounts!AccountsNext]_accounts => AccountsInv' /\ CredsKept
  <1> SUFFICES ASSUME AccountsInv, [Accounts!AccountsNext]_accounts PROVE AccountsInv' /\ CredsKept
    OBVIOUS
  <1>1. CredsKept
    BY CredsStep
  <1>2. CallsTyped'
    BY <1>1, CallsStep
  <1>3. CredsTyped'
    BY <1>1 DEF CredsKept
  <1>4. ASSUME UNCHANGED <<cred, acc, at, carried, met>> PROVE AloneInv'
    BY <1>4 DEF AccountsInv, AloneInv, OneAtATime, OnePreferred, GoneCleared, Progress, Unsettled, Defaults, Accounts!Rows
  <1>5. AloneInv'
    <2>1. CASE UNCHANGED accounts
      BY <1>4, <2>1 DEF accounts
    <2>2. ASSUME NEW c, NEW p, Accounts!RemoteLogin(c, p) PROVE AloneInv'
      BY <1>4, <2>2 DEF Accounts!RemoteLogin
    <2>3. ASSUME NEW h \in Editors, NEW c, NEW p,
                 \/ Accounts!CreateStart(h) \/ Accounts!Prefer(h, c) \/ Accounts!DeleteStart(h, c) \/ Accounts!List(h, c)
                 \/ Accounts!Confirm(h, c, p) \/ Accounts!BindStart(h, c, p) \/ Accounts!UnbindStart(h, c, p)
          PROVE  AloneInv'
      BY <2>3, AloneBegins
    <2>4. ASSUME NEW h \in Editors,
                 \/ Accounts!EnsureRead(h) \/ Accounts!EnsureRow(h) \/ Accounts!SyncFetch(h) \/ Accounts!SyncRows(h)
                 \/ Accounts!SyncRow(h) \/ Accounts!ConfirmRead(h) \/ Accounts!ConfirmPending(h) \/ Accounts!BindWrite(h)
          PROVE  AloneInv'
      BY <2>4, AloneGoesOn
    <2>5. ASSUME NEW h \in Editors,
                 \/ Accounts!CreateRow(h) \/ Accounts!ClearDefault(h) \/ Accounts!MarkDefault(h) \/ Accounts!Adopt(h)
                 \/ Accounts!DeleteRow(h) \/ Accounts!DeleteAccounts(h) \/ Accounts!Promote(h)
          PROVE  AloneInv'
      BY <1>3, <2>5, AloneChanges
    <2>6. QED
      BY <2>1, <2>2, <2>3, <2>4, <2>5 DEF Accounts!AccountsNext
  <1>6. QED
    BY <1>1, <1>2, <1>3, <1>5 DEF AccountsInv, CredsKept

LEMMA AccountsInvSafe ==
  ASSUME AccountsInv
  PROVE  Accounts!AccountsTypeOK /\ Accounts!OneDefault /\ Accounts!BoundIsKnown
  <1> USE DEF AccountsInv
  <1>1. Accounts!AccountsTypeOK
    <2>1. ASSUME NEW h \in Editors, carried[h].cred = 0 PROVE at[h] \in {"idle", "create"}
      BY <2>1, CredsAssumption DEF CallsTyped, CallKnown, Accounts!Creds
    <2>2. QED
      BY <2>1 DEF Accounts!AccountsTypeOK, CredsTyped
  <1>2. ASSUME ~met, Accounts!Quiet
        PROVE  /\ Accounts!Rows # {} => Accounts!Cardinality({c \in Accounts!Creds : cred[c] = "default"}) = 1
               /\ \A c \in Accounts!Creds : cred[c] = "gone" => acc[c] = Accounts!NoRows
    <2>1. \A h \in Editors : ~Unsettled(at[h], carried[h]) /\ at[h] # "deleteaccounts"
      BY <1>2 DEF Accounts!Quiet, Unsettled
    <2>2. Accounts!Rows # {} => \E d \in Accounts!Creds : Defaults = {d}
      BY <1>2, <2>1 DEF AloneInv, OnePreferred
    <2>3. \A d : Cardinality({d}) = 1
      BY FS_Singleton
    <2>4. Accounts!Rows # {} => Accounts!Cardinality(Defaults) = 1
      BY <2>2, <2>3 DEF Cardinality, Accounts!Cardinality
    <2>5. QED
      BY <1>2, <2>1, <2>4 DEF Defaults, AloneInv, GoneCleared
  <1>3. QED
    BY <1>1, <1>2 DEF Accounts!OneDefault

(* Calls that change credentials one at a time leave one default, or no    *)
(* credential; an account is bound only under a key that ALQQ had that     *)
(* platform for; and an account goes only with its credential, whatever    *)
(* calls are under way together (PublisherService's credentials and        *)
(* syncFromAlqq).                                                          *)
THEOREM AccountsAlwaysSound == AuthorSpec => AccountsSound
  <1>1. AuthorInit => AccountsInv
    BY AccountsStart DEF AuthorInit
  <1>2. [AuthorNext]_<<part, mediaVars, accounts>> => [Accounts!AccountsNext]_accounts
    BY AuthorParts
  <1>3. AccountsInv /\ [AuthorNext]_<<part, mediaVars, accounts>> => AccountsInv' /\ CredsKept
    BY <1>2, AccountsStep
  <1>4. AccountsInv => Accounts!AccountsTypeOK /\ Accounts!OneDefault /\ Accounts!BoundIsKnown
    BY AccountsInvSafe
  <1>5. CredsKept => [\A c \in Accounts!Creds, p \in Platforms :
                         acc[c][p] # "none" /\ acc'[c][p] = "none" => cred[c] = "gone"]_Accounts!accountVars
    BY DEF CredsKept
  <1>6. QED
    BY <1>1, <1>3, <1>4, <1>5, PTL DEF AuthorSpec, AccountsSound, Accounts!AccountsStay
=============================================================================
