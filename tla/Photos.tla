------------------------------- MODULE Photos -------------------------------
(***************************************************************************)
(* Photos: the upload handlers, the photo aggregate and its row, the links *)
(* from pieces, outfits and scene shoots, the bytes in the object store,   *)
(* the four sagas that keep them in step, and the sweep for orphans.       *)
(*                                                                         *)
(* A photo is uploaded for one piece or outfit, its wardrobe owner, and    *)
(* may be linked to scene shoots as a continuity photo.  An owner's stream *)
(* holds a link and then perhaps an unlink of the photo: links[p][o]       *)
(* counts those events.  Streams of different owners are delivered in any  *)
(* order.  The stream of a photo is abstracted to what its events add up   *)
(* to; its version counts them.                                            *)
(***************************************************************************)
EXTENDS Naturals, FiniteSets

CONSTANTS
  Photos,
  Shoots,          \* scene shoots
  Faults,          \* what may go wrong
  MaxFaults,       \* bound: faults
  MaxAttempts,     \* epochs that fail before the supervisor gives up
  BatchSize        \* orphans a sweep looks at: PHOTO_GC_BATCH_SIZE

ASSUME PhotosConstants ==
  /\ "wardrobe" \notin Shoots
  /\ Faults \subseteq {"cancel", "crash", "storage", "database", "lost_reply"}
  /\ MaxFaults \in Nat
  /\ MaxAttempts \in Nat \ {0} /\ BatchSize \in Nat \ {0}

Variants == {"original", "thumb", "medium"}
Derived == {"thumb", "medium"}
Owners == Shoots \cup {"wardrobe"}

VARIABLES
  upload,      \* how far the request that uploads a photo is
  photo,       \* the photo aggregate
  shown,       \* events of the photo its projector has applied
  links,       \* link and unlink events of each owner
  shownLink,   \* those of the wardrobe owner its projector has applied
  objects,     \* the object store
  thumb, deletion, continuity, cleanup,   \* the sagas
  gc,          \* the sweep
  faults

vars == <<upload, photo, shown, links, shownLink, objects, thumb, deletion,
          continuity, cleanup, gc, faults>>

sagas == <<thumb, deletion, continuity, cleanup>>

Fault(f) == f \in Faults /\ faults < MaxFaults /\ faults' = faults + 1

-----------------------------------------------------------------------------
(* The aggregate *)

NoPhoto == [version |-> 0, ready |-> {}, failed |-> {}, deleted |-> FALSE]

(* broken: no decoder reads the original *)
NoObject == [variants |-> {}, broken |-> FALSE, old |-> FALSE]

UploadPhoto(s) == [s EXCEPT !.version = 1]

(* NormalizeOriginal and GenerateVariant: nothing happens to what is ready. *)
MakeReady(s, v) ==
  IF v \in s.ready THEN s
  ELSE [s EXCEPT !.version = @ + 1, !.ready = @ \cup {v}, !.failed = @ \ {v}]

MarkVariantFailed(s, v) ==
  [s EXCEPT !.version = @ + 1, !.failed = @ \cup {v}, !.ready = @ \ {v}]

DeletePhoto(s) == [s EXCEPT !.version = @ + 1, !.deleted = TRUE]

(* The row, from the events the projector has applied. *)
HasRow(p) == shown[p] > 0 /\ ~(photo[p].deleted /\ shown[p] = photo[p].version)

ProjectPhoto(p) ==
  /\ shown[p] < photo[p].version
  /\ shown' = [shown EXCEPT ![p] = @ + 1]
  /\ UNCHANGED <<upload, photo, links, shownLink, objects, sagas, gc, faults>>

ProjectLink(p) ==
  /\ shownLink[p] < links[p]["wardrobe"]
  /\ shownLink' = [shownLink EXCEPT ![p] = @ + 1]
  /\ UNCHANGED <<upload, photo, shown, links, objects, sagas, gc, faults>>

-----------------------------------------------------------------------------
(* The object store *)

Stored(o, v) == [o EXCEPT !.variants = @ \cup {v}, !.old = IF v = "original" THEN FALSE ELSE @]

(* PHOTO_GC_MAX_AGE_SECS pass.  A day is longer than a request, the lag of  *)
(* the projector and one run of a saga; a sweep takes ages at its start.    *)
Age(p) ==
  /\ gc.phase = "idle"
  /\ objects[p].variants # {} /\ ~objects[p].old
  /\ upload[p] \notin {"stored", "uploaded"}
  /\ photo[p].version > 0 => shown[p] > 0
  /\ thumb.work.photo # p \/ thumb.work.step = "idle"
  /\ objects' = [objects EXCEPT ![p].old = TRUE]
  /\ UNCHANGED <<upload, photo, shown, links, shownLink, sagas, gc, faults>>

-----------------------------------------------------------------------------
(* upload_piece_photo and upload_outfit_photo *)

StoreOriginal(p) ==
  /\ upload[p] = "new"
  /\ upload' = [upload EXCEPT ![p] = "stored"]
  /\ \E b \in BOOLEAN :
       objects' = [objects EXCEPT ![p] = [Stored(@, "original") EXCEPT !.broken = b]]
  /\ UNCHANGED <<photo, shown, links, shownLink, sagas, gc, faults>>

Upload(p) ==
  /\ upload[p] = "stored"
  /\ upload' = [upload EXCEPT ![p] = "uploaded"]
  /\ photo' = [photo EXCEPT ![p] = UploadPhoto(@)]
  /\ UNCHANGED <<shown, links, shownLink, objects, sagas, gc, faults>>

Link(p) ==
  /\ upload[p] = "uploaded"
  /\ upload' = [upload EXCEPT ![p] = "linked"]
  /\ links' = [links EXCEPT ![p]["wardrobe"] = 1]
  /\ UNCHANGED <<photo, shown, shownLink, objects, sagas, gc, faults>>

(* The link is refused, the version of the owner's row being out of date:   *)
(* compensate_stored_photo_bytes.                                           *)
LinkRefused(p) ==
  /\ upload[p] = "uploaded"
  /\ upload' = [upload EXCEPT ![p] = "refused"]
  /\ objects' = [objects EXCEPT ![p] = NoObject]
  /\ UNCHANGED <<photo, shown, links, shownLink, sagas, gc, faults>>

(* A command takes effect and its answer is lost: an error to the handler.  *)
AnswerLost(p) ==
  /\ Fault("lost_reply")
  /\ \/ /\ upload[p] = "stored"
        /\ photo' = [photo EXCEPT ![p] = UploadPhoto(@)] /\ UNCHANGED links
     \/ /\ upload[p] = "uploaded"
        /\ links' = [links EXCEPT ![p]["wardrobe"] = 1] /\ UNCHANGED photo
  /\ upload' = [upload EXCEPT ![p] = "refused"]
  /\ objects' = [objects EXCEPT ![p] = NoObject]
  /\ UNCHANGED <<shown, shownLink, sagas, gc>>

(* The client goes away and the handler is dropped where it waits. *)
RequestCancelled(p) ==
  /\ upload[p] \in {"stored", "uploaded"}
  /\ Fault("cancel")
  /\ upload' = [upload EXCEPT ![p] = "refused"]
  /\ UNCHANGED <<photo, shown, links, shownLink, objects, sagas, gc>>

(* delete_piece_photo and delete_outfit_photo *)
Unlink(p) ==
  /\ links[p]["wardrobe"] = 1
  /\ links' = [links EXCEPT ![p]["wardrobe"] = 2]
  /\ UNCHANGED <<upload, photo, shown, shownLink, objects, sagas, gc, faults>>

(* link_continuity_photo and unlink_continuity_photo, of a photo that has   *)
(* been shown to a client.                                                  *)
ChangeContinuity(p, s) ==
  /\ upload[p] = "linked" /\ links[p][s] < 2
  /\ links' = [links EXCEPT ![p][s] = @ + 1]
  /\ UNCHANGED <<upload, photo, shown, shownLink, objects, sagas, gc, faults>>

-----------------------------------------------------------------------------
(* The supervisor of a saga.  A failed epoch starts over from the beginning *)
(* of every stream, with nothing in memory.                                 *)

NoWork == [photo |-> CHOOSE p \in Photos : TRUE, step |-> "idle", todo |-> {},
           ready |-> {}, version |-> 0]

NewThumb == [failures |-> 0, stopped |-> FALSE, done |-> {}, work |-> NoWork]
NewDeletion == [failures |-> 0, stopped |-> FALSE, seen |-> [p \in Photos |-> 0]]
NewContinuity == [failures |-> 0, stopped |-> FALSE,
                  seen |-> [p \in Photos |-> [s \in Shoots |-> 0]]]
NewCleanup == [failures |-> 0, stopped |-> FALSE, done |-> {}]

Failed(saga, new) ==
  [new EXCEPT !.failures = saga.failures + 1, !.stopped = saga.failures + 1 >= MaxAttempts]

-----------------------------------------------------------------------------
(* PhotoThumbnailSaga *)

(* Mutant: a photo whose original is ready passes for processed *)
SettledByOriginal(s) == s.deleted \/ "original" \in s.ready \/ s.failed = Derived

Settled(s) == s.deleted \/ s.ready = Variants \/ s.failed = Derived

ThumbFails == thumb' = Failed(thumb, NewThumb)

Work(next) == thumb' = [thumb EXCEPT !.work = next]

Acknowledge(p) == thumb' = [thumb EXCEPT !.done = @ \cup {p}, !.work = NoWork]

(* The event is delivered; the state of the photo is read from its stream. *)
ThumbTakes(p) ==
  /\ ~thumb.stopped /\ thumb.work.step = "idle"
  /\ photo[p].version > 0 /\ p \notin thumb.done
  /\ IF Settled(photo[p]) THEN Acknowledge(p)
     ELSE Work([photo |-> p, step |-> "fetch", todo |-> {},
                ready |-> photo[p].ready, version |-> photo[p].version])
  /\ UNCHANGED <<upload, photo, shown, links, shownLink, objects, deletion, continuity,
                 cleanup, gc, faults>>

(* An original that is not there is an error of the epoch; bytes that do    *)
(* not decode are one of the photo.                                         *)
ThumbFetches ==
  LET w == thumb.work
  IN  /\ w.step = "fetch"
      /\ IF "original" \notin objects[w.photo].variants THEN ThumbFails
         ELSE IF objects[w.photo].broken THEN Work([w EXCEPT !.step = "fail", !.todo = Derived])
         ELSE Work([w EXCEPT !.step = "store", !.todo = Variants \ w.ready])
      /\ UNCHANGED <<upload, photo, shown, links, shownLink, objects, deletion, continuity,
                     cleanup, gc, faults>>

(* In the order original, thumb, medium. *)
First(todo) ==
  IF "original" \in todo THEN "original" ELSE IF "thumb" \in todo THEN "thumb" ELSE "medium"

ThumbStores ==
  LET w == thumb.work
      p == w.photo
      v == First(w.todo)
  IN  /\ w.step = "store"
      /\ objects' = IF w.todo = {} THEN objects
                    ELSE [objects EXCEPT ![p] = Stored(@, v)]
      /\ Work(IF w.todo \subseteq {v} THEN [w EXCEPT !.step = "execute", !.todo = Variants]
              ELSE [w EXCEPT !.todo = @ \ {v}])
      /\ UNCHANGED <<upload, photo, shown, links, shownLink, deletion, continuity,
                     cleanup, gc, faults>>

(* All three commands are sent, at any version; a deleted photo refuses     *)
(* them.                                                                    *)
ThumbExecutes ==
  LET w == thumb.work
      p == w.photo
      v == First(w.todo)
  IN  /\ w.step = "execute"
      /\ IF photo[p].deleted THEN ThumbFails /\ UNCHANGED photo
         ELSE /\ photo' = [photo EXCEPT ![p] = MakeReady(@, v)]
              /\ IF w.todo = {v} THEN Acknowledge(p) ELSE Work([w EXCEPT !.todo = @ \ {v}])
      /\ UNCHANGED <<upload, shown, links, shownLink, objects, deletion, continuity,
                     cleanup, gc, faults>>

(* mark_variants_failed: a refusal is logged and the event acknowledged. *)
ThumbMarksFailed ==
  LET w == thumb.work
      p == w.photo
      v == First(w.todo)
      accepted == ~photo[p].deleted /\ w.version = photo[p].version
  IN  /\ w.step = "fail"
      /\ photo' = IF accepted THEN [photo EXCEPT ![p] = MarkVariantFailed(@, v)] ELSE photo
      /\ IF w.todo = {v} THEN Acknowledge(p)
         ELSE Work([w EXCEPT !.todo = @ \ {v}, !.version = IF accepted THEN @ + 1 ELSE @])
      /\ UNCHANGED <<upload, shown, links, shownLink, objects, deletion, continuity,
                     cleanup, gc, faults>>

(* The object store refuses for good what the saga asks of it. *)
ThumbStorageFails ==
  /\ thumb.work.step \in {"fetch", "store"}
  /\ Fault("storage")
  /\ ThumbFails
  /\ UNCHANGED <<upload, photo, shown, links, shownLink, objects, deletion, continuity,
                 cleanup, gc>>

-----------------------------------------------------------------------------
(* PhotoDeletionSaga, ContinuityDeletionSaga *)

(* DeletePhoto with the version of the row, which must be the stream's. *)
DeleteAccepted(p) == shown[p] = photo[p].version /\ ~photo[p].deleted

DeletionTakes(p) ==
  LET seen == [deletion EXCEPT !.seen[p] = @ + 1]
  IN  /\ ~deletion.stopped /\ deletion.seen[p] < links[p]["wardrobe"]
      /\ \/ /\ deletion.seen[p] = 0 \/ ~HasRow(p)
            /\ deletion' = seen /\ UNCHANGED photo
         \/ /\ deletion.seen[p] = 1 /\ HasRow(p) /\ DeleteAccepted(p)
            /\ deletion' = seen
            /\ photo' = [photo EXCEPT ![p] = DeletePhoto(@)]
         \/ /\ deletion.seen[p] = 1 /\ HasRow(p) /\ ~DeleteAccepted(p)
            /\ deletion' = Failed(deletion, NewDeletion) /\ UNCHANGED photo
      /\ UNCHANGED <<upload, shown, links, shownLink, objects, thumb, continuity,
                     cleanup, gc, faults>>

(* References by scene shoots, as far as the saga has seen their events. *)
References(seen, p) == Cardinality({s \in Shoots : seen[p][s] = 1})

(* count_links: wardrobe references, as far as they are projected *)
CountLinks(p) == IF shownLink[p] = 1 THEN 1 ELSE 0

(* Unlike the wardrobe's saga, this one fails without a row. *)
ContinuityTakes(p, s) ==
  LET seen == [continuity EXCEPT !.seen[p][s] = @ + 1]
      last == continuity.seen[p][s] = 1 /\ References(seen.seen, p) = 0 /\ CountLinks(p) = 0
  IN  /\ ~continuity.stopped /\ continuity.seen[p][s] < links[p][s]
      /\ \/ ~last /\ continuity' = seen /\ UNCHANGED photo
         \/ /\ last /\ HasRow(p) /\ DeleteAccepted(p)
            /\ continuity' = seen
            /\ photo' = [photo EXCEPT ![p] = DeletePhoto(@)]
         \/ /\ last /\ ~(HasRow(p) /\ DeleteAccepted(p))
            /\ continuity' = Failed(continuity, NewContinuity) /\ UNCHANGED photo
      /\ UNCHANGED <<upload, shown, links, shownLink, objects, thumb, deletion,
                     cleanup, gc, faults>>

(* The database fails what a saga asks of it at the last unlink.  The saga  *)
(* of the wardrobe takes that for a photo without a row and goes on; that   *)
(* of the shoots goes on without the count and fails without the row.       *)
LookupFails(p) ==
  /\ Fault("database")
  /\ \/ /\ ~deletion.stopped /\ deletion.seen[p] = 1 /\ links[p]["wardrobe"] = 2
        /\ deletion' = [deletion EXCEPT !.seen[p] = 2]
        /\ UNCHANGED continuity
     \/ \E s \in Shoots :
          LET seen == [continuity EXCEPT !.seen[p][s] = 2]
          IN  /\ ~continuity.stopped /\ continuity.seen[p][s] = 1 /\ links[p][s] = 2
              /\ References(seen.seen, p) = 0
              /\ \/ continuity' = seen
                 \/ CountLinks(p) = 0 /\ continuity' = Failed(continuity, NewContinuity)
              /\ UNCHANGED deletion
  /\ UNCHANGED <<upload, photo, shown, links, shownLink, objects, thumb, cleanup, gc>>

-----------------------------------------------------------------------------
(* PhotoBytesCleanupSaga *)

CleanupTakes(p) ==
  /\ ~cleanup.stopped /\ p \notin cleanup.done /\ photo[p].deleted
  /\ objects' = [objects EXCEPT ![p] = NoObject]
  /\ cleanup' = [cleanup EXCEPT !.done = @ \cup {p}]
  /\ UNCHANGED <<upload, photo, shown, links, shownLink, thumb, deletion, continuity,
                 gc, faults>>

CleanupStorageFails ==
  /\ ~cleanup.stopped /\ \E p \in Photos : photo[p].deleted /\ p \notin cleanup.done
  /\ Fault("storage")
  /\ cleanup' = Failed(cleanup, NewCleanup)
  /\ UNCHANGED <<upload, photo, shown, links, shownLink, objects, thumb, deletion, continuity,
                 gc>>

-----------------------------------------------------------------------------
(* run_gc_sweep, under its advisory lock: list the store, then the rows *)

IdleGc == [phase |-> "idle", ids |-> {}]

GcLists ==
  /\ gc.phase = "idle"
  /\ \E p \in Photos : objects[p].variants # {}
  /\ gc' = [phase |-> "listed", ids |-> {p \in Photos : objects[p].variants # {}}]
  /\ UNCHANGED <<upload, photo, shown, links, shownLink, objects, sagas, faults>>

(* The first BatchSize orphans, in the order of the listing. *)
Batches(orphans) ==
  {ids \in SUBSET orphans : \/ Cardinality(ids) = BatchSize
                            \/ Cardinality(ids) < BatchSize /\ ids = orphans}

GcFindsOrphans ==
  /\ gc.phase = "listed"
  /\ \E ids \in Batches({p \in gc.ids : ~HasRow(p)}) :
       gc' = [phase |-> "orphans", ids |-> ids]
  /\ UNCHANGED <<upload, photo, shown, links, shownLink, objects, sagas, faults>>

(* Mutant: without the age gate *)
TooYoungNever(p) == FALSE

(* Mutant: the age is measured from the sweep that sees the orphan first *)
TooYoungAlways(p) == TRUE

(* An orphan without an original has no stored_at to go by. *)
TooYoung(p) == "original" \notin objects[p].variants \/ ~objects[p].old

GcDeletes(p) ==
  /\ gc.phase = "orphans" /\ p \in gc.ids
  /\ objects' = IF TooYoung(p) THEN objects ELSE [objects EXCEPT ![p] = NoObject]
  /\ gc' = [gc EXCEPT !.ids = @ \ {p}]
  /\ UNCHANGED <<upload, photo, shown, links, shownLink, sagas, faults>>

GcEnds ==
  /\ gc.phase = "orphans" /\ gc.ids = {}
  /\ gc' = IdleGc
  /\ UNCHANGED <<upload, photo, shown, links, shownLink, objects, sagas, faults>>

(* A listing, a lookup or a deletion fails: the sweep ends where it is. *)
GcFails ==
  /\ gc.phase # "idle"
  /\ \E f \in {"storage", "database"} : Fault(f)
  /\ gc' = IdleGc
  /\ UNCHANGED <<upload, photo, shown, links, shownLink, objects, sagas>>

-----------------------------------------------------------------------------
(* The process dies with the requests it serves, and starts again. *)
Crash ==
  /\ Fault("crash")
  /\ upload' = [p \in Photos |-> IF upload[p] \in {"stored", "uploaded"} THEN "refused"
                                 ELSE upload[p]]
  /\ thumb' = NewThumb /\ deletion' = NewDeletion
  /\ continuity' = NewContinuity /\ cleanup' = NewCleanup /\ gc' = IdleGc
  /\ UNCHANGED <<photo, shown, links, shownLink, objects>>

Init ==
  /\ upload = [p \in Photos |-> "new"]
  /\ photo = [p \in Photos |-> NoPhoto]
  /\ shown = [p \in Photos |-> 0] /\ shownLink = [p \in Photos |-> 0]
  /\ links = [p \in Photos |-> [o \in Owners |-> 0]]
  /\ objects = [p \in Photos |-> NoObject]
  /\ thumb = NewThumb /\ deletion = NewDeletion
  /\ continuity = NewContinuity /\ cleanup = NewCleanup
  /\ gc = IdleGc /\ faults = 0

Requests(p) ==
  \/ StoreOriginal(p) \/ Upload(p) \/ Link(p) \/ LinkRefused(p) \/ AnswerLost(p)
  \/ RequestCancelled(p) \/ Unlink(p) \/ \E s \in Shoots : ChangeContinuity(p, s)

ThumbWorks == ThumbFetches \/ ThumbStores \/ ThumbExecutes \/ ThumbMarksFailed

GcWorks == GcFindsOrphans \/ GcEnds \/ \E p \in Photos : GcDeletes(p)

Next ==
  \/ \E p \in Photos :
       \/ Requests(p) \/ ProjectPhoto(p) \/ ProjectLink(p) \/ Age(p)
       \/ ThumbTakes(p) \/ DeletionTakes(p) \/ CleanupTakes(p) \/ LookupFails(p)
       \/ \E s \in Shoots : ContinuityTakes(p, s)
  \/ ThumbWorks \/ ThumbStorageFails \/ CleanupStorageFails \/ GcLists \/ GcWorks
  \/ GcFails \/ Crash

Spec == Init /\ [][Next]_vars

(* Projectors and sagas run while they have events, the sweep every hour,   *)
(* and objects age.                                                         *)
FairSpec ==
  /\ Spec
  /\ WF_vars(ThumbWorks) /\ WF_vars(GcLists) /\ WF_vars(GcWorks)
  /\ \A p \in Photos :
       /\ WF_vars(ProjectPhoto(p)) /\ WF_vars(ProjectLink(p)) /\ SF_vars(Age(p))
       /\ WF_vars(DeletionTakes(p)) /\ WF_vars(CleanupTakes(p))
       /\ SF_vars(ThumbTakes(p))
       /\ \A s \in Shoots : WF_vars(ContinuityTakes(p, s))

-----------------------------------------------------------------------------
(* A photo whose upload was answered with success and that its owner links  *)
(* has its original in the store until it is deleted: neither a             *)
(* compensation, nor a sweep that listed the rows before it had one, nor a  *)
(* saga in a replay takes the bytes of a photo that still is.  That it is   *)
(* not deleted while it is linked is another matter: ContinuityUnlinkSpares.*)
LinkedPhotoHasBytes ==
  \A p \in Photos : upload[p] = "linked" /\ links[p]["wardrobe"] = 1 /\ ~photo[p].deleted
                      => "original" \in objects[p].variants

(* What the specification of the continuity binding says of the saga of the *)
(* shoots: on an unlink, a photo that a piece, an outfit or another shoot   *)
(* still links is not deleted.                                              *)
ContinuityUnlinkSpares ==
  [][\A p \in Photos : (photo'[p].deleted /\ ~photo[p].deleted /\ continuity' # continuity)
                         => \A o \in Owners : links[p][o] # 1]_vars

(* A deleted photo loses its original for good, by the cleanup saga or by   *)
(* the sweep, even if the thumbnail saga stores it again in between.        *)
BytesAreReclaimed ==
  \A p \in Photos : photo[p].deleted ~> []("original" \notin objects[p].variants)

(* A linked photo gets its variants or is marked as broken, unless it is    *)
(* deleted first or the saga has been given up.                             *)
LinkedPhotosSettle ==
  \A p \in Photos : links[p]["wardrobe"] = 1
                      ~> \/ photo[p].ready = Variants \/ photo[p].failed = Derived
                         \/ photo[p].deleted \/ thumb.stopped
=============================================================================
