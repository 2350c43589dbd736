---------------------------- MODULE PhotosProofs ----------------------------
(***************************************************************************)
(* Theorems about Photos for every set of photos and scene shoots and      *)
(* every number of faults.                                                 *)
(*                                                                         *)
(* That a linked photo has its bytes is not inductive: the sweep deletes   *)
(* what it found without a row some steps earlier.  PhotoInv says why that *)
(* is never a photo that was linked meanwhile: bytes that are old enough   *)
(* to be swept belong to a request that is over, and by then to a photo    *)
(* that has a row.                                                         *)
(***************************************************************************)
EXTENDS Photos, TLAPS

Aggregates == [version : Nat, ready : SUBSET Variants, failed : SUBSET Variants,
               deleted : BOOLEAN]

Objects == [variants : SUBSET Variants, broken : BOOLEAN, old : BOOLEAN]

Sweeps == [phase : {"idle", "listed", "orphans"}, ids : SUBSET Photos]

TypeOK ==
  /\ upload \in [Photos -> {"new", "stored", "uploaded", "linked", "refused"}]
  /\ photo \in [Photos -> Aggregates]
  /\ shown \in [Photos -> Nat] /\ shownLink \in [Photos -> 0..2]
  /\ links \in [Photos -> [Owners -> 0..2]]
  /\ objects \in [Photos -> Objects]
  /\ gc \in Sweeps
  /\ faults \in 0..MaxFaults

(* The bytes were stored and nobody has compensated for them. *)
Standing(p) == upload[p] \in {"stored", "uploaded", "linked"}

HasOriginal(p) == "original" \in objects[p].variants

(* An orphan of the sweep that is a linked photo by now is too young. *)
SweepSpares(p) ==
  gc.phase = "orphans" /\ p \in gc.ids /\ upload[p] = "linked" /\ ~photo[p].deleted
    => ~objects[p].old

PhotoInv(p) ==
  /\ upload[p] \in {"uploaded", "linked"} => photo[p].version > 0
  /\ Standing(p) /\ ~photo[p].deleted => HasOriginal(p)
  /\ upload[p] \in {"stored", "uploaded"} => ~objects[p].old
  /\ upload[p] = "linked" /\ objects[p].old => shown[p] > 0
  /\ SweepSpares(p)

PhotosInv == TypeOK /\ \A p \in Photos : PhotoInv(p)

-----------------------------------------------------------------------------
(* Operators *)

LEMMA FaultTypes ==
  ASSUME TypeOK, NEW f, Fault(f)
  PROVE  faults' \in 0..MaxFaults
PROOF
  BY PhotosConstants DEF TypeOK, Fault

LEMMA StoredObject ==
  ASSUME NEW o \in Objects, NEW v \in Variants
  PROVE  /\ Stored(o, v) \in Objects
         /\ Stored(o, v).variants = o.variants \cup {v}
         /\ Stored(o, v).old => o.old
         /\ v = "original" => ~Stored(o, v).old
PROOF
  BY DEF Stored, Objects

LEMMA NoObjectTypes == NoObject \in Objects
PROOF
  BY DEF NoObject, Objects

LEMMA FirstIsVariant ==
  ASSUME NEW todo
  PROVE  First(todo) \in Variants
PROOF
  BY DEF First, Variants

(* The commands of a photo count its version up and never undo a deletion. *)
LEMMA CommandsCount ==
  ASSUME NEW s \in Aggregates, NEW v \in Variants
  PROVE  /\ UploadPhoto(s) \in Aggregates
         /\ UploadPhoto(s).version > 0 /\ UploadPhoto(s).deleted = s.deleted
         /\ MakeReady(s, v) \in Aggregates
         /\ MakeReady(s, v).version >= s.version /\ MakeReady(s, v).deleted = s.deleted
         /\ MarkVariantFailed(s, v) \in Aggregates
         /\ MarkVariantFailed(s, v).version >= s.version
         /\ MarkVariantFailed(s, v).deleted = s.deleted
         /\ DeletePhoto(s) \in Aggregates
         /\ DeletePhoto(s).version >= s.version /\ DeletePhoto(s).deleted
PROOF
<1>1. /\ UploadPhoto(s) \in Aggregates
      /\ UploadPhoto(s).version > 0 /\ UploadPhoto(s).deleted = s.deleted
  BY DEF UploadPhoto, Aggregates
<1>2. /\ s.version \in Nat /\ s.version + 1 \in Nat /\ s.version + 1 >= s.version
      /\ s.ready \subseteq Variants /\ s.failed \subseteq Variants
  BY DEF Aggregates
<1> DEFINE n == s.version + 1
<1>3. n \in Nat /\ n >= s.version /\ s.version >= s.version
  BY <1>2
<1>4. /\ MakeReady(s, v) \in Aggregates
      /\ MakeReady(s, v).version \in {s.version, n} /\ MakeReady(s, v).deleted = s.deleted
  <2> DEFINE ready == s.ready \cup {v}
             failed == s.failed \ {v}
             t == [s EXCEPT !.version = n, !.ready = ready, !.failed = failed]
  <2>1. MakeReady(s, v) = IF v \in s.ready THEN s ELSE t
    BY DEF MakeReady
  <2>2. ready \in SUBSET Variants /\ failed \in SUBSET Variants
    BY <1>2
  <2> HIDE DEF n, ready, failed
  <2>3. t \in Aggregates
    BY <1>3, <2>2 DEF Aggregates
  <2>4. t.version = n
    BY <1>3, <2>2 DEF Aggregates
  <2>5. t.deleted = s.deleted
    BY <1>3, <2>2 DEF Aggregates
  <2> HIDE DEF t
  <2> QED
    BY <2>1, <2>3, <2>4, <2>5
<1>5. /\ MarkVariantFailed(s, v) \in Aggregates
      /\ MarkVariantFailed(s, v).version = n /\ MarkVariantFailed(s, v).deleted = s.deleted
  <2> DEFINE ready == s.ready \ {v}
             failed == s.failed \cup {v}
             t == [s EXCEPT !.version = n, !.ready = ready, !.failed = failed]
  <2>1. MarkVariantFailed(s, v) = t
    BY DEF MarkVariantFailed
  <2>2. ready \in SUBSET Variants /\ failed \in SUBSET Variants
    BY <1>2
  <2> HIDE DEF n, ready, failed
  <2>3. t \in Aggregates
    BY <1>3, <2>2 DEF Aggregates
  <2>4. t.version = n
    BY <1>3, <2>2 DEF Aggregates
  <2>5. t.deleted = s.deleted
    BY <1>3, <2>2 DEF Aggregates
  <2> HIDE DEF t
  <2> QED
    BY <2>1, <2>3, <2>4, <2>5
<1>6. /\ DeletePhoto(s) \in Aggregates
      /\ DeletePhoto(s).version = n /\ DeletePhoto(s).deleted
  <2> DEFINE t == [s EXCEPT !.version = n, !.deleted = TRUE]
  <2>1. DeletePhoto(s) = t
    BY DEF DeletePhoto
  <2> HIDE DEF n
  <2>2. t \in Aggregates
    BY <1>3 DEF Aggregates
  <2>3. t.version = n
    BY <1>3 DEF Aggregates
  <2>4. t.deleted
    BY <1>3 DEF Aggregates
  <2> HIDE DEF t
  <2> QED
    BY <2>1, <2>2, <2>3, <2>4
<1> HIDE DEF n
<1> QED
  BY <1>1, <1>3, <1>4, <1>5, <1>6

LEMMA PhotoTypes ==
  ASSUME TypeOK, NEW p \in Photos
  PROVE  /\ photo[p] \in Aggregates /\ photo[p].version \in Nat /\ photo[p].deleted \in BOOLEAN
         /\ objects[p] \in Objects /\ objects[p].old \in BOOLEAN
         /\ shown[p] \in Nat
         /\ gc.phase \in {"idle", "listed", "orphans"} /\ gc.ids \subseteq Photos
PROOF
  BY DEF TypeOK, Aggregates, Objects, Sweeps

-----------------------------------------------------------------------------
(* What a saga does to a photo.  Its events count on and bytes are neither *)
(* deleted nor grow old: this keeps PhotoInv.                              *)
Progress ==
  /\ photo' \in [Photos -> Aggregates] /\ objects' \in [Photos -> Objects]
  /\ \A p \in Photos :
       /\ photo'[p].version >= photo[p].version
       /\ photo[p].deleted => photo'[p].deleted
       /\ objects[p].variants \subseteq objects'[p].variants
       /\ objects'[p].old => objects[p].old

LEMMA ProgressStep ==
  ASSUME PhotosInv, Progress,
         UNCHANGED <<upload, shown, links, shownLink, gc>>, faults' \in 0..MaxFaults
  PROVE  PhotosInv'
PROOF
<1>1. TypeOK'
  BY DEF PhotosInv, TypeOK, Progress
<1>2. ASSUME NEW p \in Photos PROVE PhotoInv(p)'
  <2>1. PhotoInv(p) /\ TypeOK
    BY DEF PhotosInv
  <2>2. photo[p].version \in Nat /\ photo'[p].version \in Nat
    BY <1>1, <2>1 DEF TypeOK, Aggregates
  <2> QED
    BY <2>1, <2>2 DEF PhotoInv, Progress, Standing, HasOriginal, SweepSpares
<1> QED
  BY <1>1, <1>2 DEF PhotosInv

(* A command of a saga on one photo. *)
LEMMA PhotoChanges ==
  ASSUME TypeOK, NEW p, NEW s \in Aggregates,
         p \in Photos => s.version >= photo[p].version /\ (photo[p].deleted => s.deleted),
         photo' = [photo EXCEPT ![p] = s], UNCHANGED objects
  PROVE  Progress
PROOF
<1>1. \A q \in Photos : photo[q] \in Aggregates /\ photo[q].version \in Nat
  BY DEF TypeOK, Aggregates
<1>2. photo' \in [Photos -> Aggregates] /\ objects' \in [Photos -> Objects]
  BY DEF TypeOK
<1>3. ASSUME NEW q \in Photos
      PROVE  photo'[q].version >= photo[q].version /\ (photo[q].deleted => photo'[q].deleted)
  <2>1. photo'[q] = IF q = p THEN s ELSE photo[q]
    BY DEF TypeOK
  <2> QED
    BY <1>1, <2>1
<1> QED
  BY <1>2, <1>3 DEF Progress

LEMMA NothingChanges ==
  ASSUME TypeOK, UNCHANGED <<photo, objects>>
  PROVE  Progress
PROOF
<1>1. \A q \in Photos : photo[q].version \in Nat
  BY DEF TypeOK, Aggregates
<1> QED
  BY <1>1 DEF Progress, TypeOK

LEMMA ThumbStep ==
  ASSUME PhotosInv, ThumbWorks \/ ThumbStorageFails \/ \E p \in Photos : ThumbTakes(p)
  PROVE  PhotosInv'
PROOF
<1>1. TypeOK /\ faults \in 0..MaxFaults
  BY DEF PhotosInv, TypeOK
<1>2. CASE \E p \in Photos : ThumbTakes(p)
  BY <1>1, <1>2, NothingChanges, ProgressStep DEF ThumbTakes
<1>3. CASE ThumbFetches
  BY <1>1, <1>3, NothingChanges, ProgressStep DEF ThumbFetches
<1>4. CASE ThumbStorageFails
  BY <1>1, <1>4, NothingChanges, ProgressStep, FaultTypes DEF ThumbStorageFails
<1>5. CASE ThumbStores
  <2> DEFINE p == thumb.work.photo
             v == First(thumb.work.todo)
  <2>1. /\ objects' = IF thumb.work.todo = {} THEN objects
                      ELSE [objects EXCEPT ![p] = Stored(@, v)]
        /\ UNCHANGED <<upload, photo, shown, links, shownLink, gc, faults>>
    BY <1>5 DEF ThumbStores
  <2>2. v \in Variants
    BY FirstIsVariant
  <2>3. Progress
    <3> HIDE DEF p, v
    <3>1. CASE objects' = objects
      BY <1>1, <2>1, <3>1, NothingChanges
    <3>2. CASE objects' = [objects EXCEPT ![p] = Stored(@, v)]
      <4>1. ASSUME NEW q \in Photos
            PROVE  /\ objects'[q] \in Objects /\ objects[q].variants \subseteq objects'[q].variants
                   /\ objects'[q].old => objects[q].old
        <5>1. objects[q] \in Objects
          BY <1>1 DEF TypeOK
        <5>2. objects'[q] = IF q = p THEN Stored(objects[q], v) ELSE objects[q]
          BY <1>1, <3>2 DEF TypeOK
        <5> QED
          BY <2>2, <5>1, <5>2, StoredObject
      <4>2. objects' \in [Photos -> Objects]
        <5>1. objects' = [q \in Photos |-> objects'[q]]
          BY <1>1, <3>2 DEF TypeOK
        <5> QED
          BY <4>1, <5>1
      <4>3. photo' \in [Photos -> Aggregates] /\ \A q \in Photos : photo[q].version \in Nat
        BY <1>1, <2>1 DEF TypeOK, Aggregates
      <4> QED
        BY <2>1, <4>1, <4>2, <4>3 DEF Progress
    <3> QED
      BY <2>1, <3>1, <3>2
  <2> QED
    BY <1>1, <2>1, <2>3, ProgressStep
<1>6. CASE ThumbExecutes \/ ThumbMarksFailed
  <2> DEFINE p == thumb.work.photo
             v == First(thumb.work.todo)
  <2>1. /\ \/ UNCHANGED photo
           \/ photo' = [photo EXCEPT ![p] = MakeReady(@, v)]
           \/ photo' = [photo EXCEPT ![p] = MarkVariantFailed(@, v)]
        /\ UNCHANGED <<upload, shown, links, shownLink, objects, gc, faults>>
    BY <1>6 DEF ThumbExecutes, ThumbMarksFailed
  <2>2. v \in Variants
    BY FirstIsVariant
  <2>3. Progress
    <3> HIDE DEF p, v
    <3>1. CASE UNCHANGED photo \/ p \notin Photos
      <4>1. UNCHANGED photo
        BY <1>1, <2>1, <3>1 DEF TypeOK
      <4> QED
        BY <1>1, <2>1, <4>1, NothingChanges
    <3>2. ASSUME p \in Photos, photo' = [photo EXCEPT ![p] = MakeReady(@, v)] PROVE Progress
      <4>1. photo[p] \in Aggregates
        BY <1>1, <3>2 DEF TypeOK
      <4>2. photo' = [photo EXCEPT ![p] = MakeReady(photo[p], v)]
        BY <3>2
      <4> QED
        BY <1>1, <2>1, <2>2, <4>1, <4>2, CommandsCount, PhotoChanges
    <3>3. ASSUME p \in Photos, photo' = [photo EXCEPT ![p] = MarkVariantFailed(@, v)]
          PROVE  Progress
      <4>1. photo[p] \in Aggregates
        BY <1>1, <3>3 DEF TypeOK
      <4>2. photo' = [photo EXCEPT ![p] = MarkVariantFailed(photo[p], v)]
        BY <3>3
      <4> QED
        BY <1>1, <2>1, <2>2, <4>1, <4>2, CommandsCount, PhotoChanges
    <3> QED
      BY <2>1, <3>1, <3>2, <3>3
  <2> QED
    BY <1>1, <2>1, <2>3, ProgressStep
<1> QED
  BY <1>2, <1>3, <1>4, <1>5, <1>6 DEF ThumbWorks

LEMMA DeletionSagasStep ==
  ASSUME PhotosInv, NEW p \in Photos,
         DeletionTakes(p) \/ \E s \in Shoots : ContinuityTakes(p, s)
  PROVE  PhotosInv'
PROOF
<1>1. TypeOK /\ faults \in 0..MaxFaults /\ photo[p] \in Aggregates
  BY DEF PhotosInv, TypeOK
<1>2. /\ UNCHANGED photo \/ photo' = [photo EXCEPT ![p] = DeletePhoto(@)]
      /\ UNCHANGED <<upload, shown, links, shownLink, objects, gc, faults>>
  <2>1. CASE DeletionTakes(p)
    BY <2>1 DEF DeletionTakes
  <2>2. CASE \E s \in Shoots : ContinuityTakes(p, s)
    BY <2>2 DEF ContinuityTakes
  <2> QED
    BY <2>1, <2>2
<1>3. CASE UNCHANGED photo
  BY <1>1, <1>2, <1>3, NothingChanges, ProgressStep
<1>4. CASE photo' = [photo EXCEPT ![p] = DeletePhoto(@)]
  <2>1. photo' = [photo EXCEPT ![p] = DeletePhoto(photo[p])]
    BY <1>4
  <2>2. "original" \in Variants
    BY DEF Variants
  <2>3. Progress
    BY <1>1, <1>2, <2>1, <2>2, CommandsCount, PhotoChanges
  <2> QED
    BY <1>1, <1>2, <2>3, ProgressStep
<1> QED
  BY <1>2, <1>3, <1>4

-----------------------------------------------------------------------------
(* The other steps change one photo, or the sweep *)

Others(p) ==
  \A q \in Photos : q # p =>
    /\ upload'[q] = upload[q] /\ photo'[q] = photo[q] /\ shown'[q] = shown[q]
    /\ objects'[q] = objects[q] /\ (q \in gc'.ids => q \in gc.ids)

LEMMA OnePhotoStep ==
  ASSUME PhotosInv, NEW p \in Photos, TypeOK', PhotoInv(p)', Others(p), gc'.phase = gc.phase
  PROVE  PhotosInv'
PROOF
<1>1. ASSUME NEW q \in Photos, q # p PROVE PhotoInv(q)'
  BY <1>1 DEF PhotosInv, PhotoInv, Others, Standing, HasOriginal, SweepSpares
<1> QED
  BY <1>1 DEF PhotosInv

LEMMA LinksTypes ==
  ASSUME TypeOK, NEW p \in Photos, NEW o \in Owners, NEW n \in 0..2
  PROVE  [links EXCEPT ![p][o] = n] \in [Photos -> [Owners -> 0..2]]
PROOF
  BY DEF TypeOK

LEMMA WardrobeLinked ==
  ASSUME TypeOK, NEW p \in Photos, NEW n \in 0..2
  PROVE  [links EXCEPT ![p]["wardrobe"] = n] \in [Photos -> [Owners -> 0..2]]
PROOF
<1>1. "wardrobe" \in Owners
  BY DEF Owners
<1> QED
  BY <1>1, LinksTypes

LEMMA UploadSteps ==
  ASSUME PhotosInv, NEW p \in Photos, StoreOriginal(p) \/ Upload(p) \/ Link(p)
  PROVE  PhotosInv'
PROOF
<1>1. TypeOK /\ PhotoInv(p)
  BY DEF PhotosInv
<1>2. /\ photo[p] \in Aggregates /\ objects[p] \in Objects /\ "original" \in Variants
      /\ gc.phase \in {"idle", "listed", "orphans"}
  BY <1>1, PhotoTypes DEF Variants
<1>3. CASE StoreOriginal(p)
  <2>1. PICK b \in BOOLEAN :
          objects' = [objects EXCEPT ![p] = [Stored(@, "original") EXCEPT !.broken = b]]
    BY <1>3 DEF StoreOriginal
  <2> DEFINE o == Stored(objects[p], "original")
             n == [o EXCEPT !.broken = b]
  <2>2. o \in Objects /\ "original" \in o.variants /\ ~o.old
    BY <1>2, StoredObject
  <2>3. objects' = [objects EXCEPT ![p] = n]
    BY <2>1
  <2> HIDE DEF o
  <2>4. n \in Objects /\ "original" \in n.variants /\ ~n.old
    BY <2>2 DEF Objects
  <2> HIDE DEF n
  <2>5. /\ upload' = [upload EXCEPT ![p] = "stored"]
        /\ UNCHANGED <<photo, shown, links, shownLink, gc, faults>>
    BY <1>3 DEF StoreOriginal
  <2>6. TypeOK' /\ Others(p)
    BY <1>1, <2>3, <2>4, <2>5 DEF TypeOK, Others
  <2>7. upload'[p] = "stored" /\ objects'[p] = n
    BY <1>1, <2>3, <2>5 DEF TypeOK
  <2>8. PhotoInv(p)'
    BY <2>4, <2>7 DEF PhotoInv, Standing, HasOriginal, SweepSpares
  <2> QED
    BY <2>5, <2>6, <2>8, OnePhotoStep
<1>4. CASE Upload(p)
  <2> DEFINE s == UploadPhoto(photo[p])
  <2>1. s \in Aggregates /\ s.version > 0 /\ s.deleted = photo[p].deleted
    BY <1>2, CommandsCount
  <2>2. /\ upload[p] = "stored" /\ upload' = [upload EXCEPT ![p] = "uploaded"]
        /\ photo' = [photo EXCEPT ![p] = s]
        /\ UNCHANGED <<shown, links, shownLink, objects, gc, faults>>
    BY <1>4 DEF Upload
  <2> HIDE DEF s
  <2>3. TypeOK' /\ Others(p)
    BY <1>1, <2>1, <2>2 DEF TypeOK, Others
  <2>4. upload'[p] = "uploaded" /\ photo'[p] = s
    BY <1>1, <2>2 DEF TypeOK
  <2>5. PhotoInv(p)'
    BY <1>1, <2>1, <2>2, <2>4 DEF PhotoInv, Standing, HasOriginal, SweepSpares
  <2> QED
    BY <2>2, <2>3, <2>5, OnePhotoStep
<1>5. CASE Link(p)
  <2>1. /\ upload[p] = "uploaded" /\ upload' = [upload EXCEPT ![p] = "linked"]
        /\ links' = [links EXCEPT ![p]["wardrobe"] = 1]
        /\ UNCHANGED <<photo, shown, shownLink, objects, gc, faults>>
    BY <1>5 DEF Link
  <2>2. TypeOK' /\ Others(p)
    <3>1. links' \in [Photos -> [Owners -> 0..2]]
      BY <1>1, <2>1, WardrobeLinked
    <3> QED
      BY <1>1, <2>1, <3>1 DEF TypeOK, Others
  <2>3. upload'[p] = "linked"
    BY <1>1, <2>1 DEF TypeOK
  <2>4. PhotoInv(p)'
    BY <1>1, <2>1, <2>3 DEF PhotoInv, Standing, HasOriginal, SweepSpares
  <2> QED
    BY <2>1, <2>2, <2>4, OnePhotoStep
<1> QED
  BY <1>3, <1>4, <1>5

(* Compensation or a dropped request: nothing stands any more. *)
LEMMA RefusedSteps ==
  ASSUME PhotosInv, NEW p \in Photos, LinkRefused(p) \/ AnswerLost(p) \/ RequestCancelled(p)
  PROVE  PhotosInv'
PROOF
<1>1. TypeOK /\ PhotoInv(p) /\ photo[p] \in Aggregates /\ "original" \in Variants
  BY PhotoTypes DEF PhotosInv, Variants
<1> DEFINE s == UploadPhoto(photo[p])
<1>2. s \in Aggregates
  BY <1>1, CommandsCount
<1>3. /\ upload' = [upload EXCEPT ![p] = "refused"]
      /\ UNCHANGED objects \/ objects' = [objects EXCEPT ![p] = NoObject]
      /\ UNCHANGED photo \/ photo' = [photo EXCEPT ![p] = s]
      /\ UNCHANGED links \/ links' = [links EXCEPT ![p]["wardrobe"] = 1]
      /\ UNCHANGED <<shown, shownLink, gc>>
  BY DEF LinkRefused, AnswerLost, RequestCancelled
<1>4. faults' \in 0..MaxFaults
  BY <1>1, FaultTypes DEF LinkRefused, AnswerLost, RequestCancelled, TypeOK
<1> HIDE DEF s
<1>5. objects' \in [Photos -> Objects] /\ \A q \in Photos : q # p => objects'[q] = objects[q]
  BY <1>1, <1>3, NoObjectTypes DEF TypeOK
<1>6. photo' \in [Photos -> Aggregates] /\ \A q \in Photos : q # p => photo'[q] = photo[q]
  BY <1>1, <1>2, <1>3 DEF TypeOK
<1>7. links' \in [Photos -> [Owners -> 0..2]]
  <2>1. links \in [Photos -> [Owners -> 0..2]]
    BY <1>1 DEF TypeOK
  <2>2. [links EXCEPT ![p]["wardrobe"] = 1] \in [Photos -> [Owners -> 0..2]]
    BY <1>1, WardrobeLinked
  <2> QED
    BY <1>3, <2>1, <2>2
<1>8. TypeOK' /\ Others(p) /\ upload'[p] = "refused"
  BY <1>1, <1>3, <1>4, <1>5, <1>6, <1>7 DEF TypeOK, Others
<1>9. PhotoInv(p)'
  BY <1>8 DEF PhotoInv, Standing, SweepSpares
<1> QED
  BY <1>3, <1>8, <1>9, OnePhotoStep

(* Events of the owners, and what the projectors make of them. *)
LEMMA LinkSteps ==
  ASSUME PhotosInv, NEW p \in Photos,
         Unlink(p) \/ (\E s \in Shoots : ChangeContinuity(p, s)) \/ ProjectLink(p)
           \/ ProjectPhoto(p)
  PROVE  PhotosInv'
PROOF
<1>1. TypeOK /\ PhotoInv(p) /\ shown[p] \in Nat
  BY PhotoTypes DEF PhotosInv
<1>2. CASE Unlink(p) \/ \E s \in Shoots : ChangeContinuity(p, s)
  <2>1. links' \in [Photos -> [Owners -> 0..2]]
    <3>1. CASE Unlink(p)
      BY <1>1, <3>1, WardrobeLinked DEF Unlink
    <3>2. ASSUME NEW s \in Shoots, ChangeContinuity(p, s)
          PROVE  links' \in [Photos -> [Owners -> 0..2]]
      <4>1. s \in Owners /\ links[p][s] + 1 \in 0..2
        BY <1>1, <3>2 DEF ChangeContinuity, Owners, TypeOK
      <4>2. links' = [links EXCEPT ![p][s] = links[p][s] + 1]
        BY <3>2 DEF ChangeContinuity
      <4> QED
        BY <1>1, <4>1, <4>2, LinksTypes
    <3> QED
      BY <1>2, <3>1, <3>2
  <2>2. UNCHANGED <<upload, photo, shown, shownLink, objects, gc, faults>>
    BY <1>2 DEF Unlink, ChangeContinuity
  <2>3. TypeOK' /\ Others(p)
    BY <1>1, <2>1, <2>2 DEF TypeOK, Others
  <2>4. PhotoInv(p)'
    BY <1>1, <2>2 DEF PhotoInv, Standing, HasOriginal, SweepSpares
  <2> QED
    BY <2>2, <2>3, <2>4, OnePhotoStep
<1>3. CASE ProjectLink(p)
  <2>1. "wardrobe" \in Owners
    BY DEF Owners
  <2>2. shownLink[p] \in 0..2 /\ links[p]["wardrobe"] \in 0..2
    BY <1>1, <2>1 DEF TypeOK
  <2>3. shownLink[p] + 1 \in 0..2 /\ shownLink' = [shownLink EXCEPT ![p] = shownLink[p] + 1]
    BY <1>3, <2>2 DEF ProjectLink
  <2>4. UNCHANGED <<upload, photo, shown, links, objects, gc, faults>>
    BY <1>3 DEF ProjectLink
  <2>5. TypeOK' /\ Others(p)
    BY <1>1, <2>3, <2>4 DEF TypeOK, Others
  <2>6. PhotoInv(p)'
    BY <1>1, <2>4 DEF PhotoInv, Standing, HasOriginal, SweepSpares
  <2> QED
    BY <2>4, <2>5, <2>6, OnePhotoStep
<1>4. CASE ProjectPhoto(p)
  <2>1. /\ shown' = [shown EXCEPT ![p] = shown[p] + 1]
        /\ UNCHANGED <<upload, photo, links, shownLink, objects, gc, faults>>
    BY <1>4 DEF ProjectPhoto
  <2>2. TypeOK' /\ Others(p) /\ shown'[p] > 0
    BY <1>1, <2>1 DEF TypeOK, Others
  <2>3. PhotoInv(p)'
    BY <1>1, <2>1, <2>2 DEF PhotoInv, Standing, HasOriginal, SweepSpares
  <2> QED
    BY <2>1, <2>2, <2>3, OnePhotoStep
<1> QED
  BY <1>2, <1>3, <1>4

(* Bytes grow old only between sweeps, after the request, and when the     *)
(* photo has its row.                                                      *)
LEMMA AgeStep ==
  ASSUME PhotosInv, NEW p \in Photos, Age(p)
  PROVE  PhotosInv'
PROOF
<1>1. TypeOK /\ PhotoInv(p) /\ objects[p] \in Objects
  BY PhotoTypes DEF PhotosInv
<1>2. /\ gc.phase = "idle" /\ upload[p] \notin {"stored", "uploaded"}
      /\ photo[p].version > 0 => shown[p] > 0
      /\ UNCHANGED <<upload, photo, shown, links, shownLink, gc, faults>>
  BY DEF Age
<1> DEFINE n == [objects[p] EXCEPT !.old = TRUE]
<1>3. objects' = [objects EXCEPT ![p] = n]
  BY DEF Age
<1>4. n \in Objects /\ n.variants = objects[p].variants
  BY <1>1 DEF Objects
<1> HIDE DEF n
<1>5. TypeOK' /\ Others(p) /\ objects'[p] = n
  BY <1>1, <1>2, <1>3, <1>4 DEF TypeOK, Others
<1>6. PhotoInv(p)'
  BY <1>1, <1>2, <1>4, <1>5 DEF PhotoInv, Standing, HasOriginal, SweepSpares
<1> QED
  BY <1>2, <1>5, <1>6, OnePhotoStep

LEMMA CleanupSteps ==
  ASSUME PhotosInv, CleanupStorageFails \/ \E p \in Photos : CleanupTakes(p)
  PROVE  PhotosInv'
PROOF
<1>1. TypeOK
  BY DEF PhotosInv
<1>2. CASE CleanupStorageFails
  BY <1>1, <1>2, NothingChanges, ProgressStep, FaultTypes DEF CleanupStorageFails
<1>3. ASSUME NEW p \in Photos, CleanupTakes(p) PROVE PhotosInv'
  <2>1. /\ photo[p].deleted /\ objects' = [objects EXCEPT ![p] = NoObject]
        /\ UNCHANGED <<upload, photo, shown, links, shownLink, gc, faults>>
    BY <1>3 DEF CleanupTakes
  <2>2. TypeOK' /\ Others(p) /\ objects'[p] = NoObject
    BY <1>1, <2>1, NoObjectTypes DEF TypeOK, Others
  <2>3. PhotoInv(p) /\ ~NoObject.old
    BY DEF PhotosInv, NoObject
  <2>4. PhotoInv(p)'
    BY <2>1, <2>2, <2>3 DEF PhotoInv, Standing, HasOriginal, SweepSpares
  <2> QED
    BY <2>1, <2>2, <2>4, OnePhotoStep
<1> QED
  BY <1>2, <1>3

(* A lookup that fails changes nothing but the memory of a saga. *)
LEMMA LookupStep ==
  ASSUME PhotosInv, NEW p \in Photos, LookupFails(p)
  PROVE  PhotosInv'
PROOF
<1>1. TypeOK
  BY DEF PhotosInv
<1> QED
  BY <1>1, NothingChanges, ProgressStep, FaultTypes DEF LookupFails

LEMMA GcSteps ==
  ASSUME PhotosInv, GcLists \/ GcWorks \/ GcFails
  PROVE  PhotosInv'
PROOF
<1>1. TypeOK /\ gc \in Sweeps
  BY DEF PhotosInv, TypeOK
<1>2. ASSUME NEW phase \in {"idle", "listed"}, NEW ids \in SUBSET Photos,
             gc' = [phase |-> phase, ids |-> ids], faults' \in 0..MaxFaults,
             UNCHANGED <<upload, photo, shown, links, shownLink, objects>>
      PROVE  PhotosInv'
  <2>1. TypeOK' /\ gc'.phase # "orphans"
    BY <1>1, <1>2 DEF TypeOK, Sweeps
  <2> QED
    BY <1>2, <2>1 DEF PhotosInv, PhotoInv, Standing, HasOriginal, SweepSpares
<1>f. faults \in 0..MaxFaults
  BY <1>1 DEF TypeOK
<1>3. CASE GcLists
  BY <1>2, <1>3, <1>f DEF GcLists
<1>4. CASE GcEnds
  BY <1>2, <1>4, <1>f DEF GcEnds, IdleGc
<1>7. CASE GcFails
  <2>1. faults' \in 0..MaxFaults
    BY <1>1, <1>7, FaultTypes DEF GcFails
  <2> QED
    BY <1>2, <1>7, <2>1 DEF GcFails, IdleGc
<1>5. CASE GcFindsOrphans
  <2>1. PICK ids \in SUBSET {p \in gc.ids : ~HasRow(p)} :
          /\ gc' = [phase |-> "orphans", ids |-> ids]
          /\ UNCHANGED <<upload, photo, shown, links, shownLink, objects, faults>>
    BY <1>5 DEF GcFindsOrphans, Batches
  <2>2. TypeOK'
    BY <1>1, <2>1 DEF TypeOK, Sweeps
  <2>3. ASSUME NEW p \in Photos PROVE PhotoInv(p)'
    <3>1. PhotoInv(p) /\ shown[p] \in Nat /\ photo[p].deleted \in BOOLEAN
      BY <1>1, PhotoTypes DEF PhotosInv
    <3>2. p \in gc'.ids => ~HasRow(p)
      BY <2>1
    <3>3. p \in gc'.ids /\ ~photo[p].deleted => ~(shown[p] > 0)
      BY <3>1, <3>2 DEF HasRow
    <3> QED
      BY <2>1, <3>1, <3>3 DEF PhotoInv, Standing, HasOriginal, SweepSpares
  <2> QED
    BY <2>2, <2>3 DEF PhotosInv
<1>6. ASSUME NEW p \in Photos, GcDeletes(p) PROVE PhotosInv'
  <2>1. /\ gc.phase = "orphans" /\ p \in gc.ids
        /\ objects' = IF TooYoung(p) THEN objects ELSE [objects EXCEPT ![p] = NoObject]
        /\ gc' = [gc EXCEPT !.ids = gc.ids \ {p}]
        /\ UNCHANGED <<upload, photo, shown, links, shownLink, faults>>
    BY <1>6 DEF GcDeletes
  <2>2. gc' \in Sweeps /\ gc'.phase = gc.phase /\ gc'.ids = gc.ids \ {p}
    BY <1>1, <2>1 DEF Sweeps
  <2>3. TypeOK' /\ Others(p)
    BY <1>1, <2>1, <2>2, NoObjectTypes DEF TypeOK, Others
  <2>4. PhotoInv(p) /\ ~NoObject.old
    BY DEF PhotosInv, NoObject
  <2>5. PhotoInv(p)'
    <3>1. CASE TooYoung(p)
      BY <2>1, <2>2, <2>4, <3>1 DEF PhotoInv, Standing, HasOriginal, SweepSpares
    <3>2. CASE ~TooYoung(p)
      <4>1. objects[p].old /\ objects'[p] = NoObject
        BY <1>1, <2>1, <3>2 DEF TooYoung, TypeOK
      <4>2. ~(Standing(p) /\ ~photo[p].deleted)
        BY <2>1, <2>4, <4>1 DEF PhotoInv, Standing, SweepSpares
      <4> QED
        BY <2>1, <2>2, <2>4, <4>1, <4>2 DEF PhotoInv, Standing, HasOriginal, SweepSpares
    <3> QED
      BY <3>1, <3>2
  <2> QED
    BY <2>2, <2>3, <2>5, OnePhotoStep
<1> QED
  BY <1>3, <1>4, <1>5, <1>6, <1>7 DEF GcWorks

LEMMA CrashStep ==
  ASSUME PhotosInv, Crash
  PROVE  PhotosInv'
PROOF
<1>1. TypeOK
  BY DEF PhotosInv
<1>2. /\ upload' = [p \in Photos |-> IF upload[p] \in {"stored", "uploaded"} THEN "refused"
                                     ELSE upload[p]]
      /\ gc' = IdleGc /\ UNCHANGED <<photo, shown, links, shownLink, objects>>
  BY DEF Crash
<1>3. gc' \in Sweeps /\ gc'.phase # "orphans"
  BY <1>2 DEF IdleGc, Sweeps
<1>4. faults' \in 0..MaxFaults
  BY <1>1, FaultTypes DEF Crash
<1>5. TypeOK'
  BY <1>1, <1>2, <1>3, <1>4 DEF TypeOK
<1> QED
  BY <1>2, <1>3, <1>5 DEF PhotosInv, PhotoInv, Standing, HasOriginal, SweepSpares

-----------------------------------------------------------------------------
(* The theorems *)

LEMMA PhotosInvInit == Init => PhotosInv
PROOF
<1> SUFFICES ASSUME Init PROVE PhotosInv
  OBVIOUS
<1>1. NoPhoto \in Aggregates /\ IdleGc \in Sweeps /\ IdleGc.phase = "idle" /\ ~NoObject.old
  BY DEF NoPhoto, Aggregates, IdleGc, Sweeps, NoObject
<1>2. TypeOK
  BY <1>1, NoObjectTypes, PhotosConstants DEF Init, TypeOK
<1>3. \A p \in Photos : upload[p] = "new" /\ gc.phase = "idle"
  BY <1>1 DEF Init
<1> QED
  BY <1>2, <1>3 DEF PhotosInv, PhotoInv, Standing, SweepSpares

LEMMA PhotosInvNext == PhotosInv /\ [Next]_vars => PhotosInv'
PROOF
<1> SUFFICES ASSUME PhotosInv, [Next]_vars PROVE PhotosInv'
  OBVIOUS
<1>1. ASSUME NEW p \in Photos, Requests(p) PROVE PhotosInv'
  BY <1>1, UploadSteps, RefusedSteps, LinkSteps DEF Requests
<1>2. ASSUME NEW p \in Photos, ProjectPhoto(p) \/ ProjectLink(p) PROVE PhotosInv'
  BY <1>2, LinkSteps
<1>3. ASSUME NEW p \in Photos, DeletionTakes(p) \/ \E s \in Shoots : ContinuityTakes(p, s)
      PROVE  PhotosInv'
  BY <1>3, DeletionSagasStep
<1>4. CASE UNCHANGED vars
  <2>1. UNCHANGED <<upload, photo, shown, links, shownLink, objects, gc, faults>>
    BY <1>4 DEF vars
  <2> QED
    BY <2>1, NothingChanges, ProgressStep DEF PhotosInv, TypeOK
<1>5. CASE ThumbWorks \/ ThumbStorageFails \/ \E p \in Photos : ThumbTakes(p)
  BY <1>5, ThumbStep
<1>6. CASE CleanupStorageFails \/ \E p \in Photos : CleanupTakes(p)
  BY <1>6, CleanupSteps
<1> QED
  BY <1>1, <1>2, <1>3, <1>4, <1>5, <1>6, AgeStep, LookupStep, GcSteps,
     CrashStep DEF Next

(* The bytes of a photo that its owner links and no saga has deleted are   *)
(* safe from every compensation, from the cleanup of other photos and from *)
(* a sweep that listed the rows before the photo had one.                  *)
THEOREM LinkedPhotosKeepBytes == Spec => []LinkedPhotoHasBytes
PROOF
<1>1. PhotosInv => LinkedPhotoHasBytes
  BY DEF PhotosInv, PhotoInv, Standing, HasOriginal, LinkedPhotoHasBytes
<1> QED
  BY <1>1, PhotosInvInit, PhotosInvNext, PTL DEF Spec
=============================================================================
