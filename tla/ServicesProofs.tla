---------------------------- MODULE ServicesProofs ----------------------------
(***************************************************************************)
(* What holds of the services around the database for every value of the   *)
(* constants.  FileStorage: UploadInv says what an upload has stored,      *)
(* RemovalInv what a removal has deleted, TempInv whose photo a temporary  *)
(* file is; with the type invariant and the properties they are inductive. *)
(* AuditLog: LocationsFilled is not inductive, as a look at Redis that is  *)
(* still to come does not help a row once the entry is there; AuditInv     *)
(* says what does, Coming, and that it also covers the requests that are   *)
(* still to read the location.  Registration: FormInv follows a form from  *)
(* the captcha to the row; an address is in the table as createUserByWeb   *)
(* lowers it, unless the administration wrote it.  DemoSeed: DemoInv says  *)
(* what each statement of the script finds.                                *)
(***************************************************************************)
EXTENDS FileStorage, AuditLog, Registration, DemoSeed, FiniteSetTheorems, TLAPS

UploadInv(u) ==
    /\ upload[u].step \in {"new", "bucket", "make", "start"} => gps[u] = NoGps
    /\ upload[u].step \in {"64x64", "500x500", "join", "insert", "done"} => <<u, "original">> \in objects \/ u \in gone

RemovalInv(r) ==
    /\ removal[r].step \in {"object", "row"} => removal[r].of \in DOMAIN file
    /\ removal[r].step = "row" => <<removal[r].of, "original">> \notin objects

TempInv ==
    /\ \A t \in DOMAIN temp : gps[temp[t]].at = t
    /\ \A u, v \in Uploads : u # v /\ gps[u].at = gps[v].at /\ gps[u].at # NoPath => u \in shared

ObjectInv ==
    /\ \A u \in Uploads : UploadInv(u)
    /\ \A r \in Removals : RemovalInv(r)
    /\ LiveFilesStored /\ DeletedFilesGone

LocationInv == TempInv /\ LocationIsOwn

StorageInv == StorageTypeOK /\ ObjectInv /\ LocationInv

USE StorageConstants

LEMMA InitStorage == StorageInit => StorageInv
BY DEF StorageInit, StorageInv, StorageTypeOK, ObjectInv, LocationInv, UploadInv, RemovalInv, TempInv,
       LiveFilesStored, DeletedFilesGone, LocationIsOwn, NoUpload, NoGps, NoRemoval, FileTypes,
       UploadType, GpsType, RemovalType, Answered

(* The records of the strands and of the removals stay well-formed. *)
LEMMA RecordStep ==
    ASSUME StorageTypeOK, [StorageNext]_storageVars
    PROVE  /\ upload' \in [Uploads -> UploadType]
           /\ gps' \in [Uploads -> GpsType]
           /\ \A u \in Uploads : gps'[u].step \in {"write", "read", "unlink"} => gps'[u].at \in Times
           /\ removal' \in [Removals -> RemovalType]
<1> DEFINE Goal ==
        /\ upload' \in [Uploads -> UploadType]
        /\ gps' \in [Uploads -> GpsType]
        /\ \A u \in Uploads : gps'[u].step \in {"write", "read", "unlink"} => gps'[u].at \in Times
        /\ removal' \in [Removals -> RemovalType]
<1> SUFFICES Goal
  OBVIOUS
<1>0. /\ upload \in [Uploads -> UploadType]
      /\ gps \in [Uploads -> GpsType]
      /\ \A u \in Uploads : gps[u].step \in {"write", "read", "unlink"} => gps[u].at \in Times
      /\ removal \in [Removals -> RemovalType]
      /\ temp \in [DOMAIN temp -> Uploads] /\ image \in [DOMAIN image -> SUBSET Uploads]
      /\ DOMAIN file \subseteq Uploads /\ DOMAIN image \subseteq ImageIds
  BY DEF StorageTypeOK, Answered
<1> USE <1>0
<1>1. ASSUME NEW u \in Uploads, UploadStep(u) PROVE Goal
  <2> USE DEF UploadType, Step, Settle, NoUpload
  <2>1. CASE BeginUpload(u)
    BY <2>1 DEF BeginUpload, FileTypes
  <2>2. CASE CheckBucket(u) \/ MakeBucket(u) \/ Convert(u)
    <3>1. UNCHANGED <<gps, removal>>
      BY <2>2 DEF CheckBucket, MakeBucket, Convert
    <3>2. PICK to \in {"start", "make", "put"} : upload' = [upload EXCEPT ![u].step = to]
      BY <2>2 DEF CheckBucket, MakeBucket, Convert
    <3>3. upload' \in [Uploads -> UploadType]
      BY <3>2
    <3>4. QED
      BY <3>1, <3>3
  <2>3. CASE StartStrands(u)
    <3>1. PICK t \in Times : gps' = [gps EXCEPT ![u] = [step |-> "write", at |-> t, found |-> NoPath]]
      BY <2>3 DEF StartStrands
    <3>2. gps' \in [Uploads -> GpsType]
      BY <3>1 DEF GpsType
    <3>3. \A v \in Uploads : gps'[v].step \in {"write", "read", "unlink"} => gps'[v].at \in Times
      BY <3>1
    <3>4. PICK to \in {"convert", "put"} : upload' = [upload EXCEPT ![u].step = to]
      BY <2>3 DEF StartStrands
    <3>5. upload' \in [Uploads -> UploadType]
      BY <3>4
    <3>6. UNCHANGED removal
      BY <2>3 DEF StartStrands
    <3>7. QED
      BY <3>2, <3>3, <3>5, <3>6
  <2>4. CASE PutOriginal(u)
    BY <2>4 DEF PutOriginal, Put
  <2>5. CASE PutThumbnail(u)
    <3>1. UNCHANGED <<gps, removal>>
      BY <2>5 DEF PutThumbnail, Put
    <3>2. PICK to \in {"500x500", "join"} : upload' = [upload EXCEPT ![u].step = to]
      BY <2>5 DEF PutThumbnail
    <3>3. upload' \in [Uploads -> UploadType]
      BY <3>2
    <3>4. QED
      BY <3>1, <3>3
  <2>6. CASE Join(u)
    BY <2>6 DEF Join, FileTypes
  <2>7. CASE InsertFile(u)
    BY <2>7 DEF InsertFile
  <2>8. CASE FailUpload(u)
    BY <2>8 DEF FailUpload, FileTypes, rows
  <2>9. QED
    BY <1>1, <2>1, <2>2, <2>3, <2>4, <2>5, <2>6, <2>7, <2>8 DEF UploadStep
<1>2. ASSUME NEW u \in Uploads, GpsStrand(u) PROVE Goal
  BY <1>2 DEF GpsStrand, GpsStep, WriteTemp, ReadTemp, SkipTemp, UnlinkTemp, GpsType
<1>3. ASSUME NEW r \in Removals, RemovalStep(r) PROVE Goal
  <2> USE DEF RemovalType
  <2>1. CASE BeginRemoveFile(r)
    BY <2>1 DEF BeginRemoveFile
  <2>2. CASE BeginRemoveImage(r)
    BY <2>2 DEF BeginRemoveImage
  <2>3. CASE DeleteObject(r)
    BY <2>3 DEF DeleteObject
  <2>4. CASE DeletePhoto(r)
    BY <2>4 DEF DeletePhoto
  <2>5. CASE MarkDeleted(r) \/ DeleteImage(r) \/ FailRemoval(r)
    BY <2>5 DEF MarkDeleted, DeleteImage, FailRemoval, NoRemoval
  <2>6. QED
    BY <1>3, <2>1, <2>2, <2>3, <2>4, <2>5 DEF RemovalStep
<1>4. CASE InitBucket \/ CreateImage \/ UpdateImage
  BY <1>4 DEF InitBucket, CreateImage, UpdateImage
<1>5. CASE StorageCrash
  <2>1. upload' \in [Uploads -> UploadType]
    BY <1>5 DEF StorageCrash, NoUpload, UploadType, FileTypes
  <2>2. gps' \in [Uploads -> GpsType] /\ \A u \in Uploads : gps'[u].step \in {"off", "done"}
    BY <1>5 DEF StorageCrash, GpsType
  <2>3. removal' \in [Removals -> RemovalType]
    BY <1>5 DEF StorageCrash, NoRemoval, RemovalType
  <2>4. QED
    BY <2>1, <2>2, <2>3
<1>6. CASE UNCHANGED storageVars
  BY <1>6 DEF storageVars
<1>7. QED
  BY <1>1, <1>2, <1>3, <1>4, <1>5, <1>6 DEF StorageNext

(* ... and so do the tables, the objects and the temporary files. *)
LEMMA TableStep ==
    ASSUME StorageTypeOK, [StorageNext]_storageVars
    PROVE  /\ bucket' \in BOOLEAN /\ objects' \subseteq Uploads \X Parts
           /\ DOMAIN temp' \subseteq Times /\ temp' \in [DOMAIN temp' -> Uploads]
           /\ DOMAIN file' \subseteq Answered' /\ file' \in [DOMAIN file' -> {"live", "deleted"}]
           /\ DOMAIN image' \subseteq ImageIds /\ image' \in [DOMAIN image' -> SUBSET Uploads]
<1> DEFINE Objects == bucket' \in BOOLEAN /\ objects' \subseteq Uploads \X Parts
           Temps == DOMAIN temp' \subseteq Times /\ temp' \in [DOMAIN temp' -> Uploads]
           Files == DOMAIN file' \subseteq Answered' /\ file' \in [DOMAIN file' -> {"live", "deleted"}]
           Images == DOMAIN image' \subseteq ImageIds /\ image' \in [DOMAIN image' -> SUBSET Uploads]
<1> SUFFICES Objects /\ Temps /\ Files /\ Images
  OBVIOUS
<1>0. StorageTypeOK
  OBVIOUS
<1> USE DEF stored, rows
<1>1. ASSUME NEW u \in Uploads, UploadStep(u) PROVE Objects /\ Temps /\ Files /\ Images
  <2>1. Objects
    <3>1. bucket' = bucket \/ bucket' = TRUE
      BY <1>1 DEF UploadStep, BeginUpload, CheckBucket, MakeBucket, StartStrands, Convert, PutOriginal, PutThumbnail,
                  Put, Join, InsertFile, FailUpload
    <3>2. objects' = objects \/ \E part \in Parts : objects' = objects \cup {<<u, part>>}
      BY <1>1 DEF UploadStep, BeginUpload, CheckBucket, MakeBucket, StartStrands, Convert, PutOriginal, PutThumbnail,
                  Put, Parts, Join, InsertFile, FailUpload
    <3>3. \A part \in Parts : <<u, part>> \in Uploads \X Parts
      OBVIOUS
    <3>4. objects' \subseteq Uploads \X Parts
      BY <1>0, <3>2, <3>3 DEF StorageTypeOK
    <3>5. QED
      BY <1>0, <3>1, <3>4 DEF StorageTypeOK
  <2>2. temp' = temp /\ image' = image
    BY <1>1 DEF UploadStep, BeginUpload, CheckBucket, MakeBucket, StartStrands, Convert, PutOriginal, PutThumbnail,
                Put, Join, InsertFile, FailUpload
  <2>3. \A v \in Answered : v \in Answered'
    BY <1>0, <1>1 DEF StorageTypeOK, UploadType, Answered, UploadStep, BeginUpload, CheckBucket, MakeBucket,
                      StartStrands, Convert, PutOriginal, PutThumbnail, Put, Join, InsertFile, FailUpload, Step, Settle
  <2>4. CASE InsertFile(u)
    <3>1. u \in Answered'
      BY <1>0, <2>4 DEF InsertFile, Step, StorageTypeOK, UploadType, Answered
    <3>2. Files
      BY <1>0, <2>3, <2>4, <3>1 DEF InsertFile, Bind, StorageTypeOK
    <3>3. QED
      BY <1>0, <2>1, <2>2, <3>2 DEF StorageTypeOK
  <2>5. CASE ~InsertFile(u)
    <3>1. file' = file
      BY <1>1, <2>5 DEF UploadStep, BeginUpload, CheckBucket, MakeBucket, StartStrands, Convert, PutOriginal,
                        PutThumbnail, Put, Join, FailUpload
    <3>2. QED
      BY <1>0, <2>1, <2>2, <2>3, <3>1 DEF StorageTypeOK
  <2>6. QED
    BY <2>4, <2>5
<1>2. ASSUME NEW u \in Uploads, GpsStrand(u) PROVE Objects /\ Temps /\ Files /\ Images
  <2>1. UNCHANGED <<bucket, objects, upload, file, image>>
    BY <1>2 DEF GpsStrand, GpsStep, WriteTemp, ReadTemp, SkipTemp, UnlinkTemp
  <2>2. Temps
    <3>1. CASE WriteTemp(u)
      BY <1>0, <3>1 DEF StorageTypeOK, WriteTemp, GpsStep, Bind
    <3>2. CASE ReadTemp(u) \/ SkipTemp(u)
      BY <1>0, <3>2 DEF StorageTypeOK, ReadTemp, SkipTemp
    <3>3. CASE UnlinkTemp(u)
      BY <1>0, <3>3 DEF StorageTypeOK, UnlinkTemp, Unbind
    <3>4. QED
      BY <1>2, <3>1, <3>2, <3>3 DEF GpsStrand
  <2>3. QED
    BY <1>0, <2>1, <2>2 DEF StorageTypeOK, Answered
<1>3. ASSUME NEW r \in Removals, RemovalStep(r) PROVE Objects /\ Temps /\ Files /\ Images
  <2>1. UNCHANGED <<bucket, temp, upload>> /\ objects' \subseteq objects
    BY <1>3 DEF RemovalStep, BeginRemoveFile, BeginRemoveImage, DeleteObject, DeletePhoto, MarkDeleted, DeleteImage,
                FailRemoval
  <2>2. Files
    <3>1. file' = file \/ (MarkDeleted(r) /\ file' = [file EXCEPT ![removal[r].of] = "deleted"])
      BY <1>3 DEF RemovalStep, BeginRemoveFile, BeginRemoveImage, DeleteObject, DeletePhoto, MarkDeleted, DeleteImage,
                  FailRemoval
    <3>2. QED
      BY <1>0, <2>1, <3>1 DEF StorageTypeOK, Answered
  <2>3. Images
    <3>1. image' = image \/ image' = Unbind(image, removal[r].of)
      BY <1>3 DEF RemovalStep, BeginRemoveFile, BeginRemoveImage, DeleteObject, DeletePhoto, MarkDeleted, DeleteImage,
                  FailRemoval
    <3>2. QED
      BY <1>0, <3>1 DEF StorageTypeOK, Unbind
  <2>4. QED
    BY <1>0, <2>1, <2>2, <2>3 DEF StorageTypeOK
<1>4. CASE InitBucket
  BY <1>0, <1>4 DEF StorageTypeOK, InitBucket, Answered
<1>5. CASE CreateImage \/ UpdateImage
  <2>0. SUBSET Answered \subseteq SUBSET Uploads
    BY DEF Answered
  <2>1. Images
    <3>1. CASE CreateImage
      <4>1. PICK i \in ImageIds, photos \in SUBSET Uploads : image' = Bind(image, i, photos)
        BY <2>0, <3>1 DEF CreateImage
      <4>2. QED
        BY <1>0, <4>1 DEF StorageTypeOK, Bind
    <3>2. CASE UpdateImage
      <4>1. PICK i \in DOMAIN image, photos \in SUBSET Uploads : image' = [image EXCEPT ![i] = photos]
        BY <2>0, <3>2 DEF UpdateImage
      <4>2. QED
        BY <1>0, <4>1 DEF StorageTypeOK
    <3>3. QED
      BY <1>5, <3>1, <3>2
  <2>2. QED
    BY <1>0, <1>5, <2>1 DEF StorageTypeOK, CreateImage, UpdateImage, Answered
<1>6. CASE StorageCrash
  BY <1>0, <1>6 DEF StorageTypeOK, StorageCrash, Answered
<1>7. CASE UNCHANGED storageVars
  BY <1>0, <1>7 DEF StorageTypeOK, storageVars, Answered
<1>8. QED
  BY <1>1, <1>2, <1>3, <1>4, <1>5, <1>6, <1>7 DEF StorageNext

LEMMA StorageTypeStep == StorageTypeOK /\ [StorageNext]_storageVars => StorageTypeOK'
BY RecordStep, TableStep DEF StorageTypeOK

----------------------------------------------------------------------------
(* Rows and objects *)

(* A step of an upload takes nothing away, and only PutOriginal, which is   *)
(* before any row, brings an original.                                      *)
LEMMA UploadObjects ==
    ASSUME StorageInv, StorageTypeOK', NEW u \in Uploads, UploadStep(u)
    PROVE  ObjectInv'
<1>0. StorageTypeOK /\ ObjectInv
  BY DEF StorageInv
<1> USE <1>0 DEF StorageTypeOK, UploadType, Answered, ObjectInv, UploadInv, RemovalInv, LiveFilesStored,
                 DeletedFilesGone, Step, Settle, stored, rows
<1>1. CASE BeginUpload(u)
  BY <1>1 DEF BeginUpload
<1>2. CASE CheckBucket(u) \/ MakeBucket(u) \/ Convert(u)
  <2>1. UNCHANGED <<objects, gps, file, removal, gone>>
    BY <1>2 DEF CheckBucket, MakeBucket, Convert
  <2>2. PICK to \in {"start", "make", "put"} : upload' = [upload EXCEPT ![u].step = to]
    BY <1>2 DEF CheckBucket, MakeBucket, Convert
  <2>3. to # "put" => upload[u].step \in {"bucket", "make"}
    BY <1>2, <2>2 DEF CheckBucket, MakeBucket, Convert
  <2>4. ASSUME NEW v \in Uploads PROVE UploadInv(v)'
    <3>1. CASE v # u
      BY <2>1, <2>2, <3>1
    <3>2. CASE v = u
      <4>1. upload'[u].step = to
        BY <2>2
      <4>2. to \in {"start", "make"} => gps[u] = NoGps
        BY <2>3
      <4>3. QED
        BY <2>1, <2>2, <3>2, <4>1, <4>2
    <3>3. QED
      BY <3>1, <3>2
  <2>5. QED
    BY <2>1, <2>4
<1>3. CASE StartStrands(u)
  BY <1>3 DEF StartStrands
<1>4. CASE PutOriginal(u)
  BY <1>4 DEF PutOriginal, Put
<1>5. CASE PutThumbnail(u)
  <2>1. PICK part \in {"64x64", "500x500"}, to \in {"500x500", "join"} :
            Step(u, part, to) /\ objects' = objects \cup {<<u, part>>}
    BY <1>5 DEF PutThumbnail, Put
  <2>2. \A v \in Uploads : <<v, "original">> \in objects' <=> <<v, "original">> \in objects
    BY <2>1
  <2>3. \A r \in Removals : <<removal[r].of, "original">> \in objects' <=> <<removal[r].of, "original">> \in objects
    BY <2>1
  <2>4. UNCHANGED <<gps, file, removal, gone>>
    BY <1>5 DEF PutThumbnail, Put
  <2>5. QED
    BY <2>1, <2>2, <2>3, <2>4
<1>6. CASE Join(u)
  BY <1>6 DEF Join, NoUpload
<1>7. CASE InsertFile(u)
  BY <1>7 DEF InsertFile, Bind
<1>8. CASE FailUpload(u)
  BY <1>8 DEF FailUpload, NoUpload
<1>9. QED
  BY <1>1, <1>2, <1>3, <1>4, <1>5, <1>6, <1>7, <1>8 DEF UploadStep

(* What a removal takes away it has put on record. *)
LEMMA RemovalObjects ==
    ASSUME StorageInv, StorageTypeOK', NEW r \in Removals, RemovalStep(r)
    PROVE  ObjectInv'
<1>0. StorageTypeOK /\ ObjectInv
  BY DEF StorageInv
<1> USE <1>0 DEF StorageTypeOK, RemovalType, Answered, ObjectInv, UploadInv, RemovalInv, LiveFilesStored,
                 DeletedFilesGone, stored, rows
<1>1. CASE BeginRemoveFile(r)
  BY <1>1 DEF BeginRemoveFile
<1>2. CASE BeginRemoveImage(r)
  BY <1>2 DEF BeginRemoveImage
<1>3. CASE DeleteObject(r)
  BY <1>3 DEF DeleteObject
<1>4. CASE DeletePhoto(r)
  BY <1>4 DEF DeletePhoto
<1>5. CASE MarkDeleted(r)
  BY <1>5 DEF MarkDeleted, NoRemoval
<1>6. CASE DeleteImage(r) \/ FailRemoval(r)
  BY <1>6 DEF DeleteImage, FailRemoval, NoRemoval
<1>7. QED
  BY <1>1, <1>2, <1>3, <1>4, <1>5, <1>6 DEF RemovalStep

LEMMA ObjectStep == StorageInv /\ StorageTypeOK' /\ [StorageNext]_storageVars => ObjectInv'
<1> SUFFICES ASSUME StorageInv, StorageTypeOK', [StorageNext]_storageVars PROVE ObjectInv'
  OBVIOUS
<1>0. StorageTypeOK /\ ObjectInv
  BY DEF StorageInv
<1> USE <1>0 DEF StorageTypeOK, UploadType, RemovalType, Answered, ObjectInv, UploadInv, RemovalInv,
                 LiveFilesStored, DeletedFilesGone, stored, rows
<1>1. ASSUME NEW u \in Uploads, GpsStrand(u) PROVE ObjectInv'
  <2>1. UNCHANGED <<objects, upload, file, removal, gone>>
    BY <1>1 DEF GpsStrand, GpsStep, WriteTemp, ReadTemp, SkipTemp, UnlinkTemp
  <2>2. gps[u].step # "off" /\ \A v \in Uploads \ {u} : gps'[v] = gps[v]
    BY <1>1 DEF GpsStrand, GpsStep, WriteTemp, ReadTemp, SkipTemp, UnlinkTemp
  <2>3. upload[u].step \notin {"new", "bucket", "make", "start"}
    <3>1. gps[u] # NoGps
      BY <2>2 DEF NoGps
    <3>2. UploadInv(u)
      OBVIOUS
    <3>3. QED
      BY <3>1, <3>2
  <2>4. QED
    BY <2>1, <2>2, <2>3
<1>2. CASE InitBucket \/ CreateImage \/ UpdateImage
  BY <1>2 DEF InitBucket, CreateImage, UpdateImage
<1>3. CASE StorageCrash
  <2>1. \A u \in Uploads :
            /\ upload'[u].step \in {"new", "done", "failed"}
            /\ upload'[u].step # "failed" => upload'[u] = upload[u]
    BY <1>3 DEF StorageCrash, NoUpload
  <2>2. \A u \in Uploads : gps[u] = NoGps => gps'[u] = NoGps
    BY <1>3 DEF StorageCrash, NoGps
  <2>3. QED
    BY <1>3, <2>1, <2>2 DEF StorageCrash, NoRemoval
<1>4. CASE UNCHANGED storageVars
  BY <1>4 DEF storageVars
<1>5. QED
  BY <1>1, <1>2, <1>3, <1>4, UploadObjects, RemovalObjects DEF StorageNext

----------------------------------------------------------------------------
(* Locations *)

LEMMA LocationStep == StorageInv /\ StorageTypeOK' /\ [StorageNext]_storageVars => LocationInv'
<1> SUFFICES ASSUME StorageInv, StorageTypeOK', [StorageNext]_storageVars PROVE LocationInv'
  OBVIOUS
<1>0. StorageTypeOK /\ LocationInv /\ \A u \in Uploads : UploadInv(u)
  BY DEF StorageInv, ObjectInv
<1> USE <1>0 DEF StorageTypeOK, GpsType, LocationInv, TempInv, LocationIsOwn
<1>1. ASSUME NEW u \in Uploads, StartStrands(u) PROVE LocationInv'
  <2>1. gps[u] = NoGps
    BY <1>1 DEF StartStrands, Step, UploadInv
  <2>2. PICK t \in Times :
            /\ gps' = [gps EXCEPT ![u] = [step |-> "write", at |-> t, found |-> NoPath]]
            /\ LET others == {v \in Uploads \ {u} : gps[v].at = t}
               IN  shared' = IF others = {} THEN shared ELSE shared \cup others \cup {u}
    BY <1>1 DEF StartStrands
  <2>3. temp' = temp /\ \A s \in DOMAIN temp : temp[s] # u
    BY <1>1, <2>1 DEF StartStrands, NoGps
  <2>4. QED
    BY <2>2, <2>3
<1>2. ASSUME NEW u \in Uploads, WriteTemp(u) PROVE LocationInv'
  BY <1>2 DEF WriteTemp, GpsStep, Bind
<1>3. ASSUME NEW u \in Uploads, ReadTemp(u) PROVE LocationInv'
  BY <1>3 DEF ReadTemp
<1>4. ASSUME NEW u \in Uploads, SkipTemp(u) PROVE LocationInv'
  <2>1. gps' = [gps EXCEPT ![u].step = "unlink"] /\ UNCHANGED <<temp, shared>>
    BY <1>4 DEF SkipTemp, GpsStep
  <2>2. QED
    BY <2>1
<1>5. ASSUME NEW u \in Uploads, UnlinkTemp(u) PROVE LocationInv'
  BY <1>5 DEF UnlinkTemp, GpsStep, Unbind
<1>6. CASE StorageCrash
  BY <1>6 DEF StorageCrash
<1>7. CASE UNCHANGED <<temp, gps, shared>>
  BY <1>7
<1>8. ASSUME NEW u \in Uploads, UploadStep(u), ~StartStrands(u) PROVE UNCHANGED <<temp, gps, shared>>
  BY <1>8 DEF UploadStep, BeginUpload, CheckBucket, MakeBucket, Convert, PutOriginal, PutThumbnail, Put, Join,
              InsertFile, FailUpload
<1>9. ASSUME NEW r \in Removals, RemovalStep(r) PROVE UNCHANGED <<temp, gps, shared>>
  BY <1>9 DEF RemovalStep, BeginRemoveFile, BeginRemoveImage, DeleteObject, DeletePhoto, MarkDeleted, DeleteImage,
              FailRemoval
<1>10. CASE InitBucket \/ CreateImage \/ UpdateImage \/ UNCHANGED storageVars
  BY <1>7, <1>10 DEF InitBucket, CreateImage, UpdateImage, storageVars
<1>11. QED
  BY <1>1, <1>2, <1>3, <1>4, <1>5, <1>6, <1>7, <1>8, <1>9, <1>10 DEF StorageNext, GpsStrand

----------------------------------------------------------------------------

LEMMA StorageInvariant == StorageSpec => []StorageInv
<1>1. StorageInv /\ [StorageNext]_storageVars => StorageInv'
  BY StorageTypeStep, ObjectStep, LocationStep DEF StorageInv
<1>2. QED
  BY <1>1, InitStorage, PTL DEF StorageSpec

(* Uploads, removals and rows stay well-formed; a row of the file center    *)
(* is that of an upload that has ended.                                     *)
THEOREM StorageTypes == StorageSpec => []StorageTypeOK
<1>1. StorageInv => StorageTypeOK
  BY DEF StorageInv
<1>2. QED
  BY <1>1, StorageInvariant, PTL

(* The file center and the object storage agree, whatever fails or dies     *)
(* between the object and the row (FilesService.upload and remove,          *)
(* ImagesService.remove).                                                   *)
THEOREM FilesAndObjectsAgree == StorageSpec => []FilesAgree
<1>1. StorageInv => FilesAgree
  BY DEF StorageInv, ObjectInv, FilesAgree
<1>2. QED
  BY <1>1, StorageInvariant, PTL

(* A photo's location is its own unless two uploads began in the same       *)
(* millisecond (MinioService.extractGPSInfo).                               *)
THEOREM LocationsAreOwn == StorageSpec => []LocationIsOwn
<1>1. StorageInv => LocationIsOwn
  BY DEF StorageInv, LocationInv
<1>2. QED
  BY <1>1, StorageInvariant, PTL

----------------------------------------------------------------------------
(* An UPDATE will come from this request, or has failed: a look that is    *)
(* still to come counts only while there is nothing to find.               *)
Coming(r) ==
    \/ lookup[r] = "get" /\ ~cached
    \/ lookup[r] \in {"add", "failed"}
    \/ geoJob[r].step \in {"queued", "update", "failed"}

(* The row of the request is there or on its way, without the location.    *)
Late(r) ==
    /\ r \notin unread
    /\ bare[r] \/ r \in OnTheirWay

(* Who has not read the location yet will find it, or has asked for it.    *)
Asked(r) ==
    request[r].step \in {"running", "read"} /\ r \notin unread =>
        \/ cached
        \/ lookup[r] \in {"get", "add", "failed"}
        \/ geoJob[r].step \in {"queued", "failed"}

AuditInv ==
    /\ AuditTypeOK
    /\ \A r \in Requests : Asked(r)
    /\ \A r \in Requests : Late(r) => \E q \in Requests : Coming(q)

USE AuditConstants

JobSteps == {"none", "queued", "failed", "done"}

LEMMA InitAuditInv == AuditInit => AuditInv
<1> SUFFICES ASSUME AuditInit PROVE AuditInv
  OBVIOUS
<1>1. NoJob \in JobType({"created"}) /\ NoJob \in JobType({"update"}) /\ NoJob.step = "none"
  BY DEF NoJob, JobType
<1>2. AuditTypeOK
  BY <1>1 DEF AuditInit, AuditTypeOK
<1>3. ASSUME NEW r \in Requests PROVE Asked(r) /\ ~Late(r)
  BY <1>1 DEF AuditInit, Asked, Late, OnTheirWay
<1>4. QED
  BY <1>2, <1>3 DEF AuditInv

(* A job moved to another step is a job again. *)
LEMMA JobAtType ==
    ASSUME NEW steps, NEW job \in JobType(steps), NEW step \in JobSteps \cup steps
    PROVE  JobAt(job, step) \in JobType(steps) /\ JobAt(job, step).step = step
<1>1. 0 \in 0..(Attempts - 1)
  OBVIOUS
<1>2. CASE step \in {"done", "failed"}
  <2>1. JobAt(job, step) = [step |-> step, made |-> 0, stalled |-> FALSE]
    BY <1>2 DEF JobAt, NoJob
  <2>2. QED
    BY <1>1, <2>1, <1>2 DEF JobType
<1>3. CASE step \notin {"done", "failed"}
  <2>1. JobAt(job, step) = [job EXCEPT !.step = step]
    BY <1>3 DEF JobAt
  <2>2. QED
    BY <2>1, <1>3 DEF JobType, JobSteps
<1>4. QED
  BY <1>2, <1>3

LEMMA FailedType ==
    ASSUME NEW job \in JobType({"update"})
    PROVE  Failed(job) \in JobType({"update"}) /\ Failed(job).step \in {"queued", "failed"}
<1>1. CASE job.made + 1 < Attempts
  <2>1. job.made + 1 \in 0..(Attempts - 1)
    BY <1>1 DEF JobType
  <2>2. [job EXCEPT !.made = @ + 1] \in JobType({"update"})
    BY <2>1 DEF JobType
  <2>3. QED
    BY <1>1, <2>2, JobAtType DEF JobSteps, Failed
<1>2. CASE ~(job.made + 1 < Attempts)
  <2>1. 0 \in 0..(Attempts - 1)
    OBVIOUS
  <2>2. QED
    BY <1>2, <2>1 DEF Failed, JobAt, JobType, NoJob
<1>3. QED
  BY <1>1, <1>2

LEMMA ReclaimedType ==
    ASSUME NEW steps, NEW job \in JobType(steps)
    PROVE  /\ Reclaimed(job, steps) \in JobType(steps)
           /\ job.step \in steps => Reclaimed(job, steps).step \in {"queued", "failed"}
           /\ job.step \notin steps => Reclaimed(job, steps) = job
<1>1. [job EXCEPT !.step = "queued", !.stalled = TRUE] \in JobType(steps)
  BY DEF JobType
<1>2. JobAt(job, "failed") \in JobType(steps) /\ JobAt(job, "failed").step = "failed"
  BY JobAtType DEF JobSteps
<1>3. [job EXCEPT !.step = "queued", !.stalled = TRUE].step = "queued"
  BY DEF JobType
<1>4. QED
  BY <1>1, <1>2, <1>3 DEF Reclaimed

LEMMA AuditTypeStep == AuditTypeOK /\ [AuditNext]_auditVars => AuditTypeOK'
<1> SUFFICES ASSUME AuditTypeOK, [AuditNext]_auditVars PROVE AuditTypeOK'
  OBVIOUS
<1> USE DEF AuditTypeOK
<1>1. ASSUME NEW r \in Requests, Intercept(r) PROVE AuditTypeOK'
  <2> USE DEF RequestTo, LookupTo
  <2>0. NewJob \in JobType({"created"}) /\ NewJob \in JobType({"update"})
    <3>1. NoJob \in JobType({"created"}) /\ NoJob \in JobType({"update"})
      BY DEF NoJob, JobType
    <3>2. QED
      BY <3>1 DEF NewJob, JobType
  <2>1. CASE Arrive(r)
    BY <2>1 DEF Arrive
  <2>2. CASE LookUp(r)
    BY <2>2 DEF LookUp
  <2>3. CASE QueueLookup(r)
    BY <2>0, <2>3 DEF QueueLookup
  <2>4. CASE FailLookup(r)
    <3>1. ASSUME NEW from \in {"get", "add"}, LookupTo(r, from, "failed"), UNCHANGED geoJob PROVE AuditTypeOK'
      BY <3>1
    <3>2. QED
      BY <2>4, <3>1 DEF FailLookup
  <2>5. CASE Answer(r)
    <3>1. PICK step \in {"read", "done"} : RequestTo(r, "running", step)
      BY <2>5 DEF Answer
    <3>2. QED
      BY <2>5, <3>1 DEF Answer
  <2>10. CASE AnswerError(r)
    BY <2>10 DEF AnswerError
  <2>6. CASE ReadLocation(r)
    BY <2>6, ZenonT(40) DEF ReadLocation
  <2>7. CASE QueueLog(r)
    BY <2>0, <2>7 DEF QueueLog
  <2>8. CASE LoseLog(r)
    BY <2>8 DEF LoseLog
  <2>9. QED
    BY <1>1, <2>1, <2>2, <2>3, <2>4, <2>5, <2>6, <2>7, <2>8, <2>10 DEF Intercept
<1>2. ASSUME NEW r \in Requests, Work(r) PROVE AuditTypeOK'
  <2>1. ASSUME NEW from \in JobSteps \cup {"created"}, NEW to \in JobSteps \cup {"created"},
               from # "none", LogJobTo(r, from, to), bare' \in [Requests -> BOOLEAN]
        PROVE  AuditTypeOK'
    <3>1. JobAt(logJob[r], to) \in JobType({"created"})
      BY JobAtType
    <3>2. QED
      BY <2>1, <3>1 DEF LogJobTo
  <2>2. ASSUME NEW from \in JobSteps \cup {"update"}, NEW to \in JobSteps \cup {"update"},
               from # "none", GeoJobTo(r, from, to), cached' \in BOOLEAN,
               bare' \in [Requests -> BOOLEAN], unread' \subseteq Requests
        PROVE  AuditTypeOK'
    <3>1. JobAt(geoJob[r], to) \in JobType({"update"})
      BY JobAtType
    <3>2. QED
      BY <2>2, <3>1 DEF GeoJobTo
  <2>3. Insert(r) => bare' \in [Requests -> BOOLEAN]
    BY DEF Insert
  <2>4. CASE CreateRow(r) \/ FinishLog(r) \/ FailLog(r)
    BY <2>1, <2>3, <2>4 DEF CreateRow, FinishLog, FailLog, JobSteps
  <2>5. CASE StoreLocation(r)
    BY <2>2, <2>5 DEF StoreLocation, JobSteps
  <2>6. CASE UpdateRows(r)
    <3>1. bare' \in [Requests -> BOOLEAN] /\ unread' \subseteq Requests
      BY <2>6 DEF UpdateRows, OnTheirWay
    <3>2. QED
      BY <2>2, <2>6, <3>1 DEF UpdateRows, JobSteps
  <2>7. CASE FailGeo(r)
    BY <2>7, FailedType DEF FailGeo
  <2>8. QED
    BY <1>2, <2>4, <2>5, <2>6, <2>7 DEF Work
<1>3. CASE ClearLogs
  BY <1>3 DEF ClearLogs
<1>4. CASE ExpireLocation
  BY <1>4 DEF ExpireLocation
<1>5. CASE AuditCrash
  <2>1. /\ logJob' \in [Requests -> JobType({"created"})]
        /\ \A r \in Requests : logJob[r].step = "none" => logJob'[r].step = "none"
    BY <1>5, ReclaimedType DEF AuditCrash
  <2>2. /\ geoJob' \in [Requests -> JobType({"update"})]
        /\ \A r \in Requests : geoJob[r].step = "none" => geoJob'[r].step = "none"
    BY <1>5, ReclaimedType DEF AuditCrash
  <2>3. /\ request' \in [Requests -> [step : {"new", "running", "read", "add", "done"}, located : BOOLEAN]]
        /\ \A r \in Requests :
              request'[r].step = IF request[r].step = "new" THEN "new" ELSE "done"
    <3>1. request' = [r \in Requests |->
              IF request[r].step = "new" THEN request[r] ELSE [request[r] EXCEPT !.step = "done"]]
      BY <1>5 DEF AuditCrash
    <3>2. \A r \in Requests :
              request[r] \in [step : {"new", "running", "read", "add", "done"}, located : BOOLEAN]
      OBVIOUS
    <3>3. QED
      BY <3>1, <3>2
  <2>4. /\ lookup' \in [Requests -> {"off", "get", "add", "done", "failed"}]
        /\ \A r \in Requests : lookup[r] \in {"off", "done"} => lookup'[r] = lookup[r]
    BY <1>5 DEF AuditCrash
  <2>5. UNCHANGED <<cached, bare, unread>>
    BY <1>5 DEF AuditCrash
  <2>6. QED
    BY <2>1, <2>2, <2>3, <2>4, <2>5
<1>6. CASE UNCHANGED auditVars
  BY <1>6 DEF auditVars
<1>7. QED
  BY <1>1, <1>2, <1>3, <1>4, <1>5, <1>6 DEF AuditNext

(* The steps that change what AuditInv says beside the types. *)
LEMMA AskedStep ==
    ASSUME AuditInv, AuditTypeOK', [AuditNext]_auditVars, NEW q \in Requests
    PROVE  Asked(q)'
<1> USE DEF Asked
<1>0. AuditTypeOK /\ Asked(q)
  BY DEF AuditInv
<1> USE <1>0 DEF AuditTypeOK
<1>1. ASSUME NEW r \in Requests, Intercept(r) PROVE Asked(q)'
  <2> USE DEF RequestTo, LookupTo
  <2>1. CASE Arrive(r)
    BY <2>1 DEF Arrive
  <2>2. CASE LookUp(r) \/ FailLookup(r)
    BY <2>2 DEF LookUp, FailLookup
  <2>3. CASE QueueLookup(r)
    BY <2>3 DEF QueueLookup, NewJob, NoJob
  <2>4. CASE Answer(r) \/ AnswerError(r)
    BY <2>4 DEF Answer, AnswerError
  <2>5. CASE ReadLocation(r) \/ QueueLog(r) \/ LoseLog(r)
    BY <2>5 DEF ReadLocation, QueueLog, LoseLog
  <2>6. QED
    BY <1>1, <2>1, <2>2, <2>3, <2>4, <2>5 DEF Intercept
<1>2. ASSUME NEW r \in Requests, Work(r) PROVE Asked(q)'
  <2>1. CASE CreateRow(r) \/ FinishLog(r) \/ FailLog(r)
    BY <2>1 DEF CreateRow, FinishLog, FailLog, LogJobTo
  <2>2. CASE StoreLocation(r)
    BY <2>2 DEF StoreLocation, GeoJobTo
  <2>3. CASE UpdateRows(r)
    BY <2>3 DEF UpdateRows, GeoJobTo
  <2>4. CASE FailGeo(r)
    BY <2>4, FailedType DEF FailGeo
  <2>5. QED
    BY <1>2, <2>1, <2>2, <2>3, <2>4 DEF Work
<1>3. CASE ClearLogs
  BY <1>3 DEF ClearLogs
<1>4. CASE ExpireLocation
  BY <1>4 DEF ExpireLocation
<1>5. CASE AuditCrash
  BY <1>5 DEF AuditCrash
<1>6. CASE UNCHANGED auditVars
  BY <1>6 DEF auditVars
<1>7. QED
  BY <1>1, <1>2, <1>3, <1>4, <1>5, <1>6 DEF AuditNext

LEMMA LateStep ==
    ASSUME AuditInv, AuditTypeOK', [AuditNext]_auditVars, NEW q \in Requests, Late(q)'
    PROVE  \E p \in Requests : Coming(p)'
<1> USE DEF Late, Coming, OnTheirWay
<1>0. AuditTypeOK /\ Asked(q) /\ (Late(q) => \E p \in Requests : Coming(p))
  BY DEF AuditInv
<1> USE <1>0 DEF AuditTypeOK
<1>1. ASSUME NEW r \in Requests, Intercept(r) PROVE \E p \in Requests : Coming(p)'
  <2> USE DEF RequestTo, LookupTo
  <2>1. CASE Arrive(r)
    BY <2>1 DEF Arrive
  <2>2. CASE LookUp(r)
    BY <2>2 DEF LookUp
  <2>3. CASE QueueLookup(r)
    BY <2>3 DEF QueueLookup, NewJob, NoJob
  <2>4. CASE FailLookup(r)
    BY <2>4 DEF FailLookup
  <2>5. CASE Answer(r) \/ AnswerError(r)
    BY <2>5 DEF Answer, AnswerError
  <2>6. CASE ReadLocation(r)
    BY <2>6 DEF ReadLocation, Asked
  <2>7. CASE QueueLog(r)
    BY <2>7 DEF QueueLog
  <2>9. CASE LoseLog(r)
    BY <2>9 DEF LoseLog
  <2>8. QED
    BY <1>1, <2>1, <2>2, <2>3, <2>4, <2>5, <2>6, <2>7, <2>9 DEF Intercept
<1>2. ASSUME NEW r \in Requests, Work(r) PROVE \E p \in Requests : Coming(p)'
  <2>1. CASE CreateRow(r) \/ FinishLog(r) \/ FailLog(r)
    <3>1. PICK from \in {"queued", "created"}, to \in {"created", "done", "failed"} : LogJobTo(r, from, to)
      BY <2>1 DEF CreateRow, FinishLog, FailLog
    <3>2. JobAt(logJob[r], to) \in JobType({"created"}) /\ JobAt(logJob[r], to).step = to
      <4>1. logJob[r] \in JobType({"created"}) /\ to \in JobSteps \cup {"created"}
        BY DEF JobSteps
      <4>2. QED
        BY <4>1, JobAtType
    <3>3. bare'[q] => bare[q] \/ (q = r /\ from = "queued" /\ ~request[q].located)
      BY <2>1, <3>1 DEF CreateRow, FinishLog, FailLog, LogJobTo, Insert
    <3>4. q \in OnTheirWay' => q \in OnTheirWay
      BY <3>1, <3>2 DEF LogJobTo
    <3>5. Late(q)
      BY <3>1, <3>3, <3>4 DEF LogJobTo
    <3>6. QED
      BY <3>1, <3>5 DEF LogJobTo
  <2>2. CASE StoreLocation(r)
    <3>1. geoJob' = [geoJob EXCEPT ![r] = JobAt(@, "update")]
      BY <2>2 DEF StoreLocation, GeoJobTo
    <3>2. JobAt(geoJob[r], "update").step = "update"
      BY DEF JobAt, JobType
    <3>3. geoJob'[r].step = "update"
      BY <3>1, <3>2
    <3>4. QED
      BY <3>3
  <2>3. CASE UpdateRows(r)
    BY <2>3 DEF UpdateRows, GeoJobTo
  <2>4. CASE FailGeo(r)
    <3>1. Failed(geoJob[r]) \in JobType({"update"}) /\ Failed(geoJob[r]).step \in {"queued", "failed"}
      BY FailedType
    <3>2. geoJob'[r].step \in {"queued", "failed"}
      BY <2>4, <3>1 DEF FailGeo
    <3>3. QED
      BY <3>2
  <2>5. QED
    BY <1>2, <2>1, <2>2, <2>3, <2>4 DEF Work
<1>3. CASE ClearLogs
  BY <1>3 DEF ClearLogs
<1>4. CASE ExpireLocation
  BY <1>4 DEF ExpireLocation
<1>5. CASE AuditCrash
  <2>1. PICK p \in Requests : Coming(p)
    <3>1. Late(q)
      BY <1>5, ReclaimedType DEF AuditCrash
    <3>2. QED
      BY <3>1
  <2>2. Coming(p)'
    <3>1. CASE geoJob[p].step \in {"queued", "update", "failed"}
      <4>1. geoJob'[p].step \in {"queued", "failed"}
        BY <1>5, <3>1, ReclaimedType DEF AuditCrash
      <4>2. QED
        BY <4>1
    <3>2. CASE lookup[p] \in {"get", "add", "failed"}
      BY <1>5, <3>2 DEF AuditCrash
    <3>3. QED
      BY <2>1, <3>1, <3>2
  <2>3. QED
    BY <2>2
<1>6. CASE UNCHANGED auditVars
  BY <1>6 DEF auditVars
<1>7. QED
  BY <1>1, <1>2, <1>3, <1>4, <1>5, <1>6 DEF AuditNext

LEMMA AuditInvariant == AuditSpec => []AuditInv
<1>1. AuditInv /\ [AuditNext]_auditVars => AuditInv'
  BY AuditTypeStep, AskedStep, LateStep DEF AuditInv
<1>2. QED
  BY <1>1, InitAuditInv, PTL DEF AuditSpec

(* The jobs of the two queues stay within their attempts, and a row or a   *)
(* job exists only for a request that has come so far (the type invariant  *)
(* of the system log).                                                     *)
THEOREM AuditTypes == AuditSpec => []AuditTypeOK
<1>1. AuditInv => AuditTypeOK
  BY DEF AuditInv
<1>2. QED
  BY <1>1, AuditInvariant, PTL

(* No row stays without the location of its address once all jobs have     *)
(* ended, but for the cases the property names, however many requests and  *)
(* attempts there are (intercept, handleFetchGeo).                         *)
THEOREM EveryLocationFilled == AuditSpec => []LocationsFilled
<1>1. AuditInv => LocationsFilled
  BY DEF AuditInv, LocationsFilled, Late, Coming, GeoPending, GeoFailed
<1>2. QED
  BY <1>1, AuditInvariant, PTL

----------------------------------------------------------------------------
FormInv(c) ==
    /\ client[c].step \in SigningUp /\ c \notin replaced => signup[client[c].form.phone] \in {client[c].form, NoForm}
    /\ client[c].step \in Creating /\ c \notin replaced => client[c].user = client[c].form

LoweredInv(c) == account[c] # NoForm /\ c \notin typed => Lower(account[c].email) = account[c].email

RegistrationInv ==
    /\ RegistrationTypeOK
    /\ \A c \in Clients : FormInv(c) /\ LoweredInv(c)
    /\ SignupKept /\ OneAccountPerAddress

USE RegistrationConstants

LEMMA NoFormType == NoForm \in Accounts /\ NoForm \notin Forms /\ Forms \subseteq Accounts
BY DEF NoForm, Accounts, Forms

LEMMA InitRegistration == RegistrationInit => RegistrationInv
BY NoFormType DEF RegistrationInit, RegistrationInv, RegistrationTypeOK, FormInv, LoweredInv, SignupKept,
                  OneAccountPerAddress, NewClient, ClientSteps, SigningUp, Creating

LEMMA RegistrationTypeStep == RegistrationTypeOK /\ [RegistrationNext]_registrationVars => RegistrationTypeOK'
<1> SUFFICES ASSUME RegistrationTypeOK, [RegistrationNext]_registrationVars PROVE RegistrationTypeOK'
  OBVIOUS
<1> USE NoFormType DEF RegistrationTypeOK, ClientSteps, SigningUp, Creating, ClientTo, NewClient, accounts
<1>1. ASSUME NEW c \in Clients, Enter(c) PROVE RegistrationTypeOK'
  <2>1. CASE ValidateCaptcha(c)
    <3>1. PICK form \in Forms :
              client' = [client EXCEPT ![c] = [step |-> "captcha", form |-> form, user |-> NoForm]]
      BY <2>1 DEF ValidateCaptcha
    <3>2. client[c].step = "new"
      BY <2>1 DEF ValidateCaptcha
    <3>3. QED
      BY <2>1, <3>1, <3>2 DEF ValidateCaptcha
  <2>2. CASE SetSignup(c)
    <3>1. client[c].form \in Forms /\ client[c].form.phone \in Phones
      BY <2>2 DEF SetSignup, Forms
    <3>2. signup' \in [Phones -> Forms \cup {NoForm}]
      BY <2>2, <3>1 DEF SetSignup
    <3>3. QED
      BY <2>2, <3>2 DEF SetSignup
  <2>3. CASE SendLetter(c) \/ ValidateEmail(c)
    BY <2>3 DEF SendLetter, ValidateEmail
  <2>4. CASE ValidateSMS(c)
    <3>1. client[c].form.phone \in Phones
      BY <2>4 DEF ValidateSMS, Forms
    <3>2. PICK form \in Forms \cup {NoForm} :
              /\ form = signup[client[c].form.phone]
              /\ client' = [client EXCEPT ![c] =
                     [step |-> IF form = NoForm THEN "failed" ELSE "findEmail", form |-> @.form, user |-> form]]
      BY <2>4, <3>1 DEF ValidateSMS
    <3>3. client[c].step = "sms" /\ UNCHANGED <<signup, account, typed, roleUser, replaced>>
      BY <2>4 DEF ValidateSMS
    <3>4. form.phone \in Phones \cup {NoAccount} /\ form \in Accounts
      BY DEF Accounts
    <3>5. CASE form = NoForm
      BY <3>2, <3>3, <3>4, <3>5
    <3>6. CASE form # NoForm
      BY <3>2, <3>3, <3>4, <3>6
    <3>7. QED
      BY <3>5, <3>6
  <2>5. CASE Register(c)
    BY <2>5 DEF Register
  <2>6. CASE RegisterByEmail(c)
    BY <2>6 DEF RegisterByEmail
  <2>7. CASE FindEmail(c)
    BY <2>7 DEF FindEmail
  <2>8. CASE FindPhone(c)
    BY <2>8 DEF FindPhone
  <2>9. CASE FindRole(c)
    BY <2>9 DEF FindRole
  <2>10. CASE CreateUser(c)
    <3>1. [client[c].user EXCEPT !.email = Lower(@)] \in Accounts
      BY <2>10 DEF CreateUser, Forms, Accounts
    <3>2. QED
      BY <2>10, <3>1 DEF CreateUser
  <2>11. CASE FailStep(c)
    BY <2>11 DEF FailStep
  <2>12. QED
    BY <1>1, <2>1, <2>2, <2>3, <2>4, <2>5, <2>6, <2>7, <2>8, <2>9, <2>10, <2>11 DEF Enter
<1>2. ASSUME NEW c \in Clients, Administer(c) PROVE RegistrationTypeOK'
  <2>1. CASE AdminFindsEmail(c)
    <3>1. PICK e \in Emails :
              client' = [client EXCEPT ![c] =
                            [step |-> "adminInsert", form |-> NoForm, user |-> [email |-> e, phone |-> NoAccount]]]
      BY <2>1 DEF AdminFindsEmail
    <3>2. [email |-> e, phone |-> NoAccount] \in Accounts
      BY DEF Accounts
    <3>3. client[c].step = "new"
      BY <2>1 DEF AdminFindsEmail
    <3>4. QED
      BY <2>1, <3>1, <3>2, <3>3 DEF AdminFindsEmail
  <2>2. CASE AdminCreates(c)
    BY <2>2 DEF AdminCreates
  <2>3. CASE AdminUpdates(c)
    <3>1. PICK e \in Emails : account' = [account EXCEPT ![c].email = e]
      BY <2>3 DEF AdminUpdates
    <3>2. [account[c] EXCEPT !.email = e] \in Accounts
      BY DEF Accounts
    <3>3. QED
      BY <2>3, <3>1, <3>2 DEF AdminUpdates
  <2>4. CASE AdminRemoves(c)
    BY <2>4 DEF AdminRemoves
  <2>5. QED
    BY <1>2, <2>1, <2>2, <2>3, <2>4 DEF Administer
<1>3. ASSUME NEW p \in Phones, ExpireSignup(p) PROVE RegistrationTypeOK'
  BY <1>3 DEF ExpireSignup
<1>4. CASE UNCHANGED registrationVars
  BY <1>4 DEF registrationVars
<1>5. QED
  BY <1>1, <1>2, <1>3, <1>4 DEF RegistrationNext

(* A form is what it was when the client filled it in, or its client is on  *)
(* record as replaced.                                                      *)
LEMMA FormStep ==
    ASSUME RegistrationInv, RegistrationTypeOK', [RegistrationNext]_registrationVars, NEW d \in Clients
    PROVE  FormInv(d)'
<1>0. RegistrationTypeOK /\ FormInv(d)
  BY DEF RegistrationInv
<1> USE <1>0, NoFormType DEF RegistrationTypeOK, FormInv, SigningUp, Creating, ClientTo, accounts
<1>1. ASSUME NEW c \in Clients, Enter(c) PROVE FormInv(d)'
  <2>1. CASE ValidateCaptcha(c)
    BY <2>1 DEF ValidateCaptcha
  <2>2. CASE SetSignup(c)
    <3>1. client[c].form \in Forms /\ client[c].form.phone \in Phones
      BY <2>2 DEF SetSignup, Forms
    <3>2. CASE d = c
      <4>1. client'[d].step = "letter" /\ client'[d].form = client[c].form
        BY <2>2, <3>1, <3>2 DEF SetSignup
      <4>2. signup'[client[c].form.phone] = client[c].form
        BY <2>2, <3>1 DEF SetSignup
      <4>3. QED
        BY <3>2, <4>1, <4>2
    <3>3. CASE d # c
      BY <2>2, <3>1, <3>3 DEF SetSignup
    <3>4. QED
      BY <3>2, <3>3
  <2>3. CASE SendLetter(c) \/ ValidateEmail(c)
    <3>1. CASE SendLetter(c)
      BY <3>1 DEF SendLetter
    <3>2. CASE ValidateEmail(c)
      BY <3>2 DEF ValidateEmail
    <3>3. QED
      BY <2>3, <3>1, <3>2
  <2>4. CASE ValidateSMS(c)
    BY <2>4 DEF ValidateSMS
  <2>5. CASE Register(c)
    BY <2>5 DEF Register
  <2>6. CASE RegisterByEmail(c)
    BY <2>6 DEF RegisterByEmail
  <2>7. CASE FindEmail(c) \/ FindPhone(c) \/ FindRole(c)
    BY <2>7 DEF FindEmail, FindPhone, FindRole
  <2>8. CASE CreateUser(c)
    BY <2>8 DEF CreateUser
  <2>9. CASE FailStep(c)
    BY <2>9 DEF FailStep
  <2>10. QED
    BY <1>1, <2>1, <2>2, <2>3, <2>4, <2>5, <2>6, <2>7, <2>8, <2>9 DEF Enter
<1>2. ASSUME NEW c \in Clients, Administer(c) PROVE FormInv(d)'
  BY <1>2 DEF Administer, AdminFindsEmail, AdminCreates, AdminUpdates, AdminRemoves
<1>3. ASSUME NEW p \in Phones, ExpireSignup(p) PROVE FormInv(d)'
  BY <1>3 DEF ExpireSignup
<1>4. CASE UNCHANGED registrationVars
  BY <1>4 DEF registrationVars
<1>5. QED
  BY <1>1, <1>2, <1>3, <1>4 DEF RegistrationNext

(* Only createUserByWeb and the administration write an account, and the    *)
(* administration puts its own on record.                                   *)
LEMMA AccountStep ==
    ASSUME RegistrationTypeOK, [RegistrationNext]_registrationVars, NEW d \in Clients, account'[d] # NoForm
    PROVE  \/ account'[d] = account[d]
           \/ CreateUser(d)
           \/ d \in typed'
<1> USE DEF RegistrationTypeOK, accounts
<1>1. ASSUME NEW c \in Clients, Enter(c), ~CreateUser(c) PROVE account' = account
  BY <1>1 DEF Enter, ValidateCaptcha, SetSignup, SendLetter, ValidateEmail, ValidateSMS, Register, RegisterByEmail,
              FindEmail, FindPhone, FindRole, FailStep
<1>2. ASSUME NEW c \in Clients, CreateUser(c), c # d PROVE account'[d] = account[d]
  BY <1>2 DEF CreateUser
<1>3. ASSUME NEW c \in Clients, Administer(c) PROVE account'[d] = account[d] \/ d \in typed'
  BY <1>3 DEF Administer, AdminFindsEmail, AdminCreates, AdminUpdates, AdminRemoves
<1>4. ASSUME NEW p \in Phones, ExpireSignup(p) PROVE account' = account
  BY <1>4 DEF ExpireSignup
<1>5. CASE UNCHANGED registrationVars
  BY <1>5 DEF registrationVars
<1>6. QED
  BY <1>1, <1>2, <1>3, <1>4, <1>5 DEF RegistrationNext

(* History only grows, and an account keeps its form. *)
LEMMA HistoryStep ==
    ASSUME RegistrationTypeOK, [RegistrationNext]_registrationVars
    PROVE  /\ replaced \subseteq replaced' /\ typed \subseteq typed'
           /\ \A d \in Clients : client[d].step = "done" => client'[d] = client[d]
<1> USE DEF RegistrationTypeOK, accounts, ClientTo
<1>1. ASSUME NEW c \in Clients, Enter(c) PROVE
          /\ replaced \subseteq replaced' /\ typed \subseteq typed'
          /\ \A d \in Clients : client[d].step = "done" => client'[d] = client[d]
  BY <1>1 DEF Enter, ValidateCaptcha, SetSignup, SendLetter, ValidateEmail, ValidateSMS, Register, RegisterByEmail,
              FindEmail, FindPhone, FindRole, CreateUser, FailStep
<1>2. ASSUME NEW c \in Clients, Administer(c) PROVE
          /\ replaced \subseteq replaced' /\ typed \subseteq typed'
          /\ \A d \in Clients : client[d].step = "done" => client'[d] = client[d]
  BY <1>2 DEF Administer, AdminFindsEmail, AdminCreates, AdminUpdates, AdminRemoves
<1>3. ASSUME NEW p \in Phones, ExpireSignup(p) PROVE UNCHANGED <<client, replaced, typed>>
  BY <1>3 DEF ExpireSignup
<1>4. CASE UNCHANGED registrationVars
  BY <1>4 DEF registrationVars
<1>5. QED
  BY <1>1, <1>2, <1>3, <1>4 DEF RegistrationNext

LEMMA CreateUserRow ==
    ASSUME RegistrationTypeOK, NEW d \in Clients, CreateUser(d)
    PROVE  LET user == client[d].user IN
           /\ user \in Forms
           /\ account'[d] = [user EXCEPT !.email = Lower(@)] /\ account'[d].email = Lower(user.email)
           /\ \A c \in Clients : account[c].email # account'[d].email
           /\ \A c \in Clients \ {d} : account'[c] = account[c]
<1> DEFINE row == [client[d].user EXCEPT !.email = Lower(@)]
<1>1. client[d].user \in Forms
  BY DEF CreateUser, ClientTo, RegistrationTypeOK, Creating
<1>2. row.email = Lower(client[d].user.email)
  BY <1>1 DEF Forms
<1>3. account' = [account EXCEPT ![d] = row] /\ ~Known(row.email)
  BY DEF CreateUser
<1>4. account'[d] = row
  BY <1>3 DEF RegistrationTypeOK
<1>5. \A c \in Clients : account[c].email # row.email
  BY <1>3 DEF Known
<1> HIDE DEF row
<1>6. \A c \in Clients \ {d} : account'[c] = account[c]
  BY <1>3 DEF RegistrationTypeOK
<1>7. QED
  BY <1>1, <1>2, <1>4, <1>5, <1>6 DEF row

LEMMA LoweredStep ==
    ASSUME RegistrationInv, RegistrationTypeOK', [RegistrationNext]_registrationVars, NEW d \in Clients
    PROVE  LoweredInv(d)'
<1> SUFFICES ASSUME account'[d] # NoForm, d \notin typed' PROVE Lower(account'[d].email) = account'[d].email
  BY DEF LoweredInv
<1>0. RegistrationTypeOK /\ LoweredInv(d)
  BY DEF RegistrationInv
<1>1. CASE account'[d] = account[d]
  BY <1>0, <1>1, HistoryStep DEF LoweredInv
<1>2. CASE CreateUser(d)
  <2>1. client[d].user.email \in Emails /\ account'[d].email = Lower(client[d].user.email)
    BY <1>0, <1>2, CreateUserRow DEF Forms
  <2>2. QED
    BY <2>1
<1>3. QED
  BY <1>0, <1>1, <1>2, AccountStep

LEMMA SignupStep ==
    ASSUME RegistrationInv, RegistrationTypeOK', [RegistrationNext]_registrationVars
    PROVE  SignupKept'
<1> SUFFICES ASSUME NEW d \in Clients, account'[d] # NoForm, client'[d].form # NoForm, d \notin replaced',
                    d \notin typed'
             PROVE  account'[d] = [client'[d].form EXCEPT !.email = Lower(@)]
  BY DEF SignupKept
<1>0. RegistrationTypeOK /\ SignupKept /\ FormInv(d)
  BY DEF RegistrationInv
<1>1. d \notin replaced /\ d \notin typed
  BY <1>0, HistoryStep
<1>2. CASE account'[d] = account[d]
  <2>1. client'[d] = client[d]
    BY <1>0, <1>2, HistoryStep DEF RegistrationTypeOK
  <2>2. QED
    BY <1>0, <1>1, <1>2, <2>1 DEF SignupKept
<1>3. CASE CreateUser(d)
  <2>1. client[d].user = client[d].form
    BY <1>0, <1>1, <1>3 DEF CreateUser, ClientTo, FormInv, Creating
  <2>2. client'[d].form = client[d].form
    BY <1>0, <1>3 DEF CreateUser, ClientTo, RegistrationTypeOK
  <2>3. account'[d] = [client[d].user EXCEPT !.email = Lower(@)]
    BY <1>0, <1>3, CreateUserRow
  <2>4. QED
    BY <2>1, <2>2, <2>3
<1>4. QED
  BY <1>0, <1>2, <1>3, AccountStep

LEMMA AddressStep ==
    ASSUME RegistrationInv, RegistrationTypeOK', [RegistrationNext]_registrationVars
    PROVE  OneAccountPerAddress'
<1> SUFFICES ASSUME NEW c \in Clients, NEW d \in Clients, c # d, account'[c] # NoForm, account'[d] # NoForm,
                    c \notin typed', d \notin typed'
             PROVE  Lower(account'[c].email) # Lower(account'[d].email)
  BY DEF OneAccountPerAddress
<1>0. RegistrationTypeOK /\ OneAccountPerAddress
  BY DEF RegistrationInv
<1>1. c \notin typed /\ d \notin typed
  BY <1>0, HistoryStep
<1>2. Lower(account'[c].email) = account'[c].email /\ Lower(account'[d].email) = account'[d].email
  BY LoweredStep DEF LoweredInv
<1>3. CASE CreateUser(c)
  <2>1. account'[d] = account[d]
    BY <1>0, <1>3, CreateUserRow
  <2>2. account[d].email # account'[c].email
    BY <1>0, <1>3, CreateUserRow
  <2>3. QED
    BY <1>2, <2>1, <2>2
<1>4. CASE CreateUser(d)
  <2>1. account'[c] = account[c]
    BY <1>0, <1>4, CreateUserRow
  <2>2. account[c].email # account'[d].email
    BY <1>0, <1>4, CreateUserRow
  <2>3. QED
    BY <1>2, <2>1, <2>2
<1>5. CASE account'[c] = account[c] /\ account'[d] = account[d]
  BY <1>0, <1>1, <1>5 DEF OneAccountPerAddress
<1>6. QED
  BY <1>0, <1>3, <1>4, <1>5, AccountStep

LEMMA RegistrationInvariant == RegistrationSpec => []RegistrationInv
<1>1. RegistrationInv /\ [RegistrationNext]_registrationVars => RegistrationInv'
  BY RegistrationTypeStep, FormStep, LoweredStep, SignupStep, AddressStep DEF RegistrationInv
<1>2. QED
  BY <1>1, InitRegistration, PTL DEF RegistrationSpec

(* Whoever registers has a form to do it with (the type invariant).         *)
THEOREM RegistrationTypes == RegistrationSpec => []RegistrationTypeOK
<1>1. RegistrationInv => RegistrationTypeOK
  BY DEF RegistrationInv
<1>2. QED
  BY <1>1, RegistrationInvariant, PTL

(* An account is that of the form its client filled in, however many        *)
(* clients share phone numbers and addresses (validateCaptcha,              *)
(* validateSMSToken, createUserByWeb).                                      *)
THEOREM EverySignupKept == RegistrationSpec => []SignupKept
<1>1. RegistrationInv => SignupKept
  BY DEF RegistrationInv
<1>2. QED
  BY <1>1, RegistrationInvariant, PTL

(* Registrations make no two accounts that differ only in the case of       *)
(* their address, however they interleave (createUserByWeb).                *)
THEOREM AddressesDiffer == RegistrationSpec => []OneAccountPerAddress
<1>1. RegistrationInv => OneAccountPerAddress
  BY DEF RegistrationInv
<1>2. QED
  BY <1>1, RegistrationInvariant, PTL

----------------------------------------------------------------------------
(* The demo seed.  seedStep is the statement the script comes to: what is  *)
(* there follows from those before it.  Nothing is known of a run that     *)
(* stopped, and nothing needs to be: the next begins with the resets.      *)

Numbers == (1..MaxRuns) \X Kinds
DemoMessageType == [businessId : DemoIds \cup Numbers, of : Numbers \cup {NoRequest}, open : BOOLEAN, run : Nat]
DemoStatuses == {"PENDING", "APPROVED", "REJECTED", "CANCELLED"}

Posting == {"request", "message", "files", "done"}
Clearing == {"resetRequests", "resetFiles", "messages"} \cup Posting

(* The kinds of request that have been made, and those with their message. *)
Made == IF seedStep[1] = "request" THEN 1..(seedStep[2] - 1)
        ELSE IF seedStep[1] = "message" THEN 1..seedStep[2]
        ELSE IF seedStep[1] \in {"files", "done"} THEN Kinds ELSE {}
Told == IF seedStep[1] \in {"request", "message"} THEN 1..(seedStep[2] - 1)
        ELSE IF seedStep[1] \in {"files", "done"} THEN Kinds ELSE {}

Posted == {DemoId(i) : i \in Told} \cup (IF seedStep[1] \in Posting THEN {DemoNotice, DemoTodo} ELSE {})

OneMessage(id) == \E m \in demoMessages : m.businessId = id /\ \A k \in demoMessages : k.businessId = id => k = m
NoMessage(id) == \A m \in demoMessages : m.businessId # id

ScriptSteps ==
    {At(s) : s \in {"users", "resetMessages", "resetRequests", "resetFiles", "messages", "files", "done", "stopped"}}
        \cup {"request", "message"} \X Kinds

DemoTypes ==
    /\ run \in 0..MaxRuns /\ seedStep \in ScriptSteps /\ (run = 0 => seedStep = At("done"))
    /\ demoMessages \subseteq DemoMessageType
    /\ DOMAIN demoRequests \subseteq Numbers /\ demoRequests \in [DOMAIN demoRequests -> DemoStatuses]
    /\ decision \in [step : {"idle", "commit", "todos", "notify", "done"}, of : Numbers \cup {NoRequest},
                      status : DemoStatuses]
    /\ decision.step \in {"todos", "notify", "done"} => decision.of \in used \cap Numbers

(* The requests: those of this run, each as it was made unless decided. *)
RequestsInv ==
    /\ \A r \in DOMAIN demoRequests : demoRequests[r] = DemoApprovals[r[2]] \/ r \in used
    /\ run > 0 /\ seedStep[1] \in {"resetFiles", "messages"} \cup Posting => DOMAIN demoRequests = {run} \X Made

(* The messages: what is not under a demo id comes from a decision. *)
MessagesInv ==
    /\ \A m \in demoMessages : m.businessId \in DemoIds \cup used
    /\ run > 0 /\ seedStep[1] \in Clearing =>
          /\ \A id \in Posted : OneMessage(id)
          /\ \A id \in DemoIds \ Posted : NoMessage(id)
          /\ \A m \in demoMessages : m.businessId \in DemoIds => m.of \in {run} \X Told \cup {NoRequest}

FilesInv == run > 0 /\ seedStep[1] = "done" => demoFiles = {run} \X DemoFiles

DemoInv == DemoTypes /\ RequestsInv /\ MessagesInv /\ FilesInv

USE DemoConstants

LEMMA FourKinds ==
    /\ Len(DemoApprovals) = 4 /\ Kinds = 1..4
    /\ \A i \in Kinds : DemoApprovals[i] \in DemoStatuses
BY DEF DemoApprovals, Kinds, DemoStatuses

(* The number of a request is no id of the seed. *)
LEMMA IdsDiffer ==
    /\ Numbers \cap DemoIds = {} /\ NoRequest \notin DemoIds
    /\ \A i, j \in Kinds : DemoId(i) = DemoId(j) => i = j
    /\ \A i \in Kinds : DemoId(i) \in DemoIds \ {DemoNotice, DemoTodo}
    /\ DemoNotice \in DemoIds /\ DemoTodo \in DemoIds /\ DemoNotice # DemoTodo
BY FourKinds DEF Numbers, DemoIds, DemoId, DemoNotice, DemoTodo, NoRequest

LEMMA InitDemo == DemoInit => DemoInv
BY DEF DemoInit, DemoInv, DemoTypes, RequestsInv, MessagesInv, FilesInv, ScriptSteps, At, NoDecision, DemoStatuses

LEMMA ScriptTypes == DemoTypes /\ Script => DemoTypes'
<1> SUFFICES ASSUME DemoTypes, Script PROVE DemoTypes'
  OBVIOUS
<1> USE DEF DemoTypes, SeedTo, demoRows
<1>1. \A s \in {"users", "resetMessages", "resetRequests", "resetFiles", "messages", "files", "done", "stopped"} :
          At(s) \in ScriptSteps
  BY DEF ScriptSteps
<1>2. \A i \in Kinds : <<"request", i>> \in ScriptSteps /\ <<"message", i>> \in ScriptSteps
  BY DEF ScriptSteps
<1>3. 1 \in Kinds
  BY FourKinds
<1>4. CASE StartDemo
  BY <1>1, <1>4 DEF StartDemo
<1>5. CASE UpsertDemoUsers \/ ResetMessages \/ ResetRequests \/ ResetFiles \/ SeedDemoFiles \/ StopDemo
  <2>1. seedStep' \in ScriptSteps /\ UNCHANGED <<run, decision, used>>
    BY <1>1, <1>5 DEF UpsertDemoUsers, ResetMessages, ResetRequests, ResetFiles, SeedDemoFiles, StopDemo
  <2>2. run # 0
    BY <1>5 DEF UpsertDemoUsers, ResetMessages, ResetRequests, ResetFiles, SeedDemoFiles, StopDemo, At
  <2>3. demoMessages' \subseteq demoMessages /\ (demoRequests' = demoRequests \/ demoRequests' = <<>>)
    BY <1>5 DEF UpsertDemoUsers, ResetMessages, ResetRequests, ResetFiles, SeedDemoFiles, StopDemo
  <2>4. DOMAIN demoRequests' \subseteq Numbers /\ demoRequests' \in [DOMAIN demoRequests' -> DemoStatuses]
    <3>1. CASE demoRequests' = <<>>
      BY <3>1
    <3>2. QED
      BY <2>3, <3>1
  <2>5. QED
    BY <2>1, <2>2, <2>3, <2>4
<1>6. CASE SeedDemoMessages
  <2>1. \A m : m \in demoMessages' \ demoMessages =>
            m \in {Message(DemoNotice, NoRequest, FALSE), Message(DemoTodo, NoRequest, TRUE)}
    BY <1>6 DEF SeedDemoMessages
  <2>2. run # 0 /\ UNCHANGED <<demoRequests, run, decision, used>> /\ seedStep' \in ScriptSteps
    BY <1>2, <1>3, <1>6 DEF SeedDemoMessages, At
  <2>3. {Message(DemoNotice, NoRequest, FALSE), Message(DemoTodo, NoRequest, TRUE)} \subseteq DemoMessageType
    BY IdsDiffer DEF Message, DemoMessageType
  <2>4. QED
    BY <2>1, <2>2, <2>3
<1>7. ASSUME NEW i \in Kinds, CreateApproval(i) PROVE DemoTypes'
  <2>1. run # 0 /\ UNCHANGED <<demoMessages, run, decision, used>> /\ seedStep' \in ScriptSteps
    BY <1>2, <1>7 DEF CreateApproval, At
  <2>2. demoRequests' = [r \in DOMAIN demoRequests \cup {<<run, i>>} |->
                           IF r = <<run, i>> THEN DemoApprovals[i] ELSE demoRequests[r]]
    BY <1>7 DEF CreateApproval
  <2>3. <<run, i>> \in Numbers /\ DemoApprovals[i] \in DemoStatuses
    BY <2>1, FourKinds DEF Numbers
  <2>4. QED
    BY <2>1, <2>2, <2>3
<1>8. ASSUME NEW i \in Kinds, CreateApprovalMessage(i) PROVE DemoTypes'
  <2>1. run # 0 /\ UNCHANGED <<demoRequests, run, decision, used>>
    BY <1>8 DEF CreateApprovalMessage, At
  <2>2. seedStep' \in ScriptSteps
    <3>1. i # 4 => i + 1 \in Kinds
      BY FourKinds
    <3>2. QED
      BY <1>1, <1>2, <1>8, <3>1, FourKinds DEF CreateApprovalMessage
  <2>3. demoMessages' = demoMessages \cup {Message(DemoId(i), <<run, i>>, DemoApprovals[i] = "PENDING")}
    BY <1>8 DEF CreateApprovalMessage
  <2>4. Message(DemoId(i), <<run, i>>, DemoApprovals[i] = "PENDING") \in DemoMessageType
    <3>1. <<run, i>> \in Numbers
      BY <2>1 DEF Numbers
    <3>2. DemoId(i) \in DemoIds
      BY IdsDiffer
    <3>3. QED
      BY <3>1, <3>2 DEF Message, DemoMessageType
  <2>5. QED
    BY <2>1, <2>2, <2>3, <2>4
<1>9. QED
  BY <1>4, <1>5, <1>6, <1>7, <1>8 DEF Script

(* Not the script: the application, or nothing. *)
Calls == ReadRequest \/ CommitDecision \/ CloseTodos \/ Notify \/ EndDecision \/ CompleteTodo \/ UNCHANGED demoVars

LEMMA CallTypes == DemoTypes /\ Calls => DemoTypes'
<1> SUFFICES ASSUME DemoTypes, Calls PROVE  DemoTypes'
  OBVIOUS
<1> USE DEF DemoTypes, demoRows
<1>1. UNCHANGED <<run, seedStep>>
  BY DEF Calls, demoVars, ReadRequest, CommitDecision, CloseTodos, Notify, EndDecision, CompleteTodo, DecisionTo
<1>2. CASE ReadRequest
  <2>1. PICK r \in DOMAIN demoRequests, status \in {"APPROVED", "REJECTED", "CANCELLED"} :
            decision' = [step |-> "commit", of |-> r, status |-> status]
    BY <1>2 DEF ReadRequest
  <2>2. QED
    BY <1>1, <1>2, <2>1 DEF ReadRequest, DemoStatuses
<1>3. CASE CommitDecision
  BY <1>1, <1>3 DEF CommitDecision, DecisionTo
<1>4. CASE CloseTodos
  <2>1. \A m \in demoMessages' : m \in DemoMessageType
    <3>1. \A k \in DemoMessageType : [k EXCEPT !.open = FALSE] \in DemoMessageType
      BY DEF DemoMessageType
    <3>2. \A m \in demoMessages' : \E k \in demoMessages : m = k \/ m = [k EXCEPT !.open = FALSE]
      BY <1>4 DEF CloseTodos
    <3>3. QED
      BY <3>1, <3>2
  <2>2. UNCHANGED <<demoRequests, used>> /\ decision.step = "todos" /\ decision' = [decision EXCEPT !.step = "notify"]
    BY <1>4 DEF CloseTodos, DecisionTo
  <2>3. QED
    BY <1>1, <2>1, <2>2
<1>5. CASE Notify
  <2>1. Message(decision.of, decision.of, FALSE) \in DemoMessageType
    BY <1>5 DEF Notify, Message, DemoMessageType
  <2>2. QED
    BY <1>1, <1>5, <2>1 DEF Notify
<1>6. CASE EndDecision
  BY <1>1, <1>6 DEF EndDecision, NoDecision, DemoStatuses
<1>7. CASE CompleteTodo
  BY <1>1, <1>7 DEF CompleteTodo, DemoMessageType
<1>8. CASE UNCHANGED demoVars
  BY <1>8 DEF demoVars
<1>9. QED
  BY <1>2, <1>3, <1>4, <1>5, <1>6, <1>7, <1>8 DEF Calls

LEMMA RequestsStep == DemoTypes /\ RequestsInv /\ [DemoNext]_demoVars => RequestsInv'
<1> SUFFICES ASSUME DemoTypes, RequestsInv, [DemoNext]_demoVars PROVE RequestsInv'
  OBVIOUS
<1> USE DEF SeedTo, demoRows
<1>1. CASE Calls
  <2>1. Made' = Made /\ UNCHANGED <<run, seedStep>>
    BY <1>1 DEF Made, Calls, ReadRequest, CommitDecision, CloseTodos, Notify, EndDecision, CompleteTodo, DecisionTo,
                demoVars
  <2>2. \/ UNCHANGED <<demoRequests, used>>
        \/ CommitDecision
    BY <1>1 DEF Calls, ReadRequest, CloseTodos, Notify, EndDecision, CompleteTodo, demoVars
  <2>3. CASE UNCHANGED <<demoRequests, used>>
    BY <2>1, <2>3 DEF RequestsInv
  <2>4. CASE CommitDecision
    <3>1. DOMAIN demoRequests' = DOMAIN demoRequests /\ used \subseteq used'
      BY <2>4 DEF CommitDecision
    <3>2. \A r \in DOMAIN demoRequests : demoRequests'[r] = demoRequests[r] \/ r \in used'
      BY <2>4 DEF CommitDecision
    <3>3. QED
      BY <2>1, <3>1, <3>2 DEF RequestsInv
  <2>5. QED
    BY <2>2, <2>3, <2>4
<1>2. CASE Script
  <2>1. CASE StartDemo \/ UpsertDemoUsers \/ ResetMessages \/ StopDemo
    <3>1. seedStep'[1] \notin {"resetFiles", "messages"} \cup Posting /\ UNCHANGED <<demoRequests, used>>
      BY <2>1 DEF StartDemo, UpsertDemoUsers, ResetMessages, StopDemo, At, Posting
    <3>2. QED
      BY <3>1 DEF RequestsInv
  <2>2. CASE ResetRequests
    <3>1. Made' = {} /\ demoRequests' = <<>>
      BY <2>2 DEF ResetRequests, Made, At
    <3>2. DOMAIN demoRequests' = {} /\ {run'} \X Made' = {}
      BY <3>1
    <3>3. QED
      BY <3>2 DEF RequestsInv
  <2>3. CASE ResetFiles \/ SeedDemoMessages
    <3>1. Made = {} /\ UNCHANGED <<demoRequests, used, run>> /\ seedStep[1] \in {"resetFiles", "messages"}
      <4>1. CASE ResetFiles
        BY <4>1 DEF ResetFiles, Made, At
      <4>2. CASE SeedDemoMessages
        BY <4>2 DEF SeedDemoMessages, Made, At
      <4>3. QED
        BY <2>3, <4>1, <4>2
    <3>2. Made' = {}
      <4>1. CASE ResetFiles
        BY <4>1 DEF ResetFiles, Made, At
      <4>2. CASE SeedDemoMessages
        BY <4>2 DEF SeedDemoMessages, Made
      <4>3. QED
        BY <2>3, <4>1, <4>2
    <3>3. QED
      BY <3>1, <3>2 DEF RequestsInv
  <2>4. ASSUME NEW i \in Kinds, CreateApproval(i) PROVE RequestsInv'
    <3>1. seedStep = <<"request", i>> /\ seedStep' = <<"message", i>> /\ UNCHANGED <<run, used>>
      BY <2>4 DEF CreateApproval
    <3>2. Made = 1..(i - 1) /\ Made' = 1..i
      BY <3>1 DEF Made
    <3>3. demoRequests' = [r \in DOMAIN demoRequests \cup {<<run, i>>} |->
                              IF r = <<run, i>> THEN DemoApprovals[i] ELSE demoRequests[r]]
      BY <2>4 DEF CreateApproval
    <3>4. \A r \in DOMAIN demoRequests' : demoRequests'[r] = DemoApprovals[r[2]] \/ r \in used'
      BY <3>1, <3>3 DEF RequestsInv
    <3>5. 1..i = 1..(i - 1) \cup {i}
      BY FourKinds
    <3>6. run > 0 => DOMAIN demoRequests = {run} \X (1..(i - 1))
      BY <3>1, <3>2 DEF RequestsInv, Posting
    <3>7. run > 0 => DOMAIN demoRequests' = {run} \X (1..i)
      BY <3>3, <3>5, <3>6
    <3>8. QED
      BY <3>1, <3>2, <3>4, <3>7 DEF RequestsInv
  <2>5. ASSUME NEW i \in Kinds, CreateApprovalMessage(i) PROVE RequestsInv'
    <3>1. Made = 1..i /\ seedStep[1] \in Posting /\ UNCHANGED <<run, used, demoRequests>>
      BY <2>5 DEF CreateApprovalMessage, Made, Posting
    <3>2. Made' = 1..i
      <4>1. CASE i = 4
        BY <2>5, <4>1, FourKinds DEF CreateApprovalMessage, Made, At
      <4>2. CASE i # 4
        <5>1. seedStep' = <<"request", i + 1>> /\ (i + 1) - 1 = i
          BY <2>5, <4>2, FourKinds DEF CreateApprovalMessage
        <5>2. QED
          BY <5>1 DEF Made
      <4>3. QED
        BY <4>1, <4>2
    <3>3. QED
      BY <3>1, <3>2 DEF RequestsInv
  <2>6. CASE SeedDemoFiles
    <3>1. Made = Made' /\ seedStep[1] \in Posting /\ UNCHANGED <<run, used, demoRequests>>
      BY <2>6 DEF SeedDemoFiles, Made, At, Posting
    <3>2. QED
      BY <3>1 DEF RequestsInv
  <2>7. QED
    BY <1>2, <2>1, <2>2, <2>3, <2>4, <2>5, <2>6 DEF Script
<1>3. QED
  BY <1>1, <1>2 DEF DemoNext, Calls

(* The application touches no message under a demo id, but for a todo that *)
(* its owner completes.                                                    *)
LEMMA MessagesCall == DemoTypes /\ MessagesInv /\ Calls => MessagesInv'
<1> SUFFICES ASSUME DemoTypes, MessagesInv, Calls PROVE MessagesInv'
  OBVIOUS
<1>1. UNCHANGED <<run, seedStep>> /\ used \subseteq used'
  BY DEF Calls, ReadRequest, CommitDecision, CloseTodos, Notify, EndDecision, CompleteTodo, DecisionTo, demoVars
<1>2. Told' = Told /\ Posted' = Posted
  BY <1>1 DEF Told, Posted
<1>3. CASE UNCHANGED demoMessages
  BY <1>1, <1>2, <1>3 DEF MessagesInv, OneMessage, NoMessage
(* A message for a message of the same business. *)
<1>4. ASSUME NEW changed,
             demoMessages' = {changed[m] : m \in demoMessages},
             \A m \in demoMessages : changed[m].businessId = m.businessId /\ changed[m].of = m.of
      PROVE  MessagesInv'
  <2>1. \A m \in demoMessages' : \E k \in demoMessages : m = changed[k] /\ m.businessId = k.businessId /\ m.of = k.of
    BY <1>4
  <2>2. ASSUME NEW id, OneMessage(id) PROVE OneMessage(id)'
    BY <1>4, <2>1, <2>2 DEF OneMessage
  <2>3. ASSUME NEW id, NoMessage(id) PROVE NoMessage(id)'
    BY <2>1, <2>3 DEF NoMessage
  <2>4. QED
    BY <1>1, <1>2, <2>1, <2>2, <2>3 DEF MessagesInv
<1>5. CASE CloseTodos
  <2> DEFINE closed == [m \in demoMessages |-> IF m.businessId = decision.of THEN [m EXCEPT !.open = FALSE] ELSE m]
  <2>1. demoMessages' = {closed[m] : m \in demoMessages}
    BY <1>5 DEF CloseTodos
  <2>2. \A m \in demoMessages : closed[m].businessId = m.businessId /\ closed[m].of = m.of
    BY DEF DemoTypes, DemoMessageType
  <2> HIDE DEF closed
  <2>3. QED
    BY <1>4, <2>1, <2>2
<1>6. CASE CompleteTodo
  <2>1. PICK n \in demoMessages : demoMessages' = (demoMessages \ {n}) \cup {[n EXCEPT !.open = FALSE]}
    BY <1>6 DEF CompleteTodo
  <2> DEFINE closed == [m \in demoMessages |-> IF m = n THEN [n EXCEPT !.open = FALSE] ELSE m]
  <2>2. demoMessages' = {closed[m] : m \in demoMessages}
    BY <2>1
  <2>3. \A m \in demoMessages : closed[m].businessId = m.businessId /\ closed[m].of = m.of
    BY DEF DemoTypes, DemoMessageType
  <2> HIDE DEF closed
  <2>4. QED
    BY <1>4, <2>2, <2>3
<1>7. CASE Notify
  <2> DEFINE new == Message(decision.of, decision.of, FALSE)
  <2>1. demoMessages' = demoMessages \cup {new}
    BY <1>7 DEF Notify
  <2>2. new.businessId \in used /\ new.businessId \notin DemoIds
    BY <1>7, IdsDiffer DEF Notify, DemoTypes, Message
  <2>3. Posted \subseteq DemoIds
    <3>1. Told \subseteq Kinds
      BY FourKinds DEF Told, DemoTypes, ScriptSteps, At
    <3>2. QED
      BY <3>1, IdsDiffer DEF Posted
  <2> HIDE DEF new
  <2>4. ASSUME NEW id \in DemoIds PROVE (OneMessage(id) => OneMessage(id)') /\ (NoMessage(id) => NoMessage(id)')
    BY <2>1, <2>2 DEF OneMessage, NoMessage
  <2>5. QED
    BY <1>1, <1>2, <2>1, <2>2, <2>3, <2>4 DEF MessagesInv
<1>8. QED
  BY <1>3, <1>5, <1>6, <1>7 DEF Calls, ReadRequest, CommitDecision, EndDecision, demoVars, demoRows

LEMMA MessagesScript == DemoTypes /\ MessagesInv /\ Script => MessagesInv'
<1> SUFFICES ASSUME DemoTypes, MessagesInv, Script PROVE MessagesInv'
  OBVIOUS
<1> USE DEF SeedTo, demoRows
<1>1. CASE StartDemo \/ UpsertDemoUsers \/ StopDemo
  <2>1. seedStep'[1] \notin Clearing /\ UNCHANGED <<demoMessages, used>>
    BY <1>1 DEF StartDemo, UpsertDemoUsers, StopDemo, At, Clearing, Posting
  <2>2. QED
    BY <2>1 DEF MessagesInv
<1>2. CASE ResetMessages
  <2>1. seedStep' = <<"resetRequests", 0>> /\ UNCHANGED used
    BY <1>2 DEF ResetMessages, At
  <2>2. Posted' = {}
    BY <2>1 DEF Posted, Posting, Told
  <2>3. \A m \in demoMessages' : m \in demoMessages /\ m.businessId \notin DemoIds
    BY <1>2 DEF ResetMessages
  <2>4. QED
    BY <2>1, <2>2, <2>3 DEF MessagesInv, NoMessage
<1>3. CASE ResetRequests \/ ResetFiles
  <2>1. UNCHANGED <<run, demoMessages, used>> /\ seedStep[1] \in Clearing /\ Posted = {} /\ Told = {}
    BY <1>3 DEF ResetRequests, ResetFiles, At, Clearing, Posted, Posting, Told
  <2>2. Posted' = {} /\ Told' = {}
    BY <1>3 DEF ResetRequests, ResetFiles, At, Posted, Posting, Told
  <2>3. QED
    BY <2>1, <2>2 DEF MessagesInv, NoMessage
<1>4. CASE SeedDemoMessages
  <2> DEFINE notice == Message(DemoNotice, NoRequest, FALSE)
             todo == Message(DemoTodo, NoRequest, TRUE)
  <2>1. seedStep = <<"messages", 0>> /\ seedStep' = <<"request", 1>> /\ UNCHANGED <<run, used>>
    BY <1>4 DEF SeedDemoMessages, At
  <2>2. demoMessages' = demoMessages \cup {notice, todo}
    BY <1>4 DEF SeedDemoMessages
  <2>3. run > 0 => \A id \in DemoIds : NoMessage(id)
    BY <2>1 DEF MessagesInv, Clearing, Posted, Posting, Told
  <2>4. Told' = {} /\ Posted' = {DemoNotice, DemoTodo}
    BY <2>1 DEF Told, Posted, Posting
  <2>5. /\ notice.businessId = DemoNotice /\ notice.of = NoRequest
        /\ todo.businessId = DemoTodo /\ todo.of = NoRequest
    BY DEF Message
  <2> HIDE DEF notice, todo
  <2>6. run > 0 => OneMessage(DemoNotice)' /\ OneMessage(DemoTodo)'
    BY <2>2, <2>3, <2>5, IdsDiffer DEF OneMessage, NoMessage
  <2>7. run > 0 => \A id \in DemoIds \ {DemoNotice, DemoTodo} : NoMessage(id)'
    BY <2>2, <2>3, <2>5 DEF NoMessage
  <2>8. \A m \in demoMessages' : m.businessId \in DemoIds \cup used
    BY <2>2, <2>5, IdsDiffer DEF MessagesInv
  <2>9. run > 0 => \A m \in demoMessages' : m.businessId \in DemoIds => m.of = NoRequest
    BY <2>2, <2>3, <2>5 DEF NoMessage
  <2>10. QED
    BY <2>1, <2>4, <2>6, <2>7, <2>8, <2>9 DEF MessagesInv
<1>5. ASSUME NEW i \in Kinds, CreateApproval(i) PROVE MessagesInv'
  <2>1. UNCHANGED <<run, demoMessages, used>> /\ seedStep[1] \in Clearing
    BY <1>5 DEF CreateApproval, Clearing, Posting
  <2>2. Posted' = Posted /\ Told' = Told
    BY <1>5 DEF CreateApproval, Posted, Posting, Told
  <2>3. QED
    BY <2>1, <2>2 DEF MessagesInv, OneMessage, NoMessage
<1>6. ASSUME NEW i \in Kinds, CreateApprovalMessage(i) PROVE MessagesInv'
  <2> DEFINE new == Message(DemoId(i), <<run, i>>, DemoApprovals[i] = "PENDING")
  <2>1. demoMessages' = demoMessages \cup {new} /\ UNCHANGED <<run, used>> /\ seedStep = <<"message", i>>
    BY <1>6 DEF CreateApprovalMessage
  <2>2. Told = 1..(i - 1) /\ Posted = {DemoId(j) : j \in 1..(i - 1)} \cup {DemoNotice, DemoTodo}
    BY <2>1 DEF Told, Posted, Posting
  <2>3. Told' = 1..i /\ seedStep'[1] \in Posting
    <3>1. CASE i = 4
      BY <1>6, <3>1, FourKinds DEF CreateApprovalMessage, Told, At, Posting
    <3>2. CASE i # 4
      <4>1. seedStep' = <<"request", i + 1>> /\ (i + 1) - 1 = i
        BY <1>6, <3>2, FourKinds DEF CreateApprovalMessage
      <4>2. QED
        BY <4>1 DEF Told, Posting
    <3>3. QED
      BY <3>1, <3>2
  <2>4. 1..i = 1..(i - 1) \cup {i} /\ i \notin 1..(i - 1) /\ 1..i \subseteq Kinds
    BY FourKinds
  <2>5. Posted' = Posted \cup {DemoId(i)}
    BY <2>2, <2>3, <2>4 DEF Posted
  <2>6. DemoId(i) \in DemoIds \ Posted
    BY <2>2, <2>4, IdsDiffer
  <2>7. new.businessId = DemoId(i) /\ new.of = <<run, i>>
    BY DEF Message
  <2>8. run > 0 => /\ \A id \in Posted : OneMessage(id)
                   /\ \A id \in DemoIds \ Posted : NoMessage(id)
                   /\ \A m \in demoMessages : m.businessId \in DemoIds => m.of \in {run} \X Told \cup {NoRequest}
    BY <2>1 DEF MessagesInv, Clearing, Posting
  <2> HIDE DEF new
  <2>9. ASSUME run > 0, NEW id \in Posted' PROVE OneMessage(id)'
    <3>1. CASE id = DemoId(i)
      BY <2>1, <2>6, <2>7, <2>8, <2>9, <3>1 DEF OneMessage, NoMessage
    <3>2. CASE id # DemoId(i)
      BY <2>1, <2>5, <2>7, <2>8, <2>9, <3>2 DEF OneMessage
    <3>3. QED
      BY <3>1, <3>2
  <2>10. run > 0 => \A id \in DemoIds \ Posted' : NoMessage(id)'
    BY <2>1, <2>5, <2>7, <2>8 DEF NoMessage
  <2>11. run > 0 => \A m \in demoMessages' : m.businessId \in DemoIds => m.of \in {run} \X Told' \cup {NoRequest}
    BY <2>1, <2>2, <2>3, <2>4, <2>7, <2>8
  <2>12. \A m \in demoMessages' : m.businessId \in DemoIds \cup used
    BY <2>1, <2>6, <2>7 DEF MessagesInv
  <2>13. QED
    BY <2>1, <2>9, <2>10, <2>11, <2>12 DEF MessagesInv
<1>7. CASE SeedDemoFiles
  <2>1. UNCHANGED <<run, demoMessages, used>> /\ seedStep[1] \in Clearing
    BY <1>7 DEF SeedDemoFiles, At, Clearing, Posting
  <2>2. Posted' = Posted /\ Told' = Told
    BY <1>7 DEF SeedDemoFiles, At, Posted, Posting, Told
  <2>3. QED
    BY <2>1, <2>2 DEF MessagesInv, OneMessage, NoMessage
<1>8. QED
  BY <1>1, <1>2, <1>3, <1>4, <1>5, <1>6, <1>7 DEF Script

LEMMA FilesStep == FilesInv /\ DemoTypes /\ [DemoNext]_demoVars => FilesInv'
<1> SUFFICES ASSUME FilesInv, DemoTypes, [DemoNext]_demoVars PROVE FilesInv'
  OBVIOUS
<1>1. CASE SeedDemoFiles
  BY <1>1 DEF SeedDemoFiles, SeedTo, FilesInv
<1>2. CASE Script /\ ~SeedDemoFiles
  <2>1. ASSUME NEW i \in Kinds, CreateApproval(i) \/ CreateApprovalMessage(i) PROVE seedStep'[1] # "done"
    BY <2>1 DEF CreateApproval, CreateApprovalMessage, SeedTo, At
  <2>2. CASE StartDemo \/ UpsertDemoUsers \/ ResetMessages \/ StopDemo
    <3>1. seedStep'[1] # "done"
      BY <2>2 DEF StartDemo, UpsertDemoUsers, ResetMessages, StopDemo, SeedTo, At
    <3>2. QED
      BY <3>1 DEF FilesInv
  <2>3. CASE ResetRequests \/ ResetFiles \/ SeedDemoMessages
    <3>1. seedStep' \in {<<"resetFiles", 0>>, <<"messages", 0>>, <<"request", 1>>}
      BY <2>3, Zenon DEF ResetRequests, ResetFiles, SeedDemoMessages, SeedTo, At
    <3>2. seedStep'[1] # "done"
      BY <3>1
    <3>3. QED
      BY <3>2 DEF FilesInv
  <2>4. QED
    BY <1>2, <2>1, <2>2, <2>3 DEF Script, FilesInv
<1>3. CASE Calls
  BY <1>3 DEF Calls, ReadRequest, CommitDecision, CloseTodos, Notify, EndDecision, CompleteTodo, DecisionTo, demoVars,
              demoRows, FilesInv
<1>4. QED
  BY <1>1, <1>2, <1>3 DEF DemoNext, Calls

LEMMA DemoInvariant == DemoSpec => []DemoInv
<1>1. DemoInv /\ [DemoNext]_demoVars => DemoInv'
  BY ScriptTypes, CallTypes, RequestsStep, MessagesScript, MessagesCall, FilesStep DEF DemoInv, DemoNext, Calls
<1>2. QED
  BY <1>1, InitDemo, PTL DEF DemoSpec

(* After a run of the demo seed, however many stopped half-way before it   *)
(* and whatever the application decided meanwhile, the demo data are those *)
(* of this run, each once: resetDemoData finds what any earlier run left.  *)
THEOREM DemoSeedRestores == DemoSpec => []DemoRestored
<1>1. DemoInv => DemoRestored
  <2> SUFFICES ASSUME DemoInv, seedStep = At("done"), run > 0 PROVE DemoRestored
    BY DEF DemoRestored
  <2>1. seedStep[1] = "done" /\ "done" \in Posting /\ "done" \in Clearing
    BY DEF At, Posting, Clearing
  <2>2. Made = Kinds /\ Told = Kinds /\ Posted = {DemoId(i) : i \in Kinds} \cup {DemoNotice, DemoTodo}
    BY <2>1 DEF Made, Told, Posted
  <2>3. DOMAIN demoRequests = {run} \X Kinds
    BY <2>1, <2>2 DEF DemoInv, RequestsInv
  <2>4. \A r \in DOMAIN demoRequests : demoRequests[r] = DemoApprovals[r[2]] \/ r \in used
    BY DEF DemoInv, RequestsInv
  <2>5. ASSUME NEW id \in DemoIds PROVE Cardinality({m \in demoMessages : m.businessId = id}) = 1
    <3>1. PICK m \in demoMessages : m.businessId = id /\ \A k \in demoMessages : k.businessId = id => k = m
      BY <2>1, <2>2 DEF DemoInv, MessagesInv, OneMessage, DemoIds
    <3>2. {k \in demoMessages : k.businessId = id} = {m}
      BY <3>1
    <3>3. QED
      BY <3>2, FS_Singleton
  <2>6. \A m \in demoMessages : m.of \in DOMAIN demoRequests \cup {NoRequest} \/ m.businessId \in used
    BY <2>1, <2>2, <2>3 DEF DemoInv, MessagesInv
  <2>7. demoFiles = {run} \X DemoFiles
    BY <2>1 DEF DemoInv, FilesInv
  <2>8. QED
    BY <2>3, <2>4, <2>5, <2>6, <2>7 DEF DemoRestored
<1>2. QED
  BY <1>1, DemoInvariant, PTL
=============================================================================
