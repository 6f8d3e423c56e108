----------------------------- MODULE FileStorage -----------------------------
(***************************************************************************)
(* Files, images and the object storage: src/src/storage/minio.service.ts, *)
(* src/src/files and src/src/images.  An upload looks for the GPS data of  *)
(* the photo in a temporary file, named after the millisecond, while it    *)
(* converts and stores the photo and its thumbnails; the row comes last.   *)
(* A removal deletes the object first and the row after it.  Any call may  *)
(* fail at a statement, and the process may die with all of them.          *)
(*                                                                         *)
(* An upload is named after the path it stores under, a timestamp and a    *)
(* random number, taken here to be its own.                                *)
(***************************************************************************)
EXTENDS Naturals, FiniteSets

CONSTANTS
    Uploads,            \* the uploads, and the paths of their originals
    ImageIds,
    Removals,           \* removals in flight
    Times,              \* milliseconds
    NoPath

Parts == {"original", "64x64", "500x500"}
FileTypes == {"heic", "image", "other"}

ASSUME StorageConstants == NoPath \notin Uploads \cup ImageIds \cup Times

VARIABLES
    bucket,             \* the bucket exists
    objects,            \* <<path, part>> of the stored objects
    temp,               \* GPS temporary files: millisecond -> whose photo it holds
    upload, gps,        \* the two strands of each upload
    file,               \* rows of file_assets: path -> "live" or "deleted"
    image,              \* rows of images: the paths its photos name
    removal,
    gone,               \* history: originals deleted by a removal that did not end, or for an image
    shared              \* history: uploads that used the temporary file of another

storageVars == <<bucket, objects, temp, upload, gps, file, image, removal, gone, shared>>

NoUpload == [step |-> "new", for |-> NoPath, type |-> "other"]
NoGps == [step |-> "off", at |-> NoPath, found |-> NoPath]
NoRemoval == [step |-> "idle", of |-> NoPath, paths |-> {}]

StorageInit ==
    /\ bucket \in BOOLEAN
    /\ objects = {} /\ temp = <<>>
    /\ upload = [u \in Uploads |-> NoUpload]
    /\ gps = [u \in Uploads |-> NoGps]
    /\ file = <<>> /\ image = <<>>
    /\ removal = [r \in Removals |-> NoRemoval]
    /\ gone = {} /\ shared = {}

rows == <<file, image>>
stored == <<bucket, objects>>

Bind(f, x, y) == [z \in DOMAIN f \cup {x} |-> IF z = x THEN y ELSE f[z]]
Unbind(f, x) == [z \in DOMAIN f \ {x} |-> f[z]]

----------------------------------------------------------------------------
(* uploadFile *)

(* onModuleInit: whatever goes wrong is logged. *)
InitBucket ==
    /\ ~bucket /\ bucket' = TRUE
    /\ UNCHANGED <<objects, temp, upload, gps, rows, removal, gone, shared>>

(* The controllers refuse what is no image, for the images. *)
BeginUpload(u) ==
    /\ upload[u].step = "new"
    /\ \E for \in {"files", "images"}, type \in FileTypes :
        /\ for = "images" => type # "other"
        /\ upload' = [upload EXCEPT ![u] = [step |-> "bucket", for |-> for, type |-> type]]
    /\ UNCHANGED <<stored, temp, gps, rows, removal, gone, shared>>

Step(u, from, to) ==
    /\ upload[u].step = from
    /\ upload' = [upload EXCEPT ![u].step = to]

CheckBucket(u) ==
    /\ Step(u, "bucket", IF bucket THEN "start" ELSE "make")
    /\ UNCHANGED <<stored, temp, gps, rows, removal, gone, shared>>

MakeBucket(u) ==
    /\ Step(u, "make", "start")
    /\ bucket' = TRUE
    /\ UNCHANGED <<objects, temp, gps, rows, removal, gone, shared>>

(* Mutant: the temporary file has one name. *)
StartStrandsOneName(u) ==
    /\ Step(u, "start", IF upload[u].type = "heic" THEN "convert" ELSE "put")
    /\ gps' = [gps EXCEPT ![u] = [step |-> "write", at |-> CHOOSE t \in Times : TRUE, found |-> NoPath]]
    /\ UNCHANGED <<stored, temp, rows, removal, gone, shared>>

(* extractGPSInfo is called and not awaited. *)
StartStrands(u) ==
    /\ Step(u, "start", IF upload[u].type = "heic" THEN "convert" ELSE "put")
    /\ \E t \in Times :
        LET others == {v \in Uploads \ {u} : gps[v].at = t} IN
        /\ gps' = [gps EXCEPT ![u] = [step |-> "write", at |-> t, found |-> NoPath]]
        /\ shared' = IF others = {} THEN shared ELSE shared \cup others \cup {u}
    /\ UNCHANGED <<stored, temp, rows, removal, gone>>

(* convertToJpeg works on files of its own and removes them. *)
Convert(u) ==
    /\ Step(u, "convert", "put")
    /\ UNCHANGED <<stored, temp, gps, rows, removal, gone, shared>>

Put(u, part) ==
    /\ bucket
    /\ objects' = objects \cup {<<u, part>>}
    /\ UNCHANGED <<bucket, temp, gps, rows, removal, gone, shared>>

(* Mutant: an upload goes on when the storage has not taken the original. *)
PutOriginalUnchecked(u) ==
    /\ Step(u, "put", IF upload[u].type = "other" THEN "join" ELSE "64x64")
    /\ Put(u, "original") \/ UNCHANGED <<stored, temp, gps, rows, removal, gone, shared>>

PutOriginal(u) ==
    /\ Step(u, "put", IF upload[u].type = "other" THEN "join" ELSE "64x64")
    /\ Put(u, "original")

PutThumbnail(u) ==
    \/ Step(u, "64x64", "500x500") /\ Put(u, "64x64")
    \/ Step(u, "500x500", "join") /\ Put(u, "500x500")

Settle(u, step) == upload' = [upload EXCEPT ![u] = [NoUpload EXCEPT !.step = step]]

(* await gpsPromise *)
Join(u) ==
    /\ upload[u].step = "join" /\ gps[u].step = "done"
    /\ Settle(u, IF upload[u].for = "files" THEN "insert" ELSE "done")
    /\ UNCHANGED <<stored, temp, gps, rows, removal, gone, shared>>

(* Mutant: the row comes before the object. *)
InsertFileFirst(u) ==
    /\ Step(u, "put", "64x64")
    /\ file' = Bind(file, u, "live")
    /\ UNCHANGED <<stored, temp, gps, image, removal, gone, shared>>

InsertFile(u) ==
    /\ Step(u, "insert", "done")
    /\ file' = Bind(file, u, "live")
    /\ UNCHANGED <<stored, temp, gps, image, removal, gone, shared>>

(* A conversion, a thumbnail or a statement fails; the GPS strand goes on. *)
FailUpload(u) ==
    /\ upload[u].step \notin {"new", "done", "failed"}
    /\ Settle(u, "failed")
    /\ UNCHANGED <<stored, temp, gps, rows, removal, gone, shared>>

----------------------------------------------------------------------------
(* extractGPSInfo *)

GpsStep(u, from, to) ==
    /\ gps[u].step = from
    /\ gps' = [gps EXCEPT ![u].step = to]
    /\ UNCHANGED <<stored, upload, rows, removal, gone, shared>>

WriteTemp(u) ==
    /\ GpsStep(u, "write", "read")
    /\ temp' = Bind(temp, gps[u].at, u)

(* exiftool opens what is there, or nothing. *)
ReadTemp(u) ==
    LET t == gps[u].at IN
    /\ gps[u].step = "read"
    /\ gps' = [gps EXCEPT ![u].step = "unlink", ![u].found = IF t \in DOMAIN temp THEN temp[t] ELSE NoPath]
    /\ UNCHANGED <<stored, temp, upload, rows, removal, gone, shared>>

SkipTemp(u) ==
    /\ \/ GpsStep(u, "write", "unlink")
       \/ GpsStep(u, "read", "unlink")
    /\ UNCHANGED temp

UnlinkTemp(u) ==
    /\ GpsStep(u, "unlink", "done")
    /\ temp' = Unbind(temp, gps[u].at)

----------------------------------------------------------------------------
(* images.service.ts: the photos are the paths the client names, of uploads *)
(* it has been answered about; a photo given as a URL names no path.        *)

Answered == {u \in Uploads : upload[u].step = "done"}

CreateImage ==
    /\ \E i \in ImageIds \ DOMAIN image, photos \in SUBSET Answered : image' = Bind(image, i, photos)
    /\ UNCHANGED <<stored, temp, upload, gps, file, removal, gone, shared>>

UpdateImage ==
    /\ \E i \in DOMAIN image, photos \in SUBSET Answered : image' = [image EXCEPT ![i] = photos]
    /\ UNCHANGED <<stored, temp, upload, gps, file, removal, gone, shared>>

----------------------------------------------------------------------------
(* Removals *)

BeginRemoveFile(r) ==
    /\ removal[r].step = "idle"
    /\ \E u \in DOMAIN file :
        /\ file[u] = "live"
        /\ removal' = [removal EXCEPT ![r] = [step |-> "object", of |-> u, paths |-> {u}]]
    /\ UNCHANGED <<stored, temp, upload, gps, rows, gone, shared>>

BeginRemoveImage(r) ==
    /\ removal[r].step = "idle"
    /\ \E i \in DOMAIN image :
           removal' = [removal EXCEPT ![r] = [step |-> "photos", of |-> i, paths |-> image[i]]]
    /\ UNCHANGED <<stored, temp, upload, gps, rows, gone, shared>>

(* Mutant: the answer of the storage is not looked at. *)
DeleteObjectUnchecked(r) ==
    /\ removal[r].step = "object"
    /\ objects' \in {objects, objects \ {<<removal[r].of, "original">>}}
    /\ removal' = [removal EXCEPT ![r].step = "row"]
    /\ gone' = gone \cup {removal[r].of}
    /\ UNCHANGED <<bucket, temp, upload, gps, rows, shared>>

(* deleteFile: only the original. *)
DeleteObject(r) ==
    /\ removal[r].step = "object"
    /\ objects' = objects \ {<<removal[r].of, "original">>}
    /\ removal' = [removal EXCEPT ![r].step = "row"]
    /\ gone' = gone \cup {removal[r].of}
    /\ UNCHANGED <<bucket, temp, upload, gps, rows, shared>>

(* The photos of an image go in any order; one that cannot is left. *)
DeletePhoto(r) ==
    /\ removal[r].step = "photos"
    /\ \E p \in removal[r].paths :
        /\ removal' = [removal EXCEPT ![r].paths = @ \ {p}]
        /\ \/ objects' = objects \ {<<p, "original">>} /\ gone' = gone \cup {p}
           \/ UNCHANGED <<objects, gone>>
    /\ UNCHANGED <<bucket, temp, upload, gps, rows, shared>>

MarkDeleted(r) ==
    /\ removal[r].step = "row"
    /\ file' = [file EXCEPT ![removal[r].of] = "deleted"]
    /\ removal' = [removal EXCEPT ![r] = NoRemoval]
    /\ UNCHANGED <<stored, temp, upload, gps, image, gone, shared>>

DeleteImage(r) ==
    /\ removal[r].step = "photos" /\ removal[r].paths = {} /\ removal[r].of \in DOMAIN image
    /\ image' = Unbind(image, removal[r].of)
    /\ removal' = [removal EXCEPT ![r] = NoRemoval]
    /\ UNCHANGED <<stored, temp, upload, gps, file, gone, shared>>

(* The storage refuses (deleteFile answers false), or a statement fails. *)
FailRemoval(r) ==
    /\ removal[r].step # "idle"
    /\ removal' = [removal EXCEPT ![r] = NoRemoval]
    /\ UNCHANGED <<stored, temp, upload, gps, rows, gone, shared>>

----------------------------------------------------------------------------

(* The process dies: the tables, the objects and the temporary files stay. *)
StorageCrash ==
    /\ \/ \E u \in Uploads : upload[u].step \notin {"new", "done", "failed"}
       \/ \E r \in Removals : removal[r].step # "idle"
    /\ upload' = [u \in Uploads |->
                     IF upload[u].step \in {"new", "done"} THEN upload[u] ELSE [NoUpload EXCEPT !.step = "failed"]]
    /\ gps' = [u \in Uploads |->
                  IF gps[u].step \in {"off", "done"} THEN gps[u] ELSE [gps[u] EXCEPT !.step = "off"]]
    /\ removal' = [r \in Removals |-> NoRemoval]
    /\ UNCHANGED <<stored, temp, rows, gone, shared>>

UploadStep(u) ==
    \/ BeginUpload(u) \/ CheckBucket(u) \/ MakeBucket(u) \/ StartStrands(u) \/ Convert(u)
    \/ PutOriginal(u) \/ PutThumbnail(u) \/ Join(u) \/ InsertFile(u) \/ FailUpload(u)

GpsStrand(u) == WriteTemp(u) \/ ReadTemp(u) \/ SkipTemp(u) \/ UnlinkTemp(u)

RemovalStep(r) ==
    \/ BeginRemoveFile(r) \/ BeginRemoveImage(r) \/ DeleteObject(r) \/ DeletePhoto(r)
    \/ MarkDeleted(r) \/ DeleteImage(r) \/ FailRemoval(r)

StorageNext ==
    \/ InitBucket
    \/ \E u \in Uploads : UploadStep(u) \/ GpsStrand(u)
    \/ CreateImage \/ UpdateImage
    \/ \E r \in Removals : RemovalStep(r)
    \/ StorageCrash

StorageSpec == StorageInit /\ [][StorageNext]_storageVars

----------------------------------------------------------------------------
(* Properties *)

UploadType == [step : {"new", "bucket", "make", "start", "convert", "put", "64x64", "500x500", "join", "insert",
                       "done", "failed"},
               for : {"files", "images", NoPath}, type : FileTypes]
GpsType == [step : {"off", "write", "read", "unlink", "done"}, at : Times \cup {NoPath}, found : Uploads \cup {NoPath}]
RemovalType == [step : {"idle", "object", "photos", "row"},
                of : Uploads \cup ImageIds \cup {NoPath}, paths : SUBSET Uploads]

(* The type invariant; a GPS strand that runs has its millisecond, and a    *)
(* row of the file center is that of an upload that has ended.              *)
StorageTypeOK ==
    /\ bucket \in BOOLEAN /\ objects \subseteq Uploads \X Parts
    /\ DOMAIN temp \subseteq Times /\ temp \in [DOMAIN temp -> Uploads]
    /\ upload \in [Uploads -> UploadType]
    /\ gps \in [Uploads -> GpsType]
    /\ \A u \in Uploads : gps[u].step \in {"write", "read", "unlink"} => gps[u].at \in Times
    /\ DOMAIN file \subseteq Answered /\ file \in [DOMAIN file -> {"live", "deleted"}]
    /\ DOMAIN image \subseteq ImageIds /\ image \in [DOMAIN image -> SUBSET Uploads]
    /\ removal \in [Removals -> RemovalType]

(* A file the file center lists can be downloaded, unless a removal has    *)
(* deleted its object: one of that file that went no further, or one of an *)
(* image that named the file's path (FilesService.upload and remove,       *)
(* ImagesService.remove).                                                  *)
LiveFilesStored == \A u \in DOMAIN file : file[u] = "live" => <<u, "original">> \in objects \/ u \in gone

(* A file marked deleted has no object left: the file center does not lose *)
(* sight of what it stores (FilesService.remove).                          *)
DeletedFilesGone == \A u \in DOMAIN file : file[u] = "deleted" => <<u, "original">> \notin objects

(* The location an upload answers with is that of its own photo, unless    *)
(* another upload took its temporary file, which is named after the same   *)
(* millisecond (extractGPSInfo).                                           *)
LocationIsOwn == \A u \in Uploads : gps[u].found \in {u, NoPath} \/ u \in shared

(* The file center and the object storage agree, both ways: what it lists  *)
(* is stored, what it has deleted is not.                                  *)
FilesAgree == LiveFilesStored /\ DeletedFilesGone
=============================================================================
