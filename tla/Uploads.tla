-------------------------------- MODULE Uploads --------------------------------
(***************************************************************************)
(* An upload on its way to the disk and to media_asset: saved under a name *)
(* of its own, checked by ffprobe, rewritten by ffmpeg next to it, and     *)
(* recorded.  Each step may fail, and the process may stop between two of  *)
(* them; nothing removes afterwards what was left.                         *)
(***************************************************************************)
EXTENDS Naturals, FiniteSets

CONSTANTS
  UploadNames, \* one for each upload: the time and a random suffix
  NoFile

ASSUME UploadsAssumption == NoFile \notin {"partial", "raw", "checked", "faststart"}

VARIABLES
  file,      \* what is under the name: partial, raw, checked, faststart
  tempFile,  \* names whose temporary file of ffmpeg is there
  asset,     \* rows of media_asset that uploads wrote, by URL
  upload,    \* the step, the kind and the extension of each upload
  stopped    \* uploads the process stopped in, or whose file could not be removed

uploadVars == <<file, tempFile, asset, upload, stopped>>

Kinds == {"video", "cover"}   \* avatar and file take the path of cover
Extensions == {"mp4", "webm"} \* mov takes the path of mp4

UploadsInit ==
  /\ file = [n \in UploadNames |-> NoFile]
  /\ tempFile = {} /\ asset = {} /\ stopped = {}
  /\ upload = [n \in UploadNames |-> [step |-> "new", kind |-> "cover", ext |-> "webm"]]
----------------------------------------------------------------------------
Step(n, step) == upload' = [upload EXCEPT ![n].step = step]
Put(n, content) == file' = [file EXCEPT ![n] = content]

\* os.Remove, whose error is dropped.
RemoveFile(n) ==
  \/ Put(n, NoFile) /\ UNCHANGED stopped
  \/ UNCHANGED file /\ stopped' = stopped \cup {n}

\* Create, up to SaveUploadedFile; what fails validateUploadFile writes nothing.
SaveUploadedFile(n) ==
  /\ upload[n].step = "new"
  /\ \E kind \in Kinds, ext \in Extensions :
       \/ /\ Put(n, "raw")
          /\ upload' = [upload EXCEPT ![n] =
               [step |-> IF kind = "video" THEN "validate" ELSE "record", kind |-> kind, ext |-> ext]]
          /\ UNCHANGED stopped
       \/ /\ \E left \in {NoFile, "partial"} : Put(n, left)
          /\ upload' = [upload EXCEPT ![n] = [step |-> "failed", kind |-> kind, ext |-> ext]]
          /\ stopped' = stopped \cup {n}
  /\ UNCHANGED <<tempFile, asset>>

\* ValidateVideo: ffprobe, its limits and codecs.
ValidateVideo(n) ==
  /\ upload[n].step = "validate"
  /\ \/ /\ Put(n, "checked")
        /\ Step(n, IF upload[n].ext = "mp4" THEN "faststart" ELSE "record")
        /\ UNCHANGED stopped
     \/ RemoveFile(n) /\ Step(n, "failed")
  /\ UNCHANGED <<tempFile, asset>>

\* createFaststartTempFile; its failure fails the upload.
CreateTemp(n) ==
  /\ upload[n].step = "faststart"
  /\ \/ /\ tempFile' = tempFile \cup {n} /\ Step(n, "rename")
        /\ UNCHANGED <<file, stopped>>
     \/ /\ RemoveFile(n) /\ Step(n, "failed")
        /\ UNCHANGED tempFile
  /\ UNCHANGED asset

\* faststartVideo: ffmpeg and the rename over the upload, or neither; the temporary file goes.
Faststart(n) ==
  /\ upload[n].step = "rename"
  /\ tempFile' = tempFile \ {n}
  /\ \/ Put(n, "faststart") /\ Step(n, "record") /\ UNCHANGED stopped
     \/ RemoveFile(n) /\ Step(n, "failed")
  /\ UNCHANGED asset

\* Mutant: a video is recorded as soon as it is saved.
RecordFirst(n) ==
  /\ upload[n].step \in {"record", "validate"}
  /\ asset' = asset \cup {n}
  /\ IF upload[n].step = "record" THEN Step(n, "done") ELSE UNCHANGED upload
  /\ UNCHANGED <<file, tempFile, stopped>>

\* RecordAsset: an error removes the file.
RecordAsset(n) ==
  /\ upload[n].step = "record"
  /\ \/ asset' = asset \cup {n} /\ Step(n, "done") /\ UNCHANGED <<file, stopped>>
     \/ RemoveFile(n) /\ Step(n, "failed") /\ UNCHANGED asset
  /\ UNCHANGED tempFile

StopUpload(n) ==
  /\ upload[n].step \notin {"new", "done", "failed"}
  /\ Step(n, "failed")
  /\ stopped' = stopped \cup {n}
  /\ UNCHANGED <<file, tempFile, asset>>

UploadsNext ==
  \E n \in UploadNames :
    \/ SaveUploadedFile(n) \/ ValidateVideo(n) \/ CreateTemp(n) \/ Faststart(n)
    \/ RecordAsset(n) \/ StopUpload(n)

UploadsSpec == UploadsInit /\ [][UploadsNext]_uploadVars
----------------------------------------------------------------------------
(* Properties.                                                             *)

\* Serve finds a whole file behind every row that an upload wrote, a video that passed its checks
\* and an MP4 that was rewritten; and a file without a row is on its way, or was left by a step
\* that stopped or could not clean up.  (BackfillMediaAssets also adds rows, for the URLs in
\* videos and accounts and without a look at the disk: this is not about them.)
AssetsMatchFiles ==
  \A n \in UploadNames :
    /\ n \in asset =>
         \/ upload[n].kind = "cover" /\ file[n] = "raw"
         \/ upload[n].kind = "video" /\ file[n] = IF upload[n].ext = "mp4" THEN "faststart" ELSE "checked"
    /\ (file[n] # NoFile \/ n \in tempFile) /\ upload[n].step = "failed" => n \in stopped

UploadSteps == {"new", "validate", "faststart", "rename", "record", "done", "failed"}

UploadsTypeOK ==
  /\ file \in [UploadNames -> {NoFile, "partial", "raw", "checked", "faststart"}]
  /\ tempFile \subseteq UploadNames /\ asset \subseteq UploadNames /\ stopped \subseteq UploadNames
  /\ upload \in [UploadNames -> [step : UploadSteps, kind : Kinds, ext : Extensions]]

\* The file a row may stand for.
Whole(n) ==
  file[n] = IF upload[n].kind = "cover" THEN "raw"
            ELSE IF upload[n].ext = "mp4" THEN "faststart" ELSE "checked"

\* What the step of an upload has on the disk.
UploadOk(n) ==
  LET step == upload[n].step IN
  /\ n \in asset <=> step = "done"
  /\ n \in tempFile => step \in {"rename", "failed"}
  /\ step = "new" => file[n] = NoFile
  /\ step \in {"validate", "faststart", "rename"} => upload[n].kind = "video"
  /\ step \in {"faststart", "rename"} => file[n] = "checked" /\ upload[n].ext = "mp4"
  /\ step \in {"record", "done"} => Whole(n)
  /\ step = "failed" /\ (file[n] # NoFile \/ n \in tempFile) => n \in stopped

\* Inductive.
UploadsInv == UploadsTypeOK /\ \A n \in UploadNames : UploadOk(n)
============================================================================
