----------------------------- MODULE ImageCache -----------------------------
(***************************************************************************)
(* The cache entry of one distribution image: crates/image download.rs     *)
(* fetch_image, part.rs PartFile, http.rs and the checksums of cache.rs.   *)
(*                                                                         *)
(* An entry is two names in the cache directory, the image's and the       *)
(* `.part` it is downloaded into, and the files they name.  A handle stays *)
(* on its file when the file is renamed or its name removed, and the lock  *)
(* is the file's: that is why files are not their names here.  A file is   *)
(* as long as the chunks written to it, and good while each of them is the *)
(* image's own at that place; its checksum says exactly whether it is the  *)
(* image.  Locks are mandatory, as LockFileEx makes them: nobody reads     *)
(* through another handle a file that is locked.                           *)
(*                                                                         *)
(* Each downloader is a thread of this process or of another, and fetches  *)
(* again and again.                                                        *)
(***************************************************************************)
EXTENDS Naturals

CONSTANTS
  Downloaders,
  FileIds,     \* the files there can be
  None,        \* no file, no downloader
  Size,        \* the image's length in chunks
  MaxMishaps   \* bound on what goes wrong: failures, wrong chunks, damage

ASSUME ConstantsAssumption ==
  /\ None \notin FileIds
  /\ None \notin Downloaders
  /\ Size \in Nat \ {0}
  /\ MaxMishaps \in Nat

VARIABLES
  pc,      \* downloader -> the step of fetch_image it is at
  handle,  \* downloader -> the file its PartFile has open
  files,   \* file -> its length and whether its chunks are the image's
  lock,    \* file -> the downloader that has it locked
  part,    \* the file `.part` names
  final,   \* the file the image's own name names
  mishaps  \* what went wrong so far

imageVars == <<pc, handle, files, lock, part, final, mishaps>>

Steps == {"idle", "hash", "discard", "open", "lock", "ask", "resend", "body",
          "verify", "publish", "rename", "drop", "ok"}

Empty == [len |-> 0, good |-> TRUE]

\* Every variable has its type.  Nothing in download.rs bounds a `.part`: a
\* server may go on past the image, and each such chunk is a mishap here.
ImageTypeOK ==
  /\ pc \in [Downloaders -> Steps]
  /\ handle \in [Downloaders -> FileIds \cup {None}]
  /\ files \in [FileIds -> [len : Nat, good : BOOLEAN]]
  /\ lock \in [FileIds -> Downloaders \cup {None}]
  /\ part \in FileIds \cup {None}
  /\ final \in FileIds \cup {None}
  /\ mishaps \in 0..MaxMishaps

ImageInit ==
  /\ pc = [d \in Downloaders |-> "idle"]
  /\ handle = [d \in Downloaders |-> None]
  /\ files = [f \in FileIds |-> Empty]
  /\ lock = [f \in FileIds |-> None]
  /\ part = None
  /\ final = None
  /\ mishaps = 0
------------------------------------------------------------------------------
\* The checksum of a file is the image's.
IsImage(f) == files[f].good /\ files[f].len = Size

Goto(d, step) == pc' = [pc EXCEPT ![d] = step]

\* Mutant of Close: an error path leaves the lock, as a marker file would.
CloseKeepsLock(d) ==
  /\ handle' = [handle EXCEPT ![d] = None]
  /\ lock' = lock

\* PartFile goes out of scope, or its process does: the handle is closed and
\* with it the lock is released.
Close(d) ==
  /\ handle' = [handle EXCEPT ![d] = None]
  /\ lock' = [f \in FileIds |-> IF lock[f] = d THEN None ELSE lock[f]]

\* PartFile::truncate, through the handle and whatever its file is named by now.
Truncate(d) == files' = [files EXCEPT ![handle[d]] = Empty]

\* fetch_image returns an error.
Refuse(d) ==
  /\ Goto(d, "idle")
  /\ Close(d)
  /\ UNCHANGED <<files, part, final, mishaps>>

\* fetch_image is called: an image in the cache is hashed first.
Fetch(d) ==
  /\ pc[d] \in {"idle", "ok"}
  /\ Goto(d, IF final # None THEN "hash" ELSE "open")
  /\ UNCHANGED <<handle, files, lock, part, final, mishaps>>

\* cache_hit: the file is opened by its name and hashed.  It may have gone, and
\* one that is locked cannot be read.
Hash(d) ==
  /\ pc[d] = "hash"
  /\ IF final = None \/ lock[final] # None
       THEN Refuse(d)
       ELSE /\ Goto(d, IF IsImage(final) THEN "ok" ELSE "discard")
            /\ UNCHANGED <<handle, files, lock, part, final, mishaps>>

\* A file that is not the image loses the name; by now the name may be another
\* file's, or nobody's.
Discard(d) ==
  /\ pc[d] = "discard"
  /\ Goto(d, "open")
  /\ final' = None
  /\ UNCHANGED <<handle, files, lock, part, mishaps>>

\* A file that nothing names or has open.
Unused(f) == f # part /\ f # final /\ \A d \in Downloaders : handle[d] # f

\* PartFile::open_locked, first call: `.part` is opened, and created if need be.
Open(d) ==
  /\ pc[d] = "open"
  /\ Goto(d, "lock")
  /\ \/ /\ part # None
        /\ handle' = [handle EXCEPT ![d] = part]
        /\ UNCHANGED <<files, part>>
     \/ /\ part = None
        /\ \E f \in FileIds : /\ Unused(f)
                              /\ part' = f
                              /\ handle' = [handle EXCEPT ![d] = f]
                              /\ files' = [files EXCEPT ![f] = Empty]
  /\ UNCHANGED <<lock, final, mishaps>>

\* Mutant of TryLock: a lock held by another does not refuse.
TryLockAnyway(d) ==
  /\ pc[d] = "lock"
  /\ Goto(d, "ask")
  /\ lock' = [lock EXCEPT ![handle[d]] = d]
  /\ UNCHANGED <<handle, files, part, final, mishaps>>

\* ... second call: the file that was opened is locked, or another has it.
TryLock(d) ==
  /\ pc[d] = "lock"
  /\ IF lock[handle[d]] = None
       THEN /\ Goto(d, "ask")
            /\ lock' = [lock EXCEPT ![handle[d]] = d]
            /\ UNCHANGED <<handle, files, part, final, mishaps>>
       ELSE Refuse(d)

\* What a server answers to a request that begins at a chunk: it may ignore the
\* range, and has none past the end of the image.
Answers(from) ==
  IF from = 0 THEN {200} ELSE IF from < Size THEN {200, 206} ELSE {200, 416}

\* resume_decision: only a range that was asked for is appended to.
ResumeDecision(status) ==
  CASE status = 206 -> "Append"
    [] status = 200 -> "StartOver"
    [] status = 416 -> "RangeUnsatisfiable"

\* download_into: the request, and what becomes of the partial file.
Ask(d) ==
  /\ pc[d] = "ask"
  /\ \E status \in Answers(files[handle[d]].len) :
       LET outcome == ResumeDecision(status) IN
       /\ IF outcome = "Append" THEN UNCHANGED files ELSE Truncate(d)
       /\ Goto(d, IF outcome = "RangeUnsatisfiable" THEN "resend" ELSE "body")
  /\ UNCHANGED <<handle, lock, part, final, mishaps>>

\* The second request, after a range that could not be satisfied.
Resend(d) ==
  /\ pc[d] = "resend"
  /\ Goto(d, "body")
  /\ UNCHANGED <<handle, files, lock, part, final, mishaps>>

\* One turn of the loop of download_into, the image served as it is.
Read(d) ==
  /\ pc[d] = "body"
  /\ IF files[handle[d]].len < Size
       THEN /\ files' = [files EXCEPT ![handle[d]].len = @ + 1]
            /\ UNCHANGED pc
       ELSE Goto(d, "verify") /\ UNCHANGED files
  /\ UNCHANGED <<handle, lock, part, final, mishaps>>

\* ... a chunk that is not the image's, or one too many.
ReadWrong(d) ==
  /\ pc[d] = "body"
  /\ mishaps < MaxMishaps
  /\ files' = [files EXCEPT ![handle[d]] = [len |-> @.len + 1, good |-> FALSE]]
  /\ mishaps' = mishaps + 1
  /\ UNCHANGED <<pc, handle, lock, part, final>>

\* ... the body ends before the image does.
ReadShort(d) ==
  /\ pc[d] = "body"
  /\ mishaps < MaxMishaps
  /\ files[handle[d]].len < Size
  /\ Goto(d, "verify")
  /\ mishaps' = mishaps + 1
  /\ UNCHANGED <<handle, files, lock, part, final>>

\* The checksum of what was downloaded, through the handle that locks it.
Verify(d) ==
  /\ pc[d] = "verify"
  /\ IF IsImage(handle[d])
       THEN /\ Goto(d, "publish")
            /\ UNCHANGED <<handle, files, lock, part, final, mishaps>>
       ELSE /\ Goto(d, "idle")
            /\ Truncate(d)
            /\ Close(d)
            /\ UNCHANGED <<part, final, mishaps>>

\* publish_into_cache: an image that is there is kept ...
Publish(d) ==
  /\ pc[d] = "publish"
  /\ IF final # None THEN Truncate(d) /\ Goto(d, "drop")
                     ELSE UNCHANGED files /\ Goto(d, "rename")
  /\ UNCHANGED <<handle, lock, part, final, mishaps>>

\* ... and otherwise whatever `.part` names now gets the image's name.
Rename(d) ==
  /\ pc[d] = "rename"
  /\ IF part # None
       THEN /\ Goto(d, "drop")
            /\ final' = part
            /\ part' = None
            /\ UNCHANGED <<handle, files, lock, mishaps>>
       ELSE Refuse(d)

\* fetch_image returns the path, and its PartFile is dropped.
Return(d) ==
  /\ pc[d] = "drop"
  /\ Goto(d, "ok")
  /\ Close(d)
  /\ UNCHANGED <<files, part, final, mishaps>>

\* The download is cancelled, a request or the disk fails, or the process dies.
Fail(d) ==
  /\ pc[d] \notin {"idle", "ok"}
  /\ mishaps < MaxMishaps
  /\ Goto(d, "idle")
  /\ Close(d)
  /\ mishaps' = mishaps + 1
  /\ UNCHANGED <<files, part, final>>

\* The cached image is damaged while nobody is at it.
Damage ==
  /\ mishaps < MaxMishaps
  /\ final # None
  /\ \A d \in Downloaders : pc[d] \in {"idle", "ok"}
  /\ files' = [files EXCEPT ![final].good = FALSE]
  /\ mishaps' = mishaps + 1
  /\ UNCHANGED <<pc, handle, lock, part, final>>
------------------------------------------------------------------------------
Work(d) ==
  \/ Hash(d) \/ Discard(d) \/ Open(d) \/ TryLock(d) \/ Ask(d) \/ Resend(d)
  \/ Verify(d) \/ Publish(d) \/ Rename(d) \/ Return(d)

ImageNext ==
  \/ \E d \in Downloaders :
       \/ Fetch(d) \/ Work(d) \/ Read(d)
       \/ ReadWrong(d) \/ ReadShort(d) \/ Fail(d)
  \/ Damage

ImageSpec == ImageInit /\ [][ImageNext]_imageVars

\* A fetch goes on: connecting and waiting for the answer have timeouts, the rest
\* is its own work.  A body has no timeout, so nothing is assumed of Read, and
\* nothing says that a fetch is ever made.
FairImageSpec == ImageSpec /\ \A d \in Downloaders : WF_imageVars(Work(d))
------------------------------------------------------------------------------
\* fetch_image "returns the path of the verified image in the cache": when it
\* returns, the name is of a file that is the image.  Two downloaders can break
\* it (see the README); one alone cannot (CacheProofs).
OnlyVerifiedIsReturned ==
  [][\A d \in Downloaders :
       pc[d] # "ok" /\ pc'[d] = "ok" => final' # None /\ IsImage(final)']_imageVars

\* What a downloader has verified is still the image when it is published: no
\* other downloader writes to a file between its checksum and its rename.
VerifiedIsHeld ==
  \A d \in Downloaders :
    pc[d] \in {"publish", "rename"} => /\ lock[handle[d]] = d
                                       /\ IsImage(handle[d])

\* No leftover of a failed, cancelled or killed download, of a wrong chunk or of
\* a damaged image, and no two downloads refusing each other, keep an image from
\* being fetched: of fetches made over and over and each of them ending, one
\* after another succeeds.
RetriesSucceed ==
  /\ \A d \in Downloaders : []<>(pc[d] \in {"idle", "ok"})
  /\ []<>(\E d \in Downloaders : pc[d] \in {"hash", "open"})
  => []<><<\E d \in Downloaders : pc[d] # "ok" /\ pc'[d] = "ok">>_imageVars
=============================================================================
