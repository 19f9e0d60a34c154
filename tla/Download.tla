------------------------------- MODULE Download -------------------------------
(***************************************************************************)
(* Getting the medium of a build (build.py): download() with its parallel  *)
(* range requests and its resuming fallback, and around it createVM and    *)
(* _prep_vhd_disk, which keep files from one run to the next and unpack    *)
(* what they fetched.                                                      *)
(*                                                                         *)
(* The body is Parts cells, one per worker.  A cell of the file holds its  *)
(* data, nothing (a hole left by truncate), or junk (another cell's data). *)
(* Files are good or bad: all of their bytes, or anything else.            *)
(***************************************************************************)
EXTENDS Naturals

CONSTANTS Parts,    \* workers (DL_THREADS)
          Attempts, \* DL_ATTEMPTS
          Runs      \* builds in the workspace (bound)

ASSUME DownloadAssumption ==
  Parts \in Nat \ {0} /\ Attempts \in Nat \ {0} /\ Runs \in Nat \ {0}

(* "iso": createVM's medium as it is; "bz2": a bzip2-compressed ISO;       *)
(* "packed": .img.gz, .img.zst, .img.bz2; "tar": .img.tar.gz, .img.tar.xz; *)
(* "zip"; "image": .img, .qcow2; "gz": .qcow2.gz; "xz": anything else.     *)
Kinds == {"iso", "bz2", "packed", "tar", "zip", "image", "gz", "xz"}
Archives == {"tar", "zip"}
Swept == {"packed", "tar", "zip", "xz"} \* what they unpack to, clearVM removes

VARIABLES
  kind,
  pc,
  plain,   \* the unpacked medium: "none", "good" or "bad"
  pack,    \* the archive it came in
  cell, long, \* the file being fetched; long: it is larger than the body
  tries,   \* failed attempts of each worker
  working, \* workers not yet done
  failed,  \* workers that gave up
  got, stalls, \* of the resuming download
  ranges,  \* the body is large and the server advertises byte ranges
  ignored, \* it has answered a range request with the whole body
  reused,  \* a file of an earlier run is in use
  fetched, \* this run has downloaded
  run

fileVars == <<plain, pack>>
bodyVars == <<cell, long>>
workVars == <<tries, working, failed, got, stalls>>
seenVars == <<ranges, ignored, reused, fetched>>
vars == <<kind, pc, fileVars, bodyVars, workVars, seenVars, run>>

Cells == 1 .. Parts
Empty == [i \in Cells |-> "hole"]
Whole == cell = [i \in Cells |-> "data"] /\ ~long

Idle == /\ cell = Empty /\ long = FALSE
        /\ tries = [i \in Cells |-> 0] /\ working = {} /\ failed = {}
        /\ got = 0 /\ stalls = 0

Init == /\ kind \in Kinds /\ pc = "clear" /\ plain = "none" /\ pack = "none" /\ Idle
        /\ ranges = FALSE /\ ignored = FALSE /\ reused = FALSE /\ fetched = FALSE
        /\ run = 1

Goto(place) == pc' = place
Keep == UNCHANGED <<kind, run>>

(* download() writes the medium itself, or the archive. *)
IntoPlain == kind \in {"iso", "bz2", "image"}
Written(q) == IF IntoPlain THEN plain' = q /\ UNCHANGED pack
                           ELSE pack' = q /\ UNCHANGED plain

-----------------------------------------------------------------------------
(* download *)

(* _http_probe: with ranges and a known size of some megabytes, a file of  *)
(* that size and one worker per part; otherwise one stream.                *)
Probe ==
  /\ pc = "probe"
  /\ ranges' \in BOOLEAN /\ ignored' = FALSE /\ fetched' = TRUE
  /\ Goto(IF ranges' THEN "chunks" ELSE "single")
  /\ cell' = Empty /\ long' = FALSE
  /\ tries' = [i \in Cells |-> 0] /\ failed' = {} /\ got' = 0 /\ stalls' = 0
  /\ working' = IF ranges' THEN Cells ELSE {}
  /\ Written("bad") /\ UNCHANGED reused /\ Keep

(* _download_single: the body, or what came of it before the connection    *)
(* ended, which looks the same; or an error.                               *)
Single == /\ pc = "single"
          /\ \/ \E n \in 0 .. Parts :
                  cell' = [i \in Cells |-> IF i <= n THEN "data" ELSE "hole"]
                /\ Goto("fetched")
             \/ Goto("failed") /\ UNCHANGED cell
          /\ UNCHANGED <<fileVars, long, workVars, seenVars>> /\ Keep

(* A body written from cell i on: right only if it is the first. *)
Overrun(i, k) == cell' = [j \in Cells |-> IF j \notin i .. k THEN cell[j]
                                          ELSE IF i = 1 THEN "data" ELSE "junk"]

TriesAgain(i) == /\ tries' = [tries EXCEPT ![i] = @ + 1]
                 /\ IF tries'[i] = Attempts
                    THEN working' = working \ {i} /\ failed' = failed \cup {i}
                    ELSE UNCHANGED <<working, failed>>

Finishes(i) == working' = working \ {i} /\ UNCHANGED <<tries, failed>>

ChunkTakesShort(i) ==
  /\ pc = "chunks" /\ i \in working
  /\ cell' \in {[cell EXCEPT ![i] = "data"], cell} /\ Finishes(i)
  /\ UNCHANGED <<pc, fileVars, long, got, stalls, seenVars>> /\ Keep

(* One attempt of _download_chunk: the range; less than the range, or an   *)
(* error; or the whole body in spite of the range, cut off anywhere, also  *)
(* where it is as long as the range.                                       *)
Chunk(i) ==
  /\ pc = "chunks" /\ i \in working
  /\ \/ /\ cell' = [cell EXCEPT ![i] = "data"] /\ Finishes(i)
        /\ UNCHANGED <<long, ignored>>
     \/ /\ cell' \in {cell, [cell EXCEPT ![i] = "hole"]} /\ TriesAgain(i)
        /\ UNCHANGED <<long, ignored>>
     \/ /\ \E k \in i .. Parts : Overrun(i, k) /\ (TriesAgain(i) \/ (k = i /\ Finishes(i)))
        /\ long' \in {long, long \/ (i > 1 /\ cell'[Parts] = "junk")}
        /\ ignored' = TRUE
  /\ UNCHANGED <<pc, fileVars, got, stalls, ranges, reused, fetched>> /\ Keep

(* All workers are through; one that gave up means another try in one      *)
(* stream, from an empty file.                                             *)
Gather ==
  /\ pc = "chunks" /\ working = {}
  /\ IF failed = {} THEN Goto("size") /\ UNCHANGED bodyVars
                    ELSE Goto("resume") /\ cell' = Empty /\ long' = FALSE
  /\ UNCHANGED <<fileVars, workVars, seenVars>> /\ Keep

StallsForever == /\ pc = "resume" /\ got < Parts
                 /\ stalls' \in {stalls, 0} /\ Goto("resume")
                 /\ UNCHANGED <<fileVars, bodyVars, tries, working, failed, got, seenVars>> /\ Keep

(* One connection of _download_resume: what comes is appended, be it the   *)
(* rest or, in spite of the range, the body from its beginning.  Attempts  *)
(* rounds without progress are fatal.                                      *)
Resume ==
  /\ pc = "resume" /\ got < Parts
  /\ \/ \E n \in 1 .. Parts : got' = got + n /\ stalls' = 0 /\ Goto("resume")
     \/ /\ got' = got /\ stalls' = stalls + 1
        /\ Goto(IF stalls' = Attempts THEN "failed" ELSE "resume")
  /\ LET end == IF got' < Parts THEN got' ELSE Parts
         rest == [j \in Cells |-> IF j \in got + 1 .. end THEN "data" ELSE cell[j]]
     IN \/ got' <= Parts /\ cell' = rest /\ UNCHANGED ignored
        \/ /\ got' > got /\ ignored' = TRUE
           /\ IF got = 0 /\ got' <= Parts THEN cell' = rest ELSE Overrun(got + 1, end)
  /\ long' = (got' > Parts)
  /\ UNCHANGED <<fileVars, tries, working, failed, ranges, reused, fetched>> /\ Keep

ResumeEnds == /\ pc = "resume" /\ got >= Parts /\ Goto("size")
              /\ UNCHANGED <<fileVars, bodyVars, workVars, seenVars>> /\ Keep

(* The size of the file against the probe's. *)
Size == /\ pc = "size"
        /\ Goto(IF long THEN "failed" ELSE "fetched")
        /\ UNCHANGED <<fileVars, bodyVars, workVars, seenVars>> /\ Keep

Fetched == /\ pc = "fetched"
           /\ Written(IF Whole THEN "good" ELSE "bad") /\ Goto("unpack")
           /\ cell' = Empty /\ long' = FALSE /\ tries' = [i \in Cells |-> 0]
           /\ working' = {} /\ failed' = {} /\ got' = 0 /\ stalls' = 0
           /\ UNCHANGED seenVars /\ Keep

-----------------------------------------------------------------------------
(* createVM and _prep_vhd_disk *)

Still == UNCHANGED <<bodyVars, workVars, ranges, ignored>> /\ Keep

(* clearVM removes <os>.qcow2 and <os>.img, which is what the Swept kinds  *)
(* unpack to.                                                              *)
Clear == /\ pc = "clear" /\ Goto("look")
         /\ plain' = IF kind \in Swept THEN "none" ELSE plain
         /\ UNCHANGED <<pack, reused, fetched>> /\ Still

(* `if not os.path.exists(...)`: use what is there, or fetch.  "packed"    *)
(* and "gz" remove the archive of an earlier run before they fetch.        *)
Look ==
  /\ pc = "look"
  /\ LET kept  == kind \in Archives \cup {"xz"}
         there == IF kept THEN pack # "none" ELSE plain # "none"
     IN /\ reused' = there
        /\ Goto(IF there /\ kept THEN "unpack"
                ELSE IF there THEN "convert" ELSE "probe")
  /\ pack' = IF kind \in {"packed", "gz"} THEN "none" ELSE pack
  /\ UNCHANGED <<plain, fetched>> /\ Still

UnpackOnce == /\ pc = "unpack" /\ kind \in Archives
              /\ plain' = pack
              /\ Goto(IF pack = "good" THEN "convert" ELSE "failed")
              /\ UNCHANGED <<pack, reused, fetched>> /\ Still

(* tar or zip: an archive of an earlier run that does not unpack is        *)
(* removed and fetched once.  tar has left a partial file by then,         *)
(* _unzip_single_img removes it.  But of the errors that a damaged zip     *)
(* raises it catches three: zlib.error ends the build there, and nothing   *)
(* is removed.                                                             *)
UnpackArchive ==
  /\ pc = "unpack" /\ kind \in Archives
  /\ \/ pack = "good" /\ plain' = "good" /\ Goto("convert") /\ UNCHANGED <<pack, reused>>
     \/ /\ pack = "bad" /\ ~fetched /\ plain' = IF kind = "tar" THEN "bad" ELSE "none"
        /\ pack' = "none" /\ reused' = FALSE /\ Goto("probe")
     \/ /\ pack = "bad" /\ fetched /\ plain' = IF kind = "tar" THEN "bad" ELSE "none"
        /\ Goto("failed") /\ UNCHANGED <<pack, reused>>
     \/ /\ pack = "bad" /\ kind = "zip" /\ plain' = "bad"
        /\ Goto("failed") /\ UNCHANGED <<pack, reused>>
  /\ UNCHANGED fetched /\ Still

UnpackUnchecked == /\ pc = "unpack" /\ kind \in {"packed", "gz", "xz"}
                   /\ plain' = pack /\ Goto("convert")
                   /\ UNCHANGED <<pack, reused, fetched>> /\ Still

(* gunzip, zstd, bzip2 and xz detect damage; the shell's redirection has   *)
(* left a partial file by then.                                            *)
Unpack == /\ pc = "unpack" /\ kind \in {"packed", "gz", "xz"}
          /\ plain' = pack
          /\ Goto(IF pack = "good" THEN "convert" ELSE "failed")
          /\ pack' = IF pack = "good" /\ kind \in {"gz", "xz"} THEN "none" ELSE pack
          /\ UNCHANGED <<reused, fetched>> /\ Still

(* createVM renames the download to .bz2 and unpacks it to where it was.   *)
UnpackIso == /\ pc = "unpack" /\ kind \in {"iso", "bz2", "image"}
             /\ pack' = IF kind = "bz2" THEN plain ELSE pack
             /\ Goto(IF kind = "bz2" /\ plain = "bad" THEN "failed" ELSE "convert")
             /\ UNCHANGED <<plain, reused, fetched>> /\ Still

(* qemu-img convert: raw input always converts, a damaged qcow2 may; the   *)
(* input is removed afterwards if it was a download.  An ISO is attached.  *)
Convert ==
  /\ pc = "convert"
  /\ \/ Goto("ready")
     \/ plain = "bad" /\ kind \in {"image", "gz"} /\ Goto("failed")
  /\ UNCHANGED <<fileVars, reused, fetched>> /\ Still

Fetch == \/ Probe \/ Single \/ Gather \/ Resume \/ ResumeEnds \/ Size \/ Fetched
         \/ \E i \in Cells : Chunk(i)

Build == \/ Clear \/ Look \/ UnpackArchive \/ Unpack \/ UnpackIso \/ Convert

Over == pc \in {"ready", "failed", "cut"}

(* The build is cancelled, maybe in the middle of an unpacking. *)
Interrupted ==
  /\ ~Over /\ Goto("cut")
  /\ plain' \in IF pc = "unpack" /\ kind \notin {"iso", "image"} THEN {plain, "bad"} ELSE {plain}
  /\ UNCHANGED <<pack, bodyVars, workVars, seenVars>> /\ Keep

(* The next run.  A successful one has removed its ISO or its temporary    *)
(* image; "packed" and the archives keep theirs, and the qcow2 that xz     *)
(* unpacked goes with clearVM.                                             *)
NextRun == /\ Over /\ run < Runs
           /\ run' = run + 1 /\ Goto("clear")
           /\ plain' = IF pc = "ready" /\ kind \notin Archives \cup {"packed"} THEN "none" ELSE plain
           /\ fetched' = FALSE /\ reused' = FALSE
           /\ cell' = Empty /\ long' = FALSE /\ tries' = [i \in Cells |-> 0]
           /\ working' = {} /\ failed' = {} /\ got' = 0 /\ stalls' = 0
           /\ UNCHANGED <<kind, pack, ranges, ignored>>

Next == Fetch \/ Build \/ Interrupted \/ NextRun

Spec == Init /\ [][Next]_vars

(* The build runs and every connection ends (DL_READ_TIMEOUT). *)
FairSpec == Spec /\ WF_vars(Fetch \/ Build)

-----------------------------------------------------------------------------
Files == {"none", "good", "bad"}

(* Types and counters within their bounds. *)
TypeOK ==
  /\ kind \in Kinds /\ plain \in Files /\ pack \in Files
  /\ pc \in {"clear", "look", "probe", "chunks", "single", "resume", "size", "fetched",
             "unpack", "convert", "ready", "failed", "cut"}
  /\ cell \in [Cells -> {"hole", "data", "junk"}] /\ long \in BOOLEAN
  /\ tries \in [Cells -> 0 .. Attempts] /\ working \subseteq Cells
  /\ failed \subseteq Cells \ working
  /\ got \in 0 .. 2 * Parts /\ stalls \in 0 .. Attempts
  /\ ranges \in BOOLEAN /\ ignored \in BOOLEAN /\ reused \in BOOLEAN
  /\ fetched \in BOOLEAN /\ run \in 1 .. Runs

(* With a server that keeps to the ranges it advertises, a download that   *)
(* returns has every byte in its place, after any pattern of short chunks, *)
(* failed workers and resumed connections: the file has had its full size  *)
(* from the start, so the size check alone would not show a hole.          *)
FetchedWhole == (pc = "fetched" /\ ranges /\ ~ignored) => Whole

(* The medium a build goes on with is whole in these cases.  Swept kinds:  *)
(* it was unpacked in this run and checked by the unpacker, and clearVM    *)
(* has removed what earlier unpackings left, whatever the download did.  A *)
(* bz2 ISO or a .qcow2.gz that this run has fetched and unpacked.  Any     *)
(* other that this run has fetched, from a server that keeps to its        *)
(* ranges.  Not in the others: a file found in place is used as it is (`if *)
(* not os.path.exists`), and for a bz2 ISO or a .qcow2.gz that file may be *)
(* the partial output of an unpacking that failed or was cut off, in spite *)
(* of build.py:4051-4054; and nothing checks an ISO that came in one       *)
(* stream.                                                                 *)
MediumWhole ==
  (/\ pc = "ready"
   /\ \/ kind \in Swept
      \/ ~reused /\ kind \in {"bz2", "gz"}
      \/ ~reused /\ ranges /\ ~ignored) => plain = "good"

(* A build that gives up without having downloaded has met a damaged file  *)
(* of an earlier run, and only one of these: a zip whose damage zlib finds *)
(* (see UnpackArchive), an .xz, a .qcow2, or the .qcow2 of a .qcow2.gz.    *)
(* Such a file stays and fails every later run.  What an earlier run left  *)
(* of a packed image or of a tar archive never does, nor does any file     *)
(* that is whole.  (A damaged ISO fails nothing here: it is attached.)     *)
LeftoverNeverFatal ==
  (pc = "failed" /\ ~fetched) =>
     /\ kind \in {"zip", "xz", "image", "gz"}
     /\ "bad" \in {plain, pack}

(* Retries, stalls and the second download of an archive are bounded. *)
FetchEnds == ~Over ~> Over
=============================================================================
