-------------------------- MODULE FirmwareDownload --------------------------
(***************************************************************************)
(* One firmware update of iotmer_ota.c, from the erase of the staging      *)
(* partition to the change of the boot partition: a GET whose body goes    *)
(* through a running SHA256 into flash, resumed with a Range header when   *)
(* the connection is lost, started over when that does not help.           *)
(*                                                                         *)
(* An image is a sequence of blocks and its digest is the image itself.    *)
(* The server answers a Range with 206 or ignores it with 200, announces   *)
(* the length or not, may publish another image between two requests, and  *)
(* may answer from the wrong place.  Connections are lost at any moment.   *)
(***************************************************************************)
EXTENDS Integers, Sequences

CONSTANTS
  Image,        \* what the server may publish
  Expected,     \* the image firmware_checksum_sha256 names
  PartSize,     \* blocks of the staging partition
  MaxRead,      \* blocks in OTA_HTTP_RX
  MaxResume,    \* OTA_MAX_RESUME
  MaxAttempts   \* OTA_MAX_ATTEMPTS

Block == UNION {{image[i] : i \in 1 .. Len(image)} : image \in Image}

ASSUME ImageAssumption ==
  /\ Image \subseteq Seq(Block) /\ Expected \in Image
  /\ \A image \in Image : image # <<>>
ASSUME BoundAssumption ==
  /\ PartSize \in Nat /\ MaxRead \in Nat \ {0}
  /\ MaxResume \in Nat /\ MaxAttempts \in Nat \ {0}

VARIABLES
  pc,        \* "begin", "open", "read", "verify", "end", "done" or "failed"
  attempt,   \* of https_ota_download_and_verify
  resumes,   \* of ota_http_stream
  ota,       \* the esp_ota handle is open
  flash,     \* what the staging partition holds
  sha,       \* what the running digest has seen
  written,   \* *written
  total,     \* 0: not known
  skip,      \* bytes of a repeated body that are in flash already
  rest,      \* what the open response has still to deliver
  sized,     \* its end is announced by a length
  slot,      \* the partition the next boot takes: "old" or "staging"
  served     \* the image at firmware_url

\* History, counted as far as the properties look: connections lost once data had arrived,
\* requests that got nothing, and whether anything else went wrong than the network.
VARIABLES drops, refusals, faulty

stream == <<flash, sha, written>>
body == <<skip, rest, sized>>
response == <<total, body>>
past == <<drops, refusals, faulty>>
vars == <<pc, attempt, resumes, ota, stream, response, slot, served, past>>

TypeOK ==
  /\ pc \in {"begin", "open", "read", "verify", "end", "done", "failed"}
  /\ attempt \in 1 .. MaxAttempts /\ resumes \in 0 .. MaxResume
  /\ ota \in BOOLEAN
  /\ flash \in Seq(Block) /\ sha \in Seq(Block)
  /\ written \in 0 .. PartSize
  /\ total \in 0 .. PartSize /\ skip \in Nat /\ rest \in Seq(Block) /\ sized \in BOOLEAN
  /\ slot \in {"old", "staging"}
  /\ served \in Image
  /\ drops \in 0 .. MaxResume + 1 /\ refusals \in 0 .. MaxAttempts /\ faulty \in BOOLEAN

Init ==
  /\ pc = "begin" /\ attempt = 1 /\ resumes = 0 /\ ota = FALSE
  /\ flash = <<>> /\ sha = <<>> /\ written = 0
  /\ total = 0 /\ skip = 0 /\ rest = <<>> /\ sized = FALSE
  /\ slot = "old"
  /\ served \in Image
  /\ drops = 0 /\ refusals = 0 /\ faulty = (served # Expected)

-----------------------------------------------------------------------------
\* How a stream ends

\* An error that ota_error_is_fatal names, or a digest that does not match: no retry.
Fatal == pc' = "failed" /\ ota' = FALSE /\ UNCHANGED <<attempt, resumes>>

\* Any other error: the handle is aborted and the next attempt erases the partition.
Retry ==
  /\ ota' = FALSE
  /\ IF attempt < MaxAttempts THEN pc' = "begin" /\ attempt' = attempt + 1
     ELSE pc' = "failed" /\ UNCHANGED attempt
  /\ UNCHANGED resumes

\* ESP_ERR_HTTP_EAGAIN: ask for the rest, into the same handle and digest.
Resume ==
  IF resumes < MaxResume
  THEN pc' = "open" /\ resumes' = resumes + 1 /\ UNCHANGED <<attempt, ota>>
  ELSE Retry

\* http_discard
Closed == skip' = 0 /\ rest' = <<>> /\ sized' = FALSE

Fault == faulty' = TRUE /\ UNCHANGED <<drops, refusals>>
OneMore(n, enough) == IF n < enough THEN n + 1 ELSE n
DropsNow == OneMore(drops, MaxResume + 1)
Drop == drops' = DropsNow /\ UNCHANGED <<refusals, faulty>>
Refusal == refusals' = OneMore(refusals, MaxAttempts) /\ UNCHANGED <<drops, faulty>>

-----------------------------------------------------------------------------
\* esp_ota_begin erases the partition before the connection is opened.
Begin ==
  /\ pc = "begin"
  /\ pc' = "open" /\ ota' = TRUE /\ resumes' = 0
  /\ flash' = <<>> /\ sha' = <<>> /\ written' = 0 /\ total' = 0
  /\ UNCHANGED <<attempt, skip, rest, sized, slot, served, past>>

BeginFails ==
  /\ pc = "begin"
  /\ Retry \/ Fatal
  /\ Fault
  /\ UNCHANGED <<stream, response, slot, served>>

-----------------------------------------------------------------------------
\* http_get_open, and what ota_http_stream makes of the status

\* Mutant: a reconnection that fails ends the attempt.
OpenFailsForGood ==
  /\ pc = "open"
  /\ Retry
  /\ IF written > 0 THEN Drop ELSE Refusal
  /\ UNCHANGED <<stream, response, slot, served>>

\* No connection. With bytes in flash it is tried again.
OpenFails ==
  /\ pc = "open"
  /\ IF written > 0 THEN Resume /\ Drop ELSE Retry /\ Refusal
  /\ UNCHANGED <<stream, response, slot, served>>

OpenRefused ==
  /\ pc = "open"
  /\ Retry
  /\ Refusal
  /\ UNCHANGED <<stream, response, slot, served>>

\* A body of the server from place `from` on, after `before` bytes to be skipped, with the
\* total known so far; one that cannot fit is not read.
Reads(from, before, size, known) ==
  IF size > PartSize \/ (size > 0 /\ before > size)
  THEN Fatal /\ Closed /\ UNCHANGED total
  ELSE /\ pc' = "read" /\ UNCHANGED <<attempt, resumes, ota>>
       /\ total' = size /\ skip' = before
       /\ rest' = SubSeq(served, from + 1, Len(served)) /\ sized' = known

\* 200: the whole body; what is in flash already is skipped.
OpenFull ==
  /\ pc = "open"
  /\ \E known \in BOOLEAN : Reads(0, written, IF known THEN Len(served) ELSE total, known)
  /\ faulty' = (faulty \/ Len(served) > PartSize)
  /\ UNCHANGED <<stream, slot, served, drops, refusals>>

\* 206: the body from a place on; Content-Range is checked if the client can see it, and
\* names the total or "*".
OpenPartial ==
  /\ pc = "open"
  /\ \E from \in 0 .. Len(served) - 1, seen, known \in BOOLEAN :
       /\ IF seen /\ from # written
          THEN Fatal /\ Closed /\ UNCHANGED total
          ELSE Reads(from, 0, IF ~ known THEN total
                              ELSE IF seen THEN Len(served)
                              ELSE written + Len(served) - from, known)
       /\ faulty' = (faulty \/ from # written \/ Len(served) > PartSize)
  /\ UNCHANGED <<stream, slot, served, drops, refusals>>

-----------------------------------------------------------------------------
\* ota_read_body

\* Bytes of the body that are new, given k that arrived.
Fresh(k) == SubSeq(rest, skip + 1, k)
SkipOf(k) == IF k < skip THEN k ELSE skip

\* Mutant: the announced length is trusted where it is known.
TooLongOrAnnounced(n) == IF total > 0 THEN written + n > total ELSE FALSE

TooLong(n) == written + n > PartSize \/ (total > 0 /\ written + n > total)

\* Mutant: the digest skips what is in flash, the write does not.
StoreAll(k) ==
  /\ sha' = sha \o Fresh(k)
  /\ flash' = flash \o SubSeq(rest, 1, k)
  /\ written' = written + Len(Fresh(k))

Store(k) ==
  /\ sha' = sha \o Fresh(k)
  /\ flash' = flash \o Fresh(k)
  /\ written' = written + Len(Fresh(k))

\* Some bytes arrive: those not skipped are hashed and written.
Read ==
  /\ pc = "read"
  /\ \E k \in 1 .. MaxRead :
       /\ k <= Len(rest)
       /\ IF Fresh(k) # <<>> /\ TooLong(Len(Fresh(k)))
          THEN Fatal /\ Closed /\ UNCHANGED stream
          ELSE /\ Store(k)
               /\ rest' = SubSeq(rest, k + 1, Len(rest)) /\ skip' = skip - SkipOf(k)
               /\ UNCHANGED <<pc, attempt, resumes, ota, sized>>
  /\ UNCHANGED <<total, slot, served, past>>

\* esp_ota_write fails after the digest took the bytes.
WriteFails ==
  /\ pc = "read" /\ rest # <<>> /\ skip = 0 /\ ~ TooLong(1)
  /\ sha' = Append(sha, Head(rest))
  /\ Retry /\ Closed
  /\ Fault
  /\ UNCHANGED <<flash, written, total, slot, served>>

\* The connection is lost: a read error, or an end before the announced length.
ReadDrops ==
  /\ pc = "read"
  /\ rest # <<>> \/ ~ sized
  /\ Resume /\ Closed
  /\ Drop
  /\ UNCHANGED <<stream, total, slot, served>>

\* The end of the body as the client sees it: its end, or the loss of a connection that
\* alone ends a body of no announced length. Too little data asks for more; that the total
\* is met exactly is looked at again before the digest.
ReadEnds ==
  /\ pc = "read"
  /\ rest = <<>> \/ ~ sized
  /\ faulty' = (faulty \/ (rest # <<>> /\ (total = 0 \/ skip > 0)))
  /\ IF skip > 0 THEN Fatal /\ UNCHANGED drops
     ELSE IF total \in {0, written} THEN /\ pc' = "verify"
                                         /\ UNCHANGED <<attempt, resumes, ota, drops>>
     ELSE Resume /\ drops' = DropsNow
  /\ Closed
  /\ UNCHANGED <<stream, total, slot, served, refusals>>

-----------------------------------------------------------------------------
\* The digest of the stream against firmware_checksum_sha256.
Verify ==
  /\ pc = "verify"
  /\ IF sha = Expected THEN pc' = "end" /\ UNCHANGED <<attempt, resumes, ota>> ELSE Fatal
  /\ UNCHANGED <<stream, response, slot, served, past>>

\* esp_ota_end and esp_ota_set_boot_partition, each of which may refuse the image.
End ==
  /\ pc = "end"
  /\ pc' = "done" /\ ota' = FALSE /\ slot' = "staging"
  /\ UNCHANGED <<attempt, resumes, stream, response, served, past>>

EndFails ==
  /\ pc = "end"
  /\ Fatal
  /\ Fault
  /\ UNCHANGED <<stream, response, slot, served>>

\* The server publishes another image.
Publish ==
  /\ pc \in {"begin", "open", "read"}
  /\ served' \in Image \ {served}
  /\ faulty' = TRUE
  /\ UNCHANGED <<pc, attempt, resumes, ota, stream, response, slot, drops, refusals>>

Update ==
  \/ Begin \/ BeginFails
  \/ OpenFails \/ OpenRefused \/ OpenFull \/ OpenPartial
  \/ Read \/ WriteFails \/ ReadDrops \/ ReadEnds
  \/ Verify \/ End \/ EndFails

Finished == pc \in {"done", "failed"} /\ UNCHANGED vars

Next == Update \/ Publish \/ Finished

Spec == Init /\ [][Next]_vars

-----------------------------------------------------------------------------
\* Properties

\* The boot partition changes only to the image whose digest the provision named: what
\* was hashed is what is in flash, over resumes, repeated bodies and images that change
\* between two requests.
BootsWhatWasExpected == slot = "staging" => flash = Expected

\* An update fails for a cause: with a server that keeps publishing the expected image
\* and answers ranges from the right place, and a flash that works, it takes more lost
\* connections than OTA_MAX_RESUME, or as many refused requests as attempts. Resuming
\* repeats and loses no byte, whether the server honours ranges or not.
FailsOnlyForCause ==
  pc = "failed" => faulty \/ drops > MaxResume \/ refusals >= MaxAttempts
=============================================================================
