---------------------- MODULE FirmwareDownloadProofs ----------------------
(***************************************************************************)
(* Proofs about FirmwareDownload, for every set of images, size of the     *)
(* partition and number of resumes and attempts: the boot partition only   *)
(* changes to the expected image, and an update fails only for a cause.    *)
(***************************************************************************)
EXTENDS FirmwareDownload, SequenceTheorems, TLAPS

LEMMA ImageType ==
  ASSUME NEW image \in Image
  PROVE  image \in Seq(Block) /\ Len(image) \in Nat \ {0}
<1>1. image \in Seq(Block) /\ image # <<>>
  BY ImageAssumption
<1> QED
  BY <1>1, EmptySeq

(* The rest of an image from some place on.                                *)
LEMMA RestType ==
  ASSUME NEW s \in Seq(Block), NEW k \in 0 .. Len(s)
  PROVE  /\ SubSeq(s, k + 1, Len(s)) \in Seq(Block)
         /\ Len(SubSeq(s, k + 1, Len(s))) = Len(s) - k
         /\ \A i \in 1 .. Len(s) - k : SubSeq(s, k + 1, Len(s))[i] = s[k + i]
<1>1. Len(s) \in Nat
  BY LenProperties
<1>2. \A i \in k + 1 .. Len(s) : s[i] \in Block
  BY <1>1, ElementOfSeq
<1>3. SubSeq(s, k + 1, Len(s)) \in Seq(Block)
  BY <1>1, <1>2, SubSeqProperties
<1> QED
  BY <1>1, <1>2, <1>3, SubSeqProperties

(* The new bytes among k that arrived: none while they are to be skipped.  *)
LEMMA FreshType ==
  ASSUME TypeOK, NEW k \in 1 .. MaxRead, k <= Len(rest)
  PROVE  /\ Fresh(k) \in Seq(Block)
         /\ Len(Fresh(k)) = k - SkipOf(k)
         /\ \A i \in 1 .. Len(Fresh(k)) : Fresh(k)[i] = rest[skip + i]
         /\ SkipOf(k) \in Nat /\ SkipOf(k) <= skip /\ SkipOf(k) <= k
         /\ k - SkipOf(k) > 0 => SkipOf(k) = skip
<1>1. k \in Nat /\ skip \in Nat /\ rest \in Seq(Block) /\ Len(rest) \in Nat
  BY LenProperties, BoundAssumption DEF TypeOK
<1>2. \A i \in skip + 1 .. k : rest[i] \in Block
  BY <1>1, ElementOfSeq
<1>3. /\ SubSeq(rest, skip + 1, k) \in Seq(Block)
      /\ Len(SubSeq(rest, skip + 1, k)) = IF skip + 1 <= k THEN k - (skip + 1) + 1 ELSE 0
      /\ \A i \in 1 .. k - (skip + 1) + 1 :
            SubSeq(rest, skip + 1, k)[i] = rest[skip + 1 + i - 1]
  BY <1>1, <1>2, SubSeqProperties
<1>4. /\ SkipOf(k) \in Nat /\ SkipOf(k) <= skip /\ SkipOf(k) <= k
      /\ k - SkipOf(k) > 0 => SkipOf(k) = skip
  BY <1>1 DEF SkipOf
<1>5. Len(Fresh(k)) = k - SkipOf(k)
  BY <1>1, <1>3 DEF Fresh, SkipOf
<1>6. ASSUME NEW i \in 1 .. Len(Fresh(k))
      PROVE  Fresh(k)[i] = rest[skip + i]
  <2>1. i \in 1 .. k - (skip + 1) + 1 /\ skip + 1 + i - 1 = skip + i
    BY <1>1, <1>3, <1>6 DEF Fresh
  <2> QED
    BY <1>3, <2>1 DEF Fresh
<1> QED
  BY <1>3, <1>4, <1>5, <1>6 DEF Fresh

-----------------------------------------------------------------------------
\* Types

LEMMA RetryType ==
  ASSUME TypeOK, Retry
  PROVE  /\ pc' \in {"begin", "failed"} /\ ota' \in BOOLEAN
         /\ attempt' \in 1 .. MaxAttempts /\ resumes' \in 0 .. MaxResume
<1>1. attempt \in 1 .. MaxAttempts /\ resumes \in 0 .. MaxResume /\ MaxAttempts \in Nat
  BY BoundAssumption DEF TypeOK
<1>2. ota' \in BOOLEAN
  BY DEF Retry
<1>3. CASE attempt < MaxAttempts
  <2>1. pc' = "begin" /\ attempt' = attempt + 1 /\ resumes' = resumes
    BY <1>3 DEF Retry
  <2> QED
    BY <1>1, <1>2, <1>3, <2>1
<1>4. CASE ~ (attempt < MaxAttempts)
  <2>1. pc' = "failed" /\ attempt' = attempt /\ resumes' = resumes
    BY <1>4 DEF Retry
  <2> QED
    BY <1>1, <1>2, <2>1
<1> QED
  BY <1>3, <1>4

LEMMA ResumeType ==
  ASSUME TypeOK, Resume
  PROVE  /\ pc' \in {"open", "begin", "failed"} /\ ota' \in BOOLEAN
         /\ attempt' \in 1 .. MaxAttempts /\ resumes' \in 0 .. MaxResume
BY RetryType, BoundAssumption DEF TypeOK, Resume

LEMMA FatalType ==
  ASSUME TypeOK, Fatal
  PROVE  /\ pc' = "failed" /\ ota' \in BOOLEAN
         /\ attempt' \in 1 .. MaxAttempts /\ resumes' \in 0 .. MaxResume
BY DEF TypeOK, Fatal

LEMMA ClosedType ==
  ASSUME Closed
  PROVE  skip' \in Nat /\ rest' \in Seq(Block) /\ sized' \in BOOLEAN
BY EmptySeq DEF Closed

LEMMA PastType ==
  ASSUME TypeOK, Fault \/ Drop \/ Refusal
  PROVE  drops' \in 0 .. MaxResume + 1 /\ refusals' \in 0 .. MaxAttempts /\ faulty' \in BOOLEAN
<1>1. /\ drops \in 0 .. MaxResume + 1 /\ refusals \in 0 .. MaxAttempts /\ faulty \in BOOLEAN
      /\ MaxResume \in Nat /\ MaxAttempts \in Nat
  BY BoundAssumption DEF TypeOK
<1>2. DropsNow \in 0 .. MaxResume + 1 /\ OneMore(refusals, MaxAttempts) \in 0 .. MaxAttempts
  BY <1>1 DEF DropsNow, OneMore
<1> QED
  BY <1>1, <1>2 DEF Fault, Drop, Refusal

LEMMA ReadsType ==
  ASSUME TypeOK, NEW from \in Nat, from <= Len(served), NEW before \in Nat,
         NEW size \in Nat, NEW known \in BOOLEAN, Reads(from, before, size, known)
  PROVE  /\ pc' \in {"failed", "read"} /\ ota' \in BOOLEAN
         /\ attempt' \in 1 .. MaxAttempts /\ resumes' \in 0 .. MaxResume
         /\ total' \in 0 .. PartSize /\ skip' \in Nat /\ rest' \in Seq(Block)
         /\ sized' \in BOOLEAN
<1>1. CASE size > PartSize \/ (size > 0 /\ before > size)
  BY <1>1, FatalType, ClosedType DEF Reads, TypeOK
<1>2. CASE ~ (size > PartSize \/ (size > 0 /\ before > size))
  <2>1. size \in 0 .. PartSize
    BY <1>2, BoundAssumption
  <2>2. served \in Seq(Block) /\ from \in 0 .. Len(served)
    BY ImageType DEF TypeOK
  <2>3. rest' \in Seq(Block)
    BY <1>2, <2>2, RestType DEF Reads
  <2> QED
    BY <1>2, <2>1, <2>3 DEF Reads, TypeOK
<1> QED
  BY <1>1, <1>2

LEMMA StoreType ==
  ASSUME TypeOK, NEW k \in 1 .. MaxRead, k <= Len(rest), Store(k),
         ~ (Fresh(k) # <<>> /\ TooLong(Len(Fresh(k))))
  PROVE  flash' \in Seq(Block) /\ sha' \in Seq(Block) /\ written' \in 0 .. PartSize
<1>1. Fresh(k) \in Seq(Block) /\ Len(Fresh(k)) \in Nat
  BY FreshType, LenProperties
<1>2. flash' \in Seq(Block) /\ sha' \in Seq(Block)
  BY <1>1, ConcatProperties DEF Store, TypeOK
<1>3. CASE Fresh(k) = <<>>
  BY <1>2, <1>3, EmptySeq DEF Store, TypeOK
<1>4. CASE ~ TooLong(Len(Fresh(k)))
  BY <1>1, <1>2, <1>4, BoundAssumption DEF Store, TypeOK, TooLong
<1> QED
  BY <1>3, <1>4

LEMMA InitType == Init => TypeOK
<1> SUFFICES ASSUME Init PROVE TypeOK
  OBVIOUS
<1>1. <<>> \in Seq(Block)
  BY EmptySeq
<1>2. 1 \in 1 .. MaxAttempts /\ 0 \in 0 .. MaxResume /\ 0 \in 0 .. PartSize
      /\ 0 \in 0 .. MaxResume + 1 /\ 0 \in 0 .. MaxAttempts
  BY BoundAssumption
<1> QED
  BY <1>1, <1>2 DEF Init, TypeOK

LEMMA NextType == TypeOK /\ [Next]_vars => TypeOK'
<1> SUFFICES ASSUME TypeOK, [Next]_vars PROVE TypeOK'
  OBVIOUS
<1> USE DEF stream, response, body, past
<1>1. CASE Begin
  BY <1>1, EmptySeq, BoundAssumption DEF Begin, TypeOK
<1>2. CASE BeginFails
  BY <1>2, RetryType, FatalType, PastType DEF BeginFails, TypeOK
<1>3. CASE OpenFails
  <2>1. (Resume \/ Retry) /\ (Drop \/ Refusal)
    BY <1>3 DEF OpenFails
  <2> QED
    BY <1>3, <2>1, ResumeType, RetryType, PastType DEF OpenFails, TypeOK
<1>4. CASE OpenRefused
  BY <1>4, RetryType, PastType DEF OpenRefused, TypeOK
<1>5. CASE OpenFull
  <2>1. PICK known \in BOOLEAN :
          Reads(0, written, IF known THEN Len(served) ELSE total, known)
    BY <1>5 DEF OpenFull
  <2>2. 0 \in Nat /\ 0 <= Len(served) /\ written \in Nat
        /\ (IF known THEN Len(served) ELSE total) \in Nat
    BY ImageType DEF TypeOK
  <2>3. /\ pc' \in {"failed", "read"} /\ ota' \in BOOLEAN
        /\ attempt' \in 1 .. MaxAttempts /\ resumes' \in 0 .. MaxResume
        /\ total' \in 0 .. PartSize /\ skip' \in Nat /\ rest' \in Seq(Block)
        /\ sized' \in BOOLEAN
    BY <2>1, <2>2, ReadsType
  <2>4. faulty' \in BOOLEAN
    BY <1>5 DEF OpenFull, TypeOK
  <2> QED
    BY <1>5, <2>3, <2>4 DEF OpenFull, TypeOK
<1>6. CASE OpenPartial
  <2>1. PICK from \in 0 .. Len(served) - 1, seen \in BOOLEAN, known \in BOOLEAN :
          /\ IF seen /\ from # written
             THEN Fatal /\ Closed /\ UNCHANGED total
             ELSE Reads(from, 0, IF ~ known THEN total
                                 ELSE IF seen THEN Len(served)
                                 ELSE written + Len(served) - from, known)
          /\ faulty' = (faulty \/ from # written \/ Len(served) > PartSize)
    BY <1>6 DEF OpenPartial
  <2>2. Len(served) \in Nat /\ from \in Nat /\ from <= Len(served) /\ 0 \in Nat
        /\ (IF ~ known THEN total ELSE IF seen THEN Len(served)
            ELSE written + Len(served) - from) \in Nat
    BY ImageType DEF TypeOK
  <2>3. /\ pc' \in {"failed", "read"} /\ ota' \in BOOLEAN
        /\ attempt' \in 1 .. MaxAttempts /\ resumes' \in 0 .. MaxResume
        /\ total' \in 0 .. PartSize /\ skip' \in Nat /\ rest' \in Seq(Block)
        /\ sized' \in BOOLEAN
    <3>1. CASE seen /\ from # written
      BY <2>1, <3>1, FatalType, ClosedType DEF TypeOK
    <3>2. CASE ~ (seen /\ from # written)
      BY <2>1, <2>2, <3>2, ReadsType
    <3> QED
      BY <3>1, <3>2
  <2>4. faulty' \in BOOLEAN
    BY <2>1 DEF TypeOK
  <2> QED
    BY <1>6, <2>3, <2>4 DEF OpenPartial, TypeOK
<1>7. CASE Read
  <2>1. PICK k \in 1 .. MaxRead :
          /\ k <= Len(rest)
          /\ IF Fresh(k) # <<>> /\ TooLong(Len(Fresh(k)))
             THEN Fatal /\ Closed /\ UNCHANGED stream
             ELSE /\ Store(k)
                  /\ rest' = SubSeq(rest, k + 1, Len(rest)) /\ skip' = skip - SkipOf(k)
                  /\ UNCHANGED <<pc, attempt, resumes, ota, sized>>
    BY <1>7 DEF Read
  <2>2. CASE Fresh(k) # <<>> /\ TooLong(Len(Fresh(k)))
    BY <1>7, <2>1, <2>2, FatalType, ClosedType DEF Read, TypeOK
  <2>3. CASE ~ (Fresh(k) # <<>> /\ TooLong(Len(Fresh(k))))
    <3>1. flash' \in Seq(Block) /\ sha' \in Seq(Block) /\ written' \in 0 .. PartSize
      BY <2>1, <2>3, StoreType
    <3>2. rest \in Seq(Block) /\ k \in 0 .. Len(rest)
      BY <2>1, BoundAssumption DEF TypeOK
    <3>3. rest' \in Seq(Block)
      BY <2>1, <2>3, <3>2, RestType
    <3>4. skip' \in Nat
      BY <2>1, <2>3, FreshType DEF TypeOK
    <3> QED
      BY <1>7, <2>1, <2>3, <3>1, <3>3, <3>4 DEF Read, TypeOK
  <2> QED
    BY <2>2, <2>3
<1>8. CASE WriteFails
  <2>1. Head(rest) \in Block
    BY <1>8, EmptySeq, ElementOfSeq DEF WriteFails, TypeOK
  <2>2. sha' \in Seq(Block)
    BY <1>8, <2>1, AppendProperties DEF WriteFails, TypeOK
  <2> QED
    BY <1>8, <2>2, RetryType, ClosedType, PastType DEF WriteFails, TypeOK
<1>9. CASE ReadDrops
  BY <1>9, ResumeType, ClosedType, PastType DEF ReadDrops, TypeOK
<1>10. CASE ReadEnds
  <2>1. faulty' \in BOOLEAN
    BY <1>10 DEF ReadEnds, TypeOK
  <2>2. drops' \in 0 .. MaxResume + 1
    BY <1>10, BoundAssumption DEF ReadEnds, TypeOK, DropsNow, OneMore
  <2>3. /\ pc' \in {"failed", "verify", "open", "begin"} /\ ota' \in BOOLEAN
        /\ attempt' \in 1 .. MaxAttempts /\ resumes' \in 0 .. MaxResume
    BY <1>10, FatalType, ResumeType DEF ReadEnds, TypeOK
  <2> QED
    BY <1>10, <2>1, <2>2, <2>3, ClosedType DEF ReadEnds, TypeOK
<1>11. CASE Verify
  BY <1>11, FatalType DEF Verify, TypeOK
<1>12. CASE End
  BY <1>12 DEF End, TypeOK
<1>13. CASE EndFails
  BY <1>13, FatalType, PastType DEF EndFails, TypeOK
<1>14. CASE Publish
  BY <1>14 DEF Publish, TypeOK
<1>15. CASE UNCHANGED vars
  BY <1>15 DEF vars, TypeOK
<1> QED
  BY <1>1, <1>2, <1>3, <1>4, <1>5, <1>6, <1>7, <1>8, <1>9, <1>10, <1>11, <1>12, <1>13,
     <1>14, <1>15 DEF Next, Update, Finished

(* Every variable keeps its type, whatever the server answers.             *)
THEOREM TypeCorrect == Spec => []TypeOK
<1>1. Init => TypeOK
  BY InitType
<1>2. TypeOK /\ [Next]_vars => TypeOK'
  BY NextType
<1> QED
  BY <1>1, <1>2, PTL DEF Spec

-----------------------------------------------------------------------------
\* What is booted

(* While a handle is written, the digest has seen exactly what is in flash; *)
(* what was verified is the expected image.                                 *)
BootInv ==
  /\ pc \notin {"begin", "failed"} => sha = flash
  /\ pc \in {"end", "done"} => sha = Expected
  /\ slot = "staging" => pc = "done"

(* The actions that end a stream leave the partitions alone.               *)
LEMMA StreamEndsBoot ==
  ASSUME BootInv, Retry \/ Fatal, slot' = slot, pc # "done"
  PROVE  BootInv'
BY DEF BootInv, Retry, Fatal

LEMMA ResumeBoot ==
  ASSUME BootInv, Resume, UNCHANGED <<stream, slot>>, pc \in {"open", "read"}
  PROVE  BootInv'
<1>1. CASE Retry
  BY <1>1, StreamEndsBoot
<1>2. CASE pc' = "open"
  BY <1>2 DEF BootInv, stream
<1> QED
  BY <1>1, <1>2 DEF Resume

LEMMA ReadsBoot ==
  ASSUME BootInv, UNCHANGED <<stream, slot>>, pc = "open", pc' \in {"failed", "read"}
  PROVE  BootInv'
BY DEF BootInv, stream

LEMMA NextBoot == BootInv /\ [Next]_vars => BootInv'
<1> SUFFICES ASSUME BootInv, [Next]_vars PROVE BootInv'
  OBVIOUS
<1> USE DEF response, body, past
<1>1. CASE Begin
  BY <1>1 DEF Begin, BootInv
<1>2. CASE BeginFails
  BY <1>2, StreamEndsBoot DEF BeginFails
<1>3. CASE OpenFails
  BY <1>3, ResumeBoot, StreamEndsBoot DEF OpenFails
<1>4. CASE OpenRefused
  BY <1>4, StreamEndsBoot DEF OpenRefused
<1>5. CASE OpenFull
  <2>1. pc' \in {"failed", "read"}
    BY <1>5 DEF OpenFull, Reads, Fatal
  <2> QED
    BY <1>5, <2>1, ReadsBoot DEF OpenFull
<1>6. CASE OpenPartial
  <2>1. pc' \in {"failed", "read"}
    BY <1>6 DEF OpenPartial, Reads, Fatal
  <2> QED
    BY <1>6, <2>1, ReadsBoot DEF OpenPartial
<1>7. CASE Read
  <2>1. PICK k \in 1 .. MaxRead :
          IF Fresh(k) # <<>> /\ TooLong(Len(Fresh(k)))
          THEN Fatal /\ UNCHANGED stream
          ELSE Store(k) /\ UNCHANGED pc
    BY <1>7 DEF Read
  <2>2. CASE Fatal
    BY <1>7, <2>2, StreamEndsBoot DEF Read
  <2>3. CASE Store(k) /\ UNCHANGED pc
    BY <1>7, <2>3 DEF Read, Store, BootInv
  <2> QED
    BY <2>1, <2>2, <2>3
<1>8. CASE WriteFails
  BY <1>8, StreamEndsBoot DEF WriteFails
<1>9. CASE ReadDrops
  BY <1>9, ResumeBoot DEF ReadDrops
<1>10. CASE ReadEnds
  <2>1. CASE Fatal
    BY <1>10, <2>1, StreamEndsBoot DEF ReadEnds
  <2>2. CASE pc' = "verify"
    BY <1>10, <2>2 DEF ReadEnds, BootInv, stream
  <2>3. CASE Resume
    BY <1>10, <2>3, ResumeBoot DEF ReadEnds
  <2> QED
    BY <1>10, <2>1, <2>2, <2>3 DEF ReadEnds
<1>11. CASE Verify
  BY <1>11 DEF Verify, Fatal, BootInv, stream
<1>12. CASE End
  BY <1>12 DEF End, BootInv, stream
<1>13. CASE EndFails
  BY <1>13, StreamEndsBoot DEF EndFails
<1>14. CASE Publish
  BY <1>14 DEF Publish, BootInv, stream
<1>15. CASE UNCHANGED vars
  BY <1>15 DEF vars, BootInv, stream
<1> QED
  BY <1>1, <1>2, <1>3, <1>4, <1>5, <1>6, <1>7, <1>8, <1>9, <1>10, <1>11, <1>12, <1>13,
     <1>14, <1>15 DEF Next, Update, Finished

(* The boot partition changes only to the image the provision named.       *)
THEOREM BootsExpected == Spec => []BootsWhatWasExpected
<1>1. Init => BootInv
  BY DEF Init, BootInv
<1>2. BootInv /\ [Next]_vars => BootInv'
  BY NextBoot
<1>3. BootInv => BootsWhatWasExpected
  BY DEF BootInv, BootsWhatWasExpected
<1> QED
  BY <1>1, <1>2, <1>3, PTL DEF Spec

-----------------------------------------------------------------------------
\* Why an update fails

(* What is hashed is the beginning of the expected image.                  *)
HasPrefix ==
  /\ Len(sha) = written /\ written <= Len(Expected)
  /\ \A i \in 1 .. written : sha[i] = Expected[i]
  /\ total \in {0, Len(Expected)}

(* What the response has still to deliver is the end of the expected image, *)
(* from the first block that is not hashed on or from `skip` blocks before. *)
RestFollows ==
  /\ skip <= written
  /\ Len(rest) = Len(Expected) - (written - skip)
  /\ \A i \in 1 .. Len(rest) : rest[i] = Expected[written - skip + i]
  /\ Len(Expected) <= PartSize

Budget ==
  /\ resumes <= drops
  /\ drops > MaxResume \/ refusals >= attempt - 1

OnCourse ==
  /\ served = Expected
  /\ Budget
  /\ pc = "failed" => drops > MaxResume \/ refusals >= MaxAttempts
  /\ pc \in {"open", "read"} => HasPrefix
  /\ pc = "read" => RestFollows
  /\ pc = "verify" => sha = Expected

CauseInv == faulty \/ OnCourse

LEMMA RetryCourse ==
  ASSUME TypeOK, OnCourse, Retry, served' = served, drops' >= drops,
         drops' \in Nat, refusals' \in Nat,
         drops' > MaxResume \/ refusals' = OneMore(refusals, MaxAttempts),
         refusals' >= refusals
  PROVE  OnCourse'
<1>1. /\ attempt \in 1 .. MaxAttempts /\ resumes \in 0 .. MaxResume
      /\ MaxAttempts \in Nat /\ MaxResume \in Nat
      /\ drops \in Nat /\ refusals \in 0 .. MaxAttempts
  BY BoundAssumption DEF TypeOK
<1>2. resumes' = resumes /\ resumes <= drops'
  BY <1>1 DEF Retry, OnCourse, Budget
<1>3. drops' > MaxResume \/ refusals' >= MaxAttempts \/ refusals' >= attempt
  BY <1>1 DEF OneMore, OnCourse, Budget
<1>4. CASE attempt < MaxAttempts
  <2>1. pc' = "begin" /\ attempt' = attempt + 1
    BY <1>4 DEF Retry
  <2> QED
    BY <1>1, <1>2, <1>3, <1>4, <2>1 DEF OnCourse, Budget
<1>5. CASE ~ (attempt < MaxAttempts)
  <2>1. pc' = "failed" /\ attempt' = attempt
    BY <1>5 DEF Retry
  <2> QED
    BY <1>1, <1>2, <1>3, <1>5, <2>1 DEF OnCourse, Budget
<1> QED
  BY <1>4, <1>5

(* A lost connection costs a resume, and the last one an attempt.          *)
LEMMA ResumeCourse ==
  ASSUME TypeOK, OnCourse, HasPrefix, Resume, drops' = DropsNow, refusals' = refusals,
         UNCHANGED <<stream, total, served>>
  PROVE  OnCourse'
<1>1. /\ attempt \in 1 .. MaxAttempts /\ resumes \in 0 .. MaxResume
      /\ MaxAttempts \in Nat /\ MaxResume \in Nat
      /\ drops \in 0 .. MaxResume + 1 /\ refusals \in 0 .. MaxAttempts
      /\ resumes <= drops
  BY BoundAssumption DEF TypeOK, OnCourse, Budget
<1>2. drops' \in Nat /\ drops' >= drops /\ drops' >= resumes + 1
  BY <1>1 DEF DropsNow, OneMore
<1>3. CASE resumes < MaxResume
  <2>1. pc' = "open" /\ resumes' = resumes + 1 /\ attempt' = attempt
    BY <1>3 DEF Resume
  <2>2. HasPrefix'
    BY DEF HasPrefix, stream
  <2> QED
    BY <1>1, <1>2, <2>1, <2>2 DEF OnCourse, Budget
<1>4. CASE ~ (resumes < MaxResume)
  <2>1. Retry
    BY <1>4 DEF Resume
  <2>2. drops' > MaxResume
    BY <1>1, <1>2, <1>4
  <2> QED
    BY <1>1, <1>2, <2>1, <2>2, RetryCourse
<1> QED
  BY <1>3, <1>4

(* A response that begins where the digest ends, or at the first block with *)
(* what is known to be skipped, continues the image.                        *)
LEMMA ReadsCourse ==
  ASSUME TypeOK, OnCourse, HasPrefix, Len(Expected) <= PartSize,
         NEW before \in {0, written}, NEW size \in {0, Len(Expected)}, NEW known \in BOOLEAN,
         Reads(written - before, before, size, known),
         UNCHANGED <<stream, served, drops, refusals>>
  PROVE  OnCourse'
<1>1. /\ Expected \in Seq(Block) /\ Len(Expected) \in Nat \ {0} /\ served = Expected
      /\ written \in Nat /\ PartSize \in Nat /\ written <= Len(Expected)
  BY ImageType, ImageAssumption, BoundAssumption DEF TypeOK, OnCourse, HasPrefix
<1>2. ~ (size > PartSize \/ (size > 0 /\ before > size))
  BY <1>1
<1>3. /\ pc' = "read" /\ UNCHANGED <<attempt, resumes>>
      /\ total' = size /\ skip' = before
      /\ rest' = SubSeq(Expected, written - before + 1, Len(Expected))
  BY <1>1, <1>2 DEF Reads
<1>4. written - before \in 0 .. Len(Expected)
  BY <1>1
<1>5. /\ Len(rest') = Len(Expected) - (written - before)
      /\ \A i \in 1 .. Len(Expected) - (written - before) :
            rest'[i] = Expected[written - before + i]
  BY <1>1, <1>3, <1>4, RestType
<1>6. HasPrefix'
  BY <1>3 DEF HasPrefix, stream
<1>7. RestFollows'
  <2>1. written' = written /\ skip' = before /\ before <= written
    BY <1>1, <1>3 DEF stream
  <2> QED
    BY <1>5, <2>1 DEF RestFollows
<1> QED
  BY <1>3, <1>6, <1>7 DEF OnCourse, Budget

(* The blocks that arrive are the next ones.                               *)
LEMMA StoreCourse ==
  ASSUME TypeOK, OnCourse, pc = "read", NEW k \in 1 .. MaxRead, k <= Len(rest), Store(k),
         rest' = SubSeq(rest, k + 1, Len(rest)), skip' = skip - SkipOf(k),
         UNCHANGED <<pc, attempt, resumes, total, served, drops, refusals>>
  PROVE  OnCourse'
<1>1. /\ Len(Expected) \in Nat /\ written \in Nat /\ skip \in Nat
      /\ sha \in Seq(Block) /\ rest \in Seq(Block) /\ Len(rest) \in Nat
      /\ Len(sha) = written /\ k \in Nat
  BY ImageType, ImageAssumption, BoundAssumption, LenProperties
     DEF TypeOK, OnCourse, HasPrefix
<1>2. PICK new \in Nat, gone \in Nat :
        /\ Fresh(k) \in Seq(Block) /\ new = Len(Fresh(k)) /\ new = k - gone
        /\ gone = SkipOf(k) /\ gone <= skip
        /\ new > 0 => gone = skip
        /\ \A i \in 1 .. new : Fresh(k)[i] = rest[skip + i]
  BY FreshType, LenProperties
<1>a. /\ new = k - gone /\ gone <= skip /\ (new > 0 => gone = skip)
      /\ written \in Int /\ skip \in Int /\ k \in Int /\ new \in Int /\ gone \in Int
      /\ new >= 0 /\ gone >= 0
  BY <1>1, <1>2
<1>3. HasPrefix /\ RestFollows
  BY DEF OnCourse
<1>4. written' = written + new /\ sha' = sha \o Fresh(k) /\ skip' = skip - gone
  BY <1>2 DEF Store
<1>5. /\ Len(sha') = written + new
      /\ \A i \in 1 .. written + new :
           sha'[i] = IF i <= written THEN sha[i] ELSE Fresh(k)[i - written]
  <2>1. /\ Len(sha \o Fresh(k)) = Len(sha) + Len(Fresh(k))
        /\ \A i \in 1 .. Len(sha) + Len(Fresh(k)) : (sha \o Fresh(k))[i] =
              IF i <= Len(sha) THEN sha[i] ELSE Fresh(k)[i - Len(sha)]
    BY <1>1, <1>2, ConcatProperties
  <2>2. Len(sha) = written /\ Len(Fresh(k)) = new /\ sha' = sha \o Fresh(k)
    BY <1>1, <1>2, <1>4
  <2> QED
    BY <2>1, <2>2
<1>6. skip <= written /\ written <= Len(Expected)
      /\ Len(rest) = Len(Expected) - (written - skip)
  BY <1>3 DEF RestFollows, HasPrefix
<1>7. written + new <= Len(Expected)
  <2>1. CASE new = 0
    BY <1>1, <1>6, <2>1
  <2>2. CASE new > 0
    BY <1>1, <1>a, <1>6, <2>2
  <2> QED
    BY <1>2, <2>1, <2>2
<1>8. ASSUME NEW i \in 1 .. written + new
      PROVE  sha'[i] = Expected[i]
  <2>1. CASE i <= written
    BY <1>1, <1>3, <1>5, <2>1 DEF HasPrefix
  <2>2. CASE ~ (i <= written)
    <3> DEFINE j == i - written
    <3>1. j \in 1 .. new /\ new > 0
      BY <1>a, <2>2
    <3>2. skip + j \in 1 .. Len(rest)
      BY <1>1, <1>a, <2>2, <3>1
    <3>3. sha'[i] = rest[skip + j]
      BY <1>2, <1>5, <2>2, <3>1
    <3>4. rest[skip + j] = Expected[written - skip + (skip + j)]
      BY <1>3, <3>2 DEF RestFollows
    <3>5. written - skip + (skip + j) = i
      BY <1>1
    <3> QED
      BY <3>3, <3>4, <3>5
  <2> QED
    BY <2>1, <2>2
<1>9. HasPrefix'
  BY <1>3, <1>4, <1>5, <1>7, <1>8 DEF HasPrefix
<1>10. /\ Len(rest') = Len(rest) - k
      /\ \A i \in 1 .. Len(rest) - k : rest'[i] = rest[k + i]
  BY <1>1, RestType
<1>11. written' - skip' = written - skip + k /\ skip' <= written'
  <2>1. written' = written + new /\ skip' = skip - gone
    BY <1>4
  <2>2. (written + new) - (skip - gone) = written - skip + k
    BY <1>a
  <2>3. skip - gone <= written + new
    BY <1>a, <1>6
  <2> QED
    BY <2>1, <2>2, <2>3
<1>12. ASSUME NEW i \in 1 .. Len(rest')
       PROVE  rest'[i] = Expected[written' - skip' + i]
  <2>1. i \in 1 .. Len(rest) - k /\ k + i \in 1 .. Len(rest)
    BY <1>1, <1>10
  <2>2. rest'[i] = Expected[written - skip + (k + i)]
    BY <1>3, <1>10, <2>1 DEF RestFollows
  <2>3. written - skip + (k + i) = written' - skip' + i
    BY <1>1, <1>11
  <2> QED
    BY <2>2, <2>3
<1>13. RestFollows'
  <2>1. skip' <= written'
    BY <1>11
  <2>2. Len(rest') = Len(Expected) - (written' - skip')
    BY <1>1, <1>3, <1>10, <1>11 DEF RestFollows
  <2>3. Len(Expected) <= PartSize
    BY <1>3 DEF RestFollows
  <2> QED
    BY <1>12, <2>1, <2>2, <2>3 DEF RestFollows
<1> QED
  BY <1>9, <1>13 DEF OnCourse, Budget

LEMMA NextCourse == TypeOK /\ CauseInv /\ [Next]_vars => CauseInv'
<1> SUFFICES ASSUME TypeOK, CauseInv, [Next]_vars, ~ faulty' PROVE OnCourse'
  BY DEF CauseInv
<1> USE DEF response, body, past
<1>a. /\ MaxAttempts \in Nat \ {0} /\ MaxResume \in Nat /\ PartSize \in Nat
      /\ drops \in 0 .. MaxResume + 1 /\ refusals \in 0 .. MaxAttempts
      /\ written \in Nat
  BY BoundAssumption DEF TypeOK
<1>b. /\ DropsNow \in Nat /\ DropsNow >= drops
      /\ OneMore(refusals, MaxAttempts) \in Nat /\ OneMore(refusals, MaxAttempts) >= refusals
  BY <1>a DEF DropsNow, OneMore
<1>c. Expected \in Seq(Block) /\ Len(Expected) \in Nat \ {0}
  BY ImageType, ImageAssumption
<1>d. [Next]_vars => faulty' \/ ~ faulty
  BY DEF Next, Update, Finished, Begin, BeginFails, OpenFails, OpenRefused, OpenFull,
         OpenPartial, Read, WriteFails, ReadDrops, ReadEnds, Verify, End, EndFails, Publish,
         vars, Fault, Drop, Refusal
<1>e. OnCourse
  BY <1>d DEF CauseInv
<1>1. CASE Begin
  <2>1. HasPrefix'
    BY <1>1, <1>c, EmptySeq DEF Begin, HasPrefix
  <2>2. Budget'
    BY <1>1, <1>a, <1>e DEF Begin, Budget, OnCourse
  <2> QED
    BY <1>1, <1>e, <2>1, <2>2 DEF Begin, OnCourse
<1>2. CASE BeginFails
  BY <1>2 DEF BeginFails, Fault
<1>3. CASE OpenFails
  <2>1. CASE written > 0
    BY <1>3, <1>e, <2>1, ResumeCourse DEF OpenFails, Drop, OnCourse
  <2>2. CASE ~ (written > 0)
    BY <1>3, <1>a, <1>b, <1>e, <2>2, RetryCourse DEF OpenFails, Refusal
  <2> QED
    BY <2>1, <2>2
<1>4. CASE OpenRefused
  BY <1>4, <1>a, <1>b, <1>e, RetryCourse DEF OpenRefused, Refusal
<1>5. CASE OpenFull
  <2>1. PICK known \in BOOLEAN :
          Reads(0, written, IF known THEN Len(served) ELSE total, known)
    BY <1>5 DEF OpenFull
  <2>2. HasPrefix /\ served = Expected /\ ~ (Len(served) > PartSize)
    BY <1>5, <1>e DEF OpenFull, OnCourse
  <2> DEFINE size == IF known THEN Len(served) ELSE total
  <2>3. size \in {0, Len(Expected)} /\ written \in {0, written} /\ written - written = 0
    BY <1>a, <2>2 DEF HasPrefix
  <2>4. Reads(written - written, written, size, known)
    BY <2>1, <2>3
  <2>5. Len(Expected) <= PartSize
    BY <1>a, <1>c, <2>2
  <2> HIDE DEF size
  <2> QED
    BY <1>5, <1>e, <2>2, <2>3, <2>4, <2>5, ReadsCourse DEF OpenFull
<1>6. CASE OpenPartial
  <2>1. PICK from \in 0 .. Len(served) - 1, seen \in BOOLEAN, known \in BOOLEAN :
          /\ IF seen /\ from # written
             THEN Fatal /\ Closed /\ UNCHANGED total
             ELSE Reads(from, 0, IF ~ known THEN total
                                 ELSE IF seen THEN Len(served)
                                 ELSE written + Len(served) - from, known)
          /\ faulty' = (faulty \/ from # written \/ Len(served) > PartSize)
    BY <1>6 DEF OpenPartial
  <2>2. HasPrefix /\ served = Expected /\ ~ (Len(served) > PartSize) /\ from = written
    BY <1>6, <1>e, <2>1 DEF OpenPartial, OnCourse
  <2> DEFINE size == IF ~ known THEN total
                     ELSE IF seen THEN Len(served) ELSE written + Len(served) - from
  <2>3. size \in {0, Len(Expected)} /\ 0 \in {0, written} /\ written - 0 = written
    BY <1>a, <1>c, <2>2 DEF HasPrefix
  <2>4. Reads(written - 0, 0, size, known)
    BY <2>1, <2>2, <2>3
  <2>5. Len(Expected) <= PartSize
    BY <1>a, <1>c, <2>2
  <2> HIDE DEF size
  <2> QED
    BY <1>6, <1>e, <2>2, <2>3, <2>4, <2>5, ReadsCourse DEF OpenPartial
<1>7. CASE Read
  <2>1. PICK k \in 1 .. MaxRead :
          /\ k <= Len(rest)
          /\ IF Fresh(k) # <<>> /\ TooLong(Len(Fresh(k)))
             THEN Fatal /\ Closed /\ UNCHANGED stream
             ELSE /\ Store(k)
                  /\ rest' = SubSeq(rest, k + 1, Len(rest)) /\ skip' = skip - SkipOf(k)
                  /\ UNCHANGED <<pc, attempt, resumes, ota, sized>>
    BY <1>7 DEF Read
  <2>2. HasPrefix /\ RestFollows
    BY <1>7, <1>e DEF Read, OnCourse
  <2>3. PICK new \in Nat, gone \in Nat :
          /\ new = Len(Fresh(k)) /\ new = k - gone /\ gone <= skip
          /\ new > 0 => gone = skip
    BY <2>1, FreshType, LenProperties
  <2>4. ~ (Fresh(k) # <<>> /\ TooLong(Len(Fresh(k))))
    <3>1. CASE new = 0
      BY <2>1, <2>3, <3>1, FreshType, EmptySeq
    <3>2. CASE new > 0
      <4>1. written + new <= Len(Expected)
        <5>1. skip \in Nat /\ Len(rest) \in Nat
          BY LenProperties DEF TypeOK
        <5> QED
          BY <1>a, <1>c, <2>1, <2>2, <2>3, <3>2, <5>1 DEF RestFollows
      <4> QED
        BY <1>a, <1>c, <2>2, <2>3, <4>1 DEF TooLong, HasPrefix, RestFollows
    <3> QED
      BY <2>3, <3>1, <3>2
  <2> QED
    BY <1>7, <1>e, <2>1, <2>4, StoreCourse DEF Read
<1>8. CASE WriteFails
  BY <1>8 DEF WriteFails, Fault
<1>9. CASE ReadDrops
  BY <1>9, <1>e, ResumeCourse DEF ReadDrops, Drop, OnCourse
<1>10. CASE ReadEnds
  <2>1. HasPrefix /\ RestFollows
    BY <1>10, <1>e DEF ReadEnds, OnCourse
  <2>2. /\ skip \in Nat /\ Len(rest) \in Nat /\ (rest = <<>> => Len(rest) = 0)
        /\ sha \in Seq(Block)
    BY LenProperties, EmptySeq DEF TypeOK
  <2>3. rest = <<>> \/ ~ (total = 0 \/ skip > 0)
    BY <1>10 DEF ReadEnds
  <2>4. skip = 0
    BY <1>a, <1>c, <2>1, <2>2, <2>3 DEF HasPrefix, RestFollows
  <2>5. CASE total \in {0, written}
    <3>1. written = Len(Expected)
      BY <1>a, <1>c, <2>1, <2>2, <2>3, <2>4, <2>5 DEF HasPrefix, RestFollows
    <3>2. sha = Expected
      BY <1>c, <2>1, <2>2, <3>1, SeqEqual DEF HasPrefix
    <3>3. pc' = "verify" /\ UNCHANGED <<attempt, resumes, drops, refusals, stream, served>>
      BY <1>10, <2>4, <2>5 DEF ReadEnds
    <3> QED
      BY <1>e, <3>2, <3>3 DEF OnCourse, Budget, stream
  <2>6. CASE ~ (total \in {0, written})
    BY <1>10, <1>e, <2>1, <2>4, <2>6, ResumeCourse DEF ReadEnds
  <2> QED
    BY <2>5, <2>6
<1>11. CASE Verify
  BY <1>11, <1>e DEF Verify, OnCourse, Budget
<1>12. CASE End
  BY <1>12, <1>e DEF End, OnCourse, Budget
<1>13. CASE EndFails
  BY <1>13 DEF EndFails, Fault
<1>14. CASE Publish
  BY <1>14 DEF Publish
<1>15. CASE UNCHANGED vars
  BY <1>15, <1>e DEF vars, stream, OnCourse, Budget, HasPrefix, RestFollows
<1> QED
  BY <1>1, <1>2, <1>3, <1>4, <1>5, <1>6, <1>7, <1>8, <1>9, <1>10, <1>11, <1>12, <1>13,
     <1>14, <1>15 DEF Next, Update, Finished

(* An update fails only when something else than the network went wrong, or *)
(* the network did more often than the code allows for.                     *)
THEOREM FailsForCause == Spec => []FailsOnlyForCause
<1>1. Init => CauseInv
  <2> SUFFICES ASSUME Init PROVE CauseInv
    OBVIOUS
  <2>1. /\ pc = "begin" /\ attempt = 1 /\ resumes = 0 /\ drops = 0 /\ refusals = 0
        /\ faulty = (served # Expected)
    BY DEF Init
  <2>2. Budget
    BY <2>1 DEF Budget
  <2> QED
    BY <2>1, <2>2 DEF CauseInv, OnCourse
<1>2. TypeOK /\ CauseInv /\ [Next]_vars => CauseInv'
  BY NextCourse
<1>3. CauseInv => FailsOnlyForCause
  BY DEF CauseInv, OnCourse, FailsOnlyForCause
<1> QED
  BY <1>1, <1>2, <1>3, TypeCorrect, PTL DEF Spec

=============================================================================
