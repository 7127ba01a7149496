-------------------------- MODULE RomStagingProofs --------------------------
(***************************************************************************)
(* Proofs about the way of the ROM: the state is well formed, what is at   *)
(* rom.sfc is a whole file, "found" means the supported ROM, and a ROM     *)
(* picked in the game is the one played, for every number of tasks, every  *)
(* folder and every number of pickers and process deaths.                  *)
(***************************************************************************)
EXTENDS MCRomStaging, TLAPS

-----------------------------------------------------------------------------
(* The threads. *)

(* The main thread is no slot of a task, and SDL's thread is neither.      *)
LEMMA ThreadsAreDistinct ==
  /\ Main \in Threads /\ Main \notin Slots /\ Slots \subseteq Threads
  /\ Game \notin Threads
  /\ \A t \in Threads : t # Main => t \in Slots
PROOF BY StagingAssumption DEF Main, Threads, Game

(* The free slot that a task takes is a slot, and free. *)
LEMMA FreeSlotIsFree ==
  ASSUME FreeSlots # {}
  PROVE  FreeSlot \in Slots /\ thread[FreeSlot] = Nobody
PROOF
<1>1. FreeSlot \in FreeSlots
  BY DEF FreeSlot
<1> QED
  BY <1>1 DEF FreeSlots

(* The type of what a thread is doing. *)
Jobs == [task : Tasks, at : Places, rest : Seq(Sources)]

(* A process begins with the restore alone. *)
LEMMA RestoringIsTyped ==
  /\ Restoring \in [Threads -> Jobs]
  /\ \A t \in Threads : Restoring[t] = Nobody \/ Restoring[t] = Work("restore", "hash", <<>>)
  /\ Restoring[Main] = Nobody
  /\ \A t, u \in Threads : t # u => Restoring[t] = Nobody \/ Restoring[u] = Nobody
PROOF
<1> DEFINE first == CHOOSE s \in Slots : TRUE
<1>1. first \in Slots
  BY StagingAssumption
<1>2. Nobody \in Jobs /\ Work("restore", "hash", <<>>) \in Jobs
  BY DEF Nobody, Work, Jobs, Tasks, Places
<1>3. Restoring = [ t \in Threads |-> IF t = first THEN Work("restore", "hash", <<>>) ELSE Nobody ]
  BY DEF Restoring
<1> HIDE DEF first
<1> QED
  BY <1>1, <1>2, <1>3, ThreadsAreDistinct

-----------------------------------------------------------------------------
(* Type correctness. *)

(* What a thread at some place needs: a file it writes, a source in hand.  *)
JobFits(job, file) ==
  /\ job.at = "write" <=> file # "nothing"
  /\ job.at \in {"open", "write", "verify", "delete", "rename", "cleanup"} => job.rest # <<>>

(* The facts that every step but those of the files leaves alone together. *)
JobsOK ==
  /\ holds \in [Threads \cup {Game} -> {"nothing", "tmp", "rom", "gone"}]
  /\ thread \in [Threads -> Jobs]
  /\ \A t \in Threads : JobFits(thread[t], holds[t])

SystemOK ==
  /\ rom \in Contents /\ tmp \in Contents
  /\ saved \in Folders \cup {NoFolder}
  /\ phase \in Phases /\ screen \in {"launcher", "game"} /\ picker \in Pickers
  /\ native \in Natives /\ quit \in BOOLEAN /\ waitingForRom \in BOOLEAN
  /\ events \in 0 .. MaxEvents

ActivityOK ==
  /\ native = "off" => ~quit /\ ~waitingForRom /\ holds[Game] = "nothing"
  /\ screen = "launcher" => native = "off" /\ picker # "game"

WellFormed == JobsOK /\ SystemOK /\ ActivityOK

(* The three parts are the type invariant. *)
LEMMA TypeParts == RomTypeOK <=> WellFormed
PROOF BY DEF RomTypeOK, WellFormed, JobsOK, SystemOK, ActivityOK, JobFits, Jobs

(* One thread goes on to another job and the files stay with who had them. *)
LEMMA OneJob ==
  ASSUME JobsOK, NEW t \in Threads, NEW job \in Jobs,
         thread' = [thread EXCEPT ![t] = job],
         holds' \in [Threads \cup {Game} -> {"nothing", "tmp", "rom", "gone"}],
         \A u \in Threads \ {t} : holds'[u] = "nothing" <=> holds[u] = "nothing",
         JobFits(job, holds'[t])
  PROVE  JobsOK'
PROOF BY DEF JobsOK, JobFits

(* Deleting a path takes no file from a thread. *)
LEMMA UnlinkKeepsFiles ==
  ASSUME NEW path \in {"tmp", "rom"},
         holds \in [Threads \cup {Game} -> {"nothing", "tmp", "rom", "gone"}]
  PROVE  /\ AfterUnlink(path) \in [Threads \cup {Game} -> {"nothing", "tmp", "rom", "gone"}]
         /\ \A x \in Threads \cup {Game} :
              /\ AfterUnlink(path)[x] = "nothing" <=> holds[x] = "nothing"
              /\ AfterUnlink(path)[x] # path
              /\ AfterUnlink(path)[x] \in {holds[x], "gone"}
PROOF BY DEF AfterUnlink

(* The first source in hand. *)
LEMMA HeadAndTail ==
  ASSUME NEW rest \in Seq(Sources), rest # <<>>
  PROVE  Head(rest) \in Sources /\ Tail(rest) \in Seq(Sources)
PROOF OBVIOUS
(* A step of a thread's file work keeps the types. *)
LEMMA FileStepKeepsTypes ==
  ASSUME WellFormed, NEW t \in Threads, FileStep(t)
  PROVE  WellFormed'
PROOF
<1>1. JobsOK /\ SystemOK /\ ActivityOK
  BY DEF WellFormed
<1> DEFINE Files == [Threads \cup {Game} -> {"nothing", "tmp", "rom", "gone"}]
<1>2. /\ holds \in Files /\ thread[t] \in Jobs /\ JobFits(thread[t], holds[t])
      /\ thread \in [Threads -> Jobs] /\ t # Game
  BY <1>1, ThreadsAreDistinct DEF JobsOK
<1>3. \A at \in Places : /\ [thread[t] EXCEPT !.at = at] \in Jobs
                         /\ [thread[t] EXCEPT !.at = at].at = at
                         /\ [thread[t] EXCEPT !.at = at].rest = thread[t].rest
  BY <1>2 DEF Jobs
<1>4. \A at \in Places : Goes(t, at) => thread' = [thread EXCEPT ![t] = [thread[t] EXCEPT !.at = at]]
  BY <1>2 DEF Goes
<1>5. Nobody \in Jobs /\ JobFits(Nobody, "nothing")
  BY DEF Nobody, Work, Jobs, Tasks, Places, JobFits
<1>6. ASSUME thread[t].at # "write"
      PROVE  holds[t] = "nothing"
  BY <1>2, <1>6 DEF JobFits
<1>7. UNCHANGED <<native, quit, waitingForRom, screen, picker, events>>
  BY DEF FileStep, OpenTemporary, Copy, CopyFails, Verify, DeleteOld, Rename, RenameFails,
         Cleanup, Hash, ClearRom, ClearTmp, game, launcher
<1>8. ASSUME rom' \in Contents, tmp' \in Contents, saved' \in Folders \cup {NoFolder},
             phase' \in Phases, holds'[Game] = "nothing" <=> holds[Game] = "nothing"
      PROVE  SystemOK' /\ ActivityOK'
  BY <1>1, <1>7, <1>8 DEF SystemOK, ActivityOK
<1>9. ASSUME NEW at \in Places, Goes(t, at), UNCHANGED holds, thread[t].at # "write", at # "write",
             thread[t].rest # <<>> \/ at \in {"staged", "failed", "resume", "clearRom", "clearTmp"}
      PROVE  JobsOK'
  <2>1. JobFits([thread[t] EXCEPT !.at = at], holds'[t])
    BY <1>3, <1>6, <1>9 DEF JobFits
  <2> QED
    BY <1>1, <1>2, <1>3, <1>4, <1>9, <2>1, OneJob
<1>10. CASE OpenTemporary(t)
  <2>1. Goes(t, "write") /\ "write" \in Places /\ thread[t].rest # <<>>
    BY <1>2, <1>10 DEF OpenTemporary, Places, JobFits
  <2>2. holds' = [holds EXCEPT ![t] = "tmp"]
    BY <1>10 DEF OpenTemporary
  <2>3. JobFits([thread[t] EXCEPT !.at = "write"], holds'[t])
    BY <1>2, <1>3, <2>1, <2>2 DEF JobFits
  <2>4. JobsOK'
    BY <1>1, <1>2, <1>3, <1>4, <2>1, <2>2, <2>3, OneJob
  <2>5. rom' = rom /\ tmp' \in Contents /\ UNCHANGED <<saved, phase>> /\ holds'[Game] = holds[Game]
    BY <1>2, <1>10, <2>2 DEF OpenTemporary, launcher, Contents
  <2> QED
    BY <1>1, <1>8, <2>4, <2>5 DEF SystemOK, WellFormed
<1>11. CASE Copy(t)
  <2>1. Goes(t, "verify") /\ "verify" \in Places /\ thread[t].rest # <<>> /\ holds[t] # "nothing"
    BY <1>2, <1>11 DEF Copy, Places, JobFits
  <2>2. holds' = [holds EXCEPT ![t] = "nothing"]
    BY <1>11 DEF Copy
  <2>3. JobFits([thread[t] EXCEPT !.at = "verify"], holds'[t])
    BY <1>2, <1>3, <2>1, <2>2 DEF JobFits
  <2>4. JobsOK'
    BY <1>1, <1>2, <1>3, <1>4, <2>1, <2>2, <2>3, OneJob
  <2>5. Head(thread[t].rest) \in Sources
    BY <1>2, <2>1, HeadAndTail DEF Jobs
  <2>6. \A data \in Contents : Copied(t, data) \subseteq Contents
    BY <2>5 DEF Copied, Contents, Sources
  <2>7. rom' \in Contents /\ tmp' \in Contents
    BY <1>1, <1>2, <1>11, <2>1, <2>6 DEF Copy, SystemOK
  <2>8. UNCHANGED <<saved, phase>> /\ holds'[Game] = holds[Game]
    BY <1>2, <1>11, <2>2 DEF Copy, launcher
  <2> QED
    BY <1>1, <1>8, <2>4, <2>7, <2>8 DEF SystemOK, WellFormed
<1>12. CASE CopyFails(t)
  <2>1. Goes(t, "cleanup") /\ "cleanup" \in Places /\ thread[t].rest # <<>>
    BY <1>2, <1>12 DEF CopyFails, AfterFailure, Places, JobFits
  <2>2. holds' = [holds EXCEPT ![t] = "nothing"]
    BY <1>12 DEF CopyFails
  <2>3. JobFits([thread[t] EXCEPT !.at = "cleanup"], holds'[t])
    BY <1>2, <1>3, <2>1, <2>2 DEF JobFits
  <2>4. JobsOK'
    BY <1>1, <1>2, <1>3, <1>4, <2>1, <2>2, <2>3, OneJob
  <2>5. UNCHANGED <<rom, tmp, saved, phase>> /\ holds'[Game] = holds[Game]
    BY <1>2, <1>12, <2>2 DEF CopyFails, launcher
  <2> QED
    BY <1>1, <1>8, <2>4, <2>5 DEF SystemOK, WellFormed
<1>13. CASE Verify(t) \/ Hash(t)
  <2>1. UNCHANGED <<rom, tmp, holds, saved, phase>>
    BY <1>13 DEF Verify, Hash, files, launcher
  <2>2. JobsOK'
    <3>1. CASE Verify(t)
      <4>1. thread[t].at # "write" /\ thread[t].rest # <<>>
        BY <1>2, <3>1 DEF Verify, JobFits
      <4>2. Goes(t, "delete") \/ Goes(t, "cleanup")
        BY <3>1 DEF Verify
      <4> QED
        BY <1>9, <2>1, <4>1, <4>2 DEF Places
    <3>2. CASE Hash(t)
      <4>1. thread[t].at # "write"
        BY <3>2 DEF Hash
      <4>2. Goes(t, "staged") \/ Goes(t, "clearRom")
        BY <3>2 DEF Hash
      <4> QED
        BY <1>9, <2>1, <4>1, <4>2 DEF Places
    <3> QED
      BY <1>13, <3>1, <3>2
  <2> QED
    BY <1>1, <1>8, <2>1, <2>2 DEF SystemOK, WellFormed
<1>14. CASE DeleteOld(t) \/ ClearRom(t)
  <2>1. holds' = AfterUnlink("rom") /\ rom' = "none" /\ UNCHANGED <<tmp, saved, phase>>
    BY <1>14 DEF DeleteOld, ClearRom, launcher
  <2>2. \E at \in {"rename", "clearTmp"} :
          Goes(t, at) /\ (at = "rename" => thread[t].at = "delete") /\ thread[t].at # "write"
    BY <1>14 DEF DeleteOld, ClearRom
  <2>3. PICK at \in {"rename", "clearTmp"} :
          Goes(t, at) /\ (at = "rename" => thread[t].at = "delete") /\ thread[t].at # "write"
    BY <2>2
  <2>4. at \in Places /\ at # "write"
    BY DEF Places
  <2>5. /\ holds' \in Files
        /\ \A x \in Threads \cup {Game} : holds'[x] = "nothing" <=> holds[x] = "nothing"
    BY <1>2, <2>1, UnlinkKeepsFiles
  <2>6. JobFits([thread[t] EXCEPT !.at = at], holds'[t])
    BY <1>2, <1>3, <1>6, <2>3, <2>4, <2>5 DEF JobFits
  <2>7. JobsOK'
    BY <1>1, <1>2, <1>3, <1>4, <2>3, <2>4, <2>5, <2>6, OneJob
  <2> QED
    BY <1>1, <1>8, <2>1, <2>5, <2>7 DEF SystemOK, WellFormed, Contents
<1>15. CASE Rename(t)
  <2>1. thread[t].at = "rename" /\ UNCHANGED <<saved, phase>> /\ rom' = tmp /\ tmp' = "none"
    BY <1>15 DEF Rename, launcher
  <2>2. holds' = [ x \in DOMAIN holds |-> IF holds[x] = "tmp" THEN "rom" ELSE AfterUnlink("rom")[x] ]
    BY <1>15 DEF Rename
  <2>3. /\ holds' \in Files
        /\ \A x \in Threads \cup {Game} : holds'[x] = "nothing" <=> holds[x] = "nothing"
    BY <1>2, <2>2, UnlinkKeepsFiles
  <2> DEFINE job == Work(thread[t].task, "staged", <<>>)
  <2>4. thread' = [thread EXCEPT ![t] = job] /\ job \in Jobs
    BY <1>2, <1>15 DEF Rename, Work, Jobs, Places
  <2>5. JobFits(job, holds'[t])
    BY <1>6, <2>1, <2>3 DEF JobFits, Work
  <2>6. JobsOK'
    BY <1>1, <2>3, <2>4, <2>5, OneJob
  <2> QED
    BY <1>1, <1>8, <2>1, <2>3, <2>6 DEF SystemOK, WellFormed, Contents
<1>16. CASE RenameFails(t)
  <2>1. thread[t].at = "rename" /\ UNCHANGED <<rom, tmp, holds, saved, phase>>
    BY <1>16 DEF RenameFails, files, launcher
  <2>2. thread[t].rest # <<>> /\ holds'[t] = "nothing"
    BY <1>2, <1>6, <2>1 DEF JobFits
  <2>3. JobsOK'
    <3>1. CASE t = Main
      BY <1>1, <1>2, <1>5, <1>16, <2>1, <2>2, <3>1, OneJob DEF RenameFails
    <3>2. CASE t # Main
      BY <1>9, <1>16, <2>1, <2>2, <3>2 DEF RenameFails, Places
    <3> QED
      BY <3>1, <3>2
  <2> QED
    BY <1>1, <1>8, <2>1, <2>3 DEF SystemOK, WellFormed
<1>17. CASE Cleanup(t)
  <2>1. /\ thread[t].at = "cleanup" /\ holds' = AfterUnlink("tmp") /\ tmp' = "none"
        /\ UNCHANGED <<rom, saved, phase>>
    BY <1>17 DEF Cleanup, launcher
  <2>2. /\ holds' \in Files
        /\ \A x \in Threads \cup {Game} : holds'[x] = "nothing" <=> holds[x] = "nothing"
    BY <1>2, <2>1, UnlinkKeepsFiles
  <2>3. holds'[t] = "nothing" /\ Tail(thread[t].rest) \in Seq(Sources)
    BY <1>2, <1>6, <2>1, <2>2, HeadAndTail DEF JobFits, Jobs
  <2> DEFINE more == Tail(thread[t].rest)
             job  == IF t = Main THEN Nobody
                     ELSE Work(thread[t].task, IF more = <<>> THEN "failed" ELSE "open", more)
  <2>4. thread' = [thread EXCEPT ![t] = job]
    BY <1>2, <1>17 DEF Cleanup
  <2>5. job \in Jobs /\ JobFits(job, "nothing")
    BY <1>2, <1>5, <2>3 DEF Work, Jobs, Places, JobFits
  <2> HIDE DEF job
  <2>6. JobsOK'
    BY <1>1, <2>2, <2>3, <2>4, <2>5, OneJob
  <2> QED
    BY <1>1, <1>8, <2>1, <2>2, <2>6 DEF SystemOK, WellFormed, Contents
<1>18. CASE ClearTmp(t)
  <2>1. /\ thread[t].at = "clearTmp" /\ holds' = AfterUnlink("tmp") /\ tmp' = "none"
        /\ rom' = rom
    BY <1>18 DEF ClearTmp
  <2>2. /\ holds' \in Files
        /\ \A x \in Threads \cup {Game} : holds'[x] = "nothing" <=> holds[x] = "nothing"
    BY <1>2, <2>1, UnlinkKeepsFiles
  <2>3. holds'[t] = "nothing"
    BY <1>6, <2>1, <2>2
  <2>4. saved' \in Folders \cup {NoFolder} /\ phase' \in Phases
    BY <1>1, <1>18 DEF ClearTmp, SystemOK, launcher, Phases
  <2>5. JobsOK'
    <3>1. CASE t = Main
      BY <1>1, <1>2, <1>5, <1>18, <2>2, <2>3, <3>1, OneJob DEF ClearTmp
    <3>2. CASE t # Main
      <4>1. Goes(t, "resume") /\ "resume" \in Places
        BY <1>18, <3>2 DEF ClearTmp, Places
      <4>2. JobFits([thread[t] EXCEPT !.at = "resume"], holds'[t])
        BY <1>3, <2>3, <4>1 DEF JobFits
      <4> QED
        BY <1>1, <1>2, <1>3, <1>4, <2>2, <4>1, <4>2, OneJob
    <3> QED
      BY <3>1, <3>2
  <2> QED
    BY <1>1, <1>8, <2>1, <2>2, <2>4, <2>5 DEF SystemOK, WellFormed, Contents
<1> QED
  BY <1>10, <1>11, <1>12, <1>13, <1>14, <1>15, <1>16, <1>17, <1>18 DEF FileStep
(* The files and the threads are the same, or nobody's. *)
LEMMA JobsKept ==
  ASSUME JobsOK, UNCHANGED <<thread, holds>>
  PROVE  JobsOK'
PROOF BY DEF JobsOK, JobFits

(* A thread that has no file open takes up a job, or drops one, that needs *)
(* none.                                                                   *)
LEMMA JobTaken ==
  ASSUME JobsOK, NEW t \in Threads, NEW job \in Jobs, JobFits(job, "nothing"),
         thread[t].at # "write", thread' = [thread EXCEPT ![t] = job],
         holds' = holds \/ holds' = [holds EXCEPT ![Game] = "nothing"]
  PROVE  JobsOK'
PROOF
<1>1. /\ holds' \in [Threads \cup {Game} -> {"nothing", "tmp", "rom", "gone"}]
      /\ \A u \in Threads : holds'[u] = holds[u]
      /\ holds[t] = "nothing"
  BY ThreadsAreDistinct DEF JobsOK, JobFits
<1> QED
  BY <1>1, OneJob

(* The jobs that the main thread gives. *)
LEMMA JobsGiven ==
  /\ Nobody \in Jobs /\ JobFits(Nobody, "nothing")
  /\ \A task \in Tasks :
       /\ \A at \in {"clearRom", "join"} :
            Work(task, at, <<>>) \in Jobs /\ JobFits(Work(task, at, <<>>), "nothing")
       /\ \A source \in Sources :
            /\ Work(task, "open", <<source>>) \in Jobs
            /\ JobFits(Work(task, "open", <<source>>), "nothing")
  /\ \A folder \in Folders :
       FolderWork(folder) \in Jobs /\ JobFits(FolderWork(folder), "nothing")
PROOF
<1>1. \A folder \in Folders : folder \in Seq(Sources)
  BY StagingAssumption
<1> QED
  BY <1>1 DEF Nobody, Work, FolderWork, Jobs, Tasks, Places, JobFits

(* What the launcher's main thread does keeps the types. *)
LEMMA LauncherKeepsTypes ==
  ASSUME WellFormed,
         \/ \E s \in Slots : Report(s) \/ Resume(s)
         \/ \E kind \in {"file", "folder"} : OpenPicker(kind)
         \/ \E source \in {"good", "bad"} : OnFilePicked(source)
         \/ \E folder \in Folders : OnFolderPicked(folder)
         \/ FolderRefused \/ PickCancelled \/ ClearSavedSelection \/ OnStartGame
  PROVE  WellFormed'
PROOF
<1>1. JobsOK /\ SystemOK /\ ActivityOK
  BY DEF WellFormed
<1>2. ASSUME NEW s \in Slots, Report(s) \/ Resume(s)
      PROVE  WellFormed'
  <2>1. thread[s].at \in {"staged", "failed", "resume"} /\ s \in Threads
    BY <1>2, ThreadsAreDistinct DEF Report, Resume
  <2>2. \E job \in Jobs : JobFits(job, "nothing") /\ thread' = [thread EXCEPT ![s] = job]
    BY <1>1, <1>2, JobsGiven DEF Report, Resume, SystemOK
  <2>3. /\ UNCHANGED <<rom, tmp, holds, saved, native, quit, waitingForRom, events, screen, picker>>
        /\ phase' \in Phases
    BY <1>1, <1>2 DEF Report, Resume, Reported, Phases, SystemOK, files, game
  <2>4. JobsOK'
    BY <1>1, <2>1, <2>2, <2>3, JobTaken
  <2> QED
    BY <1>1, <2>3, <2>4 DEF WellFormed, SystemOK, ActivityOK
<1>3. CASE \E kind \in {"file", "folder"} : OpenPicker(kind)
  <2>1. /\ UNCHANGED <<rom, tmp, holds, saved, phase, native, quit, waitingForRom, thread, screen>>
        /\ events' = events + 1 /\ events < MaxEvents /\ picker' \in {"file", "folder"}
    BY <1>3 DEF OpenPicker, files, launcher, game
  <2> QED
    BY <1>1, <2>1, JobsKept, StagingAssumption DEF WellFormed, SystemOK, ActivityOK, Pickers
<1>4. ASSUME NEW kind \in {"file", "folder"}, NEW job \in Jobs, JobFits(job, "nothing"),
             Chosen(kind, job), saved' \in Folders \cup {NoFolder},
             UNCHANGED <<files, game, events, screen>>
      PROVE  WellFormed'
  <2>1. thread' = [thread EXCEPT ![FreeSlot] = job] /\ FreeSlots # {} /\ picker' = "none"
        /\ phase' = "validating"
    BY <1>4 DEF Chosen
  <2>2. FreeSlot \in Threads /\ thread[FreeSlot].at # "write"
    BY <2>1, FreeSlotIsFree, ThreadsAreDistinct DEF Nobody, Work
  <2>3. JobsOK'
    BY <1>1, <1>4, <2>1, <2>2, JobTaken DEF files
  <2> QED
    BY <1>1, <1>4, <2>1, <2>3 DEF WellFormed, SystemOK, ActivityOK, files, game, Pickers, Phases
<1>5. CASE \E source \in {"good", "bad"} : OnFilePicked(source)
  <2>1. PICK source \in {"good", "bad"} : OnFilePicked(source)
    BY <1>5
  <2>2. /\ Chosen("file", Work("file", "open", <<source>>))
        /\ UNCHANGED <<files, saved, game, events, screen>>
    BY <2>1 DEF OnFilePicked
  <2>3. "file" \in Tasks /\ source \in Sources
    BY DEF Tasks, Sources
  <2> QED
    BY <1>1, <1>4, <2>2, <2>3, JobsGiven DEF SystemOK
<1>6. CASE \E folder \in Folders : OnFolderPicked(folder)
  <2>1. PICK folder \in Folders : OnFolderPicked(folder)
    BY <1>6
  <2> QED
    BY <1>4, <2>1, JobsGiven DEF OnFolderPicked
<1>7. CASE FolderRefused \/ PickCancelled
  <2>1. /\ UNCHANGED <<rom, tmp, holds, saved, native, quit, waitingForRom, events, thread, screen>>
        /\ picker' = "none" /\ phase' \in Phases
    BY <1>1, <1>7 DEF FolderRefused, PickCancelled, files, launcher, game, SystemOK, Phases
  <2> QED
    BY <1>1, <2>1, JobsKept DEF WellFormed, SystemOK, ActivityOK, Pickers
<1>8. CASE ClearSavedSelection
  <2>1. /\ thread' = [thread EXCEPT ![Main] = Work("clear", "clearRom", <<>>)]
        /\ UNCHANGED <<rom, tmp, holds, saved, phase, native, quit, waitingForRom, events,
                       screen, picker>>
        /\ thread[Main].at # "write"
    BY <1>8 DEF ClearSavedSelection, AtLauncher, MainFree, Nobody, Work, files, launcher, game
  <2>2. JobsOK'
    BY <1>1, <2>1, JobTaken, JobsGiven, ThreadsAreDistinct DEF Tasks
  <2> QED
    BY <1>1, <2>1, <2>2 DEF WellFormed, SystemOK, ActivityOK
<1>9. CASE OnStartGame
  <2>1. /\ screen' = "game" /\ picker' \in {"none", "game"}
        /\ UNCHANGED <<rom, tmp, holds, saved, phase, native, quit, waitingForRom, events, thread>>
    BY <1>9 DEF OnStartGame, OnCreate, files, launcher, game
  <2> QED
    BY <1>1, <2>1, JobsKept DEF WellFormed, SystemOK, ActivityOK, Pickers
<1> QED
  BY <1>2, <1>3, <1>5, <1>6, <1>7, <1>8, <1>9

(* What the game's activity does keeps the types. *)
LEMMA ActivityKeepsTypes ==
  ASSUME WellFormed,
         \/ RequestRomPick \/ \E source \in Sources : OnActivityResult(source)
         \/ PickStaged \/ Back \/ Joined \/ Finished \/ StartThread
  PROVE  WellFormed'
PROOF
<1>1. JobsOK /\ SystemOK /\ ActivityOK
  BY DEF WellFormed
<1>2. thread \in [Threads -> Jobs] /\ Main \in Threads
  BY <1>1, ThreadsAreDistinct DEF JobsOK
<1>3. CASE RequestRomPick
  <2>1. /\ UNCHANGED <<rom, tmp, holds, saved, phase, native, quit, waitingForRom, thread, screen>>
        /\ events' = events + 1 /\ events < MaxEvents /\ picker' = "game" /\ screen = "game"
    BY <1>3 DEF RequestRomPick, InGame, files, launcher, game
  <2> QED
    BY <1>1, <2>1, JobsKept, StagingAssumption DEF WellFormed, SystemOK, ActivityOK, Pickers
<1>4. CASE \E source \in Sources : OnActivityResult(source)
  <2>1. PICK source \in Sources : OnActivityResult(source)
    BY <1>4
  <2>2. /\ thread' = [thread EXCEPT ![Main] = Work("pick", "open", <<source>>)]
        /\ UNCHANGED <<rom, tmp, holds, saved, phase, native, quit, waitingForRom, events, screen>>
        /\ thread[Main].at # "write" /\ picker' = "none"
    BY <2>1 DEF OnActivityResult, InGame, MainFree, Nobody, Work, files, launcher, game
  <2>3. JobsOK'
    BY <1>1, <1>2, <2>2, JobTaken, JobsGiven DEF Tasks
  <2> QED
    BY <1>1, <2>2, <2>3 DEF WellFormed, SystemOK, ActivityOK, Pickers
<1>5. CASE PickStaged \/ Back
  <2>1. \E job \in Jobs : JobFits(job, "nothing") /\ thread' = [thread EXCEPT ![Main] = job]
    BY <1>5, JobsGiven DEF PickStaged, Back, Destroy, Tasks
  <2>2. /\ UNCHANGED <<rom, tmp, holds, saved, phase, native, waitingForRom, events, screen, picker>>
        /\ thread[Main].at # "write"
    BY <1>5 DEF PickStaged, Back, InGame, MainFree, Nobody, Work, files, launcher
  <2>3. quit' \in BOOLEAN /\ (native = "off" => ~quit')
    <3>1. quit' = quit \/ quit' = (native \notin {"off", "over"})
      BY <1>5 DEF PickStaged, Back, Destroy
    <3>2. CASE quit' = quit
      BY <1>1, <3>2, Zenon DEF SystemOK, ActivityOK
    <3>3. CASE quit' = (native \notin {"off", "over"})
      <4>1. native = "off" => ~(native \notin {"off", "over"})
        OBVIOUS
      <4>2. (native \notin {"off", "over"}) \in BOOLEAN
        BY Zenon
      <4> QED
        BY <3>3, <4>1, <4>2, Zenon
    <3> QED
      BY <3>1, <3>2, <3>3, Zenon
  <2>4. JobsOK'
    BY <1>1, <1>2, <2>1, <2>2, JobTaken
  <2> QED
    BY <1>1, <2>2, <2>3, <2>4 DEF WellFormed, SystemOK, ActivityOK
<1>6. CASE Joined \/ Finished
  <2>1. /\ native' = "off" /\ quit' = FALSE /\ waitingForRom' = FALSE
        /\ holds' = [holds EXCEPT ![Game] = "nothing"]
        /\ UNCHANGED <<rom, tmp, saved, phase, events>>
    BY <1>6 DEF Joined, Finished, GameGone, launcher
  <2>2. /\ screen' \in {"launcher", "game"} /\ picker' \in Pickers
        /\ screen' = "launcher" => picker' = "none"
    BY <1>6 DEF Joined, Finished, OnCreate, Pickers
  <2>3. thread' = [thread EXCEPT ![Main] = Nobody] /\ thread[Main].at # "write"
    BY <1>2, <1>6 DEF Joined, Finished, MainFree, Nobody, Work
  <2>4. JobsOK'
    BY <1>1, <1>2, <2>1, <2>3, JobTaken, JobsGiven
  <2>5. holds'[Game] = "nothing"
    BY <1>1, <2>1 DEF JobsOK
  <2>6. SystemOK'
    BY <1>1, <2>1, <2>2 DEF SystemOK, Natives
  <2> QED
    BY <2>1, <2>2, <2>4, <2>5, <2>6 DEF WellFormed, ActivityOK
<1>7. CASE StartThread
  <2>1. /\ native' = "starting" /\ screen = "game"
        /\ UNCHANGED <<rom, tmp, holds, saved, phase, quit, waitingForRom, events, thread, screen,
                       picker>>
    BY <1>7 DEF StartThread, InGame, files, launcher
  <2> QED
    BY <1>1, <2>1, JobsKept DEF WellFormed, SystemOK, ActivityOK, Natives
<1> QED
  BY <1>3, <1>4, <1>5, <1>6, <1>7

(* What SDL's thread does keeps the types. *)
LEMMA NativeKeepsTypes ==
  ASSUME WellFormed,
         GetArguments \/ Poll \/ Load \/ Park \/ RunEnds \/ RunFails
  PROVE  WellFormed'
PROOF
<1>1. JobsOK /\ SystemOK /\ ActivityOK
  BY DEF WellFormed
<1>2. /\ native \notin {"off"} /\ native' \in Natives \ {"off"}
      /\ UNCHANGED <<tmp, saved, phase, quit, events, thread, screen, picker>>
  BY DEF GetArguments, Poll, Load, Park, RunEnds, RunFails, Natives, files, launcher
<1>3. waitingForRom' \in BOOLEAN
  <2>1. waitingForRom' = waitingForRom \/ waitingForRom' = TRUE
    BY DEF GetArguments, Poll, Load, Park, RunEnds, RunFails
  <2> QED
    BY <1>1, <2>1 DEF SystemOK
<1>4. /\ rom' \in Contents
      /\ holds' \in [Threads \cup {Game} -> {"nothing", "tmp", "rom", "gone"}]
      /\ \A t \in Threads : holds'[t] = "nothing" <=> holds[t] = "nothing"
  <2>1. CASE Park
    BY <1>1, <2>1, UnlinkKeepsFiles DEF Park, JobsOK, Contents
  <2>2. CASE ~Park
    <3>1. rom' = rom /\ (holds' = holds \/ holds' = [holds EXCEPT ![Game] = "rom"])
      BY <2>2 DEF GetArguments, Poll, Load, RunEnds, RunFails, files
    <3> QED
      BY <1>1, <3>1, ThreadsAreDistinct DEF JobsOK, SystemOK
  <2> QED
    BY <2>1, <2>2
<1>5. JobsOK'
  BY <1>1, <1>2, <1>4 DEF JobsOK, JobFits
<1> QED
  BY <1>1, <1>2, <1>3, <1>4, <1>5 DEF WellFormed, SystemOK, ActivityOK

(* Every step keeps the types. *)
LEMMA StepKeepsTypes ==
  ASSUME WellFormed, RomNext \/ UNCHANGED romVars
  PROVE  WellFormed'
PROOF
<1>1. JobsOK /\ SystemOK /\ ActivityOK
  BY DEF WellFormed
<1>2. CASE Crash
  <2>1. /\ native' = "off" /\ quit' = FALSE /\ waitingForRom' = FALSE /\ thread' = Restoring
        /\ phase' = "idle" /\ screen' = "launcher" /\ UNCHANGED <<rom, tmp, saved>>
        /\ picker' \in {"none", picker} \ {"game"} /\ events' = events + 1 /\ events < MaxEvents
    BY <1>2 DEF Crash
  <2>2. holds' = [x \in Threads \cup {Game} |-> "nothing"]
    BY <1>1, <1>2 DEF Crash, JobsOK
  <2>3. JobsOK'
    BY <2>1, <2>2, RestoringIsTyped DEF JobsOK, JobFits, Nobody, Work
  <2>4. SystemOK'
    <3>1. quit' \in BOOLEAN /\ waitingForRom' \in BOOLEAN
      BY <2>1, Zenon
    <3> QED
      BY <1>1, <2>1, <3>1, StagingAssumption DEF SystemOK, Phases, Pickers, Natives
  <2> QED
    BY <2>1, <2>2, <2>3, <2>4 DEF WellFormed, ActivityOK
<1>3. CASE UNCHANGED romVars
  <2>1. JobsOK'
    BY <1>1, <1>3, JobsKept DEF romVars, files
  <2> QED
    BY <1>1, <1>3, <2>1 DEF WellFormed, SystemOK, ActivityOK, romVars, files, launcher, game
<1> QED
  BY <1>2, <1>3, FileStepKeepsTypes, LauncherKeepsTypes, ActivityKeepsTypes, NativeKeepsTypes
  DEF RomNext, Looper, Native, User

(* The state is well formed, whatever the threads, the user and the system *)
(* do and wherever the process dies: a thread holds a file exactly while   *)
(* it writes one, and nothing of a game outlives its activity.             *)
THEOREM RomTypeInvariant == MCSpec => []RomTypeOK
PROOF
<1>1. MCInit => WellFormed
  <2> SUFFICES ASSUME RomInit
               PROVE  WellFormed
    BY DEF MCInit
  <2>1. JobsOK
    BY RestoringIsTyped DEF RomInit, JobsOK, JobFits, Nobody, Work
  <2>2. SystemOK
    <3>1. quit \in BOOLEAN /\ waitingForRom \in BOOLEAN
      BY Zenon DEF RomInit
    <3> QED
      BY <3>1, StagingAssumption
      DEF RomInit, SystemOK, Contents, Sources, Phases, Pickers, Natives
  <2>3. ActivityOK
    BY DEF RomInit, ActivityOK
  <2> QED
    BY <2>1, <2>2, <2>3 DEF WellFormed
<1>2. WellFormed /\ [MCNext]_mcVars => WellFormed'
  BY StepKeepsTypes DEF MCNext, mcVars
<1> QED
  BY <1>1, <1>2, TypeParts, PTL DEF MCSpec
-----------------------------------------------------------------------------
(* What a step does to the threads and their files. *)

(* What every proof below needs of the type invariant. *)
LEMMA Typed ==
  ASSUME WellFormed
  PROVE  /\ holds \in [Threads \cup {Game} -> {"nothing", "tmp", "rom", "gone"}]
         /\ thread \in [Threads -> Jobs]
         /\ \A t \in Threads : thread[t].at = "write" <=> holds[t] # "nothing"
         /\ \A t \in Threads : thread[t] \in Jobs
PROOF BY DEF WellFormed, JobsOK, JobFits

(* A thread's file work is its own. *)
LEMMA FileStepIsLocal ==
  ASSUME WellFormed, NEW t \in Threads, FileStep(t)
  PROVE  /\ \A u \in Threads \ {t} : thread'[u] = thread[u]
         /\ UNCHANGED <<native, quit, waitingForRom, screen, picker>>
         /\ thread[t] # Nobody
PROOF
<1>1. thread \in [Threads -> Jobs]
  BY Typed
<1>2. thread[t] # Nobody
  <2>1. Nobody.at = "idle"
    BY DEF Nobody, Work
  <2>2. thread[t].at # "idle"
    BY DEF FileStep, OpenTemporary, Copy, CopyFails, Verify, DeleteOld, Rename, RenameFails,
           Cleanup, Hash, ClearRom, ClearTmp
  <2> QED
    BY <2>1, <2>2
<1>3. UNCHANGED <<native, quit, waitingForRom, screen, picker>>
  BY DEF FileStep, OpenTemporary, Copy, CopyFails, Verify, DeleteOld, Rename, RenameFails,
         Cleanup, Hash, ClearRom, ClearTmp, game
<1>4. \E job : thread' = [thread EXCEPT ![t] = job]
  <2>1. ASSUME NEW at, Goes(t, at)
        PROVE  \E job : thread' = [thread EXCEPT ![t] = job]
    BY <2>1 DEF Goes
  <2> QED
    BY <2>1 DEF FileStep, OpenTemporary, Copy, CopyFails, Verify, DeleteOld, Rename, RenameFails,
         Cleanup, Hash, ClearRom, ClearTmp
<1> QED
  BY <1>1, <1>2, <1>3, <1>4

(* Where a step of its file work brings a thread. *)
LEMMA FileStepPlaces ==
  ASSUME WellFormed, NEW t \in Threads, FileStep(t)
  PROVE  /\ OpenTemporary(t) => thread[t].at = "open" /\ thread'[t].at = "write"
         /\ Copy(t) => thread[t].at = "write" /\ thread'[t].at = "verify"
         /\ CopyFails(t) => thread[t].at \in {"open", "write"} /\ thread'[t].at = "cleanup"
         /\ Verify(t) => /\ thread[t].at = "verify"
                         /\ \/ thread'[t].at = "delete" /\ Takes(t)
                            \/ thread'[t].at = "cleanup"
         /\ DeleteOld(t) => thread[t].at = "delete" /\ thread'[t].at = "rename"
         /\ Rename(t) => thread[t].at = "rename" /\ thread'[t].at = "staged"
         /\ RenameFails(t) => /\ thread[t].at = "rename"
                              /\ thread'[t] = Nobody \/ thread'[t].at = "cleanup"
         /\ Cleanup(t) => /\ thread[t].at = "cleanup"
                          /\ thread'[t] = Nobody \/ thread'[t].at \in {"failed", "open"}
         /\ Hash(t) => /\ thread[t].at = "hash"
                       /\ \/ thread'[t].at = "staged" /\ rom = "good"
                          \/ thread'[t].at = "clearRom"
         /\ ClearRom(t) => thread[t].at = "clearRom" /\ thread'[t].at = "clearTmp"
         /\ ClearTmp(t) => /\ thread[t].at = "clearTmp"
                           /\ thread'[t] = Nobody \/ thread'[t].at = "resume"
PROOF
<1>1. thread \in [Threads -> Jobs]
  BY Typed
<1>2. \A at : Goes(t, at) => thread'[t].at = at
  BY <1>1 DEF Goes, Jobs
<1>3. Rename(t) => thread[t].at = "rename" /\ thread'[t].at = "staged"
  BY <1>1 DEF Rename, Work
<1>4. Cleanup(t) => /\ thread[t].at = "cleanup"
                    /\ thread'[t] = Nobody \/ thread'[t].at \in {"failed", "open"}
  BY <1>1 DEF Cleanup, Work
<1>5. RenameFails(t) => /\ thread[t].at = "rename"
                        /\ thread'[t] = Nobody \/ thread'[t].at = "cleanup"
  BY <1>1, <1>2 DEF RenameFails
<1>6. ClearTmp(t) => /\ thread[t].at = "clearTmp"
                     /\ thread'[t] = Nobody \/ thread'[t].at = "resume"
  BY <1>1, <1>2 DEF ClearTmp
<1>7. Hash(t) => /\ thread[t].at = "hash"
                 /\ \/ thread'[t].at = "staged" /\ rom = "good"
                    \/ thread'[t].at = "clearRom"
  BY <1>2 DEF Hash
<1>8. Verify(t) => /\ thread[t].at = "verify"
                   /\ \/ thread'[t].at = "delete" /\ Takes(t)
                      \/ thread'[t].at = "cleanup"
  BY <1>2 DEF Verify
<1> QED
  BY <1>2, <1>3, <1>4, <1>5, <1>6, <1>7, <1>8
  DEF OpenTemporary, Copy, CopyFails, AfterFailure, DeleteOld, ClearRom

(* The tasks that are given out, by place. *)
Fresh == {"idle", "open", "failed", "clearRom", "join"}

(* Steps that are no file work leave rom.sfc.tmp alone, and rom.sfc too    *)
(* unless SDL's thread parks it; a thread they move opens no file.         *)
LEMMA OtherSteps ==
  ASSUME WellFormed, Looper \/ Native \/ User \/ StartThread \/ RunEnds \/ RunFails
  PROVE  /\ tmp' = tmp
         /\ \A t \in Threads : holds'[t] = holds[t] \/ (holds[t] = "rom" /\ holds'[t] = "gone")
         /\ rom' = rom \/ (Park /\ rom' = "none")
         /\ \A t \in Threads : thread'[t] = thread[t] \/ thread'[t].at \in Fresh
PROOF
<1>1. /\ holds \in [Threads \cup {Game} -> {"nothing", "tmp", "rom", "gone"}]
      /\ thread \in [Threads -> Jobs]
  BY Typed
<1>2. ASSUME Park
      PROVE  /\ tmp' = tmp /\ rom' = "none" /\ thread' = thread
             /\ \A t \in Threads : holds'[t] = holds[t] \/ (holds[t] = "rom" /\ holds'[t] = "gone")
  BY <1>1, <1>2 DEF Park, AfterUnlink
<1>3. ASSUME ~Park
      PROVE  /\ tmp' = tmp /\ rom' = rom
             /\ holds' = holds \/ \E file : holds' = [holds EXCEPT ![Game] = file]
  BY <1>3 DEF Looper, Native, User, StartThread, RunEnds, RunFails, Report, Resume, PickStaged,
              Joined, Finished, GameGone, GetArguments, Poll, Load, OpenPicker, OnFilePicked,
              OnFolderPicked, FolderRefused, PickCancelled, ClearSavedSelection, OnStartGame,
              RequestRomPick, OnActivityResult, Back, files
<1>4. ASSUME ~Park
      PROVE  \A t \in Threads : holds'[t] = holds[t]
  BY <1>1, <1>3, <1>4, ThreadsAreDistinct
<1>5. ASSUME thread' # thread
      PROVE  \E t \in Threads : \E job : thread' = [thread EXCEPT ![t] = job] /\ job.at \in Fresh
  <2>1. Nobody.at \in Fresh
    BY DEF Nobody, Work, Fresh
  <2>2. \A folder : FolderWork(folder).at \in Fresh
    BY DEF FolderWork, Work, Fresh
  <2>3. \A task, rest : \A at \in Fresh : Work(task, at, rest).at \in Fresh
    BY DEF Work
  <2>4. Main \in Threads /\ Slots \subseteq Threads
    BY ThreadsAreDistinct
  <2>5. CASE \E s \in Slots : Report(s) \/ Resume(s)
    BY <2>1, <2>2, <2>4, <2>5 DEF Report, Resume
  <2>6. ASSUME NEW kind, NEW job, Chosen(kind, job), job.at \in Fresh
        PROVE  \E t \in Threads : \E j : thread' = [thread EXCEPT ![t] = j] /\ j.at \in Fresh
    BY <2>4, <2>6, FreeSlotIsFree DEF Chosen
  <2>7. CASE \/ \E source \in {"good", "bad"} : OnFilePicked(source)
             \/ \E folder \in Folders : OnFolderPicked(folder)
    <3>1. "open" \in Fresh
      BY DEF Fresh
    <3> QED
      BY <2>2, <2>3, <2>6, <2>7, <3>1 DEF OnFilePicked, OnFolderPicked
  <2>8. CASE PickStaged \/ Joined \/ Back \/ ClearSavedSelection
             \/ \E source \in Sources : OnActivityResult(source)
    <3>1. "open" \in Fresh /\ "join" \in Fresh /\ "clearRom" \in Fresh
      BY DEF Fresh
    <3> QED
      BY <2>1, <2>3, <2>4, <2>8, <3>1
      DEF PickStaged, Joined, Back, ClearSavedSelection, OnActivityResult, Destroy
  <2> QED
    BY <1>5, <2>5, <2>7, <2>8
    DEF Looper, Native, User, StartThread, RunEnds, RunFails, Finished, GetArguments, Poll, Load,
        Park, OpenPicker, FolderRefused, PickCancelled, OnStartGame, RequestRomPick
<1>6. \A t \in Threads : thread'[t] = thread[t] \/ thread'[t].at \in Fresh
  <2>1. CASE thread' = thread
    BY <2>1
  <2>2. CASE thread' # thread
    BY <1>1, <1>5, <2>2
  <2> QED
    BY <2>1, <2>2
<1> QED
  BY <1>2, <1>3, <1>4, <1>6
-----------------------------------------------------------------------------
(* What is at rom.sfc is whole. *)

(* While no two copies have shared the temporary file: nobody writes at    *)
(* rom.sfc, at most one thread stages, and unless it is still writing the  *)
(* temporary file itself, that is no copy cut short.                       *)
Whole ==
  /\ rom # "partial"
  /\ \A t \in Threads : /\ holds[t] # "rom"
                        /\ Staging(t) /\ holds[t] # "tmp" => tmp # "partial"
  /\ \A t, u \in Threads : t # u => ~(Staging(t) /\ Staging(u))

(* The history variable tells when two copies meet. *)
LEMMA MixedRemembers ==
  ASSUME Remember, ~mixed'
  PROVE  ~mixed /\ \A t, u \in Threads : t # u => ~(Staging(t)' /\ Staging(u)')
PROOF
<1>1. ~mixed /\ ~ \E p \in Pairs(Threads) : Staging(p[1])' /\ Staging(p[2])'
  BY Zenon DEF Remember
<1>2. ASSUME NEW t \in Threads, NEW u \in Threads, t # u
      PROVE  <<t, u>> \in Pairs(Threads)
  BY <1>2 DEF Pairs
<1> QED
  BY <1>1, <1>2

(* A step of the files leaves rom.sfc whole as long as no two copies meet. *)
LEMMA FileStepKeepsWhole ==
  ASSUME WellFormed, Whole, NEW t \in Threads, FileStep(t),
         \A u, v \in Threads : u # v => ~(Staging(u)' /\ Staging(v)')
  PROVE  Whole'
PROOF
<1>1. /\ holds \in [Threads \cup {Game} -> {"nothing", "tmp", "rom", "gone"}]
      /\ thread \in [Threads -> Jobs]
      /\ \A u \in Threads : thread[u].at = "write" <=> holds[u] # "nothing"
  BY Typed
<1>2. /\ \A u \in Threads \ {t} : thread'[u] = thread[u]
      /\ \A u \in Threads \ {t} : Staging(u)' <=> Staging(u)
  BY FileStepIsLocal DEF Staging
<1>3. Nobody.at = "idle"
  BY DEF Nobody, Work
<1>4. SUFFICES /\ rom' # "partial"
               /\ \A u \in Threads : /\ holds'[u] # "rom"
                                     /\ Staging(u)' /\ holds'[u] # "tmp" => tmp' # "partial"
  BY DEF Whole
<1>5. CASE OpenTemporary(t)
  <2>1. /\ rom' = rom /\ holds' = [holds EXCEPT ![t] = "tmp"] /\ thread'[t].at = "write"
    BY <1>5, FileStepPlaces DEF OpenTemporary
  <2>2. \A u \in Threads \ {t} : ~Staging(u)'
    BY <2>1 DEF Staging
  <2> QED
    BY <1>1, <2>1, <2>2 DEF Whole
<1>6. CASE Copy(t)
  <2>1. thread[t].at = "write" /\ holds' = [holds EXCEPT ![t] = "nothing"] /\ Staging(t)
    BY <1>6 DEF Copy, Staging
  <2>2. holds[t] \in {"tmp", "gone"}
    BY <1>1, <2>1 DEF Whole
  <2>3. \A data : "partial" \notin Copied(t, data)
    <3>1. Head(thread[t].rest) # "partial"
      <4>1. thread[t].rest \in Seq(Sources) /\ thread[t].rest # <<>>
        BY <1>1, <2>1 DEF Jobs, WellFormed, JobsOK, JobFits
      <4> QED
        BY <4>1, HeadAndTail DEF Sources
    <3> QED
      BY <3>1 DEF Copied
  <2>4. rom' = rom /\ tmp' # "partial"
    BY <1>6, <2>1, <2>2, <2>3 DEF Copy, Whole
  <2> QED
    BY <1>1, <2>1, <2>4 DEF Whole
<1>7. CASE CopyFails(t)
  <2>1. /\ UNCHANGED <<rom, tmp>> /\ holds' = [holds EXCEPT ![t] = "nothing"]
        /\ thread'[t].at = "cleanup"
    BY <1>7, FileStepPlaces DEF CopyFails
  <2>2. ~Staging(t)'
    BY <2>1 DEF Staging
  <2> QED
    BY <1>1, <1>2, <2>1, <2>2 DEF Whole
<1>8. CASE Verify(t) \/ RenameFails(t) \/ Hash(t)
  <2>1. UNCHANGED <<rom, tmp, holds>>
    BY <1>8 DEF Verify, RenameFails, Hash, files
  <2>2. Staging(t)' => Staging(t)
    BY <1>3, <1>8, FileStepPlaces DEF Staging
  <2> QED
    BY <1>2, <2>1, <2>2 DEF Whole
<1>9. CASE DeleteOld(t) \/ ClearRom(t)
  <2>1. rom' = "none" /\ tmp' = tmp /\ holds' = AfterUnlink("rom")
    BY <1>9 DEF DeleteOld, ClearRom
  <2>2. \A u \in Threads : holds'[u] = holds[u]
    BY <1>1, <2>1 DEF AfterUnlink, Whole
  <2>3. Staging(t)' => Staging(t)
    BY <1>9, FileStepPlaces DEF Staging
  <2> QED
    BY <1>2, <2>1, <2>2, <2>3 DEF Whole
<1>10. CASE Rename(t)
  <2>1. /\ rom' = tmp /\ tmp' = "none" /\ thread[t].at = "rename"
        /\ holds' = [ x \in DOMAIN holds |-> IF holds[x] = "tmp" THEN "rom"
                                           ELSE AfterUnlink("rom")[x] ]
    BY <1>10 DEF Rename
  <2>2. Staging(t) /\ holds[t] = "nothing"
    BY <1>1, <2>1 DEF Staging
  <2>3. tmp # "partial"
    BY <2>2 DEF Whole
  <2>4. \A u \in Threads : holds[u] # "tmp"
    <3>1. ASSUME NEW u \in Threads, holds[u] = "tmp"
          PROVE  FALSE
      <4>1. Staging(u) /\ u # t
        BY <1>1, <2>2, <3>1 DEF Staging
      <4> QED
        BY <2>2, <4>1 DEF Whole
    <3> QED
      BY <3>1
  <2>5. \A u \in Threads : holds'[u] = AfterUnlink("rom")[u]
    BY <1>1, <2>1, <2>4
  <2>6. \A u \in Threads : holds'[u] # "rom"
    BY <1>1, <2>5, UnlinkKeepsFiles
  <2> QED
    BY <2>1, <2>3, <2>6
<1>11. CASE Cleanup(t) \/ ClearTmp(t)
  <2>1. rom' = rom /\ tmp' = "none" /\ holds' = AfterUnlink("tmp")
    BY <1>11 DEF Cleanup, ClearTmp
  <2>2. \A u \in Threads : holds'[u] \in {holds[u], "gone"}
    BY <1>1, <2>1, UnlinkKeepsFiles
  <2> QED
    BY <2>1, <2>2 DEF Whole
<1> QED
  BY <1>5, <1>6, <1>7, <1>8, <1>9, <1>10, <1>11 DEF FileStep

(* No step puts a copy cut short at rom.sfc unless two copies have shared  *)
(* the temporary file: whatever fails and wherever the process dies.       *)
THEOREM StagedFilesAreWhole == MCSpec => []StagedIsWhole
PROOF
<1> DEFINE Inv == ~mixed => Whole
<1>1. MCInit => Inv
  <2> SUFFICES ASSUME RomInit
               PROVE  Whole
    BY DEF MCInit
  <2>1. \A t \in Threads : ~Staging(t) /\ holds[t] = "nothing"
    BY RestoringIsTyped DEF RomInit, Staging, Nobody, Work
  <2> QED
    BY <2>1 DEF Whole, RomInit
<1>2. WellFormed /\ Inv /\ [MCNext]_mcVars => Inv'
  <2> SUFFICES ASSUME WellFormed, ~mixed => Whole, [MCNext]_mcVars, ~mixed'
               PROVE  Whole'
    OBVIOUS
  <2>1. CASE UNCHANGED mcVars
    BY <2>1 DEF mcVars, romVars, files, Whole, Staging
  <2>2. CASE MCNext
    <3>1. Whole /\ \A t, u \in Threads : t # u => ~(Staging(t)' /\ Staging(u)')
      BY <2>2, MixedRemembers DEF MCNext
    <3>2. CASE \E t \in Threads : FileStep(t)
      BY <3>1, <3>2, FileStepKeepsWhole
    <3>3. CASE Looper \/ Native \/ User \/ StartThread \/ RunEnds \/ RunFails
      <4>1. /\ tmp' = tmp /\ rom' \in {rom, "none"}
            /\ \A t \in Threads : holds'[t] = holds[t] \/ (holds[t] = "rom" /\ holds'[t] = "gone")
            /\ \A t \in Threads : thread'[t] = thread[t] \/ thread'[t].at \in Fresh
        BY <3>3, OtherSteps
      <4>2. \A t \in Threads : holds'[t] = holds[t]
        BY <3>1, <4>1 DEF Whole
      <4>3. \A t \in Threads : Staging(t)' => Staging(t)
        BY <4>1 DEF Staging, Fresh
      <4> QED
        BY <3>1, <4>1, <4>2, <4>3 DEF Whole
    <3>4. CASE Crash
      <4>1. rom' = rom /\ thread' = Restoring /\ \A t \in Threads : holds'[t] = "nothing"
        BY <3>4, Typed, ThreadsAreDistinct DEF Crash
      <4>2. \A t \in Threads : ~Staging(t)'
        BY <4>1, RestoringIsTyped DEF Staging, Nobody, Work
      <4> QED
        BY <3>1, <4>1, <4>2 DEF Whole
    <3> QED
      BY <2>2, <3>2, <3>3, <3>4 DEF MCNext, RomNext
  <2> QED
    BY <2>1, <2>2
<1>3. Inv => StagedIsWhole
  BY DEF Whole, StagedIsWhole
<1> QED
  BY <1>1, <1>2, <1>3, RomTypeInvariant, TypeParts, PTL DEF MCSpec
-----------------------------------------------------------------------------
(* A ROM picked in the game is the one played. *)

(* A ROM that the activity has put in place is there, and a game that runs *)
(* on without having waited for it was loaded from it, or its activity is  *)
(* on the way to be made anew.                                             *)
PickInPlay ==
  /\ picked => rom # "none"
  /\ native = "running" /\ ~waitingForRom /\ picked =>
       holds[Game] = "rom" \/ thread[Main].at \in {"staged", "join"}

(* The history variable tells who has put the ROM in place.                *)
LEMMA PickedRemembers ==
  ASSUME Remember, picked', ~Rename(Main)
  PROVE  ~Crash /\ picked /\ rom' = rom /\ ~ \E s \in Slots : Rename(s)
PROOF BY Zenon DEF Remember

(* A step that replaces no ROM leaves the game its file or has the         *)
(* activity come up again.                                                 *)
LEMMA PickStaysInPlay ==
  ASSUME WellFormed, PickInPlay, RomNext, Remember
  PROVE  PickInPlay'
PROOF
<1>1. /\ holds \in [Threads \cup {Game} -> {"nothing", "tmp", "rom", "gone"}]
      /\ thread \in [Threads -> Jobs]
  BY Typed
<1>2. CASE Rename(Main)
  <2>1. rom' = tmp /\ tmp # "none"
    BY <1>2 DEF Rename
  <2>2. thread'[Main].at = "staged"
    BY <1>1, <1>2, ThreadsAreDistinct DEF Rename, Work
  <2> QED
    BY <2>1, <2>2 DEF PickInPlay
<1>3. CASE ~Rename(Main)
  <2> SUFFICES ASSUME picked'
               PROVE  /\ rom' # "none"
                      /\ native' = "running" /\ ~waitingForRom' =>
                           holds'[Game] = "rom" \/ thread'[Main].at \in {"staged", "join"}
    BY DEF PickInPlay
  <2>1. ~Crash /\ picked /\ rom' = rom /\ ~ \E s \in Slots : Rename(s)
    BY <1>3, PickedRemembers
  <2>2. rom' # "none" /\ \A t \in Threads : ~Rename(t)
    BY <1>3, <2>1, ThreadsAreDistinct DEF PickInPlay
  <2> SUFFICES ASSUME native' = "running", ~waitingForRom'
               PROVE  holds'[Game] = "rom" \/ thread'[Main].at \in {"staged", "join"}
    BY <2>2
  <2>3. ASSUME NEW t \in Threads, FileStep(t)
        PROVE  holds'[Game] = "rom" \/ thread'[Main].at \in {"staged", "join"}
    <3>1. native' = native /\ waitingForRom' = waitingForRom
      BY <2>3, FileStepIsLocal
    <3>2. holds[Game] = "rom" \/ thread[Main].at \in {"staged", "join"}
      BY <2>1, <3>1 DEF PickInPlay
    <3>3. ~DeleteOld(t) /\ ~ClearRom(t) /\ ~Rename(t)
      BY <2>2, <2>3 DEF DeleteOld, ClearRom
    <3>4. \/ holds' = holds \/ holds' = AfterUnlink("tmp")
          \/ \E file : holds' = [holds EXCEPT ![t] = file]
      BY <2>3, <3>3 DEF FileStep, OpenTemporary, Copy, CopyFails, Verify, RenameFails, Cleanup,
                        Hash, ClearTmp, files
    <3>5. holds[Game] = "rom" => holds'[Game] = "rom"
      BY <1>1, <3>4, ThreadsAreDistinct DEF AfterUnlink
    <3>6. CASE t # Main
      BY <2>3, <3>2, <3>5, <3>6, FileStepIsLocal, ThreadsAreDistinct
    <3>7. CASE t = Main
      <4>1. thread[Main].at \notin {"staged", "join"}
        BY <2>3, <3>7 DEF FileStep, OpenTemporary, Copy, CopyFails, Verify, DeleteOld, Rename,
                          RenameFails, Cleanup, Hash, ClearRom, ClearTmp
      <4> QED
        BY <3>2, <3>5, <4>1
    <3> QED
      BY <3>6, <3>7
  <2>4. CASE Load
    <3>1. holds' = [holds EXCEPT ![Game] = "rom"]
      BY <2>4 DEF Load
    <3> QED
      BY <1>1, <3>1
  <2>5. CASE \/ Joined \/ Finished \/ GetArguments \/ Poll \/ Park \/ RunEnds \/ RunFails
             \/ StartThread
    BY <2>5 DEF Joined, Finished, GameGone, GetArguments, Poll, Park, RunEnds, RunFails, StartThread
  <2>6. CASE PickStaged \/ Back
    <3>1. UNCHANGED <<holds, native, waitingForRom>>
      BY <2>6 DEF PickStaged, Back, files
    <3>2. \E task : thread' = [thread EXCEPT ![Main] = Work(task, "join", <<>>)]
      BY <3>1, <2>6 DEF PickStaged, Back, Restarts, Destroy
    <3>3. thread'[Main].at = "join"
      BY <1>1, <3>1, <3>2, ThreadsAreDistinct DEF Work
    <3> QED
      BY <3>3
  <2>7. CASE \/ \E s \in Slots : Report(s) \/ Resume(s)
             \/ \E kind \in {"file", "folder"} : OpenPicker(kind)
             \/ \E source \in {"good", "bad"} : OnFilePicked(source)
             \/ \E source \in Sources : OnActivityResult(source)
             \/ \E folder \in Folders : OnFolderPicked(folder)
             \/ FolderRefused \/ PickCancelled \/ ClearSavedSelection \/ OnStartGame
             \/ RequestRomPick
    <3>1. UNCHANGED <<holds, native, waitingForRom>>
      BY <2>7 DEF Report, Resume, OpenPicker, OnFilePicked, OnActivityResult, OnFolderPicked,
                  FolderRefused, PickCancelled, ClearSavedSelection, OnStartGame, RequestRomPick,
                  files, game
    <3>2. MainFree
      BY <2>7 DEF Report, Resume, OpenPicker, AtLauncher, OnFilePicked, OnActivityResult,
                  OnFolderPicked, Chosen, FolderRefused, PickCancelled, ClearSavedSelection,
                  OnStartGame, RequestRomPick, InGame
    <3>3. thread[Main].at = "idle"
      BY <3>2 DEF MainFree, Nobody, Work
    <3> QED
      BY <2>1, <3>1, <3>3 DEF PickInPlay
  <2> QED
    BY <2>1, <2>3, <2>4, <2>5, <2>6, <2>7 DEF RomNext, Looper, Native, User
<1> QED
  BY <1>2, <1>3

(* A game that runs on, its activity being free, was loaded from the file  *)
(* that the activity has put in place: a ROM picked in the game replaces   *)
(* the one in play, unless the game waited for its first.                  *)
THEOREM PicksReplaceTheGame == MCSpec => []ReplacementIsPlayed
PROOF
<1>1. MCInit => PickInPlay
  BY DEF MCInit, RomInit, PickInPlay
<1>2. WellFormed /\ PickInPlay /\ [MCNext]_mcVars => PickInPlay'
  <2> SUFFICES ASSUME WellFormed, PickInPlay, [MCNext]_mcVars
               PROVE  PickInPlay'
    OBVIOUS
  <2>1. CASE UNCHANGED mcVars
    BY <2>1 DEF mcVars, romVars, files, game, PickInPlay
  <2>2. CASE MCNext
    BY <2>2, PickStaysInPlay DEF MCNext
  <2> QED
    BY <2>1, <2>2
<1>3. PickInPlay => ReplacementIsPlayed
  <2>1. MainFree => thread[Main].at \notin {"staged", "join"}
    BY DEF MainFree, Nobody, Work
  <2> QED
    BY <2>1 DEF PickInPlay, ReplacementIsPlayed
<1> QED
  BY <1>1, <1>2, <1>3, RomTypeInvariant, TypeParts, PTL DEF MCSpec
-----------------------------------------------------------------------------
(* Found means the supported ROM. *)

(* Who does what: the slots do the launcher's tasks, the main thread the   *)
(* picks of the game and the clears of the launcher, each while its        *)
(* activity is in front, as the launcher is while its pickers are open.    *)
FileWork == {"open", "write", "verify", "delete", "rename", "cleanup", "staged"}

Roles ==
  /\ \A s \in Slots : thread[s].at # "idle" => thread[s].task \in {"restore", "file", "folder"}
  /\ thread[Main].at \in {"clearRom", "clearTmp"} <=> thread[Main].task = "clear"
  /\ thread[Main].at \in FileWork <=> thread[Main].task = "pick"
  /\ thread[Main].at \notin {"hash", "resume"}
  /\ thread[Main].task = "clear" => screen = "launcher"
  /\ thread[Main].at \in FileWork \cup {"join"} => screen = "game"
  /\ picker \in {"file", "folder"} => screen = "launcher"

(* A slot's task keeps its kind or becomes a folder's. *)
LEMMA SlotTasks ==
  ASSUME WellFormed, Roles, RomNext, NEW s \in Slots, thread'[s].at # "idle"
  PROVE  thread'[s].task \in {"restore", "file", "folder"}
PROOF
<1>1. thread \in [Threads -> Jobs] /\ s \in Threads /\ s # Main
  BY Typed, ThreadsAreDistinct
<1>2. Nobody.at = "idle"
  BY DEF Nobody, Work
<1>3. ASSUME NEW t \in Threads, FileStep(t)
      PROVE  thread'[s].task \in {"restore", "file", "folder"}
  <2>1. CASE t # s
    BY <1>1, <1>3, <2>1, FileStepIsLocal DEF Roles
  <2>2. CASE t = s
    <3>1. thread[s].at # "idle"
      BY <1>3, <2>2 DEF FileStep, OpenTemporary, Copy, CopyFails, Verify, DeleteOld, Rename,
                        RenameFails, Cleanup, Hash, ClearRom, ClearTmp
    <3>2. thread'[s] = Nobody \/ thread'[s].task = thread[s].task
      <4>1. \A at : Goes(s, at) => thread'[s].task = thread[s].task
        BY <1>1 DEF Goes, Jobs
      <4>2. CASE Rename(s) \/ Cleanup(s)
        BY <1>1, <4>2 DEF Rename, Cleanup, Work
      <4>3. CASE RenameFails(s) \/ ClearTmp(s)
        BY <1>1, <4>1, <4>3 DEF RenameFails, ClearTmp
      <4> QED
        BY <1>3, <2>2, <4>1, <4>2, <4>3
        DEF FileStep, OpenTemporary, Copy, CopyFails, Verify, DeleteOld, Hash, ClearRom
    <3> QED
      BY <1>2, <3>1, <3>2 DEF Roles
  <2> QED
    BY <2>1, <2>2
<1>4. CASE thread'[s] = thread[s]
  BY <1>4 DEF Roles
<1>5. CASE \E r \in Slots : Report(r) \/ Resume(r)
  <2>1. \A folder : FolderWork(folder).task = "folder"
    BY DEF FolderWork, Work
  <2> QED
    BY <1>1, <1>2, <1>5, <2>1 DEF Report, Resume, Roles
<1>6. CASE \/ \E source \in {"good", "bad"} : OnFilePicked(source)
           \/ \E folder \in Folders : OnFolderPicked(folder)
  <2>1. \A folder : FolderWork(folder).task = "folder"
    BY DEF FolderWork, Work
  <2> QED
    BY <1>1, <1>6, <2>1, FreeSlotIsFree, ThreadsAreDistinct
    DEF OnFilePicked, OnFolderPicked, Chosen, Work, Roles
<1>7. CASE Crash
  BY <1>1, <1>2, <1>7, RestoringIsTyped DEF Crash, Work
<1>8. CASE PickStaged \/ Joined \/ Back \/ ClearSavedSelection
           \/ \E source \in Sources : OnActivityResult(source)
  <2>1. \E job : thread' = [thread EXCEPT ![Main] = job]
    BY <1>8 DEF PickStaged, Joined, Back, ClearSavedSelection, OnActivityResult, Destroy
  <2> QED
    BY <1>1, <1>4, <2>1
<1> QED
  BY <1>3, <1>4, <1>5, <1>6, <1>7, <1>8
  DEF RomNext, Looper, Native, User, StartThread, RunEnds, RunFails, Finished, GetArguments, Poll,
      Load, Park, OpenPicker, FolderRefused, PickCancelled, OnStartGame, RequestRomPick

(* The main thread's work fits its task. *)
LEMMA MainTasks ==
  ASSUME WellFormed, Roles, RomNext
  PROVE  /\ thread'[Main].at \in {"clearRom", "clearTmp"} <=> thread'[Main].task = "clear"
         /\ thread'[Main].at \in FileWork <=> thread'[Main].task = "pick"
         /\ thread'[Main].at \notin {"hash", "resume"}
         /\ thread'[Main].task = "clear" =>
              \/ thread[Main].task = "clear" /\ UNCHANGED screen
              \/ screen' = "launcher"
         /\ thread'[Main].at \in FileWork \cup {"join"} =>
              \/ thread[Main].at \in FileWork \cup {"join"} /\ UNCHANGED screen
              \/ screen' = "game"
PROOF
<1>1. thread \in [Threads -> Jobs] /\ Main \in Threads
  BY Typed, ThreadsAreDistinct
<1>2. Nobody.at = "idle" /\ Nobody.task = "none"
  BY DEF Nobody, Work
<1>3. CASE thread'[Main] = Nobody
  BY <1>2, <1>3 DEF FileWork
<1>4. CASE thread'[Main] = thread[Main] /\ UNCHANGED screen
  BY <1>4 DEF Roles
<1>5. ASSUME NEW t \in Threads, FileStep(t)
      PROVE  \/ thread'[Main] = Nobody
             \/ thread'[Main] = thread[Main] /\ UNCHANGED screen
             \/ /\ thread'[Main].task = thread[Main].task /\ UNCHANGED screen
                /\ thread[Main].task = "pick" /\ thread'[Main].at \in FileWork
             \/ /\ thread'[Main].task = thread[Main].task /\ UNCHANGED screen
                /\ thread[Main].task = "clear" /\ thread'[Main].at \in {"clearRom", "clearTmp"}
  <2>1. CASE t # Main
    BY <1>1, <1>5, <2>1, FileStepIsLocal
  <2>2. CASE t = Main
    <3>1. UNCHANGED screen
      BY <1>5, FileStepIsLocal
    <3>2. \A at : Goes(Main, at) => thread'[Main].at = at /\ thread'[Main].task = thread[Main].task
      BY <1>1 DEF Goes, Jobs
    <3>3. ~Hash(Main)
      BY DEF Hash, Roles
    <3>4. CASE ClearRom(Main)
      BY <3>1, <3>2, <3>4 DEF ClearRom, Roles
    <3>5. CASE ClearTmp(Main) \/ RenameFails(Main) \/ Cleanup(Main)
      BY <1>1, <3>5 DEF ClearTmp, RenameFails, Cleanup
    <3>6. CASE Rename(Main)
      BY <1>1, <3>1, <3>6 DEF Rename, Work, Roles, FileWork
    <3>7. CASE \/ OpenTemporary(Main) \/ Copy(Main) \/ CopyFails(Main) \/ Verify(Main)
               \/ DeleteOld(Main)
      BY <3>1, <3>2, <3>7
      DEF OpenTemporary, Copy, CopyFails, AfterFailure, Verify, DeleteOld, Roles, FileWork
    <3> QED
      BY <1>5, <2>2, <3>3, <3>4, <3>5, <3>6, <3>7 DEF FileStep
  <2> QED
    BY <2>1, <2>2
<1>6. CASE \E t \in Threads : FileStep(t)
  <2>1. thread[Main].task = "pick" => thread[Main].at \in FileWork
    BY DEF Roles
  <2> QED
    BY <1>3, <1>4, <1>5, <1>6, <2>1 DEF FileWork
<1>7. CASE PickStaged \/ Back
  <2>1. \/ thread'[Main] = Nobody
        \/ \E task \in {"restart", "leave"} : thread'[Main] = Work(task, "join", <<>>)
    BY <1>1, <1>7 DEF PickStaged, Back, Destroy
  <2>2. screen' = "game"
    BY <1>7 DEF PickStaged, Back, InGame, Roles, FileWork
  <2> QED
    BY <1>2, <2>1, <2>2 DEF Work, FileWork
<1>8. CASE Joined \/ Crash
  <2>1. thread'[Main] = Nobody
    BY <1>1, <1>8, RestoringIsTyped DEF Joined, Crash
  <2> QED
    BY <1>3, <2>1
<1>9. CASE ClearSavedSelection
  BY <1>1, <1>9 DEF ClearSavedSelection, AtLauncher, Work, FileWork
<1>10. CASE \E source \in Sources : OnActivityResult(source)
  <2>1. \E source \in Sources : thread'[Main] = Work("pick", "open", <<source>>)
    BY <1>1, <1>10 DEF OnActivityResult
  <2>2. screen' = "game"
    BY <1>10 DEF OnActivityResult, InGame
  <2> QED
    BY <2>1, <2>2 DEF Work, FileWork
<1>11. CASE \/ \E s \in Slots : Report(s) \/ Resume(s)
            \/ \E source \in {"good", "bad"} : OnFilePicked(source)
            \/ \E folder \in Folders : OnFolderPicked(folder)
  <2>1. \E s \in Slots : \E job : thread' = [thread EXCEPT ![s] = job]
    BY <1>11, FreeSlotIsFree DEF Report, Resume, OnFilePicked, OnFolderPicked, Chosen
  <2>2. thread'[Main] = thread[Main] /\ UNCHANGED screen
    BY <1>1, <1>11, <2>1, ThreadsAreDistinct DEF Report, Resume, OnFilePicked, OnFolderPicked
  <2> QED
    BY <1>4, <2>2
<1>12. CASE OnStartGame \/ Finished
  <2>1. thread'[Main] = Nobody
    BY <1>12 DEF OnStartGame, AtLauncher, Finished, MainFree
  <2> QED
    BY <1>3, <2>1
<1> QED
  BY <1>4, <1>6, <1>7, <1>8, <1>9, <1>10, <1>11, <1>12
  DEF RomNext, Looper, Native, User, StartThread, RunEnds, RunFails, GetArguments, Poll, Load, Park,
      OpenPicker, FolderRefused, PickCancelled, RequestRomPick

(* Every step keeps the roles. *)
LEMMA StepKeepsRoles ==
  ASSUME WellFormed, Roles, RomNext
  PROVE  Roles'
PROOF
<1>1. \A s \in Slots : thread'[s].at # "idle" => thread'[s].task \in {"restore", "file", "folder"}
  BY SlotTasks
<1>2. thread'[Main].task = "clear" => screen' = "launcher"
  BY MainTasks DEF Roles
<1>3. thread'[Main].at \in FileWork \cup {"join"} => screen' = "game"
  BY MainTasks DEF Roles
<1>4. picker' \in {"file", "folder"} => screen' = "launcher"
  <2>1. ASSUME NEW t \in Threads, FileStep(t)
        PROVE  UNCHANGED <<picker, screen>>
    BY <2>1, FileStepIsLocal
  <2>2. CASE Crash
    BY <2>2 DEF Crash
  <2>3. CASE Joined \/ Finished \/ OnStartGame
    BY <2>3 DEF Joined, Finished, OnStartGame, OnCreate
  <2>4. CASE \/ \E kind \in {"file", "folder"} : OpenPicker(kind)
             \/ RequestRomPick \/ FolderRefused \/ PickCancelled
             \/ \E source \in {"good", "bad"} : OnFilePicked(source)
             \/ \E source \in Sources : OnActivityResult(source)
             \/ \E folder \in Folders : OnFolderPicked(folder)
    BY <2>4 DEF OpenPicker, AtLauncher, RequestRomPick, FolderRefused, PickCancelled,
                OnFilePicked, OnActivityResult, OnFolderPicked, Chosen
  <2>5. CASE UNCHANGED <<picker, screen>>
    BY <2>5 DEF Roles
  <2> QED
    BY <2>1, <2>2, <2>3, <2>4, <2>5
    DEF RomNext, Looper, Native, User, StartThread, RunEnds, RunFails, GetArguments, Poll, Load,
        Park, Report, Resume, PickStaged, Back, ClearSavedSelection
<1> QED
  BY <1>1, <1>2, <1>3, <1>4, MainTasks DEF Roles
(* While no two tasks on the files have met in this process: there is at   *)
(* most one task; a launcher's task keeps the launcher in front and the    *)
(* phase from Found, and has verified what it is about to put or has put   *)
(* in place; and Found means the supported ROM until the game changes the  *)
(* file or the launcher clears it.                                         *)
Alone ==
  /\ \A t, u \in Threads : t # u => ~(Busy(t) /\ Busy(u))
  /\ \A s \in Slots : thread[s].at # "idle" =>
       /\ phase # "found" /\ screen = "launcher"
       /\ thread[s].at = "staged" => rom = "good"
       /\ thread[s].at \in {"delete", "rename"} => tmp = "good"
  /\ phase = "found" /\ ~touched /\ thread[Main].task # "clear" => rom = "good"

(* The history variable tells when two tasks meet in this process. *)
LEMMA OverlapRemembers ==
  ASSUME Remember, ~overlapped', ~Crash
  PROVE  ~overlapped /\ \A t, u \in Threads : t # u => ~(Busy(t)' /\ Busy(u)')
PROOF
<1>1. ~overlapped /\ ~ \E p \in Pairs(Threads) : Busy(p[1])' /\ Busy(p[2])'
  BY Zenon DEF Remember
<1>2. ASSUME NEW t \in Threads, NEW u \in Threads, t # u
      PROVE  <<t, u>> \in Pairs(Threads)
  BY <1>2 DEF Pairs
<1> QED
  BY <1>1, <1>2

(* The history variable tells when the game changes the ROM. *)
LEMMA TouchRemembers ==
  ASSUME Remember, ~touched', ~Crash, phase' = phase
  PROVE  ~touched /\ (rom' = rom \/ (native' = native /\ thread[Main].task # "pick"))
PROOF
<1>1. touched' = (touched \/ (rom' # rom /\ (native # native' \/ thread[Main].task = "pick")))
  BY Zenon DEF Remember
<1> QED
  BY <1>1, Zenon

(* A thread at work on the files is busy, and alone: the others' slots are *)
(* idle.                                                                   *)
LEMMA OthersAreIdle ==
  ASSUME WellFormed, Roles, Alone, NEW t \in Threads, Busy(t)
  PROVE  \A s \in Slots \ {t} : thread[s].at = "idle"
PROOF
<1>1. \A s \in Slots : thread[s].at # "idle" => Busy(s)
  BY DEF Roles, Busy
<1> QED
  BY <1>1, ThreadsAreDistinct DEF Alone

(* A step of the file work of the one task there is. *)
LEMMA FileStepKeepsAlone ==
  ASSUME WellFormed, Roles, Alone, Remember, ~Crash, NEW t \in Threads, FileStep(t),
         \A u, v \in Threads : u # v => ~(Busy(u)' /\ Busy(v)')
  PROVE  Alone'
PROOF
<1>1. thread \in [Threads -> Jobs] /\ thread[t].at # "idle" /\ thread[t].at # "join"
  <2>1. thread[t].at # "idle" /\ thread[t].at # "join"
    BY DEF FileStep, OpenTemporary, Copy, CopyFails, Verify, DeleteOld, Rename, RenameFails,
           Cleanup, Hash, ClearRom, ClearTmp
  <2> QED
    BY <2>1, Typed
<1>2. Busy(t)
  <2>1. CASE t # Main
    BY <1>1, <2>1, ThreadsAreDistinct DEF Roles, Busy
  <2>2. CASE t = Main
    <3>1. thread[Main].at \in FileWork \/ thread[Main].at \in {"clearRom", "clearTmp", "hash"}
      BY <2>2 DEF FileStep, OpenTemporary, Copy, CopyFails, Verify, DeleteOld, Rename, RenameFails,
                  Cleanup, Hash, ClearRom, ClearTmp, FileWork
    <3> QED
      BY <2>2, <3>1 DEF Roles, Busy
  <2> QED
    BY <2>1, <2>2
<1>3. /\ \A s \in Slots \ {t} : thread'[s].at = "idle"
      /\ UNCHANGED <<native, screen>>
  BY <1>2, OthersAreIdle, FileStepIsLocal, ThreadsAreDistinct
<1>4. phase' = phase \/ (ClearTmp(Main) /\ t = Main /\ phase' = "idle")
  BY DEF FileStep, OpenTemporary, Copy, CopyFails, Verify, DeleteOld, Rename, RenameFails,
         Cleanup, Hash, ClearRom, ClearTmp, launcher
<1>5. CASE t \in Slots
  <2>1. /\ phase # "found" /\ screen = "launcher"
        /\ thread[t].at \in {"delete", "rename"} => tmp = "good"
    BY <1>1, <1>5 DEF Alone
  <2>2. phase' # "found" /\ screen' = "launcher"
    BY <1>3, <1>4, <2>1
  <2>3. ASSUME thread'[t].at = "staged"
        PROVE  rom' = "good"
    <3>1. Rename(t) \/ Hash(t)
      BY <2>3, FileStepPlaces DEF FileStep, Nobody, Work
    <3> QED
      BY <2>1, <2>3, <3>1, FileStepPlaces DEF Rename, Hash, files
  <2>4. ASSUME thread'[t].at \in {"delete", "rename"}
        PROVE  tmp' = "good"
    <3>1. Verify(t) \/ DeleteOld(t)
      BY <2>4, FileStepPlaces DEF FileStep, Nobody, Work
    <3>2. t # Main
      BY <1>5, ThreadsAreDistinct
    <3> QED
      BY <2>1, <2>4, <3>1, <3>2, FileStepPlaces DEF Verify, DeleteOld, Takes, files
  <2> QED
    BY <1>3, <2>2, <2>3, <2>4 DEF Alone
<1>6. CASE t = Main
  <2>1. \A s \in Slots : thread'[s].at = "idle"
    BY <1>3, <1>6, ThreadsAreDistinct
  <2>2. ASSUME phase' = "found", ~touched', thread'[Main].task # "clear"
        PROVE  rom' = "good"
    <3>1. phase' = phase /\ ~ClearTmp(Main)
      BY <1>4, <2>2 DEF ClearTmp
    <3>2. ~touched /\ (rom' = rom \/ (native' = native /\ thread[Main].task # "pick"))
      BY <2>2, <3>1, TouchRemembers
    <3>3. CASE thread[Main].task = "clear"
      <4>1. ClearRom(Main)
        BY <1>6, <3>1, <3>3 DEF Roles, FileStep, OpenTemporary, Copy, CopyFails, Verify, DeleteOld,
                                Rename, RenameFails, Cleanup, Hash, ClearRom
      <4>2. thread'[Main].task = "clear"
        BY <1>1, <3>3, <4>1, ThreadsAreDistinct DEF ClearRom, Goes, Jobs
      <4> QED
        BY <2>2, <4>2
    <3>4. CASE thread[Main].task # "clear"
      <4>1. thread[Main].task = "pick"
        BY <1>2, <1>6, <3>4, <1>1, FileStepPlaces DEF Roles, FileStep, FileWork
      <4> QED
        BY <2>2, <3>1, <3>2, <3>4, <4>1 DEF Alone
    <3> QED
      BY <3>3, <3>4
  <2> QED
    BY <2>1, <2>2 DEF Alone
<1> QED
  BY <1>5, <1>6, ThreadsAreDistinct

(* A step of the launcher, the activity or the game while there is at most *)
(* one task.                                                               *)
LEMMA OtherStepKeepsAlone ==
  ASSUME WellFormed, Roles, Alone, Remember, ~Crash,
         Looper \/ Native \/ User \/ StartThread \/ RunEnds \/ RunFails,
         \A u, v \in Threads : u # v => ~(Busy(u)' /\ Busy(v)')
  PROVE  Alone'
PROOF
<1>1. thread \in [Threads -> Jobs] /\ Main \in Threads /\ Main \notin Slots
  BY Typed, ThreadsAreDistinct
<1>2. tmp' = tmp /\ (rom' = rom \/ (Park /\ rom' = "none"))
  BY OtherSteps
<1>3. Nobody.at = "idle" /\ Nobody.task = "none"
  BY DEF Nobody, Work
<1>4. \A s \in Slots : thread[s].at # "idle" => native = "off"
  BY DEF Alone, WellFormed, ActivityOK
<1>5. ASSUME \A s \in Slots : thread'[s] = thread[s],
             UNCHANGED <<phase, rom>>, thread[Main].task # "clear" \/ thread'[Main].task = "clear",
             screen' = screen \/ screen' = "launcher" \/ \A s \in Slots : thread[s].at = "idle"
      PROVE  Alone'
  <2>1. ~touched' => ~touched
    BY <1>5, TouchRemembers
  <2> QED
    BY <1>2, <1>5, <2>1 DEF Alone
<1>6. CASE GetArguments \/ Poll \/ Load \/ RunEnds \/ RunFails \/ StartThread \/ RequestRomPick
           \/ PickCancelled \/ \E kind \in {"file", "folder"} : OpenPicker(kind)
  <2>1. UNCHANGED <<thread, phase, rom, screen>>
    BY <1>6 DEF GetArguments, Poll, Load, RunEnds, RunFails, StartThread, RequestRomPick,
                PickCancelled, OpenPicker, files, launcher
  <2> QED
    BY <1>5, <2>1
<1>7. CASE Park
  <2>1. UNCHANGED <<thread, phase, screen>> /\ native' # native /\ native # "off"
    BY <1>7 DEF Park, launcher
  <2>2. \A s \in Slots : thread[s].at = "idle"
    BY <1>4, <2>1
  <2>3. ~touched' => ~touched /\ rom' = rom
    BY <2>1, TouchRemembers
  <2> QED
    BY <2>1, <2>2, <2>3 DEF Alone
<1>8. CASE PickStaged \/ Back \/ ClearSavedSelection \/ \E source \in Sources : OnActivityResult(source)
  <2>1. UNCHANGED <<phase, rom, screen>>
    BY <1>8 DEF PickStaged, Back, ClearSavedSelection, OnActivityResult, files, launcher
  <2>2. \E job : thread' = [thread EXCEPT ![Main] = job]
    BY <1>8 DEF PickStaged, Back, ClearSavedSelection, OnActivityResult, Destroy
  <2>3. thread[Main].task # "clear" \/ thread'[Main].task = "clear"
    BY <1>3, <1>8 DEF PickStaged, Back, ClearSavedSelection, OnActivityResult, AtLauncher, InGame,
                      MainFree, Roles
  <2> QED
    BY <1>1, <1>5, <2>1, <2>2, <2>3
<1>9. CASE Joined \/ Finished \/ OnStartGame
  <2>1. UNCHANGED <<phase, rom>> /\ \A s \in Slots : thread'[s] = thread[s]
    <3>1. thread' = thread \/ thread' = [thread EXCEPT ![Main] = Nobody]
      BY <1>9 DEF Joined, Finished, OnStartGame
    <3>2. UNCHANGED <<phase, rom>>
      BY <1>9 DEF Joined, Finished, OnStartGame, files, launcher
    <3>3. ASSUME NEW s \in Slots
          PROVE  thread'[s] = thread[s]
      BY <1>1, <3>1, ThreadsAreDistinct
    <3> QED
      BY <3>2, <3>3
  <2>2. thread[Main].task # "clear"
    BY <1>3, <1>9 DEF Joined, Finished, OnStartGame, AtLauncher, MainFree, Roles
  <2>3. screen' = "launcher" \/ \A s \in Slots : thread[s].at = "idle"
    <3>1. screen' = "launcher" \/ Joined \/ OnStartGame
      BY <1>9 DEF Finished
    <3>2. OnStartGame => \A s \in Slots : thread[s].at = "idle"
      BY DEF OnStartGame, Alone
    <3>3. Joined => screen = "game"
      BY DEF Joined, Roles
    <3> QED
      BY <3>1, <3>2, <3>3 DEF Alone
  <2> QED
    BY <1>5, <2>1, <2>2, <2>3
<1>10. CASE FolderRefused
  BY <1>10 DEF FolderRefused, Alone, files
<1>11. ASSUME NEW kind \in {"file", "folder"}, NEW job, Chosen(kind, job),
              job.at \in {"open", "failed"}, UNCHANGED <<rom, screen>>
       PROVE  Alone'
  <2>1. /\ FreeSlot \in Slots /\ thread' = [thread EXCEPT ![FreeSlot] = job]
        /\ phase' = "validating" /\ screen' = "launcher"
    BY <1>11, FreeSlotIsFree DEF Chosen, Roles
  <2>2. \A s \in Slots : thread'[s].at \in {"open", "failed"} \/ thread'[s] = thread[s]
    BY <1>1, <1>11, <2>1
  <2> QED
    BY <1>2, <1>11, <2>1, <2>2 DEF Alone
<1>12. CASE \/ \E source \in {"good", "bad"} : OnFilePicked(source)
            \/ \E folder \in Folders : OnFolderPicked(folder)
  <2>1. /\ \A folder : FolderWork(folder).at \in {"open", "failed"}
        /\ \A source : Work("file", "open", <<source>>).at = "open"
    BY DEF FolderWork, Work
  <2> QED
    BY <1>11, <1>12, <2>1 DEF OnFilePicked, OnFolderPicked, files
<1>13. ASSUME NEW s \in Slots, Report(s) \/ Resume(s)
       PROVE  Alone'
  <2>1. thread[s].at \in {"staged", "failed", "resume"} /\ Busy(s) /\ s \in Threads
    BY <1>13, ThreadsAreDistinct DEF Report, Resume, Roles, Busy
  <2>2. \A r \in Slots \ {s} : thread[r].at = "idle"
    BY <2>1, OthersAreIdle
  <2>3. \E job : thread' = [thread EXCEPT ![s] = job] /\ (phase' = "found" => job = Nobody)
        /\ job.at \in {"idle", "open", "failed"} /\ (job # Nobody => phase' = "validating")
    <3>1. \A folder : FolderWork(folder).at \in {"open", "failed"}
      BY DEF FolderWork, Work
    <3> QED
      BY <1>3, <1>13, <3>1 DEF Report, Resume
  <2>4. \A r \in Slots : /\ thread'[r].at \in {"idle", "open", "failed"}
                         /\ thread'[r].at # "idle" => phase' = "validating"
    BY <1>1, <1>3, <2>1, <2>2, <2>3
  <2>5. UNCHANGED <<rom, screen>> /\ screen = "launcher" /\ phase # "found"
    BY <1>13, <2>1 DEF Report, Resume, files, Alone
  <2>6. phase' = "found" => rom = "good"
    BY <1>13, <2>1, <2>5 DEF Report, Resume, Reported, Alone
  <2> QED
    BY <2>4, <2>5, <2>6 DEF Alone
<1> QED
  BY <1>6, <1>7, <1>8, <1>9, <1>10, <1>12, <1>13 DEF Looper, Native, User

(* "Dados prontos" means that the engine takes the file, as long as no two *)
(* tasks on the files have met in this process: through picks, folders,    *)
(* clears, games and the process's death at any step.                      *)
THEOREM FoundIsAccepted == MCSpec => []FoundUnlessOverlapped
PROOF
<1> DEFINE Inv == Roles /\ (~overlapped => Alone)
<1>1. MCInit => Inv
  <2> SUFFICES ASSUME RomInit
               PROVE  Roles /\ Alone
    BY DEF MCInit
  <2>1. /\ \A t \in Threads : thread[t] = Nobody \/ thread[t] = Work("restore", "hash", <<>>)
        /\ thread[Main] = Nobody
        /\ \A t, u \in Threads : t # u => thread[t] = Nobody \/ thread[u] = Nobody
    BY RestoringIsTyped DEF RomInit
  <2>2. Roles
    BY <2>1, ThreadsAreDistinct DEF Roles, Nobody, Work, FileWork, RomInit
  <2>3. Alone
    BY <2>1, ThreadsAreDistinct DEF Alone, Busy, Nobody, Work, RomInit
  <2> QED
    BY <2>2, <2>3
<1>2. WellFormed /\ Inv /\ [MCNext]_mcVars => Inv'
  <2> SUFFICES ASSUME WellFormed, Inv, [MCNext]_mcVars
               PROVE  Inv'
    OBVIOUS
  <2>1. CASE UNCHANGED mcVars
    BY <2>1 DEF mcVars, romVars, files, launcher, game, Roles, Alone, Busy
  <2>2. CASE MCNext
    <3>1. Roles'
      BY <2>2, StepKeepsRoles DEF MCNext
    <3>2. CASE Crash
      <4>1. /\ thread' = Restoring /\ phase' = "idle" /\ screen' = "launcher"
        BY <3>2 DEF Crash
      <4>2. Alone'
        BY <4>1, RestoringIsTyped, ThreadsAreDistinct DEF Alone, Busy, Nobody, Work
      <4> QED
        BY <3>1, <4>2
    <3>3. ASSUME ~Crash, ~overlapped'
          PROVE  Alone'
      <4>1. Alone /\ Remember /\ \A t, u \in Threads : t # u => ~(Busy(t)' /\ Busy(u)')
        BY <2>2, <3>3, OverlapRemembers DEF MCNext
      <4> QED
        BY <2>2, <3>3, <4>1, FileStepKeepsAlone, OtherStepKeepsAlone DEF MCNext, RomNext
    <3> QED
      BY <3>1, <3>2, <3>3
  <2> QED
    BY <2>1, <2>2
<1>3. Inv => FoundUnlessOverlapped
  <2>1. MainFree => thread[Main].task # "clear"
    BY DEF MainFree, Nobody, Work
  <2> QED
    BY <2>1 DEF Alone, FoundUnlessOverlapped, FoundMeansAccepted
<1> QED
  BY <1>1, <1>2, <1>3, RomTypeInvariant, TypeParts, PTL DEF MCSpec
=============================================================================
