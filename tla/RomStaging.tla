----------------------------- MODULE RomStaging -----------------------------
(***************************************************************************)
(* The ROM of the Android port on its way from the user's file picker to   *)
(* the game: the launcher (DataSelectionViewModel.kt, RomStager.kt), the   *)
(* game's activity (MainActivity.java) and its native thread               *)
(* (runner/android_main.c), all of which work on rom.sfc and rom.sfc.tmp   *)
(* in the application's files.                                             *)
(*                                                                         *)
(* The launcher's tasks are coroutines that do their file work on threads  *)
(* of their own and report on the main thread; what the activities do with *)
(* files they do on the main thread itself.  A thread keeps the file it    *)
(* has opened when its path is deleted, renamed or opened again under it.  *)
(* The process may be killed between any two steps.                        *)
(***************************************************************************)
EXTENDS Integers, Sequences, FiniteSets, SequencesExt

CONSTANTS
  Slots,       (* Bound: launcher tasks that exist at once.                *)
  Folders,     (* What a folder may hold: sequences of Sources.            *)
  MaxEvents    (* Bound: pickers opened and times the process is killed.   *)

Main == 0                             (* The main thread.                  *)
Threads == Slots \cup {Main}
Game == -1                            (* The SDL thread.                   *)

(* A file the user may pick: the supported ROM, another file as long as    *)
(* one, or a file too short to be one.  On the device it may also be a     *)
(* copy that has not ended, or not be there.                               *)
Sources  == {"good", "bad", "small"}
Contents == Sources \cup {"partial", "none"}
NoFolder == <<"none">>

Phases  == {"idle", "validating", "found", "notFound", "permissionError"}
Pickers == {"none", "file", "folder", "game"}
Natives == {"off", "starting", "waiting", "loading", "running", "failed", "over"}
Tasks   == {"none", "restore", "file", "folder", "pick", "clear", "leave", "restart"}
Places  == {"idle", "hash", "clearRom", "clearTmp", "resume", "open", "write",
            "verify", "delete", "rename", "cleanup", "staged", "failed", "join"}

ASSUME StagingAssumption ==
  /\ Slots \subseteq Nat \ {Main} /\ IsFiniteSet(Slots) /\ Slots # {}
  /\ Folders \subseteq Seq(Sources) /\ NoFolder \notin Folders
  /\ MaxEvents \in Nat

VARIABLES
  rom,       (* What is at rom.sfc.                                        *)
  tmp,       (* What is at rom.sfc.tmp.                                    *)
  holds,     (* Where the file is that a thread is writing, or that the    *)
             (* game in progress was loaded from.                          *)
  saved,     (* The folder kept in the preferences.                        *)
  thread,    (* What each thread is doing with the files.                  *)
  phase,     (* _uiState.phase of the launcher.                            *)
  screen,    (* The activity in front: "launcher" or "game".               *)
  picker,    (* The system's file picker, and for whom.                    *)
  native,    (* The SDL thread.                                            *)
  quit,      (* SDL has been asked to quit.                                *)
  waitingForRom, (* The activity's field of that name.                     *)
  events     (* Pickers opened and processes killed.                       *)

files    == <<rom, tmp, holds>>
launcher == <<saved, phase>>
game     == <<native, quit, waitingForRom>>
romVars  == <<files, launcher, game, events, thread, screen, picker>>

Work(task, at, rest) == [task |-> task, at |-> at, rest |-> rest]
Nobody == Work("none", "idle", <<>>)

Goes(t, at) == thread' = [thread EXCEPT ![t].at = at]
MainFree    == thread[Main] = Nobody
FreeSlots   == { s \in Slots : thread[s] = Nobody }
FreeSlot    == CHOOSE s \in FreeSlots : TRUE

(* A path is deleted, or another file is renamed to it. *)
AfterUnlink(path) == [x \in DOMAIN holds |-> IF holds[x] = path THEN "gone" ELSE holds[x]]

MayBeEmpty(data) == data \in {"none", "partial"}

(* The launcher's ViewModel is created: its init starts the restore.       *)
Restoring ==
  [ t \in Threads |-> IF t = CHOOSE s \in Slots : TRUE THEN Work("restore", "hash", <<>>)
                     ELSE Nobody ]

RomInit ==
  /\ rom \in {"none", "good"} /\ tmp = "none"
  /\ holds = [x \in Threads \cup {Game} |-> "nothing"]
  /\ saved \in Folders \cup {NoFolder}
  /\ thread = Restoring
  /\ phase = "idle" /\ screen = "launcher" /\ picker = "none"
  /\ native = "off" /\ quit = FALSE /\ waitingForRom = FALSE
  /\ events = 0

-----------------------------------------------------------------------------
(* Staging: verifyAndStage of the launcher, onActivityResult of the game.  *)

OpenTemporary(t) ==
  /\ thread[t].at = "open"
  /\ tmp' = "partial" /\ holds' = [holds EXCEPT ![t] = "tmp"]
  /\ Goes(t, "write")
  /\ UNCHANGED <<rom, launcher, game, events, screen, picker>>

(* A file written by two threads ends as either's, or as a mixture.        *)
Copied(t, data) ==
  IF data = "partial" /\ \A u \in Threads \ {t} : holds[u] # holds[t]
    THEN {Head(thread[t].rest)}
    ELSE {Head(thread[t].rest), data, "bad"} \ {"partial"}

Copy(t) ==
  /\ thread[t].at = "write"
  /\ CASE holds[t] = "tmp"  -> tmp' \in Copied(t, tmp) /\ UNCHANGED rom
       [] holds[t] = "rom"  -> rom' \in Copied(t, rom) /\ UNCHANGED tmp
       [] holds[t] = "gone" -> UNCHANGED <<rom, tmp>>
  /\ holds' = [holds EXCEPT ![t] = "nothing"]
  /\ Goes(t, "verify")
  /\ UNCHANGED <<launcher, game, events, screen, picker>>

(* Mutant: an exception of the copy is swallowed. *)
AfterFailureRegardless(t) == IF thread[t].at = "write" THEN "verify" ELSE "cleanup"

AfterFailure(t) == "cleanup"

(* No stream, a full disk, a provider that goes away. *)
CopyFails(t) ==
  /\ thread[t].at \in {"open", "write"}
  /\ Goes(t, AfterFailure(t)) /\ holds' = [holds EXCEPT ![t] = "nothing"]
  /\ UNCHANGED <<rom, tmp, launcher, game, events, screen, picker>>

(* Mutant: the launcher goes by the size too. *)
TakesBySize(t) == tmp \in {"good", "bad"}

(* The launcher takes the supported ROM only, the activity whatever is     *)
(* long enough; a copy cut short may be.                                   *)
Takes(t) == tmp \in IF t = Main THEN {"good", "bad", "partial"} ELSE {"good"}

Refuses(t) ==
  tmp \in IF t = Main THEN {"none", "small", "partial"} ELSE Contents \ {"good"}

Verify(t) ==
  /\ thread[t].at = "verify"
  /\ \/ Takes(t) /\ Goes(t, "delete")
     \/ Refuses(t) /\ Goes(t, "cleanup")
  /\ UNCHANGED <<files, launcher, game, events, screen, picker>>

DeleteOld(t) ==
  /\ thread[t].at = "delete"
  /\ rom' = "none" /\ holds' = AfterUnlink("rom")
  /\ Goes(t, "rename")
  /\ UNCHANGED <<tmp, launcher, game, events, screen, picker>>

Rename(t) ==
  /\ thread[t].at = "rename" /\ tmp # "none"
  /\ rom' = tmp /\ tmp' = "none"
  /\ holds' = [ x \in DOMAIN holds |-> IF holds[x] = "tmp" THEN "rom" ELSE AfterUnlink("rom")[x] ]
  /\ thread' = [thread EXCEPT ![t] = Work(@.task, "staged", <<>>)]
  /\ UNCHANGED <<launcher, game, events, screen, picker>>

(* Somebody deleted or renamed the temporary file meanwhile. *)
RenameFails(t) ==
  /\ thread[t].at = "rename" /\ tmp = "none"
  /\ IF t = Main THEN thread' = [thread EXCEPT ![t] = Nobody] ELSE Goes(t, "cleanup")
  /\ UNCHANGED <<files, launcher, game, events, screen, picker>>

(* The path is deleted, whosever file it is; a folder's next candidate.    *)
Cleanup(t) ==
  /\ thread[t].at = "cleanup"
  /\ tmp' = "none" /\ holds' = AfterUnlink("tmp")
  /\ thread' = [thread EXCEPT ![t] =
       IF t = Main THEN Nobody
       ELSE LET more == Tail(@.rest)
            IN  Work(@.task, IF more = <<>> THEN "failed" ELSE "open", more)]
  /\ UNCHANGED <<rom, launcher, game, events, screen, picker>>

-----------------------------------------------------------------------------
(* The launcher's other file work: the check at start and clearStaged.     *)

Hash(t) ==
  /\ thread[t].at = "hash"
  /\ Goes(t, IF rom = "good" THEN "staged" ELSE "clearRom")
  /\ UNCHANGED <<files, launcher, game, events, screen, picker>>

ClearRom(t) ==
  /\ thread[t].at = "clearRom"
  /\ rom' = "none" /\ holds' = AfterUnlink("rom")
  /\ Goes(t, "clearTmp")
  /\ UNCHANGED <<tmp, launcher, game, events, screen, picker>>

ClearTmp(t) ==
  /\ thread[t].at = "clearTmp"
  /\ tmp' = "none" /\ holds' = AfterUnlink("tmp")
  /\ IF t = Main
       THEN /\ thread' = [thread EXCEPT ![t] = Nobody]
            /\ saved' = NoFolder /\ phase' = "idle"
       ELSE /\ Goes(t, "resume")
            /\ UNCHANGED launcher
  /\ UNCHANGED <<rom, game, events, screen, picker>>

FileStep(t) ==
  \/ OpenTemporary(t) \/ Copy(t) \/ CopyFails(t) \/ Verify(t) \/ DeleteOld(t)
  \/ Rename(t) \/ RenameFails(t) \/ Cleanup(t) \/ Hash(t) \/ ClearRom(t) \/ ClearTmp(t)

-----------------------------------------------------------------------------
(* The launcher on the main thread. *)

Reported(s) == IF thread[s].at = "staged" THEN "found" ELSE "notFound"

(* Mutant: a result is taken only while the launcher is in front. *)
ReportInFront(s) ==
  /\ MainFree /\ thread[s].at \in {"staged", "failed"} /\ screen = "launcher"
  /\ phase' = Reported(s)
  /\ thread' = [thread EXCEPT ![s] = Nobody]
  /\ UNCHANGED <<files, saved, game, events, screen, picker>>

Report(s) ==
  /\ MainFree /\ thread[s].at \in {"staged", "failed"}
  /\ phase' = Reported(s)
  /\ thread' = [thread EXCEPT ![s] = Nobody]
  /\ UNCHANGED <<files, saved, game, events, screen, picker>>

FolderWork(folder) == Work("folder", IF folder = <<>> THEN "failed" ELSE "open", folder)

(* The restore has cleared the files: on to the folder, if one is kept.    *)
Resume(s) ==
  /\ MainFree /\ thread[s].at = "resume"
  /\ IF saved = NoFolder
       THEN thread' = [thread EXCEPT ![s] = Nobody] /\ UNCHANGED phase
       ELSE thread' = [thread EXCEPT ![s] = FolderWork(saved)] /\ phase' = "validating"
  /\ UNCHANGED <<files, saved, game, events, screen, picker>>

AtLauncher == MainFree /\ screen = "launcher" /\ picker = "none"

OpenPicker(kind) ==
  /\ AtLauncher /\ phase \notin {"found", "validating"}
  /\ events < MaxEvents /\ events' = events + 1
  /\ picker' = kind
  /\ UNCHANGED <<files, launcher, game, thread, screen>>

(* A result is delivered in whatever phase the launcher is in by then.     *)
Chosen(kind, work) ==
  /\ MainFree /\ picker = kind /\ picker' = "none" /\ FreeSlots # {}
  /\ thread' = [thread EXCEPT ![FreeSlot] = work]
  /\ phase' = "validating"

OnFilePicked(source) ==
  /\ Chosen("file", Work("file", "open", <<source>>))
  /\ UNCHANGED <<files, saved, game, events, screen>>

OnFolderPicked(folder) ==
  /\ Chosen("folder", FolderWork(folder))
  /\ saved' = folder
  /\ UNCHANGED <<files, game, events, screen>>

FolderRefused ==
  /\ MainFree /\ picker = "folder" /\ picker' = "none"
  /\ phase' = "permissionError"
  /\ UNCHANGED <<files, saved, game, events, thread, screen>>

PickCancelled ==
  /\ MainFree /\ picker # "none" /\ picker' = "none"
  /\ UNCHANGED <<files, launcher, game, events, thread, screen>>

ClearSavedSelection ==
  /\ AtLauncher /\ phase # "idle"
  /\ thread' = [thread EXCEPT ![Main] = Work("clear", "clearRom", <<>>)]
  /\ UNCHANGED <<files, launcher, game, events, screen, picker>>

(* MainActivity.onCreate asks for a ROM if there is none. *)
OnCreate ==
  /\ screen' = "game"
  /\ \/ rom # "none" /\ picker' = "none"
     \/ MayBeEmpty(rom) /\ picker' = "game"

OnStartGame ==
  /\ AtLauncher /\ phase = "found"
  /\ OnCreate
  /\ UNCHANGED <<files, launcher, game, events, thread>>

-----------------------------------------------------------------------------
(* The game's activity on the main thread. *)

InGame == MainFree /\ screen = "game" /\ native # "over"

RequestRomPick ==
  /\ InGame /\ picker = "none"
  /\ events < MaxEvents /\ events' = events + 1
  /\ picker' = "game"
  /\ UNCHANGED <<files, launcher, game, thread, screen>>

OnActivityResult(source) ==
  /\ InGame /\ picker = "game" /\ picker' = "none"
  /\ thread' = [thread EXCEPT ![Main] = Work("pick", "open", <<source>>)]
  /\ UNCHANGED <<files, launcher, game, events, screen>>

(* Mutant: the activity is recreated only for a first pick. *)
RestartsWhenWaiting == waitingForRom

Restarts == ~waitingForRom

(* onDestroy asks SDL to quit and waits for its thread. *)
Destroy(task) ==
  /\ thread' = [thread EXCEPT ![Main] = Work(task, "join", <<>>)]
  /\ quit' = (native \notin {"off", "over"})

PickStaged ==
  /\ thread[Main].at = "staged"
  /\ IF Restarts THEN Destroy("restart")
     ELSE thread' = [thread EXCEPT ![Main] = Nobody] /\ UNCHANGED quit
  /\ UNCHANGED <<files, launcher, native, waitingForRom, events, screen, picker>>

Back ==
  /\ InGame /\ picker = "none"
  /\ Destroy("leave")
  /\ UNCHANGED <<files, launcher, native, waitingForRom, events, screen, picker>>

(* Mutant: the field survives the activity. *)
GameGoneKeepsField ==
  /\ native' = "off" /\ quit' = FALSE /\ UNCHANGED waitingForRom
  /\ holds' = [holds EXCEPT ![Game] = "nothing"]

GameGone ==
  /\ native' = "off" /\ quit' = FALSE /\ waitingForRom' = FALSE
  /\ holds' = [holds EXCEPT ![Game] = "nothing"]

(* The thread is over.  SDLMain has called finish unless the activity was  *)
(* already finishing: a recreated activity comes up again or is closed.    *)
Joined ==
  /\ thread[Main].at = "join" /\ native \in {"off", "over"}
  /\ GameGone
  /\ thread' = [thread EXCEPT ![Main] = Nobody]
  /\ \/ thread[Main].task = "restart" /\ OnCreate
     \/ /\ thread[Main].task = "leave" \/ native = "over"
        /\ screen' = "launcher" /\ picker' = "none"
  /\ UNCHANGED <<rom, tmp, launcher, events>>

(* SDL_main returned on its own: SDLMain finishes the activity. *)
Finished ==
  /\ MainFree /\ screen = "game" /\ native = "over"
  /\ GameGone
  /\ screen' = "launcher" /\ picker' = "none"
  /\ UNCHANGED <<rom, tmp, launcher, events, thread>>

-----------------------------------------------------------------------------
(* The SDL thread: SDLMain and SDL_main of runner/android_main.c. *)

StartThread ==
  /\ InGame /\ native = "off"
  /\ native' = "starting"
  /\ UNCHANGED <<files, launcher, quit, waitingForRom, events, thread, screen, picker>>

GetArguments ==
  /\ native = "starting"
  /\ \/ rom # "none" /\ native' = "loading" /\ UNCHANGED waitingForRom
     \/ MayBeEmpty(rom) /\ native' = "waiting" /\ waitingForRom' = TRUE
  /\ UNCHANGED <<files, launcher, quit, events, thread, screen, picker>>

(* Mutant: the first-run loop looks for the file only. *)
PollOnlyFile ==
  /\ native = "waiting"
  /\ rom # "none" /\ native' = "loading"
  /\ UNCHANGED <<files, launcher, quit, waitingForRom, events, thread, screen, picker>>

(* The path of the cache rom.cfg is that of the ROM, so a wait ends the    *)
(* same way whether the cache or the poll finds it.                        *)
Poll ==
  /\ native = "waiting"
  /\ \/ quit /\ native' = "over"
     \/ ~quit /\ rom # "none" /\ native' = "loading"
  /\ UNCHANGED <<files, launcher, quit, waitingForRom, events, thread, screen, picker>>

Load ==
  /\ native = "loading"
  /\ IF rom = "good" THEN native' = "running" /\ holds' = [holds EXCEPT ![Game] = "rom"]
     ELSE native' = "failed" /\ UNCHANGED holds
  /\ UNCHANGED <<rom, tmp, launcher, quit, waitingForRom, events, thread, screen, picker>>

RunEnds ==
  /\ native = "running" /\ native' = "over"
  /\ UNCHANGED <<files, launcher, quit, waitingForRom, events, thread, screen, picker>>

(* A failure of the runtime, with an accepted ROM. *)
RunFails ==
  /\ native = "running" /\ native' = "failed"
  /\ UNCHANGED <<files, launcher, quit, waitingForRom, events, thread, screen, picker>>

(* Whatever is at the path by now is renamed to rom.sfc.rejected. *)
Park ==
  /\ native = "failed" /\ native' = "over"
  /\ rom' = "none" /\ holds' = AfterUnlink("rom")
  /\ UNCHANGED <<tmp, launcher, quit, waitingForRom, events, thread, screen, picker>>

-----------------------------------------------------------------------------
(* The process is killed and started again.  Files and preferences stay;   *)
(* the system keeps a picker that is open and delivers its result.         *)
Crash ==
  /\ events < MaxEvents /\ events' = events + 1
  /\ native' = "off" /\ quit' = FALSE /\ waitingForRom' = FALSE
  /\ holds' = [x \in DOMAIN holds |-> "nothing"]
  /\ thread' = Restoring
  /\ phase' = "idle" /\ screen' = "launcher"
  /\ picker' \in {"none", picker} \ {"game"}
  /\ UNCHANGED <<rom, tmp, saved>>

User ==
  \/ \E kind \in {"file", "folder"} : OpenPicker(kind)
  \/ \E source \in {"good", "bad"} : OnFilePicked(source)
  \/ \E source \in Sources : OnActivityResult(source)
  \/ \E folder \in Folders : OnFolderPicked(folder)
  \/ FolderRefused \/ PickCancelled \/ ClearSavedSelection \/ OnStartGame
  \/ RequestRomPick \/ Back

Looper == PickStaged \/ Joined \/ Finished \/ \E s \in Slots : Report(s) \/ Resume(s)

Native == GetArguments \/ Poll \/ Load \/ Park \/ (quit /\ RunEnds)

RomNext ==
  \/ \E t \in Threads : FileStep(t)
  \/ Looper \/ Native \/ User
  \/ StartThread \/ RunEnds \/ RunFails
  \/ Crash

(* Every thread gets on with its file work, and so does the SDL thread,    *)
(* which looks for a quit at every turn of its loops.  The main looper     *)
(* takes its messages in order: a report that waits is taken though other  *)
(* messages come in between.  Users and failures owe nothing.              *)
Fairness ==
  /\ \A t \in Threads : WF_romVars(FileStep(t))
  /\ \A s \in Slots : SF_romVars(Report(s) \/ Resume(s))
  /\ WF_romVars(PickStaged \/ Joined \/ Finished)
  /\ WF_romVars(Native)
=============================================================================
