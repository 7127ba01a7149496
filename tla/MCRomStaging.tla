---------------------------- MODULE MCRomStaging ----------------------------
(***************************************************************************)
(* RomStaging with history variables that remember which tasks have met,   *)
(* and its properties.                                                     *)
(***************************************************************************)
EXTENDS RomStaging

VARIABLES
  overlapped, (* Two tasks on the files have met since the process began.  *)
  mixed,      (* Two copies into the temporary file have met.              *)
  touched,    (* The game has parked or replaced the ROM since the         *)
              (* launcher's phase was last made.                           *)
  picked      (* The ROM in place was put there by the game's activity.     *)

mcVars == <<romVars, overlapped, mixed, touched, picked>>

Busy(t)    == thread[t].task \in {"restore", "file", "folder", "pick", "clear"}
Staging(t) == thread[t].at \in {"write", "verify", "delete", "rename"}
Pairs(S)   == { p \in S \X S : p[1] # p[2] }

(* A new process has nobody's tasks but the restore's, and the restore     *)
(* goes by what is there.                                                  *)
Remember ==
  /\ overlapped' = (~Crash
       /\ (overlapped \/ \E p \in Pairs(Threads) : Busy(p[1])' /\ Busy(p[2])'))
  /\ mixed' = (mixed \/ \E p \in Pairs(Threads) : Staging(p[1])' /\ Staging(p[2])')
  /\ touched' = IF Crash \/ phase' # phase THEN FALSE
                ELSE touched \/ (rom' # rom /\ (native # native' \/ thread[Main].task = "pick"))
  /\ picked' = IF Crash THEN FALSE
               ELSE Rename(Main) \/ (picked /\ rom' = rom /\ ~ \E s \in Slots : Rename(s))

MCInit ==
  /\ RomInit
  /\ overlapped = FALSE /\ mixed = FALSE /\ touched = FALSE /\ picked = FALSE

MCNext == RomNext /\ Remember

MCSpec   == MCInit /\ [][MCNext]_mcVars
FairSpec == MCSpec /\ Fairness

SomeFolders == {<<"bad", "good">>}

-----------------------------------------------------------------------------
(* Properties. *)

(* The state is well formed: a thread holds a file exactly while it writes *)
(* one, a task that stages has a source in hand, and nothing of a game     *)
(* outlives its activity.                                                  *)
RomTypeOK ==
  /\ {rom, tmp} \subseteq Contents
  /\ holds \in [Threads \cup {Game} -> {"nothing", "tmp", "rom", "gone"}]
  /\ saved \in Folders \cup {NoFolder}
  /\ thread \in [Threads -> [task : Tasks, at : Places, rest : Seq(Sources)]]
  /\ phase \in Phases /\ screen \in {"launcher", "game"} /\ picker \in Pickers
  /\ native \in Natives /\ quit \in BOOLEAN /\ waitingForRom \in BOOLEAN
  /\ events \in 0 .. MaxEvents
  /\ \A t \in Threads : /\ thread[t].at = "write" <=> holds[t] # "nothing"
                        /\ thread[t].at \in {"open", "write", "verify", "delete", "rename",
                                             "cleanup"} => thread[t].rest # <<>>
  /\ native = "off" => ~quit /\ ~waitingForRom /\ holds[Game] = "nothing"
  /\ screen = "launcher" => native = "off" /\ picker # "game"

(* "Dados prontos" means that the engine takes the file                    *)
(* (DataSelectionViewModel.kt): while the launcher says Found, and the     *)
(* game has not changed the ROM since, rom.sfc is there and is the         *)
(* supported ROM.                                                          *)
FoundMeansAccepted == phase = "found" /\ MainFree /\ ~touched => rom = "good"

(* It does mean that as long as no two tasks on the files have met in this *)
(* process, through picks, folders, clears, games and the process's death  *)
(* at any step.                                                            *)
FoundUnlessOverlapped == ~overlapped => FoundMeansAccepted

(* What is at rom.sfc is never a copy that did not end, whatever fails and *)
(* wherever the process dies, unless two copies have shared rom.sfc.tmp.   *)
StagedIsWhole == ~mixed => rom # "partial"

(* A ROM picked in the game replaces the one in play: a game that runs on  *)
(* was loaded from the file in place.  A game that had to wait for its     *)
(* first ROM is the exception: the activity does not restart it.           *)
ReplacementIsPlayed ==
  native = "running" /\ MainFree /\ ~waitingForRom /\ picked => holds[Game] = "rom"

(* The launcher does not stay at "validating": every copy, hash and report *)
(* ends, whatever else works on the files.                                 *)
ValidatingEnds == phase = "validating" ~> phase # "validating"

(* The main thread is not held for ever by the SDL thread it waits for in  *)
(* onDestroy, wherever that thread is.                                     *)
JoinEnds == thread[Main].at = "join" ~> MainFree

(* Both: neither the launcher nor the game hangs.                          *)
NothingWaitsForEver == ValidatingEnds /\ JoinEnds
=============================================================================
