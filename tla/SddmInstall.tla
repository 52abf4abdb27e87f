----------------------------- MODULE SddmInstall -----------------------------
(***************************************************************************)
(* The installers of the login theme and of fingerprint login:             *)
(* tools/install_sddm.py, tools/install_sddm_pam.py, which the first runs  *)
(* as a child and an administrator may run alone, and tools/install_sudo.py, *)
(* the same program for another file.                                      *)
(*                                                                         *)
(* Three files belong to the system and are changed, sddm.conf and the PAM *)
(* configurations of SDDM and sudo; each has a backup.  A file holds the   *)
(* reviewed original, the original with our block ("ours"), or anything    *)
(* else.  A run may fail at any step, or be killed; files may be edited    *)
(* meanwhile.  One run is under way at a time.                             *)
(***************************************************************************)
VARIABLES
  file,    \* sddm.conf, pam.d/sddm and pam.d/sudo
  bak,     \* their backups: "none", "part" (opened, not written), content
  theme,   \* the theme directory: "none", "ours", "other"
  pc,      \* where the run stands: see Places
  opt,     \* which program with which option: see Options
  found,   \* the files of SDDM as the run found them
  path, expected, content,   \* the arguments of replace_file
  then,    \* and where it returns to
  late     \* the file was edited after replace_file had compared it

run  == <<opt, found>>
args == <<path, expected, content, then>>
job  == <<args, late>>
installVars == <<file, bak, theme, pc, run, job>>

Sddm     == {"config", "pam"}
Files    == Sddm \cup {"sudo"}
Contents == {"orig", "ours", "edited"}
Options  == {"apply", "remove", "pamApply", "pamRemove", "sudoApply", "sudoRemove"}
Applying == {"apply", "pamApply", "sudoApply"}

\* The PAM file a run is about.
Target == IF opt \in {"sudoApply", "sudoRemove"} THEN "sudo" ELSE "pam"

Rest      == {"idle", "ok", "failed", "broken", "killed"}
Replacing == {"compare", "swap"}
Places    == {"backupConfig", "writeConfig", "backupPam", "writePam", "theme",
              "child", "keep", "writeKeep", "replacePam", "childDone",
              "select", "verify", "undoConfig", "undoPam"} \cup Rest \cup Replacing

InstallInit ==
  /\ file \in [Files -> {"orig", "edited"}]
  /\ bak = [f \in Files |-> "none"] /\ theme \in {"none", "other"}
  /\ pc = "idle" /\ opt = "apply" /\ found = [f \in Sddm |-> file[f]]
  /\ path = "pam" /\ expected = "orig" /\ content = "orig" /\ then = "ok" /\ late = FALSE

\* What is under the block.
Original(c) == IF c = "ours" THEN "orig" ELSE c

-----------------------------------------------------------------------------
(* Errors: the try of main covers the child, the change of sddm.conf and   *)
(* the verification; what fails in its except clause is not caught.        *)

InTry == /\ opt = "apply"
         /\ \/ pc \in {"child", "keep", "writeKeep", "replacePam", "childDone",
                      "select", "verify"}
            \/ pc \in Replacing /\ then \in {"childDone", "verify"}
Undoing == \/ pc \in {"undoConfig", "undoPam"}
           \/ pc \in Replacing /\ then \in {"undoPam", "failed"}

OnError == IF InTry THEN "undoConfig" ELSE IF Undoing THEN "broken" ELSE "failed"

At(place) == pc = place /\ UNCHANGED run

\* The arguments of replace_file are gone when it has returned or raised.
NoJob == /\ path' = "pam" /\ expected' = "orig" /\ content' = "orig" /\ then' = "ok"
         /\ late' = FALSE
GoTo(place) == pc' = place /\ NoJob /\ UNCHANGED <<file, bak, theme>>

-----------------------------------------------------------------------------
(* replace_file(path, expected, content)                                   *)

Replace(f, from, to, next) ==
  /\ path' = f /\ expected' = from /\ content' = to /\ then' = next
  /\ late' = FALSE /\ pc' = "compare" /\ UNCHANGED <<file, bak, theme>>

\* Wrong: the file is taken to be as it was read before.
CompareNothing ==
  /\ At("compare") /\ pc' = "swap" /\ UNCHANGED <<file, bak, theme, job>>

\* The new content is on disk under another name.
Compare ==
  /\ At("compare")
  /\ IF file[path] = expected THEN pc' = "swap" /\ UNCHANGED <<file, bak, theme, job>>
     ELSE GoTo(OnError)

Swap == /\ At("swap") /\ pc' = then
        /\ file' = [file EXCEPT ![path] = content]
        /\ NoJob /\ UNCHANGED <<bak, theme>>

-----------------------------------------------------------------------------
(* A backup is created and then written, never replaced.                   *)

\* Wrong: a backup that is there is taken to be good.
OpenAccepts(at, f, what, write, next) ==
  /\ At(at)
  /\ IF bak[f] = "none"
     THEN /\ bak' = [bak EXCEPT ![f] = "part"] /\ pc' = write
          /\ UNCHANGED <<file, theme, job>>
     ELSE GoTo(next)

OpenBackup(at, f, what, write, next) ==
  /\ At(at)
  /\ IF bak[f] = "none"
     THEN /\ bak' = [bak EXCEPT ![f] = "part"] /\ pc' = write
          /\ UNCHANGED <<file, theme, job>>
     ELSE GoTo(IF bak[f] = what THEN next ELSE OnError)

WriteBackup(at, f, what, next) ==
  /\ At(at) /\ bak' = [bak EXCEPT ![f] = what] /\ pc' = next
  /\ UNCHANGED <<file, theme, job>>

-----------------------------------------------------------------------------
(* install_sddm.py                                                         *)

Start(o) == pc \in Rest /\ opt' = o /\ found' = [f \in Sddm |-> file[f]]

\* main: both files are read, and must be the reviewed ones, with our block or
\* without.  An edit between the reads is as one after them.
Apply == /\ Start("apply")
         /\ GoTo(IF \E f \in Sddm : file[f] = "edited" THEN "failed" ELSE "backupConfig")

\* Wrong: the theme is copied once it is selected.
BackupsThenChild ==
  \/ OpenBackup("backupConfig", "config", Original(found["config"]), "writeConfig", "backupPam")
  \/ WriteBackup("writeConfig", "config", Original(found["config"]), "backupPam")
  \/ OpenBackup("backupPam", "pam", Original(found["pam"]), "writePam", "child")
  \/ WriteBackup("writePam", "pam", Original(found["pam"]), "child")

Backups ==
  \/ OpenBackup("backupConfig", "config", Original(found["config"]), "writeConfig", "backupPam")
  \/ WriteBackup("writeConfig", "config", Original(found["config"]), "backupPam")
  \/ OpenBackup("backupPam", "pam", Original(found["pam"]), "writePam", "theme")
  \/ WriteBackup("writePam", "pam", Original(found["pam"]), "theme")

\* install_theme: a finished directory is renamed; one that is there must match.
InstallTheme ==
  /\ At("theme") /\ UNCHANGED <<file, bak, job>>
  /\ IF theme = "other" THEN pc' = OnError /\ UNCHANGED theme
     ELSE pc' = "child" /\ theme' = "ours"

\* sddm.conf is changed once PAM is.
Select == /\ At("select")
          /\ IF found["config"] = "ours" THEN GoTo("verify")
             ELSE Replace("config", found["config"], "ours", "verify")

Verify == /\ At("verify")
          /\ GoTo(IF \A f \in Sddm : file[f] = "ours" THEN "ok" ELSE OnError)

\* Undo what this run has changed, if it is still as this run has left it.
Undo(at, f, next) ==
  /\ At(at)
  /\ IF file[f] = "ours" /\ found[f] # "ours" THEN Replace(f, "ours", found[f], next)
     ELSE GoTo(next)

\* Wrong: the child is trusted to have undone its own change.
RollbackConfig == Undo("undoConfig", "config", "failed")

Rollback == Undo("undoConfig", "config", "undoPam") \/ Undo("undoPam", "pam", "failed")

\* restore: it needs both backups, and files that are not edited.
Remove ==
  /\ Start("remove")
  /\ IF \E f \in Sddm : bak[f] # "orig" \/ file[f] = "edited" THEN GoTo("failed")
     ELSE IF file["config"] = "ours" THEN Replace("config", "ours", "orig", "child")
     ELSE GoTo("child")

-----------------------------------------------------------------------------
(* install_sddm_pam.py, alone or as the child of either, and install_sudo.py *)

PamTool(o) == Start(o) /\ GoTo("child")

\* install_sudo.py differs in its names only and goes through the same places.
SudoTool == PamTool("sudoApply") \/ PamTool("sudoRemove")


ChildApplies ==
  /\ At("child") /\ opt \in Applying
  /\ GoTo(IF file[Target] = "ours" THEN "childDone"
          ELSE IF file[Target] = "orig" THEN "keep" ELSE OnError)

\* Its own backup, of what it has just read.
ChildBackup == \/ OpenBackup("keep", Target, "orig", "writeKeep", "replacePam")
               \/ WriteBackup("writeKeep", Target, "orig", "replacePam")

ChildReplaces == At("replacePam") /\ Replace(Target, "orig", "ours", "childDone")

ChildRemoves ==
  /\ At("child") /\ opt \notin Applying
  /\ IF bak[Target] # "orig" \/ file[Target] = "edited" THEN GoTo(OnError)
     ELSE IF file[Target] = "orig" THEN GoTo("childDone")
     ELSE Replace(Target, "ours", "orig", "childDone")

ChildDone == At("childDone") /\ GoTo(IF opt = "apply" THEN "select" ELSE "ok")

-----------------------------------------------------------------------------
(* What may happen at any step                                             *)

\* A call of the system fails; also the child's, whatever it has done by then.
Fault == /\ pc \notin Rest
         /\ GoTo(OnError) /\ UNCHANGED run

\* Ctrl+C is not an Exception: nothing is rolled back.
Kill == /\ pc \notin Rest /\ GoTo("killed") /\ UNCHANGED run

InChild == \/ pc \in {"child", "keep", "writeKeep", "replacePam"}
           \/ pc \in Replacing /\ then = "childDone"

\* The parent alone is killed, and its child goes on.
Orphan == /\ InChild /\ opt \in {"apply", "remove"}
          /\ opt' = IF opt = "apply" THEN "pamApply" ELSE "pamRemove"
          /\ UNCHANGED <<file, bak, theme, pc, found, job>>

\* By hand, our block is taken out but not put in.
Edit(f, c) ==
  /\ file[f] # c /\ file' = [file EXCEPT ![f] = c]
  /\ late' = (late \/ (pc = "swap" /\ path = f))
  /\ UNCHANGED <<bak, theme, pc, run, args>>

-----------------------------------------------------------------------------
Installer == \/ Apply \/ Backups \/ InstallTheme \/ Select \/ Verify \/ Rollback \/ Remove
PamChild  == \/ PamTool("pamApply") \/ PamTool("pamRemove") \/ SudoTool
             \/ ChildApplies \/ ChildBackup \/ ChildReplaces \/ ChildRemoves \/ ChildDone

InstallNext == \/ Installer \/ PamChild \/ Compare \/ Swap
               \/ Fault \/ Kill \/ Orphan
               \/ \E f \in Files, c \in {"orig", "edited"} : Edit(f, c)

InstallSpec == InstallInit /\ [][InstallNext]_installVars

-----------------------------------------------------------------------------
\* Types: a backup holds the original or is unfinished, as no file that is not
\* the reviewed one is ever saved as the original.
InstallTypeOK ==
  /\ file \in [Files -> Contents] /\ found \in [Sddm -> Contents]
  /\ bak \in [Files -> {"none", "part", "orig"}] /\ theme \in {"none", "ours", "other"}
  /\ pc \in Places /\ opt \in Options /\ late \in BOOLEAN
  /\ path \in Files /\ expected \in Contents /\ content \in Contents /\ then \in Places

\* SDDM is never told to use a theme that is not there, whatever step the
\* installer died at.
ThemeBeforeUse == file["config"] = "ours" => theme = "ours"

\* What restore needs to undo an installation is there before anything is
\* changed: both backups for sddm.conf, its own for each PAM file.
Restorable ==
  /\ file["config"] = "ours" => \A f \in Sddm : bak[f] = "orig"
  /\ \A f \in Files \ {"config"} : file[f] = "ours" => bak[f] = "orig"

\* A run leaves what it says: an --apply that failed no change of its own, unless
\* its rollback failed as well; a --remove that succeeded neither change, also
\* if they are those of a run that was killed half way.
OutcomeHolds ==
  /\ pc = "failed" /\ opt = "apply" =>
       \A f \in Sddm : file[f] = "ours" => found[f] = "ours"
  /\ pc = "ok" /\ opt = "remove" => \A f \in Sddm : file[f] # "ours"

\* replace_file replaces only the content its caller has seen: an edit is lost
\* only if it falls between the comparison and the rename.
ReplacesWhatItRead ==
  [][pc = "swap" /\ file' # file /\ pc' # pc => late \/ file[path] = expected]_installVars
=============================================================================
