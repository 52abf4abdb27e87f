-------------------------- MODULE SddmInstallProofs --------------------------
(***************************************************************************)
(* Proofs about SddmInstall: at every step of every sequence of runs, with *)
(* faults, kills and edits anywhere, the system can be restored, and SDDM  *)
(* is not pointed at a theme that is not there; what a run that failed or  *)
(* removed leaves behind.                                                  *)
(***************************************************************************)
EXTENDS SddmInstall, TLAPS

Saved(f)  == bak[f] = "orig"
AllSaved  == Saved("config") /\ Saved("pam")

\* How far the preparations have come, by the place of the run.
PrepInv ==
  /\ pc \in {"backupPam", "writePam"} => Saved("config")
  /\ pc = "theme" => AllSaved
  /\ pc = "replacePam" => Saved(Target)
  /\ opt = "apply" /\ (InTry \/ Undoing) => AllSaved /\ theme = "ours"

\* Only "apply" has a rollback and places of its own.
ApplyInv ==
  /\ pc \in {"backupConfig", "writeConfig", "backupPam", "writePam", "theme",
             "select", "verify", "undoConfig", "undoPam"} => opt = "apply"
  /\ pc \in {"keep", "writeKeep", "replacePam"} => opt \in Applying
  /\ opt = "apply" /\ pc \notin Rest => \A f \in Sddm : found[f] # "edited"

\* What replace_file is about to write, and where it goes on.
JobInv ==
  pc \in Replacing =>
    /\ content = "ours" /\ path # "config" => Saved(path)
    /\ content = "ours" /\ path = "config" => AllSaved /\ theme = "ours"
    /\ then \in {"verify", "undoPam", "failed", "child", "childDone"}
    /\ then \in {"verify", "undoPam", "failed"} => opt = "apply"
    /\ then = "child" => opt = "remove" /\ path = "config" /\ content = "orig"
    /\ then = "childDone" =>
         /\ path = Target
         /\ opt \notin Applying => content = "orig"
    /\ then = "verify" => path = "config" /\ content = "ours"
    /\ then = "undoPam" => path = "config" /\ content = found["config"] /\ content # "ours"
    /\ then = "failed" => path = "pam" /\ content = found["pam"] /\ content # "ours"

SafeInv == InstallTypeOK /\ PrepInv /\ ApplyInv /\ JobInv /\ ThemeBeforeUse /\ Restorable

\* Before the try nothing is changed; in the rollback, sddm.conf is undone first.
RollInv ==
  opt = "apply" =>
    /\ pc \in {"backupConfig", "writeConfig", "backupPam", "writePam", "theme", "failed"} =>
         \A f \in Sddm : file[f] = "ours" => found[f] = "ours"
    /\ pc = "undoPam" \/ (pc \in Replacing /\ then = "failed") =>
         (file["config"] = "ours" => found["config"] = "ours")

\* restore takes sddm.conf first, and its child PAM.
RemoveInv ==
  opt = "remove" =>
    /\ pc \in {"child", "childDone", "ok"} \/ (pc \in Replacing /\ then = "childDone") =>
         file["config"] # "ours"
    /\ pc \in {"childDone", "ok"} => file["pam"] # "ours"

SwapInv == pc = "swap" => late \/ file[path] = expected

IInv == SafeInv /\ RollInv /\ RemoveInv /\ SwapInv

LEMMA InitIInv == InstallInit => IInv
  BY DEF InstallInit, SafeInv, InstallTypeOK, PrepInv, ApplyInv, JobInv, ThemeBeforeUse, Restorable,
         RollInv, RemoveInv, SwapInv, IInv,
         Files, Sddm, Applying, Target, Contents, Options, Places, Rest, Replacing, InTry, Undoing, Saved, AllSaved

\* A step that changes a backup and moves on keeps the types.
LEMMA BackupTypes ==
  ASSUME InstallTypeOK, UNCHANGED job \/ NoJob,
         pc' \in Places /\ UNCHANGED <<opt, found, file, theme>>,
         bak' \in [Files -> {"none", "part", "orig"}]
  PROVE  InstallTypeOK'
<1>1. CASE UNCHANGED job
  BY <1>1 DEF InstallTypeOK, job, args
<1>2. CASE NoJob
  BY <1>2 DEF InstallTypeOK, NoJob, Files, Sddm, Contents, Places, Rest
<1> QED BY <1>1, <1>2

LEMMA InstallerSteps == IInv /\ Installer => IInv'
<1> SUFFICES ASSUME IInv, Installer PROVE IInv'
  OBVIOUS
<1> USE DEF Files, Sddm, Applying, Target, Contents, Options, Places, Rest, Replacing, args, job, NoJob, InTry, Undoing, OnError,
           Saved, AllSaved, Original, Replace, At, GoTo, Start, run, InstallTypeOK, PrepInv, ApplyInv, JobInv,
           ThemeBeforeUse, Restorable, RollInv, RemoveInv, SwapInv, IInv, SafeInv
<1>1. CASE Apply
  BY <1>1 DEF Apply
<1>2. CASE Backups
  <2>a. bak' \in [Files -> {"none", "part", "orig"}]
    <3>1. opt = "apply" /\ pc \notin Rest => \A f \in Sddm : Original(found[f]) = "orig"
      OBVIOUS
    <3> QED BY <1>2, <3>1 DEF Backups, OpenBackup, WriteBackup
  <2>b. pc' \in Places /\ UNCHANGED <<opt, found, file, theme>>
    BY <1>2 DEF Backups, OpenBackup, WriteBackup
  <2>c. UNCHANGED job \/ NoJob
    BY <1>2 DEF Backups, OpenBackup, WriteBackup
  <2>1. InstallTypeOK'
    BY <2>a, <2>b, <2>c, BackupTypes
  <2>2. PrepInv'
    BY <1>2 DEF Backups, OpenBackup, WriteBackup
  <2>3. (ApplyInv /\ JobInv)'
    BY <1>2 DEF Backups, OpenBackup, WriteBackup
  <2>4. (ThemeBeforeUse /\ Restorable)'
    BY <1>2 DEF Backups, OpenBackup, WriteBackup
  <2>5. (RollInv /\ RemoveInv /\ SwapInv)'
    BY <1>2 DEF Backups, OpenBackup, WriteBackup
  <2> QED BY <2>1, <2>2, <2>3, <2>4, <2>5
<1>3. CASE InstallTheme
  BY <1>3 DEF InstallTheme
<1>4. CASE Select
  BY <1>4 DEF Select
<1>5. CASE Verify
  BY <1>5 DEF Verify
<1>6. CASE Rollback
  BY <1>6 DEF Rollback, Undo
<1>7. CASE Remove
  BY <1>7 DEF Remove
<1> QED
  BY <1>1, <1>2, <1>3, <1>4, <1>5, <1>6, <1>7 DEF Installer

LEMMA ChildSteps == IInv /\ PamChild => IInv'
<1> SUFFICES ASSUME IInv, PamChild PROVE IInv'
  OBVIOUS
<1> USE DEF Files, Sddm, Applying, Target, Contents, Options, Places, Rest, Replacing, args, job, NoJob, InTry, Undoing, OnError,
           Saved, AllSaved, Original, Replace, At, GoTo, Start, run, InstallTypeOK, PrepInv, ApplyInv, JobInv,
           ThemeBeforeUse, Restorable, RollInv, RemoveInv, SwapInv, IInv, SafeInv
<1>1. CASE \E o \in {"pamApply", "pamRemove", "sudoApply", "sudoRemove"} : PamTool(o)
  BY <1>1 DEF PamTool
<1>2. CASE ChildApplies
  <2>1. InstallTypeOK'
    BY <1>2 DEF ChildApplies
  <2>2. (PrepInv /\ ApplyInv /\ JobInv)'
    BY <1>2 DEF ChildApplies
  <2>3. (ThemeBeforeUse /\ Restorable)'
    BY <1>2 DEF ChildApplies
  <2>4. (RollInv /\ RemoveInv /\ SwapInv)'
    BY <1>2 DEF ChildApplies
  <2> QED BY <2>1, <2>2, <2>3, <2>4
<1>3. CASE ChildBackup
  <2>a. bak' \in [Files -> {"none", "part", "orig"}]
    <3>1. Target \in Files
      OBVIOUS
    <3> QED BY <1>3, <3>1 DEF ChildBackup, OpenBackup, WriteBackup
  <2>b. pc' \in Places /\ UNCHANGED <<opt, found, file, theme>>
    BY <1>3 DEF ChildBackup, OpenBackup, WriteBackup
  <2>c. UNCHANGED job \/ NoJob
    BY <1>3 DEF ChildBackup, OpenBackup, WriteBackup
  <2>1. InstallTypeOK'
    BY <2>a, <2>b, <2>c, BackupTypes
  <2>2. PrepInv'
    BY <1>3 DEF ChildBackup, OpenBackup, WriteBackup
  <2>3. (ApplyInv /\ JobInv)'
    BY <1>3 DEF ChildBackup, OpenBackup, WriteBackup
  <2>4. (ThemeBeforeUse /\ Restorable)'
    BY <1>3 DEF ChildBackup, OpenBackup, WriteBackup
  <2>5. (RollInv /\ RemoveInv /\ SwapInv)'
    BY <1>3 DEF ChildBackup, OpenBackup, WriteBackup
  <2> QED BY <2>1, <2>2, <2>3, <2>4, <2>5
<1>4. CASE ChildReplaces
  <2>1. InstallTypeOK'
    BY <1>4 DEF ChildReplaces
  <2>2. (PrepInv /\ ApplyInv /\ JobInv)'
    BY <1>4 DEF ChildReplaces
  <2>3. (ThemeBeforeUse /\ Restorable)'
    BY <1>4 DEF ChildReplaces
  <2>4. (RollInv /\ RemoveInv /\ SwapInv)'
    BY <1>4 DEF ChildReplaces
  <2> QED BY <2>1, <2>2, <2>3, <2>4
<1>5. CASE ChildRemoves
  <2>1. InstallTypeOK'
    BY <1>5 DEF ChildRemoves
  <2>2. (PrepInv /\ ApplyInv /\ JobInv)'
    BY <1>5 DEF ChildRemoves
  <2>3. (ThemeBeforeUse /\ Restorable)'
    BY <1>5 DEF ChildRemoves
  <2>4. (RollInv /\ RemoveInv /\ SwapInv)'
    BY <1>5 DEF ChildRemoves
  <2> QED BY <2>1, <2>2, <2>3, <2>4
<1>6. CASE ChildDone
  <2>1. InstallTypeOK'
    BY <1>6 DEF ChildDone
  <2>2. (PrepInv /\ ApplyInv /\ JobInv)'
    BY <1>6 DEF ChildDone
  <2>3. (ThemeBeforeUse /\ Restorable)'
    BY <1>6 DEF ChildDone
  <2>4. (RollInv /\ RemoveInv /\ SwapInv)'
    BY <1>6 DEF ChildDone
  <2> QED BY <2>1, <2>2, <2>3, <2>4
<1> QED
  BY <1>1, <1>2, <1>3, <1>4, <1>5, <1>6 DEF PamChild, SudoTool

LEMMA OtherSteps == IInv /\ InstallNext => Installer \/ PamChild \/ IInv'
<1> SUFFICES ASSUME IInv, InstallNext, ~Installer, ~PamChild PROVE IInv'
  OBVIOUS
<1> USE DEF Files, Sddm, Applying, Target, Contents, Options, Places, Rest, Replacing, args, job, NoJob, InTry, Undoing, OnError,
           Saved, AllSaved, GoTo, At, run, InstallTypeOK, PrepInv, ApplyInv, JobInv,
           ThemeBeforeUse, Restorable, RollInv, RemoveInv, SwapInv, IInv, SafeInv
<1>1. CASE Compare
  <2>1. CASE file[path] = expected
    <3>1. InstallTypeOK'
      BY <1>1, <2>1 DEF Compare
    <3>2. (PrepInv /\ ApplyInv)'
      BY <1>1, <2>1 DEF Compare
    <3>3. JobInv'
      BY <1>1, <2>1 DEF Compare
    <3>4. (ThemeBeforeUse /\ Restorable /\ RollInv /\ RemoveInv /\ SwapInv)'
      BY <1>1, <2>1 DEF Compare
    <3> QED BY <3>1, <3>2, <3>3, <3>4
  <2>2. CASE file[path] # expected
    <3>1. CASE InTry
      BY <1>1, <2>2, <3>1 DEF Compare
    <3>2. CASE ~InTry /\ Undoing
      BY <1>1, <2>2, <3>2 DEF Compare
    <3>3. CASE ~InTry /\ ~Undoing
      <4>1. pc' = "failed" /\ opt # "apply"
        BY <1>1, <2>2, <3>3 DEF Compare
      <4>2. InstallTypeOK'
        BY <1>1, <4>1 DEF Compare
      <4>3. (PrepInv /\ ApplyInv /\ JobInv /\ RollInv /\ RemoveInv /\ SwapInv)'
        BY <1>1, <4>1 DEF Compare
      <4>4. (ThemeBeforeUse /\ Restorable)'
        BY <1>1 DEF Compare
      <4> QED BY <4>2, <4>3, <4>4
    <3> QED BY <3>1, <3>2, <3>3
  <2> QED BY <2>1, <2>2
<1>2. CASE Swap
  <2>1. InstallTypeOK'
    BY <1>2 DEF Swap
  <2>2. PrepInv'
    BY <1>2 DEF Swap
  <2>3. (ApplyInv /\ JobInv)'
    BY <1>2 DEF Swap
  <2>4. (ThemeBeforeUse /\ Restorable)'
    BY <1>2 DEF Swap
  <2>5. (RollInv /\ RemoveInv /\ SwapInv)'
    BY <1>2 DEF Swap
  <2> QED BY <2>1, <2>2, <2>3, <2>4, <2>5
<1>3. CASE Fault
  <2>1. InstallTypeOK'
    BY <1>3 DEF Fault
  <2>2. PrepInv'
    BY <1>3 DEF Fault
  <2>3. (ApplyInv /\ JobInv)'
    BY <1>3 DEF Fault
  <2>4. (ThemeBeforeUse /\ Restorable)'
    BY <1>3 DEF Fault
  <2>5. (RollInv /\ RemoveInv /\ SwapInv)'
    BY <1>3 DEF Fault
  <2> QED BY <2>1, <2>2, <2>3, <2>4, <2>5
<1>4. CASE Kill
  <2>1. InstallTypeOK'
    BY <1>4 DEF Kill
  <2>2. PrepInv'
    BY <1>4 DEF Kill
  <2>3. (ApplyInv /\ JobInv)'
    BY <1>4 DEF Kill
  <2>4. (ThemeBeforeUse /\ Restorable)'
    BY <1>4 DEF Kill
  <2>5. (RollInv /\ RemoveInv /\ SwapInv)'
    BY <1>4 DEF Kill
  <2> QED BY <2>1, <2>2, <2>3, <2>4, <2>5
<1>5. CASE Orphan
  BY <1>5 DEF Orphan, InChild
<1>6. ASSUME NEW f \in Files, NEW c \in {"orig", "edited"}, Edit(f, c) PROVE IInv'
  <2>1. InstallTypeOK'
    BY <1>6 DEF Edit
  <2>2. \A g \in Files : file'[g] = "ours" => file[g] = "ours"
    BY <1>6 DEF Edit
  <2>3. (PrepInv /\ ApplyInv /\ JobInv)'
    BY <1>6 DEF Edit
  <2>4. (ThemeBeforeUse /\ Restorable)'
    BY <1>6, <2>2 DEF Edit
  <2>5. (RollInv /\ RemoveInv)'
    BY <1>6, <2>2 DEF Edit
  <2>6. SwapInv'
    BY <1>6 DEF Edit
  <2> QED BY <2>1, <2>3, <2>4, <2>5, <2>6
<1> QED
  BY <1>1, <1>2, <1>3, <1>4, <1>5, <1>6 DEF InstallNext

LEMMA Inductive == InstallSpec => []IInv
<1>1. IInv /\ UNCHANGED installVars => IInv'
  BY DEF installVars, run, args, job, IInv, SafeInv, InstallTypeOK, PrepInv, ApplyInv, JobInv, InTry, Undoing,
         Saved, AllSaved, Target, ThemeBeforeUse, Restorable, RollInv, RemoveInv, SwapInv
<1>2. IInv /\ [InstallNext]_installVars => IInv'
  BY <1>1, InstallerSteps, ChildSteps, OtherSteps
<1> QED
  BY <1>2, InitIInv, PTL DEF InstallSpec

-----------------------------------------------------------------------------
\* The variables keep their types; no backup ever holds a file that was edited.
THEOREM InstallTypes == InstallSpec => []InstallTypeOK
<1>1. IInv => InstallTypeOK
  BY DEF IInv, SafeInv
<1> QED
  BY <1>1, Inductive, PTL

\* sddm.conf never names a theme that is not installed.
THEOREM ThemeThere == InstallSpec => []ThemeBeforeUse
<1>1. IInv => ThemeBeforeUse
  BY DEF IInv, SafeInv
<1> QED
  BY <1>1, Inductive, PTL

\* Whatever was interrupted, the originals of what is installed are saved.
THEOREM AlwaysRestorable == InstallSpec => []Restorable
<1>1. IInv => Restorable
  BY DEF IInv, SafeInv
<1> QED
  BY <1>1, Inductive, PTL

\* A failed --apply whose rollback did not fail leaves nothing installed that it
\* did not find, and a --remove that says so has removed both changes.
THEOREM OutcomeIsTrue == InstallSpec => []OutcomeHolds
<1>1. IInv => OutcomeHolds
  BY DEF IInv, RollInv, RemoveInv, OutcomeHolds, Sddm
<1> QED
  BY <1>1, Inductive, PTL

\* Only an edit between comparison and rename can be overwritten.
THEOREM OnlyLateEditsLost == InstallSpec => ReplacesWhatItRead
<1>1. IInv => (pc = "swap" /\ file' # file /\ pc' # pc => late \/ file[path] = expected)
  BY DEF IInv, SwapInv
<1> QED
  BY <1>1, Inductive, PTL DEF ReplacesWhatItRead
=============================================================================
