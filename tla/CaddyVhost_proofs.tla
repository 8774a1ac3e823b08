------------------------- MODULE CaddyVhost_proofs -------------------------
(***************************************************************************)
(* What ensure-caddy-vhost.sh guarantees for every set of snippets: the    *)
(* files and the container keep their shape, the running Caddy never       *)
(* starts from a config it cannot load, what runs leave on disk can be     *)
(* loaded too, and exit 0 means that it is.  The inductive invariants say  *)
(* what each point of the script may rely on.                              *)
(***************************************************************************)
EXTENDS CaddyVhost, TLAPS

Pcs == {"check", "snippet", "override", "import", "decide", "validate", "up",
        "reload", "assert", "confirm", "probe"}

(* From the validation on, a container started from the files can load     *)
(* them.                                                                   *)
Validated ==
    run # None =>
        (run.pc \in {"up", "reload", "assert"} => Valid(Recreated(disk)))

(* Between the checks and the last rollback, the files and their backup    *)
(* agree on what is not the script's.                                      *)
OursToWrite ==
    run # None =>
        (run.pc \in {"snippet", "override", "import", "decide", "validate",
                     "up", "reload"} =>
            /\ disk.native = run.backup.native
            /\ disk.override # "foreign"
            /\ run.backup.override # "foreign")

StackInv == TypeOK /\ Valid(caddy) /\ Validated

(* None is neither a snippet nor a run.                                    *)
LEMMA NoneIsNoRun ==
    ASSUME TypeOK, run # None
    PROVE  run \in [pc : Pcs, wanted : Version, calm : BOOLEAN,
                    changed : BOOLEAN, backup : Disk]
BY DEF TypeOK, Run, Pcs

(* Moving on changes nothing of a run but where it is.                     *)
LEMMA MovedOn ==
    ASSUME TypeOK, run # None, NEW pc \in Pcs, Goto(pc)
    PROVE  /\ run' # None /\ run'.pc = pc /\ run'.backup = run.backup
           /\ run'.wanted = run.wanted /\ run'.changed = run.changed
<1>1. run' \in Run
    BY NoneIsNoRun DEF Goto, Run, Pcs
<1>2. run' # None
    BY <1>1, RunAssumption
<1> QED
    BY <1>2, NoneIsNoRun DEF Goto

(* What Caddy makes of well-formed files is a well-formed config.          *)
LEMMA LoadedType ==
    ASSUME NEW d \in Disk, NEW mounts \in BOOLEAN
    PROVE  Loaded(d, mounts) \in [mounts : BOOLEAN, native : BOOLEAN,
                                  vhost : Version \cup {None}]
BY DEF Loaded, Disk

LEMMA RecreatedType ==
    ASSUME NEW d \in Disk
    PROVE  Recreated(d) \in [mounts : BOOLEAN, native : BOOLEAN,
                             vhost : Version \cup {None}]
BY LoadedType DEF Recreated

(* Without the import line no snippet is loaded, so nothing can be wrong.  *)
LEMMA NoImportIsValid ==
    ASSUME NEW d \in Disk, ~d.import
    PROVE  Valid(Recreated(d))
BY DEF Recreated, Loaded, Valid, Disk

-----------------------------------------------------------------------------

LEMMA StackInit == Init => StackInv
<1> SUFFICES ASSUME Init PROVE StackInv
    OBVIOUS
<1>1. disk \in Disk /\ ~disk.import
    BY DEF Init
<1>2. /\ caddy = Recreated(disk) /\ run = None
      /\ unapplied = FALSE /\ exposed = FALSE
    BY DEF Init
<1>3. TypeOK
    BY <1>1, <1>2, RecreatedType DEF TypeOK
<1> QED
    BY <1>1, <1>2, <1>3, NoImportIsValid DEF StackInv, Validated

(* The shape of the state is kept by every step.                           *)
LEMMA TypeStep == TypeOK /\ [Next]_vars => TypeOK'
<1> SUFFICES ASSUME TypeOK, [Next]_vars PROVE TypeOK'
    OBVIOUS
<1> DEFINE Caddy == [mounts : BOOLEAN, native : BOOLEAN,
                     vhost : Version \cup {None}]
<1> SUFFICES /\ disk' \in Disk /\ caddy' \in Caddy
             /\ run' = None \/ run' \in Run
             /\ unapplied' \in BOOLEAN /\ exposed' \in BOOLEAN
    BY DEF TypeOK, Pcs
<1>0. /\ disk \in Disk /\ caddy \in Caddy
      /\ run = None \/ run \in Run
      /\ unapplied \in BOOLEAN /\ exposed \in BOOLEAN
    BY DEF TypeOK, Pcs
<1>a. run # None => run \in Run /\ run.backup \in Disk /\ run.wanted \in Version
    BY <1>0 DEF Run
<1>b. /\ Behind(disk) \in BOOLEAN /\ Behind(run.backup) \in BOOLEAN
      /\ (run.pc \in {"override", "import", "decide", "validate"}) \in BOOLEAN
      /\ (exposed /\ run.changed) \in BOOLEAN
      /\ (exposed /\ run # None) \in BOOLEAN
    BY DEF Behind
<1> HIDE DEF Caddy
<1>g. ASSUME NEW pc \in Pcs, run # None, Goto(pc) PROVE run' \in Run
    BY <1>a, <1>g DEF Goto, Run, Pcs
<1>1. ASSUME NEW v \in Version, NEW calm \in BOOLEAN, Start(v, calm)
      PROVE  run' \in Run /\ UNCHANGED <<disk, caddy, unapplied, exposed>>
    BY <1>0, <1>1 DEF Start, Run, Pcs
<1>2. CASE StepAside
    BY <1>0, <1>g, <1>2 DEF StepAside, At, Pcs
<1>3. CASE RefuseForeign
    BY <1>0, <1>3 DEF RefuseForeign
<1>4. CASE Backup
    <2>1. run' \in Run
        BY <1>0, <1>a, <1>4 DEF Backup, At, Run, Pcs
    <2> QED
        BY <1>0, <1>4, <2>1 DEF Backup
<1>i. ASSUME NEW d \in Disk, NEW pc \in Pcs, run # None, Install(d, pc)
      PROVE  /\ disk' \in Disk /\ caddy' = caddy
             /\ run' \in Run /\ UNCHANGED <<unapplied, exposed>>
    <2>1. run' \in Run
        BY <1>a, <1>i DEF Install, Run, Pcs
    <2> QED
        BY <1>i, <2>1 DEF Install
<1>5. CASE WriteSnippet
    <2>1. [disk EXCEPT !.snippet = run.wanted] \in Disk
        BY <1>0, <1>a, <1>5 DEF WriteSnippet, At, Disk
    <2> QED
        BY <1>0, <1>i, <1>5, <2>1 DEF WriteSnippet, At, Pcs
<1>6. CASE WriteOverride
    <2>1. [disk EXCEPT !.override = "managed"] \in Disk
        BY <1>0 DEF Disk
    <2> QED
        BY <1>0, <1>i, <1>6, <2>1 DEF WriteOverride, At, Pcs
<1>7. CASE AppendImport
    <2>1. [disk EXCEPT !.import = TRUE] \in Disk
        BY <1>0 DEF Disk
    <2> QED
        BY <1>0, <1>i, <1>7, <2>1 DEF AppendImport, At, Pcs
<1>8. CASE Decide
    BY <1>0, <1>g, <1>8 DEF Decide, At, Pcs
<1>9. CASE Validate
    BY <1>0, <1>b, <1>g, <1>9 DEF Validate, At, Pcs
<1>10. CASE ValidateFails
    BY <1>0, <1>a, <1>10 DEF ValidateFails, At, rollback
<1>11. CASE Up
    BY <1>0, <1>g, <1>11, RecreatedType DEF Up, At, Pcs, Caddy
<1>12. CASE Reload
    <2>1. Loaded(disk, caddy.mounts) \in Caddy
        BY <1>0, LoadedType DEF Caddy
    <2> QED
        BY <1>0, <1>g, <1>12, <2>1 DEF Reload, At, Pcs
<1>13. CASE ReloadFails
    <2>1. run # None /\ run.backup \in Disk
        BY <1>a, <1>13 DEF ReloadFails, At
    <2>2. Loaded(run.backup, caddy.mounts) \in Caddy
        BY <1>0, <2>1, LoadedType DEF Caddy
    <2>3. disk' = run.backup /\ run' = None
        BY <1>13 DEF ReloadFails, rollback
    <2>4. caddy' \in Caddy
        BY <1>0, <1>13, <2>2 DEF ReloadFails
    <2>5. unapplied' \in BOOLEAN /\ exposed' \in BOOLEAN
        BY <1>0, <1>b, <1>13 DEF ReloadFails
    <2> QED
        BY <2>1, <2>3, <2>4, <2>5
<1>14. CASE AssertMounts
    <2>1. run # None
        BY <1>14 DEF AssertMounts, At
    <2>2. Recreated(disk) \in Caddy
        BY <1>0, RecreatedType DEF Caddy
    <2>3. run' = None \/ run' \in Run
        BY <1>g, <1>14, <2>1 DEF AssertMounts, Pcs
    <2>4. /\ caddy' \in Caddy /\ disk' = disk
          /\ unapplied' \in BOOLEAN /\ exposed' \in BOOLEAN
        BY <1>0, <1>14, <2>2 DEF AssertMounts
    <2> QED
        BY <1>0, <2>3, <2>4
<1>15. CASE Confirm
    BY <1>0, <1>g, <1>15 DEF Confirm, At, Pcs
<1>16. CASE Probe
    BY <1>0, <1>16 DEF Probe
<1>17. CASE Die
    BY <1>0, <1>b, <1>17 DEF Die
<1>18. ASSUME NEW native \in BOOLEAN, NEW override \in {"none", "foreign"},
              InfraDeploy(native, override)
       PROVE  disk' \in Disk /\ caddy' \in Caddy /\ run' = run
              /\ unapplied' = FALSE /\ exposed' \in BOOLEAN
    <2>1. disk' \in Disk
        BY <1>18 DEF InfraDeploy, Disk
    <2> QED
        BY <1>b, <1>18, <2>1, RecreatedType DEF InfraDeploy, Caddy
<1>19. CASE UNCHANGED vars
    BY <1>0, <1>19 DEF vars
<1> QED
    BY <1>0, <1>1, <1>2, <1>3, <1>4, <1>5, <1>6, <1>7, <1>8, <1>9, <1>10,
       <1>11, <1>12, <1>13, <1>14, <1>15, <1>16, <1>17, <1>18, <1>19
       DEF Next, Script

(* The running Caddy keeps a config it can load, and so does every point   *)
(* from which the container may be recreated.                              *)
LEMMA StackStep == StackInv /\ [Next]_vars => StackInv'
<1> SUFFICES ASSUME StackInv, [Next]_vars PROVE StackInv'
    OBVIOUS
<1>0. TypeOK /\ Valid(caddy) /\ Validated
    BY DEF StackInv
<1>t. TypeOK'
    BY <1>0, TypeStep
<1> SUFFICES Valid(caddy)' /\ Validated'
    BY <1>t DEF StackInv
<1>v. ASSUME run # None PROVE run.backup \in Disk
    BY <1>0, <1>v, NoneIsNoRun
(* A step that only moves on, or ends the run, to where nothing is asked.  *)
<1>g. ASSUME NEW pc \in Pcs, run # None, Goto(pc),
             disk' = disk, caddy' = caddy,
             pc \in {"up", "reload", "assert"} => Valid(Recreated(disk))
      PROVE  Valid(caddy)' /\ Validated'
    <2>1. run'.pc = pc
        BY <1>0, <1>g, NoneIsNoRun DEF Goto
    <2> QED
        BY <1>0, <1>g, <2>1 DEF Validated, Recreated, Loaded, Valid
<1>e. ASSUME run' = None, Valid(caddy)' PROVE Valid(caddy)' /\ Validated'
    BY <1>e DEF Validated
<1>c. ASSUME caddy' = caddy PROVE Valid(caddy)'
    BY <1>0, <1>c DEF Valid
<1>1. ASSUME NEW v \in Version, NEW calm \in BOOLEAN, Start(v, calm)
      PROVE  Valid(caddy)' /\ Validated'
    BY <1>0, <1>c, <1>1 DEF Start, Validated
<1>2. CASE StepAside
    BY <1>0, <1>g, <1>2 DEF StepAside, At, Pcs
<1>3. CASE RefuseForeign
    BY <1>c, <1>e, <1>3 DEF RefuseForeign
<1>4. CASE Backup
    <2>1. run'.pc = "snippet"
        BY <1>0, <1>4, NoneIsNoRun DEF Backup, At
    <2> QED
        BY <1>c, <1>4, <2>1 DEF Backup, Validated
<1>5. ASSUME NEW d, NEW pc \in {"override", "import", "decide"},
             run # None, Install(d, pc)
      PROVE  Valid(caddy)' /\ Validated'
    <2>1. run'.pc = pc
        BY <1>0, <1>5, NoneIsNoRun DEF Install
    <2> QED
        BY <1>c, <1>5, <2>1 DEF Install, Validated
<1>6. CASE WriteSnippet \/ WriteOverride \/ AppendImport
    BY <1>5, <1>6 DEF WriteSnippet, WriteOverride, AppendImport, At
<1>7. CASE Decide
    BY <1>0, <1>g, <1>7 DEF Decide, At, Pcs
<1>8. CASE Validate
    BY <1>0, <1>g, <1>8 DEF Validate, At, Pcs
<1>9. CASE ValidateFails
    BY <1>c, <1>e, <1>9 DEF ValidateFails
<1>10. CASE Up
    <2>1. /\ run # None /\ run.pc = "up" /\ Goto("reload") /\ disk' = disk
          /\ caddy' = caddy \/ caddy' = Recreated(disk)
        BY <1>10 DEF Up, At
    <2>2. Valid(Recreated(disk))
        BY <1>0, <2>1 DEF Validated
    <2>3. Valid(caddy)'
        BY <1>0, <2>1, <2>2 DEF Valid
    <2> QED
        BY <2>1, <2>2, <2>3 DEF Validated, Recreated, Loaded, Valid
<1>11. CASE Reload
    <2>1. /\ run # None /\ run.pc = "reload" /\ disk' = disk
          /\ Valid(Loaded(disk, caddy.mounts))
          /\ caddy' = Loaded(disk, caddy.mounts)
        BY <1>11 DEF Reload, At
    <2>2. Valid(Recreated(disk))
        BY <1>0, <2>1 DEF Validated
    <2>3. Valid(caddy)'
        BY <2>1 DEF Valid
    <2> QED
        BY <2>1, <2>2, <2>3 DEF Validated, Recreated, Loaded, Valid
<1>12. CASE ReloadFails
    <2>1. Valid(caddy)'
        BY <1>0, <1>12 DEF ReloadFails, Valid
    <2> QED
        BY <1>e, <1>12, <2>1 DEF ReloadFails
<1>13. CASE AssertMounts
    <2>1. /\ run # None /\ run.pc = "assert" /\ disk' = disk
          /\ Goto("confirm") \/ run' = None
          /\ caddy' = caddy \/ caddy' = Recreated(disk)
        BY <1>13 DEF AssertMounts, At
    <2>2. Valid(Recreated(disk))
        BY <1>0, <2>1 DEF Validated
    <2>3. Valid(caddy)'
        BY <1>0, <2>1, <2>2 DEF Valid
    <2>4. run' = None \/ run'.pc = "confirm"
        BY <1>0, <2>1, NoneIsNoRun DEF Goto
    <2> QED
        BY <2>3, <2>4 DEF Validated
<1>14. CASE Confirm
    <2>1. /\ run # None /\ disk' = disk /\ caddy' = caddy
          /\ Goto("probe") \/ run' = None
        BY <1>14 DEF Confirm, At
    <2> QED
        BY <1>c, <1>e, <1>g, <2>1 DEF Pcs
<1>15. CASE Probe
    BY <1>c, <1>e, <1>15 DEF Probe
<1>16. CASE Die
    BY <1>c, <1>e, <1>16 DEF Die
<1>17. ASSUME NEW native \in BOOLEAN, NEW override \in {"none", "foreign"},
              InfraDeploy(native, override)
       PROVE  Valid(caddy)' /\ Validated'
    <2>1. disk' \in Disk /\ ~disk'.import
        BY <1>17 DEF InfraDeploy, Disk
    <2>2. Valid(Recreated(disk'))
        BY <2>1, NoImportIsValid
    <2>3. caddy' = Recreated(disk') /\ run' = run
        BY <1>17 DEF InfraDeploy
    <2> QED
        BY <2>2, <2>3 DEF Validated, Recreated, Loaded, Valid
<1>18. CASE UNCHANGED vars
    BY <1>0, <1>18 DEF vars, Validated, Recreated, Loaded, Valid
<1> QED
    BY <1>1, <1>2, <1>3, <1>4, <1>6, <1>7, <1>8, <1>9, <1>10, <1>11, <1>12,
       <1>13, <1>14, <1>15, <1>16, <1>17, <1>18 DEF Next, Script

(* The files, the container and the run keep their shape.                  *)
THEOREM VhostTypeCorrect == Spec => []TypeOK
<1>1. Init => TypeOK
    BY StackInit DEF StackInv
<1> QED
    BY <1>1, TypeStep, PTL DEF Spec

(* Whatever is wanted, wherever runs die and even if onym-infra deploys in *)
(* the middle of one, the shared Caddy never runs or starts from a config  *)
(* it cannot load (the validation before `docker compose up`).             *)
THEOREM SharedCaddyStaysUp == Spec => []StackStaysUp
<1>1. StackInv => StackStaysUp
    BY DEF StackInv, StackStaysUp
<1> QED
    BY StackInit, StackStep, <1>1, PTL DEF Spec

-----------------------------------------------------------------------------
(* What is on disk between runs                                            *)

(* Unless a run left files that nothing has validated: until a run writes  *)
(* something, and from its last check on, a container could be started     *)
(* from the files on disk; in between, from the ones it would restore.     *)
Restorable ==
    ~exposed =>
        /\ run = None => Valid(Recreated(disk))
        /\ run # None =>
            /\ run.pc \in {"check", "snippet", "confirm", "probe"}
                  => Valid(Recreated(disk))
            /\ run.pc \in {"override", "import", "decide"} /\ ~run.changed
                  => Valid(Recreated(disk))
            /\ run.pc \in {"snippet", "override", "import", "decide",
                           "validate", "up", "reload"}
                  => Valid(Recreated(run.backup))

LEMMA RestorableInit == Init => Restorable
BY NoImportIsValid DEF Init, Restorable

LEMMA RestorableStep == StackInv /\ Restorable /\ [Next]_vars => Restorable'
<1> SUFFICES ASSUME StackInv, Restorable, [Next]_vars PROVE Restorable'
    OBVIOUS
<1>0. TypeOK /\ Validated
    BY DEF StackInv
(* Same files, same answer.                                                *)
<1>d. ASSUME disk' = disk, Valid(Recreated(disk)) PROVE Valid(Recreated(disk))'
    BY <1>d DEF Valid, Recreated, Loaded
(* The run ends with files a container could be started from.              *)
<1>e. ASSUME run' = None, ~exposed' => Valid(Recreated(disk))'
      PROVE  Restorable'
    BY <1>e DEF Restorable
(* The run moves on and leaves the files alone.                            *)
<1>g. ASSUME NEW pc \in Pcs, run # None, Goto(pc), disk' = disk,
             ~exposed' /\ pc \in {"confirm", "probe"} => Valid(Recreated(disk)),
             ~exposed' /\ pc \in {"validate", "up", "reload"}
                => Valid(Recreated(run.backup)),
             pc \in {"validate", "up", "reload", "assert", "confirm", "probe"}
      PROVE  Restorable'
    <2>1. run' # None /\ run'.pc = pc /\ run'.backup = run.backup
        BY <1>0, <1>g, MovedOn
    <2>2. Valid(Recreated(run.backup)) => Valid(Recreated(run.backup))'
        BY <2>1 DEF Valid, Recreated, Loaded
    <2> QED
        BY <1>d, <1>g, <2>1, <2>2 DEF Restorable
<1>1. ASSUME NEW v \in Version, NEW calm \in BOOLEAN, Start(v, calm)
      PROVE  Restorable'
    <2>1. run = None /\ run'.pc = "check" /\ disk' = disk /\ exposed' = exposed
        BY <1>1 DEF Start
    <2>2. run' \in Run
        BY <1>0, <1>1 DEF Start, Run, TypeOK
    <2>3. run' # None
        BY <2>2, RunAssumption
    <2> QED
        BY <1>d, <2>1, <2>3 DEF Restorable
<1>2. CASE StepAside
    BY <1>g, <1>2 DEF StepAside, At, Pcs, Restorable
<1>3. CASE RefuseForeign
    BY <1>d, <1>e, <1>3 DEF RefuseForeign, At, Restorable
<1>4. CASE Backup
    <2>1. /\ run # None /\ run.pc = "check" /\ run'.pc = "snippet"
          /\ run'.backup = disk /\ disk' = disk /\ exposed' = exposed
        BY <1>0, <1>4, NoneIsNoRun DEF Backup, At
    <2>2. run' # None
        BY <1>0, <1>4, NoneIsNoRun, RunAssumption
           DEF Backup, At, Run, Pcs, TypeOK
    <2>3. Valid(Recreated(disk)) => Valid(Recreated(run'.backup))
        BY <2>1
    <2> QED
        BY <1>d, <2>1, <2>2, <2>3 DEF Restorable
(* A write: whatever it does to the files, the backup is what it was, and  *)
(* a run that has changed nothing has left them as they were.              *)
<1>i. ASSUME NEW d, NEW pc \in {"override", "import", "decide"},
             run # None, run.pc \in {"snippet", "override", "import"},
             Install(d, pc)
      PROVE  Restorable'
    <2>1. /\ run'.pc = pc /\ run'.backup = run.backup /\ exposed' = exposed
          /\ ~run'.changed => ~run.changed /\ disk' = disk
        BY <1>0, <1>i, NoneIsNoRun DEF Install
    <2>2. Valid(Recreated(run.backup)) => Valid(Recreated(run.backup))'
        BY <2>1 DEF Valid, Recreated, Loaded
    <2>3. pc \notin {"check", "snippet", "confirm", "probe", "validate", "up",
                     "reload"}
        OBVIOUS
    <2>4. ~exposed => Valid(Recreated(run.backup))
        BY <1>i DEF Restorable
    <2>5. ~exposed /\ ~run.changed => Valid(Recreated(disk))
        BY <1>i DEF Restorable
    <2>6. run' # None
        BY <1>0, <1>i, NoneIsNoRun, RunAssumption DEF Install, Run, Pcs
    <2> QED
        BY <1>d, <1>i, <2>1, <2>2, <2>3, <2>4, <2>5, <2>6 DEF Restorable
<1>5. CASE WriteSnippet \/ WriteOverride \/ AppendImport
    BY <1>i, <1>5 DEF WriteSnippet, WriteOverride, AppendImport, At
<1>6. CASE Decide
    BY <1>g, <1>6 DEF Decide, At, Pcs, Restorable
<1>7. CASE Validate
    BY <1>g, <1>7 DEF Validate, At, Pcs, Restorable
<1>8. CASE ValidateFails \/ ReloadFails
    <2>1. /\ run # None /\ run.pc \in {"validate", "reload"}
          /\ run' = None /\ disk' = run.backup /\ exposed' = exposed
        BY <1>8 DEF ValidateFails, ReloadFails, rollback, At
    <2>2. ~exposed => Valid(Recreated(run.backup))
        BY <2>1 DEF Restorable
    <2>3. Valid(Recreated(run.backup)) => Valid(Recreated(disk))'
        BY <2>1 DEF Valid, Recreated, Loaded
    <2> QED
        BY <1>e, <2>1, <2>2, <2>3
<1>9. CASE Up
    BY <1>g, <1>9 DEF Up, At, Pcs, Restorable
<1>10. CASE Reload
    BY <1>g, <1>10 DEF Reload, At, Pcs
<1>11. CASE AssertMounts
    <2>1. /\ run # None /\ disk' = disk /\ exposed' = exposed
          /\ Goto("confirm") \/ run' = None
        BY <1>11 DEF AssertMounts, At
    <2>2. Valid(Recreated(disk))
        BY <1>0, <1>11 DEF AssertMounts, At, Validated
    <2> QED
        BY <1>d, <1>e, <1>g, <2>1, <2>2 DEF Pcs
<1>12. CASE Confirm
    <2>1. /\ run # None /\ disk' = disk /\ exposed' = exposed
          /\ Goto("probe") \/ run' = None
          /\ ~exposed => Valid(Recreated(disk))
        BY <1>12 DEF Confirm, At, Restorable
    <2> QED
        BY <1>d, <1>e, <1>g, <2>1 DEF Pcs
<1>13. CASE Probe
    BY <1>d, <1>e, <1>13 DEF Probe, At, Restorable
<1>14. CASE Die
    <2>1. /\ run # None /\ run' = None /\ disk' = disk
          /\ ~exposed' => ~exposed
          /\ ~exposed' => run.pc \notin {"override", "import", "decide",
                                        "validate"}
        BY <1>14 DEF Die
    <2>2. run.pc \in Pcs
        BY <1>0, <2>1, NoneIsNoRun
    <2>3. ~exposed' => Valid(Recreated(disk))
        BY <1>0, <2>1, <2>2 DEF Restorable, Validated, Pcs
    <2> QED
        BY <1>d, <1>e, <2>1, <2>3
<1>15. ASSUME NEW native \in BOOLEAN, NEW override \in {"none", "foreign"},
              InfraDeploy(native, override)
       PROVE  Restorable'
    <2>1. disk' \in Disk /\ ~disk'.import
        BY <1>15 DEF InfraDeploy, Disk
    <2>2. Valid(Recreated(disk'))
        BY <2>1, NoImportIsValid
    <2>3. Valid(Recreated(disk))'
        BY <2>2 DEF Valid, Recreated, Loaded
    <2>4. run' = run /\ (exposed' = (exposed /\ run # None))
        BY <1>15 DEF InfraDeploy
    <2>5. Valid(Recreated(run.backup)) => Valid(Recreated(run.backup))'
        BY <2>4 DEF Valid, Recreated, Loaded
    <2> QED
        BY <2>3, <2>4, <2>5 DEF Restorable
<1>16. CASE UNCHANGED vars
    <2>1. disk' = disk /\ run' = run /\ exposed' = exposed
        BY <1>16 DEF vars
    <2>2. Valid(Recreated(run.backup)) => Valid(Recreated(run.backup))'
        BY <2>1 DEF Valid, Recreated, Loaded
    <2> QED
        BY <1>d, <2>1, <2>2 DEF Restorable
<1> QED
    BY <1>1, <1>2, <1>3, <1>4, <1>5, <1>6, <1>7, <1>8, <1>9, <1>10, <1>11,
       <1>12, <1>13, <1>14, <1>15, <1>16 DEF Next, Script

(* Between runs a container can be started from the files on disk, however *)
(* many runs were rolled back and even if onym-infra deployed in the       *)
(* middle of one, unless one died before what it wrote was validated and   *)
(* no later run or deploy has replaced that (both rollbacks of the script).*)
THEOREM FilesSurviveRestart == Spec => []RestartSafe
<1>1. Restorable => RestartSafe
    BY DEF Restorable, RestartSafe
<1> QED
    BY StackInit, StackStep, RestorableInit, RestorableStep, <1>1, PTL DEF Spec

-----------------------------------------------------------------------------

LEMMA OursInit == Init => OursToWrite
BY DEF Init, OursToWrite

(* Without an overlapping deploy, a run that passed its checks works on    *)
(* files that stay its own until the backup is of no more use.             *)
LEMMA OursStep ==
    ASSUME Overlap = FALSE
    PROVE  TypeOK /\ OursToWrite /\ [Next]_vars => OursToWrite'
<1> SUFFICES ASSUME TypeOK, OursToWrite, [Next]_vars PROVE OursToWrite'
    OBVIOUS
<1> DEFINE Ours(d, b) ==
      d.native = b.native /\ d.override # "foreign" /\ b.override # "foreign"
<1>g. ASSUME NEW pc \in Pcs, run # None, Goto(pc), disk' = disk,
             pc \in {"validate", "up", "reload"} => Ours(disk, run.backup),
             pc \notin {"snippet", "override", "import", "decide"}
      PROVE  OursToWrite'
    <2>1. run'.pc = pc /\ run'.backup = run.backup
        BY <1>g, NoneIsNoRun DEF Goto
    <2> QED
        BY <1>g, <2>1 DEF OursToWrite
<1>e. ASSUME run' = None PROVE OursToWrite'
    BY <1>e DEF OursToWrite
<1>1. ASSUME NEW v \in Version, NEW calm \in BOOLEAN, Start(v, calm)
      PROVE  OursToWrite'
    BY <1>1 DEF Start, OursToWrite
<1>2. CASE StepAside
    BY <1>g, <1>2 DEF StepAside, At, Pcs
<1>3. CASE Backup
    <2>1. run'.pc = "snippet" /\ run'.backup = disk
        BY <1>3, NoneIsNoRun DEF Backup, At
    <2> QED
        BY <1>3, <2>1 DEF Backup, OursToWrite
<1>i. ASSUME NEW d, NEW pc, run # None, Install(d, pc),
             Ours(d, run.backup)
      PROVE  OursToWrite'
    <2>1. run'.backup = run.backup /\ disk' = d
        BY <1>i, NoneIsNoRun DEF Install
    <2> QED
        BY <1>i, <2>1 DEF OursToWrite
<1>4. CASE WriteSnippet \/ WriteOverride \/ AppendImport
    <2>1. run # None /\ disk \in Disk /\ Ours(disk, run.backup)
        BY <1>4 DEF WriteSnippet, WriteOverride, AppendImport, At,
                    OursToWrite, TypeOK
    <2>2. /\ Ours([disk EXCEPT !.snippet = run.wanted], run.backup)
          /\ Ours([disk EXCEPT !.override = "managed"], run.backup)
          /\ Ours([disk EXCEPT !.import = TRUE], run.backup)
        BY <2>1 DEF Disk
    <2> HIDE DEF Ours
    <2> QED
        BY <1>4, <1>i, <2>1, <2>2 DEF WriteSnippet, WriteOverride, AppendImport
<1>5. CASE Decide
    BY <1>g, <1>5 DEF Decide, At, Pcs, OursToWrite
<1>6. CASE Validate
    BY <1>g, <1>6 DEF Validate, At, Pcs, OursToWrite
<1>7. CASE Up
    BY <1>g, <1>7 DEF Up, At, Pcs, OursToWrite
<1>8. CASE Reload
    BY <1>g, <1>8 DEF Reload, At, Pcs
<1>9. CASE AssertMounts
    BY <1>e, <1>g, <1>9 DEF AssertMounts, At, Pcs
<1>10. CASE Confirm
    BY <1>e, <1>g, <1>10 DEF Confirm, At, Pcs
<1>11. CASE RefuseForeign \/ ValidateFails \/ ReloadFails \/ Probe \/ Die
    BY <1>e, <1>11 DEF RefuseForeign, ValidateFails, ReloadFails, Probe, Die
<1>12. ASSUME NEW native, NEW override, InfraDeploy(native, override)
       PROVE  OursToWrite'
    BY <1>12 DEF InfraDeploy, OursToWrite
<1>13. CASE UNCHANGED vars
    BY <1>13 DEF vars, OursToWrite
<1> QED
    BY <1>1, <1>2, <1>3, <1>4, <1>5, <1>6, <1>7, <1>8, <1>9, <1>10, <1>11,
       <1>12, <1>13 DEF Next, Script

-----------------------------------------------------------------------------
(* What exit 0 means                                                       *)

(* What the run has written so far is on disk, and a run that has changed  *)
(* nothing yet leaves the files it backed up.                              *)
FilesInPlace ==
    run # None =>
        /\ run.pc = "check" => run.backup = disk
        /\ run.pc \in {"snippet", "override", "import", "decide", "validate"}
              /\ ~run.changed => run.backup = disk
        /\ run.pc \in {"override", "import", "decide", "validate", "up",
                       "reload", "assert", "confirm"}
              => disk.snippet = run.wanted
        /\ run.pc \in {"import", "decide", "validate", "up", "reload",
                       "assert", "confirm"}
              => disk.override = "managed"
        /\ run.pc \in {"decide", "validate", "up", "reload", "assert",
                       "confirm"}
              => disk.import

(* The container is only behind files that a run left unapplied, or that   *)
(* the run in progress has yet to apply.                                   *)
Applied ==
    /\ caddy.native = disk.native
    /\ run = None /\ ~unapplied => ~Behind(disk)
    /\ run # None =>
        /\ run.pc \in {"check", "snippet", "override", "import", "decide",
                       "validate", "up"} /\ ~unapplied
              => ~Behind(run.backup)
        /\ run.pc = "validate" /\ ~run.changed => ~caddy.mounts
        /\ run.pc = "assert" /\ caddy.mounts => caddy = Loaded(disk, TRUE)
        /\ run.pc = "confirm" => caddy = Loaded(disk, TRUE)
        /\ run.pc = "probe" /\ ~unapplied =>
              ~Behind(disk) /\ (caddy.native \/ caddy.vhost = run.wanted)

(* A container started from the files as they are is not behind them.      *)
LEMMA RecreatedFacts ==
    ASSUME NEW d \in Disk, caddy = Recreated(d)
    PROVE  caddy.native = d.native /\ ~Behind(d)
<1>1. CASE d.override = "managed"
    <2>1. caddy = Loaded(d, TRUE)
        BY <1>1 DEF Recreated
    <2> QED
        BY <2>1 DEF Behind, Loaded
<1>2. CASE d.override # "managed"
    <2>1. caddy = Loaded(d, FALSE)
        BY <1>2 DEF Recreated
    <2> QED
        BY <2>1 DEF Behind, Loaded
<1> QED
    BY <1>1, <1>2

LEMMA ExitInit == Init => FilesInPlace /\ Applied
BY RecreatedFacts DEF Init, FilesInPlace, Applied

(* The steps of a run by what they do to it: begin, move on, write, end.   *)
LEMMA FilesStep ==
    ASSUME Overlap = FALSE
    PROVE  TypeOK /\ FilesInPlace /\ [Next]_vars => FilesInPlace'
<1> SUFFICES ASSUME TypeOK, FilesInPlace, [Next]_vars PROVE FilesInPlace'
    OBVIOUS
<1>d. disk \in Disk
    BY DEF TypeOK
<1>e. ASSUME run' = None PROVE FilesInPlace'
    BY <1>e DEF FilesInPlace
<1>1. ASSUME NEW v \in Version, NEW calm \in BOOLEAN, Start(v, calm)
      PROVE  FilesInPlace'
    BY <1>1 DEF Start, FilesInPlace
(* The files written so far stay, and the next point asks for no more.     *)
<1>g. ASSUME NEW pc \in Pcs, run # None, Goto(pc), disk' = disk,
             pc = "validate" => run.pc = "decide",
             pc \in {"up", "reload", "assert", "confirm"} =>
                 run.pc \in {"validate", "up", "reload", "assert"},
             pc \notin {"check", "snippet", "override", "import", "decide"}
      PROVE  FilesInPlace'
    <2>1. /\ run'.pc = pc /\ run'.backup = run.backup
          /\ run'.wanted = run.wanted /\ run'.changed = run.changed
        BY <1>g, NoneIsNoRun DEF Goto
    <2> QED
        BY <1>g, <2>1 DEF FilesInPlace
<1>2. CASE StepAside
    BY <1>g, <1>2 DEF StepAside, At, Pcs
<1>3. CASE Backup
    <2>1. /\ run'.pc = "snippet" /\ run'.backup = disk /\ disk' = disk
        BY <1>3, NoneIsNoRun DEF Backup, At
    <2> QED
        BY <2>1 DEF FilesInPlace
<1>i. ASSUME NEW d, NEW pc, run # None, Install(d, pc)
      PROVE  /\ disk' = d /\ run'.pc = pc /\ run'.wanted = run.wanted
             /\ run'.backup = run.backup
             /\ ~run'.changed => ~run.changed /\ d = disk
    BY <1>i, NoneIsNoRun DEF Install
<1>4. CASE WriteSnippet
    <2> DEFINE d == [disk EXCEPT !.snippet = run.wanted]
    <2>1. run # None /\ run.pc = "snippet" /\ Install(d, "override")
        BY <1>4 DEF WriteSnippet, At
    <2>2. d.snippet = run.wanted
        BY <1>d DEF Disk
    <2> HIDE DEF d
    <2> QED
        BY <1>i, <2>1, <2>2 DEF FilesInPlace
<1>5. CASE WriteOverride
    <2> DEFINE d == [disk EXCEPT !.override = "managed"]
    <2>1. run # None /\ run.pc = "override" /\ Install(d, "import")
        BY <1>5 DEF WriteOverride, At
    <2>2. d.snippet = disk.snippet /\ d.override = "managed"
        BY <1>d DEF Disk
    <2> HIDE DEF d
    <2> QED
        BY <1>i, <2>1, <2>2 DEF FilesInPlace
<1>6. CASE AppendImport
    <2> DEFINE d == [disk EXCEPT !.import = TRUE]
    <2>1. run # None /\ run.pc = "import" /\ Install(d, "decide")
        BY <1>6 DEF AppendImport, At
    <2>2. d.snippet = disk.snippet /\ d.override = disk.override /\ d.import
        BY <1>d DEF Disk
    <2> HIDE DEF d
    <2> QED
        BY <1>i, <2>1, <2>2 DEF FilesInPlace
<1>7. CASE Decide
    BY <1>g, <1>7 DEF Decide, At, Pcs
<1>8. CASE Validate
    BY <1>g, <1>8 DEF Validate, At, Pcs
<1>9. CASE Up
    BY <1>g, <1>9 DEF Up, At, Pcs
<1>10. CASE Reload
    BY <1>g, <1>10 DEF Reload, At, Pcs
<1>11. CASE AssertMounts
    BY <1>e, <1>g, <1>11 DEF AssertMounts, At, Pcs
<1>12. CASE Confirm
    BY <1>e, <1>g, <1>12 DEF Confirm, At, Pcs
<1>13. CASE RefuseForeign \/ ValidateFails \/ ReloadFails \/ Probe \/ Die
    BY <1>e, <1>13 DEF RefuseForeign, ValidateFails, ReloadFails, Probe, Die
<1>14. ASSUME NEW native, NEW override, InfraDeploy(native, override)
       PROVE  FilesInPlace'
    BY <1>14 DEF InfraDeploy, FilesInPlace
<1>15. CASE UNCHANGED vars
    BY <1>15 DEF vars, FilesInPlace
<1> QED
    BY <1>1, <1>2, <1>3, <1>4, <1>5, <1>6, <1>7, <1>8, <1>9, <1>10, <1>11,
       <1>12, <1>13, <1>14, <1>15 DEF Next, Script

LEMMA AppliedStep ==
    ASSUME Overlap = FALSE
    PROVE  TypeOK /\ OursToWrite /\ FilesInPlace /\ Applied /\ [Next]_vars
               => Applied'
<1> SUFFICES ASSUME TypeOK, OursToWrite, FilesInPlace, Applied, [Next]_vars
             PROVE  Applied'
    OBVIOUS
<1>t. /\ disk \in Disk /\ unapplied \in BOOLEAN /\ caddy.mounts \in BOOLEAN
      /\ run # None => run.backup \in Disk
    BY NoneIsNoRun DEF TypeOK
<1>n. caddy.native = disk.native
    BY DEF Applied
(* The run moves on and nothing else happens.                              *)
<1>g. ASSUME NEW pc \in Pcs, run # None, Goto(pc),
             UNCHANGED <<disk, caddy, unapplied>>,
             pc \in {"validate", "up"} /\ ~unapplied => ~Behind(run.backup),
             pc = "validate" => run.changed \/ ~caddy.mounts,
             pc = "assert" /\ caddy.mounts => caddy = Loaded(disk, TRUE),
             pc = "confirm" => caddy = Loaded(disk, TRUE),
             pc = "probe" /\ ~unapplied =>
                ~Behind(disk) /\ (caddy.native \/ caddy.vhost = run.wanted),
             pc \notin {"check", "snippet", "override", "import", "decide"}
      PROVE  Applied'
    <2>1. /\ run' # None /\ run'.pc = pc /\ run'.backup = run.backup
          /\ run'.wanted = run.wanted /\ run'.changed = run.changed
        BY <1>g, MovedOn
    <2> QED
        BY <1>g, <1>n, <2>1 DEF Applied, Behind, Loaded
(* The run ends and leaves files that are loaded, or noted as unapplied.   *)
<1>e. ASSUME run' = None, caddy'.native = disk'.native,
             ~unapplied' => ~Behind(disk)'
      PROVE  Applied'
    BY <1>e DEF Applied
(* Before anything is written, the backup is what is on disk.              *)
<1>b. ASSUME At("check") PROVE run.backup = disk /\ (~unapplied => ~Behind(disk))
    BY <1>b DEF At, FilesInPlace, Applied
<1>1. ASSUME NEW v \in Version, NEW calm \in BOOLEAN, Start(v, calm)
      PROVE  Applied'
    <2>1. /\ run = None /\ run' \in Run /\ run'.pc = "check"
          /\ run'.backup = disk /\ UNCHANGED <<disk, caddy, unapplied>>
        BY <1>t, <1>1 DEF Start, Run
    <2>2. run' # None
        BY <2>1, RunAssumption
    <2> QED
        BY <1>n, <2>1, <2>2 DEF Applied, Behind, Loaded
<1>2. CASE StepAside
    BY <1>b, <1>g, <1>n, <1>2 DEF StepAside, At, Pcs
<1>3. CASE RefuseForeign
    BY <1>b, <1>e, <1>n, <1>3 DEF RefuseForeign, Behind, Loaded
<1>4. CASE Backup
    <2>1. /\ run' \in Run /\ run'.pc = "snippet" /\ run'.backup = disk
          /\ At("check") /\ UNCHANGED <<disk, caddy, unapplied>>
        BY <1>t, <1>4, NoneIsNoRun DEF Backup, At, Run, Pcs
    <2>2. run' # None
        BY <2>1, RunAssumption
    <2> QED
        BY <1>b, <1>n, <2>1, <2>2 DEF Applied, Behind, Loaded
(* The files change, the backup and the container do not.                  *)
<1>i. ASSUME NEW d \in Disk, NEW pc \in {"override", "import", "decide"},
             run # None, run.pc \in {"snippet", "override", "import"},
             Install(d, pc), d.native = disk.native
      PROVE  Applied'
    <2>1. /\ run' \in Run /\ run'.pc = pc /\ run'.backup = run.backup
        BY <1>i, NoneIsNoRun DEF Install, Run, Pcs
    <2>2. run' # None
        BY <2>1, RunAssumption
    <2>3. /\ disk' = d /\ UNCHANGED <<caddy, unapplied>>
          /\ ~unapplied => ~Behind(run.backup)
        BY <1>i DEF Install, Applied
    <2> QED
        BY <1>i, <1>n, <2>1, <2>2, <2>3 DEF Applied, Behind, Loaded
<1>5. CASE WriteSnippet
    <2>1. [disk EXCEPT !.snippet = run.wanted] \in Disk
        BY <1>t, <1>5, NoneIsNoRun DEF WriteSnippet, At, Disk
    <2>2. [disk EXCEPT !.snippet = run.wanted].native = disk.native
        BY <1>t DEF Disk
    <2> QED
        BY <1>i, <1>5, <2>1, <2>2 DEF WriteSnippet, At
<1>6. CASE WriteOverride
    <2>1. [disk EXCEPT !.override = "managed"] \in Disk
        BY <1>t DEF Disk
    <2>2. [disk EXCEPT !.override = "managed"].native = disk.native
        BY <1>t DEF Disk
    <2> QED
        BY <1>i, <1>6, <2>1, <2>2 DEF WriteOverride, At
<1>7. CASE AppendImport
    <2>1. [disk EXCEPT !.import = TRUE] \in Disk
        BY <1>t DEF Disk
    <2>2. [disk EXCEPT !.import = TRUE].native = disk.native
        BY <1>t DEF Disk
    <2> QED
        BY <1>i, <1>7, <2>1, <2>2 DEF AppendImport, At
<1>8. CASE Decide
    <2>1. /\ run # None /\ run.pc = "decide" /\ disk.import
          /\ disk.snippet = run.wanted /\ UNCHANGED <<disk, caddy, unapplied>>
          /\ ~run.changed => run.backup = disk
          /\ ~unapplied => ~Behind(run.backup)
        BY <1>8 DEF Decide, At, FilesInPlace, Applied
    <2>2. CASE run.changed \/ ~caddy.mounts
        BY <1>g, <1>8, <2>1, <2>2 DEF Decide, Pcs
    <2>3. CASE ~(run.changed \/ ~caddy.mounts)
        <3>1. ~unapplied => caddy = Loaded(disk, TRUE)
            BY <2>1, <2>3 DEF Behind
        <3>2. ~unapplied => caddy.vhost = run.wanted
            BY <2>1, <3>1 DEF Loaded
        <3> QED
            BY <1>g, <1>8, <2>1, <2>3, <3>2 DEF Decide, Pcs
    <2> QED
        BY <2>2, <2>3
<1>9. CASE Validate
    <2>1. /\ run # None /\ run.pc = "validate"
          /\ UNCHANGED <<disk, caddy, unapplied>>
          /\ ~unapplied => ~Behind(run.backup)
          /\ ~run.changed => ~caddy.mounts
        BY <1>9 DEF Validate, At, Applied
    <2> QED
        BY <1>g, <1>9, <2>1 DEF Validate, Pcs
<1>10. CASE ValidateFails
    <2>1. /\ disk' = run.backup /\ disk.native = run.backup.native
          /\ run' = None /\ UNCHANGED <<caddy, unapplied>>
          /\ ~unapplied => ~Behind(run.backup)
        BY <1>10 DEF ValidateFails, rollback, At, OursToWrite, Applied
    <2> QED
        BY <1>e, <1>n, <2>1 DEF Behind, Loaded
<1>11. CASE Up
    <2>1. /\ run # None /\ Goto("reload") /\ disk' = disk
          /\ caddy' = caddy \/ caddy' = Recreated(disk)
        BY <1>11 DEF Up, At
    <2>2. run' # None /\ run'.pc = "reload"
        BY <2>1, MovedOn DEF Pcs
    <2>3. caddy'.native = disk'.native
        BY <1>n, <2>1 DEF Recreated, Loaded
    <2> QED
        BY <2>2, <2>3 DEF Applied
<1>12. CASE Reload
    <2>1. /\ run # None /\ Goto("assert") /\ disk' = disk
          /\ caddy' = Loaded(disk, caddy.mounts)
        BY <1>12 DEF Reload, At
    <2>2. run' # None /\ run'.pc = "assert"
        BY <2>1, MovedOn DEF Pcs
    <2>3. caddy'.native = disk'.native /\ caddy'.mounts = caddy.mounts
        BY <2>1 DEF Loaded
    <2>4. caddy'.mounts => caddy' = Loaded(disk', TRUE)
        BY <1>t, <2>1, <2>3
    <2> QED
        BY <2>2, <2>3, <2>4 DEF Applied, Loaded
<1>13. CASE ReloadFails
    <2>1. /\ disk' = run.backup /\ disk.native = run.backup.native /\ run' = None
        BY <1>13 DEF ReloadFails, rollback, At, OursToWrite
    <2>2. CASE unapplied' = (unapplied \/ Behind(run.backup)) /\ caddy' = caddy
        BY <1>e, <1>n, <2>1, <2>2 DEF Behind, Loaded
    <2>3. CASE caddy' = Loaded(run.backup, caddy.mounts)
        <3>1. caddy'.native = disk'.native /\ caddy'.mounts = caddy.mounts
            BY <2>1, <2>3 DEF Loaded
        <3>2. caddy'.mounts => caddy' = Loaded(disk', TRUE)
            BY <1>t, <2>1, <2>3, <3>1
        <3> QED
            BY <1>e, <2>1, <3>1, <3>2 DEF Behind, Loaded
    <2> QED
        BY <1>13, <2>2, <2>3 DEF ReloadFails
<1>14. CASE AssertMounts
    <2>1. /\ run # None /\ run.pc = "assert" /\ disk' = disk
          /\ disk.override = "managed"
          /\ caddy.mounts => caddy = Loaded(disk, TRUE)
        BY <1>14 DEF AssertMounts, At, FilesInPlace, Applied
    <2>2. Goto("confirm") /\ caddy' = Loaded(disk, TRUE)
        BY <1>14, <2>1 DEF AssertMounts, Recreated
    <2>3. run' # None /\ run'.pc = "confirm"
        BY <2>1, <2>2, MovedOn DEF Pcs
    <2> QED
        BY <2>1, <2>2, <2>3 DEF Applied, Loaded
<1>15. CASE Confirm
    <2>1. /\ run # None /\ disk.import /\ disk.snippet = run.wanted
          /\ caddy = Loaded(disk, TRUE) /\ UNCHANGED <<disk, caddy, unapplied>>
          /\ Goto("probe") \/ run' = None
        BY <1>15 DEF Confirm, At, FilesInPlace, Applied
    <2>2. caddy.vhost = run.wanted /\ ~Behind(disk)
        BY <2>1 DEF Loaded, Behind
    <2> QED
        BY <1>e, <1>g, <1>n, <2>1, <2>2 DEF Behind, Loaded, Pcs
<1>16. CASE Probe
    <2>1. /\ run' = None /\ UNCHANGED <<disk, caddy, unapplied>>
          /\ ~unapplied => ~Behind(disk)
        BY <1>16 DEF Probe, At, Applied
    <2> QED
        BY <1>e, <1>n, <2>1 DEF Behind, Loaded
<1>17. CASE Die
    <2>1. /\ run' = None /\ UNCHANGED <<disk, caddy>>
          /\ unapplied' = (unapplied \/ Behind(disk))
        BY <1>17 DEF Die
    <2> QED
        BY <1>e, <1>n, <2>1 DEF Behind, Loaded
<1>18. ASSUME NEW native \in BOOLEAN, NEW override \in {"none", "foreign"},
              InfraDeploy(native, override)
       PROVE  Applied'
    <2>1. /\ run' = None /\ disk' \in Disk /\ disk'.override # "managed"
          /\ caddy' = Recreated(disk')
        BY <1>18 DEF InfraDeploy, Disk
    <2>2. caddy' = Loaded(disk', FALSE)
        BY <2>1 DEF Recreated
    <2> QED
        BY <1>e, <2>1, <2>2 DEF Behind, Loaded
<1>19. CASE UNCHANGED vars
    BY <1>19 DEF vars, Applied, Behind, Loaded
<1> QED
    BY <1>1, <1>2, <1>3, <1>4, <1>5, <1>6, <1>7, <1>8, <1>9, <1>10, <1>11,
       <1>12, <1>13, <1>14, <1>15, <1>16, <1>17, <1>18, <1>19 DEF Next, Script

(* As long as onym-infra does not deploy in the middle of a run: whatever  *)
(* revisions of the snippet are installed in whatever order, exit 0 means  *)
(* that the running Caddy serves the one wanted, unless a run died or gave *)
(* up between writing files and loading them (the early exit of the script *)
(* and its last reload).                                                   *)
THEOREM ExitZeroMeansLoaded ==
    ASSUME Overlap = FALSE
    PROVE  Spec => []ExitMeansLoaded
<1> DEFINE Inv == TypeOK /\ OursToWrite /\ FilesInPlace /\ Applied
<1>1. Init => Inv
    BY StackInit, OursInit, ExitInit DEF StackInv
<1>2. Inv /\ [Next]_vars => Inv'
    BY TypeStep, OursStep, FilesStep, AppliedStep
<1>3. Inv => ExitMeansLoaded
    BY DEF Applied, ExitMeansLoaded, At
<1> QED
    BY <1>1, <1>2, <1>3, PTL DEF Spec
=============================================================================
