----------------------------- MODULE CaddyVhost -----------------------------
(***************************************************************************)
(* ensure-caddy-vhost.sh on the onym-infra droplet, run after run, and the *)
(* probe ci-deploy.sh makes when it has ended.  The script installs three  *)
(* files, validates them in a throwaway container, applies them to the     *)
(* running Caddy, which fronts every other vhost of the droplet, and rolls *)
(* the files back when that fails.  A run may die between any two steps;   *)
(* onym-infra's own deploy sweeps the files away.                          *)
(***************************************************************************)
CONSTANTS
    Version,        \* texts of the vhost snippet a run may want to install
    ValidVersion,   \* those Caddy can load
    None,
    Overlap         \* may onym-infra deploy while the script runs?

ASSUME VhostAssumption ==
    /\ ValidVersion \subseteq Version /\ None \notin Version
    /\ Overlap \in BOOLEAN

VARIABLES
    disk,           \* the snippet, the compose override, the Caddyfile
    caddy,          \* the running container: its mounts and loaded config
    run,            \* the run in progress, or None
    unapplied,      \* history: a run left files that Caddy has not loaded
    exposed         \* history: a run left unvalidated files, not yet replaced

vars == <<disk, caddy, run, unapplied, exposed>>

(* native: the Caddyfile tracked by onym-infra has a vhost of its own;     *)
(* import: the line this script appends.  An override without the managed  *)
(* header is foreign.                                                      *)
Disk == [snippet  : Version \cup {None},
         override : {"none", "managed", "foreign"},
         native   : BOOLEAN,
         import   : BOOLEAN]

(* A run: how far it is, the snippet it wants, whether anything fails by   *)
(* itself, whether it changed a file, and the files as it found them.      *)
Run == [pc : {"check", "snippet", "override", "import", "decide", "validate",
              "up", "reload", "assert", "confirm", "probe"},
        wanted : Version, calm : BOOLEAN, changed : BOOLEAN, backup : Disk]

ASSUME RunAssumption == None \notin Run

(* What Caddy makes of the files with or without the vhost's mounts: an    *)
(* import that matches no file is not an error.                            *)
Loaded(d, mounts) ==
    [mounts |-> mounts, native |-> d.native,
     vhost  |-> IF d.import /\ mounts THEN d.snippet ELSE None]

(* Caddy loads it: no broken snippet, no two vhosts of one name.           *)
Valid(config) ==
    /\ config.vhost \in ValidVersion \cup {None}
    /\ ~(config.native /\ config.vhost # None)

(* A container started from the files as they are.                         *)
Recreated(d) == Loaded(d, d.override = "managed")

Serving == caddy.native \/ caddy.vhost \in ValidVersion

TypeOK ==
    /\ disk \in Disk
    /\ caddy \in [mounts : BOOLEAN, native : BOOLEAN,
                  vhost : Version \cup {None}]
    /\ run \in Run \cup {None}
    /\ unapplied \in BOOLEAN /\ exposed \in BOOLEAN

(* onym-infra has deployed; the override, if any, was written by hand.     *)
Init ==
    /\ disk \in {d \in Disk : /\ d.snippet = None /\ ~d.import
                              /\ d.override # "managed"}
    /\ caddy = Recreated(disk)
    /\ run = None /\ unapplied = FALSE /\ exposed = FALSE

(* The container has the mounts and runs something else than the files d.  *)
Behind(d) == caddy.mounts /\ caddy # Loaded(d, TRUE)

At(pc) == run # None /\ run.pc = pc
Goto(pc) == run' = [run EXCEPT !.pc = pc]

-----------------------------------------------------------------------------
(* The script                                                              *)

(* ci-deploy.sh streams the script over ssh.  Of a calm run nothing fails  *)
(* by itself: the connection holds and docker does what it is told.        *)
Start(v, calm) ==
    /\ run = None
    /\ run' = [pc |-> "check", wanted |-> v, calm |-> calm,
               changed |-> FALSE, backup |-> disk]
    /\ UNCHANGED <<disk, caddy, unapplied, exposed>>

(* onym-infra serves the host itself: exit 0.                              *)
StepAside ==
    /\ At("check") /\ disk.native
    /\ Goto("probe")
    /\ UNCHANGED <<disk, caddy, unapplied, exposed>>

(* An override somebody else owns: die before anything is touched.         *)
RefuseForeign ==
    /\ At("check") /\ ~disk.native /\ disk.override = "foreign"
    /\ run' = None
    /\ UNCHANGED <<disk, caddy, unapplied, exposed>>

Backup ==
    /\ At("check") /\ ~disk.native /\ disk.override # "foreign"
    /\ run' = [run EXCEPT !.pc = "snippet", !.backup = disk]
    /\ UNCHANGED <<disk, caddy, unapplied, exposed>>

(* write_if_changed, and the guarded append: install d, note a difference. *)
Install(d, pc) ==
    /\ disk' = d
    /\ run' = [run EXCEPT !.pc = pc, !.changed = @ \/ d # disk]
    /\ UNCHANGED <<caddy, unapplied, exposed>>

WriteSnippet ==
    At("snippet")
        /\ Install([disk EXCEPT !.snippet = run.wanted], "override")

WriteOverride ==
    At("override") /\ Install([disk EXCEPT !.override = "managed"], "import")

AppendImport ==
    At("import") /\ Install([disk EXCEPT !.import = TRUE], "decide")

(* Seeded defect: files in place count as a vhost in place.                *)
Decide_files_only ==
    /\ At("decide")
    /\ Goto(IF run.changed THEN "validate" ELSE "probe")
    /\ UNCHANGED <<disk, caddy, unapplied, exposed>>

(* Exit 0 only if nothing changed and the running container has the mounts.*)
Decide ==
    /\ At("decide")
    /\ Goto(IF run.changed \/ ~caddy.mounts THEN "validate" ELSE "probe")
    /\ UNCHANGED <<disk, caddy, unapplied, exposed>>

(* Seeded defect: the throwaway container is not asked.                    *)
Validate_skipped ==
    /\ At("validate")
    /\ Goto(IF run.changed THEN "up" ELSE "assert")
    /\ exposed' = (exposed /\ run.changed)
    /\ UNCHANGED <<disk, caddy, unapplied>>

(* A throwaway container loads the files; without a change nothing needs   *)
(* to be applied.                                                          *)
Validate ==
    /\ At("validate") /\ Valid(Recreated(disk))
    /\ Goto(IF run.changed THEN "up" ELSE "assert")
    /\ exposed' = (exposed /\ run.changed)
    /\ UNCHANGED <<disk, caddy, unapplied>>

(* Seeded defect: a file that was absent is restored as an empty one.      *)
rollback_touches ==
    disk' = [run.backup EXCEPT !.snippet = IF @ = None THEN "" ELSE @]

rollback == disk' = run.backup

(* Seeded defect: the script dies without rolling back.                    *)
ValidateFails_keeps ==
    /\ At("validate") /\ (run.calm => ~Valid(Recreated(disk)))
    /\ run' = None
    /\ UNCHANGED <<disk, caddy, unapplied, exposed>>

(* The config is bad, or docker is: roll back, die.                        *)
ValidateFails ==
    /\ At("validate") /\ (run.calm => ~Valid(Recreated(disk)))
    /\ rollback
    /\ run' = None
    /\ UNCHANGED <<caddy, unapplied, exposed>>

(* docker compose up -d recreates the container if its mounts changed.     *)
Up ==
    /\ At("up")
    /\ Goto("reload")
    /\ caddy' = IF caddy.mounts = (disk.override = "managed")
                  THEN caddy ELSE Recreated(disk)
    /\ UNCHANGED <<disk, unapplied, exposed>>

(* Seeded defect: the running Caddy is not told about new snippet bytes.   *)
Reload_skipped ==
    /\ At("reload")
    /\ Goto("assert")
    /\ UNCHANGED <<disk, caddy, unapplied, exposed>>

Reload ==
    /\ At("reload") /\ Valid(Loaded(disk, caddy.mounts))
    /\ caddy' = Loaded(disk, caddy.mounts)
    /\ Goto("assert")
    /\ unapplied' = FALSE /\ exposed' = FALSE
    /\ UNCHANGED disk

(* Five attempts failed: roll back, reload what was restored if it can be, *)
(* die.                                                                    *)
ReloadFails ==
    /\ At("reload") /\ (run.calm => ~Valid(Loaded(disk, caddy.mounts)))
    /\ rollback
    /\ \/ /\ unapplied' = (unapplied \/ Behind(run.backup))
          /\ UNCHANGED caddy
       \/ /\ Valid(Loaded(run.backup, caddy.mounts))
          /\ caddy' = Loaded(run.backup, caddy.mounts)
          /\ UNCHANGED unapplied
    /\ run' = None
    /\ UNCHANGED exposed

(* A container without the mounts is recreated once; if it still has none, *)
(* die.                                                                    *)
AssertMounts ==
    /\ At("assert")
    /\ IF caddy.mounts
         THEN Goto("confirm") /\ UNCHANGED <<caddy, unapplied>>
         ELSE /\ caddy' = Recreated(disk) /\ unapplied' = FALSE
              /\ IF disk.override = "managed" THEN Goto("confirm")
                                              ELSE run' = None
    /\ UNCHANGED <<disk, exposed>>

(* If the running container can load the files: exit 0.                    *)
Confirm ==
    /\ At("confirm")
    /\ IF Valid(Loaded(disk, caddy.mounts)) THEN Goto("probe")
                                           ELSE run' = None
    /\ UNCHANGED <<disk, caddy, unapplied, exposed>>

(* ci-deploy.sh asks the droplet for the host; without the redirect it     *)
(* dies before it touches DNS.                                             *)
Probe ==
    /\ At("probe")
    /\ run' = None
    /\ UNCHANGED <<disk, caddy, unapplied, exposed>>

(* The connection drops, a docker command fails under set -e, the runner   *)
(* is cancelled: nothing is rolled back.  What was written since the       *)
(* snippet stays as it is, validated or not.                               *)
Die ==
    /\ run # None /\ ~run.calm /\ ~At("probe")
    /\ run' = None
    /\ unapplied' = (unapplied \/ Behind(disk))
    /\ exposed' = \/ exposed
                  \/ run.pc \in {"override", "import", "decide", "validate"}
    /\ UNCHANGED <<disk, caddy>>

-----------------------------------------------------------------------------
(* onym-infra deploys: rsync --delete rewrites the Caddyfile and removes   *)
(* what is not its own, and the container follows.                         *)
InfraDeploy(native, override) ==
    /\ run = None \/ Overlap
    /\ disk' = [snippet |-> None, override |-> override, native |-> native,
                import |-> FALSE]
    /\ caddy' = Recreated(disk')
    /\ unapplied' = FALSE /\ exposed' = (exposed /\ run # None)
    /\ UNCHANGED run

Script ==
    \/ StepAside \/ RefuseForeign \/ Backup
    \/ WriteSnippet \/ WriteOverride \/ AppendImport
    \/ Decide \/ Validate \/ ValidateFails
    \/ Up \/ Reload \/ ReloadFails
    \/ AssertMounts \/ Confirm \/ Probe

Next ==
    \/ \E v \in Version, calm \in BOOLEAN : Start(v, calm)
    \/ Script
    \/ Die
    \/ \E native \in BOOLEAN, override \in {"none", "foreign"} :
          InfraDeploy(native, override)

(* A run goes on until it ends, and again and again a publish with a       *)
(* loadable snippet meets no trouble.  What onym-infra does, and when, is  *)
(* left to chance.                                                         *)
Fairness ==
    /\ WF_vars(Script \/ Die)
    /\ SF_vars(\E v \in ValidVersion : Start(v, TRUE))

Spec == Init /\ [][Next]_vars /\ Fairness

-----------------------------------------------------------------------------
(* Properties                                                              *)

(* "every other onym.app vhost rides on this Caddy, and a bad snippet must *)
(* fail here, not take the stack down": whatever was wanted and wherever   *)
(* runs died, the running Caddy never starts from a config it cannot load. *)
StackStaysUp == Valid(caddy)

(* "roll the files back ... rather than leave on-disk state that the       *)
(* running Caddy never accepted": between runs, a container started anew   *)
(* from the files on disk loads them, whatever was wanted and rolled back  *)
(* before.  Files of a run that died between writing the snippet and       *)
(* having it validated are the exception until a later run has replaced    *)
(* them for good: its rollback, too, puts them back.                       *)
RestartSafe == (run = None /\ ~exposed) => Valid(Recreated(disk))

(* Exit 0 means that the running Caddy serves the snippet of this run, or  *)
(* onym-infra serves the host, except after a run that ended between       *)
(* writing files and loading them into a container that has the mounts.    *)
ExitMeansLoaded ==
    (At("probe") /\ ~unapplied) => caddy.native \/ caddy.vhost = run.wanted

(* "No-op when everything is already in place": exit 0 means that, with no *)
(* exception.                                                              *)
NoOpMeansLoaded ==
    At("probe") => caddy.native \/ caddy.vhost = run.wanted

(* "the next run of this script simply puts them back": whatever onym-infra*)
(* sweeps away and whichever docker commands fail, the host is served      *)
(* again and again, unless an override is foreign or a failed run left the *)
(* container behind the files.                                             *)
Converges == []<>(Serving \/ disk.override = "foreign" \/ unapplied)
=============================================================================
