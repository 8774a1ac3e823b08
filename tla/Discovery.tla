----------------------------- MODULE Discovery -----------------------------
(***************************************************************************)
(* The whole path of a snapshot: deploys of deploy/onym, one after another *)
(* and dying anywhere, and a client that refreshes through whatever the    *)
(* name leads to, verifies as src/src/verify.rs does and keeps the state   *)
(* of section 8.                                                           *)
(*                                                                         *)
(* The operator repeats dispatches until one works.  A run is `calm` when  *)
(* nothing interrupts it: it still ends where a script dies on a check.    *)
(***************************************************************************)
EXTENDS ChainDeployment

VARIABLES
    retained,       \* the client's RetainedCatalogState, or None
    calm            \* the run in progress is not interrupted

system == <<vars, retained, calm>>

SystemTypeOK ==
    /\ TypeOK /\ calm \in BOOLEAN
    /\ retained # None =>
          \E s \in SnapshotDoc : retained = from_snapshot_bytes(s, None)

SystemInit == Init /\ retained = None /\ calm = FALSE

SystemDispatch(genesis, committed, left_alone) ==
    /\ Dispatch(genesis, committed)
    /\ calm' = left_alone
    /\ UNCHANGED retained

(* A calm run ends early only where the scripts give up by themselves: no  *)
(* usable previous snapshot, a refused build, an unhealthy site.           *)
SystemAbort ==
    /\ Abort
    /\ calm => At("fetch") \/ At("sign") \/ At("health")
    /\ calm' = FALSE
    /\ UNCHANGED retained

Fetch ==
    /\ GenesisUnresolved \/ GenesisRecovery \/ Genesis404 \/ ChainOntoLive
    /\ UNCHANGED <<retained, calm>>

Sign ==
    /\ \E now \in Time : SignInCI(now) \/ AdoptSigned(now)
    /\ UNCHANGED <<retained, calm>>

Deploy ==
    /\ \/ \E f \in File : Upload(f)
       \/ EnsureVhost \/ UpsertRecord \/ DeleteExtra \/ AwaitHealth \/ Health
    /\ calm' = (calm /\ run' # None)
    /\ UNCHANGED retained

Certify == IssueCertificate /\ UNCHANGED <<retained, calm>>

verdict(s, now) == verify_snapshot(s, Manifest, retained, now)

(* The client fetches the latest snapshot and verifies it against what it  *)
(* retains; only an accepted one changes its state.                        *)
ClientRefresh(now) ==
    /\ \E h \in pointed :
          LET s == site[h][Latest] IN
          /\ Serves(h)
          /\ verdict(s, now) \in Accepting
          /\ retained' = after_acceptance(retained, s,
                             policy_transition(s, Manifest, retained))
    /\ UNCHANGED <<vars, calm>>

SystemNext ==
    \/ \E genesis \in BOOLEAN, committed \in Signed \cup {None},
          left_alone \in BOOLEAN :
          SystemDispatch(genesis, committed, left_alone)
    \/ SystemAbort
    \/ Fetch
    \/ Sign
    \/ Deploy
    \/ Certify
    \/ \E now \in Time : ClientRefresh(now)

(* The record really moved: Cloudflare did not refuse the call.            *)
RecordMoves == UpsertRecord /\ Droplet \in pointed' /\ UNCHANGED <<retained, calm>>

(* The operator dispatches again, with and without genesis, and is left    *)
(* alone with a run now and then; every run ends, and a calm one that      *)
(* passed the verify gate goes on; Cloudflare does not refuse every call;  *)
(* Caddy keeps asking for its certificate; the client keeps polling.       *)
SystemFairness ==
    /\ \A genesis \in BOOLEAN :
          SF_system(SystemDispatch(genesis, None, TRUE))
    /\ SF_system(calm /\ Fetch)
    /\ SF_system(calm /\ Sign)
    /\ WF_system(SystemAbort \/ Fetch \/ Sign \/ Deploy)
    /\ SF_system(calm /\ RecordMoves)
    /\ SF_system(Certify)
    /\ WF_system(\E now \in Time : ClientRefresh(now))

SystemSpec == SystemInit /\ [][SystemNext]_system /\ SystemFairness

-----------------------------------------------------------------------------
(* Properties                                                              *)

(* Freshness aside, a client that follows the name never turns on the      *)
(* operator: whatever runs died, were repeated or started over, what the   *)
(* name leads to is a snapshot it accepts.  While a run that moved one     *)
(* record has others left to delete, it may meet the machine it left, and  *)
(* is then told of a rollback and of nothing worse.                        *)
NoFalseAlarm ==
    \A h \in pointed, now \in Time :
        Serves(h) =>
            verdict(site[h][Latest], now) \in
                Accepting \cup {"dates_invalid", "snapshot_expired"}
                \cup (IF At("extras") /\ run.extras # {} THEN {"rollback"}
                      ELSE {})

(* A first deploy that wedged stays recoverable: unless the name is held   *)
(* by another machine without a snapshot, repeated dispatches bring the    *)
(* droplet on line for good, wherever earlier runs died, and also when the *)
(* name led to the empty droplet from the start (ci-assemble.sh, genesis   *)
(* recovery).                                                              *)
GoesLive ==
    (\A h \in pointed \ {Droplet} : site[h][Latest] # None)
        => <>[](Droplet \in pointed /\ Serves(Droplet))

(* Once the site rests, the client comes to hold the snapshot it serves,   *)
(* also when it missed the ones before.                                    *)
CatchesUp ==
    \A s \in SnapshotDoc :
        <>[](/\ pointed # {}
             /\ \A h \in pointed : Serves(h) /\ site[h][Latest] = s)
            => <>[](retained # None /\ retained.digest = s.digest)
=============================================================================
