---------------------------- MODULE OperatorDesk ----------------------------
(***************************************************************************)
(* The operator's key and the manifest it signs: `onym-discovery keygen`,  *)
(* `fingerprint`, `sign-manifest` and `verify manifest --sig` on one       *)
(* directory (src/src/main.rs).  Files are written by truncating them      *)
(* first; a command may die between any two steps, and the operator runs   *)
(* the commands in any order, on any draft.                                *)
(*                                                                         *)
(* A .sig file is represented by the document whose signature it holds, a  *)
(* seed file by its key.                                                   *)
(***************************************************************************)
EXTENDS StaticProfile

CONSTANTS
    Process,        \* commands that may run at the same time
    Draft,          \* manifests the operator may want to sign
    Torn            \* contents of a file written only in part

ASSUME DeskAssumption ==
    /\ Draft \subseteq ManifestDoc
    /\ \A m \in ManifestDoc, k \in Key :
          [m EXCEPT !.signer = k] \in ManifestDoc
    /\ Torn \notin ManifestDoc \cup Key /\ Torn # None

VARIABLES
    fs,             \* contents of the seed, the manifest and its .sig
    job,            \* job[p]: the command p runs, or None
    announced,      \* history: keys printed as the operator's
    online          \* history: manifests put on line

vars == <<fs, job, announced, online>>

File == {"seed", "manifest", "manifest_sig"}

(* calm: the command is not interrupted.                                   *)
Job == [command : {"keygen"}, content : Key, file : {"seed"},
        phase : {"truncate", "fill", "print"}, calm : BOOLEAN]
       \cup
       [command : {"sign-manifest"}, content : ManifestDoc,
        file : {"manifest", "manifest_sig"},
        phase : {"truncate", "fill"}, calm : BOOLEAN]

TypeOK ==
    /\ fs \in [File -> ManifestDoc \cup Key \cup {None, Torn}]
    /\ fs["seed"] \in Key \cup {None, Torn}
    /\ fs["manifest"] \in ManifestDoc \cup {None, Torn}
    /\ fs["manifest_sig"] \in ManifestDoc \cup {None, Torn}
    /\ job \in [Process -> Job \cup {None}]
    /\ announced \subseteq Key
    /\ online \subseteq ManifestDoc

Init ==
    /\ fs = [f \in File |-> None]
    /\ job = [p \in Process |-> None]
    /\ announced = {} /\ online = {}

-----------------------------------------------------------------------------
(* The commands                                                            *)

(* Seeded defect: a seed file that exists is not looked for.               *)
Keygen_any(p, key, calm) ==
    /\ job[p] = None /\ key \notin announced
    /\ job' = [job EXCEPT ![p] =
          [command |-> "keygen", content |-> key, file |-> "seed",
           phase |-> "truncate", calm |-> calm]]
    /\ UNCHANGED <<fs, announced, online>>

(* A file that exists, torn or not, is refused; the key is a new one.      *)
Keygen(p, key, calm) ==
    /\ job[p] = None /\ key \notin announced
    /\ fs["seed"] = None
    /\ job' = [job EXCEPT ![p] =
          [command |-> "keygen", content |-> key, file |-> "seed",
           phase |-> "truncate", calm |-> calm]]
    /\ UNCHANGED <<fs, announced, online>>

(* `fingerprint` prints the key of a seed file that can be read.           *)
Fingerprint(p) ==
    /\ job[p] = None /\ fs["seed"] \in Key
    /\ announced' = announced \cup {fs["seed"]}
    /\ UNCHANGED <<fs, job, online>>

(* Any signature is replaced; duplicate keys are refused.                  *)
sign_document(raw, key) ==
    IF raw.dup_keys THEN None ELSE [raw EXCEPT !.signer = key]

(* What can be read and signed: a draft, or the manifest in place.  Nobody *)
(* compares the operator it names with the key.                            *)
Input == Draft \cup ({fs["manifest"]} \ {None, Torn})

(* Seeded defect: a manifest is protected like a retention sibling.        *)
SignManifest_once(p, raw, calm) ==
    /\ job[p] = None /\ fs["seed"] \in Key
    /\ sign_document(raw, fs["seed"]) # None
    /\ fs["manifest"] \in {None, sign_document(raw, fs["seed"])}
    /\ job' = [job EXCEPT ![p] =
          [command |-> "sign-manifest", file |-> "manifest",
           content |-> sign_document(raw, fs["seed"]),
           phase |-> "truncate", calm |-> calm]]
    /\ UNCHANGED <<fs, announced, online>>

SignManifest(p, raw, calm) ==
    /\ job[p] = None /\ fs["seed"] \in Key
    /\ sign_document(raw, fs["seed"]) # None
    /\ job' = [job EXCEPT ![p] =
          [command |-> "sign-manifest", file |-> "manifest",
           content |-> sign_document(raw, fs["seed"]),
           phase |-> "truncate", calm |-> calm]]
    /\ UNCHANGED <<fs, announced, online>>

(* std::fs::write: open with truncation, then write.                       *)
Truncate(p) ==
    /\ job[p] # None /\ job[p].phase = "truncate"
    /\ fs' = [fs EXCEPT ![job[p].file] = Torn]
    /\ job' = [job EXCEPT ![p].phase = "fill"]
    /\ UNCHANGED <<announced, online>>

(* Seeded defect: .sig replaces the extension instead of following it.     *)
next_write_extension(j) ==
    IF j.command = "keygen" THEN [j EXCEPT !.phase = "print"]
    ELSE [j EXCEPT !.file = "manifest.sig", !.phase = "truncate"]

(* What follows a written file: the key is announced, the manifest gets    *)
(* its .sig, the .sig ends the command.                                    *)
next_write(j) ==
    IF j.command = "keygen" THEN [j EXCEPT !.phase = "print"]
    ELSE IF j.file = "manifest"
         THEN [j EXCEPT !.file = "manifest_sig", !.phase = "truncate"]
    ELSE None

Fill(p) ==
    /\ job[p] # None /\ job[p].phase = "fill"
    /\ fs' = [fs EXCEPT ![job[p].file] = job[p].content]
    /\ job' = [job EXCEPT ![p] = next_write(job[p])]
    /\ UNCHANGED <<announced, online>>

(* keygen prints the operator id and its fingerprint.                      *)
PrintKey(p) ==
    /\ job[p] # None /\ job[p].phase = "print"
    /\ announced' = announced \cup {job[p].content}
    /\ job' = [job EXCEPT ![p] = None]
    /\ UNCHANGED <<fs, online>>

(* The process dies where it stands; what it wrote stays.                  *)
Crash(p) ==
    /\ job[p] # None /\ ~job[p].calm
    /\ job' = [job EXCEPT ![p] = None]
    /\ UNCHANGED <<fs, announced, online>>

-----------------------------------------------------------------------------
(* The operator                                                            *)

Idle == \A p \in Process : job[p] = None

(* A seed file that cannot be read holds no key: it is removed by hand.    *)
RemoveTornSeed ==
    /\ Idle /\ fs["seed"] = Torn
    /\ fs' = [fs EXCEPT !["seed"] = None]
    /\ UNCHANGED <<job, announced, online>>

(* Seeded defect: an unsigned or foreign manifest passes if its .sig is    *)
(* the one it carries.                                                     *)
gate_sig_only ==
    fs["manifest"] \notin {None, Torn} /\ fs["manifest_sig"] = fs["manifest"]

(* `verify manifest --sig`: the detached signature agrees, the manifest    *)
(* verifies.  Time plays no part here.                                     *)
gate ==
    /\ fs["manifest"] \notin {None, Torn}
    /\ fs["manifest_sig"] = fs["manifest"]
    /\ verify_manifest(fs["manifest"], 0) = "ok"

Publish ==
    /\ Idle /\ gate
    /\ online' = online \cup {fs["manifest"]}
    /\ UNCHANGED <<fs, job, announced>>

Step(p) == Truncate(p) \/ Fill(p) \/ PrintKey(p) \/ Crash(p)

Next ==
    \/ \E p \in Process, calm \in BOOLEAN :
          \/ \E key \in Key : Keygen(p, key, calm)
          \/ \E raw \in Input : SignManifest(p, raw, calm)
    \/ \E p \in Process : Fingerprint(p) \/ Step(p)
    \/ RemoveTornSeed
    \/ Publish

(* A command goes on until it ends, and the operator repeats what did not  *)
(* work: removes a torn seed, generates a key, signs a draft that names    *)
(* it, and is not interrupted every time.                                  *)
Fairness ==
    /\ WF_vars(\E p \in Process : Step(p))
    /\ SF_vars(RemoveTornSeed)
    /\ SF_vars(\E p \in Process, key \in Key : Keygen(p, key, TRUE))
    /\ SF_vars(\E p \in Process, raw \in Draft :
          raw.operator = fs["seed"] /\ SignManifest(p, raw, TRUE))

Spec == Init /\ [][Next]_vars /\ Fairness

-----------------------------------------------------------------------------
(* Properties                                                              *)

(* "refusing to overwrite a key": a key that was announced as the          *)
(* operator's is the one in the seed file, whatever commands ran since and *)
(* wherever they died.                                                     *)
AnnouncedKeyStored == \A key \in announced : fs["seed"] = key

(* Clients pin the operator key on first use: all manifests that ever pass *)
(* the gate name the key of the seed file, although sign-manifest signs    *)
(* drafts that name any key.                                               *)
OneOperator == \A m \in online : m.operator = fs["seed"]

(* sign-manifest writes two files over the old ones: whatever a dead run   *)
(* left of them, repeating the commands leads to a pair that verifies.     *)
Recovers == []<>gate
=============================================================================
