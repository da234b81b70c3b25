------------------------------ MODULE Installer ------------------------------
(***************************************************************************)
(* a-stock-install: one immutable runtime per release, and the client      *)
(* entries (Skill snapshots, then console scripts) switched to it one      *)
(* after the other, with a backup and a manifest before the first switch   *)
(* and a restore, in reverse, when a step raises (install.py).  The code   *)
(* takes no lock, so several installers may run at once.  One may be       *)
(* killed, or leave main through an exception its handler does not name    *)
(* (Ctrl-C), between any two of its steps.                                 *)
(*                                                                         *)
(* A process runs the installer once.  At a target there is a link, a      *)
(* directory, or what an interrupted rmtree or copytree left of one; "of"  *)
(* tells the releases installed here from what was there before (Old).     *)
(* Candidates have unique names, nobody else looks at them and they are    *)
(* removed on return, so they are not state.                               *)
(***************************************************************************)
EXTENDS Integers

CONSTANTS
    Procs,          \* installers
    Releases,       \* release identities their sources may have
    NumSkills,      \* targets 1 .. NumSkills are Skill entries,
    NumTargets,     \* the others are console scripts
    Old,            \* what an earlier installation, or the user, left
    Null            \* nothing there

Contents == [kind : {"link", "dir", "broken"}, of : Releases \cup {Old}]

ASSUME CountAssumption ==
    NumSkills \in Nat /\ NumTargets \in Nat \ {0} /\ NumSkills <= NumTargets
ASSUME OldAssumption == Old \notin Releases
ASSUME NullAssumption == Null \notin Contents

Targets == 1 .. NumTargets
Skills == 1 .. NumSkills
Link(r) == [kind |-> "link", of |-> r]
Dir(r) == [kind |-> "dir", of |-> r]
Broken(c) == [kind |-> "broken", of |-> c.of]
IsDir(c) == c # Null /\ c.kind # "link"
Nothing == [t \in Targets |-> Null]

VARIABLES
    target,         \* target -> what is at that path
    runtime,        \* release -> its directory: "none", "partial", "complete"
    pc,             \* installer -> where it is in main()
    rel,            \* installer -> the release it installs
    mode,           \* installer -> "symlink" or "copy"
    cursor,         \* installer -> targets dealt with in its present phase
    rollback,       \* installer -> target -> what its backup holds
    manifest,       \* installer -> its rollback manifest is on disk
    before,         \* history: target -> what was there when it started
    alone,          \* history: no other installer has run since it started
    unrestored      \* history: targets it reported as "restore failed"

vars == <<target, runtime, pc, rel, mode, cursor, rollback, manifest, before, alone,
          unrestored>>
plan == <<rel, mode, before, alone>>
records == <<rollback, manifest>>

Preparing == {"build", "fill", "backup", "manifest"}
Switching == {"clear", "place", "report"}
Restoring == {"remove", "recreate"}
Running == Preparing \cup Switching \cup Restoring
Stopped == {"idle", "refused", "installed", "failed", "killed"}

Candidate(p, t) ==
    IF mode[p] = "copy" /\ t \in Skills THEN Dir(rel[p]) ELSE Link(rel[p])

\* The entries already touched: the one being switched is among them.
Changed(p) == IF pc[p] = "report" THEN cursor[p] ELSE cursor[p] + 1

(***************************************************************************)
(* Preparation: nothing a client sees is touched.                          *)
(***************************************************************************)
\* Without --force the installer does not start over an existing Skill entry.
Refuse(p) ==
    /\ pc[p] = "idle"
    /\ \E t \in Skills : target[t] # Null
    /\ pc' = [pc EXCEPT ![p] = "refused"]
    /\ UNCHANGED <<target, runtime, plan, cursor, records, unrestored>>

Begin(p, r, m, force) ==
    /\ pc[p] = "idle"
    /\ force \/ \A t \in Skills : target[t] = Null
    /\ pc' = [pc EXCEPT ![p] = "build"]
    /\ rel' = [rel EXCEPT ![p] = r]
    /\ mode' = [mode EXCEPT ![p] = m]
    /\ before' = [before EXCEPT ![p] = target]
    /\ alone' = [q \in Procs |-> q = p /\ \A o \in Procs : pc[o] \notin Running]
    /\ UNCHANGED <<target, runtime, cursor, records, unrestored>>

\* Mutant: mkdir(exist_ok=True), the release is built again.
Build_Rebuilds(p) ==
    /\ pc[p] = "build"
    /\ runtime' = [runtime EXCEPT ![rel[p]] = "partial"]
    /\ pc' = [pc EXCEPT ![p] = "fill"]
    /\ UNCHANGED <<target, plan, cursor, records, unrestored>>

\* mkdir without exist_ok: one installer per release, ever.
Build(p) ==
    /\ pc[p] = "build"
    /\ runtime[rel[p]] = "none"
    /\ runtime' = [runtime EXCEPT ![rel[p]] = "partial"]
    /\ pc' = [pc EXCEPT ![p] = "fill"]
    /\ UNCHANGED <<target, plan, cursor, records, unrestored>>

\* The environment, the Skill snapshots and all the candidates.
Fill(p) ==
    /\ pc[p] = "fill"
    /\ runtime' = [runtime EXCEPT ![rel[p]] = "complete"]
    /\ pc' = [pc EXCEPT ![p] = "backup"]
    /\ cursor' = [cursor EXCEPT ![p] = 0]
    /\ UNCHANGED <<target, plan, records, unrestored>>

\* Mutant: only the Skill entries are backed up.
Backup_SkillsOnly(p) ==
    /\ pc[p] = "backup"
    /\ LET t == cursor[p] + 1 IN
        /\ rollback' = IF t \in Skills THEN [rollback EXCEPT ![p] = [@ EXCEPT ![t] = target[t]]]
                       ELSE rollback
        /\ cursor' = [cursor EXCEPT ![p] = t]
        /\ pc' = [pc EXCEPT ![p] = IF t = NumTargets THEN "manifest" ELSE "backup"]
    /\ UNCHANGED <<target, runtime, plan, manifest, unrestored>>

Backup(p) ==
    /\ pc[p] = "backup"
    /\ LET t == cursor[p] + 1 IN
        /\ rollback' = [rollback EXCEPT ![p] = [@ EXCEPT ![t] = target[t]]]
        /\ cursor' = [cursor EXCEPT ![p] = t]
        /\ pc' = [pc EXCEPT ![p] = IF t = NumTargets THEN "manifest" ELSE "backup"]
    /\ UNCHANGED <<target, runtime, plan, manifest, unrestored>>

WriteManifest(p) ==
    /\ pc[p] = "manifest"
    /\ manifest' = [manifest EXCEPT ![p] = TRUE]
    /\ pc' = [pc EXCEPT ![p] = "clear"]
    /\ cursor' = [cursor EXCEPT ![p] = 0]
    /\ UNCHANGED <<target, runtime, plan, rollback, unrestored>>

(***************************************************************************)
(* The switch.  A directory is never renamed over, and never over a link.  *)
(***************************************************************************)
MustClear(p, t) == target[t] # Null /\ (IsDir(target[t]) \/ IsDir(Candidate(p, t)))

Clear(p) ==
    /\ pc[p] = "clear"
    /\ LET t == cursor[p] + 1 IN
        target' = IF MustClear(p, t) THEN [target EXCEPT ![t] = Null] ELSE target
    /\ pc' = [pc EXCEPT ![p] = "place"]
    /\ UNCHANGED <<runtime, plan, cursor, records, unrestored>>

\* os.replace: raises when another installer has put something in the way.
Place(p) ==
    /\ pc[p] = "place"
    /\ LET t == cursor[p] + 1 IN
        /\ ~ MustClear(p, t)
        /\ target' = [target EXCEPT ![t] = Candidate(p, t)]
        /\ cursor' = [cursor EXCEPT ![p] = t]
        /\ pc' = [pc EXCEPT ![p] = IF t = NumTargets THEN "report" ELSE "clear"]
    /\ UNCHANGED <<runtime, plan, records, unrestored>>

Report(p) ==
    /\ pc[p] = "report"
    /\ pc' = [pc EXCEPT ![p] = "installed"]
    /\ UNCHANGED <<target, runtime, plan, cursor, records, unrestored>>

(***************************************************************************)
(* Failure: every entry touched is removed and re-created, last one first; *)
(* one that raises is reported and passed over.                            *)
(***************************************************************************)
Rollback(p) ==
    /\ pc' = [pc EXCEPT ![p] = "remove"]
    /\ cursor' = [cursor EXCEPT ![p] = Changed(p)]
    /\ UNCHANGED <<runtime, plan, records, unrestored>>

Fail(p) ==
    \/ /\ pc[p] \in Preparing
       /\ pc' = [pc EXCEPT ![p] = "failed"]
       /\ UNCHANGED <<target, runtime, plan, cursor, records, unrestored>>
    \/ /\ pc[p] \in Switching
       /\ Rollback(p)
       /\ UNCHANGED target

\* rmtree raises with the directory half gone.
ClearFails(p) ==
    /\ pc[p] = "clear"
    /\ LET t == cursor[p] + 1 IN
        /\ IsDir(target[t])
        /\ target' = [target EXCEPT ![t] = Broken(target[t])]
    /\ Rollback(p)

RestoreNext(p) ==
    /\ cursor' = [cursor EXCEPT ![p] = @ - 1]
    /\ pc' = [pc EXCEPT ![p] = IF cursor[p] = 1 THEN "failed" ELSE "remove"]
    /\ UNCHANGED <<runtime, plan, records>>

RestoreFails(p) ==
    /\ unrestored' = [unrestored EXCEPT ![p] = @ \cup {cursor[p]}]
    /\ RestoreNext(p)

\* Mutant: an entry that was absent is not removed again.
Remove_KeepsAbsent(p) ==
    /\ pc[p] = "remove"
    /\ target' = IF rollback[p][cursor[p]] = Null THEN target
                 ELSE [target EXCEPT ![cursor[p]] = Null]
    /\ pc' = [pc EXCEPT ![p] = "recreate"]
    /\ UNCHANGED <<runtime, plan, cursor, records, unrestored>>

\* Mutant: everything touched is removed before anything is re-created.
Remove_AllFirst(p) ==
    /\ pc[p] = "remove"
    /\ target' = [t \in Targets |-> IF t <= cursor[p] THEN Null ELSE target[t]]
    /\ pc' = [pc EXCEPT ![p] = "recreate"]
    /\ UNCHANGED <<runtime, plan, cursor, records, unrestored>>

Remove(p) ==
    /\ pc[p] = "remove"
    /\ target' = [target EXCEPT ![cursor[p]] = Null]
    /\ pc' = [pc EXCEPT ![p] = "recreate"]
    /\ UNCHANGED <<runtime, plan, cursor, records, unrestored>>

RemoveFails(p) ==
    /\ pc[p] = "remove"
    /\ LET t == cursor[p] IN
        /\ target[t] # Null
        /\ \/ UNCHANGED target
           \/ IsDir(target[t]) /\ target' = [target EXCEPT ![t] = Broken(target[t])]
    /\ RestoreFails(p)

\* symlink_to and copytree raise when the path exists again.
Recreate(p) ==
    /\ pc[p] = "recreate"
    /\ LET t == cursor[p]
           entry == rollback[p][t] IN
        \/ entry = Null /\ UNCHANGED target
        \/ entry # Null /\ target[t] = Null /\ target' = [target EXCEPT ![t] = entry]
    /\ RestoreNext(p)
    /\ UNCHANGED unrestored

RecreateFails(p) ==
    /\ pc[p] = "recreate"
    /\ LET t == cursor[p]
           entry == rollback[p][t] IN
        /\ entry # Null
        /\ \/ UNCHANGED target
           \/ /\ IsDir(entry) /\ target[t] = Null
              /\ target' = [target EXCEPT ![t] = Broken(entry)]
    /\ RestoreFails(p)

Kill(p) ==
    /\ pc[p] \in Running
    /\ pc' = [pc EXCEPT ![p] = "killed"]
    /\ UNCHANGED <<target, runtime, plan, cursor, records, unrestored>>

(***************************************************************************)
(* The specification.  Scripts have always been links.                     *)
(***************************************************************************)
Init ==
    /\ target \in [Targets -> {Null, Link(Old), Dir(Old)}]
    /\ \A t \in Targets \ Skills : target[t] # Dir(Old)
    /\ runtime = [r \in Releases |-> "none"]
    /\ pc = [p \in Procs |-> "idle"]
    /\ rel \in [Procs -> Releases] /\ mode = [p \in Procs |-> "symlink"]
    /\ cursor = [p \in Procs |-> 0]
    /\ rollback = [p \in Procs |-> Nothing]
    /\ manifest = [p \in Procs |-> FALSE]
    /\ before = [p \in Procs |-> Nothing]
    /\ alone = [p \in Procs |-> FALSE]
    /\ unrestored = [p \in Procs |-> {}]

Step(p) ==
    \/ Refuse(p)
    \/ \E r \in Releases, m \in {"symlink", "copy"}, force \in BOOLEAN : Begin(p, r, m, force)
    \/ Build(p)
    \/ Fill(p)
    \/ Backup(p)
    \/ WriteManifest(p)
    \/ Clear(p)
    \/ Place(p)
    \/ Report(p)
    \/ Fail(p)
    \/ ClearFails(p)
    \/ Remove(p)
    \/ RemoveFails(p)
    \/ Recreate(p)
    \/ RecreateFails(p)
    \/ Kill(p)

Next == \E p \in Procs : Step(p)

Spec == Init /\ [][Next]_vars

(***************************************************************************)
(* Properties.                                                             *)
(***************************************************************************)
\* Every variable has its type: a target holds nothing, one of the known entries or
\* what a broken-off rmtree or copytree left of one, and so does a backup.
TypeOK ==
    /\ target \in [Targets -> Contents \cup {Null}]
    /\ runtime \in [Releases -> {"none", "partial", "complete"}]
    /\ pc \in [Procs -> Running \cup Stopped]
    /\ rel \in [Procs -> Releases]
    /\ mode \in [Procs -> {"symlink", "copy"}]
    /\ cursor \in [Procs -> 0 .. NumTargets]
    /\ rollback \in [Procs -> [Targets -> Contents \cup {Null}]]
    /\ manifest \in [Procs -> BOOLEAN]
    /\ before \in [Procs -> [Targets -> Contents \cup {Null}]]
    /\ alone \in [Procs -> BOOLEAN]
    /\ unrestored \in [Procs -> SUBSET Targets]

\* An installer no other one disturbed leaves the whole suite of its release when it
\* returns 0, and what it found when it returns 1, absent paths included, except at the
\* targets it reported as not restored.
AllOrNothing ==
    \A p \in Procs : alone[p] =>
        /\ pc[p] = "installed" => \A t \in Targets : target[t] = Candidate(p, t)
        /\ pc[p] = "failed" => \A t \in Targets \ unrestored[p] : target[t] = before[p][t]

\* Whenever an undisturbed installer stops, killed or not, one target at most is in
\* between: those ahead of it are of the new release and those behind it as they were.
TornAtOnePlace ==
    \A p \in Procs : alone[p] /\ pc[p] \in Running \cup {"killed"} =>
        \E k \in 1 .. NumTargets + 1 :
            /\ \A t \in 1 .. k - 1 : target[t] = Candidate(p, t)
            /\ \A t \in k + 1 .. NumTargets : target[t] = before[p][t] \/ t \in unrestored[p]

\* A link to a release of the suite leads to a complete runtime, whoever else installs,
\* fails, restores or is killed: a release directory is filled once and never rebuilt.
LinksResolve ==
    \A t \in Targets, r \in Releases :
        target[t] = Link(r) => runtime[r] = "complete"

\* What was at a path before any of the installers ran leaves it only when some manifest
\* on disk lists its backup, however the installers overlap.
NothingLost ==
    [][\A t \in Targets :
        target[t] \in {Link(Old), Dir(Old)} /\ target'[t] # target[t]
            => \E p \in Procs : manifest[p] /\ rollback[p][t] = target[t]]_vars
=============================================================================
