--------------------------- MODULE InstallerProofs ---------------------------
(***************************************************************************)
(* Installer for any number of installers, releases and targets.           *)
(*                                                                         *)
(* None of the properties is inductive by itself.  Where an installer is   *)
(* in its phase bounds its cursor; links need what the backups hold, since *)
(* a restore brings it back; what is not lost needs to know whose manifest *)
(* is on disk; and all-or-nothing needs what an undisturbed installer has  *)
(* at each target at each point of its way.                                *)
(***************************************************************************)
EXTENDS Installer, TLAPS

USE CountAssumption, OldAssumption, NullAssumption

\* How far the cursor can be in each phase.
Positions ==
    \A p \in Procs :
        /\ pc[p] \in {"backup", "clear", "place"} => cursor[p] < NumTargets
        /\ pc[p] = "report" => cursor[p] = NumTargets
        /\ pc[p] \in Restoring => cursor[p] > 0

\* Links to releases, at the targets and in the backups, lead to complete runtimes, and
\* so will those an installer is about to make.
Resolved ==
    /\ LinksResolve
    /\ \A p \in Procs, t \in Targets, r \in Releases :
        rollback[p][t] = Link(r) => runtime[r] = "complete"
    /\ \A p \in Procs :
        pc[p] \in {"backup", "manifest"} \cup Switching => runtime[rel[p]] = "complete"

\* What an earlier installation, or the user, left whole.
Inherited == {Link(Old), Dir(Old)}

\* The value c of target t is in the backups that a manifest on disk lists.
ListedAt(t, c) == \E q \in Procs : manifest[q] /\ rollback[q][t] = c

\* Installer p has backed up target t.
BackedUp(p, t) == pc[p] = "manifest" \/ (pc[p] = "backup" /\ t <= cursor[p])

\* The manifest is on disk exactly from the first switch on, and what was backed up and
\* is still in place is in the backup of that installer or in a manifest.
Listed ==
    /\ \A p \in Procs :
        /\ pc[p] \in Switching \cup Restoring => manifest[p]
        /\ manifest[p] => pc[p] \notin Preparing \cup {"idle"}
    /\ \A p \in Procs, t \in Targets :
        target[t] \in Inherited =>
            /\ manifest[p] => ListedAt(t, target[t])
            /\ BackedUp(p, t) => rollback[p][t] = target[t] \/ ListedAt(t, target[t])

\* Target t is as the undisturbed installer p found it, as far as it could restore it.
AsBefore(p, t) == target[t] = before[p][t] \/ t \in unrestored[p]
AsNew(p, t) == target[t] = Candidate(p, t)

\* At k targets there is the new release, and after "to" all is as before.
Between(p, k, to) ==
    /\ \A t \in Targets : t <= k => AsNew(p, t)
    /\ \A t \in Targets : t > to => AsBefore(p, t)

\* What an undisturbed installer has done when it is at pc[p].
Progress(p) ==
    /\ \A q \in Procs \ {p} : pc[q] \notin Running
    /\ pc[p] = "backup" =>
        \A t \in Targets : t <= cursor[p] => rollback[p][t] = before[p][t]
    /\ pc[p] \in {"manifest"} \cup Switching \cup Restoring => rollback[p] = before[p]
    /\ pc[p] \in Preparing => target = before[p]
    /\ pc[p] = "clear" => Between(p, cursor[p], cursor[p])
    /\ pc[p] = "place" => Between(p, cursor[p], cursor[p] + 1)
    /\ pc[p] \in {"report", "installed"} => \A t \in Targets : AsNew(p, t)
    /\ pc[p] \in Restoring => Between(p, cursor[p] - 1, cursor[p])
    /\ pc[p] = "recreate" => target[cursor[p]] = Null
    /\ pc[p] = "failed" => \A t \in Targets : AsBefore(p, t)
    /\ pc[p] = "killed" => \E k \in 1 .. NumTargets + 1 : Between(p, k - 1, k)

Undisturbed == \A p \in Procs : alone[p] => Progress(p)

\* Only a restore reports what it could not restore.
Fresh == \A p \in Procs : pc[p] \in {"idle"} \cup Preparing \cup Switching => unrestored[p] = {}

IInv == TypeOK /\ Positions /\ Fresh /\ Resolved /\ Listed /\ Undisturbed

\* Every kind of action, for the case splits below.
LEMMA Cases ==
    ASSUME NEW p \in Procs, Step(p)
    PROVE  \/ Refuse(p) \/ (\E r \in Releases, m \in {"symlink", "copy"}, force \in BOOLEAN :
                               Begin(p, r, m, force))
           \/ Build(p) \/ Fill(p) \/ Backup(p) \/ WriteManifest(p) \/ Clear(p) \/ Place(p)
           \/ Report(p) \/ Fail(p) \/ ClearFails(p) \/ Remove(p) \/ RemoveFails(p)
           \/ Recreate(p) \/ RecreateFails(p) \/ Kill(p)
  BY DEF Step

\* Contents are told apart by what they are and whose they are.
LEMMA ContentFacts ==
    /\ \A r \in Releases \cup {Old} : Link(r) \in Contents /\ Dir(r) \in Contents
    /\ \A r, s \in Releases \cup {Old} : Link(r) = Link(s) => r = s
    /\ \A r, s \in Releases \cup {Old} : Dir(r) = Dir(s) => r = s
    /\ \A r, s : Link(r) # Dir(s)
    /\ \A c \in Contents : /\ Broken(c) \in Contents
                           /\ \A s : Broken(c) # Link(s) /\ Broken(c) # Dir(s)
<1>1. \A r, s : Link(r) # Dir(s)
  <2> TAKE r, s
  <2>1. Link(r).kind = "link" /\ Dir(s).kind = "dir"
    BY DEF Link, Dir
  <2> QED
    BY <2>1
<1>2. \A r, s \in Releases \cup {Old} : (Link(r) = Link(s) => r = s) /\ (Dir(r) = Dir(s) => r = s)
  <2> TAKE r, s \in Releases \cup {Old}
  <2>1. Link(r).of = r /\ Link(s).of = s /\ Dir(r).of = r /\ Dir(s).of = s
    BY DEF Link, Dir
  <2> QED
    BY <2>1
<1>3. ASSUME NEW c \in Contents
      PROVE  Broken(c) \in Contents /\ \A s : Broken(c) # Link(s) /\ Broken(c) # Dir(s)
  <2>1. Broken(c) \in Contents /\ Broken(c).kind = "broken"
    BY DEF Broken, Contents
  <2>2. \A s : Link(s).kind = "link" /\ Dir(s).kind = "dir"
    BY DEF Link, Dir
  <2> QED
    BY <2>1, <2>2
<1>4. \A r \in Releases \cup {Old} : Link(r) \in Contents /\ Dir(r) \in Contents
  BY DEF Link, Dir, Contents
<1> QED
  BY <1>1, <1>2, <1>3, <1>4

\* A candidate is of the release installed, and never what was inherited.
LEMMA CandidateFacts ==
    ASSUME TypeOK, NEW p \in Procs, NEW t \in Targets
    PROVE  /\ Candidate(p, t) \in Contents
           /\ Candidate(p, t) \notin Inherited
           /\ \A r \in Releases : Candidate(p, t) = Link(r) => r = rel[p]
<1>1. rel[p] \in Releases /\ rel[p] # Old
  BY DEF TypeOK
<1>2. Candidate(p, t) \in {Link(rel[p]), Dir(rel[p])}
  BY DEF Candidate
<1> QED
  BY <1>1, <1>2, ContentFacts DEF Inherited

\* A step writes one target at most, and only in the switch or the restore: it removes
\* it, leaves it half removed or half copied, places the candidate or puts the backup back.
LEMMA OneTarget ==
    ASSUME TypeOK, Positions, NEW p \in Procs, Step(p)
    PROVE  \E t \in Targets : \E c \in Contents \cup {Null} :
              /\ target' = [target EXCEPT ![t] = c]
              /\ \/ c = target[t]
                 \/ /\ pc[p] \in Switching \cup Restoring
                    /\ \/ c = Null
                       \/ \E d \in Contents : c = Broken(d)
                       \/ c = Candidate(p, t) /\ pc[p] = "place"
                       \/ c = rollback[p][t]
<1> USE DEF TypeOK
<1> DEFINE Writes(t, c) ==
              /\ target' = [target EXCEPT ![t] = c]
              /\ \/ c = target[t]
                 \/ /\ pc[p] \in Switching \cup Restoring
                    /\ \/ c = Null
                       \/ \E d \in Contents : c = Broken(d)
                       \/ c = Candidate(p, t) /\ pc[p] = "place"
                       \/ c = rollback[p][t]
<1> SUFFICES \E t \in Targets : \E c \in Contents \cup {Null} : Writes(t, c)
  OBVIOUS
<1>1. CASE UNCHANGED target
  <2>1. 1 \in Targets
    BY DEF Targets
  <2>2. target' = [target EXCEPT ![1] = target[1]]
    BY <1>1
  <2>3. Writes(1, target[1])
    BY <2>2
  <2>4. target[1] \in Contents \cup {Null}
    BY <2>1
  <2> HIDE DEF Writes
  <2> QED
    BY <2>1, <2>3, <2>4
<1>2. CASE Clear(p) /\ ~ UNCHANGED target
  <2> DEFINE t == cursor[p] + 1
  <2>1. t \in Targets
    BY <1>2 DEF Clear, Positions, Targets
  <2>2. Writes(t, Null)
    BY <1>2 DEF Clear, Switching
  <2> HIDE DEF Writes
  <2> QED
    BY <2>1, <2>2
<1>3. CASE Place(p)
  <2> DEFINE t == cursor[p] + 1
  <2>1. t \in Targets
    BY <1>3 DEF Place, Positions, Targets
  <2>2. Writes(t, Candidate(p, t))
    BY <1>3 DEF Place, Switching
  <2>3. Candidate(p, t) \in Contents
    BY <2>1, CandidateFacts
  <2> HIDE DEF Writes
  <2> QED
    BY <2>1, <2>2, <2>3
<1>4. CASE ClearFails(p)
  <2> DEFINE t == cursor[p] + 1
  <2>1. t \in Targets
    BY <1>4 DEF ClearFails, Positions, Targets
  <2>2. target[t] \in Contents
    BY <1>4, <2>1 DEF ClearFails, IsDir
  <2>3. Writes(t, Broken(target[t]))
    BY <1>4, <2>2 DEF ClearFails, Switching
  <2>4. Broken(target[t]) \in Contents
    BY <2>2, ContentFacts
  <2> HIDE DEF Writes
  <2> QED
    BY <2>1, <2>3, <2>4
<1>5. ASSUME pc[p] \in Restoring PROVE cursor[p] \in Targets
  BY <1>5 DEF Positions, Targets
<1>6. CASE Remove(p)
  <2>1. cursor[p] \in Targets
    BY <1>5, <1>6 DEF Remove, Restoring
  <2>2. Writes(cursor[p], Null)
    BY <1>6 DEF Remove, Restoring
  <2> HIDE DEF Writes
  <2> QED
    BY <2>1, <2>2
<1>7. CASE RemoveFails(p) /\ ~ UNCHANGED target
  <2> DEFINE t == cursor[p]
  <2>1. t \in Targets
    BY <1>5, <1>7 DEF RemoveFails, Restoring
  <2>2. target[t] \in Contents
    BY <1>7, <2>1 DEF RemoveFails
  <2>3. Writes(t, Broken(target[t]))
    BY <1>7, <2>2 DEF RemoveFails, Restoring
  <2>4. Broken(target[t]) \in Contents
    BY <2>2, ContentFacts
  <2> HIDE DEF Writes
  <2> QED
    BY <2>1, <2>3, <2>4
<1>8. CASE Recreate(p) /\ ~ UNCHANGED target
  <2> DEFINE t == cursor[p]
  <2>1. t \in Targets
    BY <1>5, <1>8 DEF Recreate, Restoring
  <2>2. Writes(t, rollback[p][t])
    BY <1>8 DEF Recreate, Restoring
  <2>3. rollback[p][t] \in Contents \cup {Null}
    BY <2>1
  <2> HIDE DEF Writes
  <2> QED
    BY <2>1, <2>2, <2>3
<1>9. CASE RecreateFails(p) /\ ~ UNCHANGED target
  <2> DEFINE t == cursor[p]
  <2>1. t \in Targets
    BY <1>5, <1>9 DEF RecreateFails, Restoring
  <2>2. rollback[p][t] \in Contents
    BY <1>9, <2>1 DEF RecreateFails
  <2>3. Writes(t, Broken(rollback[p][t]))
    BY <1>9, <2>2 DEF RecreateFails, Restoring
  <2>4. Broken(rollback[p][t]) \in Contents
    BY <2>2, ContentFacts
  <2> HIDE DEF Writes
  <2> QED
    BY <2>1, <2>3, <2>4
<1>10. \/ UNCHANGED target
       \/ Clear(p) \/ Place(p) \/ ClearFails(p) \/ Remove(p) \/ RemoveFails(p) \/ Recreate(p)
       \/ RecreateFails(p)
  <2> HIDE DEF Writes, TypeOK
  <2>1. CASE \/ Refuse(p) \/ Build(p) \/ Fill(p) \/ Backup(p) \/ WriteManifest(p) \/ Report(p)
             \/ Fail(p) \/ Kill(p)
    BY <2>1 DEF Refuse, Build, Fill, Backup, WriteManifest, Report, Fail, Kill
  <2>2. CASE \E r \in Releases, m \in {"symlink", "copy"}, force \in BOOLEAN :
                Begin(p, r, m, force)
    BY <2>2 DEF Begin
  <2> QED
    BY <2>1, <2>2, Cases
<1> HIDE DEF Writes, TypeOK
<1> QED
  BY <1>1, <1>2, <1>3, <1>4, <1>6, <1>7, <1>8, <1>9, <1>10

\* What a step leaves of the rest of the state: the runtimes only grow, a manifest and
\* what is backed up stay, except that a backup is made during the phase of that name,
\* and the others are where they were.
LEMMA Others ==
    ASSUME TypeOK, Positions, NEW p \in Procs, Step(p)
    PROVE  /\ \A q \in Procs \ {p} :
                 /\ pc'[q] = pc[q] /\ cursor'[q] = cursor[q] /\ rel'[q] = rel[q]
                 /\ mode'[q] = mode[q] /\ rollback'[q] = rollback[q]
                 /\ manifest'[q] = manifest[q] /\ before'[q] = before[q]
                 /\ unrestored'[q] = unrestored[q]
           /\ \A r \in Releases : runtime[r] = "complete" => runtime'[r] = "complete"
           /\ manifest[p] => manifest'[p]
           /\ rollback'[p] # rollback[p] => pc[p] = "backup"
<1> USE DEF TypeOK
<1>1. CASE Refuse(p) \/ Fail(p) \/ Kill(p) \/ Report(p)
  BY <1>1 DEF Refuse, Fail, Rollback, Kill, Report, plan, records
<1>2. CASE \E r \in Releases, m \in {"symlink", "copy"}, force \in BOOLEAN : Begin(p, r, m, force)
  BY <1>2 DEF Begin, records
<1>3. CASE Build(p) \/ Fill(p)
  BY <1>3 DEF Build, Fill, plan, records
<1>4. CASE Backup(p) \/ WriteManifest(p)
  BY <1>4 DEF Backup, WriteManifest, plan
<1>5. CASE Clear(p) \/ Place(p) \/ ClearFails(p)
  BY <1>5 DEF Clear, Place, ClearFails, Rollback, plan, records
<1>6. CASE Remove(p) \/ RemoveFails(p)
  BY <1>6 DEF Remove, RemoveFails, RestoreFails, RestoreNext, plan, records
<1>7. CASE Recreate(p) \/ RecreateFails(p)
  BY <1>7 DEF Recreate, RecreateFails, RestoreFails, RestoreNext, plan, records
<1> HIDE DEF TypeOK
<1> QED
  BY <1>1, <1>2, <1>3, <1>4, <1>5, <1>6, <1>7, Cases

LEMMA ChangedRange ==
    ASSUME TypeOK, Positions, NEW p \in Procs, pc[p] \in Switching
    PROVE  Changed(p) \in 1 .. NumTargets
  BY DEF TypeOK, Positions, Switching, Changed

LEMMA TypeStep ==
    ASSUME TypeOK, Positions, Fresh, NEW p \in Procs, Step(p)
    PROVE  TypeOK' /\ Positions' /\ Fresh'
<1>1. target' \in [Targets -> Contents \cup {Null}]
  BY OneTarget DEF TypeOK
<1> DEFINE Rest ==
        /\ runtime' \in [Releases -> {"none", "partial", "complete"}]
        /\ pc' \in [Procs -> Running \cup Stopped]
        /\ rel' \in [Procs -> Releases]
        /\ mode' \in [Procs -> {"symlink", "copy"}]
        /\ cursor' \in [Procs -> 0 .. NumTargets]
        /\ rollback' \in [Procs -> [Targets -> Contents \cup {Null}]]
        /\ manifest' \in [Procs -> BOOLEAN]
        /\ before' \in [Procs -> [Targets -> Contents \cup {Null}]]
        /\ alone' \in [Procs -> BOOLEAN]
        /\ unrestored' \in [Procs -> SUBSET Targets]
        /\ pc'[p] \in {"backup", "clear", "place"} => cursor'[p] < NumTargets
        /\ pc'[p] = "report" => cursor'[p] = NumTargets
        /\ pc'[p] \in Restoring => cursor'[p] > 0
        /\ pc'[p] \in {"idle"} \cup Preparing \cup Switching => unrestored'[p] = {}
<1> USE DEF Running, Preparing, Switching, Restoring, Stopped
<1>2. ASSUME Refuse(p) \/ Kill(p) \/ Report(p) PROVE Rest
  BY <1>2 DEF Refuse, Kill, Report, plan, records, TypeOK, Positions, Fresh
<1>3. ASSUME \E r \in Releases, m \in {"symlink", "copy"}, force \in BOOLEAN :
                Begin(p, r, m, force)
      PROVE  Rest
  BY <1>3 DEF Begin, records, TypeOK, Positions, Fresh
<1>4. ASSUME Build(p) \/ Fill(p) PROVE Rest
  <2>1. runtime' \in [Releases -> {"none", "partial", "complete"}]
    BY <1>4 DEF Build, Fill, TypeOK
  <2>2. /\ pc' \in [Procs -> Running \cup Stopped] /\ pc'[p] \in {"fill", "backup"}
        /\ pc[p] \in Preparing
    BY <1>4 DEF Build, Fill, TypeOK
  <2>3. /\ cursor' \in [Procs -> 0 .. NumTargets]
        /\ pc'[p] = "backup" => cursor'[p] < NumTargets
    BY <1>4 DEF Build, Fill, TypeOK
  <2>4. UNCHANGED <<rel, mode, before, alone, rollback, manifest, unrestored>>
    BY <1>4 DEF Build, Fill, plan, records
  <2> QED
    BY <2>1, <2>2, <2>3, <2>4 DEF TypeOK, Fresh
<1>5. ASSUME Backup(p) PROVE Rest
  <2> DEFINE t == cursor[p] + 1
  <2>1. t \in Targets
    BY <1>5 DEF Backup, Positions, TypeOK, Targets
  <2>2. rollback' \in [Procs -> [Targets -> Contents \cup {Null}]]
    <3>1. [rollback[p] EXCEPT ![t] = target[t]] \in [Targets -> Contents \cup {Null}]
      BY <2>1 DEF TypeOK
    <3>2. rollback' = [rollback EXCEPT ![p] = [rollback[p] EXCEPT ![t] = target[t]]]
      BY <1>5 DEF Backup
    <3> QED
      BY <3>1, <3>2 DEF TypeOK
  <2>3. /\ pc' \in [Procs -> Running \cup Stopped] /\ cursor' \in [Procs -> 0 .. NumTargets]
        /\ pc'[p] \in {"backup", "manifest"}
        /\ pc'[p] = "backup" => cursor'[p] < NumTargets
    BY <1>5, <2>1 DEF Backup, TypeOK, Targets
  <2>4. UNCHANGED <<runtime, rel, mode, before, alone, manifest, unrestored>> /\ pc[p] = "backup"
    BY <1>5 DEF Backup, plan
  <2> QED
    BY <2>2, <2>3, <2>4 DEF TypeOK, Fresh
<1>6. ASSUME WriteManifest(p) PROVE Rest
  BY <1>6 DEF WriteManifest, plan, TypeOK, Positions, Fresh
<1>7. ASSUME Clear(p) PROVE Rest
  BY <1>7 DEF Clear, plan, records, TypeOK, Positions, Fresh
<1>8. ASSUME Place(p) PROVE Rest
  BY <1>8 DEF Place, plan, records, TypeOK, Positions, Fresh
<1>9. ASSUME Fail(p) /\ pc[p] \in Preparing PROVE Rest
  BY <1>9 DEF Fail, Rollback, plan, records, TypeOK, Positions, Fresh
<1>10. ASSUME (Fail(p) /\ pc[p] \in Switching) \/ ClearFails(p) PROVE Rest
  <2>1. Rollback(p) /\ pc[p] \in Switching
    BY <1>10 DEF Fail, ClearFails
  <2>2. Changed(p) \in 1 .. NumTargets
    BY <2>1, ChangedRange
  <2> QED
    BY <2>1, <2>2 DEF Rollback, plan, records, TypeOK
<1>11. ASSUME Remove(p) PROVE Rest
  BY <1>11 DEF Remove, plan, records, TypeOK, Positions
<1>12. ASSUME RemoveFails(p) \/ RecreateFails(p) PROVE Rest
  <2>1. RestoreFails(p) /\ pc[p] \in Restoring
    BY <1>12 DEF RemoveFails, RecreateFails
  <2>2. cursor[p] \in 1 .. NumTargets
    BY <2>1 DEF Positions, TypeOK
  <2> QED
    BY <2>1, <2>2 DEF RestoreFails, RestoreNext, plan, records, TypeOK, Targets
<1>13. ASSUME Recreate(p) PROVE Rest
  <2>1. cursor[p] \in 1 .. NumTargets
    BY <1>13 DEF Recreate, Positions, TypeOK
  <2> QED
    BY <1>13, <2>1 DEF Recreate, RestoreNext, plan, records, TypeOK
<1>14. Rest
  <2> HIDE DEF Rest
  <2>1. Fail(p) => pc[p] \in Preparing \/ pc[p] \in Switching
    BY DEF Fail
  <2> QED
    BY <1>2, <1>3, <1>4, <1>5, <1>6, <1>7, <1>8, <1>9, <1>10, <1>11, <1>12, <1>13, <2>1, Cases
<1>15. \A q \in Procs \ {p} :
          pc'[q] = pc[q] /\ cursor'[q] = cursor[q] /\ unrestored'[q] = unrestored[q]
  BY Others
<1>16. TypeOK'
  BY <1>1, <1>14 DEF TypeOK
<1>17. Positions'
  BY <1>14, <1>15 DEF Positions
<1>18. Fresh'
  BY <1>14, <1>15 DEF Fresh
<1> QED
  BY <1>16, <1>17, <1>18

(***************************************************************************)
(* Links lead to complete runtimes.                                        *)
(***************************************************************************)
LEMMA ResolvedStep ==
    ASSUME TypeOK, Positions, Resolved, NEW p \in Procs, Step(p)
    PROVE  Resolved'
<1>1. \A r \in Releases : runtime[r] = "complete" => runtime'[r] = "complete"
  BY Others
<1>2. PICK t \in Targets, c \in Contents \cup {Null} :
        /\ target' = [target EXCEPT ![t] = c]
        /\ \/ c = target[t]
           \/ /\ pc[p] \in Switching \cup Restoring
              /\ \/ c = Null
                 \/ \E d \in Contents : c = Broken(d)
                 \/ c = Candidate(p, t) /\ pc[p] = "place"
                 \/ c = rollback[p][t]
  BY OneTarget
<1>3. LinksResolve'
  <2> SUFFICES ASSUME NEW u \in Targets, NEW r \in Releases, target'[u] = Link(r)
               PROVE  runtime[r] = "complete"
    BY <1>1 DEF LinksResolve
  <2>1. CASE target'[u] = target[u]
    BY <2>1 DEF Resolved, LinksResolve
  <2>2. CASE target'[u] # target[u]
    <3>1. u = t /\ target'[u] = c
      BY <1>2, <2>2 DEF TypeOK
    <3>2. c \in Contents /\ c = Link(r)
      BY <3>1, ContentFacts
    <3>3. CASE c = Candidate(p, t) /\ pc[p] = "place"
      BY <3>2, <3>3, CandidateFacts DEF Resolved, Switching
    <3>4. CASE c = rollback[p][t]
      BY <3>2, <3>4 DEF Resolved
    <3>5. c # Null
      BY <3>2
    <3>6. ~ \E d \in Contents : c = Broken(d)
      BY <3>2, ContentFacts
    <3> QED
      BY <1>2, <2>2, <3>1, <3>3, <3>4, <3>5, <3>6
  <2> QED
    BY <2>1, <2>2
<1>4. \A q \in Procs, u \in Targets, r \in Releases :
        rollback'[q][u] = Link(r) => runtime'[r] = "complete"
  <2> SUFFICES ASSUME NEW q \in Procs, NEW u \in Targets, NEW r \in Releases,
                      rollback'[q][u] = Link(r)
               PROVE  runtime[r] = "complete"
    BY <1>1
  <2>1. CASE rollback'[q] = rollback[q]
    BY <2>1 DEF Resolved
  <2>2. CASE rollback'[q] # rollback[q]
    <3>1. q = p /\ pc[p] = "backup"
      BY <2>2, Others
    <3>2. Backup(p) \/ Fail(p) \/ Kill(p)
      BY <3>1, Cases DEF Refuse, Begin, Build, Fill, WriteManifest, Clear, Place, Report,
         ClearFails, Remove, RemoveFails, Recreate, RecreateFails
    <3>3. Backup(p)
      BY <2>2, <3>1, <3>2 DEF Fail, Rollback, Kill, records
    <3>4. rollback' = [rollback EXCEPT
                         ![p] = [rollback[p] EXCEPT ![cursor[p] + 1] = target[cursor[p] + 1]]]
      BY <3>3 DEF Backup
    <3>5. rollback'[p][u] = rollback[p][u] \/ rollback'[p][u] = target[u]
      BY <3>4 DEF TypeOK
    <3> QED
      BY <3>1, <3>5 DEF Resolved, LinksResolve
  <2> QED
    BY <2>1, <2>2
<1>5. \A q \in Procs :
        pc'[q] \in {"backup", "manifest"} \cup Switching => runtime'[rel'[q]] = "complete"
  <2> SUFFICES ASSUME NEW q \in Procs, pc'[q] \in {"backup", "manifest"} \cup Switching
               PROVE  runtime'[rel'[q]] = "complete"
    OBVIOUS
  <2> USE DEF Switching
  <2>1. CASE q # p
    BY <2>1, <1>1, Others DEF Resolved, TypeOK
  <2>2. CASE q = p /\ Fill(p)
    BY <2>2 DEF Fill, plan, TypeOK
  <2>3. CASE q = p /\ ~ Fill(p)
    <3>1. pc[p] \in {"backup", "manifest"} \cup Switching /\ rel' = rel
      <4>1. CASE Backup(p) \/ WriteManifest(p) \/ Clear(p) \/ Place(p)
        BY <4>1 DEF Backup, WriteManifest, Clear, Place, plan
      <4>2. CASE \/ Refuse(p) \/ Report(p) \/ Fail(p) \/ Kill(p) \/ Build(p)
                 \/ (\E r \in Releases, m \in {"symlink", "copy"}, force \in BOOLEAN :
                        Begin(p, r, m, force))
        BY <2>3, <4>2 DEF Refuse, Report, Fail, Rollback, Kill, Build, Begin, TypeOK
      <4>3. CASE \/ ClearFails(p) \/ Remove(p) \/ RemoveFails(p) \/ Recreate(p)
                 \/ RecreateFails(p)
        BY <2>3, <4>3 DEF ClearFails, Rollback, Remove, RemoveFails, Recreate, RecreateFails,
           RestoreFails, RestoreNext, TypeOK
      <4> QED
        BY <2>3, <4>1, <4>2, <4>3, Cases
    <3> QED
      BY <1>1, <2>3, <3>1 DEF Resolved, TypeOK
  <2> QED
    BY <2>1, <2>2, <2>3
<1> QED
  BY <1>3, <1>4, <1>5 DEF Resolved

(***************************************************************************)
(* What was there before is listed before it goes.                         *)
(***************************************************************************)
\* Where a step of p can lead, as far as manifests and backups are concerned.
LEMMA Phases ==
    ASSUME TypeOK, Positions, NEW p \in Procs, Step(p)
    PROVE  /\ pc'[p] \in Switching \cup Restoring =>
                WriteManifest(p) \/ pc[p] \in Switching \cup Restoring
           /\ manifest'[p] => manifest[p] \/ WriteManifest(p)
           /\ pc'[p] \in Preparing \cup {"idle"} => pc[p] \in Preparing \cup {"idle"}
           /\ pc'[p] \in {"backup", "manifest"} => Backup(p) \/ (Fill(p) /\ cursor'[p] = 0)
<1> USE DEF TypeOK, Preparing, Switching, Restoring
<1>1. CASE Refuse(p) \/ Fail(p) \/ Kill(p) \/ Report(p) \/ Build(p) \/ Fill(p)
  BY <1>1 DEF Refuse, Fail, Rollback, Kill, Report, Build, Fill, records, Running
<1>2. CASE \E r \in Releases, m \in {"symlink", "copy"}, force \in BOOLEAN : Begin(p, r, m, force)
  BY <1>2 DEF Begin, records
<1>3. CASE Backup(p) \/ WriteManifest(p)
  BY <1>3 DEF Backup, WriteManifest
<1>4. CASE Clear(p) \/ Place(p) \/ ClearFails(p)
  BY <1>4 DEF Clear, Place, ClearFails, Rollback, records
<1>5. CASE Remove(p) \/ RemoveFails(p) \/ Recreate(p) \/ RecreateFails(p)
  BY <1>5 DEF Remove, RemoveFails, Recreate, RecreateFails, RestoreFails, RestoreNext, records
<1> HIDE DEF TypeOK, Preparing, Switching, Restoring
<1> QED
  BY <1>1, <1>2, <1>3, <1>4, <1>5, Cases

\* The same after the step.
ListedNext(t, c) == \E q \in Procs : manifest'[q] /\ rollback'[q][t] = c

\* What a manifest lists it lists for good.
LEMMA ListedForGood ==
    ASSUME TypeOK, Positions, Listed, NEW p \in Procs, Step(p),
           NEW t \in Targets, NEW c, ListedAt(t, c)
    PROVE  ListedNext(t, c)
<1>1. PICK q \in Procs : manifest[q] /\ rollback[q][t] = c
  BY DEF ListedAt
<1>2. pc[q] # "backup"
  BY <1>1 DEF Listed, Preparing
<1>3. manifest'[q] /\ rollback'[q] = rollback[q]
  BY <1>1, <1>2, Others
<1> QED
  BY <1>1, <1>3 DEF ListedNext

LEMMA ListedStep ==
    ASSUME TypeOK, Positions, Listed, NEW p \in Procs, Step(p)
    PROVE  Listed'
<1>1. \A q \in Procs :
        /\ pc'[q] \in Switching \cup Restoring => manifest'[q]
        /\ manifest'[q] => pc'[q] \notin Preparing \cup {"idle"}
  <2> SUFFICES ASSUME NEW q \in Procs
               PROVE  /\ pc'[q] \in Switching \cup Restoring => manifest'[q]
                      /\ manifest'[q] => pc'[q] \notin Preparing \cup {"idle"}
    OBVIOUS
  <2>1. CASE q # p
    BY <2>1, Others DEF Listed
  <2>2. CASE q = p /\ WriteManifest(p)
    BY <2>2 DEF WriteManifest, TypeOK, Preparing
  <2>3. CASE q = p /\ ~ WriteManifest(p)
    BY <2>3, Phases, Others DEF Listed
  <2> QED
    BY <2>1, <2>2, <2>3
<1>2. ASSUME NEW t \in Targets, target'[t] \in Inherited, target'[t] # target[t]
      PROVE  ListedNext(t, target'[t])
  <2>1. target'[t] \in Contents
    BY <1>2, ContentFacts DEF Inherited
  <2>2. PICK u \in Targets, c \in Contents \cup {Null} :
          /\ target' = [target EXCEPT ![u] = c]
          /\ \/ c = target[u]
             \/ /\ pc[p] \in Switching \cup Restoring
                /\ \/ c = Null
                   \/ \E d \in Contents : c = Broken(d)
                   \/ c = Candidate(p, u) /\ pc[p] = "place"
                   \/ c = rollback[p][u]
    BY OneTarget
  <2>3. u = t /\ target'[t] = c
    BY <1>2, <2>2 DEF TypeOK
  <2>4. c \in Inherited /\ c # Null
    BY <1>2, <2>1, <2>3
  <2>5. ~ \E d \in Contents : c = Broken(d)
    BY <2>4, ContentFacts DEF Inherited
  <2>6. c # Candidate(p, u)
    BY <2>4, CandidateFacts
  <2>7. rollback[p][t] = c /\ manifest[p]
    BY <1>2, <2>2, <2>3, <2>4, <2>5, <2>6 DEF Listed
  <2>8. ListedAt(t, c)
    BY <2>7 DEF ListedAt
  <2>9. ListedNext(t, c)
    BY <2>8, ListedForGood
  <2> QED
    BY <2>3, <2>9
<1>3. ASSUME NEW q \in Procs, NEW t \in Targets, target'[t] \in Inherited
      PROVE  /\ manifest'[q] => ListedNext(t, target'[t])
             /\ BackedUp(q, t)' => rollback'[q][t] = target'[t] \/ ListedNext(t, target'[t])
  <2>1. CASE target'[t] # target[t]
    BY <1>2, <1>3, <2>1
  <2>2. CASE target'[t] = target[t]
    <3> DEFINE c == target[t]
    <3>1. ListedAt(t, c) => ListedNext(t, c)
      BY ListedForGood
    <3>2. target'[t] = c /\ c \in Inherited
      BY <1>3, <2>2
    <3>3. /\ manifest[q] => ListedAt(t, c)
          /\ BackedUp(q, t) => rollback[q][t] = c \/ ListedAt(t, c)
      BY <3>2 DEF Listed
    <3>4. ASSUME manifest'[q] PROVE ListedNext(t, c)
      <4>1. CASE manifest[q]
        BY <3>1, <3>3, <4>1
      <4>2. CASE ~ manifest[q]
        <5>1. q = p /\ WriteManifest(p)
          BY <3>4, <4>2, Others, Phases
        <5>2. rollback' = rollback /\ BackedUp(q, t)
          BY <5>1 DEF WriteManifest, BackedUp
        <5> QED
          BY <3>1, <3>3, <3>4, <5>2 DEF ListedNext
      <4> QED
        BY <4>1, <4>2
    <3>5. ASSUME BackedUp(q, t)' PROVE rollback'[q][t] = c \/ ListedNext(t, c)
      <4>1. CASE q # p
        <5>1. BackedUp(q, t) /\ rollback'[q] = rollback[q]
          BY <3>5, <4>1, Others DEF BackedUp
        <5> QED
          BY <3>1, <3>3, <5>1
      <4>2. CASE q = p
        <5>1. pc'[p] \in {"backup", "manifest"}
          BY <3>5, <4>2 DEF BackedUp
        <5>2. ~ (Fill(p) /\ cursor'[p] = 0)
          <6> SUFFICES ASSUME Fill(p), cursor'[p] = 0 PROVE FALSE
            OBVIOUS
          <6>1. pc'[p] = "backup"
            BY DEF Fill, TypeOK
          <6> QED
            BY <3>5, <4>2, <6>1 DEF BackedUp, Targets
        <5>3. Backup(p)
          BY <5>1, <5>2, Phases
        <5>4. /\ rollback' = [rollback EXCEPT
                              ![p] = [rollback[p] EXCEPT ![cursor[p] + 1] = target[cursor[p] + 1]]]
              /\ cursor[p] + 1 \in Targets /\ cursor'[p] = cursor[p] + 1
              /\ pc[p] = "backup" /\ (pc'[p] = "manifest" => cursor[p] + 1 = NumTargets)
          BY <5>3 DEF Backup, TypeOK, Positions, Targets
        <5>5. t <= cursor[p] + 1 /\ cursor[p] \in Nat /\ t \in Nat
          BY <3>5, <4>2, <5>1, <5>4 DEF BackedUp, Targets, TypeOK
        <5>6. CASE t = cursor[p] + 1
          BY <4>2, <5>4, <5>6 DEF TypeOK
        <5>7. CASE t # cursor[p] + 1
          <6>1. rollback'[p][t] = rollback[p][t]
            BY <5>4, <5>7 DEF TypeOK
          <6>2. BackedUp(p, t)
            BY <5>4, <5>5, <5>7 DEF BackedUp
          <6> QED
            BY <3>1, <3>3, <4>2, <6>1, <6>2
        <5> QED
          BY <5>6, <5>7
      <4> QED
        BY <4>1, <4>2
    <3> QED
      BY <3>2, <3>4, <3>5
  <2> QED
    BY <2>1, <2>2
<1> QED
  BY <1>1, <1>3 DEF Listed, ListedAt, ListedNext

(***************************************************************************)
(* An undisturbed installer: all, nothing, or one place in between.        *)
(***************************************************************************)
\* What a step that is not a Begin leaves of an installer's plan.
LEMMA PlanStays ==
    ASSUME NEW p \in Procs, Step(p),
           ~ \E r \in Releases, m \in {"symlink", "copy"}, force \in BOOLEAN : Begin(p, r, m, force)
    PROVE  UNCHANGED <<rel, mode, before, alone>>
<1>1. CASE \/ Refuse(p) \/ Build(p) \/ Fill(p) \/ Backup(p) \/ WriteManifest(p) \/ Clear(p)
           \/ Place(p) \/ Report(p) \/ Fail(p) \/ Kill(p)
  BY <1>1 DEF Refuse, Build, Fill, Backup, WriteManifest, Clear, Place, Report, Fail, Rollback,
     Kill, plan
<1>2. CASE ClearFails(p) \/ Remove(p) \/ RemoveFails(p) \/ Recreate(p) \/ RecreateFails(p)
  BY <1>2 DEF ClearFails, Rollback, Remove, RemoveFails, Recreate, RecreateFails, RestoreFails,
     RestoreNext, plan
<1> QED
  BY <1>1, <1>2, Cases

\* An installer that begins while no other runs is undisturbed.
LEMMA BeginsUndisturbed ==
    ASSUME TypeOK, NEW p \in Procs, NEW r \in Releases, NEW m \in {"symlink", "copy"},
           NEW force \in BOOLEAN, Begin(p, r, m, force)
    PROVE  Undisturbed'
<1> SUFFICES ASSUME NEW q \in Procs, alone'[q] PROVE Progress(q)'
  BY DEF Undisturbed
<1>1. q = p /\ \A o \in Procs : pc[o] \notin Running
  BY DEF Begin, TypeOK
<1>2. /\ pc'[p] = "build" /\ before'[p] = target /\ target' = target
      /\ \A o \in Procs \ {p} : pc'[o] = pc[o]
  BY DEF Begin, TypeOK
<1> QED
  BY <1>1, <1>2 DEF Progress, Preparing, Switching, Restoring

\* While an undisturbed installer has run, the others have not.
LEMMA OthersDoNotDisturb ==
    ASSUME TypeOK, Undisturbed, NEW p \in Procs, Step(p), NEW q \in Procs \ {p}, alone[q],
           UNCHANGED <<rel, mode, before, alone>>
    PROVE  Progress(q)'
<1>1. Progress(q) /\ pc[p] \notin Running
  BY DEF Undisturbed, Progress
<1>2. ~ \E r \in Releases, m \in {"symlink", "copy"}, force \in BOOLEAN : Begin(p, r, m, force)
  <2> SUFFICES ASSUME NEW r \in Releases, NEW m \in {"symlink", "copy"}, NEW force \in BOOLEAN,
                      Begin(p, r, m, force)
               PROVE  FALSE
    OBVIOUS
  <2>1. alone'[q] = FALSE
    BY DEF Begin
  <2> QED
    BY <2>1
<1>3. Refuse(p)
  BY <1>1, <1>2, Cases DEF Running, Preparing, Switching, Restoring, Build, Fill, Backup,
     WriteManifest, Clear, Place, Report, Fail, ClearFails, Remove, RemoveFails, Recreate,
     RecreateFails, Kill
<1>4. /\ UNCHANGED <<target, rel, mode, before, cursor, rollback, unrestored>>
      /\ \A o \in Procs \ {p} : pc'[o] = pc[o]
      /\ pc'[p] \notin Running
  BY <1>3 DEF Refuse, plan, records, TypeOK, Running, Preparing, Switching, Restoring
<1> QED
  BY <1>1, <1>4 DEF Progress, Between, AsNew, AsBefore, Candidate

\* Nothing has been switched while it prepares.
LEMMA PrepareProgress ==
    ASSUME TypeOK, Positions, Fresh, NEW p \in Procs, Progress(p), UNCHANGED <<rel, mode, before>>,
           \/ Build(p) \/ Fill(p) \/ Backup(p) \/ WriteManifest(p)
           \/ (Fail(p) /\ pc[p] \in Preparing) \/ (Kill(p) /\ pc[p] \in Preparing)
    PROVE  Progress(p)'
<1> USE DEF Preparing, Switching, Restoring
<1>1. pc[p] \in Preparing /\ target' = target /\ target = before[p] /\ unrestored' = unrestored
  BY DEF Build, Fill, Backup, WriteManifest, Fail, Kill, Progress
<1>2. \A q \in Procs \ {p} : pc'[q] \notin Running
  BY DEF Build, Fill, Backup, WriteManifest, Fail, Rollback, Kill, TypeOK, Progress
<1>3. \A t \in Targets : AsBefore(p, t)'
  BY <1>1 DEF AsBefore
<1>4. CASE Build(p)
  BY <1>1, <1>2, <1>4 DEF Build, Progress, TypeOK
<1>5. CASE Fill(p)
  <2>1. pc'[p] = "backup" /\ cursor'[p] = 0
    BY <1>5 DEF Fill, TypeOK
  <2> QED
    BY <1>1, <1>2, <2>1 DEF Progress, Targets
<1>6. CASE Backup(p)
  <2> DEFINE u == cursor[p] + 1
  <2>1. /\ rollback'[p] = [rollback[p] EXCEPT ![u] = target[u]] /\ cursor'[p] = u
        /\ pc[p] = "backup"
        /\ pc'[p] \in {"backup", "manifest"} /\ (pc'[p] = "manifest" => u = NumTargets)
        /\ rollback[p] \in [Targets -> Contents \cup {Null}]
    BY <1>6 DEF Backup, TypeOK
  <2>2. ASSUME NEW t \in Targets, t <= u PROVE rollback'[p][t] = before[p][t]
    <3>1. t = u \/ t <= cursor[p]
      BY <2>2 DEF TypeOK, Targets
    <3> QED
      BY <1>1, <2>1, <3>1 DEF Progress
  <2>3. CASE pc'[p] = "backup"
    BY <1>1, <1>2, <2>1, <2>2, <2>3 DEF Progress
  <2>4. CASE pc'[p] = "manifest"
    <3>1. \A t \in Targets : rollback'[p][t] = before[p][t]
      BY <2>1, <2>2, <2>4 DEF Targets
    <3>2. rollback'[p] = before[p]
      BY <2>1, <3>1 DEF TypeOK
    <3> QED
      BY <1>1, <1>2, <2>4, <3>2 DEF Progress
  <2> QED
    BY <2>1, <2>3, <2>4
<1>7. CASE WriteManifest(p)
  <2>1. /\ pc[p] = "manifest" /\ pc'[p] = "clear" /\ cursor'[p] = 0 /\ rollback' = rollback
    BY <1>7 DEF WriteManifest, TypeOK
  <2>2. Between(p, cursor[p], cursor[p])'
    BY <1>3, <2>1 DEF Between, Targets
  <2> QED
    BY <1>1, <1>2, <2>1, <2>2 DEF Progress
<1>8. CASE Fail(p)
  <2>1. pc'[p] = "failed"
    BY <1>1, <1>8 DEF Fail, TypeOK
  <2> QED
    BY <1>2, <1>3, <2>1 DEF Progress
<1>9. CASE Kill(p)
  <2>1. pc'[p] = "killed"
    BY <1>9 DEF Kill, TypeOK
  <2>2. Between(p, 0, 1)'
    BY <1>3 DEF Between, Targets
  <2>3. \E k \in 1 .. NumTargets + 1 : Between(p, k - 1, k)'
    BY <2>2
  <2> QED
    BY <1>2, <2>1, <2>3 DEF Progress
<1> QED
  BY <1>4, <1>5, <1>6, <1>7, <1>8, <1>9

\* The switch goes through the targets in order.
LEMMA SwitchProgress ==
    ASSUME TypeOK, Positions, NEW p \in Procs, Progress(p), UNCHANGED <<rel, mode, before>>,
           \/ Clear(p) \/ Place(p) \/ Report(p) \/ ClearFails(p)
           \/ (Fail(p) /\ pc[p] \in Switching) \/ (Kill(p) /\ pc[p] \in Switching)
    PROVE  Progress(p)'
<1> USE DEF Switching
<1>1. /\ pc[p] \in Switching /\ rollback[p] = before[p]
      /\ UNCHANGED <<rollback, unrestored>>
  BY DEF Clear, Place, Report, ClearFails, Fail, Rollback, Kill, plan, records, Progress
<1>2. \A q \in Procs \ {p} : pc'[q] \notin Running
  BY DEF Clear, Place, Report, ClearFails, Fail, Rollback, Kill, TypeOK, Progress
<1>3. cursor[p] \in Nat /\ cursor[p] <= NumTargets
  BY DEF TypeOK
<1>4. \A t \in Targets : Candidate(p, t)' = Candidate(p, t)
  BY DEF Candidate
<1>5. CASE Clear(p)
  <2> DEFINE u == cursor[p] + 1
  <2>1. pc[p] = "clear" /\ pc'[p] = "place" /\ cursor' = cursor
    BY <1>5 DEF Clear, TypeOK
  <2>2. \A t \in Targets : t # u => target'[t] = target[t]
    BY <1>5 DEF Clear, TypeOK
  <2>3. Between(p, cursor[p], cursor[p])
    BY <2>1 DEF Progress
  <2>4. Between(p, cursor[p], cursor[p] + 1)'
    BY <1>1, <1>3, <1>4, <2>1, <2>2, <2>3 DEF Between, AsNew, AsBefore, Targets
  <2> QED
    BY <1>1, <1>2, <2>1, <2>4 DEF Progress, Preparing, Restoring
<1>6. CASE Place(p)
  <2> DEFINE u == cursor[p] + 1
  <2>1. /\ pc[p] = "place" /\ cursor'[p] = u
        /\ pc'[p] = IF u = NumTargets THEN "report" ELSE "clear"
    BY <1>6 DEF Place, TypeOK
  <2>2. /\ \A t \in Targets : t # u => target'[t] = target[t]
        /\ u \in Targets => target'[u] = Candidate(p, u)
    BY <1>6 DEF Place, TypeOK
  <2>3. Between(p, cursor[p], u)
    BY <2>1 DEF Progress
  <2>4. \A t \in Targets : t <= u => target'[t] = Candidate(p, t)
    BY <1>3, <2>2, <2>3 DEF Between, AsNew, Targets
  <2>5. \A t \in Targets : t > u => target'[t] = before[p][t] \/ t \in unrestored[p]
    BY <1>3, <2>2, <2>3 DEF Between, AsBefore, Targets
  <2>6. CASE u = NumTargets
    <3>1. \A t \in Targets : AsNew(p, t)'
      BY <1>4, <2>4, <2>6 DEF AsNew, Targets
    <3> QED
      BY <1>1, <1>2, <2>1, <2>6, <3>1 DEF Progress, Preparing, Restoring
  <2>7. CASE u # NumTargets
    <3>1. Between(p, cursor[p], cursor[p])'
      BY <1>1, <1>4, <2>1, <2>4, <2>5 DEF Between, AsNew, AsBefore
    <3> QED
      BY <1>1, <1>2, <2>1, <2>7, <3>1 DEF Progress, Preparing, Restoring
  <2> QED
    BY <2>6, <2>7
<1>7. CASE Report(p)
  <2>1. pc[p] = "report" /\ pc'[p] = "installed" /\ target' = target
    BY <1>7 DEF Report, TypeOK
  <2>2. \A t \in Targets : AsNew(p, t)'
    BY <1>4, <2>1 DEF Progress, AsNew
  <2> QED
    BY <1>1, <1>2, <2>1, <2>2 DEF Progress, Preparing, Restoring
<1>8. CASE ClearFails(p) \/ Fail(p)
  <2> DEFINE u == Changed(p)
  <2>1. u \in 1 .. NumTargets
    BY <1>1, ChangedRange
  <2>2. Rollback(p)
    BY <1>1, <1>8 DEF ClearFails, Fail, Preparing
  <2>3. pc'[p] = "remove" /\ cursor'[p] = u
    BY <2>2 DEF Rollback, TypeOK
  <2>4. \A t \in Targets : t # u => target'[t] = target[t]
    BY <1>8 DEF ClearFails, Fail, Rollback, Changed, TypeOK, Preparing
  <2>5. /\ \A t \in Targets : t <= u - 1 => target[t] = Candidate(p, t)
        /\ \A t \in Targets : t > u => target[t] = before[p][t] \/ t \in unrestored[p]
    <3>1. CASE pc[p] = "report"
      BY <1>3, <2>1, <3>1 DEF Changed, Positions, Progress, AsNew, Targets
    <3>2. CASE pc[p] = "clear"
      BY <1>3, <3>2 DEF Changed, Progress, Between, AsNew, AsBefore, Targets
    <3>3. CASE pc[p] = "place"
      BY <1>3, <3>3 DEF Changed, Progress, Between, AsNew, AsBefore, Targets
    <3> QED
      BY <1>1, <3>1, <3>2, <3>3
  <2> HIDE DEF u
  <2>6. Between(p, cursor[p] - 1, cursor[p])'
    <3>1. \A t \in Targets : t <= u - 1 => target'[t] = Candidate(p, t)
      BY <2>1, <2>4, <2>5 DEF Targets
    <3>2. \A t \in Targets : t > u => target'[t] = before[p][t] \/ t \in unrestored[p]
      BY <2>1, <2>4, <2>5 DEF Targets
    <3> QED
      BY <1>1, <1>4, <2>3, <3>1, <3>2 DEF Between, AsNew, AsBefore
  <2> QED
    BY <1>1, <1>2, <2>3, <2>6 DEF Progress, Preparing, Restoring
<1>9. CASE Kill(p)
  <2>1. pc'[p] = "killed" /\ target' = target
    BY <1>9 DEF Kill, TypeOK
  <2>2. CASE pc[p] = "report"
    <3>1. \A t \in Targets : AsNew(p, t)'
      BY <1>4, <2>1, <2>2 DEF Progress, AsNew
    <3>2. Between(p, (NumTargets + 1) - 1, NumTargets + 1)'
      BY <3>1 DEF Between, Targets
    <3>3. \E k \in 1 .. NumTargets + 1 : Between(p, k - 1, k)'
      BY <3>2
    <3> QED
      BY <1>2, <2>1, <3>3 DEF Progress, Preparing, Restoring
  <2>3. CASE pc[p] \in {"clear", "place"}
    <3> DEFINE k == cursor[p] + 1
    <3>1. k \in 1 .. NumTargets + 1 /\ k - 1 = cursor[p]
      BY <1>3
    <3>2. Between(p, k - 1, k)
      BY <1>3, <2>3 DEF Progress, Between, Targets
    <3> HIDE DEF k
    <3>3. /\ \A t \in Targets : t <= k - 1 => target'[t] = Candidate(p, t)
          /\ \A t \in Targets : t > k => target'[t] = before[p][t] \/ t \in unrestored[p]
      BY <2>1, <3>2 DEF Between, AsNew, AsBefore
    <3>4. (\E j \in 1 .. NumTargets + 1 : Between(p, j - 1, j))'
      BY <1>1, <1>4, <3>1, <3>3 DEF Between, AsNew, AsBefore
    <3> QED
      BY <1>2, <2>1, <3>4 DEF Progress, Preparing, Restoring
  <2> QED
    BY <1>1, <2>2, <2>3
<1> QED
  BY <1>5, <1>6, <1>7, <1>8, <1>9

\* The restore goes through them in reverse.
LEMMA RestoreProgress ==
    ASSUME TypeOK, Positions, NEW p \in Procs, Progress(p), UNCHANGED <<rel, mode, before>>,
           \/ Remove(p) \/ RemoveFails(p) \/ Recreate(p) \/ RecreateFails(p)
           \/ (Kill(p) /\ pc[p] \in Restoring)
    PROVE  Progress(p)'
<1> USE DEF Restoring
<1> DEFINE u == cursor[p]
<1>1. /\ pc[p] \in Restoring /\ rollback[p] = before[p] /\ UNCHANGED rollback
      /\ Between(p, u - 1, u)
  BY DEF Remove, RemoveFails, Recreate, RecreateFails, RestoreFails, RestoreNext, Kill, records,
     Progress
<1>2. \A q \in Procs \ {p} : pc'[q] \notin Running
  BY DEF Remove, RemoveFails, Recreate, RecreateFails, RestoreFails, RestoreNext, Kill, TypeOK,
     Progress
<1>3. u \in 1 .. NumTargets
  BY <1>1 DEF TypeOK, Positions
<1>4. \A t \in Targets : Candidate(p, t)' = Candidate(p, t)
  BY DEF Candidate
<1>5. \A t \in Targets : t # u => target'[t] = target[t]
  BY DEF Remove, RemoveFails, Recreate, RecreateFails, Kill, TypeOK
<1>6. /\ \A t \in Targets : t <= u - 1 => target'[t] = Candidate(p, t)
      /\ \A t \in Targets : t > u => target'[t] = before[p][t] \/ t \in unrestored[p]
  BY <1>1, <1>3, <1>5 DEF Between, AsNew, AsBefore, Targets
<1>7. CASE Remove(p)
  <2>1. pc'[p] = "recreate" /\ cursor'[p] = u /\ UNCHANGED unrestored /\ target'[u] = Null
    BY <1>3, <1>7 DEF Remove, TypeOK, Targets
  <2> HIDE DEF u
  <2>2. Between(p, cursor[p] - 1, cursor[p])'
    BY <1>4, <1>6, <2>1 DEF Between, AsNew, AsBefore
  <2> QED
    BY <1>1, <1>2, <2>1, <2>2 DEF Progress, Preparing, Switching
<1>8. CASE RemoveFails(p) \/ Recreate(p) \/ RecreateFails(p)
  <2>1. RestoreNext(p)
    BY <1>8 DEF RemoveFails, RecreateFails, RestoreFails, Recreate
  <2>2. cursor'[p] = u - 1 /\ pc'[p] = IF u = 1 THEN "failed" ELSE "remove"
    BY <2>1 DEF RestoreNext, TypeOK
  <2>3. /\ \A t \in Targets : t \in unrestored[p] => t \in unrestored'[p]
        /\ target'[u] = before[p][u] \/ u \in unrestored'[p]
    <3>1. CASE RemoveFails(p) \/ RecreateFails(p)
      BY <3>1 DEF RemoveFails, RecreateFails, RestoreFails, TypeOK
    <3>2. CASE Recreate(p)
      <4>1. target[u] = Null
        BY <3>2 DEF Recreate, Progress
      <4>2. target'[u] = rollback[p][u]
        BY <1>3, <3>2, <4>1 DEF Recreate, TypeOK, Targets
      <4> QED
        BY <1>1, <3>2, <4>2 DEF Recreate
    <3> QED
      BY <1>8, <3>1, <3>2
  <2>4. \A t \in Targets : t > u - 1 => target'[t] = before[p][t] \/ t \in unrestored'[p]
    <3> SUFFICES ASSUME NEW t \in Targets, t > u - 1
                 PROVE  target'[t] = before[p][t] \/ t \in unrestored'[p]
      OBVIOUS
    <3>1. t = u \/ t > u
      BY <1>3 DEF Targets
    <3> QED
      BY <1>6, <2>3, <3>1
  <2>5. \A t \in Targets : t <= u - 2 => target'[t] = Candidate(p, t)
    BY <1>3, <1>6 DEF Targets
  <2>6. CASE u = 1
    <3>1. \A t \in Targets : AsBefore(p, t)'
      BY <2>4, <2>6 DEF AsBefore, Targets
    <3> QED
      BY <1>2, <2>2, <2>6, <3>1 DEF Progress, Preparing, Switching
  <2>7. CASE u # 1
    <3>1. cursor'[p] - 1 = u - 2
      BY <1>3, <2>2
    <3> HIDE DEF u
    <3>2. Between(p, cursor[p] - 1, cursor[p])'
      BY <1>4, <2>2, <2>4, <2>5, <3>1 DEF Between, AsNew, AsBefore
    <3> QED
      BY <1>1, <1>2, <2>2, <2>7, <3>2 DEF Progress, Preparing, Switching
  <2> QED
    BY <2>6, <2>7
<1>9. CASE Kill(p)
  <2>1. pc'[p] = "killed" /\ UNCHANGED unrestored
    BY <1>9 DEF Kill, TypeOK
  <2>2. u \in 1 .. NumTargets + 1
    BY <1>3
  <2> HIDE DEF u
  <2>3. (\E j \in 1 .. NumTargets + 1 : Between(p, j - 1, j))'
    BY <1>4, <1>6, <2>1, <2>2 DEF Between, AsNew, AsBefore
  <2> QED
    BY <1>2, <2>1, <2>3 DEF Progress, Preparing, Switching
<1> QED
  BY <1>7, <1>8, <1>9

LEMMA UndisturbedStep ==
    ASSUME TypeOK, Positions, Fresh, Undisturbed, NEW p \in Procs, Step(p)
    PROVE  Undisturbed'
<1>1. CASE \E r \in Releases, m \in {"symlink", "copy"}, force \in BOOLEAN : Begin(p, r, m, force)
  BY <1>1, BeginsUndisturbed
<1>2. CASE ~ \E r \in Releases, m \in {"symlink", "copy"}, force \in BOOLEAN : Begin(p, r, m, force)
  <2>1. UNCHANGED <<rel, mode, before, alone>>
    BY <1>2, PlanStays
  <2> SUFFICES ASSUME NEW q \in Procs, alone[q] PROVE Progress(q)'
    BY <2>1 DEF Undisturbed
  <2>2. CASE q # p
    BY <2>1, <2>2, OthersDoNotDisturb
  <2>3. CASE q = p
    <3>1. Progress(p)
      BY <2>3 DEF Undisturbed
    <3>2. CASE Refuse(p)
      <4>1. UNCHANGED <<target, cursor, rollback, unrestored>> /\ pc'[p] = "refused"
        BY <3>2 DEF Refuse, records, TypeOK
      <4>2. \A o \in Procs \ {p} : pc'[o] \notin Running
        BY <3>1, <3>2 DEF Refuse, Progress, TypeOK
      <4> QED
        BY <2>3, <4>1, <4>2 DEF Progress, Preparing, Switching, Restoring
    <3>3. CASE ~ Refuse(p)
      <4>1. \/ Build(p) \/ Fill(p) \/ Backup(p) \/ WriteManifest(p)
            \/ (Fail(p) /\ pc[p] \in Preparing) \/ (Kill(p) /\ pc[p] \in Preparing)
            \/ Clear(p) \/ Place(p) \/ Report(p) \/ ClearFails(p)
            \/ (Fail(p) /\ pc[p] \in Switching) \/ (Kill(p) /\ pc[p] \in Switching)
            \/ Remove(p) \/ RemoveFails(p) \/ Recreate(p) \/ RecreateFails(p)
            \/ (Kill(p) /\ pc[p] \in Restoring)
        BY <1>2, <3>3, Cases DEF Fail, Kill, Running
      <4> QED
        BY <2>1, <2>3, <3>1, <4>1, PrepareProgress, SwitchProgress, RestoreProgress
    <3> QED
      BY <3>2, <3>3
  <2> QED
    BY <2>2, <2>3
<1> QED
  BY <1>1, <1>2

(***************************************************************************)
(* The theorems.                                                           *)
(***************************************************************************)
LEMMA InitIInv == Init => IInv
<1> SUFFICES ASSUME Init PROVE IInv
  OBVIOUS
<1>1. \A t \in Targets : target[t] \in {Null, Link(Old), Dir(Old)}
  BY DEF Init
<1>2. TypeOK
  <2>1. target \in [Targets -> Contents \cup {Null}]
    BY ContentFacts DEF Init
  <2>2. Nothing \in [Targets -> Contents \cup {Null}]
    BY DEF Nothing
  <2> QED
    BY <2>1, <2>2 DEF Init, TypeOK, Running, Stopped
<1>3. Positions /\ Fresh /\ Undisturbed
  BY DEF Init, Positions, Fresh, Undisturbed, Restoring
<1>4. Resolved
  <2>1. \A t \in Targets, r \in Releases : target[t] # Link(r)
    <3> TAKE t \in Targets, r \in Releases
    <3>1. Link(r) \in Contents /\ Link(r) # Link(Old) /\ Link(r) # Dir(Old)
      BY ContentFacts
    <3> QED
      BY <1>1, <3>1
  <2>2. \A p \in Procs, t \in Targets, r \in Releases : rollback[p][t] # Link(r)
    BY ContentFacts DEF Init, Nothing
  <2> QED
    BY <2>1, <2>2 DEF Init, Resolved, LinksResolve, Switching
<1>5. Listed
  BY DEF Init, Listed, BackedUp, Switching, Restoring
<1> QED
  BY <1>2, <1>3, <1>4, <1>5 DEF IInv

LEMMA Inductive == IInv /\ [Next]_vars => IInv'
<1> SUFFICES ASSUME IInv, [Next]_vars PROVE IInv'
  OBVIOUS
<1>1. CASE Next
  <2>1. PICK p \in Procs : Step(p)
    BY <1>1 DEF Next
  <2> QED
    BY <2>1, TypeStep, ResolvedStep, ListedStep, UndisturbedStep DEF IInv
<1>2. CASE UNCHANGED vars
  BY <1>2 DEF vars, IInv, TypeOK, Positions, Fresh, Resolved, LinksResolve, Listed, ListedAt,
     BackedUp, Undisturbed, Progress, Between, AsNew, AsBefore, Candidate
<1> QED
  BY <1>1, <1>2

LEMMA Invariance == Spec => []IInv
  BY InitIInv, Inductive, PTL DEF Spec

\* Whatever installers overlap, fail or die: every target, backup and recorded entry is
\* nothing, an entry of before, one of a release, or what a broken-off rmtree or copytree
\* left of one (install.py 485-516); every cursor is between 0 and the number of targets.
THEOREM TypeCorrect == Spec => []TypeOK
<1>1. IInv => TypeOK
  BY DEF IInv
<1> QED
  BY <1>1, Invariance, PTL

\* install.py 485-516: an installer that no other disturbs switches all or restores all.
THEOREM SwitchIsAllOrNothing == Spec => []AllOrNothing
<1>1. IInv => AllOrNothing
  BY DEF IInv, Undisturbed, Progress, AsNew, AsBefore, AllOrNothing
<1> QED
  BY <1>1, Invariance, PTL

\* A kill in the switch or the restore leaves one target at most in between.
THEOREM KillTearsOnePlace == Spec => []TornAtOnePlace
<1>1. IInv => TornAtOnePlace
  <2> SUFFICES ASSUME IInv, NEW p \in Procs, alone[p], pc[p] \in Running \cup {"killed"}
               PROVE  \E k \in 1 .. NumTargets + 1 :
                         /\ \A t \in 1 .. k - 1 : target[t] = Candidate(p, t)
                         /\ \A t \in k + 1 .. NumTargets :
                               target[t] = before[p][t] \/ t \in unrestored[p]
    BY DEF TornAtOnePlace
  <2>1. Progress(p) /\ cursor[p] \in Nat /\ cursor[p] <= NumTargets
    BY DEF IInv, Undisturbed, TypeOK
  <2>2. \E k \in 1 .. NumTargets + 1 : Between(p, k - 1, k)
    <3>1. CASE pc[p] \in Preparing
      <4>1. Between(p, 0, 1)
        BY <2>1, <3>1 DEF Progress, Between, AsBefore, Targets
      <4> QED
        BY <4>1
    <3>2. CASE pc[p] \in {"clear", "place"}
      <4>1. Between(p, cursor[p], cursor[p] + 1)
        BY <2>1, <3>2 DEF Progress, Between, Targets
      <4>2. cursor[p] + 1 \in 1 .. NumTargets + 1 /\ (cursor[p] + 1) - 1 = cursor[p]
        BY <2>1
      <4> QED
        BY <4>1, <4>2
    <3>3. CASE pc[p] = "report"
      <4>1. Between(p, NumTargets, NumTargets + 1)
        BY <2>1, <3>3 DEF Progress, Between, Targets
      <4>2. NumTargets + 1 \in 1 .. NumTargets + 1 /\ (NumTargets + 1) - 1 = NumTargets
        OBVIOUS
      <4> QED
        BY <4>1, <4>2
    <3>4. CASE pc[p] \in Restoring
      <4>1. Between(p, cursor[p] - 1, cursor[p]) /\ cursor[p] > 0
        BY <2>1, <3>4 DEF Progress, IInv, Positions
      <4>2. cursor[p] \in 1 .. NumTargets + 1
        BY <2>1, <4>1
      <4> QED
        BY <4>1, <4>2
    <3>5. CASE pc[p] = "killed"
      BY <2>1, <3>5 DEF Progress
    <3> QED
      BY <3>1, <3>2, <3>3, <3>4, <3>5 DEF Running, Switching
  <2>3. PICK k \in 1 .. NumTargets + 1 : Between(p, k - 1, k)
    BY <2>2
  <2>4. \A t \in 1 .. k - 1 : target[t] = Candidate(p, t)
    BY <2>3 DEF Between, AsNew, Targets
  <2>5. \A t \in k + 1 .. NumTargets : target[t] = before[p][t] \/ t \in unrestored[p]
    BY <2>3 DEF Between, AsBefore, Targets
  <2> QED
    BY <2>4, <2>5
<1> QED
  BY <1>1, Invariance, PTL

\* install.py 184-186: since a release is built once, no link ever dangles.
THEOREM NoDanglingLink == Spec => []LinksResolve
<1>1. IInv => LinksResolve
  BY DEF IInv, Resolved
<1> QED
  BY <1>1, Invariance, PTL

\* install.py 469-484: the manifest is on disk before the first entry is touched.
THEOREM EverythingIsListed == Spec => NothingLost
<1>1. ASSUME IInv, [Next]_vars
      PROVE  [\A t \in Targets :
                target[t] \in {Link(Old), Dir(Old)} /\ target'[t] # target[t]
                    => \E p \in Procs : manifest[p] /\ rollback[p][t] = target[t]]_vars
  <2> SUFFICES ASSUME NEW t \in Targets, target[t] \in Inherited, target'[t] # target[t]
               PROVE  ListedAt(t, target[t])
    BY DEF Inherited, ListedAt
  <2>1. PICK p \in Procs : Step(p)
    BY <1>1 DEF Next, vars
  <2>2. PICK u \in Targets, c \in Contents \cup {Null} :
          /\ target' = [target EXCEPT ![u] = c]
          /\ \/ c = target[u]
             \/ pc[p] \in Switching \cup Restoring
    BY <1>1, <2>1, OneTarget DEF IInv
  <2>3. pc[p] \in Switching \cup Restoring
    BY <1>1, <2>2 DEF IInv, TypeOK
  <2> QED
    BY <1>1, <2>3 DEF IInv, Listed
<1> QED
  BY <1>1, Invariance, PTL DEF Spec, NothingLost
=============================================================================
