----------------------- MODULE AudioCheckpoint_proofs -----------------------
(***************************************************************************)
(* For any speakers, segments, retention changes, failures and crashes:    *)
(* no checkpoint disappears without an audit entry, what is logged of a    *)
(* retention is kept to, and no audio that reached the checkpoint is lost. *)
(*                                                                         *)
(* Control says where the two processes may be and holds whatever races    *)
(* with what.  The rest needs that one process at a time works with the    *)
(* manifest, which no lock ensures: the session has none.  Phases and Calm *)
(* say how far the order of a recording ensures it.  Retention holds if    *)
(* the retention is not changed during a recording; Audio if the manager   *)
(* also leaves a starting call alone.  Then whoever writes a manifest has  *)
(* read the one on the disk, however often it is interrupted.              *)
(***************************************************************************)
EXTENDS AudioCheckpoint, TLAPS

Marked == {"mark", "markWrite", "materialize", "import", "endCall"} \cup Resetting
Replaying == {"append", "complete", "completeWrite"}
Removing == {"removeWavs", "remove"}
Late == {"replay", "audit"} \cup Replaying \cup Removing
Labels == TriedByRecover \cup Resetting \cup
            {"idle", "mark", "markWrite", "stage", "stageWrite", "removeWavs", "remove"}
Operations == Removes \cup {"none", "retain", "staged", "replay"}

\* The process p may have the operation o at the label l, with the manifest m in hand.
GoodProc(p, o, l, m) ==
    /\ o \in Operations /\ l \in Labels /\ m \in Manifest
    /\ o = "none" <=> l = "idle"
    /\ l \in Marked => o \in {"recover", "finalize"}
    /\ l \in {"stage", "stageWrite"} => o = "retain"
    /\ l \in {"audit"} \cup Removing => o \in Removes
    /\ p = "session" => o \in {"none", "finalize", "discardStart"}
    /\ o = "retain" => changes < MaxChanges
    /\ l \in Replaying => m.pending # 0
    /\ o \in {"recover", "finalize"} /\ l \in Late => callEnded
    /\ l \in Removing => log # {}

Control ==
    /\ TypeOK
    /\ \A p \in Procs : GoodProc(p, op[p], pc[p], seen[p])
    /\ phase \in {"starting", "recording", "draining", "finalizing"} => sink # "none"
    /\ RecoveredIsEnded
    /\ RemovalIsAudited

\* The process p goes on with o at l, holding m.
Moved(p, o, l, m) ==
    /\ op' = [op EXCEPT ![p] = o] /\ pc' = [pc EXCEPT ![p] = l] /\ seen' = [seen EXCEPT ![p] = m]

\* The types of everything but the processes.
DataTyped ==
    /\ dir \in BOOLEAN /\ disk \in Manifest \cup {None} /\ files \subseteq Segments
    /\ wavs \in [Speakers -> SUBSET Segments] /\ assets \in [Speakers -> SUBSET Segments]
    /\ log \subseteq {"recovered", "finalized", "discarded", "expired"}
    /\ changesLogged \subseteq 1..MaxChanges /\ callEnded \in BOOLEAN
    /\ expired \subseteq Changes /\ changes \in Changes
    /\ phase \in {"before", "creating", "starting", "recording", "draining", "finalizing", "over"}
    /\ activeCall \in BOOLEAN
    /\ sink \in {"none", "open", "closed"} /\ sinkFailed \in BOOLEAN
    /\ sinkSegs \subseteq Segments /\ buffered \subseteq Segments /\ durable \subseteq Segments
    /\ flushing \in Segments \cup {None}
    /\ faults \in 0..MaxFaults

LEMMA FreshIsManifest == Fresh \in Manifest /\ Fresh # None
  BY CheckpointAssumption DEF Fresh, Manifest, Changes

LEMMA Typing == TypeOK <=> /\ DataTyped
                           /\ op \in [Procs -> Operations] /\ pc \in [Procs -> Labels]
                           /\ seen \in [Procs -> Manifest]
  BY DEF TypeOK, DataTyped, Operations, Labels

LEMMA Moves ==
    ASSUME TypeOK, NEW p \in Procs
    PROVE  /\ Finish(p) => Moved(p, "none", "idle", Fresh)
           /\ \A l : Goto(p, l) => Moved(p, op[p], l, seen[p])
           /\ \A l, m : Hold(p, m, l) => Moved(p, op[p], l, m)
           /\ \A o, l : Begin(p, o, l) => pc[p] = "idle" /\ Moved(p, o, l, seen[p])
  BY DEF TypeOK, Finish, Goto, Hold, Begin, Moved, Procs

\* One process moves on: the other has what it had.
LEMMA MovedIsGood ==
    ASSUME Control, NEW p \in Procs, NEW o, NEW l, NEW m, Moved(p, o, l, m),
           GoodProc(p, o, l, m)', callEnded => callEnded', log \subseteq log',
           changes' = changes \/ p = "manager"
    PROVE  /\ op' \in [Procs -> Operations] /\ pc' \in [Procs -> Labels]
           /\ seen' \in [Procs -> Manifest]
           /\ \A q \in Procs : GoodProc(q, op[q], pc[q], seen[q])'
<1>1. /\ op \in [Procs -> Operations] /\ pc \in [Procs -> Labels] /\ seen \in [Procs -> Manifest]
      /\ GoodProc(p, o, l, m)'
  BY Typing DEF Control
<1>2. /\ op' \in [Procs -> Operations] /\ pc' \in [Procs -> Labels]
      /\ seen' \in [Procs -> Manifest]
  BY <1>1 DEF Moved, GoodProc
<1>3. ASSUME NEW q \in Procs PROVE GoodProc(q, op[q], pc[q], seen[q])'
  <2>1. CASE q = p
    <3>1. op'[q] = o /\ pc'[q] = l /\ seen'[q] = m
      BY <1>1, <2>1 DEF Moved
    <3>2. QED BY <2>1, <3>1 DEF GoodProc
  <2>2. CASE q # p
    <3>1. op'[q] = op[q] /\ pc'[q] = pc[q] /\ seen'[q] = seen[q]
      BY <1>1, <2>2 DEF Moved
    <3>2. GoodProc(q, op[q], pc[q], seen[q])
      BY DEF Control
    <3>3. changes' = changes \/ q = "session"
      BY <2>2 DEF Procs
    <3>4. QED BY <3>1, <3>2, <3>3 DEF GoodProc
  <2>3. QED BY <2>1, <2>2
<1>4. QED BY <1>2, <1>3

\* What a step of p has to show.
MovesWell(p) ==
    /\ \E o, l, m : Moved(p, o, l, m) /\ GoodProc(p, o, l, m)'
    /\ DataTyped'
    /\ callEnded => callEnded'
    /\ log \subseteq log'
    /\ changes' = changes \/ p = "manager"
    /\ UNCHANGED <<phase, sink>>
    /\ RecoveredIsEnded' /\ RemovalIsAudited'

LEMMA MovesWellIsGood ==
    ASSUME Control, NEW p \in Procs, MovesWell(p)
    PROVE  Control'
<1>1. PICK o, l, m : Moved(p, o, l, m) /\ GoodProc(p, o, l, m)'
  BY DEF MovesWell
<1>2. /\ op' \in [Procs -> Operations] /\ pc' \in [Procs -> Labels]
      /\ seen' \in [Procs -> Manifest]
      /\ \A q \in Procs : GoodProc(q, op[q], pc[q], seen[q])'
  BY <1>1, MovedIsGood DEF MovesWell
<1>3. TypeOK'
  BY <1>2 DEF MovesWell, TypeOK, DataTyped, Operations, Labels
<1>4. QED BY <1>2, <1>3 DEF Control, MovesWell

\* The process stays in its operation and goes on at l.
LEMMA GotoMoves ==
    ASSUME Control, NEW p \in Procs, NEW l, Goto(p, l),
           \A o, m : o = op[p] /\ m = seen[p] /\ GoodProc(p, o, pc[p], m) => GoodProc(p, o, l, m)'
    PROVE  \E o, k, m : Moved(p, o, k, m) /\ GoodProc(p, o, k, m)'
<1>1. Moved(p, op[p], l, seen[p]) /\ GoodProc(p, op[p], pc[p], seen[p])
  BY Moves DEF Control
<1>2. PICK o, m : o = op[p] /\ m = seen[p]
  OBVIOUS
<1>3. GoodProc(p, o, l, m)'
  BY <1>1, <1>2
<1>4. QED BY <1>1, <1>2, <1>3

LEMMA FinishMoves ==
    ASSUME Control, NEW p \in Procs, Finish(p)
    PROVE  \E o, l, m : Moved(p, o, l, m) /\ GoodProc(p, o, l, m)'
<1>1. Moved(p, "none", "idle", Fresh)
  BY Moves DEF Control
<1>2. PICK m : m = Fresh
  OBVIOUS
<1>3. GoodProc(p, "none", "idle", m)'
  BY <1>2, FreshIsManifest
     DEF GoodProc, Operations, Labels, Marked, Resetting, Replaying, Removing, Late
<1>4. QED BY <1>1, <1>2, <1>3

LEMMA FailMoves ==
    ASSUME Control, NEW p \in Procs, Fail(p)
    PROVE  \E o, l, m : Moved(p, o, l, m) /\ GoodProc(p, o, l, m)'
<1>1. TypeOK /\ GoodProc(p, op[p], pc[p], seen[p])
  BY DEF Control
<1>2. CASE Finish(p)
  BY <1>2, FinishMoves
<1>3. CASE op[p] \in {"recover", "finalize"} /\ Goto(p, "reset")
  BY <1>1, <1>3, Moves
     DEF GoodProc, Operations, Labels, Marked, Resetting, Replaying, Removing, Late
<1>4. QED BY <1>2, <1>3 DEF Fail

\* What happens to the manifest file: it is left as it is or written anew, never removed.
LEMMA Manifests ==
    ASSUME TypeOK
    PROVE  /\ \A m \in Manifest : Write(m) => disk' = m /\ disk' # None /\ UNCHANGED faults
           /\ \A p, m : m \in Manifest /\ WriteFails(p, m) =>
                /\ disk' \in {disk, m} /\ (disk # None => disk' # None)
                /\ Fail(p) /\ faults' \in 0..MaxFaults
  BY CheckpointAssumption DEF TypeOK, Write, WriteFails, Fault

LEMMA ReplayedMoves ==
    ASSUME Control, NEW p \in Procs, pc[p] \in {"replay"} \cup Replaying, Replayed(p),
           UNCHANGED <<callEnded, changes>>
    PROVE  \E o, l, m : Moved(p, o, l, m) /\ GoodProc(p, o, l, m)'
<1>1. TypeOK /\ GoodProc(p, op[p], pc[p], seen[p])
  BY DEF Control
<1> USE DEF GoodProc, Operations, Labels, Marked, TriedByRecover, Resetting, Replaying, Removing,
            Late
<1>2. CASE op[p] \in Removes
  <2>1. Goto(p, "audit")
    BY <1>2 DEF Replayed, Removes
  <2>2. QED BY <1>2, <2>1, GotoMoves DEF Removes
<1>3. CASE op[p] = "retain"
  <2>1. Goto(p, "stage")
    BY <1>3 DEF Replayed, Removes
  <2>2. QED BY <1>3, <2>1, GotoMoves
<1>4. CASE op[p] \notin Removes \cup {"retain"}
  <2>1. Finish(p)
    BY <1>4 DEF Replayed
  <2>2. QED BY <2>1, FinishMoves
<1>5. QED BY <1>2, <1>3, <1>4

LEMMA ReadStep ==
    ASSUME Control, NEW p \in Procs, ReadState(p) \/ Stage(p) \/ Replay(p) \/ Complete(p)
    PROVE  MovesWell(p)
<1>0. TypeOK /\ GoodProc(p, op[p], pc[p], seen[p]) /\ RecoveredIsEnded /\ RemovalIsAudited
  BY DEF Control
<1>1. /\ UNCHANGED <<recordVars, fileVars, sinkVars, sessionVars, timeVars>>
      /\ faults' \in 0..MaxFaults
  BY <1>0, CheckpointAssumption
     DEF ReadState, Stage, Replay, Complete, OnlyManifest, FailsIf, Fault, TypeOK, fileVars
<1>2. DataTyped' /\ RecoveredIsEnded' /\ RemovalIsAudited'
  BY <1>0, <1>1 DEF TypeOK, DataTyped, recordVars, fileVars, sinkVars, sessionVars, timeVars,
     RecoveredIsEnded, RemovalIsAudited, Removed
<1>3. SUFFICES \E o, l, m : Moved(p, o, l, m) /\ GoodProc(p, o, l, m)'
  BY <1>1, <1>2 DEF MovesWell, recordVars, timeVars, sessionVars, sinkVars
<1>4. CASE Fail(p) \/ Finish(p)
  BY <1>4, FailMoves, FinishMoves
<1>5. ASSUME NEW l \in Labels, Hold(p, disk, l), Found, UNCHANGED <<callEnded, changes>>,
             \/ l \in {"markWrite", "partialWrite", "resetWrite"} /\ pc[p] \in Marked
             \/ /\ l \in {"append", "completeWrite"} /\ disk.pending # 0
                /\ pc[p] \in {"replay", "complete"}
             \/ l = "stageWrite" /\ pc[p] = "stage"
      PROVE  \E o, k, m : Moved(p, o, k, m) /\ GoodProc(p, o, k, m)'
  <2>1. disk \in Manifest /\ Moved(p, op[p], l, disk)
    BY <1>0, <1>5, Moves DEF Found, TypeOK
  <2>2. PICK o, m : o = op[p] /\ m = disk
    OBVIOUS
  <2>3. GoodProc(p, o, l, m)'
    BY <1>0, <1>5, <2>1, <2>2 DEF GoodProc, Marked, Resetting, Replaying, Removing, Late
  <2>4. QED BY <2>1, <2>2, <2>3
<1>6. UNCHANGED <<callEnded, changes>>
  BY <1>1 DEF recordVars, timeVars
<1>7. CASE ReadState(p)
  <2>1. pc[p] \in Marked
    BY <1>7 DEF ReadState, Marked, Resetting
  <2>2. \/ Fail(p) \/ Finish(p)
        \/ \E l \in {"markWrite", "partialWrite", "resetWrite"} : Hold(p, disk, l) /\ Found
    BY <1>7 DEF ReadState, FailsIf
  <2>3. \A l \in {"markWrite", "partialWrite", "resetWrite"} : l \in Labels
    BY DEF Labels, Resetting
  <2>4. QED BY <1>4, <1>5, <1>6, <2>1, <2>2, <2>3
<1>8. CASE Stage(p)
  <2>1. pc[p] = "stage" /\ (Fail(p) \/ (Hold(p, disk, "stageWrite") /\ Found))
    BY <1>8 DEF Stage, FailsIf
  <2>2. "stageWrite" \in Labels
    BY DEF Labels
  <2>3. QED BY <1>4, <1>5, <1>6, <2>1, <2>2
<1>9. CASE Replay(p)
  <2>1. /\ pc[p] = "replay"
        /\ \/ Fail(p) \/ Replayed(p)
           \/ Hold(p, disk, "append") /\ Found /\ disk.pending # 0
    BY <1>9 DEF Replay, FailsIf, Pending
  <2>2. "append" \in Labels
    BY DEF Labels, TriedByRecover
  <2>3. QED BY <1>4, <1>5, <1>6, <2>1, <2>2, ReplayedMoves
<1>10. CASE Complete(p)
  <2>1. /\ pc[p] = "complete" /\ seen[p].pending # 0
        /\ \/ Fail(p) \/ Replayed(p)
           \/ Hold(p, disk, "completeWrite") /\ Found /\ disk.pending # 0
    BY <1>0, <1>10 DEF Complete, FailsIf, Pending, GoodProc, Replaying
  <2>2. "completeWrite" \in Labels
    BY DEF Labels, TriedByRecover
  <2>3. QED BY <1>4, <1>5, <1>6, <2>1, <2>2, ReplayedMoves DEF Replaying
<1>11. QED BY <1>7, <1>8, <1>9, <1>10

LEMMA WriteStep ==
    ASSUME Control, NEW p \in Procs, SetState(p) \/ CompleteWrite(p)
    PROVE  MovesWell(p)
<1>0. TypeOK /\ GoodProc(p, op[p], pc[p], seen[p]) /\ RecoveredIsEnded /\ RemovalIsAudited
  BY DEF Control
<1>1. UNCHANGED <<recordVars, dir, files, wavs, sinkVars, sessionVars, timeVars>>
  BY DEF SetState, CompleteWrite, OnlyManifest
<1>2. UNCHANGED <<callEnded, changes, log>>
  BY <1>1 DEF recordVars, timeVars
<1>3. SUFFICES ASSUME \/ disk' \in Manifest /\ UNCHANGED faults
                      \/ /\ disk' = disk \/ disk' \in Manifest
                         /\ faults' \in 0..MaxFaults,
                      \E o, l, m : Moved(p, o, l, m) /\ GoodProc(p, o, l, m)'
               PROVE  MovesWell(p)
  <2>1. ASSUME NEW manifest \in Manifest, Write(manifest) \/ WriteFails(p, manifest)
        PROVE  \/ disk' \in Manifest /\ UNCHANGED faults
               \/ /\ disk' = disk \/ disk' \in Manifest
                  /\ faults' \in 0..MaxFaults
    BY <1>0, <2>1, Manifests
  <2>2. CASE SetState(p)
    <3>1. PICK state, manifest :
            /\ state \in {"recovering", "partial", "recoverable"}
            /\ manifest = [seen[p] EXCEPT !.state = state]
            /\ Write(manifest) \/ WriteFails(p, manifest)
            /\ \/ WriteFails(p, manifest)
               \/ pc[p] = "markWrite" /\ Hold(p, manifest, "materialize")
               \/ pc[p] = "partialWrite" /\ op[p] = "finalize" /\ Goto(p, "reset")
               \/ Finish(p)
      BY <2>2 DEF SetState
    <3>2. manifest \in Manifest
      BY <1>0, <3>1 DEF TypeOK, Manifest
    <3>3. ASSUME Hold(p, manifest, "materialize"), pc[p] = "markWrite"
          PROVE  \E o, l, m : Moved(p, o, l, m) /\ GoodProc(p, o, l, m)'
      <4>1. PICK o : o = op[p]
        OBVIOUS
      <4>2. Moved(p, o, "materialize", manifest)
        BY <1>0, <3>3, <4>1, Moves
      <4>3. GoodProc(p, o, "materialize", manifest)'
        BY <1>0, <3>2, <3>3, <4>1
           DEF GoodProc, Labels, TriedByRecover, Marked, Replaying, Removing, Late
      <4>4. QED BY <4>2, <4>3
    <3>4. ASSUME Goto(p, "reset"), op[p] = "finalize"
          PROVE  \E o, l, m : Moved(p, o, l, m) /\ GoodProc(p, o, l, m)'
      BY <3>4, GotoMoves
         DEF GoodProc, Labels, Resetting, Marked, Replaying, Removing, Late
    <3>5. \E o, l, m : Moved(p, o, l, m) /\ GoodProc(p, o, l, m)'
      BY <3>1, <3>3, <3>4, FinishMoves, FailMoves DEF WriteFails
    <3>6. QED BY <1>3, <2>1, <3>1, <3>2, <3>5
  <2>3. CASE CompleteWrite(p)
    <3> DEFINE manifest == [seen[p] EXCEPT !.pending = 0]
    <3>1. manifest \in Manifest
      BY <1>0, CheckpointAssumption DEF TypeOK, Manifest, Changes
    <3>2. \/ Write(manifest) /\ Replayed(p) /\ pc[p] = "completeWrite"
          \/ WriteFails(p, manifest)
      BY <2>3 DEF CompleteWrite
    <3> HIDE DEF manifest
    <3>3. \E o, l, m : Moved(p, o, l, m) /\ GoodProc(p, o, l, m)'
      BY <1>2, <3>2, ReplayedMoves, FailMoves DEF WriteFails, Replaying
    <3>4. QED BY <1>3, <2>1, <3>1, <3>2, <3>3
  <2>4. QED BY <2>2, <2>3
<1>4. disk' = disk \/ (disk' \in Manifest /\ disk' # None)
  BY <1>3, CheckpointAssumption
<1>5. DataTyped' /\ RecoveredIsEnded' /\ RemovalIsAudited'
  BY <1>0, <1>1, <1>3, <1>4 DEF TypeOK, DataTyped, recordVars, sinkVars, sessionVars, timeVars,
     RecoveredIsEnded, RemovalIsAudited, Removed
<1>6. QED BY <1>1, <1>2, <1>3, <1>5 DEF MovesWell, sessionVars, sinkVars

LEMMA StageWriteStep ==
    ASSUME Control, NEW p \in Procs, StageWrite(p)
    PROVE  MovesWell(p)
<1> DEFINE manifest == [seen[p] EXCEPT !.retention = changes + 1, !.pending = changes + 1]
<1>0. TypeOK /\ GoodProc(p, op[p], pc[p], seen[p]) /\ RecoveredIsEnded /\ RemovalIsAudited
  BY DEF Control
<1>1. op[p] = "retain" /\ p = "manager" /\ changes' = changes + 1 /\ changes' \in Changes
  BY <1>0, CheckpointAssumption DEF StageWrite, GoodProc, Procs, TypeOK, Changes
<1>2. manifest \in Manifest /\ manifest.pending = changes + 1
  BY <1>0, <1>1 DEF TypeOK, Manifest
<1>3. /\ UNCHANGED <<recordVars, dir, files, wavs, sinkVars, sessionVars, expired>>
      /\ \/ /\ Write(manifest) /\ pc' = [pc EXCEPT ![p] = "replay"]
            /\ op' = [op EXCEPT ![p] = "staged"] /\ UNCHANGED seen
         \/ WriteFails(p, manifest)
  BY DEF StageWrite
<1> HIDE DEF manifest
<1>4. /\ disk' = disk \/ (disk' \in Manifest /\ disk' # None)
      /\ faults' \in 0..MaxFaults
  BY <1>0, <1>2, <1>3, Manifests DEF TypeOK
<1>5. DataTyped' /\ RecoveredIsEnded' /\ RemovalIsAudited'
  BY <1>0, <1>1, <1>3, <1>4 DEF TypeOK, DataTyped, recordVars, sinkVars, sessionVars,
     RecoveredIsEnded, RemovalIsAudited, Removed
<1>6. \E o, l, m : Moved(p, o, l, m) /\ GoodProc(p, o, l, m)'
  <2>1. CASE WriteFails(p, manifest)
    BY <2>1, FailMoves DEF WriteFails
  <2>2. CASE /\ pc' = [pc EXCEPT ![p] = "replay"]
             /\ op' = [op EXCEPT ![p] = "staged"] /\ UNCHANGED seen
    <3>1. PICK m : m = seen[p]
      OBVIOUS
    <3>2. Moved(p, "staged", "replay", m)
      BY <1>0, <2>2, <3>1 DEF Moved, TypeOK
    <3>3. GoodProc(p, "staged", "replay", m)'
      BY <1>0, <1>1, <3>1 DEF GoodProc, Operations, Labels, TriedByRecover, Marked, Resetting,
         Replaying, Removing, Late
    <3>4. QED BY <3>2, <3>3
  <2>3. QED BY <1>3, <2>1, <2>2
<1>7. QED BY <1>1, <1>3, <1>5, <1>6 DEF MovesWell, recordVars, sessionVars, sinkVars

\* The steps that change the records: assets, the end of the call and the audit log.
LEMMA RecordStep ==
    ASSUME Control, NEW p \in Procs,
           Import(p) \/ EndCall(p) \/ AppendPending(p) \/ Audit(p) \/ AuditExpired(p)
    PROVE  MovesWell(p)
<1>0. TypeOK /\ GoodProc(p, op[p], pc[p], seen[p]) /\ RecoveredIsEnded /\ RemovalIsAudited
  BY DEF Control
<1>1. UNCHANGED <<fileVars, sinkVars, sessionVars, timeVars>> /\ faults' \in 0..MaxFaults
  BY <1>0, CheckpointAssumption
     DEF Import, EndCall, AppendPending, Audit, AuditExpired, OnlyRecords, FailsIf, Fault, TypeOK
<1>2. /\ assets' \in [Speakers -> SUBSET Segments]
      /\ log \subseteq log' /\ log' \subseteq {"recovered", "finalized", "discarded", "expired"}
      /\ changesLogged' \subseteq 1..MaxChanges
      /\ callEnded' \in {callEnded, TRUE}
  <2>1. CASE Import(p)
    BY <1>0, <2>1 DEF Import, TypeOK
  <2>2. CASE EndCall(p)
    BY <1>0, <2>2 DEF EndCall, TypeOK
  <2>3. CASE AppendPending(p)
    <3>1. seen[p].pending \in 1..MaxChanges
      BY <1>0, <2>3, CheckpointAssumption
         DEF AppendPending, GoodProc, Replaying, Manifest, Changes
    <3>2. changesLogged' \subseteq changesLogged \cup {seen[p].pending}
      BY <2>3 DEF AppendPending
    <3>3. UNCHANGED <<assets, log, callEnded>>
      BY <2>3 DEF AppendPending
    <3>4. QED BY <1>0, <3>1, <3>2, <3>3 DEF TypeOK
  <2>4. CASE Audit(p)
    BY <1>0, <2>4 DEF Audit, TypeOK, GoodProc, Entry, Removes
  <2>5. CASE AuditExpired(p)
    BY <1>0, <2>5 DEF AuditExpired, TypeOK
  <2>6. QED BY <2>1, <2>2, <2>3, <2>4, <2>5
<1>3. callEnded' \in BOOLEAN /\ (callEnded => callEnded')
  <2>1. callEnded \in BOOLEAN
    BY <1>0 DEF TypeOK
  <2>2. callEnded' = callEnded \/ callEnded' = TRUE
    BY <1>2
  <2>3. CASE callEnded' = TRUE
    BY <2>3
  <2>4. CASE callEnded' = callEnded
    BY <2>1, <2>4
  <2>5. QED BY <2>2, <2>3, <2>4
<1>4. DataTyped' /\ RemovalIsAudited'
  <2>1. DataTyped'
    BY <1>0, <1>1, <1>2, <1>3 DEF TypeOK, DataTyped, fileVars, sinkVars, sessionVars, timeVars
  <2>2. RemovalIsAudited'
    BY <1>0, <1>1, <1>2 DEF fileVars, sinkVars, RemovalIsAudited, Removed
  <2>3. QED BY <2>1, <2>2
<1>5. ASSUME NEW l, Goto(p, l),
             \/ pc[p] = "import" /\ l = "endCall"
             \/ pc[p] = "endCall" /\ l = "replay" /\ callEnded'
             \/ pc[p] = "append" /\ l = "complete"
             \/ pc[p] = "audit" /\ l = "removeWavs" /\ log' # {}
      PROVE  \E o, k, m : Moved(p, o, k, m) /\ GoodProc(p, o, k, m)'
  BY <1>1, <1>2, <1>3, <1>5, GotoMoves DEF GoodProc, Labels, TriedByRecover, Marked, Resetting, Replaying,
     Removing, Late, timeVars
<1>6. \E o, l, m : Moved(p, o, l, m) /\ GoodProc(p, o, l, m)'
  <2>1. CASE Import(p) /\ UNCHANGED procVars
    <3>1. PICK o, l, m : o = op[p] /\ l = pc[p] /\ m = seen[p]
      OBVIOUS
    <3>2. Moved(p, o, l, m)
      BY <1>0, <2>1, <3>1 DEF Moved, TypeOK, procVars
    <3>3. GoodProc(p, o, l, m)'
      BY <1>0, <1>1, <1>2, <1>3, <2>1, <3>1 DEF GoodProc, timeVars
    <3>4. QED BY <3>2, <3>3
  <2>2. CASE Import(p) /\ ~UNCHANGED procVars
    <3>1. pc[p] = "import" /\ (Goto(p, "endCall") \/ Fail(p))
      BY <2>2 DEF Import, FailsIf
    <3>2. QED BY <1>5, <3>1, FailMoves
  <2>3. CASE EndCall(p)
    <3>1. pc[p] = "endCall" /\ (Fail(p) \/ (Goto(p, "replay") /\ callEnded'))
      BY <2>3 DEF EndCall
    <3>2. QED BY <1>5, <3>1, FailMoves
  <2>4. CASE AppendPending(p)
    BY <1>5, <2>4, FailMoves DEF AppendPending
  <2>5. CASE Audit(p)
    BY <1>5, <2>5, FailMoves DEF Audit
  <2>6. CASE AuditExpired(p)
    BY <1>5, <2>6, FailMoves DEF AuditExpired
  <2>7. QED BY <2>1, <2>2, <2>3, <2>4, <2>5, <2>6
<1>7. RecoveredIsEnded'
  <2>1. CASE log' = log
    BY <1>0, <1>2, <1>3, <2>1 DEF RecoveredIsEnded
  <2>2. CASE Audit(p)
    BY <1>0, <1>2, <1>3, <2>2 DEF Audit, RecoveredIsEnded, Entry, GoodProc, Late, Removes
  <2>3. CASE AuditExpired(p)
    BY <1>0, <1>2, <1>3, <2>3 DEF AuditExpired, RecoveredIsEnded
  <2>4. QED BY <2>1, <2>2, <2>3 DEF Import, EndCall, AppendPending
<1>8. QED BY <1>1, <1>2, <1>3, <1>4, <1>6, <1>7 DEF MovesWell, timeVars, sessionVars, sinkVars

\* The steps that change the files.
LEMMA FileStep ==
    ASSUME Control, NEW p \in Procs, Materialize(p) \/ RemoveWavs(p) \/ Remove(p)
    PROVE  MovesWell(p)
<1>0. TypeOK /\ GoodProc(p, op[p], pc[p], seen[p]) /\ RecoveredIsEnded /\ RemovalIsAudited
  BY DEF Control
<1>1. /\ UNCHANGED <<recordVars, sinkVars, sessionVars, timeVars>> /\ faults' \in 0..MaxFaults
      /\ dir' \in BOOLEAN /\ disk' \in {disk, None} /\ files' \subseteq files
      /\ wavs' \in [Speakers -> SUBSET Segments]
  <2>1. CASE Materialize(p)
    BY <1>0, <2>1, CheckpointAssumption
       DEF Materialize, OverQuota, FailsIf, FailsUntried, Fault, NoAudio, Of, TypeOK, Manifest
  <2>2. CASE RemoveWavs(p)
    BY <1>0, <2>2, CheckpointAssumption DEF RemoveWavs, Fault, NoAudio, TypeOK
  <2>3. CASE Remove(p)
    <3>1. UNCHANGED <<recordVars, wavs, sinkVars, sessionVars, timeVars>>
      BY <2>3 DEF Remove
    <3>2. faults' \in 0..MaxFaults
      BY <1>0, <2>3, CheckpointAssumption DEF Remove, Fault, TypeOK
    <3>3. dir' \in {dir, FALSE} /\ disk' \in {disk, None} /\ files' \subseteq files
      BY <2>3 DEF Remove
    <3>4. QED BY <1>0, <3>1, <3>2, <3>3 DEF TypeOK
  <2>4. QED BY <2>1, <2>2, <2>3
<1>2. DataTyped' /\ RecoveredIsEnded'
  BY <1>0, <1>1 DEF TypeOK, DataTyped, recordVars, sinkVars, sessionVars, timeVars,
     RecoveredIsEnded
<1>3. RemovalIsAudited'
  <2>1. CASE Remove(p)
    BY <1>0, <1>1, <2>1 DEF Remove, GoodProc, Removing, RemovalIsAudited, recordVars
  <2>2. CASE disk' = disk
    BY <1>0, <1>1, <2>2 DEF RemovalIsAudited, Removed, recordVars, sinkVars
  <2>3. QED BY <2>1, <2>2 DEF Materialize, RemoveWavs
<1>4. ASSUME NEW l, Goto(p, l),
             \/ pc[p] = "materialize" /\ l \in {"import", "partial"}
             \/ pc[p] = "removeWavs" /\ l = "remove"
      PROVE  \E o, k, m : Moved(p, o, k, m) /\ GoodProc(p, o, k, m)'
  BY <1>1, <1>4, GotoMoves DEF GoodProc, Labels, TriedByRecover, Marked, Resetting, Replaying,
     Removing, Late, timeVars, recordVars
<1>5. ASSUME Goto(p, "reset"), op[p] = "finalize"
      PROVE  \E o, k, m : Moved(p, o, k, m) /\ GoodProc(p, o, k, m)'
  BY <1>0, <1>1, <1>5, GotoMoves DEF GoodProc, Labels, TriedByRecover, Marked, Resetting,
     Replaying, Removing, Late, timeVars, recordVars
<1>6. \E o, l, m : Moved(p, o, l, m) /\ GoodProc(p, o, l, m)'
  <2>1. CASE Materialize(p)
    <3>1. /\ pc[p] = "materialize"
          /\ \/ Goto(p, "import") \/ Goto(p, "partial") \/ Fail(p)
             \/ IF op[p] = "finalize" THEN Goto(p, "reset") ELSE Finish(p)
      BY <2>1 DEF Materialize, FailsIf, FailsUntried
    <3>2. CASE Goto(p, "import") \/ Goto(p, "partial")
      BY <1>4, <3>1, <3>2
    <3>3. CASE Fail(p)
      BY <3>3, FailMoves
    <3>4. CASE op[p] = "finalize" /\ Goto(p, "reset")
      BY <1>5, <3>1, <3>4
    <3>5. CASE Finish(p)
      BY <3>5, FinishMoves
    <3>6. QED BY <3>1, <3>2, <3>3, <3>4, <3>5
  <2>2. CASE RemoveWavs(p)
    BY <1>4, <2>2, FailMoves DEF RemoveWavs
  <2>3. CASE Remove(p)
    BY <2>3, FinishMoves, FailMoves DEF Remove
  <2>4. QED BY <2>1, <2>2, <2>3
<1>7. QED BY <1>1, <1>2, <1>3, <1>6 DEF MovesWell, timeVars, recordVars, sessionVars, sinkVars

LEMMA StepControl ==
    ASSUME Control, NEW p \in Procs, Step(p)
    PROVE  Control'
  BY ReadStep, WriteStep, StageWriteStep, RecordStep, FileStep, MovesWellIsGood DEF Step

-----------------------------------------------------------------------------
(* The recording, what the manager begins, deadlines and restarts. *)

\* A step that leaves the processes where they are.
LEMMA ProcsStay ==
    ASSUME Control, UNCHANGED <<procVars, log, changes>>, callEnded' \in {callEnded, TRUE},
           DataTyped'
    PROVE  /\ TypeOK' /\ RecoveredIsEnded'
           /\ \A p \in Procs : GoodProc(p, op[p], pc[p], seen[p])'
<1>1. TypeOK /\ RecoveredIsEnded
  BY DEF Control
<1>2. TypeOK' /\ RecoveredIsEnded'
  <2>1. TypeOK'
    BY <1>1 DEF TypeOK, DataTyped, procVars
  <2>2. RecoveredIsEnded'
    BY <1>1 DEF RecoveredIsEnded
  <2>3. QED BY <2>1, <2>2
<1>3. ASSUME NEW p \in Procs PROVE GoodProc(p, op[p], pc[p], seen[p])'
  <2>1. GoodProc(p, op[p], pc[p], seen[p])
    BY DEF Control
  <2>2. CASE callEnded' = TRUE
    BY <2>1, <2>2 DEF GoodProc, procVars
  <2>3. CASE callEnded' = callEnded
    BY <2>1, <2>3 DEF GoodProc, procVars
  <2>4. QED BY <2>2, <2>3
<1>4. QED BY <1>2, <1>3

LEMMA FaultTyped == TypeOK /\ (Fault \/ UNCHANGED faults) => faults' \in 0..MaxFaults
  BY CheckpointAssumption DEF TypeOK, Fault

\* A process that is idle begins an operation.
LEMMA BeginControl ==
    ASSUME Control, NEW p \in Procs, NEW o, NEW l, Begin(p, o, l),
           UNCHANGED <<log, changes>>, callEnded' \in {callEnded, TRUE}, DataTyped',
           \/ p = "session" /\ o = "finalize" /\ l = "mark"
           \/ p = "session" /\ o = "discardStart" /\ l = "replay"
           \/ p = "manager" /\ o = "recover" /\ l = "mark"
           \/ p = "manager" /\ o \in {"discard", "replay", "expire"} /\ l = "replay"
           \/ p = "manager" /\ o = "retain" /\ l = "replay" /\ changes < MaxChanges
    PROVE  /\ TypeOK' /\ RecoveredIsEnded'
           /\ \A q \in Procs : GoodProc(q, op[q], pc[q], seen[q])'
<1>1. TypeOK /\ RecoveredIsEnded /\ GoodProc(p, op[p], pc[p], seen[p])
  BY DEF Control
<1>2. PICK m : m = seen[p]
  OBVIOUS
<1>3. Moved(p, o, l, m)
  BY <1>1, <1>2, Moves
<1>4. GoodProc(p, o, l, m)'
  BY <1>1, <1>2 DEF GoodProc, Operations, Removes, Labels, TriedByRecover, Marked, Resetting,
     Replaying, Removing, Late
<1>5. callEnded => callEnded'
  OBVIOUS
<1>6. /\ op' \in [Procs -> Operations] /\ pc' \in [Procs -> Labels]
      /\ seen' \in [Procs -> Manifest]
      /\ \A q \in Procs : GoodProc(q, op[q], pc[q], seen[q])'
  BY <1>3, <1>4, <1>5, MovedIsGood
<1>7. TypeOK'
  BY <1>6 DEF TypeOK, DataTyped, Operations, Labels
<1>8. RecoveredIsEnded'
  BY <1>1, <1>5 DEF RecoveredIsEnded
<1>9. QED BY <1>6, <1>7, <1>8

LEMMA SessionControl ==
    ASSUME Control, Session
    PROVE  Control'
<1>0. TypeOK /\ RemovalIsAudited /\ DataTyped
      /\ (phase \in {"starting", "recording", "draining", "finalizing"} => sink # "none")
  BY Typing DEF Control
<1>1. CASE BeginRecording
  <2>1. /\ UNCHANGED <<files, wavs, recordVars, sinkFailed, sinkSegs, buffered, flushing, durable,
                       activeCall, timeVars, procVars>>
        /\ faults' \in 0..MaxFaults /\ dir' \in BOOLEAN /\ disk' \in Manifest \cup {None}
        /\ phase' \in {"over", "creating", "starting"}
        /\ sink' \in {sink, "open"}
    <3>1. UNCHANGED <<files, wavs, recordVars, sinkFailed, sinkSegs, buffered, flushing, durable,
                      activeCall, timeVars, procVars>>
      BY <1>1 DEF BeginRecording
    <3>2. /\ Fault \/ UNCHANGED faults
          /\ dir' \in {dir, TRUE, FALSE} /\ disk' \in {disk, Fresh} /\ sink' \in {sink, "open"}
          /\ phase' \in {"over", "creating", "starting"}
      BY <1>1 DEF BeginRecording, OverQuota
    <3>3. QED BY <1>0, <3>1, <3>2, FaultTyped, FreshIsManifest DEF TypeOK
  <2>2. DataTyped'
    BY <1>0, <2>1 DEF DataTyped, recordVars, timeVars
  <2>3. phase' = "starting" => sink' # "none"
    BY <1>1 DEF BeginRecording
  <2>4. RemovalIsAudited'
    BY <1>0, <1>1, <2>1, FreshIsManifest DEF BeginRecording, RemovalIsAudited, Removed, recordVars
  <2>5. UNCHANGED <<log, changes, callEnded>>
    BY <2>1 DEF recordVars, timeVars
  <2>6. QED BY <2>1, <2>2, <2>3, <2>4, <2>5, ProcsStay DEF Control
<1>2. ASSUME NEW s \in Segments, Capture(s) \/ FlushFile(s) PROVE Control'
  <2>1. /\ UNCHANGED <<recordVars, dir, disk, wavs, sink, sinkSegs, durable, sessionVars,
                       timeVars, procVars>>
        /\ faults' \in 0..MaxFaults /\ sinkFailed' \in BOOLEAN
        /\ buffered' \subseteq Segments /\ files' \subseteq Segments
        /\ flushing' \in Segments \cup {None}
    <3>1. UNCHANGED <<recordVars, dir, disk, wavs, sink, sinkSegs, durable, sessionVars,
                      timeVars, procVars>>
      BY <1>2 DEF Capture, FlushFile, fileVars
    <3>2. /\ Fault \/ UNCHANGED faults
          /\ sinkFailed' \in {sinkFailed, TRUE} /\ buffered' \in {buffered, buffered \cup {s}}
          /\ files' \in {files, files \cup {s}} /\ flushing' \in {flushing, s}
      BY <1>2 DEF Capture, FlushFile, fileVars
    <3>3. QED BY <1>0, <3>1, <3>2, FaultTyped DEF TypeOK
  <2>2. DataTyped'
    BY <1>0, <2>1 DEF DataTyped, recordVars, timeVars, sessionVars
  <2>3. UNCHANGED <<log, changes, callEnded, phase, disk, sink>>
    BY <2>1 DEF recordVars, timeVars, sessionVars
  <2>4. QED BY <1>0, <2>1, <2>2, <2>3, ProcsStay DEF Control, RemovalIsAudited, Removed
<1>3. CASE FlushManifest
  <2>1. SinkManifest(flushing) \in Manifest /\ flushing \in Segments
    BY <1>0, <1>3, CheckpointAssumption
       DEF FlushManifest, SinkManifest, Fresh, Manifest, Changes, TypeOK
  <2>2. /\ UNCHANGED <<recordVars, dir, wavs, sink, sessionVars, timeVars, procVars>>
        /\ disk' \in {disk, SinkManifest(flushing)} /\ files' \subseteq files
        /\ sinkSegs' \subseteq sinkSegs \cup {flushing} /\ durable' \subseteq durable \cup {flushing}
        /\ buffered' \subseteq buffered /\ sinkFailed' \in {sinkFailed, TRUE} /\ flushing' = None
    BY <1>3 DEF FlushManifest
  <2>3. faults' \in 0..MaxFaults
    BY <1>0, <1>3, CheckpointAssumption DEF FlushManifest, Fault, TypeOK
  <2>4. DataTyped'
    BY <1>0, <2>1, <2>2, <2>3 DEF DataTyped, recordVars, timeVars, sessionVars
  <2>5. RemovalIsAudited'
    BY <1>0, <2>1, <2>2, CheckpointAssumption DEF RemovalIsAudited, Removed, recordVars
  <2>6. UNCHANGED <<log, changes, callEnded, phase, sink>>
    BY <2>2 DEF recordVars, timeVars, sessionVars
  <2>7. QED BY <1>0, <2>2, <2>4, <2>5, <2>6, ProcsStay DEF Control
<1>4. CASE StartSucceeds \/ Stop
  <2>1. /\ UNCHANGED <<recordVars, fileVars, sinkFailed, sinkSegs, buffered, flushing, durable,
                       timeVars, procVars>>
        /\ phase \in {"starting", "recording"} /\ phase' \in {"recording", "draining"}
        /\ sink' \in {sink, "closed"} /\ activeCall' \in BOOLEAN /\ faults' \in 0..MaxFaults
    <3>1. UNCHANGED <<recordVars, fileVars, sinkFailed, sinkSegs, buffered, flushing, durable,
                      timeVars, procVars>>
      BY <1>4 DEF StartSucceeds, Stop, sinkVars
    <3>2. /\ Fault \/ UNCHANGED faults
          /\ phase \in {"starting", "recording"} /\ phase' \in {"recording", "draining"}
          /\ sink' \in {sink, "closed"} /\ activeCall' \in {activeCall, TRUE}
      BY <1>4 DEF StartSucceeds, Stop, sinkVars
    <3>3. QED BY <1>0, <3>1, <3>2, FaultTyped DEF TypeOK
  <2>2. DataTyped'
    BY <1>0, <2>1 DEF DataTyped, recordVars, timeVars, fileVars
  <2>3. UNCHANGED <<log, changes, callEnded, disk>> /\ sink # "none" /\ sink' # "none"
    BY <1>0, <2>1 DEF recordVars, timeVars, fileVars
  <2>4. QED BY <1>0, <2>1, <2>2, <2>3, ProcsStay DEF Control, RemovalIsAudited, Removed
<1>5. CASE AfterDrain
  <2>1. /\ UNCHANGED <<assets, log, changesLogged, fileVars, sinkVars, activeCall, timeVars, faults>>
        /\ phase = "draining" /\ phase' = "finalizing" /\ callEnded' \in {callEnded, TRUE}
    BY <1>5 DEF AfterDrain, Drained
  <2>2. DataTyped'
    BY <1>0, <2>1 DEF DataTyped, timeVars, fileVars, sinkVars
  <2>3. UNCHANGED <<log, changes, disk, sink>>
    BY <2>1 DEF timeVars, fileVars, sinkVars
  <2>4. \/ Begin("session", "finalize", "mark")
        \/ Begin("session", "discardStart", "replay")
        \/ UNCHANGED procVars
    BY <1>5 DEF AfterDrain
  <2>5. /\ TypeOK' /\ RecoveredIsEnded'
        /\ \A q \in Procs : GoodProc(q, op[q], pc[q], seen[q])'
    BY <2>1, <2>2, <2>3, <2>4, ProcsStay, BeginControl DEF Procs
  <2>6. QED BY <1>0, <2>1, <2>3, <2>5 DEF Control, RemovalIsAudited, Removed
<1>6. CASE SessionOver
  <2>1. /\ UNCHANGED <<assets, log, changesLogged, fileVars, sinkVars, timeVars, procVars>>
        /\ phase' = "over" /\ activeCall' = FALSE /\ callEnded' \in {callEnded, TRUE}
        /\ faults' \in 0..MaxFaults
    <3>1. /\ UNCHANGED <<assets, log, changesLogged, fileVars, sinkVars, timeVars, procVars>>
          /\ phase' = "over" /\ activeCall' = FALSE /\ callEnded' \in {callEnded, TRUE}
          /\ Fault \/ UNCHANGED faults
      BY <1>6 DEF SessionOver
    <3>2. QED BY <1>0, <3>1, FaultTyped
  <2>2. DataTyped'
    BY <1>0, <2>1 DEF DataTyped, timeVars, fileVars, sinkVars
  <2>3. UNCHANGED <<log, changes, disk, sink>>
    BY <2>1 DEF timeVars, fileVars, sinkVars
  <2>4. QED BY <1>0, <2>1, <2>2, <2>3, ProcsStay DEF Control, RemovalIsAudited, Removed
<1>7. QED BY <1>1, <1>2, <1>3, <1>4, <1>5, <1>6 DEF Session

LEMMA OthersControl ==
    ASSUME Control, Manager \/ DeadlinePasses \/ Restart \/ UNCHANGED vars
    PROVE  Control'
<1>0. TypeOK /\ RemovalIsAudited /\ DataTyped
      /\ (phase \in {"starting", "recording", "draining", "finalizing"} => sink # "none")
  BY Typing DEF Control
<1>1. CASE Manager
  <2>1. PICK o, l : /\ Begin("manager", o, l) /\ OnlyBegins
                    /\ \/ o = "recover" /\ l = "mark"
                       \/ o \in {"discard", "replay", "expire"} /\ l = "replay"
                       \/ o = "retain" /\ l = "replay" /\ changes < MaxChanges
    BY <1>1 DEF Manager, BeginRecover, BeginDiscard, BeginRetain, BeginReplay, BeginExpire, TakeLock
  <2>2. DataTyped' /\ UNCHANGED <<log, changes, callEnded, disk, sink, phase>>
    BY <1>0, <2>1 DEF OnlyBegins, DataTyped, recordVars, fileVars, sinkVars, sessionVars, timeVars
  <2>3. QED BY <1>0, <2>1, <2>2, BeginControl DEF Control, Procs, RemovalIsAudited, Removed
<1>2. CASE DeadlinePasses
  <2>1. /\ UNCHANGED <<recordVars, fileVars, sinkVars, sessionVars, changes, procVars, faults>>
        /\ expired' \subseteq Changes
    BY <1>0, <1>2 DEF DeadlinePasses, TypeOK, Manifest, Found
  <2>2. DataTyped' /\ UNCHANGED <<log, changes, callEnded, disk, sink, phase>>
    BY <1>0, <2>1 DEF DataTyped, recordVars, fileVars, sinkVars, sessionVars
  <2>3. QED BY <1>0, <2>1, <2>2, ProcsStay DEF Control, RemovalIsAudited, Removed
<1>3. CASE Restart
  <2>1. /\ UNCHANGED <<recordVars, wavs, sinkSegs, durable, timeVars>> /\ dir' = dir
        /\ Fault /\ phase' \in {"before", "over"} /\ activeCall' = FALSE
        /\ sink' = (IF sink = "none" THEN "none" ELSE "closed")
        /\ sinkFailed' = FALSE /\ buffered' = {} /\ flushing' = None
        /\ files' \subseteq files
        /\ \/ disk' = disk
           \/ disk' = None /\ \E p \in Procs : pc[p] = "remove"
    BY <1>3 DEF Restart
  <2>2. DataTyped'
    BY <1>0, <2>1, FaultTyped DEF DataTyped, recordVars, timeVars
  <2>3. UNCHANGED <<log, changes, callEnded>>
    BY <2>1 DEF recordVars, timeVars
  <2>4. RemovalIsAudited'
    <3>1. (\E p \in Procs : pc[p] = "remove") => log # {}
      BY DEF Control, GoodProc, Removing
    <3>2. QED BY <1>0, <2>1, <2>3, <3>1 DEF RemovalIsAudited, Removed
  <2>5. /\ op' = [p \in Procs |-> "none"] /\ pc' = [p \in Procs |-> "idle"]
        /\ seen' = [p \in Procs |-> Fresh]
    BY <1>3 DEF Restart
  <2>6. ASSUME NEW p \in Procs PROVE GoodProc(p, op[p], pc[p], seen[p])'
    BY <2>5, FreshIsManifest
       DEF GoodProc, Operations, Labels, Marked, Resetting, Replaying, Removing, Late
  <2>7. TypeOK'
    BY <2>2, <2>5, FreshIsManifest DEF TypeOK, DataTyped
  <2>8. RecoveredIsEnded'
    BY <2>3 DEF Control, RecoveredIsEnded
  <2>9. QED BY <2>1, <2>4, <2>6, <2>7, <2>8 DEF Control
<1>4. CASE UNCHANGED vars
  <2>1. /\ UNCHANGED <<procVars, log, changes, callEnded, phase, disk, sink>>
    BY <1>4 DEF vars, recordVars, fileVars, sinkVars, sessionVars, timeVars
  <2>2. DataTyped'
    BY <1>0, <1>4 DEF vars, recordVars, fileVars, sinkVars, sessionVars, timeVars, DataTyped
  <2>3. QED BY <1>0, <2>1, <2>2, ProcsStay DEF Control, RemovalIsAudited, Removed
<1>5. QED BY <1>1, <1>2, <1>3, <1>4

LEMMA ControlStep == Control /\ [Next]_vars => Control'
  BY StepControl, SessionControl, OthersControl DEF Next

LEMMA InitControl == Init => Control
<1> SUFFICES ASSUME Init PROVE Control
  OBVIOUS
<1>1. TypeOK
  <2>1. DataTyped
    <3>1. 0 \in Changes /\ 0 \in 0..MaxFaults /\ NoAudio \in [Speakers -> SUBSET Segments]
      BY CheckpointAssumption DEF Changes, NoAudio
    <3>2. QED BY <3>1 DEF Init, DataTyped
  <2>2. /\ op \in [Procs -> Operations] /\ pc \in [Procs -> Labels]
        /\ seen \in [Procs -> Manifest]
    BY FreshIsManifest DEF Init, Operations, Labels
  <2>3. QED BY <2>1, <2>2, Typing
<1>2. ASSUME NEW p \in Procs PROVE GoodProc(p, op[p], pc[p], seen[p])
  BY FreshIsManifest
     DEF Init, GoodProc, Operations, Labels, Marked, Resetting, Replaying, Removing, Late
<1>3. QED BY <1>1, <1>2 DEF Init, Control, RecoveredIsEnded, RemovalIsAudited, Removed

LEMMA ControlInductive == Spec => []Control
  BY InitControl, ControlStep, PTL DEF Spec

\* Whatever fails and wherever the app stops, a checkpoint is only removed after an audit
\* entry, also when the two processes and the start of the call race for it.
THEOREM RemovalsAreAudited == Spec => []RemovalIsAudited
<1>1. Control => RemovalIsAudited
  BY DEF Control
<1>2. QED BY <1>1, ControlInductive, PTL

-----------------------------------------------------------------------------
(* The phases of the recording. *)

\* Nothing of the sink is under way any more.
Quiet == flushing = None /\ (sinkFailed \/ buffered = {}) /\ sink # "open"

Phases ==
    /\ phase \in {"before", "creating"} =>
         disk = None /\ sink = "none" /\ buffered = {} /\ flushing = None /\ op["manager"] = "none"
    /\ phase = "draining" => sink # "open"
    /\ phase \in {"finalizing", "over"} => Quiet
    /\ op["session"] # "none" => phase = "finalizing"

\* What a step of an operation leaves alone.
LEMMA StepFrame ==
    ASSUME Control, NEW p \in Procs, Step(p)
    PROVE  /\ pc[p] # "idle" /\ op[p] # "none"
           /\ UNCHANGED <<sinkVars, sessionVars, expired>>
           /\ \A q \in Procs \ {p} : op'[q] = op[q] /\ pc'[q] = pc[q] /\ seen'[q] = seen[q]
           /\ op'[p] \in {op[p], "none"} \/ (op[p] = "retain" /\ op'[p] = "staged")
<1>0. TypeOK /\ GoodProc(p, op[p], pc[p], seen[p])
  BY DEF Control
<1>1. pc[p] # "idle"
  BY DEF Step, ReadState, SetState, Materialize, Import, EndCall, Replay, AppendPending, Complete,
         CompleteWrite, Stage, StageWrite, Audit, AuditExpired, RemoveWavs, Remove
<1>2. UNCHANGED <<sinkVars, sessionVars, expired>>
  BY DEF Step, ReadState, SetState, Materialize, Import, EndCall, Replay, AppendPending, Complete,
         CompleteWrite, Stage, StageWrite, Audit, AuditExpired, RemoveWavs, Remove,
         OnlyManifest, OnlyRecords, timeVars
<1>3. \/ Finish(p) \/ \E l : Goto(p, l) \/ \E m : Hold(p, m, l)
      \/ UNCHANGED procVars
      \/ /\ op[p] = "retain" /\ UNCHANGED seen
         /\ pc' = [pc EXCEPT ![p] = "replay"] /\ op' = [op EXCEPT ![p] = "staged"]
  <2>1. Fail(p) => Finish(p) \/ \E l : Goto(p, l)
    BY DEF Fail
  <2>2. Replayed(p) => Finish(p) \/ \E l : Goto(p, l)
    BY DEF Replayed
  <2>3. CASE ReadState(p) \/ SetState(p)
    BY <2>1, <2>3 DEF ReadState, SetState, FailsIf, WriteFails
  <2>4. CASE Materialize(p) \/ Import(p) \/ EndCall(p)
    BY <2>1, <2>4 DEF Materialize, Import, EndCall, FailsIf, FailsUntried
  <2>5. CASE Replay(p) \/ AppendPending(p) \/ Complete(p) \/ CompleteWrite(p)
    BY <2>1, <2>2, <2>5 DEF Replay, AppendPending, Complete, CompleteWrite, FailsIf, WriteFails
  <2>6. CASE Stage(p) \/ StageWrite(p)
    BY <1>0, <2>1, <2>6 DEF Stage, StageWrite, FailsIf, WriteFails, GoodProc
  <2>7. CASE Audit(p) \/ AuditExpired(p) \/ RemoveWavs(p) \/ Remove(p)
    BY <2>1, <2>7 DEF Audit, AuditExpired, RemoveWavs, Remove
  <2>8. QED BY <2>3, <2>4, <2>5, <2>6, <2>7 DEF Step
<1>4. QED BY <1>0, <1>1, <1>2, <1>3 DEF Finish, Goto, Hold, procVars, TypeOK, GoodProc

LEMMA PhasesStep ==
    ASSUME Control, Phases, [Next]_vars
    PROVE  Phases'
<1> USE DEF Phases, Quiet
<1>0. TypeOK /\ op \in [Procs -> Operations]
  BY Typing DEF Control
<1>1. ASSUME NEW p \in Procs, Step(p) PROVE Phases'
  <2>1. phase \notin {"before", "creating"}
    BY <1>1, StepFrame DEF Procs
  <2>2. op'["session"] # "none" => op["session"] # "none"
    BY <1>0, <1>1, StepFrame DEF Procs
  <2>3. UNCHANGED <<phase, sink, sinkFailed, buffered, flushing>>
    BY <1>1, StepFrame DEF sinkVars, sessionVars
  <2>4. QED BY <2>1, <2>2, <2>3
<1>2. CASE BeginRecording
  BY <1>2 DEF BeginRecording, procVars
<1>3. ASSUME NEW s \in Segments, Capture(s) PROVE Phases'
  BY <1>3 DEF Capture, sessionVars, procVars, fileVars
<1>4. ASSUME NEW s \in Segments, FlushFile(s) PROVE Phases'
  BY <1>4 DEF FlushFile, sessionVars, procVars
<1>5. CASE FlushManifest
  BY <1>5 DEF FlushManifest, sessionVars, procVars
<1>6. CASE StartSucceeds \/ Stop
  BY <1>6 DEF StartSucceeds, Stop, fileVars, sinkVars, procVars
<1>7. CASE AfterDrain
  BY <1>7 DEF AfterDrain, Drained, fileVars, sinkVars
<1>8. CASE SessionOver
  BY <1>0, <1>8 DEF SessionOver, fileVars, sinkVars, procVars, Control, GoodProc, Procs
<1>9. CASE Manager
  <2>1. /\ Found /\ OnlyBegins
        /\ \E o, l : op' = [op EXCEPT !["manager"] = o]
    BY <1>9 DEF Manager, BeginRecover, BeginDiscard, BeginRetain, BeginReplay, BeginExpire,
       TakeLock, Begin, Pending
  <2>2. op'["session"] = op["session"]
    BY <1>0, <2>1 DEF Procs
  <2>3. QED BY <2>1, <2>2 DEF OnlyBegins, Found, fileVars, sinkVars, sessionVars
<1>10. CASE DeadlinePasses
  BY <1>10 DEF DeadlinePasses, fileVars, sinkVars, sessionVars, procVars
<1>11. CASE Restart
  BY <1>11 DEF Restart, Procs
<1>12. CASE UNCHANGED vars
  BY <1>12 DEF vars, fileVars, sinkVars, sessionVars, procVars
<1>13. QED BY <1>1, <1>2, <1>3, <1>4, <1>5, <1>6, <1>7, <1>8, <1>9, <1>10, <1>11, <1>12
           DEF Next, Session

-----------------------------------------------------------------------------
(* The retention, as long as it is not changed during a recording. *)

Writes == {"markWrite", "partialWrite", "resetWrite", "completeWrite", "stageWrite"}

\* The retention of the manifest m is the last one that was staged, with or without its entry.
GoodManifest(m) ==
    /\ m.retention <= changes /\ m.pending \in {0, m.retention}
    /\ \A n \in changesLogged : n <= m.retention

\* A process that is about to write holds the retention that is on the disk; one that
\* replays an entry holds one of the retention on the disk or of an earlier one.
KeepsRetention(l, m) ==
    /\ l \in Writes =>
         /\ GoodManifest(m)
         /\ disk # None => m.retention = disk.retention /\ m.pending = disk.pending
    /\ l \in Replaying =>
         /\ m.pending <= changes
         /\ disk # None => m.pending <= disk.retention
    /\ l \in {"complete", "completeWrite"} => m.pending \in changesLogged
    /\ l \in {"stage", "stageWrite", "audit"} \cup Removing =>
         (disk # None => disk.pending = 0)

Retention ==
    /\ phase # "over" => changes = 0
    /\ op["manager"] \in {"retain", "staged"} => phase = "over"
    /\ changesLogged \subseteq 1..changes
    /\ disk # None => GoodManifest(disk)
    /\ \A p \in Procs : KeepsRetention(pc[p], seen[p])

\* PendingIsAudited, as a step keeps it.
EntryKept ==
    \A n \in 1..MaxChanges :
        disk # None /\ disk.pending = n =>
          \/ disk' # None /\ disk'.pending = n
          \/ n \in changesLogged'

\* What a step of p has to show; the other process is idle if the retention was changed.
KeepsWell(p) ==
    /\ KeepsRetention(pc[p], seen[p])'
    /\ changes' = changes \/ (changes' = changes + 1 /\ op[p] = "retain")
    /\ changesLogged' \subseteq 1..changes'
    /\ disk' # None => GoodManifest(disk)'
    /\ EntryKept

LEMMA KeepsWellIsGood ==
    ASSUME Control, Control', Phases, Retention, NEW p \in Procs, Step(p), KeepsWell(p)
    PROVE  Retention' /\ EntryKept
<1>0. /\ TypeOK /\ TypeOK' /\ GoodProc(p, op[p], pc[p], seen[p])
      /\ op \in [Procs -> Operations] /\ changes \in Nat
  BY Typing, CheckpointAssumption DEF Control, TypeOK, Changes
<1>1. UNCHANGED phase /\ op[p] # "none"
  BY StepFrame DEF sessionVars
<1>2. op["manager"]' \in {"retain", "staged"} => op["manager"] \in {"retain", "staged"}
  BY StepFrame DEF Procs
<1>3. op[p] = "retain" => phase = "over"
  BY <1>0 DEF Retention, GoodProc, Procs
<1>4. phase # "over" => changes' = 0
  BY <1>1, <1>3 DEF Retention, KeepsWell
<1>5. ASSUME NEW q \in Procs \ {p} PROVE KeepsRetention(pc[q], seen[q])'
  <2>1. pc'[q] = pc[q] /\ seen'[q] = seen[q] /\ seen[q] \in Manifest
        /\ GoodProc(q, op[q], pc[q], seen[q]) /\ KeepsRetention(pc[q], seen[q])
    BY <1>0, StepFrame DEF TypeOK, Control, Retention
  <2>2. CASE pc[q] = "idle"
    BY <2>1, <2>2 DEF KeepsRetention, Writes, Replaying, Removing
  <2>3. CASE pc[q] # "idle"
    <3>1. phase # "over"
      BY <1>1, <2>1, <2>3 DEF GoodProc, Procs, Phases
    <3>2. changes' = 0 /\ changesLogged' = {} /\ changes = 0 /\ changesLogged = {}
      BY <1>4, <3>1 DEF KeepsWell, Retention
    <3>3. pc[q] \notin Replaying
      BY <1>0, <2>1, <3>2 DEF KeepsRetention, GoodProc, Manifest, Changes
    <3>4. pc[q] \in Writes => GoodManifest(seen[q])'
      BY <2>1, <3>2 DEF KeepsRetention, GoodManifest
    <3>5. disk' \in Manifest \cup {None} /\ (disk' # None => GoodManifest(disk)')
      BY <1>0 DEF KeepsWell, TypeOK
    <3>6. QED BY <2>1, <3>2, <3>3, <3>4, <3>5
              DEF KeepsRetention, GoodManifest, Manifest, Changes, Replaying
  <2>4. QED BY <2>2, <2>3
<1>6. \A q \in Procs : KeepsRetention(pc[q], seen[q])'
  BY <1>5 DEF KeepsWell
<1>7. QED BY <1>1, <1>2, <1>4, <1>6 DEF Retention, KeepsWell

\* Where the process is after the step.
LEMMA Now ==
    ASSUME TypeOK, NEW p \in Procs
    PROVE  /\ Finish(p) => pc'[p] = "idle"
           /\ \A l : Goto(p, l) => pc'[p] = l /\ seen'[p] = seen[p]
           /\ \A l, m : Hold(p, m, l) => pc'[p] = l /\ seen'[p] = m
           /\ Fail(p) => pc'[p] \in {"idle", "reset"}
           /\ Replayed(p) => pc'[p] \in {"idle", "audit", "stage"}
<1>1. pc \in [Procs -> Labels] /\ seen \in [Procs -> Manifest]
  BY Typing
<1>2. /\ Finish(p) => pc'[p] = "idle"
      /\ \A l : Goto(p, l) => pc'[p] = l /\ seen'[p] = seen[p]
      /\ \A l, m : Hold(p, m, l) => pc'[p] = l /\ seen'[p] = m
  BY <1>1 DEF Finish, Goto, Hold
<1>3. Fail(p) => pc'[p] \in {"idle", "reset"}
  BY <1>2 DEF Fail
<1>4. Replayed(p) => Goto(p, "audit") \/ Goto(p, "stage") \/ Finish(p)
  BY DEF Replayed, Removes
<1>5. Replayed(p) => pc'[p] \in {"idle", "audit", "stage"}
  BY <1>2, <1>4
<1>6. QED BY <1>2, <1>3, <1>5

\* At these labels there is nothing to keep.
LEMMA NothingToKeep ==
    ASSUME NEW p, pc'[p] \notin Writes \cup Replaying \cup Removing \cup {"stage", "audit"}
    PROVE  KeepsRetention(pc[p], seen[p])'
  BY DEF KeepsRetention, Replaying, Writes

LEMMA KeptIfSame ==
    ASSUME Control, Retention, UNCHANGED <<disk, changes, changesLogged>>
    PROVE  /\ changesLogged' \subseteq 1..changes' /\ (disk' # None => GoodManifest(disk)')
           /\ EntryKept
  BY DEF Retention, GoodManifest, EntryKept

LEMMA ReadKeeps ==
    ASSUME Control, Retention, NEW p \in Procs,
           ReadState(p) \/ Stage(p) \/ Replay(p) \/ Complete(p)
    PROVE  KeepsWell(p)
<1>0. /\ TypeOK /\ KeepsRetention(pc[p], seen[p]) /\ (disk # None => GoodManifest(disk))
      /\ GoodProc(p, op[p], pc[p], seen[p])
  BY DEF Control, Retention
<1>1. UNCHANGED <<disk, changes, changesLogged>>
  BY DEF ReadState, Stage, Replay, Complete, OnlyManifest, timeVars, recordVars
<1>2. SUFFICES KeepsRetention(pc[p], seen[p])'
  BY <1>1, KeptIfSame DEF KeepsWell
<1>3. CASE pc'[p] \in {"idle", "reset"}
  BY <1>3, NothingToKeep DEF Writes, Replaying, Removing
<1>4. CASE ReadState(p)
  <2>1. pc'[p] \in {"idle", "reset"} \/
        /\ pc'[p] \in {"markWrite", "partialWrite", "resetWrite"} /\ seen'[p] = disk /\ disk # None
    BY <1>0, <1>4, Now DEF ReadState, FailsIf, Found
  <2>2. QED BY <1>0, <1>1, <1>3, <2>1
            DEF KeepsRetention, GoodManifest, Writes, Replaying, Removing
<1>5. CASE Stage(p)
  <2>1. pc'[p] \in {"idle", "reset"} \/
        /\ pc'[p] = "stageWrite" /\ seen'[p] = disk /\ disk # None /\ disk.pending = 0
    BY <1>0, <1>5, Now DEF Stage, FailsIf, Found, KeepsRetention
  <2>2. QED BY <1>0, <1>1, <1>3, <2>1
            DEF KeepsRetention, GoodManifest, Writes, Replaying, Removing
<1>6. CASE Replay(p)
  <2>1. \/ pc'[p] \in {"idle", "reset"}
        \/ pc'[p] = "append" /\ seen'[p] = disk /\ disk # None
        \/ pc'[p] \in {"idle", "audit", "stage"} /\ (disk # None => disk.pending = 0)
    BY <1>0, <1>6, Now DEF Replay, FailsIf, Found, Pending
  <2>2. QED BY <1>0, <1>1, <1>3, <2>1
            DEF KeepsRetention, GoodManifest, Writes, Replaying, Removing, TypeOK, Manifest, Changes
<1>7. CASE Complete(p)
  <2>1. \/ pc'[p] \in {"idle", "reset"}
        \/ /\ pc'[p] = "completeWrite" /\ seen'[p] = disk /\ disk # None
           /\ disk.pending = seen[p].pending /\ seen[p].pending \in changesLogged
        \/ pc'[p] \in {"idle", "audit", "stage"} /\ (disk # None => disk.pending = 0)
    BY <1>0, <1>7, Now
       DEF Complete, FailsIf, Found, Pending, GoodProc, Replaying, KeepsRetention
  <2>2. QED BY <1>0, <1>1, <1>3, <2>1
            DEF KeepsRetention, GoodManifest, Writes, Replaying, Removing, TypeOK, Manifest, Changes
<1>8. QED BY <1>4, <1>5, <1>6, <1>7

LEMMA SetStateKeeps ==
    ASSUME Control, Retention, NEW p \in Procs, SetState(p)
    PROVE  KeepsWell(p)
<1>0. /\ TypeOK /\ KeepsRetention(pc[p], seen[p]) /\ seen[p] \in Manifest
      /\ (disk # None => GoodManifest(disk)) /\ changesLogged \subseteq 1..changes
  BY DEF Control, Retention, TypeOK
<1>1. UNCHANGED <<changes, changesLogged>> /\ pc[p] \in Writes
  BY DEF SetState, OnlyManifest, timeVars, recordVars, Writes
<1>2. PICK m \in Manifest :
        /\ m.retention = seen[p].retention /\ m.pending = seen[p].pending
        /\ disk' \in {disk, m}
        /\ pc'[p] \in {"idle", "reset", "materialize"}
  <2>1. PICK state, m :
          /\ state \in {"recovering", "partial", "recoverable"}
          /\ m = [seen[p] EXCEPT !.state = state]
          /\ Write(m) \/ WriteFails(p, m)
          /\ \/ WriteFails(p, m)
             \/ Hold(p, m, "materialize") \/ Goto(p, "reset") \/ Finish(p)
    BY DEF SetState
  <2>2. m \in Manifest /\ m.retention = seen[p].retention /\ m.pending = seen[p].pending
    BY <1>0, <2>1 DEF Manifest
  <2>3. disk' \in {disk, m}
    BY <1>0, <2>1, <2>2, Manifests
  <2>4. WriteFails(p, m) => Fail(p)
    BY DEF WriteFails
  <2>5. pc'[p] \in {"idle", "reset", "materialize"}
    BY <1>0, <2>1, <2>4, Now
  <2>6. QED BY <2>2, <2>3, <2>5
<1>3. KeepsRetention(pc[p], seen[p])'
  BY <1>2, NothingToKeep DEF Writes, Replaying, Removing
<1>4. /\ GoodManifest(seen[p])
      /\ disk # None => seen[p].retention = disk.retention /\ seen[p].pending = disk.pending
  BY <1>0, <1>1 DEF KeepsRetention
<1>5. disk' # None => GoodManifest(disk)'
  BY <1>0, <1>1, <1>2, <1>4 DEF GoodManifest
<1>6. EntryKept
  BY <1>1, <1>2, <1>4, CheckpointAssumption DEF EntryKept
<1>7. QED BY <1>0, <1>1, <1>3, <1>5, <1>6 DEF KeepsWell

LEMMA CompleteWriteKeeps ==
    ASSUME Control, Retention, NEW p \in Procs, CompleteWrite(p)
    PROVE  KeepsWell(p)
<1>0. /\ TypeOK /\ KeepsRetention(pc[p], seen[p]) /\ seen[p] \in Manifest
      /\ (disk # None => GoodManifest(disk)) /\ changesLogged \subseteq 1..changes
  BY DEF Control, Retention, TypeOK
<1>1. UNCHANGED <<changes, changesLogged>> /\ pc[p] = "completeWrite"
  BY DEF CompleteWrite, OnlyManifest, timeVars, recordVars
<1>2. PICK m \in Manifest :
        /\ m.retention = seen[p].retention /\ m.pending = 0
        /\ \/ disk' = m /\ pc'[p] \in {"idle", "audit", "stage"}
           \/ disk' \in {disk, m} /\ pc'[p] \in {"idle", "reset"}
  <2>1. PICK m : m = [seen[p] EXCEPT !.pending = 0]
    OBVIOUS
  <2>2. m \in Manifest /\ m.retention = seen[p].retention /\ m.pending = 0
    BY <1>0, <2>1, CheckpointAssumption DEF Manifest, Changes
  <2>3. \/ Write(m) /\ Replayed(p)
        \/ WriteFails(p, m)
    BY <2>1 DEF CompleteWrite
  <2>4. WriteFails(p, m) => Fail(p)
    BY DEF WriteFails
  <2>5. QED BY <1>0, <2>2, <2>3, <2>4, Manifests, Now
<1>3. KeepsRetention(pc[p], seen[p])'
  <2>1. CASE pc'[p] \in {"idle", "reset"}
    BY <2>1, NothingToKeep DEF Writes, Replaying, Removing
  <2>2. CASE disk' = m /\ pc'[p] \in {"audit", "stage"}
    BY <1>2, <2>2 DEF KeepsRetention, Writes, Replaying, Removing
  <2>3. QED BY <1>2, <2>1, <2>2
<1>4. /\ GoodManifest(seen[p]) /\ seen[p].pending \in changesLogged
      /\ disk # None => seen[p].retention = disk.retention /\ seen[p].pending = disk.pending
  BY <1>0, <1>1 DEF KeepsRetention, Writes
<1>5. disk' # None => GoodManifest(disk)'
  BY <1>0, <1>1, <1>2, <1>4 DEF GoodManifest
<1>6. EntryKept
  BY <1>1, <1>2, <1>4 DEF EntryKept
<1>7. QED BY <1>0, <1>1, <1>3, <1>5, <1>6 DEF KeepsWell

LEMMA StageWriteKeeps ==
    ASSUME Control, Retention, NEW p \in Procs, StageWrite(p)
    PROVE  KeepsWell(p)
<1>0. /\ TypeOK /\ KeepsRetention(pc[p], seen[p]) /\ seen[p] \in Manifest /\ changes \in Nat
      /\ (disk # None => GoodManifest(disk)) /\ changesLogged \subseteq 1..changes
      /\ GoodProc(p, op[p], pc[p], seen[p]) /\ disk \in Manifest \cup {None}
  BY CheckpointAssumption DEF Control, Retention, TypeOK, Changes
<1>1. /\ UNCHANGED changesLogged /\ pc[p] = "stageWrite" /\ changes' = changes + 1
      /\ op[p] = "retain" /\ changes < MaxChanges
  BY <1>0 DEF StageWrite, recordVars, GoodProc
<1>2. PICK m \in Manifest :
        /\ m.retention = changes + 1 /\ m.pending = changes + 1
        /\ disk' \in {disk, m} /\ pc'[p] \in {"idle", "reset", "replay"}
  <2>1. PICK m : m = [seen[p] EXCEPT !.retention = changes + 1, !.pending = changes + 1]
    OBVIOUS
  <2>2. m \in Manifest /\ m.retention = changes + 1 /\ m.pending = changes + 1
    <3>1. changes + 1 \in Changes
      BY <1>0, <1>1, CheckpointAssumption DEF Changes
    <3>2. QED BY <1>0, <2>1, <3>1 DEF Manifest
  <2>3. \/ Write(m) /\ pc' = [pc EXCEPT ![p] = "replay"]
        \/ WriteFails(p, m) /\ Fail(p)
    BY <2>1 DEF StageWrite, WriteFails
  <2>4. pc \in [Procs -> Labels]
    BY <1>0, Typing
  <2>5. QED BY <1>0, <2>2, <2>3, <2>4, Manifests, Now
<1>3. KeepsRetention(pc[p], seen[p])'
  BY <1>2, NothingToKeep DEF Writes, Replaying, Removing
<1>4. disk # None => disk.pending = 0
  BY <1>0, <1>1 DEF KeepsRetention
<1>5. disk' # None => GoodManifest(disk)'
  <2>1. CASE disk' = m
    BY <1>0, <1>1, <1>2, <2>1 DEF GoodManifest
  <2>2. CASE disk' = disk
    <3>1. disk # None => disk.retention \in Nat /\ GoodManifest(disk)
      BY <1>0, CheckpointAssumption DEF Manifest, Changes
    <3>2. QED BY <1>0, <1>1, <2>2, <3>1 DEF GoodManifest
  <2>3. QED BY <1>2, <2>1, <2>2
<1>6. EntryKept
  BY <1>4 DEF EntryKept
<1>7. QED BY <1>0, <1>1, <1>3, <1>5, <1>6 DEF KeepsWell

LEMMA AppendKeeps ==
    ASSUME Control, Retention, NEW p \in Procs, AppendPending(p)
    PROVE  KeepsWell(p)
<1>0. /\ TypeOK /\ KeepsRetention(pc[p], seen[p]) /\ seen[p] \in Manifest /\ changes \in Nat
      /\ (disk # None => GoodManifest(disk)) /\ changesLogged \subseteq 1..changes
      /\ GoodProc(p, op[p], pc[p], seen[p])
  BY CheckpointAssumption DEF Control, Retention, TypeOK, Changes
<1>1. UNCHANGED <<disk, changes>> /\ pc[p] = "append"
  BY DEF AppendPending, OnlyRecords, fileVars, timeVars
<1>2. /\ seen[p].pending \in 1..changes
      /\ disk # None => seen[p].pending <= disk.retention
  BY <1>0, <1>1 DEF KeepsRetention, Replaying, GoodProc, Manifest, Changes
<1>3. CASE Fail(p) /\ UNCHANGED changesLogged
  <2>1. KeepsRetention(pc[p], seen[p])'
    BY <1>0, <1>3, Now, NothingToKeep DEF Writes, Replaying, Removing
  <2>2. QED BY <1>1, <1>3, <2>1, KeptIfSame DEF KeepsWell
<1>4. CASE Goto(p, "complete") /\ changesLogged' = changesLogged \cup {seen[p].pending}
  <2>1. pc'[p] = "complete" /\ seen'[p] = seen[p]
    BY <1>0, <1>4, Now
  <2>2. KeepsRetention(pc[p], seen[p])'
    BY <1>1, <1>2, <1>4, <2>1 DEF KeepsRetention, Writes, Replaying, Removing
  <2>3. disk' # None => GoodManifest(disk)'
    BY <1>0, <1>1, <1>2, <1>4 DEF GoodManifest
  <2>4. EntryKept
    BY <1>1 DEF EntryKept
  <2>5. QED BY <1>0, <1>1, <1>2, <1>4, <2>2, <2>3, <2>4 DEF KeepsWell
<1>5. QED BY <1>3, <1>4 DEF AppendPending

LEMMA OtherKeeps ==
    ASSUME Control, Retention, NEW p \in Procs,
           \/ Materialize(p) \/ Import(p) \/ EndCall(p) \/ Audit(p) \/ AuditExpired(p)
           \/ RemoveWavs(p)
    PROVE  KeepsWell(p)
<1>0. TypeOK /\ KeepsRetention(pc[p], seen[p])
  BY DEF Control, Retention
<1>1. UNCHANGED <<disk, changes, changesLogged>>
  BY DEF Materialize, Import, EndCall, Audit, AuditExpired, RemoveWavs, OnlyRecords, fileVars,
         timeVars, recordVars
<1>2. \/ pc'[p] \in {"idle", "reset", "import", "partial", "endCall", "replay"}
      \/ pc[p] \in {"audit", "removeWavs"} /\ pc'[p] \in Removing
  <2>1. CASE Materialize(p)
    BY <1>0, <2>1, Now DEF Materialize, FailsIf, FailsUntried
  <2>2. CASE Import(p)
    BY <1>0, <2>2, Now DEF Import, FailsIf, procVars
  <2>3. CASE EndCall(p)
    BY <1>0, <2>3, Now DEF EndCall
  <2>4. CASE Audit(p) \/ AuditExpired(p)
    BY <1>0, <2>4, Now DEF Audit, AuditExpired, Removing
  <2>5. CASE RemoveWavs(p)
    BY <1>0, <2>5, Now DEF RemoveWavs, Removing
  <2>6. QED BY <2>1, <2>2, <2>3, <2>4, <2>5
<1>3. KeepsRetention(pc[p], seen[p])'
  BY <1>0, <1>1, <1>2 DEF KeepsRetention, Writes, Replaying, Removing
<1>4. QED BY <1>1, <1>3, KeptIfSame DEF KeepsWell

LEMMA RemoveKeeps ==
    ASSUME Control, Retention, NEW p \in Procs, Remove(p)
    PROVE  KeepsWell(p)
<1>0. TypeOK /\ KeepsRetention(pc[p], seen[p]) /\ changesLogged \subseteq 1..changes
      /\ (disk # None => GoodManifest(disk))
  BY DEF Control, Retention
<1>1. UNCHANGED <<changes, changesLogged>> /\ disk' \in {disk, None} /\ pc[p] = "remove"
  BY DEF Remove, recordVars, timeVars
<1>2. pc'[p] \in {"idle", "reset"}
  BY <1>0, Now DEF Remove
<1>3. KeepsRetention(pc[p], seen[p])'
  BY <1>2, NothingToKeep DEF Writes, Replaying, Removing
<1>4. disk # None => disk.pending = 0
  BY <1>0, <1>1 DEF KeepsRetention, Removing
<1>5. (disk' # None => GoodManifest(disk)') /\ EntryKept
  BY <1>0, <1>1, <1>4 DEF GoodManifest, EntryKept
<1>6. QED BY <1>0, <1>1, <1>3, <1>5 DEF KeepsWell

\* Steps that leave the manifest alone, and begin operations at most.
LEMMA SameKeeps ==
    ASSUME Control, Retention, UNCHANGED <<disk, changes, changesLogged>>,
           phase' # "over" => phase # "over",
           op["manager"]' \in {"retain", "staged"} => phase' = "over",
           \A p \in Procs : \/ pc'[p] = pc[p] /\ seen'[p] = seen[p]
                            \/ pc'[p] \in {"idle", "mark", "replay"}
    PROVE  Retention' /\ EntryKept
<1>1. ASSUME NEW p \in Procs PROVE KeepsRetention(pc[p], seen[p])'
  <2>1. CASE pc'[p] = pc[p] /\ seen'[p] = seen[p]
    BY <2>1 DEF Retention, KeepsRetention, GoodManifest
  <2>2. CASE pc'[p] \in {"idle", "mark", "replay"}
    BY <2>2, NothingToKeep DEF Writes, Replaying, Removing
  <2>3. QED BY <2>1, <2>2
<1>2. QED BY <1>1, KeptIfSame DEF Retention

\* Manifests of the sink, written before there was a change.
LEMMA SinkKeeps ==
    ASSUME Control, Control', Retention, phase # "over", phase' # "over",
           UNCHANGED <<changes, changesLogged, procVars>>,
           NEW m, disk' \in {disk, m}, m.retention = 0, m.pending = 0, disk # None => disk' # None
    PROVE  Retention' /\ EntryKept
<1>1. /\ changes = 0 /\ changesLogged = {} /\ disk \in Manifest \cup {None}
      /\ seen \in [Procs -> Manifest]
      /\ disk # None => disk.retention = 0 /\ disk.pending = 0
  BY CheckpointAssumption DEF Control, TypeOK, Retention, GoodManifest, Manifest, Changes
<1>2. disk' # None => disk'.retention = 0 /\ disk'.pending = 0
  BY <1>1
<1>3. ASSUME NEW p \in Procs PROVE KeepsRetention(pc[p], seen[p])'
  <2>1. seen[p] \in Manifest /\ KeepsRetention(pc[p], seen[p]) /\ pc'[p] = pc[p] /\ seen'[p] = seen[p]
        /\ GoodProc(p, op[p], pc[p], seen[p])
    BY <1>1 DEF Retention, Control, procVars
  <2>2. pc[p] \notin Replaying
    BY <1>1, <2>1, CheckpointAssumption DEF KeepsRetention, GoodProc, Manifest, Changes
  <2>3. pc[p] \in Writes => /\ GoodManifest(seen[p])' /\ seen[p].retention = 0
                            /\ seen[p].pending = 0
    BY <1>1, <2>1, CheckpointAssumption DEF KeepsRetention, GoodManifest, Manifest, Changes
  <2>4. QED BY <1>2, <2>1, <2>2, <2>3 DEF KeepsRetention, Replaying, GoodManifest
<1>4. GoodManifest(disk)' \/ disk' = None
  BY <1>1, <1>2 DEF GoodManifest
<1>5. EntryKept
  BY <1>1 DEF EntryKept
<1>6. op["manager"]' \notin {"retain", "staged"}
  BY DEF Retention, procVars
<1>7. QED BY <1>1, <1>3, <1>4, <1>5, <1>6 DEF Retention

LEMMA RetentionStep ==
    ASSUME "retain" \notin Races, Control, Control', Phases, Retention, [Next]_vars
    PROVE  Retention' /\ EntryKept
<1>0. /\ TypeOK /\ op \in [Procs -> Operations] /\ pc \in [Procs -> Labels]
      /\ phase \in {"before", "creating", "starting", "recording", "draining", "finalizing", "over"}
  BY Typing DEF Control, TypeOK
<1>1. ASSUME NEW p \in Procs, Step(p) PROVE Retention' /\ EntryKept
  <2>1. KeepsWell(p)
    BY <1>1, ReadKeeps, SetStateKeeps, CompleteWriteKeeps, StageWriteKeeps, AppendKeeps, OtherKeeps,
       RemoveKeeps DEF Step
  <2>2. QED BY <1>1, <2>1, KeepsWellIsGood
<1>2. CASE BeginRecording
  <2>1. UNCHANGED <<changes, changesLogged, procVars>> /\ phase # "over"
    BY <1>2 DEF BeginRecording, timeVars, recordVars
  <2>2. CASE disk' = disk
    <3>1. op["manager"]' \notin {"retain", "staged"}
      BY <2>1 DEF Retention, procVars
    <3>2. QED BY <2>1, <2>2, <3>1, SameKeeps DEF procVars
  <2>3. CASE disk' = Fresh /\ phase' = "starting"
    BY <2>1, <2>3, SinkKeeps, FreshIsManifest DEF Fresh
  <2>4. QED BY <1>2, <2>2, <2>3 DEF BeginRecording
<1>3. CASE FlushManifest
  <2>1. /\ UNCHANGED <<changes, changesLogged, procVars, phase>> /\ flushing # None
        /\ disk' \in {disk, SinkManifest(flushing)}
    BY <1>3 DEF FlushManifest, timeVars, recordVars, sessionVars
  <2>2. phase # "over"
    BY <2>1 DEF Phases, Quiet
  <2>3. /\ SinkManifest(flushing).retention = 0 /\ SinkManifest(flushing).pending = 0
        /\ SinkManifest(flushing) \in Manifest
    BY <1>0, <2>1, CheckpointAssumption DEF SinkManifest, Fresh, TypeOK, Manifest, Changes
  <2>4. QED BY <2>1, <2>2, <2>3, SinkKeeps, CheckpointAssumption
<1>4. ASSUME NEW s \in Segments, Capture(s) \/ FlushFile(s) PROVE Retention' /\ EntryKept
  <2>1. UNCHANGED <<disk, changes, changesLogged, phase, procVars>>
    BY <1>4 DEF Capture, FlushFile, recordVars, fileVars, sessionVars, timeVars
  <2>2. QED BY <2>1, SameKeeps DEF procVars, Retention
<1>5. CASE StartSucceeds \/ Stop \/ SessionOver
  <2>1. UNCHANGED <<disk, changes, changesLogged, procVars>> /\ phase # "over"
    BY <1>5 DEF StartSucceeds, Stop, SessionOver, recordVars, fileVars, timeVars
  <2>2. QED BY <2>1, SameKeeps DEF procVars, Retention
<1>6. CASE AfterDrain
  <2>1. /\ UNCHANGED <<disk, changes, changesLogged>> /\ phase # "over"
        /\ \/ UNCHANGED procVars
           \/ \E o, l : Begin("session", o, l) /\ l \in {"mark", "replay"}
    BY <1>6 DEF AfterDrain, Drained, fileVars, timeVars
  <2>2. op'["manager"] = op["manager"]
    BY <1>0, <2>1 DEF Begin, procVars, Procs
  <2>3. \A p \in Procs : \/ pc'[p] = pc[p] /\ seen'[p] = seen[p]
                         \/ pc'[p] \in {"idle", "mark", "replay"}
    BY <1>0, <2>1 DEF Begin, procVars
  <2>4. QED BY <2>1, <2>2, <2>3, SameKeeps DEF Retention
<1>7. CASE Manager
  <2>1. PICK o, l : /\ Begin("manager", o, l) /\ OnlyBegins /\ l \in {"mark", "replay"}
                    /\ o \in {"recover", "discard", "replay", "expire"} \/ BeginRetain
    BY <1>7 DEF Manager, BeginRecover, BeginDiscard, BeginRetain, BeginReplay, BeginExpire, TakeLock
  <2>2. UNCHANGED <<disk, changes, changesLogged, phase>>
    BY <2>1 DEF OnlyBegins, recordVars, fileVars, sessionVars, timeVars
  <2>3. BeginRetain => phase = "over"
    BY <1>0 DEF BeginRetain, Allowed, Phases, Found
  <2>4. op'["manager"] \in {"retain", "staged"} => phase = "over"
    BY <1>0, <2>1, <2>3 DEF Begin, Procs
  <2>5. \A p \in Procs : \/ pc'[p] = pc[p] /\ seen'[p] = seen[p]
                         \/ pc'[p] \in {"idle", "mark", "replay"}
    BY <1>0, <2>1 DEF Begin
  <2>6. QED BY <2>2, <2>4, <2>5, SameKeeps
<1>8. CASE DeadlinePasses
  <2>1. UNCHANGED <<disk, changes, changesLogged, phase, procVars>>
    BY <1>8 DEF DeadlinePasses, recordVars, fileVars, sessionVars
  <2>2. QED BY <2>1, SameKeeps DEF procVars, Retention
<1>9. CASE Restart
  <2>1. /\ UNCHANGED <<changes, changesLogged>> /\ phase' \in {"before", "over"}
        /\ phase' = "before" => phase = "before"
        /\ disk' = disk \/ (disk' = None /\ \E p \in Procs : pc[p] = "remove")
        /\ \A p \in Procs : pc'[p] = "idle" /\ op'[p] = "none"
    BY <1>9 DEF Restart, recordVars, timeVars
  <2>2. op["manager"]' \notin {"retain", "staged"}
    BY <2>1 DEF Procs
  <2>3. CASE disk' = disk
    BY <2>1, <2>2, <2>3, SameKeeps
  <2>4. CASE disk' = None /\ \E p \in Procs : pc[p] = "remove"
    <3>1. disk # None => disk.pending = 0
      BY <2>4 DEF Retention, KeepsRetention, Removing
    <3>2. \A p \in Procs : KeepsRetention(pc[p], seen[p])'
      BY <2>1, NothingToKeep DEF Writes, Replaying, Removing
    <3>3. QED BY <2>1, <2>2, <2>4, <3>1, <3>2 DEF Retention, EntryKept
  <2>5. QED BY <2>1, <2>3, <2>4
<1>10. CASE UNCHANGED vars
  <2>1. UNCHANGED <<disk, changes, changesLogged, phase, procVars>>
    BY <1>10 DEF vars, recordVars, fileVars, sessionVars, timeVars
  <2>2. QED BY <2>1, SameKeeps DEF procVars, Retention
<1>11. QED BY <1>1, <1>2, <1>3, <1>4, <1>5, <1>6, <1>7, <1>8, <1>9, <1>10 DEF Next, Session

LEMMA InitPhases == Init => Phases /\ Retention
  BY DEF Init, Phases, Quiet, Retention, KeepsRetention, Procs, Writes, Replaying, Removing

LEMMA PhasesInductive == Spec => []Phases
  BY InitPhases, ControlInductive, PhasesStep, PTL DEF Spec

LEMMA RetentionInductive ==
    ASSUME "retain" \notin Races
    PROVE  Spec => []Retention
<1>1. Control /\ Control' /\ Phases /\ Retention /\ [Next]_vars => Retention'
  BY RetentionStep
<1>2. QED BY <1>1, InitPhases, ControlInductive, PhasesInductive, PTL DEF Spec

\* What the audit log says of the retention is what is kept to, if the retention is not
\* changed while the sink is writing manifests of its own.
THEOREM LoggedRetentionIsKept ==
    ASSUME "retain" \notin Races
    PROVE  Spec => []LoggedRetentionApplies
<1>1. Retention => LoggedRetentionApplies
  BY DEF Retention, GoodManifest, LoggedRetentionApplies
<1>2. QED BY <1>1, RetentionInductive, PTL

\* Under the same condition the entry of a change that is pending leaves the manifest only
\* for the audit log.
THEOREM PendingEntriesAreKept ==
    ASSUME "retain" \notin Races
    PROVE  Spec => PendingIsAudited
<1>1. Control /\ Control' /\ Phases /\ Retention /\ [Next]_vars =>
        [\A n \in 1..MaxChanges :
           disk # None /\ disk.pending = n =>
             \/ disk' # None /\ disk'.pending = n
             \/ n \in changesLogged']_vars
  BY RetentionStep DEF EntryKept
<1>2. QED BY <1>1, ControlInductive, PhasesInductive, RetentionInductive, PTL
          DEF Spec, PendingIsAudited

-----------------------------------------------------------------------------
(* The audio, as long as nobody gets hold of the checkpoint of a starting call. *)

\* What the manager can be at before the recording is drained: nothing, and then at most the
\* removal of a checkpoint that expired while a failed start was being stopped.
Calm ==
    /\ phase \in {"starting", "recording"} =>
         op["manager"] = "none" /\ (disk # None => disk.state = "recording")
    /\ phase = "recording" => activeCall
    /\ phase \in {"before", "creating", "starting"} => expired = {}
    /\ phase = "draining" /\ op["manager"] # "none" =>
         op["manager"] = "expire" /\ pc["manager"] \in {"replay", "audit"} \cup Removing

\* Before the recording is drained only an expired checkpoint is worked on.
LEMMA EarlyStep ==
    ASSUME Control, Phases, Retention, Calm, NEW p \in Procs, Step(p),
           phase \notin {"finalizing", "over"}
    PROVE  /\ phase = "draining" /\ p = "manager" /\ op[p] = "expire"
           /\ Replay(p) \/ AuditExpired(p) \/ RemoveWavs(p) \/ Remove(p)
           /\ \/ op'[p] = "none"
              \/ op'[p] = "expire" /\ pc'[p] \in {"replay", "audit"} \cup Removing
<1>0. /\ TypeOK /\ GoodProc(p, op[p], pc[p], seen[p]) /\ op[p] # "none" /\ pc[p] # "idle"
      /\ op \in [Procs -> Operations] /\ pc \in [Procs -> Labels]
  BY StepFrame, Typing DEF Control
<1>1. p = "manager" /\ phase = "draining"
  BY <1>0 DEF Phases, Calm, Procs, TypeOK
<1>2. op[p] = "expire" /\ pc[p] \in {"replay", "audit"} \cup Removing
  BY <1>0, <1>1 DEF Calm
<1>3. disk # None => disk.pending = 0
  BY <1>0, <1>1, CheckpointAssumption DEF Retention, GoodManifest, TypeOK, Manifest, Changes
<1>4. Replay(p) \/ AuditExpired(p) \/ RemoveWavs(p) \/ Remove(p)
  BY <1>2 DEF Step, ReadState, SetState, Materialize, Import, EndCall, AppendPending, Complete,
         CompleteWrite, Stage, StageWrite, Audit, Removing
<1>5. Fail(p) => Finish(p)
  BY <1>2 DEF Fail
<1>6. Finish(p) \/ \E l \in {"audit"} \cup Removing : Goto(p, l)
  <2>1. CASE Replay(p)
    BY <1>2, <1>3, <1>5, <2>1 DEF Replay, Pending, Found, FailsIf, Replayed, Removes
  <2>2. CASE AuditExpired(p) \/ RemoveWavs(p) \/ Remove(p)
    BY <1>5, <2>2 DEF AuditExpired, RemoveWavs, Remove, Removing
  <2>3. QED BY <1>4, <2>1, <2>2
<1>7. \/ op'[p] = "none"
      \/ op'[p] = "expire" /\ pc'[p] \in {"replay", "audit"} \cup Removing
  BY <1>0, <1>2, <1>6 DEF Finish, Goto
<1>8. QED BY <1>1, <1>2, <1>4, <1>7

LEMMA CalmStep ==
    ASSUME Races = {}, Control, Phases, Retention, Calm, [Next]_vars
    PROVE  Calm'
<1>0. /\ TypeOK /\ op \in [Procs -> Operations] /\ pc \in [Procs -> Labels]
      /\ phase \in {"before", "creating", "starting", "recording", "draining", "finalizing", "over"}
  BY Typing DEF Control, TypeOK
<1>1. ASSUME NEW p \in Procs, Step(p) PROVE Calm'
  <2>1. UNCHANGED <<phase, activeCall, expired>>
    BY <1>1, StepFrame DEF sessionVars
  <2>2. CASE phase \in {"finalizing", "over"}
    BY <2>1, <2>2 DEF Calm
  <2>3. CASE phase \notin {"finalizing", "over"}
    BY <1>1, <2>1, <2>3, EarlyStep DEF Calm
  <2>4. QED BY <2>2, <2>3
<1>2. CASE BeginRecording
  BY <1>0, <1>2 DEF BeginRecording, Phases, Calm, Fresh, timeVars, procVars
<1>3. ASSUME NEW s \in Segments, Capture(s) \/ FlushFile(s) PROVE Calm'
  BY <1>3 DEF Capture, FlushFile, Calm, fileVars, sessionVars, timeVars, procVars
<1>4. CASE FlushManifest
  <2>1. /\ UNCHANGED <<phase, activeCall, expired, op, pc>>
        /\ disk' \in {disk, SinkManifest(flushing)}
    BY <1>4 DEF FlushManifest, sessionVars, timeVars, procVars
  <2>2. SinkManifest(flushing).state = "recording"
    BY DEF SinkManifest, Fresh
  <2>3. QED BY <2>1, <2>2 DEF Calm
<1>5. CASE StartSucceeds \/ Stop
  BY <1>5 DEF StartSucceeds, Stop, Calm, fileVars, timeVars, procVars
<1>6. CASE AfterDrain \/ SessionOver
  BY <1>6 DEF AfterDrain, SessionOver, Calm
<1>7. CASE Manager
  <2>1. UNCHANGED <<disk, phase, activeCall, expired>> /\ Found
    BY <1>7 DEF Manager, BeginRecover, BeginDiscard, BeginRetain, BeginReplay, BeginExpire, Pending,
       OnlyBegins, fileVars, sessionVars, timeVars
  <2>2. phase \notin {"before", "creating"}
    BY <2>1 DEF Phases, Found
  <2>3. CASE BeginRecover \/ BeginDiscard
    <3>1. phase \in {"recording", "finalizing", "over"} /\ ~ShownAsRecording
      BY <1>0, <2>2, <2>3 DEF BeginRecover, BeginDiscard, Allowed
    <3>2. phase # "recording"
      BY <2>1, <3>1 DEF Calm, ShownAsRecording, Found
    <3>3. QED BY <2>1, <3>1, <3>2 DEF Calm
  <2>4. CASE BeginRetain
    BY <1>0, <2>1, <2>2, <2>4 DEF BeginRetain, Allowed, Calm
  <2>5. CASE BeginReplay
    <3>1. phase = "over" \/ disk.pending = 0
      BY <1>0, <2>1, CheckpointAssumption
         DEF Retention, GoodManifest, Found, TypeOK, Manifest, Changes
    <3>2. phase = "over"
      BY <2>1, <2>5, <3>1 DEF BeginReplay, Pending
    <3>3. QED BY <2>1, <3>2 DEF Calm
  <2>6. CASE BeginExpire
    <3>1. phase \in {"draining", "finalizing", "over"}
      BY <1>0, <2>2, <2>6 DEF BeginExpire, IsExpired, Calm
    <3>2. op' = [op EXCEPT !["manager"] = "expire"] /\ pc' = [pc EXCEPT !["manager"] = "replay"]
      BY <2>6 DEF BeginExpire, TakeLock, Begin
    <3>3. op'["manager"] = "expire" /\ pc'["manager"] = "replay"
      BY <1>0, <3>2 DEF Procs
    <3>4. QED BY <2>1, <3>1, <3>3 DEF Calm
  <2>7. QED BY <1>7, <2>3, <2>4, <2>5, <2>6 DEF Manager
<1>8. CASE DeadlinePasses
  BY <1>8 DEF DeadlinePasses, Calm, Phases, Found, fileVars, sessionVars, procVars
<1>9. CASE Restart
  BY <1>9 DEF Restart, Calm, Phases, timeVars
<1>10. CASE UNCHANGED vars
  BY <1>10 DEF vars, fileVars, sessionVars, timeVars, procVars, Calm
<1>11. QED BY <1>1, <1>2, <1>3, <1>4, <1>5, <1>6, <1>7, <1>8, <1>9, <1>10 DEF Next, Session

\* Everything that reached the checkpoint is in the assets of its speaker.
Whole == \A s \in durable : s \in assets[s[1]]

\* Somebody decided, or a deadline, that the audio is not wanted.
Discarded == log \cap {"discarded", "expired"} # {}

\* A speaker has no audio here, or everything that reached the checkpoint.
AllOrNone(audio) == \A speaker \in Speakers :
    audio[speaker] = {} \/ Of(durable, speaker) \subseteq audio[speaker]

\* A process that is going to use the manifest m knows of all durable segments; a recovery
\* that goes on to its audit entry has them in the assets, and what is being removed is there
\* or was discarded.
KeepsAudio(o, l, m) ==
    /\ l \in Writes \cup {"materialize", "import"} => durable \subseteq m.segs
    /\ o \in {"recover", "finalize"} /\ l \in {"endCall"} \cup Late => Whole
    /\ l \in Removing => o \in {"recover", "finalize"} \/ Discarded

Audio ==
    /\ durable = sinkSegs
    /\ phase \in {"before", "creating"} => durable = {}
    /\ phase \notin {"finalizing", "over"} => wavs = NoAudio /\ assets = NoAudio
    /\ disk # None => durable \subseteq disk.segs
    /\ AllOrNone(wavs) /\ AllOrNone(assets)
    /\ \A p \in Procs : KeepsAudio(op[p], pc[p], seen[p])
    /\ NoAudioLost

\* What a step of p has to show.
AudioWell(p) ==
    /\ KeepsAudio(op[p], pc[p], seen[p])'
    /\ disk' # None => durable \subseteq disk'.segs
    /\ AllOrNone(wavs') /\ AllOrNone(assets')
    /\ phase \notin {"finalizing", "over"} => wavs' = NoAudio /\ assets' = NoAudio
    /\ Whole => Whole'
    /\ log \subseteq log'
    /\ NoAudioLost'

LEMMA AudioWellIsGood ==
    ASSUME Control, Audio, NEW p \in Procs, Step(p), AudioWell(p)
    PROVE  Audio'
<1>1. UNCHANGED <<durable, sinkSegs, phase>>
  BY StepFrame DEF sinkVars, sessionVars
<1>2. ASSUME NEW q \in Procs PROVE KeepsAudio(op[q], pc[q], seen[q])'
  <2>1. CASE q = p
    BY <2>1 DEF AudioWell
  <2>2. CASE q # p
    <3>1. op'[q] = op[q] /\ pc'[q] = pc[q] /\ seen'[q] = seen[q]
      BY <2>2, StepFrame
    <3>2. KeepsAudio(op[q], pc[q], seen[q]) /\ (Whole => Whole') /\ (Discarded => Discarded')
      BY DEF Audio, AudioWell, Discarded
    <3>3. QED BY <1>1, <3>1, <3>2 DEF KeepsAudio
  <2>3. QED BY <2>1, <2>2
<1>3. AllOrNone(wavs)' /\ AllOrNone(assets)'
  BY <1>1 DEF AudioWell, AllOrNone
<1>4. QED BY <1>1, <1>2, <1>3 DEF Audio, AudioWell

\* What the step makes of the operation.
LEMMA NowOp ==
    ASSUME TypeOK, NEW p \in Procs
    PROVE  /\ \A l : Goto(p, l) => op'[p] = op[p]
           /\ \A l, m : Hold(p, m, l) => op'[p] = op[p]
           /\ Replayed(p) => pc'[p] \in {"idle", "stage"} \/ (pc'[p] = "audit" /\ op'[p] = op[p])
<1>1. /\ \A l : Goto(p, l) => op'[p] = op[p]
      /\ \A l, m : Hold(p, m, l) => op'[p] = op[p]
  BY DEF Goto, Hold
<1>2. Replayed(p) => Goto(p, "audit") \/ Goto(p, "stage") \/ Finish(p)
  BY DEF Replayed, Removes
<1>3. QED BY <1>1, <1>2, Now

\* At these labels nothing is used or removed.
LEMMA NothingHeld ==
    ASSUME NEW p, pc'[p] \in {"idle", "mark", "partial", "reset", "stage"}
    PROVE  KeepsAudio(op[p], pc[p], seen[p])'
  BY DEF KeepsAudio, Writes, Replaying, Removing, Late

\* Only the records besides the assets change.
LEMMA AudioSame ==
    ASSUME Control, Audio, NEW p \in Procs, Step(p), KeepsAudio(op[p], pc[p], seen[p])',
           UNCHANGED <<disk, wavs, assets>>, log \subseteq log'
    PROVE  AudioWell(p)
<1>1. UNCHANGED <<durable, sink>>
  BY StepFrame DEF sinkVars
<1>2. Whole => Whole'
  BY <1>1 DEF Whole
<1>3. NoAudioLost'
  BY <1>1 DEF Audio, NoAudioLost, Removed
<1>4. QED BY <1>2, <1>3 DEF Audio, AudioWell, AllOrNone

LEMMA ReadAudio ==
    ASSUME Control, Audio, NEW p \in Procs,
           ReadState(p) \/ Stage(p) \/ Replay(p) \/ Complete(p)
    PROVE  AudioWell(p)
<1>0. /\ TypeOK /\ KeepsAudio(op[p], pc[p], seen[p]) /\ (disk # None => durable \subseteq disk.segs)
      /\ GoodProc(p, op[p], pc[p], seen[p])
  BY DEF Control, Audio
<1>1. UNCHANGED <<disk, wavs, assets, log, durable>> /\ Step(p)
  BY DEF ReadState, Stage, Replay, Complete, OnlyManifest, recordVars, sinkVars, Step
<1>2. SUFFICES KeepsAudio(op[p], pc[p], seen[p])'
  BY <1>1, AudioSame
<1>3. Whole => Whole'
  BY <1>1 DEF Whole
<1>4. \/ pc'[p] \in {"idle", "reset", "stage"}
      \/ /\ pc'[p] \in {"markWrite", "partialWrite", "resetWrite", "stageWrite"}
         /\ seen'[p] = disk /\ disk # None
      \/ pc'[p] = "append" /\ pc[p] = "replay" /\ op'[p] = op[p]
      \/ pc'[p] = "audit" /\ pc[p] \in {"replay", "complete"} /\ op'[p] = op[p]
      \/ /\ pc'[p] = "completeWrite" /\ pc[p] = "complete" /\ op'[p] = op[p]
         /\ seen'[p] = disk /\ disk # None
  <2>1. CASE ReadState(p)
    BY <1>0, <2>1, Now DEF ReadState, FailsIf, Found
  <2>2. CASE Stage(p)
    BY <1>0, <2>2, Now DEF Stage, FailsIf, Found
  <2>3. CASE Replay(p)
    BY <1>0, <2>3, Now, NowOp DEF Replay, FailsIf, Found, Pending
  <2>4. CASE Complete(p)
    BY <1>0, <2>4, Now, NowOp DEF Complete, FailsIf, Found, Pending, GoodProc, Replaying
  <2>5. QED BY <2>1, <2>2, <2>3, <2>4
<1>5. CASE pc'[p] \in {"idle", "reset", "stage"}
  BY <1>5, NothingHeld
<1>6. CASE /\ pc'[p] \in {"markWrite", "partialWrite", "resetWrite", "stageWrite"}
           /\ seen'[p] = disk /\ disk # None
  BY <1>0, <1>1, <1>6 DEF KeepsAudio, Replaying, Removing, Late
<1>7. CASE /\ pc'[p] \in {"append", "audit"} /\ pc[p] \in {"replay", "complete"}
           /\ op'[p] = op[p]
  BY <1>0, <1>3, <1>7 DEF KeepsAudio, Writes, Replaying, Removing, Late
<1>8. CASE /\ pc'[p] = "completeWrite" /\ pc[p] = "complete" /\ op'[p] = op[p]
           /\ seen'[p] = disk /\ disk # None
  BY <1>0, <1>1, <1>3, <1>8 DEF KeepsAudio, Writes, Replaying, Removing, Late
<1>9. QED BY <1>4, <1>5, <1>6, <1>7, <1>8

LEMMA WriteAudio ==
    ASSUME Control, Audio, NEW p \in Procs, SetState(p) \/ CompleteWrite(p) \/ StageWrite(p)
    PROVE  AudioWell(p)
<1>0. /\ TypeOK /\ KeepsAudio(op[p], pc[p], seen[p]) /\ (disk # None => durable \subseteq disk.segs)
      /\ seen[p] \in Manifest /\ pc \in [Procs -> Labels] /\ op \in [Procs -> Operations]
      /\ GoodProc(p, op[p], pc[p], seen[p])
  BY Typing DEF Control, Audio, TypeOK
<1>1. /\ UNCHANGED <<wavs, assets, log, durable, sink>> /\ Step(p)
      /\ pc[p] \in Writes
  BY DEF SetState, CompleteWrite, StageWrite, OnlyManifest, recordVars, sinkVars, Step, Writes
<1>2. PICK m \in Manifest :
        /\ m.segs = seen[p].segs /\ disk' \in {disk, m}
        /\ \/ pc'[p] \in {"idle", "reset", "stage"}
           \/ pc'[p] = "materialize" /\ seen'[p] = m
           \/ pc'[p] = "audit" /\ op'[p] = op[p] /\ pc[p] = "completeWrite"
           \/ pc'[p] = "replay" /\ op'[p] = "staged"
  <2>0. \A m : WriteFails(p, m) => Fail(p)
    BY DEF WriteFails
  <2>1. CASE SetState(p)
    <3>1. PICK state, m :
            /\ state \in {"recovering", "partial", "recoverable"}
            /\ m = [seen[p] EXCEPT !.state = state]
            /\ Write(m) \/ WriteFails(p, m)
            /\ \/ WriteFails(p, m)
               \/ Hold(p, m, "materialize") \/ Goto(p, "reset") \/ Finish(p)
      BY <2>1 DEF SetState
    <3>2. m \in Manifest /\ m.segs = seen[p].segs
      BY <1>0, <3>1 DEF Manifest
    <3>3. disk' \in {disk, m}
      BY <1>0, <3>1, <3>2, Manifests
    <3>4. pc'[p] \in {"idle", "reset"} \/ (pc'[p] = "materialize" /\ seen'[p] = m)
      BY <1>0, <2>0, <3>1, Now
    <3>5. QED BY <3>2, <3>3, <3>4
  <2>2. CASE CompleteWrite(p)
    <3>1. PICK m : m = [seen[p] EXCEPT !.pending = 0]
      OBVIOUS
    <3>2. m \in Manifest /\ m.segs = seen[p].segs
      BY <1>0, <3>1, CheckpointAssumption DEF Manifest, Changes
    <3>3. (Write(m) /\ Replayed(p)) \/ WriteFails(p, m)
      BY <2>2, <3>1 DEF CompleteWrite
    <3>4. disk' \in {disk, m} /\ pc[p] = "completeWrite"
      BY <1>0, <2>2, <3>2, <3>3, Manifests DEF CompleteWrite
    <3>5. Replayed(p) \/ Fail(p)
      BY <2>0, <3>3
    <3>6. QED BY <1>0, <3>2, <3>4, <3>5, Now, NowOp
  <2>3. CASE StageWrite(p)
    <3>1. PICK m : m = [seen[p] EXCEPT !.retention = changes + 1, !.pending = changes + 1]
      OBVIOUS
    <3>2. changes + 1 \in Changes
      BY <1>0, <2>3, CheckpointAssumption DEF StageWrite, GoodProc, TypeOK, Changes
    <3>3. m \in Manifest /\ m.segs = seen[p].segs
      BY <1>0, <3>1, <3>2 DEF Manifest
    <3>4. \/ /\ Write(m) /\ pc' = [pc EXCEPT ![p] = "replay"]
             /\ op' = [op EXCEPT ![p] = "staged"]
          \/ WriteFails(p, m)
      BY <2>3, <3>1 DEF StageWrite
    <3>5. disk' \in {disk, m}
      BY <1>0, <3>3, <3>4, Manifests
    <3>6. pc'[p] \in {"idle", "reset"} \/ (pc'[p] = "replay" /\ op'[p] = "staged")
      BY <1>0, <2>0, <3>4, Now
    <3>7. QED BY <3>3, <3>5, <3>6
  <2>4. QED BY <2>1, <2>2, <2>3
<1>3. durable \subseteq seen[p].segs
  BY <1>0, <1>1 DEF KeepsAudio
<1>4. disk' # None => durable \subseteq disk'.segs
  BY <1>0, <1>2, <1>3
<1>5. Whole => Whole'
  BY <1>1 DEF Whole
<1>6. NoAudioLost'
  BY <1>1, <1>2, CheckpointAssumption DEF Audio, NoAudioLost, Removed
<1>7. KeepsAudio(op[p], pc[p], seen[p])'
  <2>1. CASE pc'[p] \in {"idle", "reset", "stage"}
    BY <2>1, NothingHeld
  <2>2. CASE pc'[p] = "materialize" /\ seen'[p] = m
    BY <1>1, <1>2, <1>3, <2>2 DEF KeepsAudio, Replaying, Removing, Late
  <2>3. CASE pc'[p] = "audit" /\ op'[p] = op[p] /\ pc[p] = "completeWrite"
    BY <1>0, <1>5, <2>3 DEF KeepsAudio, Writes, Replaying, Removing, Late
  <2>4. CASE pc'[p] = "replay" /\ op'[p] = "staged"
    BY <2>4 DEF KeepsAudio, Writes, Replaying, Removing, Late
  <2>5. QED BY <1>2, <2>1, <2>2, <2>3, <2>4
<1>8. QED BY <1>1, <1>4, <1>5, <1>6, <1>7 DEF AudioWell, Audio, AllOrNone

\* Only a recovery or the end of the recording deals with audio files.
LEMMA AudioIsLate ==
    ASSUME Control, Phases, Retention, Calm, NEW p \in Procs, Materialize(p) \/ Import(p)
    PROVE  phase \in {"finalizing", "over"} /\ op[p] \in {"recover", "finalize"}
<1>1. op[p] \in {"recover", "finalize"}
  BY DEF Control, GoodProc, Materialize, Import, Marked
<1>2. Step(p)
  BY DEF Step
<1>3. QED BY <1>1, <1>2, EarlyStep

LEMMA MaterializeAudio ==
    ASSUME Control, Phases, Retention, Calm, Audio, NEW p \in Procs, Materialize(p)
    PROVE  AudioWell(p)
<1>0. TypeOK /\ KeepsAudio(op[p], pc[p], seen[p])
  BY DEF Control, Audio
<1>1. UNCHANGED <<disk, assets, log, durable, sink>> /\ pc[p] = "materialize"
  BY DEF Materialize, recordVars, sinkVars
<1>2. durable \subseteq seen[p].segs
  BY <1>0, <1>1 DEF KeepsAudio
<1>3. wavs' \in {wavs, NoAudio} \/ wavs' = [speaker \in Speakers |-> Of(seen[p].segs, speaker)]
  BY DEF Materialize
<1>4. AllOrNone(wavs')
  BY <1>2, <1>3 DEF Audio, AllOrNone, NoAudio, Of
<1>5. pc'[p] \in {"idle", "reset", "partial"} \/ (pc'[p] = "import" /\ seen'[p] = seen[p])
  BY <1>0, Now DEF Materialize, FailsIf, FailsUntried
<1>6. KeepsAudio(op[p], pc[p], seen[p])'
  <2>1. CASE pc'[p] \in {"idle", "reset", "partial"}
    BY <2>1, NothingHeld
  <2>2. CASE pc'[p] = "import" /\ seen'[p] = seen[p]
    BY <1>1, <1>2, <2>2 DEF KeepsAudio, Replaying, Removing, Late
  <2>3. QED BY <1>5, <2>1, <2>2
<1>7. (Whole => Whole') /\ NoAudioLost'
  BY <1>1 DEF Whole, Audio, NoAudioLost, Removed
<1>8. QED BY <1>1, <1>4, <1>6, <1>7, AudioIsLate DEF AudioWell, Audio, AllOrNone

LEMMA ImportAudio ==
    ASSUME Control, Phases, Retention, Calm, Audio, NEW p \in Procs, Import(p)
    PROVE  AudioWell(p)
<1>0. /\ TypeOK /\ KeepsAudio(op[p], pc[p], seen[p]) /\ assets \in [Speakers -> SUBSET Segments]
      /\ durable \subseteq Segments
  BY DEF Control, Audio, TypeOK
<1>1. UNCHANGED <<disk, wavs, log, durable, sink>> /\ pc[p] = "import"
  BY DEF Import, OnlyRecords, fileVars, sinkVars
<1>2. durable \subseteq seen[p].segs
  BY <1>0, <1>1 DEF KeepsAudio
<1>3. \/ UNCHANGED assets
      \/ \E speaker \in Speakers : /\ assets[speaker] = {} /\ wavs[speaker] # {}
                                   /\ assets' = [assets EXCEPT ![speaker] = wavs[speaker]]
  BY DEF Import
<1>4. AllOrNone(assets')
  BY <1>0, <1>3 DEF Audio, AllOrNone
<1>5. ASSUME Whole PROVE Whole'
  <2>1. ASSUME NEW s \in durable PROVE s \in assets'[s[1]]
    <3>1. s \in assets[s[1]] /\ s[1] \in Speakers
      BY <1>0, <1>5, CheckpointAssumption DEF Whole
    <3>2. QED BY <1>0, <1>3, <3>1
  <2>2. QED BY <1>1, <2>1 DEF Whole
<1>6. KeepsAudio(op[p], pc[p], seen[p])'
  <2>1. CASE UNCHANGED procVars
    BY <1>0, <1>1, <1>2, <2>1 DEF KeepsAudio, procVars, Replaying, Removing, Late
  <2>2. CASE Fail(p)
    BY <1>0, <2>2, Now, NothingHeld
  <2>3. CASE /\ Goto(p, "endCall") /\ UNCHANGED assets
             /\ \A speaker \in Speakers : Of(seen[p].segs, speaker) = {} \/ assets[speaker] # {}
    <3>1. ASSUME NEW s \in durable PROVE s \in assets[s[1]]
      <4>1. s[1] \in Speakers /\ s \in Of(durable, s[1]) /\ s \in Of(seen[p].segs, s[1])
        BY <1>0, <1>2, CheckpointAssumption DEF Of
      <4>2. assets[s[1]] # {}
        BY <2>3, <4>1
      <4>3. QED BY <4>1, <4>2 DEF Audio, AllOrNone
    <3>2. Whole'
      BY <1>1, <2>3, <3>1 DEF Whole
    <3>3. pc'[p] = "endCall"
      BY <1>0, <2>3, Now
    <3>4. QED BY <3>2, <3>3 DEF KeepsAudio, Writes, Replaying, Removing
  <2>4. QED BY <2>1, <2>2, <2>3 DEF Import, FailsIf
<1>7. NoAudioLost'
  <2>1. Audio => NoAudioLost
    BY DEF Audio
  <2>2. QED BY <1>1, <1>5, <2>1 DEF NoAudioLost, Removed, Whole
<1>8. AllOrNone(wavs')
  BY <1>1 DEF Audio, AllOrNone
<1>9. QED BY <1>1, <1>4, <1>5, <1>6, <1>7, <1>8, AudioIsLate DEF AudioWell, Audio

LEMMA RecordAudio ==
    ASSUME Control, Audio, NEW p \in Procs,
           EndCall(p) \/ AppendPending(p) \/ Audit(p) \/ AuditExpired(p)
    PROVE  AudioWell(p)
<1>0. /\ TypeOK /\ KeepsAudio(op[p], pc[p], seen[p]) /\ GoodProc(p, op[p], pc[p], seen[p])
  BY DEF Control, Audio
<1>1. UNCHANGED <<disk, wavs, assets, durable>> /\ log \subseteq log' /\ Step(p)
  BY DEF EndCall, AppendPending, Audit, AuditExpired, OnlyRecords, fileVars, sinkVars, Step
<1>2. (Whole => Whole') /\ (Discarded => Discarded')
  BY <1>1 DEF Whole, Discarded
<1>3. CASE Fail(p)
  BY <1>0, <1>1, <1>3, Now, NothingHeld, AudioSame
<1>4. CASE EndCall(p) /\ ~Fail(p)
  <2>1. pc[p] = "endCall" /\ pc'[p] = "replay" /\ op'[p] = op[p]
    BY <1>0, <1>4, Now, NowOp DEF EndCall
  <2>2. KeepsAudio(op[p], pc[p], seen[p])'
    BY <1>0, <1>2, <2>1 DEF KeepsAudio, Writes, Replaying, Removing, Late
  <2>3. QED BY <1>1, <2>2, AudioSame
<1>5. CASE AppendPending(p) /\ ~Fail(p)
  <2>1. pc[p] = "append" /\ pc'[p] = "complete" /\ op'[p] = op[p]
    BY <1>0, <1>5, Now, NowOp DEF AppendPending
  <2>2. KeepsAudio(op[p], pc[p], seen[p])'
    BY <1>0, <1>2, <2>1 DEF KeepsAudio, Writes, Replaying, Removing, Late
  <2>3. QED BY <1>1, <2>2, AudioSame
<1>6. CASE (Audit(p) \/ AuditExpired(p)) /\ ~Fail(p)
  <2>1. pc[p] = "audit" /\ pc'[p] = "removeWavs" /\ op'[p] = op[p]
    BY <1>0, <1>6, Now, NowOp DEF Audit, AuditExpired
  <2>2. op[p] \in {"recover", "finalize"} \/ Discarded'
    <3>1. CASE Audit(p)
      BY <1>0, <1>6, <2>1, <3>1 DEF Audit, Entry, GoodProc, Removes, Discarded
    <3>2. CASE AuditExpired(p)
      BY <1>6, <3>2 DEF AuditExpired, Discarded
    <3>3. QED BY <1>6, <3>1, <3>2
  <2>3. KeepsAudio(op[p], pc[p], seen[p])'
    BY <1>0, <1>2, <2>1, <2>2 DEF KeepsAudio, Writes, Replaying, Removing, Late
  <2>4. QED BY <1>1, <2>3, AudioSame
<1>7. QED BY <1>3, <1>4, <1>5, <1>6

LEMMA RemoveAudio ==
    ASSUME Control, Audio, NEW p \in Procs, RemoveWavs(p) \/ Remove(p)
    PROVE  AudioWell(p)
<1>0. TypeOK /\ KeepsAudio(op[p], pc[p], seen[p])
  BY DEF Control, Audio
<1>1. /\ UNCHANGED <<assets, log, durable, sink>> /\ disk' \in {disk, None}
      /\ wavs' \in {wavs, NoAudio} /\ pc[p] \in Removing
      /\ disk' = disk \/ pc[p] = "remove"
  BY DEF RemoveWavs, Remove, recordVars, sinkVars, Removing
<1>2. (Whole => Whole') /\ (Discarded => Discarded')
  BY <1>1 DEF Whole, Discarded
<1>3. pc'[p] \in {"idle", "reset"} \/ (pc'[p] = "remove" /\ op'[p] = op[p])
  BY <1>0, Now, NowOp DEF RemoveWavs, Remove
<1>4. KeepsAudio(op[p], pc[p], seen[p])'
  <2>1. CASE pc'[p] \in {"idle", "reset"}
    BY <2>1, NothingHeld
  <2>2. CASE pc'[p] = "remove" /\ op'[p] = op[p]
    BY <1>0, <1>1, <1>2, <2>2 DEF KeepsAudio, Writes, Replaying, Removing, Late
  <2>3. QED BY <1>3, <2>1, <2>2
<1>5. NoAudioLost'
  <2>1. Whole \/ Discarded
    BY <1>0, <1>1 DEF KeepsAudio, Late
  <2>2. QED BY <1>1, <2>1 DEF NoAudioLost, Whole, Discarded
<1>6. AllOrNone(wavs') /\ AllOrNone(assets')
  BY <1>1 DEF Audio, AllOrNone, NoAudio
<1>7. QED BY <1>1, <1>2, <1>4, <1>5, <1>6 DEF AudioWell, Audio

\* Steps that leave the manifest and the audio alone, and begin operations at most.
LEMMA AudioFrame ==
    ASSUME Control, Audio, UNCHANGED <<disk, wavs, assets, log, durable, sinkSegs, sink>>,
           phase' \notin {"finalizing", "over"} => phase \notin {"finalizing", "over"},
           phase' \in {"before", "creating"} => phase \in {"before", "creating"},
           \A p \in Procs : \/ op'[p] = op[p] /\ pc'[p] = pc[p] /\ seen'[p] = seen[p]
                            \/ pc'[p] \in {"idle", "mark"}
                            \/ pc'[p] = "replay" /\ op'[p] \notin {"recover", "finalize"}
    PROVE  Audio'
<1>1. ASSUME NEW p \in Procs PROVE KeepsAudio(op[p], pc[p], seen[p])'
  <2>1. CASE op'[p] = op[p] /\ pc'[p] = pc[p] /\ seen'[p] = seen[p]
    <3>1. KeepsAudio(op[p], pc[p], seen[p]) /\ (Whole => Whole') /\ (Discarded => Discarded')
      BY DEF Audio, Whole, Discarded
    <3>2. QED BY <2>1, <3>1 DEF KeepsAudio
  <2>2. CASE pc'[p] \in {"idle", "mark"}
    BY <2>2, NothingHeld
  <2>3. CASE pc'[p] = "replay" /\ op'[p] \notin {"recover", "finalize"}
    BY <2>3 DEF KeepsAudio, Writes, Replaying, Removing, Late
  <2>4. QED BY <2>1, <2>2, <2>3
<1>2. NoAudioLost'
  BY DEF Audio, NoAudioLost, Removed
<1>3. QED BY <1>1, <1>2 DEF Audio, AllOrNone

\* The sink writes while nothing but the removal of an expired checkpoint may be under way.
LEMMA FlushAudio ==
    ASSUME Control, Phases, Calm, Audio, FlushManifest
    PROVE  Audio'
<1>0. /\ TypeOK /\ op \in [Procs -> Operations]
      /\ phase \in {"before", "creating", "starting", "recording", "draining", "finalizing", "over"}
  BY Typing DEF Control, TypeOK
<1>1. phase \in {"starting", "recording", "draining"}
  BY <1>0 DEF FlushManifest, Phases, Quiet
<1>2. /\ UNCHANGED <<wavs, assets, log, phase, op, pc, seen>>
      /\ \/ /\ disk' = SinkManifest(flushing) /\ sinkSegs' = sinkSegs \cup {flushing}
            /\ durable' = durable \cup {flushing}
         \/ disk' \in {disk, SinkManifest(flushing)} /\ UNCHANGED <<sinkSegs, durable>>
  BY DEF FlushManifest, recordVars, sessionVars, procVars
<1>3. SinkManifest(flushing).segs = durable \cup {flushing} /\ SinkManifest(flushing) # None
  <2>1. SinkManifest(flushing) \in Manifest
    BY <1>0, CheckpointAssumption DEF FlushManifest, SinkManifest, Fresh, Manifest, Changes, TypeOK
  <2>2. QED BY <2>1, CheckpointAssumption DEF SinkManifest, Fresh, Audio
<1>4. disk' # None => durable' \subseteq disk'.segs
  BY <1>2, <1>3 DEF Audio
<1>5. ASSUME NEW p \in Procs PROVE KeepsAudio(op[p], pc[p], seen[p])'
  <2>1. op[p] = "none" \/ (op[p] = "expire" /\ pc[p] \in {"replay", "audit"} \cup Removing)
    BY <1>1 DEF Phases, Calm, Procs
  <2>2. op[p] = "none" => pc[p] = "idle"
    BY DEF Control, GoodProc
  <2>3. pc[p] \in Removing => Discarded \/ op[p] \in {"recover", "finalize"}
    BY DEF Audio, KeepsAudio
  <2>4. QED BY <1>2, <2>1, <2>2, <2>3 DEF KeepsAudio, Discarded, Writes, Replaying, Removing, Late
<1>6. AllOrNone(wavs)' /\ AllOrNone(assets)'
  BY <1>1, <1>2 DEF Audio, AllOrNone, NoAudio
<1>7. NoAudioLost'
  <2>1. CASE disk' = None
    BY <1>2, <1>3, <2>1 DEF FlushManifest, Audio, NoAudioLost, Removed
  <2>2. CASE disk' # None
    BY <2>2 DEF NoAudioLost, Removed
  <2>3. QED BY <2>1, <2>2
<1>8. QED BY <1>1, <1>2, <1>4, <1>5, <1>6, <1>7 DEF Audio

LEMMA AudioStep ==
    ASSUME Control, Phases, Retention, Calm, Audio, [Next]_vars
    PROVE  Audio'
<1>0. TypeOK /\ op \in [Procs -> Operations] /\ pc \in [Procs -> Labels]
  BY Typing DEF Control
<1>1. ASSUME NEW p \in Procs, Step(p) PROVE Audio'
  <2>1. AudioWell(p)
    BY <1>1, ReadAudio, WriteAudio, MaterializeAudio, ImportAudio, RecordAudio, RemoveAudio DEF Step
  <2>2. QED BY <1>1, <2>1, AudioWellIsGood
<1>2. CASE BeginRecording
  <2>1. UNCHANGED <<wavs, assets, log, durable, sinkSegs, op, pc, seen>>
    BY <1>2 DEF BeginRecording, recordVars, procVars
  <2>2. durable = {} /\ wavs = NoAudio /\ assets = NoAudio /\ sink = "none" /\ disk = None
    BY <1>2 DEF BeginRecording, Audio, Phases
  <2>3. \/ disk' = None /\ sink' = "none"
        \/ disk' = Fresh
    BY <1>2, <2>2 DEF BeginRecording
  <2>4. \A p \in Procs : KeepsAudio(op[p], pc[p], seen[p])'
    BY <2>1 DEF Audio, KeepsAudio, Whole, Discarded
  <2>5. NoAudioLost'
    BY <2>3, FreshIsManifest DEF NoAudioLost, Removed
  <2>6. QED BY <2>1, <2>2, <2>3, <2>4, <2>5 DEF Audio, AllOrNone
<1>3. ASSUME NEW s \in Segments, Capture(s) \/ FlushFile(s) PROVE Audio'
  <2>1. UNCHANGED <<disk, wavs, assets, log, durable, sinkSegs, sink, phase, op, pc, seen>>
    BY <1>3 DEF Capture, FlushFile, recordVars, fileVars, sessionVars, procVars
  <2>2. QED BY <2>1, AudioFrame
<1>4. CASE FlushManifest
  BY <1>4, FlushAudio
<1>5. CASE StartSucceeds \/ SessionOver
  <2>1. /\ UNCHANGED <<disk, wavs, assets, log, durable, sinkSegs, sink, op, pc, seen>>
        /\ phase' \in {"recording", "over"} /\ phase \in {"starting", "finalizing"}
        /\ phase' = "recording" => phase = "starting"
    BY <1>5 DEF StartSucceeds, SessionOver, recordVars, fileVars, sinkVars, procVars
  <2>2. QED BY <2>1, AudioFrame
<1>6. CASE Stop
  <2>1. UNCHANGED <<disk, wavs, assets, log, durable, sinkSegs, op, pc, seen>>
    BY <1>6 DEF Stop, recordVars, fileVars, procVars
  <2>2. phase \in {"starting", "recording"} /\ phase' = "draining" /\ sink # "none"
    BY <1>6 DEF Stop, Control
  <2>3. \A p \in Procs : KeepsAudio(op[p], pc[p], seen[p])'
    BY <2>1 DEF Audio, KeepsAudio, Whole, Discarded
  <2>4. NoAudioLost'
    BY <2>1, <2>2 DEF Audio, NoAudioLost, Removed
  <2>5. QED BY <2>1, <2>2, <2>3, <2>4 DEF Audio, AllOrNone
<1>7. CASE AfterDrain
  <2>1. /\ UNCHANGED <<disk, wavs, assets, log, durable, sinkSegs, sink>>
        /\ phase = "draining" /\ phase' = "finalizing"
        /\ \/ UNCHANGED <<op, pc, seen>>
           \/ Begin("session", "finalize", "mark") \/ Begin("session", "discardStart", "replay")
    BY <1>7 DEF AfterDrain, Drained, fileVars, sinkVars, procVars
  <2>2. \A p \in Procs : \/ op'[p] = op[p] /\ pc'[p] = pc[p] /\ seen'[p] = seen[p]
                         \/ pc'[p] = "mark"
                         \/ pc'[p] = "replay" /\ op'[p] \notin {"recover", "finalize"}
    BY <1>0, <2>1 DEF Begin
  <2>3. QED BY <2>1, <2>2, AudioFrame
<1>8. CASE Manager
  <2>1. UNCHANGED <<disk, wavs, assets, log, durable, sinkSegs, sink, phase>>
    BY <1>8 DEF Manager, BeginRecover, BeginDiscard, BeginRetain, BeginReplay, BeginExpire,
       OnlyBegins, recordVars, fileVars, sinkVars, sessionVars
  <2>2. PICK o, l : /\ Begin("manager", o, l)
                    /\ l = "mark" \/ (l = "replay" /\ o \notin {"recover", "finalize"})
    BY <1>8 DEF Manager, BeginRecover, BeginDiscard, BeginRetain, BeginReplay, BeginExpire, TakeLock
  <2>3. \A p \in Procs : \/ op'[p] = op[p] /\ pc'[p] = pc[p] /\ seen'[p] = seen[p]
                         \/ pc'[p] = "mark"
                         \/ pc'[p] = "replay" /\ op'[p] \notin {"recover", "finalize"}
    BY <1>0, <2>2 DEF Begin
  <2>4. QED BY <2>1, <2>3, AudioFrame
<1>9. CASE DeadlinePasses
  <2>1. UNCHANGED <<disk, wavs, assets, log, durable, sinkSegs, sink, phase, op, pc, seen>>
    BY <1>9 DEF DeadlinePasses, recordVars, fileVars, sinkVars, sessionVars, procVars
  <2>2. QED BY <2>1, AudioFrame
<1>10. CASE Restart
  <2>1. /\ UNCHANGED <<wavs, assets, log, durable, sinkSegs>> /\ phase' \in {"before", "over"}
        /\ phase' = "before" => phase = "before"
        /\ sink' # "none" => sink # "none"
        /\ disk' = disk \/ (disk' = None /\ \E p \in Procs : pc[p] = "remove")
        /\ \A p \in Procs : pc'[p] = "idle"
    BY <1>10 DEF Restart, recordVars
  <2>2. \A p \in Procs : KeepsAudio(op[p], pc[p], seen[p])'
    BY <2>1, NothingHeld
  <2>3. (\E p \in Procs : pc[p] = "remove") => Whole \/ Discarded
    BY DEF Audio, KeepsAudio, Removing, Late
  <2>4. NoAudioLost'
    <3>1. CASE disk' = disk
      BY <2>1, <3>1 DEF Audio, NoAudioLost, Removed
    <3>2. CASE \E p \in Procs : pc[p] = "remove"
      BY <2>1, <2>3, <3>2 DEF NoAudioLost, Whole, Discarded
    <3>3. QED BY <2>1, <3>1, <3>2
  <2>5. QED BY <2>1, <2>2, <2>4 DEF Audio, AllOrNone
<1>11. CASE UNCHANGED vars
  <2>1. UNCHANGED <<disk, wavs, assets, log, durable, sinkSegs, sink, phase, op, pc, seen>>
    BY <1>11 DEF vars, recordVars, fileVars, sinkVars, sessionVars, procVars
  <2>2. QED BY <2>1, AudioFrame
<1>12. QED BY <1>1, <1>2, <1>3, <1>4, <1>5, <1>6, <1>7, <1>8, <1>9, <1>10, <1>11
           DEF Next, Session

LEMMA InitAudio == Init => Calm /\ Audio
  BY DEF Init, Calm, Audio, KeepsAudio, AllOrNone, NoAudio, NoAudioLost, Removed, Procs, Writes,
         Replaying, Removing, Late

LEMMA AudioInductive ==
    ASSUME Races = {}
    PROVE  Spec => [](Calm /\ Audio)
<1>1. "retain" \notin Races
  OBVIOUS
<1>2. Control /\ Phases /\ Retention /\ Calm /\ Audio /\ [Next]_vars => (Calm /\ Audio)'
  BY CalmStep, AudioStep
<1>3. QED BY <1>1, <1>2, InitAudio, ControlInductive, PhasesInductive, RetentionInductive, PTL
          DEF Spec

\* Audio that reached the checkpoint is in the assets when the checkpoint is gone, unless it
\* was discarded or expired: as long as the checkpoint of a call is left alone while the call
\* is recorded.
THEOREM CheckpointedAudioIsKept ==
    ASSUME Races = {}
    PROVE  Spec => []NoAudioLost
<1>1. Audio => NoAudioLost
  BY DEF Audio
<1>2. QED BY <1>1, AudioInductive, PTL

\* Under the same condition no asset is cut short, and a call whose checkpoint was finalized
\* or recovered has ended.
THEOREM RecoveriesAreWhole ==
    ASSUME Races = {}
    PROVE  Spec => []RecoveryIsWhole
<1>1. ASSUME Control, Audio PROVE RecoveryIsWhole
  <2>1. ASSUME NEW s \in durable, assets[s[1]] # {} PROVE s \in assets[s[1]]
    <3>1. s[1] \in Speakers /\ s \in Of(durable, s[1])
      BY <1>1, CheckpointAssumption DEF Control, TypeOK, Of
    <3>2. QED BY <1>1, <2>1, <3>1 DEF Audio, AllOrNone
  <2>2. QED BY <1>1, <2>1 DEF RecoveryIsWhole, AssetIsWhole, Control
<1>2. QED BY <1>1, AudioInductive, ControlInductive, PTL
=============================================================================
