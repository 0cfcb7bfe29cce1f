---------------------------- MODULE AudioLibrary ----------------------------
(***************************************************************************)
(* The audio files of the desktop application: LocalAudioAssetStore, the   *)
(* handlers that import a file and run a speech-to-text job on it, and the *)
(* command `salestalk transcribe`, which does the same in a process of its *)
(* own over the same directory.                                            *)
(*                                                                         *)
(* local-audio-assets.json is one document: the wrapped master key and the *)
(* assets.  Each process keeps a copy of it (cache) and orders its own     *)
(* imports (mutationQueue); nothing orders two processes.  An operation is *)
(* a slot of op; the asset it imports carries an id of its own and belongs *)
(* to a call of its own, so the lookup by call and file name never hits    *)
(* (a repeated recovery, where it does, is in AudioCheckpoint).  A file    *)
(* has size one, measured before its import waits for its turn: that it    *)
(* does not grow until it is encrypted is taken for granted.  The calls,   *)
(* the jobs and the transcripts the handlers write are in RecordingSession *)
(* and SttJobs.                                                            *)
(***************************************************************************)
EXTENDS Undefined, Naturals, FiniteSets

CONSTANTS
    Slots,       \* operations at the same time
    Assets,      \* ids of assets; a master key carries the id it was made for
    Legacy,      \* those without encryption metadata: their file is where the user had it
    Gui,         \* the process of the application
    MaxBytes,    \* maxStorageBytes, less what the related directories hold
    MaxStarted,  \* bound: operations started
    MaxCrashes   \* bound: processes that die

ASSUME LibraryAssumption ==
    /\ IsFiniteSet(Slots) /\ IsFiniteSet(Assets) /\ Legacy \subseteq Assets
    /\ Gui \notin Slots
    /\ None \notin Assets \cup Slots
    /\ MaxBytes \in Nat /\ MaxStarted \in Nat /\ MaxCrashes \in Nat

VARIABLES
    index,      \* local-audio-assets.json
    stored,     \* the encrypted files: the key each was written under, and who wrote it
    plaintext,  \* the readable copies in .tmp
    cache,      \* per process: the store's cache
    holder,     \* per process: the import whose turn it is in the mutationQueue
    op,         \* the operations
    audited,    \* subjects of call.audio_imported entries
    started,    \* counters, for the bounds
    crashes

libraryVars == <<index, stored, plaintext, cache, holder, op, audited, started, crashes>>

Processes == Slots \cup {Gui}
Absent == [saved |-> FALSE, key |-> None, assets |-> {}]
\* createDefaultAudioAssetData.
Default == [saved |-> TRUE, key |-> None, assets |-> {}]
\* A document from before the files were encrypted.
Earlier == [saved |-> TRUE, key |-> None, assets |-> Legacy]

Idle == [kind |-> "idle", step |-> "idle", asset |-> None, data |-> Absent]
ImportSteps == {"budget", "encrypt", "persist"}
At(o, step) == op[o].step = step
\* `salestalk --cli` starts a process for its command.
Process(o) == IF op[o].kind = "transcribe" THEN o ELSE Gui

LibraryInit ==
    /\ index \in {Absent, Default, Earlier}
    /\ stored = {} /\ plaintext = {}
    /\ cache = [p \in Processes |-> Absent]
    /\ holder = [p \in Processes |-> None]
    /\ op = [o \in Slots |-> Idle]
    /\ audited = {} /\ started = 0 /\ crashes = 0

\* An id that randomUUID may return: nothing carries it.
Fresh(a) ==
    /\ \A f \in stored : a # f.asset /\ a # f.key
    /\ \A o \in Slots : a # op[o].asset
    /\ a \notin index.assets \cup Legacy /\ a # index.key

Goto(o, step) == op' = [op EXCEPT ![o].step = step]
\* The operation has answered or thrown.  The process of a command exits with it.
Finished(o) ==
    /\ op' = [op EXCEPT ![o] = Idle]
    /\ cache' = [cache EXCEPT ![o] = Absent]
    /\ holder' = [p \in Processes |-> IF holder[p] = o THEN None ELSE holder[p]]

-----------------------------------------------------------------------------
(* Importing a file. *)

\* The user starts an operation in a free slot.
Start(o, new) ==
    /\ op[o] = Idle /\ started < MaxStarted
    /\ op' = [op EXCEPT ![o] = new]
    /\ started' = started + 1

\* The import of a file begins: it waits for its turn.
Begin(o, kind, a) ==
    /\ Fresh(a)
    /\ Start(o, [Idle EXCEPT !.kind = kind, !.step = "queued", !.asset = a])
    /\ UNCHANGED <<index, stored, plaintext, cache, holder, audited, crashes>>

\* A file was chosen in the window.  The button of "process" is disabled while one runs.
StartImport(o, kind, a) ==
    /\ kind = "process" => \A q \in Slots : op[q].kind # "process"
    /\ Begin(o, kind, a)

\* cmdTranscribe imports the file it was given.
StartCommand(o, a) == Begin(o, "transcribe", a)

\* Mutant: two imports of a process run at the same time.
EnterAtOnce(o) ==
    /\ At(o, "queued")
    /\ holder' = [holder EXCEPT ![Process(o)] = o]
    /\ Goto(o, "get")
    /\ UNCHANGED <<index, stored, plaintext, cache, audited, started, crashes>>
\* mutate: the import runs when the one before it has settled.
Enter(o) ==
    /\ At(o, "queued")
    /\ holder[Process(o)] = None
    /\ holder' = [holder EXCEPT ![Process(o)] = o]
    /\ Goto(o, "get")
    /\ UNCHANGED <<index, stored, plaintext, cache, audited, started, crashes>>

\* get without a cache: the file is read, and the cache is assigned a turn later.
ReadIndex(o) ==
    /\ op[o].step \in {"get", "find"}
    /\ ~cache[Process(o)].saved
    /\ op' = [op EXCEPT ![o].data = index,
                        ![o].step = IF @ = "get" THEN "getting" ELSE "finding"]
    /\ UNCHANGED <<index, stored, plaintext, cache, holder, audited, started, crashes>>

\* The file did not exist: the default is written over whatever is there by now.
KeepIndex(o) ==
    /\ op[o].step \in {"getting", "finding"}
    /\ LET data == IF op[o].data.saved THEN op[o].data ELSE Default
       IN  /\ index' = IF op[o].data.saved THEN index ELSE Default
           /\ cache' = [cache EXCEPT ![Process(o)] = data]
           /\ op' = [op EXCEPT ![o].data = data,
                               ![o].step = IF @ = "getting" THEN "budget" ELSE "open"]
    /\ UNCHANGED <<stored, plaintext, holder, audited, started, crashes>>

\* get with a cache.
UseCache(o) ==
    /\ op[o].step \in {"get", "find"}
    /\ cache[Process(o)].saved
    /\ op' = [op EXCEPT ![o].data = cache[Process(o)],
                        ![o].step = IF @ = "get" THEN "budget" ELSE "open"]
    /\ UNCHANGED <<index, stored, plaintext, cache, holder, audited, started, crashes>>

Young == {f \in plaintext : ~f.old}
\* cleanupStaleTempFiles: copies older than six hours go, leased or not, unless rm fails.
Swept == {kept \in SUBSET plaintext : Young \subseteq kept}

\* sumDirectoryFileBytes: the files in the directory, listed or not.
StoredBytes == Cardinality(stored)
\* Mutant: the size of the new file is not added.
FitsBefore == StoredBytes <= MaxBytes
\* assertStorageBudget.
Fits == StoredBytes + 1 <= MaxBytes
WithinBudget(o) ==
    /\ At(o, "budget") /\ Fits
    /\ plaintext' \in Swept
    /\ Goto(o, "encrypt")
    /\ UNCHANGED <<index, stored, cache, holder, audited, started, crashes>>
OverBudget(o) ==
    /\ At(o, "budget") /\ ~Fits
    /\ plaintext' \in Swept
    /\ Finished(o)
    /\ UNCHANGED <<index, stored, audited, started, crashes>>

\* Mutant: every import makes a key.
NewKey(data, a) == a
\* getOrCreateMasterKey.
KeyFor(data, a) == IF data.key = None THEN a ELSE data.key

File(o, key) == [asset |-> op[o].asset, key |-> key, command |-> Process(o) # Gui]
\* encryptFileToAsset: written under another name, synced, renamed.
Encrypt(o) ==
    /\ At(o, "encrypt")
    /\ stored' = stored \cup {File(o, KeyFor(op[o].data, op[o].asset))}
    /\ Goto(o, "persist")
    /\ UNCHANGED <<index, plaintext, cache, holder, audited, started, crashes>>

Listed(o) == [saved |-> TRUE,
              key |-> KeyFor(op[o].data, op[o].asset),
              assets |-> op[o].data.assets \cup {op[o].asset}]
\* persist, then the cache.  The document is the one get returned, plus this asset.
Persist(o) ==
    /\ At(o, "persist")
    /\ index' = Listed(o)
    /\ cache' = [cache EXCEPT ![Process(o)] = Listed(o)]
    /\ holder' = [holder EXCEPT ![Process(o)] = None]
    /\ Goto(o, "imported")
    /\ UNCHANGED <<stored, plaintext, audited, started, crashes>>
\* persist throws, before the rename or after it: the encrypted file stays.
PersistFails(o) ==
    /\ At(o, "persist")
    /\ index' \in {index, Listed(o)}
    /\ Finished(o)
    /\ UNCHANGED <<stored, plaintext, audited, started, crashes>>

\* The handler audits the import and answers; "process" goes on to create the job.
Audit(o) ==
    /\ At(o, "imported") /\ op[o].kind \in {"import", "process"}
    /\ audited' = audited \cup {op[o].asset}
    /\ IF op[o].kind = "import"
       THEN Finished(o)
       ELSE Goto(o, "find") /\ UNCHANGED <<cache, holder>>
    /\ UNCHANGED <<index, stored, plaintext, started, crashes>>
\* The dependencies of the command import without an audit entry.
CreateCommandJob(o) ==
    /\ At(o, "imported") /\ op[o].kind = "transcribe"
    /\ Goto(o, "find")
    /\ UNCHANGED <<index, stored, plaintext, cache, holder, audited, started, crashes>>

-----------------------------------------------------------------------------
(* Transcribing an asset. *)

\* The user runs a job that was created for an asset the application listed.
StartJob(o, a) ==
    /\ a \in IF cache[Gui].saved THEN cache[Gui].assets ELSE index.assets
    /\ Start(o, [Idle EXCEPT !.kind = "job", !.step = "find", !.asset = a])
    /\ UNCHANGED <<index, stored, plaintext, cache, holder, audited, crashes>>

\* Mutant: the copy of an earlier lease is not removed.
KeepLease(o) == plaintext
\* What the removal of the copy leaves.
Cleaned(o) == {f \in plaintext : f.owner # o \/ f.left}
\* rm fails, which is swallowed: nobody will remove the copy but the sweep.
Abandoned(o) == {IF f.owner = o THEN [f EXCEPT !.left = TRUE] ELSE f : f \in plaintext}
\* The temporary file of writeStreamAtomic, or the copy it became, is removed.
Discarded(o) == plaintext' \in {Cleaned(o), Abandoned(o)}

\* findAudioAsset does not find it.
NotFound(o) ==
    /\ At(o, "open") /\ op[o].asset \notin op[o].data.assets
    /\ Finished(o)
    /\ UNCHANGED <<index, stored, plaintext, audited, started, crashes>>

\* materializeReadableAsset reads the document again, from the cache.
Document(o) == cache[Process(o)]
\* It has encryption metadata for the asset.
Encrypted(o) == op[o].asset \in Document(o).assets \ Legacy

\* Without metadata the file is leased as it is, and giving it back does nothing.
LeasePlain(o) ==
    /\ At(o, "open") /\ op[o].asset \in op[o].data.assets /\ ~Encrypted(o)
    /\ Goto(o, "transcribe")
    /\ UNCHANGED <<index, stored, plaintext, cache, holder, audited, started, crashes>>
\* decryptAssetToFile begins to write what it decrypts.
Decrypt(o) ==
    /\ At(o, "open") /\ op[o].asset \in op[o].data.assets /\ Encrypted(o)
    /\ \E kept \in Swept :
          plaintext' = kept \cup {[owner |-> o, left |-> FALSE, old |-> FALSE]}
    /\ op' = [op EXCEPT ![o].data = Document(o), ![o].step = "decrypt"]
    /\ UNCHANGED <<index, stored, cache, holder, audited, started, crashes>>

\* The file decrypts under the key of the document.
Readable(data, a) ==
    /\ a \in data.assets /\ data.key # None
    /\ \E f \in stored : f.asset = a /\ f.key = data.key
\* The decrypted file is complete and authentic: the job leases it.
Materialize(o) ==
    /\ At(o, "decrypt") /\ Readable(op[o].data, op[o].asset)
    /\ Goto(o, "transcribe")
    /\ UNCHANGED <<index, stored, plaintext, cache, holder, audited, started, crashes>>
\* It is not, or a file operation fails.
DecryptFails(o) ==
    /\ At(o, "decrypt")
    /\ Discarded(o)
    /\ Finished(o)
    /\ UNCHANGED <<index, stored, audited, started, crashes>>

\* transcribeFile answers or throws, and the lease is cleaned up either way.
Transcribed(o) ==
    /\ At(o, "transcribe")
    /\ Discarded(o)
    /\ Finished(o)
    /\ UNCHANGED <<index, stored, audited, started, crashes>>

-----------------------------------------------------------------------------

\* A read, an encryption or the audit log throws.  A file that was being encrypted stays
\* under its temporary name if its removal fails.
StepFails(o) ==
    /\ op[o].step \in {"getting", "finding", "budget", "encrypt", "imported", "open"}
    /\ \/ UNCHANGED stored
       \/ At(o, "encrypt") /\ stored' = stored \cup {File(o, None)}
    /\ Finished(o)
    /\ UNCHANGED <<index, plaintext, audited, started, crashes>>

\* The process dies.  A copy it leased stays, and so may a file it was writing.
Crash(p) ==
    /\ crashes < MaxCrashes
    /\ LET lost == {o \in Slots : op[o] # Idle /\ Process(o) = p}
           torn == {File(o, None) : o \in {q \in lost : At(q, "encrypt")}}
       IN  /\ lost # {}
           /\ \E left \in SUBSET torn : stored' = stored \cup left
           /\ op' = [o \in Slots |-> IF o \in lost THEN Idle ELSE op[o]]
           /\ plaintext' =
                 {IF f.owner \in lost THEN [f EXCEPT !.left = TRUE] ELSE f : f \in plaintext}
    /\ cache' = [cache EXCEPT ![p] = Absent]
    /\ holder' = [holder EXCEPT ![p] = None]
    /\ crashes' = crashes + 1
    /\ UNCHANGED <<index, audited, started>>

\* Six hours pass.
SixHours ==
    /\ plaintext # {}
    /\ plaintext' = {[f EXCEPT !.old = TRUE] : f \in plaintext}
    /\ UNCHANGED <<index, stored, cache, holder, op, audited, started, crashes>>

ImportStep(o) ==
    \/ Enter(o) \/ WithinBudget(o) \/ OverBudget(o) \/ Encrypt(o)
    \/ Persist(o) \/ PersistFails(o) \/ Audit(o) \/ CreateCommandJob(o)
GetStep(o) == ReadIndex(o) \/ KeepIndex(o) \/ UseCache(o)
JobStep(o) ==
    \/ NotFound(o) \/ LeasePlain(o) \/ Decrypt(o) \/ Materialize(o) \/ DecryptFails(o)
    \/ Transcribed(o)

LibraryStep ==
    \/ \E o \in Slots, a \in Assets :
          \/ StartJob(o, a) \/ StartCommand(o, a)
          \/ \E kind \in {"import", "process"} : StartImport(o, kind, a)
    \/ \E o \in Slots : ImportStep(o) \/ GetStep(o) \/ JobStep(o) \/ StepFails(o)
    \/ SixHours

LibraryNext == LibraryStep \/ \E p \in Processes : Crash(p)

LibrarySpec == LibraryInit /\ [][LibraryNext]_libraryVars

-----------------------------------------------------------------------------
(* Properties. *)

\* Every asset the document on disk lists with its encryption metadata decrypts under the key
\* of that document, whatever fails or dies, with two processes and with two first reads at
\* the same time: the file is renamed before the document lists it, and a document always
\* replaces a whole one.
ListedIsReadable == \A a \in index.assets \ Legacy : Readable(index, a)

\* A decrypted copy in .tmp, complete or not, belongs to a job that is decrypting or
\* transcribing it; or its process died, or its removal failed, and that is marked (left).
PlaintextIsLeased ==
    \A f \in plaintext : f.left \/ At(f.owner, "decrypt") \/ At(f.owner, "transcribe")

AudioIsGuarded == ListedIsReadable /\ PlaintextIsLeased

\* The quota is checked inside the mutationQueue: the files the application wrote keep it,
\* however its imports interleave and fail; only a command in another process writes beyond
\* it, and a file that grows between its measurement and its turn.
StorageIsBounded == Cardinality({f \in stored : ~f.command}) <= MaxBytes

=============================================================================
