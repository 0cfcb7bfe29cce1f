------------------------ MODULE DesktopCloud_proofs ------------------------
(***************************************************************************)
(* The audio on the desktop stays guarded for every number of operations,  *)
(* assets, accounts, crashes and whatever the quota is: what the document  *)
(* lists decrypts under the key of the document, and a readable copy that  *)
(* no job is working on was left by a crash or a refused removal.          *)
(*                                                                         *)
(* Every copy of the document, on disk, in a cache or in the hands of an   *)
(* operation, may be old, and may have another key than the next one.  But *)
(* each is whole: it lists only files that were written under its own key. *)
(* Files are never removed, so a whole document stays whole, and a         *)
(* document that replaces another one does not need to know it.            *)
(*                                                                         *)
(* The quota is kept because the check and the write are one turn of the   *)
(* queue of their process.  The session only moves forward because a login *)
(* has the session for itself, and of the password changes of one session  *)
(* the Worker accepts one.                                                 *)
(***************************************************************************)
EXTENDS DesktopCloud, FiniteSetTheorems, TLAPS

Docs == [saved : BOOLEAN, key : Assets \cup {None}, assets : SUBSET Assets]
Files == [asset : Assets, key : Assets \cup {None}, command : BOOLEAN]
Copies == [owner : Slots, left : BOOLEAN, old : BOOLEAN]

ImportPath == {"queued", "get", "getting", "budget", "encrypt", "persist", "imported"}
JobPath == {"find", "finding", "open", "decrypt", "transcribe"}
\* The steps at which a job may have a readable copy.
CopySteps == {"decrypt", "transcribe"}
CloudPath == {"sent", "answered", "accepted", "refused", "url", "put", "poll", "count", "audit"}
CloudKinds == {"login", "redeem", "change", "logout", "status", "upload"}
LibraryKinds == {"idle", "import", "process", "transcribe", "job"}

Ops == [kind : CloudKinds \cup LibraryKinds,
        step : {"idle"} \cup ImportPath \cup JobPath \cup CloudPath,
        asset : Assets \cup {None},
        data : Docs]

Typed ==
    /\ index \in Docs
    /\ stored \subseteq Files
    /\ plaintext \subseteq Copies
    /\ cache \in [Processes -> Docs]
    /\ op \in [Slots -> Ops]

\* A document lists files that were written under its key, and assets that need none.
Whole(d) ==
    /\ d.key = None => d.assets \subseteq Legacy
    /\ \A a \in d.assets \ Legacy : \E f \in stored : f.asset = a /\ f.key = d.key

Documents ==
    /\ Whole(index)
    /\ \A p \in Processes : Whole(cache[p])
    /\ \A o \in Slots : Whole(op[o].data)

\* What an operation has in hand at its step.
Operations ==
    \A o \in Slots :
        /\ op[o].step \in ImportPath => op[o].asset \in Assets
        /\ op[o].step = "persist" =>
             \E f \in stored : /\ f.asset = op[o].asset
                               /\ f.key = KeyFor(op[o].data, op[o].asset)
        /\ op[o].kind \in CloudKinds => op[o].step \in CloudPath

GuardInv == Typed /\ Documents /\ Operations /\ PlaintextIsLeased

LEMMA InitGuard == DesktopInit => GuardInv
<1> SUFFICES ASSUME LibraryInit PROVE GuardInv
  BY DEF DesktopInit
<1>1. Absent \in Docs /\ Default \in Docs /\ Earlier \in Docs /\ Idle \in Ops
  BY LibraryAssumption DEF Docs, Ops, Absent, Default, Earlier, Idle, LibraryKinds
<1>2. Typed
  BY <1>1 DEF LibraryInit, Typed
<1>3. Whole(Absent) /\ Whole(Default) /\ Whole(Earlier)
  BY DEF Whole, Absent, Default, Earlier
<1>4. Documents
  BY <1>3 DEF LibraryInit, Documents, Idle
<1>5. Operations /\ PlaintextIsLeased
  BY DEF LibraryInit, Operations, PlaintextIsLeased, Idle, ImportPath, CloudKinds
<1>6. QED BY <1>2, <1>4, <1>5 DEF GuardInv

\* A document stays whole when files are added, for none is removed.
LEMMA FilesAreKept ==
    ASSUME GuardInv, stored \subseteq stored'
    PROVE  /\ \A d : Whole(d) => Whole(d)'
           /\ \A o \in Slots :
                 op[o].step = "persist" =>
                   \E f \in stored' : /\ f.asset = op[o].asset
                                      /\ f.key = KeyFor(op[o].data, op[o].asset)
  BY DEF Whole, GuardInv, Operations

\* One operation takes a step: every document it writes or keeps is whole, and each copy is
\* somebody else's, abandoned, or in use at its next step.
LEMMA OneStep ==
    ASSUME GuardInv, NEW o \in Slots, NEW new \in Ops,
           op' = [op EXCEPT ![o] = new],
           Whole(new.data),
           new.step \in ImportPath => new.asset \in Assets,
           new.step = "persist" =>
               \E f \in stored' : f.asset = new.asset /\ f.key = KeyFor(new.data, new.asset),
           new.kind \in CloudKinds => new.step \in CloudPath,
           NEW written \in Docs, Whole(written), index' \in {index, written},
           stored \subseteq stored', stored' \subseteq Files,
           plaintext' \subseteq Copies,
           \A f \in plaintext' : \/ f.left
                                 \/ f \in plaintext /\ f.owner # o
                                 \/ f.owner = o /\ new.step \in CopySteps,
           cache' \in [Processes -> Docs],
           \A p \in Processes : cache'[p] \in {cache[p], Absent, new.data, written}
    PROVE  GuardInv'
<1>1. op'[o] = new /\ \A q \in Slots \ {o} : op'[q] = op[q]
  BY DEF GuardInv, Typed
<1>2. Typed'
  BY DEF GuardInv, Typed
<1>3. Documents'
  <2>1. Whole(Absent)
    BY DEF Whole, Absent
  <2>2. /\ index' \in {index, written} /\ Whole(index)
        /\ \A p \in Processes : Whole(cache[p])
        /\ \A q \in Slots : Whole(op[q].data)
    BY DEF GuardInv, Documents
  <2>3. Whole(written) /\ Whole(new.data)
    OBVIOUS
  <2>4. Whole(index)'
    BY <2>2, <2>3 DEF Whole
  <2>5. \A p \in Processes : Whole(cache[p])'
    BY <2>1, <2>2, <2>3 DEF Whole
  <2>6. \A q \in Slots : Whole(op[q].data)'
    BY <1>1, <2>2, <2>3 DEF Whole
  <2>7. QED BY <2>4, <2>5, <2>6 DEF Documents
<1>4. Operations'
  BY <1>1, FilesAreKept DEF GuardInv, Operations, KeyFor
<1>5. PlaintextIsLeased'
  <2>1. SUFFICES ASSUME NEW f \in plaintext', ~f.left
                 PROVE  op'[f.owner].step \in CopySteps
    BY DEF PlaintextIsLeased, At, CopySteps
  <2>2. CASE f \in plaintext /\ f.owner # o
    BY <1>1, <2>1, <2>2 DEF GuardInv, Typed, Copies, PlaintextIsLeased, At, CopySteps
  <2>3. CASE f.owner = o /\ new.step \in CopySteps
    BY <1>1, <2>3
  <2>4. QED BY <2>1, <2>2, <2>3
<1>6. QED BY <1>2, <1>3, <1>4, <1>5 DEF GuardInv

\* An operation without a copy goes on to a step that has nothing in hand, or ends: the
\* document and the files are left alone, and at most its own cache is forgotten.
LEMMA QuietStep ==
    ASSUME GuardInv, NEW o \in Slots, NEW new \in Ops,
           op[o].step \notin CopySteps,
           op' = [op EXCEPT ![o] = new],
           Whole(new.data),
           new.step \in ImportPath => new.asset \in Assets,
           new.step # "persist",
           new.kind \in CloudKinds => new.step \in CloudPath,
           UNCHANGED <<index, stored>>,
           plaintext' \subseteq plaintext,
           cache' \in [Processes -> Docs],
           \A p \in Processes : cache'[p] \in {cache[p], Absent, new.data}
    PROVE  GuardInv'
<1>1. index \in Docs /\ Whole(index) /\ stored \subseteq Files /\ plaintext \subseteq Copies
  BY DEF GuardInv, Typed, Documents
<1>2. \A f \in plaintext' : f.left \/ (f \in plaintext /\ f.owner # o)
  BY DEF GuardInv, PlaintextIsLeased, At, CopySteps
<1>3. \A p \in Processes : cache'[p] \in {cache[p], Absent, new.data, index}
  OBVIOUS
<1>4. index' \in {index} /\ stored \subseteq stored' /\ stored' \subseteq Files
  BY <1>1
<1>5. plaintext' \subseteq Copies
  BY <1>1
<1>6. QED BY <1>1, <1>2, <1>3, <1>4, <1>5, OneStep

LEMMA IdleIsQuiet ==
    /\ Idle \in Ops /\ Absent \in Docs
    /\ Idle.kind \notin CloudKinds /\ Idle.step \notin ImportPath \cup {"persist"} \cup CopySteps
    /\ (GuardInv => Whole(Idle.data))
  BY DEF Idle, Ops, Docs, Absent, LibraryKinds, CloudKinds, ImportPath, CopySteps, Whole

\* An operation ends.  A file it was writing and a copy it had may be left behind.
LEMMA FinishedStep ==
    ASSUME GuardInv, NEW o \in Slots, Finished(o), index' = index,
           stored \subseteq stored', stored' \subseteq Files, plaintext' \subseteq Copies,
           \A f \in plaintext' : f.left \/ (f \in plaintext /\ f.owner # o)
    PROVE  GuardInv'
<1>1. op' = [op EXCEPT ![o] = Idle] /\ cache' = [cache EXCEPT ![o] = Absent]
  BY DEF Finished
<1>2. cache' \in [Processes -> Docs] /\ \A p \in Processes : cache'[p] \in {cache[p], Absent}
  BY <1>1, IdleIsQuiet DEF GuardInv, Typed, Processes
<1>3. index \in Docs /\ Whole(index)
  BY DEF GuardInv, Typed, Documents
<1>4. QED BY <1>1, <1>2, <1>3, IdleIsQuiet, OneStep

\* An operation without a copy has nothing to leave.
LEMMA NothingToLeave ==
    ASSUME GuardInv, NEW o \in Slots, op[o].step \notin CopySteps, plaintext' \subseteq plaintext
    PROVE  /\ stored \subseteq Files /\ plaintext' \subseteq Copies
           /\ \A f \in plaintext' : f.left \/ (f \in plaintext /\ f.owner # o)
  BY DEF GuardInv, Typed, PlaintextIsLeased, At, CopySteps

\* An operation goes on with what it has.
LEMMA GotoStep ==
    ASSUME GuardInv, NEW o \in Slots,
           NEW step \in (ImportPath \ {"persist"}) \cup JobPath \cup CloudPath,
           Goto(o, step), op[o].step \notin CopySteps,
           step \in ImportPath => op[o].step \in ImportPath,
           op[o].kind \in CloudKinds => step \in CloudPath,
           UNCHANGED <<index, stored, cache>>, plaintext' \subseteq plaintext
    PROVE  GuardInv'
<1> DEFINE new == [op[o] EXCEPT !.step = step]
<1>1. op[o] \in Ops /\ cache \in [Processes -> Docs]
  BY DEF GuardInv, Typed
<1>2. op' = [op EXCEPT ![o] = new]
  BY DEF Goto
<1>3. new \in Ops
  BY <1>1 DEF Ops
<1>4. new.data = op[o].data /\ new.step = step /\ new.asset = op[o].asset /\ new.kind = op[o].kind
  BY <1>1 DEF Ops
<1>5. /\ Whole(new.data)
      /\ new.step \in ImportPath => new.asset \in Assets
      /\ new.step # "persist"
      /\ new.kind \in CloudKinds => new.step \in CloudPath
  BY <1>4 DEF GuardInv, Documents, Operations, JobPath, CloudPath
<1> HIDE DEF new
<1>6. QED BY <1>1, <1>2, <1>3, <1>5, QuietStep

\* An operation begins.
LEMMA StartStep ==
    ASSUME GuardInv, NEW o \in Slots, NEW new \in Ops, Start(o, new), new.data = Absent,
           new.step \in ImportPath => new.asset \in Assets,
           new.step # "persist",
           new.kind \in CloudKinds => new.step \in CloudPath,
           UNCHANGED <<index, stored, plaintext, cache>>
    PROVE  GuardInv'
<1>1. Whole(new.data)
  BY DEF Whole, Absent
<1>2. op[o].step \notin CopySteps /\ op' = [op EXCEPT ![o] = new]
  BY DEF Start, Idle, CopySteps
<1>3. cache' \in [Processes -> Docs]
  BY DEF GuardInv, Typed
<1>4. QED BY <1>1, <1>2, <1>3, QuietStep

-----------------------------------------------------------------------------
(* The audio files. *)

\* The file of an operation that has an asset.
LEMMA FileIsTyped ==
    ASSUME NEW o \in Slots, op[o].asset \in Assets, NEW key \in Assets \cup {None}
    PROVE  File(o, key) \in Files /\ File(o, key).asset = op[o].asset /\ File(o, key).key = key
<1>1. (Process(o) # Gui) \in BOOLEAN
  OBVIOUS
<1>2. QED BY <1>1 DEF File, Files

\* The handlers that import a file.
LEMMA ImportGuard ==
    ASSUME GuardInv, NEW o \in Slots, ImportStep(o)
    PROVE  GuardInv'
<1> USE DEF At, ImportPath, JobPath, CloudPath, CopySteps
<1>0. /\ op[o] \in Ops
      /\ op[o].kind \in CloudKinds => op[o].step \in CloudPath
      /\ index \in Docs /\ Whole(index) /\ stored \subseteq Files
      /\ plaintext \subseteq Copies /\ cache \in [Processes -> Docs]
      /\ \A kept \in Swept : kept \subseteq plaintext
  BY DEF GuardInv, Typed, Operations, Documents, Swept
<1>1. CASE Enter(o)
  BY <1>0, <1>1, GotoStep DEF Enter
<1>2. CASE WithinBudget(o)
  BY <1>0, <1>2, GotoStep DEF WithinBudget
<1>3. CASE OverBudget(o)
  BY <1>0, <1>3, FinishedStep, NothingToLeave DEF OverBudget
<1>4. CASE Encrypt(o)
  <2> DEFINE new == [op[o] EXCEPT !.step = "persist"]
             file == File(o, KeyFor(op[o].data, op[o].asset))
  <2>1. /\ op' = [op EXCEPT ![o] = new] /\ stored' = stored \cup {file}
        /\ op[o].asset \in Assets /\ op[o].step = "encrypt"
        /\ op[o].kind \notin CloudKinds
        /\ UNCHANGED <<index, plaintext, cache>>
    BY <1>4, <1>0 DEF Encrypt, Goto, GuardInv, Operations
  <2>2. /\ new \in Ops /\ new.data = op[o].data /\ new.step = "persist"
        /\ new.asset = op[o].asset /\ new.kind = op[o].kind
    BY <1>0 DEF Ops
  <2>3. KeyFor(op[o].data, op[o].asset) \in Assets \cup {None}
    BY <1>0, <2>1 DEF KeyFor, Ops, Docs
  <2>4. /\ file \in Files /\ file.asset = new.asset
        /\ file.key = KeyFor(new.data, new.asset)
    BY <2>1, <2>2, <2>3, FileIsTyped
  <2>5. Whole(new.data)
    BY <2>2 DEF GuardInv, Documents
  <2>6. \A f \in plaintext' : f.left \/ (f \in plaintext /\ f.owner # o)
    BY <2>1, NothingToLeave
  <2> HIDE DEF new, file
  <2>7. QED BY <1>0, <2>1, <2>2, <2>4, <2>5, <2>6, OneStep
<1>5. ASSUME Persist(o) \/ PersistFails(o) PROVE GuardInv'
  <2>1. /\ op[o].step = "persist" /\ op[o].asset \in Assets /\ op[o].kind \notin CloudKinds
        /\ index' \in {index, Listed(o)}
        /\ UNCHANGED <<stored, plaintext>>
    BY <1>5, <1>0 DEF Persist, PersistFails, GuardInv, Operations
  <2>2. Listed(o) \in Docs
    BY <1>0, <2>1 DEF Listed, Docs, KeyFor, Ops
  <2>3. Whole(Listed(o))
    <3>1. /\ Whole(op[o].data)
          /\ \E f \in stored : /\ f.asset = op[o].asset
                                /\ f.key = KeyFor(op[o].data, op[o].asset)
      BY <2>1 DEF GuardInv, Documents, Operations
    <3>2. QED BY <3>1, <2>1, LibraryAssumption DEF Whole, Listed, KeyFor
  <2> DEFINE new == IF PersistFails(o) THEN Idle ELSE [op[o] EXCEPT !.step = "imported"]
  <2>4. /\ new \in Ops /\ new.kind \notin CloudKinds
        /\ new.step \in ImportPath => new.asset \in Assets
        /\ new.step # "persist" /\ Whole(new.data)
    BY <1>0, <2>1, IdleIsQuiet DEF Ops, GuardInv, Documents, Idle
  <2>5. op' = [op EXCEPT ![o] = new]
    BY <1>5 DEF Persist, PersistFails, Goto, Finished
  <2>6. /\ cache' \in [Processes -> Docs]
        /\ \A p \in Processes : cache'[p] \in {cache[p], Absent, Listed(o)}
    BY <1>0, <1>5, <2>2, IdleIsQuiet DEF Persist, PersistFails, Finished, Processes, Process
  <2>7. \A f \in plaintext' : f.left \/ (f \in plaintext /\ f.owner # o)
    BY <2>1, NothingToLeave
  <2> HIDE DEF new
  <2>8. QED BY <1>0, <2>1, <2>2, <2>3, <2>4, <2>5, <2>6, <2>7, OneStep
<1>6. CASE Audit(o)
  <2>1. CASE op[o].kind = "import"
    BY <1>0, <1>6, <2>1, FinishedStep, NothingToLeave DEF Audit
  <2>2. CASE op[o].kind = "process"
    BY <1>0, <1>6, <2>2, GotoStep DEF Audit, CloudKinds
  <2>3. QED BY <1>6, <2>1, <2>2 DEF Audit
<1>7. CASE CreateCommandJob(o)
  BY <1>0, <1>7, GotoStep DEF CreateCommandJob, CloudKinds
<1>8. QED
  BY <1>1, <1>2, <1>3, <1>4, <1>5, <1>6, <1>7 DEF ImportStep

\* The first read of the document in a process, and the later ones.
LEMMA GetGuard ==
    ASSUME GuardInv, NEW o \in Slots, GetStep(o)
    PROVE  GuardInv'
<1> USE DEF At, ImportPath, JobPath, CloudPath, CopySteps
<1>0. /\ op[o] \in Ops /\ index \in Docs /\ cache \in [Processes -> Docs]
      /\ op[o].step \in ImportPath => op[o].asset \in Assets
      /\ op[o].kind \in CloudKinds => op[o].step \in CloudPath
      /\ Process(o) \in Processes
      /\ stored \subseteq Files /\ plaintext \subseteq Copies
  BY DEF GuardInv, Typed, Operations, Process, Processes
<1>1. CASE ReadIndex(o)
  <2> DEFINE new == [op[o] EXCEPT !.data = index,
                                  !.step = IF op[o].step = "get" THEN "getting" ELSE "finding"]
  <2>1. /\ op' = [op EXCEPT ![o] = new] /\ op[o].step \in {"get", "find"}
        /\ UNCHANGED <<index, stored, plaintext, cache>>
    BY <1>1 DEF ReadIndex
  <2>2. /\ new \in Ops /\ Whole(new.data) /\ new.step # "persist"
        /\ new.step \in ImportPath => new.asset \in Assets
        /\ new.kind \in CloudKinds => new.step \in CloudPath
    BY <1>0, <2>1 DEF Ops, GuardInv, Documents
  <2> HIDE DEF new
  <2>3. QED BY <1>0, <2>1, <2>2, QuietStep
<1>2. CASE UseCache(o)
  <2> DEFINE new == [op[o] EXCEPT !.data = cache[Process(o)],
                                  !.step = IF op[o].step = "get" THEN "budget" ELSE "open"]
  <2>1. /\ op' = [op EXCEPT ![o] = new] /\ op[o].step \in {"get", "find"}
        /\ UNCHANGED <<index, stored, plaintext, cache>>
    BY <1>2 DEF UseCache
  <2>2. /\ new \in Ops /\ Whole(new.data) /\ new.step # "persist"
        /\ new.step \in ImportPath => new.asset \in Assets
        /\ new.kind \in CloudKinds => new.step \in CloudPath
    BY <1>0, <2>1 DEF Ops, GuardInv, Documents
  <2> HIDE DEF new
  <2>3. QED BY <1>0, <2>1, <2>2, QuietStep
<1>3. CASE KeepIndex(o)
  <2> DEFINE data == IF op[o].data.saved THEN op[o].data ELSE Default
             new == [op[o] EXCEPT !.data = data,
                                  !.step = IF op[o].step = "getting" THEN "budget" ELSE "open"]
  <2>1. /\ op' = [op EXCEPT ![o] = new] /\ op[o].step \in {"getting", "finding"}
        /\ index' \in {index, Default}
        /\ cache' = [cache EXCEPT ![Process(o)] = data]
        /\ UNCHANGED <<stored, plaintext>>
    BY <1>3 DEF KeepIndex
  <2>2. data \in Docs /\ Default \in Docs
    BY <1>0 DEF Docs, Default, Ops
  <2>3. Whole(data) /\ Whole(Default)
    BY DEF Whole, Default, GuardInv, Documents
  <2>4. /\ new \in Ops /\ new.data = data /\ new.step # "persist"
        /\ new.step \in ImportPath => new.asset \in Assets
        /\ new.kind \in CloudKinds => new.step \in CloudPath
    BY <1>0, <2>1, <2>2 DEF Ops
  <2>5. /\ cache' \in [Processes -> Docs]
        /\ \A p \in Processes : cache'[p] \in {cache[p], data}
    BY <1>0, <2>1, <2>2
  <2>6. \A f \in plaintext' : f.left \/ (f \in plaintext /\ f.owner # o)
    BY <2>1, NothingToLeave
  <2> HIDE DEF new, data
  <2>7. QED BY <1>0, <2>1, <2>2, <2>3, <2>4, <2>5, <2>6, OneStep
<1>4. QED BY <1>1, <1>2, <1>3 DEF GetStep

\* A job leases a readable copy and gives it back, or abandons it.
LEMMA JobGuard ==
    ASSUME GuardInv, NEW o \in Slots, JobStep(o) \/ StepFails(o)
    PROVE  GuardInv'
<1> USE DEF At, ImportPath, JobPath, CloudPath, CopySteps
<1>0. /\ op[o] \in Ops
      /\ op[o].kind \in CloudKinds => op[o].step \in CloudPath
      /\ Process(o) \in Processes /\ cache \in [Processes -> Docs]
      /\ stored \subseteq Files /\ plaintext \subseteq Copies
      /\ index \in Docs /\ Whole(index) /\ Whole(op[o].data) /\ Whole(Document(o))
      /\ \A f \in plaintext : f.left \/ op[f.owner].step \in CopySteps
  BY DEF GuardInv, Typed, Operations, Documents, Process, Processes, Document, PlaintextIsLeased
<1>1. CASE NotFound(o)
  BY <1>0, <1>1, FinishedStep, NothingToLeave DEF NotFound
<1>2. CASE LeasePlain(o)
  BY <1>0, <1>2, GotoStep DEF LeasePlain
<1>3. CASE Decrypt(o)
  <2> DEFINE new == [op[o] EXCEPT !.data = Document(o), !.step = "decrypt"]
             copy == [owner |-> o, left |-> FALSE, old |-> FALSE]
  <2>1. /\ op' = [op EXCEPT ![o] = new] /\ op[o].step = "open"
        /\ \E kept \in SUBSET plaintext : plaintext' = kept \cup {copy}
        /\ UNCHANGED <<index, stored, cache>>
    BY <1>3 DEF Decrypt, Swept
  <2>2. Document(o) \in Docs
    BY <1>0 DEF Document
  <2>3. /\ new \in Ops /\ new.data = Document(o) /\ new.step = "decrypt"
        /\ new.kind = op[o].kind /\ new.kind \notin CloudKinds
    BY <1>0, <2>1, <2>2 DEF Ops
  <2>4. copy \in Copies /\ copy.owner = o
    BY DEF Copies
  <2> HIDE DEF new, copy
  <2>5. \A f \in plaintext' : f.left \/ f \in plaintext \/ f.owner = o
    BY <1>0, <2>1, <2>4
  <2>6. plaintext' \subseteq Copies
    BY <1>0, <2>1, <2>4
  <2>7. /\ Whole(new.data) /\ new.step \notin ImportPath /\ new.step # "persist"
        /\ stored \subseteq stored' /\ stored' \subseteq Files /\ index' \in {index, index}
        /\ cache' \in [Processes -> Docs]
        /\ \A p \in Processes : cache'[p] \in {cache[p], Absent, new.data, index}
    BY <1>0, <2>1, <2>3
  <2>8. \A f \in plaintext' : \/ f.left
                              \/ f \in plaintext /\ f.owner # o
                              \/ f.owner = o /\ new.step \in CopySteps
    BY <2>3, <2>5
  <2>9. QED BY <1>0, <2>1, <2>3, <2>6, <2>7, <2>8, OneStep
<1>4. CASE Materialize(o)
  <2> DEFINE new == [op[o] EXCEPT !.step = "transcribe"]
  <2>1. /\ op' = [op EXCEPT ![o] = new] /\ op[o].step = "decrypt"
        /\ UNCHANGED <<index, stored, plaintext, cache>>
    BY <1>4 DEF Materialize, Goto
  <2>2. /\ new \in Ops /\ new.data = op[o].data /\ new.step = "transcribe"
        /\ new.kind = op[o].kind /\ new.kind \notin CloudKinds
    BY <1>0, <2>1 DEF Ops
  <2> HIDE DEF new
  <2>3. QED BY <1>0, <2>1, <2>2, OneStep
<1>5. ASSUME Discarded(o)
      PROVE  /\ plaintext' \subseteq Copies
             /\ \A f \in plaintext' : f.left \/ (f \in plaintext /\ f.owner # o)
  <2>1. CASE plaintext' = Cleaned(o)
    BY <1>0, <2>1 DEF Cleaned
  <2>2. CASE plaintext' = Abandoned(o)
    BY <1>0, <2>2 DEF Abandoned, Copies
  <2>3. QED BY <1>5, <2>1, <2>2 DEF Discarded
<1>6. CASE DecryptFails(o) \/ Transcribed(o)
  BY <1>0, <1>5, <1>6, FinishedStep DEF DecryptFails, Transcribed
<1>7. CASE StepFails(o)
  <2>1. /\ Finished(o) /\ op[o].step \notin CopySteps
        /\ UNCHANGED <<index, plaintext>>
        /\ \/ stored' = stored
           \/ op[o].step = "encrypt" /\ stored' = stored \cup {File(o, None)}
    BY <1>7 DEF StepFails
  <2>2. stored \subseteq stored' /\ stored' \subseteq Files
    <3>1. CASE op[o].step = "encrypt"
      <4>1. op[o].asset \in Assets
        BY <3>1 DEF GuardInv, Operations
      <4>2. QED BY <1>0, <2>1, <4>1, FileIsTyped
    <3>2. QED BY <1>0, <2>1, <3>1
  <2>3. QED BY <2>1, <2>2, FinishedStep, NothingToLeave
<1>8. QED BY <1>1, <1>2, <1>3, <1>4, <1>6, <1>7 DEF JobStep

\* Users and commands start operations.
LEMMA StartGuard ==
    ASSUME GuardInv, NEW o \in Slots, NEW a \in Assets,
           \/ StartJob(o, a) \/ StartCommand(o, a)
           \/ \E kind \in {"import", "process"} : StartImport(o, kind, a)
    PROVE  GuardInv'
<1> DEFINE new(kind, step) == [Idle EXCEPT !.kind = kind, !.step = step, !.asset = a]
<1>1. \A kind \in LibraryKinds : \A step \in {"queued", "find"} :
        /\ new(kind, step) \in Ops /\ new(kind, step).data = Absent
        /\ new(kind, step).asset = a /\ new(kind, step).step = step
        /\ new(kind, step).kind \notin CloudKinds
  BY DEF Idle, Ops, Docs, Absent, LibraryKinds, CloudKinds, ImportPath, JobPath
<1> HIDE DEF new
<1>2. \E kind \in LibraryKinds, step \in {"queued", "find"} :
        Start(o, new(kind, step)) /\ UNCHANGED <<index, stored, plaintext, cache>>
  BY DEF StartJob, StartCommand, StartImport, Begin, new, LibraryKinds
<1>3. QED BY <1>1, <1>2, StartStep

\* Time passes.
LEMMA TimeGuard ==
    ASSUME GuardInv, SixHours
    PROVE  GuardInv'
<1>1. /\ UNCHANGED <<index, stored, cache, op>>
      /\ plaintext' = {[f EXCEPT !.old = TRUE] : f \in plaintext}
  BY DEF SixHours
<1>2. Typed'
  BY <1>1 DEF GuardInv, Typed, Copies
<1>3. Documents' /\ Operations'
  BY <1>1 DEF GuardInv, Documents, Operations, Whole
<1>4. PlaintextIsLeased'
  BY <1>1 DEF GuardInv, PlaintextIsLeased, Typed, Copies, At
<1>5. QED BY <1>2, <1>3, <1>4 DEF GuardInv

\* A process dies.
LEMMA CrashGuard ==
    ASSUME GuardInv, NEW p \in Processes, Crash(p)
    PROVE  GuardInv'
<1> DEFINE lost == {o \in Slots : op[o] # Idle /\ Process(o) = p}
           torn == {File(o, None) : o \in {q \in lost : At(q, "encrypt")}}
<1>1. /\ op' = [o \in Slots |-> IF o \in lost THEN Idle ELSE op[o]]
      /\ cache' = [cache EXCEPT ![p] = Absent]
      /\ plaintext' = {IF f.owner \in lost THEN [f EXCEPT !.left = TRUE] ELSE f : f \in plaintext}
      /\ \E left \in SUBSET torn : stored' = stored \cup left
      /\ index' = index
  BY DEF Crash
<1>2. torn \subseteq Files
  <2> SUFFICES ASSUME NEW q \in Slots, op[q].step = "encrypt"
               PROVE  File(q, None) \in Files
    BY DEF torn, At
  <2>1. op[q].asset \in Assets
    BY DEF GuardInv, Operations, ImportPath
  <2>2. (Process(q) # Gui) \in BOOLEAN
    OBVIOUS
  <2>3. QED BY <2>1, <2>2 DEF File, Files
<1> HIDE DEF lost, torn
<1>3. Typed'
  BY <1>1, <1>2, IdleIsQuiet DEF GuardInv, Typed, Copies
<1>4. Documents'
  BY <1>1, IdleIsQuiet, FilesAreKept DEF GuardInv, Documents, Typed, Whole, Absent
<1>5. Operations'
  BY <1>1, IdleIsQuiet, FilesAreKept DEF GuardInv, Operations, Typed, KeyFor
<1>6. PlaintextIsLeased'
  BY <1>1 DEF GuardInv, PlaintextIsLeased, Typed, Copies, At
<1>7. QED BY <1>3, <1>4, <1>5, <1>6 DEF GuardInv

-----------------------------------------------------------------------------
(* The requests to the Worker. *)

\* An operation asks the Worker.
LEMMA AskGuard ==
    ASSUME GuardInv, NEW o \in Slots, NEW kind \in CloudKinds, NEW step \in CloudPath,
           NEW token, Ask(o, kind, step, token)
    PROVE  GuardInv'
<1> DEFINE new == [Idle EXCEPT !.kind = kind, !.step = step]
<1>1. /\ new \in Ops /\ new.data = Absent /\ new.step = step
      /\ step \notin ImportPath \cup {"persist"}
  BY DEF Idle, Ops, Docs, Absent, CloudKinds, CloudPath, ImportPath
<1>2. Start(o, new) /\ UNCHANGED <<index, stored, plaintext, cache>>
  BY DEF Ask
<1> HIDE DEF new
<1>3. QED BY <1>1, <1>2, StartStep

\* It goes on, or it is answered.
LEMMA CloudGuard ==
    ASSUME GuardInv, NEW o \in Slots, op[o].kind \in CloudKinds,
           \/ \E step \in CloudPath : Proceed(o, step)
           \/ Finished(o) /\ UNCHANGED <<index, stored, plaintext>>
    PROVE  GuardInv'
<1>1. op[o].step \notin CopySteps
  BY DEF GuardInv, Operations, CloudPath, CopySteps
<1>2. CASE \E step \in CloudPath : Proceed(o, step)
  BY <1>1, <1>2, GotoStep DEF Proceed, CloudPath, ImportPath
<1>3. CASE Finished(o) /\ UNCHANGED <<index, stored, plaintext>>
  BY <1>1, <1>3, FinishedStep, NothingToLeave
<1>4. QED BY <1>2, <1>3

LEMMA SessionGuard ==
    ASSUME GuardInv, NEW o \in Slots, SessionStep(o)
    PROVE  GuardInv'
<1> USE DEF CloudKinds, CloudPath, Asks
<1>1. CASE \E a \in Accounts, kind \in {"login", "redeem"} : StartLogin(o, kind, a)
  BY <1>1, AskGuard DEF StartLogin
<1>2. CASE StartChange(o) \/ StartLogout(o) \/ StartStatus(o)
  BY <1>2, AskGuard DEF StartChange, StartLogout, StartStatus
<1>3. CASE LoginServed(o) \/ RedeemServed(o) \/ ChangeServed(o)
  BY <1>3, CloudGuard DEF LoginServed, RedeemServed, ChangeServed, Hand
<1>4. CASE LogoutServed(o) \/ StatusServed(o)
  BY <1>4, CloudGuard DEF LogoutServed, StatusServed
<1>5. CASE AuthRefused(o) \/ SaveToken(o) \/ AuthFails(o) \/ ForgetToken(o) \/ ShowStatus(o)
  BY <1>5, CloudGuard
  DEF AuthRefused, SaveToken, AuthFails, ForgetToken, ShowStatus, Answer
<1>6. QED BY <1>1, <1>2, <1>3, <1>4, <1>5 DEF SessionStep

LEMMA UploadGuard ==
    ASSUME GuardInv, NEW o \in Slots, UploadStep(o)
    PROVE  GuardInv'
<1> USE DEF CloudKinds, CloudPath, Asks
<1>1. CASE StartUpload(o)
  BY <1>1, AskGuard DEF StartUpload
<1>2. CASE UploadUrl(o) \/ Waited(o) \/ Counted(o) \/ \E j \in Jobs : Put(o, j)
  BY <1>2, CloudGuard DEF UploadUrl, Waited, Counted, Put
<1>3. CASE AuditUpload(o) \/ UploadRefused(o) \/ UploadFails(o)
  BY <1>3, CloudGuard DEF AuditUpload, UploadRefused, UploadFails, Answer
<1>4. QED BY <1>1, <1>2, <1>3 DEF UploadStep

-----------------------------------------------------------------------------
LEMMA NextGuard == GuardInv /\ [DesktopNext]_desktopVars => GuardInv'
<1> SUFFICES ASSUME GuardInv, [DesktopNext]_desktopVars PROVE GuardInv'
  OBVIOUS
<1>1. CASE UNCHANGED libraryVars
  BY <1>1 DEF GuardInv, Typed, Documents, Operations, PlaintextIsLeased, Whole, At, libraryVars
<1>2. CASE LibraryStep
  BY <1>2, StartGuard, ImportGuard, GetGuard, JobGuard, TimeGuard DEF LibraryStep
<1>3. CASE \E p \in Processes : Crash(p)
  BY <1>3, CrashGuard
<1>4. CASE \E o \in Slots : SessionStep(o) \/ UploadStep(o)
  BY <1>4, SessionGuard, UploadGuard
<1>5. CASE NotConfigured \/ (\E a \in Accounts : Elsewhere(a)) \/ \E j \in Jobs : JobEnds(j)
  BY <1>1, <1>5 DEF NotConfigured, Elsewhere, JobEnds
<1>6. QED
  BY <1>1, <1>2, <1>3, <1>4, <1>5 DEF DesktopNext, desktopVars

\* What the document on disk lists with its encryption metadata decrypts under its key, and a
\* readable copy belongs to a job at work, or was left by a process that died or by a refused
\* removal (mutate, persist, getOrCreateMasterKey and materializeReadableAsset of
\* LocalAudioAssetStore, with the command in its own process).
THEOREM AudioStaysGuarded == DesktopSpec => []AudioIsGuarded
<1>1. GuardInv => AudioIsGuarded
  BY DEF GuardInv, Documents, Whole, AudioIsGuarded, ListedIsReadable, Readable
<1>2. QED BY <1>1, InitGuard, NextGuard, PTL DEF DesktopSpec

-----------------------------------------------------------------------------
(* The quota. *)

\* The steps of an import that holds the turn of its process.
TurnSteps == {"get", "getting", "budget", "encrypt", "persist"}
\* The files the application wrote.
Mine == {f \in stored : ~f.command}

\* Imports of one process take turns.
Turns ==
    /\ holder \in [Processes -> Slots \cup {None}]
    /\ \A o \in Slots : op[o].step \in TurnSteps => holder[Process(o)] = o

\* The quota is kept, with room for the file that the application is writing.
Budget ==
    /\ IsFiniteSet(stored)
    /\ Cardinality(Mine) <= MaxBytes
    /\ \A o \in Slots :
          op[o].step = "encrypt" /\ Process(o) = Gui => Cardinality(Mine) + 1 <= MaxBytes

\* The application's files are some of all files.
LEMMA MineIsFinite ==
    ASSUME IsFiniteSet(stored)
    PROVE  /\ IsFiniteSet(Mine) /\ Cardinality(Mine) \in Nat
           /\ Cardinality(Mine) <= Cardinality(stored) /\ Cardinality(stored) \in Nat
<1>1. Mine \in SUBSET stored
  BY DEF Mine
<1>2. QED BY <1>1, FS_Subset, FS_CardinalityType

\* One more file: it counts if the application wrote it.
LEMMA OneMore ==
    ASSUME IsFiniteSet(stored), NEW file, stored' = stored \cup {file}
    PROVE  /\ IsFiniteSet(stored')
           /\ file.command => Mine' = Mine
           /\ Cardinality(Mine') <= Cardinality(Mine) + 1
           /\ Cardinality(Mine) \in Nat /\ Cardinality(Mine') \in Nat
<1>1. IsFiniteSet(stored')
  BY FS_AddElement
<1>2. IsFiniteSet(Mine) /\ Cardinality(Mine) \in Nat
  BY MineIsFinite
<1>3. (file.command => Mine' = Mine) /\ (~file.command => Mine' = Mine \cup {file})
  BY DEF Mine
<1>4. /\ IsFiniteSet(Mine \cup {file})
      /\ Cardinality(Mine \cup {file}) = IF file \in Mine THEN Cardinality(Mine)
                                         ELSE Cardinality(Mine) + 1
  BY <1>2, FS_AddElement
<1>5. Cardinality(Mine \cup {file}) \in {Cardinality(Mine), Cardinality(Mine) + 1}
  BY <1>4
<1>6. \/ Mine' = Mine /\ Cardinality(Mine') = Cardinality(Mine)
      \/ Cardinality(Mine') \in {Cardinality(Mine), Cardinality(Mine) + 1}
  BY <1>3, <1>5
<1>7. Cardinality(Mine') <= Cardinality(Mine) + 1 /\ Cardinality(Mine') \in Nat
  BY <1>2, <1>6
<1>8. QED BY <1>1, <1>2, <1>3, <1>7

\* A file names who wrote it.
LEMMA WrittenBy ==
    ASSUME NEW o \in Slots, NEW key
    PROVE  File(o, key).command <=> Process(o) # Gui
  BY DEF File

\* Only one import of a process is past its turn.
LEMMA OneTurn ==
    ASSUME Turns, NEW o \in Slots, NEW q \in Slots, Process(o) = Process(q),
           op[o].step \in TurnSteps, op[q].step \in TurnSteps
    PROVE  o = q
  BY DEF Turns

\* The files are as they were, or the file of o is written, whole or not.
Writes(o) ==
    \/ stored' = stored
    \/ op[o].step = "encrypt" /\ \E key : stored' = stored \cup {File(o, key)}

\* An operation moves without a new turn, and with at most the file it had room for.
LEMMA MovesInTurn ==
    ASSUME Typed, Turns, Budget, NEW o \in Slots, NEW new \in Ops,
           op' = [op EXCEPT ![o] = new], Writes(o),
           \/ new.step \notin TurnSteps
           \/ op[o].step \in TurnSteps /\ new.kind = op[o].kind /\ holder' = holder,
           new.step = "encrypt" => op[o].step = "budget" /\ Fits,
           \/ holder' = holder
           \/ holder' = [p \in Processes |-> IF holder[p] = o THEN None ELSE holder[p]]
           \/ /\ holder' = [holder EXCEPT ![Process(o)] = None]
              /\ op[o].step \in TurnSteps /\ new.step \notin TurnSteps
    PROVE  Turns' /\ Budget'
<1>1. op'[o] = new /\ \A q \in Slots \ {o} : op'[q] = op[q] /\ Process(q)' = Process(q)
  BY DEF Typed, Process
<1>2. \A q \in Slots : Process(q) \in Processes
  BY DEF Process, Processes
<1>3. Turns'
  <2>1. holder' \in [Processes -> Slots \cup {None}]
    BY DEF Turns
  <2>2. ASSUME NEW q \in Slots, q # o, op'[q].step \in TurnSteps PROVE holder'[Process(q)'] = q
    <3>1. holder[Process(q)] = q /\ Process(q)' = Process(q)
      BY <1>1, <2>2 DEF Turns
    <3>2. op[o].step \in TurnSteps => Process(o) # Process(q)
      BY <1>1, <2>2, OneTurn
    <3>3. QED BY <1>2, <2>2, <3>1, <3>2 DEF Turns
  <2>3. op'[o].step \in TurnSteps => holder'[Process(o)'] = o
    BY <1>1 DEF Turns, Process
  <2>4. QED BY <2>1, <2>2, <2>3 DEF Turns
<1>4. CASE stored' = stored
  <2>1. Mine' = Mine
    BY <1>4 DEF Mine
  <2>2. new.step = "encrypt" => Cardinality(Mine) + 1 <= MaxBytes
    BY MineIsFinite, LibraryAssumption DEF Budget, Fits, StoredBytes
  <2>3. Budget'
    BY <1>1, <1>4, <2>1, <2>2 DEF Budget
  <2>4. QED BY <1>3, <2>3
<1>5. ASSUME op[o].step = "encrypt", NEW key, stored' = stored \cup {File(o, key)}
      PROVE  Turns' /\ Budget'
  <2>1. new.step # "encrypt"
    BY <1>5
  <2>2. IsFiniteSet(stored')
    BY <1>5, OneMore DEF Budget
  <2>3. ASSUME NEW q \in Slots, op'[q].step = "encrypt"
        PROVE  q # o /\ op[q].step = "encrypt" /\ Process(q)' = Process(q)
    BY <1>1, <2>1, <2>3
  <2>4. CASE Process(o) # Gui
    <3>1. Mine' = Mine
      BY <1>5, <2>4, OneMore, WrittenBy DEF Budget
    <3>2. QED BY <1>3, <2>2, <2>3, <3>1 DEF Budget
  <2>5. CASE Process(o) = Gui
    <3>1. /\ Cardinality(Mine') <= Cardinality(Mine) + 1
          /\ Cardinality(Mine) \in Nat /\ Cardinality(Mine') \in Nat
      BY <1>5, OneMore DEF Budget
    <3>2. Cardinality(Mine) + 1 <= MaxBytes
      BY <1>5, <2>5 DEF Budget
    <3>3. ASSUME NEW q \in Slots, op'[q].step = "encrypt", Process(q)' = Gui PROVE FALSE
      BY <1>5, <2>3, <2>5, <3>3, OneTurn DEF TurnSteps
    <3>4. QED BY <1>3, <2>2, <3>1, <3>2, <3>3, LibraryAssumption DEF Budget
  <2>6. QED BY <2>4, <2>5
<1>6. QED BY <1>4, <1>5 DEF Writes

\* An operation ends, and its turn with it.
LEMMA FinishedInTurn ==
    ASSUME Typed, Turns, Budget, NEW o \in Slots, Finished(o), Writes(o)
    PROVE  Turns' /\ Budget'
<1>1. Idle \in Ops /\ Idle.step \notin TurnSteps
  BY IdleIsQuiet DEF Idle, TurnSteps
<1>2. Idle.step # "encrypt"
  BY DEF Idle
<1>3. QED BY <1>1, <1>2, MovesInTurn DEF Finished

\* An operation goes on to a step of its own.
LEMMA GotoInTurn ==
    ASSUME Typed, Turns, Budget, NEW o \in Slots, NEW step, Goto(o, step),
           [op[o] EXCEPT !.step = step] \in Ops, UNCHANGED <<stored, holder>>,
           step \in TurnSteps => op[o].step \in TurnSteps,
           step = "encrypt" => op[o].step = "budget" /\ Fits
    PROVE  Turns' /\ Budget'
<1> DEFINE new == [op[o] EXCEPT !.step = step]
<1>1. new.step = step /\ new.kind = op[o].kind
  BY DEF Typed, Ops
<1>2. op' = [op EXCEPT ![o] = new]
  BY DEF Goto
<1>3. Writes(o)
  BY DEF Writes
<1> HIDE DEF new
<1>4. QED BY <1>1, <1>2, <1>3, MovesInTurn DEF new

\* An operation begins before its turn.
LEMMA StartInTurn ==
    ASSUME Typed, Turns, Budget, NEW o \in Slots, NEW new \in Ops, Start(o, new),
           new.step \notin TurnSteps, UNCHANGED <<stored, holder>>
    PROVE  Turns' /\ Budget'
<1>1. new.step # "encrypt"
  BY DEF TurnSteps
<1>2. QED BY <1>1, MovesInTurn DEF Start, Writes

\* An import takes its turn, checks the quota, writes its file and passes the turn on.
LEMMA ImportInTurn ==
    ASSUME Typed, Turns, Budget, NEW o \in Slots, ImportStep(o)
    PROVE  Turns' /\ Budget'
<1>0. /\ op[o] \in Ops /\ Process(o) \in Processes
      /\ \A q \in Slots : Process(q) \in Processes
      /\ \A step \in ImportPath \cup JobPath : [op[o] EXCEPT !.step = step] \in Ops
  BY DEF Typed, Process, Processes, Ops
<1> USE DEF TurnSteps, At
<1>1. CASE Enter(o)
  <2>1. \A q \in Slots :
          /\ Process(q)' = Process(q)
          /\ q # o => op'[q].step = op[q].step
          /\ q = o => op'[q].step = "get"
    BY <1>0, <1>1 DEF Enter, Goto, Typed, Process, Ops
  <2>2. /\ holder' = [holder EXCEPT ![Process(o)] = o] /\ holder[Process(o)] = None
        /\ stored' = stored
    BY <1>1 DEF Enter
  <2>3. None \notin Slots
    BY LibraryAssumption
  <2>4. holder' \in [Processes -> Slots \cup {None}]
    BY <1>0, <2>2 DEF Turns
  <2>5. ASSUME NEW q \in Slots, op'[q].step \in TurnSteps PROVE holder'[Process(q)'] = q
    <3>1. CASE q = o
      BY <1>0, <2>1, <2>2, <3>1 DEF Turns
    <3>2. CASE q # o
      BY <1>0, <2>1, <2>2, <2>3, <2>5, <3>2 DEF Turns
    <3>3. QED BY <3>1, <3>2
  <2>6. Turns'
    BY <2>4, <2>5 DEF Turns
  <2>7. Budget'
    BY <2>1, <2>2 DEF Budget, Mine
  <2>8. QED BY <2>6, <2>7
<1>2. CASE WithinBudget(o)
  BY <1>0, <1>2, GotoInTurn DEF WithinBudget, ImportPath
<1>3. CASE OverBudget(o)
  BY <1>3, FinishedInTurn DEF OverBudget, Writes
<1>4. CASE Encrypt(o)
  <2> DEFINE new == [op[o] EXCEPT !.step = "persist"]
  <2>1. /\ new \in Ops /\ new.step = "persist" /\ op[o].step = "encrypt"
        /\ op' = [op EXCEPT ![o] = new] /\ holder' = holder /\ new.kind = op[o].kind
    BY <1>0, <1>4 DEF Encrypt, Goto, Ops, ImportPath
  <2>2. Writes(o)
    BY <1>4 DEF Encrypt, Writes
  <2> HIDE DEF new
  <2>3. QED BY <2>1, <2>2, MovesInTurn
<1>5. CASE Persist(o)
  <2> DEFINE new == [op[o] EXCEPT !.step = "imported"]
  <2>1. /\ new \in Ops /\ new.step = "imported" /\ op[o].step = "persist"
        /\ op' = [op EXCEPT ![o] = new] /\ stored' = stored
        /\ holder' = [holder EXCEPT ![Process(o)] = None]
    BY <1>0, <1>5 DEF Persist, Goto, Ops, ImportPath
  <2> HIDE DEF new
  <2>2. QED BY <2>1, MovesInTurn DEF Writes
<1>6. CASE PersistFails(o)
  BY <1>6, FinishedInTurn DEF PersistFails, Writes
<1>7. CASE Audit(o) \/ CreateCommandJob(o)
  BY <1>0, <1>7, FinishedInTurn, GotoInTurn DEF Audit, CreateCommandJob, JobPath, Writes
<1>8. QED BY <1>1, <1>2, <1>3, <1>4, <1>5, <1>6, <1>7 DEF ImportStep

\* Reading the document is part of the turn; a job and an error have none.
LEMMA ReadInTurn ==
    ASSUME Typed, Turns, Budget, NEW o \in Slots, GetStep(o) \/ JobStep(o) \/ StepFails(o)
    PROVE  Turns' /\ Budget'
<1>0. op[o] \in Ops /\ index \in Docs /\ cache[Process(o)] \in Docs
  BY DEF Typed, Process, Processes
<1> USE DEF TurnSteps, At
<1>1. ASSUME NEW data \in Docs,
             NEW step \in {"getting", "budget", "finding", "open", "decrypt"},
             op' = [op EXCEPT ![o].data = data, ![o].step = step],
             step \in TurnSteps => op[o].step \in TurnSteps,
             UNCHANGED <<stored, holder>>
      PROVE  Turns' /\ Budget'
  <2> DEFINE new == [op[o] EXCEPT !.data = data, !.step = step]
  <2>1. new \in Ops /\ new.step = step /\ new.kind = op[o].kind
    BY <1>0 DEF Ops, ImportPath, JobPath
  <2>2. op' = [op EXCEPT ![o] = new]
    BY <1>1
  <2> HIDE DEF new
  <2>3. QED BY <1>1, <2>1, <2>2, MovesInTurn DEF Writes
<1>2. CASE ReadIndex(o)
  BY <1>0, <1>1, <1>2 DEF ReadIndex
<1>3. CASE KeepIndex(o)
  <2>1. (IF op[o].data.saved THEN op[o].data ELSE Default) \in Docs
    BY <1>0 DEF Default, Docs, Ops
  <2>2. QED BY <1>1, <1>3, <2>1 DEF KeepIndex
<1>4. CASE UseCache(o)
  BY <1>0, <1>1, <1>4 DEF UseCache
<1>5. CASE Decrypt(o)
  BY <1>0, <1>1, <1>5 DEF Decrypt, Document
<1>6. CASE LeasePlain(o) \/ Materialize(o)
  <2>1. [op[o] EXCEPT !.step = "transcribe"] \in Ops
    BY <1>0 DEF Ops, JobPath
  <2>2. QED BY <1>6, <2>1, GotoInTurn DEF LeasePlain, Materialize
<1>7. CASE NotFound(o) \/ DecryptFails(o) \/ Transcribed(o)
  BY <1>7, FinishedInTurn DEF NotFound, DecryptFails, Transcribed, Writes
<1>8. CASE StepFails(o)
  <2>1. Finished(o) /\ Writes(o)
    BY <1>8 DEF StepFails, Writes
  <2>2. QED BY <2>1, FinishedInTurn
<1>9. QED BY <1>2, <1>3, <1>4, <1>5, <1>6, <1>7, <1>8 DEF GetStep, JobStep

\* The requests to the Worker and the starts have no turn.
LEMMA RequestInTurn ==
    ASSUME Typed, Turns, Budget, NEW o \in Slots, SessionStep(o) \/ UploadStep(o)
    PROVE  Turns' /\ Budget'
<1>0. op[o] \in Ops
  BY DEF Typed
<1>1. ASSUME NEW kind \in CloudKinds, NEW step \in CloudPath, NEW token,
             Ask(o, kind, step, token)
      PROVE  Turns' /\ Budget'
  <2> DEFINE new == [Idle EXCEPT !.kind = kind, !.step = step]
  <2>1. new \in Ops /\ new.step = step
    BY DEF Idle, Ops, Docs, Absent
  <2>2. step \notin TurnSteps
    BY DEF CloudPath, TurnSteps
  <2>3. Start(o, new) /\ UNCHANGED <<stored, holder>>
    BY <1>1 DEF Ask
  <2> HIDE DEF new
  <2>4. QED BY <2>1, <2>2, <2>3, StartInTurn
<1>2. ASSUME NEW step \in CloudPath, Proceed(o, step)
      PROVE  Turns' /\ Budget'
  BY <1>0, <1>2, GotoInTurn DEF Proceed, Ops, CloudPath, TurnSteps
<1>3. CASE Finished(o) /\ stored' = stored
  BY <1>3, FinishedInTurn DEF Writes
<1> USE DEF CloudKinds, CloudPath
<1>4. CASE \E a \in Accounts, kind \in {"login", "redeem"} : StartLogin(o, kind, a)
  BY <1>1, <1>4 DEF StartLogin
<1>5. CASE StartChange(o) \/ StartLogout(o) \/ StartStatus(o) \/ StartUpload(o)
  BY <1>1, <1>5 DEF StartChange, StartLogout, StartStatus, StartUpload
<1>6. CASE \/ LoginServed(o) \/ RedeemServed(o) \/ ChangeServed(o) \/ LogoutServed(o)
           \/ StatusServed(o) \/ UploadUrl(o) \/ Waited(o) \/ Counted(o)
           \/ \E j \in Jobs : Put(o, j)
  BY <1>2, <1>6
  DEF LoginServed, RedeemServed, ChangeServed, LogoutServed, StatusServed, Hand, UploadUrl,
      Waited, Counted, Put
<1>7. CASE \/ AuthRefused(o) \/ SaveToken(o) \/ AuthFails(o) \/ ForgetToken(o)
           \/ ShowStatus(o) \/ AuditUpload(o) \/ UploadRefused(o) \/ UploadFails(o)
  BY <1>3, <1>7
  DEF AuthRefused, SaveToken, AuthFails, ForgetToken, ShowStatus, AuditUpload, UploadRefused,
      UploadFails, Answer
<1>8. QED BY <1>4, <1>5, <1>6, <1>7 DEF SessionStep, UploadStep

\* A process dies: of the files it was writing for the application at most one is left, and
\* the quota had room for it.
LEMMA CrashInTurn ==
    ASSUME Typed, Turns, Budget, NEW p \in Processes, Crash(p)
    PROVE  Turns' /\ Budget'
<1> DEFINE lost == {o \in Slots : op[o] # Idle /\ Process(o) = p}
           torn == {File(o, None) : o \in {q \in lost : At(q, "encrypt")}}
<1>1. /\ op' = [o \in Slots |-> IF o \in lost THEN Idle ELSE op[o]]
      /\ holder' = [holder EXCEPT ![p] = None]
      /\ \E left \in SUBSET torn : stored' = stored \cup left
  BY DEF Crash
<1>2. PICK left \in SUBSET torn : stored' = stored \cup left
  BY <1>1
<1>3. ASSUME NEW q \in Slots, op'[q].step \in TurnSteps
      PROVE  q \notin lost /\ op'[q] = op[q] /\ Process(q)' = Process(q) /\ Process(q) # p
  BY <1>1, <1>3 DEF Idle, TurnSteps, Process
<1>4. Turns'
  <2>1. holder' \in [Processes -> Slots \cup {None}]
    BY <1>1 DEF Turns
  <2>2. ASSUME NEW q \in Slots, op'[q].step \in TurnSteps PROVE holder'[Process(q)'] = q
    BY <1>1, <1>3, <2>2 DEF Turns, Process, Processes
  <2>3. QED BY <2>1, <2>2 DEF Turns
<1>5. ASSUME NEW o \in lost, NEW q \in lost, At(o, "encrypt"), At(q, "encrypt")
      PROVE  o = q
  BY <1>5, OneTurn DEF At, TurnSteps
<1>6. \/ left = {}
      \/ \E o \in lost : At(o, "encrypt") /\ left = {File(o, None)}
  BY <1>2, <1>5
<1>7. IsFiniteSet(stored')
  <2>1. CASE left = {}
    BY <1>2, <2>1 DEF Budget
  <2>2. CASE left # {}
    BY <1>2, <1>6, <2>2, OneMore DEF Budget
  <2>3. QED BY <2>1, <2>2
<1>8. CASE Mine' = Mine
  <2>1. ASSUME NEW q \in Slots, op'[q].step = "encrypt", Process(q)' = Gui
        PROVE  Cardinality(Mine) + 1 <= MaxBytes
    BY <1>3, <2>1 DEF Budget, TurnSteps
  <2>2. QED BY <1>4, <1>7, <1>8, <2>1 DEF Budget
<1>9. CASE Mine' # Mine
  <2>1. PICK o \in lost : At(o, "encrypt") /\ left = {File(o, None)}
    BY <1>2, <1>6, <1>9 DEF Mine
  <2>2. stored' = stored \cup {File(o, None)}
    BY <1>2, <2>1
  <2>3. Process(o) = Gui /\ p = Gui
    BY <1>9, <2>2, OneMore, WrittenBy DEF Budget
  <2>4. /\ Cardinality(Mine') <= Cardinality(Mine) + 1
        /\ Cardinality(Mine) \in Nat /\ Cardinality(Mine') \in Nat
    BY <2>2, OneMore DEF Budget
  <2>5. Cardinality(Mine) + 1 <= MaxBytes
    BY <2>1, <2>3 DEF Budget, At
  <2>6. ASSUME NEW q \in Slots, op'[q].step = "encrypt", Process(q)' = Gui PROVE FALSE
    BY <1>3, <2>3, <2>6 DEF TurnSteps
  <2>7. QED BY <1>4, <1>7, <2>4, <2>5, <2>6, LibraryAssumption DEF Budget
<1>10. QED BY <1>8, <1>9

\* Every step.
LEMMA NextInTurn ==
    GuardInv /\ Turns /\ Budget /\ [DesktopNext]_desktopVars => Turns' /\ Budget'
<1> SUFFICES ASSUME GuardInv, Turns, Budget, [DesktopNext]_desktopVars
             PROVE  Turns' /\ Budget'
  OBVIOUS
<1>0. Typed
  BY DEF GuardInv
<1>1. CASE UNCHANGED <<stored, holder, op>>
  BY <1>1 DEF Turns, Budget, Mine, Process
<1>2. ASSUME NEW o \in Slots, NEW a \in Assets,
             \/ StartJob(o, a) \/ StartCommand(o, a)
             \/ \E kind \in {"import", "process"} : StartImport(o, kind, a)
      PROVE  Turns' /\ Budget'
  <2> DEFINE new(kind, step) == [Idle EXCEPT !.kind = kind, !.step = step, !.asset = a]
  <2>1. \A kind \in LibraryKinds : \A step \in {"queued", "find"} :
          new(kind, step) \in Ops /\ new(kind, step).step \notin TurnSteps
    BY DEF Idle, Ops, Docs, Absent, ImportPath, JobPath, TurnSteps
  <2> HIDE DEF new
  <2>2. \E kind \in LibraryKinds, step \in {"queued", "find"} :
          Start(o, new(kind, step)) /\ UNCHANGED <<stored, holder>>
    BY <1>2 DEF StartJob, StartCommand, StartImport, Begin, new, LibraryKinds
  <2>3. QED BY <1>0, <2>1, <2>2, StartInTurn
<1>3. CASE LibraryStep
  BY <1>0, <1>1, <1>2, <1>3, ImportInTurn, ReadInTurn DEF LibraryStep, SixHours
<1>4. CASE \E p \in Processes : Crash(p)
  BY <1>0, <1>4, CrashInTurn
<1>5. CASE \E o \in Slots : SessionStep(o) \/ UploadStep(o)
  BY <1>0, <1>5, RequestInTurn
<1>6. CASE \/ NotConfigured \/ (\E a \in Accounts : Elsewhere(a))
           \/ (\E j \in Jobs : JobEnds(j)) \/ UNCHANGED desktopVars
  BY <1>1, <1>6 DEF NotConfigured, Elsewhere, JobEnds, libraryVars, desktopVars
<1>7. QED
  BY <1>3, <1>4, <1>5, <1>6 DEF DesktopNext

\* The files the application wrote keep the quota: assertStorageBudget and the write it
\* allows are one turn of the mutationQueue, so no two imports count on the same room, and a
\* file torn by a crash had its room too.
THEOREM QuotaIsKept == DesktopSpec => []StorageIsBounded
<1>1. Budget => StorageIsBounded
  BY DEF Budget, Mine, StorageIsBounded
<1>2. DesktopInit => Turns /\ Budget
  <2>1. Cardinality({}) = 0 /\ IsFiniteSet({})
    BY FS_EmptySet
  <2>2. SUFFICES ASSUME LibraryInit PROVE Turns /\ Budget
    BY DEF DesktopInit
  <2>3. Mine = {} /\ stored = {}
    BY <2>2 DEF LibraryInit, Mine
  <2>4. Turns
    BY <2>2 DEF LibraryInit, Turns, Idle, TurnSteps
  <2>5. Budget
    BY <2>1, <2>2, <2>3, LibraryAssumption DEF LibraryInit, Budget, Idle
  <2>6. QED BY <2>4, <2>5
<1>3. QED BY <1>1, <1>2, InitGuard, NextGuard, NextInTurn, PTL DEF DesktopSpec

-----------------------------------------------------------------------------
(* The session. *)

\* The requests that save a token.
Saving == {"login", "redeem", "change"}
Tokens == [account : Accounts \cup {None}, version : Nat]
Requests == [token : Tokens, job : Jobs \cup {None}]

SessionTyped ==
    /\ session \in Tokens /\ (session.account \in Accounts \/ session = NoToken)
    /\ request \in [Slots -> Requests]
    /\ version \in [Accounts -> Nat]
    /\ beside \in BOOLEAN

\* What a request that saves a token has in hand at its step.
Named ==
    \A o \in Slots : op[o].kind \in Saving =>
        /\ op[o].step \in {"sent", "answered"}
        /\ \/ op[o].kind = "change" /\ op[o].step = "sent"
           \/ request[o].token.account \in Accounts

\* No token is of a version to come.
Known(token) == token.account \in Accounts => token.version <= version[token.account]
Issued == Known(session) /\ \A o \in Slots : Known(request[o].token)

\* A login, or a redeemed link, has the session for itself.
Alone ==
    \A o, q \in Slots :
        op[o].kind \in {"login", "redeem"} /\ op[q].kind \in Saving => o = q

\* The token of an answer is as new as the session, and of the changes of an account the one
\* that was answered is newer than what the others carry.
Newest ==
    \A o \in Slots : op[o].kind \in Saving /\ op[o].step = "answered" =>
        /\ session.account = request[o].token.account =>
             session.version <= request[o].token.version
        /\ op[o].kind = "change" =>
             /\ session.account = request[o].token.account =>
                  session.version < request[o].token.version
             /\ \A q \in Slots \ {o} :
                  /\ op[q].kind = "change"
                  /\ request[q].token.account = request[o].token.account
                  => /\ op[q].step = "sent"
                     /\ request[q].token.version < request[o].token.version

SessionInv == SessionTyped /\ Named /\ Issued /\ (~beside => Alone /\ Newest)

\* A step at which no request to save a token begins or is answered.  Some may end, and one of
\* those may save its token; the token may be deleted, and versions may rise.
LEMMA NoAnswer ==
    ASSUME GuardInv, SessionInv, op' \in [Slots -> Ops],
           request' \in [Slots -> Requests], version' \in [Accounts -> Nat],
           beside' = beside,
           \A a \in Accounts : version[a] <= version'[a],
           \A q \in Slots :
               request'[q].token \in {request[q].token, NoToken, session},
           \A q \in Slots :
               \/ op'[q].kind \notin Saving
               \/ /\ op'[q].kind = op[q].kind /\ op'[q].step = op[q].step
                  /\ request'[q].token = request[q].token,
           \/ session' \in {session, NoToken}
           \/ \E s \in Slots : /\ op[s].kind \in Saving /\ op[s].step = "answered"
                               /\ op'[s].kind \notin Saving
                               /\ session' = request[s].token
    PROVE  SessionInv' /\ (beside \/ Forward)
<1>0. /\ None \notin Accounts /\ NoToken \in Tokens
      /\ NoToken.account = None /\ NoToken.version = 0
      /\ session \in Tokens /\ \A q \in Slots : request[q].token \in Tokens
  BY CloudAssumption DEF NoToken, Tokens, SessionInv, SessionTyped, Requests
<1>1. SessionTyped'
  BY <1>0 DEF SessionInv, SessionTyped, Named, Saving
<1>2. Named'
  BY DEF SessionInv, Named
<1>3. Issued'
  <2>1. ASSUME NEW token \in Tokens, Known(token) PROVE Known(token)'
    BY <2>1 DEF Known, Tokens, SessionInv, SessionTyped
  <2>2. Known(NoToken) /\ Known(session) /\ \A q \in Slots : Known(request[q].token)
    BY <1>0 DEF Known, SessionInv, Issued
  <2>3. session' \in Tokens /\ \A q \in Slots : request'[q].token \in Tokens
    BY <1>0
  <2>4. \A token \in Tokens : Known(token) =>
            (token.account \in Accounts => token.version <= version'[token.account])
    BY <2>1 DEF Known
  <2>5. Known(session)'
    BY <2>2, <2>3, <2>4 DEF Known
  <2>6. \A q \in Slots : Known(request[q].token)'
    BY <2>2, <2>3, <2>4 DEF Known
  <2>7. QED BY <2>5, <2>6 DEF Issued
<1>4. CASE beside
  BY <1>1, <1>2, <1>3, <1>4 DEF SessionInv
<1>5. CASE ~beside
  <2>1. Alone /\ Newest /\ Named
    BY <1>5 DEF SessionInv
  <2>2. Alone'
    BY <2>1 DEF Alone, Saving
  <2>3. Newest'
    <3>1. SUFFICES ASSUME NEW o \in Slots, op'[o].kind \in Saving, op'[o].step = "answered"
                   PROVE  /\ session'.account = request'[o].token.account =>
                               session'.version <= request'[o].token.version
                          /\ op'[o].kind = "change" =>
                               /\ session'.account = request'[o].token.account =>
                                    session'.version < request'[o].token.version
                               /\ \A q \in Slots \ {o} :
                                    /\ op'[q].kind = "change"
                                    /\ request'[q].token.account = request'[o].token.account
                                    => /\ op'[q].step = "sent"
                                       /\ request'[q].token.version < request'[o].token.version
      BY DEF Newest
    <3>2. /\ op[o].kind = op'[o].kind /\ op[o].step = "answered"
          /\ request'[o].token = request[o].token /\ request[o].token.account \in Accounts
      BY <2>1, <3>1 DEF Named
    <3>3. \A q \in Slots \ {o} :
            op'[q].kind = "change" /\ request'[q].token.account = request'[o].token.account
            /\ op'[o].kind = "change"
            => op'[q].step = "sent" /\ request'[q].token.version < request'[o].token.version
      BY <2>1, <3>1, <3>2 DEF Newest, Saving
    <3>4. CASE session' = session
      BY <2>1, <3>1, <3>2, <3>3, <3>4 DEF Newest
    <3>5. CASE session' = NoToken
      BY <1>0, <3>2, <3>3, <3>5
    <3>6. ASSUME NEW s \in Slots, op[s].kind \in Saving, op[s].step = "answered",
                 op'[s].kind \notin Saving, session' = request[s].token
          PROVE  session'.account # request'[o].token.account
      <4>1. s # o
        BY <3>1, <3>6
      <4>2. op[s].kind = "change" /\ op[o].kind = "change"
        BY <2>1, <3>1, <3>2, <3>6, <4>1 DEF Alone, Saving
      <4>3. QED BY <2>1, <3>1, <3>2, <3>6, <4>1, <4>2 DEF Newest
    <3>7. QED BY <3>3, <3>4, <3>5, <3>6
  <2>4. Forward
    <3>1. CASE session' = session
      BY <1>0, <3>1 DEF Forward, Tokens
    <3>2. CASE session' = NoToken
      BY <1>0, <3>2 DEF Forward, SessionInv, SessionTyped
    <3>3. ASSUME NEW s \in Slots, op[s].kind \in Saving, op[s].step = "answered",
                 session' = request[s].token
          PROVE  Forward
      BY <2>1, <3>3 DEF Forward, Newest
    <3>4. QED BY <3>1, <3>2, <3>3
  <2>5. QED BY <1>1, <1>2, <1>3, <1>5, <2>2, <2>3, <2>4 DEF SessionInv
<1>6. QED BY <1>4, <1>5 DEF SessionInv, SessionTyped

\* What an operation that asks the Worker has in hand afterwards.
LEMMA AskedFor ==
    ASSUME Typed, SessionTyped, NEW o \in Slots, NEW kind \in CloudKinds,
           NEW step \in CloudPath, NEW token \in Tokens, Ask(o, kind, step, token)
    PROVE  /\ op' \in [Slots -> Ops] /\ request' \in [Slots -> Requests]
           /\ op'[o].kind = kind /\ op'[o].step = step
           /\ op[o].kind \notin Saving /\ request'[o].token = token
           /\ \A q \in Slots \ {o} : op'[q] = op[q] /\ request'[q] = request[q]
<1> DEFINE new == [Idle EXCEPT !.kind = kind, !.step = step]
           asked == [request[o] EXCEPT !.token = token]
<1>1. new \in Ops /\ new.kind = kind /\ new.step = step
  BY DEF Idle, Ops, Docs, Absent
<1>2. asked \in Requests /\ asked.token = token
  BY DEF SessionTyped, Requests
<1>3. op' = [op EXCEPT ![o] = new] /\ op[o] = Idle /\ request' = [request EXCEPT ![o] = asked]
  BY DEF Ask, Start
<1>4. op[o].kind \notin Saving
  BY <1>3 DEF Idle, Saving
<1> HIDE DEF new, asked
<1>5. QED BY <1>1, <1>2, <1>3, <1>4 DEF Typed, SessionTyped

\* What an operation that is handed a token has in hand afterwards.
LEMMA HandedOver ==
    ASSUME Typed, SessionTyped, NEW o \in Slots, NEW token \in Tokens, Hand(o, token)
    PROVE  /\ op' \in [Slots -> Ops] /\ request' \in [Slots -> Requests]
           /\ op'[o].kind = op[o].kind /\ op'[o].step = "answered"
           /\ request'[o].token = token
           /\ \A q \in Slots \ {o} : op'[q] = op[q] /\ request'[q] = request[q]
<1> DEFINE new == [op[o] EXCEPT !.step = "answered"]
           asked == [request[o] EXCEPT !.token = token]
<1>1. new \in Ops /\ new.kind = op[o].kind /\ new.step = "answered"
  BY DEF Typed, Ops, CloudPath
<1>2. asked \in Requests /\ asked.token = token
  BY DEF SessionTyped, Requests
<1>3. op' = [op EXCEPT ![o] = new] /\ request' = [request EXCEPT ![o] = asked]
  BY DEF Hand, Proceed, Goto
<1> HIDE DEF new, asked
<1>4. QED BY <1>1, <1>2, <1>3 DEF Typed, SessionTyped

\* A login or a redeemed link begins: no other one is under way, and if a change is, that is
\* noted.
LEMMA LoginBegins ==
    ASSUME GuardInv, SessionInv, NEW o \in Slots, NEW kind \in {"login", "redeem"},
           NEW a \in Accounts, StartLogin(o, kind, a)
    PROVE  SessionInv'
<1> DEFINE token == [account |-> a, version |-> 0]
<1>1. token \in Tokens /\ token.account = a /\ token.version = 0
  BY DEF Tokens
<1>2. Typed /\ SessionTyped /\ kind \in CloudKinds /\ "sent" \in CloudPath
  BY DEF GuardInv, SessionInv, CloudKinds, CloudPath
<1>3. Ask(o, kind, "sent", token)
  BY DEF StartLogin
<1> HIDE DEF token
<1>4. /\ request' \in [Slots -> Requests]
      /\ op'[o].kind = kind /\ op'[o].step = "sent"
      /\ request'[o].token = token
      /\ \A q \in Slots \ {o} : op'[q] = op[q] /\ request'[q] = request[q]
  BY <1>1, <1>2, <1>3, AskedFor
<1>5. /\ UNCHANGED <<session, version>> /\ beside' = (beside \/ Pending({"change"}))
      /\ \A q \in Slots : op[q].kind \notin {"login", "redeem"}
  BY DEF StartLogin, AuthPending, Pending
<1>6. beside' \in BOOLEAN
  BY <1>2, <1>5, Zenon DEF SessionTyped
<1>7. SessionTyped'
  BY <1>2, <1>4, <1>5, <1>6 DEF SessionTyped
<1>8. Named'
  BY <1>1, <1>4 DEF SessionInv, Named
<1>9. Issued'
  BY <1>1, <1>2, <1>4, <1>5 DEF SessionInv, Issued, Known, SessionTyped
<1>10. ASSUME ~beside'
       PROVE  Alone' /\ Newest'
  <2>1. ~beside /\ \A q \in Slots : op[q].kind \notin Saving
    BY <1>5, <1>10, Zenon DEF Pending, Saving
  <2>2. Alone'
    BY <1>4, <2>1 DEF Alone, Saving
  <2>3. Newest'
    BY <1>4, <2>1 DEF Newest
  <2>4. QED BY <2>2, <2>3
<1>11. QED BY <1>7, <1>8, <1>9, <1>10 DEF SessionInv

\* A login or a redeemed link is answered with a token as new as any.
LEMMA LoginAnswered ==
    ASSUME GuardInv, SessionInv, NEW o \in Slots, LoginServed(o) \/ RedeemServed(o)
    PROVE  SessionInv'
<1> DEFINE a == request[o].token.account
           token == [account |-> a, version |-> version'[a]]
<1>1. /\ op[o].kind \in {"login", "redeem"} /\ op[o].step = "sent"
      /\ UNCHANGED <<session, beside>>
      /\ version' = version \/ version' = [version EXCEPT ![a] = @ + 1]
  BY DEF LoginServed, RedeemServed, Asks, Bump, Hand, Proceed
<1>2. Typed /\ SessionTyped /\ a \in Accounts
  BY <1>1 DEF GuardInv, SessionInv, Named, Saving
<1>3. version' \in [Accounts -> Nat] /\ \A b \in Accounts : version[b] <= version'[b]
  BY <1>1, <1>2 DEF SessionTyped
<1>4. Hand(o, token)
  BY <1>2 DEF LoginServed, RedeemServed, Current, Bump, SessionTyped
<1>5. token \in Tokens /\ token.account = a /\ token.version = version'[a]
  BY <1>2, <1>3 DEF Tokens
<1> HIDE DEF a, token
<1>6. /\ request' \in [Slots -> Requests]
      /\ op'[o].kind = op[o].kind /\ op'[o].step = "answered"
      /\ request'[o].token = token
      /\ \A q \in Slots \ {o} : op'[q] = op[q] /\ request'[q] = request[q]
  BY <1>2, <1>4, <1>5, HandedOver
<1>7. SessionTyped'
  BY <1>1, <1>2, <1>3, <1>6 DEF SessionTyped
<1>8. Named'
  BY <1>2, <1>5, <1>6 DEF SessionInv, Named
<1>9. Issued'
  BY <1>1, <1>2, <1>3, <1>5, <1>6
  DEF SessionInv, Issued, Known, SessionTyped, Requests, Tokens
<1>10. ASSUME ~beside'
       PROVE  Alone' /\ Newest'
  <2>1. Alone /\ Known(session)
    BY <1>1, <1>10 DEF SessionInv, Issued
  <2>2. \A q \in Slots \ {o} : op'[q].kind \notin Saving
    BY <1>1, <1>6, <2>1 DEF Alone
  <2>3. session'.account = a => session'.version <= version'[a]
    BY <1>1, <1>2, <1>3, <2>1 DEF Known, SessionTyped, Tokens
  <2>4. Alone'
    BY <1>6, <2>2 DEF Alone, Saving
  <2>5. Newest'
    BY <1>1, <1>5, <1>6, <2>2, <2>3 DEF Newest
  <2>6. QED BY <2>4, <2>5
<1>11. QED BY <1>7, <1>8, <1>9, <1>10 DEF SessionInv

\* A password change begins with the session, while no login is under way.
LEMMA ChangeBegins ==
    ASSUME GuardInv, SessionInv, NEW o \in Slots, StartChange(o)
    PROVE  SessionInv'
<1>1. /\ Ask(o, "change", "sent", session)
      /\ UNCHANGED <<session, version, beside>>
      /\ \A q \in Slots : op[q].kind \notin {"login", "redeem"}
  BY DEF StartChange, AuthPending, Pending
<1>2. /\ Typed /\ SessionTyped /\ session \in Tokens
      /\ "change" \in CloudKinds /\ "sent" \in CloudPath
  BY DEF GuardInv, SessionInv, SessionTyped, CloudKinds, CloudPath
<1>3. /\ request' \in [Slots -> Requests]
      /\ op'[o].kind = "change" /\ op'[o].step = "sent"
      /\ op[o].kind \notin Saving /\ request'[o].token = session
      /\ \A q \in Slots \ {o} : op'[q] = op[q] /\ request'[q] = request[q]
  BY <1>1, <1>2, AskedFor
<1>4. SessionTyped'
  BY <1>1, <1>2, <1>3 DEF SessionTyped
<1>5. Named'
  BY <1>3 DEF SessionInv, Named
<1>6. Issued'
  BY <1>1, <1>3 DEF SessionInv, Issued, Known
<1>7. ASSUME ~beside'
      PROVE  Alone' /\ Newest'
  <2>1. Alone /\ Newest
    BY <1>1, <1>7 DEF SessionInv
  <2>2. Alone'
    BY <1>1, <1>3 DEF Alone
  <2>3. Newest'
    BY <1>1, <1>3, <2>1 DEF Newest
  <2>4. QED BY <2>2, <2>3
<1>8. QED BY <1>4, <1>5, <1>6, <1>7 DEF SessionInv

\* The Worker accepts a change only with the token of the version it raises: the answer is
\* newer than what every other change of the account carries, and none of them was answered.
LEMMA ChangeAnswered ==
    ASSUME GuardInv, SessionInv, NEW o \in Slots, ChangeServed(o)
    PROVE  SessionInv'
<1> DEFINE a == request[o].token.account
           token == [account |-> a, version |-> version[a] + 1]
<1>1. /\ op[o].kind = "change" /\ op[o].step = "sent"
      /\ UNCHANGED <<session, beside>>
      /\ version' = [version EXCEPT ![a] = @ + 1]
      /\ a \in Accounts /\ request[o].token = Current(a)
      /\ Hand(o, token)
  BY DEF ChangeServed, Asks, Bump, Accepted
<1>2. Typed /\ SessionTyped /\ request[o].token.version = version[a]
  BY <1>1 DEF GuardInv, SessionInv, Current
<1>3. /\ version' \in [Accounts -> Nat] /\ \A b \in Accounts : version[b] <= version'[b]
      /\ version'[a] = version[a] + 1 /\ version[a] \in Nat
  BY <1>1, <1>2 DEF SessionTyped
<1>4. token \in Tokens /\ token.account = a /\ token.version = version[a] + 1
  BY <1>1, <1>3 DEF Tokens
<1> HIDE DEF token
<1>5. /\ request' \in [Slots -> Requests]
      /\ op'[o].kind = op[o].kind /\ op'[o].step = "answered"
      /\ request'[o].token = token
      /\ \A q \in Slots \ {o} : op'[q] = op[q] /\ request'[q] = request[q]
  BY <1>1, <1>2, <1>4, HandedOver
<1>6. SessionTyped'
  BY <1>1, <1>2, <1>3, <1>5 DEF SessionTyped
<1>7. Named'
  BY <1>1, <1>4, <1>5 DEF SessionInv, Named
<1>8. Issued'
  BY <1>1, <1>2, <1>3, <1>4, <1>5
  DEF SessionInv, Issued, Known, SessionTyped, Requests, Tokens
<1>9. ASSUME ~beside'
      PROVE  Alone' /\ Newest'
  <2>1. Alone /\ Newest /\ Named /\ Issued
    BY <1>1, <1>9 DEF SessionInv
  <2>2. Alone'
    BY <1>5, <2>1 DEF Alone
  <2>3. \A q \in Slots \ {o} : op'[q].kind \notin {"login", "redeem"}
    BY <1>1, <1>5, <2>1 DEF Alone, Saving
  <2>4. ASSUME NEW q \in Slots \ {o}, op[q].kind = "change", request[q].token.account = a
        PROVE  op[q].step = "sent" /\ request[q].token.version < token.version
    <3>1. request[q].token.version <= version[a] /\ request[q].token.version \in Nat
      BY <1>1, <1>2, <2>1, <2>4 DEF Issued, Known, SessionTyped, Requests, Tokens
    <3>2. op[q].step # "answered"
      BY <1>1, <1>2, <1>3, <2>1, <2>4, <3>1 DEF Newest, Saving
    <3>3. op[q].step = "sent"
      BY <2>1, <2>4, <3>2 DEF Named, Saving
    <3>4. QED BY <1>3, <1>4, <3>1, <3>3
  <2>5. session.account = a => session.version < token.version
    BY <1>1, <1>2, <1>3, <1>4, <2>1 DEF Issued, Known, SessionTyped, Tokens
  <2>6. Newest'
    <3>1. \A p \in Slots \ {o} :
            op'[p].kind \in Saving /\ op'[p].step = "answered" =>
              /\ op[p].kind = "change" /\ request[p].token.account # a
              /\ op[p].step = "answered"
      BY <1>5, <2>3, <2>4 DEF Saving
    <3>2. session.account = a => session.version <= token.version
      BY <1>2, <1>4, <1>3, <2>5 DEF SessionTyped, Tokens
    <3>3. \A p \in Slots \ {o} :
            op'[p].kind \in Saving /\ op'[p].step = "answered" =>
              /\ session'.account = request'[p].token.account =>
                   session'.version <= request'[p].token.version
              /\ session'.account = request'[p].token.account =>
                   session'.version < request'[p].token.version
              /\ \A q \in Slots \ {p} :
                   /\ op'[q].kind = "change"
                   /\ request'[q].token.account = request'[p].token.account
                   => /\ op'[q].step = "sent"
                      /\ request'[q].token.version < request'[p].token.version
      BY <1>1, <1>4, <1>5, <2>1, <3>1 DEF Newest, Saving
    <3>4. \A q \in Slots \ {o} :
            op'[q].kind = "change" /\ request'[q].token.account = request'[o].token.account
            => op'[q].step = "sent" /\ request'[q].token.version < request'[o].token.version
      BY <1>4, <1>5, <2>4
    <3>5. session'.account = request'[o].token.account =>
            /\ session'.version <= request'[o].token.version
            /\ session'.version < request'[o].token.version
      BY <1>1, <1>4, <1>5, <2>5, <3>2
    <3>6. QED BY <3>3, <3>4, <3>5 DEF Newest
  <2>7. QED BY <2>2, <2>6
<1>10. QED BY <1>6, <1>7, <1>8, <1>9 DEF SessionInv

\* An operation that saves no token asks the Worker, with the session if with any.
LEMMA AsksQuietly ==
    ASSUME GuardInv, SessionInv, NEW o \in Slots, NEW kind \in CloudKinds \ Saving,
           NEW step \in CloudPath, Ask(o, kind, step, session),
           UNCHANGED <<session, version, beside>>
    PROVE  SessionInv' /\ (beside \/ Forward)
<1>1. Typed /\ SessionTyped /\ session \in Tokens
  BY DEF GuardInv, SessionInv, SessionTyped
<1>2. /\ op' \in [Slots -> Ops] /\ request' \in [Slots -> Requests]
      /\ op'[o].kind = kind /\ request'[o].token = session
      /\ \A q \in Slots \ {o} : op'[q] = op[q] /\ request'[q] = request[q]
  BY <1>1, AskedFor
<1>3. version' \in [Accounts -> Nat] /\ \A a \in Accounts : version[a] <= version'[a]
  BY <1>1 DEF SessionTyped
<1>4. \A q \in Slots : /\ request'[q].token \in {request[q].token, NoToken, session}
                       /\ \/ op'[q].kind \notin Saving
                          \/ /\ op'[q].kind = op[q].kind /\ op'[q].step = op[q].step
                             /\ request'[q].token = request[q].token
  BY <1>2
<1>5. QED BY <1>2, <1>3, <1>4, NoAnswer

\* It goes on: the sessions of an account may end, and the upload may get its job.
LEMMA ProceedsQuietly ==
    ASSUME GuardInv, SessionInv, NEW o \in Slots, op[o].kind \in CloudKinds \ Saving,
           NEW step \in CloudPath, Proceed(o, step),
           \/ UNCHANGED request
           \/ \E j \in Jobs : request' = [request EXCEPT ![o].job = j],
           UNCHANGED <<session, beside>>,
           \/ UNCHANGED version
           \/ \E a \in Accounts : version' = [version EXCEPT ![a] = @ + 1]
    PROVE  SessionInv' /\ (beside \/ Forward)
<1>1. Typed /\ SessionTyped
  BY DEF GuardInv, SessionInv
<1>2. op' = [op EXCEPT ![o] = [op[o] EXCEPT !.step = step]]
  BY DEF Proceed, Goto
<1>3. [op[o] EXCEPT !.step = step] \in Ops /\ [op[o] EXCEPT !.step = step].kind = op[o].kind
  BY <1>1 DEF Typed, Ops
<1>4. op' \in [Slots -> Ops] /\ op'[o].kind \notin Saving /\ \A q \in Slots \ {o} : op'[q] = op[q]
  BY <1>1, <1>2, <1>3 DEF Typed
<1>5. request' \in [Slots -> Requests] /\ \A q \in Slots : request'[q].token = request[q].token
  <2>1. CASE UNCHANGED request
    BY <1>1, <2>1 DEF SessionTyped
  <2>2. ASSUME NEW j \in Jobs, request' = [request EXCEPT ![o].job = j]
        PROVE  request' \in [Slots -> Requests] /\ \A q \in Slots : request'[q].token = request[q].token
    BY <1>1, <2>2 DEF SessionTyped, Requests
  <2>3. QED BY <2>1, <2>2
<1>6. version' \in [Accounts -> Nat] /\ \A a \in Accounts : version[a] <= version'[a]
  BY <1>1 DEF SessionTyped
<1>7. QED BY <1>4, <1>5, <1>6, NoAnswer

\* It ends: its token is saved, or the application's is deleted, or nothing happens to it.
LEMMA EndsQuietly ==
    ASSUME GuardInv, SessionInv, NEW o \in Slots, Finished(o),
           request' = [request EXCEPT ![o] = NoRequest], UNCHANGED <<version, beside>>,
           \/ session' \in {session, NoToken}
           \/ /\ op[o].kind \in Saving /\ op[o].step = "answered"
              /\ session' = request[o].token
    PROVE  SessionInv' /\ (beside \/ Forward)
<1>1. Typed /\ SessionTyped
  BY DEF GuardInv, SessionInv
<1>2. NoRequest \in Requests /\ NoRequest.token = NoToken
  BY DEF NoRequest, Requests, NoToken, Tokens
<1>3. op' = [op EXCEPT ![o] = Idle] /\ Idle \in Ops /\ Idle.kind \notin Saving
  BY IdleIsQuiet DEF Finished, Saving, Idle
<1>4. /\ op' \in [Slots -> Ops] /\ op'[o].kind \notin Saving
      /\ request' \in [Slots -> Requests] /\ request'[o].token = NoToken
      /\ \A q \in Slots \ {o} : op'[q] = op[q] /\ request'[q] = request[q]
  BY <1>1, <1>2, <1>3 DEF Typed, SessionTyped
<1>5. version' \in [Accounts -> Nat] /\ \A a \in Accounts : version[a] <= version'[a]
  BY <1>1 DEF SessionTyped
<1>6. \A q \in Slots : /\ request'[q].token \in {request[q].token, NoToken, session}
                       /\ \/ op'[q].kind \notin Saving
                          \/ /\ op'[q].kind = op[q].kind /\ op'[q].step = op[q].step
                             /\ request'[q].token = request[q].token
  BY <1>4
<1>7. QED BY <1>4, <1>5, <1>6, NoAnswer

\* Every request of the settings panel, and every upload.
LEMMA RequestForward ==
    ASSUME GuardInv, SessionInv, NEW o \in Slots, SessionStep(o) \/ UploadStep(o)
    PROVE  SessionInv' /\ (beside \/ Forward)
<1> USE DEF Asks, At, CloudKinds, CloudPath, Saving
<1>0. session' = session => Forward
  BY DEF Forward, SessionInv, SessionTyped, Tokens
<1>1. CASE \E a \in Accounts, kind \in {"login", "redeem"} : StartLogin(o, kind, a)
  <2>1. session' = session
    BY <1>1 DEF StartLogin
  <2>2. QED BY <1>0, <1>1, <2>1, LoginBegins
<1>2. CASE LoginServed(o) \/ RedeemServed(o)
  BY <1>0, <1>2, LoginAnswered DEF LoginServed, RedeemServed
<1>3. CASE StartChange(o)
  BY <1>0, <1>3, ChangeBegins DEF StartChange
<1>4. CASE ChangeServed(o)
  BY <1>0, <1>4, ChangeAnswered DEF ChangeServed
<1>5. CASE StartLogout(o) \/ StartStatus(o) \/ StartUpload(o)
  <2>1. \E kind \in CloudKinds \ Saving, step \in CloudPath : Ask(o, kind, step, session)
    BY <1>5 DEF StartLogout, StartStatus, StartUpload
  <2>2. UNCHANGED <<session, version, beside>>
    BY <1>5 DEF StartLogout, StartStatus, StartUpload
  <2>3. QED BY <2>1, <2>2, AsksQuietly
<1>6. CASE \/ LogoutServed(o) \/ StatusServed(o) \/ UploadUrl(o) \/ Waited(o) \/ Counted(o)
           \/ \E j \in Jobs : Put(o, j)
  <2>1. /\ op[o].kind \in CloudKinds \ Saving
        /\ \E step \in CloudPath : Proceed(o, step)
        /\ UNCHANGED <<session, beside>>
    BY <1>6 DEF LogoutServed, StatusServed, UploadUrl, Waited, Counted, Put, cloudVars
  <2>2. \/ UNCHANGED request
        \/ \E j \in Jobs : request' = [request EXCEPT ![o].job = j]
    BY <1>6 DEF LogoutServed, StatusServed, UploadUrl, Waited, Counted, Put, cloudVars
  <2>3. \/ UNCHANGED version
        \/ \E a \in Accounts : version' = [version EXCEPT ![a] = @ + 1]
    BY <1>6
    DEF LogoutServed, StatusServed, UploadUrl, Waited, Counted, Put, cloudVars, Bump, Accepted
  <2>4. QED BY <2>1, <2>2, <2>3, ProceedsQuietly
<1>7. CASE \/ AuthRefused(o) \/ SaveToken(o) \/ AuthFails(o) \/ ForgetToken(o)
           \/ ShowStatus(o) \/ AuditUpload(o) \/ UploadRefused(o) \/ UploadFails(o)
  <2>1. /\ Finished(o) /\ request' = [request EXCEPT ![o] = NoRequest]
        /\ UNCHANGED <<version, beside>>
    BY <1>7 DEF AuthRefused, SaveToken, AuthFails, ForgetToken, ShowStatus, AuditUpload,
                UploadRefused, UploadFails, Answer
  <2>2. \/ session' \in {session, NoToken}
        \/ /\ op[o].kind \in Saving /\ op[o].step = "answered"
           /\ session' = request[o].token
    BY <1>7 DEF AuthRefused, SaveToken, AuthFails, ForgetToken, ShowStatus, AuditUpload,
                UploadRefused, UploadFails
  <2>3. QED BY <2>1, <2>2, EndsQuietly
<1>8. QED
  BY <1>1, <1>2, <1>3, <1>4, <1>5, <1>6, <1>7 DEF SessionStep, UploadStep

\* The operations on the audio files are no requests, before or after a step.
LEMMA LibraryIsNoRequest ==
    ASSUME GuardInv, LibraryStep
    PROVE  \A q \in Slots : op'[q] = op[q] \/ op'[q].kind \notin Saving
<1>0. /\ op \in [Slots -> Ops]
      /\ \A o \in Slots : op[o].kind \in CloudKinds => op[o].step \in CloudPath
  BY DEF GuardInv, Typed, Operations
<1>1. ASSUME NEW o \in Slots, NEW new, op' = [op EXCEPT ![o] = new], new.kind \notin Saving
      PROVE  \A q \in Slots : op'[q] = op[q] \/ op'[q].kind \notin Saving
  BY <1>0, <1>1
<1>2. ASSUME NEW o \in Slots, Finished(o)
      PROVE  \A q \in Slots : op'[q] = op[q] \/ op'[q].kind \notin Saving
  <2>1. Idle.kind \notin Saving
    BY DEF Idle, Saving
  <2>2. QED BY <1>1, <1>2, <2>1 DEF Finished
<1>3. ASSUME NEW o \in Slots, op[o].step \in ImportPath \cup JobPath,
             \E step, data : \/ op' = [op EXCEPT ![o].step = step]
                             \/ op' = [op EXCEPT ![o].data = data, ![o].step = step]
      PROVE  \A q \in Slots : op'[q] = op[q] \/ op'[q].kind \notin Saving
  <2>1. op[o].kind \notin Saving
    BY <1>0, <1>3 DEF ImportPath, JobPath, CloudPath, CloudKinds, Saving
  <2>2. op'[o].kind = op[o].kind /\ \A q \in Slots \ {o} : op'[q] = op[q]
    BY <1>0, <1>3 DEF Ops
  <2>3. QED BY <2>1, <2>2
<1> USE DEF At, ImportPath, JobPath
<1>4. ASSUME NEW o \in Slots, ImportStep(o)
      PROVE  \A q \in Slots : op'[q] = op[q] \/ op'[q].kind \notin Saving
  <2>1. op[o].step \in ImportPath
    BY <1>4 DEF ImportStep, Enter, WithinBudget, OverBudget, Encrypt, Persist, PersistFails,
                Audit, CreateCommandJob
  <2>2. Finished(o) \/ \E step : op' = [op EXCEPT ![o].step = step]
    BY <1>4 DEF ImportStep, Enter, WithinBudget, OverBudget, Encrypt, Persist, PersistFails,
                Audit, CreateCommandJob, Goto
  <2>3. QED BY <1>2, <1>3, <2>1, <2>2
<1>5. ASSUME NEW o \in Slots, GetStep(o)
      PROVE  \A q \in Slots : op'[q] = op[q] \/ op'[q].kind \notin Saving
  <2>1. op[o].step \in ImportPath \cup JobPath
    BY <1>5 DEF GetStep, ReadIndex, KeepIndex, UseCache
  <2>2. \E step, data : op' = [op EXCEPT ![o].data = data, ![o].step = step]
    BY <1>5 DEF GetStep, ReadIndex, KeepIndex, UseCache
  <2>3. QED BY <1>3, <2>1, <2>2
<1>6. ASSUME NEW o \in Slots, JobStep(o) \/ StepFails(o)
      PROVE  \A q \in Slots : op'[q] = op[q] \/ op'[q].kind \notin Saving
  <2>1. op[o].step \in ImportPath \cup JobPath
    BY <1>6 DEF JobStep, NotFound, LeasePlain, Decrypt, Materialize, DecryptFails,
                Transcribed, StepFails
  <2>2. \/ Finished(o) \/ \E step : op' = [op EXCEPT ![o].step = step]
        \/ \E step, data : op' = [op EXCEPT ![o].data = data, ![o].step = step]
    BY <1>6 DEF JobStep, NotFound, LeasePlain, Decrypt, Materialize, DecryptFails,
                Transcribed, StepFails, Goto
  <2>3. QED BY <1>2, <1>3, <2>1, <2>2
<1>7. ASSUME NEW o \in Slots, NEW a \in Assets,
             \/ StartJob(o, a) \/ StartCommand(o, a)
             \/ \E kind \in {"import", "process"} : StartImport(o, kind, a)
      PROVE  \A q \in Slots : op'[q] = op[q] \/ op'[q].kind \notin Saving
  <2> DEFINE new(kind, step) == [Idle EXCEPT !.kind = kind, !.step = step, !.asset = a]
  <2>1. \A kind \in LibraryKinds, step \in {"queued", "find"} : new(kind, step).kind \notin Saving
    BY DEF Idle, LibraryKinds, Saving
  <2> HIDE DEF new
  <2>2. \E kind \in LibraryKinds, step \in {"queued", "find"} :
          op' = [op EXCEPT ![o] = new(kind, step)]
    BY <1>7 DEF StartJob, StartCommand, StartImport, Begin, Start, new, LibraryKinds
  <2>3. QED BY <1>1, <2>1, <2>2
<1>8. CASE SixHours
  BY <1>8 DEF SixHours
<1>9. QED BY <1>4, <1>5, <1>6, <1>7, <1>8 DEF LibraryStep

\* The session only moves forward.
LEMMA NextForward ==
    GuardInv /\ SessionInv /\ [DesktopNext]_desktopVars =>
        SessionInv' /\ [beside \/ Forward]_desktopVars
<1> SUFFICES ASSUME GuardInv, SessionInv, [DesktopNext]_desktopVars
             PROVE  SessionInv' /\ [beside \/ Forward]_desktopVars
  OBVIOUS
<1>0. /\ op \in [Slots -> Ops] /\ op' \in [Slots -> Ops]
      /\ request \in [Slots -> Requests] /\ version \in [Accounts -> Nat]
      /\ \A a \in Accounts : version[a] <= version[a]
  <2>1. Typed /\ Typed' /\ SessionTyped
    BY NextGuard DEF GuardInv, SessionInv
  <2>2. QED BY <2>1 DEF Typed, SessionTyped
<1>1. CASE UNCHANGED desktopVars
  BY <1>1 DEF desktopVars, libraryVars, cloudVars, SessionInv, SessionTyped, Named, Issued,
              Known, Alone, Newest
<1>2. CASE LibraryStep /\ UNCHANGED cloudVars
  <2>1. UNCHANGED <<session, request, version, beside>>
    BY <1>2 DEF cloudVars
  <2>2. \A q \in Slots :
          \/ op'[q].kind \notin Saving
          \/ /\ op'[q].kind = op[q].kind /\ op'[q].step = op[q].step
             /\ request'[q].token = request[q].token
    BY <1>2, <2>1, LibraryIsNoRequest
  <2>3. QED BY <1>0, <2>1, <2>2, NoAnswer
<1>3. ASSUME NEW p \in Processes, Crash(p), CloudCrash(p)
      PROVE  SessionInv' /\ (beside \/ Forward)
  <2> DEFINE lost == {o \in Slots : op[o] # Idle /\ Process(o) = p}
             saving == {o \in lost : op[o].kind \in Saving /\ op[o].step = "answered"}
  <2>1. /\ op' = [o \in Slots |-> IF o \in lost THEN Idle ELSE op[o]]
        /\ request' = [o \in Slots |-> IF o \in lost THEN NoRequest ELSE request[o]]
        /\ session' \in {session} \cup UNION {{NoToken, request[o].token} : o \in saving}
        /\ UNCHANGED <<version, beside>>
    BY <1>3 DEF Crash, CloudCrash, At, Saving
  <2>2. /\ Idle.kind \notin Saving /\ NoRequest \in Requests /\ NoRequest.token = NoToken
    BY DEF Idle, Saving, NoRequest, Requests, NoToken, Tokens
  <2>3. /\ session' \in {session, NoToken} \/ \E s \in saving : session' = request[s].token
    BY <2>1
  <2>4. \A s \in saving : /\ s \in Slots /\ op[s].kind \in Saving /\ op[s].step = "answered"
                          /\ op'[s].kind \notin Saving
    BY <2>1, <2>2
  <2>5. \A q \in Slots : /\ request'[q].token \in {request[q].token, NoToken, session}
                         /\ \/ op'[q].kind \notin Saving
                            \/ /\ op'[q].kind = op[q].kind /\ op'[q].step = op[q].step
                               /\ request'[q].token = request[q].token
    BY <2>1, <2>2
  <2>6. request' \in [Slots -> Requests]
    BY <1>0, <2>1, <2>2
  <2> HIDE DEF lost, saving
  <2>7. QED BY <1>0, <2>1, <2>3, <2>4, <2>5, <2>6, NoAnswer
<1>4. CASE \E o \in Slots : SessionStep(o) \/ UploadStep(o)
  BY <1>4, RequestForward
<1>5. CASE NotConfigured \/ (\E a \in Accounts : Elsewhere(a)) \/ \E j \in Jobs : JobEnds(j)
  <2>1. UNCHANGED <<op, session, request, beside>>
    BY <1>5 DEF NotConfigured, Elsewhere, JobEnds, libraryVars
  <2>2. \/ UNCHANGED version
        \/ \E a \in Accounts : version' = [version EXCEPT ![a] = @ + 1]
    BY <1>5 DEF NotConfigured, Elsewhere, JobEnds, Bump
  <2>3. version' \in [Accounts -> Nat] /\ \A a \in Accounts : version[a] <= version'[a]
    BY <1>0, <2>2
  <2>4. QED BY <1>0, <2>1, <2>3, NoAnswer
<1>6. QED BY <1>1, <1>2, <1>3, <1>4, <1>5 DEF DesktopNext

\* As long as no login and no redeemed link began beside a password change, the application
\* never puts an older session of an account back over a newer one (loginCloudflare,
\* completeCloudflareTokenPasswordAction and changeCloudflarePassword save what they were
\* answered; cloudflareAuthPending, and the condition on session_version, keep them apart).
THEOREM SessionMovesForward == DesktopSpec => SessionGoesForward
<1>1. DesktopInit => SessionInv
  <2>1. SUFFICES ASSUME DesktopInit PROVE SessionInv
    OBVIOUS
  <2>2. /\ NoToken \in Tokens /\ NoRequest \in Requests /\ NoRequest.token = NoToken
        /\ NoToken.account = None /\ None \notin Accounts
    BY CloudAssumption DEF NoToken, Tokens, NoRequest, Requests
  <2>3. /\ session = NoToken /\ request = [o \in Slots |-> NoRequest]
        /\ version = [a \in Accounts |-> 1] /\ beside = FALSE
        /\ \A o \in Slots : op[o].kind \notin Saving
    BY <2>1 DEF DesktopInit, LibraryInit, Idle, Saving
  <2>4. SessionTyped
    BY <2>2, <2>3 DEF SessionTyped
  <2>5. Issued
    BY <2>2, <2>3 DEF Issued, Known
  <2>6. Named /\ Alone /\ Newest
    BY <2>3 DEF Named, Alone, Newest, Saving
  <2>7. QED BY <2>4, <2>5, <2>6 DEF SessionInv
<1>2. QED
  BY <1>1, InitGuard, NextGuard, NextForward, PTL DEF DesktopSpec, SessionGoesForward
=============================================================================
