----------------------------- MODULE DiskProofs -----------------------------
(***************************************************************************)
(* Proofs about the diff baselines, for any repositories, any number of    *)
(* commits and any number of starts of the bridge; about the managed       *)
(* skills, for any skills, boots, failures and power failures; and about   *)
(* collections, for any repositories, paths, limits, failures and changes  *)
(* to the checkouts meanwhile.                                             *)
(***************************************************************************)
EXTENDS Disk, SortedProofs, FiniteSetTheorems, SequenceTheorems, WellFoundedInduction, TLAPS

---------------------------------------------------------------------------
(* Baselines: the invariant the property rests on.                         *)

AllTyped ==
    /\ TypeOK
    /\ records \in [Repos -> Entries]
    /\ used \in [Repos -> {None} \cup 1..MaxHead]
    /\ here \in [Repos -> {None} \cup 1..MaxHead]
    /\ phase \in {"down", "resolve", "manifest", "list", "run"}
    /\ unread \in BOOLEAN /\ lost \in BOOLEAN /\ anew \in BOOLEAN /\ torn \in BOOLEAN
    /\ lost => phase \in {"down", "list", "run"}

\* The two readers agree on every entry of either file.
Unmixed == \A r \in Repos : ~Mixed(list[r]) /\ ~Mixed(manifest[r]) /\ ~Mixed(records[r])

\* What is about to be written: the manifest with its gaps filled.
Planned ==
    phase \in {"manifest", "list"} =>
      \A r \in Repos :
        /\ phase = "manifest" =>
             records[r] = IF resolved[r] # None THEN SetBaseline(manifest[r], resolved[r]) ELSE manifest[r]
        /\ phase = "manifest" /\ resolved[r] # None => BaselineOf(manifest[r]) = None
        /\ phase = "list" /\ resolved[r] # None =>
             BaselineOf(manifest[r]) = IF lost THEN None ELSE resolved[r]

\* What a capture used on this machine stays the manifest's baseline, always.
HereStands == \A r \in Repos : here[r] # None => BaselineOf(manifest[r]) = here[r]

\* The files agree, but for what the list has still to be given and what the
\* manifest was not.
Straight == ~torn /\ ~anew
InStep ==
    Straight => \A r \in Repos :
        \/ BaselineOf(list[r]) = BaselineOf(manifest[r])
        \/ phase = "list" /\ BaselineOf(list[r]) = None /\ resolved[r] # None
        \/ lost /\ phase \in {"down", "run"} /\ BaselineOf(manifest[r]) = None

\* What a capture used on any machine stays it.
UsedStands ==
    Straight => \A r \in Repos : used[r] # None => BaselineOf(manifest[r]) = used[r]

\* A gap is left only until the first start, and so is filled before any commit,
\* in the list if not in the manifest.
GapsFilled ==
    ~unread => \A r \in Repos :
        /\ phase \in {"list", "run"} /\ ~lost => BaselineOf(manifest[r]) # None
        /\ phase \in {"manifest", "list"} => BaselineOf(manifest[r]) # None \/ resolved[r] # None
        /\ Straight => \/ BaselineOf(manifest[r]) = 1
                       \/ BaselineOf(manifest[r]) = None /\ (lost \/ head[r] = 1)
        /\ Straight => \/ BaselineOf(list[r]) = 1
                       \/ BaselineOf(list[r]) = None /\ head[r] = 1 /\ phase # "run"

FromStart ==
    ~unread /\ Straight => \A r \in Repos :
        /\ used[r] \in {None, 1}
        /\ resolved[r] # None /\ phase \in {"manifest", "list"} => resolved[r] = 1

IInv == AllTyped /\ Unmixed /\ Planned /\ HereStands /\ InStep /\ UsedStands /\ GapsFilled /\ FromStart

---------------------------------------------------------------------------
(* Baselines: the readers.                                                 *)

\* A baseline that is found is a commit.
LEMMA BaselineTyped ==
    ASSUME NEW e \in Entries PROVE BaselineOf(e) \in {None} \cup 1..MaxHead
BY BoundsAssumption DEF Entries, BaselineOf

\* Both readers find the same, but on a mixed entry.
LEMMA ReadersAgree ==
    ASSUME NEW e \in Entries, ~Mixed(e) PROVE BaseSHA(e) = BaselineOf(e)
BY ValuesAssumption DEF Entries, BaselineOf, BaseSHA, Mixed

\* An entry that is given a baseline has it, and is not mixed.
LEMMA SetBaselineFound ==
    ASSUME NEW e \in Entries, NEW n \in 1..MaxHead
    PROVE  /\ SetBaseline(e, n) \in Entries
           /\ BaselineOf(SetBaseline(e, n)) = n
           /\ ~Mixed(SetBaseline(e, n))
<1>1. SetBaseline(e, n) = [snake |-> n, camel |-> e.camel] /\ e.camel \in {None, Bad, 1}
  BY DEF SetBaseline, Entries
<1>2. n # None /\ n # Bad
  BY ValuesAssumption
<1>. QED
  BY <1>1, <1>2 DEF Entries, BaselineOf, Mixed

---------------------------------------------------------------------------
(* Baselines: initially, and each step.                                    *)

LEMMA InitInv == UnmixedSupply /\ Init => IInv
<1>. SUFFICES ASSUME UnmixedSupply, Init PROVE IInv
  OBVIOUS
<1>1. \A r \in Repos : list[r] \in Supplied /\ list[r] \in [snake : {None, Bad, 1}, camel : {None, Bad, 1}]
  BY SuppliedAssumption DEF Init
<1>2. AllTyped
  <2>1. 1 \in 1..MaxHead
    BY BoundsAssumption
  <2>2. \A r \in Repos : list[r] \in Entries
    BY <1>1, <2>1 DEF Entries
  <2>3. list \in [Repos -> Entries]
    BY <2>2 DEF Init
  <2>. QED
    BY <2>1, <2>3 DEF Init, AllTyped, TypeOK
<1>3. Unmixed
  BY <1>1 DEF Init, UnmixedSupply, Unmixed
<1>4. \A r \in Repos : BaselineOf(list[r]) \in {None, 1}
  BY <1>1 DEF BaselineOf
<1>. QED
  BY <1>2, <1>3, <1>4 DEF Init, IInv, Planned, HereStands, Straight, InStep, UsedStands, GapsFilled, FromStart

LEMMA StartStep ==
    ASSUME IInv, NEW resume \in BOOLEAN, Start(resume) PROVE IInv'
<1>1. AllTyped' /\ Unmixed'
  BY DEF IInv, AllTyped, TypeOK, Unmixed, Start
<1>2. Planned' /\ HereStands'
  BY DEF IInv, Planned, HereStands, Start
<1>3. Straight' => Straight /\ (resume \/ ~lost) /\ phase = "down"
  BY DEF Start, Straight
<1>4. Straight' => \A r \in Repos :
        /\ BaselineOf(list'[r]) = BaselineOf(list[r]) /\ BaselineOf(manifest'[r]) = BaselineOf(list[r])
        /\ used[r] # None => BaselineOf(list[r]) = used[r]
  BY <1>3 DEF IInv, InStep, UsedStands, Start
<1>5. InStep' /\ UsedStands'
  BY <1>4 DEF InStep, UsedStands, Start
<1>6. GapsFilled' /\ FromStart'
  BY <1>3, <1>4 DEF IInv, GapsFilled, FromStart, Straight, usedVars, Start
<1>. QED
  BY <1>1, <1>2, <1>5, <1>6 DEF IInv

LEMMA ResolveStep ==
    ASSUME IInv, ResolveBaselines PROVE IInv'
<1>. PICK readable \in SUBSET Repos :
        /\ unread' = (unread \/ readable # Repos)
        /\ resolved' = Resolve(readable)
  BY DEF ResolveBaselines
<1>1. /\ phase = "resolve" /\ UNCHANGED <<fileVars, head, boots, usedVars, lost, anew, torn>>
      /\ records' = [r \in Repos |-> IF resolved'[r] # None THEN SetBaseline(manifest[r], resolved'[r]) ELSE manifest[r]]
      /\ phase' = IF \A r \in Repos : resolved'[r] = None THEN "run" ELSE "manifest"
  BY DEF ResolveBaselines
<1>2. \A r \in Repos :
        /\ resolved'[r] \in {None} \cup 1..MaxHead
        /\ resolved'[r] # None => BaselineOf(manifest[r]) = None /\ resolved'[r] = head[r]
        /\ r \in readable /\ BaselineOf(manifest[r]) = None => resolved'[r] = head[r] /\ resolved'[r] # None
  BY ValuesAssumption, BoundsAssumption DEF Resolve, IInv, AllTyped, TypeOK
<1>3. \A r \in Repos : manifest[r] \in Entries /\ ~Mixed(manifest[r]) /\ head[r] \in 1..MaxHead
  BY DEF IInv, AllTyped, TypeOK, Unmixed
<1>4. AllTyped' /\ Unmixed'
  <2>1. \A r \in Repos : records'[r] \in Entries /\ ~Mixed(records'[r])
    BY <1>1, <1>2, <1>3, SetBaselineFound
  <2>2. resolved' \in [Repos -> {None} \cup 1..MaxHead]
    BY <1>2 DEF Resolve
  <2>. QED
    BY <1>1, <2>1, <2>2 DEF IInv, AllTyped, TypeOK, Unmixed, usedVars, fileVars
<1>5. Planned' /\ HereStands' /\ InStep' /\ UsedStands'
  BY <1>1, <1>2 DEF IInv, Planned, HereStands, Straight, InStep, UsedStands, usedVars, fileVars
<1>6. GapsFilled'
  <2>. SUFFICES ASSUME ~unread', NEW r \in Repos
                PROVE /\ phase' = "run" => BaselineOf(manifest[r]) # None
                      /\ BaselineOf(manifest[r]) # None \/ resolved'[r] # None
                      /\ Straight => \/ BaselineOf(manifest[r]) = 1
                                     \/ BaselineOf(manifest[r]) = None /\ head[r] = 1
                      /\ Straight => \/ BaselineOf(list[r]) = 1
                                     \/ BaselineOf(list[r]) = None /\ head[r] = 1 /\ phase' # "run"
    BY <1>1 DEF GapsFilled, Straight, fileVars
  <2>1. BaselineOf(manifest[r]) # None \/ resolved'[r] # None
    BY <1>2
  <2>2. phase' = "run" => BaselineOf(manifest[r]) # None
    BY <1>1, <2>1
  <2>3. ~lost /\ ~unread
    BY <1>1 DEF IInv, AllTyped
  <2>4. Straight => /\ BaselineOf(list[r]) = BaselineOf(manifest[r])
                    /\ \/ BaselineOf(manifest[r]) = 1
                       \/ BaselineOf(manifest[r]) = None /\ head[r] = 1
    BY <1>1, <2>3 DEF IInv, InStep, GapsFilled
  <2>. QED
    BY <2>1, <2>2, <2>4
<1>7. FromStart'
  <2>. SUFFICES ASSUME ~unread', Straight, NEW r \in Repos
                PROVE used[r] \in {None, 1} /\ (resolved'[r] # None => resolved'[r] = 1)
    BY <1>1 DEF FromStart, Straight, usedVars
  <2>1. ~unread /\ ~lost
    BY <1>1 DEF IInv, AllTyped
  <2>2. used[r] \in {None, 1}
    BY <2>1 DEF IInv, FromStart
  <2>3. BaselineOf(manifest[r]) = None => head[r] = 1
    BY <2>1, ValuesAssumption DEF IInv, GapsFilled
  <2>. QED
    BY <1>2, <2>2, <2>3
<1>. QED
  BY <1>4, <1>5, <1>6, <1>7 DEF IInv

LEMMA WriteManifestStep ==
    ASSUME IInv, WriteManifest PROVE IInv'
<1>1. /\ phase = "manifest" /\ phase' = "list"
      /\ UNCHANGED <<list, head, records, resolved, boots, usedVars, unread, anew, torn>>
      /\ \/ manifest' = records /\ UNCHANGED lost
         \/ UNCHANGED manifest /\ lost' = TRUE
  BY DEF WriteManifest
<1>2. ~lost
  BY <1>1 DEF IInv, AllTyped
<1>3. \A r \in Repos :
        /\ resolved[r] # None =>
             /\ BaselineOf(manifest[r]) = None
             /\ BaselineOf(manifest'[r]) = IF lost' THEN None ELSE resolved[r]
        /\ resolved[r] = None => manifest'[r] = manifest[r]
  <2>. SUFFICES ASSUME NEW r \in Repos
                PROVE /\ resolved[r] # None =>
                           /\ BaselineOf(manifest[r]) = None
                           /\ BaselineOf(manifest'[r]) = IF lost' THEN None ELSE resolved[r]
                      /\ resolved[r] = None => manifest'[r] = manifest[r]
    OBVIOUS
  <2>1. manifest[r] \in Entries /\ resolved[r] \in {None} \cup 1..MaxHead
    BY DEF IInv, AllTyped, TypeOK
  <2>2. resolved[r] # None => BaselineOf(manifest[r]) = None /\ BaselineOf(records[r]) = resolved[r]
    BY <1>1, <2>1, SetBaselineFound DEF IInv, Planned
  <2>3. resolved[r] = None => records[r] = manifest[r]
    BY <1>1 DEF IInv, Planned
  <2>. QED
    BY <1>1, <1>2, <2>2, <2>3
<1>4. AllTyped' /\ Unmixed'
  BY <1>1 DEF IInv, AllTyped, TypeOK, Unmixed, usedVars
<1>5. Planned' /\ HereStands'
  BY <1>1, <1>3 DEF IInv, Planned, HereStands, usedVars
<1>6. InStep' /\ UsedStands'
  BY <1>1, <1>2, <1>3 DEF IInv, Straight, InStep, UsedStands, usedVars
<1>7. GapsFilled'
  BY <1>1, <1>2, <1>3 DEF IInv, GapsFilled, FromStart, Straight
<1>8. FromStart'
  BY <1>1 DEF IInv, FromStart, Straight, usedVars
<1>. QED
  BY <1>4, <1>5, <1>6, <1>7, <1>8 DEF IInv

LEMMA WriteListStep ==
    ASSUME IInv, WriteList PROVE IInv'
<1>1. /\ phase = "list" /\ phase' = "run"
      /\ UNCHANGED <<manifest, head, records, resolved, boots, usedVars, unread, lost, anew>>
      /\ \/ list' = ApplyToList /\ UNCHANGED torn
         \/ UNCHANGED list /\ torn' = TRUE
  BY DEF WriteList
<1>2. \A r \in Repos :
        /\ list'[r] \in Entries /\ ~Mixed(list'[r])
        /\ Straight' => Straight /\ BaselineOf(list'[r]) = IF BaselineOf(list[r]) = None THEN resolved[r]
                                                          ELSE BaselineOf(list[r])
  <2>. SUFFICES ASSUME NEW r \in Repos
                PROVE /\ list'[r] \in Entries /\ ~Mixed(list'[r])
                      /\ Straight' => /\ Straight
                                      /\ BaselineOf(list'[r]) = IF BaselineOf(list[r]) = None THEN resolved[r]
                                                                ELSE BaselineOf(list[r])
    OBVIOUS
  <2>1. list[r] \in Entries /\ ~Mixed(list[r]) /\ resolved[r] \in {None} \cup 1..MaxHead
    BY DEF IInv, AllTyped, TypeOK, Unmixed
  <2>2. CASE list' = ApplyToList /\ UNCHANGED torn /\ BaselineOf(list[r]) = None /\ resolved[r] # None
    <3>1. list'[r] = SetBaseline(list[r], resolved[r])
      BY <2>2 DEF ApplyToList
    <3>. QED
      BY <1>1, <2>1, <2>2, <3>1, SetBaselineFound DEF Straight
  <2>3. CASE list' = ApplyToList /\ UNCHANGED torn /\ ~(BaselineOf(list[r]) = None /\ resolved[r] # None)
    <3>1. list'[r] = list[r]
      BY <2>3 DEF ApplyToList
    <3>. QED
      BY <1>1, <2>1, <2>3, <3>1 DEF Straight
  <2>. QED
    BY <1>1, <2>1, <2>2, <2>3 DEF Straight
<1>3. AllTyped' /\ Unmixed'
  <2>1. list' \in [Repos -> Entries] /\ torn' \in BOOLEAN
    BY <1>1, <1>2 DEF ApplyToList, IInv, AllTyped, TypeOK
  <2>. QED
    BY <1>1, <1>2, <2>1 DEF IInv, AllTyped, TypeOK, Unmixed, usedVars
<1>4. Planned' /\ HereStands' /\ UsedStands'
  BY <1>1, <1>2 DEF IInv, Planned, HereStands, Straight, UsedStands, usedVars
<1>5. InStep'
  <2>. SUFFICES ASSUME Straight', NEW r \in Repos
                PROVE \/ BaselineOf(list'[r]) = BaselineOf(manifest[r])
                      \/ lost /\ BaselineOf(manifest[r]) = None
    BY <1>1 DEF InStep
  <2>1. \/ BaselineOf(list[r]) = BaselineOf(manifest[r])
        \/ BaselineOf(list[r]) = None /\ resolved[r] # None
    BY <1>1, <1>2 DEF IInv, InStep
  <2>2. resolved[r] # None => BaselineOf(manifest[r]) = IF lost THEN None ELSE resolved[r]
    BY <1>1 DEF IInv, Planned
  <2>. QED
    BY <1>2, <2>1, <2>2
<1>6. GapsFilled'
  <2>. SUFFICES ASSUME ~unread, NEW r \in Repos
                PROVE /\ ~lost => BaselineOf(manifest[r]) # None
                      /\ Straight' => \/ BaselineOf(manifest[r]) = 1
                                      \/ BaselineOf(manifest[r]) = None /\ (lost \/ head[r] = 1)
                      /\ Straight' => BaselineOf(list'[r]) = 1
    BY <1>1 DEF GapsFilled
  <2>1. ~lost => BaselineOf(manifest[r]) # None
    BY <1>1 DEF IInv, GapsFilled
  <2>2. Straight' => \/ BaselineOf(manifest[r]) = 1
                     \/ BaselineOf(manifest[r]) = None /\ (lost \/ head[r] = 1)
    BY <1>2 DEF IInv, GapsFilled
  <2>3. ASSUME Straight' PROVE BaselineOf(list'[r]) = 1
    <3>1. resolved[r] \in {None, 1} /\ BaselineOf(list[r]) \in {None, 1}
      BY <1>1, <1>2, <2>3 DEF IInv, GapsFilled, FromStart
    <3>2. BaselineOf(manifest[r]) # None \/ resolved[r] # None
      BY <1>1 DEF IInv, GapsFilled
    <3>3. BaselineOf(list[r]) # None \/ resolved[r] # None
      BY <1>1, <1>2, <2>3, <3>2 DEF IInv, InStep
    <3>. QED
      BY <1>2, <2>3, <3>1, <3>3
  <2>. QED
    BY <2>1, <2>2, <2>3
<1>7. FromStart'
  BY <1>1, <1>2 DEF IInv, FromStart, usedVars
<1>. QED
  BY <1>3, <1>4, <1>5, <1>6, <1>7 DEF IInv

LEMMA CaptureStep ==
    ASSUME IInv, Capture PROVE IInv'
<1>1. /\ phase = "run" /\ UNCHANGED <<fileVars, head, phase, records, resolved, boots, faultVars>>
      /\ used' = FirstUsed(used) /\ here' = FirstUsed(here)
  BY DEF Capture
<1>2. \A r \in Repos :
        /\ BaseSHA(manifest[r]) = BaselineOf(manifest[r])
        /\ BaselineOf(manifest[r]) \in {None} \cup 1..MaxHead
  BY ReadersAgree, BaselineTyped DEF IInv, AllTyped, TypeOK, Unmixed
<1>3. \A r \in Repos :
        /\ used'[r] = IF used[r] = None THEN BaselineOf(manifest[r]) ELSE used[r]
        /\ here'[r] = IF here[r] = None THEN BaselineOf(manifest[r]) ELSE here[r]
  BY <1>1, <1>2 DEF FirstUsed
<1>4. AllTyped' /\ Unmixed'
  <2>1. used' \in [Repos -> {None} \cup 1..MaxHead] /\ here' \in [Repos -> {None} \cup 1..MaxHead]
    BY <1>1, <1>2, <1>3 DEF IInv, AllTyped, FirstUsed
  <2>. QED
    BY <1>1, <2>1 DEF IInv, AllTyped, TypeOK, Unmixed, fileVars, faultVars
<1>5. Planned' /\ HereStands' /\ InStep' /\ UsedStands'
  BY <1>1, <1>3 DEF IInv, Planned, HereStands, Straight, InStep, UsedStands, fileVars, faultVars
<1>6. GapsFilled' /\ FromStart'
  BY <1>1, <1>3 DEF IInv, GapsFilled, FromStart, Straight, fileVars, faultVars
<1>. QED
  BY <1>4, <1>5, <1>6 DEF IInv

LEMMA CommitStep ==
    ASSUME IInv, NEW c \in Repos, Commit(c) PROVE IInv'
<1>1. /\ phase = "run" /\ head[c] < MaxHead /\ head' = [head EXCEPT ![c] = @ + 1]
      /\ UNCHANGED <<fileVars, phase, records, resolved, boots, usedVars, faultVars>>
  BY DEF Commit
<1>2. head' \in [Repos -> 1..MaxHead]
  BY <1>1, BoundsAssumption DEF IInv, AllTyped, TypeOK
<1>3. AllTyped' /\ Unmixed'
  BY <1>1, <1>2 DEF IInv, AllTyped, TypeOK, Unmixed, usedVars, fileVars, faultVars
<1>4. Planned' /\ HereStands' /\ InStep' /\ UsedStands' /\ FromStart'
  BY <1>1 DEF IInv, Planned, HereStands, InStep, UsedStands, FromStart, Straight, usedVars, fileVars, faultVars
<1>5. GapsFilled'
  <2>1. ~unread => \A r \in Repos :
          /\ ~lost => BaselineOf(manifest[r]) # None
          /\ Straight => BaselineOf(list[r]) = 1
    BY <1>1 DEF IInv, GapsFilled
  <2>. QED
    BY <1>1, <2>1 DEF IInv, GapsFilled, Straight, fileVars, faultVars
<1>. QED
  BY <1>3, <1>4, <1>5 DEF IInv

LEMMA DieStep ==
    ASSUME IInv, Die PROVE IInv'
<1>1. /\ phase # "down" /\ phase' = "down" /\ torn' = (torn \/ phase = "list")
      /\ UNCHANGED <<fileVars, head, records, resolved, boots, usedVars, unread, lost, anew>>
  BY DEF Die
<1>2. AllTyped' /\ Unmixed'
  BY <1>1 DEF IInv, AllTyped, TypeOK, Unmixed, usedVars, fileVars
<1>3. Planned' /\ HereStands' /\ InStep' /\ UsedStands'
  BY <1>1 DEF IInv, Planned, HereStands, Straight, InStep, UsedStands, usedVars, fileVars
<1>4. GapsFilled' /\ FromStart'
  BY <1>1 DEF IInv, GapsFilled, FromStart, Straight, usedVars, fileVars
<1>. QED
  BY <1>2, <1>3, <1>4 DEF IInv

---------------------------------------------------------------------------
(* Baselines: the theorem.                                                 *)

\* The invariant gives the parts of the property.
LEMMA InvImplies == IInv => BaselineKept
<1>. SUFFICES ASSUME IInv PROVE BaselineKept
  OBVIOUS
<1>1. \A r \in Repos : BaseSHA(manifest[r]) = BaselineOf(manifest[r])
  BY ReadersAgree DEF IInv, AllTyped, TypeOK, Unmixed
<1>. QED
  BY <1>1 DEF IInv, AllTyped, HereStands, Straight, UsedStands, GapsFilled, FromStart,
              BaselineKept, MachineKeeps, BaselineFixed, BaselineIsStart, EveryReaderFindsOne

\* Diffs are against the commit the session started from, all its life: what a
\* capture used stays the baseline on its machine whatever write fails and wherever
\* the bridge dies, and through any number of restarts and resumes where both files
\* were written or a resume came next; a start fills every gap it can, and both
\* readers find the same (baseline.go:30-60, 80-87).  UnmixedSupply is what
\* EveryReaderFindsOne needs of the control plane.
THEOREM BaselinesKept == UnmixedSupply => (Spec => []BaselineKept)
<1>. SUFFICES ASSUME UnmixedSupply PROVE Spec => []BaselineKept
  OBVIOUS
<1>1. Init => IInv
  BY InitInv
<1>2. IInv /\ [Next]_vars => IInv'
  <2>. SUFFICES ASSUME IInv, [Next]_vars PROVE IInv'
    OBVIOUS
  <2>1. CASE UNCHANGED vars
    BY <2>1 DEF vars, fileVars, usedVars, faultVars, IInv, AllTyped, TypeOK, Unmixed, Planned,
                HereStands, Straight, InStep, UsedStands, GapsFilled, FromStart
  <2>. QED
    BY <2>1, StartStep, ResolveStep, WriteManifestStep, WriteListStep, CaptureStep, CommitStep, DieStep DEF Next
<1>. QED
  BY <1>1, <1>2, InvImplies, PTL DEF Spec

---------------------------------------------------------------------------
(* Managed skills: what is on the disk.                                    *)

Changes == {"mkdir", "fill", "journal", "unjournal", "aside", "back", "in",
            "spoilBackup", "spoilStaging", "rmBackup", "rmStaging"}

NoTree == I!NoTree
Trees == I!Trees
FileSystems == [dest : Trees, staging : Trees, backup : Trees, journal : BOOLEAN]

\* The last tree installed, or a later one, is in place, or it is the backup
\* and the journal says so, or a rollback left it there.
Exposures == {"no", "aside", "void"}
Safe(f) ==
    /\ f.dest # NoTree => I!Last(f.dest)
    /\ f.dest = NoTree /\ f.backup # NoTree => I!Last(f.backup) /\ (f.journal \/ exposed = "aside")
    /\ f.dest = NoTree /\ f.backup = NoTree => kept = 0

OnDisk ==
    /\ fs \in maybe /\ maybe \subseteq FileSystems /\ unsynced \subseteq Changes
    /\ installs \in 0..MaxInstalls /\ kept \in 0..installs /\ exposed \in Exposures

\* So is what a power failure leaves, unless the promise is void.
NeverLost ==
    exposed # "void" => Safe(fs) /\ (~I!Unsynced => \A f \in maybe : Safe(f))

\* A tree in place is in place whatever is lost, until the next one moves in;
\* and where no tree ever was there is none.
InPlace ==
    /\ {"in", "back"} \cap unsynced = {} /\ fs.dest # NoTree => \A f \in maybe : f.dest = fs.dest
    /\ exposed # "void" /\ fs.dest = NoTree /\ fs.backup = NoTree =>
          \A f \in maybe : f.dest = NoTree /\ f.backup = NoTree

DiskInv == OnDisk /\ NeverLost /\ InPlace

---------------------------------------------------------------------------
(* Managed skills: what is left to do.                                     *)

RmS == <<"spoilStaging", "rmStaging">>
RmB == <<"spoilBackup", "rmBackup">>
Close == <<"unjournal", "fsync">>

\* A repair: what is still there has its removal ahead, and a backup that goes
\* is not the last tree.
NoStaging == fs.staging = NoTree
NoBackup == fs.backup = NoTree
NotTheLast == fs.dest # NoTree \/ exposed = "void"
Repairing ==
    \/ todo \in {<<>>, <<"fsync">>} /\ NoStaging /\ NoBackup /\ ~fs.journal
    \/ todo = Close /\ NoStaging /\ NoBackup
    \/ todo \in {RmS \o Close, <<"rmStaging">> \o Close} /\ NoBackup
    \/ todo \in {RmB \o Close, <<"rmBackup">> \o Close} /\ NoStaging /\ NotTheLast
    \/ todo \in {RmB \o (RmS \o Close), <<"rmBackup">> \o (RmS \o Close)} /\ NotTheLast
    \/ todo = <<"back">> \o Close /\ NoStaging /\ fs.dest = NoTree /\ ~NoBackup
    \/ todo = <<"back">> \o (RmS \o Close) /\ fs.dest = NoTree /\ ~NoBackup
    \/ todo \in {RmS, <<"rmStaging">>} /\ NoBackup /\ ~fs.journal
    \/ todo \in {RmB, <<"rmBackup">>} /\ NoStaging /\ NotTheLast /\ ~fs.journal
    \/ todo \in {RmS \o RmB, <<"rmStaging">> \o RmB} /\ NotTheLast /\ ~fs.journal

\* A swap, after its first steps: where no tree was, and where one was.
MoveIn == <<"in", "fsync">> \o Close
MoveOver == <<"in", "fsync">> \o (RmB \o Close)
MoveAside == <<"aside", "fsync">> \o MoveOver
Rest == IF fs.dest = NoTree THEN MoveIn ELSE MoveAside

New == I!Tree(installs)
Staged == fs.staging = New /\ fs.journal
Landed == fs.dest = New /\ NoStaging
Durable == maybe = {fs}
Journalled == \A f \in maybe : f.journal
Swapping ==
    \/ todo = <<"mkdir", "fill", "journal", "fsync">> \o Rest /\ NoStaging /\ NoBackup
    \/ /\ todo = <<"fill", "journal", "fsync">> \o Rest /\ NoBackup
       /\ fs.staging = [v |-> installs, whole |-> FALSE]
    \/ todo = <<"journal", "fsync">> \o Rest /\ fs.staging = New /\ NoBackup
    \/ todo = <<"fsync">> \o Rest /\ Staged /\ NoBackup
    \/ todo = MoveAside /\ Staged /\ NoBackup /\ fs.dest # NoTree /\ Durable
    \/ todo = <<"fsync">> \o MoveOver /\ Staged /\ fs.dest = NoTree /\ ~NoBackup /\ Journalled
    \/ todo = MoveOver /\ Staged /\ fs.dest = NoTree /\ ~NoBackup /\ Durable
    \/ todo = MoveIn /\ Staged /\ fs.dest = NoTree /\ NoBackup /\ Durable
    \/ todo \in {<<"fsync">> \o (RmB \o Close), RmB \o Close, <<"rmBackup">> \o Close} /\ Landed
    \/ todo \in {<<"fsync">> \o Close, Close} /\ Landed /\ NoBackup
    \/ todo = <<"fsync">> /\ Landed /\ NoBackup /\ ~fs.journal
    \/ todo = <<>> /\ fs = I!Installed(New) /\ Durable

\* A rollback: a tree that is aside comes back first, or stays where it is.
Undo == <<"unjournal">>
PutBack == fs.dest # NoTree \/ NoBackup \/ exposed # "no"
RollingBack ==
    \/ /\ todo \in {<<"back">> \o (RmS \o Undo), <<"back">> \o Undo}
       /\ fs.dest = NoTree /\ ~NoBackup /\ Journalled /\ exposed # "aside"
    \/ todo \in {RmS \o Undo, <<"rmStaging">> \o Undo, Undo, <<>>} /\ PutBack
Stranded == fs.dest = NoTree /\ ~NoBackup /\ (fs.journal => Journalled)

AsideStays ==
    exposed = "aside" => \/ step \in {"rollback", "failed", "off", "fetched"} /\ Stranded
                         \/ step \in {"failed", "off", "fetched"} /\ Durable

OnItsWay ==
    /\ step \in {"off", "fetched", "repair", "swap", "rollback", "booted", "failed"}
    /\ wanted \subseteq Names /\ found \subseteq Discovered
    /\ step = "repair" => Repairing
    /\ step = "swap" => Swapping
    /\ step = "rollback" => RollingBack
    /\ step \notin {"repair", "swap", "rollback"} => todo = <<>>
    /\ step \notin {"off"} => installs > 0
    /\ step \in {"repair", "swap", "booted"} => ~I!Collides(wanted)
    /\ step = "booted" => fs = I!Installed(New) /\ Durable
    /\ AsideStays

SkillInv == DiskInv /\ OnItsWay

---------------------------------------------------------------------------
(* Managed skills: lists of operations.                                    *)

Ops == Changes \cup {"fsync"}
Lists == Seq(Ops)

LEMMA Front ==
    ASSUME NEW S, NEW a \in S, NEW q \in Seq(S)
    PROVE  /\ <<a>> \o q \in Seq(S) /\ <<a>> \o q # <<>>
           /\ Head(<<a>> \o q) = a /\ Tail(<<a>> \o q) = q
OBVIOUS

LEMMA FrontTwo ==
    ASSUME NEW S, NEW a \in S, NEW b \in S, NEW q \in Seq(S)
    PROVE  /\ <<a, b>> \o q \in Seq(S) /\ <<a, b>> \o q # <<>>
           /\ Head(<<a, b>> \o q) = a /\ Tail(<<a, b>> \o q) = <<b>> \o q
<1>1. Tail(<<a, b>> \o q) = <<b>> \o q
  OBVIOUS
<1>. QED
  BY <1>1

LEMMA FrontMore ==
    ASSUME NEW S, NEW a \in S, NEW b \in S, NEW c \in S, NEW d \in S, NEW q \in Seq(S)
    PROVE  /\ <<a, b, c, d>> \o q # <<>> /\ <<a, b, c>> \o q # <<>>
           /\ Head(<<a, b, c, d>> \o q) = a /\ Tail(<<a, b, c, d>> \o q) = <<b, c, d>> \o q
           /\ Head(<<a, b, c>> \o q) = a /\ Tail(<<a, b, c>> \o q) = <<b, c>> \o q
<1>1. Tail(<<a, b, c, d>> \o q) = <<b, c, d>> \o q
  OBVIOUS
<1>2. Tail(<<a, b, c>> \o q) = <<b, c>> \o q
  OBVIOUS
<1>3. <<a, b, c, d>> \o q # <<>> /\ Head(<<a, b, c, d>> \o q) = a
  OBVIOUS
<1>4. <<a, b, c>> \o q # <<>> /\ Head(<<a, b, c>> \o q) = a
  OBVIOUS
<1>. QED
  BY <1>1, <1>2, <1>3, <1>4

\* Of each list: its first operation, and what is left then.
First(q, op, rest) == op \in Ops /\ q \in Lists /\ q # <<>> /\ Head(q) = op /\ Tail(q) = rest

LEMMA Lone == \A op \in Ops : First(<<op>>, op, <<>>)
BY DEF First, Lists

LEMMA Prefix ==
    ASSUME NEW op \in Ops, NEW q \in Lists
    PROVE  First(<<op>> \o q, op, q)
BY Front DEF First, Lists

LEMMA Removals ==
    ASSUME NEW q \in Lists
    PROVE  /\ First(RmS \o q, "spoilStaging", <<"rmStaging">> \o q)
           /\ First(<<"rmStaging">> \o q, "rmStaging", q)
           /\ First(RmB \o q, "spoilBackup", <<"rmBackup">> \o q)
           /\ First(<<"rmBackup">> \o q, "rmBackup", q)
<1>1. {"spoilStaging", "rmStaging", "spoilBackup", "rmBackup"} \subseteq Ops
  BY DEF Ops, Changes
<1> HIDE DEF Ops
<1>2. \A a, b \in Ops : First(<<a, b>> \o q, a, <<b>> \o q)
  BY FrontTwo DEF First, Lists
<1>3. \A a \in Ops : First(<<a>> \o q, a, q)
  BY Prefix
<1>. QED
  BY <1>1, <1>2, <1>3 DEF RmS, RmB

LEMMA Ends ==
    /\ First(Close, "unjournal", <<"fsync">>) /\ First(Undo, "unjournal", <<>>)
    /\ First(RmS, "spoilStaging", <<"rmStaging">>) /\ First(RmB, "spoilBackup", <<"rmBackup">>)
<1>1. {"spoilStaging", "rmStaging", "spoilBackup", "rmBackup", "unjournal", "fsync"} \subseteq Ops
  BY DEF Ops, Changes
<1> HIDE DEF Ops
<1>2. \A a, b \in Ops : First(<<a, b>>, a, <<b>>)
  BY DEF First, Lists
<1>. QED
  BY <1>1, <1>2, Lone DEF Close, RmS, RmB, Undo

---------------------------------------------------------------------------
(* Managed skills: operations.                                             *)

LEMMA Values ==
    ASSUME I!ConstantsOK, OnDisk
    PROVE  /\ installs \in Nat /\ kept \in Nat /\ MaxInstalls \in Nat
           /\ NoTree \in Trees /\ [v |-> installs, whole |-> FALSE] \in Trees
           /\ New \in Trees /\ New # NoTree
           /\ \A t \in Trees : t.v \in Nat /\ t.whole \in BOOLEAN /\ I!Spoiled(t) \in Trees
           /\ New.whole /\ New.v = installs
<1>1. MaxInstalls \in Nat
  BY DEF I!ConstantsOK
<1>2. installs \in 0..MaxInstalls /\ kept \in 0..installs
  BY DEF OnDisk
<1>. QED
  BY <1>1, <1>2 DEF NoTree, I!NoTree, Trees, I!Trees, New, I!Tree, I!Spoiled

\* What an operation makes of each of the four.
LEMMA Effects ==
    ASSUME I!ConstantsOK, OnDisk, NEW f \in FileSystems
    PROVE  /\ I!Apply(f, "mkdir") = [f EXCEPT !.staging = [v |-> installs, whole |-> FALSE]]
           /\ I!Apply(f, "fill") = [f EXCEPT !.staging = [v |-> f.staging.v, whole |-> f.staging # NoTree]]
           /\ I!Apply(f, "journal") = [f EXCEPT !.journal = TRUE]
           /\ I!Apply(f, "unjournal") = [f EXCEPT !.journal = FALSE]
           /\ I!Apply(f, "aside") =
                IF f.backup = NoTree THEN [f EXCEPT !.backup = f.dest, !.dest = NoTree] ELSE f
           /\ I!Apply(f, "back") =
                IF f.dest = NoTree THEN [f EXCEPT !.dest = f.backup, !.backup = NoTree] ELSE f
           /\ I!Apply(f, "in") =
                IF f.dest = NoTree THEN [f EXCEPT !.dest = f.staging, !.staging = NoTree] ELSE f
           /\ I!Apply(f, "spoilBackup") = [f EXCEPT !.backup = I!Spoiled(f.backup)]
           /\ I!Apply(f, "spoilStaging") = [f EXCEPT !.staging = I!Spoiled(f.staging)]
           /\ I!Apply(f, "rmBackup") = [f EXCEPT !.backup = NoTree]
           /\ I!Apply(f, "rmStaging") = [f EXCEPT !.staging = NoTree]
BY DEF I!Apply, NoTree, FileSystems

LEMMA Written ==
    ASSUME NEW f \in FileSystems, NEW t \in Trees, NEW u \in Trees, NEW j \in BOOLEAN
    PROVE  /\ [f EXCEPT !.staging = t] \in FileSystems /\ [f EXCEPT !.backup = t] \in FileSystems
           /\ [f EXCEPT !.journal = j] \in FileSystems
           /\ [f EXCEPT !.backup = t, !.dest = u] \in FileSystems
           /\ [f EXCEPT !.dest = t, !.backup = u] \in FileSystems
           /\ [f EXCEPT !.dest = t, !.staging = u] \in FileSystems
BY DEF FileSystems

LEMMA EffectTyped ==
    ASSUME I!ConstantsOK, OnDisk, NEW f \in FileSystems, NEW op \in Changes
    PROVE  I!Apply(f, op) \in FileSystems
<1> DEFINE a == [v |-> installs, whole |-> FALSE]
           b == [v |-> f.staging.v, whole |-> f.staging # NoTree]
           c == I!Spoiled(f.backup)
           d == I!Spoiled(f.staging)
<1>1. f.dest \in Trees /\ f.staging \in Trees /\ f.backup \in Trees /\ NoTree \in Trees
  BY Values DEF FileSystems
<1>2. a \in Trees /\ c \in Trees /\ d \in Trees
  BY <1>1, Values
<1>3. b \in Trees
  BY <1>1 DEF Trees, I!Trees
<1>4. /\ I!Apply(f, "mkdir") = [f EXCEPT !.staging = a] /\ I!Apply(f, "fill") = [f EXCEPT !.staging = b]
      /\ I!Apply(f, "spoilBackup") = [f EXCEPT !.backup = c] /\ I!Apply(f, "spoilStaging") = [f EXCEPT !.staging = d]
  BY Effects
<1> HIDE DEF a, b, c, d
<1>5. CASE op \in {"mkdir", "fill", "spoilBackup", "spoilStaging"}
  <2>1. /\ \A t \in Trees : [f EXCEPT !.staging = t] \in FileSystems
        /\ \A t \in Trees : [f EXCEPT !.backup = t] \in FileSystems
    BY DEF FileSystems
  <2>. QED
    BY <1>2, <1>3, <1>4, <1>5, <2>1
<1> DEFINE j == [f EXCEPT !.journal = TRUE]
           k == [f EXCEPT !.journal = FALSE]
           m == [f EXCEPT !.backup = NoTree]
           n == [f EXCEPT !.staging = NoTree]
           o == [f EXCEPT !.backup = f.dest, !.dest = NoTree]
           p == [f EXCEPT !.dest = f.backup, !.backup = NoTree]
           q == [f EXCEPT !.dest = f.staging, !.staging = NoTree]
<1>6. {j, k, m, n, o, p, q, f} \subseteq FileSystems
  <2>1. j \in FileSystems /\ k \in FileSystems
    BY DEF FileSystems
  <2>2. m \in FileSystems /\ n \in FileSystems
    BY <1>1, Written
  <2>3. o \in FileSystems /\ p \in FileSystems /\ q \in FileSystems
    BY <1>1, Written
  <2>. QED
    BY <2>1, <2>2, <2>3
<1>7. /\ I!Apply(f, "journal") = j /\ I!Apply(f, "unjournal") = k
      /\ I!Apply(f, "rmBackup") = m /\ I!Apply(f, "rmStaging") = n
      /\ I!Apply(f, "aside") \in {o, f} /\ I!Apply(f, "back") \in {p, f} /\ I!Apply(f, "in") \in {q, f}
  BY Effects
<1> HIDE DEF j, k, m, n, o, p, q
<1>8. CASE op \in {"journal", "unjournal", "rmBackup", "rmStaging", "aside", "back", "in"}
  BY <1>6, <1>7, <1>8
<1>. QED
  BY <1>5, <1>8 DEF Changes

---------------------------------------------------------------------------
(* Managed skills: what an operation does to the disk.                     *)

\* What has to be so before an operation that moves or removes a tree.
Allowed(op) ==
    /\ op = "aside" => Durable /\ fs.journal /\ NoBackup /\ fs.dest # NoTree
    /\ op = "in" => Durable /\ fs.dest = NoTree /\ fs.staging = New
    /\ op = "back" => fs.dest = NoTree /\ ~NoBackup
    /\ op \in {"spoilBackup", "rmBackup"} => NotTheLast
    /\ op = "unjournal" => PutBack

\* The four of a file system f after an operation, which makes it g.
DestAfter(f, g, op) ==
    /\ op \notin {"aside", "back", "in"} => g.dest = f.dest
    /\ op = "aside" /\ f.backup = NoTree => g.dest = NoTree
    /\ op = "back" /\ f.dest = NoTree => g.dest = f.backup
    /\ op = "in" /\ f.dest = NoTree => g.dest = f.staging
BackupAfter(f, g, op) ==
    /\ op \notin {"aside", "back", "spoilBackup", "rmBackup"} => g.backup = f.backup
    /\ op = "aside" /\ f.backup = NoTree => g.backup = f.dest
    /\ op = "back" /\ f.dest = NoTree => g.backup = NoTree
    /\ op = "rmBackup" => g.backup = NoTree
StagingAfter(f, g, op) ==
    /\ op \notin {"mkdir", "fill", "in", "spoilStaging", "rmStaging"} => g.staging = f.staging
    /\ op = "mkdir" => g.staging = [v |-> installs, whole |-> FALSE]
    /\ op = "fill" => g.staging = [v |-> f.staging.v, whole |-> f.staging # NoTree]
    /\ op = "in" /\ f.dest = NoTree => g.staging = NoTree
    /\ op = "rmStaging" => g.staging = NoTree
JournalAfter(f, g, op) ==
    /\ op \notin {"journal", "unjournal"} => g.journal = f.journal
    /\ op = "journal" => g.journal
    /\ op = "unjournal" => ~g.journal
NothingMoved(f, g, op) ==
    /\ op = "aside" /\ f.backup # NoTree => g = f
    /\ op \in {"back", "in"} /\ f.dest # NoTree => g = f

LEMMA EffectOn ==
    ASSUME I!ConstantsOK, OnDisk, NEW f \in FileSystems, NEW op \in Changes, NEW g, g = I!Apply(f, op)
    PROVE  /\ g \in FileSystems /\ DestAfter(f, g, op) /\ BackupAfter(f, g, op) /\ StagingAfter(f, g, op)
           /\ JournalAfter(f, g, op) /\ NothingMoved(f, g, op)
<1> USE DEF DestAfter, BackupAfter, StagingAfter, JournalAfter, NothingMoved
<1>1. g \in FileSystems
  BY EffectTyped
<1>2. DOMAIN f = {"dest", "staging", "backup", "journal"}
  BY DEF FileSystems
<1> DEFINE a == [v |-> installs, whole |-> FALSE]
           b == [v |-> f.staging.v, whole |-> f.staging # NoTree]
           c == I!Spoiled(f.backup)
           d == I!Spoiled(f.staging)
<1>6. /\ I!Apply(f, "mkdir") = [f EXCEPT !.staging = a]
      /\ I!Apply(f, "fill") = [f EXCEPT !.staging = b]
      /\ I!Apply(f, "spoilStaging") = [f EXCEPT !.staging = d]
      /\ I!Apply(f, "rmStaging") = [f EXCEPT !.staging = NoTree]
      /\ I!Apply(f, "spoilBackup") = [f EXCEPT !.backup = c]
      /\ I!Apply(f, "rmBackup") = [f EXCEPT !.backup = NoTree]
      /\ I!Apply(f, "journal") = [f EXCEPT !.journal = TRUE]
      /\ I!Apply(f, "unjournal") = [f EXCEPT !.journal = FALSE]
  BY Effects
<1> HIDE DEF a, b, c, d
<1>7. ASSUME op = "mkdir"
      PROVE  g.staging = a /\ g.dest = f.dest /\ g.backup = f.backup /\ g.journal = f.journal
  BY <1>6, <1>7, <1>2
<1>8. ASSUME op = "fill"
      PROVE  g.staging = b /\ g.dest = f.dest /\ g.backup = f.backup /\ g.journal = f.journal
  BY <1>6, <1>8, <1>2
<1>9. ASSUME op = "spoilStaging"
      PROVE  g.staging = d /\ g.dest = f.dest /\ g.backup = f.backup /\ g.journal = f.journal
  BY <1>6, <1>9, <1>2
<1>10. ASSUME op = "rmStaging"
       PROVE  g.staging = NoTree /\ g.dest = f.dest /\ g.backup = f.backup /\ g.journal = f.journal
  BY <1>6, <1>10, <1>2
<1>11. ASSUME op = "spoilBackup"
       PROVE  g.backup = c /\ g.dest = f.dest /\ g.staging = f.staging /\ g.journal = f.journal
  BY <1>6, <1>11, <1>2
<1>12. ASSUME op = "rmBackup"
       PROVE  g.backup = NoTree /\ g.dest = f.dest /\ g.staging = f.staging /\ g.journal = f.journal
  BY <1>6, <1>12, <1>2
<1>13. ASSUME op = "journal"
       PROVE  g.journal /\ g.dest = f.dest /\ g.staging = f.staging /\ g.backup = f.backup
  BY <1>6, <1>13, <1>2
<1>14. ASSUME op = "unjournal"
       PROVE  ~g.journal /\ g.dest = f.dest /\ g.staging = f.staging /\ g.backup = f.backup
  BY <1>6, <1>14, <1>2
<1> DEFINE Moved(new, x, y, z) == g.dest = new /\ g.backup = x /\ g.staging = y /\ g.journal = z
<1>15. ASSUME op = "aside", f.backup = NoTree PROVE Moved(NoTree, f.dest, f.staging, f.journal)
  <2>1. g = [f EXCEPT !.backup = f.dest, !.dest = NoTree]
    BY <1>15, Effects
  <2>. QED
    BY <1>2, <2>1
<1>16. ASSUME op = "back", f.dest = NoTree PROVE Moved(f.backup, NoTree, f.staging, f.journal)
  <2>1. g = [f EXCEPT !.dest = f.backup, !.backup = NoTree]
    BY <1>16, Effects
  <2>. QED
    BY <1>2, <2>1
<1>17. ASSUME op = "in", f.dest = NoTree PROVE Moved(f.staging, f.backup, NoTree, f.journal)
  <2>1. g = [f EXCEPT !.dest = f.staging, !.staging = NoTree]
    BY <1>17, Effects
  <2>. QED
    BY <1>2, <2>1
<1>18. (op = "aside" /\ f.backup # NoTree) \/ (op \in {"back", "in"} /\ f.dest # NoTree) => g = f
  BY Effects
<1>19. CASE op \in {"mkdir", "fill", "spoilStaging", "rmStaging"}
  BY <1>1, <1>7, <1>8, <1>9, <1>10, <1>19 DEF a, b, d
<1>20. CASE op \in {"spoilBackup", "rmBackup", "journal", "unjournal"}
  BY <1>1, <1>11, <1>12, <1>13, <1>14, <1>20 DEF c
<1>21. CASE op = "aside"
  BY <1>1, <1>15, <1>18, <1>21
<1>22. CASE op = "back"
  BY <1>1, <1>16, <1>18, <1>22
<1>23. CASE op = "in"
  BY <1>1, <1>17, <1>18, <1>23
<1>. QED
  BY <1>19, <1>20, <1>21, <1>22, <1>23 DEF Changes

\* An operation that finds what it needs leaves a safe file system safe.
LEMMA SafeStays ==
    ASSUME I!ConstantsOK, OnDisk, NEW f \in FileSystems, Safe(f), NEW op \in Changes,
           op = "aside" => f.journal,
           op = "in" => f.staging = New,
           op \in {"spoilBackup", "rmBackup"} => f.dest # NoTree,
           op = "unjournal" => f.dest # NoTree \/ f.backup = NoTree \/ exposed = "aside"
    PROVE  Safe(I!Apply(f, op))
<1> DEFINE g == I!Apply(f, op)
<1> HIDE DEF g
<1>1. g = I!Apply(f, op)
  BY DEF g
<1>2. CASE op \in {"mkdir", "fill", "spoilStaging", "rmStaging", "journal"}
  <2>1. g.dest = f.dest /\ g.backup = f.backup /\ (f.journal => g.journal)
    BY <1>1, <1>2, EffectOn DEF DestAfter, BackupAfter, JournalAfter, NothingMoved
  <2>. QED
    BY <1>1, <2>1 DEF Safe
<1>3. CASE op \in {"spoilBackup", "rmBackup"}
  <2>1. g.dest = f.dest
    BY <1>1, <1>3, EffectOn DEF DestAfter
  <2>. QED
    BY <1>1, <1>3, <2>1 DEF Safe
<1>4. CASE op = "unjournal"
  <2>1. g.dest = f.dest /\ g.backup = f.backup
    BY <1>1, <1>4, EffectOn DEF DestAfter, BackupAfter, JournalAfter, NothingMoved
  <2>. QED
    BY <1>1, <1>4, <2>1 DEF Safe
<1>5. CASE op = "aside"
  <2>1. IF f.backup = NoTree THEN g.backup = f.dest /\ g.dest = NoTree /\ g.journal = f.journal ELSE g = f
    BY <1>1, <1>5, EffectOn DEF DestAfter, BackupAfter, JournalAfter, NothingMoved
  <2>. QED
    BY <1>1, <1>5, <2>1 DEF Safe
<1>6. CASE op = "back"
  <2>1. IF f.dest = NoTree THEN g.dest = f.backup /\ g.backup = NoTree ELSE g = f
    BY <1>1, <1>6, EffectOn DEF DestAfter, BackupAfter, JournalAfter, NothingMoved
  <2>. QED
    BY <1>1, <1>6, <2>1 DEF Safe
<1>7. CASE op = "in"
  <2>1. IF f.dest = NoTree THEN g.dest = New ELSE g = f
    BY <1>1, <1>7, EffectOn DEF DestAfter, BackupAfter, JournalAfter, NothingMoved
  <2>2. New # NoTree /\ New.whole /\ New.v = installs /\ installs >= kept
    BY Values DEF OnDisk
  <2>. QED
    BY <1>1, <1>7, <2>1, <2>2 DEF Safe, I!Last, I!Untouched
<1>. QED
  BY <1>2, <1>3, <1>4, <1>5, <1>6, <1>7 DEF Changes

LEMMA DiskStep ==
    ASSUME I!ConstantsOK, DiskInv, NEW op \in Changes, Allowed(op), I!Change(op),
           UNCHANGED <<installs, kept, exposed, cut>>
    PROVE  DiskInv'
<1> DEFINE After(f) == I!Apply(f, op)
<1>1. /\ fs \in maybe /\ maybe \subseteq FileSystems /\ fs \in FileSystems
      /\ fs' = After(fs) /\ maybe' = maybe \cup {After(f) : f \in maybe}
      /\ unsynced' = unsynced \cup {op}
  BY DEF DiskInv, OnDisk, I!Change
<1>2. \A f \in FileSystems : After(f) \in FileSystems
  BY EffectTyped DEF DiskInv
<1>3. \A f \in FileSystems :
        /\ (Safe(f)' <=> Safe(f)) /\ (f.dest = NoTree)' = (f.dest = NoTree)
  BY DEF Safe, I!Last, I!Untouched, NoTree, I!NoTree
<1>4. NoTree' = NoTree /\ Trees' = Trees /\ FileSystems' = FileSystems
  BY DEF NoTree, I!NoTree, FileSystems, Trees, I!Trees
<1>5. OnDisk'
  <2>2. maybe' \subseteq FileSystems'
    BY <1>1, <1>2, <1>4
  <2>. QED
    BY <1>1, <2>2 DEF DiskInv, OnDisk
<1> HIDE DEF After
<1>6. ASSUME NEW f \in maybe, exposed # "void", Safe(f), ~I!Unsynced' \/ f = fs
      PROVE  Safe(After(f))
  <2>1. op = "aside" => f.journal
    BY <1>6, <1>1 DEF Allowed, Durable
  <2>2. op = "in" => f.staging = New
    BY <1>6, <1>1 DEF Allowed, Durable
  <2>3. f # fs => ~I!Unsynced /\ {"back"} \cap unsynced = {}
    BY <1>6, <1>1 DEF I!Unsynced
  <2>4. op \in {"spoilBackup", "rmBackup", "unjournal"} /\ f # fs => {"in", "back"} \cap unsynced = {}
    BY <1>6, <1>1 DEF I!Unsynced
  <2>5. op \in {"spoilBackup", "rmBackup"} => f.dest # NoTree
    <3>1. op \in {"spoilBackup", "rmBackup"} => fs.dest # NoTree
      BY <1>6 DEF Allowed, NotTheLast
    <3>. QED
      BY <1>6, <2>4, <3>1 DEF DiskInv, InPlace
  <2>6. op = "unjournal" => f.dest # NoTree \/ f.backup = NoTree \/ exposed = "aside"
    <3>1. op = "unjournal" => fs.dest # NoTree \/ fs.backup = NoTree \/ exposed = "aside"
      BY <1>6 DEF Allowed, PutBack, NoBackup, DiskInv, OnDisk, Exposures
    <3>. QED
      BY <1>6, <2>4, <3>1 DEF DiskInv, InPlace
  <2>. QED
    BY <1>1, <1>6, <2>1, <2>2, <2>5, <2>6, SafeStays DEF After, DiskInv
<1>7. NeverLost'
  <2> SUFFICES ASSUME exposed # "void"
               PROVE  Safe(fs)' /\ (~I!Unsynced' => \A f \in maybe' : Safe(f)')
    BY DEF NeverLost
  <2>1. Safe(fs) /\ (~I!Unsynced => \A f \in maybe : Safe(f))
    BY DEF DiskInv, NeverLost
  <2>2. \A f \in FileSystems : Safe(f)' <=> Safe(f)
    BY <1>3
  <2>3. Safe(fs)'
    <3>1. Safe(After(fs))
      BY <1>1, <1>6, <2>1
    <3>. QED
      BY <1>1, <3>1 DEF Safe, I!Last, I!Untouched, NoTree, I!NoTree
  <2>4. ASSUME ~I!Unsynced', NEW g \in maybe' PROVE Safe(g)'
    <3>1. ~I!Unsynced
      BY <2>4, <1>1 DEF I!Unsynced
    <3>2. Safe(g)
      BY <1>1, <1>6, <2>1, <2>4, <3>1
    <3>. QED
      BY <1>1, <1>2, <2>2, <2>4, <3>2
  <2>. QED
    BY <2>3, <2>4
<1>8. InPlace'
  <2>1. ASSUME {"in", "back"} \cap unsynced' = {}, fs'.dest # NoTree, NEW g \in maybe'
        PROVE  g.dest = fs'.dest
    <3>1. op \notin {"in", "back"} /\ {"in", "back"} \cap unsynced = {}
      BY <1>1, <2>1
    <3>2. op # "aside"
      <4>1. op = "aside" => fs'.dest = NoTree
        BY <1>1, EffectOn DEF DestAfter, BackupAfter, Allowed, NoBackup, After, DiskInv
      <4>. QED
        BY <2>1, <4>1
    <3>3. \A f \in FileSystems : After(f).dest = f.dest
      BY <3>1, <3>2, EffectOn DEF DestAfter, After, DiskInv
    <3>4. \A f \in maybe : f.dest = fs.dest
      BY <1>1, <2>1, <3>1, <3>3 DEF DiskInv, InPlace
    <3>. QED
      BY <1>1, <2>1, <3>3, <3>4
  <2>2. ASSUME exposed # "void", fs'.dest = NoTree, fs'.backup = NoTree, NEW g \in maybe'
        PROVE  g.dest = NoTree /\ g.backup = NoTree
    <3>1. op \notin {"in", "back", "aside", "spoilBackup", "rmBackup"}
      <4>1. op = "in" => fs'.dest = New
        BY <1>1, EffectOn DEF DestAfter, BackupAfter, Allowed, After, DiskInv
      <4>2. op = "back" => fs'.dest = fs.backup /\ fs.backup # NoTree
        BY <1>1, EffectOn DEF DestAfter, BackupAfter, Allowed, NoBackup, After, DiskInv
      <4>3. op = "aside" => fs'.backup = fs.dest /\ fs.dest # NoTree
        BY <1>1, EffectOn DEF DestAfter, BackupAfter, Allowed, NoBackup, After, DiskInv
      <4>4. op \in {"spoilBackup", "rmBackup"} => fs'.dest = fs.dest /\ fs.dest # NoTree
        BY <1>1, <2>2, EffectOn DEF DestAfter, Allowed, NotTheLast, After, DiskInv
      <4>. QED
        BY <2>2, <4>1, <4>2, <4>3, <4>4, Values DEF DiskInv
    <3>2. \A f \in FileSystems : After(f).dest = f.dest /\ After(f).backup = f.backup
      BY <3>1, EffectOn DEF DestAfter, BackupAfter, After, DiskInv
    <3>3. \A f \in maybe : f.dest = NoTree /\ f.backup = NoTree
      BY <1>1, <2>2, <3>2 DEF DiskInv, InPlace
    <3>. QED
      BY <1>1, <2>2, <3>2, <3>3
  <2>. QED
    BY <1>4, <2>1, <2>2 DEF InPlace
<1>. QED
  BY <1>5, <1>7, <1>8 DEF DiskInv

\* An fsync makes what the process sees durable.
LEMMA FsyncStep ==
    ASSUME DiskInv, I!Fsync, UNCHANGED <<installs, kept, exposed, cut>>
    PROVE  DiskInv' /\ Durable' /\ fs' = fs
<1>1. fs' = fs /\ maybe' = {fs} /\ unsynced' = {}
  BY DEF I!Fsync
<1>2. NoTree' = NoTree /\ Trees' = Trees /\ FileSystems' = FileSystems
  BY DEF NoTree, I!NoTree, FileSystems, Trees, I!Trees
<1>3. OnDisk'
  BY <1>1, <1>2 DEF DiskInv, OnDisk
<1>4. Safe(fs)' = Safe(fs)
  BY <1>1, <1>2 DEF Safe, I!Last, I!Untouched
<1>5. \A f \in maybe' : f = fs'
  BY <1>1
<1>6. NeverLost'
  <2>1. Safe(fs)' => \A f \in maybe' : Safe(f)'
    BY <1>1, <1>2 DEF Safe, I!Last, I!Untouched
  <2>. QED
    BY <1>4, <2>1 DEF DiskInv, NeverLost
<1>7. InPlace'
  BY <1>5 DEF InPlace
<1>. QED
  BY <1>1, <1>3, <1>6, <1>7 DEF DiskInv, Durable

\* What an operation leaves of the disk.
Effect(op) ==
    /\ IF op = "fsync" THEN fs' = fs /\ Durable'
       ELSE /\ DestAfter(fs, fs', op) /\ BackupAfter(fs, fs', op) /\ StagingAfter(fs, fs', op)
            /\ JournalAfter(fs, fs', op) /\ NothingMoved(fs, fs', op)
    /\ op # "unjournal" /\ Journalled => Journalled'
Held == UNCHANGED <<step, wanted, found, installs, kept, exposed, cut>> /\ NoTree' = NoTree /\ New' = New

LEMMA Doing ==
    ASSUME I!ConstantsOK, DiskInv, NEW op, NEW rest, First(todo, op, rest), Allowed(op), I!Do
    PROVE  DiskInv' /\ todo' = rest /\ Held /\ Effect(op)
<1>1. /\ op \in Ops /\ todo' = rest /\ Held
      /\ IF op = "fsync" THEN I!Fsync ELSE I!Change(op)
      /\ op # "unjournal" /\ Journalled => Journalled'
  <2>1. op \in Ops /\ Head(todo) = op /\ Tail(todo) = rest
    BY DEF First
  <2>2. /\ todo' = Tail(todo) /\ UNCHANGED <<step, wanted, found, installs, kept, exposed, cut>>
        /\ IF Head(todo) = "fsync" THEN I!Fsync ELSE I!Change(Head(todo))
    BY DEF I!Do, I!powerVars
  <2>3. IF op = "fsync" THEN I!Fsync ELSE I!Change(op)
    BY <2>1, <2>2 DEF I!Change, I!Fsync
  <2>4. fs \in maybe /\ maybe \subseteq FileSystems /\ OnDisk
    BY DEF DiskInv, OnDisk
  <2>5. ASSUME op # "unjournal", Journalled PROVE Journalled'
    <3>1. CASE op = "fsync"
      BY <2>3, <2>4, <2>5, <3>1 DEF I!Fsync, Journalled
    <3>2. CASE op # "fsync"
      <4>1. op \in Changes /\ maybe' = maybe \cup {I!Apply(f, op) : f \in maybe}
        BY <2>1, <2>3, <3>2 DEF Ops, I!Change
      <4>2. \A f \in maybe : I!Apply(f, op).journal
        BY <2>4, <2>5, <4>1, EffectOn DEF JournalAfter, Journalled
      <4>. QED
        BY <2>5, <4>1, <4>2 DEF Journalled
    <3>. QED
      BY <3>1, <3>2
  <2>6. Held
    BY <2>2 DEF Held, NoTree, I!NoTree, New, I!Tree
  <2>. QED
    BY <2>1, <2>2, <2>3, <2>5, <2>6
<1>2. CASE op = "fsync"
  BY <1>1, <1>2, FsyncStep DEF Effect, Held
<1>3. CASE op # "fsync"
  <2>1. op \in Changes /\ I!Change(op)
    BY <1>1, <1>3 DEF Ops
  <2>2. DiskInv'
    BY <1>1, <2>1, DiskStep DEF Held
  <2>3. fs \in FileSystems /\ fs' = I!Apply(fs, op) /\ OnDisk
    BY <2>1 DEF DiskInv, OnDisk, I!Change
  <2>4. /\ DestAfter(fs, fs', op) /\ BackupAfter(fs, fs', op) /\ StagingAfter(fs, fs', op)
        /\ JournalAfter(fs, fs', op) /\ NothingMoved(fs, fs', op)
    BY <2>1, <2>3, EffectOn
  <2>. QED
    BY <1>1, <1>3, <2>2, <2>4 DEF Effect
<1>. QED
  BY <1>2, <1>3

---------------------------------------------------------------------------
(* Managed skills: the repair.                                             *)

\* Its lists.
LEMMA RepairLists ==
    /\ First(<<"fsync">>, "fsync", <<>>)
    /\ First(Close, "unjournal", <<"fsync">>)
    /\ First(RmS \o Close, "spoilStaging", <<"rmStaging">> \o Close)
    /\ First(<<"rmStaging">> \o Close, "rmStaging", Close)
    /\ First(RmB \o Close, "spoilBackup", <<"rmBackup">> \o Close)
    /\ First(<<"rmBackup">> \o Close, "rmBackup", Close)
    /\ First(RmB \o (RmS \o Close), "spoilBackup", <<"rmBackup">> \o (RmS \o Close))
    /\ First(<<"rmBackup">> \o (RmS \o Close), "rmBackup", RmS \o Close)
    /\ First(<<"back">> \o Close, "back", Close)
    /\ First(<<"back">> \o (RmS \o Close), "back", RmS \o Close)
    /\ First(RmS, "spoilStaging", <<"rmStaging">>)
    /\ First(<<"rmStaging">>, "rmStaging", <<>>)
    /\ First(RmB, "spoilBackup", <<"rmBackup">>)
    /\ First(<<"rmBackup">>, "rmBackup", <<>>)
    /\ First(RmS \o RmB, "spoilStaging", <<"rmStaging">> \o RmB)
    /\ First(<<"rmStaging">> \o RmB, "rmStaging", RmB)
<1>1. Ops = Ops /\ {"rmStaging", "rmBackup", "back", "fsync"} \subseteq Ops
  BY DEF Ops, Changes
<1>2. Close \in Lists /\ RmS \in Lists /\ RmB \in Lists
  BY Ends DEF First
<1>3. RmS \o Close \in Lists
  BY <1>2, Removals DEF First
<1> HIDE DEF Ops
<1>4. \A q \in Lists : /\ First(<<"back">> \o q, "back", q)
                       /\ First(RmS \o q, "spoilStaging", <<"rmStaging">> \o q)
                       /\ First(<<"rmStaging">> \o q, "rmStaging", q)
                       /\ First(RmB \o q, "spoilBackup", <<"rmBackup">> \o q)
                       /\ First(<<"rmBackup">> \o q, "rmBackup", q)
  BY <1>1, Removals, Prefix
<1>5. /\ First(<<"fsync">>, "fsync", <<>>) /\ First(<<"rmStaging">>, "rmStaging", <<>>)
      /\ First(<<"rmBackup">>, "rmBackup", <<>>)
  BY <1>1, Lone
<1>. QED
  BY <1>2, <1>3, <1>4, <1>5, Ends

LEMMA RepairStep ==
    ASSUME I!ConstantsOK, DiskInv, Repairing, I!Do
    PROVE  DiskInv' /\ Repairing' /\ Held
<1>1. todo # <<>>
  BY DEF I!Do
<1>2. CASE todo = <<"fsync">> /\ NoStaging /\ NoBackup /\ ~fs.journal
  <2>1. First(todo, "fsync", <<>>) /\ Allowed("fsync")
    BY <1>2, RepairLists DEF Allowed
  <2>2. DiskInv' /\ todo' = <<>> /\ Held /\ Effect("fsync")
    BY <2>1, Doing
  <2>3. NoStaging' /\ NoBackup' /\ ~fs'.journal
    BY <1>2, <2>2 DEF Held, Effect, NoStaging, NoBackup
  <2>. QED
    BY <2>2, <2>3 DEF Repairing
<1>3. CASE todo = Close /\ NoStaging /\ NoBackup
  <2>1. First(todo, "unjournal", <<"fsync">>) /\ Allowed("unjournal")
    BY <1>3, RepairLists DEF Allowed, PutBack
  <2>2. DiskInv' /\ todo' = <<"fsync">> /\ Held /\ Effect("unjournal")
    BY <2>1, Doing
  <2>3. NoStaging' /\ NoBackup' /\ ~fs'.journal
    BY <1>3, <2>2 DEF Held, Effect, BackupAfter, StagingAfter, JournalAfter, NoStaging, NoBackup
  <2>. QED
    BY <2>2, <2>3 DEF Repairing
<1>4. CASE todo = RmS \o Close /\ NoBackup
  <2>1. First(todo, "spoilStaging", <<"rmStaging">> \o Close) /\ Allowed("spoilStaging")
    BY <1>4, RepairLists DEF Allowed
  <2>2. DiskInv' /\ todo' = <<"rmStaging">> \o Close /\ Held /\ Effect("spoilStaging")
    BY <2>1, Doing
  <2>3. NoBackup'
    BY <1>4, <2>2 DEF Held, Effect, BackupAfter, NoBackup
  <2>. QED
    BY <2>2, <2>3 DEF Repairing
<1>5. CASE todo = <<"rmStaging">> \o Close /\ NoBackup
  <2>1. First(todo, "rmStaging", Close) /\ Allowed("rmStaging")
    BY <1>5, RepairLists DEF Allowed
  <2>2. DiskInv' /\ todo' = Close /\ Held /\ Effect("rmStaging")
    BY <2>1, Doing
  <2>3. NoStaging' /\ NoBackup'
    BY <1>5, <2>2 DEF Held, Effect, BackupAfter, StagingAfter, NoStaging, NoBackup
  <2>. QED
    BY <2>2, <2>3 DEF Repairing
<1>6. CASE todo = RmB \o Close /\ NoStaging /\ NotTheLast
  <2>1. First(todo, "spoilBackup", <<"rmBackup">> \o Close) /\ Allowed("spoilBackup")
    BY <1>6, RepairLists DEF Allowed
  <2>2. DiskInv' /\ todo' = <<"rmBackup">> \o Close /\ Held /\ Effect("spoilBackup")
    BY <2>1, Doing
  <2>3. NoStaging' /\ NotTheLast'
    BY <1>6, <2>2 DEF Held, Effect, DestAfter, StagingAfter, NoStaging, NotTheLast
  <2>. QED
    BY <2>2, <2>3 DEF Repairing
<1>7. CASE todo = <<"rmBackup">> \o Close /\ NoStaging /\ NotTheLast
  <2>1. First(todo, "rmBackup", Close) /\ Allowed("rmBackup")
    BY <1>7, RepairLists DEF Allowed
  <2>2. DiskInv' /\ todo' = Close /\ Held /\ Effect("rmBackup")
    BY <2>1, Doing
  <2>3. NoStaging' /\ NoBackup'
    BY <1>7, <2>2 DEF Held, Effect, BackupAfter, StagingAfter, NoStaging, NoBackup
  <2>. QED
    BY <2>2, <2>3 DEF Repairing
<1>8. CASE todo = RmB \o (RmS \o Close) /\ NotTheLast
  <2>1. First(todo, "spoilBackup", <<"rmBackup">> \o (RmS \o Close)) /\ Allowed("spoilBackup")
    BY <1>8, RepairLists DEF Allowed
  <2>2. DiskInv' /\ todo' = <<"rmBackup">> \o (RmS \o Close) /\ Held /\ Effect("spoilBackup")
    BY <2>1, Doing
  <2>3. NotTheLast'
    BY <1>8, <2>2 DEF Held, Effect, DestAfter, NotTheLast
  <2>. QED
    BY <2>2, <2>3 DEF Repairing
<1>9. CASE todo = <<"rmBackup">> \o (RmS \o Close) /\ NotTheLast
  <2>1. First(todo, "rmBackup", RmS \o Close) /\ Allowed("rmBackup")
    BY <1>9, RepairLists DEF Allowed
  <2>2. DiskInv' /\ todo' = RmS \o Close /\ Held /\ Effect("rmBackup")
    BY <2>1, Doing
  <2>3. NoBackup'
    BY <1>9, <2>2 DEF Held, Effect, BackupAfter, NoBackup
  <2>. QED
    BY <2>2, <2>3 DEF Repairing
<1>10. CASE todo = <<"back">> \o Close /\ NoStaging /\ fs.dest = NoTree /\ ~NoBackup
  <2>1. First(todo, "back", Close) /\ Allowed("back")
    BY <1>10, RepairLists DEF Allowed
  <2>2. DiskInv' /\ todo' = Close /\ Held /\ Effect("back")
    BY <2>1, Doing
  <2>3. NoStaging' /\ NoBackup'
    BY <1>10, <2>2 DEF Held, Effect, BackupAfter, StagingAfter, NoStaging, NoBackup
  <2>. QED
    BY <2>2, <2>3 DEF Repairing
<1>11. CASE todo = <<"back">> \o (RmS \o Close) /\ fs.dest = NoTree /\ ~NoBackup
  <2>1. First(todo, "back", RmS \o Close) /\ Allowed("back")
    BY <1>11, RepairLists DEF Allowed
  <2>2. DiskInv' /\ todo' = RmS \o Close /\ Held /\ Effect("back")
    BY <2>1, Doing
  <2>3. NoBackup'
    BY <1>11, <2>2 DEF Held, Effect, BackupAfter, NoBackup
  <2>. QED
    BY <2>2, <2>3 DEF Repairing
<1>12. CASE todo = RmS /\ NoBackup /\ ~fs.journal
  <2>1. First(todo, "spoilStaging", <<"rmStaging">>) /\ Allowed("spoilStaging")
    BY <1>12, RepairLists DEF Allowed
  <2>2. DiskInv' /\ todo' = <<"rmStaging">> /\ Held /\ Effect("spoilStaging")
    BY <2>1, Doing
  <2>3. NoBackup' /\ ~fs'.journal
    BY <1>12, <2>2 DEF Held, Effect, BackupAfter, JournalAfter, NoBackup
  <2>. QED
    BY <2>2, <2>3 DEF Repairing
<1>13. CASE todo = <<"rmStaging">> /\ NoBackup /\ ~fs.journal
  <2>1. First(todo, "rmStaging", <<>>) /\ Allowed("rmStaging")
    BY <1>13, RepairLists DEF Allowed
  <2>2. DiskInv' /\ todo' = <<>> /\ Held /\ Effect("rmStaging")
    BY <2>1, Doing
  <2>3. NoStaging' /\ NoBackup' /\ ~fs'.journal
    BY <1>13, <2>2 DEF Held, Effect, BackupAfter, StagingAfter, JournalAfter, NoStaging, NoBackup
  <2>. QED
    BY <2>2, <2>3 DEF Repairing
<1>14. CASE todo = RmB /\ NoStaging /\ NotTheLast /\ ~fs.journal
  <2>1. First(todo, "spoilBackup", <<"rmBackup">>) /\ Allowed("spoilBackup")
    BY <1>14, RepairLists DEF Allowed
  <2>2. DiskInv' /\ todo' = <<"rmBackup">> /\ Held /\ Effect("spoilBackup")
    BY <2>1, Doing
  <2>3. NoStaging' /\ NotTheLast' /\ ~fs'.journal
    BY <1>14, <2>2 DEF Held, Effect, DestAfter, StagingAfter, JournalAfter, NoStaging, NotTheLast
  <2>. QED
    BY <2>2, <2>3 DEF Repairing
<1>15. CASE todo = <<"rmBackup">> /\ NoStaging /\ NotTheLast /\ ~fs.journal
  <2>1. First(todo, "rmBackup", <<>>) /\ Allowed("rmBackup")
    BY <1>15, RepairLists DEF Allowed
  <2>2. DiskInv' /\ todo' = <<>> /\ Held /\ Effect("rmBackup")
    BY <2>1, Doing
  <2>3. NoStaging' /\ NoBackup' /\ ~fs'.journal
    BY <1>15, <2>2 DEF Held, Effect, BackupAfter, StagingAfter, JournalAfter, NoStaging, NoBackup
  <2>. QED
    BY <2>2, <2>3 DEF Repairing
<1>16. CASE todo = RmS \o RmB /\ NotTheLast /\ ~fs.journal
  <2>1. First(todo, "spoilStaging", <<"rmStaging">> \o RmB) /\ Allowed("spoilStaging")
    BY <1>16, RepairLists DEF Allowed
  <2>2. DiskInv' /\ todo' = <<"rmStaging">> \o RmB /\ Held /\ Effect("spoilStaging")
    BY <2>1, Doing
  <2>3. NotTheLast' /\ ~fs'.journal
    BY <1>16, <2>2 DEF Held, Effect, DestAfter, JournalAfter, NotTheLast
  <2>. QED
    BY <2>2, <2>3 DEF Repairing
<1>17. CASE todo = <<"rmStaging">> \o RmB /\ NotTheLast /\ ~fs.journal
  <2>1. First(todo, "rmStaging", RmB) /\ Allowed("rmStaging")
    BY <1>17, RepairLists DEF Allowed
  <2>2. DiskInv' /\ todo' = RmB /\ Held /\ Effect("rmStaging")
    BY <2>1, Doing
  <2>3. NoStaging' /\ NotTheLast' /\ ~fs'.journal
    BY <1>17, <2>2 DEF Held, Effect, DestAfter, StagingAfter, JournalAfter, NoStaging, NotTheLast
  <2>. QED
    BY <2>2, <2>3 DEF Repairing
<1>. QED
  BY <1>1, <1>2, <1>3, <1>4, <1>5, <1>6, <1>7, <1>8, <1>9, <1>10, <1>11, <1>12, <1>13, <1>14, <1>15,
     <1>16, <1>17 DEF Repairing

---------------------------------------------------------------------------
(* Managed skills: the swap.                                               *)

\* Its lists.
LEMMA SwapLists ==
    /\ First(<<"mkdir", "fill", "journal", "fsync">> \o Rest, "mkdir", <<"fill", "journal", "fsync">> \o Rest)
    /\ First(<<"fill", "journal", "fsync">> \o Rest, "fill", <<"journal", "fsync">> \o Rest)
    /\ First(<<"journal", "fsync">> \o Rest, "journal", <<"fsync">> \o Rest)
    /\ First(<<"fsync">> \o Rest, "fsync", Rest)
    /\ First(MoveAside, "aside", <<"fsync">> \o MoveOver)
    /\ First(<<"fsync">> \o MoveOver, "fsync", MoveOver)
    /\ First(MoveOver, "in", <<"fsync">> \o (RmB \o Close))
    /\ First(MoveIn, "in", <<"fsync">> \o Close)
    /\ First(<<"fsync">> \o (RmB \o Close), "fsync", RmB \o Close)
    /\ First(RmB \o Close, "spoilBackup", <<"rmBackup">> \o Close)
    /\ First(<<"rmBackup">> \o Close, "rmBackup", Close)
    /\ First(<<"fsync">> \o Close, "fsync", Close)
    /\ First(Close, "unjournal", <<"fsync">>)
    /\ First(<<"fsync">>, "fsync", <<>>)
    /\ Rest \in {MoveIn, MoveAside} /\ MoveIn \in Lists /\ MoveAside \in Lists
<1>1. {"mkdir", "fill", "journal", "fsync", "aside", "in"} \subseteq Ops
  BY DEF Ops, Changes
<1>2. Close \in Lists /\ RmB \o Close \in Lists
  BY Ends, Removals DEF First
<1> HIDE DEF Ops
<1>3. \A a, b \in Ops : \A q \in Lists : First(<<a, b>> \o q, a, <<b>> \o q)
  BY FrontTwo DEF First, Lists
<1>4. \A q \in Lists : First(<<"fsync">> \o q, "fsync", q)
  BY <1>1, Prefix
<1>5. /\ First(MoveIn, "in", <<"fsync">> \o Close)
      /\ First(MoveOver, "in", <<"fsync">> \o (RmB \o Close))
  BY <1>1, <1>2, <1>3 DEF MoveIn, MoveOver
<1>6. MoveOver \in Lists
  BY <1>5 DEF First
<1>7. First(MoveAside, "aside", <<"fsync">> \o MoveOver)
  BY <1>1, <1>3, <1>6 DEF MoveAside
<1>8. Rest \in {MoveIn, MoveAside} /\ MoveIn \in Lists /\ MoveAside \in Lists
  BY <1>5, <1>7 DEF Rest, First
<1>9. Rest \in Lists
  BY <1>8
<1> HIDE DEF Rest
<1>10. First(<<"journal", "fsync">> \o Rest, "journal", <<"fsync">> \o Rest)
  BY <1>1, <1>3, <1>9
<1>11. First(<<"fill", "journal", "fsync">> \o Rest, "fill", <<"journal", "fsync">> \o Rest)
  BY <1>1, <1>9, FrontMore DEF First, Lists
<1>12. First(<<"mkdir", "fill", "journal", "fsync">> \o Rest, "mkdir", <<"fill", "journal", "fsync">> \o Rest)
  BY <1>1, <1>9, FrontMore DEF First, Lists
<1>. QED
  BY <1>1, <1>2, <1>4, <1>5, <1>6, <1>7, <1>8, <1>9, <1>10, <1>11, <1>12, Ends, Removals, Lone

LEMMA SwapStep ==
    ASSUME I!ConstantsOK, DiskInv, installs > 0, Swapping, I!Do
    PROVE  DiskInv' /\ Swapping' /\ Held
<1>1. todo # <<>>
  BY DEF I!Do
<1>2. /\ New # NoTree /\ New = [v |-> installs, whole |-> TRUE]
      /\ [v |-> installs, whole |-> FALSE] # NoTree
  BY Values DEF New, I!Tree, DiskInv, NoTree, I!NoTree
<1>3. CASE todo = <<"mkdir", "fill", "journal", "fsync">> \o Rest /\ NoStaging /\ NoBackup
  <2>1. First(todo, "mkdir", <<"fill", "journal", "fsync">> \o Rest) /\ Allowed("mkdir")
    BY <1>2, <1>3, SwapLists DEF Allowed
  <2>2. DiskInv' /\ todo' = <<"fill", "journal", "fsync">> \o Rest /\ Held /\ Effect("mkdir")
    BY <2>1, Doing
  <2>3. fs'.staging = [v |-> installs', whole |-> FALSE] /\ NoBackup' /\ Rest' = Rest
    BY <1>2, <1>3, <2>2 DEF Held, Effect, BackupAfter, DestAfter, StagingAfter, NoBackup, Rest
  <2>. QED
    BY <2>2, <2>3 DEF Swapping
<1>4. CASE /\ todo = <<"fill", "journal", "fsync">> \o Rest /\ NoBackup
           /\ fs.staging = [v |-> installs, whole |-> FALSE]
  <2>1. First(todo, "fill", <<"journal", "fsync">> \o Rest) /\ Allowed("fill")
    BY <1>2, <1>4, SwapLists DEF Allowed
  <2>2. DiskInv' /\ todo' = <<"journal", "fsync">> \o Rest /\ Held /\ Effect("fill")
    BY <2>1, Doing
  <2>3. fs'.staging = New' /\ NoBackup' /\ Rest' = Rest
    <3>1. fs'.staging = [v |-> fs.staging.v, whole |-> fs.staging # NoTree]
      BY <2>2 DEF Effect, StagingAfter
    <3>2. fs.staging.v = installs /\ (fs.staging # NoTree) = TRUE
      BY <1>2, <1>4
    <3>3. fs'.staging = New
      BY <1>2, <3>1, <3>2
    <3>4. NoBackup' /\ Rest' = Rest /\ New' = New
      BY <1>4, <2>2 DEF Held, Effect, DestAfter, BackupAfter, NoBackup, Rest
    <3>. QED
      BY <3>3, <3>4
  <2>. QED
    BY <2>2, <2>3 DEF Swapping
<1>5. CASE todo = <<"journal", "fsync">> \o Rest /\ fs.staging = New /\ NoBackup
  <2>1. First(todo, "journal", <<"fsync">> \o Rest) /\ Allowed("journal")
    BY <1>2, <1>5, SwapLists DEF Allowed
  <2>2. DiskInv' /\ todo' = <<"fsync">> \o Rest /\ Held /\ Effect("journal")
    BY <2>1, Doing
  <2>3. Staged' /\ NoBackup' /\ Rest' = Rest
    BY <1>2, <1>5, <2>2
       DEF Held, Effect, BackupAfter, DestAfter, StagingAfter, JournalAfter, Staged, NoBackup, Rest
  <2>. QED
    BY <2>2, <2>3 DEF Swapping
<1>6. CASE todo = <<"fsync">> \o Rest /\ Staged /\ NoBackup
  <2>1. First(todo, "fsync", Rest) /\ Allowed("fsync")
    BY <1>2, <1>6, SwapLists DEF Allowed
  <2>2. DiskInv' /\ todo' = Rest /\ Held /\ Effect("fsync")
    BY <2>1, Doing
  <2>3. Staged' /\ NoBackup' /\ Durable' /\ Rest' = Rest
    BY <1>2, <1>6, <2>2 DEF Held, Effect, Staged, NoBackup, Rest
  <2>4. fs' = fs
    BY <2>2 DEF Effect
  <2>. QED
    BY <1>6, <2>2, <2>3, <2>4 DEF Swapping, Rest
<1>7. CASE todo = MoveAside /\ Staged /\ NoBackup /\ fs.dest # NoTree /\ Durable
  <2>1. First(todo, "aside", <<"fsync">> \o MoveOver) /\ Allowed("aside")
    BY <1>2, <1>7, SwapLists DEF Allowed, Staged
  <2>2. DiskInv' /\ todo' = <<"fsync">> \o MoveOver /\ Held /\ Effect("aside")
    BY <2>1, Doing
  <2>3. Staged' /\ fs'.dest = NoTree /\ ~NoBackup'
    BY <1>2, <1>7, <2>2
       DEF Held, Effect, BackupAfter, DestAfter, StagingAfter, JournalAfter, Staged, NoBackup
  <2>4. Journalled'
    <3>1. Journalled
      BY <1>7 DEF Staged, Durable, Journalled
    <3>. QED
      BY <2>2, <3>1 DEF Effect
  <2>. QED
    BY <2>2, <2>3, <2>4 DEF Swapping
<1>8. CASE todo = <<"fsync">> \o MoveOver /\ Staged /\ fs.dest = NoTree /\ ~NoBackup /\ Journalled
  <2>1. First(todo, "fsync", MoveOver) /\ Allowed("fsync")
    BY <1>2, <1>8, SwapLists DEF Allowed
  <2>2. DiskInv' /\ todo' = MoveOver /\ Held /\ Effect("fsync")
    BY <2>1, Doing
  <2>3. Staged' /\ fs'.dest = NoTree /\ ~NoBackup' /\ Durable'
    BY <1>2, <1>8, <2>2 DEF Held, Effect, Staged, NoBackup
  <2>. QED
    BY <2>2, <2>3 DEF Swapping
<1>9. CASE todo = MoveOver /\ Staged /\ fs.dest = NoTree /\ ~NoBackup /\ Durable
  <2>1. First(todo, "in", <<"fsync">> \o (RmB \o Close)) /\ Allowed("in")
    BY <1>2, <1>9, SwapLists DEF Allowed, Staged
  <2>2. DiskInv' /\ todo' = <<"fsync">> \o (RmB \o Close) /\ Held /\ Effect("in")
    BY <2>1, Doing
  <2>3. Landed'
    BY <1>2, <1>9, <2>2 DEF Held, Effect, DestAfter, StagingAfter, Landed, NoStaging, Staged
  <2>. QED
    BY <2>2, <2>3 DEF Swapping
<1>10. CASE todo = MoveIn /\ Staged /\ fs.dest = NoTree /\ NoBackup /\ Durable
  <2>1. First(todo, "in", <<"fsync">> \o Close) /\ Allowed("in")
    BY <1>2, <1>10, SwapLists DEF Allowed, Staged
  <2>2. DiskInv' /\ todo' = <<"fsync">> \o Close /\ Held /\ Effect("in")
    BY <2>1, Doing
  <2>3. Landed' /\ NoBackup'
    BY <1>2, <1>10, <2>2
       DEF Held, Effect, BackupAfter, DestAfter, StagingAfter, Landed, NoStaging, NoBackup, Staged
  <2>. QED
    BY <2>2, <2>3 DEF Swapping
<1>11. CASE todo = <<"fsync">> \o (RmB \o Close) /\ Landed
  <2>1. First(todo, "fsync", RmB \o Close) /\ Allowed("fsync")
    BY <1>2, <1>11, SwapLists DEF Allowed
  <2>2. DiskInv' /\ todo' = RmB \o Close /\ Held /\ Effect("fsync")
    BY <2>1, Doing
  <2>3. Landed'
    BY <1>2, <1>11, <2>2 DEF Held, Effect, Landed, NoStaging
  <2>. QED
    BY <2>2, <2>3 DEF Swapping
<1>12. CASE todo = RmB \o Close /\ Landed
  <2>1. First(todo, "spoilBackup", <<"rmBackup">> \o Close) /\ Allowed("spoilBackup")
    BY <1>2, <1>12, SwapLists DEF Allowed, NotTheLast, Landed
  <2>2. DiskInv' /\ todo' = <<"rmBackup">> \o Close /\ Held /\ Effect("spoilBackup")
    BY <2>1, Doing
  <2>3. Landed'
    BY <1>2, <1>12, <2>2 DEF Held, Effect, DestAfter, StagingAfter, Landed, NoStaging
  <2>. QED
    BY <2>2, <2>3 DEF Swapping
<1>13. CASE todo = <<"rmBackup">> \o Close /\ Landed
  <2>1. First(todo, "rmBackup", Close) /\ Allowed("rmBackup")
    BY <1>2, <1>13, SwapLists DEF Allowed, NotTheLast, Landed
  <2>2. DiskInv' /\ todo' = Close /\ Held /\ Effect("rmBackup")
    BY <2>1, Doing
  <2>3. Landed' /\ NoBackup'
    BY <1>2, <1>13, <2>2
       DEF Held, Effect, BackupAfter, DestAfter, StagingAfter, Landed, NoStaging, NoBackup
  <2>. QED
    BY <2>2, <2>3 DEF Swapping
<1>14. CASE todo = <<"fsync">> \o Close /\ Landed /\ NoBackup
  <2>1. First(todo, "fsync", Close) /\ Allowed("fsync")
    BY <1>2, <1>14, SwapLists DEF Allowed
  <2>2. DiskInv' /\ todo' = Close /\ Held /\ Effect("fsync")
    BY <2>1, Doing
  <2>3. Landed' /\ NoBackup'
    BY <1>2, <1>14, <2>2 DEF Held, Effect, Landed, NoStaging, NoBackup
  <2>. QED
    BY <2>2, <2>3 DEF Swapping
<1>15. CASE todo = Close /\ Landed /\ NoBackup
  <2>1. First(todo, "unjournal", <<"fsync">>) /\ Allowed("unjournal")
    BY <1>2, <1>15, SwapLists DEF Allowed, PutBack
  <2>2. DiskInv' /\ todo' = <<"fsync">> /\ Held /\ Effect("unjournal")
    BY <2>1, Doing
  <2>3. Landed' /\ NoBackup' /\ ~fs'.journal
    BY <1>2, <1>15, <2>2
       DEF Held, Effect, BackupAfter, DestAfter, StagingAfter, JournalAfter, Landed, NoStaging,
           NoBackup
  <2>. QED
    BY <2>2, <2>3 DEF Swapping
<1>16. CASE todo = <<"fsync">> /\ Landed /\ NoBackup /\ ~fs.journal
  <2>1. First(todo, "fsync", <<>>) /\ Allowed("fsync")
    BY <1>2, <1>16, SwapLists DEF Allowed
  <2>2. DiskInv' /\ todo' = <<>> /\ Held /\ Effect("fsync")
    BY <2>1, Doing
  <2>3. Landed' /\ NoBackup' /\ ~fs'.journal /\ Durable'
    BY <1>16, <2>2 DEF Held, Effect, Landed, NoStaging, NoBackup
  <2>4. fs' = I!Installed(New)'
    <3>1. fs' \in FileSystems'
      BY <2>2 DEF DiskInv, OnDisk
    <3>. QED
      BY <2>3, <3>1 DEF FileSystems, I!Installed, Landed, NoStaging, NoBackup, NoTree
  <2>. QED
    BY <2>2, <2>3, <2>4 DEF Swapping
<1>. QED
  BY <1>1, <1>3, <1>4, <1>5, <1>6, <1>7, <1>8, <1>9, <1>10, <1>11, <1>12, <1>13, <1>14, <1>15, <1>16
     DEF Swapping

---------------------------------------------------------------------------
(* Managed skills: the rollback.                                           *)

\* Its lists.
LEMMA RollbackLists ==
    /\ First(<<"back">> \o (RmS \o Undo), "back", RmS \o Undo)
    /\ First(<<"back">> \o Undo, "back", Undo)
    /\ First(RmS \o Undo, "spoilStaging", <<"rmStaging">> \o Undo)
    /\ First(<<"rmStaging">> \o Undo, "rmStaging", Undo)
    /\ First(Undo, "unjournal", <<>>)
<1>1. "back" \in Ops
  BY DEF Ops, Changes
<1>2. Undo \in Lists /\ RmS \o Undo \in Lists
  BY Ends, Removals DEF First
<1> HIDE DEF Ops
<1>. QED
  BY <1>1, <1>2, Ends, Removals, Prefix

LEMMA RollbackStep ==
    ASSUME I!ConstantsOK, DiskInv, RollingBack, I!Do
    PROVE  /\ DiskInv' /\ RollingBack' /\ Held
           /\ exposed = "aside" /\ Stranded => Stranded'
<1>1. todo # <<>>
  BY DEF I!Do
<1>2. CASE todo = <<"back">> \o (RmS \o Undo) /\ fs.dest = NoTree /\ ~NoBackup /\ exposed # "aside"
  <2>1. First(todo, "back", RmS \o Undo) /\ Allowed("back")
    BY <1>2, RollbackLists DEF Allowed
  <2>2. DiskInv' /\ todo' = RmS \o Undo /\ Held /\ Effect("back")
    BY <2>1, Doing
  <2>3. PutBack'
    BY <1>2, <2>2 DEF Held, Effect, BackupAfter, DestAfter, NoBackup, PutBack
  <2>. QED
    BY <1>2, <2>2, <2>3 DEF RollingBack
<1>3. CASE todo = <<"back">> \o Undo /\ fs.dest = NoTree /\ ~NoBackup /\ exposed # "aside"
  <2>1. First(todo, "back", Undo) /\ Allowed("back")
    BY <1>3, RollbackLists DEF Allowed
  <2>2. DiskInv' /\ todo' = Undo /\ Held /\ Effect("back")
    BY <2>1, Doing
  <2>3. PutBack'
    BY <1>3, <2>2 DEF Held, Effect, BackupAfter, DestAfter, NoBackup, PutBack
  <2>. QED
    BY <1>3, <2>2, <2>3 DEF RollingBack
<1>4. CASE todo = RmS \o Undo /\ PutBack
  <2>1. First(todo, "spoilStaging", <<"rmStaging">> \o Undo) /\ Allowed("spoilStaging")
    BY <1>4, RollbackLists DEF Allowed
  <2>2. DiskInv' /\ todo' = <<"rmStaging">> \o Undo /\ Held /\ Effect("spoilStaging")
    BY <2>1, Doing
  <2>3. PutBack' /\ (Stranded => Stranded')
    BY <1>4, <2>2
       DEF Held, Effect, BackupAfter, DestAfter, JournalAfter, NoBackup, PutBack, Stranded
  <2>. QED
    BY <2>2, <2>3 DEF RollingBack
<1>5. CASE todo = <<"rmStaging">> \o Undo /\ PutBack
  <2>1. First(todo, "rmStaging", Undo) /\ Allowed("rmStaging")
    BY <1>5, RollbackLists DEF Allowed
  <2>2. DiskInv' /\ todo' = Undo /\ Held /\ Effect("rmStaging")
    BY <2>1, Doing
  <2>3. PutBack' /\ (Stranded => Stranded')
    BY <1>5, <2>2
       DEF Held, Effect, BackupAfter, DestAfter, JournalAfter, NoBackup, PutBack, Stranded
  <2>. QED
    BY <2>2, <2>3 DEF RollingBack
<1>6. CASE todo = Undo /\ PutBack
  <2>1. First(todo, "unjournal", <<>>) /\ Allowed("unjournal")
    BY <1>6, RollbackLists DEF Allowed
  <2>2. DiskInv' /\ todo' = <<>> /\ Held /\ Effect("unjournal")
    BY <2>1, Doing
  <2>3. PutBack' /\ (Stranded => Stranded')
    BY <1>6, <2>2
       DEF Held, Effect, BackupAfter, DestAfter, JournalAfter, NoBackup, PutBack, Stranded
  <2>. QED
    BY <2>2, <2>3 DEF RollingBack
<1>. QED
  BY <1>1, <1>2, <1>3, <1>4, <1>5, <1>6 DEF RollingBack

---------------------------------------------------------------------------
(* Managed skills: where the lists come from.                              *)

LEMMA Assoc ==
    ASSUME NEW p \in Lists, NEW q \in Lists, NEW r \in Lists
    PROVE  (p \o q) \o r = p \o (q \o r)
BY DEF Lists

LEMMA Joins ==
    ASSUME NEW p \in Lists, NEW q \in Lists
    PROVE  <<>> \o p = p /\ p \o <<>> = p /\ p \o q \in Lists /\ <<>> \in Lists
BY DEF Lists

\* The two lists of a swap, as they are put together and as they are taken apart.
Begin == <<"mkdir", "fill", "journal", "fsync">>
Aside == <<"aside", "fsync">>
In == <<"in", "fsync">>

LEMMA SwapParts ==
    /\ Begin \in Lists /\ Aside \in Lists /\ In \in Lists
    /\ RmB \in Lists /\ Close \in Lists /\ <<>> \in Lists
<1>1. {"mkdir", "fill", "journal", "fsync", "aside", "in"} \subseteq Ops
  BY DEF Ops, Changes
<1> HIDE DEF Ops
<1>2. Begin \in Lists /\ Aside \in Lists /\ In \in Lists
  BY <1>1 DEF Lists, Begin, Aside, In
<1>. QED
  BY <1>2, Ends DEF First, Lists

LEMMA SwapShort ==
    (((Begin \o <<>>) \o In) \o <<>>) \o Close = Begin \o (In \o Close)
<1>1. Begin \o <<>> = Begin /\ Begin \o In \in Lists
  BY SwapParts, Joins
<1>2. (Begin \o In) \o <<>> = Begin \o In
  BY ONLY <1>1, Joins
<1>3. Begin \in Lists /\ In \in Lists /\ Close \in Lists
  BY SwapParts
<1>4. (Begin \o In) \o Close = Begin \o (In \o Close)
  BY ONLY <1>3, Assoc
<1>. QED
  BY <1>1, <1>2, <1>4

LEMMA SwapLong ==
    (((Begin \o Aside) \o In) \o RmB) \o Close = Begin \o (Aside \o (In \o (RmB \o Close)))
<1> DEFINE a == Begin \o Aside
           b == RmB \o Close
           c == a \o In
           d == In \o b
<1> HIDE DEF a, b, c, d
<1>1. a \in Lists /\ b \in Lists
  BY SwapParts, Joins DEF a, b
<1>2. c \in Lists /\ d \in Lists
  BY <1>1, SwapParts, Joins DEF c, d
<1>3. (c \o RmB) \o Close = c \o (RmB \o Close)
  <2>1. c \in Lists /\ RmB \in Lists /\ Close \in Lists
    BY <1>2, SwapParts
  <2>. QED
    BY ONLY <2>1, Assoc
<1>4. (a \o In) \o b = a \o (In \o b)
  <2>1. a \in Lists /\ In \in Lists /\ b \in Lists
    BY <1>1, SwapParts
  <2>. QED
    BY ONLY <2>1, Assoc
<1>5. (Begin \o Aside) \o d = Begin \o (Aside \o d)
  <2>1. Begin \in Lists /\ Aside \in Lists /\ d \in Lists
    BY <1>2, SwapParts
  <2>. QED
    BY ONLY <2>1, Assoc
<1>6. (c \o RmB) \o Close = Begin \o (Aside \o d)
  BY <1>3, <1>4, <1>5 DEF a, b, c, d
<1>. QED
  BY <1>6 DEF a, b, c, d

\* Where a list that is done has led.
LEMMA NotEmpty ==
    /\ Repairing /\ todo = <<>> => NoStaging /\ NoBackup /\ ~fs.journal
    /\ Swapping /\ todo = <<>> => fs = I!Installed(New) /\ Durable
    /\ RollingBack /\ todo = <<>> => PutBack
<1>1. Repairing /\ todo = <<>> => NoStaging /\ NoBackup /\ ~fs.journal
  BY RepairLists DEF Repairing, First
<1>2. Swapping /\ todo = <<>> => fs = I!Installed(New) /\ Durable
  BY SwapLists DEF Swapping, First
<1>3. RollingBack /\ todo = <<>> => PutBack
  BY RollbackLists DEF RollingBack, First
<1>. QED
  BY <1>1, <1>2, <1>3

LEMMA RepairBegins ==
    ASSUME DiskInv', todo' = I!Repair(fs), UNCHANGED fs, exposed' # "aside"
    PROVE  Repairing'
<1>1. NoTree' = NoTree /\ NoTree = I!NoTree
  BY DEF NoTree, I!NoTree
<1>2. /\ I!RemoveStaging(fs) = IF NoStaging THEN <<>> ELSE RmS
      /\ I!RemoveBackup(fs) = IF NoBackup THEN <<>> ELSE RmB
  BY <1>1 DEF I!RemoveStaging, I!RemoveBackup, RmS, RmB, NoStaging, NoBackup
<1>3. Close \in Lists /\ RmS \in Lists /\ RmB \in Lists /\ <<"back">> \in Lists /\ <<>> \in Lists
  BY Ends, Lone DEF First, Ops, Changes, Lists
<1>4. NoStaging' = NoStaging /\ NoBackup' = NoBackup
  BY <1>1 DEF NoStaging, NoBackup
<1>5. CASE ~fs.journal
  <2>1. todo' = I!RemoveStaging(fs) \o I!RemoveBackup(fs)
    BY <1>5 DEF I!Repair
  <2>2. ~NoBackup => NotTheLast'
    BY <1>1, <1>5 DEF DiskInv, NeverLost, Safe, NoBackup, NotTheLast
  <2>3. CASE NoStaging /\ NoBackup
    <3>1. todo' = <<>>
      BY <1>2, <1>3, <2>1, <2>3, Joins
    <3>. QED
      BY <1>4, <1>5, <2>3, <3>1 DEF Repairing
  <2>4. CASE ~NoStaging /\ NoBackup
    <3>1. todo' = RmS
      BY <1>2, <1>3, <2>1, <2>4, Joins
    <3>. QED
      BY <1>4, <1>5, <2>4, <3>1 DEF Repairing
  <2>5. CASE NoStaging /\ ~NoBackup
    <3>1. todo' = RmB
      BY <1>2, <1>3, <2>1, <2>5, Joins
    <3>. QED
      BY <1>4, <1>5, <2>2, <2>5, <3>1 DEF Repairing
  <2>6. CASE ~NoStaging /\ ~NoBackup
    <3>1. todo' = RmS \o RmB
      BY <1>2, <2>1, <2>6
    <3>. QED
      BY <1>4, <1>5, <2>2, <2>6, <3>1 DEF Repairing
  <2>. QED
    BY <2>3, <2>4, <2>5, <2>6
<1>6. CASE fs.journal
  <2> DEFINE p == IF fs.dest # NoTree THEN I!RemoveBackup(fs) ELSE IF ~NoBackup THEN <<"back">> ELSE <<>>
  <2>1. todo' = (p \o I!RemoveStaging(fs)) \o Close
    BY <1>1, <1>6 DEF I!Repair, Close, NoBackup
  <2>2. p \in {<<>>, RmB, <<"back">>}
    BY <1>2
  <2>3. /\ p = <<>> => NoBackup
        /\ p = RmB => fs.dest # NoTree
        /\ p = <<"back">> => fs.dest = NoTree /\ ~NoBackup
    <3>1. RmB # <<>> /\ <<"back">> # <<>> /\ RmB # <<"back">>
      BY DEF RmB
    <3>. QED
      BY <1>2, <3>1
  <2> HIDE DEF p
  <2>4. CASE NoStaging
    <3>1. todo' = p \o Close
      BY <1>2, <1>3, <2>1, <2>2, <2>4, Joins
    <3>2. CASE p = <<>>
      <4>1. todo' = Close
        BY <1>3, <3>1, <3>2, Joins
      <4>. QED
        BY <1>4, <2>3, <2>4, <3>2, <4>1 DEF Repairing
    <3>3. CASE p = RmB
      BY <1>1, <1>4, <2>3, <2>4, <3>1, <3>3 DEF Repairing, NotTheLast
    <3>4. CASE p = <<"back">>
      BY <1>1, <1>4, <2>3, <2>4, <3>1, <3>4 DEF Repairing
    <3>. QED
      BY <2>2, <3>2, <3>3, <3>4
  <2>5. CASE ~NoStaging
    <3>1. todo' = p \o (RmS \o Close)
      <4>1. todo' = (p \o RmS) \o Close
        BY <1>2, <2>1, <2>5
      <4>2. p \in Lists
        BY <1>3, <2>2
      <4>3. (p \o RmS) \o Close = p \o (RmS \o Close)
        BY <1>3, <4>2, Assoc
      <4>. QED
        BY <4>1, <4>3
    <3>2. CASE p = <<>>
      <4>1. todo' = RmS \o Close
        BY <1>3, <3>1, <3>2, Joins
      <4>. QED
        BY <1>4, <2>3, <2>5, <3>2, <4>1 DEF Repairing
    <3>3. CASE p = RmB
      BY <1>1, <1>4, <2>3, <2>5, <3>1, <3>3 DEF Repairing, NotTheLast
    <3>4. CASE p = <<"back">>
      BY <1>1, <1>4, <2>3, <2>5, <3>1, <3>4 DEF Repairing
    <3>. QED
      BY <2>2, <3>2, <3>3, <3>4
  <2>. QED
    BY <2>4, <2>5
<1>. QED
  BY <1>5, <1>6

LEMMA SwapBegins ==
    ASSUME todo' = I!Swap(fs), NoStaging, NoBackup, UNCHANGED fs
    PROVE  Swapping'
<1>1. NoTree' = NoTree /\ NoTree = I!NoTree /\ NoStaging' /\ NoBackup' /\ Rest' = Rest
  BY DEF NoTree, I!NoTree, NoStaging, NoBackup, Rest
<1>2. I!Swap(fs) = (((Begin \o (IF fs.dest = NoTree THEN <<>> ELSE Aside)) \o In)
                      \o (IF fs.dest = NoTree THEN <<>> ELSE RmB)) \o Close
  BY <1>1 DEF I!Swap, Begin, Aside, In, RmB, Close
<1>3. MoveIn = In \o Close /\ MoveAside = Aside \o (In \o (RmB \o Close))
  BY DEF MoveIn, MoveOver, MoveAside, Aside, In
<1>4. todo' = Begin \o Rest
  <2>1. CASE fs.dest = NoTree
    <3>1. todo' = (((Begin \o <<>>) \o In) \o <<>>) \o Close
      BY <1>2, <2>1
    <3>2. Rest = In \o Close
      BY <1>3, <2>1 DEF Rest
    <3>. QED
      BY <3>1, <3>2, SwapShort
  <2>2. CASE fs.dest # NoTree
    <3>1. todo' = (((Begin \o Aside) \o In) \o RmB) \o Close
      BY <1>2, <2>2
    <3>2. Rest = Aside \o (In \o (RmB \o Close))
      BY <1>3, <2>2 DEF Rest
    <3>. QED
      BY <3>1, <3>2, SwapLong
  <2>. QED
    BY <2>1, <2>2
<1>. QED
  BY <1>1, <1>4 DEF Swapping, Begin

\* A tree that is aside is there with the journal, whatever is lost.
LEMMA AsideIsJournalled ==
    ASSUME Swapping, New # NoTree, fs.dest = NoTree, ~NoBackup PROVE Journalled \/ todo = <<>>
BY DEF Swapping, Landed, Staged, Durable, Journalled

LEMMA RollbackBegins ==
    ASSUME todo' = I!Rollback(fs), UNCHANGED <<fs, maybe>>, exposed' # "aside",
           fs.dest = NoTree /\ ~NoBackup => Journalled
    PROVE  RollingBack'
<1>1. NoTree' = NoTree /\ NoTree = I!NoTree /\ NoBackup' = NoBackup /\ Journalled' = Journalled
  BY DEF NoTree, I!NoTree, NoBackup, Journalled
<1>2. I!RemoveStaging(fs) = IF NoStaging THEN <<>> ELSE RmS
  BY <1>1 DEF I!RemoveStaging, RmS, NoStaging
<1>3. Undo \in Lists /\ RmS \in Lists /\ <<"back">> \in Lists /\ <<>> \in Lists
  BY Ends, Lone DEF First, Ops, Changes, Lists
<1>4. todo' = ((IF fs.dest = NoTree /\ ~NoBackup THEN <<"back">> ELSE <<>>) \o I!RemoveStaging(fs)) \o Undo
  BY <1>1 DEF I!Rollback, Undo, NoBackup
<1>5. CASE fs.dest = NoTree /\ ~NoBackup
  <2>1. CASE NoStaging
    <3>1. todo' = <<"back">> \o Undo
      BY <1>2, <1>3, <1>4, <1>5, <2>1, Joins
    <3>. QED
      BY <1>1, <1>5, <3>1 DEF RollingBack
  <2>2. CASE ~NoStaging
    <3>1. todo' = <<"back">> \o (RmS \o Undo)
      <4>1. todo' = (<<"back">> \o RmS) \o Undo
        BY <1>2, <1>4, <1>5, <2>2
      <4>2. (<<"back">> \o RmS) \o Undo = <<"back">> \o (RmS \o Undo)
        BY <1>3, Assoc
      <4>. QED
        BY <4>1, <4>2
    <3>. QED
      BY <1>1, <1>5, <3>1 DEF RollingBack
  <2>. QED
    BY <2>1, <2>2
<1>6. CASE ~(fs.dest = NoTree /\ ~NoBackup)
  <2>1. PutBack'
    BY <1>1, <1>6 DEF PutBack
  <2>2. CASE NoStaging
    <3>1. todo' = Undo
      BY <1>2, <1>3, <1>4, <1>6, <2>2, Joins
    <3>. QED
      BY <2>1, <3>1 DEF RollingBack
  <2>3. CASE ~NoStaging
    <3>1. todo' = RmS \o Undo
      BY <1>2, <1>3, <1>4, <1>6, <2>3, Joins
    <3>. QED
      BY <2>1, <3>1 DEF RollingBack
  <2>. QED
    BY <2>2, <2>3
<1>. QED
  BY <1>5, <1>6

---------------------------------------------------------------------------
(* Managed skills: the other steps of a boot.                              *)

\* A step that leaves the disk and what was kept alone.
LEMMA DiskSame ==
    ASSUME DiskInv, UNCHANGED <<fs, maybe, unsynced, kept, cut>>, installs' \in installs..MaxInstalls,
           exposed' \in {exposed, "void"} \/ (exposed = "no" /\ exposed' = "aside")
    PROVE  DiskInv'
<1>1. NoTree' = NoTree /\ Trees' = Trees /\ FileSystems' = FileSystems
  BY DEF NoTree, I!NoTree, FileSystems, Trees, I!Trees
<1>2. installs \in 0..MaxInstalls /\ kept \in 0..installs
  BY DEF DiskInv, OnDisk
<1>3. OnDisk'
  <2>1. installs' \in 0..MaxInstalls
    BY <1>2
  <2>2. kept' \in 0..installs'
    BY <1>2
  <2>. QED
    BY <1>1, <2>1, <2>2 DEF DiskInv, OnDisk, Exposures
<1>4. \A f : exposed' # "void" /\ Safe(f) => Safe(f)'
  BY <1>1 DEF Safe, I!Last, I!Untouched
<1>5. NeverLost' /\ InPlace'
  BY <1>1, <1>4 DEF DiskInv, NeverLost, InPlace, I!Unsynced
<1>. QED
  BY <1>3, <1>5 DEF DiskInv

\* The next boot finds the journal of a rollback that left the tree aside, or the
\* tree in place, and so it would after a power failure.
LEMMA AsideEnds ==
    ASSUME DiskInv, Stranded \/ Durable, fs.journal \/ fs.dest # NoTree, exposed = "aside", exposed' = "no",
           UNCHANGED <<fs, maybe, unsynced, kept, cut, installs>>
    PROVE  DiskInv'
<1>1. NoTree' = NoTree /\ Trees' = Trees /\ FileSystems' = FileSystems
  BY DEF NoTree, I!NoTree, FileSystems, Trees, I!Trees
<1>2. OnDisk'
  BY <1>1 DEF DiskInv, OnDisk, Exposures
<1>3. \A f : (f.journal \/ f.dest # NoTree) /\ Safe(f) => Safe(f)'
  BY <1>1 DEF Safe, I!Last, I!Untouched
<1>4. \A f \in maybe : f.journal \/ f.dest # NoTree
  BY DEF Stranded, Journalled, Durable
<1>5. NeverLost' /\ InPlace'
  BY <1>1, <1>3, <1>4 DEF DiskInv, OnDisk, NeverLost, InPlace, I!Unsynced
<1>. QED
  BY <1>2, <1>5 DEF DiskInv

\* A swap that came to its end: what it installed is there, and durable.
LEMMA SwapEnds ==
    ASSUME I!ConstantsOK, DiskInv, fs = I!Installed(New), Durable, kept' = installs,
           exposed' = "no", UNCHANGED <<fs, maybe, unsynced, installs, cut>>
    PROVE  DiskInv'
<1>1. NoTree' = NoTree /\ Trees' = Trees /\ FileSystems' = FileSystems
  BY DEF NoTree, I!NoTree, FileSystems, Trees, I!Trees
<1>2. OnDisk'
  BY <1>1 DEF DiskInv, OnDisk, Exposures
<1>3. fs.dest = New /\ New # NoTree /\ New.whole /\ New.v = installs /\ installs \in Nat
  BY Values DEF DiskInv, I!Installed
<1>4. \A f \in maybe' : f = fs
  BY DEF Durable
<1>5. Safe(fs)'
  BY <1>1, <1>3 DEF Safe, I!Last, I!Untouched
<1>6. NeverLost'
  <2>1. \A f \in maybe' : Safe(f)'
    BY <1>4, <1>5 DEF Safe, I!Last, I!Untouched
  <2>. QED
    BY <1>5, <2>1 DEF NeverLost
<1>7. InPlace'
  BY <1>1, <1>3, <1>4 DEF InPlace
<1>. QED
  BY <1>2, <1>6, <1>7 DEF DiskInv

\* A power failure.
LEMMA PowerLost ==
    ASSUME I!ConstantsOK, DiskInv, NEW f \in maybe,
           NEW places \in SUBSET {p \in {"dest", "staging", "backup"} : f[p].v > 0},
           fs' = I!Cut(f, places), cut' = cut \cup {f[p].v : p \in places},
           maybe' = {fs'}, unsynced' = {},
           exposed' = (IF I!Unsynced THEN "void" ELSE exposed), UNCHANGED <<installs, kept>>
    PROVE  DiskInv' /\ Durable'
<1>1. NoTree' = NoTree /\ Trees' = Trees /\ FileSystems' = FileSystems
  BY DEF NoTree, I!NoTree, FileSystems, Trees, I!Trees
<1>2. f \in FileSystems /\ f.dest \in Trees /\ f.staging \in Trees /\ f.backup \in Trees
  BY DEF DiskInv, OnDisk, FileSystems
<1> DEFINE d == IF "dest" \in places THEN I!Spoiled(f.dest) ELSE f.dest
           t == IF "staging" \in places THEN I!Spoiled(f.staging) ELSE f.staging
           b == IF "backup" \in places THEN I!Spoiled(f.backup) ELSE f.backup
<1>3. d \in Trees /\ t \in Trees /\ b \in Trees
  BY <1>2, Values DEF DiskInv
<1>4. /\ "dest" \in places => f.dest.v > 0 /\ f.dest.v \in cut'
      /\ "backup" \in places => f.backup.v > 0 /\ f.backup.v \in cut'
      /\ cut \subseteq cut'
  OBVIOUS
<1>5. /\ (d = NoTree) = (f.dest = NoTree) /\ (I!Last(f.dest) => I!Last(d)')
      /\ (b = NoTree) = (f.backup = NoTree) /\ (I!Last(f.backup) => I!Last(b)')
  <2>1. \A x \in Trees : x.v > 0 => x # NoTree /\ I!Spoiled(x) # NoTree
    BY DEF NoTree, I!NoTree, I!Spoiled
  <2>2. \A x \in Trees : I!Spoiled(x).v = x.v
    BY DEF I!Spoiled
  <2>. QED
    BY <1>2, <1>4, <2>1, <2>2 DEF I!Last, I!Untouched
<1>6. fs' = [f EXCEPT !.dest = d, !.staging = t, !.backup = b]
  BY DEF I!Cut
<1> HIDE DEF d, t, b
<1>7. /\ fs'.dest = d /\ fs'.staging = t /\ fs'.backup = b /\ fs'.journal = f.journal
      /\ fs' \in FileSystems
  BY <1>2, <1>3, <1>6 DEF FileSystems
<1>8. OnDisk'
  BY <1>1, <1>7 DEF DiskInv, OnDisk, Exposures
<1>9. \A g \in maybe' : g = fs'
  OBVIOUS
<1>10. ASSUME ~I!Unsynced, exposed # "void" PROVE Safe(fs)'
  <2>1. Safe(f) /\ exposed' = exposed
    BY <1>10 DEF DiskInv, NeverLost
  <2>. QED
    BY <1>1, <1>5, <1>7, <2>1 DEF Safe
<1>11. NeverLost' /\ InPlace'
  BY <1>9, <1>10 DEF NeverLost, InPlace, Safe
<1>. QED
  BY <1>8, <1>11 DEF DiskInv, Durable

\* Of a rollback, an operation that fails is passed over; if it was to put the
\* tree back, the tree stays aside.
LEMMA RollbackGoesOn ==
    ASSUME RollingBack, todo # <<>>, todo' = Tail(todo), UNCHANGED <<fs, maybe>>, exposed \in Exposures,
           exposed' = IF exposed = "no" /\ Head(todo) = "back" THEN "aside" ELSE exposed
    PROVE  /\ RollingBack'
           /\ exposed' = "aside" => Stranded' \/ (exposed = "aside" /\ (Stranded => Stranded'))
<1>1. NoTree' = NoTree /\ (PutBack => PutBack') /\ Stranded' = Stranded
  BY DEF NoTree, I!NoTree, PutBack, NoBackup, Stranded, Journalled, Exposures
<1>2. Head(todo) = "back" => PutBack'
  BY DEF PutBack, Exposures
<1>3. exposed = "no" /\ Head(todo) = "back" => Stranded
  BY RollbackLists DEF RollingBack, First, Stranded
<1>4. RollingBack'
  <2>1. CASE todo \in {<<"back">> \o (RmS \o Undo), <<"back">> \o Undo}
    <3>1. todo' \in {RmS \o Undo, Undo} /\ Head(todo) = "back"
      BY <2>1, RollbackLists DEF First
    <3>. QED
      BY <1>2, <3>1 DEF RollingBack
  <2>2. CASE todo \in {RmS \o Undo, <<"rmStaging">> \o Undo, Undo} /\ PutBack
    <3>1. todo' \in {<<"rmStaging">> \o Undo, Undo, <<>>}
      BY <2>2, RollbackLists DEF First
    <3>. QED
      BY <1>1, <2>2, <3>1 DEF RollingBack
  <2>. QED
    BY <2>1, <2>2 DEF RollingBack
<1>. QED
  BY <1>1, <1>3, <1>4 DEF Exposures

---------------------------------------------------------------------------
(* Managed skills: nothing is in the way.                                  *)

LEMMA RepairIsPossible ==
    ASSUME Repairing, todo # <<>> PROVE I!Possible(Head(todo))
<1>1. NoTree = I!NoTree
  BY DEF NoTree
<1>2. Head(todo) \notin {"mkdir", "aside", "in"}
  BY RepairLists DEF Repairing, First
<1>3. Head(todo) = "back" => fs.dest = NoTree
  BY RepairLists DEF Repairing, First
<1>. QED
  BY <1>1, <1>2, <1>3 DEF I!Possible

LEMMA SwapIsPossible ==
    ASSUME Swapping, todo # <<>> PROVE I!Possible(Head(todo))
<1>1. NoTree = I!NoTree
  BY DEF NoTree
<1>2. Head(todo) # "back"
  BY SwapLists DEF Swapping, First
<1>3. /\ Head(todo) = "mkdir" => NoStaging
      /\ Head(todo) = "aside" => NoBackup
      /\ Head(todo) = "in" => fs.dest = NoTree
  BY SwapLists DEF Swapping, First
<1>. QED
  BY <1>1, <1>2, <1>3 DEF I!Possible, NoStaging, NoBackup

LEMMA RollbackIsPossible ==
    ASSUME RollingBack, todo # <<>> PROVE I!Possible(Head(todo))
<1>1. NoTree = I!NoTree
  BY DEF NoTree
<1>2. Head(todo) \notin {"mkdir", "aside", "in"} /\ (Head(todo) = "back" => fs.dest = NoTree)
  BY RollbackLists DEF RollingBack, First
<1>. QED
  BY <1>1, <1>2 DEF I!Possible

LEMMA NothingIsInTheWay == SkillInv => I!NothingInTheWay
BY RepairIsPossible, SwapIsPossible, RollbackIsPossible DEF SkillInv, OnItsWay, I!NothingInTheWay

---------------------------------------------------------------------------
(* Managed skills: initially, and each step.                               *)

LEMMA SkillsBegin == I!ConstantsOK /\ I!Init => SkillInv
<1>. SUFFICES ASSUME I!ConstantsOK, I!Init PROVE SkillInv
  OBVIOUS
<1>1. fs = I!Installed(NoTree) /\ maybe = {fs} /\ unsynced = {} /\ installs = 0 /\ kept = 0 /\ exposed = "no"
  BY DEF I!Init, NoTree
<1>2. MaxInstalls \in Nat
  BY DEF I!ConstantsOK
<1>3. NoTree \in Trees
  BY <1>2 DEF NoTree, I!NoTree, Trees, I!Trees
<1>4. fs \in FileSystems /\ fs.dest = NoTree /\ fs.backup = NoTree
  BY <1>1, <1>3 DEF I!Installed, FileSystems, NoTree
<1>5. OnDisk
  <2>1. fs \in maybe /\ maybe \subseteq FileSystems /\ unsynced \subseteq Changes /\ exposed \in Exposures
    BY <1>1, <1>4 DEF Exposures
  <2>2. installs \in 0..MaxInstalls /\ kept \in 0..installs
    BY <1>1, <1>2
  <2>. QED
    BY <2>1, <2>2 DEF OnDisk
<1>6. NeverLost /\ InPlace
  BY <1>1, <1>4 DEF NeverLost, InPlace, Safe
<1>7. OnItsWay
  BY DEF I!Init, OnItsWay, AsideStays
<1>. QED
  BY <1>5, <1>6, <1>7 DEF SkillInv, DiskInv

LEMMA SkillBoot ==
    ASSUME I!ConstantsOK, SkillInv, I!Boot PROVE SkillInv'
<1>1. installs \in 0..MaxInstalls /\ MaxInstalls \in Nat /\ exposed \in Exposures
  BY DEF SkillInv, DiskInv, OnDisk, I!ConstantsOK
<1>2. /\ installs' = installs + 1 /\ installs < MaxInstalls /\ step' = "fetched" /\ todo' = <<>>
      /\ wanted' \subseteq Names /\ found' \subseteq Discovered
      /\ UNCHANGED <<fs, maybe, unsynced, kept, exposed, cut>> /\ step = "off"
  BY DEF I!Boot, I!fsVars, I!powerVars
<1>3. installs' \in installs..MaxInstalls /\ installs' > 0
  BY <1>1, <1>2
<1>4. DiskInv'
  BY <1>1, <1>2, <1>3, DiskSame DEF SkillInv
<1>5. Stranded' = Stranded /\ Durable' = Durable
  BY <1>2 DEF Stranded, Durable, NoBackup, Journalled, NoTree, I!NoTree
<1>6. OnItsWay'
  BY <1>2, <1>3, <1>5 DEF SkillInv, OnItsWay, AsideStays
<1>. QED
  BY <1>4, <1>6 DEF SkillInv

LEMMA SkillCheck ==
    ASSUME I!ConstantsOK, SkillInv, I!Check PROVE SkillInv'
<1>1. installs \in 0..MaxInstalls /\ MaxInstalls \in Nat /\ exposed \in Exposures
  BY DEF SkillInv, DiskInv, OnDisk, I!ConstantsOK
<1>2. UNCHANGED <<fs, maybe, unsynced, wanted, found, installs, kept, cut>> /\ step = "fetched"
  BY DEF I!Check, I!fsVars
<1>3. /\ exposed = "aside" => Stranded \/ Durable
      /\ DiskInv /\ installs > 0 /\ todo = <<>> /\ wanted \subseteq Names /\ found \subseteq Discovered
  BY <1>2 DEF SkillInv, OnItsWay, AsideStays
<1>4. CASE /\ ~I!Collides(wanted) /\ step' = "repair" /\ todo' = I!Repair(fs)
           /\ exposed' = (IF exposed # "aside" THEN exposed
                          ELSE IF fs.journal \/ fs.dest # I!NoTree THEN "no" ELSE "void")
  <2>1. exposed' # "aside"
    BY <1>4
  <2>2. DiskInv'
    <3>1. CASE exposed' \in {exposed, "void"}
      BY <1>1, <1>2, <1>3, <3>1, DiskSame
    <3>2. CASE exposed = "aside" /\ exposed' = "no"
      <4>1. fs.journal \/ fs.dest # NoTree
        BY <1>4, <3>2 DEF NoTree
      <4>. QED
        BY <1>2, <1>3, <3>2, <4>1, AsideEnds
    <3>. QED
      BY <1>4, <3>1, <3>2
  <2>3. Repairing'
    BY <1>2, <1>4, <2>1, <2>2, RepairBegins
  <2>4. ~I!Collides(wanted)'
    BY <1>2, <1>4 DEF I!Collides, I!CollisionRoot, I!SkillNames
  <2>. QED
    BY <1>2, <1>3, <1>4, <2>1, <2>2, <2>3, <2>4 DEF SkillInv, OnItsWay, AsideStays
<1>5. CASE step' = "failed" /\ UNCHANGED <<todo, exposed>>
  <2>1. DiskInv'
    BY <1>1, <1>2, <1>3, <1>5, DiskSame
  <2>2. Stranded' = Stranded /\ Durable' = Durable
    BY <1>2 DEF Stranded, Durable, NoBackup, Journalled, NoTree, I!NoTree
  <2>. QED
    BY <1>2, <1>3, <1>5, <2>1, <2>2 DEF SkillInv, OnItsWay, AsideStays
<1>. QED
  BY <1>4, <1>5 DEF I!Check

LEMMA SkillDo ==
    ASSUME I!ConstantsOK, SkillInv, I!Do PROVE SkillInv'
<1>1. todo # <<>> /\ DiskInv /\ OnItsWay
  BY DEF I!Do, SkillInv
<1>2. Held => (I!Collides(wanted)' <=> I!Collides(wanted))
  BY DEF Held, I!Collides, I!CollisionRoot, I!SkillNames
<1>0. exposed = "aside" => step = "rollback" /\ Stranded
  BY <1>1 DEF OnItsWay, AsideStays
<1>3. CASE step = "repair"
  <2>1. DiskInv' /\ Repairing' /\ Held
    BY <1>1, <1>3, RepairStep DEF OnItsWay
  <2>. QED
    BY <1>0, <1>1, <1>2, <1>3, <2>1 DEF Held, SkillInv, OnItsWay, AsideStays
<1>4. CASE step = "swap"
  <2>1. DiskInv' /\ Swapping' /\ Held
    BY <1>1, <1>4, SwapStep DEF OnItsWay
  <2>. QED
    BY <1>0, <1>1, <1>2, <1>4, <2>1 DEF Held, SkillInv, OnItsWay, AsideStays
<1>5. CASE step = "rollback"
  <2>1. DiskInv' /\ RollingBack' /\ Held /\ (exposed = "aside" => Stranded')
    BY <1>0, <1>1, <1>5, RollbackStep DEF OnItsWay
  <2>. QED
    <3>1. AsideStays'
      BY <1>5, <2>1 DEF Held, AsideStays
    <3>. QED
      BY <1>1, <1>2, <1>5, <2>1, <3>1 DEF Held, SkillInv, OnItsWay
<1>. QED
  BY <1>1, <1>3, <1>4, <1>5 DEF OnItsWay

LEMMA SkillFail ==
    ASSUME I!ConstantsOK, SkillInv, I!Fail PROVE SkillInv'
<1>1. installs \in 0..MaxInstalls /\ MaxInstalls \in Nat /\ exposed \in Exposures
  BY DEF SkillInv, DiskInv, OnDisk, I!ConstantsOK
<1>2. /\ UNCHANGED <<fs, maybe, unsynced, wanted, found, installs, kept, cut>> /\ todo # <<>>
      /\ exposed' = IF exposed = "no" /\ step = "rollback" /\ Head(todo) = "back" THEN "aside" ELSE exposed
  BY DEF I!Fail, I!fsVars
<1>3. DiskInv'
  BY <1>1, <1>2, DiskSame DEF SkillInv
<1>4. /\ exposed = "aside" => step = "rollback" /\ Stranded
      /\ installs > 0 /\ wanted \subseteq Names /\ found \subseteq Discovered
  BY <1>2 DEF SkillInv, OnItsWay, AsideStays, I!Fail
<1>5. CASE step = "swap" /\ step' = "rollback" /\ todo' = I!Rollback(fs)
  <2>1. exposed' = exposed /\ exposed # "aside"
    BY <1>2, <1>4, <1>5
  <2>2. fs.dest = NoTree /\ ~NoBackup => Journalled
    BY <1>2, <1>5, AsideIsJournalled, Values DEF SkillInv, DiskInv, OnItsWay
  <2>3. RollingBack'
    BY <1>2, <1>5, <2>1, <2>2, RollbackBegins
  <2>. QED
    BY <1>2, <1>3, <1>4, <1>5, <2>1, <2>3 DEF SkillInv, OnItsWay, AsideStays
<1>6. CASE step \in {"swap", "repair"} /\ step' = "failed" /\ todo' = <<>>
  <2>1. exposed' = exposed /\ exposed # "aside"
    BY <1>2, <1>4, <1>6
  <2>. QED
    BY <1>2, <1>3, <1>4, <1>6, <2>1 DEF SkillInv, OnItsWay, AsideStays
<1>7. CASE step = "rollback" /\ todo' = Tail(todo) /\ UNCHANGED step
  <2>1. exposed' = IF exposed = "no" /\ Head(todo) = "back" THEN "aside" ELSE exposed
    BY <1>2, <1>7
  <2>2. RollingBack' /\ (exposed' = "aside" => Stranded')
    BY <1>1, <1>2, <1>4, <1>7, <2>1, RollbackGoesOn DEF SkillInv, OnItsWay
  <2>3. AsideStays'
    BY <1>7, <2>2 DEF AsideStays
  <2>. QED
    BY <1>2, <1>3, <1>4, <1>7, <2>2, <2>3 DEF SkillInv, OnItsWay
<1>. QED
  BY <1>5, <1>6, <1>7 DEF I!Fail

LEMMA SkillFinish ==
    ASSUME I!ConstantsOK, SkillInv, I!Finish PROVE SkillInv'
<1>1. installs \in 0..MaxInstalls /\ MaxInstalls \in Nat /\ exposed \in Exposures
  BY DEF SkillInv, DiskInv, OnDisk, I!ConstantsOK
<1>2. UNCHANGED <<fs, maybe, unsynced, wanted, found, installs, cut>> /\ todo = <<>>
  BY DEF I!Finish, I!fsVars
<1>7. exposed = "aside" => step \in {"rollback", "failed", "off", "fetched"}
  BY DEF SkillInv, OnItsWay, AsideStays
<1>3. I!Collides(wanted)' <=> I!Collides(wanted)
  BY <1>2 DEF I!Collides, I!CollisionRoot, I!SkillNames
<1>4. CASE step = "repair" /\ step' = "swap" /\ todo' = I!Swap(fs) /\ UNCHANGED <<kept, exposed>>
  <2>1. NoStaging /\ NoBackup
    BY <1>2, <1>4, NotEmpty DEF SkillInv, OnItsWay
  <2>2. Swapping'
    BY <1>2, <1>4, <2>1, SwapBegins
  <2>3. DiskInv'
    BY <1>1, <1>2, <1>4, DiskSame DEF SkillInv
  <2>. QED
    BY <1>2, <1>3, <1>4, <1>7, <2>2, <2>3 DEF SkillInv, OnItsWay, AsideStays
<1>5. CASE step = "swap" /\ step' = "booted" /\ kept' = installs /\ exposed' = "no" /\ UNCHANGED todo
  <2>1. fs = I!Installed(New) /\ Durable
    BY <1>2, <1>5, NotEmpty DEF SkillInv, OnItsWay
  <2>2. DiskInv'
    BY <1>2, <1>5, <2>1, SwapEnds DEF SkillInv
  <2>3. fs' = I!Installed(New)' /\ Durable'
    BY <1>2, <2>1 DEF I!Installed, New, I!Tree, Durable, I!NoTree
  <2>. QED
    BY <1>2, <1>3, <1>5, <2>2, <2>3 DEF SkillInv, OnItsWay, AsideStays
<1>6. CASE step = "rollback" /\ step' = "failed" /\ UNCHANGED <<todo, kept, exposed>>
  <2>1. DiskInv'
    BY <1>1, <1>2, <1>6, DiskSame DEF SkillInv
  <2>2. exposed = "aside" => Stranded'
    BY <1>2, <1>6 DEF SkillInv, OnItsWay, AsideStays, Stranded, NoBackup, Journalled, NoTree, I!NoTree
  <2>3. AsideStays'
    BY <1>6, <2>2 DEF AsideStays
  <2>. QED
    BY <1>2, <1>6, <2>1, <2>3 DEF SkillInv, OnItsWay
<1>. QED
  BY <1>4, <1>5, <1>6 DEF I!Finish

LEMMA SkillDie ==
    ASSUME I!ConstantsOK, SkillInv, I!Die PROVE SkillInv'
<1>1. installs \in 0..MaxInstalls /\ MaxInstalls \in Nat /\ exposed \in Exposures
  BY DEF SkillInv, DiskInv, OnDisk, I!ConstantsOK
<1>2. UNCHANGED <<wanted, found, installs, kept>> /\ step' = "off" /\ todo' = <<>> /\ step # "off"
  BY DEF I!Die
<1>3. ASSUME UNCHANGED <<fs, maybe, unsynced, exposed, cut>>
      PROVE  DiskInv' /\ (exposed = "aside" => Stranded' \/ Durable')
  <2>1. Stranded' = Stranded /\ Durable' = Durable
    BY <1>3 DEF Stranded, Durable, NoBackup, Journalled, NoTree, I!NoTree
  <2>. QED
    BY <1>1, <1>2, <1>3, <2>1, DiskSame DEF SkillInv, OnItsWay, AsideStays
<1>4. ASSUME NEW f \in maybe, NEW places \in SUBSET {p \in {"dest", "staging", "backup"} : f[p].v > 0},
             fs' = I!Cut(f, places), cut' = cut \cup {f[p].v : p \in places},
             maybe' = {fs'}, unsynced' = {}, exposed' = (IF I!Unsynced THEN "void" ELSE exposed)
      PROVE  DiskInv' /\ Durable'
  BY <1>2, <1>4, PowerLost DEF SkillInv
<1>5. DiskInv' /\ (exposed' = "aside" => Stranded' \/ Durable')
  <2>1. CASE UNCHANGED <<fs, maybe, unsynced, exposed, cut>>
    BY <1>3, <2>1
  <2>2. CASE ~UNCHANGED <<fs, maybe, unsynced, exposed, cut>>
    <3>1. /\ exposed' = (IF I!Unsynced THEN "void" ELSE exposed)
          /\ \E f \in maybe : \E places \in SUBSET {p \in {"dest", "staging", "backup"} : f[p].v > 0} :
                fs' = I!Cut(f, places) /\ cut' = cut \cup {f[p].v : p \in places}
          /\ maybe' = {fs'} /\ unsynced' = {}
      BY <2>2 DEF I!Die, I!fsVars, I!powerVars
    <3>. QED
      BY <1>4, <3>1
  <2>. QED
    BY <2>1, <2>2
<1>7. AsideStays'
  BY <1>2, <1>5 DEF AsideStays
<1>6. OnItsWay'
  BY <1>2, <1>5, <1>7 DEF SkillInv, OnItsWay
<1>. QED
  BY <1>5, <1>6 DEF SkillInv

LEMMA SkillStutter ==
    ASSUME I!ConstantsOK, SkillInv, UNCHANGED I!vars PROVE SkillInv'
<1>1. UNCHANGED <<fs, maybe, unsynced, step, todo, wanted, found, installs, kept, exposed, cut>>
  BY DEF I!vars, I!fsVars, I!powerVars
<1>2. installs \in 0..MaxInstalls /\ MaxInstalls \in Nat /\ exposed \in Exposures
  BY DEF SkillInv, DiskInv, OnDisk, I!ConstantsOK
<1>3. DiskInv'
  BY <1>1, <1>2, DiskSame DEF SkillInv
<1>4. New' = New /\ NoTree' = NoTree /\ (I!Collides(wanted)' <=> I!Collides(wanted))
  BY <1>1 DEF New, I!Tree, NoTree, I!NoTree, I!Collides, I!CollisionRoot, I!SkillNames
<1>5. /\ NoStaging' = NoStaging /\ NoBackup' = NoBackup /\ NotTheLast' = NotTheLast /\ PutBack' = PutBack
      /\ Rest' = Rest /\ Staged' = Staged /\ Durable' = Durable /\ I!Installed(New)' = I!Installed(New)
      /\ Journalled' = Journalled /\ Stranded' = Stranded
  BY <1>1, <1>4
     DEF NoStaging, NoBackup, NotTheLast, PutBack, Rest, Staged, Durable, I!Installed, I!NoTree,
         Journalled, Stranded
<1>6. Landed' = Landed
  BY <1>1, <1>4, <1>5 DEF Landed
<1>7. Repairing => Repairing'
  BY <1>1, <1>4, <1>5 DEF Repairing
<1>8. Swapping => Swapping'
  BY <1>1, <1>4, <1>5, <1>6 DEF Swapping
<1>9. RollingBack => RollingBack'
  BY <1>1, <1>4, <1>5 DEF RollingBack
<1>. QED
  BY <1>1, <1>3, <1>4, <1>5, <1>7, <1>8, <1>9 DEF SkillInv, OnItsWay, AsideStays

---------------------------------------------------------------------------
(* Managed skills: the theorems.                                           *)

\* The invariant gives the parts of the properties.
LEMMA SkillsTrusted == I!ConstantsOK /\ SkillInv => TrustedTree
<1>. SUFFICES ASSUME I!ConstantsOK, SkillInv PROVE TrustedTree
  OBVIOUS
<1>1. DiskInv /\ OnItsWay
  BY DEF SkillInv
<1>2. I!TypeOK
  BY <1>1 DEF DiskInv, OnDisk, OnItsWay, FileSystems, Trees, I!TypeOK
<1>3. I!NeverPartial
  <2>1. \A f \in FileSystems : Safe(f) => f.dest = I!NoTree \/ I!Untouched(f.dest)
    BY DEF Safe, NoTree, I!Last
  <2>. QED
    BY <1>1, <2>1 DEF DiskInv, OnDisk, NeverLost, I!NeverPartial, I!Afterwards
<1>4. I!BootedIsInstalled
  <2>. SUFFICES ASSUME step = "booted"
                PROVE  /\ fs = I!Installed(I!Tree(installs)) /\ maybe = {fs}
                       /\ \A d \in found : d.root # Destination => {d.dir, d.declared} \cap wanted = {}
    BY DEF I!BootedIsInstalled
  <2>1. fs = I!Installed(New) /\ Durable /\ ~I!Collides(wanted) /\ wanted \subseteq Names
    BY <1>1 DEF OnItsWay
  <2>2. "" \notin wanted
    BY <2>1 DEF I!ConstantsOK
  <2>3. \A d \in found : d.root # Destination => {d.dir, d.declared} \cap wanted = {}
    BY <2>1, <2>2 DEF I!Collides, I!CollisionRoot, I!SkillNames
  <2>. QED
    BY <2>1, <2>3 DEF New, Durable
<1>. QED
  BY <1>2, <1>3, <1>4 DEF TrustedTree, I!TrustedTree

LEMMA SkillsRecoverable == SkillInv => I!Recoverable
<1>. SUFFICES ASSUME SkillInv, kept > 0, exposed # "void"
              PROVE  \A f \in (IF I!Unsynced THEN {fs} ELSE maybe) : I!Survives(f)
  BY DEF I!Recoverable, I!Afterwards
<1>1. \A f : Safe(f) => I!Survives(f)
  <2>. SUFFICES ASSUME NEW f, Safe(f) PROVE I!Survives(f)
    OBVIOUS
  <2>1. kept # 0
    BY DEF SkillInv, DiskInv, OnDisk
  <2>. QED
    BY <2>1 DEF Safe, I!Survives, NoTree
<1>. QED
  BY <1>1 DEF SkillInv, DiskInv, NeverLost

\* Only a rollback that is over ends in "failed", and it has put the tree back,
\* or left it aside.
LEMMA RollbackKeeps ==
    SkillInv /\ [I!Next]_(I!vars)
      => (step = "rollback" /\ step' = "failed" /\ kept > 0 /\ exposed # "void"
            => LET left == IF exposed = "aside" THEN fs'.backup ELSE fs'.dest
               IN left # I!NoTree /\ I!Last(left))
<1>. SUFFICES ASSUME SkillInv, [I!Next]_(I!vars), step = "rollback", step' = "failed", kept > 0,
                     exposed # "void"
              PROVE  LET left == IF exposed = "aside" THEN fs'.backup ELSE fs'.dest
                     IN left # I!NoTree /\ I!Last(left)
  OBVIOUS
<1>1. I!Finish
  <2>1. ~I!Boot /\ ~I!Check /\ ~I!Do /\ ~I!Fail /\ ~I!Die /\ ~UNCHANGED I!vars
    BY DEF I!Boot, I!Check, I!Do, I!Fail, I!Die, I!vars
  <2>. QED
    BY <2>1 DEF I!Next
<1>2. fs' = fs /\ todo = <<>>
  BY <1>1 DEF I!Finish, I!fsVars
<1>3. PutBack
  BY <1>2, NotEmpty DEF SkillInv, OnItsWay
<1>4. Safe(fs) /\ kept # 0
  BY DEF SkillInv, DiskInv, OnDisk, NeverLost
<1>5. CASE exposed = "aside"
  <2>1. fs.dest = NoTree /\ fs.backup # NoTree
    BY <1>5 DEF SkillInv, OnItsWay, AsideStays, Stranded, NoBackup
  <2>. QED
    BY <1>2, <1>4, <1>5, <2>1 DEF Safe, NoTree
<1>6. CASE exposed = "no"
  <2>1. fs.dest # NoTree
    BY <1>3, <1>4, <1>6 DEF PutBack, NoBackup, Safe
  <2>. QED
    BY <1>2, <1>4, <1>6, <2>1 DEF Safe, NoTree
<1>. QED
  BY <1>5, <1>6 DEF SkillInv, DiskInv, OnDisk, Exposures

\* Whatever fails, dies or loses power: the last tree installed, less what a power
\* failure took from it, is in place or comes back, or a rollback left it aside;
\* and the operations still to be done fit what is on the disk.
THEOREM SkillsInvariant == I!ConstantsOK => (I!Spec => []SkillInv)
<1>. SUFFICES ASSUME I!ConstantsOK PROVE I!Spec => []SkillInv
  OBVIOUS
<1>1. I!Init => SkillInv
  BY SkillsBegin
<1>2. SkillInv /\ [I!Next]_(I!vars) => SkillInv'
  BY SkillBoot, SkillCheck, SkillDo, SkillFail, SkillFinish, SkillDie, SkillStutter DEF I!Next
<1>. QED
  BY <1>1, <1>2, PTL DEF I!Spec

\* No step of the process puts part of a tree in the destination (what a power
\* failure takes of one is not undone), and a boot that succeeded left the tree it
\* fetched, its name durable, with no trace of the swap and none of its skills
\* shadowed (materialize.go:61-62, 94-96, 199-203).
THEOREM SkillsAreTrusted == I!ConstantsOK => (I!Spec => []TrustedTree)
<1>. SUFFICES ASSUME I!ConstantsOK PROVE I!Spec => []TrustedTree
  OBVIOUS
<1>1. SkillInv => TrustedTree
  BY SkillsTrusted
<1>2. I!Spec => []SkillInv
  BY SkillsInvariant
<1>. QED
  BY <1>1, <1>2, PTL

\* No boot takes the last tree away, however it ends: it is in place, or the next
\* repair puts it back, or the rollback that could not has left it aside; nothing
\* left behind makes a later operation impossible; and a swap that was rolled back
\* has the tree in place, or aside (materialize.go:202-203, 223-224, 280-282).
THEOREM SkillsSurvive == I!ConstantsOK => (I!Spec => TreeSurvives)
<1>. SUFFICES ASSUME I!ConstantsOK PROVE I!Spec => TreeSurvives
  OBVIOUS
<1>1. SkillInv => I!Recoverable /\ I!NothingInTheWay
  BY SkillsRecoverable, NothingIsInTheWay
<1>2. SkillInv /\ [I!Next]_(I!vars)
        => [step = "rollback" /\ step' = "failed" /\ kept > 0 /\ exposed # "void"
             => LET left == IF exposed = "aside" THEN fs'.backup ELSE fs'.dest
                IN left # I!NoTree /\ I!Last(left)]_(I!vars)
  BY RollbackKeeps
<1>3. I!Spec => []SkillInv
  BY SkillsInvariant
<1>4. I!Spec => [](I!Recoverable /\ I!NothingInTheWay)
  BY <1>1, <1>3, PTL
<1>5. I!Spec => I!RollbackKeepsTree
  BY <1>2, <1>3, PTL DEF I!Spec, I!RollbackKeepsTree
<1>. QED
  BY <1>4, <1>5 DEF TreeSurvives, I!TreeSurvives

---------------------------------------------------------------------------
(* Collections: the invariant. *)

Files == [path : B!Paths, status : {"added", "modified", "deleted", "unmerged", "submodule"},
          stats : Nat \cup {Binary}, state : {"renderable", "metadata_only", "too_large", "binary"},
          patch : Nat]
EntriesOfBundle == [status : {"ready", "unavailable"}, files : Seq(Files), bytes : Nat,
                    truncated : BOOLEAN, omitted : Nat]
ChangesOfGit == [path : B!Paths, status : {"added", "modified", "deleted", "unmerged"}, untracked : BOOLEAN]

Collected ==
    /\ setup \in Sessions /\ tree \in [B!RepoIndices -> [B!Paths -> B!Shapes]]
    /\ place \in {"raw", "others", "numstat", "unmerged", "stats", "patch", "bound", "sent", "failed"}
    /\ DOMAIN raw \subseteq B!Paths /\ \A p \in DOMAIN raw : raw[p] \in {"added", "modified", "deleted"}
    /\ others \subseteq B!Paths
    /\ DOMAIN numstat \subseteq B!Paths /\ \A p \in DOMAIN numstat : numstat[p] \in Nat \cup {Binary}
    /\ selected \in Seq(ChangesOfGit) /\ stats \in Nat \cup {Binary}
    /\ entry \in EntriesOfBundle /\ bundle \in Seq(EntriesOfBundle)
    /\ filesLeft \in Nat /\ bytesLeft \in Nat
    /\ cancelled \in BOOLEAN /\ edits \in Nat /\ errors \in Nat
    /\ seen \in [B!RepoIndices -> Nat]

\* One repository after the other; what ends the collection early.
InTurn ==
    /\ B!Collecting => Len(bundle) < Checkouts
    /\ place \in {"bound", "sent"} => Len(bundle) = Checkouts
    /\ B!OthersShown

\* With the checkout at rest, what was read is so.
Untracked == {p \in B!Paths : B!IsUntracked(B!P(p))}
AsGitSays ==
    edits = 0 =>
      /\ place \in {"others", "numstat", "unmerged", "stats", "patch"} =>
            /\ DOMAIN raw = {p \in B!Paths : B!TrackedStatus(B!P(p)) # None}
            /\ \A p \in DOMAIN raw : raw[p] = B!TrackedStatus(B!P(p))
      /\ place \in {"numstat", "unmerged"} => others = Untracked
      /\ place \in {"unmerged", "stats", "patch"} =>
            /\ DOMAIN numstat = {p \in B!Paths : B!TrackedStatus(B!P(p)) # None}
            /\ \A p \in DOMAIN numstat : numstat[p] = B!Counted(p, B!TrackedLines(B!P(p)))

\* An entry is true of its checkout.
Differs(r) ==
    {p \in B!Paths : B!TrackedStatus(tree[r][p]) # None \/ (B!IsUntracked(tree[r][p]) /\ p \notin B!Excluded)}
FileTrue(f) ==
    /\ f.state = "renderable" <=> f.patch > 0
    /\ edits = 0 /\ f.state = "renderable" => f.patch = 1 + f.stats
EntryTrue(r, e) ==
    e.status = "ready" =>
      /\ Len(e.files) + e.omitted = seen[r]
      /\ e.truncated <=> e.omitted > 0
      /\ \A i \in DOMAIN e.files : FileTrue(e.files[i])
      /\ edits = 0 => \A i, j \in DOMAIN e.files : i # j => e.files[i].path # e.files[j].path
      /\ edits = 0 /\ errors = 0 /\ ~e.truncated =>
            {e.files[i].path : i \in DOMAIN e.files} = Differs(r)
BundleTrue == \A r \in DOMAIN bundle : EntryTrue(r, bundle[r])

\* The entry being made, with the changes still to capture.
OfGit(c) == IF c.untracked THEN c.path \in others \ B!Overlay(others) ELSE c.path \in DOMAIN raw
Places == 1..(Len(entry.files) + Len(selected))
PathAt(i) == IF i <= Len(entry.files) THEN entry.files[i].path ELSE selected[i - Len(entry.files)].path
StatsTrue ==
    /\ selected[1].untracked => stats = B!UntrackedStats(selected[1].path)
    /\ ~selected[1].untracked /\ ~B!InOverlay(selected[1].path) =>
          stats = B!Counted(selected[1].path, B!TrackedLines(B!P(selected[1].path)))
Capturing ==
    place \in {"stats", "patch"} =>
      /\ entry.status = "ready"
      /\ Len(entry.files) + Len(selected) + entry.omitted = seen[B!R]
      /\ entry.truncated <=> entry.omitted > 0
      /\ \A i \in DOMAIN entry.files : FileTrue(entry.files[i])
      /\ \A i \in DOMAIN selected : OfGit(selected[i])
      /\ edits = 0 => \A i, j \in Places : i # j => PathAt(i) # PathAt(j)
      /\ edits = 0 /\ errors = 0 /\ ~entry.truncated => {PathAt(i) : i \in Places} = Differs(B!R)
      /\ place = "patch" => selected # <<>> /\ (edits = 0 => StatsTrue)

BundleInv == Collected /\ InTurn /\ AsGitSays /\ BundleTrue /\ Capturing
---------------------------------------------------------------------------
(* Collections: the operators. *)

\* Cardinality is one operator, by whichever module it is named.
LEMMA CountedAlike ==
    ASSUME NEW S
    PROVE  B!Cardinality(S) = Cardinality(S)
BY DEF B!Cardinality, Cardinality

\* So is the order of a set of numbers.
LEMMA OrderedAlike ==
    ASSUME NEW S
    PROVE  B!InOrder(S) = InOrder(S)
BY CountedAlike DEF B!InOrder, InOrder

\* As few as it takes is a number, and one that will do if any will.
LEMMA LeastIsNat ==
    ASSUME NEW S \in SUBSET Nat, NEW all \in Nat
    PROVE  /\ B!Least(S, all) \in Nat
           /\ S # {} => B!Least(S, all) \in S
           /\ S = {} => B!Least(S, all) = all
<1>1. CASE S = {}
  BY <1>1 DEF B!Least
<1>2. CASE S # {}
  <2>1. \E i \in S : \A j \in S : ~(<<j, i>> \in OpToRel(<, Nat))
    BY <1>2, NatLessThanWellFounded, WFMin
  <2>2. PICK i \in S : \A j \in S : ~(j < i)
    BY <2>1 DEF OpToRel
  <2>3. \A j \in S : i <= j
    BY <2>2
  <2>. QED
    BY <1>2, <2>3 DEF B!Least
<1>. QED
  BY <1>1, <1>2

\* An entry of a bundle, by its parts.
LEMMA EntryIs ==
    ASSUME NEW e \in EntriesOfBundle
    PROVE  /\ e.files \in Seq(Files) /\ Len(e.files) \in Nat /\ DOMAIN e.files = 1..Len(e.files)
           /\ \A i \in 1..Len(e.files) : e.files[i] \in Files /\ e.files[i].patch \in Nat
<1>1. e.files \in Seq(Files)
  BY DEF EntriesOfBundle
<1>2. Len(e.files) \in Nat /\ DOMAIN e.files = 1..Len(e.files)
  BY <1>1, LenProperties
<1>3. \A i \in 1..Len(e.files) : e.files[i] \in Files
  BY <1>1, <1>2
<1>. QED
  BY <1>1, <1>2, <1>3 DEF Files

LEMMA BundleIs ==
    ASSUME NEW b \in Seq(EntriesOfBundle)
    PROVE  /\ Len(b) \in Nat /\ DOMAIN b = 1..Len(b)
           /\ \A r \in DOMAIN b : b[r] \in EntriesOfBundle /\ DOMAIN b[r].files = 1..Len(b[r].files)
<1>1. Len(b) \in Nat /\ DOMAIN b = 1..Len(b)
  BY LenProperties
<1>2. \A r \in DOMAIN b : b[r] \in EntriesOfBundle
  BY <1>1
<1>. QED
  BY <1>1, <1>2, EntryIs

\* A file is a repository and a position; a unit of its patch is the file and a position.
LEMMA RefIs ==
    ASSUME NEW b
    PROVE  \A x : x \in B!FileRefs(b) <=> \E r \in DOMAIN b : \E i \in DOMAIN b[r].files : x = <<r, i>>
BY DEF B!FileRefs

LEMMA UnitIs ==
    ASSUME NEW b
    PROVE  \A x : x \in B!PatchUnits(b) <=>
             \E r \in DOMAIN b : \E i \in DOMAIN b[r].files : \E k \in 1..b[r].files[i].patch : x = <<<<r, i>>, k>>
<1>1. ASSUME NEW x, x \in B!PatchUnits(b)
      PROVE  \E r \in DOMAIN b : \E i \in DOMAIN b[r].files : \E k \in 1..b[r].files[i].patch : x = <<<<r, i>>, k>>
  <2>1. PICK y \in B!FileRefs(b) : x \in {y} \X (1..b[y[1]].files[y[2]].patch)
    BY <1>1 DEF B!PatchUnits, B!PatchOf
  <2>2. PICK r \in DOMAIN b : \E i \in DOMAIN b[r].files : y = <<r, i>>
    BY <2>1, RefIs
  <2>3. PICK i \in DOMAIN b[r].files : y = <<r, i>>
    BY <2>2
  <2>. QED
    BY <2>1, <2>3
<1>2. ASSUME NEW r \in DOMAIN b, NEW i \in DOMAIN b[r].files, NEW k \in 1..b[r].files[i].patch
      PROVE  <<<<r, i>>, k>> \in B!PatchUnits(b)
  <2>1. <<r, i>> \in B!FileRefs(b)
    BY RefIs
  <2>2. <<<<r, i>>, k>> \in {<<r, i>>} \X (1..b[<<r, i>>[1]].files[<<r, i>>[2]].patch)
    OBVIOUS
  <2>. QED
    BY <2>1, <2>2 DEF B!PatchUnits, B!PatchOf
<1>. QED
  BY <1>1, <1>2

\* The values of a function on a finite set.
LEMMA ValuesAreFinite ==
    ASSUME NEW f, IsFiniteSet(DOMAIN f)
    PROVE  IsFiniteSet({f[x] : x \in DOMAIN f})
<1>. DEFINE T == {f[x] : x \in DOMAIN f}
            g == [x \in DOMAIN f |-> f[x]]
<1>1. g \in Surjection(DOMAIN f, T)
  BY DEF Surjection
<1>. HIDE DEF g, T
<1>2. IsFiniteSet(T)
  BY <1>1, FS_Surjection
<1>. QED
  BY <1>2 DEF T

\* The first n places of one thing.
LEMMA Column ==
    ASSUME NEW a, NEW n \in Nat
    PROVE  IsFiniteSet({a} \X (1..n)) /\ Cardinality({a} \X (1..n)) = n
<1>1. IsFiniteSet({a}) /\ Cardinality({a}) = 1
  BY FS_Singleton
<1>2. 1 \in Int /\ n \in Int
  OBVIOUS
<1>3. IsFiniteSet(1..n) /\ Cardinality(1..n) = IF 1 > n THEN 0 ELSE n - 1 + 1
  BY <1>2, FS_Interval
<1>4. Cardinality(1..n) = n
  BY <1>3
<1>5. IsFiniteSet({a} \X (1..n)) /\ Cardinality({a} \X (1..n)) = Cardinality({a}) * Cardinality(1..n)
  BY <1>1, <1>3, FS_Product
<1>. QED
  BY <1>1, <1>4, <1>5

\* There are finitely many of each.
LEMMA RefsAreFinite ==
    ASSUME NEW b \in Seq(EntriesOfBundle)
    PROVE  /\ IsFiniteSet(B!FileRefs(b)) /\ IsFiniteSet(B!PatchUnits(b))
           /\ B!Cardinality(B!FileRefs(b)) \in Nat
           /\ \A r : IsFiniteSet(B!After(b, r)) /\ B!Cardinality(B!After(b, r)) \in Nat
<1>. DEFINE columns == {{r} \X DOMAIN b[r].files : r \in DOMAIN b}
            blocks == {{x} \X (1..B!PatchOf(b, x)) : x \in B!FileRefs(b)}
<1>1. IsFiniteSet(columns)
  <2>. DEFINE f == [r \in DOMAIN b |-> {r} \X DOMAIN b[r].files]
  <2>1. 1 \in Int /\ Len(b) \in Int /\ DOMAIN b = 1..Len(b)
    BY BundleIs
  <2>2. IsFiniteSet(DOMAIN f)
    <3>1. IsFiniteSet(1..Len(b))
      BY <2>1, FS_Interval
    <3>2. DOMAIN f = 1..Len(b)
      BY <2>1
    <3>. QED
      BY <3>1, <3>2
  <2>3. columns = {f[r] : r \in DOMAIN f}
    OBVIOUS
  <2>. HIDE DEF f, columns
  <2>. QED
    BY <2>2, <2>3, ValuesAreFinite
<1>2. \A T \in columns : IsFiniteSet(T)
  <2>. SUFFICES ASSUME NEW r \in DOMAIN b PROVE IsFiniteSet({r} \X DOMAIN b[r].files)
    OBVIOUS
  <2>1. Len(b[r].files) \in Nat /\ DOMAIN b[r].files = 1..Len(b[r].files)
    BY BundleIs, EntryIs
  <2>. QED
    BY <2>1, Column
<1>3. IsFiniteSet(B!FileRefs(b))
  <2>. HIDE DEF columns
  <2>1. IsFiniteSet(UNION columns)
    BY <1>1, <1>2, FS_UNION
  <2>. QED
    BY <2>1 DEF columns, B!FileRefs
<1>4. IsFiniteSet(blocks)
  <2>. DEFINE f == [x \in B!FileRefs(b) |-> {x} \X (1..B!PatchOf(b, x))]
  <2>1. DOMAIN f = B!FileRefs(b) /\ blocks = {f[x] : x \in DOMAIN f}
    OBVIOUS
  <2>. HIDE DEF f, blocks
  <2>. QED
    BY <1>3, <2>1, ValuesAreFinite
<1>5. \A T \in blocks : IsFiniteSet(T)
  <2>. SUFFICES ASSUME NEW x \in B!FileRefs(b) PROVE IsFiniteSet({x} \X (1..B!PatchOf(b, x)))
    OBVIOUS
  <2>1. PICK r \in DOMAIN b : \E i \in DOMAIN b[r].files : x = <<r, i>>
    BY RefIs
  <2>2. PICK i \in DOMAIN b[r].files : x = <<r, i>>
    BY <2>1
  <2>3. b[r].files[i].patch \in Nat
    BY BundleIs, EntryIs
  <2>4. B!PatchOf(b, x) \in Nat
    BY <2>2, <2>3 DEF B!PatchOf
  <2>. QED
    BY <2>4, Column
<1>6. IsFiniteSet(B!PatchUnits(b))
  <2>. HIDE DEF blocks
  <2>1. IsFiniteSet(UNION blocks)
    BY <1>4, <1>5, FS_UNION
  <2>. QED
    BY <2>1 DEF blocks, B!PatchUnits
<1>7. \A r : IsFiniteSet(B!After(b, r))
  <2>1. \A r : B!After(b, r) \in SUBSET B!FileRefs(b)
    BY DEF B!After
  <2>. QED
    BY <1>3, <2>1, FS_Subset
<1>. QED
  BY <1>3, <1>6, <1>7, FS_CardinalityType, CountedAlike

---------------------------------------------------------------------------
(* Collections: what one command reads. *)

\* Where the collection is.
LEMMA AtRepository ==
    ASSUME B!ConstantsOK, Collected, InTurn, B!Collecting
    PROVE  /\ B!R \in B!RepoIndices /\ B!R \notin DOMAIN bundle /\ Len(bundle) \in Nat
           /\ \A p \in B!Paths : B!P(p) \in B!Shapes
<1>1. Len(bundle) \in Nat /\ DOMAIN bundle = 1..Len(bundle) /\ Len(bundle) < Checkouts /\ Checkouts \in Nat
  BY LenProperties DEF Collected, InTurn, B!ConstantsOK
<1>2. B!R \in B!RepoIndices /\ B!R \notin DOMAIN bundle
  BY <1>1 DEF B!R, B!RepoIndices
<1>. QED
  BY <1>1, <1>2 DEF Collected, B!P

\* Git counts in numbers.
LEMMA CountsAreNat ==
    ASSUME NEW s \in B!Shapes
    PROVE  /\ B!TrackedLines(s) \in Nat /\ B!UntrackedLines(s) \in Nat
           /\ B!TrackedPatch(s) \in Nat /\ B!UntrackedPatch(s) \in Nat
           /\ B!TrackedStatus(s) # None => B!TrackedStatus(s) \in {"added", "modified", "deleted"}
<1>1. s.base \in BOOLEAN /\ s.idx \in BOOLEAN /\ s.work \in {None} \cup 0..3
  BY DEF B!Shapes
<1>2. B!TrackedStatus(s) # None /\ B!TrackedStatus(s) # "deleted" => s.work \in Nat
  BY <1>1 DEF B!TrackedStatus
<1>3. B!TrackedLines(s) \in Nat
  BY <1>2 DEF B!TrackedLines
<1>4. B!UntrackedLines(s) \in Nat
  BY <1>1 DEF B!UntrackedLines
<1>5. B!TrackedStatus(s) # None => B!TrackedStatus(s) \in {"added", "modified", "deleted"}
  BY DEF B!TrackedStatus
<1>. QED
  BY <1>3, <1>4, <1>5 DEF B!TrackedPatch, B!UntrackedPatch

LEMMA ReadRawStep ==
    ASSUME B!ConstantsOK, BundleInv, B!ReadRaw PROVE BundleInv'
<1>1. /\ place = "raw" /\ place' = "others" /\ B!Collecting
      /\ raw' = [p \in {q \in B!Paths : B!TrackedStatus(B!P(q)) # None} |-> B!TrackedStatus(B!P(p))]
      /\ UNCHANGED <<setup, tree, edits, others, numstat, selected, stats, entry, bundle, filesLeft, bytesLeft,
                     cancelled, errors, seen, unbounded>>
  BY DEF B!ReadRaw, B!Collecting, B!checkout, B!budget, B!history
<1>2. \A p \in B!Paths : B!P(p) \in B!Shapes
  BY <1>1, AtRepository DEF BundleInv
<1>3. Collected'
  BY <1>1, <1>2, CountsAreNat DEF BundleInv, Collected, EntriesOfBundle, Files, ChangesOfGit
<1>4. InTurn' /\ Capturing'
  BY <1>1 DEF BundleInv, InTurn, B!Collecting, B!OthersShown, Capturing
<1>5. AsGitSays' /\ BundleTrue'
  BY <1>1 DEF BundleInv, AsGitSays, BundleTrue, EntryTrue, FileTrue, Differs, B!Excluded, B!P, B!R
<1>. QED
  BY <1>3, <1>4, <1>5 DEF BundleInv

LEMMA ReadOthersStep ==
    ASSUME B!ConstantsOK, BundleInv, B!ReadOthers PROVE BundleInv'
<1>1. /\ place = "others" /\ place' = "numstat"
      /\ others' = {p \in B!Paths : B!IsUntracked(B!P(p))}
      /\ UNCHANGED <<setup, tree, edits, raw, numstat, selected, stats, entry, bundle, filesLeft, bytesLeft,
                     cancelled, errors, seen, unbounded>>
  BY DEF B!ReadOthers, B!checkout, B!budget, B!history
<1>3. Collected'
  BY <1>1 DEF BundleInv, Collected, EntriesOfBundle, Files, ChangesOfGit
<1>4. InTurn' /\ Capturing'
  BY <1>1 DEF BundleInv, InTurn, B!Collecting, B!OthersShown, Capturing
<1>5. AsGitSays' /\ BundleTrue'
  BY <1>1 DEF BundleInv, AsGitSays, Untracked, BundleTrue, EntryTrue, FileTrue, Differs, B!Excluded, B!P, B!R
<1>. QED
  BY <1>3, <1>4, <1>5 DEF BundleInv

LEMMA ReadNumstatStep ==
    ASSUME B!ConstantsOK, BundleInv, B!ReadNumstat PROVE BundleInv'
<1>1. /\ place = "numstat" /\ place' = "unmerged" /\ B!Collecting
      /\ numstat' = [p \in {q \in B!Paths : B!TrackedStatus(B!P(q)) # None} |-> B!Counted(p, B!TrackedLines(B!P(p)))]
      /\ UNCHANGED <<setup, tree, edits, raw, others, selected, stats, entry, bundle, filesLeft, bytesLeft,
                     cancelled, errors, seen, unbounded>>
  BY DEF B!ReadNumstat, B!Collecting, B!checkout, B!budget, B!history
<1>2. \A p \in B!Paths : B!Counted(p, B!TrackedLines(B!P(p))) \in Nat \cup {Binary}
  BY <1>1, AtRepository, CountsAreNat DEF BundleInv, B!Counted
<1>3. Collected'
  BY <1>1, <1>2 DEF BundleInv, Collected, EntriesOfBundle, Files, ChangesOfGit
<1>4. InTurn' /\ Capturing'
  BY <1>1 DEF BundleInv, InTurn, B!Collecting, B!OthersShown, Capturing
<1>5. AsGitSays' /\ BundleTrue'
  BY <1>1 DEF BundleInv, AsGitSays, Untracked, BundleTrue, EntryTrue, FileTrue, Differs, B!Excluded,
              B!Counted, B!Kind, B!P, B!R
<1>. QED
  BY <1>3, <1>4, <1>5 DEF BundleInv

\* Two sequences, one after the other.
LEMMA Joined ==
    ASSUME NEW S, NEW q \in Seq(S), NEW w \in Seq(S)
    PROVE  /\ q \o w \in Seq(S) /\ Len(q \o w) = Len(q) + Len(w)
           /\ \A i \in 1..(Len(q) + Len(w)) : (q \o w)[i] = IF i <= Len(q) THEN q[i] ELSE w[i - Len(q)]
BY ConcatProperties

\* The list of changes: of what git listed, all of it, and with the checkout at
\* rest each path once.
LEMMA ChangesListed ==
    ASSUME B!ConstantsOK, Collected, NEW untracked \in SUBSET B!Paths, NEW unmerged \in SUBSET B!Paths
    PROVE  LET all == B!AllChanges(untracked, unmerged)
           IN /\ all \in Seq(ChangesOfGit)
              /\ \A i \in DOMAIN all : IF all[i].untracked THEN all[i].path \in untracked \ B!Overlay(untracked)
                                       ELSE all[i].path \in DOMAIN raw
              /\ {all[i].path : i \in DOMAIN all} = DOMAIN raw \cup untracked
              /\ DOMAIN raw \cap untracked \subseteq B!Overlay(untracked) =>
                    \A i, j \in DOMAIN all : i # j => all[i].path # all[j].path
<1>. DEFINE new == untracked \ B!Overlay(untracked)
            tracked == B!InOrder(DOMAIN raw)
            added == B!InOrder(new)
            a == Cardinality(DOMAIN raw)
            b == Cardinality(new)
            status(p) == IF p \in B!Overlay(untracked) THEN "modified"
                         ELSE IF p \in unmerged THEN "unmerged" ELSE raw[p]
            t == [i \in DOMAIN tracked |-> B!Change(tracked[i], status(tracked[i]), FALSE)]
            u == [i \in DOMAIN added |-> B!Change(added[i], "added", TRUE)]
            all == B!AllChanges(untracked, unmerged)
<1>1. NPaths \in Nat /\ DOMAIN raw \in SUBSET (1..NPaths) /\ new \in SUBSET (1..NPaths)
  BY DEF B!ConstantsOK, Collected, B!Paths
<1>. \A x \in new : x \in Nat
  BY <1>1
<1>2. /\ a \in Nat /\ tracked \in [1..a -> DOMAIN raw]
      /\ \A i, j \in 1..a : i < j => tracked[i] < tracked[j]
      /\ \A x \in DOMAIN raw : \E i \in 1..a : tracked[i] = x
  BY <1>1, InOrderIsSorted, OrderedAlike
<1>3. /\ b \in Nat /\ added \in [1..b -> new]
      /\ \A i, j \in 1..b : i < j => added[i] < added[j]
      /\ \A x \in new : \E i \in 1..b : added[i] = x
  BY <1>1, InOrderIsSorted, OrderedAlike
<1>. HIDE DEF a, b, tracked, added, new
<1>4. \A i, j \in 1..a : i # j => tracked[i] # tracked[j]
  <2>. SUFFICES ASSUME NEW i \in 1..a, NEW j \in 1..a, i # j, tracked[i] = tracked[j] PROVE FALSE
    OBVIOUS
  <2>1. tracked[i] \in Nat
    BY <1>1, <1>2
  <2>2. ~(tracked[i] < tracked[i])
    BY <2>1
  <2>3. i < j \/ j < i
    BY <1>2
  <2>. QED
    BY <1>2, <2>2, <2>3
<1>5. \A i, j \in 1..b : i # j => added[i] # added[j]
  <2>. SUFFICES ASSUME NEW i \in 1..b, NEW j \in 1..b, i # j, added[i] = added[j] PROVE FALSE
    OBVIOUS
  <2>1. added[i] \in Nat
    BY <1>3
  <2>2. ~(added[i] < added[i])
    BY <2>1
  <2>3. i < j \/ j < i
    BY <1>3
  <2>. QED
    BY <1>3, <2>2, <2>3
<1>6. t \in Seq(ChangesOfGit) /\ Len(t) = a /\ \A i \in 1..a : t[i].path = tracked[i] /\ ~t[i].untracked
  <2>1. \A i \in 1..a : B!Change(tracked[i], status(tracked[i]), FALSE) \in ChangesOfGit
    BY <1>1, <1>2 DEF B!Change, ChangesOfGit, Collected, B!Paths
  <2>2. t = [i \in 1..a |-> B!Change(tracked[i], status(tracked[i]), FALSE)]
    BY <1>2
  <2>3. t \in [1..a -> ChangesOfGit]
    BY <2>1, <2>2
  <2>4. t \in Seq(ChangesOfGit) /\ DOMAIN t = 1..a
    <3>. HIDE DEF t
    <3>. QED
      BY <1>2, <2>3, SeqDef
  <2>5. Len(t) = a
    BY <1>2, <2>4, LenProperties
  <2>. QED
    BY <2>2, <2>4, <2>5 DEF B!Change
<1>7. u \in Seq(ChangesOfGit) /\ Len(u) = b /\ \A i \in 1..b : u[i].path = added[i] /\ u[i].untracked
  <2>1. \A i \in 1..b : B!Change(added[i], "added", TRUE) \in ChangesOfGit
    BY <1>1, <1>3 DEF B!Change, ChangesOfGit, B!Paths
  <2>2. u = [i \in 1..b |-> B!Change(added[i], "added", TRUE)]
    BY <1>3
  <2>3. u \in [1..b -> ChangesOfGit]
    BY <2>1, <2>2
  <2>4. u \in Seq(ChangesOfGit) /\ DOMAIN u = 1..b
    <3>. HIDE DEF u
    <3>. QED
      BY <1>3, <2>3, SeqDef
  <2>5. Len(u) = b
    BY <1>3, <2>4, LenProperties
  <2>. QED
    BY <2>2, <2>4, <2>5 DEF B!Change
<1>8. all = t \o u
  BY DEF B!AllChanges, a, b, tracked, added, new
<1>. HIDE DEF t, u, all
<1>9. /\ all \in Seq(ChangesOfGit) /\ Len(all) = a + b /\ DOMAIN all = 1..(a + b)
      /\ \A i \in 1..(a + b) : all[i] = IF i <= a THEN t[i] ELSE u[i - a]
  <2>1. /\ all \in Seq(ChangesOfGit) /\ Len(all) = a + b
        /\ \A i \in 1..(a + b) : all[i] = IF i <= a THEN t[i] ELSE u[i - a]
    <3>1. t \in Seq(ChangesOfGit) /\ Len(t) = a
      BY <1>6
    <3>2. u \in Seq(ChangesOfGit) /\ Len(u) = b
      BY <1>7
    <3>3. /\ t \o u \in Seq(ChangesOfGit) /\ Len(t \o u) = Len(t) + Len(u)
          /\ \A i \in 1..(Len(t) + Len(u)) : (t \o u)[i] = IF i <= Len(t) THEN t[i] ELSE u[i - Len(t)]
      BY <3>1, <3>2, Joined
    <3>. QED
      BY <1>8, <3>1, <3>2, <3>3
  <2>. QED
    BY <2>1, LenProperties
<1>10. \A i \in 1..(a + b) : \/ i \in 1..a /\ all[i].path = tracked[i] /\ ~all[i].untracked
                             \/ i - a \in 1..b /\ ~(i \in 1..a) /\ all[i].path = added[i - a] /\ all[i].untracked
  BY <1>2, <1>3, <1>6, <1>7, <1>9
<1>11. \A i \in DOMAIN all : IF all[i].untracked THEN all[i].path \in new ELSE all[i].path \in DOMAIN raw
  BY <1>2, <1>3, <1>9, <1>10
<1>12. {all[i].path : i \in DOMAIN all} = DOMAIN raw \cup untracked
  <2>1. \A x \in DOMAIN raw : \E i \in DOMAIN all : all[i].path = x
    <3>. SUFFICES ASSUME NEW i \in 1..a PROVE i \in DOMAIN all /\ all[i].path = tracked[i]
      BY <1>2
    <3>. QED
      BY <1>2, <1>3, <1>6, <1>9
  <2>2. \A x \in new : \E i \in DOMAIN all : all[i].path = x
    <3>. SUFFICES ASSUME NEW i \in 1..b PROVE a + i \in DOMAIN all /\ all[a + i].path = added[i]
      BY <1>3
    <3>1. a + i \in 1..(a + b) /\ ~(a + i <= a) /\ (a + i) - a = i
      BY <1>2, <1>3
    <3>. QED
      BY <1>7, <1>9, <3>1
  <2>3. B!Overlay(untracked) \subseteq DOMAIN raw /\ new \subseteq untracked /\ untracked \subseteq new \cup B!Overlay(untracked)
    BY DEF B!Overlay, new
  <2>4. \A i \in DOMAIN all : all[i].path \in DOMAIN raw \cup new
    BY <1>11
  <2>. QED
    BY <2>1, <2>2, <2>3, <2>4
<1>13. ASSUME DOMAIN raw \cap untracked \subseteq B!Overlay(untracked), NEW i \in DOMAIN all, NEW j \in DOMAIN all, i # j
       PROVE  all[i].path # all[j].path
  <2>1. \A x \in DOMAIN raw : x \notin new
    BY <1>13 DEF new
  <2>2. i - a # j - a /\ i \in Nat /\ j \in Nat
    BY <1>2, <1>3, <1>9, <1>13
  <2>3. \A k \in 1..a : tracked[k] \in DOMAIN raw
    BY <1>2
  <2>4. \A k \in 1..b : added[k] \in new
    BY <1>3
  <2>. QED
    BY <1>4, <1>5, <1>9, <1>10, <1>13, <2>1, <2>2, <2>3, <2>4
<1>. QED
  BY <1>9, <1>11, <1>12, <1>13 DEF new, all

\* With the checkout at rest a path is in both lists only if its deletion is.
LEMMA UntrackedIsDeleted ==
    ASSUME NEW s \in B!Shapes, B!TrackedStatus(s) # None, B!IsUntracked(s)
    PROVE  B!TrackedStatus(s) = "deleted"
BY DEF B!Shapes, B!TrackedStatus, B!IsUntracked

LEMMA ReadUnmergedStep ==
    ASSUME B!ConstantsOK, BundleInv, B!ReadUnmerged PROVE BundleInv'
<1>. DEFINE all == B!AllChanges(others', {p \in B!Paths : B!P(p).unmerged})
            k == IF filesLeft < Len(all) THEN filesLeft ELSE Len(all)
<1>1. /\ place = "unmerged" /\ place' = "stats" /\ B!Collecting
      /\ \/ others' = others \ B!Excluded /\ errors' = errors
         \/ others' = others /\ errors' = errors + 1
      /\ selected' = B!Selected(all)
      /\ entry' = [status |-> "ready", files |-> <<>>, bytes |-> 0,
                   truncated |-> Len(all) - Len(B!Selected(all)) > 0, omitted |-> Len(all) - Len(B!Selected(all))]
      /\ seen' = [seen EXCEPT ![B!R] = Len(all)]
      /\ UNCHANGED <<setup, tree, edits, raw, numstat, stats, bundle, filesLeft, bytesLeft, cancelled, unbounded>>
  BY DEF B!ReadUnmerged, B!Collecting, B!checkout, B!budget
<1>2. /\ B!R \in B!RepoIndices /\ B!R \notin DOMAIN bundle /\ Len(bundle) \in Nat
      /\ \A p \in B!Paths : B!P(p) \in B!Shapes
  BY <1>1, AtRepository DEF BundleInv
<1>3. others' \in SUBSET B!Paths
  BY <1>1 DEF BundleInv, Collected
<1>4. /\ all \in Seq(ChangesOfGit)
      /\ \A i \in DOMAIN all : IF all[i].untracked THEN all[i].path \in others' \ B!Overlay(others')
                               ELSE all[i].path \in DOMAIN raw
      /\ {all[i].path : i \in DOMAIN all} = DOMAIN raw \cup others'
      /\ DOMAIN raw \cap others' \subseteq B!Overlay(others') =>
            \A i, j \in DOMAIN all : i # j => all[i].path # all[j].path
  BY <1>3, ChangesListed DEF BundleInv
<1>. HIDE DEF all
<1>5. Len(all) \in Nat /\ DOMAIN all = 1..Len(all) /\ k \in 0..Len(all)
  BY <1>4, LenProperties DEF BundleInv, Collected
<1>6. selected' \in Seq(ChangesOfGit) /\ Len(selected') = k /\ DOMAIN selected' = 1..k /\ \A i \in 1..k : selected'[i] = all[i]
  <2>1. selected' = SubSeq(all, 1, k)
    BY <1>1 DEF B!Selected
  <2>2. \A i \in 1..k : all[i] \in ChangesOfGit
    BY <1>4, <1>5
  <2>3. selected' \in Seq(ChangesOfGit) /\ Len(selected') = k /\ \A i \in 1..k : selected'[i] = all[1 + i - 1]
    BY <1>5, <2>1, <2>2, SubSeqProperties
  <2>. QED
    BY <1>5, <2>3, LenProperties
<1>. HIDE DEF k
<1>7. /\ entry' = [status |-> "ready", files |-> <<>>, bytes |-> 0, truncated |-> Len(all) - k > 0, omitted |-> Len(all) - k]
      /\ Len(all) - k \in Nat
  BY <1>1, <1>5, <1>6
<1>8. Collected'
  <2>1. <<>> \in Seq(Files)
    OBVIOUS
  <2>2. entry' \in EntriesOfBundle
    BY <1>7, <2>1 DEF EntriesOfBundle
  <2>3. errors' \in Nat
    BY <1>1 DEF BundleInv, Collected
  <2>4. seen' \in [B!RepoIndices -> Nat]
    BY <1>1, <1>5 DEF BundleInv, Collected
  <2>. QED
    BY <1>1, <1>3, <1>6, <2>2, <2>3, <2>4 DEF BundleInv, Collected, EntriesOfBundle, Files, ChangesOfGit
<1>9. InTurn'
  BY <1>1 DEF BundleInv, InTurn, B!Collecting, B!OthersShown
<1>10. AsGitSays'
  BY <1>1 DEF BundleInv, AsGitSays, B!Counted, B!Kind, B!P, B!R
<1>11. BundleTrue'
  <2>. SUFFICES ASSUME NEW r \in DOMAIN bundle PROVE EntryTrue(r, bundle[r])'
    BY <1>1 DEF BundleTrue
  <2>1. r # B!R /\ seen'[r] = seen[r]
    <3>1. r \in B!RepoIndices \/ seen'[r] = seen[r]
      BY <1>1 DEF BundleInv, Collected
    <3>. QED
      BY <1>1, <1>2, <3>1 DEF BundleInv, Collected
  <2>2. EntryTrue(r, bundle[r])
    BY DEF BundleInv, BundleTrue
  <2>3. edits' = edits /\ (errors' = 0 => errors = 0) /\ tree' = tree /\ setup' = setup /\ bundle' = bundle
    BY <1>1 DEF BundleInv, Collected
  <2>. QED
    BY <2>1, <2>2, <2>3 DEF EntryTrue, FileTrue, Differs, B!Excluded
<1>12. \A i \in DOMAIN selected' : OfGit(selected[i])'
  <2>1. B!Overlay(others)' = B!Overlay(others')
    BY <1>1 DEF B!Overlay
  <2>. SUFFICES ASSUME NEW i \in 1..k PROVE OfGit(selected[i])'
    BY <1>6
  <2>2. i \in DOMAIN all /\ selected'[i] = all[i]
    BY <1>5, <1>6
  <2>. QED
    BY <1>1, <1>4, <2>1, <2>2 DEF OfGit
<1>13. Len(entry'.files) = 0 /\ Places' = 1..k /\ \A i \in 1..k : PathAt(i)' = all[i].path
  <2>1. Len(entry'.files) = 0
    BY <1>7
  <2>2. Places' = 1..k
    BY <1>5, <1>6, <2>1 DEF Places
  <2>3. \A i \in 1..k : ~(i <= 0) /\ i - 0 = i
    BY <1>5
  <2>. QED
    BY <1>6, <2>1, <2>2, <2>3 DEF PathAt
<1>14. ASSUME edits' = 0
       PROVE  /\ \A i, j \in Places' : i # j => PathAt(i)' # PathAt(j)'
              /\ errors' = 0 /\ ~entry'.truncated => {PathAt(i)' : i \in Places'} = Differs(B!R)'
  <2>1. /\ DOMAIN raw = {p \in B!Paths : B!TrackedStatus(B!P(p)) # None}
        /\ \A p \in DOMAIN raw : raw[p] = B!TrackedStatus(B!P(p))
        /\ others = Untracked
    BY <1>1, <1>14 DEF BundleInv, AsGitSays
  <2>2. others' \subseteq Untracked
    BY <1>1, <2>1
  <2>3. DOMAIN raw \cap others' \subseteq B!Overlay(others')
    BY <1>2, <2>1, <2>2, UntrackedIsDeleted DEF B!Overlay, Untracked
  <2>4. \A i, j \in 1..k : i # j => all[i].path # all[j].path
    BY <1>4, <1>5, <2>3
  <2>5. ASSUME errors' = 0, ~entry'.truncated PROVE {PathAt(i)' : i \in Places'} = Differs(B!R)'
    <3>1. others' = Untracked \ B!Excluded
      BY <1>1, <2>1, <2>5 DEF BundleInv, Collected
    <3>2. k = Len(all)
      <4>1. ~(Len(all) - k > 0)
        BY <1>7, <2>5
      <4>2. k \in Int /\ Len(all) \in Int /\ k <= Len(all)
        BY <1>5
      <4>. QED
        BY <4>1, <4>2
    <3>3. {PathAt(i)' : i \in Places'} = DOMAIN raw \cup others'
      BY <1>4, <1>5, <1>13, <3>2
    <3>4. Differs(B!R)' = {p \in B!Paths : B!TrackedStatus(B!P(p)) # None \/ (B!IsUntracked(B!P(p)) /\ p \notin B!Excluded)}
      BY <1>1 DEF Differs, B!R, B!P, B!Excluded
    <3>. QED
      BY <2>1, <3>1, <3>3, <3>4 DEF Untracked
  <2>. QED
    BY <1>13, <2>4, <2>5
<1>15. Len(entry'.files) + Len(selected') + entry'.omitted = seen'[B!R]
  BY <1>1, <1>2, <1>5, <1>6, <1>7, <1>13 DEF BundleInv, Collected
<1>16. Capturing'
  <2>1. entry'.truncated <=> entry'.omitted > 0
    BY <1>7
  <2>2. DOMAIN entry'.files = {} /\ entry'.status = "ready" /\ B!R' = B!R
    BY <1>1, <1>7 DEF B!R
  <2>3. \A i \in DOMAIN entry'.files : FileTrue(entry.files[i])'
    BY <2>2
  <2>4. place' # "patch"
    BY <1>1
  <2>. QED
    BY <1>12, <1>14, <1>15, <2>1, <2>2, <2>3, <2>4 DEF Capturing
<1>. QED
  BY <1>8, <1>9, <1>10, <1>11, <1>16 DEF BundleInv

---------------------------------------------------------------------------
(* Collections: one file, and what ends a repository. *)

\* Nothing the entries in the bundle are true of has changed.
LEMMA BundleStaysTrue ==
    ASSUME BundleTrue, setup' = setup, bundle' = bundle, seen' = seen,
           edits' # 0 \/ (edits = 0 /\ tree' = tree), errors' # 0 \/ errors = 0
    PROVE  BundleTrue'
<1>. SUFFICES ASSUME NEW r \in DOMAIN bundle PROVE EntryTrue(r, bundle[r])'
  BY DEF BundleTrue
<1>1. EntryTrue(r, bundle[r])
  BY DEF BundleTrue
<1>. QED
  BY <1>1 DEF EntryTrue, FileTrue, Differs, B!Excluded

LEMMA ChangeLineStatsStep ==
    ASSUME B!ConstantsOK, BundleInv, B!ChangeLineStats PROVE BundleInv'
<1>. DEFINE c == selected[1]
<1>1. /\ place = "stats" /\ place' = "patch" /\ B!Collecting /\ selected # <<>>
      /\ stats' = IF B!InOverlay(c.path) THEN B!AddCounts(B!TrackedStats(c.path), B!UntrackedStats(c.path))
                  ELSE IF c.untracked THEN B!UntrackedStats(c.path) ELSE B!TrackedStats(c.path)
      /\ UNCHANGED <<setup, tree, edits, raw, others, numstat, selected, entry, bundle, filesLeft, bytesLeft,
                     cancelled, errors, seen, unbounded>>
  BY DEF B!ChangeLineStats, B!Collecting, B!checkout, B!budget, B!history
<1>2. B!R \in B!RepoIndices /\ \A p \in B!Paths : B!P(p) \in B!Shapes
  BY <1>1, AtRepository DEF BundleInv
<1>3. 1 \in DOMAIN selected /\ c \in ChangesOfGit /\ c.path \in B!Paths
  <2>1. Len(selected) \in Nat \ {0} /\ DOMAIN selected = 1..Len(selected)
    BY <1>1, EmptySeq, LenProperties DEF BundleInv, Collected
  <2>2. 1 \in DOMAIN selected
    BY <2>1
  <2>3. c \in ChangesOfGit
    BY <2>1, <2>2, ElementOfSeq DEF BundleInv, Collected
  <2>. QED
    BY <2>2, <2>3 DEF ChangesOfGit
<1>4. B!TrackedStats(c.path) \in Nat \cup {Binary} /\ B!UntrackedStats(c.path) \in Nat \cup {Binary}
  <2>1. B!UntrackedLines(B!P(c.path)) \in Nat
    BY <1>2, <1>3, CountsAreNat
  <2>. QED
    BY <2>1 DEF B!TrackedStats, B!UntrackedStats, B!Counted, BundleInv, Collected
<1>5. stats' \in Nat \cup {Binary}
  BY <1>1, <1>4 DEF B!AddCounts
<1>6. Collected'
  BY <1>1, <1>5 DEF BundleInv, Collected, EntriesOfBundle, Files, ChangesOfGit
<1>7. InTurn' /\ AsGitSays' /\ BundleTrue'
  <2>1. InTurn'
    BY <1>1 DEF BundleInv, InTurn, B!Collecting, B!OthersShown
  <2>2. AsGitSays'
    BY <1>1 DEF BundleInv, AsGitSays, B!Counted, B!Kind, B!P, B!R
  <2>3. BundleTrue'
    BY <1>1, BundleStaysTrue DEF BundleInv, Collected
  <2>. QED
    BY <2>1, <2>2, <2>3
<1>8. OfGit(c)
  BY <1>1, <1>3 DEF BundleInv, Capturing
<1>9. edits = 0 => StatsTrue'
  <2>. SUFFICES ASSUME edits = 0 PROVE StatsTrue'
    OBVIOUS
  <2>1. /\ B!R' = B!R /\ B!P(c.path)' = B!P(c.path) /\ c' = c
        /\ B!UntrackedStats(c.path)' = B!UntrackedStats(c.path)
        /\ B!InOverlay(c.path)' = B!InOverlay(c.path)
        /\ B!Counted(c.path, B!TrackedLines(B!P(c.path)))' = B!Counted(c.path, B!TrackedLines(B!P(c.path)))
    BY <1>1 DEF B!R, B!P, B!UntrackedStats, B!InOverlay, B!Overlay, B!Counted, B!Kind
  <2>2. CASE c.untracked
    <3>1. ~B!InOverlay(c.path)
      BY <1>8, <2>2 DEF OfGit, B!InOverlay
    <3>. QED
      BY <1>1, <2>1, <2>2, <3>1 DEF StatsTrue
  <2>3. CASE ~c.untracked
    <3>1. c.path \in DOMAIN raw
      BY <1>8, <2>3 DEF OfGit
    <3>2. /\ DOMAIN raw = DOMAIN numstat
          /\ \A p \in DOMAIN numstat : numstat[p] = B!Counted(p, B!TrackedLines(B!P(p)))
      BY <1>1 DEF BundleInv, AsGitSays
    <3>3. B!TrackedStats(c.path) = B!Counted(c.path, B!TrackedLines(B!P(c.path)))
      BY <3>1, <3>2 DEF B!TrackedStats
    <3>. QED
      BY <1>1, <2>1, <2>3, <3>3 DEF StatsTrue
  <2>. QED
    BY <2>2, <2>3
<1>10. Capturing'
  BY <1>1, <1>9 DEF BundleInv, Capturing, OfGit, B!Overlay, Places, PathAt, Differs, B!Excluded, FileTrue, B!R
<1>. QED
  BY <1>6, <1>7, <1>10 DEF BundleInv

\* The record of a file: what is kept of its patch is what the viewer is told.
LEMMA FileIsTrue ==
    ASSUME B!ConstantsOK, BundleInv, place = "patch", selected # <<>>, NEW file,
           LET c == selected[1]
               size == IF c.untracked THEN B!UntrackedPatch(B!P(c.path)) ELSE B!TrackedPatch(B!P(c.path))
           IN file = IF B!IsGitlink(c) THEN B!File(c, "submodule", <<"metadata_only", 0>>)
                     ELSE IF stats = Binary THEN B!File(c, c.status, <<"binary", 0>>)
                     ELSE IF B!InOverlay(c.path) THEN B!File(c, c.status, <<"metadata_only", 0>>)
                     ELSE B!File(c, c.status, B!Rendered(c.untracked, size))
    PROVE  /\ file \in Files /\ file.path = selected[1].path /\ FileTrue(file)
           /\ file.patch = 0 \/ ~(file.patch > bytesLeft - entry.bytes)
<1>. DEFINE c == selected[1]
            size == IF c.untracked THEN B!UntrackedPatch(B!P(c.path)) ELSE B!TrackedPatch(B!P(c.path))
<1>1. B!R \in B!RepoIndices /\ \A p \in B!Paths : B!P(p) \in B!Shapes
  BY AtRepository DEF BundleInv, B!Collecting
<1>2. c \in ChangesOfGit /\ 1 \in DOMAIN selected
  <2>1. Len(selected) \in Nat \ {0} /\ DOMAIN selected = 1..Len(selected)
    BY EmptySeq, LenProperties DEF BundleInv, Collected
  <2>2. 1 \in DOMAIN selected
    BY <2>1
  <2>. QED
    BY <2>1, <2>2 DEF BundleInv, Collected
<1>3. c.path \in B!Paths /\ c.status \in {"added", "modified", "deleted", "unmerged"}
  BY <1>2 DEF ChangesOfGit
<1>4. size \in Nat
  BY <1>1, <1>3, CountsAreNat
<1>5. stats \in Nat \cup {Binary}
  BY DEF BundleInv, Collected
<1>6. ASSUME edits = 0, stats # Binary, ~B!InOverlay(c.path), size # 0
      PROVE  size = 1 + stats
  <2>1. StatsTrue
    BY <1>6 DEF BundleInv, Capturing
  <2>2. CASE c.untracked
    <3>1. stats = B!UntrackedLines(B!P(c.path))
      BY <1>6, <2>1, <2>2 DEF StatsTrue, B!UntrackedStats, B!Counted
    <3>. QED
      BY <1>6, <2>2, <3>1 DEF B!UntrackedPatch
  <2>3. CASE ~c.untracked
    <3>1. stats = B!TrackedLines(B!P(c.path))
      BY <1>6, <2>1, <2>3 DEF StatsTrue, B!Counted
    <3>. QED
      BY <1>6, <2>3, <3>1 DEF B!TrackedPatch
  <2>. QED
    BY <2>2, <2>3
<1>7. CASE ~B!IsGitlink(c) /\ stats # Binary /\ ~B!InOverlay(c.path)
  <2>. DEFINE r == B!Rendered(c.untracked, size)
  <2>1. \/ r = <<"too_large", 0>> \/ r = <<"metadata_only", 0>>
        \/ r = <<"renderable", size>> /\ size # 0 /\ ~(size > bytesLeft - entry.bytes)
    BY DEF B!Rendered
  <2>2. file = B!File(c, c.status, r)
    BY <1>7
  <2>3. /\ r[1] \in {"renderable", "metadata_only", "too_large", "binary"} /\ r[2] \in Nat
        /\ r[1] = "renderable" <=> r[2] > 0
        /\ r[1] = "renderable" => r[2] = size /\ size # 0
        /\ r[2] = 0 \/ ~(r[2] > bytesLeft - entry.bytes)
    <3>. HIDE DEF r, size
    <3>. QED
      BY <1>4, <2>1
  <2>. HIDE DEF r, size
  <2>4. file = [path |-> c.path, status |-> c.status, stats |-> stats, state |-> r[1], patch |-> r[2]]
    BY <2>2 DEF B!File
  <2>5. file \in Files
    BY <1>3, <1>5, <2>3, <2>4 DEF Files
  <2>. QED
    BY <1>6, <1>7, <2>3, <2>4, <2>5 DEF FileTrue
<1>8. CASE B!IsGitlink(c) \/ stats = Binary \/ B!InOverlay(c.path)
  <2>1. \E s \in {c.status, "submodule"}, t \in {"metadata_only", "binary"} :
            file = [path |-> c.path, status |-> s, stats |-> stats, state |-> t, patch |-> 0]
    BY <1>8 DEF B!File
  <2>. QED
    BY <1>3, <1>5, <2>1 DEF Files, FileTrue
<1>. QED
  BY <1>7, <1>8

\* The file captured, which is within what is left for the session.
LEMMA FileCaptured ==
    ASSUME B!ConstantsOK, BundleInv, B!CaptureFile
    PROVE  \E file \in Files :
             /\ file.path = selected[1].path /\ FileTrue(file)
             /\ file.patch = 0 \/ ~(file.patch > bytesLeft - entry.bytes)
             /\ entry' = [entry EXCEPT !.files = Append(@, file), !.bytes = @ + file.patch]
<1>. DEFINE c == selected[1]
            size == IF c.untracked THEN B!UntrackedPatch(B!P(c.path)) ELSE B!TrackedPatch(B!P(c.path))
            file == IF B!IsGitlink(c) THEN B!File(c, "submodule", <<"metadata_only", 0>>)
                    ELSE IF stats = Binary THEN B!File(c, c.status, <<"binary", 0>>)
                    ELSE IF B!InOverlay(c.path) THEN B!File(c, c.status, <<"metadata_only", 0>>)
                    ELSE B!File(c, c.status, B!Rendered(c.untracked, size))
<1>1. entry' = [entry EXCEPT !.files = Append(@, file), !.bytes = @ + file.patch]
  BY DEF B!CaptureFile
<1>2. place = "patch" /\ selected # <<>>
  BY DEF B!CaptureFile, BundleInv, Capturing
<1>3. /\ file \in Files /\ file.path = selected[1].path /\ FileTrue(file)
      /\ file.patch = 0 \/ ~(file.patch > bytesLeft - entry.bytes)
  BY <1>2, FileIsTrue
<1>. HIDE DEF file
<1>. QED
  BY <1>1, <1>3

LEMMA CaptureFileStep ==
    ASSUME B!ConstantsOK, BundleInv, B!CaptureFile PROVE BundleInv'
<1>1. /\ place = "patch" /\ place' = "stats" /\ B!Collecting /\ selected' = Tail(selected)
      /\ UNCHANGED <<setup, tree, edits, raw, others, numstat, stats, bundle, filesLeft, bytesLeft,
                     cancelled, errors, seen, unbounded>>
  BY DEF B!CaptureFile, B!Collecting, B!checkout, B!budget, B!history
<1>2. selected # <<>>
  BY <1>1 DEF BundleInv, Capturing
<1>3. PICK file \in Files :
        /\ file.path = selected[1].path /\ FileTrue(file)
        /\ entry' = [entry EXCEPT !.files = Append(@, file), !.bytes = @ + file.patch]
  BY FileCaptured
<1>4. /\ selected \in Seq(ChangesOfGit) /\ Len(selected) \in Nat \ {0} /\ DOMAIN selected = 1..Len(selected)
      /\ selected' \in Seq(ChangesOfGit) /\ Len(selected') = Len(selected) - 1 /\ DOMAIN selected' = 1..Len(selected')
      /\ \A i \in 1..Len(selected') : selected'[i] = selected[i + 1]
  <2>1. selected \in Seq(ChangesOfGit)
    BY DEF BundleInv, Collected
  <2>2. Len(selected) \in Nat \ {0} /\ DOMAIN selected = 1..Len(selected)
    BY <1>2, <2>1, EmptySeq, LenProperties
  <2>3. /\ selected' \in Seq(ChangesOfGit) /\ Len(selected') = Len(selected) - 1
        /\ \A i \in 1..Len(selected') : selected'[i] = selected[i + 1]
    BY <1>1, <1>2, <2>1, HeadTailProperties
  <2>. QED
    BY <2>1, <2>2, <2>3, LenProperties
<1>. DEFINE m == Len(entry.files)
<1>5. entry.files \in Seq(Files) /\ m \in Nat /\ DOMAIN entry.files = 1..m
  <2>1. entry.files \in Seq(Files)
    BY DEF BundleInv, Collected, EntriesOfBundle
  <2>. QED
    BY <2>1, LenProperties
<1>6. /\ entry'.files \in Seq(Files) /\ Len(entry'.files) = m + 1 /\ DOMAIN entry'.files = 1..(m + 1)
      /\ \A i \in 1..m : entry'.files[i] = entry.files[i]
      /\ entry'.files[m + 1] = file
      /\ entry'.status = entry.status /\ entry'.truncated = entry.truncated /\ entry'.omitted = entry.omitted
      /\ entry' \in EntriesOfBundle
  <2>1. entry \in EntriesOfBundle /\ file.patch \in Nat
    BY DEF BundleInv, Collected, Files
  <2>2. entry'.files = Append(entry.files, file)
    BY <1>3, <2>1 DEF EntriesOfBundle
  <2>3. /\ entry'.files \in Seq(Files) /\ Len(entry'.files) = m + 1
        /\ \A i \in 1..m : entry'.files[i] = entry.files[i]
        /\ entry'.files[m + 1] = file
    BY <1>5, <2>2, AppendProperties
  <2>4. DOMAIN entry'.files = 1..(m + 1)
    BY <2>3, LenProperties
  <2>5. entry' \in EntriesOfBundle
    <3>1. /\ entry.bytes \in Nat /\ entry.bytes + file.patch \in Nat
          /\ entry.status \in {"ready", "unavailable"} /\ entry.truncated \in BOOLEAN /\ entry.omitted \in Nat
      BY <2>1 DEF EntriesOfBundle
    <3>2. entry' = [status |-> entry.status, files |-> entry'.files, bytes |-> entry.bytes + file.patch,
                    truncated |-> entry.truncated, omitted |-> entry.omitted]
      BY <1>3, <2>1, <2>2 DEF EntriesOfBundle
    <3>. QED
      BY <2>3, <3>1, <3>2 DEF EntriesOfBundle
  <2>6. entry'.status = entry.status /\ entry'.truncated = entry.truncated /\ entry'.omitted = entry.omitted
    BY <1>3, <2>1 DEF EntriesOfBundle
  <2>. QED
    BY <2>3, <2>4, <2>5, <2>6
<1>. HIDE DEF m
<1>7. Collected'
  BY <1>1, <1>4, <1>6 DEF BundleInv, Collected
<1>8. InTurn' /\ AsGitSays' /\ BundleTrue'
  <2>1. InTurn'
    BY <1>1 DEF BundleInv, InTurn, B!Collecting, B!OthersShown
  <2>2. AsGitSays'
    BY <1>1 DEF BundleInv, AsGitSays, B!Counted, B!Kind, B!P, B!R
  <2>3. BundleTrue'
    BY <1>1, BundleStaysTrue DEF BundleInv, Collected
  <2>. QED
    BY <2>1, <2>2, <2>3
<1>9. Places' = Places /\ \A i \in Places : PathAt(i)' = PathAt(i)
  <2>1. Places' = Places /\ Places = 1..(m + Len(selected))
    BY <1>4, <1>5, <1>6 DEF Places, m
  <2>2. ASSUME NEW i \in Places PROVE PathAt(i)' = PathAt(i)
    <3>1. CASE i <= m
      <4>1. i \in 1..m
        BY <1>4, <1>5, <2>1, <3>1
      <4>. QED
        BY <1>5, <1>6, <3>1, <4>1 DEF PathAt, m
    <3>2. CASE i = m + 1
      <4>1. PathAt(i) = selected[1].path
        BY <1>5, <3>2 DEF PathAt, m
      <4>2. PathAt(i)' = file.path
        BY <1>5, <1>6, <3>2 DEF PathAt
      <4>. QED
        BY <1>3, <4>1, <4>2
    <3>3. CASE i > m + 1
      <4>1. i - (m + 1) \in 1..Len(selected') /\ (i - (m + 1)) + 1 = i - m /\ ~(i <= m) /\ ~(i <= m + 1)
        BY <1>4, <1>5, <2>1, <3>3
      <4>2. PathAt(i)' = selected'[i - (m + 1)].path
        BY <1>6, <4>1 DEF PathAt
      <4>3. PathAt(i) = selected[i - m].path
        BY <4>1 DEF PathAt, m
      <4>4. selected'[i - (m + 1)] = selected[(i - (m + 1)) + 1]
        BY <1>4, <4>1
      <4>. QED
        BY <4>1, <4>2, <4>3, <4>4
    <3>. QED
      BY <1>5, <2>1, <3>1, <3>2, <3>3
  <2>. QED
    BY <2>1, <2>2
<1>10. /\ \A i \in DOMAIN selected' : OfGit(selected[i])'
       /\ \A i \in DOMAIN entry'.files : FileTrue(entry.files[i])'
  <2>1. \A i \in DOMAIN selected : OfGit(selected[i])
    BY <1>1 DEF BundleInv, Capturing
  <2>2. ASSUME NEW i \in DOMAIN selected' PROVE OfGit(selected[i])'
    <3>1. i + 1 \in DOMAIN selected /\ selected'[i] = selected[i + 1]
      BY <1>4
    <3>. QED
      BY <1>1, <2>1, <3>1 DEF OfGit, B!Overlay
  <2>3. \A i \in DOMAIN entry.files : FileTrue(entry.files[i])
    BY <1>1 DEF BundleInv, Capturing
  <2>4. ASSUME NEW i \in DOMAIN entry'.files PROVE FileTrue(entry.files[i])'
    <3>1. CASE i \in 1..m
      BY <1>1, <1>5, <1>6, <2>3, <3>1 DEF FileTrue
    <3>2. CASE i = m + 1
      BY <1>1, <1>3, <1>6, <3>2 DEF FileTrue
    <3>. QED
      BY <1>5, <1>6, <3>1, <3>2
  <2>. QED
    BY <2>2, <2>4
<1>11. Len(entry'.files) + Len(selected') + entry'.omitted = seen'[B!R]
  <2>1. m + Len(selected) + entry.omitted = seen[B!R] /\ entry.omitted \in Nat
    BY <1>1 DEF BundleInv, Capturing, Collected, EntriesOfBundle, m
  <2>. QED
    BY <1>1, <1>4, <1>5, <1>6, <2>1
<1>12. B!R' = B!R /\ Differs(B!R)' = Differs(B!R)
  BY <1>1 DEF B!R, Differs, B!Excluded
<1>13. {PathAt(i)' : i \in Places'} = {PathAt(i) : i \in Places}
  BY <1>9
<1>14. edits = 0 => \A i, j \in Places' : i # j => PathAt(i)' # PathAt(j)'
  BY <1>1, <1>9 DEF BundleInv, Capturing
<1>15. edits = 0 /\ errors = 0 /\ ~entry'.truncated => {PathAt(i)' : i \in Places'} = Differs(B!R)'
  BY <1>1, <1>6, <1>12, <1>13 DEF BundleInv, Capturing
<1>16. entry'.status = "ready" /\ (entry'.truncated <=> entry'.omitted > 0)
  BY <1>1, <1>6 DEF BundleInv, Capturing
<1>17. Capturing'
  BY <1>1, <1>10, <1>11, <1>12, <1>14, <1>15, <1>16 DEF Capturing
<1>. QED
  BY <1>7, <1>8, <1>17 DEF BundleInv

\* An entry ends in the bundle, and the next repository's turn comes.
LEMMA EntryAppended ==
    ASSUME B!ConstantsOK, BundleInv, B!Collecting, NEW e \in EntriesOfBundle, EntryTrue(B!R, e),
           bundle' = Append(bundle, e), place' = B!NextPc,
           filesLeft' \in Nat, bytesLeft' \in Nat, errors' \in Nat, errors' # 0 \/ errors = 0,
           UNCHANGED <<setup, tree, edits, raw, others, numstat, selected, stats, entry, cancelled, seen>>
    PROVE  BundleInv'
<1>1. B!R \in B!RepoIndices /\ Len(bundle) \in Nat /\ bundle \in Seq(EntriesOfBundle)
  BY AtRepository DEF BundleInv, Collected
<1>2. /\ bundle' \in Seq(EntriesOfBundle) /\ Len(bundle') = Len(bundle) + 1
      /\ DOMAIN bundle' = 1..(Len(bundle) + 1) /\ DOMAIN bundle = 1..Len(bundle)
      /\ \A r \in 1..Len(bundle) : bundle'[r] = bundle[r]
      /\ bundle'[Len(bundle) + 1] = e
  <2>1. /\ bundle' \in Seq(EntriesOfBundle) /\ Len(bundle') = Len(bundle) + 1
        /\ \A r \in 1..Len(bundle) : bundle'[r] = bundle[r]
        /\ bundle'[Len(bundle) + 1] = e
    BY <1>1, AppendProperties
  <2>. QED
    BY <1>1, <2>1, LenProperties
<1>3. place' \in {"raw", "bound"} /\ (place' = "bound" <=> Len(bundle) + 1 = Checkouts)
  BY DEF B!NextPc, B!R
<1>4. Collected'
  BY <1>2, <1>3 DEF BundleInv, Collected
<1>5. InTurn'
  <2>1. Len(bundle) < Checkouts /\ Checkouts \in Nat
    BY DEF BundleInv, InTurn, B!ConstantsOK
  <2>2. place' # "failed" /\ place' # "sent"
    BY <1>3
  <2>. QED
    BY <1>1, <1>2, <1>3, <2>1, <2>2 DEF InTurn, B!Collecting, B!OthersShown
<1>6. AsGitSays' /\ Capturing'
  BY <1>3 DEF AsGitSays, Capturing
<1>7. BundleTrue'
  <2>. SUFFICES ASSUME NEW r \in DOMAIN bundle' PROVE EntryTrue(r, bundle[r])'
    BY DEF BundleTrue
  <2>1. EntryTrue(r, bundle'[r])
    <3>1. CASE r \in 1..Len(bundle)
      BY <1>2, <3>1 DEF BundleInv, BundleTrue
    <3>2. CASE r = Len(bundle) + 1
      BY <1>2, <3>2 DEF B!R
    <3>. QED
      BY <1>1, <1>2, <3>1, <3>2
  <2>. QED
    BY <2>1 DEF EntryTrue, FileTrue, Differs, B!Excluded
<1>. QED
  BY <1>4, <1>5, <1>6, <1>7 DEF BundleInv

LEMMA FinishRepositoryStep ==
    ASSUME B!ConstantsOK, BundleInv, B!FinishRepository PROVE BundleInv'
<1>1. /\ place = "stats" /\ B!Collecting /\ selected = <<>>
      /\ bundle' = Append(bundle, entry) /\ place' = B!NextPc
      /\ filesLeft' = B!Minus(filesLeft, Len(entry.files)) /\ bytesLeft' = B!Minus(bytesLeft, entry.bytes)
      /\ UNCHANGED <<setup, tree, edits, raw, others, numstat, selected, stats, entry, cancelled, errors, seen>>
  BY DEF B!FinishRepository, B!Collecting, B!Deduct, B!checkout, B!reads, B!history
<1>. DEFINE m == Len(entry.files)
<1>2. /\ entry \in EntriesOfBundle /\ m \in Nat /\ DOMAIN entry.files = 1..m
      /\ entry.bytes \in Nat /\ entry.omitted \in Nat
  <2>1. entry \in EntriesOfBundle
    BY DEF BundleInv, Collected
  <2>2. entry.files \in Seq(Files) /\ entry.bytes \in Nat /\ entry.omitted \in Nat
    BY <2>1 DEF EntriesOfBundle
  <2>. QED
    BY <2>1, <2>2, LenProperties
<1>3. filesLeft' \in Nat /\ bytesLeft' \in Nat /\ errors \in Nat
  BY <1>1, <1>2 DEF B!Minus, BundleInv, Collected
<1>4. Len(selected) = 0 /\ Places = 1..m
  BY <1>1, <1>2 DEF Places
<1>5. \A i \in 1..m : PathAt(i) = entry.files[i].path
  BY DEF PathAt
<1>6. {PathAt(i) : i \in Places} = {entry.files[i].path : i \in DOMAIN entry.files}
  BY <1>2, <1>4, <1>5
<1>7. EntryTrue(B!R, entry)
  <2>1. m + entry.omitted = seen[B!R]
    BY <1>1, <1>2, <1>4 DEF BundleInv, Capturing
  <2>2. edits = 0 => \A i, j \in DOMAIN entry.files : i # j => entry.files[i].path # entry.files[j].path
    BY <1>1, <1>2, <1>4, <1>5 DEF BundleInv, Capturing
  <2>. QED
    BY <1>1, <1>6, <2>1, <2>2 DEF EntryTrue, BundleInv, Capturing
<1>. QED
  BY <1>1, <1>2, <1>3, <1>7, EntryAppended

LEMMA CommandFailsStep ==
    ASSUME B!ConstantsOK, BundleInv, B!CommandFails PROVE BundleInv'
<1>1. /\ B!Collecting /\ B!R \in B!Baseline
      /\ UNCHANGED <<setup, tree, edits, raw, others, numstat, selected, stats, entry, filesLeft, bytesLeft, cancelled, seen>>
      /\ errors' \in Nat /\ (errors' # 0 \/ errors = 0)
  BY DEF B!CommandFails, B!InCommand, B!Collecting, B!checkout, B!reads, B!budget, B!history, BundleInv, Collected
<1>2. CASE B!FailsWhole /\ place' = "failed" /\ UNCHANGED bundle
  <2>1. Collected'
    BY <1>1, <1>2 DEF BundleInv, Collected
  <2>2. InTurn' /\ AsGitSays' /\ Capturing'
    BY <1>1, <1>2 DEF InTurn, B!Collecting, B!OthersShown, B!WholeFails, B!FailsWhole, AsGitSays, Capturing
  <2>3. BundleTrue'
    BY <1>1, <1>2, BundleStaysTrue DEF BundleInv, Collected
  <2>. QED
    BY <2>1, <2>2, <2>3 DEF BundleInv
<1>3. CASE place' = B!NextPc /\ bundle' = Append(bundle, B!Unavailable)
  <2>1. B!Unavailable \in EntriesOfBundle
    BY DEF B!Unavailable, EntriesOfBundle
  <2>2. EntryTrue(B!R, B!Unavailable)
    BY DEF B!Unavailable, EntryTrue
  <2>3. filesLeft' \in Nat /\ bytesLeft' \in Nat
    BY <1>1 DEF BundleInv, Collected
  <2>. QED
    BY <1>1, <1>3, <2>1, <2>2, <2>3, EntryAppended
<1>. QED
  BY <1>2, <1>3 DEF B!CommandFails

LEMMA NoBaselineStep ==
    ASSUME B!ConstantsOK, BundleInv, B!NoBaseline PROVE BundleInv'
<1>1. /\ place = "raw" /\ place' = "failed" /\ B!Collecting /\ B!R \notin B!Baseline
      /\ UNCHANGED <<setup, tree, edits, raw, others, numstat, selected, stats, entry, bundle, filesLeft, bytesLeft,
                     cancelled, errors, seen>>
  BY DEF B!NoBaseline, B!Collecting, B!checkout, B!reads, B!budget, B!history
<1>2. B!Baseline # B!RepoIndices
  BY <1>1, AtRepository DEF BundleInv
<1>3. Collected'
  BY <1>1 DEF BundleInv, Collected
<1>4. InTurn' /\ AsGitSays' /\ Capturing'
  BY <1>1, <1>2 DEF InTurn, B!Collecting, B!OthersShown, B!Baseline, AsGitSays, Capturing
<1>5. BundleTrue'
  BY <1>1, BundleStaysTrue DEF BundleInv, Collected
<1>. QED
  BY <1>3, <1>4, <1>5 DEF BundleInv

LEMMA CancelStep ==
    ASSUME B!ConstantsOK, BundleInv, B!Cancel PROVE BundleInv'
<1>1. /\ B!Collecting /\ cancelled' = TRUE
      /\ UNCHANGED <<setup, tree, edits, place, raw, others, numstat, selected, stats, entry, bundle, filesLeft, bytesLeft,
                     errors, seen>>
  BY DEF B!Cancel, B!checkout, B!reads, B!budget, B!history
<1>2. Collected'
  BY <1>1 DEF BundleInv, Collected
<1>3. InTurn'
  BY <1>1 DEF BundleInv, InTurn, B!Collecting, B!OthersShown
<1>4. AsGitSays'
  BY <1>1 DEF BundleInv, AsGitSays, Untracked, B!Counted, B!Kind, B!P, B!R
<1>5. BundleTrue'
  BY <1>1, BundleStaysTrue DEF BundleInv, Collected
<1>6. Capturing'
  BY <1>1 DEF BundleInv, Capturing, FileTrue, OfGit, B!Overlay, Places, PathAt, Differs, B!Excluded, StatsTrue, B!InOverlay,
              B!UntrackedStats, B!Counted, B!Kind, B!P, B!R
<1>. QED
  BY <1>2, <1>3, <1>4, <1>5, <1>6 DEF BundleInv

LEMMA EditStep ==
    ASSUME B!ConstantsOK, BundleInv, NEW r \in B!RepoIndices, NEW p \in B!Paths, B!Edit(r, p) PROVE BundleInv'
<1>1. /\ place \notin {"sent", "failed"} /\ edits' = edits + 1
      /\ UNCHANGED <<setup, place, raw, others, numstat, selected, stats, entry, bundle, filesLeft, bytesLeft,
                     cancelled, errors, seen>>
      /\ \E s \in setup.shapes[p] : tree' = [tree EXCEPT ![r][p] = s]
  BY DEF B!Edit, B!reads, B!budget, B!history
<1>2. setup.shapes[p] \subseteq B!Shapes
  BY DEF B!ConstantsOK, BundleInv, Collected
<1>3. tree' \in [B!RepoIndices -> [B!Paths -> B!Shapes]]
  <2>1. PICK s \in B!Shapes : tree' = [tree EXCEPT ![r][p] = s]
    BY <1>1, <1>2
  <2>2. tree \in [B!RepoIndices -> [B!Paths -> B!Shapes]]
    BY DEF BundleInv, Collected
  <2>. QED
    BY <2>1, <2>2
<1>4. edits' \in Nat /\ edits' # 0
  BY <1>1 DEF BundleInv, Collected
<1>5. Collected'
  BY <1>1, <1>3, <1>4 DEF BundleInv, Collected
<1>6. InTurn'
  BY <1>1 DEF BundleInv, InTurn, B!Collecting, B!OthersShown
<1>7. AsGitSays'
  BY <1>4 DEF AsGitSays
<1>8. BundleTrue'
  BY <1>1, <1>4, BundleStaysTrue DEF BundleInv, Collected
<1>9. Capturing'
  BY <1>1, <1>4 DEF BundleInv, Capturing, FileTrue, OfGit, B!Overlay, B!R
<1>. QED
  BY <1>5, <1>6, <1>7, <1>8, <1>9 DEF BundleInv

---------------------------------------------------------------------------
(* Collections: the bundle cut to size. *)

\* A bundle made of another, as true.
CutOf(b, c) ==
    /\ c \in Seq(EntriesOfBundle) /\ Len(c) = Checkouts
    /\ \A r \in B!RepoIndices : EntryTrue(r, b[r]) => EntryTrue(r, c[r])

LEMMA EntriesAreBundle ==
    ASSUME B!ConstantsOK, NEW c, c \in [B!RepoIndices -> EntriesOfBundle]
    PROVE  c \in Seq(EntriesOfBundle) /\ Len(c) = Checkouts
<1>1. Checkouts \in Nat /\ DOMAIN c = 1..Checkouts
  BY DEF B!ConstantsOK, B!RepoIndices
<1>2. c \in Seq(EntriesOfBundle)
  BY <1>1, SeqDef DEF B!RepoIndices
<1>. QED
  BY <1>1, <1>2, LenProperties

\* An entry stays true with the same paths, or with fewer files and the rest counted.
LEMMA SamePathsStayTrue ==
    ASSUME NEW r, NEW e, NEW f, NEW m,
           f.status = e.status, f.truncated = e.truncated, f.omitted = e.omitted,
           Len(f.files) = Len(e.files), DOMAIN e.files = 1..m, DOMAIN f.files = 1..m,
           \A i \in 1..m : f.files[i].path = e.files[i].path /\ (FileTrue(e.files[i]) => FileTrue(f.files[i]))
    PROVE  EntryTrue(r, e) => EntryTrue(r, f)
<1>1. {f.files[i].path : i \in 1..m} = {e.files[i].path : i \in 1..m}
  OBVIOUS
<1>. QED
  BY <1>1 DEF EntryTrue

LEMMA FewerStayTrue ==
    ASSUME NEW r, NEW e, NEW f, f.status = e.status,
           f.truncated = TRUE, f.omitted > 0, Len(f.files) + f.omitted = Len(e.files) + e.omitted,
           DOMAIN f.files \subseteq DOMAIN e.files, \A i \in DOMAIN f.files : f.files[i] = e.files[i]
    PROVE  EntryTrue(r, e) => EntryTrue(r, f)
BY DEF EntryTrue

\* A patch that is shed is no longer rendered.
LEMMA ShedIsCut ==
    ASSUME B!ConstantsOK, NEW b \in Seq(EntriesOfBundle), Len(b) = Checkouts, NEW n
    PROVE  CutOf(b, B!Shed(b, n))
<1>. DEFINE refs == B!PatchRefs(b)
            size == [x \in refs |-> b[x[1]].files[x[2]].patch]
            gone == {x \in refs : B!Cardinality({y \in refs : B!Sooner(size, y, x)}) <= n}
            without(r) == [i \in DOMAIN b[r].files |->
                             IF <<r, i>> \in gone THEN [b[r].files[i] EXCEPT !.patch = 0, !.state = "too_large"]
                             ELSE b[r].files[i]]
            c == B!Shed(b, n)
<1>1. c = [r \in B!RepoIndices |-> [b[r] EXCEPT !.files = without(r)]]
  BY DEF B!Shed, B!PatchOf
<1>. HIDE DEF gone
<1>2. ASSUME NEW r \in B!RepoIndices
      PROVE  c[r] \in EntriesOfBundle /\ (EntryTrue(r, b[r]) => EntryTrue(r, c[r]))
  <2>. DEFINE e == b[r]
              recs == e.files
              m == Len(recs)
  <2>1. e \in EntriesOfBundle
    BY ElementOfSeq DEF B!RepoIndices
  <2>2. recs \in Seq(Files) /\ m \in Nat /\ DOMAIN recs = 1..m
    <3>1. recs \in Seq(Files)
      BY <2>1 DEF EntriesOfBundle
    <3>. QED
      BY <3>1, LenProperties
  <2>3. c[r] = [e EXCEPT !.files = without(r)]
    BY <1>1
  <2>. HIDE DEF e, c
  <2>4. \A i \in 1..m : recs[i] \in Files
    BY <2>2
  <2>5. \A i \in 1..m : /\ without(r)[i] \in Files /\ without(r)[i].path = recs[i].path
                        /\ FileTrue(recs[i]) => FileTrue(without(r)[i])
    <3>. SUFFICES ASSUME NEW i \in 1..m
                  PROVE  LET f == without(r)[i]
                         IN f \in Files /\ f.path = recs[i].path /\ (FileTrue(recs[i]) => FileTrue(f))
      OBVIOUS
    <3>1. \/ without(r)[i] = recs[i]
          \/ without(r)[i] = [recs[i] EXCEPT !.patch = 0, !.state = "too_large"]
      BY <2>2 DEF e
    <3>. HIDE DEF without, recs
    <3>2. CASE without(r)[i] = recs[i]
      BY <2>4, <3>2
    <3>3. CASE without(r)[i] = [recs[i] EXCEPT !.patch = 0, !.state = "too_large"]
      <4>1. recs[i] \in Files
        BY <2>4
      <4>2. ASSUME NEW f \in Files, NEW g, g = [f EXCEPT !.patch = 0, !.state = "too_large"]
            PROVE  g \in Files /\ g.path = f.path /\ FileTrue(g)
        <5>1. g = [path |-> f.path, status |-> f.status, stats |-> f.stats, state |-> "too_large", patch |-> 0]
          BY <4>2 DEF Files
        <5>2. f.path \in B!Paths /\ f.stats \in Nat \cup {Binary} /\ g \in Files
          BY <5>1 DEF Files
        <5>. QED
          BY <5>1, <5>2 DEF FileTrue
      <4>. QED
        BY <3>3, <4>1, <4>2
    <3>. QED
      BY <3>1, <3>2, <3>3
  <2>6. without(r) \in Seq(Files) /\ Len(without(r)) = m /\ DOMAIN without(r) = 1..m
    <3>1. DOMAIN without(r) = 1..m
      BY <2>2 DEF e
    <3>2. without(r) = [i \in 1..m |-> without(r)[i]]
      BY <3>1
    <3>3. without(r) \in [1..m -> Files]
      <4>. HIDE DEF without
      <4>. QED
        BY <2>5, <3>2
    <3>. HIDE DEF without
    <3>4. without(r) \in Seq(Files)
      BY <2>2, <3>3, SeqDef
    <3>. QED
      BY <2>2, <3>1, <3>4, LenProperties
  <2>. HIDE DEF without
  <2>7. /\ c[r] \in EntriesOfBundle /\ c[r].files = without(r)
        /\ c[r].status = e.status /\ c[r].truncated = e.truncated /\ c[r].omitted = e.omitted
    BY <2>1, <2>3, <2>6 DEF EntriesOfBundle
  <2>9. EntryTrue(r, e) => EntryTrue(r, c[r])
    <3>1. Len(c[r].files) = Len(e.files) /\ DOMAIN c[r].files = 1..m /\ DOMAIN e.files = 1..m
      BY <2>2, <2>6, <2>7
    <3>2. \A i \in 1..m : c[r].files[i].path = e.files[i].path /\ (FileTrue(e.files[i]) => FileTrue(c[r].files[i]))
      BY <2>5, <2>7
    <3>. QED
      BY <2>7, <3>1, <3>2, SamePathsStayTrue
  <2>. QED
    BY <2>7, <2>9 DEF e
<1>3. c \in [B!RepoIndices -> EntriesOfBundle]
  <2>1. c = [r \in B!RepoIndices |-> c[r]]
    BY <1>1
  <2>. HIDE DEF c
  <2>. QED
    BY <1>2, <2>1
<1>4. c \in Seq(EntriesOfBundle) /\ Len(c) = Checkouts
  BY <1>3, EntriesAreBundle
<1>. QED
  BY <1>2, <1>4 DEF CutOf

\* A file that is omitted is counted.
LEMMA OmitIsTrue ==
    ASSUME NEW r, NEW e \in EntriesOfBundle, NEW k \in 0..Len(e.files)
    PROVE  B!Omit(e, k) \in EntriesOfBundle /\ (EntryTrue(r, e) => EntryTrue(r, B!Omit(e, k)))
<1>. DEFINE m == Len(e.files)
            recs == SubSeq(e.files, 1, m - k)
<1>1. e.files \in Seq(Files) /\ m \in Nat /\ DOMAIN e.files = 1..m /\ e.omitted \in Nat
  <2>1. e.files \in Seq(Files) /\ e.omitted \in Nat
    BY DEF EntriesOfBundle
  <2>. QED
    BY <2>1, LenProperties
<1>2. CASE k = 0
  BY <1>2 DEF B!Omit
<1>3. CASE k # 0
  <2>1. k \in Nat /\ m - k \in 0..m /\ e.omitted + k \in Nat /\ e.omitted + k > 0
    BY <1>1, <1>3
  <2>2. recs \in Seq(Files) /\ Len(recs) = m - k /\ DOMAIN recs = 1..(m - k) /\ \A i \in 1..(m - k) : recs[i] = e.files[i]
    <3>1. \A i \in 1..(m - k) : e.files[i] \in Files
      BY <1>1, <2>1
    <3>2. recs \in Seq(Files) /\ Len(recs) = m - k /\ \A i \in 1..(m - k) : recs[i] = e.files[1 + i - 1]
      BY <2>1, <3>1, SubSeqProperties
    <3>3. DOMAIN recs = 1..(m - k)
      BY <3>2, LenProperties
    <3>. QED
      BY <2>1, <3>2, <3>3
  <2>. DEFINE o == B!Omit(e, k)
  <2>3. o = [e EXCEPT !.files = recs, !.truncated = TRUE, !.omitted = @ + k]
    BY <1>3 DEF B!Omit
  <2>. HIDE DEF recs, o
  <2>4. /\ o \in EntriesOfBundle /\ o.files = recs /\ o.truncated = TRUE /\ o.omitted = e.omitted + k
        /\ o.status = e.status
    BY <2>1, <2>2, <2>3 DEF EntriesOfBundle
  <2>5. EntryTrue(r, e) => EntryTrue(r, o)
    <3>1. Len(recs) + o.omitted = m + e.omitted
      BY <1>1, <2>1, <2>2, <2>4
    <3>2. DOMAIN recs \subseteq DOMAIN e.files
      BY <1>1, <2>1, <2>2
    <3>3. o.truncated = TRUE /\ o.omitted > 0 /\ Len(o.files) + o.omitted = Len(e.files) + e.omitted
      BY <1>1, <2>1, <2>4, <3>1
    <3>4. DOMAIN o.files \subseteq DOMAIN e.files /\ \A i \in DOMAIN o.files : o.files[i] = e.files[i]
      BY <2>2, <2>4, <3>2
    <3>. QED
      BY <2>4, <3>3, <3>4, FewerStayTrue
  <2>. QED
    BY <2>4, <2>5 DEF o
<1>. QED
  BY <1>2, <1>3

LEMMA DropIsCut ==
    ASSUME B!ConstantsOK, NEW b \in Seq(EntriesOfBundle), Len(b) = Checkouts, NEW n \in Nat
    PROVE  CutOf(b, B!Drop(b, n))
<1>. DEFINE c == B!Drop(b, n)
            share(r) == B!Minus(n, B!Cardinality(B!After(b, r)))
            k(r) == IF share(r) < Len(b[r].files) THEN share(r) ELSE Len(b[r].files)
<1>1. c = [r \in B!RepoIndices |-> B!Omit(b[r], k(r))]
  BY DEF B!Drop
<1>2. ASSUME NEW r \in B!RepoIndices
      PROVE  b[r] \in EntriesOfBundle /\ k(r) \in 0..Len(b[r].files)
  <2>1. b[r] \in EntriesOfBundle
    BY ElementOfSeq DEF B!RepoIndices
  <2>2. Len(b[r].files) \in Nat
    <3>1. b[r].files \in Seq(Files)
      BY <2>1 DEF EntriesOfBundle
    <3>. QED
      BY <3>1, LenProperties
  <2>3. B!Cardinality(B!After(b, r)) \in Nat
    BY RefsAreFinite
  <2>4. share(r) \in Nat
    BY <2>3 DEF B!Minus
  <2>. HIDE DEF share
  <2>. QED
    BY <2>1, <2>2, <2>4
<1>. HIDE DEF k, share
<1>3. \A r \in B!RepoIndices : c[r] \in EntriesOfBundle /\ (EntryTrue(r, b[r]) => EntryTrue(r, c[r]))
  BY <1>1, <1>2, OmitIsTrue
<1>4. c \in [B!RepoIndices -> EntriesOfBundle]
  <2>1. c = [r \in B!RepoIndices |-> c[r]]
    BY <1>1
  <2>. HIDE DEF c
  <2>. QED
    BY <1>3, <2>1
<1>5. c \in Seq(EntriesOfBundle) /\ Len(c) = Checkouts
  BY <1>4, EntriesAreBundle
<1>. QED
  BY <1>3, <1>5 DEF CutOf

LEMMA BoundedIsCut ==
    ASSUME B!ConstantsOK, NEW b \in Seq(EntriesOfBundle), Len(b) = Checkouts
    PROVE  CutOf(b, B!Bounded(b))
<1>. DEFINE s == B!Shedding(b)
            files == B!Cardinality(B!FileRefs(s))
            n == B!Least({j \in 0..files : B!Fits(B!Drop(s, j))}, files)
<1>1. CutOf(b, s)
  BY ShedIsCut DEF B!Shedding
<1>2. s \in Seq(EntriesOfBundle) /\ Len(s) = Checkouts
  BY <1>1 DEF CutOf
<1>3. files \in Nat
  BY <1>2, RefsAreFinite
<1>4. n \in Nat
  <2>. HIDE DEF files
  <2>. QED
    BY <1>3, LeastIsNat
<1>5. B!Dropping(s) = B!Drop(s, n)
  BY DEF B!Dropping
<1>. HIDE DEF n, s
<1>6. CutOf(s, B!Dropping(s))
  BY <1>2, <1>4, <1>5, DropIsCut
<1>7. CutOf(b, B!Dropping(s))
  BY <1>1, <1>6 DEF CutOf
<1>8. B!Bounded(b) \in {b, s, B!Dropping(s)}
  BY DEF B!Bounded, s
<1>9. CutOf(b, b)
  BY DEF CutOf
<1>. QED
  BY <1>1, <1>7, <1>8, <1>9

LEMMA BoundStep ==
    ASSUME B!ConstantsOK, BundleInv, B!Bound PROVE BundleInv'
<1>1. /\ place = "bound" /\ bundle' = B!Bounded(bundle)
      /\ place' = IF B!EncodedSize(bundle') <= setup.maxBundle THEN "sent" ELSE "failed"
      /\ UNCHANGED <<setup, tree, edits, raw, others, numstat, selected, stats, entry, filesLeft, bytesLeft,
                     cancelled, errors, seen>>
  BY DEF B!Bound, B!Fits, B!MaxBundle, B!checkout, B!reads, B!budget
<1>2. bundle \in Seq(EntriesOfBundle) /\ Len(bundle) = Checkouts
  BY <1>1 DEF BundleInv, Collected, InTurn
<1>3. CutOf(bundle, bundle')
  BY <1>1, <1>2, BoundedIsCut
<1>4. /\ bundle' \in Seq(EntriesOfBundle) /\ Len(bundle') = Checkouts
      /\ DOMAIN bundle' = B!RepoIndices /\ DOMAIN bundle = B!RepoIndices
  BY <1>2, <1>3, LenProperties DEF CutOf, B!RepoIndices
<1>5. Collected'
  BY <1>1, <1>4 DEF BundleInv, Collected
<1>6. InTurn' /\ AsGitSays' /\ Capturing'
  <2>1. place' = "failed" => ~(B!EncodedSize(bundle') <= setup'.maxBundle)
    BY <1>1
  <2>2. B!WholeFails' <=> cancelled' \/ (Len(bundle') = Checkouts /\ ~(B!EncodedSize(bundle') <= setup'.maxBundle))
    BY DEF B!WholeFails, B!Fits, B!MaxBundle
  <2>3. B!OthersShown'
    BY <1>4, <2>1, <2>2 DEF B!OthersShown
  <2>. QED
    BY <1>1, <1>4, <2>3 DEF InTurn, B!Collecting, AsGitSays, Capturing
<1>7. BundleTrue'
  <2>. SUFFICES ASSUME NEW r \in B!RepoIndices PROVE EntryTrue(r, bundle[r])'
    BY <1>4 DEF BundleTrue
  <2>1. EntryTrue(r, bundle'[r])
    BY <1>3, <1>4 DEF CutOf, BundleInv, BundleTrue
  <2>. QED
    BY <1>1, <2>1 DEF EntryTrue, FileTrue, Differs, B!Excluded
<1>. QED
  BY <1>5, <1>6, <1>7 DEF BundleInv

---------------------------------------------------------------------------
(* Collections: the theorems. *)

LEMMA BundleInitInv == ASSUME B!ConstantsOK, B!Init PROVE BundleInv
<1>1. /\ setup \in Sessions /\ place = "raw" /\ raw = <<>> /\ others = {} /\ numstat = <<>> /\ selected = <<>> /\ stats = 0
      /\ entry = B!Unavailable /\ bundle = <<>> /\ filesLeft = setup.maxFiles /\ bytesLeft = setup.maxCapture
      /\ cancelled = FALSE /\ edits = 0 /\ errors = 0 /\ seen = [r \in B!RepoIndices |-> 0]
      /\ tree \in [B!RepoIndices -> {t \in [B!Paths -> UNION B!Range(setup.shapes)] : \A p \in B!Paths : t[p] \in setup.shapes[p]}]
  BY DEF B!Init, B!MaxFiles, B!MaxCapture
<1>2. \A p \in B!Paths : setup.shapes[p] \subseteq B!Shapes
  BY <1>1 DEF B!ConstantsOK
<1>3. tree \in [B!RepoIndices -> [B!Paths -> B!Shapes]]
  BY <1>1, <1>2
<1>4. B!Unavailable \in EntriesOfBundle
  BY DEF B!Unavailable, EntriesOfBundle
<1>5. setup.maxFiles \in Nat /\ setup.maxCapture \in Nat
  BY <1>1 DEF B!ConstantsOK
<1>6. Collected
  <2>1. selected \in Seq(ChangesOfGit) /\ bundle \in Seq(EntriesOfBundle)
    BY <1>1
  <2>2. DOMAIN raw = {} /\ DOMAIN numstat = {}
    BY <1>1
  <2>3. others \subseteq B!Paths /\ seen \in [B!RepoIndices -> Nat]
    BY <1>1
  <2>. QED
    BY <1>1, <1>3, <1>4, <1>5, <2>1, <2>2, <2>3 DEF Collected
<1>7. InTurn
  BY <1>1 DEF InTurn, B!OthersShown, B!ConstantsOK
<1>. QED
  BY <1>1, <1>6, <1>7 DEF BundleInv, AsGitSays, BundleTrue, Capturing

LEMMA BundleNextInv == ASSUME B!ConstantsOK, BundleInv, [B!Next]_(B!vars) PROVE BundleInv'
<1>1. CASE UNCHANGED B!vars
  <2>1. UNCHANGED <<setup, tree, edits, place, raw, others, numstat, selected, stats, entry, bundle, filesLeft, bytesLeft,
                    cancelled, errors, seen>>
    BY <1>1 DEF B!vars, B!checkout, B!reads, B!budget, B!history
  <2>2. Collected' /\ BundleTrue'
    BY <2>1, BundleStaysTrue DEF BundleInv, Collected
  <2>5. InTurn'
    BY <2>1 DEF BundleInv, InTurn, B!Collecting, B!OthersShown, B!WholeFails, B!Fits, B!MaxBundle, B!Baseline
  <2>3. AsGitSays'
    BY <2>1 DEF BundleInv, AsGitSays, Untracked, B!Counted, B!Kind, B!P, B!R
  <2>4. Capturing'
    BY <2>1 DEF BundleInv, Capturing, FileTrue, OfGit, B!Overlay, Places, PathAt, Differs, B!Excluded, StatsTrue, B!InOverlay,
                B!UntrackedStats, B!Counted, B!Kind, B!P, B!R
  <2>. QED
    BY <2>2, <2>3, <2>4, <2>5 DEF BundleInv
<1>. QED
  BY <1>1, ReadRawStep, ReadOthersStep, ReadNumstatStep, ReadUnmergedStep, ChangeLineStatsStep, CaptureFileStep,
     FinishRepositoryStep, CommandFailsStep, NoBaselineStep, BoundStep, CancelStep, EditStep DEF B!Next

LEMMA BundleInvImplies == ASSUME B!ConstantsOK, BundleInv PROVE B!BundleIsTrue /\ B!OthersShown
<1>1. /\ bundle \in Seq(EntriesOfBundle) /\ filesLeft \in Nat /\ bytesLeft \in Nat
      /\ \A r \in DOMAIN bundle : EntryTrue(r, bundle[r]) /\ bundle[r] \in EntriesOfBundle
  BY DEF BundleInv, Collected, BundleTrue
<1>2. B!TypeOK
  BY <1>1 DEF B!TypeOK, EntriesOfBundle, Files, BundleInv, InTurn
<1>3. B!OncePerPath /\ B!NothingUncounted
  BY <1>1 DEF B!OncePerPath, B!NothingUncounted, B!Ready, B!FilesOf, EntryTrue
<1>4. B!PatchIffRenderable
  BY <1>1 DEF B!PatchIffRenderable, B!Ready, B!FilesOf, EntryTrue, FileTrue, B!ToSet
<1>5. B!TellsTheTruth
  <2>. SUFFICES ASSUME edits = 0, errors = 0, NEW r \in B!Ready
                PROVE /\ ~bundle[r].truncated => {f.path : f \in B!ToSet(B!FilesOf(r))} = Differs(r)
                      /\ \A f \in B!ToSet(B!FilesOf(r)) : f.state = "renderable" => f.patch = 1 + f.stats
    BY DEF B!TellsTheTruth, Differs
  <2>1. EntryTrue(r, bundle[r]) /\ bundle[r].status = "ready"
    BY <1>1 DEF B!Ready
  <2>2. {f.path : f \in B!ToSet(B!FilesOf(r))} = {bundle[r].files[i].path : i \in DOMAIN bundle[r].files}
    BY DEF B!ToSet, B!FilesOf
  <2>. QED
    BY <2>1, <2>2 DEF EntryTrue, FileTrue, B!ToSet, B!FilesOf
<1>6. B!OthersShown
  BY DEF BundleInv, InTurn
<1>. QED
  BY <1>2, <1>3, <1>4, <1>5, <1>6 DEF B!BundleIsTrue

LEMMA BundleAlways == B!ConstantsOK => (B!Spec => []BundleInv)
<1>. SUFFICES ASSUME B!ConstantsOK PROVE B!Spec => []BundleInv
  OBVIOUS
<1>1. B!Init => BundleInv
  BY BundleInitInv
<1>2. BundleInv /\ [B!Next]_(B!vars) => BundleInv'
  BY BundleNextInv
<1>. QED
  BY <1>1, <1>2, PTL DEF B!Spec

\* What a bundle says of the checkouts is so, whatever fails, is cut or cancelled:
\* each change git listed is there once or counted as omitted, and a patch shown has
\* the lines counted (collector.go:194-195, 224-229, bundle.go:195-204).
THEOREM BundlesAreTrue == B!ConstantsOK => (B!Spec => []BundleIsTrue)
<1>. SUFFICES ASSUME B!ConstantsOK PROVE B!Spec => []BundleIsTrue
  OBVIOUS
<1>1. BundleInv => BundleIsTrue
  BY BundleInvImplies DEF BundleIsTrue
<1>. QED
  BY <1>1, BundleAlways, PTL

\* "A broken checkout never hides the others" (collector.go:77-79): when each has a
\* baseline, only a cancelled collection, or metadata alone over the limit, fails
\* the whole.
THEOREM OthersAreShown == B!ConstantsOK => (B!Spec => []OthersShown)
<1>. SUFFICES ASSUME B!ConstantsOK PROVE B!Spec => []OthersShown
  OBVIOUS
<1>1. BundleInv => OthersShown
  BY BundleInvImplies DEF OthersShown
<1>. QED
  BY <1>1, BundleAlways, PTL

---------------------------------------------------------------------------
(* Collections: the ceilings of the session. *)

Count(b) == Cardinality(B!FileRefs(b))
Units(b) == Cardinality(B!PatchUnits(b))

LEMMA CountedInNat ==
    ASSUME NEW b \in Seq(EntriesOfBundle)
    PROVE  Count(b) \in Nat /\ Units(b) \in Nat
BY RefsAreFinite, FS_CardinalityType DEF Count, Units

LEMMA Disjoint ==
    ASSUME NEW S, IsFiniteSet(S), NEW T, IsFiniteSet(T), S \cap T = {}
    PROVE  IsFiniteSet(S \cup T) /\ Cardinality(S \cup T) = Cardinality(S) + Cardinality(T)
<1>1. /\ IsFiniteSet(S \cup T)
      /\ Cardinality(S \cup T) = Cardinality(S) + Cardinality(T) - Cardinality(S \cap T)
  BY FS_Union
<1>2. Cardinality(S \cap T) = 0 /\ Cardinality(S) \in Nat /\ Cardinality(T) \in Nat
  BY FS_EmptySet, FS_CardinalityType
<1>. QED
  BY <1>1, <1>2

\* One more entry.
LEMMA AppendIs ==
    ASSUME NEW b \in Seq(EntriesOfBundle), NEW e \in EntriesOfBundle
    PROVE  /\ Append(b, e) \in Seq(EntriesOfBundle) /\ Len(b) \in Nat
           /\ DOMAIN b = 1..Len(b) /\ DOMAIN Append(b, e) = 1..(Len(b) + 1)
           /\ \A r \in 1..Len(b) : Append(b, e)[r] = b[r]
           /\ Append(b, e)[Len(b) + 1] = e
<1>1. /\ Append(b, e) \in Seq(EntriesOfBundle) /\ Len(Append(b, e)) = Len(b) + 1
      /\ \A r \in 1..Len(b) : Append(b, e)[r] = b[r]
      /\ Append(b, e)[Len(b) + 1] = e
  BY AppendProperties
<1>2. DOMAIN Append(b, e) = 1..Len(Append(b, e))
  BY <1>1, LenProperties
<1>. QED
  BY <1>1, <1>2, LenProperties

\* Its files are counted, and nothing else changes.
LEMMA EntryCounts ==
    ASSUME NEW b \in Seq(EntriesOfBundle), NEW e \in EntriesOfBundle
    PROVE  Count(Append(b, e)) = Count(b) + Len(e.files)
<1>. DEFINE c == Append(b, e)
            n == Len(b) + 1
            col == {n} \X (1..Len(e.files))
<1>1. /\ Len(b) \in Nat /\ DOMAIN b = 1..Len(b) /\ DOMAIN c = 1..n
      /\ \A r \in 1..Len(b) : c[r] = b[r]
      /\ c[n] = e
  BY AppendIs
<1>2. Len(e.files) \in Nat /\ DOMAIN e.files = 1..Len(e.files)
  BY EntryIs
<1>. HIDE DEF c
<1>3. B!FileRefs(c) = B!FileRefs(b) \cup col
  <2>1. ASSUME NEW x \in B!FileRefs(c) PROVE x \in B!FileRefs(b) \cup col
    <3>1. PICK r \in DOMAIN c : \E i \in DOMAIN c[r].files : x = <<r, i>>
      BY RefIs
    <3>2. PICK i \in DOMAIN c[r].files : x = <<r, i>>
      BY <3>1
    <3>3. CASE r = n
      BY <1>1, <1>2, <3>2, <3>3
    <3>4. CASE r # n
      <4>1. r \in DOMAIN b /\ c[r] = b[r]
        BY <1>1, <3>4
      <4>. QED
        BY <3>2, <4>1, RefIs
    <3>. QED
      BY <3>3, <3>4
  <2>2. ASSUME NEW x \in B!FileRefs(b) PROVE x \in B!FileRefs(c)
    <3>1. PICK r \in DOMAIN b : \E i \in DOMAIN b[r].files : x = <<r, i>>
      BY RefIs
    <3>2. r \in DOMAIN c /\ c[r] = b[r]
      BY <1>1
    <3>. QED
      BY <3>1, <3>2, RefIs
  <2>3. ASSUME NEW x \in col PROVE x \in B!FileRefs(c)
    <3>1. PICK i \in 1..Len(e.files) : x = <<n, i>>
      OBVIOUS
    <3>2. n \in DOMAIN c /\ i \in DOMAIN c[n].files
      BY <1>1, <1>2
    <3>. QED
      BY <3>1, <3>2, RefIs
  <2>. QED
    BY <2>1, <2>2, <2>3
<1>4. B!FileRefs(b) \cap col = {}
  <2>. SUFFICES ASSUME NEW x \in B!FileRefs(b), x \in col PROVE FALSE
    OBVIOUS
  <2>1. PICK r \in DOMAIN b : \E i \in DOMAIN b[r].files : x = <<r, i>>
    BY RefIs
  <2>2. r = n
    BY <2>1
  <2>. QED
    BY <1>1, <2>2
<1>5. IsFiniteSet(col) /\ Cardinality(col) = Len(e.files)
  BY <1>2, Column
<1>6. IsFiniteSet(B!FileRefs(b))
  BY RefsAreFinite
<1>7. Cardinality(B!FileRefs(b) \cup col) = Cardinality(B!FileRefs(b)) + Cardinality(col)
  BY <1>4, <1>5, <1>6, Disjoint
<1>. QED
  BY <1>3, <1>5, <1>7 DEF Count, c

\* One more file of the entry being made adds its patch.
LEMMA FileCounts ==
    ASSUME NEW b \in Seq(EntriesOfBundle), NEW d \in EntriesOfBundle, NEW e \in EntriesOfBundle,
           NEW f \in Files, e.files = Append(d.files, f)
    PROVE  Units(Append(b, e)) = Units(Append(b, d)) + f.patch
<1>. DEFINE c == Append(b, d)
            g == Append(b, e)
            n == Len(b) + 1
            m == Len(d.files)
            col == {<<n, m + 1>>} \X (1..f.patch)
<1>1. /\ Len(b) \in Nat /\ DOMAIN c = 1..n /\ DOMAIN g = 1..n
      /\ \A r \in 1..Len(b) : c[r] = b[r] /\ g[r] = b[r]
      /\ c[n] = d /\ g[n] = e
      /\ c \in Seq(EntriesOfBundle) /\ g \in Seq(EntriesOfBundle)
  BY AppendIs
<1>2. /\ m \in Nat /\ DOMAIN d.files = 1..m /\ DOMAIN e.files = 1..(m + 1)
      /\ \A i \in 1..m : e.files[i] = d.files[i]
      /\ e.files[m + 1] = f
  <2>1. d.files \in Seq(Files) /\ m \in Nat /\ DOMAIN d.files = 1..m /\ DOMAIN e.files = 1..Len(e.files)
    BY EntryIs
  <2>2. /\ Len(e.files) = m + 1 /\ e.files[m + 1] = f
        /\ \A i \in 1..m : e.files[i] = d.files[i]
    BY <2>1, AppendProperties
  <2>. QED
    BY <2>1, <2>2
<1>3. f.patch \in Nat
  BY DEF Files
<1>. HIDE DEF c, g, m
<1>4. \A r \in 1..n : \A i \in DOMAIN c[r].files : i \in DOMAIN g[r].files /\ g[r].files[i] = c[r].files[i]
  <2>. SUFFICES ASSUME NEW r \in 1..n, NEW i \in DOMAIN c[r].files
                PROVE  i \in DOMAIN g[r].files /\ g[r].files[i] = c[r].files[i]
    OBVIOUS
  <2>1. CASE r = n
    <3>1. c[r] = d /\ g[r] = e
      BY <1>1, <2>1
    <3>2. i \in 1..m /\ i \in 1..(m + 1)
      BY <1>2, <3>1
    <3>. QED
      BY <1>2, <3>1, <3>2
  <2>2. CASE r # n
    BY <1>1, <2>2
  <2>. QED
    BY <2>1, <2>2
<1>5. B!PatchUnits(g) = B!PatchUnits(c) \cup col
  <2>1. ASSUME NEW x \in B!PatchUnits(g) PROVE x \in B!PatchUnits(c) \cup col
    <3>1. PICK r \in DOMAIN g : \E i \in DOMAIN g[r].files : \E k \in 1..g[r].files[i].patch : x = <<<<r, i>>, k>>
      BY UnitIs
    <3>2. PICK i \in DOMAIN g[r].files : \E k \in 1..g[r].files[i].patch : x = <<<<r, i>>, k>>
      BY <3>1
    <3>3. PICK k \in 1..g[r].files[i].patch : x = <<<<r, i>>, k>>
      BY <3>2
    <3>4. CASE r = n /\ i = m + 1
      BY <1>1, <1>2, <3>3, <3>4
    <3>5. CASE ~(r = n /\ i = m + 1)
      <4>1. r \in DOMAIN c /\ i \in DOMAIN c[r].files
        <5>1. CASE r = n
          BY <1>1, <1>2, <3>5, <5>1
        <5>2. CASE r # n
          BY <1>1, <5>2
        <5>. QED
          BY <5>1, <5>2
      <4>2. k \in 1..c[r].files[i].patch
        BY <1>1, <1>4, <4>1
      <4>. QED
        BY <3>3, <4>1, <4>2, UnitIs
    <3>. QED
      BY <3>4, <3>5
  <2>2. ASSUME NEW x \in B!PatchUnits(c) PROVE x \in B!PatchUnits(g)
    <3>1. PICK r \in DOMAIN c : \E i \in DOMAIN c[r].files : \E k \in 1..c[r].files[i].patch : x = <<<<r, i>>, k>>
      BY UnitIs
    <3>2. PICK i \in DOMAIN c[r].files : \E k \in 1..c[r].files[i].patch : x = <<<<r, i>>, k>>
      BY <3>1
    <3>3. r \in DOMAIN g /\ i \in DOMAIN g[r].files /\ g[r].files[i] = c[r].files[i]
      BY <1>1, <1>4
    <3>. QED
      BY <3>2, <3>3, UnitIs
  <2>3. ASSUME NEW x \in col PROVE x \in B!PatchUnits(g)
    <3>1. PICK k \in 1..f.patch : x = <<<<n, m + 1>>, k>>
      OBVIOUS
    <3>2. n \in DOMAIN g /\ m + 1 \in DOMAIN g[n].files /\ g[n].files[m + 1] = f
      BY <1>1, <1>2
    <3>. QED
      BY <3>1, <3>2, UnitIs
  <2>. QED
    BY <2>1, <2>2, <2>3
<1>6. B!PatchUnits(c) \cap col = {}
  <2>. SUFFICES ASSUME NEW x \in B!PatchUnits(c), x \in col PROVE FALSE
    OBVIOUS
  <2>1. PICK r \in DOMAIN c : \E i \in DOMAIN c[r].files : \E k \in 1..c[r].files[i].patch : x = <<<<r, i>>, k>>
    BY UnitIs
  <2>2. PICK i \in DOMAIN c[r].files : \E k \in 1..c[r].files[i].patch : x = <<<<r, i>>, k>>
    BY <2>1
  <2>3. r = n /\ i = m + 1
    BY <2>2
  <2>. QED
    BY <1>1, <1>2, <2>3
<1>7. IsFiniteSet(col) /\ Cardinality(col) = f.patch
  BY <1>3, Column
<1>8. IsFiniteSet(B!PatchUnits(c))
  BY <1>1, RefsAreFinite
<1>9. Cardinality(B!PatchUnits(c) \cup col) = Cardinality(B!PatchUnits(c)) + Cardinality(col)
  BY <1>6, <1>7, <1>8, Disjoint
<1>. QED
  BY <1>5, <1>7, <1>9 DEF Units, c, g

\* An entry without files adds nothing.
LEMMA NoFilesCount ==
    ASSUME NEW b \in Seq(EntriesOfBundle), NEW e \in EntriesOfBundle, e.files = <<>>
    PROVE  Count(Append(b, e)) = Count(b) /\ Units(Append(b, e)) = Units(b)
<1>. DEFINE c == Append(b, e)
            n == Len(b) + 1
<1>1. /\ Len(b) \in Nat /\ DOMAIN b = 1..Len(b) /\ DOMAIN c = 1..n
      /\ \A r \in 1..Len(b) : c[r] = b[r]
      /\ c[n] = e
  BY AppendIs
<1>2. DOMAIN e.files = {}
  OBVIOUS
<1>. HIDE DEF c
<1>3. \A r \in DOMAIN c : DOMAIN c[r].files # {} => r \in DOMAIN b
  BY <1>1, <1>2
<1>4. \A x : x \in B!FileRefs(c) <=> x \in B!FileRefs(b)
  BY <1>1, <1>3, RefIs
<1>5. \A x : x \in B!PatchUnits(c) <=> x \in B!PatchUnits(b)
  BY <1>1, <1>3, UnitIs
<1>6. B!FileRefs(c) = B!FileRefs(b) /\ B!PatchUnits(c) = B!PatchUnits(b)
  BY <1>4, <1>5
<1>. QED
  BY <1>6 DEF Count, Units, c

\* Fewer files with smaller patches count for no more.
Within(c, b) ==
    /\ c \in Seq(EntriesOfBundle) /\ Len(c) = Len(b)
    /\ \A r \in DOMAIN c : /\ Len(c[r].files) <= Len(b[r].files) /\ c[r].status = b[r].status
                           /\ \A i \in 1..Len(c[r].files) : c[r].files[i].patch <= b[r].files[i].patch

LEMMA WithinCounts ==
    ASSUME NEW b \in Seq(EntriesOfBundle), NEW c, Within(c, b)
    PROVE  Count(c) <= Count(b) /\ Units(c) <= Units(b)
<1>1. /\ Len(b) \in Nat /\ DOMAIN b = 1..Len(b) /\ DOMAIN c = DOMAIN b
  BY LenProperties DEF Within
<1>2. \A r \in DOMAIN c : /\ c[r] \in EntriesOfBundle /\ b[r] \in EntriesOfBundle
                          /\ DOMAIN c[r].files = 1..Len(c[r].files) /\ DOMAIN b[r].files = 1..Len(b[r].files)
                          /\ Len(c[r].files) \in Nat /\ Len(b[r].files) \in Nat
  BY <1>1, BundleIs, EntryIs DEF Within
<1>3. \A r \in DOMAIN c : \A i \in DOMAIN c[r].files :
         /\ i \in DOMAIN b[r].files /\ c[r].files[i].patch <= b[r].files[i].patch
         /\ c[r].files[i].patch \in Nat /\ b[r].files[i].patch \in Nat
  <2>. SUFFICES ASSUME NEW r \in DOMAIN c, NEW i \in DOMAIN c[r].files
                PROVE  /\ i \in DOMAIN b[r].files /\ c[r].files[i].patch <= b[r].files[i].patch
                       /\ c[r].files[i].patch \in Nat /\ b[r].files[i].patch \in Nat
    OBVIOUS
  <2>1. i \in 1..Len(c[r].files) /\ Len(c[r].files) <= Len(b[r].files)
    BY <1>2 DEF Within
  <2>2. i \in DOMAIN b[r].files
    BY <1>2, <2>1
  <2>. QED
    BY <1>2, <2>1, <2>2, EntryIs DEF Within
<1>4. B!FileRefs(c) \in SUBSET B!FileRefs(b)
  <2>. SUFFICES ASSUME NEW x \in B!FileRefs(c) PROVE x \in B!FileRefs(b)
    OBVIOUS
  <2>1. PICK r \in DOMAIN c : \E i \in DOMAIN c[r].files : x = <<r, i>>
    BY RefIs
  <2>. QED
    BY <1>1, <1>3, <2>1, RefIs
<1>5. B!PatchUnits(c) \in SUBSET B!PatchUnits(b)
  <2>. SUFFICES ASSUME NEW x \in B!PatchUnits(c) PROVE x \in B!PatchUnits(b)
    OBVIOUS
  <2>1. PICK r \in DOMAIN c : \E i \in DOMAIN c[r].files : \E k \in 1..c[r].files[i].patch : x = <<<<r, i>>, k>>
    BY UnitIs
  <2>2. PICK i \in DOMAIN c[r].files : \E k \in 1..c[r].files[i].patch : x = <<<<r, i>>, k>>
    BY <2>1
  <2>3. PICK k \in 1..c[r].files[i].patch : x = <<<<r, i>>, k>>
    BY <2>2
  <2>4. k \in 1..b[r].files[i].patch
    BY <1>3
  <2>. QED
    BY <1>1, <1>3, <2>3, <2>4, UnitIs
<1>. QED
  BY <1>4, <1>5, RefsAreFinite, FS_Subset DEF Count, Units

---------------------------------------------------------------------------
(* Collections: what is shed, and what is dropped. *)

\* The files whose patches are shed: the first n, largest first.
Sizes(b) == [x \in B!PatchRefs(b) |-> B!PatchOf(b, x)]
Before(b, x) == {y \in B!PatchRefs(b) : B!Sooner(Sizes(b), y, x)}
Gone(b, n) == {x \in B!PatchRefs(b) : B!Cardinality(Before(b, x)) <= n}

LEMMA PatchRefIs ==
    ASSUME NEW b \in Seq(EntriesOfBundle)
    PROVE  /\ \A x \in B!PatchRefs(b) : Sizes(b)[x] = B!PatchOf(b, x) /\ B!PatchOf(b, x) \in Nat
           /\ \A r \in DOMAIN b : \A i \in 1..Len(b[r].files) :
                /\ B!PatchOf(b, <<r, i>>) = b[r].files[i].patch
                /\ <<r, i>> \in B!PatchRefs(b) <=> b[r].files[i].patch > 0
           /\ IsFiniteSet(B!PatchRefs(b)) /\ B!Cardinality(B!PatchRefs(b)) \in Nat
<1>1. ASSUME NEW x \in B!PatchRefs(b) PROVE B!PatchOf(b, x) \in Nat
  <2>1. x \in B!FileRefs(b)
    BY DEF B!PatchRefs
  <2>2. PICK r \in DOMAIN b : \E i \in DOMAIN b[r].files : x = <<r, i>>
    BY <2>1, RefIs
  <2>3. PICK i \in DOMAIN b[r].files : x = <<r, i>>
    BY <2>2
  <2>4. b[r].files[i].patch \in Nat
    BY BundleIs, EntryIs
  <2>. QED
    BY <2>3, <2>4 DEF B!PatchOf
<1>2. ASSUME NEW r \in DOMAIN b, NEW i \in 1..Len(b[r].files)
      PROVE  /\ B!PatchOf(b, <<r, i>>) = b[r].files[i].patch
             /\ <<r, i>> \in B!PatchRefs(b) <=> b[r].files[i].patch > 0
  <2>1. B!PatchOf(b, <<r, i>>) = b[r].files[i].patch
    BY DEF B!PatchOf
  <2>2. i \in DOMAIN b[r].files
    BY BundleIs
  <2>3. <<r, i>> \in B!FileRefs(b)
    BY <2>2, RefIs
  <2>. QED
    BY <2>1, <2>3 DEF B!PatchRefs
<1>3. IsFiniteSet(B!PatchRefs(b))
  <2>1. B!PatchRefs(b) \in SUBSET B!FileRefs(b)
    BY DEF B!PatchRefs
  <2>. QED
    BY <2>1, RefsAreFinite, FS_Subset
<1>4. B!Cardinality(B!PatchRefs(b)) \in Nat
  BY <1>3, FS_CardinalityType, CountedAlike
<1>5. \A x \in B!PatchRefs(b) : Sizes(b)[x] = B!PatchOf(b, x)
  BY DEF Sizes
<1>. QED
  BY <1>1, <1>2, <1>3, <1>4, <1>5

LEMMA BeforeIsFinite ==
    ASSUME NEW b \in Seq(EntriesOfBundle), NEW x
    PROVE  /\ IsFiniteSet(Before(b, x)) /\ Cardinality(Before(b, x)) \in Nat
           /\ Cardinality(Before(b, x)) <= Cardinality(B!PatchRefs(b))
<1>1. Before(b, x) \in SUBSET B!PatchRefs(b)
  BY DEF Before
<1>2. IsFiniteSet(Before(b, x)) /\ Cardinality(Before(b, x)) <= Cardinality(B!PatchRefs(b))
  BY <1>1, PatchRefIs, FS_Subset
<1>. QED
  BY <1>2, FS_CardinalityType

\* What is larger than a patch that is shed is shed.
LEMMA GoneAreLargest ==
    ASSUME NEW b \in Seq(EntriesOfBundle), NEW n \in Nat, NEW x \in B!PatchRefs(b), NEW y \in Gone(b, n),
           B!PatchOf(b, x) > B!PatchOf(b, y)
    PROVE  x \in Gone(b, n)
<1>1. y \in B!PatchRefs(b) /\ Cardinality(Before(b, y)) <= n
  BY CountedAlike DEF Gone
<1>2. ASSUME NEW w \in Before(b, x) PROVE w \in Before(b, y)
  <2>1. w \in B!PatchRefs(b) /\ B!Sooner(Sizes(b), w, x)
    BY DEF Before
  <2>2. Sizes(b)[w] >= Sizes(b)[x]
    BY <2>1, PatchRefIs DEF B!Sooner
  <2>3. Sizes(b)[w] > Sizes(b)[y]
    BY <1>1, <2>1, <2>2, PatchRefIs
  <2>. QED
    BY <2>1, <2>3 DEF Before, B!Sooner
<1>3. Cardinality(Before(b, x)) <= Cardinality(Before(b, y))
  BY <1>2, BeforeIsFinite, FS_Subset
<1>4. Cardinality(Before(b, x)) <= n
  BY <1>1, <1>3, BeforeIsFinite
<1>. QED
  BY <1>4, CountedAlike DEF Gone

LEMMA AllAreGone ==
    ASSUME NEW b \in Seq(EntriesOfBundle)
    PROVE  Gone(b, B!Cardinality(B!PatchRefs(b))) = B!PatchRefs(b)
<1>1. \A x : B!Cardinality(Before(b, x)) <= B!Cardinality(B!PatchRefs(b))
  BY BeforeIsFinite, CountedAlike
<1>. QED
  BY <1>1 DEF Gone

\* The bundle without the first n patches.
LEMMA ShedIs ==
    ASSUME B!ConstantsOK, NEW b \in Seq(EntriesOfBundle), Len(b) = Checkouts, NEW n
    PROVE  LET c == B!Shed(b, n)
           IN /\ c \in Seq(EntriesOfBundle) /\ Len(c) = Checkouts
              /\ \A r \in B!RepoIndices :
                   /\ c[r].status = b[r].status /\ Len(c[r].files) = Len(b[r].files)
                   /\ \A i \in 1..Len(b[r].files) :
                        c[r].files[i].patch = IF <<r, i>> \in Gone(b, n) THEN 0 ELSE b[r].files[i].patch
<1>. DEFINE c == B!Shed(b, n)
            files(r) == [i \in DOMAIN b[r].files |->
                           IF <<r, i>> \in Gone(b, n) THEN [b[r].files[i] EXCEPT !.patch = 0, !.state = "too_large"]
                           ELSE b[r].files[i]]
<1>1. c = [r \in B!RepoIndices |-> [b[r] EXCEPT !.files = files(r)]]
  BY DEF B!Shed, Gone, Before, Sizes
<1>2. c \in Seq(EntriesOfBundle) /\ Len(c) = Checkouts
  BY ShedIsCut DEF CutOf
<1>3. DOMAIN b = B!RepoIndices
  BY BundleIs DEF B!RepoIndices
<1>4. ASSUME NEW r \in B!RepoIndices
      PROVE  /\ c[r].status = b[r].status /\ Len(c[r].files) = Len(b[r].files)
             /\ \A i \in 1..Len(b[r].files) :
                  c[r].files[i].patch = IF <<r, i>> \in Gone(b, n) THEN 0 ELSE b[r].files[i].patch
  <2>1. b[r] \in EntriesOfBundle /\ DOMAIN b[r].files = 1..Len(b[r].files)
    BY <1>3, BundleIs
  <2>2. c[r] = [b[r] EXCEPT !.files = files(r)]
    BY <1>1
  <2>3. c[r].status = b[r].status /\ c[r].files = files(r)
    <3>. HIDE DEF files, c
    <3>. QED
      BY <2>1, <2>2 DEF EntriesOfBundle
  <2>4. DOMAIN files(r) = 1..Len(b[r].files)
    BY <2>1
  <2>5. Len(files(r)) = Len(b[r].files)
    <3>1. c[r] \in EntriesOfBundle
      BY <1>2, BundleIs DEF B!RepoIndices
    <3>2. files(r) \in Seq(Files)
      BY <2>3, <3>1, EntryIs
    <3>3. Len(b[r].files) \in Nat
      BY <2>1, EntryIs
    <3>. HIDE DEF files
    <3>. QED
      BY <2>4, <3>2, <3>3, LenProperties
  <2>6. ASSUME NEW i \in 1..Len(b[r].files)
        PROVE  files(r)[i].patch = IF <<r, i>> \in Gone(b, n) THEN 0 ELSE b[r].files[i].patch
    <3>1. b[r].files[i] \in Files
      BY <2>1, EntryIs
    <3>. QED
      BY <2>1, <3>1 DEF Files
  <2>. HIDE DEF files, c
  <2>. QED
    BY <2>3, <2>5, <2>6
<1>. QED
  BY <1>2, <1>4

\* All patches go when the limit asks for it.
LEMMA SheddingIs ==
    ASSUME B!ConstantsOK, NEW b \in Seq(EntriesOfBundle), Len(b) = Checkouts
    PROVE  \E n \in Nat : /\ B!Shedding(b) = B!Shed(b, n)
                          /\ ~B!Fits(B!Shedding(b)) => n = B!Cardinality(B!PatchRefs(b))
<1>. DEFINE all == B!Cardinality(B!PatchRefs(b))
            S == {j \in 0..all : B!Fits(B!Shed(b, j))}
            n == B!Least(S, all)
<1>1. all \in Nat
  BY PatchRefIs
<1>2. B!Shedding(b) = B!Shed(b, n)
  BY DEF B!Shedding
<1>3. n \in Nat /\ (S # {} => n \in S) /\ (S = {} => n = all)
  <2>1. S \in SUBSET Nat
    BY <1>1
  <2>. HIDE DEF S, all
  <2>. QED
    BY <1>1, <2>1, LeastIsNat
<1>4. n \in S => B!Fits(B!Shed(b, n))
  <2>. HIDE DEF n
  <2>. QED
    OBVIOUS
<1>. HIDE DEF S, n, all
<1>5. ~B!Fits(B!Shedding(b)) => n = all
  BY <1>2, <1>3, <1>4
<1>. QED
  BY <1>2, <1>3, <1>5 DEF all

\* How many files of repository r are dropped when n are.
Dropped(b, r, n) ==
    LET share == B!Minus(n, B!Cardinality(B!After(b, r)))
    IN IF share < Len(b[r].files) THEN share ELSE Len(b[r].files)

LEMMA DropIs ==
    ASSUME B!ConstantsOK, NEW b \in Seq(EntriesOfBundle), Len(b) = Checkouts, NEW n \in Nat
    PROVE  LET c == B!Drop(b, n)
           IN /\ c \in Seq(EntriesOfBundle) /\ Len(c) = Checkouts
              /\ \A r \in B!RepoIndices :
                   /\ c[r].status = b[r].status
                   /\ Dropped(b, r, n) \in 0..Len(b[r].files)
                   /\ Len(c[r].files) = Len(b[r].files) - Dropped(b, r, n)
                   /\ \A i \in 1..Len(c[r].files) : c[r].files[i] = b[r].files[i]
<1>. DEFINE c == B!Drop(b, n)
<1>1. c = [r \in B!RepoIndices |-> B!Omit(b[r], Dropped(b, r, n))]
  BY DEF B!Drop, Dropped
<1>2. c \in Seq(EntriesOfBundle) /\ Len(c) = Checkouts
  BY DropIsCut DEF CutOf
<1>3. DOMAIN b = B!RepoIndices
  BY BundleIs DEF B!RepoIndices
<1>4. ASSUME NEW r \in B!RepoIndices
      PROVE  /\ c[r].status = b[r].status
             /\ Dropped(b, r, n) \in 0..Len(b[r].files)
             /\ Len(c[r].files) = Len(b[r].files) - Dropped(b, r, n)
             /\ \A i \in 1..Len(c[r].files) : c[r].files[i] = b[r].files[i]
  <2>. DEFINE e == b[r]
              m == Len(e.files)
              k == Dropped(b, r, n)
  <2>1. e \in EntriesOfBundle
    BY <1>3, BundleIs
  <2>2. e.files \in Seq(Files) /\ m \in Nat /\ DOMAIN e.files = 1..m
    BY <2>1, EntryIs
  <2>3. k \in 0..m
    <3>1. B!Minus(n, B!Cardinality(B!After(b, r))) \in Nat
      BY RefsAreFinite DEF B!Minus
    <3>. QED
      BY <2>2, <3>1 DEF Dropped
  <2>4. c[r] = B!Omit(e, k)
    BY <1>1
  <2>. SUFFICES c[r].status = e.status /\ Len(c[r].files) = m - k /\ \A i \in 1..(m - k) : c[r].files[i] = e.files[i]
    <3>. HIDE DEF c, k
    <3>. QED
      BY <2>3 DEF k
  <2>. HIDE DEF c, e, k
  <2>5. CASE k = 0
    BY <2>2, <2>3, <2>4, <2>5 DEF B!Omit
  <2>6. CASE k # 0
    <3>. DEFINE left == SubSeq(e.files, 1, m - k)
    <3>1. c[r] = [e EXCEPT !.files = left, !.truncated = TRUE, !.omitted = @ + k]
      BY <2>4, <2>6 DEF B!Omit
    <3>2. \A i \in 1..(m - k) : e.files[i] \in Files
      BY <2>2, <2>3
    <3>3. Len(left) = m - k /\ \A i \in 1..(m - k) : left[i] = e.files[i]
      BY <2>2, <2>3, <3>2, SubSeqProperties
    <3>. HIDE DEF left
    <3>4. c[r].files = left /\ c[r].status = e.status
      BY <2>1, <3>1 DEF EntriesOfBundle
    <3>. QED
      BY <3>3, <3>4
  <2>. QED
    BY <2>5, <2>6
<1>. QED
  BY <1>2, <1>4

\* The files of a repository and of those after it are all after an earlier one.
LEMMA AfterGrows ==
    ASSUME NEW b \in Seq(EntriesOfBundle), NEW r \in DOMAIN b, NEW q \in DOMAIN b, q > r
    PROVE  Cardinality(B!After(b, q)) + Len(b[q].files) <= Cardinality(B!After(b, r))
<1>. DEFINE col == {q} \X (1..Len(b[q].files))
<1>1. Len(b[q].files) \in Nat /\ DOMAIN b[q].files = 1..Len(b[q].files) /\ DOMAIN b = 1..Len(b) /\ Len(b) \in Nat
  BY BundleIs, EntryIs
<1>2. IsFiniteSet(col) /\ Cardinality(col) = Len(b[q].files)
  BY <1>1, Column
<1>3. ASSUME NEW x \in B!After(b, q) PROVE x \in B!After(b, r) /\ x \notin col
  <2>1. x \in B!FileRefs(b) /\ x[1] > q
    BY DEF B!After
  <2>2. PICK p \in DOMAIN b : \E i \in DOMAIN b[p].files : x = <<p, i>>
    BY <2>1, RefIs
  <2>3. x[1] = p
    BY <2>2
  <2>4. p > r /\ p # q
    BY <1>1, <2>1, <2>3
  <2>. QED
    BY <2>1, <2>3, <2>4 DEF B!After
<1>4. ASSUME NEW x \in col PROVE x \in B!After(b, r)
  <2>1. PICK i \in 1..Len(b[q].files) : x = <<q, i>>
    OBVIOUS
  <2>2. x \in B!FileRefs(b) /\ x[1] = q
    BY <1>1, <2>1, RefIs
  <2>. QED
    BY <2>2 DEF B!After
<1>5. B!After(b, q) \cup col \in SUBSET B!After(b, r) /\ B!After(b, q) \cap col = {}
  BY <1>3, <1>4
<1>. HIDE DEF col
<1>6. IsFiniteSet(B!After(b, q)) /\ IsFiniteSet(B!After(b, r))
  BY RefsAreFinite
<1>7. Cardinality(B!After(b, q) \cup col) = Cardinality(B!After(b, q)) + Cardinality(col)
  BY <1>2, <1>5, <1>6, Disjoint
<1>8. Cardinality(B!After(b, q) \cup col) <= Cardinality(B!After(b, r))
  BY <1>5, <1>6, FS_Subset
<1>. QED
  BY <1>2, <1>7, <1>8

\* A repository loses files only once those after it have none.
LEMMA DropsTheLast ==
    ASSUME B!ConstantsOK, NEW b \in Seq(EntriesOfBundle), Len(b) = Checkouts, NEW n \in Nat,
           NEW r \in B!RepoIndices, NEW q \in B!RepoIndices, q > r,
           Len(B!Drop(b, n)[r].files) < Len(b[r].files)
    PROVE  B!Drop(b, n)[q].files = <<>>
<1>. DEFINE c == B!Drop(b, n)
            after(p) == B!Cardinality(B!After(b, p))
            m(p) == Len(b[p].files)
<1>1. /\ c \in Seq(EntriesOfBundle) /\ Len(c) = Checkouts
      /\ Len(c[r].files) = m(r) - Dropped(b, r, n)
      /\ Len(c[q].files) = m(q) - Dropped(b, q, n)
      /\ Dropped(b, r, n) \in 0..m(r)
  BY DropIs
<1>2. DOMAIN b = B!RepoIndices /\ DOMAIN c = B!RepoIndices
  BY <1>1, BundleIs DEF B!RepoIndices
<1>3. m(r) \in Nat /\ m(q) \in Nat
  BY <1>2, BundleIs, EntryIs
<1>4. after(r) \in Nat /\ after(q) \in Nat /\ after(q) + m(q) <= after(r)
  BY <1>2, RefsAreFinite, AfterGrows, CountedAlike
<1>5. Dropped(b, r, n) > 0
  <2>. HIDE DEF c
  <2>1. Len(c[r].files) < m(r)
    BY DEF c
  <2>. QED
    BY <1>1, <1>3, <2>1
<1>6. n > after(r)
  BY <1>3, <1>4, <1>5 DEF Dropped, B!Minus
<1>7. Dropped(b, q, n) = m(q)
  BY <1>3, <1>4, <1>6 DEF Dropped, B!Minus
<1>. HIDE DEF c, m
<1>8. Len(c[q].files) = 0
  BY <1>1, <1>3, <1>7
<1>9. c[q].files \in Seq(Files)
  BY <1>1, <1>2, BundleIs, EntryIs
<1>. QED
  BY <1>8, <1>9, EmptySeq DEF c

\* What is cut is cut where it should be.
CutRight(c, b) ==
    /\ Within(c, b)
    /\ \A r, q \in DOMAIN c : \A i \in 1..Len(c[r].files), j \in 1..Len(c[q].files) :
         (c[r].files[i].patch > 0 /\ b[q].files[j].patch > 0 /\ c[q].files[j].patch = 0)
           => b[q].files[j].patch >= b[r].files[i].patch
    /\ \A r, q \in DOMAIN c : Len(c[r].files) < Len(b[r].files) =>
         /\ q > r => c[q].files = <<>>
         /\ \A j \in 1..Len(c[q].files) : c[q].files[j].patch = 0

LEMMA ShedIsRight ==
    ASSUME B!ConstantsOK, NEW b \in Seq(EntriesOfBundle), Len(b) = Checkouts, NEW n \in Nat
    PROVE  CutRight(B!Shed(b, n), b)
<1>. DEFINE c == B!Shed(b, n)
<1>1. /\ c \in Seq(EntriesOfBundle) /\ Len(c) = Checkouts
      /\ \A r \in B!RepoIndices :
           /\ c[r].status = b[r].status /\ Len(c[r].files) = Len(b[r].files)
           /\ \A i \in 1..Len(b[r].files) :
                c[r].files[i].patch = IF <<r, i>> \in Gone(b, n) THEN 0 ELSE b[r].files[i].patch
  BY ShedIs
<1>. HIDE DEF c
<1>2. DOMAIN b = B!RepoIndices /\ DOMAIN c = B!RepoIndices
  BY <1>1, BundleIs DEF B!RepoIndices
<1>3. \A r \in DOMAIN c : Len(b[r].files) \in Nat /\ \A i \in 1..Len(b[r].files) : b[r].files[i].patch \in Nat
  BY <1>2, BundleIs, EntryIs
<1>4. \A r \in DOMAIN c :
         /\ c[r].status = b[r].status /\ Len(c[r].files) = Len(b[r].files)
         /\ \A i \in 1..Len(b[r].files) :
              /\ <<r, i>> \in Gone(b, n) => c[r].files[i].patch = 0
              /\ <<r, i>> \notin Gone(b, n) => c[r].files[i].patch = b[r].files[i].patch
  BY <1>1, <1>2
<1>5. Within(c, b)
  <2>. SUFFICES ASSUME NEW r \in DOMAIN c
                PROVE  /\ Len(c[r].files) <= Len(b[r].files) /\ c[r].status = b[r].status
                       /\ \A i \in 1..Len(c[r].files) : c[r].files[i].patch <= b[r].files[i].patch
    BY <1>1 DEF Within
  <2>1. Len(c[r].files) <= Len(b[r].files) /\ c[r].status = b[r].status
    BY <1>3, <1>4
  <2>2. ASSUME NEW i \in 1..Len(c[r].files) PROVE c[r].files[i].patch <= b[r].files[i].patch
    <3>1. i \in 1..Len(b[r].files) /\ b[r].files[i].patch \in Nat
      BY <1>3, <1>4
    <3>2. c[r].files[i].patch \in {0, b[r].files[i].patch}
      BY <1>4, <3>1
    <3>. QED
      BY <3>1, <3>2
  <2>. QED
    BY <2>1, <2>2
<1>6. ASSUME NEW r \in DOMAIN c, NEW q \in DOMAIN c, NEW i \in 1..Len(c[r].files), NEW j \in 1..Len(c[q].files),
             c[r].files[i].patch > 0, b[q].files[j].patch > 0, c[q].files[j].patch = 0
      PROVE  b[q].files[j].patch >= b[r].files[i].patch
  <2>1. i \in 1..Len(b[r].files) /\ j \in 1..Len(b[q].files)
    BY <1>4
  <2>2. b[r].files[i].patch \in Nat /\ b[q].files[j].patch \in Nat
    BY <1>3, <2>1
  <2>3. <<q, j>> \in Gone(b, n)
    <3>. SUFFICES ASSUME <<q, j>> \notin Gone(b, n) PROVE FALSE
      OBVIOUS
    <3>1. c[q].files[j].patch = b[q].files[j].patch
      BY <1>4, <2>1
    <3>. QED
      BY <1>6, <3>1
  <2>4. <<r, i>> \notin Gone(b, n)
    <3>. SUFFICES ASSUME <<r, i>> \in Gone(b, n) PROVE FALSE
      OBVIOUS
    <3>1. c[r].files[i].patch = 0
      BY <1>4, <2>1
    <3>. QED
      BY <1>6, <3>1
  <2>5. c[r].files[i].patch = b[r].files[i].patch
    BY <1>4, <2>1, <2>4
  <2>6. <<r, i>> \in B!PatchRefs(b)
    BY <1>2, <1>6, <2>1, <2>5, PatchRefIs
  <2>7. ~(B!PatchOf(b, <<r, i>>) > B!PatchOf(b, <<q, j>>))
    BY <2>3, <2>4, <2>6, GoneAreLargest
  <2>8. ~(b[r].files[i].patch > b[q].files[j].patch)
    BY <1>2, <2>1, <2>7, PatchRefIs
  <2>. QED
    BY <2>2, <2>8
<1>7. ASSUME NEW r \in DOMAIN c, NEW q \in DOMAIN c, Len(c[r].files) < Len(b[r].files)
      PROVE  FALSE
  BY <1>1, <1>2, <1>3, <1>7
<1>. QED
  BY <1>5, <1>6, <1>7 DEF CutRight, c

\* Files are dropped of a bundle that has no patch left.
LEMMA DropIsRight ==
    ASSUME B!ConstantsOK, NEW b \in Seq(EntriesOfBundle), Len(b) = Checkouts, NEW n \in Nat
    PROVE  CutRight(B!Drop(B!Shed(b, B!Cardinality(B!PatchRefs(b))), n), b)
<1>. DEFINE all == B!Cardinality(B!PatchRefs(b))
            s == B!Shed(b, all)
            c == B!Drop(s, n)
<1>1. /\ s \in Seq(EntriesOfBundle) /\ Len(s) = Checkouts
      /\ \A r \in B!RepoIndices :
           /\ s[r].status = b[r].status /\ Len(s[r].files) = Len(b[r].files)
           /\ \A i \in 1..Len(b[r].files) :
                s[r].files[i].patch = IF <<r, i>> \in Gone(b, all) THEN 0 ELSE b[r].files[i].patch
  BY ShedIs
<1>2. Gone(b, all) = B!PatchRefs(b)
  BY AllAreGone
<1>. HIDE DEF all, s
<1>3. /\ c \in Seq(EntriesOfBundle) /\ Len(c) = Checkouts
      /\ \A r \in B!RepoIndices :
           /\ c[r].status = s[r].status
           /\ Dropped(s, r, n) \in 0..Len(s[r].files)
           /\ Len(c[r].files) = Len(s[r].files) - Dropped(s, r, n)
           /\ \A i \in 1..Len(c[r].files) : c[r].files[i] = s[r].files[i]
  BY <1>1, DropIs
<1>4. \A r, q \in B!RepoIndices : q > r /\ Len(c[r].files) < Len(s[r].files) => c[q].files = <<>>
  BY <1>1, DropsTheLast
<1>. HIDE DEF c
<1>5. DOMAIN b = B!RepoIndices /\ DOMAIN c = B!RepoIndices
  BY <1>3, BundleIs DEF B!RepoIndices
<1>6. \A r \in B!RepoIndices :
        /\ Len(b[r].files) \in Nat /\ Len(c[r].files) \in Nat /\ Len(c[r].files) <= Len(b[r].files)
        /\ \A i \in 1..Len(b[r].files) : b[r].files[i].patch \in Nat
  BY <1>1, <1>3, <1>5, BundleIs, EntryIs
<1>7. \A r \in B!RepoIndices : \A i \in 1..Len(c[r].files) : c[r].files[i].patch = 0
  <2>. SUFFICES ASSUME NEW r \in B!RepoIndices, NEW i \in 1..Len(c[r].files) PROVE c[r].files[i].patch = 0
    OBVIOUS
  <2>1. i \in 1..Len(b[r].files)
    BY <1>6
  <2>2. <<r, i>> \in Gone(b, all) <=> b[r].files[i].patch > 0
    BY <1>2, <1>5, <2>1, PatchRefIs
  <2>3. s[r].files[i].patch = 0
    BY <1>1, <1>6, <2>1, <2>2
  <2>. QED
    BY <1>3, <2>3
<1>8. Within(c, b)
  <2>1. ASSUME NEW r \in B!RepoIndices, NEW i \in 1..Len(c[r].files) PROVE c[r].files[i].patch <= b[r].files[i].patch
    <3>1. i \in 1..Len(b[r].files)
      BY <1>6
    <3>2. b[r].files[i].patch \in Nat /\ c[r].files[i].patch = 0
      BY <1>6, <1>7, <3>1
    <3>. QED
      BY <3>2
  <2>. QED
    BY <1>1, <1>3, <1>5, <1>6, <2>1 DEF Within
<1>9. \A r, q \in B!RepoIndices : q > r /\ Len(c[r].files) < Len(b[r].files) => c[q].files = <<>>
  BY <1>1, <1>4
<1>10. CutRight(c, b)
  <2>1. \A r, q \in DOMAIN c : \A i \in 1..Len(c[r].files), j \in 1..Len(c[q].files) :
           (c[r].files[i].patch > 0 /\ b[q].files[j].patch > 0 /\ c[q].files[j].patch = 0)
             => b[q].files[j].patch >= b[r].files[i].patch
    <3>. SUFFICES ASSUME NEW r \in DOMAIN c, NEW i \in 1..Len(c[r].files), c[r].files[i].patch > 0 PROVE FALSE
      OBVIOUS
    <3>1. c[r].files[i].patch = 0
      BY <1>5, <1>7
    <3>. QED
      BY <3>1
  <2>2. \A r, q \in DOMAIN c : Len(c[r].files) < Len(b[r].files) =>
           /\ q > r => c[q].files = <<>>
           /\ \A j \in 1..Len(c[q].files) : c[q].files[j].patch = 0
    BY <1>5, <1>7, <1>9
  <2>. QED
    BY <1>8, <2>1, <2>2 DEF CutRight
<1>. QED
  BY <1>10 DEF c, s, all

LEMMA BoundedIsRight ==
    ASSUME B!ConstantsOK, NEW b \in Seq(EntriesOfBundle), Len(b) = Checkouts
    PROVE  CutRight(B!Bounded(b), b)
<1>1. PICK n \in Nat : /\ B!Shedding(b) = B!Shed(b, n)
                       /\ ~B!Fits(B!Shedding(b)) => n = B!Cardinality(B!PatchRefs(b))
  BY SheddingIs
<1>2. CASE B!Bounded(b) = b
  <2>1. \A r \in DOMAIN b : Len(b[r].files) \in Nat /\ \A i \in 1..Len(b[r].files) : b[r].files[i].patch \in Nat
    BY BundleIs, EntryIs
  <2>. QED
    BY <1>2, <2>1 DEF CutRight, Within
<1>3. CASE B!Bounded(b) = B!Shedding(b)
  BY <1>1, <1>3, ShedIsRight
<1>4. CASE ~B!Fits(B!Shedding(b)) /\ B!Bounded(b) = B!Dropping(B!Shedding(b))
  <2>. DEFINE s == B!Shedding(b)
              files == B!Cardinality(B!FileRefs(s))
              S == {j \in 0..files : B!Fits(B!Drop(s, j))}
              k == B!Least(S, files)
  <2>1. s = B!Shed(b, B!Cardinality(B!PatchRefs(b)))
    BY <1>1, <1>4
  <2>2. files \in Nat
    BY <1>1, ShedIs, RefsAreFinite
  <2>3. k \in Nat
    <3>1. S \in SUBSET Nat
      BY <2>2
    <3>. HIDE DEF S, files
    <3>. QED
      BY <2>2, <3>1, LeastIsNat
  <2>4. B!Dropping(s) = B!Drop(s, k)
    BY DEF B!Dropping
  <2>. HIDE DEF s, k
  <2>5. CutRight(B!Drop(s, k), b)
    BY <2>1, <2>3, DropIsRight
  <2>. QED
    BY <1>4, <2>4, <2>5 DEF s
<1>. QED
  BY <1>2, <1>3, <1>4 DEF B!Bounded

---------------------------------------------------------------------------
(* Collections: the budgets, and each step. *)

\* The files and patches in the bundle, and what is left of the session's budgets.
InBudget ==
    /\ Count(bundle) <= setup.maxFiles /\ Units(bundle) <= setup.maxCapture
    /\ B!Collecting => /\ Count(bundle) + filesLeft <= setup.maxFiles
                       /\ Units(bundle) + bytesLeft <= setup.maxCapture

\* The entry being made stays within what is left, and counts its own bytes.
EntryInBudget ==
    place \in {"stats", "patch"} =>
      /\ Len(entry.files) + Len(selected) <= filesLeft
      /\ entry.bytes <= bytesLeft
      /\ Units(Append(bundle, entry)) = Units(bundle) + entry.bytes

\* What is sent fits, and was cut where it should be.
CutToFit ==
    place = "sent" =>
      /\ B!EncodedSize(bundle) <= setup.maxBundle
      /\ unbounded \in Seq(EntriesOfBundle) /\ CutRight(bundle, unbounded)

Budgeted == InBudget /\ EntryInBudget /\ CutToFit

\* What has nothing to do with the budgets.
LEMMA BudgetKept ==
    ASSUME Budgeted, UNCHANGED <<setup, bundle, filesLeft, bytesLeft, unbounded>>,
           B!Collecting' => B!Collecting,
           place' = "sent" => place = "sent",
           place' \in {"stats", "patch"} => place \in {"stats", "patch"} /\ UNCHANGED <<entry, selected>>
    PROVE  Budgeted'
<1>1. InBudget'
  BY DEF Budgeted, InBudget
<1>2. EntryInBudget'
  BY DEF Budgeted, EntryInBudget
<1>3. CutToFit'
  BY DEF Budgeted, CutToFit
<1>. QED
  BY <1>1, <1>2, <1>3 DEF Budgeted

LEMMA BudgetBegins ==
    ASSUME B!ConstantsOK, BundleInv, Budgeted, B!ReadUnmerged PROVE Budgeted'
<1>. DEFINE all == B!AllChanges(others', {p \in B!Paths : B!P(p).unmerged})
<1>1. /\ place = "unmerged" /\ place' = "stats" /\ B!Collecting
      /\ selected' = B!Selected(all)
      /\ entry' = [status |-> "ready", files |-> <<>>, bytes |-> 0,
                   truncated |-> Len(all) - Len(B!Selected(all)) > 0, omitted |-> Len(all) - Len(B!Selected(all))]
      /\ UNCHANGED <<setup, bundle, filesLeft, bytesLeft>>
  BY DEF B!ReadUnmerged, B!Collecting, B!checkout, B!budget
<1>2. others' \in SUBSET B!Paths
  BY DEF B!ReadUnmerged, BundleInv, Collected
<1>3. all \in Seq(ChangesOfGit)
  BY <1>2, ChangesListed DEF BundleInv
<1>. HIDE DEF all
<1>4. Len(all) \in Nat /\ filesLeft \in Nat /\ bytesLeft \in Nat /\ bundle \in Seq(EntriesOfBundle)
  BY <1>3, LenProperties DEF BundleInv, Collected
<1>5. Len(B!Selected(all)) <= filesLeft
  <2>. DEFINE k == IF filesLeft < Len(all) THEN filesLeft ELSE Len(all)
  <2>1. k \in 0..Len(all) /\ k <= filesLeft
    BY <1>4
  <2>2. B!Selected(all) = SubSeq(all, 1, k)
    BY DEF B!Selected
  <2>. HIDE DEF k
  <2>3. \A i \in 1..k : all[i] \in ChangesOfGit
    BY <1>3, <1>4, <2>1
  <2>4. Len(SubSeq(all, 1, k)) = k
    BY <1>4, <2>1, <2>3, SubSeqProperties
  <2>. QED
    BY <2>1, <2>2, <2>4
<1>6. entry'.files = <<>> /\ entry'.bytes = 0 /\ entry' \in EntriesOfBundle
  <2>1. BundleInv'
    BY ReadUnmergedStep
  <2>. QED
    BY <1>1, <2>1 DEF BundleInv, Collected
<1>7. Units(Append(bundle, entry')) = Units(bundle) /\ Units(bundle) \in Nat
  BY <1>4, <1>6, NoFilesCount, CountedInNat
<1>8. EntryInBudget'
  <2>1. Len(entry'.files) = 0
    BY <1>6
  <2>2. Len(selected') <= filesLeft /\ Len(selected') \in Nat
    <3>1. BundleInv'
      BY ReadUnmergedStep
    <3>2. Len(selected') \in Nat
      BY <3>1, LenProperties DEF BundleInv, Collected
    <3>. QED
      BY <1>1, <1>5, <3>2
  <2>3. /\ Len(entry'.files) + Len(selected') <= filesLeft'
        /\ entry'.bytes <= bytesLeft'
        /\ Units(Append(bundle', entry')) = Units(bundle') + entry'.bytes
    BY <1>1, <1>4, <1>6, <1>7, <2>1, <2>2
  <2>. QED
    BY <2>3 DEF EntryInBudget
<1>9. InBudget' /\ CutToFit'
  BY <1>1 DEF Budgeted, InBudget, CutToFit
<1>. QED
  BY <1>8, <1>9 DEF Budgeted

LEMMA BudgetOfFile ==
    ASSUME B!ConstantsOK, BundleInv, Budgeted, B!CaptureFile PROVE Budgeted'
<1>1. /\ place = "patch" /\ place' = "stats" /\ B!Collecting /\ selected' = Tail(selected)
      /\ UNCHANGED <<setup, bundle, filesLeft, bytesLeft>>
  BY DEF B!CaptureFile, B!Collecting, B!checkout, B!budget
<1>2. PICK file \in Files :
        /\ file.patch = 0 \/ ~(file.patch > bytesLeft - entry.bytes)
        /\ entry' = [entry EXCEPT !.files = Append(@, file), !.bytes = @ + file.patch]
  BY FileCaptured
<1>3. entry \in EntriesOfBundle /\ bundle \in Seq(EntriesOfBundle) /\ bytesLeft \in Nat /\ filesLeft \in Nat
  BY DEF BundleInv, Collected
<1>4. entry' \in EntriesOfBundle
  <2>1. BundleInv'
    BY CaptureFileStep
  <2>. QED
    BY <2>1 DEF BundleInv, Collected
<1>5. file.patch \in Nat /\ entry.bytes \in Nat /\ entry.files \in Seq(Files) /\ Len(entry.files) \in Nat
  BY <1>3, EntryIs DEF Files, EntriesOfBundle
<1>6. entry'.files = Append(entry.files, file) /\ entry'.bytes = entry.bytes + file.patch
  BY <1>2, <1>3 DEF EntriesOfBundle
<1>7. /\ Len(entry.files) + Len(selected) <= filesLeft
      /\ entry.bytes <= bytesLeft
      /\ Units(Append(bundle, entry)) = Units(bundle) + entry.bytes
  BY <1>1 DEF Budgeted, EntryInBudget
<1>8. Len(entry'.files) + Len(selected') <= filesLeft
  <2>1. selected \in Seq(ChangesOfGit) /\ selected # <<>>
    BY <1>1 DEF BundleInv, Collected, Capturing
  <2>2. Len(selected') = Len(selected) - 1 /\ Len(selected) \in Nat
    BY <1>1, <2>1, HeadTailProperties, LenProperties
  <2>3. Len(entry'.files) = Len(entry.files) + 1
    BY <1>5, <1>6, AppendProperties
  <2>. QED
    BY <1>5, <1>7, <2>2, <2>3
<1>9. entry'.bytes <= bytesLeft
  BY <1>2, <1>3, <1>5, <1>6, <1>7
<1>10. Units(Append(bundle, entry')) = Units(bundle) + entry'.bytes
  <2>1. Units(Append(bundle, entry')) = Units(Append(bundle, entry)) + file.patch
    BY <1>3, <1>4, <1>6, FileCounts
  <2>2. Units(bundle) \in Nat
    BY <1>3, CountedInNat
  <2>. QED
    BY <1>5, <1>6, <1>7, <2>1, <2>2
<1>11. EntryInBudget'
  BY <1>1, <1>8, <1>9, <1>10 DEF EntryInBudget
<1>12. InBudget' /\ CutToFit'
  BY <1>1 DEF Budgeted, InBudget, CutToFit
<1>. QED
  BY <1>11, <1>12 DEF Budgeted

\* What is taken of a budget is off what is left.
LEMMA TakenOff ==
    ASSUME NEW limit \in Nat, NEW have \in Nat, NEW left \in Nat, NEW n \in Nat,
           have + left <= limit, n <= left
    PROVE  have + n <= limit /\ (have + n) + B!Minus(left, n) <= limit
<1>1. B!Minus(left, n) = left - n
  BY DEF B!Minus
<1>. QED
  BY <1>1

LEMMA BudgetOfRepository ==
    ASSUME B!ConstantsOK, BundleInv, Budgeted, B!FinishRepository PROVE Budgeted'
<1>1. /\ place = "stats" /\ B!Collecting /\ selected = <<>>
      /\ bundle' = Append(bundle, entry) /\ place' = B!NextPc
      /\ filesLeft' = B!Minus(filesLeft, Len(entry.files)) /\ bytesLeft' = B!Minus(bytesLeft, entry.bytes)
      /\ setup' = setup
  BY DEF B!FinishRepository, B!Collecting, B!Deduct, B!checkout
<1>2. place' \in {"raw", "bound"}
  BY <1>1 DEF B!NextPc
<1>3. entry \in EntriesOfBundle /\ bundle \in Seq(EntriesOfBundle) /\ bytesLeft \in Nat /\ filesLeft \in Nat
  BY DEF BundleInv, Collected
<1>4. entry.bytes \in Nat /\ Len(entry.files) \in Nat /\ Count(bundle) \in Nat /\ Units(bundle) \in Nat
  BY <1>3, EntryIs, CountedInNat DEF EntriesOfBundle
<1>5. /\ Len(entry.files) <= filesLeft /\ entry.bytes <= bytesLeft
      /\ Units(bundle') = Units(bundle) + entry.bytes
      /\ Count(bundle) + filesLeft <= setup.maxFiles /\ Units(bundle) + bytesLeft <= setup.maxCapture
  <2>1. Len(selected) = 0
    BY <1>1
  <2>. QED
    BY <1>1, <1>4, <2>1 DEF Budgeted, InBudget, EntryInBudget
<1>6. Count(bundle') = Count(bundle) + Len(entry.files)
  BY <1>1, <1>3, EntryCounts
<1>7. setup.maxFiles \in Nat /\ setup.maxCapture \in Nat
  BY DEF BundleInv, Collected, B!ConstantsOK
<1>8. Count(bundle') <= setup.maxFiles /\ Count(bundle') + filesLeft' <= setup.maxFiles
  <2>1. /\ Count(bundle) + Len(entry.files) <= setup.maxFiles
        /\ (Count(bundle) + Len(entry.files)) + B!Minus(filesLeft, Len(entry.files)) <= setup.maxFiles
    BY <1>3, <1>4, <1>5, <1>7, TakenOff
  <2>. QED
    BY <1>1, <1>6, <2>1
<1>9. Units(bundle') <= setup.maxCapture /\ Units(bundle') + bytesLeft' <= setup.maxCapture
  <2>1. /\ Units(bundle) + entry.bytes <= setup.maxCapture
        /\ (Units(bundle) + entry.bytes) + B!Minus(bytesLeft, entry.bytes) <= setup.maxCapture
    BY <1>3, <1>4, <1>5, <1>7, TakenOff
  <2>. QED
    BY <1>1, <1>5, <2>1
<1>10. InBudget'
  BY <1>1, <1>8, <1>9 DEF InBudget
<1>11. EntryInBudget' /\ CutToFit'
  BY <1>2 DEF EntryInBudget, CutToFit
<1>. QED
  BY <1>10, <1>11 DEF Budgeted

LEMMA BudgetOfFailure ==
    ASSUME B!ConstantsOK, BundleInv, Budgeted, B!CommandFails PROVE Budgeted'
<1>1. /\ B!Collecting
      /\ UNCHANGED <<setup, filesLeft, bytesLeft>>
  BY DEF B!CommandFails, B!InCommand, B!Collecting, B!checkout, B!budget
<1>2. CASE place' = "failed" /\ UNCHANGED bundle
  BY <1>1, <1>2 DEF Budgeted, InBudget, EntryInBudget, CutToFit, B!Collecting
<1>3. CASE place' = B!NextPc /\ bundle' = Append(bundle, B!Unavailable)
  <2>1. B!Unavailable \in EntriesOfBundle /\ B!Unavailable.files = <<>>
    BY DEF B!Unavailable, EntriesOfBundle
  <2>2. bundle \in Seq(EntriesOfBundle)
    BY DEF BundleInv, Collected
  <2>3. Count(bundle') = Count(bundle) /\ Units(bundle') = Units(bundle)
    BY <1>3, <2>1, <2>2, NoFilesCount
  <2>4. place' \in {"raw", "bound"}
    BY <1>3 DEF B!NextPc
  <2>. QED
    BY <1>1, <2>3, <2>4 DEF Budgeted, InBudget, EntryInBudget, CutToFit
<1>. QED
  BY <1>2, <1>3 DEF B!CommandFails

LEMMA BudgetOfBundle ==
    ASSUME B!ConstantsOK, BundleInv, Budgeted, B!Bound PROVE Budgeted'
<1>1. /\ place = "bound" /\ bundle' = B!Bounded(bundle) /\ unbounded' = bundle /\ setup' = setup
      /\ place' = IF B!EncodedSize(bundle') <= setup.maxBundle THEN "sent" ELSE "failed"
  BY DEF B!Bound, B!Fits, B!MaxBundle, B!checkout
<1>2. bundle \in Seq(EntriesOfBundle) /\ Len(bundle) = Checkouts
  BY <1>1 DEF BundleInv, Collected, InTurn
<1>3. CutRight(bundle', bundle)
  BY <1>1, <1>2, BoundedIsRight
<1>4. bundle' \in Seq(EntriesOfBundle) /\ Count(bundle') <= Count(bundle) /\ Units(bundle') <= Units(bundle)
  BY <1>2, <1>3, WithinCounts DEF CutRight, Within
<1>5. setup.maxFiles \in Nat /\ setup.maxCapture \in Nat
  BY DEF BundleInv, Collected, B!ConstantsOK
<1>6. Count(bundle') <= setup.maxFiles /\ Units(bundle') <= setup.maxCapture
  BY <1>2, <1>4, <1>5, CountedInNat DEF Budgeted, InBudget
<1>7. InBudget' /\ EntryInBudget'
  BY <1>1, <1>6 DEF InBudget, EntryInBudget, B!Collecting
<1>8. CutToFit'
  BY <1>1, <1>2, <1>3 DEF CutToFit
<1>. QED
  BY <1>7, <1>8 DEF Budgeted

---------------------------------------------------------------------------
(* Collections: the ceilings hold. *)

LEMMA BudgetInit == ASSUME B!ConstantsOK, B!Init PROVE Budgeted
<1>1. /\ setup \in Sessions /\ place = "raw" /\ bundle = <<>> /\ filesLeft = setup.maxFiles /\ bytesLeft = setup.maxCapture
  BY DEF B!Init, B!MaxFiles, B!MaxCapture
<1>2. setup.maxFiles \in Nat /\ setup.maxCapture \in Nat
  BY <1>1 DEF B!ConstantsOK
<1>3. B!FileRefs(bundle) = {} /\ B!PatchUnits(bundle) = {}
  BY <1>1, RefIs, UnitIs
<1>4. Count(bundle) = 0 /\ Units(bundle) = 0
  BY <1>3, FS_EmptySet DEF Count, Units
<1>. QED
  BY <1>1, <1>2, <1>4 DEF Budgeted, InBudget, EntryInBudget, CutToFit

LEMMA BudgetNext == ASSUME B!ConstantsOK, BundleInv, Budgeted, [B!Next]_(B!vars) PROVE Budgeted'
<1>1. CASE UNCHANGED B!vars
  BY <1>1, BudgetKept DEF B!vars, B!checkout, B!reads, B!budget, B!history, B!Collecting
<1>2. CASE B!ReadRaw
  BY <1>2, BudgetKept DEF B!ReadRaw, B!checkout, B!budget, B!history, B!Collecting
<1>3. CASE B!ReadOthers
  BY <1>3, BudgetKept DEF B!ReadOthers, B!checkout, B!budget, B!history, B!Collecting
<1>4. CASE B!ReadNumstat
  BY <1>4, BudgetKept DEF B!ReadNumstat, B!checkout, B!budget, B!history, B!Collecting
<1>5. CASE B!ChangeLineStats
  BY <1>5, BudgetKept DEF B!ChangeLineStats, B!checkout, B!budget, B!history, B!Collecting
<1>6. CASE B!NoBaseline
  BY <1>6, BudgetKept DEF B!NoBaseline, B!checkout, B!budget, B!history, B!Collecting
<1>7. CASE B!Cancel
  BY <1>7, BudgetKept DEF B!Cancel, B!checkout, B!reads, B!budget, B!history, B!Collecting
<1>8. CASE \E r \in B!RepoIndices, p \in B!Paths : B!Edit(r, p)
  BY <1>8, BudgetKept DEF B!Edit, B!reads, B!budget, B!history, B!Collecting
<1>. QED
  BY <1>1, <1>2, <1>3, <1>4, <1>5, <1>6, <1>7, <1>8, BudgetBegins, BudgetOfFile, BudgetOfRepository,
     BudgetOfFailure, BudgetOfBundle DEF B!Next

LEMMA BudgetImplies == ASSUME BundleInv, Budgeted PROVE B!BundleIsBounded
<1>1. B!WithinLimits
  BY CountedAlike DEF B!WithinLimits, B!Fits, B!MaxFiles, B!MaxCapture, B!MaxBundle, Budgeted, InBudget, CutToFit,
                      Count, Units
<1>2. B!LargestShedFirst
  <2>. SUFFICES ASSUME place = "sent"
                PROVE  /\ \A r, q \in B!Ready : \A i \in DOMAIN bundle[r].files, j \in DOMAIN bundle[q].files :
                            (bundle[r].files[i].patch > 0 /\ unbounded[q].files[j].patch > 0 /\ bundle[q].files[j].patch = 0)
                              => unbounded[q].files[j].patch >= unbounded[r].files[i].patch
                       /\ \A r, q \in B!Ready : Len(bundle[r].files) < Len(unbounded[r].files) =>
                            /\ q > r => bundle[q].files = <<>>
                            /\ \A j \in DOMAIN bundle[q].files : bundle[q].files[j].patch = 0
    BY DEF B!LargestShedFirst, B!FilesOf
  <2>1. CutRight(bundle, unbounded)
    BY DEF Budgeted, CutToFit
  <2>2. \A r \in B!Ready : r \in DOMAIN bundle /\ DOMAIN bundle[r].files = 1..Len(bundle[r].files)
    BY BundleIs DEF B!Ready, BundleInv, Collected
  <2>. QED
    BY <2>1, <2>2 DEF CutRight
<1>. QED
  BY <1>1, <1>2 DEF B!BundleIsBounded

\* The ceilings hold for the whole session (collector.go:82-83, 116-117,
\* bundle.go:28-34), however many repositories fail or are cut; the patches shed are
\* the largest, and files are dropped only once no patch is left, from the last
\* repository first (bundle.go:153, 188-189).
THEOREM BundlesAreBounded == B!ConstantsOK => (B!Spec => []BundleIsBounded)
<1>. SUFFICES ASSUME B!ConstantsOK PROVE B!Spec => []BundleIsBounded
  OBVIOUS
<1>1. B!Init => Budgeted
  BY BudgetInit
<1>2. BundleInv /\ Budgeted /\ [B!Next]_(B!vars) => Budgeted'
  BY BudgetNext
<1>3. BundleInv /\ Budgeted => BundleIsBounded
  BY BudgetImplies DEF BundleIsBounded
<1>. QED
  BY <1>1, <1>2, <1>3, BundleAlways, PTL DEF B!Spec
=============================================================================
