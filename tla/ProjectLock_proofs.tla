------------------------- MODULE ProjectLock_proofs -------------------------
(***************************************************************************)
(* Proofs about ProjectLock, for any sessions and windows and any number   *)
(* of crashes.                                                             *)
(*                                                                         *)
(* Sound holds whatever the windows do (Faults): RAVIS's lock file has its *)
(* row, and, but for a transfer given back to its own session, a window's  *)
(* file stands.  Lawful adds that a lease is its row's, unless a window    *)
(* registers a run that is being taken over.                               *)
(*                                                                         *)
(* Of windows that keep to their side of the protocol (Faults = {}; each   *)
(* fault breaks it) OneWriter follows: the two layers agree while a turn   *)
(* runs, and a window writes only while the file names it.  That they      *)
(* agree is not inductive: the parts of IInv say what RAVIS's table, the   *)
(* file and what the windows believe tell of one another otherwise.        *)
(***************************************************************************)
EXTENDS ProjectLock, TLAPS

LEMMA Disjoint ==
    /\ None \notin Sessions /\ None \notin Windows
    /\ \A s \in Sessions : s \notin Windows
  <1>1. None \notin Sessions /\ None \notin Windows
    BY LockAssumption DEF None
  <1>2. ASSUME NEW s \in Sessions, s \in Windows PROVE FALSE
    BY <1>2, LockAssumption
  <1> QED  BY <1>1, <1>2

LEMMA Records == /\ NoRow \in RowRecords
                 /\ \A s \in Sessions : SessionRow(s) \in RowRecords
                 /\ \A w \in Windows : RunRow(w) \in RowRecords
                 /\ NoFile \in FileRecords
                 /\ \A x \in Sessions \cup Windows : [by |-> x, old |-> FALSE] \in FileRecords
                 /\ NobodyTakes \in [by : Windows \cup {None}, live : BOOLEAN]
  BY DEF NoRow, SessionRow, RunRow, Row, RowRecords, RowStates, NoFile, FileRecords, NobodyTakes

-----------------------------------------------------------------------------
(* What no fault disturbs.                                                *)

\* The types but for whose a lease is; a lock that is free names nobody, one that is superseded
\* had a session.
Shapes == /\ row \in RowRecords /\ file \in FileRecords
          /\ session \in [Sessions -> SessionStates] /\ at \in [Windows -> WindowStates]
          /\ noted \subseteq Windows
          /\ taking \in [by : Windows \cup {None}, live : BOOLEAN]
          /\ up \in BOOLEAN /\ crashes \in 0 .. MaxCrashes
          /\ Free => row.session = None /\ row.window = None /\ row.lease = None /\ row.token = None
          /\ row.state = "superseded" => row.session # None

\* RAVIS's file has its row; an old one is of a RAVIS that is gone.
OldFiles == /\ file.old => file.by \in Sessions
            /\ ~up /\ file.by \in Sessions => file.old
            /\ FileHasRow

\* A takeover that is answered later is by a window that waits for it, or died waiting; its row may
\* have become a session's meanwhile, which was then taken from nobody.  While the new holder has
\* not replaced the file yet, no lease but its own and no token come into being.
Takeovers ==
    /\ taking.by # None => at[taking.by] \in {"taking", "dead"}
    /\ taking.live => taking.by # None /\ (row.session = None \/ row.window = None)
    /\ row.session # None => row.from = None
    /\ \A w \in Windows : at[w] = "won" /\ row.window = w /\ row.from # None =>
                             row.lease \in {None, w} /\ row.token = None

\* A window that hands over, or that presents the token it was given, has the file; so has one that
\* holds the lease of a row that is a session's.  One that is handed to has no row before, and was
\* not taken over.
Keepers == \A w \in Windows :
    /\ row.token = w /\ at[w] \in {"stopping", "handing", "destmade"} => file.by = w
    /\ row.lease = w /\ at[w] \in {"in", "stopping", "handing"} /\ row.session # None =>
         file.by = w
    /\ at[w] \in {"switching", "dropped", "destmade"} =>
         row.from # w /\ (row.session = None => row.window # w)

Sound == Shapes /\ OldFiles /\ Takeovers /\ Keepers

\* A turn takes the lock, has it, or takes its own transfer back.
LEMMA TakeForTurnSound ==
    ASSUME Sound, up, NEW s \in Sessions, TakeForTurn(s), UNCHANGED <<at, taking, up, crashes>>,
           session' \in [Sessions -> SessionStates]
    PROVE  Sound'
  <1>1. CASE Acquire(s)
    <2>1. /\ row' = SessionRow(s) /\ file' = [by |-> s, old |-> FALSE] /\ noted' = {}
          /\ Free /\ ~(file.by \in Windows)
      BY <1>1, Disjoint DEF Acquire, Names, Stale, Sound, OldFiles
    <2>2. /\ row'.session = s /\ row'.window = None /\ row'.lease = None /\ row'.token = None
          /\ row'.from = None /\ row'.state = "running" /\ file'.by = s /\ file'.old = FALSE
      BY <2>1 DEF SessionRow, Row
    <2>3. row' \in RowRecords /\ file' \in FileRecords
      BY <2>1, Records
    <2>4. Shapes'
      BY <2>1, <2>2, <2>3 DEF Sound, Shapes, Free
    <2>5. OldFiles'
      BY <2>2 DEF OldFiles, FileHasRow
    <2>6. Takeovers'
      BY <2>2, Disjoint DEF Sound, Shapes, Takeovers
    <2>7. Keepers'
      BY <2>1, <2>2, Disjoint DEF Sound, Shapes, Keepers
    <2> QED  BY <2>4, <2>5, <2>6, <2>7 DEF Sound
  <1>2. CASE UNCHANGED <<row, file, noted>>
    BY <1>2 DEF Sound, Shapes, OldFiles, FileHasRow, Takeovers, Keepers, Free
  <1>3. CASE /\ row.session = s
             /\ row' = [row EXCEPT !.state = "running", !.token = None]
             /\ noted' = {}
             /\ UNCHANGED file
    <2>1. /\ row'.session = s /\ row'.window = row.window /\ row'.lease = row.lease
          /\ row'.from = row.from /\ row'.token = None /\ row'.state = "running"
          /\ row' \in RowRecords
      BY <1>3 DEF Sound, Shapes, RowRecords, RowStates
    <2>2. Shapes'
      BY <1>3, <2>1 DEF Sound, Shapes, Free
    <2>3. OldFiles'
      BY <1>3, <2>1 DEF Sound, OldFiles, FileHasRow
    <2>4. Takeovers'
      BY <1>3, <2>1 DEF Sound, Takeovers
    <2>5. Keepers'
      BY <1>3, <2>1, Disjoint DEF Sound, Keepers
    <2> QED  BY <2>2, <2>3, <2>4, <2>5 DEF Sound
  <1> QED  BY <1>1, <1>2, <1>3 DEF TakeForTurn

LEMMA TurnSound == ASSUME Sound, NEW s \in Sessions, Turn(s) PROVE Sound'
  <1>1. session' \in [Sessions -> SessionStates]
    BY DEF Sound, Shapes, SessionStates, Turn, Becomes
  <1> QED  BY <1>1, TakeForTurnSound DEF Turn

LEMMA SteerSound == ASSUME Sound, NEW s \in Sessions, Steer(s) PROVE Sound'
  BY TakeForTurnSound DEF Sound, Shapes, Steer

LEMMA CreateSound == ASSUME Sound, NEW s \in Sessions, Create(s) PROVE Sound'
  <1>1. Shapes'
    <2>1. row' \in RowRecords
      BY DEF RowRecords, RowStates, Create, Acquire, SessionRow, Row
    <2>2. /\ Free' => /\ row'.session = None /\ row'.window = None
                      /\ row'.lease = None /\ row'.token = None
          /\ row'.state = "superseded" => row'.session # None
      BY DEF Free, Create, Acquire, SessionRow, Row
    <2>3. file' \in FileRecords /\ noted' \subseteq Windows
      BY DEF FileRecords, Create, Acquire, Names
    <2>4. session' \in [Sessions -> SessionStates] /\ at' \in [Windows -> WindowStates]
      BY DEF Sound, Shapes, SessionStates, Create, Becomes
    <2>5. /\ taking' \in [by : Windows \cup {None}, live : BOOLEAN]
          /\ up' \in BOOLEAN /\ crashes' \in 0 .. MaxCrashes
      BY DEF Sound, Shapes, Create
    <2> QED  BY <2>1, <2>2, <2>3, <2>4, <2>5 DEF Shapes
  <1>2. OldFiles'
    BY DEF OldFiles, FileHasRow, Create, Acquire, Names, SessionRow, Row
  <1>3. Takeovers'
    BY DEF Sound, Takeovers, Create, Acquire, SessionRow, Row
  <1>4. Keepers'
    BY Disjoint DEF Sound, Keepers, OldFiles, Create, Acquire, Stale, SessionRow, Row
  <1> QED  BY <1>1, <1>2, <1>3, <1>4 DEF Sound

LEMMA OpenFailsSound == ASSUME Sound, NEW s \in Sessions, OpenFails(s) PROVE Sound'
  <1>1. Shapes'
    <2>1. row' \in RowRecords
      BY DEF Sound, Shapes, RowRecords, RowStates, OpenFails, Release, NoRow, Row
    <2>2. /\ Free' => /\ row'.session = None /\ row'.window = None
                      /\ row'.lease = None /\ row'.token = None
          /\ row'.state = "superseded" => row'.session # None
      BY DEF Sound, Shapes, Free, OpenFails, Release, NoRow, Row
    <2>3. file' \in FileRecords /\ noted' \subseteq Windows
      BY Records DEF Sound, Shapes, OpenFails, Release, NamesNobody
    <2>4. session' \in [Sessions -> SessionStates] /\ at' \in [Windows -> WindowStates]
      BY DEF Sound, Shapes, SessionStates, OpenFails, Becomes
    <2>5. /\ taking' \in [by : Windows \cup {None}, live : BOOLEAN]
          /\ up' \in BOOLEAN /\ crashes' \in 0 .. MaxCrashes
      BY DEF Sound, Shapes, OpenFails
    <2> QED  BY <2>1, <2>2, <2>3, <2>4, <2>5 DEF Shapes
  <1>2. OldFiles'
    BY DEF Sound, OldFiles, FileHasRow, OpenFails, Release, NoRow, Row, NamesNobody, NoFile
  <1>3. Takeovers'
    BY DEF Sound, Takeovers, OpenFails, Release, NoRow, Row
  <1>4. Keepers'
    BY Disjoint DEF Sound, Keepers, OpenFails, Release, NoRow, Row
  <1> QED  BY <1>1, <1>2, <1>3, <1>4 DEF Sound

LEMMA TurnEndsSound == ASSUME Sound, NEW s \in Sessions, TurnEnds(s) PROVE Sound'
  <1>1. Shapes'
    BY DEF Sound, Shapes, SessionStates, Free, TurnEnds, Becomes
  <1>2. OldFiles'
    BY DEF Sound, OldFiles, FileHasRow, TurnEnds
  <1>3. Takeovers'
    BY DEF Sound, Takeovers, TurnEnds
  <1>4. Keepers'
    BY DEF Sound, Keepers, TurnEnds
  <1> QED  BY <1>1, <1>2, <1>3, <1>4 DEF Sound

LEMMA SettleSound == ASSUME Sound, NEW s \in Sessions, Settle(s) PROVE Sound'
  <1>1. Shapes'
    <2>1. row' \in RowRecords
      BY DEF Sound, Shapes, RowRecords, RowStates, Settle, Release, NoRow, Row
    <2>2. /\ Free' => /\ row'.session = None /\ row'.window = None
                      /\ row'.lease = None /\ row'.token = None
          /\ row'.state = "superseded" => row'.session # None
      BY DEF Sound, Shapes, Free, Settle, Release, NoRow, Row
    <2>3. file' \in FileRecords /\ noted' \subseteq Windows
      BY Records DEF Sound, Shapes, Settle, Release, NamesNobody
    <2>4. session' \in [Sessions -> SessionStates] /\ at' \in [Windows -> WindowStates]
      BY DEF Sound, Shapes, SessionStates, Settle, Becomes
    <2>5. /\ taking' \in [by : Windows \cup {None}, live : BOOLEAN]
          /\ up' \in BOOLEAN /\ crashes' \in 0 .. MaxCrashes
      BY DEF Sound, Shapes, Settle
    <2> QED  BY <2>1, <2>2, <2>3, <2>4, <2>5 DEF Shapes
  <1>2. OldFiles'
    BY DEF Sound, OldFiles, FileHasRow, Settle, Release, NoRow, Row, NamesNobody, NoFile
  <1>3. Takeovers'
    BY DEF Sound, Takeovers, Settle, Release, NoRow, Row
  <1>4. Keepers'
    BY Disjoint DEF Sound, Keepers, Settle, Release, NoRow, Row
  <1> QED  BY <1>1, <1>2, <1>3, <1>4 DEF Sound

LEMMA DeleteSound == ASSUME Sound, NEW s \in Sessions, Delete(s) PROVE Sound'
  <1>1. Shapes'
    <2>1. row' \in RowRecords
      BY DEF Sound, Shapes, RowRecords, RowStates, Delete, Release, NoRow, Row
    <2>2. /\ Free' => /\ row'.session = None /\ row'.window = None
                      /\ row'.lease = None /\ row'.token = None
          /\ row'.state = "superseded" => row'.session # None
      BY DEF Sound, Shapes, Free, Delete, Release, NoRow, Row
    <2>3. file' \in FileRecords /\ noted' \subseteq Windows
      BY Records DEF Sound, Shapes, Delete, Release, NamesNobody
    <2>4. session' \in [Sessions -> SessionStates] /\ at' \in [Windows -> WindowStates]
      BY DEF Sound, Shapes, SessionStates, Delete, Becomes
    <2>5. /\ taking' \in [by : Windows \cup {None}, live : BOOLEAN]
          /\ up' \in BOOLEAN /\ crashes' \in 0 .. MaxCrashes
      BY DEF Sound, Shapes, Delete
    <2> QED  BY <2>1, <2>2, <2>3, <2>4, <2>5 DEF Shapes
  <1>2. OldFiles'
    BY DEF Sound, OldFiles, FileHasRow, Delete, Release, NoRow, Row, NamesNobody, NoFile
  <1>3. Takeovers'
    BY DEF Sound, Takeovers, Delete, Release, NoRow, Row
  <1>4. Keepers'
    BY Disjoint DEF Sound, Keepers, Delete, Release, NoRow, Row
  <1> QED  BY <1>1, <1>2, <1>3, <1>4 DEF Sound

LEMMA CrashHalfwaySound == ASSUME Sound, NEW s \in Sessions, CrashHalfway(s) PROVE Sound'
  <1>1. Shapes'
    <2>1. row' \in RowRecords
      BY DEF RowRecords, RowStates, CrashHalfway, NoRow, Row, SessionRow
    <2>2. /\ Free' => /\ row'.session = None /\ row'.window = None
                      /\ row'.lease = None /\ row'.token = None
          /\ row'.state = "superseded" => row'.session # None
      BY DEF Free, CrashHalfway, NoRow, Row, SessionRow
    <2>3. file' \in FileRecords /\ noted' \subseteq Windows
      BY DEF FileRecords, CrashHalfway
    <2>4. session' \in [Sessions -> SessionStates] /\ at' \in [Windows -> WindowStates]
      BY DEF Sound, Shapes, SessionStates, CrashHalfway, Down
    <2>5. taking' \in [by : Windows \cup {None}, live : BOOLEAN]
      BY Records DEF CrashHalfway, Down
    <2>6. /\ crashes \in 0 .. MaxCrashes /\ crashes < MaxCrashes
          /\ crashes' = crashes + 1 /\ up' = FALSE
      BY DEF Sound, Shapes, CrashHalfway, Down
    <2>7. crashes' \in 0 .. MaxCrashes
      <3>1. MaxCrashes \in Nat
        BY LockAssumption
      <3> QED  BY <2>6, <3>1
    <2>8. up' \in BOOLEAN
      BY <2>6
    <2> QED  BY <2>1, <2>2, <2>3, <2>4, <2>5, <2>7, <2>8 DEF Shapes
  <1>2. OldFiles'
    BY DEF OldFiles, FileHasRow, CrashHalfway, Down
  <1>3. Takeovers'
    BY DEF Takeovers, CrashHalfway, Down, NobodyTakes, NoRow, Row, SessionRow
  <1>4. Keepers'
    BY Disjoint DEF Sound, Keepers, OldFiles, CrashHalfway, Stale, NoRow, Row, SessionRow
  <1> QED  BY <1>1, <1>2, <1>3, <1>4 DEF Sound

LEMMA TokenTurnSound ==
    ASSUME Sound, NEW w \in Windows, NEW s \in Sessions, TokenTurn(w, s)
    PROVE  Sound'
  <1>1. Shapes'
    <2>1. row' \in RowRecords
      BY DEF RowRecords, RowStates, TokenTurn, TakeWithToken, SessionRow, Row
    <2>2. /\ Free' => /\ row'.session = None /\ row'.window = None
                      /\ row'.lease = None /\ row'.token = None
          /\ row'.state = "superseded" => row'.session # None
      BY DEF Free, TokenTurn, TakeWithToken, SessionRow, Row
    <2>3. file' \in FileRecords /\ noted' \subseteq Windows
      BY Records DEF Sound, Shapes, TokenTurn, TakeWithToken, Names
    <2>4. session' \in [Sessions -> SessionStates] /\ at' \in [Windows -> WindowStates]
      BY DEF Sound, Shapes, SessionStates, WindowStates, TokenTurn, Becomes, Goes
    <2>5. /\ taking' \in [by : Windows \cup {None}, live : BOOLEAN]
          /\ up' \in BOOLEAN /\ crashes' \in 0 .. MaxCrashes
      BY DEF Sound, Shapes, TokenTurn
    <2> QED  BY <2>1, <2>2, <2>3, <2>4, <2>5 DEF Shapes
  <1>2. OldFiles'
    BY DEF Sound, OldFiles, FileHasRow, TokenTurn, TakeWithToken, SessionRow, Row, Names
  <1>3. Takeovers'
    BY DEF Sound, Takeovers, TokenTurn, TakeWithToken, SessionRow, Row, Goes
  <1>4. Keepers'
    BY Disjoint DEF Sound, Keepers, TokenTurn, TakeWithToken, SessionRow, Row, Goes
  <1> QED  BY <1>1, <1>2, <1>3, <1>4 DEF Sound

LEMMA MakeFileSound == ASSUME Sound, NEW w \in Windows, MakeFile(w) PROVE Sound'
  <1>1. Shapes'
    <2>1. row' \in RowRecords
      BY DEF Sound, Shapes, MakeFile
    <2>2. /\ Free' => /\ row'.session = None /\ row'.window = None
                      /\ row'.lease = None /\ row'.token = None
          /\ row'.state = "superseded" => row'.session # None
      BY DEF Sound, Shapes, Free, MakeFile
    <2>3. file' \in FileRecords /\ noted' \subseteq Windows
      BY DEF FileRecords, MakeFile, Names
    <2>4. session' \in [Sessions -> SessionStates] /\ at' \in [Windows -> WindowStates]
      BY DEF Sound, Shapes, WindowStates, MakeFile, Goes
    <2>5. /\ taking' \in [by : Windows \cup {None}, live : BOOLEAN]
          /\ up' \in BOOLEAN /\ crashes' \in 0 .. MaxCrashes
      BY DEF Sound, Shapes, MakeFile
    <2> QED  BY <2>1, <2>2, <2>3, <2>4, <2>5 DEF Shapes
  <1>2. OldFiles'
    BY Disjoint DEF OldFiles, FileHasRow, MakeFile, Names
  <1>3. Takeovers'
    BY DEF Sound, Takeovers, MakeFile, Goes
  <1>4. Keepers'
    BY Disjoint DEF Sound, Keepers, MakeFile, Goes
  <1> QED  BY <1>1, <1>2, <1>3, <1>4 DEF Sound

LEMMA ReconcileSound == ASSUME Sound, NEW w \in Windows, Reconcile(w) PROVE Sound'
  <1>1. Shapes'
    <2>1. row' \in RowRecords
      BY DEF Sound, Shapes, Reconcile
    <2>2. /\ Free' => /\ row'.session = None /\ row'.window = None
                      /\ row'.lease = None /\ row'.token = None
          /\ row'.state = "superseded" => row'.session # None
      BY DEF Sound, Shapes, Free, Reconcile
    <2>3. file' \in FileRecords /\ noted' \subseteq Windows
      BY DEF FileRecords, Reconcile, Names
    <2>4. session' \in [Sessions -> SessionStates] /\ at' \in [Windows -> WindowStates]
      BY DEF Sound, Shapes, WindowStates, Reconcile, Goes
    <2>5. /\ taking' \in [by : Windows \cup {None}, live : BOOLEAN]
          /\ up' \in BOOLEAN /\ crashes' \in 0 .. MaxCrashes
      BY DEF Sound, Shapes, Reconcile
    <2> QED  BY <2>1, <2>2, <2>3, <2>4, <2>5 DEF Shapes
  <1>2. OldFiles'
    BY Disjoint DEF OldFiles, FileHasRow, Reconcile, Names
  <1>3. Takeovers'
    BY DEF Sound, Takeovers, Reconcile, Goes
  <1>4. Keepers'
    BY Disjoint DEF Sound, Keepers, OldFiles, Reconcile, Stale, Goes
  <1> QED  BY <1>1, <1>2, <1>3, <1>4 DEF Sound

LEMMA PostSound == ASSUME Sound, NEW w \in Windows, Post(w) PROVE Sound'
  <1>1. Shapes'
    BY DEF Sound, Shapes, RowRecords, RowStates, WindowStates, Free, Post, Register, MayRegister,
           Adoptable, RunRow, Row, Goes
  <1>2. OldFiles'
    BY Disjoint DEF Sound, OldFiles, FileHasRow, Post, Register, MayRegister
  <1>3. Takeovers'
    BY DEF Sound, Shapes, Takeovers, Post, Register, MayRegister, Adoptable, RunRow, Row, Goes
  <1>4. Keepers'
    BY Disjoint DEF Sound, Keepers, Post, Register, RunRow, Row, Goes
  <1> QED  BY <1>1, <1>2, <1>3, <1>4 DEF Sound

LEMMA PostRefusedSound == ASSUME Sound, NEW w \in Windows, PostRefused(w) PROVE Sound'
  <1>1. Shapes'
    BY DEF Sound, Shapes, WindowStates, Free, PostRefused, Goes
  <1>2. OldFiles'
    BY DEF Sound, OldFiles, FileHasRow, PostRefused
  <1>3. Takeovers'
    BY DEF Sound, Takeovers, PostRefused, Goes
  <1>4. Keepers'
    BY DEF Sound, Keepers, PostRefused, Goes
  <1> QED  BY <1>1, <1>2, <1>3, <1>4 DEF Sound

LEMMA UnreachableSound == ASSUME Sound, NEW w \in Windows, Unreachable(w) PROVE Sound'
  <1>1. Shapes'
    BY DEF Sound, Shapes, WindowStates, Free, Unreachable, Goes
  <1>2. OldFiles'
    BY DEF Sound, OldFiles, FileHasRow, Unreachable
  <1>3. Takeovers'
    BY DEF Sound, Takeovers, Unreachable, Goes
  <1>4. Keepers'
    BY DEF Sound, Keepers, Unreachable, Goes
  <1> QED  BY <1>1, <1>2, <1>3, <1>4 DEF Sound

LEMMA ReregisterSound == ASSUME Sound, NEW w \in Windows, Reregister(w) PROVE Sound'
  <1>1. Shapes'
    BY DEF Sound, Shapes, RowRecords, RowStates, WindowStates, Free, Reregister, Register,
           MayRegister, Adoptable, RunRow, Row, Goes
  <1>2. OldFiles'
    BY Disjoint DEF Sound, OldFiles, FileHasRow, Reregister
  <1>3. Takeovers'
    BY DEF Sound, Shapes, Takeovers, Reregister, Register, MayRegister, Adoptable, RunRow, Row,
           Goes
  <1>4. Keepers'
    BY Disjoint DEF Sound, Keepers, Reregister, Register, RunRow, Row, Goes
  <1> QED  BY <1>1, <1>2, <1>3, <1>4 DEF Sound

LEMMA LeaveAloneSound == ASSUME Sound, NEW w \in Windows, LeaveAlone(w) PROVE Sound'
  <1>1. Shapes'
    BY DEF Sound, Shapes, WindowStates, Free, LeaveAlone, Goes
  <1>2. OldFiles'
    BY DEF Sound, OldFiles, FileHasRow, LeaveAlone
  <1>3. Takeovers'
    BY DEF Sound, Takeovers, LeaveAlone, Goes
  <1>4. Keepers'
    BY DEF Sound, Keepers, LeaveAlone, Goes
  <1> QED  BY <1>1, <1>2, <1>3, <1>4 DEF Sound

LEMMA LoseSound == ASSUME Sound, NEW w \in Windows, Lose(w) PROVE Sound'
  <1>1. Shapes'
    BY DEF Sound, Shapes, WindowStates, Free, Lose, Goes
  <1>2. OldFiles'
    BY DEF Sound, OldFiles, FileHasRow, Lose
  <1>3. Takeovers'
    BY DEF Sound, Takeovers, Lose, Goes
  <1>4. Keepers'
    BY DEF Sound, Keepers, Lose, Goes
  <1> QED  BY <1>1, <1>2, <1>3, <1>4 DEF Sound

LEMMA BeatRunningSound == ASSUME Sound, NEW w \in Windows, BeatRunning(w) PROVE Sound'
  <1>1. Shapes'
    <2>1. row' \in RowRecords
      BY Records DEF Sound, Shapes, RowRecords, RowStates, BeatRunning, Leased, Goes
    <2>2. /\ Free' => /\ row'.session = None /\ row'.window = None
                      /\ row'.lease = None /\ row'.token = None
          /\ row'.state = "superseded" => row'.session # None
      BY DEF Sound, Shapes, Free, BeatRunning
    <2>3. file' \in FileRecords /\ noted' \subseteq Windows
      BY DEF Sound, Shapes, BeatRunning
    <2>4. session' \in [Sessions -> SessionStates] /\ at' \in [Windows -> WindowStates]
      BY DEF Sound, Shapes, WindowStates, BeatRunning, Goes
    <2>5. /\ taking' \in [by : Windows \cup {None}, live : BOOLEAN]
          /\ up' \in BOOLEAN /\ crashes' \in 0 .. MaxCrashes
      BY DEF Sound, Shapes, BeatRunning
    <2> QED  BY <2>1, <2>2, <2>3, <2>4, <2>5 DEF Shapes
  <1>2. OldFiles'
    BY DEF Sound, OldFiles, FileHasRow, BeatRunning
  <1>3. Takeovers'
    BY DEF Sound, Takeovers, BeatRunning, Goes
  <1>4. Keepers'
    BY Disjoint DEF Sound, Keepers, BeatRunning, Goes
  <1> QED  BY <1>1, <1>2, <1>3, <1>4 DEF Sound

LEMMA LeaseReleaseSound == ASSUME Sound, NEW w \in Windows, LeaseRelease(w) PROVE Sound'
  <1>1. Shapes'
    <2>1. row' \in RowRecords
      BY DEF RowRecords, RowStates, LeaseRelease, NoRow, Row
    <2>2. /\ Free' => /\ row'.session = None /\ row'.window = None
                      /\ row'.lease = None /\ row'.token = None
          /\ row'.state = "superseded" => row'.session # None
      BY DEF LeaseRelease, NoRow, Row
    <2>3. file' \in FileRecords /\ noted' \subseteq Windows
      BY DEF Sound, Shapes, LeaseRelease
    <2>4. session' \in [Sessions -> SessionStates] /\ at' \in [Windows -> WindowStates]
      BY DEF Sound, Shapes, WindowStates, LeaseRelease, Goes
    <2>5. /\ taking' \in [by : Windows \cup {None}, live : BOOLEAN]
          /\ up' \in BOOLEAN /\ crashes' \in 0 .. MaxCrashes
      BY DEF Sound, Shapes, LeaseRelease
    <2> QED  BY <2>1, <2>2, <2>3, <2>4, <2>5 DEF Shapes
  <1>2. OldFiles'
    BY Disjoint DEF Sound, OldFiles, Keepers, FileHasRow, LeaseRelease, Leased
  <1>3. Takeovers'
    BY DEF Sound, Takeovers, LeaseRelease, NoRow, Row, Goes
  <1>4. Keepers'
    BY Disjoint DEF Sound, Keepers, LeaseRelease, NoRow, Row, Goes
  <1> QED  BY <1>1, <1>2, <1>3, <1>4 DEF Sound

LEMMA LeaveSound == ASSUME Sound, NEW w \in Windows, Leave(w) PROVE Sound'
  <1>1. Shapes'
    <2>1. row' \in RowRecords
      BY DEF Sound, Shapes, Leave
    <2>2. /\ Free' => /\ row'.session = None /\ row'.window = None
                      /\ row'.lease = None /\ row'.token = None
          /\ row'.state = "superseded" => row'.session # None
      BY DEF Sound, Shapes, Free, Leave
    <2>3. file' \in FileRecords /\ noted' \subseteq Windows
      BY Records DEF Sound, Shapes, Leave, NamesNobody
    <2>4. session' \in [Sessions -> SessionStates] /\ at' \in [Windows -> WindowStates]
      BY DEF Sound, Shapes, WindowStates, Leave, Goes
    <2>5. /\ taking' \in [by : Windows \cup {None}, live : BOOLEAN]
          /\ up' \in BOOLEAN /\ crashes' \in 0 .. MaxCrashes
      BY DEF Sound, Shapes, Leave
    <2> QED  BY <2>1, <2>2, <2>3, <2>4, <2>5 DEF Shapes
  <1>2. OldFiles'
    BY Disjoint DEF Sound, OldFiles, FileHasRow, Leave, NamesNobody, NoFile
  <1>3. Takeovers'
    BY DEF Sound, Takeovers, Leave, Goes
  <1>4. Keepers'
    BY DEF Sound, Keepers, Leave, Goes
  <1> QED  BY <1>1, <1>2, <1>3, <1>4 DEF Sound

LEMMA WindowDiesSound == ASSUME Sound, NEW w \in Windows, WindowDies(w) PROVE Sound'
  <1>1. Shapes'
    <2>1. row' \in RowRecords
      BY DEF Sound, Shapes, WindowDies
    <2>2. /\ Free' => /\ row'.session = None /\ row'.window = None
                      /\ row'.lease = None /\ row'.token = None
          /\ row'.state = "superseded" => row'.session # None
      BY DEF Sound, Shapes, Free, WindowDies
    <2>3. file' \in FileRecords /\ noted' \subseteq Windows
      BY DEF Sound, Shapes, WindowDies
    <2>4. session' \in [Sessions -> SessionStates] /\ at' \in [Windows -> WindowStates]
      BY DEF Sound, Shapes, WindowStates, WindowDies, Goes
    <2>5. /\ taking' \in [by : Windows \cup {None}, live : BOOLEAN]
          /\ up' \in BOOLEAN /\ crashes' \in 0 .. MaxCrashes
      BY LockAssumption DEF Sound, Shapes, WindowDies
    <2> QED  BY <2>1, <2>2, <2>3, <2>4, <2>5 DEF Shapes
  <1>2. OldFiles'
    BY DEF Sound, OldFiles, FileHasRow, WindowDies
  <1>3. Takeovers'
    BY DEF Sound, Takeovers, WindowDies, Goes
  <1>4. Keepers'
    BY DEF Sound, Keepers, WindowDies, Goes
  <1> QED  BY <1>1, <1>2, <1>3, <1>4 DEF Sound

LEMMA TakeOverSound == ASSUME Sound, NEW w \in Windows, TakeOver(w) PROVE Sound'
  <1>1. Shapes'
    BY DEF Sound, Shapes, RowRecords, WindowStates, Free, TakeOver, Goes
  <1>2. OldFiles'
    BY DEF Sound, OldFiles, FileHasRow, TakeOver
  <1>3. Takeovers'
    BY Disjoint DEF Sound, Takeovers, Shapes, TakeOver, Goes
  <1>4. Keepers'
    BY DEF Sound, Keepers, TakeOver, Goes
  <1> QED  BY <1>1, <1>2, <1>3, <1>4 DEF Sound

LEMMA NotAnsweredSound == ASSUME Sound, NEW w \in Windows, NotAnswered(w) PROVE Sound'
  <1>1. Shapes'
    BY DEF Sound, Shapes, WindowStates, Free, NotAnswered, Goes
  <1>2. OldFiles'
    BY DEF Sound, OldFiles, FileHasRow, NotAnswered
  <1>3. Takeovers'
    BY DEF Sound, Takeovers, NotAnswered, Goes
  <1>4. Keepers'
    BY DEF Sound, Keepers, NotAnswered, Goes
  <1> QED  BY <1>1, <1>2, <1>3, <1>4 DEF Sound

LEMMA ReplaceFileSound == ASSUME Sound, NEW w \in Windows, ReplaceFile(w) PROVE Sound'
  <1>1. Shapes'
    <2>1. row' \in RowRecords
      BY DEF Sound, Shapes, ReplaceFile
    <2>2. /\ Free' => /\ row'.session = None /\ row'.window = None
                      /\ row'.lease = None /\ row'.token = None
          /\ row'.state = "superseded" => row'.session # None
      BY DEF Sound, Shapes, Free, ReplaceFile
    <2>3. file' \in FileRecords /\ noted' \subseteq Windows
      BY Records DEF Sound, Shapes, ReplaceFile, Names
    <2>4. session' \in [Sessions -> SessionStates] /\ at' \in [Windows -> WindowStates]
      BY DEF Sound, Shapes, WindowStates, ReplaceFile, Goes
    <2>5. /\ taking' \in [by : Windows \cup {None}, live : BOOLEAN]
          /\ up' \in BOOLEAN /\ crashes' \in 0 .. MaxCrashes
      BY DEF Sound, Shapes, ReplaceFile
    <2> QED  BY <2>1, <2>2, <2>3, <2>4, <2>5 DEF Shapes
  <1>2. OldFiles'
    BY Disjoint DEF Sound, OldFiles, FileHasRow, ReplaceFile, Names
  <1>3. Takeovers'
    BY DEF Sound, Takeovers, Shapes, ReplaceFile, Goes
  <1>4. Keepers'
    BY Disjoint DEF Sound, Shapes, Takeovers, Keepers, ReplaceFile, Names, Goes
  <1> QED  BY <1>1, <1>2, <1>3, <1>4 DEF Sound

LEMMA ReserveRunSound == ASSUME Sound, NEW w \in Windows, ReserveRun(w) PROVE Sound'
  <1>1. Shapes'
    <2>1. row' \in RowRecords
      BY DEF Sound, Shapes, RowRecords, RowStates, ReserveRun, Reserve
    <2>2. /\ Free' => /\ row'.session = None /\ row'.window = None
                      /\ row'.lease = None /\ row'.token = None
          /\ row'.state = "superseded" => row'.session # None
      BY DEF Sound, Shapes, Free, ReserveRun, Reserve
    <2>3. file' \in FileRecords /\ noted' \subseteq Windows
      BY DEF Sound, Shapes, ReserveRun
    <2>4. session' \in [Sessions -> SessionStates] /\ at' \in [Windows -> WindowStates]
      BY DEF Sound, Shapes, WindowStates, ReserveRun, Goes
    <2>5. /\ taking' \in [by : Windows \cup {None}, live : BOOLEAN]
          /\ up' \in BOOLEAN /\ crashes' \in 0 .. MaxCrashes
      BY DEF Sound, Shapes, ReserveRun
    <2> QED  BY <2>1, <2>2, <2>3, <2>4, <2>5 DEF Shapes
  <1>2. OldFiles'
    BY DEF Sound, OldFiles, FileHasRow, ReserveRun, Reserve
  <1>3. Takeovers'
    BY DEF Sound, Takeovers, ReserveRun, Leased, Reserve, Goes
  <1>4. Keepers'
    BY Disjoint DEF Sound, Keepers, Shapes, ReserveRun, Leased, Reserve, Goes
  <1> QED  BY <1>1, <1>2, <1>3, <1>4 DEF Sound

LEMMA RunStopsSound == ASSUME Sound, NEW w \in Windows, RunStops(w) PROVE Sound'
  <1>1. Shapes'
    BY DEF Sound, Shapes, WindowStates, Free, RunStops, Goes
  <1>2. OldFiles'
    BY DEF Sound, OldFiles, FileHasRow, RunStops
  <1>3. Takeovers'
    BY DEF Sound, Takeovers, RunStops, Goes
  <1>4. Keepers'
    BY DEF Sound, Keepers, RunStops, Goes
  <1> QED  BY <1>1, <1>2, <1>3, <1>4 DEF Sound

LEMMA ReserveSessionSound == ASSUME Sound, NEW w \in Windows, ReserveSession(w) PROVE Sound'
  <1>1. Shapes'
    <2>1. row' \in RowRecords
      BY Records DEF Sound, Shapes, RowRecords, RowStates, ReserveSession, Reserve, Goes
    <2>2. /\ Free' => /\ row'.session = None /\ row'.window = None
                      /\ row'.lease = None /\ row'.token = None
          /\ row'.state = "superseded" => row'.session # None
      BY DEF Sound, Shapes, Free, ReserveSession, Reserve
    <2>3. file' \in FileRecords /\ noted' \subseteq Windows
      BY DEF Sound, Shapes, ReserveSession
    <2>4. session' \in [Sessions -> SessionStates] /\ at' \in [Windows -> WindowStates]
      BY DEF Sound, Shapes, WindowStates, ReserveSession, Goes
    <2>5. /\ taking' \in [by : Windows \cup {None}, live : BOOLEAN]
          /\ up' \in BOOLEAN /\ crashes' \in 0 .. MaxCrashes
      BY DEF Sound, Shapes, ReserveSession
    <2> QED  BY <2>1, <2>2, <2>3, <2>4, <2>5 DEF Shapes
  <1>2. OldFiles'
    BY DEF Sound, OldFiles, FileHasRow, ReserveSession, Reserve
  <1>3. Takeovers'
    BY DEF Sound, Takeovers, ReserveSession, Reserve, Goes
  <1>4. Keepers'
    BY Disjoint DEF Sound, Takeovers, Keepers, ReserveSession, Reserve, Goes
  <1> QED  BY <1>1, <1>2, <1>3, <1>4 DEF Sound

LEMMA DropFileSound == ASSUME Sound, NEW w \in Windows, DropFile(w) PROVE Sound'
  <1>1. Shapes'
    <2>1. row' \in RowRecords
      BY DEF Sound, Shapes, DropFile
    <2>2. /\ Free' => /\ row'.session = None /\ row'.window = None
                      /\ row'.lease = None /\ row'.token = None
          /\ row'.state = "superseded" => row'.session # None
      BY DEF Sound, Shapes, Free, DropFile
    <2>3. file' \in FileRecords /\ noted' \subseteq Windows
      BY DEF FileRecords, DropFile, NamesNobody, NoFile
    <2>4. session' \in [Sessions -> SessionStates] /\ at' \in [Windows -> WindowStates]
      BY DEF Sound, Shapes, WindowStates, DropFile, Goes
    <2>5. /\ taking' \in [by : Windows \cup {None}, live : BOOLEAN]
          /\ up' \in BOOLEAN /\ crashes' \in 0 .. MaxCrashes
      BY DEF Sound, Shapes, DropFile
    <2> QED  BY <2>1, <2>2, <2>3, <2>4, <2>5 DEF Shapes
  <1>2. OldFiles'
    BY Disjoint DEF OldFiles, FileHasRow, DropFile, NamesNobody, NoFile
  <1>3. Takeovers'
    BY DEF Sound, Takeovers, DropFile, Goes
  <1>4. Keepers'
    BY Disjoint DEF Sound, Keepers, DropFile, Goes
  <1> QED  BY <1>1, <1>2, <1>3, <1>4 DEF Sound

LEMMA MakeFileToSwitchSound == ASSUME Sound, NEW w \in Windows, MakeFileToSwitch(w) PROVE Sound'
  <1>1. Shapes'
    <2>1. row' \in RowRecords
      BY DEF Sound, Shapes, MakeFileToSwitch
    <2>2. /\ Free' => /\ row'.session = None /\ row'.window = None
                      /\ row'.lease = None /\ row'.token = None
          /\ row'.state = "superseded" => row'.session # None
      BY DEF Sound, Shapes, Free, MakeFileToSwitch
    <2>3. file' \in FileRecords /\ noted' \subseteq Windows
      BY Records DEF Sound, Shapes, MakeFileToSwitch, Names
    <2>4. session' \in [Sessions -> SessionStates] /\ at' \in [Windows -> WindowStates]
      BY DEF Sound, Shapes, WindowStates, MakeFileToSwitch, Goes
    <2>5. /\ taking' \in [by : Windows \cup {None}, live : BOOLEAN]
          /\ up' \in BOOLEAN /\ crashes' \in 0 .. MaxCrashes
      BY DEF Sound, Shapes, MakeFileToSwitch
    <2> QED  BY <2>1, <2>2, <2>3, <2>4, <2>5 DEF Shapes
  <1>2. OldFiles'
    BY Disjoint DEF Sound, OldFiles, FileHasRow, MakeFileToSwitch, Names
  <1>3. Takeovers'
    BY DEF Sound, Takeovers, Shapes, MakeFileToSwitch, Goes
  <1>4. Keepers'
    BY Disjoint DEF Sound, Keepers, Shapes, MakeFileToSwitch, Names, Goes
  <1> QED  BY <1>1, <1>2, <1>3, <1>4 DEF Sound

LEMMA TokenRunSound == ASSUME Sound, NEW w \in Windows, TokenRun(w) PROVE Sound'
  <1>1. Shapes'
    BY DEF Sound, Shapes, RowRecords, RowStates, WindowStates, Free, TokenRun, RunRow, Row, Goes
  <1>2. OldFiles'
    BY Disjoint DEF Sound, OldFiles, Keepers, FileHasRow, TokenRun
  <1>3. Takeovers'
    BY DEF Sound, Takeovers, TokenRun, RunRow, Row, Goes
  <1>4. Keepers'
    BY Disjoint DEF Sound, Keepers, Shapes, TokenRun, RunRow, Row, Goes
  <1> QED  BY <1>1, <1>2, <1>3, <1>4 DEF Sound

LEMMA GiveUpSound == ASSUME Sound, NEW w \in Windows, GiveUp(w) PROVE Sound'
  <1>1. Shapes'
    BY DEF Sound, Shapes, WindowStates, Free, GiveUp, Goes
  <1>2. OldFiles'
    BY DEF Sound, OldFiles, FileHasRow, GiveUp
  <1>3. Takeovers'
    BY DEF Sound, Takeovers, GiveUp, Goes
  <1>4. Keepers'
    BY DEF Sound, Keepers, GiveUp, Goes
  <1> QED  BY <1>1, <1>2, <1>3, <1>4 DEF Sound

LEMMA ExpireSound == ASSUME Sound, Expire PROVE Sound'
  <1>1. Shapes'
    BY DEF Sound, Shapes, RowRecords, Free, Expire
  <1>2. OldFiles'
    BY DEF Sound, OldFiles, FileHasRow, Expire
  <1>3. Takeovers'
    BY DEF Sound, Takeovers, Expire
  <1>4. Keepers'
    BY Disjoint DEF Sound, Keepers, Expire
  <1> QED  BY <1>1, <1>2, <1>3, <1>4 DEF Sound

LEMMA TakenOverSound == ASSUME Sound, TakenOver PROVE Sound'
  <1>1. Shapes'
    <2>1. row' \in RowRecords
      <3>1. row \in RowRecords /\ taking.by \in Windows
        BY DEF Sound, Shapes, TakenOver
      <3>2. CASE taking.live
        BY <3>1, <3>2 DEF TakenOver, RowRecords, RowStates
      <3>3. CASE ~taking.live
        BY <3>1, <3>3 DEF TakenOver
      <3> QED  BY <3>2, <3>3
    <2>2. /\ Free' => /\ row'.session = None /\ row'.window = None
                      /\ row'.lease = None /\ row'.token = None
          /\ row'.state = "superseded" => row'.session # None
      BY DEF Sound, Shapes, Free, Takeovers, TakenOver
    <2>3. file' \in FileRecords /\ noted' \subseteq Windows
      BY DEF Sound, Shapes, TakenOver
    <2>4. session' \in [Sessions -> SessionStates] /\ at' \in [Windows -> WindowStates]
      BY DEF Sound, Shapes, WindowStates, TakenOver, Answered
    <2>5. /\ taking' \in [by : Windows \cup {None}, live : BOOLEAN]
          /\ up' \in BOOLEAN /\ crashes' \in 0 .. MaxCrashes
      BY DEF Sound, Shapes, TakenOver, NobodyTakes
    <2> QED  BY <2>1, <2>2, <2>3, <2>4, <2>5 DEF Shapes
  <1>2. OldFiles'
    BY DEF Sound, OldFiles, FileHasRow, TakenOver
  <1>3. Takeovers'
    BY DEF Sound, Takeovers, TakenOver, NobodyTakes, Answered
  <1>4. Keepers'
    BY Disjoint DEF Sound, Takeovers, Keepers, TakenOver, Answered
  <1> QED  BY <1>1, <1>2, <1>3, <1>4 DEF Sound

LEMMA LeftOverSound == ASSUME Sound, LeftOver PROVE Sound'
  <1>1. Shapes'
    BY DEF Sound, Shapes, RowRecords, RowStates, WindowStates, Free, LeftOver, NobodyTakes,
           Answered
  <1>2. OldFiles'
    BY DEF Sound, OldFiles, FileHasRow, LeftOver
  <1>3. Takeovers'
    BY DEF Sound, Takeovers, LeftOver, NobodyTakes, Answered
  <1>4. Keepers'
    BY DEF Sound, Keepers, LeftOver, Answered
  <1> QED  BY <1>1, <1>2, <1>3, <1>4 DEF Sound

LEMMA CrashSound == ASSUME Sound, Crash PROVE Sound'
  <1>1. Shapes'
    <2>1. row' \in RowRecords
      BY DEF Sound, Shapes, Crash
    <2>2. /\ Free' => /\ row'.session = None /\ row'.window = None
                      /\ row'.lease = None /\ row'.token = None
          /\ row'.state = "superseded" => row'.session # None
      BY DEF Sound, Shapes, Free, Crash
    <2>3. file' \in FileRecords /\ noted' \subseteq Windows
      BY DEF Sound, Shapes, FileRecords, Crash
    <2>4. session' \in [Sessions -> SessionStates] /\ at' \in [Windows -> WindowStates]
      BY DEF Sound, Shapes, SessionStates, Crash, Down
    <2>5. taking' \in [by : Windows \cup {None}, live : BOOLEAN]
      BY Records DEF Crash, Down
    <2>6. /\ crashes \in 0 .. MaxCrashes /\ crashes < MaxCrashes
          /\ crashes' = crashes + 1 /\ up' = FALSE
      BY DEF Sound, Shapes, Crash, Down
    <2>7. crashes' \in 0 .. MaxCrashes
      <3>1. MaxCrashes \in Nat
        BY LockAssumption
      <3> QED  BY <2>6, <3>1
    <2>8. up' \in BOOLEAN
      BY <2>6
    <2> QED  BY <2>1, <2>2, <2>3, <2>4, <2>5, <2>7, <2>8 DEF Shapes
  <1>2. OldFiles'
    BY DEF Sound, OldFiles, FileHasRow, Crash, Down
  <1>3. Takeovers'
    BY DEF Sound, Takeovers, Crash, Down, NobodyTakes
  <1>4. Keepers'
    BY DEF Sound, Keepers, Crash
  <1> QED  BY <1>1, <1>2, <1>3, <1>4 DEF Sound

LEMMA RestartSound == ASSUME Sound, Restart PROVE Sound'
  <1>1. Shapes'
    <2>1. row' \in RowRecords
      BY DEF Sound, Shapes, RowRecords, RowStates, Restart, DropOrphan, Release, NoRow, Row,
             AdoptOne
    <2>2. /\ Free' => /\ row'.session = None /\ row'.window = None
                      /\ row'.lease = None /\ row'.token = None
          /\ row'.state = "superseded" => row'.session # None
      BY DEF Sound, Shapes, RowRecords, Free, Restart, DropOrphan, Release, NoRow, Row, AdoptOne
    <2>3. file' \in FileRecords /\ noted' \subseteq Windows
      BY Records DEF Sound, Shapes, RowRecords, Restart, DropOrphan, Release, NamesNobody,
                     AdoptOne, Names
    <2>4. session' \in [Sessions -> SessionStates] /\ at' \in [Windows -> WindowStates]
      BY DEF Sound, Shapes, Restart
    <2>5. /\ taking' \in [by : Windows \cup {None}, live : BOOLEAN]
          /\ up' \in BOOLEAN /\ crashes' \in 0 .. MaxCrashes
      BY DEF Sound, Shapes, Restart
    <2> QED  BY <2>1, <2>2, <2>3, <2>4, <2>5 DEF Shapes
  <1>2. OldFiles'
    BY DEF Sound, OldFiles, Shapes, RowRecords, FileHasRow, Restart, DropOrphan, Release, NoRow,
           Row, NamesNobody, NoFile, AdoptOne, Names
  <1>3. Takeovers'
    BY DEF Sound, Shapes, RowRecords, Takeovers, Restart, DropOrphan, Release, NoRow, Row,
           AdoptOne
  <1>4. Keepers'
    BY Disjoint DEF Sound, Keepers, Shapes, RowRecords, Restart, DropOrphan, Release, NoRow, Row,
                    AdoptOne
  <1> QED  BY <1>1, <1>2, <1>3, <1>4 DEF Sound

LEMMA RecheckSound == ASSUME Sound, Recheck PROVE Sound'
  <1>1. Shapes'
    <2>1. row' \in RowRecords
      BY DEF Sound, Shapes, RowRecords, RowStates, Recheck
    <2>2. /\ Free' => /\ row'.session = None /\ row'.window = None
                      /\ row'.lease = None /\ row'.token = None
          /\ row'.state = "superseded" => row'.session # None
      BY DEF Sound, Shapes, Free, Recheck
    <2>3. file' \in FileRecords /\ noted' \subseteq Windows
      BY Records DEF Sound, Shapes, RowRecords, Recheck, Names
    <2>4. session' \in [Sessions -> SessionStates] /\ at' \in [Windows -> WindowStates]
      BY DEF Sound, Shapes, Recheck
    <2>5. /\ taking' \in [by : Windows \cup {None}, live : BOOLEAN]
          /\ up' \in BOOLEAN /\ crashes' \in 0 .. MaxCrashes
      BY DEF Sound, Shapes, Recheck
    <2> QED  BY <2>1, <2>2, <2>3, <2>4, <2>5 DEF Shapes
  <1>2. OldFiles'
    BY DEF OldFiles, FileHasRow, Recheck, Names
  <1>3. Takeovers'
    BY DEF Sound, Takeovers, Recheck
  <1>4. Keepers'
    BY Disjoint DEF Sound, Keepers, Recheck
  <1> QED  BY <1>1, <1>2, <1>3, <1>4 DEF Sound

LEMMA InitSound == ASSUME Init PROVE Sound
  <1>1. /\ NoRow \in RowRecords /\ NoRow.state = "free" /\ NoRow.session = None
        /\ NoRow.window = None
        /\ NoRow.lease = None /\ NoRow.token = None /\ NoRow.from = None
    BY Records DEF NoRow, Row
  <1>2. /\ NoFile \in FileRecords /\ NoFile.by = None /\ ~NoFile.old
        /\ NobodyTakes \in [by : Windows \cup {None}, live : BOOLEAN]
        /\ NobodyTakes.by = None /\ ~NobodyTakes.live
    BY Records DEF NoFile, NobodyTakes
  <1>3. crashes \in 0 .. MaxCrashes
    <2>1. MaxCrashes \in Nat /\ crashes = 0
      BY LockAssumption DEF Init
    <2> QED  BY <2>1
  <1>4. Shapes
    BY <1>1, <1>2, <1>3 DEF Init, Shapes, Free, SessionStates, WindowStates
  <1>5. OldFiles
    BY <1>1, <1>2, Disjoint DEF Init, OldFiles, FileHasRow
  <1>6. Takeovers
    BY <1>1, <1>2 DEF Init, Takeovers
  <1>7. Keepers
    BY <1>1, Disjoint DEF Init, Keepers
  <1> QED  BY <1>4, <1>5, <1>6, <1>7 DEF Sound

LEMMA SessionStepsSound == ASSUME Sound, SessionSteps PROVE Sound'
  <1>1. PICK s \in Sessions :
           \/ Create(s) \/ OpenFails(s) \/ Turn(s) \/ Steer(s) \/ TurnEnds(s) \/ Settle(s)
           \/ Delete(s) \/ CrashHalfway(s) \/ \E w \in Windows : TokenTurn(w, s)
    BY DEF SessionSteps
  <1> QED
    BY <1>1, CreateSound, OpenFailsSound, TurnSound, SteerSound, TurnEndsSound, SettleSound,
       DeleteSound, CrashHalfwaySound, TokenTurnSound

LEMMA WindowStepsSound == ASSUME Sound, WindowSteps PROVE Sound'
  <1>1. PICK w \in Windows :
           \/ MakeFile(w) \/ Reconcile(w) \/ Post(w) \/ PostRefused(w) \/ Unreachable(w)
           \/ Reregister(w) \/ LeaveAlone(w) \/ Lose(w) \/ BeatRunning(w) \/ LeaseRelease(w)
           \/ Leave(w) \/ WindowDies(w) \/ TakeOver(w) \/ NotAnswered(w) \/ ReplaceFile(w)
           \/ ReserveRun(w) \/ RunStops(w) \/ ReserveSession(w) \/ DropFile(w)
           \/ MakeFileToSwitch(w) \/ TokenRun(w) \/ GiveUp(w)
    BY DEF WindowSteps
  <1>2. CASE \/ MakeFile(w) \/ Reconcile(w) \/ Post(w) \/ PostRefused(w) \/ Unreachable(w)
             \/ Reregister(w) \/ LeaveAlone(w) \/ Lose(w) \/ BeatRunning(w) \/ LeaseRelease(w)
             \/ Leave(w)
    BY <1>2, MakeFileSound, ReconcileSound, PostSound, PostRefusedSound, UnreachableSound,
       ReregisterSound, LeaveAloneSound, LoseSound, BeatRunningSound, LeaseReleaseSound, LeaveSound
  <1>3. CASE \/ WindowDies(w) \/ TakeOver(w) \/ NotAnswered(w) \/ ReplaceFile(w) \/ ReserveRun(w)
             \/ RunStops(w) \/ ReserveSession(w) \/ DropFile(w) \/ MakeFileToSwitch(w)
             \/ TokenRun(w) \/ GiveUp(w)
    BY <1>3, WindowDiesSound, TakeOverSound, NotAnsweredSound, ReplaceFileSound, ReserveRunSound,
       RunStopsSound, ReserveSessionSound, DropFileSound, MakeFileToSwitchSound, TokenRunSound,
       GiveUpSound
  <1> QED  BY <1>1, <1>2, <1>3

LEMMA AlwaysSound == Spec => []Sound
  <1>1. Init => Sound
    BY InitSound
  <1>2. Sound /\ [Next]_vars => Sound'
    <2> SUFFICES ASSUME Sound, [Next]_vars PROVE Sound'
      OBVIOUS
    <2>1. CASE SessionSteps \/ WindowSteps
      BY <2>1, SessionStepsSound, WindowStepsSound
    <2>2. CASE Expire \/ TakenOver \/ LeftOver \/ Crash \/ Restart \/ Recheck
      BY <2>2, ExpireSound, TakenOverSound, LeftOverSound, CrashSound, RestartSound, RecheckSound
    <2>3. CASE UNCHANGED vars
      BY <2>3 DEF vars, Sound, Shapes, Free, OldFiles, FileHasRow, Takeovers, Keepers
    <2> QED  BY <2>1, <2>2, <2>3 DEF Next
  <1> QED  BY <1>1, <1>2, PTL DEF Spec

\* While RAVIS runs, a lock file that names the one that runs always has its row (FileHasRow): no
\* fault of a window, and no step of a takeover, a transfer or a restart, leaves a live file in the
\* checkout that only a session which does not hold the project could remove.  (A file of a RAVIS
\* that is gone is old, and the next to take the lock replaces it.)
THEOREM EveryFileHasARow == Spec => []FileHasRow
  <1>1. Sound => FileHasRow
    BY DEF Sound, OldFiles
  <1> QED  BY <1>1, AlwaysSound, PTL

-----------------------------------------------------------------------------
(* Whose a lease is.                                                      *)

\* Until a run that is being taken over registers again, a takeover that is answered later is of a
\* run no token moves, a lease is its row's, and a row that is not free has a holder.
Lawful == /\ LeaseNamesHolder
          /\ row.session = None /\ row.window = None => Free
          /\ row.session = None /\ row.token # None => row.state = "transferring"
          /\ taking.live => row.session = None /\ row.window # None /\ row.token = None

LEMMA LawfulRows ==
    ASSUME Sound, Lawful, UNCHANGED taking, NEW s \in Sessions,
           Acquire(s) \/ TakeForTurn(s) \/ Release(s)
    PROVE  Lawful'
  <1>1. CASE Acquire(s)
    BY <1>1, Disjoint DEF Sound, Shapes, Lawful, Free, LeaseNamesHolder, Acquire, SessionRow, Row
  <1>2. CASE Release(s)
    BY <1>2, Disjoint DEF Lawful, Free, LeaseNamesHolder, Release, NoRow, Row
  <1>3. CASE /\ row.session = s
             /\ row' = row \/ row' = [row EXCEPT !.state = "running", !.token = None]
    <2>1. /\ row'.session = row.session /\ row'.window = row.window /\ row'.lease = row.lease
          /\ row.session # None
      BY <1>3, Disjoint DEF Sound, Shapes, RowRecords
    <2> QED  BY <2>1 DEF Lawful, Free, LeaseNamesHolder
  <1> QED  BY <1>1, <1>2, <1>3 DEF TakeForTurn

LEMMA SessionStepsLawful ==
    ASSUME Sound, Lawful, "readopt" \notin Faults, SessionSteps
    PROVE  Lawful'
  <1>1. PICK s \in Sessions :
           \/ Create(s) \/ OpenFails(s) \/ Turn(s) \/ Steer(s) \/ TurnEnds(s) \/ Settle(s)
           \/ Delete(s) \/ CrashHalfway(s) \/ \E w \in Windows : TokenTurn(w, s)
    BY DEF SessionSteps
  <1>2. CASE Create(s) \/ OpenFails(s) \/ Turn(s) \/ Steer(s) \/ Delete(s)
    BY <1>2, LawfulRows DEF Create, OpenFails, Turn, Steer, Delete
  <1>3. CASE TurnEnds(s) \/ Settle(s)
    BY <1>3, LawfulRows DEF TurnEnds, Settle, Lawful, Free, LeaseNamesHolder
  <1>4. CASE CrashHalfway(s)
    BY <1>4, Disjoint DEF CrashHalfway, Down, NobodyTakes, Lawful, Free,
                          LeaseNamesHolder, NoRow, SessionRow, Row
  <1>5. ASSUME NEW w \in Windows, TokenTurn(w, s) PROVE Lawful'
    BY <1>5, Disjoint DEF TokenTurn, TakeWithToken, Lawful, Free, LeaseNamesHolder, SessionRow, Row
  <1> QED  BY <1>1, <1>2, <1>3, <1>4, <1>5

LEMMA WindowStepsLawful ==
    ASSUME Sound, Lawful, "readopt" \notin Faults, WindowSteps
    PROVE  Lawful'
  <1>1. PICK w \in Windows :
           \/ Post(w) \/ Reregister(w) \/ BeatRunning(w) \/ LeaseRelease(w) \/ TakeOver(w)
           \/ ReserveRun(w) \/ ReserveSession(w) \/ TokenRun(w) \/ UNCHANGED <<row, taking>>
    BY DEF WindowSteps, MakeFile, Reconcile, PostRefused, Unreachable, LeaveAlone, Lose, Leave,
           WindowDies, NotAnswered, ReplaceFile, RunStops, DropFile, MakeFileToSwitch, GiveUp
  <1>2. ASSUME NEW again \in BOOLEAN, Register(w, again), UNCHANGED taking PROVE Lawful'
    BY <1>2, Disjoint DEF Register, MayRegister, Adoptable, Sound, Shapes, RowRecords, Lawful,
                          LeaseNamesHolder, Free, RunRow, Row
  <1>3. CASE BeatRunning(w)
    BY <1>3 DEF BeatRunning, Sound, Shapes, RowRecords, Lawful, Free, LeaseNamesHolder
  <1>4. CASE LeaseRelease(w)
    BY <1>4 DEF LeaseRelease, Sound, Shapes, Lawful, Free, LeaseNamesHolder, NoRow, Row
  <1>5. CASE TakeOver(w)
    BY <1>5, Disjoint DEF TakeOver, Sound, Shapes, RowRecords, Lawful, Free, LeaseNamesHolder
  <1>6. CASE ReserveRun(w)
    BY <1>6, Disjoint DEF ReserveRun, Reserve, Leased, Sound, Shapes, Takeovers,
                          RowRecords, Lawful, Free, LeaseNamesHolder
  <1>7. CASE ReserveSession(w)
    BY <1>7 DEF ReserveSession, Reserve, Sound, Shapes, RowRecords, Lawful, Free, LeaseNamesHolder
  <1>8. CASE TokenRun(w)
    BY <1>8, Disjoint DEF TokenRun, Lawful, Free, LeaseNamesHolder, RunRow, Row
  <1> QED
    BY <1>1, <1>2, <1>3, <1>4, <1>5, <1>6, <1>7, <1>8
       DEF Post, Reregister, Lawful, Free, LeaseNamesHolder

LEMMA LawfulStep ==
    ASSUME Sound, Lawful, "readopt" \notin Faults, [Next]_vars
    PROVE  Lawful'
  <1>1. CASE SessionSteps \/ WindowSteps
    BY <1>1, SessionStepsLawful, WindowStepsLawful
  <1>2. CASE Expire \/ Recheck
    BY <1>2 DEF Expire, Recheck, Sound, Shapes, RowRecords, Lawful, Free, LeaseNamesHolder
  <1>3. CASE TakenOver
    <2>1. taking' = NobodyTakes /\ ~NobodyTakes.live
      BY <1>3 DEF TakenOver, NobodyTakes
    <2>2. CASE ~taking.live
      BY <1>3, <2>1, <2>2 DEF TakenOver, Lawful, Free, LeaseNamesHolder
    <2>3. CASE taking.live
      <3>1. /\ row'.session = None /\ row'.window = taking.by /\ row'.lease = taking.by
            /\ row'.token = None /\ taking.by # None
        BY <1>3, <2>3 DEF TakenOver, Sound, Shapes, RowRecords, Lawful
      <3> QED  BY <2>1, <3>1 DEF Lawful, LeaseNamesHolder
    <2> QED  BY <2>2, <2>3
  <1>4. CASE LeftOver
    BY <1>4 DEF LeftOver, NobodyTakes, Sound, Shapes, RowRecords, Lawful, Free, LeaseNamesHolder
  <1>5. CASE Crash
    BY <1>5 DEF Crash, Down, NobodyTakes, Lawful, Free, LeaseNamesHolder
  <1>6. CASE Restart
    <2>1. CASE row.session = None
      BY <1>6, <2>1 DEF Restart, Lawful, Free, LeaseNamesHolder
    <2>2. CASE row.session # None /\ Release(row.session)
      BY <1>6, <2>2, LawfulRows DEF Restart, Sound, Shapes, RowRecords
    <2>3. CASE row.session # None /\ AdoptOne(row.session)
      BY <1>6, <2>3 DEF Restart, AdoptOne, Sound, Shapes, RowRecords, Lawful, Free, LeaseNamesHolder
    <2> QED  BY <1>6, <2>1, <2>2, <2>3 DEF Restart, DropOrphan
  <1>7. CASE UNCHANGED vars
    BY <1>7 DEF vars, Lawful, Free, LeaseNamesHolder
  <1> QED  BY <1>1, <1>2, <1>3, <1>4, <1>5, <1>6, <1>7 DEF Next

\* The types, and a lease that is its row's (TypeOK): late deletions and transfers given back to
\* their own session included, as long as no window registers a run that is being taken over.
THEOREM TypeCorrect == "readopt" \notin Faults => (Spec => []TypeOK)
  <1> SUFFICES ASSUME "readopt" \notin Faults PROVE Spec => []TypeOK
    OBVIOUS
  <1>1. Init => Lawful
    BY DEF Init, Lawful, Free, LeaseNamesHolder, NoRow, Row, NobodyTakes
  <1>2. Sound /\ Lawful /\ [Next]_vars => Lawful'
    BY LawfulStep
  <1>3. Sound /\ Lawful => TypeOK
    BY DEF Sound, Shapes, Lawful, Free, TypeOK
  <1> QED  BY <1>1, <1>2, <1>3, AlwaysSound, PTL DEF Spec

-----------------------------------------------------------------------------
(* Who takes a window's file: the action property.                         *)

\* The file of a window goes only to Codex from one that hands over, to a window from one that is
\* gone or that it took over, or with the window itself as it leaves.
FileStands ==
    \A w \in Windows : file.by = w /\ file'.by # w =>
        \/ file'.by \in Sessions /\ at[w] = "handing"
        \/ file'.by \in Windows /\ (at[w] = "dead" \/ row.from = w)
        \/ file'.by = None /\ at[w] = "leaving"

\* A session takes the file only where there is none, or one of a RAVIS that is gone, and removes
\* only its own.
LEMMA SessionSparesWindows ==
    ASSUME OldFiles, NEW s \in Sessions, Acquire(s) \/ TakeForTurn(s) \/ Release(s)
    PROVE  \A w \in Windows : file.by = w => file' = file
  <1>1. CASE Acquire(s)
    BY <1>1, Disjoint DEF OldFiles, Acquire, Stale
  <1>2. CASE TakeForTurn(s)
    BY <1>1, <1>2, Disjoint DEF OldFiles, TakeForTurn, Acquire, Stale
  <1>3. CASE Release(s)
    BY <1>3, Disjoint DEF Release
  <1> QED  BY <1>1, <1>2, <1>3

LEMMA SessionStepsSpare ==
    ASSUME Sound, "owntoken" \notin Faults, SessionSteps PROVE FileStands
  <1>1. PICK s \in Sessions :
           \/ Create(s) \/ OpenFails(s) \/ Turn(s) \/ Steer(s) \/ TurnEnds(s) \/ Settle(s)
           \/ Delete(s) \/ CrashHalfway(s) \/ \E w \in Windows : TokenTurn(w, s)
    BY DEF SessionSteps
  <1>2. CASE Create(s) \/ OpenFails(s) \/ Turn(s) \/ Steer(s) \/ Delete(s)
    <2>1. Acquire(s) \/ TakeForTurn(s) \/ Release(s)
      BY <1>2 DEF Create, OpenFails, Turn, Steer, Delete
    <2> QED  BY <2>1, SessionSparesWindows DEF Sound, FileStands
  <1>3. CASE TurnEnds(s)
    BY <1>3 DEF TurnEnds, FileStands
  <1>4. CASE Settle(s)
    <2>1. Release(s) \/ UNCHANGED file
      BY <1>4 DEF Settle
    <2> QED  BY <2>1, SessionSparesWindows DEF Sound, FileStands
  <1>5. CASE CrashHalfway(s)
    BY <1>5, Disjoint DEF CrashHalfway, Stale, Sound, OldFiles, FileStands
  <1>6. ASSUME NEW w \in Windows, TokenTurn(w, s) PROVE FileStands
    <2>1. at[w] = "handing" /\ row.token = w
      BY <1>6 DEF TokenTurn
    <2>2. file.by = w
      BY <2>1 DEF Sound, Keepers
    <2>3. file' = file \/ file'.by = s
      BY <1>6 DEF TokenTurn, TakeWithToken, Names
    <2> QED  BY <2>1, <2>2, <2>3, Disjoint DEF FileStands
  <1> QED  BY <1>1, <1>2, <1>3, <1>4, <1>5, <1>6

LEMMA WindowStepsSpare ==
    ASSUME Sound, WindowSteps PROVE FileStands
  <1>1. PICK w \in Windows :
           \/ MakeFile(w) \/ Reconcile(w) \/ Leave(w) \/ ReplaceFile(w) \/ DropFile(w)
           \/ MakeFileToSwitch(w) \/ UNCHANGED file
    BY DEF WindowSteps, Post, PostRefused, Unreachable, Reregister, LeaveAlone, Lose, BeatRunning,
           LeaseRelease, WindowDies, TakeOver, NotAnswered, ReserveRun, RunStops, ReserveSession,
           TokenRun, GiveUp
  <1>2. CASE MakeFile(w)
    BY <1>2, Disjoint DEF MakeFile, FileStands
  <1>3. CASE Reconcile(w)
    BY <1>3, Disjoint DEF Reconcile, Stale, Names, Sound, OldFiles, FileStands
  <1>4. CASE Leave(w)
    BY <1>4 DEF Leave, NamesNobody, NoFile, FileStands
  <1>5. CASE ReplaceFile(w)
    BY <1>5, Disjoint DEF ReplaceFile, Names, FileStands
  <1>6. CASE DropFile(w)
    BY <1>6, Disjoint DEF DropFile, FileStands
  <1>7. CASE MakeFileToSwitch(w)
    BY <1>7, Disjoint DEF MakeFileToSwitch, FileStands
  <1>8. CASE UNCHANGED file
    BY <1>8 DEF FileStands
  <1> QED  BY <1>1, <1>2, <1>3, <1>4, <1>5, <1>6, <1>7, <1>8

\* A start of RAVIS, and its recheck, write a file where there is none or a session's.
LEMMA RavisSpares ==
    ASSUME Sound, Restart \/ Recheck \/ Crash PROVE FileStands
  <1>1. CASE Restart
    <2>1. row.session \in Sessions \cup {None}
      BY DEF Sound, Shapes, RowRecords
    <2>2. CASE row.session = None
      BY <1>1, <2>2 DEF Restart, FileStands
    <2>3. CASE row.session # None /\ session[row.session] \in {"none", "ended"}
      BY <1>1, <2>1, <2>3, SessionSparesWindows DEF Restart, DropOrphan, Sound, FileStands
    <2>4. CASE row.session # None /\ session[row.session] \notin {"none", "ended"}
      BY <1>1, <2>1, <2>4, Disjoint DEF Restart, AdoptOne, FileStands
    <2> QED  BY <2>2, <2>3, <2>4
  <1>2. CASE Recheck
    BY <1>2, Disjoint DEF Recheck, FileStands
  <1>3. CASE Crash
    BY <1>3 DEF Crash, FileStands
  <1> QED  BY <1>1, <1>2, <1>3

\* A window's file stands: whatever the order of takeovers, transfers, crashes and
\* reconciliations, nobody replaces or removes the file of a window that goes on.  A window that
\* registers a run which is being taken over, or deletes late, breaks other promises, not this one.
THEOREM WindowFileAlwaysStands == "owntoken" \notin Faults => (Spec => WindowFileStands)
  <1> SUFFICES ASSUME "owntoken" \notin Faults PROVE Spec => WindowFileStands
    OBVIOUS
  <1>1. Sound /\ [Next]_vars => [FileStands]_vars
    <2> SUFFICES ASSUME Sound, Next PROVE FileStands
      OBVIOUS
    <2>1. CASE Expire \/ TakenOver \/ LeftOver
      BY <2>1 DEF Expire, TakenOver, LeftOver, FileStands
    <2>2. CASE SessionSteps  BY <2>2, SessionStepsSpare
    <2>3. CASE WindowSteps  BY <2>3, WindowStepsSpare
    <2>4. CASE Restart \/ Recheck \/ Crash  BY <2>4, RavisSpares
    <2> QED  BY <2>1, <2>2, <2>3, <2>4 DEF Next
  <1>2. Spec => [][FileStands]_vars
    BY <1>1, AlwaysSound, PTL DEF Spec
  <1> QED  BY <1>2 DEF WindowFileStands, FileStands

-----------------------------------------------------------------------------
(* One writer: the invariant of windows that keep to the protocol.        *)

\* A turn has both layers, and runs in a RAVIS that is up.
Layers == TurnHasBothLayers /\ (~up => \A s \in Sessions : session[s] # "working")

\* Which rows there are: none without a holder that is not free; a session's, which may be
\* superseded and was taken from nobody; a window's, whose token, if any, is its own.
Rows == /\ row.session = None /\ row.window = None => Free
        /\ row.session # None => row.from = None
        /\ row.state = "superseded" => row.session # None
        /\ row.session = None /\ row.token # None =>
             row.state = "transferring" /\ row.token = row.window

\* RAVIS's file is its own session's: an old one is of a RAVIS that is gone, and the next one
\* clears it, or makes it its own with the row.
Files == /\ file.old => file.by \in Sessions
         /\ ~up /\ file.by \in Sessions => file.old
         /\ FileHasRow
         /\ up /\ row.session # None /\ file.by = row.session => ~file.old

\* A takeover that is answered later is by a window that waits for it, or died waiting, and is of a
\* run that no token moves.
Takes == /\ taking.by # None => at[taking.by] \in {"taking", "dead"}
         /\ taking.live => /\ taking.by # None
                           /\ row.session = None /\ row.window # None /\ row.token = None

\* A window that hands over keeps its file until Codex took it; one that is handed to has no row
\* before it presents its token.
Hands == \A w \in Windows :
            /\ row.token = w /\ at[w] \in {"stopping", "handing"} =>
                 row.session = None /\ file.by = w
            /\ at[w] \in {"switching", "dropped", "destmade"} => row.window # w /\ row.from # w
            /\ at[w] = "destmade" => file.by = w

IInv == TypeOK /\ Layers /\ Rows /\ Files /\ Takes /\ Hands

LEMMA TurnTakesBothLayers ==
    ASSUME IInv, up, NEW s \in Sessions, TakeForTurn(s)
    PROVE  /\ row' \in RowRecords
           /\ file' \in FileRecords /\ file'.by = s /\ ~file'.old
           /\ noted' \in SUBSET Windows
           /\ row'.state = "running"
           /\ row'.session = s
           /\ row'.window = None /\ row'.lease = None /\ row'.from = None
           /\ row'.token = None \/ (row'.token = row.token /\ row.session = s)
           /\ \A other \in Sessions \ {s} : session[other] # "working"
           /\ \A w \in Windows : at[w] # "destmade"
  <1>0. file.by \in Sessions \cup {None}
    BY DEF IInv, Files, TakeForTurn, Acquire, Stale
  <1>1. \A w \in Windows : at[w] # "destmade"
    BY <1>0, Disjoint DEF IInv, Hands
  <1>2. \A other \in Sessions \ {s} : session[other] # "working"
    BY Disjoint
       DEF IInv, TypeOK, RowRecords, Layers, TurnHasBothLayers, TakeForTurn, Acquire, Free
  <1>3. CASE row.session # s /\ Acquire(s)
    BY <1>1, <1>2, <1>3, Records DEF Acquire, Names, SessionRow, Row, FileRecords
  <1>4. CASE /\ row.session = s
             /\ file.by = s
             /\ row.state = "running"
             /\ UNCHANGED <<row, file, noted>>
    <2>1. ~file.old
      BY <1>4, Disjoint, SMT DEF IInv, Files
    <2>2. row.window = None /\ row.lease = None /\ row.from = None
      BY <1>4, Disjoint DEF IInv, TypeOK, Rows, LeaseNamesHolder
    <2>3. row \in RowRecords /\ file \in FileRecords /\ noted \in SUBSET Windows
      BY DEF IInv, TypeOK
    <2> QED  BY <1>1, <1>2, <1>4, <2>1, <2>2, <2>3
  <1>5. CASE /\ row.session = s
             /\ file.by = s
             /\ row' = [row EXCEPT !.state = "running", !.token = None]
             /\ noted' = {}
             /\ UNCHANGED file
    <2>1. ~file.old
      BY <1>5, Disjoint, SMT DEF IInv, Files
    <2>2. row.window = None /\ row.lease = None /\ row.from = None
      BY <1>5, Disjoint DEF IInv, TypeOK, Rows, LeaseNamesHolder
    <2>3. row \in RowRecords /\ file \in FileRecords
      BY DEF IInv, TypeOK
    <2>4. /\ row' \in RowRecords
          /\ row'.state = "running" /\ row'.token = None
          /\ row'.session = s /\ row'.window = None /\ row'.lease = None /\ row'.from = None
      BY <1>5, <2>2, <2>3 DEF RowRecords, RowStates
    <2> QED  BY <1>1, <1>2, <1>5, <2>1, <2>3, <2>4
  <1> QED  BY <1>3, <1>4, <1>5 DEF TakeForTurn

-----------------------------------------------------------------------------
(* One lemma for each action: what it does to each part of the invariant. *)

LEMMA CreateKeeps == ASSUME IInv, TypeOK', Faults = {}, NEW s \in Sessions, Create(s) PROVE IInv'
  <1>1. Layers'
    BY DEF IInv, Layers, TurnHasBothLayers, Free, Create, Acquire, Names, SessionRow, Row, Becomes
  <1>2. Rows'
    BY Disjoint DEF Rows, Create, Acquire, SessionRow, Row
  <1>3. Files'
    BY DEF Files, FileHasRow, Create, Acquire, Names, SessionRow, Row
  <1>4. Takes'
    BY DEF IInv, Takes, TypeOK, Create, Acquire
  <1>5. Hands'
    BY Disjoint DEF IInv, Hands, Files, Create, Acquire, Stale, SessionRow, Row
  <1> QED  BY <1>1, <1>2, <1>3, <1>4, <1>5 DEF IInv

LEMMA OpenFailsKeeps ==
    ASSUME IInv, TypeOK', Faults = {}, NEW s \in Sessions, OpenFails(s)
    PROVE  IInv'
  <1>1. Layers'
    BY DEF IInv, Layers, TypeOK, TurnHasBothLayers, OpenFails, Becomes
  <1>2. Rows'
    BY DEF IInv, Rows, Free, OpenFails, Release, NoRow, Row
  <1>3. Files'
    BY DEF IInv, Files, FileHasRow, OpenFails, Release, NoRow, Row, NamesNobody, NoFile
  <1>4. Takes'
    BY Disjoint DEF IInv, Takes, OpenFails, Release
  <1>5. Hands'
    BY Disjoint DEF IInv, Hands, OpenFails, Release, NoRow, Row
  <1> QED  BY <1>1, <1>2, <1>3, <1>4, <1>5 DEF IInv

LEMMA TurnKeeps == ASSUME IInv, TypeOK', Faults = {}, NEW s \in Sessions, Turn(s) PROVE IInv'
  <1>0. /\ up /\ UNCHANGED <<at, taking, up, crashes>>
        /\ row' \in RowRecords
        /\ file' \in FileRecords /\ file'.by = s /\ ~file'.old
        /\ noted' \in SUBSET Windows
        /\ row'.state = "running" /\ row'.session = s
        /\ row'.window = None /\ row'.lease = None /\ row'.from = None
        /\ row'.token = None \/ (row'.token = row.token /\ row.session = s)
        /\ \A other \in Sessions \ {s} : session[other] # "working"
        /\ \A w \in Windows : at[w] # "destmade"
    BY TurnTakesBothLayers DEF Turn
  <1>1. Layers'
    BY <1>0 DEF Layers, TurnHasBothLayers, Turn, Becomes
  <1>2. Rows'
    BY <1>0, Disjoint DEF Rows
  <1>3. Files'
    BY <1>0 DEF Files, FileHasRow
  <1>4. Takes'
    BY <1>0 DEF IInv, Takes, TypeOK, RowRecords, TakeForTurn, Acquire, Turn
  <1>5. Hands'
    BY <1>0, Disjoint DEF IInv, Hands
  <1> QED  BY <1>1, <1>2, <1>3, <1>4, <1>5 DEF IInv

LEMMA SteerKeeps == ASSUME IInv, TypeOK', Faults = {}, NEW s \in Sessions, Steer(s) PROVE IInv'
  <1>0. /\ up /\ UNCHANGED <<at, taking, up, crashes>>
        /\ row' \in RowRecords
        /\ file' \in FileRecords /\ file'.by = s /\ ~file'.old
        /\ noted' \in SUBSET Windows
        /\ row'.state = "running" /\ row'.session = s
        /\ row'.window = None /\ row'.lease = None /\ row'.from = None
        /\ row'.token = None \/ (row'.token = row.token /\ row.session = s)
        /\ \A other \in Sessions \ {s} : session[other] # "working"
        /\ \A w \in Windows : at[w] # "destmade"
    BY TurnTakesBothLayers DEF Steer
  <1>1. Layers'
    BY <1>0 DEF Layers, TurnHasBothLayers, Steer
  <1>2. Rows'
    BY <1>0, Disjoint DEF Rows
  <1>3. Files'
    BY <1>0 DEF Files, FileHasRow
  <1>4. Takes'
    BY <1>0 DEF IInv, Takes, TypeOK, RowRecords, TakeForTurn, Acquire, Steer
  <1>5. Hands'
    BY <1>0, Disjoint DEF IInv, Hands
  <1> QED  BY <1>1, <1>2, <1>3, <1>4, <1>5 DEF IInv

LEMMA TurnEndsKeeps ==
    ASSUME IInv, TypeOK', Faults = {}, NEW s \in Sessions, TurnEnds(s)
    PROVE  IInv'
  <1>1. Layers'
    BY DEF IInv, Layers, TurnHasBothLayers, TurnEnds, Becomes
  <1>2. Rows'
    BY DEF IInv, Rows, Free, TurnEnds
  <1>3. Files'
    BY DEF IInv, Files, FileHasRow, TurnEnds
  <1>4. Takes'
    BY DEF IInv, Takes, TurnEnds
  <1>5. Hands'
    BY DEF IInv, Hands, TurnEnds
  <1> QED  BY <1>1, <1>2, <1>3, <1>4, <1>5 DEF IInv

LEMMA SettleKeeps == ASSUME IInv, TypeOK', Faults = {}, NEW s \in Sessions, Settle(s) PROVE IInv'
  <1>1. Layers'
    BY DEF IInv, Layers, TypeOK, TurnHasBothLayers, Settle, Release, Becomes
  <1>2. Rows'
    BY DEF IInv, Rows, Free, Settle, Release, NoRow, Row
  <1>3. Files'
    BY DEF IInv, Files, FileHasRow, Settle, Release, NoRow, Row, NamesNobody, NoFile
  <1>4. Takes'
    BY Disjoint DEF IInv, Takes, Settle, Release
  <1>5. Hands'
    BY Disjoint DEF IInv, Hands, Settle, Release, NoRow, Row
  <1> QED  BY <1>1, <1>2, <1>3, <1>4, <1>5 DEF IInv

LEMMA DeleteKeeps == ASSUME IInv, TypeOK', Faults = {}, NEW s \in Sessions, Delete(s) PROVE IInv'
  <1>1. Layers'
    BY DEF IInv, Layers, TurnHasBothLayers, Delete, Release, Becomes
  <1>2. Rows'
    BY DEF IInv, Rows, Free, Delete, Release, NoRow, Row
  <1>3. Files'
    BY DEF IInv, Files, FileHasRow, Delete, Release, NoRow, Row, NamesNobody, NoFile
  <1>4. Takes'
    BY Disjoint DEF IInv, Takes, Delete, Release
  <1>5. Hands'
    BY Disjoint DEF IInv, Hands, Delete, Release, NoRow, Row
  <1> QED  BY <1>1, <1>2, <1>3, <1>4, <1>5 DEF IInv

LEMMA CrashHalfwayKeeps ==
    ASSUME IInv, TypeOK', Faults = {}, NEW s \in Sessions, CrashHalfway(s)
    PROVE  IInv'
  <1>1. Layers'
    BY DEF Layers, TurnHasBothLayers, CrashHalfway, Down
  <1>2. Rows'
    BY Disjoint DEF Rows, Free, CrashHalfway, NoRow, Row, SessionRow
  <1>3. Files'
    BY DEF Files, FileHasRow, CrashHalfway, Down
  <1>4. Takes'
    BY DEF Takes, CrashHalfway, Down, NobodyTakes
  <1>5. Hands'
    BY Disjoint DEF IInv, Hands, Files, CrashHalfway, Stale, NoRow, Row, SessionRow
  <1> QED  BY <1>1, <1>2, <1>3, <1>4, <1>5 DEF IInv

LEMMA ExpireKeeps == ASSUME IInv, TypeOK', Faults = {}, Expire PROVE IInv'
  <1>1. Layers'
    BY DEF IInv, Layers, TurnHasBothLayers, Expire
  <1>2. Rows'
    BY DEF IInv, Rows, Expire
  <1>3. Files'
    BY DEF IInv, Files, FileHasRow, Expire
  <1>4. Takes'
    BY DEF IInv, Takes, Expire
  <1>5. Hands'
    BY Disjoint DEF IInv, Hands, Expire
  <1> QED  BY <1>1, <1>2, <1>3, <1>4, <1>5 DEF IInv

LEMMA MakeFileKeeps ==
    ASSUME IInv, TypeOK', Faults = {}, NEW w \in Windows, MakeFile(w)
    PROVE  IInv'
  <1>1. Layers'
    BY Disjoint DEF IInv, Layers, TurnHasBothLayers, MakeFile
  <1>2. Rows'
    BY DEF IInv, Rows, Free, MakeFile
  <1>3. Files'
    BY Disjoint DEF Files, FileHasRow, MakeFile, Names
  <1>4. Takes'
    BY DEF IInv, Takes, MakeFile, Goes
  <1>5. Hands'
    BY Disjoint DEF IInv, Hands, MakeFile, Goes
  <1> QED  BY <1>1, <1>2, <1>3, <1>4, <1>5 DEF IInv

LEMMA ReconcileKeeps ==
    ASSUME IInv, TypeOK', Faults = {}, NEW w \in Windows, Reconcile(w)
    PROVE  IInv'
  <1>1. Layers'
    BY Disjoint DEF IInv, Layers, TurnHasBothLayers, Reconcile, Stale
  <1>2. Rows'
    BY DEF IInv, Rows, Free, Reconcile
  <1>3. Files'
    BY Disjoint DEF Files, FileHasRow, Reconcile, Names
  <1>4. Takes'
    BY DEF IInv, Takes, Reconcile, Goes
  <1>5. Hands'
    BY Disjoint DEF IInv, Hands, Files, Reconcile, Stale, Goes
  <1> QED  BY <1>1, <1>2, <1>3, <1>4, <1>5 DEF IInv

LEMMA PostKeeps == ASSUME IInv, TypeOK', Faults = {}, NEW w \in Windows, Post(w) PROVE IInv'
  <1>1. Layers'
    BY DEF IInv, Layers, TurnHasBothLayers, Free, Post, Register, MayRegister, Adoptable
  <1>2. Rows'
    BY Disjoint DEF IInv, Rows, Post, Register, RunRow, Row
  <1>3. Files'
    BY Disjoint DEF IInv, Files, FileHasRow, Post, Register, MayRegister
  <1>4. Takes'
    BY DEF IInv, Takes, TypeOK, Post, Register, Goes
  <1>5. Hands'
    BY Disjoint DEF IInv, Hands, Post, Register, RunRow, Row, Goes
  <1> QED  BY <1>1, <1>2, <1>3, <1>4, <1>5 DEF IInv

LEMMA PostRefusedKeeps ==
    ASSUME IInv, TypeOK', Faults = {}, NEW w \in Windows, PostRefused(w)
    PROVE  IInv'
  <1>1. Layers'
    BY DEF IInv, Layers, TurnHasBothLayers, PostRefused
  <1>2. Rows'
    BY DEF IInv, Rows, Free, PostRefused
  <1>3. Files'
    BY DEF IInv, Files, FileHasRow, PostRefused
  <1>4. Takes'
    BY DEF IInv, Takes, PostRefused, Goes
  <1>5. Hands'
    BY DEF IInv, Hands, PostRefused, Goes
  <1> QED  BY <1>1, <1>2, <1>3, <1>4, <1>5 DEF IInv

LEMMA UnreachableKeeps ==
    ASSUME IInv, TypeOK', Faults = {}, NEW w \in Windows, Unreachable(w)
    PROVE  IInv'
  <1>1. Layers'
    BY DEF IInv, Layers, TurnHasBothLayers, Unreachable
  <1>2. Rows'
    BY DEF IInv, Rows, Free, Unreachable
  <1>3. Files'
    BY DEF IInv, Files, FileHasRow, Unreachable
  <1>4. Takes'
    BY DEF IInv, Takes, Unreachable, Goes
  <1>5. Hands'
    BY DEF IInv, Hands, Unreachable, Goes
  <1> QED  BY <1>1, <1>2, <1>3, <1>4, <1>5 DEF IInv

LEMMA ReregisterKeeps ==
    ASSUME IInv, TypeOK', Faults = {}, NEW w \in Windows, Reregister(w)
    PROVE  IInv'
  <1>1. Layers'
    BY DEF IInv, Layers, TurnHasBothLayers, Free, Reregister, Register, MayRegister, Adoptable
  <1>2. Rows'
    BY Disjoint DEF IInv, Rows, Reregister, Register, RunRow, Row
  <1>3. Files'
    BY Disjoint DEF IInv, Files, FileHasRow, Reregister
  <1>4. Takes'
    BY DEF IInv, Takes, TypeOK, Reregister, Register, Goes
  <1>5. Hands'
    BY Disjoint DEF IInv, Hands, Reregister, Register, RunRow, Row, Goes
  <1> QED  BY <1>1, <1>2, <1>3, <1>4, <1>5 DEF IInv

LEMMA LeaveAloneKeeps ==
    ASSUME IInv, TypeOK', Faults = {}, NEW w \in Windows, LeaveAlone(w)
    PROVE  IInv'
  <1>1. Layers'
    BY DEF IInv, Layers, TurnHasBothLayers, LeaveAlone
  <1>2. Rows'
    BY DEF IInv, Rows, Free, LeaveAlone
  <1>3. Files'
    BY DEF IInv, Files, FileHasRow, LeaveAlone
  <1>4. Takes'
    BY DEF IInv, Takes, LeaveAlone, Goes
  <1>5. Hands'
    BY DEF IInv, Hands, LeaveAlone, Goes
  <1> QED  BY <1>1, <1>2, <1>3, <1>4, <1>5 DEF IInv

LEMMA LoseKeeps == ASSUME IInv, TypeOK', Faults = {}, NEW w \in Windows, Lose(w) PROVE IInv'
  <1>1. Layers'
    BY DEF IInv, Layers, TurnHasBothLayers, Lose
  <1>2. Rows'
    BY DEF IInv, Rows, Free, Lose
  <1>3. Files'
    BY DEF IInv, Files, FileHasRow, Lose
  <1>4. Takes'
    BY DEF IInv, Takes, Lose, Goes
  <1>5. Hands'
    BY DEF IInv, Hands, Lose, Goes
  <1> QED  BY <1>1, <1>2, <1>3, <1>4, <1>5 DEF IInv

LEMMA BeatRunningKeeps ==
    ASSUME IInv, TypeOK', Faults = {}, NEW w \in Windows, BeatRunning(w)
    PROVE  IInv'
  <1>1. Layers'
    BY DEF IInv, Layers, TurnHasBothLayers, BeatRunning
  <1>2. Rows'
    BY DEF IInv, Rows, Free, BeatRunning
  <1>3. Files'
    BY DEF IInv, Files, FileHasRow, BeatRunning
  <1>4. Takes'
    BY DEF IInv, Takes, BeatRunning, Goes
  <1>5. Hands'
    BY Disjoint DEF IInv, Hands, BeatRunning, Goes
  <1> QED  BY <1>1, <1>2, <1>3, <1>4, <1>5 DEF IInv

LEMMA LeaseReleaseKeeps ==
    ASSUME IInv, TypeOK', Faults = {}, NEW w \in Windows, LeaseRelease(w)
    PROVE  IInv'
  <1>1. Layers'
    BY Disjoint
       DEF IInv, Layers, TypeOK, LeaseNamesHolder, TurnHasBothLayers, LeaseRelease, Leased
  <1>2. Rows'
    BY DEF Rows, Free, LeaseRelease, NoRow, Row
  <1>3. Files'
    BY Disjoint
       DEF IInv, Files, TypeOK, FileHasRow, LeaseNamesHolder, LeaseRelease, Leased, NoRow, Row
  <1>4. Takes'
    BY DEF IInv, Takes, LeaseRelease, Goes
  <1>5. Hands'
    BY Disjoint DEF IInv, Hands, LeaseRelease, NoRow, Row, Goes
  <1> QED  BY <1>1, <1>2, <1>3, <1>4, <1>5 DEF IInv

LEMMA LeaveKeeps == ASSUME IInv, TypeOK', Faults = {}, NEW w \in Windows, Leave(w) PROVE IInv'
  <1>1. Layers'
    BY Disjoint DEF IInv, Layers, TurnHasBothLayers, Leave
  <1>2. Rows'
    BY DEF IInv, Rows, Free, Leave
  <1>3. Files'
    BY Disjoint DEF IInv, Files, FileHasRow, Leave, NamesNobody, NoFile
  <1>4. Takes'
    BY DEF IInv, Takes, Leave, Goes
  <1>5. Hands'
    BY DEF IInv, Hands, Leave, Goes
  <1> QED  BY <1>1, <1>2, <1>3, <1>4, <1>5 DEF IInv

LEMMA WindowDiesKeeps ==
    ASSUME IInv, TypeOK', Faults = {}, NEW w \in Windows, WindowDies(w)
    PROVE  IInv'
  <1>1. Layers'
    BY DEF IInv, Layers, TurnHasBothLayers, WindowDies
  <1>2. Rows'
    BY DEF IInv, Rows, Free, WindowDies
  <1>3. Files'
    BY DEF IInv, Files, FileHasRow, WindowDies
  <1>4. Takes'
    BY DEF IInv, Takes, WindowDies, Goes
  <1>5. Hands'
    BY DEF IInv, Hands, WindowDies, Goes
  <1> QED  BY <1>1, <1>2, <1>3, <1>4, <1>5 DEF IInv

LEMMA TakeOverKeeps ==
    ASSUME IInv, TypeOK', Faults = {}, NEW w \in Windows, TakeOver(w)
    PROVE  IInv'
  <1>1. Layers'
    BY DEF IInv, Layers, TurnHasBothLayers, TakeOver
  <1>2. Rows'
    BY DEF IInv, Rows, TakeOver
  <1>3. Files'
    BY DEF IInv, Files, FileHasRow, TakeOver
  <1>4. Takes'
    BY Disjoint DEF IInv, Takes, TypeOK, Rows, TakeOver, Goes
  <1>5. Hands'
    BY DEF IInv, Hands, TakeOver, Goes
  <1> QED  BY <1>1, <1>2, <1>3, <1>4, <1>5 DEF IInv

LEMMA NotAnsweredKeeps ==
    ASSUME IInv, TypeOK', Faults = {}, NEW w \in Windows, NotAnswered(w)
    PROVE  IInv'
  <1>1. Layers'
    BY DEF IInv, Layers, TurnHasBothLayers, NotAnswered
  <1>2. Rows'
    BY DEF IInv, Rows, Free, NotAnswered
  <1>3. Files'
    BY DEF IInv, Files, FileHasRow, NotAnswered
  <1>4. Takes'
    BY DEF IInv, Takes, NotAnswered, Goes
  <1>5. Hands'
    BY DEF IInv, Hands, NotAnswered, Goes
  <1> QED  BY <1>1, <1>2, <1>3, <1>4, <1>5 DEF IInv

LEMMA ReplaceFileKeeps ==
    ASSUME IInv, TypeOK', Faults = {}, NEW w \in Windows, ReplaceFile(w)
    PROVE  IInv'
  <1>1. Layers'
    BY Disjoint DEF IInv, Layers, TurnHasBothLayers, Rows, ReplaceFile
  <1>2. Rows'
    BY DEF IInv, Rows, Free, ReplaceFile
  <1>3. Files'
    BY Disjoint DEF IInv, Files, FileHasRow, ReplaceFile, Names
  <1>4. Takes'
    BY DEF IInv, Takes, TypeOK, ReplaceFile, Goes
  <1>5. Hands'
    BY Disjoint DEF IInv, Hands, TypeOK, Rows, ReplaceFile, Goes
  <1> QED  BY <1>1, <1>2, <1>3, <1>4, <1>5 DEF IInv

LEMMA ReserveRunKeeps ==
    ASSUME IInv, TypeOK', Faults = {}, NEW w \in Windows, ReserveRun(w)
    PROVE  IInv'
  <1>1. Layers'
    BY DEF IInv, Layers, TurnHasBothLayers, ReserveRun, Reserve
  <1>2. Rows'
    BY Disjoint DEF IInv, Rows, TypeOK, LeaseNamesHolder, ReserveRun, Leased, Reserve
  <1>3. Files'
    BY DEF IInv, Files, FileHasRow, ReserveRun, Reserve
  <1>4. Takes'
    BY DEF IInv, Takes, ReserveRun
  <1>5. Hands'
    BY Disjoint DEF IInv, Hands, TypeOK, LeaseNamesHolder, ReserveRun, Leased, Reserve, Goes
  <1> QED  BY <1>1, <1>2, <1>3, <1>4, <1>5 DEF IInv

LEMMA RunStopsKeeps ==
    ASSUME IInv, TypeOK', Faults = {}, NEW w \in Windows, RunStops(w)
    PROVE  IInv'
  <1>1. Layers'
    BY DEF IInv, Layers, TurnHasBothLayers, RunStops
  <1>2. Rows'
    BY DEF IInv, Rows, Free, RunStops
  <1>3. Files'
    BY DEF IInv, Files, FileHasRow, RunStops
  <1>4. Takes'
    BY DEF IInv, Takes, RunStops, Goes
  <1>5. Hands'
    BY DEF IInv, Hands, RunStops, Goes
  <1> QED  BY <1>1, <1>2, <1>3, <1>4, <1>5 DEF IInv

LEMMA ReserveSessionKeeps ==
    ASSUME IInv, TypeOK', Faults = {}, NEW w \in Windows, ReserveSession(w)
    PROVE  IInv'
  <1>1. Layers'
    BY DEF IInv, Layers, TurnHasBothLayers, ReserveSession, Reserve
  <1>2. Rows'
    BY DEF IInv, Rows, ReserveSession, Reserve
  <1>3. Files'
    BY DEF IInv, Files, FileHasRow, ReserveSession, Reserve
  <1>4. Takes'
    BY DEF IInv, Takes, ReserveSession, Goes
  <1>5. Hands'
    BY Disjoint DEF IInv, Hands, TypeOK, Rows, LeaseNamesHolder, ReserveSession, Reserve, Goes
  <1> QED  BY <1>1, <1>2, <1>3, <1>4, <1>5 DEF IInv

LEMMA DropFileKeeps ==
    ASSUME IInv, TypeOK', Faults = {}, NEW w \in Windows, DropFile(w)
    PROVE  IInv'
  <1>1. Layers'
    BY DEF IInv, Layers, TurnHasBothLayers, DropFile
  <1>2. Rows'
    BY DEF IInv, Rows, Free, DropFile
  <1>3. Files'
    BY Disjoint DEF Files, FileHasRow, DropFile, NamesNobody, NoFile
  <1>4. Takes'
    BY DEF IInv, Takes, DropFile, Goes
  <1>5. Hands'
    BY Disjoint DEF IInv, Hands, DropFile, Goes
  <1> QED  BY <1>1, <1>2, <1>3, <1>4, <1>5 DEF IInv

LEMMA MakeFileToSwitchKeeps ==
    ASSUME IInv, TypeOK', Faults = {}, NEW w \in Windows, MakeFileToSwitch(w)
    PROVE  IInv'
  <1>1. Layers'
    BY Disjoint DEF IInv, Layers, TurnHasBothLayers, MakeFileToSwitch
  <1>2. Rows'
    BY DEF IInv, Rows, Free, MakeFileToSwitch
  <1>3. Files'
    BY Disjoint DEF IInv, Files, FileHasRow, MakeFileToSwitch, Names
  <1>4. Takes'
    BY DEF IInv, Takes, TypeOK, MakeFileToSwitch, Goes
  <1>5. Hands'
    BY Disjoint DEF IInv, Hands, TypeOK, MakeFileToSwitch, Names, Goes
  <1> QED  BY <1>1, <1>2, <1>3, <1>4, <1>5 DEF IInv

LEMMA TokenRunKeeps ==
    ASSUME IInv, TypeOK', Faults = {}, NEW w \in Windows, TokenRun(w)
    PROVE  IInv'
  <1>1. Layers'
    BY Disjoint DEF IInv, Layers, TurnHasBothLayers, Hands, TokenRun
  <1>2. Rows'
    BY Disjoint DEF Rows, TokenRun, RunRow, Row
  <1>3. Files'
    BY Disjoint DEF IInv, Files, Hands, FileHasRow, TokenRun
  <1>4. Takes'
    BY DEF IInv, Takes, TokenRun, Goes
  <1>5. Hands'
    BY Disjoint DEF IInv, Hands, TypeOK, TokenRun, RunRow, Row, Goes
  <1> QED  BY <1>1, <1>2, <1>3, <1>4, <1>5 DEF IInv

LEMMA GiveUpKeeps == ASSUME IInv, TypeOK', Faults = {}, NEW w \in Windows, GiveUp(w) PROVE IInv'
  <1>1. Layers'
    BY DEF IInv, Layers, TurnHasBothLayers, GiveUp
  <1>2. Rows'
    BY DEF IInv, Rows, Free, GiveUp
  <1>3. Files'
    BY DEF IInv, Files, FileHasRow, GiveUp
  <1>4. Takes'
    BY DEF IInv, Takes, GiveUp, Goes
  <1>5. Hands'
    BY DEF IInv, Hands, GiveUp, Goes
  <1> QED  BY <1>1, <1>2, <1>3, <1>4, <1>5 DEF IInv

LEMMA TakenOverKeeps == ASSUME IInv, TypeOK', Faults = {}, TakenOver PROVE IInv'
  <1>1. Layers'
    BY DEF IInv, Layers, TurnHasBothLayers, TakenOver
  <1>2. Rows'
    BY DEF IInv, Rows, TypeOK, LeaseNamesHolder, Free, TakenOver
  <1>3. Files'
    BY DEF IInv, Files, FileHasRow, TakenOver
  <1>4. Takes'
    BY DEF Takes, TakenOver, NobodyTakes
  <1>5. Hands'
    BY DEF IInv, Hands, Takes, TakenOver, Answered
  <1> QED  BY <1>1, <1>2, <1>3, <1>4, <1>5 DEF IInv

LEMMA LeftOverKeeps == ASSUME IInv, TypeOK', Faults = {}, LeftOver PROVE IInv'
  <1>1. Layers'
    BY Disjoint DEF IInv, Layers, TurnHasBothLayers, Takes, LeftOver
  <1>2. Rows'
    BY DEF IInv, Rows, Free, Takes, LeftOver
  <1>3. Files'
    BY DEF IInv, Files, FileHasRow, LeftOver
  <1>4. Takes'
    BY DEF Takes, LeftOver, NobodyTakes
  <1>5. Hands'
    BY DEF IInv, Hands, LeftOver, Answered
  <1> QED  BY <1>1, <1>2, <1>3, <1>4, <1>5 DEF IInv

LEMMA CrashKeeps == ASSUME IInv, TypeOK', Faults = {}, Crash PROVE IInv'
  <1>1. Layers'
    BY DEF Layers, TurnHasBothLayers, Crash, Down
  <1>2. Rows'
    BY DEF IInv, Rows, Free, Crash
  <1>3. Files'
    BY DEF IInv, Files, FileHasRow, Crash, Down
  <1>4. Takes'
    BY DEF Takes, Crash, Down, NobodyTakes
  <1>5. Hands'
    BY DEF IInv, Hands, Crash
  <1> QED  BY <1>1, <1>2, <1>3, <1>4, <1>5 DEF IInv

LEMMA RestartKeeps == ASSUME IInv, TypeOK', Faults = {}, Restart PROVE IInv'
  <1>1. Layers'
    BY DEF IInv, Layers, TurnHasBothLayers, Restart
  <1>2. Rows'
    BY DEF IInv, Rows, TypeOK, RowRecords, Free, Restart, DropOrphan, Release, NoRow, Row,
           AdoptOne
  <1>3. Files'
    BY DEF IInv, Files, TypeOK, RowRecords, FileHasRow, Restart, DropOrphan, Release, NoRow, Row,
           NamesNobody, NoFile, AdoptOne, Names
  <1>4. Takes'
    BY DEF IInv, Takes, Restart
  <1>5. Hands'
    BY Disjoint
       DEF IInv, Hands, TypeOK, RowRecords, Restart, DropOrphan, Release, NoRow, Row, AdoptOne
  <1> QED  BY <1>1, <1>2, <1>3, <1>4, <1>5 DEF IInv

LEMMA RecheckKeeps == ASSUME IInv, TypeOK', Faults = {}, Recheck PROVE IInv'
  <1>1. Layers'
    BY DEF IInv, Layers, TurnHasBothLayers, Recheck
  <1>2. Rows'
    BY DEF IInv, Rows, Recheck
  <1>3. Files'
    BY DEF Files, FileHasRow, Recheck, Names
  <1>4. Takes'
    BY DEF IInv, Takes, Recheck
  <1>5. Hands'
    BY DEF IInv, Hands, Rows, Recheck
  <1> QED  BY <1>1, <1>2, <1>3, <1>4, <1>5 DEF IInv

LEMMA TokenTurnKeeps ==
    ASSUME IInv, TypeOK', Faults = {}, NEW w \in Windows, NEW s \in Sessions, TokenTurn(w, s)
    PROVE  IInv'
  <1>1. Layers'
    BY Disjoint DEF IInv, Layers, TurnHasBothLayers, Hands, TokenTurn, TakeWithToken, SessionRow,
           Row, Names, Becomes
  <1>2. Rows'
    BY Disjoint DEF Rows, TokenTurn, TakeWithToken, SessionRow, Row
  <1>3. Files'
    BY DEF IInv, Files, FileHasRow, TokenTurn, TakeWithToken, SessionRow, Row, Names
  <1>4. Takes'
    BY Disjoint DEF IInv, Takes, TokenTurn, Goes
  <1>5. Hands'
    BY Disjoint DEF IInv, Hands, TokenTurn, TakeWithToken, SessionRow, Row, Goes
  <1> QED  BY <1>1, <1>2, <1>3, <1>4, <1>5 DEF IInv

-----------------------------------------------------------------------------
(* The invariant, and what follows from it.                               *)

LEMMA InitIInv == ASSUME Init PROVE IInv
  <1>1. /\ NoRow \in RowRecords /\ NoRow.state = "free" /\ NoRow.session = None
        /\ NoRow.window = None
        /\ NoRow.lease = None /\ NoRow.token = None /\ NoRow.from = None
    BY Records DEF NoRow, Row
  <1>2. /\ NoFile \in FileRecords /\ NoFile.by = None /\ ~NoFile.old
        /\ NobodyTakes \in [by : Windows \cup {None}, live : BOOLEAN]
        /\ NobodyTakes.by = None /\ ~NobodyTakes.live
    BY Records DEF NoFile, NobodyTakes
  <1>3. crashes \in 0 .. MaxCrashes
    <2>1. MaxCrashes \in Nat /\ crashes = 0
      BY LockAssumption DEF Init
    <2> QED  BY <2>1
  <1>4. TypeOK
    BY <1>1, <1>2, <1>3 DEF Init, TypeOK, LeaseNamesHolder, Free, SessionStates, WindowStates
  <1>5. Layers
    BY DEF Init, Layers, TurnHasBothLayers
  <1>6. Rows
    BY <1>1 DEF Init, Rows, Free
  <1>7. Files
    BY <1>1, <1>2, Disjoint DEF Init, Files, FileHasRow
  <1>8. Takes
    BY <1>2 DEF Init, Takes
  <1>9. Hands
    BY <1>1 DEF Init, Hands
  <1> QED  BY <1>4, <1>5, <1>6, <1>7, <1>8, <1>9 DEF IInv

\* Every step of a session keeps the invariant.
LEMMA SessionStepsKeep == ASSUME IInv, TypeOK', Faults = {}, SessionSteps PROVE IInv'
  <1>1. PICK s \in Sessions :
           \/ Create(s) \/ OpenFails(s) \/ Turn(s) \/ Steer(s) \/ TurnEnds(s) \/ Settle(s)
           \/ Delete(s) \/ CrashHalfway(s) \/ \E w \in Windows : TokenTurn(w, s)
    BY DEF SessionSteps
  <1>2. CASE Create(s)  BY <1>2, CreateKeeps
  <1>3. CASE OpenFails(s)  BY <1>3, OpenFailsKeeps
  <1>4. CASE Turn(s)  BY <1>4, TurnKeeps
  <1>5. CASE Steer(s)  BY <1>5, SteerKeeps
  <1>6. CASE TurnEnds(s)  BY <1>6, TurnEndsKeeps
  <1>7. CASE Settle(s)  BY <1>7, SettleKeeps
  <1>8. CASE Delete(s)  BY <1>8, DeleteKeeps
  <1>9. CASE CrashHalfway(s)  BY <1>9, CrashHalfwayKeeps
  <1>10. ASSUME NEW w \in Windows, TokenTurn(w, s) PROVE IInv'
    BY <1>10, TokenTurnKeeps
  <1> QED  BY <1>1, <1>2, <1>3, <1>4, <1>5, <1>6, <1>7, <1>8, <1>9, <1>10

\* Every step of a window, and RAVIS's answer to it, keeps the invariant.
LEMMA WindowStepsKeep == ASSUME IInv, TypeOK', Faults = {}, WindowSteps PROVE IInv'
  <1>1. PICK w \in Windows :
           \/ MakeFile(w) \/ Reconcile(w) \/ Post(w) \/ PostRefused(w) \/ Unreachable(w)
           \/ Reregister(w) \/ LeaveAlone(w) \/ Lose(w) \/ BeatRunning(w) \/ LeaseRelease(w)
           \/ Leave(w) \/ WindowDies(w) \/ TakeOver(w) \/ NotAnswered(w) \/ ReplaceFile(w)
           \/ ReserveRun(w) \/ RunStops(w) \/ ReserveSession(w) \/ DropFile(w)
           \/ MakeFileToSwitch(w) \/ TokenRun(w) \/ GiveUp(w)
    BY DEF WindowSteps
  <1>2. CASE MakeFile(w)  BY <1>2, MakeFileKeeps
  <1>3. CASE Reconcile(w)  BY <1>3, ReconcileKeeps
  <1>4. CASE Post(w)  BY <1>4, PostKeeps
  <1>5. CASE PostRefused(w)  BY <1>5, PostRefusedKeeps
  <1>6. CASE Unreachable(w)  BY <1>6, UnreachableKeeps
  <1>7. CASE Reregister(w)  BY <1>7, ReregisterKeeps
  <1>8. CASE LeaveAlone(w)  BY <1>8, LeaveAloneKeeps
  <1>9. CASE Lose(w)  BY <1>9, LoseKeeps
  <1>10. CASE BeatRunning(w)  BY <1>10, BeatRunningKeeps
  <1>11. CASE LeaseRelease(w)  BY <1>11, LeaseReleaseKeeps
  <1>12. CASE Leave(w)  BY <1>12, LeaveKeeps
  <1>13. CASE WindowDies(w)  BY <1>13, WindowDiesKeeps
  <1>14. CASE TakeOver(w)  BY <1>14, TakeOverKeeps
  <1>15. CASE NotAnswered(w)  BY <1>15, NotAnsweredKeeps
  <1>16. CASE ReplaceFile(w)  BY <1>16, ReplaceFileKeeps
  <1>17. CASE ReserveRun(w)  BY <1>17, ReserveRunKeeps
  <1>18. CASE RunStops(w)  BY <1>18, RunStopsKeeps
  <1>19. CASE ReserveSession(w)  BY <1>19, ReserveSessionKeeps
  <1>20. CASE DropFile(w)  BY <1>20, DropFileKeeps
  <1>21. CASE MakeFileToSwitch(w)  BY <1>21, MakeFileToSwitchKeeps
  <1>22. CASE TokenRun(w)  BY <1>22, TokenRunKeeps
  <1>23. CASE GiveUp(w)  BY <1>23, GiveUpKeeps
  <1> QED
    BY <1>1, <1>2, <1>3, <1>4, <1>5, <1>6, <1>7, <1>8, <1>9, <1>10, <1>11, <1>12, <1>13, <1>14,
       <1>15, <1>16, <1>17, <1>18, <1>19, <1>20, <1>21, <1>22, <1>23

LEMMA UnchangedKeeps == ASSUME IInv, TypeOK', UNCHANGED vars PROVE IInv'
  <1>1. Layers'
    BY DEF IInv, vars, Layers, TurnHasBothLayers
  <1>2. Rows'
    BY DEF IInv, vars, Rows, Free
  <1>3. Files'
    BY DEF IInv, vars, Files, FileHasRow
  <1>4. Takes'
    BY DEF IInv, vars, Takes
  <1>5. Hands'
    BY DEF IInv, vars, Hands
  <1> QED  BY <1>1, <1>2, <1>3, <1>4, <1>5 DEF IInv

LEMMA IInvNext == ASSUME IInv, TypeOK', Faults = {}, [Next]_vars PROVE IInv'
  <1>1. CASE SessionSteps  BY <1>1, SessionStepsKeep
  <1>2. CASE WindowSteps  BY <1>2, WindowStepsKeep
  <1>3. CASE Expire  BY <1>3, ExpireKeeps
  <1>4. CASE TakenOver  BY <1>4, TakenOverKeeps
  <1>5. CASE LeftOver  BY <1>5, LeftOverKeeps
  <1>6. CASE Crash  BY <1>6, CrashKeeps
  <1>7. CASE Restart  BY <1>7, RestartKeeps
  <1>8. CASE Recheck  BY <1>8, RecheckKeeps
  <1>9. CASE UNCHANGED vars  BY <1>9, UnchangedKeeps
  <1> QED  BY <1>1, <1>2, <1>3, <1>4, <1>5, <1>6, <1>7, <1>8, <1>9 DEF Next

LEMMA InvariantHolds == Faults = {} => (Spec => []IInv)
  <1> SUFFICES ASSUME Faults = {} PROVE Spec => []IInv
    OBVIOUS
  <1>1. Init => IInv
    BY InitIInv
  <1>2. IInv /\ TypeOK' /\ [Next]_vars => IInv'
    BY IInvNext
  <1>3. Spec => []TypeOK
    BY TypeCorrect
  <1> QED  BY <1>1, <1>2, <1>3, PTL DEF Spec
-----------------------------------------------------------------------------
\* One writer per project: locks.py's promise.  The two layers name one session, and a window
\* writes only while the file names it.
THEOREM OneWriterAlways == Faults = {} => (Spec => []OneWriter)
  <1>1. IInv => OneWriter
    <2> SUFFICES ASSUME IInv, NEW s \in Sessions, session[s] = "working"
                 PROVE  /\ \A other \in Sessions \ {s} : session[other] # "working"
                        /\ \A w \in Windows : ~Writes(w)
      BY DEF OneWriter
    <2>1. row.session = s /\ file.by = s
      BY DEF IInv, Layers, TurnHasBothLayers
    <2>2. \A other \in Sessions \ {s} : session[other] # "working"
      BY <2>1 DEF IInv, Layers, TurnHasBothLayers
    <2>3. \A w \in Windows : ~Writes(w)
      BY <2>1, Disjoint DEF Writes
    <2> QED  BY <2>2, <2>3
  <1> QED  BY <1>1, InvariantHolds, PTL

\* The two layers agree: both name the session of a running turn, and no lock file is left that
\* only a session which does not hold the project could remove; what a crash leaves between the
\* layers, the next RAVIS knows by its age.
THEOREM LayersAlwaysAgree == Faults = {} => (Spec => []LayersAgree)
  <1>1. IInv => LayersAgree
    BY DEF IInv, Layers, Files, LayersAgree
  <1> QED  BY <1>1, InvariantHolds, PTL

=============================================================================
