---------------------------- MODULE ProjectLock ----------------------------
(***************************************************************************)
(* One project's lock in its two layers: RAVIS's project_lock row, and the *)
(* lock file in the checkout, written by whoever writes to the project.    *)
(* RAVIS's side is translated from ravis/agent/locks.py, lock_api.py and   *)
(* reconcile.py: each of its operations runs without an await and is one   *)
(* action, except the takeover, which waits for processes to end.  Codex's *)
(* sessions are reduced to what the lock is asked for (CodexTask models    *)
(* them).  The windows are not in this repository: they follow the         *)
(* protocol that design/codex-engine/design.md 6.2 and 6.3 gives them and  *)
(* that RAVIS's side counts on, one file operation or request at a time.   *)
(*                                                                         *)
(* A session's open descriptor is not kept apart: the file names the       *)
(* session and this RAVIS exactly while the descriptor is the file's, and  *)
(* RAVIS's _paused is the session whose row is transferring: that file is  *)
(* not heartbeated, so only what ends the transfer changes what a window   *)
(* noted.  Folders inside one another, unreadable files and unanswered     *)
(* probes are left out.                                                    *)
(*                                                                         *)
(* Faults names what a behaviour suffers beyond crashes:                   *)
(*   "readopt"  a window that is being taken over registers again,         *)
(*              and hands the project to Codex,                            *)
(*   "late"     a destination deletes the file it looked at earlier,       *)
(*   "owntoken" a window gives a session's transfer back to that session.  *)
(***************************************************************************)
EXTENDS Naturals, FiniteSets

CONSTANTS Sessions,   \* Codex's sessions for this project
          Windows,    \* Clarvis's windows
          MaxCrashes, \* times RAVIS or a window dies
          Faults

ASSUME LockAssumption == /\ Sessions \cap Windows = {}
                         /\ "none" \notin Sessions \cup Windows
                         /\ MaxCrashes \in Nat
                         /\ Faults \subseteq {"readopt", "late", "owntoken"}

VARIABLES row,      \* RAVIS's row for the project
          file,     \* the checkout's lock file: whom it names, and whether that RAVIS is gone
          session,  \* what each session is doing
          at,       \* where each window is in the protocol
          noted,    \* the windows that remember the heartbeat the file still has
          taking,   \* the takeover that waits: its window, and whether its row still is
          up,       \* RAVIS runs
          crashes

vars == <<row, file, session, at, noted, taking, up, crashes>>

None == "none"
Row(state, s, w, lease) ==
    [state |-> state, session |-> s, window |-> w, lease |-> lease, token |-> None, from |-> None]
NoRow == Row("free", None, None, None)
SessionRow(s) == Row("running", s, None, None)
RunRow(w) == Row("running", None, w, w)
Free == row.state = "free"

NoFile == [by |-> None, old |-> FALSE]
NobodyTakes == [by |-> None, live |-> FALSE]

RowStates == {"free", "running", "transferring", "leftover", "superseded"}
RowRecords == [state : RowStates, session : Sessions \cup {None}, window : Windows \cup {None},
               lease : Windows \cup {None}, token : Windows \cup {None}, from : Windows \cup {None}]
FileRecords == [by : Sessions \cup Windows \cup {None}, old : BOOLEAN]
SessionStates == {"none", "working", "rest", "idle", "ended"}
WindowStates == {"out", "made", "in", "alone", "stopping", "handing", "leaving", "taking", "won",
                 "switching", "dropped", "destmade", "dead"}

\* A file is written anew: no heartbeat remembered of another is this one's.
Names(x) == file' = [by |-> x, old |-> FALSE] /\ noted' = {}
NamesNobody == file' = NoFile /\ noted' = {}
Goes(w, state) == at' = [at EXCEPT ![w] = state]
Becomes(s, state) == session' = [session EXCEPT ![s] = state]

Init == /\ row = NoRow
        /\ file = NoFile
        /\ session = [s \in Sessions |-> "none"]
        /\ at = [w \in Windows |-> "out"]
        /\ noted = {}
        /\ taking = NobodyTakes
        /\ up = TRUE
        /\ crashes = 0
----------------------------------------------------------------------------
(* A Codex session's side: locks.py *)

\* _stale_ravis_file: the file of a RAVIS that is gone.
Stale == file.old

\* acquire: the file by O_EXCL, or in the place of a stale one, then the row.
Acquire(s) == /\ Free
              /\ file.by = None \/ Stale
              /\ Names(s)
              /\ row' = SessionRow(s)

\* Mutant of TakeForTurn: the row alone is asked.
TakeForTurnByRow(s) ==
    \/ row.session # s /\ Acquire(s)
    \/ /\ row.session = s
       /\ row.state = "running"
       /\ UNCHANGED <<row, file, noted>>
    \/ /\ row.session = s
       /\ row.state = "transferring"
       /\ row' = [row EXCEPT !.state = "running", !.token = None]
       /\ noted' = {}
       /\ UNCHANGED file

\* take_for_turn: taken now; or held, in both layers; or its own transfer taken back, with a
\* heartbeat.  Anything else is refused.
TakeForTurn(s) ==
    \/ row.session # s /\ Acquire(s)
    \/ /\ row.session = s
       /\ row.state = "running"
       /\ file.by = s
       /\ UNCHANGED <<row, file, noted>>
    \/ /\ row.session = s
       /\ row.state = "transferring"
       /\ file.by = s
       /\ row' = [row EXCEPT !.state = "running", !.token = None]
       /\ noted' = {}
       /\ UNCHANGED file

\* Mutant of Release: the file stays.
ReleaseRowOnly(s) == /\ row' = IF row.session = s THEN NoRow ELSE row
                     /\ UNCHANGED <<file, noted>>

\* release: the row, and the file only while it is still this session's.
Release(s) == /\ row' = IF row.session = s THEN NoRow ELSE row
              /\ IF row.session = s /\ file.by = s
                   THEN NamesNobody ELSE UNCHANGED <<file, noted>>

\* A session is created, or created in vain.
Create(s) == /\ up
             /\ session[s] = "none"
             /\ Acquire(s)
             /\ Becomes(s, "working")
             /\ UNCHANGED <<at, taking, up, crashes>>

OpenFails(s) == /\ up
                /\ session[s] = "working"
                /\ Release(s)
                /\ Becomes(s, "ended")
                /\ UNCHANGED <<at, taking, up, crashes>>

\* POST .../turns, and the follow-on of a turn during which something was typed.
Turn(s) == /\ up
           /\ session[s] \in {"idle", "working"}
           /\ TakeForTurn(s)
           /\ Becomes(s, "working")
           /\ UNCHANGED <<at, taking, up, crashes>>

\* POST .../steer with no turn running: the text waits for a turn, the lock does not.
Steer(s) == /\ up
            /\ session[s] \in {"idle", "rest"}
            /\ TakeForTurn(s)
            /\ UNCHANGED <<session, at, taking, up, crashes>>

TurnEnds(s) == /\ up
               /\ session[s] = "working"
               /\ Becomes(s, "rest")
               /\ UNCHANGED <<row, file, at, noted, taking, up, crashes>>

\* settle: for follow-ups or for good the lock goes; for a transfer it stays.
Settle(s) == /\ up
             /\ session[s] = "rest"
             /\ ~(row.session = s /\ row.state = "superseded")
             /\ \/ Release(s) /\ \E next \in {"idle", "ended"} : Becomes(s, next)
                \/ Becomes(s, "idle") /\ UNCHANGED <<row, file, noted>>
             /\ UNCHANGED <<at, taking, up, crashes>>

Delete(s) == /\ up
             /\ session[s] = "idle"
             /\ Release(s)
             /\ Becomes(s, "ended")
             /\ UNCHANGED <<at, taking, up, crashes>>

\* The 15 minutes of a transfer are over.
Expire == /\ row.token # None
          /\ row' = [row EXCEPT !.token = None]
          /\ UNCHANGED <<file, session, at, noted, taking, up, crashes>>
----------------------------------------------------------------------------
(* The windows, and RAVIS's answers to them: lock_api.py *)

\* Out, and nobody's file there.
MakeFile(w) == /\ at[w] = "out"
               /\ file.by = None
               /\ Names(w)
               /\ Goes(w, "made")
               /\ UNCHANGED <<row, session, taking, up, crashes>>

\* The file of a window that is gone, or of a RAVIS that is gone and does not answer, once what
\* it left running is ended.
Reconcile(w) == /\ at[w] = "out"
                /\ Stale \/ \E gone \in Windows : file.by = gone /\ at[gone] = "dead"
                /\ Names(w)
                /\ Goes(w, "made")
                /\ UNCHANGED <<row, session, taking, up, crashes>>

\* Mutant of Adoptable: with its file there, a window takes any row.
AdoptableAlways(w, again) == TRUE

\* _adoptable: a superseded row, the window's own, or that of a session without a turn.
Adoptable(w, again) ==
    \/ row.state = "superseded"
    \/ row.session = None /\ row.window = w
    \/ row.session # None /\ again /\ session[row.session] # "working"

\* WindowLocks.acquire: what the row and the file allow.
MayRegister(w, again) == IF Free THEN file.by \in {None, w}
                                        ELSE file.by = w /\ Adoptable(w, again)

\* _insert and _adopt: a window's row only gets a new lease, another is replaced.
Register(w, again) ==
    /\ up
    /\ MayRegister(w, again)
    /\ row' = IF ~Free /\ row.session = None THEN [row EXCEPT !.lease = w] ELSE RunRow(w)
    /\ Goes(w, "in")

Post(w) == /\ at[w] = "made"
           /\ Register(w, FALSE)
           /\ UNCHANGED <<file, session, noted, taking, up, crashes>>

PostRefused(w) == /\ at[w] = "made"
                  /\ up /\ ~MayRegister(w, FALSE)
                  /\ Goes(w, "leaving")
                  /\ UNCHANGED <<row, file, session, noted, taking, up, crashes>>

\* RAVIS, or its answer, does not arrive: the run goes on, on the file alone.
Unreachable(w) == /\ at[w] \in {"made", "in"}
                  /\ Goes(w, "alone")
                  /\ UNCHANGED <<row, file, session, noted, taking, up, crashes>>

\* RAVIS answers again: the window registers the file it has.
Reregister(w) == /\ at[w] = "alone"
                 /\ file.by = w
                 /\ Register(w, TRUE)
                 /\ UNCHANGED <<file, session, noted, taking, up, crashes>>

\* A run on the file alone ends.
LeaveAlone(w) == /\ at[w] = "alone"
                 /\ Goes(w, "leaving")
                 /\ UNCHANGED <<row, file, session, noted, taking, up, crashes>>

Leased(w) == up /\ row.lease = w

\* The fence (design 6.3): a lease that is not the row's, LEASE_REVOKED, or a file that names
\* another.  The window writes, deletes and releases nothing.
Lose(w) == /\ at[w] \in {"in", "alone", "stopping", "handing"}
           /\ file.by # w \/ (at[w] # "alone" /\ up /\ ~Leased(w))
           /\ Goes(w, "out")
           /\ UNCHANGED <<row, file, session, noted, taking, up, crashes>>

\* A heartbeat of a run that goes on ends a transfer.
BeatRunning(w) == /\ at[w] \in {"in", "handing"}
                  /\ Leased(w)
                  /\ row.state = "transferring"
                  /\ row' = [row EXCEPT !.state = "running", !.token = None]
                  /\ Goes(w, "in")
                  /\ UNCHANGED <<file, session, noted, taking, up, crashes>>

\* release: the row goes, then the file.
LeaseRelease(w) == /\ at[w] \in {"in", "handing"}
                   /\ Leased(w)
                   /\ row.state # "leftover"
                   /\ row' = NoRow
                   /\ taking' = [taking EXCEPT !.live = FALSE]
                   /\ Goes(w, "leaving")
                   /\ UNCHANGED <<file, session, noted, up, crashes>>

Leave(w) == /\ at[w] = "leaving"
            /\ IF file.by = w THEN NamesNobody ELSE UNCHANGED <<file, noted>>
            /\ Goes(w, "out")
            /\ UNCHANGED <<row, session, taking, up, crashes>>

WindowDies(w) == /\ at[w] \notin {"out", "dead"}
                 /\ crashes < MaxCrashes
                 /\ crashes' = crashes + 1
                 /\ Goes(w, "dead")
                 /\ UNCHANGED <<row, file, session, noted, taking, up>>
----------------------------------------------------------------------------
(* Takeover: the old lease is revoked, its processes are waited for, the row follows *)

\* _allowed and the fence.  A holder that is gone, stalled or waiting may be taken over.
TakeOver(w) == /\ at[w] \in {"out", "made"}
               /\ up
               /\ taking.by = None
               /\ ~Free
               /\ row.session = None
               /\ ~(row.state = "transferring" /\ row.token # None)
               /\ row' = [row EXCEPT !.lease = None]
               /\ taking' = [by |-> w, live |-> TRUE]
               /\ Goes(w, "taking")
               /\ UNCHANGED <<file, session, noted, up, crashes>>

Answered(w, state) == at' = [at EXCEPT ![w] = IF @ = "taking" THEN state ELSE @]

\* The processes are gone: the row names the new window, and only that.
TakenOver == /\ up
             /\ taking.by # None
             /\ taking' = NobodyTakes
             /\ row' = IF taking.live
                          THEN [row EXCEPT !.window = taking.by, !.lease = taking.by,
                                           !.state = "running", !.token = None,
                                           !.from = row.window]
                          ELSE row
             /\ Answered(taking.by, IF taking.live THEN "won" ELSE "leaving")
             /\ UNCHANGED <<file, session, noted, up, crashes>>

\* They are not: nobody holds a lease.
LeftOver == /\ up
            /\ taking.by # None
            /\ taking' = NobodyTakes
            /\ row' = IF taking.live THEN [row EXCEPT !.state = "leftover"] ELSE row
            /\ Answered(taking.by, "leaving")
            /\ UNCHANGED <<file, session, noted, up, crashes>>

\* RAVIS went while the window waited.
NotAnswered(w) == /\ at[w] = "taking"
                  /\ taking.by # w
                  /\ Goes(w, "leaving")
                  /\ UNCHANGED <<row, file, session, noted, taking, up, crashes>>

\* The new holder's file in the place of the old one's.
ReplaceFile(w) == /\ at[w] = "won"
                  /\ IF file.by \in {None, w, row.from} /\ row.window = w
                       THEN Names(w) /\ Goes(w, "in")
                       ELSE UNCHANGED <<file, noted>> /\ Goes(w, "leaving")
                  /\ UNCHANGED <<row, session, taking, up, crashes>>
----------------------------------------------------------------------------
(* Transfers: a switch between the engines *)

\* transfer: the row is reserved, for the window that asked, with a token.
Reserve(w) == /\ row.state \notin {"leftover", "superseded"}
              /\ row' = [row EXCEPT !.state = "transferring", !.token = w]

\* Clarvis to Codex: reserved with the lease; the run is then stopped, and its work saved under
\* the fence.
ReserveRun(w) == /\ at[w] = "in"
                 /\ Leased(w) /\ file.by = w
                 /\ Reserve(w)
                 /\ taking.by = None \/ "readopt" \in Faults
                 /\ Goes(w, "stopping")
                 /\ UNCHANGED <<file, session, noted, taking, up, crashes>>

RunStops(w) == /\ at[w] = "stopping"
               /\ file.by = w
               /\ Goes(w, "handing")
               /\ UNCHANGED <<row, file, session, noted, taking, up, crashes>>

\* Mutant of TakeWithToken: the window's file is left for the window to delete.
TakeWithTokenKeepingFile(s) ==
    /\ row' = SessionRow(s)
    /\ UNCHANGED <<file, noted>>

\* _take_with_token: the row moves to the session, and the file of anyone else is replaced.
TakeWithToken(s) == /\ row' = SessionRow(s)
                    /\ IF row.session = s THEN UNCHANGED <<file, noted>> ELSE Names(s)

\* The turn, or the new session, that is given the window's token.
TokenTurn(w, s) == /\ at[w] = "handing" \/ (at[w] = "switching" /\ "owntoken" \in Faults)
                   /\ up
                   /\ row.state = "transferring"
                   /\ row.token = w
                   /\ session[s] \in {"none", "idle"}
                   /\ TakeWithToken(s)
                   /\ Becomes(s, "working")
                   /\ Goes(w, "leaving")
                   /\ UNCHANGED <<taking, up, crashes>>

\* Codex to Clarvis: reserved with the session's token; its file says so once, and is then left.
ReserveSession(w) == /\ at[w] = "out"
                     /\ up
                     /\ row.session # None
                     /\ Reserve(w)
                     /\ noted' = IF row.state = "transferring" THEN noted \cup {w} ELSE {w}
                     /\ Goes(w, "switching")
                     /\ UNCHANGED <<file, session, taking, up, crashes>>

\* The session is settled: RAVIS's file goes, if its heartbeat is the one remembered.
DropFile(w) == /\ at[w] = "switching"
               /\ \E s \in Sessions : /\ file.by = s
                                       /\ \/ w \in noted /\ session[s] = "idle"
                                          \/ "late" \in Faults
               /\ NamesNobody
               /\ Goes(w, "dropped")
               /\ UNCHANGED <<row, session, taking, up, crashes>>

MakeFileToSwitch(w) == /\ at[w] = "dropped"
                       /\ IF file.by = None THEN Names(w) /\ Goes(w, "destmade")
                                            ELSE UNCHANGED <<file, noted>> /\ Goes(w, "out")
                       /\ UNCHANGED <<row, session, taking, up, crashes>>

\* WindowLocks._take_with_token.
TokenRun(w) == /\ at[w] = "destmade"
               /\ up
               /\ row.state = "transferring"
               /\ row.session # None
               /\ row.token = w
               /\ row' = RunRow(w)
               /\ Goes(w, "in")
               /\ UNCHANGED <<file, session, noted, taking, up, crashes>>

\* A switch that fails: the window's own file goes.
GiveUp(w) == /\ at[w] \in {"switching", "destmade"}
             /\ Goes(w, "leaving")
             /\ UNCHANGED <<row, file, session, noted, taking, up, crashes>>
----------------------------------------------------------------------------
(* RAVIS dies and starts again: reconcile.py *)

Down == /\ up /\ crashes < MaxCrashes
        /\ up' = FALSE
        /\ crashes' = crashes + 1
        /\ taking' = NobodyTakes
        /\ session' = [s \in Sessions |-> IF session[s] = "working" THEN "rest" ELSE session[s]]

\* The turn it ran is found uncertain, and its processes ended, before anything is answered.
Crash == /\ Down
         /\ file' = IF file.by \in Sessions THEN [file EXCEPT !.old = TRUE] ELSE file
         /\ UNCHANGED <<row, at, noted>>

\* Between the file, the row and the session of a create, between the file and the row of an
\* acquire, or between the row and the file of a release.
CrashHalfway(s) == /\ Down
                   /\ \/ /\ Free
                         /\ file.by = None \/ Stale
                         /\ \/ session[s] = "none" /\ row' \in {NoRow, SessionRow(s)}
                            \/ session[s] = "idle" /\ row' = NoRow
                      \/ /\ row.session = s
                         /\ file.by = s
                         /\ session[s] \in {"rest", "idle"}
                         /\ row' = NoRow
                   /\ file' = [by |-> s, old |-> TRUE]
                   /\ noted' = {}
                   /\ UNCHANGED at

\* Mutant of AdoptOne: the file of a window that is gone is RAVIS's to take.
AdoptOneFromGone(s) ==
    IF file.by \in {None, s} \/ at[file.by] = "dead"
      THEN Names(s) /\ UNCHANGED row
      ELSE row' = [row EXCEPT !.state = "superseded"] /\ UNCHANGED <<file, noted>>

\* _adopt_one: a file that is missing or RAVIS's own is written anew and the row kept as it is;
\* anyone else's supersedes the row.
AdoptOne(s) ==
    IF file.by \in {None, s}
      THEN Names(s) /\ UNCHANGED row
      ELSE row' = [row EXCEPT !.state = "superseded"] /\ UNCHANGED <<file, noted>>

\* _drop_orphan: a row whose session is over goes, and its file if it is RAVIS's own.
DropOrphan(s) == Release(s)

Restart == /\ ~up
           /\ up' = TRUE
           /\ IF row.session = None THEN UNCHANGED <<row, file, noted>>
              ELSE IF session[row.session] \in {"none", "ended"} THEN DropOrphan(row.session)
                   ELSE AdoptOne(row.session)
           /\ UNCHANGED <<session, at, taking, crashes>>

\* recheck, every heartbeat: a superseded row without a file is RAVIS's again.
Recheck == /\ up
           /\ row.state = "superseded"
           /\ file.by = None
           /\ Names(row.session)
           /\ row' = [row EXCEPT !.state = "running"]
           /\ UNCHANGED <<session, at, taking, up, crashes>>
----------------------------------------------------------------------------
SessionSteps == \E s \in Sessions :
    \/ Create(s) \/ OpenFails(s) \/ Turn(s) \/ Steer(s) \/ TurnEnds(s) \/ Settle(s) \/ Delete(s)
    \/ CrashHalfway(s) \/ \E w \in Windows : TokenTurn(w, s)

WindowSteps == \E w \in Windows :
    \/ MakeFile(w) \/ Reconcile(w) \/ Post(w) \/ PostRefused(w) \/ Unreachable(w) \/ Reregister(w)
    \/ LeaveAlone(w) \/ Lose(w) \/ BeatRunning(w) \/ LeaseRelease(w) \/ Leave(w) \/ WindowDies(w)
    \/ TakeOver(w) \/ NotAnswered(w) \/ ReplaceFile(w)
    \/ ReserveRun(w) \/ RunStops(w) \/ ReserveSession(w) \/ DropFile(w) \/ MakeFileToSwitch(w)
    \/ TokenRun(w) \/ GiveUp(w)

Next == \/ SessionSteps \/ WindowSteps
        \/ Expire \/ TakenOver \/ LeftOver \/ Crash \/ Restart \/ Recheck

Spec == Init /\ [][Next]_vars
----------------------------------------------------------------------------
\* A lock has one holder, and its lease is that holder's: a session's lock has none.
LeaseNamesHolder == /\ row.session = None \/ row.window = None
                    /\ row.lease \in {None, row.window}

\* The types; a lock that is free names nobody.
TypeOK ==
    /\ row \in RowRecords
    /\ LeaseNamesHolder
    /\ Free => row.session = None /\ row.window = None /\ row.lease = None /\ row.token = None
    /\ file \in FileRecords
    /\ session \in [Sessions -> SessionStates]
    /\ at \in [Windows -> WindowStates]
    /\ noted \subseteq Windows
    /\ taking \in [by : Windows \cup {None}, live : BOOLEAN]
    /\ up \in BOOLEAN
    /\ crashes \in 0 .. MaxCrashes

\* A window writes while its run goes on and the file it looks at before each write names it.
Writes(w) == at[w] \in {"in", "alone", "stopping"} /\ file.by = w

\* One writer per project (locks.py, line 3): while a turn of Codex runs, no other session's
\* does and no window writes.
OneWriter == \A s \in Sessions : session[s] = "working" =>
                 /\ \A other \in Sessions \ {s} : session[other] # "working"
                 /\ \A w \in Windows : ~Writes(w)

\* F-A1: while a turn runs, RAVIS's row and the checkout's file both name its session.
TurnHasBothLayers == \A s \in Sessions : session[s] = "working" =>
                         /\ row.session = s /\ row.state \in {"running", "transferring"}
                         /\ file.by = s /\ ~file.old

\* While RAVIS runs, a file that names it has a row: nobody but its session could ever remove it.
FileHasRow == up /\ file.by \in Sessions /\ ~file.old => row.session = file.by

\* The two layers agree (F-A1): RAVIS's table and the checkout's file tell of the same holder, for
\* as long as a turn runs and whenever the file says it is RAVIS's.
LayersAgree == TurnHasBothLayers /\ FileHasRow

\* RAVIS takes a window's file only from one that handed the project over, a window only from
\* one it took over or that is gone; otherwise a window deletes its own.
WindowFileStands ==
    [][\A w \in Windows : file.by = w /\ file'.by # w =>
          \/ file'.by \in Sessions /\ at[w] = "handing"
          \/ file'.by \in Windows /\ (at[w] = "dead" \/ row.from = w)
          \/ file'.by = None /\ at[w] = "leaving"]_vars

\* A superseded lock ends when the window whose file it is lets it go (reconcile.py, line 19): what
\* RAVIS calls superseded, somebody else's file supersedes.  It fails: see AdoptOne.
SupersededNamesAnother == up /\ row.state = "superseded" => file.by # row.session
=============================================================================
