------------------------------ MODULE FloodGuard ------------------------------
(***************************************************************************)
(* NERVIS's event hub behind its flood guard (nervis/events.py, Hub, and   *)
(* nervis/flood.py, FloodGuard), for the events of one source: each is     *)
(* stored as a row, counted onto an identical row, or held back as the     *)
(* newest of its type until the type goes quiet.                           *)
(*                                                                         *)
(* Hub.ingest and Hub.settle run under one lock, so each is one action.    *)
(* Time is what the guard compares it with: a token comes back, a row was  *)
(* seen too long ago to match, a type is quiet, a day is over.  Events are *)
(* numbered as the producer emitted them; the producer posts them in that  *)
(* order and, when an answer is lost, posts the same ones again.           *)
(***************************************************************************)
EXTENDS Integers, Sequences, FiniteSets, SequencesExt, FiniteSetsExt

CONSTANTS
  Kind,         \* event types
  What,         \* what an event may say: its data, subject and severity
  Traced,       \* bound: the types whose events may belong to a trace
  BurstTokens,  \* burst
  DailyRows,    \* daily_rows
  MaxEvents,    \* bound: events emitted
  MaxUpsets,    \* bound: answers lost, and a pass of retention
  Restarts      \* may the guard forget: NERVIS restarts, or the source is silent

ASSUME GuardAssumption ==
  /\ IsFiniteSet(Kind) /\ Traced \subseteq Kind
  /\ BurstTokens \in Nat \ {0} /\ DailyRows \in Nat \ {0}
  /\ MaxEvents \in Nat /\ MaxUpsets \in Nat
  /\ Restarts \in BOOLEAN

VARIABLES
  log,      \* the events posted at least once
  at,       \* how many of them the post under way has delivered
  acked,    \* how many the producer is known to post no more
  replays,  \* answers lost so far
  store,    \* the event table: the event of each row, and its repeats
  floor,    \* rows 1 .. floor have been deleted
  tokens,   \* _Source.tokens
  rows,     \* _Source.window_rows
  dayOver,  \* is window_start a day ago or more?
  latest,   \* _Source.latest of each type
  held,     \* _Source.held of each type: the event waiting, or 0
  episode,  \* _Source.episode: Unguarded, or its count of thinned events
  told      \* thinned events the guard's release events have reported

posting == <<log, at, acked, replays>>
table   == <<store, floor>>
source  == <<tokens, rows, dayOver, latest, held, episode>>
vars    == <<posting, table, source, told>>

Event == {e \in [kind : Kind, what : What, traced : BOOLEAN] : e.traced => e.kind \in Traced}
NoRow == [row |-> 0, repeats |-> 0, unwritten |-> FALSE, fresh |-> FALSE]
Unguarded == -1
Upsets == replays + (IF floor = 0 THEN 0 ELSE 1)

Init ==
  /\ log = <<>> /\ at = 0 /\ acked = 0 /\ replays = 0
  /\ store = <<>> /\ floor = 0 /\ told = 0
  /\ tokens = BurstTokens /\ rows = 0 /\ dayOver = FALSE /\ episode = Unguarded
  /\ latest = [k \in Kind |-> NoRow] /\ held = [k \in Kind |-> 0]

-----------------------------------------------------------------------------
(* What makes two events of l the same fact (fingerprint): everything they *)
(* say, and their trace and moment too unless the source is guarded.       *)

SameFact(l, e, f, guarded) ==
  /\ l[e].kind = l[f].kind /\ l[e].what = l[f].what
  /\ guarded \/ (l[e].traced = l[f].traced /\ (l[e].traced => e = f))

Known(e) == \E i \in floor + 1 .. Len(store) : store[i].event = e

\* The table with the repeats of the types K written to their rows; a row that
\* retention has deleted takes no count.
Written(K, newest) ==
  [i \in DOMAIN store |->
     [store[i] EXCEPT !.repeats =
        LET mine == {k \in K : newest[k].row = i /\ i > floor}
        IN IF mine = {} THEN @ ELSE newest[CHOOSE k \in mine : TRUE].repeats]]

\* The events E become rows of their own in the table t, in some order: that in which their
\* types began to be held, which nothing here tells apart ...
WithRows(t, E) == t \o [i \in 1 .. Cardinality(E) |-> [event |-> SetToSeq(E)[i], repeats |-> 1]]

\* ... and each the newest of its type, of the events l.
WithNewest(newest, t, E, l) ==
  [k \in Kind |->
     LET mine == {i \in Len(t) + 1 .. Len(t) + Cardinality(E) :
                    l[WithRows(t, E)[i].event].kind = k}
     IN IF mine = {} THEN newest[k]
        ELSE [row |-> Max(mine), repeats |-> 1, unwritten |-> FALSE, fresh |-> TRUE]]

-----------------------------------------------------------------------------
(* FloodGuard.admit.  guard is the episode with this arrival in it.        *)

RowsToday == IF dayOver THEN 0 ELSE rows
Over  == RowsToday >= DailyRows \/ tokens = 0
Guard == IF Over /\ episode = Unguarded THEN 0 ELSE episode

\* _repeated: the event is the newest row of its type once more.
Repeated(e) ==
  LET l == latest[log'[e].kind] IN
  /\ l.row # 0 /\ l.fresh
  /\ SameFact(log', e, store[l.row].event, Guard # Unguarded)

\* Mutant of Thinned: an event held in vain is not counted.
ThinnedUncounted(k) == Guard

\* The event of type k that was held, if any, will never be a row of its own.
Thinned(k) == IF Guard # Unguarded /\ held[k] # 0 THEN Guard + 1 ELSE Guard

\* Its count is written at once, or on the next settle while guarded.
Counts(e) ==
  LET k == log'[e].kind
      guarded == Guard # Unguarded
  IN
  /\ latest' = [latest EXCEPT ![k].repeats = @ + 1,
                              ![k].unwritten = @ \/ guarded]
  /\ store' = IF guarded THEN store ELSE Written({k}, latest')
  /\ held' = [held EXCEPT ![k] = 0]
  /\ episode' = Thinned(k)
  /\ rows' = RowsToday

\* It is stored, and a count still waiting for the row it displaces is written.
Stores(e) ==
  LET k == log'[e].kind IN
  /\ store' = WithRows(Written({j \in {k} : latest[j].unwritten}, latest), {e})
  /\ latest' = WithNewest(latest, store, {e}, log')
  /\ held' = [held EXCEPT ![k] = 0]
  /\ episode' = Thinned(k)
  /\ rows' = RowsToday + 1

\* Mutant of Holds: the oldest of its type goes on waiting.
HoldsTheOldest(e) ==
  LET k == log'[e].kind IN
  /\ held' = [held EXCEPT ![k] = IF @ = 0 THEN e ELSE @]
  /\ episode' = Thinned(k)
  /\ rows' = RowsToday
  /\ UNCHANGED <<store, latest>>

\* It waits as the newest of its type.
Holds(e) ==
  LET k == log'[e].kind IN
  /\ held' = [held EXCEPT ![k] = e]
  /\ episode' = Thinned(k)
  /\ rows' = RowsToday
  /\ UNCHANGED <<store, latest>>

Admit(e) ==
  /\ dayOver' = FALSE
  /\ tokens' = IF Over THEN tokens ELSE tokens - 1
  /\ \/ Repeated(e) /\ Counts(e)
     \/ ~ Repeated(e) /\ ~ Over /\ Stores(e)
     \/ ~ Repeated(e) /\ Over /\ Holds(e)

\* Hub.ingest: an event already stored is accepted and changes nothing.
Ingest(e) ==
  /\ \/ Known(e) /\ UNCHANGED <<store, source>>
     \/ ~ Known(e) /\ Admit(e)
  /\ UNCHANGED <<floor, told>>

-----------------------------------------------------------------------------
(* The producer posts its next event, or one it posts again: the answer to *)
(* a post may be lost, and all of it is posted again.                      *)

Arrives ==
  /\ \/ at < Len(log) /\ UNCHANGED log
     \/ /\ at = Len(log) /\ Len(log) < MaxEvents
        /\ \E e \in Event : log' = Append(log, e)
  /\ at' = at + 1
  /\ Ingest(at + 1)
  /\ UNCHANGED <<acked, replays>>

\* The post began with any event after those known to be kept.
AnswerLost ==
  /\ Upsets < MaxUpsets /\ replays' = replays + 1
  /\ at' \in acked .. at - 1 /\ acked' = at'
  /\ UNCHANGED <<log, table, source, told>>

-----------------------------------------------------------------------------
(* Hub.settle: the counts taken under guard are written, held events whose *)
(* type is quiet are stored, and a calm source is released.                *)

Waiting == {k \in Kind : held[k] # 0}

\* Mutant of Allowance: what the day has stored already is not taken off.
AllowanceOfTheDay == DailyRows + BurstTokens

\* Quiet events may run past the daily share by a burst's worth.
Allowance == DailyRows + BurstTokens - rows

Settles(Q, calm) ==
  LET finals  == {held[k] : k \in Q}
      written == Written({k \in Kind : latest[k].unwritten}, latest)
      flushed == [k \in Kind |-> [latest[k] EXCEPT !.unwritten = FALSE]]
  IN
  /\ store' = WithRows(written, finals)
  /\ latest' = WithNewest(flushed, store, finals, log)
  /\ held' = [k \in Kind |-> IF k \in Q THEN 0 ELSE held[k]]
  /\ rows' = (IF Q = {} THEN rows ELSE RowsToday) + Cardinality(Q)
  /\ dayOver' = (dayOver /\ Q = {})
  /\ episode' = IF calm THEN Unguarded ELSE episode
  /\ told' = IF calm THEN told + episode ELSE told
  /\ UNCHANGED <<posting, floor, tokens>>

\* Mutant of Settle: one event short of the allowance.
SettleOneShort(Q) ==
  /\ episode # Unguarded
  /\ Q = {} \/ Cardinality(Q) < Max({0, Allowance})
  /\ Settles(Q, FALSE) \/ (Q = Waiting /\ Settles(Q, TRUE))

\* A pass for the quiet types Q; the guard lets go once nothing is held and
\* nothing has been held back for long enough.
Settle(Q) ==
  /\ episode # Unguarded
  /\ Cardinality(Q) <= Max({0, Allowance})
  /\ Settles(Q, FALSE) \/ (Q = Waiting /\ Settles(Q, TRUE))

\* NERVIS stops: everything held is stored, whatever the limits say.
Final == episode # Unguarded /\ Settles(Waiting, TRUE)

\* The guard starts over with the source, after a restart or an hour's
\* silence.  What the table holds from the last day still counts.
StartsOver ==
  /\ Restarts /\ episode = Unguarded
  /\ tokens' = BurstTokens
  /\ rows' \in 0 .. Len(store) - floor
  /\ dayOver \/ rows' >= Min({rows, Len(store) - floor})
  /\ dayOver' = FALSE
  /\ latest' = [k \in Kind |-> NoRow]
  /\ UNCHANGED <<posting, table, held, episode, told>>

-----------------------------------------------------------------------------
(* Time, and retention.                                                   *)

TokenBack ==
  /\ tokens < BurstTokens /\ tokens' = tokens + 1
  /\ UNCHANGED <<posting, table, rows, dayOver, latest, held, episode, told>>

\* A row was last seen more than collapse_seconds ago.
RowGoesStale(k) ==
  /\ latest[k].fresh /\ latest' = [latest EXCEPT ![k].fresh = FALSE]
  /\ UNCHANGED <<posting, table, tokens, rows, dayOver, held, episode, told>>

DayPasses ==
  /\ ~ dayOver /\ rows > 0 /\ dayOver' = TRUE
  /\ UNCHANGED <<posting, table, tokens, rows, latest, held, episode, told>>

\* enforce_retention deletes rows from the oldest on.  A row old enough for
\* that was seen lately only if it has been repeated.
Prune ==
  /\ floor = 0 /\ Upsets < MaxUpsets /\ floor' \in 1 .. Len(store)
  /\ \A k \in Kind : latest[k].fresh /\ latest[k].row <= floor' => latest[k].repeats > 1
  /\ UNCHANGED <<posting, store, source, told>>

-----------------------------------------------------------------------------
Next ==
  \/ Arrives \/ AnswerLost
  \/ \E Q \in SUBSET Waiting : Settle(Q)
  \/ (Restarts /\ Final) \/ StartsOver
  \/ TokenBack \/ \E k \in Kind : RowGoesStale(k)
  \/ DayPasses \/ Prune

Spec == Init /\ [][Next]_vars

\* The hub settles every second, whether or not anything arrives; a type that
\* nothing arrives for is quiet; days pass.
FairSpec ==
  /\ Spec
  /\ \A k \in Kind : WF_vars(\E Q \in SUBSET Waiting : k \in Q /\ Settle(Q))
  /\ WF_vars(DayPasses)

-----------------------------------------------------------------------------
(* What must hold.                                                        *)

\* Every variable stays within its type.
TypeOK ==
  /\ log \in Seq(Event) /\ acked \in 0 .. at /\ at \in 0 .. Len(log) /\ replays \in Nat
  /\ store \in Seq([event : DOMAIN log, repeats : Nat])
  /\ floor \in 0 .. Len(store)
  /\ tokens \in 0 .. BurstTokens /\ rows \in Nat /\ dayOver \in BOOLEAN
  /\ latest \in [Kind -> [row : 0 .. Len(store), repeats : Nat,
                          unwritten : BOOLEAN, fresh : BOOLEAN]]
  /\ held \in [Kind -> 0 .. Len(log)]
  /\ episode \in Nat \cup {Unguarded} /\ told \in Nat

OfKind(k) == {e \in DOMAIN log : log[e].kind = k}
RowsOf(k) == {i \in DOMAIN store : log[store[i].event].kind = k}

\* What the hub would show as the newest of type k once k is quiet.
Shown(k) == IF held[k] # 0 THEN held[k] ELSE store[Max(RowsOf(k))].event

\* "The latest state is never dropped" (flood.py): of every type, what is held
\* or else stored last says what the producer said last.  Of a batch posted
\* again this is not true: an event counted onto a row is not known by its id.
LatestStateKept ==
  at = Len(log) /\ replays = 0 =>
    \A k \in Kind : OfKind(k) # {} => log[Shown(k)].what = log[Max(OfKind(k))].what

\* The repeats of row i, counts that are not written yet included.
InMemory(i) ==
  LET mine == {k \in Kind : latest[k].row = i /\ latest[k].unwritten}
  IN IF mine = {} THEN store[i].repeats ELSE latest[CHOOSE k \in mine : TRUE].repeats

\* What rows of so many repeats stand for: a row and a number for each event.
Copies(repeats) == UNION {{i} \X (1 .. repeats[i]) : i \in DOMAIN repeats}

\* Every event is somewhere: a row, a repeat counted onto one, held, or thinned
\* and reported as such; once the guard lets go, all of it is in the table.
\* Until retention deletes a row: its later repeats are counted onto nothing;
\* and until a post is repeated, whose counted events count twice.  The types hold throughout.
EveryEventCounted == TypeOK /\ (floor = 0 /\ replays = 0 =>
  /\ Cardinality(Copies([i \in DOMAIN store |-> InMemory(i)])) + Cardinality(Waiting) + told
       + (IF episode = Unguarded THEN 0 ELSE episode) = Len(log)
  /\ episode = Unguarded =>
       Cardinality(Copies([i \in DOMAIN store |-> store[i].repeats])) + told = Len(log))

\* "May run past the daily share by at most one burst's worth": the events of
\* one day never bring a source further, short of NERVIS stopping.
ShareHolds ==
  [][(\E Q \in SUBSET Waiting : Settle(Q)) \/ Arrives
       => rows' <= Max({rows, DailyRows + BurstTokens})]_vars

\* "When a held type has been quiet for quiet_seconds, its newest event is
\* stored", unless the day's allowance is spent.
QuietStateIsStored ==
  \A k \in Kind : held[k] # 0 ~> held[k] = 0 \/ Allowance <= 0
=============================================================================
