-------------------------------- MODULE Feed --------------------------------
(***************************************************************************)
(* What one reader of NERVIS's event feed is promised, in the words of its *)
(* documents: events in the order they were stored, none missed without    *)
(* the reader being told, and all of them in the end.  Where the events    *)
(* wait, what a connection is and how a reader resumes is left to          *)
(* EventStream, which implements this.                                     *)
(***************************************************************************)
EXTENDS Naturals

VARIABLES log,      \* events stored
          read,     \* the events the reader has been given
          joined,   \* does the reader follow the feed from where it is?
          excused,  \* events it is not owed: from before it joined, or it was told of
          told      \* how often it was told that it misses something

vars == <<log, read, joined, excused, told>>

Init == log = 0 /\ read = {} /\ joined = FALSE /\ excused = {} /\ told = 0

Append == log' = log + 1 /\ UNCHANGED <<read, joined, excused, told>>

\* A reader joins with whatever event it is given first; nothing before is owed to it.
Join(e) ==
    /\ ~joined /\ joined' = TRUE
    /\ read' = read \cup {e} /\ excused' = excused \cup 1 .. e - 1
    /\ UNCHANGED <<log, told>>

\* No event is given before one that is owed.
Read(e) ==
    /\ joined /\ 1 .. e - 1 \subseteq read \cup excused
    /\ read' = read \cup {e}
    /\ UNCHANGED <<log, joined, excused, told>>

\* An event is stored in the place of one the reader is not given, and it is told so.
Displace ==
    /\ log' = log + 1 /\ told' = told + 1
    /\ \E e \in 1 .. log : excused' = excused \cup {e}
    /\ UNCHANGED <<read, joined>>

\* The reader is told that it misses something, and joins anew.
StartOver == joined' = FALSE /\ told' = told + 1 /\ UNCHANGED <<log, read, excused>>

ReadsNew == \E e \in (1 .. log) \ (read \cup excused) : Join(e) \/ Read(e)
Next == Append \/ (\E e \in 1 .. log : Join(e) \/ Read(e)) \/ Displace \/ StartOver

\* "None missed without the reader being told."
Safe == Init /\ [][Next]_vars

\* A reader that can be given another event is given one.
Live == WF_vars(ReadsNew)

Spec == Safe /\ Live
=============================================================================
