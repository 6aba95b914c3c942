------------------------------ MODULE RateLimits ------------------------------
(***************************************************************************)
(* One bucket of the rate limiter (security/ratelimit.ts): a row with a    *)
(* count and the start of its window, written by one statement per call    *)
(* and swept when old.  NOW() is the time a statement began, and concurrent *)
(* statements wait for each other's row, so a later one may carry an       *)
(* earlier time.                                                           *)
(***************************************************************************)
EXTENDS Naturals, Sequences

CONSTANTS
  Call,       \* calls that can be under way at once
  Allowed,    \* how many a window lets through
  Period,     \* the length of a window
  Retention,  \* how long a window is kept after its start, at least Period + Lag
  Lag,        \* how long a statement may wait for the row
  Horizon,    \* the clock stops here
  Null

VARIABLES
  time,
  bucket,   \* the row of rate_limits; past Allowed its count is not told apart
  begun,    \* when a call's statement began
  swept,    \* when the sweep's did
  through   \* history: when the last 2 * Allowed + 1 calls were let through

vars == <<time, bucket, begun, swept, through>>

Row == [count : 1..(Allowed + 1), started : 0..Horizon]
Since(t) == t # Null => time - t < Lag

TypeOK ==
  /\ time \in 0..Horizon
  /\ bucket \in Row \cup {Null}
  /\ begun \in [Call -> 0..Horizon \cup {Null}]
  /\ swept \in 0..Horizon \cup {Null}
  /\ through \in Seq(0..Horizon)

Init ==
  /\ time = 0 /\ bucket = Null /\ swept = Null
  /\ begun = [c \in Call |-> Null] /\ through = <<>>

Tick ==
  /\ time < Horizon
  /\ Since(swept) /\ \A c \in Call : Since(begun[c])
  /\ time' = time + 1
  /\ UNCHANGED <<bucket, begun, swept, through>>

CheckRate(c) ==
  /\ begun[c] = Null
  /\ begun' = [begun EXCEPT ![c] = time]
  /\ UNCHANGED <<time, bucket, swept, through>>

Closed(row, now) == row.started + Period < now

(* The row after the call: a new one, one begun anew, or one more.         *)
Counted(now) ==
  IF bucket = Null \/ Closed(bucket, now)
  THEN [count |-> 1, started |-> now]
  ELSE [bucket EXCEPT !.count = IF @ > Allowed THEN @ ELSE @ + 1]

Last(f) == IF Len(f) <= 2 * Allowed + 1 THEN f ELSE Tail(f)

Upsert(c) ==
  /\ begun[c] # Null
  /\ bucket' = Counted(begun[c])
  /\ through' = IF bucket'.count <= Allowed THEN Last(Append(through, time)) ELSE through
  /\ begun' = [begun EXCEPT ![c] = Null]
  /\ UNCHANGED <<time, swept>>

SweepRateLimits ==
  /\ swept = Null
  /\ swept' = time
  /\ UNCHANGED <<time, bucket, begun, through>>

(* Mutant: the sweep drops whatever is not of this moment. *)
Dated(now) == bucket.started < now

Old(now) == bucket.started + Retention < now

DeleteOld ==
  /\ swept # Null
  /\ bucket' = IF bucket # Null /\ Old(swept) THEN Null ELSE bucket
  /\ swept' = Null
  /\ UNCHANGED <<time, begun, through>>

Next ==
  \/ Tick \/ SweepRateLimits \/ DeleteOld
  \/ \E c \in Call : CheckRate(c) \/ Upsert(c)

Spec == Init /\ [][Next]_vars

----------------------------------------------------------------------------
(* No span of one window's length sees more than two windows' worth of     *)
(* calls let through (but for the time a statement waits), whatever is     *)
(* swept meanwhile and in whatever order statements get the row            *)
(* (security/ratelimit.ts:16, :56).                                        *)
LimitHolds ==
  Len(through) = 2 * Allowed + 1 => through[2 * Allowed + 1] - through[1] > Period - Lag
=============================================================================
