---------------------------- MODULE EventJournal ----------------------------
(***************************************************************************)
(* The event journal of a session (runtime/background.py): producers save  *)
(* each event under a session-wide sequence number, keep the newest        *)
(* MaxEvents, and remember per run how far its events were pruned; a       *)
(* subscriber reads the live producer's mirror and the journal.            *)
(*                                                                         *)
(* Event n of the session is the n-th ever saved; owner says whose it is.  *)
(***************************************************************************)
EXTENDS Integers, Sequences, FiniteSetsExt

CONSTANTS Runs,
          MaxEvents,    \* retention, settings-independent parameter of the manager
          MaxMarkers,   \* run_journal entries kept though their run has no events
          MaxAppends    \* bound: events saved

\* A session has finitely many runs; a retention of zero is replaced by the default.
ASSUME JournalBounds == IsFiniteSet(Runs) /\ MaxEvents \in Nat \ {0} /\ MaxMarkers \in Nat

VARIABLES owner,     \* sequence of runs: owner[n] wrote event n
          retained,  \* sequence numbers of the retained events
          expired,   \* [Runs -> expired_through of its run_journal entry, 0 if none]
          live,      \* the run that has a producer, or NoRun
          saved,     \* event saved and not mirrored yet: <<[id, event]>> or <<>>
          mirror,    \* the producer's events: sequence of [id, event]
          sub        \* the subscription

journalVars == <<owner, retained, expired, live, saved, mirror, sub>>

NoRun == "none"
NoSub == [at |-> "none", run |-> NoRun, from |-> 0, cursor |-> 0, idx |-> 0, state |-> FALSE,
          got |-> <<>>, upto |-> 0, quiet |-> TRUE, error |-> FALSE]

InOrder(numbers) ==
  [k \in 1..Cardinality(numbers) |->
     CHOOSE n \in numbers : Cardinality({m \in numbers : m <= n}) = k]

EventsOf(r, from, to) == InOrder({n \in 1..to : n > from /\ owner[n] = r})

----------------------------------------------------------------------------
(* Producers *)

start_producer(r) ==
  /\ live = NoRun /\ live' = r
  /\ mirror' = <<>>
  /\ sub' = IF sub.run = r /\ sub.at # "done" THEN [sub EXCEPT !.quiet = FALSE] ELSE sub
  /\ UNCHANGED <<owner, retained, expired, saved>>

\* Markers of runs without retained events go when there are too many; the
\* one saved last is the newest.
forget_markers(marks, kept) ==
  IF Cardinality({r \in Runs : marks[r] > 0}) > MaxMarkers
  THEN [r \in Runs |-> IF r # live /\ \A n \in kept : owner[n] # r THEN 0 ELSE marks[r]]
  ELSE marks

\* The id _append returns.  The loop over the pruned runs reuses the variable
\* that held the new sequence number.
append_id(n, stale) == IF stale = {} THEN n ELSE Max(stale)

\* _append, one transaction: number, save, mark what is pruned, prune.
append(mirrored) ==
  LET n     == Max(retained \cup {0}) + 1
      stale == {k \in retained \cup {n} : Cardinality({j \in retained \cup {n} : j > k}) >= MaxEvents}
      kept  == (retained \cup {n}) \ stale
      own   == Append(owner, live)
      marks == [r \in Runs |-> Max({expired[r]} \cup {k \in stale : own[k] = r})]
  IN /\ live # NoRun /\ saved = <<>> /\ Len(owner) < MaxAppends
     /\ owner' = own
     /\ retained' = kept
     /\ expired' = IF stale = {} THEN marks ELSE forget_markers(marks, kept \ {n})
     /\ saved' = IF mirrored THEN <<[id |-> append_id(n, stale), event |-> n]>> ELSE <<>>
     /\ live' = IF mirrored THEN live ELSE NoRun   \* the error events of a failed producer are its last
     /\ UNCHANGED <<mirror, sub>>

\* The producer goes on: the event joins the mirror, trimmed from the front.
\* A subscriber iterates over the list by position.
deliver ==
  LET all == mirror \o saved IN
  /\ saved # <<>> /\ saved' = <<>>
  /\ mirror' = IF Len(all) > MaxEvents THEN Tail(all) ELSE all
  /\ UNCHANGED <<owner, retained, expired, live, sub>>

EndProducer ==
  /\ live # NoRun /\ saved = <<>> /\ live' = NoRun
  /\ UNCHANGED <<owner, retained, expired, saved, mirror, sub>>

----------------------------------------------------------------------------
(* Subscribers *)

\* reconnect_run: from a cursor the client holds, or from the start.
reconnect_run(r, cursor) ==
  /\ sub.at \in {"none", "done"}
  /\ sub' = [NoSub EXCEPT !.at = "top", !.run = r, !.from = cursor, !.cursor = cursor]
  /\ UNCHANGED <<owner, retained, expired, live, saved, mirror>>

\* events, the live mirror: the next entry past the cursor, else on to the journal.
events_mirror ==
  LET state == live = sub.run
      at    == IF sub.at = "top" THEN 1 ELSE sub.idx
      next  == {i \in at..Len(mirror) : mirror[i].id > sub.cursor}
  IN /\ sub.at \in {"top", "mirror"}
     /\ sub' = IF (sub.at = "top" /\ ~state) \/ next = {}
               THEN [sub EXCEPT !.at = "journal", !.state = IF sub.at = "top" THEN state ELSE @,
                                !.quiet = @ /\ ~state]
               ELSE [sub EXCEPT !.at = "mirror", !.state = TRUE, !.quiet = FALSE,
                                !.idx = Min(next) + 1, !.cursor = mirror[Min(next)].id,
                                !.got = Append(@, mirror[Min(next)].event)]
     /\ UNCHANGED <<owner, retained, expired, live, saved, mirror>>

\* Mutant: pruned history is not reported.
ReplaySuffix ==
  LET fresh == {n \in retained : n > sub.cursor} IN
  /\ sub.at = "journal"
  /\ sub' = [sub EXCEPT !.upto = Len(owner), !.at = IF sub.state THEN "top" ELSE "done",
                        !.cursor = Max(fresh \cup {@}),
                        !.got = @ \o InOrder({n \in fresh : owner[n] = sub.run})]
  /\ UNCHANGED <<owner, retained, expired, live, saved, mirror>>

\* events, the journal: expired history is an explicit error; otherwise the
\* rows past the cursor.  A subscription without a producer then ends.
events_journal ==
  LET fresh == {n \in retained : n > sub.cursor}
      new   == [sub EXCEPT !.upto = Len(owner)]
  IN /\ sub.at = "journal"
     /\ sub' = IF expired[sub.run] > sub.cursor THEN [new EXCEPT !.at = "done", !.error = TRUE]
               ELSE [new EXCEPT !.at = IF sub.state THEN "top" ELSE "done",
                                !.cursor = Max(fresh \cup {@}),
                                !.got = @ \o InOrder({n \in fresh : owner[n] = sub.run})]
     /\ UNCHANGED <<owner, retained, expired, live, saved, mirror>>

----------------------------------------------------------------------------
JournalInit ==
  /\ owner = <<>> /\ retained = {} /\ expired = [r \in Runs |-> 0]
  /\ live = NoRun /\ saved = <<>> /\ mirror = <<>> /\ sub = NoSub

JournalNext ==
  \/ \E r \in Runs : start_producer(r) \/ \E c \in 0..Len(owner) : reconnect_run(r, c)
  \/ \E mirrored \in BOOLEAN : append(mirrored)
  \/ deliver \/ EndProducer \/ events_mirror \/ events_journal

JournalSpec == JournalInit /\ [][JournalNext]_journalVars

----------------------------------------------------------------------------
(* Properties *)

JournalTypeOK ==
  /\ retained \subseteq 1..Len(owner) /\ Cardinality(retained) <= MaxEvents
  /\ live \in Runs \cup {NoRun} /\ Len(mirror) <= MaxEvents /\ Len(saved) <= 1
  /\ sub.at \in {"none", "top", "mirror", "journal", "done"}

\* The replay of a run without a producer is an explicit error or exactly the
\* run's events past the cursor, never a malformed suffix, whatever the other
\* runs of the session made the journal prune (_append, events).  It needs room
\* for the markers: see MaxMarkers.
ReplayExactOrError ==
  (sub.at = "done" /\ sub.quiet /\ ~sub.error) =>
    sub.got = EventsOf(sub.run, sub.from, sub.upto)

=============================================================================
