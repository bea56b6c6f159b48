---------------------------- MODULE AuditReaders ----------------------------
(***************************************************************************)
(* Who reads the audit log while it grows: the live feed of decisions      *)
(* (api/v1/activity_stream.py), its summary, and the pages of              *)
(* GET /audit/events, newest first (api/v1/audit.py).  Rows become visible *)
(* in the order of their sequence numbers, as AuditLog shows.              *)
(***************************************************************************)
EXTENDS Naturals, Sequences, FiniteSets

CONSTANTS Kinds,          \* what a row records: "decision" or something else
          MaxRows,        \* bound on the rows
          BatchSize,      \* rows a poll of the feed takes: 50
          PageSize,       \* the console's ?limit=
          MaxDrops        \* bound on lost connections and failed polls

ReadersAssumption ==
  /\ "decision" \in Kinds
  /\ MaxRows \in Nat /\ MaxDrops \in Nat
  /\ BatchSize \in Nat \ {0} /\ PageSize \in Nat \ {0}

VARIABLES reader,         \* which of them is looked at: they leave the log alone
          log,            \* the kinds of the committed rows, by sequence number
          hourFrom,       \* the last row that is older than an hour ...
          minuteFrom,     \* ... and than a minute
          feed,           \* a connection of the feed
          drops,
          list,           \* the console's pages so far
          count           \* a call of the summary

readers == <<reader, log, hourFrom, minuteFrom, feed, drops, list, count>>

NoFeed == [on |-> FALSE, seed |-> 0, cursor |-> 0, got |-> <<>>]
NoList == [top |-> 0, cursor |-> 0, shown |-> <<>>]
NoCount == [pc |-> "idle", at |-> 0, hour |-> {}, minute |-> {}, from |-> 0]

Init ==
  /\ reader \in {"feed", "pages", "summary"}
  /\ log = <<>>
  /\ hourFrom = 0 /\ minuteFrom = 0
  /\ feed = NoFeed /\ drops = 0
  /\ list = NoList
  /\ count = NoCount

Decisions(from) == {n \in from + 1 .. Len(log) : log[n] = "decision"}

-----------------------------------------------------------------------------
Record(k) ==
  /\ Len(log) < MaxRows
  /\ log' = Append(log, k)
  /\ UNCHANGED <<reader, hourFrom, minuteFrom, feed, drops, list, count>>

Ages ==
  /\ reader = "summary"
  /\ \/ hourFrom < minuteFrom /\ hourFrom' = hourFrom + 1 /\ minuteFrom' = minuteFrom
     \/ minuteFrom < Len(log) /\ minuteFrom' = minuteFrom + 1 /\ hourFrom' = hourFrom
  /\ UNCHANGED <<reader, log, feed, drops, list, count>>

(* _event_generator begins at the highest number there is, of any kind.    *)
Connect ==
  /\ reader = "feed" /\ ~feed.on
  /\ feed' = [on |-> TRUE, seed |-> Len(log), cursor |-> Len(log), got |-> <<>>]
  /\ UNCHANGED <<reader, log, hourFrom, minuteFrom, drops, list, count>>

Rank(S, x) == Cardinality({y \in S : y <= x})
InOrder(S) == [i \in 1 .. Cardinality(S) |-> CHOOSE x \in S : Rank(S, x) = i]

(* ORDER BY sequence LIMIT n: the n least of a set, in order.              *)
Least(S, n) == {x \in S : Rank(S, x) <= n}

Batch == InOrder(Least(Decisions(feed.cursor), BatchSize))

(* Mutant: it waits for a full batch.                                      *)
Poll_FullBatch ==
  /\ feed.on /\ Len(Batch) = BatchSize
  /\ feed' = [feed EXCEPT !.cursor = Batch[Len(Batch)], !.got = @ \o Batch]
  /\ UNCHANGED <<reader, log, hourFrom, minuteFrom, drops, list, count>>

(* A poll, every two seconds: the cursor follows each event that is sent.  *)
Poll ==
  /\ feed.on /\ Batch # <<>>
  /\ feed' = [feed EXCEPT !.cursor = Batch[Len(Batch)], !.got = @ \o Batch]
  /\ UNCHANGED <<reader, log, hourFrom, minuteFrom, drops, list, count>>

(* The connection is lost somewhere in a batch; the browser connects again.*)
Drop ==
  /\ feed.on /\ drops < MaxDrops
  /\ drops' = drops + 1
  /\ feed' = NoFeed
  /\ UNCHANGED <<reader, log, hourFrom, minuteFrom, list, count>>

-----------------------------------------------------------------------------
(* Mutant: pages are asked for by number, OFFSET instead of a cursor.      *)
OlderPage_ByOffset ==
  LET below == {n \in 1 .. Len(log) : Len(log) - n >= Len(list.shown)}
  IN {n \in below : Cardinality({m \in below : m >= n}) <= PageSize}

(* GET /audit/events?cursor=: the rows below the cursor, newest first.     *)
OlderPage ==
  LET below == {n \in 1 .. Len(log) : list.shown = <<>> \/ n < list.cursor}
  IN {n \in below : Cardinality({m \in below : m >= n}) <= PageSize}

Reversed(s) == [i \in 1 .. Len(s) |-> s[Len(s) + 1 - i]]

ListOlder ==
  /\ reader = "pages" /\ OlderPage # {}
  /\ LET page == Reversed(InOrder(OlderPage))
     IN list' = [top |-> IF list.shown = <<>> THEN page[1] ELSE list.top,
                 cursor |-> page[Len(page)], shown |-> list.shown \o page]
  /\ UNCHANGED <<reader, log, hourFrom, minuteFrom, feed, drops, count>>

(* The console starts over.                                                *)
ListAnew ==
  /\ list.shown # <<>>
  /\ list' = NoList
  /\ UNCHANGED <<reader, log, hourFrom, minuteFrom, feed, drops, count>>

-----------------------------------------------------------------------------
(* activity_summary fixes the time, counts the last hour, and then, in     *)
(* another statement, the last minute.                                     *)
CountHour ==
  /\ reader = "summary" /\ count.pc = "idle"
  /\ count' = [pc |-> "minute", at |-> Len(log), from |-> minuteFrom, hour |-> Decisions(hourFrom),
               minute |-> {}]
  /\ UNCHANGED <<reader, log, hourFrom, minuteFrom, feed, drops, list>>

CountMinute ==
  /\ count.pc = "minute"
  /\ count' = [count EXCEPT !.pc = "done", !.minute = Decisions(count.from)]
  /\ UNCHANGED <<reader, log, hourFrom, minuteFrom, feed, drops, list>>

CountAnew ==
  /\ count.pc = "done"
  /\ count' = NoCount
  /\ UNCHANGED <<reader, log, hourFrom, minuteFrom, feed, drops, list>>

Next ==
  \/ \E k \in Kinds : Record(k)
  \/ Ages
  \/ Connect \/ Poll \/ Drop
  \/ ListOlder \/ ListAnew
  \/ CountHour \/ CountMinute \/ CountAnew

(* The feed polls as long as it is connected.                              *)
ReadersFairness == WF_readers(Poll)

Spec == Init /\ [][Next]_readers /\ ReadersFairness

-----------------------------------------------------------------------------
(* The types of the feed, the pages and the summary.                       *)
TypeOK ==
  /\ log \in Seq(Kinds)
  /\ hourFrom <= minuteFrom /\ minuteFrom <= Len(log)
  /\ feed.seed <= feed.cursor /\ feed.cursor <= Len(log)
  /\ list.cursor <= list.top
  /\ count.pc \in {"idle", "minute", "done"}

(* A connection of the feed has sent, once and in order, exactly the       *)
(* decisions between its beginning and its cursor, however many come       *)
(* between two polls (activity_stream.py:37-64).                           *)
FeedIsExact ==
  feed.got = InOrder({n \in Decisions(feed.seed) : n <= feed.cursor})

(* The pages of the console together are the log from the row it began     *)
(* with, without gap or repetition, although rows are added on top         *)
(* (audit.py:66-72).                                                       *)
PagesAreOne ==
  list.shown # <<>> =>
    list.shown = [i \in 1 .. list.top + 1 - list.cursor |-> list.top + 1 - i]

(* The summary counts more decisions in the last minute than in the last   *)
(* hour only if some came between its two statements                       *)
(* (activity_stream.py:130-149).                                           *)
MinuteExplained ==
  count.pc = "done" => \A n \in count.minute \ count.hour : n > count.at

(* A decision that is recorded while the feed is connected is sent, or the *)
(* connection is lost.                                                     *)
FeedCatchesUp ==
  \A n \in 1 .. MaxRows :
    n \in Decisions(0) /\ feed.on /\ feed.seed < n ~> feed.cursor >= n \/ ~feed.on
=============================================================================
