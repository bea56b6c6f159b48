------------------------------ MODULE AuditMC -------------------------------
(***************************************************************************)
(* The audit log and who reads it, for TLC: the chain under concurrent     *)
(* appends (AuditLog), and the feed, the summary and the pages             *)
(* (AuditReaders). The readers have a log of committed rows alone, so one  *)
(* run checks them side by side: part, chosen by Init, is the one that     *)
(* moves; the variables of the other are idle.                             *)
(***************************************************************************)
EXTENDS AuditLog

CONSTANTS Kinds, ReadRows, BatchSize, PageOfConsole, MaxDrops, None

VARIABLES part,
          reader, log, hourFrom, minuteFrom, feed, drops, list, count

R == INSTANCE AuditReaders WITH MaxRows <- ReadRows,
       PageSize <- PageOfConsole

ASSUME AuditMCAssumption == R!ReadersAssumption

readersVars == <<reader, log, hourFrom, minuteFrom, feed, drops, list, count>>
mcVars == <<part, vars, readersVars>>

ReadersIdle ==
  /\ reader = None /\ log = None /\ hourFrom = None /\ minuteFrom = None
  /\ feed = None /\ drops = None /\ list = None /\ count = None

MCInit ==
  \/ part = "log" /\ Init /\ ReadersIdle
  \/ /\ part = "readers" /\ R!Init
     /\ Init

MCNext ==
  \/ part = "log" /\ Next /\ UNCHANGED <<part, readersVars>>
  \/ part = "readers" /\ R!Next
     /\ UNCHANGED <<part, vars>>

(* The fairness of AuditLog, whose steps are not enabled where it is idle, *)
(* and of the feed.                                                        *)
MCFairness == Fairness /\ WF_readersVars(part = "readers" /\ R!Poll)

MCSpec == MCInit /\ [][MCNext]_mcVars /\ MCFairness

-----------------------------------------------------------------------------
(* The feed has sent, once and in order, the decisions between its         *)
(* beginning and its cursor (activity_stream.py:37); the pages of the      *)
(* console are the log without gap or repetition, although rows are added  *)
(* on top (audit.py:66); the minute counts what the hour does not only if  *)
(* it came in between (activity_stream.py:143).                            *)
ReadersSeeTheLog ==
  part = "readers" =>
    /\ R!TypeOK /\ R!FeedIsExact /\ R!PagesAreOne /\ R!MinuteExplained

(* A decision that is recorded while the feed is connected is sent, or the *)
(* connection is lost.                                                     *)
FeedCatchesUp ==
  \A n \in 1 .. ReadRows :
    part = "readers" /\ n \in R!Decisions(0) /\ feed.on /\ feed.seed < n
    ~> part = "readers" /\ (feed.cursor >= n \/ ~feed.on)

=============================================================================
