---------------------------- MODULE MailboxNotice ----------------------------
(***************************************************************************)
(* The mailboxes implement ErrorNotice: where the reports, the notices and *)
(* the errors found are while the epochs, the scans and the handlers of    *)
(* the tasks interleave.                                                   *)
(***************************************************************************)
EXTENDS Mailbox

\* The head of c is telling its tasks.
Casting(c) == pc[HeadOf[c]] \in {"cast", "castpost"} /\ at[HeadOf[c]] = c

Holds(q, ev, c) == \E i \in 1 .. Len(q) : q[i] = [ev |-> ev, cd |-> c]

\* A report of c is between its two epochs or in the head's mailbox.
Reported(c) == \E s \in Task : <<c, s>> \in errFlag \/ (pc[s] = "post" /\ at[s] = c)

\* It is in the head's FIFO, and not the one whose handler is running.
Queued(c) ==
  LET q == queue[HeadOf[c]]
  IN  Holds(IF Casting(c) THEN Tail(q) ELSE q, "ErrorOccurred", c)

\* The tasks that are owed a notice of c.
Owed(c) ==
  IF Reported(c) \/ Queued(c) THEN Member[c] ELSE IF Casting(c) THEN todo[HeadOf[c]] ELSE {}

Untold == [c \in Shared |-> Owed(c)]

\* A notice is in the task's mailbox or in its FIFO.
Noticed(c, t) == <<c, t>> \in reexFlag \/ Holds(queue[t], "AllReexecute", c)

Told == {p \in Shared \X Task : Noticed(p[1], p[2])}

\* The rollback points that a failed Detect or Assert of s has still to set.
Marked(s) == IF pc[s] \in {"post", "check"} THEN todo[s] \X {lv[s]} ELSE {}

Due == UNION {Marked(s) : s \in Task}

EN == INSTANCE ErrorNotice WITH CD <- Shared, untold <- Untold, told <- Told, due <- Due

\* No report and no notice is lost between the two epochs of a post, the scan of a mailbox and
\* the handlers, and no rollback point is lowered but by a notice, by the task, or a task of
\* a CD it heads, that found an error, or to that of a task it synchronises with (Detect,
\* Assert, CheckMailBox, HandleErrorOccurred, HandleAllReexecute, SyncCDs).  The comment at
\* event_handler.cc:485, "I restricted the update ov *rollback_point__ only in
\* HandleAllReexecute", leaves the last two ways out.
NoticesAreKept == EN!NSpec
=============================================================================
