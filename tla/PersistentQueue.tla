-------------------------- MODULE PersistentQueue --------------------------
(***************************************************************************)
(* The file-backed queue between the registry listener and the metadata    *)
(* worker: a file of JSON lines that producers append to and whose front   *)
(* line the only consumer takes, writes to the database and then removes.  *)
(* Every method runs under the queue's lock and is one step.               *)
(*                                                                         *)
(* An item is a positive natural number; a line that json.loads refuses is *)
(* Malformed.  An append that is interrupted leaves some of its lines and  *)
(* perhaps a last one without its newline, complete or not; the next       *)
(* append then continues that line.                                        *)
(***************************************************************************)
EXTENDS Naturals, Sequences, SequencesExt

Malformed == 0
NoInFlight == 0

VARIABLES
  file,       \* the lines of the queue file
  openTail,   \* its last line has no newline
  inFlight,   \* _in_flight: the item returned by get() and not yet done
  size,       \* _size: the queue depth shown to the user
  blocked     \* the consumer in get(): "no", "waiting" in _cond.wait, or "woken"

fileVars == <<file, openTail>>
pqVars == <<file, openTail, inFlight, size, blocked>>

\* The file after items were appended: an open last line swallows the first of them.
Appended(items) ==
  IF items = <<>> THEN file
  ELSE IF openTail THEN Front(file) \o <<Malformed>> \o Tail(items)
  ELSE file \o items

\* A mutation of NotifyAll: the append forgets to notify.
NotifyAll_Forgotten == UNCHANGED blocked

NotifyAll == blocked' = IF blocked = "waiting" THEN "woken" ELSE blocked

\* put_many: append all lines, fsync, notify.  Nothing at all for no items.
PutMany(items) ==
  /\ file' = Appended(items)
  /\ openTail' = (openTail /\ items = <<>>)
  /\ size' = size + Len(items)
  /\ IF items = <<>> THEN UNCHANGED blocked ELSE NotifyAll
  /\ UNCHANGED inFlight

\* The write of put_many is cut short, by an I/O error or with the process: k lines
\* reached the file and perhaps a part, or all but the newline, of the next one.
WriteTorn(items) ==
  \E k \in 0..Len(items) :
    \/ /\ file' = Appended(SubSeq(items, 1, k))
       /\ openTail' = (openTail /\ k = 0)
    \/ /\ k < Len(items)
       /\ \E last \in {Malformed, items[k + 1]} :
            file' = Appended(Append(SubSeq(items, 1, k), last))
       /\ openTail' = TRUE

\* put_many raises: neither the size nor the consumer hears of what was written.
PutManyFails(items) == WriteTorn(items) /\ UNCHANGED <<inFlight, size, blocked>>

\* The first k lines, and no more, are malformed.
MalformedPrefix(k) ==
  /\ \A i \in 1..k : file[i] = Malformed
  /\ k < Len(file) => file[k + 1] # Malformed

\* A mutation of Kept: get() removes the line it returns.
Kept_Removed(k) == SubSeq(file, k + 2, Len(file))

\* What get() leaves in the file once it has dropped k malformed lines.
Kept(k) == SubSeq(file, k + 1, Len(file))

\* get() returns the unacknowledged item again, or drops the malformed lines at the
\* front and returns the first good one, which stays in the file.
Get ==
  /\ blocked # "waiting"
  /\ \/ inFlight # NoInFlight /\ UNCHANGED <<file, openTail, inFlight>>
     \/ /\ inFlight = NoInFlight
        /\ \E k \in 0..Len(file) :
             /\ MalformedPrefix(k) /\ k < Len(file)
             /\ file' = Kept(k) /\ inFlight' = file[k + 1]
        /\ UNCHANGED openTail
  /\ blocked' = "no"
  /\ UNCHANGED size

\* get() finds nothing to return, if need be after dropping malformed lines, and waits.
GetBlocks ==
  /\ blocked = "no" \/ (blocked = "woken" /\ file # <<>>)
  /\ inFlight = NoInFlight /\ MalformedPrefix(Len(file))
  /\ file' = <<>> /\ openTail' = FALSE
  /\ blocked' = "waiting"
  /\ UNCHANGED <<inFlight, size>>

\* get() was woken and the file is still empty: it returns None.
GetNone ==
  /\ blocked = "woken" /\ file = <<>> /\ inFlight = NoInFlight
  /\ blocked' = "no"
  /\ UNCHANGED <<file, openTail, inFlight, size>>

\* A mutation of SizeAfterDone: no guard against underflow.
SizeAfterDone_Unguarded == 0 - 1 + size

SizeAfterDone == IF size > 0 THEN size - 1 ELSE 0

\* task_done: the front line goes, whatever it is.
TaskDone ==
  /\ file # <<>>
  /\ file' = Tail(file)
  /\ openTail' = (openTail /\ Len(file) > 1)
  /\ inFlight' = NoInFlight
  /\ size' = SizeAfterDone
  /\ UNCHANGED blocked

\* The constructor on the file that an earlier process or an earlier entry left.
Open(lines, open) ==
  /\ file' = lines /\ openTail' = open
  /\ inFlight' = NoInFlight /\ size' = Len(lines) /\ blocked' = "no"

PQInit ==
  /\ file = <<>> /\ openTail = FALSE
  /\ inFlight = NoInFlight /\ size = 0 /\ blocked = "no"
=============================================================================
