------------------------------ MODULE EventLog ------------------------------
(***************************************************************************)
(* The event log of a job and the captured output of its provider, as      *)
(* job_tail (jobs.py) hands them out: EventWriter.write by writers in      *)
(* several processes under the shared file lock, a process that dies in    *)
(* the middle of a line, a client that follows last_seq through truncated  *)
(* replies, and one that follows output_next_bytes.                        *)
(*                                                                         *)
(* Of events.jsonl only what a reader can tell is kept: the numbers of the *)
(* lines that parse, whether some line does not, and how the file ends: a  *)
(* line is one write of the JSON and its newline, and a writer that dies   *)
(* in it leaves a part of the JSON, or all of it without the newline.      *)
(***************************************************************************)
EXTENDS Integers, Sequences, FiniteSetsExt

CONSTANTS Writers, NoWriter,
          MaxEvents,    \* bound on the events written
          MaxOutput     \* bound on the provider's output, in bytes

ASSUME NoWriterAssumption == NoWriter \notin Writers
ASSUME LogBoundsAssumption == MaxEvents \in Nat /\ MaxOutput \in Nat

VARIABLES
    log,        \* numbers of the parseable lines, in order
    spoiled,    \* some line before the last newline does not parse
    ending,     \* what follows the last newline: "nothing", a "part" of a line that
                \* does not parse, or a "whole" one, the last of log
    holder,     \* who holds .events.lock
    next,       \* writer -> the number of the event it is writing, or 0
    written,    \* events handed to write(), dead writers' included
    cursor,     \* the client's since_seq
    got,        \* the numbers of the events it has been given
    size,       \* bytes of output; characters take two
    offset,     \* the client's output_since_bytes, or NoOffset
    shown,      \* characters it has been given, each by its first byte
    split,      \* characters that the file ended inside when they were read
    tailed      \* it started with a whole tail, at this size (or Fresh, or done)

logVars == <<log, spoiled, ending, holder, next, written, cursor, got>>
outputVars == <<size, offset, shown, split, tailed>>

NoOffset == -1

LogTypeOK ==
    /\ log \in Seq(1 .. MaxEvents) /\ spoiled \in BOOLEAN /\ ending \in {"nothing", "part", "whole"}
    /\ holder \in Writers \cup {NoWriter} /\ next \in [Writers -> 0 .. MaxEvents]
    /\ written \in 0 .. MaxEvents
    /\ cursor \in 0 .. MaxEvents /\ got \in Seq(1 .. MaxEvents)
    /\ size \in 0 .. MaxOutput /\ offset \in {NoOffset} \cup 0 .. MaxOutput
    /\ shown \subseteq 0 .. MaxOutput - 1 /\ split \subseteq 0 .. MaxOutput - 1
    /\ tailed \in {"no", "reading", "yes"}

\* A client starts at the first event, and either at the first byte or with
\* a whole tail.
LogInit ==
    /\ log = << >> /\ spoiled = FALSE /\ ending = "nothing"
    /\ holder = NoWriter /\ next = [w \in Writers |-> 0] /\ written = 0
    /\ cursor = 0 /\ got = << >>
    /\ size = 0 /\ offset \in {NoOffset, 0} /\ shown = {} /\ split = {} /\ tailed = "no"

Elements(s) == {s[i] : i \in 1 .. Len(s)}

\* _reload_seq: the highest number of a line that parses.
Highest == Max({0} \cup Elements(log))

-----------------------------------------------------------------------------
(* EventWriter.write *)

\* Mutant: only the writer's own lock, which other instances do not share.
MutReload(w) ==
    /\ next[w] = 0 /\ written < MaxEvents
    /\ holder' = w /\ next' = [next EXCEPT ![w] = Highest + 1] /\ written' = written + 1
    /\ UNCHANGED <<log, spoiled, ending, cursor, got, outputVars>>

Reload(w) ==
    /\ holder = NoWriter /\ written < MaxEvents
    /\ holder' = w /\ next' = [next EXCEPT ![w] = Highest + 1] /\ written' = written + 1
    /\ UNCHANGED <<log, spoiled, ending, cursor, got, outputVars>>

Unlock(w) == next[w] # 0 /\ holder' = NoWriter /\ next' = [next EXCEPT ![w] = 0]

\* What is appended to an unterminated line spoils it and itself, so that the
\* number of a whole one is handed out again.
Unspoiled == IF ending = "whole" THEN SubSeq(log, 1, Len(log) - 1) ELSE log

AppendLine(w) ==
    /\ Unlock(w) /\ ending' = "nothing"
    /\ IF ending = "nothing"
       THEN log' = Append(log, next[w]) /\ UNCHANGED spoiled
       ELSE log' = Unspoiled /\ spoiled' = TRUE
    /\ UNCHANGED <<written, cursor, got, outputVars>>

\* The process dies before its write, or inside it; the file lock goes with it.
DieWriting(w) ==
    /\ Unlock(w)
    /\ \/ UNCHANGED <<log, ending>>
       \/ log' = Unspoiled /\ ending' = "part"
       \/ ending = "nothing" /\ log' = Append(log, next[w]) /\ ending' = "whole"
    /\ UNCHANGED <<spoiled, written, cursor, got, outputVars>>

-----------------------------------------------------------------------------
(* job_tail *)

\* _read_since_locked: the numbers beyond the cursor among the first i lines.
Beyond[i \in 0 .. Len(log)] ==
    IF i = 0 THEN << >>
    ELSE IF log[i] > cursor THEN Append(Beyond[i - 1], log[i]) ELSE Beyond[i - 1]

Unseen == Beyond[Len(log)]

\* Mutant: a truncated reply carries the high-water mark of the log.
MutCursorAfter(n) == Highest

\* last_seq of a reply with the first n unseen events in it.
CursorAfter(n) ==
    IF n = Len(Unseen) THEN Highest ELSE IF n = 0 THEN cursor ELSE Unseen[n]

\* A line that does not parse raises, in every read from then on.
Unreadable == spoiled \/ ending = "part"

\* max_events and max_bytes cut the reply anywhere.
TailEvents ==
    /\ holder = NoWriter /\ ~ Unreadable
    /\ \E n \in 0 .. Len(Unseen) :
         /\ got' = got \o SubSeq(Unseen, 1, n)
         /\ cursor' = CursorAfter(n)
    /\ UNCHANGED <<log, spoiled, ending, holder, next, written, outputVars>>

TailEverything ==
    /\ TailEvents /\ Len(got') = Len(got) + Len(Unseen)

Prints ==
    /\ size < MaxOutput /\ size' = size + 1
    /\ UNCHANGED <<logVars, offset, shown, split, tailed>>

\* Leading bytes of characters have even positions.
IsLead(b) == b % 2 = 0

\* decode(errors="replace") of the bytes before end: the characters that are
\* whole, and one that the end cuts in two, which becomes U+FFFD.
Decoded(start, end) == {b \in start .. end - 1 : IsLead(b) /\ b + 1 < end}
Replaced(start, end) == {b \in start .. end - 1 : IsLead(b) /\ b + 1 = end}

\* _read_output_tail, then the stat of job_tail: the size may have grown.
TailOutput ==
    /\ offset = NoOffset /\ tailed = "no" /\ size > 0
    /\ shown' = Decoded(0, size) /\ split' = Replaced(0, size) /\ tailed' = "reading"
    /\ UNCHANGED <<logVars, size, offset>>
StatOutput ==
    /\ tailed = "reading" /\ tailed' = "yes" /\ offset' = size
    /\ UNCHANGED <<logVars, size, shown, split>>

\* The rest of a character before the offset is skipped.
CharacterStart(b) == IF ~ IsLead(b) /\ b < size THEN b + 1 ELSE b

\* Mutant: the next offset is the size of the file.
MutNextOffset(start, length) == size

NextOffset(start, length) == start + length

\* _read_output_since with max_bytes of one or more: a slice that ends inside
\* a character is extended to its end, unless the file ends there too.
ReadOutputSince ==
    /\ offset # NoOffset
    /\ LET start == CharacterStart(offset) IN
       \E limit \in 1 .. MaxOutput :
         LET cut == Min({limit, size - start})
             whole == IF ~ IsLead(start + cut) /\ start + cut < size THEN cut + 1 ELSE cut
         IN  /\ shown' = shown \cup Decoded(start, start + whole)
             /\ split' = split \cup Replaced(start, start + whole)
             /\ offset' = IF size = start THEN start ELSE NextOffset(start, whole)
    /\ UNCHANGED <<logVars, size, tailed>>

-----------------------------------------------------------------------------
Write(w) == Reload(w) \/ AppendLine(w)
ReadsLog == TailEvents \/ TailOutput \/ StatOutput \/ ReadOutputSince
LogNext == (\E w \in Writers : Write(w) \/ DieWriting(w)) \/ Prints \/ ReadsLog

Promise == INSTANCE OrderedLog WITH logged <- log, received <- got, broken <- Unreadable

\* Several writers in several processes and truncated replies implement an
\* ordered log: no event is lost, repeated or reordered on its way to a
\* client that continues from last_seq, and numbers have no gaps.  A writer
\* that dies in the middle of a line breaks the log for good, at once or with
\* the next event, and from then on no reader gets anything.
ImplementsOrderedLog == Promise!LogSpec

\* A client that starts at byte 0 has been shown every character below its
\* offset, however the slices fell, except one that the file ended inside when
\* it was read: that one is passed as U+FFFD, and its rest is skipped later.
OutputKeepsItsPlace ==
    tailed = "no" /\ offset # NoOffset
        => \A b \in 0 .. offset - 1 : IsLead(b) => b \in shown \cup split

\* What the test of output_since_bytes says by its name, "never_splits_utf8",
\* and asserts of a complete file: a client that starts at byte 0 is shown
\* every character that the file holds below its offset.
NeverSplits ==
    tailed = "no" /\ offset # NoOffset
        => \A b \in 0 .. offset - 1 : IsLead(b) /\ b + 1 < size => b \in shown

\* What the writer's docstring, "Monotonic per-job event writer", says of its
\* numbers: the one that the next event will get never goes back.
NumbersAreMonotonic == [][Highest' >= Highest]_logVars
=============================================================================
