---------------------------- MODULE ContainerLogs ----------------------------
(***************************************************************************)
(* What is answered to a request for the logs of a container: the stream   *)
(* is kept in a circular buffer (internal/cluster/buffer.go) and then cut  *)
(* into lines (parseLogs of internal/cluster/cluster.go).                  *)
(*                                                                         *)
(* A byte is "T" (a timestamp), "_" (a space), "x" (anything else) or "n"  *)
(* (the end of a line).                                                    *)
(***************************************************************************)
EXTENDS Naturals, FiniteSets, Sequences, SequencesExt

CONSTANTS LogCapacity,   \* maxLogSizeBytes (10 MiB in the code)
          MinLine        \* bytes of the shortest line: its timestamp (32 in the code)

ASSUME LogAssumption == /\ LogCapacity \in Nat \ {0} /\ MinLine \in Nat \ {0}
                        /\ LogCapacity % MinLine = 0

-----------------------------------------------------------------------------
NewCircularBuffer(capacity) ==
  [buf |-> [i \in 0 .. capacity - 1 |-> "0"], start |-> 0, end |-> 0, full |-> FALSE]

WriteByte(c, b) ==
  LET size == Cardinality(DOMAIN c.buf)
      end == (c.end + 1) % size
      start == IF c.full THEN (c.start + 1) % size ELSE c.start
  IN  [buf |-> [c.buf EXCEPT ![c.end] = b], start |-> start, end |-> end,
       full |-> c.full \/ end = start]

Write(c, bytes) ==
  LET after[i \in 0 .. Len(bytes)] ==
        IF i = 0 THEN c ELSE WriteByte(after[i - 1], bytes[i])
  IN  after[Len(bytes)]

(* c.buf[from:to] *)
Slice(c, from, to) == [i \in 1 .. to - from |-> c.buf[from + i - 1]]

(* Mutant: a buffer whose ends meet is taken to be empty. *)
BytesBetween(c) ==
  IF c.end >= c.start THEN Slice(c, c.start, c.end)
  ELSE Slice(c, c.start, Cardinality(DOMAIN c.buf)) \o Slice(c, 0, c.end)

(* From an empty buffer, as from a full one, all of it is read. *)
Bytes(c) ==
  IF c.end > c.start THEN Slice(c, c.start, c.end)
  ELSE Slice(c, c.start, Cardinality(DOMAIN c.buf)) \o Slice(c, 0, c.end)

-----------------------------------------------------------------------------
(* bytes.Split at the ends of lines; split[i] are the lines of the last i  *)
(* bytes.                                                                  *)
Lines(bytes) ==
  LET split[i \in 0 .. Len(bytes)] ==
        IF i = 0 THEN << <<>> >>
        ELSE LET b == bytes[Len(bytes) + 1 - i]
                 rest == split[i - 1]
             IN  IF b = "n" THEN << <<>> >> \o rest ELSE <<<<b>> \o rest[1]>> \o Tail(rest)
  IN  split[Len(bytes)]

(* The elements of a sequence that pass a test (SelectSeq, in a form that  *)
(* can be reasoned about)                                                  *)
Selected(seq, Test(_)) ==
  LET those[i \in 0 .. Len(seq)] ==
        IF i = 0 THEN <<>>
        ELSE LET x == seq[Len(seq) + 1 - i]
             IN  (IF Test(x) THEN <<x>> ELSE <<>>) \o those[i - 1]
  IN  those[Len(seq)]

(* splitLogLine: a line is a timestamp, a space and the message *)
WellFormed(line) == Len(line) >= 2 /\ line[1] = "T" /\ line[2] = "_"

(* parseLogs, after the stream has been read to its end.  Empty lines, and *)
(* a malformed first one, are skipped; any other malformed line is an      *)
(* error.                                                                  *)
parseLogs(log) ==
  LET lines == Lines(Bytes(Write(NewCircularBuffer(LogCapacity), log)))
      bad == {i \in DOMAIN lines : i > 1 /\ lines[i] # <<>> /\ ~WellFormed(lines[i])}
  IN  [lines |-> Selected(lines, WellFormed), failed |-> bad # {}]

(* containerLogs: as many lines are asked for as can fill the buffer *)
TailLines == LogCapacity \div MinLine

(* The API server's answer to that (external): the last lines of the log.  *)
(* A log is its lines, and whether the last of them is ended.              *)
FromLast(log, i) == log.lines[Len(log.lines) + 1 - i]

EndOf(log, i) == IF i = 1 /\ ~log.ended THEN <<>> ELSE <<"n">>

Text(log, n) ==
  LET text[i \in 0 .. Len(log.lines)] ==
        IF i = 0 THEN <<>> ELSE FromLast(log, i) \o EndOf(log, i) \o text[i - 1]
  IN  text[n]

Streamed(log) ==
  Text(log, IF Len(log.lines) > TailLines THEN TailLines ELSE Len(log.lines))

(* Every line is something, and with its end no shorter than the code      *)
(* assumes if it has a timestamp (external).                               *)
LineByte == {"T", "_", "x"}

IsLog(log) ==
  /\ log.lines \in Seq(Seq(LineByte)) /\ log.ended \in BOOLEAN
  /\ \A i \in DOMAIN log.lines : LET line == log.lines[i] IN
       line # <<>> /\ (WellFormed(line) => Len(line) + 1 >= MinLine)

-----------------------------------------------------------------------------
(* The last lines of a log that fit into the buffer, whole *)
NumberFitting(log) ==
  LET fits == {i \in 0 .. Len(log.lines) : Len(Text(log, i)) <= LogCapacity}
  IN  CHOOSE i \in fits : \A j \in fits : j <= i

LastLines(log) ==
  SubSeq(log.lines, Len(log.lines) - NumberFitting(log) + 1, Len(log.lines))

(* The lines answered are the last ones of the log, all that fit.  What is *)
(* left of the line before them is answered too when it looks like a line. *)
IsTail(lines, log) ==
  LET whole == Selected(LastLines(log), WellFormed)
  IN  \/ lines = whole
      \/ /\ Len(log.lines) > Len(LastLines(log))
         /\ Len(lines) = Len(whole) + 1
         /\ Tail(lines) = whole
         /\ IsSuffix(lines[1], log.lines[Len(log.lines) - Len(LastLines(log))])
=============================================================================
