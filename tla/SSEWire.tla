------------------------------ MODULE SSEWire ------------------------------
(***************************************************************************)
(* The event stream format, from both ends: what writeSSEEvent puts on the *)
(* wire (http/streamable.go; BaseSSEConn writes events with data in the    *)
(* same form), and the two readers, the incremental parser of the          *)
(* TypeScript clients (sse-parser.ts) and SSEEventReader (sse_reader.go).  *)
(*                                                                         *)
(* The wire is a sequence of symbols: the text of a line, which is a field *)
(* name and a value, or the end of a line.  A blank line is an end of line *)
(* after another.  The servers write LF only, so CR and CRLF do not occur. *)
(***************************************************************************)
EXTENDS Naturals, SequencesExt

None == 0                                 \* a field that was not sent

Text(field, value) == [field |-> field, value |-> value]
EOL == [field |-> "eol", value |-> None]

\* An event: its type and ID, None if empty, and the lines of its encoded
\* data, none if Data is nil.
Event(type, id, data) == [event |-> type, id |-> id, data |-> data]
NoEvent == Event(None, None, <<>>)

\* fmt.Fprintf(w, "<field>: %s\n", value)
Line(field, value) == <<Text(field, value), EOL>>

WriteLine(text, value) == text \o Line("data", value)
WriteData(data) == FoldLeft(WriteLine, <<>>, data)

\* writeSSEEvent
WriteEvent(e) ==
  (IF e.event # None THEN Line("event", e.event) ELSE <<>>)
  \o (IF e.id # None THEN Line("id", e.id) ELSE <<>>)
  \o WriteData(e.data)
  \o <<EOL>>

\* The lines of a text that ends with an end of line; EOL stands for a blank one.
CutLine(acc, s) ==
  IF s # EOL THEN [acc EXCEPT !.line = s]
  ELSE [line |-> EOL, lines |-> Append(acc.lines, acc.line)]

Lines(text) == FoldLeft(CutLine, [line |-> EOL, lines |-> <<>>], text).lines

\* splitLines: what is complete, and the rest.
Complete(text) ==
  LET cut == {i \in DOMAIN text : text[i] = EOL}
  IN  IF cut = {} THEN <<>> ELSE SubSeq(text, 1, CHOOSE i \in cut : \A j \in cut : j <= i)

-----------------------------------------------------------------------------
(* sse-parser.ts.  The parser keeps the line it has not seen the end of and *)
(* the fields of the event it is in.                                        *)

NewParser == [incompleteLine |-> <<>>, event |-> NoEvent]

\* Mutant: a second data line replaces the first.
ProcessField_Replace(e, line) ==
  CASE line.field = "event" -> [e EXCEPT !.event = line.value]
    [] line.field = "id" -> [e EXCEPT !.id = line.value]
    [] line.field = "data" -> [e EXCEPT !.data = <<line.value>>]

ProcessField(e, line) ==
  CASE line.field = "event" -> [e EXCEPT !.event = line.value]
    [] line.field = "id" -> [e EXCEPT !.id = line.value]
    [] line.field = "data" -> [e EXCEPT !.data = Append(@, line.value)]

\* dispatchEvent: only events with data are handed on.
Dispatches(e) == e.data # <<>>

TakeEvent(out, e) == IF Dispatches(e) THEN Append(out, e) ELSE out

\* The events of a sequence that are handed on: a selection, as a fold.
Dispatched(evs) == FoldLeft(TakeEvent, <<>>, evs)

NewAcc(event) == [event |-> event, out |-> <<>>]

\* parseLine
ParseLine(acc, line) ==
  IF line # EOL THEN [acc EXCEPT !.event = ProcessField(@, line)]
  ELSE [event |-> NoEvent, out |-> TakeEvent(acc.out, acc.event)]

\* Mutant: a line that is cut by the end of a chunk is lost.
Feed_Forget(parser, chunk) ==
  LET done == FoldLeft(ParseLine, NewAcc(parser.event), Lines(Complete(chunk)))
  IN  [parser |-> [incompleteLine |-> <<>>, event |-> done.event], out |-> done.out]

\* feed: the parser afterwards and the events it has dispatched.
Feed(parser, chunk) ==
  LET text == parser.incompleteLine \o chunk
      complete == Complete(text)
      done == FoldLeft(ParseLine, NewAcc(parser.event), Lines(complete))
  IN  [parser |-> [incompleteLine |-> SubSeq(text, Len(complete) + 1, Len(text)),
                   event |-> done.event],
       out |-> done.out]

-----------------------------------------------------------------------------
(* sse_reader.go: ReadEvent, called again and again, on the text received   *)
(* so far.  It also returns events that have fields but no data.            *)

\* sseReadState: a line was taken up since the last event.
HasFields(e) == e # NoEvent

ReadLine(acc, line) ==
  IF line # EOL THEN [acc EXCEPT !.event = ProcessField(@, line)]
  ELSE IF ~HasFields(acc.event) THEN acc
  ELSE [event |-> NoEvent, out |-> Append(acc.out, acc.event)]

ReadEvents(text) ==
  FoldLeft(ReadLine, NewAcc(NoEvent), Lines(Complete(text))).out
=============================================================================
