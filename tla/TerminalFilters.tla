--------------------------- MODULE TerminalFilters ---------------------------
(***************************************************************************)
(* The client between the local terminal and the hub: the bytes the user   *)
(* types, which reach the menu's key parser (client/input.rs), the         *)
(* reconnect banner or, in a session, the bracketed-paste detector         *)
(* (client/paste_detect.rs); and the bytes of the tool, from which the     *)
(* mouse and alternate-screen modes are taken (client/mouse_filter.rs).    *)
(* Both streams are cut anywhere by reads and frames.                      *)
(*                                                                         *)
(* A byte is a member of a small set; a digit, a letter and so on stand    *)
(* for their kind.  What an upload sends for a dropped file is Client's    *)
(* matter.                                                                 *)
(***************************************************************************)
EXTENDS Naturals, Sequences, SequencesExt, FiniteSetsExt

CONSTANTS
  Keyboard,         \* what the terminal may send at once: records of
                    \*   bytes, the keys they mean, the files they drop
  Writes,           \* what the tool may write at once: records of bytes
  Files,            \* names of local files
  MAX_PASTE_BYTES,
  STRIPPED_MODES,
  MaxTyped, MaxWritten,  \* bounds: members of Keyboard and of Writes
  MaxStory               \* bound: these and the beginnings and ends of sessions

ESC == "ESC"
PASTE_START == <<ESC, "[", "2", "0", "0", "~">>
PASTE_END   == <<ESC, "[", "2", "0", "1", "~">>
Digits == {"0", "1", "2"}
Finals == {"[", "A", "O", "\\", "h", "q", "x", "~"}  \* 0x40 ..= 0x7e

ASSUME FilterAssumption ==
  /\ \A k \in Keyboard : k.bytes # <<>>
  /\ MAX_PASTE_BYTES \in Nat /\ <<>> \notin Files

VARIABLES
  place,     \* who reads the keyboard: the menu, a session, the wait for an
             \* agent (hold) or for the hub (redial); or the program is over
  turns,     \* how often a session began or ended
  typed,     \* what was typed
  unread,    \* the bytes of it not read yet
  detector,  \* PasteDetector of the session
  log,       \* what became of the bytes that were read
  written,   \* the bytes the tool wrote
  unshown,   \* those the relay has not read yet
  pending,   \* MouseModeStripper.pending
  shown      \* what became of those it has read

keyboardVars == <<typed, unread, detector, log>>
screenVars   == <<written, unshown, pending, shown>>
vars == <<place, turns, keyboardVars, screenVars>>

Drop(s, n) == SubSeq(s, n + 1, Len(s))
Event(what, bytes) == [what |-> what, bytes |-> bytes]
NonEmpty(events) == SelectSeq(events, LAMBDA e : e.bytes # <<>>)

\* A record of events does not say in how many pieces a stretch came
Joined(events, e) ==
  IF /\ events # <<>> /\ e.what \in {"keys", "pass", "lost"}
     /\ e.what = Last(events).what
  THEN [events EXCEPT ![Len(events)].bytes = @ \o e.bytes]
  ELSE Append(events, e)
With(events, more) == FoldLeft(Joined, events, more)

-----------------------------------------------------------------------------
(* input.rs: the keys of a chunk                                            *)

Navigation(b) == IF b = "A" THEN <<"Up">> ELSE <<>>

\* A bug the properties must catch: SS3 sequences are dropped
ApplicationKeyDropped(s) == <<>>

\* ESC O ..: the arrows in application mode
ApplicationKey(s) == IF Len(s) = 2 THEN <<>> ELSE Navigation(s[3])

RECURSIVE parse_keys(_)
parse_keys(s) ==
  LET finals == {j \in 3 .. Len(s) : s[j] \in Finals} IN
  CASE s = <<>> -> <<>>
    [] s # <<>> /\ Head(s) # ESC -> <<Head(s)>> \o parse_keys(Tail(s))
    [] s = <<ESC>> -> <<"Escape">>
    [] IsPrefix(<<ESC, "[">>, s) ->
         IF finals = {} THEN <<>>
         ELSE (IF Min(finals) = 3 THEN Navigation(s[3]) ELSE <<>>)
              \o parse_keys(Drop(s, Min(finals)))
    [] IsPrefix(<<ESC, "O">>, s) -> ApplicationKey(s) \o parse_keys(Drop(s, 3))
    [] OTHER -> <<"Escape">> \o parse_keys(Tail(s))

chunk_has_quit_key(s) == \E k \in {"Escape", "q"} : Contains(parse_keys(s), k)

-----------------------------------------------------------------------------
(* paste_detect.rs                                                          *)

NewDetector == [buf |-> <<>>, in_paste |-> FALSE, overflowed |-> FALSE]

\* find_subslice: where needle starts in hay
Places(hay, needle) ==
  {i \in 1 .. Len(hay) - Len(needle) + 1 :
     SubSeq(hay, i, i + Len(needle) - 1) = needle}

\* A bug the properties must catch: a marker cut by a read is passed through
NoPartialPrefix(hay, needle) == 0

\* partial_prefix_len: the end of hay that may be the start of needle
partial_prefix_len(hay, needle) ==
  Max({0} \cup {n \in 1 .. Len(needle) - 1 :
                  /\ n <= Len(hay)
                  /\ Drop(hay, Len(hay) - n) = SubSeq(needle, 1, n)})

\* A bug the properties must catch: what may be the start of a marker is dropped
FlushedDropsTail(d, marker) ==
  LET n == Len(d.buf) - partial_prefix_len(d.buf, marker) IN
  <<[d EXCEPT !.buf = <<>>], <<Event("pass", SubSeq(d.buf, 1, n))>> >>

\* No marker in the buffer: all but a possible start of one is passed through
Flushed(d, marker) ==
  LET n == Len(d.buf) - partial_prefix_len(d.buf, marker) IN
  <<[d EXCEPT !.buf = Drop(@, n)], <<Event("pass", SubSeq(d.buf, 1, n))>> >>

\* feed's loop over step_outside_paste and step_in_paste: the detector and the
\* events so far
RECURSIVE Steps(_, _)
Steps(d, events) ==
  LET marker == IF d.in_paste THEN PASTE_END ELSE PASTE_START
      at     == Places(d.buf, marker)
      front  == SubSeq(d.buf, 1, Min(at) - 1)
      back   == Drop(d.buf, Min(at) + Len(marker) - 1)
      stop   == Flushed(d, marker)
      over   == Len(d.buf) > MAX_PASTE_BYTES
  IN
  CASE ~d.in_paste /\ at # {} ->
         Steps([buf |-> back, in_paste |-> TRUE, overflowed |-> FALSE],
               Append(events, Event("pass", front)))
    [] d.overflowed /\ at # {} ->
         Steps([buf |-> back, in_paste |-> FALSE, overflowed |-> FALSE],
               Append(events, Event("pass", front \o PASTE_END)))
    [] (~d.in_paste \/ d.overflowed) /\ at = {} ->
         <<stop[1], events \o stop[2]>>
    [] d.in_paste /\ ~d.overflowed /\ over ->
         Steps([d EXCEPT !.overflowed = TRUE],
               Append(events, Event("overflow", PASTE_START)))
    [] d.in_paste /\ ~d.overflowed /\ ~over /\ at # {} ->
         Steps([d EXCEPT !.buf = back, !.in_paste = FALSE],
               Append(events, Event("paste", front)))
    [] OTHER -> <<d, events>>

feed(d, chunk) == Steps([d EXCEPT !.buf = @ \o chunk], <<>>)

\* What the detector holds of the stream
Held(d) == (IF d.in_paste /\ ~d.overflowed THEN PASTE_START ELSE <<>>) \o d.buf

wrap_as_paste(content) == PASTE_START \o content \o PASTE_END

\* parse_paste_paths, one character: tokens, the one being read, the open
\* quote and whether the last character was an escape
Lexed(l, c) ==
  CASE l.escape -> [l EXCEPT !.cur = Append(@, c), !.escape = FALSE]
    [] ~l.escape /\ l.quote = c -> [l EXCEPT !.quote = "none"]
    [] ~l.escape /\ l.quote \notin {"none", c} ->
         [l EXCEPT !.cur = Append(@, c)]
    [] OTHER ->
       CASE c = "\\" -> [l EXCEPT !.escape = TRUE, !.has_token = TRUE]
         [] c \in {"'", "\""} -> [l EXCEPT !.quote = c, !.has_token = TRUE]
         [] c = " " ->
              [l EXCEPT !.cur = <<>>, !.has_token = FALSE,
                        !.tokens = IF l.has_token THEN Append(@, l.cur) ELSE @]
         [] OTHER -> [l EXCEPT !.cur = Append(@, c), !.has_token = TRUE]

parse_paste_paths(content) ==
  LET l == FoldLeft(Lexed, [tokens |-> <<>>, cur |-> <<>>, has_token |-> FALSE,
                            quote |-> "none", escape |-> FALSE], content)
      last == IF l.escape THEN Append(l.cur, "\\") ELSE l.cur
  IN IF l.has_token THEN Append(l.tokens, last) ELSE l.tokens

is_file_drop(content) ==
  LET tokens == parse_paste_paths(content) IN
  tokens # <<>> /\ Range(tokens) \subseteq Files

\* The relay's part: a paste that names files is an upload, any other goes on
Relayed(events) ==
  NonEmpty([i \in DOMAIN events |->
    IF events[i].what # "paste" THEN events[i]
    ELSE Event(IF is_file_drop(events[i].bytes) THEN "drop" ELSE "paste",
               wrap_as_paste(events[i].bytes))])

-----------------------------------------------------------------------------
(* mouse_filter.rs                                                          *)

\* The parameters between the ? and the final byte
Params(s) ==
  {SubSeq(s, i, j) : <<i, j>> \in
     {<<i, j>> \in (1 .. Len(s) + 1) \X (0 .. Len(s)) :
        /\ i <= j + 1 /\ \A k \in i .. j : s[k] # ";"
        /\ i = 1 \/ s[i - 1] = ";"
        /\ j = Len(s) \/ s[j + 1] = ";"}}

\* A bug the properties must catch: only a single parameter is recognised
decide_single(buf) ==
  LET n == Len(buf)
      known == SubSeq(<<ESC, "[", "?">>, 1, Min({n, 3}))
  IN
  CASE ~IsPrefix(known, buf) -> "Flush"
    [] IsPrefix(known, buf) /\ (n < 4 \/ buf[n] \in Digits \cup {";"}) ->
         "Incomplete"
    [] OTHER -> IF /\ buf[n] \in {"h", "l"}
                   /\ SubSeq(buf, 4, n - 1) \in STRIPPED_MODES
                THEN "Strip" ELSE "Flush"

\* buf starts with ESC
decide(buf) ==
  LET n == Len(buf)
      known == SubSeq(<<ESC, "[", "?">>, 1, Min({n, 3}))
  IN
  CASE ~IsPrefix(known, buf) -> "Flush"
    [] IsPrefix(known, buf) /\ (n < 4 \/ buf[n] \in Digits \cup {";"}) ->
         "Incomplete"
    [] OTHER -> IF /\ buf[n] \in {"h", "l"}
                   /\ Params(SubSeq(buf, 4, n - 1)) \cap STRIPPED_MODES # {}
                THEN "Strip" ELSE "Flush"

\* filter, one byte: what is pending and the events so far
Filtered(f, b) ==
  LET held == Append(f.pending, b) IN
  CASE f.pending = <<>> /\ b # ESC ->
         [f EXCEPT !.events = Append(@, Event("pass", <<b>>))]
    [] f.pending = <<>> /\ b = ESC -> [f EXCEPT !.pending = held]
    [] f.pending # <<>> /\ decide(held) = "Incomplete" ->
         [f EXCEPT !.pending = held]
    [] f.pending # <<>> /\ decide(held) = "Strip" ->
         [pending |-> <<>>, events |-> Append(f.events, Event("strip", held))]
    [] OTHER ->
         [pending |-> <<>>, events |-> Append(f.events, Event("pass", held))]

filter(held, chunk) ==
  FoldLeft(Filtered, [pending |-> held, events |-> <<>>], chunk)

-----------------------------------------------------------------------------
Bytes(s) == FlattenSeq([i \in DOMAIN s |-> s[i].bytes])

\* What is typed and written is there from the start: a read takes any first
\* part of it, as if the rest came later.  The streams share nothing but the
\* session: a behaviour has one of them.
Init ==
  /\ \/ place = "session" /\ turns = 0
     \/ place = "menu" /\ turns = 1
  /\ typed \in BoundedSeq(Keyboard, MaxTyped)
  /\ written \in BoundedSeq(Writes, MaxWritten)
  /\ typed = <<>> <=> written # <<>>
  /\ place = "session" \/ written = <<>>
  /\ unread = Bytes(typed) /\ unshown = Bytes(written)
  /\ detector = NewDetector /\ pending = <<>>
  /\ log = <<>> /\ shown = <<>>

Gone(bytes) == NonEmpty(<<Event("lost", bytes)>>)

Turn == /\ turns + Len(typed) + Len(written) < MaxStory
        /\ turns' = turns + 1

\* The relay starts, with filters of its own
SessionBegins ==
  /\ place \in {"menu", "hold", "redial"} /\ Turn
  /\ place' = "session"
  /\ detector' = NewDetector
  /\ pending' = <<>>
  /\ UNCHANGED <<typed, unread, log, written, unshown, shown>>

\* The relay ends, for the menu or for a wait; what its filters hold goes with
\* it
SessionEnds(next) ==
  /\ place = "session" /\ Turn
  /\ place' = next
  /\ log' = With(log, Gone(Held(detector)))
  /\ shown' = With(shown, Gone(pending))
  /\ detector' = NewDetector /\ pending' = <<>>
  /\ UNCHANGED <<typed, unread, written, unshown>>

\* The menu, or a wait, gets a chunk of n bytes and acts on its keys: Esc and q
\* cancel the wait for the agent, and end the program in that for the hub
KeysRead(n) ==
  LET chunk == SubSeq(unread, 1, n) IN
  /\ place \in {"menu", "hold", "redial"}
  /\ place' = CASE ~chunk_has_quit_key(chunk) -> place
                [] place = "redial" -> "over"
                [] OTHER -> "menu"
  /\ unread' = Drop(unread, n)
  /\ log' = With(log, <<Event("keys", chunk)>>)
  /\ UNCHANGED <<turns, typed, detector, screenVars>>

\* The relay gets a chunk of n bytes
SessionReads(n) ==
  LET fed == feed(detector, SubSeq(unread, 1, n)) IN
  /\ place = "session"
  /\ detector' = fed[1]
  /\ log' = With(log, Relayed(fed[2]))
  /\ unread' = Drop(unread, n)
  /\ UNCHANGED <<place, turns, typed, screenVars>>

\* ... and finds the connection gone when it sends one of the events
SessionCut(n) ==
  LET fed    == feed(detector, SubSeq(unread, 1, n))
      events == Relayed(fed[2])
  IN
  /\ place = "session" /\ Turn
  /\ \E i \in DOMAIN events :
       /\ events[i].what # "drop"
       /\ log' = With(log, SubSeq(events, 1, i - 1)
                           \o Gone(Bytes(Drop(events, i - 1)) \o Held(fed[1])))
  /\ place' = "redial"
  /\ detector' = NewDetector
  /\ shown' = With(shown, Gone(pending)) /\ pending' = <<>>
  /\ unread' = Drop(unread, n)
  /\ UNCHANGED <<typed, written, unshown>>

\* The relay gets a frame with n bytes of the tool
SessionShows(n) ==
  LET f == filter(pending, SubSeq(unshown, 1, n)) IN
  /\ place = "session"
  /\ pending' = f.pending
  /\ shown' = With(shown, f.events)
  /\ unshown' = Drop(unshown, n)
  /\ UNCHANGED <<place, turns, keyboardVars, written>>

Next ==
  \/ SessionBegins \/ \E next \in {"menu", "hold", "redial"} : SessionEnds(next)
  \/ \E n \in DOMAIN unread : KeysRead(n) \/ SessionReads(n) \/ SessionCut(n)
  \/ \E n \in DOMAIN unshown : SessionShows(n)

Spec == Init /\ [][Next]_vars

-----------------------------------------------------------------------------
(* The terminal emulator: the modes it is in after a stream of bytes        *)

Emulated(t, b) ==
  LET end == [t EXCEPT !.state = "ground", !.body = <<>>] IN
  CASE b = ESC ->
         [end EXCEPT !.state = "esc",
                     !.broken = @ \/ t.state \in {"esc", "csi", "private"}]
    [] b # ESC /\ t.state = "esc" /\ b = "["   -> [t EXCEPT !.state = "csi"]
    [] b # ESC /\ t.state = "csi" /\ b = "?"   -> [t EXCEPT !.state = "private"]
    [] b # ESC /\ t.state = "private" /\ b = "h" ->
         [end EXCEPT !.modes = @ \cup Params(t.body)]
    [] b # ESC /\ t.state = "private" /\ b = "l" ->
         [end EXCEPT !.modes = @ \ Params(t.body)]
    [] b # ESC /\ t.state = "private" /\ b \in Digits \cup {";"} ->
         [t EXCEPT !.body = Append(@, b)]
    [] OTHER -> end

Terminal(bytes) ==
  FoldLeft(Emulated, [state |-> "ground", body |-> <<>>, modes |-> {},
                      broken |-> FALSE], bytes)

-----------------------------------------------------------------------------
(* What the filters keep                                                    *)

\* Every byte typed goes to one place, in the order typed: to the menu, to the
\* tool, to an upload, or away with a session that ended; so does every byte
\* of the tool.  However the stream was cut, whatever its size, a paste that
\* names no file arrives as it was ("forwarded verbatim so normal typing /
\* pasting is never altered", paste_detect.rs).
NothingAltered ==
  /\ Bytes(typed) = Bytes(log) \o Held(detector) \o unread
  /\ Bytes(written) = Bytes(shown) \o pending \o unshown

\* Where the i-th member of a stream lies in it
Span(events, i) ==
  LET from == Len(Bytes(SubSeq(events, 1, i - 1))) IN
  <<from, from + Len(events[i].bytes)>>

\* A file dropped on the terminal is uploaded, and its path not typed into the
\* tool, however the drop was cut by reads and whatever was typed around it;
\* unless it met the end of a session or came with more than the cap.  Nothing
\* but a drop is taken for one.
Met(i) == {j \in DOMAIN log : /\ Span(log, j)[1] < Span(typed, i)[2]
                              /\ Span(typed, i)[1] < Span(log, j)[2]}
Accounted(i) == Span(typed, i)[2] <= Len(Bytes(log))
DropsTaken ==
  \A i \in DOMAIN typed : Accounted(i) =>
    LET kinds == {log[j].what : j \in Met(i)} IN
    IF typed[i].files = <<>> THEN "drop" \notin kinds
    ELSE \/ kinds \cap {"keys", "lost", "overflow"} # {}
         \/ \E j \in DOMAIN log :
              /\ Met(i) = {j} /\ Span(log, j) = Span(typed, i)
              /\ log[j].what = "drop"
              /\ LET content == SubSeq(log[j].bytes, 7, Len(log[j].bytes) - 6)
                 IN parse_paste_paths(content) = typed[i].files

\* Keys that a read did not cut are the keys the menu acts on, in both modes of
\* the arrow keys, whatever came with them.  An Esc right before a [ or an O is
\* not told from a sequence (parse_keys).
Glued(read) == \E i \in 1 .. Len(read) - 1 :
  read[i].bytes = <<ESC>> /\ Head(read[i + 1].bytes) \in {"[", "O"}
KeysAsTyped ==
  Len(log) = 1 /\ log[1].what = "keys" =>
    \A i \in DOMAIN typed :
      LET read == SubSeq(typed, 1, i) IN
      log[1].bytes = Bytes(read) /\ ~Glued(read)
        => parse_keys(Bytes(read)) =
             FlattenSeq([j \in DOMAIN read |-> read[j].keys])

\* No mouse or alternate-screen mode of the tool's reaches the terminal,
\* however the stream was cut and whatever stands around; unless the tool
\* breaks a sequence off with another ESC, which the terminal then follows and
\* the filter does not.
MouseStaysLocal ==
  LET passed == SelectSeq(shown, LAMBDA e : e.what = "pass") IN
  \/ Terminal(Bytes(written)).broken
  \/ Terminal(Bytes(passed)).modes \cap STRIPPED_MODES = {}
=============================================================================
