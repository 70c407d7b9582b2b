-------------------------- MODULE MCTerminalFilters --------------------------
(* An instance of TerminalFilters for TLC: keys, arrows in both modes, Esc, *)
(* a paste and a drop of two files; modes to strip, modes to keep, and      *)
(* sequences the tool breaks off.                                           *)
EXTENDS TerminalFilters

Key(b)  == [bytes |-> <<b>>, keys |-> <<b>>, files |-> <<>>]
Paste(content, files) ==
  [bytes |-> wrap_as_paste(content), keys |-> parse_keys(content),
   files |-> files]

MCKeyboard ==
  {Key("q"), Key("["),
   [bytes |-> <<ESC>>, keys |-> <<"Escape">>, files |-> <<>>],
   [bytes |-> <<ESC, "[", "A">>, keys |-> <<"Up">>, files |-> <<>>],
   [bytes |-> <<ESC, "O", "A">>, keys |-> <<"Up">>, files |-> <<>>],
   Paste(<<"q">>, <<>>),
   \* two files with a blank in their names, escaped and quoted
   Paste(<<"x", "\\", " ", " ", "'", "x", " ", "'">>,
         << <<"x", " ">>, <<"x", " ">> >>)}

MCFiles == {<<"x", " ">>}

Private(body, final) == <<ESC, "[", "?">> \o body \o <<final>>
MCWrites == {[bytes |-> b] : b \in
  {<<ESC>>, <<ESC, "[", "1", "A">>, <<ESC, "[", "?", "1">>,
   Private(<<"1">>, "l"), Private(<<"1", "0">>, "h"),
   Private(<<"1", ";", "1", "0">>, "h")}}
MCStripped == {<<"1", "0">>}
=============================================================================
