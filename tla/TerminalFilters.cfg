\* Up to three keys, pastes or drops, or writes of the tool, over two sessions,
\* cut at every place; the cap lies between the drop and what follows it.
CONSTANTS
  Keyboard <- MCKeyboard
  Writes <- MCWrites
  Files <- MCFiles
  MAX_PASTE_BYTES = 15
  STRIPPED_MODES <- MCStripped
  MaxTyped = 3
  MaxWritten = 3
  MaxStory = 4
SPECIFICATION Spec
INVARIANTS NothingAltered DropsTaken KeysAsTyped MouseStaysLocal
CHECK_DEADLOCK FALSE
